------------------------- MODULE SessionStoreProofs -------------------------
(***************************************************************************)
(* Proofs about SessionStore for any number of sessions, instances and     *)
(* callers, without the bounds of its runs.                                *)
(***************************************************************************)
EXTENDS SessionStore, FiniteSetTheorems, TLAPS

-----------------------------------------------------------------------------
(* The inductive invariant.                                                *)

\* What was read is an earlier version of the row: the revision and the
\* sequence only grow, and a revision names one state and one retry count.
Earlier(old, now) ==
    /\ old.revision <= now.revision
    /\ old.last_event_sequence <= now.last_event_sequence
    /\ old.revision = now.revision =>
         old.state = now.state /\ old.retry_count = now.retry_count

AbsentRows == \A s \in Sessions : row[s].state = "ABSENT" => row[s] = Absent

SnapshotsEarlier ==
    \A c \in Callers, s \in Sessions :
        snapshot[c][s] # Absent => row[s] # Absent /\ Earlier(snapshot[c][s], row[s])

CallsEarlier ==
    \A c \in Callers :
        call[c].kind # "none" =>
          /\ row[call[c].session] # Absent
          /\ call[c].current.state # "ABSENT"
          /\ Earlier(call[c].current, row[call[c].session])

CallsLegal ==
    \A c \in Callers :
        call[c].kind = "transition" =>
          Decidable(call[c].current.state, call[c].target, call[c].current.retry_count)

LastEventIsState ==
    \A s \in Sessions : \A e \in events[s] :
        e.sequence = row[s].last_event_sequence => e.state = row[s].state

IInv ==
    /\ TypeOK
    /\ AbsentRows
    /\ SnapshotsEarlier
    /\ CallsEarlier
    /\ CallsLegal
    /\ LogContiguous
    /\ LastEventIsState
    /\ LogIsLegalPath

-----------------------------------------------------------------------------
(* The transition rules.                                                   *)

\* A legal transition leads to a state, has one of the fifteen event names and
\* keeps within the retry budget.
LEMMA DecidableFacts ==
    ASSUME NEW source, NEW target, NEW retries \in 0..MaxRetries,
           Decidable(source, target, retries)
    PROVE  /\ source \in DebugState /\ target \in DebugState
           /\ target \in Successors(source)
           /\ EventFor(source, target) \in TransitionEvents
           /\ NextRetryCount(source, target, retries) \in 0..MaxRetries
  <1>1. target \in Successors(source)
    BY DEF Decidable
  <1>2. source \in DebugState /\ target \in DebugState
    BY <1>1 DEF Successors, DebugState
  <1>3. EventFor(source, target) \in TransitionEvents
    BY <1>1 DEF Successors, EventFor, FailureEvent, IsRetry, TransitionEvents
  <1>4. NextRetryCount(source, target, retries) \in 0..MaxRetries
    BY DEF Decidable, NextRetryCount, MaxRetries
  <1> QED
    BY <1>1, <1>2, <1>3, <1>4

-----------------------------------------------------------------------------
(* A commit, whichever mutation it ends.                                   *)

\* What a committing call finds: the row is as it was read, so the event takes
\* the next free sequence number.
LEMMA CommitFacts ==
    ASSUME IInv, NEW c \in Callers, Commit(c)
    PROVE  LET k == call[c]
               s == k.session
           IN  /\ k \in Call
               /\ row[s].state = k.current.state /\ row[s].state \in DebugState
               /\ row[s].revision = k.current.revision
               /\ row[s].retry_count = k.current.retry_count
               /\ row[s].last_event_sequence = k.current.last_event_sequence
  <1> DEFINE k == call[c]
             s == k.session
  <1>1. k \in Call /\ s \in Sessions /\ k.kind # "none"
    BY DEF IInv, TypeOK, Commit, Call
  <1>2. row[s] \in Row /\ k.current \in Row
    BY <1>1 DEF IInv, TypeOK, Call
  <1>3. row[s].revision = k.current.revision
    BY DEF Commit, RowMatches
  <1>4. row[s].state = k.current.state /\ row[s].retry_count = k.current.retry_count
    BY <1>1, <1>3 DEF IInv, CallsEarlier, Earlier
  <1>5. row[s].state \in DebugState
    BY <1>1, <1>2, <1>4 DEF IInv, CallsEarlier, Row
  <1>6. k.current.last_event_sequence <= row[s].last_event_sequence
    BY <1>1 DEF IInv, CallsEarlier, Earlier
  <1>7. ~ (k.current.last_event_sequence < row[s].last_event_sequence)
    <2> SUFFICES ASSUME k.current.last_event_sequence < row[s].last_event_sequence
                 PROVE  FALSE
      OBVIOUS
    <2>1. k.current.last_event_sequence + 1 \in 1..row[s].last_event_sequence
      BY <1>2 DEF Row
    <2>2. \E e \in events[s] : e.sequence = k.current.last_event_sequence + 1
      BY <1>1, <2>1 DEF IInv, LogContiguous
    <2>3. ~SequenceTaken(k)
      BY DEF Commit
    <2> QED
      BY <2>2, <2>3 DEF SequenceTaken, EventOf
  <1> QED
    BY <1>1, <1>2, <1>3, <1>4, <1>5, <1>6, <1>7 DEF Row

\* What it writes: a row of the next sequence and, for a transition, of the
\* next revision; and one event.
LEMMA CommitWrites ==
    ASSUME IInv, NEW c \in Callers, Commit(c)
    PROVE  LET k   == call[c]
               s   == k.session
               old == row[s]
               new == row'[s]
               e   == EventOf(k)
           IN  /\ s \in Sessions
               /\ new \in Row /\ new.state \in DebugState
               /\ new.last_event_sequence = old.last_event_sequence + 1
               /\ \/ /\ new.state = old.state /\ new.revision = old.revision
                     /\ new.retry_count = old.retry_count
                     /\ e.name = "PROGRESS"
                  \/ /\ Decidable(old.state, new.state, old.retry_count)
                     /\ new.revision = old.revision + 1
                     /\ new.retry_count =
                          NextRetryCount(old.state, new.state, old.retry_count)
                     /\ e.name = EventFor(old.state, new.state)
               /\ e \in Event
               /\ e.sequence = new.last_event_sequence /\ e.state = new.state
               /\ events'[s] = events[s] \cup {e}
               /\ \A r \in Sessions \ {s} : row'[r] = row[r] /\ events'[r] = events[r]
  <1> DEFINE k   == call[c]
             s   == k.session
             e   == EventOf(k)
  <1>1. k \in Call /\ s \in Sessions /\ k.kind \in {"transition", "append"}
    BY CommitFacts DEF Call, Commit
  <1>2. row[s] \in Row /\ k.current \in Row /\ k.target \in DebugState
    BY <1>1 DEF IInv, TypeOK, Call
  <1>3. /\ row[s].state = k.current.state /\ row[s].state \in DebugState
        /\ row[s].revision = k.current.revision
        /\ row[s].retry_count = k.current.retry_count
        /\ row[s].last_event_sequence = k.current.last_event_sequence
    BY CommitFacts
  <1>4. /\ row'[s] = Updated(k)
        /\ events'[s] = events[s] \cup {e}
        /\ \A r \in Sessions \ {s} : row'[r] = row[r] /\ events'[r] = events[r]
    BY <1>1 DEF Commit, IInv, TypeOK
  <1>5. CASE k.kind = "append"
    <2>1. Updated(k) = [k.current EXCEPT !.last_event_sequence = @ + 1]
      BY <1>5 DEF Updated
    <2>2. e = [sequence |-> k.current.last_event_sequence + 1, name |-> "PROGRESS",
               state |-> k.current.state]
      BY <1>5 DEF EventOf
    <2>3. /\ Updated(k) \in Row
          /\ Updated(k).state = k.current.state
          /\ Updated(k).revision = k.current.revision
          /\ Updated(k).retry_count = k.current.retry_count
          /\ Updated(k).last_event_sequence = k.current.last_event_sequence + 1
      BY <1>2, <2>1 DEF Row
    <2>4. e \in Event
      BY <1>2, <1>3, <2>2 DEF Event, Row
    <2> QED
      BY <1>1, <1>3, <1>4, <2>2, <2>3, <2>4
  <1>6. CASE k.kind = "transition"
    <2>1. Decidable(k.current.state, k.target, k.current.retry_count)
      BY <1>1, <1>6 DEF IInv, CallsLegal
    <2>2. /\ NextRetryCount(k.current.state, k.target, k.current.retry_count) \in 0..MaxRetries
          /\ EventFor(k.current.state, k.target) \in TransitionEvents
      BY <1>2, <2>1, DecidableFacts DEF Row
    <2>3. Updated(k) =
            [state |-> k.target, revision |-> k.current.revision + 1,
             retry_count |-> NextRetryCount(k.current.state, k.target, k.current.retry_count),
             last_event_sequence |-> k.current.last_event_sequence + 1]
      BY <1>6 DEF Updated
    <2>4. Updated(k) \in Row
      BY <1>2, <2>2, <2>3 DEF Row
    <2>5. e = [sequence |-> k.current.last_event_sequence + 1,
               name |-> EventFor(k.current.state, k.target), state |-> k.target]
      BY <1>6 DEF EventOf
    <2>6. e \in Event
      BY <1>2, <2>2, <2>5 DEF Event, Row
    <2> QED
      BY <1>1, <1>2, <1>3, <1>4, <2>1, <2>3, <2>4, <2>5, <2>6
  <1> QED
    BY <1>1, <1>5, <1>6

-----------------------------------------------------------------------------
(* Every action preserves the invariant.                                   *)

LEMMA InitIInv == Init => IInv
  <1> SUFFICES ASSUME Init PROVE IInv
    OBVIOUS
  <1>1. Absent \in Row /\ Absent.last_event_sequence = 0
    BY DEF Absent, Row, MaxRetries
  <1>2. \A s \in Sessions : Idle(s) \in Call /\ Idle(s).kind = "none"
    BY <1>1 DEF Idle, Call, DebugState
  <1>3. TypeOK
    BY <1>1, <1>2 DEF Init, TypeOK
  <1>4. LogContiguous
    BY <1>1 DEF Init, LogContiguous
  <1> QED
    BY <1>2, <1>3, <1>4
    DEF Init, IInv, AbsentRows, SnapshotsEarlier, CallsEarlier, CallsLegal,
        LastEventIsState, LogIsLegalPath

LEMMA CreateIInv ==
    ASSUME IInv, NEW c \in Callers, NEW s \in Sessions, Create(c, s)
    PROVE  IInv'
  <1> DEFINE new == [state |-> "IDLE", revision |-> 0, retry_count |-> 0,
                     last_event_sequence |-> 1]
             e   == [sequence |-> 1, name |-> "SESSION_STARTED", state |-> "IDLE"]
  <1>1. new \in Row /\ e \in Event
    BY DEF Row, Event, DebugState, MaxRetries
  <1>2. /\ row'[s] = new /\ events'[s] = {e}
        /\ \A r \in Sessions \ {s} : row'[r] = row[r] /\ events'[r] = events[r]
        /\ UNCHANGED <<lock, call, snapshot>>
    BY DEF Create, IInv, TypeOK
  <1>3. row[s] = Absent
    BY DEF Create
  <1>4. TypeOK'
    BY <1>1, <1>2 DEF Create, IInv, TypeOK
  <1>5. AbsentRows'
    BY <1>2 DEF IInv, AbsentRows
  <1>6. SnapshotsEarlier'
    BY <1>2, <1>3 DEF IInv, SnapshotsEarlier
  <1>7. CallsEarlier'
    <2> SUFFICES ASSUME NEW d \in Callers, call[d].kind # "none"
                 PROVE  /\ row'[call[d].session] # Absent
                        /\ call[d].current.state # "ABSENT"
                        /\ Earlier(call[d].current, row'[call[d].session])
      BY <1>2 DEF CallsEarlier
    <2>1. call[d].session \in Sessions \ {s}
      BY <1>3 DEF IInv, TypeOK, Call, CallsEarlier
    <2> QED
      BY <1>2, <2>1 DEF IInv, CallsEarlier
  <1>8. CallsLegal'
    BY <1>2 DEF IInv, CallsLegal
  <1>9. LogContiguous'
    <2>1. row'[s].last_event_sequence = 1 /\ e.sequence = 1
      BY <1>2
    <2>2. /\ \A f \in events'[s] : f.sequence \in 1..row'[s].last_event_sequence
          /\ \A n \in 1..row'[s].last_event_sequence : \E f \in events'[s] : f.sequence = n
          /\ \A f, g \in events'[s] : f.sequence = g.sequence => f = g
      BY <1>2, <2>1
    <2>3. ASSUME NEW r \in Sessions
          PROVE  /\ \A f \in events'[r] : f.sequence \in 1..row'[r].last_event_sequence
                 /\ \A n \in 1..row'[r].last_event_sequence :
                      \E f \in events'[r] : f.sequence = n
                 /\ \A f, g \in events'[r] : f.sequence = g.sequence => f = g
      <3>1. CASE r = s
        BY <2>2, <3>1
      <3>2. CASE r # s
        BY <1>2, <3>2 DEF IInv, LogContiguous
      <3> QED
        BY <3>1, <3>2
    <2> QED
      BY <2>3 DEF LogContiguous
  <1>10. LastEventIsState'
    BY <1>2 DEF IInv, LastEventIsState
  <1>11. LogIsLegalPath'
    BY <1>2 DEF IInv, LogIsLegalPath
  <1> QED
    BY <1>4, <1>5, <1>6, <1>7, <1>8, <1>9, <1>10, <1>11 DEF IInv

LEMMA GetIInv ==
    ASSUME IInv, NEW c \in Callers, NEW s \in Sessions, Get(c, s)
    PROVE  IInv'
  <1>1. UNCHANGED <<row, events, lock, call>>
    BY DEF Get
  <1>2. TypeOK'
    BY <1>1 DEF Get, IInv, TypeOK
  <1>3. SnapshotsEarlier'
    <2> SUFFICES ASSUME NEW d \in Callers, NEW r \in Sessions, snapshot'[d][r] # Absent
                 PROVE  row[r] # Absent /\ Earlier(snapshot'[d][r], row[r])
      BY <1>1 DEF SnapshotsEarlier
    <2>1. CASE d = c /\ r = s
      <3>1. snapshot'[d][r] = row[r] /\ row[r] # Absent
        BY <2>1 DEF Get, IInv, TypeOK
      <3> QED
        BY <3>1 DEF IInv, TypeOK, Row, Earlier
    <2>2. CASE ~(d = c /\ r = s)
      <3>1. snapshot'[d][r] = snapshot[d][r]
        BY <2>2 DEF Get, IInv, TypeOK
      <3> QED
        BY <3>1 DEF IInv, SnapshotsEarlier
    <2> QED
      BY <2>1, <2>2
  <1> QED
    BY <1>1, <1>2, <1>3
    DEF IInv, AbsentRows, CallsEarlier, CallsLegal, LogContiguous, LastEventIsState,
        LogIsLegalPath

\* Starting a mutation records the row as it is.
LEMMA EnterIInv ==
    ASSUME IInv, NEW c \in Callers, NEW s \in Sessions, NEW t \in DebugState,
           NEW kind \in {"transition", "append"}, Enter(c, kind, s, t),
           kind = "transition" => Decidable(row[s].state, t, row[s].retry_count)
    PROVE  IInv'
  <1> DEFINE k == [kind |-> kind, session |-> s, target |-> t, current |-> row[s]]
  <1>1. UNCHANGED <<row, events, snapshot>>
    BY DEF Enter
  <1>2. row[s] \in Row /\ k \in Call
    BY DEF IInv, TypeOK, Call
  <1>3. call'[c] = k /\ \A d \in Callers \ {c} : call'[d] = call[d]
    BY DEF Enter, IInv, TypeOK
  <1>4. TypeOK'
    BY <1>1, <1>2, CallersAssumption DEF Enter, IInv, TypeOK
  <1>5. CallsEarlier'
    BY <1>1, <1>2, <1>3 DEF Enter, IInv, AbsentRows, CallsEarlier, Earlier, Row
  <1>6. CallsLegal'
    BY <1>3 DEF IInv, CallsLegal
  <1> QED
    BY <1>1, <1>4, <1>5, <1>6
    DEF IInv, AbsentRows, SnapshotsEarlier, LogContiguous, LastEventIsState, LogIsLegalPath

\* A commit preserves the log: its event extends the path by one legal step.
LEMMA CommitLog ==
    ASSUME IInv, NEW c \in Callers, Commit(c)
    PROVE  LogContiguous' /\ LastEventIsState' /\ LogIsLegalPath'
  <1> DEFINE s   == call[c].session
             old == row[s]
             new == row'[s]
             e   == EventOf(call[c])
  <1>1. s \in Sessions /\ old \in Row /\ new \in Row
    BY CommitWrites DEF IInv, TypeOK
  <1>2. /\ new.last_event_sequence = old.last_event_sequence + 1
        /\ e \in Event /\ e.sequence = new.last_event_sequence /\ e.state = new.state
        /\ events'[s] = events[s] \cup {e}
        /\ \A r \in Sessions \ {s} : row'[r] = row[r] /\ events'[r] = events[r]
    BY CommitWrites
  <1>3. \/ new.state = old.state /\ e.name = "PROGRESS"
        \/ new.state \in Successors(old.state) /\ e.name = EventFor(old.state, new.state)
    BY CommitWrites DEF Decidable
  <1>4. old.last_event_sequence \in Nat /\ new.last_event_sequence \in Nat
    BY <1>1 DEF Row
  <1>5. /\ \A f \in events[s] : f.sequence \in 1..old.last_event_sequence
        /\ \A n \in 1..old.last_event_sequence : \E f \in events[s] : f.sequence = n
        /\ \A f, g \in events[s] : f.sequence = g.sequence => f = g
    BY <1>1 DEF IInv, LogContiguous
  <1>6. LogContiguous'
    <2>1. \A f \in events'[s] : f.sequence \in 1..new.last_event_sequence
      BY <1>2, <1>4, <1>5
    <2>2. \A n \in 1..new.last_event_sequence : \E f \in events'[s] : f.sequence = n
      BY <1>2, <1>4, <1>5
    <2>3. \A f, g \in events'[s] : f.sequence = g.sequence => f = g
      BY <1>2, <1>4, <1>5
    <2> QED
      BY <1>2, <2>1, <2>2, <2>3 DEF IInv, LogContiguous
  <1>7. LastEventIsState'
    <2>1. \A f \in events'[s] : f.sequence = new.last_event_sequence => f.state = new.state
      BY <1>2, <1>4, <1>5
    <2> QED
      BY <1>2, <2>1 DEF IInv, LastEventIsState
  <1>8. LogIsLegalPath'
    <2>1. ASSUME NEW f \in events'[s], NEW g \in events'[s], g.sequence = f.sequence + 1
          PROVE  \/ g.name = "PROGRESS" /\ g.state = f.state
                 \/ g.state \in Successors(f.state) /\ g.name = EventFor(f.state, g.state)
      <3>1. CASE f \in events[s] /\ g \in events[s]
        BY <1>1, <2>1, <3>1 DEF IInv, LogIsLegalPath
      <3>2. CASE f \in events[s] /\ g = e
        <4>1. f.sequence = old.last_event_sequence
          BY <1>2, <1>4, <1>5, <2>1, <3>2
        <4>2. f.state = old.state
          BY <1>1, <3>2, <4>1 DEF IInv, LastEventIsState
        <4> QED
          BY <1>2, <1>3, <3>2, <4>2
      <3>3. CASE f = e
        BY <1>2, <1>4, <1>5, <2>1, <3>3
      <3> QED
        BY <1>2, <3>1, <3>2, <3>3
    <2> QED
      BY <1>2, <2>1 DEF IInv, LogIsLegalPath
  <1> QED
    BY <1>6, <1>7, <1>8

LEMMA CommitIInv ==
    ASSUME IInv, NEW c \in Callers, Commit(c)
    PROVE  IInv'
  <1> DEFINE s   == call[c].session
             old == row[s]
             new == row'[s]
  <1>1. /\ s \in Sessions /\ old \in Row /\ new \in Row /\ new.state \in DebugState
        /\ EventOf(call[c]) \in Event
        /\ \A r \in Sessions \ {s} : row'[r] = row[r]
    BY CommitWrites DEF IInv, TypeOK
  <1>2. call[c] \in Call /\ Idle(s) \in Call /\ Idle(s).kind = "none"
    BY CommitFacts, <1>1 DEF Idle, Call, Absent, Row, DebugState, MaxRetries
  <1>3. /\ call'[c] = Idle(s) /\ \A d \in Callers \ {c} : call'[d] = call[d]
        /\ \A d \in Callers, r \in Sessions :
             snapshot'[d][r] = IF d = c /\ r = s THEN new ELSE snapshot[d][r]
    BY <1>1 DEF Commit, Leave, IInv, TypeOK
  <1>4. TypeOK'
    <2>1. row' \in [Sessions -> Row] /\ events' \in [Sessions -> SUBSET Event]
      BY <1>1 DEF Commit, IInv, TypeOK
    <2>2. snapshot' \in [Callers -> [Sessions -> Row]]
      <3>1. new = Updated(call[c])
        BY <1>1 DEF Commit, IInv, TypeOK
      <3> QED
        BY <1>1, <3>1 DEF Commit, IInv, TypeOK
    <2>3. lock' \in [Services -> Callers \cup {NoCaller}] /\ call' \in [Callers -> Call]
      BY <1>2, CallersAssumption DEF Commit, Leave, IInv, TypeOK
    <2> QED
      BY <2>1, <2>2, <2>3 DEF TypeOK
  <1>5. new # Absent /\ new.state # "ABSENT"
    BY <1>1 DEF Absent, DebugState
  <1>6. ASSUME NEW x \in Row, Earlier(x, old) PROVE Earlier(x, new)
    <2>1. /\ new.last_event_sequence = old.last_event_sequence + 1
          /\ \/ new.state = old.state /\ new.revision = old.revision
                /\ new.retry_count = old.retry_count
             \/ new.revision = old.revision + 1
      BY CommitWrites
    <2> QED
      BY <1>1, <1>6, <2>1 DEF Earlier, Row
  <1>7. AbsentRows'
    BY <1>1, <1>5 DEF IInv, AbsentRows
  <1>8. SnapshotsEarlier'
    <2> SUFFICES ASSUME NEW d \in Callers, NEW r \in Sessions, snapshot'[d][r] # Absent
                 PROVE  row'[r] # Absent /\ Earlier(snapshot'[d][r], row'[r])
      BY DEF SnapshotsEarlier
    <2>1. CASE d = c /\ r = s
      BY <1>1, <1>3, <1>5, <2>1 DEF Earlier, Row
    <2>2. CASE ~(d = c /\ r = s)
      <3>1. snapshot'[d][r] = snapshot[d][r] /\ snapshot[d][r] \in Row
        BY <1>3, <2>2 DEF IInv, TypeOK
      <3>2. row[r] # Absent /\ Earlier(snapshot[d][r], row[r])
        BY <3>1 DEF IInv, SnapshotsEarlier
      <3> QED
        BY <1>1, <1>5, <1>6, <3>1, <3>2
    <2> QED
      BY <2>1, <2>2
  <1>9. CallsEarlier'
    <2> SUFFICES ASSUME NEW d \in Callers, call'[d].kind # "none"
                 PROVE  /\ row'[call'[d].session] # Absent
                        /\ call'[d].current.state # "ABSENT"
                        /\ Earlier(call'[d].current, row'[call'[d].session])
      BY DEF CallsEarlier
    <2>1. d # c /\ call'[d] = call[d]
      BY <1>2, <1>3
    <2>2. call[d] \in Call /\ call[d].session \in Sessions /\ call[d].current \in Row
      BY DEF IInv, TypeOK, Call
    <2>3. /\ row[call[d].session] # Absent
          /\ call[d].current.state # "ABSENT"
          /\ Earlier(call[d].current, row[call[d].session])
      BY <2>1 DEF IInv, CallsEarlier
    <2> QED
      BY <1>1, <1>5, <1>6, <2>1, <2>2, <2>3
  <1>10. CallsLegal'
    BY <1>2, <1>3 DEF IInv, CallsLegal
  <1> QED
    BY <1>4, <1>7, <1>8, <1>9, <1>10, CommitLog DEF IInv

\* A step that only ends calls.
LEMMA DropIInv ==
    ASSUME IInv, UNCHANGED <<row, events, snapshot>>,
           lock' \in [Services -> Callers \cup {NoCaller}],
           call' \in [Callers -> Call],
           \A c \in Callers : call'[c] = call[c] \/ call'[c].kind = "none"
    PROVE  IInv'
  <1>1. TypeOK'
    BY DEF IInv, TypeOK
  <1>2. CallsEarlier' /\ CallsLegal'
    BY DEF IInv, CallsEarlier, CallsLegal
  <1> QED
    BY <1>1, <1>2
    DEF IInv, AbsentRows, SnapshotsEarlier, LogContiguous, LastEventIsState, LogIsLegalPath

LEMMA NextIInv == IInv /\ [Next]_vars => IInv'
  <1> SUFFICES ASSUME IInv, [Next]_vars PROVE IInv'
    OBVIOUS
  <1>1. \A c \in Callers : Idle(call[c].session) \in Call /\ Idle(call[c].session).kind = "none"
    BY DEF IInv, TypeOK, Idle, Call, Absent, Row, DebugState, MaxRetries
  <1>2. ASSUME NEW c \in Callers, CallerStep(c) PROVE IInv'
    <2>1. ASSUME NEW s \in Sessions, Create(c, s) PROVE IInv'
      BY <2>1, CreateIInv
    <2>2. ASSUME NEW s \in Sessions, Get(c, s) PROVE IInv'
      BY <2>2, GetIInv
    <2>3. ASSUME NEW s \in Sessions, BeginAppend(c, s) PROVE IInv'
      <3>1. "IDLE" \in DebugState
        BY DEF DebugState
      <3> QED
        BY <2>3, <3>1, EnterIInv DEF BeginAppend
    <2>4. ASSUME NEW s \in Sessions, NEW t \in DebugState, BeginTransition(c, s, t) PROVE IInv'
      BY <2>4, EnterIInv DEF BeginTransition
    <2>5. CASE Commit(c)
      BY <2>5, CommitIInv
    <2>6. CASE Abort(c)
      BY <1>1, <2>6, DropIInv, CallersAssumption DEF Abort, Leave, IInv, TypeOK
    <2> QED
      BY <1>2, <2>1, <2>2, <2>3, <2>4, <2>5, <2>6 DEF CallerStep
  <1>3. ASSUME NEW v \in Services, Crash(v) PROVE IInv'
    BY <1>1, <1>3, DropIInv DEF Crash, IInv, TypeOK
  <1>4. CASE UNCHANGED vars
    BY <1>4
    DEF vars, IInv, TypeOK, AbsentRows, SnapshotsEarlier, CallsEarlier, CallsLegal,
        LogContiguous, LastEventIsState, LogIsLegalPath
  <1> QED
    BY <1>2, <1>3, <1>4 DEF Next

\* The inductive invariant holds throughout: nothing a caller or a crash does
\* breaks it, whatever the number of instances sharing the database.
THEOREM StoreIInv == Spec => []IInv
  BY InitIInv, NextIInv, PTL DEF Spec

-----------------------------------------------------------------------------
(* What follows from it.                                                   *)

\* Rows, events, calls and snapshots are well typed; in particular every event
\* of a transition has one of the names of state_machine.py.
THEOREM StoreTypeOK == Spec => []TypeOK
  <1>1. IInv => TypeOK
    BY DEF IInv
  <1> QED
    BY <1>1, StoreIInv, PTL

\* The log of a session has every sequence number once, with any number of
\* instances writing.
THEOREM StoreLogContiguous == Spec => []LogContiguous
  <1>1. IInv => LogContiguous
    BY DEF IInv
  <1> QED
    BY <1>1, StoreIInv, PTL

\* The log is a legal path through the states, each event named after its step.
THEOREM StoreLogIsLegalPath == Spec => []LogIsLegalPath
  <1>1. IInv => LogIsLegalPath
    BY DEF IInv
  <1> QED
    BY <1>1, StoreIInv, PTL

\* A revision names one state: the optimistic check of a client is sound.
THEOREM StoreRevisionIdentifiesState == Spec => []RevisionIdentifiesState
  <1>1. IInv => RevisionIdentifiesState
    BY DEF IInv, SnapshotsEarlier, Earlier, RevisionIdentifiesState
  <1> QED
    BY <1>1, StoreIInv, PTL

-----------------------------------------------------------------------------
(* SessionStore implements SessionLifecycle.                               *)

\* What the abstract lifecycle sees of a row.
Seen(r) == [state |-> r.state, revision |-> r.revision, retry_count |-> r.retry_count]

\* Every initial state is one of the lifecycle.
LEMMA InitRefines == Init => Lifecycle!Init
  BY DEF Init, Lifecycle!Init, Lifecycle!Absent, Absent

\* Every step is a creation, one legal transition, or nothing.
LEMMA StepRefines ==
    IInv /\ [Next]_vars =>
      [Lifecycle!Next]_([s \in Sessions |->
                          [state |-> row[s].state, revision |-> row[s].revision,
                           retry_count |-> row[s].retry_count]])
  <1> DEFINE seen == [s \in Sessions |->
                        [state |-> row[s].state, revision |-> row[s].revision,
                         retry_count |-> row[s].retry_count]]
  <1> SUFFICES ASSUME IInv, [Next]_vars PROVE Lifecycle!Next \/ seen' = seen
    OBVIOUS
  <1>1. ASSUME NEW c \in Callers, NEW s \in Sessions, Create(c, s)
        PROVE  Lifecycle!Next
    <2>1. /\ row[s] = Absent
          /\ row'[s] = [state |-> "IDLE", revision |-> 0, retry_count |-> 0,
                        last_event_sequence |-> 1]
          /\ \A r \in Sessions \ {s} : row'[r] = row[r]
      BY <1>1 DEF Create, IInv, TypeOK
    <2>2. seen[s] = Lifecycle!Absent
      BY <2>1 DEF Absent, Lifecycle!Absent
    <2>3. seen' = [seen EXCEPT ![s] = Created]
      <3>1. Seen(row'[s]) = Created
        BY <2>1 DEF Seen, Created
      <3> QED
        BY <2>1, <3>1 DEF Seen
    <2>4. Lifecycle!Create(s)
      BY <2>2, <2>3 DEF Lifecycle!Create, Lifecycle!Created, Created
    <2> QED
      BY <2>4 DEF Lifecycle!Next
  <1>2. ASSUME NEW c \in Callers, Commit(c)
        PROVE  Lifecycle!Next \/ seen' = seen
    <2> DEFINE s   == call[c].session
               old == row[s]
               new == row'[s]
    <2>1. s \in Sessions /\ new.state \in DebugState
          /\ \A r \in Sessions \ {s} : row'[r] = row[r]
      BY <1>2, CommitWrites
    <2>2. \/ /\ new.state = old.state /\ new.revision = old.revision
             /\ new.retry_count = old.retry_count
          \/ /\ Decidable(old.state, new.state, old.retry_count)
             /\ new.revision = old.revision + 1
             /\ new.retry_count = NextRetryCount(old.state, new.state, old.retry_count)
      BY <1>2, CommitWrites
    <2>3. CASE new.state = old.state /\ new.revision = old.revision
               /\ new.retry_count = old.retry_count
      BY <2>1, <2>3
    <2>4. CASE /\ Decidable(old.state, new.state, old.retry_count)
               /\ new.revision = old.revision + 1
               /\ new.retry_count = NextRetryCount(old.state, new.state, old.retry_count)
      <3>1. PICK t \in DebugState : t = new.state
        BY <2>1
      <3>2. Moved(seen[s], t) = Seen(new)
        BY <2>1, <2>4, <3>1 DEF Moved, Seen
      <3>3. seen' = [seen EXCEPT ![s] = Moved(seen[s], t)]
        BY <2>1, <3>2 DEF Seen
      <3>4. Lifecycle!Step(s, t)
        BY <2>1, <2>4, <3>1, <3>3 DEF Lifecycle!Step, Lifecycle!Decidable, Decidable,
           Lifecycle!Moved, Moved, Lifecycle!NextRetryCount, NextRetryCount,
           Lifecycle!Successors, Successors, Lifecycle!IsRetry, IsRetry,
           Lifecycle!MaxRetries, MaxRetries
      <3>5. t \in Lifecycle!DebugState
        BY DEF Lifecycle!DebugState, DebugState
      <3> QED
        BY <2>1, <3>4, <3>5 DEF Lifecycle!Next
    <2> QED
      BY <2>2, <2>3, <2>4
  <1>3. CASE row' = row
    BY <1>3
  <1> QED
    BY <1>1, <1>2, <1>3
    DEF Next, CallerStep, Get, BeginAppend, BeginTransition, Enter, Abort, Crash, vars

\* The concurrent service implements the abstract lifecycle.
THEOREM StoreImplementsLifecycle == Spec => ImplementsLifecycle
  BY InitRefines, StepRefines, StoreIInv, PTL DEF Spec, ImplementsLifecycle, Lifecycle!Spec

\* The theorems of the lifecycle, read for the rows of the store.
Proved ==
    INSTANCE SessionLifecycleProofs WITH
        session <- [s \in Sessions |->
                      [state |-> row[s].state, revision |-> row[s].revision,
                       retry_count |-> row[s].retry_count]]

\* The theorems of the lifecycle speak of the same states and steps.
LEMMA SameLifecycle == Lifecycle!Spec => Proved!Spec
  <1>1. Lifecycle!Init => Proved!Init
    BY DEF Lifecycle!Init, Proved!Init, Lifecycle!Absent, Proved!Absent, Lifecycle!Created,
       Proved!Created
  <1>2. Lifecycle!Next => Proved!Next
    BY DEF Lifecycle!Next, Proved!Next, Lifecycle!Create, Proved!Create, Lifecycle!Step,
       Proved!Step, Lifecycle!Absent, Proved!Absent, Lifecycle!Created, Proved!Created,
       Lifecycle!DebugState, Proved!DebugState, Lifecycle!Decidable, Proved!Decidable,
       Lifecycle!Moved, Proved!Moved, Lifecycle!NextRetryCount, Proved!NextRetryCount,
       Lifecycle!Successors, Proved!Successors, Lifecycle!IsRetry, Proved!IsRetry,
       Lifecycle!MaxRetries, Proved!MaxRetries
  <1> QED
    BY <1>1, <1>2, PTL DEF Lifecycle!Spec, Proved!Spec

\* Only a counted retry buys a session more transitions, however many instances
\* and callers drive it: the bound of the lifecycle carries over.
THEOREM StoreRetriesBoundRevision == Spec => []RetriesBoundRevision
  <1>1. Proved!Spec => []Proved!Progress
    BY Proved!LifecycleProgress
  <1>2. Proved!Progress => Lifecycle!Progress
    BY DEF Lifecycle!Progress, Proved!Progress, Lifecycle!MaxRetries, Proved!MaxRetries,
       Lifecycle!Rank, Proved!Rank
  <1> QED
    BY <1>1, <1>2, SameLifecycle, StoreImplementsLifecycle, PTL
    DEF ImplementsLifecycle, RetriesBoundRevision

\* No session makes more than 23 transitions, whatever its clients ask.
THEOREM StoreRevisionBound == Spec => []Lifecycle!RevisionBound
  <1>1. Proved!Spec => []Proved!RevisionBound
    BY Proved!LifecycleRevisionBound
  <1>2. Proved!RevisionBound => Lifecycle!RevisionBound
    BY DEF Lifecycle!RevisionBound, Proved!RevisionBound, Lifecycle!MaxRetries,
       Proved!MaxRetries
  <1> QED
    BY <1>1, <1>2, SameLifecycle, StoreImplementsLifecycle, PTL DEF ImplementsLifecycle

-----------------------------------------------------------------------------
(* The lock of an instance.                                                *)

\* The caller of a mutation holds its instance's lock.
LockHeld ==
    \A c \in Callers : call[c].kind # "none" => lock[ServiceOf[c]] = c

LEMMA LockHeldStep == IInv /\ LockHeld /\ [Next]_vars => LockHeld'
  <1> SUFFICES ASSUME IInv, LockHeld, [Next]_vars PROVE LockHeld'
    OBVIOUS
  <1>1. ASSUME NEW c \in Callers, NEW s \in Sessions, Create(c, s) \/ Get(c, s)
        PROVE  LockHeld'
    BY <1>1 DEF Create, Get, LockHeld
  <1>2. ASSUME NEW c \in Callers, NEW s \in Sessions, NEW t, NEW kind, Enter(c, kind, s, t)
        PROVE  LockHeld'
    BY <1>2, CallersAssumption DEF Enter, LockHeld, IInv, TypeOK
  <1>3. ASSUME NEW c \in Callers, Commit(c) \/ Abort(c) PROVE LockHeld'
    BY <1>3, CallersAssumption DEF Commit, Abort, Leave, Idle, LockHeld, IInv, TypeOK
  <1>4. ASSUME NEW v \in Services, Crash(v) PROVE LockHeld'
    BY <1>4, CallersAssumption DEF Crash, Idle, LockHeld, IInv, TypeOK
  <1>5. CASE UNCHANGED vars
    BY <1>5 DEF vars, LockHeld
  <1> QED
    BY <1>1, <1>2, <1>3, <1>4, <1>5 DEF Next, CallerStep, BeginAppend, BeginTransition

\* A step that changes the row under a mutation in progress ends a mutation of
\* another instance.
Overtakes(c) ==
    /\ call[c].kind # "none" /\ call'[c] = call[c]
    /\ row'[call[c].session] # row[call[c].session]

LEMMA OvertakenByOthers ==
    ASSUME IInv, LockHeld, [Next]_vars, NEW c \in Callers, Overtakes(c)
    PROVE  \E d \in Callers : /\ ServiceOf[d] # ServiceOf[c]
                              /\ call[d].kind # "none" /\ call'[d].kind = "none"
  <1> USE DEF Overtakes
  <1>1. call[c].session \in Sessions /\ row[call[c].session] # Absent
    BY DEF IInv, TypeOK, Call, CallsEarlier
  <1>2. ASSUME NEW d \in Callers, NEW s \in Sessions, Create(d, s) PROVE FALSE
    BY <1>1, <1>2 DEF Create, IInv, TypeOK
  <1>3. ASSUME NEW d \in Callers, Commit(d)
        PROVE  ServiceOf[d] # ServiceOf[c] /\ call[d].kind # "none" /\ call'[d].kind = "none"
    <2>1. call[d].kind # "none" /\ call'[d].kind = "none"
      BY <1>3 DEF Commit, Leave, Idle, IInv, TypeOK
    <2>2. d # c /\ lock[ServiceOf[d]] = d /\ lock[ServiceOf[c]] = c
      BY <2>1 DEF LockHeld
    <2> QED
      BY <2>1, <2>2
  <1>4. ASSUME row' = row PROVE FALSE
    BY <1>4
  <1> QED
    BY <1>2, <1>3, <1>4
    DEF Next, CallerStep, Get, BeginAppend, BeginTransition, Enter, Abort, Crash, vars

\* Only a mutation of another instance changes a session between the read and
\* the commit of a mutation, for any number of instances and callers.
THEOREM StoreOnlyOthersOvertake == Spec => OnlyOthersOvertake
  <1>1. Init => LockHeld
    BY DEF Init, LockHeld, Idle
  <1>2. IInv /\ LockHeld /\ [Next]_vars =>
          [\A c \in Callers :
             /\ call[c].kind # "none" /\ call'[c] = call[c]
             /\ row'[call[c].session] # row[call[c].session]
             => \E d \in Callers : /\ ServiceOf[d] # ServiceOf[c]
                                   /\ call[d].kind # "none" /\ call'[d].kind = "none"]_vars
    BY OvertakenByOthers DEF Overtakes
  <1> QED
    BY <1>1, <1>2, LockHeldStep, StoreIInv, PTL DEF Spec, OnlyOthersOvertake

-----------------------------------------------------------------------------
(* One instance.                                                           *)

\* A mutation that began commits.
OwnWritesNeverAbort ==
    \A c \in Callers :
        call[c].kind # "none" => RowMatches(call[c]) /\ ~SequenceTaken(call[c])

\* The caller of a mutation holds its instance's lock, and while only one
\* instance writes, what it read is the row.
HeldAndCurrent ==
    \A c \in Callers :
        call[c].kind # "none" =>
          /\ lock[ServiceOf[c]] = c
          /\ call[c].current = row[call[c].session]

\* The next sequence number is free for whoever read the row as it is.
LEMMA CurrentCommits ==
    ASSUME IInv, HeldAndCurrent, NEW c \in Callers, call[c].kind # "none"
    PROVE  RowMatches(call[c]) /\ ~SequenceTaken(call[c])
  <1> DEFINE k == call[c]
             s == k.session
  <1>1. s \in Sessions /\ row[s] \in Row /\ k.current = row[s]
    BY DEF IInv, TypeOK, Call, HeldAndCurrent
  <1>2. \A e \in events[s] : e.sequence \in 1..row[s].last_event_sequence
    BY <1>1 DEF IInv, LogContiguous
  <1>3. EventOf(k).sequence = row[s].last_event_sequence + 1
    BY <1>1 DEF EventOf
  <1> QED
    BY <1>1, <1>2, <1>3 DEF RowMatches, SequenceTaken, Row

LEMMA HeldAndCurrentStep ==
    ASSUME \A c, d \in Callers : ServiceOf[c] = ServiceOf[d],
           IInv, HeldAndCurrent, [Next]_vars
    PROVE  HeldAndCurrent'
  <1>1. ASSUME NEW c \in Callers, NEW s \in Sessions, Create(c, s) PROVE HeldAndCurrent'
    <2>1. row[s] = Absent /\ UNCHANGED <<lock, call>> /\ \A r \in Sessions \ {s} : row'[r] = row[r]
      BY <1>1 DEF Create, IInv, TypeOK
    <2>2. \A d \in Callers : call[d].kind # "none" => call[d].session \in Sessions \ {s}
      BY <2>1 DEF IInv, TypeOK, Call, CallsEarlier
    <2> QED
      BY <2>1, <2>2 DEF HeldAndCurrent
  <1>2. ASSUME NEW c \in Callers, NEW s \in Sessions, Get(c, s) PROVE HeldAndCurrent'
    BY <1>2 DEF Get, HeldAndCurrent
  <1>3. ASSUME NEW c \in Callers, NEW s \in Sessions, NEW t, NEW kind, Enter(c, kind, s, t)
        PROVE  HeldAndCurrent'
    <2>1. \A d \in Callers : call[d].kind = "none"
      BY <1>3, CallersAssumption DEF Enter, HeldAndCurrent
    <2> QED
      BY <1>3, <2>1, CallersAssumption DEF Enter, HeldAndCurrent, IInv, TypeOK
  <1>4. ASSUME NEW c \in Callers, Commit(c) \/ Abort(c) PROVE HeldAndCurrent'
    <2>1. call[c].kind # "none" /\ lock[ServiceOf[c]] = c
      BY <1>4 DEF Commit, Abort, HeldAndCurrent
    <2>2. \A d \in Callers \ {c} : call[d].kind = "none"
      BY <2>1 DEF HeldAndCurrent
    <2>3. \A d \in Callers : call'[d].kind = "none"
      BY <1>4, <2>2 DEF Commit, Abort, Leave, Idle, IInv, TypeOK
    <2> QED
      BY <2>3 DEF HeldAndCurrent
  <1>5. ASSUME NEW v \in Services, Crash(v) PROVE HeldAndCurrent'
    <2>1. \A d \in Callers : call'[d].kind # "none" => call'[d] = call[d] /\ ServiceOf[d] # v
      BY <1>5 DEF Crash, Idle
    <2>2. \A d \in Callers : ServiceOf[d] # v => lock'[ServiceOf[d]] = lock[ServiceOf[d]]
      BY <1>5, CallersAssumption DEF Crash, IInv, TypeOK
    <2> QED
      BY <1>5, <2>1, <2>2 DEF Crash, HeldAndCurrent
  <1>6. CASE UNCHANGED vars
    BY <1>6 DEF vars, HeldAndCurrent
  <1> QED
    BY <1>1, <1>2, <1>3, <1>4, <1>5, <1>6 DEF Next, CallerStep, BeginAppend, BeginTransition

\* When every caller uses one instance, as in the agent, no mutation that began
\* is refused: an append that AnalysisService or PatchService makes in the
\* middle of an operation cannot fail on a conflict.
THEOREM StoreOwnWritesNeverAbort ==
    ASSUME \A c, d \in Callers : ServiceOf[c] = ServiceOf[d]
    PROVE  Spec => []OwnWritesNeverAbort
  <1>1. Init => HeldAndCurrent
    BY DEF Init, HeldAndCurrent, Idle
  <1>2. IInv /\ HeldAndCurrent /\ [Next]_vars => HeldAndCurrent'
    BY HeldAndCurrentStep
  <1>3. IInv /\ HeldAndCurrent => OwnWritesNeverAbort
    BY CurrentCommits DEF OwnWritesNeverAbort
  <1> QED
    BY <1>1, <1>2, <1>3, StoreIInv, PTL DEF Spec

-----------------------------------------------------------------------------
(* The row counts the log.                                                 *)

Transitions(log) == {e \in log : e.name \in TransitionEvents}
Retries(log) == {e \in log : e.name = "RETRY_STARTED"}

\* Beside the log's order, which IInv keeps, the row has its counts.
Counted(r, log) ==
    /\ IsFiniteSet(log)
    /\ r.revision = Cardinality(Transitions(log))
    /\ r.retry_count = Cardinality(Retries(log))

RowsCount == \A s \in Sessions : Counted(row[s], events[s])

FoldInv == IInv /\ RowsCount

\* A decision is a retry exactly if its event says so.
LEMMA RetryIsNamed ==
    ASSUME NEW source, NEW target, NEW retries, Decidable(source, target, retries)
    PROVE  EventFor(source, target) = "RETRY_STARTED" <=> IsRetry(source, target)
<1>1. CASE IsRetry(source, target)
  BY <1>1 DEF EventFor
<1>2. CASE ~IsRetry(source, target)
  <2>1. target \in Successors(source)
    BY DEF Decidable
  <2>2. CASE target = "FAILED"
    BY <1>2, <2>2 DEF EventFor, FailureEvent
  <2>3. CASE target # "FAILED"
    <3>1. target \in {"CAPTURED", "ANALYZING", "ROOT_CAUSE_FOUND", "PATCH_GENERATED",
                      "AWAITING_APPROVAL", "PATCH_APPLYING", "TESTING", "SUCCESS",
                      "ROLLED_BACK"}
      BY <2>1, <2>3 DEF Successors
    <3> QED
      BY <1>2, <2>3, <3>1 DEF EventFor
  <2> QED
    BY <2>2, <2>3
<1> QED
  BY <1>1, <1>2

\* One event more is one more to count, or none.
LEMMA OneMore ==
    ASSUME NEW log, IsFiniteSet(log), NEW e, e \notin log
    PROVE  /\ IsFiniteSet(log \cup {e})
           /\ Cardinality(Transitions(log)) \in Nat /\ Cardinality(Retries(log)) \in Nat
           /\ Cardinality(Transitions(log \cup {e})) =
                IF e.name \in TransitionEvents THEN Cardinality(Transitions(log)) + 1
                ELSE Cardinality(Transitions(log))
           /\ Cardinality(Retries(log \cup {e})) =
                IF e.name = "RETRY_STARTED" THEN Cardinality(Retries(log)) + 1
                ELSE Cardinality(Retries(log))
<1>1. /\ IsFiniteSet(Transitions(log)) /\ IsFiniteSet(Retries(log))
      /\ e \notin Transitions(log) /\ e \notin Retries(log)
  <2>1. Transitions(log) \in SUBSET log /\ Retries(log) \in SUBSET log
    BY DEF Transitions, Retries
  <2> QED
    BY <2>1, FS_Subset
<1>2. /\ Transitions(log \cup {e}) =
           IF e.name \in TransitionEvents THEN Transitions(log) \cup {e} ELSE Transitions(log)
      /\ Retries(log \cup {e}) =
           IF e.name = "RETRY_STARTED" THEN Retries(log) \cup {e} ELSE Retries(log)
  BY DEF Transitions, Retries
<1>3. /\ Cardinality(Transitions(log) \cup {e}) = Cardinality(Transitions(log)) + 1
      /\ Cardinality(Retries(log) \cup {e}) = Cardinality(Retries(log)) + 1
  BY <1>1, FS_AddElement
<1>4. Cardinality(Transitions(log)) \in Nat /\ Cardinality(Retries(log)) \in Nat
  BY <1>1, FS_CardinalityType
<1>5. IsFiniteSet(log \cup {e})
  BY FS_AddElement
<1> QED
  BY <1>2, <1>3, <1>4, <1>5

\* Where no event is of a transition there is nothing to count.
LEMMA NothingCounted ==
    ASSUME NEW log, IsFiniteSet(log), \A e \in log : e.name \notin TransitionEvents,
           NEW r, r.revision = 0, r.retry_count = 0
    PROVE  Counted(r, log)
<1>1. Transitions(log) = {} /\ Retries(log) = {}
  BY DEF Transitions, Retries, TransitionEvents
<1> QED
  BY <1>1, FS_EmptySet DEF Counted

LEMMA CommitCounts ==
    ASSUME FoldInv, NEW c \in Callers, Commit(c)
    PROVE  RowsCount'
<1> DEFINE s   == call[c].session
           old == row[s]
           new == row'[s]
           e   == EventOf(call[c])
           log == events[s]
<1>1. /\ s \in Sessions /\ old \in Row /\ new \in Row
      /\ \/ /\ new.revision = old.revision /\ new.retry_count = old.retry_count
            /\ e.name = "PROGRESS"
         \/ /\ Decidable(old.state, new.state, old.retry_count)
            /\ new.revision = old.revision + 1
            /\ new.retry_count = NextRetryCount(old.state, new.state, old.retry_count)
            /\ e.name = EventFor(old.state, new.state)
      /\ events'[s] = log \cup {e}
      /\ \A r \in Sessions \ {s} : row'[r] = row[r] /\ events'[r] = events[r]
  BY CommitWrites DEF FoldInv, IInv, TypeOK
<1>2. e \notin log
  BY DEF Commit, SequenceTaken
<1>3. /\ IsFiniteSet(log) /\ old.revision = Cardinality(Transitions(log))
      /\ old.retry_count = Cardinality(Retries(log))
  BY <1>1 DEF FoldInv, RowsCount, Counted
<1> HIDE DEF s, old, new, e, log
<1>4. /\ IsFiniteSet(log \cup {e})
      /\ Cardinality(Transitions(log)) \in Nat /\ Cardinality(Retries(log)) \in Nat
      /\ Cardinality(Transitions(log \cup {e})) =
           IF e.name \in TransitionEvents THEN Cardinality(Transitions(log)) + 1
           ELSE Cardinality(Transitions(log))
      /\ Cardinality(Retries(log \cup {e})) =
           IF e.name = "RETRY_STARTED" THEN Cardinality(Retries(log)) + 1
           ELSE Cardinality(Retries(log))
  BY <1>2, <1>3, OneMore
<1>5. Counted(new, log \cup {e})
  <2>1. CASE /\ new.revision = old.revision /\ new.retry_count = old.retry_count
             /\ e.name = "PROGRESS"
    BY <1>3, <1>4, <2>1 DEF Counted, TransitionEvents
  <2>2. CASE /\ Decidable(old.state, new.state, old.retry_count)
             /\ new.revision = old.revision + 1
             /\ new.retry_count = NextRetryCount(old.state, new.state, old.retry_count)
             /\ e.name = EventFor(old.state, new.state)
    <3>1. e.name \in TransitionEvents
      BY <1>1, <2>2, DecidableFacts DEF Row
    <3>2. e.name = "RETRY_STARTED" <=> IsRetry(old.state, new.state)
      BY <2>2, RetryIsNamed
    <3> QED
      BY <1>3, <1>4, <2>2, <3>1, <3>2 DEF Counted, NextRetryCount
  <2> QED
    BY <1>1, <2>1, <2>2
<1>6. ASSUME NEW r \in Sessions
      PROVE  Counted(row'[r], events'[r])
  <2>1. CASE r = s
    BY <1>1, <1>5, <2>1 DEF new
  <2>2. CASE r # s
    BY <1>1, <2>2 DEF FoldInv, RowsCount
  <2> QED
    BY <2>1, <2>2
<1> QED
  BY <1>6 DEF RowsCount

LEMMA CreateCounts ==
    ASSUME FoldInv, NEW c \in Callers, NEW s \in Sessions, Create(c, s)
    PROVE  RowsCount'
<1> DEFINE e == [sequence |-> 1, name |-> "SESSION_STARTED", state |-> "IDLE"]
<1>1. /\ row'[s].revision = 0 /\ row'[s].retry_count = 0 /\ events'[s] = {e}
      /\ \A r \in Sessions \ {s} : row'[r] = row[r] /\ events'[r] = events[r]
  BY DEF Create, FoldInv, IInv, TypeOK
<1>2. e.name \notin TransitionEvents /\ IsFiniteSet({e})
  BY FS_Singleton DEF TransitionEvents
<1> HIDE DEF e
<1>3. Counted(row'[s], events'[s])
  BY <1>1, <1>2, NothingCounted
<1> QED
  BY <1>1, <1>3 DEF FoldInv, RowsCount

LEMMA InitFold == Init => FoldInv
<1> SUFFICES ASSUME Init PROVE RowsCount
  BY InitIInv DEF FoldInv
<1>1. ASSUME NEW s \in Sessions PROVE Counted(row[s], events[s])
  <2>1. row[s].revision = 0 /\ row[s].retry_count = 0 /\ events[s] = {}
    BY DEF Init, Absent
  <2> QED
    BY <2>1, FS_EmptySet, NothingCounted
<1> QED
  BY <1>1 DEF RowsCount

LEMMA NextFold == FoldInv /\ [Next]_vars => FoldInv'
<1> SUFFICES ASSUME FoldInv, [Next]_vars PROVE RowsCount'
  BY NextIInv DEF FoldInv
<1>1. CASE UNCHANGED <<row, events>>
  BY <1>1 DEF FoldInv, RowsCount
<1>2. ASSUME NEW c \in Callers, NEW s \in Sessions, Create(c, s)
      PROVE  RowsCount'
  BY <1>2, CreateCounts
<1>3. ASSUME NEW c \in Callers, Commit(c)
      PROVE  RowsCount'
  BY <1>3, CommitCounts
<1> QED
  BY <1>1, <1>2, <1>3
  DEF Next, CallerStep, Get, BeginAppend, BeginTransition, Enter, Abort, Crash, vars

\* Replaying a session's events gives its row: the state of the last one, as
\* many transitions as its revision says and as many retries as it counts,
\* however many instances of DebugSessionService write to the file.
THEOREM StoreRowIsFoldOfLog == Spec => []RowIsFoldOfLog
<1>1. FoldInv => RowIsFoldOfLog
  BY DEF FoldInv, IInv, LastEventIsState, RowsCount, Counted, Transitions, Retries,
         RowIsFoldOfLog
<1> QED
  BY <1>1, InitFold, NextFold, PTL DEF Spec
=============================================================================
