---------------------------- MODULE SessionStore ----------------------------
(***************************************************************************)
(* DebugSessionService over SessionStore: the session row and its          *)
(* append-only event log in one SQLite file.  A mutation reads the row     *)
(* under the service's lock, decides, and commits row and event in one     *)
(* transaction guarded by what it read.  Several service instances may     *)
(* have the file open (tests/test_session_store.py opens two), and their   *)
(* locks do not know of one another.                                       *)
(***************************************************************************)
EXTENDS StateMachine, FiniteSets

CONSTANTS
    Sessions,       \* session identifiers
    Services,       \* DebugSessionService instances sharing the database file
    Callers,        \* threads or tasks that call them
    ServiceOf,      \* the instance each caller uses
    NoCaller,       \* the lock is free
    MaxRevision,    \* bound: transitions of a session
    MaxSequence     \* bound: no progress event is appended beyond this sequence

ASSUME CallersAssumption ==
    /\ ServiceOf \in [Callers -> Services]
    /\ NoCaller \notin Callers
    /\ MaxRevision \in Nat
    /\ MaxSequence \in Nat

VARIABLES
    row,        \* debug_sessions: the row of each session
    events,     \* agent_events: the rows of each session
    lock,       \* DebugSessionService._lock of each instance
    call,       \* the mutation each caller has in progress
    snapshot    \* the session as each caller's client last read it

vars == <<row, events, lock, call, snapshot>>

Absent ==
    [state |-> "ABSENT", revision |-> 0, retry_count |-> 0, last_event_sequence |-> 0]

Row ==
    [state: DebugState \cup {"ABSENT"}, revision: Nat, retry_count: 0..MaxRetries,
     last_event_sequence: Nat]

Event ==
    [sequence: Nat, name: TransitionEvents \cup {"SESSION_STARTED", "PROGRESS"},
     state: DebugState]

\* kind "none" is an idle caller; current is the row the mutation read.
Call ==
    [kind: {"none", "transition", "append"}, session: Sessions,
     target: DebugState, current: Row]

Idle(s) == [kind |-> "none", session |-> s, target |-> "IDLE", current |-> Absent]

Init ==
    /\ row = [s \in Sessions |-> Absent]
    /\ events = [s \in Sessions |-> {}]
    /\ lock = [v \in Services |-> NoCaller]
    /\ call \in [Callers -> {Idle(s) : s \in Sessions}]
    /\ snapshot = [c \in Callers |-> [s \in Sessions |-> Absent]]

-----------------------------------------------------------------------------
(* create: one transaction, without the lock.                              *)

Create(c, s) ==
    /\ call[c].kind = "none"
    /\ row[s] = Absent
    /\ row' = [row EXCEPT ![s] = [state |-> "IDLE", revision |-> 0, retry_count |-> 0,
                                  last_event_sequence |-> 1]]
    /\ events' = [events EXCEPT ![s] = {[sequence |-> 1, name |-> "SESSION_STARTED",
                                         state |-> "IDLE"]}]
    /\ UNCHANGED <<lock, call, snapshot>>

(* get, list: a client refreshes its copy of the session.                  *)
Get(c, s) ==
    /\ call[c].kind = "none"
    /\ row[s] # Absent
    /\ snapshot' = [snapshot EXCEPT ![c][s] = row[s]]
    /\ UNCHANGED <<row, events, lock, call>>

-----------------------------------------------------------------------------
(* transition and append_event: read under the lock ...                    *)

\* Faulty variant: the mutation does not wait for the lock.
EnterUnlocked(c, kind, s, target) ==
    /\ call[c].kind = "none"
    /\ row[s] # Absent
    /\ lock' = [lock EXCEPT ![ServiceOf[c]] = c]
    /\ call' = [call EXCEPT ![c] = [kind |-> kind, session |-> s, target |-> target,
                                    current |-> row[s]]]
    /\ UNCHANGED <<row, events, snapshot>>

Enter(c, kind, s, target) ==
    /\ call[c].kind = "none"
    /\ lock[ServiceOf[c]] = NoCaller
    /\ row[s] # Absent
    /\ lock' = [lock EXCEPT ![ServiceOf[c]] = c]
    /\ call' = [call EXCEPT ![c] = [kind |-> kind, session |-> s, target |-> target,
                                    current |-> row[s]]]
    /\ UNCHANGED <<row, events, snapshot>>

\* Faulty variant: the decision trusts the client's copy of the session.
BeginTransitionOnSnapshot(c, s, target) ==
    /\ snapshot[c][s] # Absent
    /\ snapshot[c][s].revision < MaxRevision
    /\ Decidable(snapshot[c][s].state, target, snapshot[c][s].retry_count)
    /\ Enter(c, "transition", s, target)

\* A stale expected_revision or an illegal target raises before any write and
\* changes nothing, so only the accepted request is a step.
BeginTransition(c, s, target) ==
    /\ snapshot[c][s] # Absent
    /\ row[s].revision = snapshot[c][s].revision
    /\ row[s].revision < MaxRevision
    /\ Decidable(row[s].state, target, row[s].retry_count)
    /\ Enter(c, "transition", s, target)

BeginAppend(c, s) ==
    /\ row[s].last_event_sequence < MaxSequence
    /\ Enter(c, "append", s, "IDLE")

(* ... then one transaction.                                               *)

\* Faulty variant: a retry keeps the revision of the failed attempt.
UpdatedRetryKeepsRevision(k) ==
    [state |-> IF k.kind = "append" THEN k.current.state ELSE k.target,
     revision |-> IF k.kind = "append" \/ IsRetry(k.current.state, k.target)
                    THEN k.current.revision ELSE k.current.revision + 1,
     retry_count |-> IF k.kind = "append" THEN k.current.retry_count
       ELSE NextRetryCount(k.current.state, k.target, k.current.retry_count),
     last_event_sequence |-> k.current.last_event_sequence + 1]

Updated(k) ==
    IF k.kind = "append"
      THEN [k.current EXCEPT !.last_event_sequence = @ + 1]
      ELSE [state |-> k.target, revision |-> k.current.revision + 1,
            retry_count |-> NextRetryCount(k.current.state, k.target, k.current.retry_count),
            last_event_sequence |-> k.current.last_event_sequence + 1]

EventOf(k) ==
    [sequence |-> k.current.last_event_sequence + 1,
     name |-> IF k.kind = "append" THEN "PROGRESS" ELSE EventFor(k.current.state, k.target),
     state |-> IF k.kind = "append" THEN k.current.state ELSE k.target]

\* The WHERE clause of the UPDATE: append_event also compares the sequence.
RowMatches(k) ==
    /\ row[k.session].revision = k.current.revision
    /\ k.kind = "append" =>
         row[k.session].last_event_sequence = k.current.last_event_sequence

\* Faulty variant: no UNIQUE constraint.
SequenceNeverTaken(k) == FALSE

\* UNIQUE (session_id, sequence): the INSERT fails and the transaction with it.
SequenceTaken(k) == \E e \in events[k.session] : e.sequence = EventOf(k).sequence

Leave(c) ==
    /\ lock' = [lock EXCEPT ![ServiceOf[c]] = NoCaller]
    /\ call' = [call EXCEPT ![c] = Idle(call[c].session)]

Commit(c) ==
    LET k == call[c]
    IN  /\ k.kind # "none"
        /\ RowMatches(k)
        /\ ~SequenceTaken(k)
        /\ row' = [row EXCEPT ![k.session] = Updated(k)]
        /\ events' = [events EXCEPT ![k.session] = @ \cup {EventOf(k)}]
        /\ snapshot' = [snapshot EXCEPT ![c][k.session] = Updated(k)]
        /\ Leave(c)

Abort(c) ==
    LET k == call[c]
    IN  /\ k.kind # "none"
        /\ ~RowMatches(k) \/ SequenceTaken(k)
        /\ Leave(c)
        /\ UNCHANGED <<row, events, snapshot>>

\* The process of an instance dies: uncommitted mutations vanish.  The phones
\* that called it keep the snapshots they hold.
Crash(v) ==
    /\ lock[v] # NoCaller
    /\ lock' = [lock EXCEPT ![v] = NoCaller]
    /\ call' = [c \in Callers |->
                  IF ServiceOf[c] = v THEN Idle(call[c].session) ELSE call[c]]
    /\ UNCHANGED <<row, events, snapshot>>

CallerStep(c) ==
    \/ \E s \in Sessions :
         \/ Create(c, s)
         \/ Get(c, s)
         \/ BeginAppend(c, s)
         \/ \E t \in DebugState : BeginTransition(c, s, t)
    \/ Commit(c)
    \/ Abort(c)

Next ==
    \/ \E c \in Callers : CallerStep(c)
    \/ \E v \in Services : Crash(v)

Spec == Init /\ [][Next]_vars

-----------------------------------------------------------------------------

TypeOK ==
    /\ row \in [Sessions -> Row]
    /\ events \in [Sessions -> SUBSET Event]
    /\ lock \in [Services -> Callers \cup {NoCaller}]
    /\ call \in [Callers -> Call]
    /\ snapshot \in [Callers -> [Sessions -> Row]]

\* The log of a session has one event for each sequence number up to the one
\* its row names: what a client asks for "after sequence n" has no gap and no
\* duplicate, although persist_transition does not compare the sequence it
\* read and another instance may append between its read and its commit.
LogContiguous ==
    \A s \in Sessions :
        /\ \A e \in events[s] : e.sequence \in 1..row[s].last_event_sequence
        /\ \A n \in 1..row[s].last_event_sequence : \E e \in events[s] : e.sequence = n
        /\ \A e, f \in events[s] : e.sequence = f.sequence => e = f

\* The row is the fold of the log: replaying the events gives the state, the
\* revision counts the transitions among them and retry_count the retries, so
\* a client that follows events and one that reads the row agree.
RowIsFoldOfLog ==
    \A s \in Sessions :
        /\ \A e \in events[s] :
             e.sequence = row[s].last_event_sequence => e.state = row[s].state
        /\ row[s].revision = Cardinality({e \in events[s] : e.name \in TransitionEvents})
        /\ row[s].retry_count = Cardinality({e \in events[s] : e.name = "RETRY_STARTED"})

\* Adjacent events of a log are joined by a legal transition with the event
\* name state_machine.py gives it, or the later one is progress in the same
\* state: the log never shows a client a jump, whoever wrote each event.
LogIsLegalPath ==
    \A s \in Sessions : \A e, f \in events[s] :
        f.sequence = e.sequence + 1 =>
          \/ f.name = "PROGRESS" /\ f.state = e.state
          \/ f.state \in Successors(e.state) /\ f.name = EventFor(e.state, f.state)

\* A revision names one state and one retry count for ever.  This is what lets
\* a client send back only the revision it saw: if it still matches, the
\* client decided on the session as it is.
RevisionIdentifiesState ==
    \A c \in Callers, s \in Sessions :
        snapshot[c][s] # Absent /\ snapshot[c][s].revision = row[s].revision =>
          /\ snapshot[c][s].state = row[s].state
          /\ snapshot[c][s].retry_count = row[s].retry_count

\* While a mutation is in progress only mutations of other instances change
\* the session it read.  So in an agent that has the database to itself none is
\* refused at its commit: AnalysisService and PatchService append progress
\* without handling a conflict, which would abort their operation.
OnlyOthersOvertake ==
    [][\A c \in Callers :
         /\ call[c].kind # "none" /\ call'[c] = call[c]
         /\ row'[call[c].session] # row[call[c].session]
         => \E d \in Callers : /\ ServiceOf[d] # ServiceOf[c]
                               /\ call[d].kind # "none" /\ call'[d].kind = "none"]_vars

\* The concurrent service implements the abstract lifecycle: under any
\* interleaving of instances, reads, commits and crashes the row changes by
\* one legal transition at a time.
Lifecycle ==
    INSTANCE SessionLifecycle WITH
        session <- [s \in Sessions |->
                      [state |-> row[s].state, revision |-> row[s].revision,
                       retry_count |-> row[s].retry_count]]

ImplementsLifecycle == Lifecycle!Spec

\* However instances and clients mix retries, failures and rollbacks, and
\* whoever commits from a row read earlier, only a retry that was counted buys
\* a session more transitions: its revision is bounded by how far the attempt
\* got and the retries spent, seven transitions each.
RetriesBoundRevision == Lifecycle!Progress
=============================================================================
