----------------------- MODULE SessionLifecycleProofs -----------------------
(***************************************************************************)
(* Proofs about the abstract lifecycle, for any set of sessions.           *)
(***************************************************************************)
EXTENDS SessionLifecycle, TLAPS

\* Every state the table of state_machine.py leads to is a state.
LEMMA SuccessorsAreStates ==
    ASSUME NEW source
    PROVE  Successors(source) \subseteq DebugState
  BY DEF Successors, DebugState

\* A legal transition raises the rank of the state, except the retry, which
\* takes it from 8 back to 2; and nothing leads out of ROLLED_BACK.
LEMMA RankRises ==
    ASSUME NEW source, NEW target \in Successors(source)
    PROVE  /\ Rank(source) \in 0..8
           /\ Rank(target) \in 1..9
           /\ ~IsRetry(source, target) => Rank(target) >= Rank(source) + 1
           /\ IsRetry(source, target) => Rank(source) = 8 /\ Rank(target) = 2
  BY DEF Successors, Rank, IsRetry

\* A transition keeps the type of the session.
LEMMA StepType ==
    ASSUME TypeOK, NEW s \in Sessions, NEW t \in DebugState, Step(s, t)
    PROVE  TypeOK'
  <1> DEFINE row == session[s]
  <1>1. row \in [state: DebugState \cup {"ABSENT"}, revision: Nat, retry_count: 0..MaxRetries]
    BY DEF TypeOK
  <1>2. NextRetryCount(row.state, t, row.retry_count) \in 0..MaxRetries
    BY <1>1 DEF Step, Decidable, NextRetryCount, MaxRetries
  <1>3. Moved(row, t) \in [state: DebugState \cup {"ABSENT"}, revision: Nat,
                           retry_count: 0..MaxRetries]
    BY <1>1, <1>2 DEF Moved
  <1> QED
    BY <1>3 DEF TypeOK, Step

\* Sessions are well typed, and their retry count keeps within the budget.
THEOREM LifecycleTypeOK == Spec => []TypeOK
  <1>1. Init => TypeOK
    BY DEF Init, TypeOK, Absent, Created, DebugState, MaxRetries
  <1>2. TypeOK /\ [Next]_session => TypeOK'
    <2> SUFFICES ASSUME TypeOK, [Next]_session PROVE TypeOK'
      OBVIOUS
    <2>1. ASSUME NEW s \in Sessions, Create(s) PROVE TypeOK'
      BY <2>1 DEF Create, TypeOK, Created, DebugState, MaxRetries
    <2>2. ASSUME NEW s \in Sessions, NEW t \in DebugState, Step(s, t) PROVE TypeOK'
      BY <2>2, StepType
    <2>3. CASE UNCHANGED session
      BY <2>3 DEF TypeOK
    <2> QED
      BY <2>1, <2>2, <2>3 DEF Next
  <1> QED
    BY <1>1, <1>2, PTL DEF Spec

\* The revision of a session never exceeds what its state and its retries
\* account for.
THEOREM LifecycleProgress == Spec => []Progress
  <1>1. Init => Progress
    BY DEF Init, Progress, Absent, Created, Rank, MaxRetries
  <1>2. TypeOK /\ TypeOK' /\ Progress /\ [Next]_session => Progress'
    <2> SUFFICES ASSUME TypeOK, TypeOK', Progress, [Next]_session PROVE Progress'
      OBVIOUS
    <2>1. ASSUME NEW s \in Sessions, Create(s) PROVE Progress'
      <3>1. Created.revision = 0 /\ Created.retry_count = 0 /\ Rank(Created.state) = 0
        BY DEF Created, Rank
      <3>2. session'[s] = Created /\ \A r \in Sessions \ {s} : session'[r] = session[r]
        BY <2>1 DEF Create, TypeOK
      <3> QED
        BY <3>1, <3>2 DEF Progress, MaxRetries
    <2>2. ASSUME NEW s \in Sessions, NEW t \in DebugState, Step(s, t) PROVE Progress'
      <3> DEFINE old == session[s]
                 new == session'[s]
      <3>1. /\ new = Moved(old, t)
            /\ \A r \in Sessions \ {s} : session'[r] = session[r]
            /\ t \in Successors(old.state)
        BY <2>2 DEF Step, TypeOK, Decidable
      <3>2. /\ new.state = t
            /\ new.revision = old.revision + 1
            /\ new.retry_count = NextRetryCount(old.state, t, old.retry_count)
        BY <3>1 DEF Moved
      <3>3. old.revision \in Nat /\ old.retry_count \in Nat /\ new.retry_count \in 0..MaxRetries
        BY DEF TypeOK, MaxRetries
      <3>4. old.revision <= Rank(old.state) + 7 * old.retry_count
        BY DEF Progress
      <3>5. CASE IsRetry(old.state, t)
        <4>1. Rank(old.state) = 8 /\ Rank(t) = 2
          BY <3>1, <3>5, RankRises
        <4>2. new.retry_count = old.retry_count + 1
          BY <3>2, <3>5 DEF NextRetryCount
        <4>3. new.revision <= Rank(t) + 7 * new.retry_count
          BY <3>2, <3>3, <3>4, <4>1, <4>2
        <4> QED
          BY <3>1, <3>2, <3>3, <4>3 DEF Progress, MaxRetries
      <3>6. CASE ~IsRetry(old.state, t)
        <4>1. Rank(old.state) \in 0..8 /\ Rank(t) \in 1..9 /\ Rank(t) >= Rank(old.state) + 1
          BY <3>1, <3>6, RankRises
        <4>2. new.retry_count = old.retry_count
          BY <3>2, <3>6 DEF NextRetryCount
        <4>3. new.revision <= Rank(t) + 7 * new.retry_count
          BY <3>2, <3>3, <3>4, <4>1, <4>2
        <4> QED
          BY <3>1, <3>2, <3>3, <4>3 DEF Progress, MaxRetries
      <3> QED
        BY <3>5, <3>6
    <2>3. CASE UNCHANGED session
      BY <2>3 DEF Progress
    <2> QED
      BY <2>1, <2>2, <2>3 DEF Next
  <1> QED
    BY <1>1, <1>2, LifecycleTypeOK, PTL DEF Spec

\* A state ranks at most nine, so what Progress bounds is at most 9 + 7 * 2.
LEMMA ProgressBounds == TypeOK /\ Progress => RevisionBound
  <1> SUFFICES ASSUME TypeOK, Progress, NEW s \in Sessions
               PROVE  session[s].revision <= 9 + 7 * MaxRetries
    BY DEF RevisionBound
  <1>1. Rank(session[s].state) \in 0..9
    BY DEF Rank
  <1>2. session[s].revision \in Nat /\ session[s].retry_count \in 0..MaxRetries
    BY DEF TypeOK
  <1> QED
    BY <1>1, <1>2 DEF Progress, MaxRetries

\* No session makes more than 23 transitions, whoever asks for them.
THEOREM LifecycleRevisionBound == Spec => []RevisionBound
  BY LifecycleTypeOK, LifecycleProgress, ProgressBounds, PTL
=============================================================================
