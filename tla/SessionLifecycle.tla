-------------------------- MODULE SessionLifecycle --------------------------
(***************************************************************************)
(* What the agent promises about a debug session, whichever service moves  *)
(* it: a session is created once, then changes only by one legal           *)
(* transition at a time, each of which raises the revision by one.  The    *)
(* concurrent specifications of the services implement this one.           *)
(***************************************************************************)
EXTENDS StateMachine

CONSTANT Sessions

VARIABLE session

Absent == [state |-> "ABSENT", revision |-> 0, retry_count |-> 0]

Init == session \in [Sessions -> {Absent, Created}]

Create(s) ==
    /\ session[s] = Absent
    /\ session' = [session EXCEPT ![s] = Created]

Step(s, target) ==
    /\ Decidable(session[s].state, target, session[s].retry_count)
    /\ session' = [session EXCEPT ![s] = Moved(session[s], target)]

Next == \E s \in Sessions : Create(s) \/ \E t \in DebugState : Step(s, t)

Spec == Init /\ [][Next]_session

-----------------------------------------------------------------------------

TypeOK ==
    session \in [Sessions -> [state: DebugState \cup {"ABSENT"}, revision: Nat,
                              retry_count: 0..MaxRetries]]

\* How far along one attempt a state is: the longest path from IDLE.
Rank(state) ==
    CASE state = "CAPTURED"          -> 1
      [] state = "ANALYZING"         -> 2
      [] state = "ROOT_CAUSE_FOUND"  -> 3
      [] state = "PATCH_GENERATED"   -> 4
      [] state = "AWAITING_APPROVAL" -> 5
      [] state = "PATCH_APPLYING"    -> 6
      [] state = "TESTING"           -> 7
      [] state \in {"SUCCESS", "FAILED"} -> 8
      [] state = "ROLLED_BACK"       -> 9
      [] OTHER                       -> 0

\* A retry takes FAILED (8) back to ANALYZING (2) and raises the revision, so
\* each retry buys seven more transitions.
Progress ==
    \A s \in Sessions :
        /\ session[s].retry_count <= MaxRetries
        /\ session[s].revision <= Rank(session[s].state) + 7 * session[s].retry_count

\* No client, however it mixes retries, failures and rollbacks, can keep a
\* session moving for ever: the retry budget of state_machine.py bounds the
\* whole history of a session, 23 transitions with two retries.
RevisionBound ==
    \A s \in Sessions : session[s].revision <= 9 + 7 * MaxRetries
=============================================================================
