---------------------------- MODULE StateMachine ----------------------------
(***************************************************************************)
(* The transition rules of a debug session: DebugStateMachine of           *)
(* state_machine.py.  Pure operators, shared by every module that moves a  *)
(* session.                                                                *)
(***************************************************************************)
EXTENDS Naturals

DebugState ==
    {"IDLE", "CAPTURED", "ANALYZING", "ROOT_CAUSE_FOUND", "PATCH_GENERATED",
     "AWAITING_APPROVAL", "PATCH_APPLYING", "TESTING", "SUCCESS", "FAILED",
     "ROLLED_BACK"}

MaxRetries == 2

\* The table DebugStateMachine.transitions.
Successors(source) ==
    CASE source = "IDLE"              -> {"CAPTURED"}
      [] source = "CAPTURED"          -> {"ANALYZING", "FAILED"}
      [] source = "ANALYZING"         -> {"ROOT_CAUSE_FOUND", "FAILED"}
      [] source = "ROOT_CAUSE_FOUND"  -> {"PATCH_GENERATED", "FAILED"}
      [] source = "PATCH_GENERATED"   -> {"AWAITING_APPROVAL", "FAILED"}
      [] source = "AWAITING_APPROVAL" -> {"PATCH_APPLYING", "FAILED"}
      [] source = "PATCH_APPLYING"    -> {"TESTING", "FAILED"}
      [] source = "TESTING"           -> {"SUCCESS", "FAILED"}
      [] source = "SUCCESS"           -> {"ROLLED_BACK"}
      [] source = "FAILED"            -> {"ANALYZING", "ROLLED_BACK"}
      [] OTHER                        -> {}

IsRetry(source, target) == source = "FAILED" /\ target = "ANALYZING"

\* Faulty variant: the retry budget is compared off by one.
DecidableOffByOne(source, target, retries) ==
    /\ target \in Successors(source)
    /\ IsRetry(source, target) => retries <= MaxRetries

\* decide() returns a decision instead of raising.
Decidable(source, target, retries) ==
    /\ target \in Successors(source)
    /\ IsRetry(source, target) => retries < MaxRetries

NextRetryCount(source, target, retries) ==
    IF IsRetry(source, target) THEN retries + 1 ELSE retries

Created == [state |-> "IDLE", revision |-> 0, retry_count |-> 0]

\* The session after the transition to target.
Moved(row, target) ==
    [state |-> target, revision |-> row.revision + 1,
     retry_count |-> NextRetryCount(row.state, target, row.retry_count)]

\* Faulty variant: the failures of patch work have no event name.
FailureEventUnmapped(source) ==
    IF source = "ANALYZING" THEN "ANALYSIS_FAILED" ELSE "UNMAPPED"

FailureEvent(source) ==
    CASE source = "ANALYZING"         -> "ANALYSIS_FAILED"
      [] source = "AWAITING_APPROVAL" -> "PATCH_REJECTED"
      [] source = "PATCH_APPLYING"    -> "PATCH_APPLY_FAILED"
      [] source = "TESTING"           -> "TESTS_FAILED"
      [] OTHER                        -> "SESSION_FAILED"

EventFor(source, target) ==
    IF IsRetry(source, target) THEN "RETRY_STARTED"
    ELSE CASE target = "FAILED"            -> FailureEvent(source)
           [] target = "CAPTURED"          -> "ERROR_CAPTURED"
           [] target = "ANALYZING"         -> "ANALYSIS_STARTED"
           [] target = "AWAITING_APPROVAL" -> "PATCH_AWAITING_APPROVAL"
           [] target = "PATCH_APPLYING"    -> "PATCH_APPROVED"
           [] target = "TESTING"           -> "TESTS_STARTED"
           [] target = "SUCCESS"           -> "TESTS_PASSED"
           [] target = "ROLLED_BACK"       -> "ROLLBACK_COMPLETED"
           [] OTHER                        -> target

TransitionEvents ==
    {"RETRY_STARTED", "ANALYSIS_FAILED", "PATCH_REJECTED", "PATCH_APPLY_FAILED",
     "TESTS_FAILED", "SESSION_FAILED", "ERROR_CAPTURED", "ANALYSIS_STARTED",
     "ROOT_CAUSE_FOUND", "PATCH_GENERATED", "PATCH_AWAITING_APPROVAL",
     "PATCH_APPROVED", "TESTS_STARTED", "TESTS_PASSED", "ROLLBACK_COMPLETED"}
=============================================================================
