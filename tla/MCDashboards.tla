---------------------------- MODULE MCDashboards ----------------------------
(* Values of the rows from before for TLC.                                  *)
EXTENDS Dashboards

Awaiting == [state |-> "AWAITING_APPROVAL", revision |-> 4, retry_count |-> 0,
             patch |-> 1, status |-> "AWAITING_APPROVAL", rollback |-> "UNAVAILABLE"]
Rejected == [state |-> "FAILED", revision |-> 9, retry_count |-> MaxRetries - 1,
             patch |-> 2, status |-> "REJECTED", rollback |-> "UNAVAILABLE"]
Verified == [state |-> "SUCCESS", revision |-> 7, retry_count |-> 0,
             patch |-> 1, status |-> "VERIFIED", rollback |-> "AVAILABLE"]

\* Nothing yet; a fix to decide on beside one that is done; two fixes to retry,
\* each for the last time.
Histories == {<<>>, <<Verified, Awaiting>>, <<Rejected, Rejected>>}
=============================================================================
