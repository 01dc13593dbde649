--------------------------- MODULE MCVoiceControl ---------------------------
(* VoiceControl with a handful of screens behind the sheet.                *)
EXTENDS VoiceControl

Screen(state, patch, own) ==
    [state |-> state, patch |-> patch, own |-> own, text |-> state = None,
     analysis |-> state # None, retry_count |-> 0]

\* An error that is not analysed yet, a root cause, a patch that awaits its
\* approval (also a patch of a session that is not the one shown), and one that
\* passed its tests.
SomeScreens ==
    {Screen(None, None, TRUE),
     Screen("ROOT_CAUSE_FOUND", None, TRUE),
     Screen("AWAITING_APPROVAL", "AWAITING_APPROVAL", TRUE),
     Screen("AWAITING_APPROVAL", "AWAITING_APPROVAL", FALSE),
     Screen("SUCCESS", "VERIFIED", TRUE)}

SomeWords ==
    {"ANALYZE_ERROR", "GENERATE_PATCH", "approve", "REJECT_PATCH", "ROLLBACK", "SHOW_PATCH",
     "explain this", "CONFIRM", "CANCEL"}
=============================================================================
