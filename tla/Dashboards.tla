----------------------------- MODULE Dashboards -----------------------------
(***************************************************************************)
(* The phone and the desktop dashboard at work on the sessions of one      *)
(* agent.                                                                  *)
(***************************************************************************)
EXTENDS PhoneWorkflow, DesktopDashboard

vars == <<agentVars, phoneVars, desk>>

\* The app starts and asks for the dashboard.
Init == AgentInit /\ PhoneInit /\ DeskInit /\ calls = {Dashboard}

Phone == \/ PhonePresses \/ Reopened
         \/ SendSnapshot \/ TakeSnapshot \/ TakeEvents
         \/ \E c \in calls : PhoneAnswers(c)

Desktop == DeskPresses \/ \E c \in calls : DeskAnswers(c)

Agent == \E c \in calls : Serve(c) \/ Fault(c)

Next == \/ Phone /\ UNCHANGED desk
        \/ Desktop /\ UNCHANGED phoneVars
        \/ Agent /\ UNCHANGED <<phoneVars, desk>>

Spec == Init /\ [][Next]_vars

\* The agent answers, messages and answers arrive; nobody has to press.
Fairness ==
    /\ WF_vars(SendSnapshot /\ UNCHANGED desk)
    /\ WF_vars(TakeSnapshot /\ UNCHANGED desk)
    /\ WF_vars(TakeEvents /\ UNCHANGED desk)
    /\ WF_vars((\E c \in calls : Serve(c)) /\ UNCHANGED <<phoneVars, desk>>)
    /\ WF_vars((\E c \in calls : PhoneAnswers(c)) /\ UNCHANGED desk)
    /\ WF_vars((\E c \in calls : DeskAnswers(c)) /\ UNCHANGED phoneVars)

FairSpec == Spec /\ Fairness

-----------------------------------------------------------------------------

TypeOK == AgentTypeOK /\ PhoneTypeOK /\ DeskTypeOK

\* A session leaves AWAITING_APPROVAL, or is rolled back, only for a press on a
\* screen that showed the session as it is and the very patch it has: whatever
\* older answers, other sessions' patches and the other client's changes the
\* screen mixed, a view that is not the agent's decides nothing.
DecidesWhatWasShown ==
    [][\A s \in DOMAIN row :
         (row'[s] # row[s] /\ (row[s].state = "AWAITING_APPROVAL" \/ row'[s].state = "ROLLED_BACK"))
            => \E c \in calls : /\ c.kind \in {"approve", "reject", "rollback"}
                                /\ c.view = ViewOf(row, s)
                                /\ c.patch.session = s /\ c.patch.number = row[s].patch]_vars

\* A press of ANALYZE creates at most one session, although its answer may be
\* lost or time out and reads are sent again.
OnePressOneSession == \A a, b \in created : a[1] = b[1] => a = b

\* A screen is busy only while an answer that makes it free is still to come.
BusyOnlyWhileWaiting ==
    /\ phone.busy =>
         \E c \in calls : /\ c.client = "phone"
                          /\ c.handler \notin {"reconcile", "read", "dashboard"}
    /\ desk.busy => \E c \in calls : c.client = "desktop"

\* The phone learns of everything that happens to the session it follows,
\* whoever did it and whichever single call failed on the way: its latest
\* revision reaches the screen.
NothingIsMissed ==
    <>[](bridge.stage # "off" => bridge.shown = row[bridge.session].revision)
=============================================================================
