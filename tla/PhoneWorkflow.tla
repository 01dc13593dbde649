--------------------------- MODULE PhoneWorkflow ---------------------------
(***************************************************************************)
(* The phone's dashboard: the reducer of state/workflow.ts and the         *)
(* handlers of App.tsx that fill it from answers of the agent, from the    *)
(* bridge's messages and from the laptop's other client.                   *)
(*                                                                         *)
(* The texts, the tabs, the list of the history and the pipeline's labels  *)
(* are left out: a press that only changes them is no step, one with an    *)
(* empty text does nothing, and any session may be opened.                 *)
(* The bridge is EventStream's promise: a snapshot when it opens, then     *)
(* word of every revision.                                                 *)
(***************************************************************************)
EXTENDS AgentApi, Functions

VARIABLES
    phone,  \* WorkflowState, busy, and what the handlers remember
    bridge  \* the session LocalWebSocketBridge follows, and its socket

phoneVars == <<phone, bridge>>

PatchedStates ==
    {"PATCH_GENERATED", "AWAITING_APPROVAL", "PATCH_APPLYING", "TESTING", "SUCCESS",
     "FAILED", "ROLLED_BACK"}

\* upto is the last revision the bridge was told of; shown, a history, the
\* latest one dispatched since it follows the session.
Off == [session |-> 0, stage |-> "off", upto |-> 0, shown |-> 0,
        view |-> NoSession, patch |-> NoPatch]
NoAlert == [view |-> NoSession, patch |-> NoPatch]

PhoneInit ==
    /\ phone = [session |-> NoSession, patch |-> NoPatch,
                busy |-> FALSE, workspace |-> FALSE, resumed |-> FALSE, alert |-> NoAlert]
    /\ bridge = Off

Dashboard == Read("phone", "dashboard", "dashboard", 0)
Reconcile(s) == Read("phone", "reconcile", "session", s)

-----------------------------------------------------------------------------
(* The reducer.                                                            *)

WithSession(p, view) == [p EXCEPT !.session = view]
WithPatch(p, patch) == [p EXCEPT !.patch = patch]
Cleared(p) == [p EXCEPT !.session = NoSession, !.patch = NoPatch]
Idle(p) == [p EXCEPT !.busy = FALSE]

\* SESSION and SNAPSHOT put a view on the screen.
Dispatched(b, view) ==
    IF b.session = view.id /\ b.shown < view.revision THEN [b EXCEPT !.shown = view.revision] ELSE b

\* bridge.connect: what the agent had at view.revision is known.
Connected(view) == [Off EXCEPT !.session = view.id, !.stage = "opening",
                               !.upto = view.revision, !.shown = view.revision]

-----------------------------------------------------------------------------
(* Presses.  A PrimaryButton is off while busy; a SecondaryButton is not.  *)

NoAlertOpen == phone.alert = NoAlert

Gesture == NoAlertOpen /\ Acts

Ask(handler, kind) ==
    /\ NoAlertOpen
    /\ Press("phone", handler, kind, phone.session, phone.patch)
    /\ phone' = [phone EXCEPT !.busy = TRUE]
    /\ UNCHANGED bridge

Undecided == phone.session.state \notin {"SUCCESS", "FAILED", "ROLLED_BACK"}
ShowsDecision ==
    /\ phone.session # NoSession /\ phone.patch # NoPatch
    /\ Undecided /\ phone.patch.status = "AWAITING_APPROVAL"

\* The form asks for no session on the screen and none busy; the scanner, which
\* opens over either, does not.
StartAnalysis ==
    /\ phone.workspace
    /\ Ask("start", "create")

RequestPatch ==
    /\ phone.session.state = "ROOT_CAUSE_FOUND" /\ ~phone.busy
    /\ Ask("generate", "generate")

Approve == ShowsDecision /\ ~phone.busy /\ Ask("approve", "approve")
Reject  == ShowsDecision /\ Ask("reject", "reject")

RetryAnalysis ==
    /\ phone.session.state = "FAILED" /\ phone.session.retry_count < MaxRetries
    /\ Ask("retry", "analyze")

\* UNDO FIX opens an alert, which keeps the view it was opened on.
OffersRollback ==
    /\ phone.session # NoSession /\ phone.patch # NoPatch
    /\ \/ phone.session.state = "SUCCESS"
       \/ phone.session.state # "ROLLED_BACK" /\ phone.patch.rollback = "AVAILABLE"
            /\ (Undecided => phone.patch.status \in {"VERIFIED", "FAILED"})

OpenAlert ==
    /\ OffersRollback /\ NoAlertOpen
    /\ phone' = [phone EXCEPT !.alert = [view |-> phone.session, patch |-> phone.patch]]
    /\ UNCHANGED <<agentVars, bridge>>

ConfirmRollback ==
    /\ ~NoAlertOpen
    /\ Press("phone", "rollback", "rollback", phone.alert.view, phone.alert.patch)
    /\ phone' = [phone EXCEPT !.busy = TRUE, !.alert = NoAlert]
    /\ UNCHANGED bridge

CancelAlert ==
    /\ ~NoAlertOpen
    /\ phone' = [phone EXCEPT !.alert = NoAlert]
    /\ UNCHANGED <<agentVars, bridge>>

\* A demo is selected, prepared or (after an alert) reset.
ChooseDemo ==
    /\ ~phone.busy
    /\ \E kind \in {"select", "prepare", "reset"} : Ask("demo", kind)

OpenSession(s) ==
    /\ s \in DOMAIN row /\ Gesture
    /\ calls' = calls \cup {Read("phone", "open", "page", s)}
    /\ phone' = [phone EXCEPT !.busy = TRUE]
    /\ UNCHANGED <<agentRows, bridge>>

\* NEW SESSION.
NewSession ==
    /\ phone.session # NoSession /\ Gesture
    /\ bridge' = Off /\ phone' = Cleared(phone)
    /\ UNCHANGED <<agentRows, calls>>

\* DONE, START OVER, REVIEW ERROR TEXT: the reducer starts again, workspace included.
Reset ==
    /\ phone.session # NoSession /\ Gesture
    /\ \/ phone.session.state \in {"SUCCESS", "ROLLED_BACK"}
       \/ phone.session.state = "FAILED" /\ phone.patch = NoPatch
       \/ phone.session.state = "ROOT_CAUSE_FOUND" /\ phone.patch = NoPatch /\ ~phone.busy
    /\ bridge' = Off /\ phone' = [Cleared(phone) EXCEPT !.workspace = FALSE]
    /\ calls' = calls \cup {Dashboard}
    /\ UNCHANGED agentRows

\* TRY AGAIN of the banner that reports an error.
Refresh ==
    /\ Gesture
    /\ calls' = calls \cup {Dashboard}
    /\ UNCHANGED <<agentRows, phone, bridge>>

\* The app comes back to the foreground.
Foreground ==
    /\ Acts
    /\ bridge' = IF bridge.stage = "off" THEN bridge ELSE [bridge EXCEPT !.stage = "opening"]
    /\ calls' = calls \cup {Dashboard} \cup
                  (IF phone.session = NoSession THEN {} ELSE {Reconcile(phone.session.id)})
    /\ UNCHANGED <<agentRows, phone>>

PhonePresses ==
    \/ StartAnalysis \/ RequestPatch \/ Approve \/ Reject \/ RetryAnalysis
    \/ OpenAlert \/ ConfirmRollback \/ CancelAlert \/ ChooseDemo
    \/ \E s \in Ids : OpenSession(s)
    \/ NewSession \/ Reset \/ Refresh \/ Foreground

-----------------------------------------------------------------------------
(* Messages of the bridge.                                                 *)

\* The socket is cut and opened again.
Reopened ==
    /\ bridge.stage \in {"snapshot", "live"}
    /\ Acts
    /\ bridge' = [bridge EXCEPT !.stage = "opening", !.view = NoSession, !.patch = NoPatch]
    /\ UNCHANGED <<agentRows, calls, phone>>

\* The agent reads the rows for the snapshot ...
SendSnapshot ==
    /\ bridge.stage = "opening"
    /\ bridge' = [bridge EXCEPT !.stage = "snapshot", !.upto = row[bridge.session].revision,
                    !.view = ViewOf(row, bridge.session), !.patch = PatchOf(row, bridge.session)]
    /\ UNCHANGED <<agentVars, phone>>

\* ... and the phone takes it, later: SNAPSHOT with the patch, null included.
TakeSnapshot ==
    /\ bridge.stage = "snapshot"
    /\ bridge' = [Dispatched(bridge, bridge.view) EXCEPT
                    !.stage = "live", !.view = NoSession, !.patch = NoPatch]
    /\ phone' = WithPatch(WithSession(phone, bridge.view), bridge.patch)
    /\ calls' = calls \cup {Reconcile(bridge.session)}
    /\ UNCHANGED <<agentRows, acts>>

\* Events of one or more revisions arrive; the session itself is fetched.
TakeEvents ==
    /\ bridge.stage = "live" /\ bridge.upto < row[bridge.session].revision
    /\ bridge' = [bridge EXCEPT !.upto = row[bridge.session].revision]
    /\ calls' = calls \cup {Reconcile(bridge.session)}
    /\ UNCHANGED <<agentRows, acts, phone>>

-----------------------------------------------------------------------------
(* Answers.  "Answered" actions handle the answer c of a call.             *)

View(c) == c.answer.view
Patch(c) == c.answer.patch

\* refreshHistory, which the handler awaits.
History(c) == Read("phone", c.handler, "list", 0)

\* Faulty variant: a handler that fails stays busy.
GivesUpBusy(c) ==
    /\ Handled(c, {}) /\ UNCHANGED phoneVars

\* finally { setBusy(null) }, with nothing dispatched.
GivesUp(c) ==
    /\ Handled(c, {})
    /\ phone' = Idle(phone)
    /\ UNCHANGED bridge

\* createSession, captureSession, analyzeText and refreshHistory in turn.
StartAnswered(c) ==
    /\ c.handler = "start" /\ c.kind # "list" /\ c.answer.ok
    /\ \/ /\ c.kind = "create"
          /\ Handled(c, {Following(c, "capture", View(c))})
          /\ UNCHANGED <<phone, bridge>>
       \/ /\ c.kind = "capture"
          /\ phone' = WithSession(phone, View(c))
          /\ bridge' = Connected(View(c))
          /\ Handled(c, {Following(c, "analyze", View(c))})
       \/ /\ c.kind = "analyze"
          /\ phone' = WithSession(phone, View(c))
          /\ bridge' = Dispatched(bridge, View(c))
          /\ Handled(c, {History(c)})

GenerateAnswered(c) ==
    /\ c.handler = "generate" /\ c.answer.ok
    /\ phone' = Idle(WithPatch(WithSession(phone, View(c)), Patch(c)))
    /\ bridge' = Dispatched(bridge, View(c))
    /\ Handled(c, {})

\* A retry and a decision dispatch their result and then fetch the history.
ResultAnswered(c) ==
    /\ c.handler \in {"retry", "approve", "reject", "rollback"} /\ c.kind # "list"
    /\ c.answer.ok
    /\ phone' = WithPatch(WithSession(phone, View(c)),
                         IF c.handler = "retry" THEN NoPatch ELSE Patch(c))
    /\ bridge' = Dispatched(bridge, View(c))
    /\ Handled(c, {History(c)})

HistoryAnswered(c) ==
    /\ c.kind = "list" /\ c.answer.ok
    /\ GivesUp(c)

\* Only preparing a demo also stops the bridge.
DemoAnswered(c) ==
    /\ c.handler = "demo" /\ c.answer.ok
    /\ phone' = Idle([Cleared(phone) EXCEPT !.workspace = @ \/ c.kind # "reset"])
    /\ bridge' = IF c.kind = "prepare" THEN Off ELSE bridge
    /\ Handled(c, {})

\* The session and its events, dispatched as a snapshot without a patch; then
\* a reconciliation that is awaited.
OpenAnswered(c) ==
    /\ c.handler = "open" /\ c.kind = "page" /\ c.answer.ok
    /\ phone' = WithSession(phone, View(c))
    /\ bridge' = Connected(View(c))
    /\ Handled(c, {Read("phone", "open", "session", View(c).id)})

\* reconcile: the session, and then what belongs to its state; the analysis
\* does not change and comes with it here.
ReconcileAnswered(c) ==
    /\ c.kind = "session" /\ c.answer.ok
    /\ LET shown == WithSession(phone, View(c))
       IN /\ phone' = IF c.handler = "open" THEN Idle(shown) ELSE shown
          /\ bridge' = Dispatched(bridge, View(c))
          /\ Handled(c, IF View(c).state \in PatchedStates
                         THEN {Read("phone", "read", "patch", View(c).id)} ELSE {})

\* Nothing compares what arrives with the session on the screen.
ReadAnswered(c) ==
    /\ c.handler = "read" /\ c.answer.ok
    /\ phone' = WithPatch(phone, Patch(c))
    /\ Handled(c, {})
    /\ UNCHANGED bridge

\* The first dashboard resumes a session that is neither new nor rolled back
\* (of several, the one updated last).
DashboardAnswered(c) ==
    /\ c.handler = "dashboard" /\ c.answer.ok
    /\ LET known == [phone EXCEPT !.workspace = TRUE, !.resumed = TRUE]
           resumable == {view \in Range(c.answer.rows) : view.state \notin {"IDLE", "ROLLED_BACK"}}
       IN IF phone.resumed \/ resumable = {}
          THEN /\ phone' = known
               /\ bridge' = bridge
               /\ Handled(c, {})
          ELSE \E view \in resumable :
                 /\ phone' = WithSession(known, view)
                 /\ bridge' = Connected(view)
                 /\ Handled(c, {Reconcile(view.id)})

\* A failure ends a handler that made the screen busy, and no other; those
\* that follow a reconciliation are ignored.
FailureAnswered(c) ==
    /\ ~c.answer.ok
    /\ IF c.handler \in {"reconcile", "read", "dashboard"}
       THEN Handled(c, {}) /\ UNCHANGED phoneVars
       ELSE GivesUp(c)

PhoneAnswers(c) ==
    /\ c.client = "phone" /\ c.stage = "answered"
    /\ \/ StartAnswered(c) \/ GenerateAnswered(c) \/ ResultAnswered(c) \/ HistoryAnswered(c)
       \/ DemoAnswered(c) \/ OpenAnswered(c) \/ ReconcileAnswered(c) \/ ReadAnswered(c)
       \/ DashboardAnswered(c) \/ FailureAnswered(c)

PhoneTypeOK ==
    /\ phone \in [session: SessionView, patch: PatchView,
                  busy: BOOLEAN, workspace: BOOLEAN, resumed: BOOLEAN,
                  alert: [view: SessionView, patch: PatchView]]
    /\ bridge \in [session: Ids \cup {0}, stage: {"off", "opening", "snapshot", "live"},
                   upto: Nat, shown: Nat, view: SessionView, patch: PatchView]
=============================================================================
