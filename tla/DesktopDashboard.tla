-------------------------- MODULE DesktopDashboard --------------------------
(***************************************************************************)
(* The dashboard on the laptop: App.tsx of desktop-web.  It shows only the *)
(* sessions it started itself, and what its own calls returned.            *)
(***************************************************************************)
EXTENDS AgentApi

VARIABLE desk  \* debugSession, patchWorkflow, analysis, busyAction, workspace

\* It started the first of the sessions there are, and shows it.
DeskInit ==
    desk = IF row = <<>>
           THEN [session |-> NoSession, patch |-> NoPatch, analysis |-> FALSE,
                 busy |-> FALSE, workspace |-> FALSE]
           ELSE [session |-> ViewOf(row, 1), patch |-> PatchOf(row, 1), analysis |-> TRUE,
                 busy |-> FALSE, workspace |-> TRUE]

Free(d) == [d EXCEPT !.busy = FALSE]
Empty(d) == [d EXCEPT !.session = NoSession, !.patch = NoPatch, !.analysis = FALSE]

-----------------------------------------------------------------------------
(* Presses.  Every button is disabled while busy.                          *)

Sends(handler, kind, shown) ==
    /\ Press("desktop", handler, kind, desk.session, desk.patch)
    /\ desk' = [shown EXCEPT !.busy = TRUE]

\* The session of before stays, without its analysis and its patch.
AnalyzeError ==
    /\ ~desk.busy /\ desk.workspace
    /\ Sends("analyze", "create", [desk EXCEPT !.analysis = FALSE, !.patch = NoPatch])

\* Offered with every analysis, whatever the state of the session.
GenerateFix ==
    /\ ~desk.busy /\ desk.analysis /\ desk.session # NoSession
    /\ Sends("generate", "generate", desk)

DecidePatch ==
    /\ ~desk.busy /\ desk.session # NoSession
    /\ desk.patch.status = "AWAITING_APPROVAL"
    /\ \E action \in {"approve", "reject"} : Sends(action, action, desk)

RollbackPatch ==
    /\ ~desk.busy /\ desk.session # NoSession
    /\ desk.patch.rollback = "AVAILABLE" /\ desk.patch.status \in {"VERIFIED", "FAILED"}
    /\ Sends("rollback", "rollback", desk)

\* No limit of the retries here: the agent has it.
RetryFix ==
    /\ ~desk.busy /\ desk.patch.status \in {"FAILED", "REJECTED"}
    /\ desk.session.state = "FAILED"
    /\ Sends("retry", "analyze", desk)

\* SELECT or PREPARE DEMO, and RESET.
DeskDemo ==
    /\ ~desk.busy
    /\ \E kind \in {"select", "reset"} : Sends("demo", kind, desk)

\* VERIFY, the pre-demo check, a pairing code, a revocation, a command.
DeskOther == ~desk.busy /\ Sends("other", "other", desk)

\* INSPECT PROJECT is disabled while busy, but Enter in its field is not.
InspectWorkspace == Sends("inspect", "select", desk)

DeskPresses ==
    \/ AnalyzeError \/ GenerateFix \/ DecidePatch \/ RollbackPatch \/ RetryFix
    \/ DeskDemo \/ DeskOther \/ InspectWorkspace

-----------------------------------------------------------------------------
(* Answers.                                                                *)

DeskView(c) == c.answer.view
DeskPatch(c) == c.answer.patch

\* The sessions, transitions and analyze calls in turn.
AnalyzeAnswered(c) ==
    /\ c.handler = "analyze" /\ c.answer.ok
    /\ \/ /\ c.kind = "create"
          /\ Handled(c, {Following(c, "capture", c.answer.view)})
          /\ UNCHANGED desk
       \/ /\ c.kind = "capture"
          /\ Handled(c, {Following(c, "analyze", DeskView(c))})
          /\ UNCHANGED desk
       \/ /\ c.kind = "analyze"
          /\ desk' = Free([desk EXCEPT !.session = DeskView(c), !.analysis = TRUE])
          /\ Handled(c, {})

\* generateFix, decidePatch, rollbackPatch and retryAnalysis.
FixAnswered(c) ==
    /\ c.handler \in {"generate", "approve", "reject", "rollback", "retry"} /\ c.answer.ok
    /\ desk' = Free(IF c.kind = "analyze"
                    THEN [desk EXCEPT !.session = DeskView(c), !.analysis = TRUE,
                                      !.patch = NoPatch]
                    ELSE [desk EXCEPT !.session = DeskView(c), !.patch = DeskPatch(c)])
    /\ Handled(c, {})

\* A demo empties the panels; resetting the selected one selects it again.
DeskDemoAnswered(c) ==
    /\ c.handler \in {"demo", "reselect"} /\ c.answer.ok
    /\ \/ /\ c.handler = "demo"
          /\ desk' = Free([Empty(desk) EXCEPT !.workspace = @ \/ c.kind # "reset"])
          /\ Handled(c, {})
       \/ /\ c.handler = "demo" /\ c.kind = "reset" /\ desk.workspace
          /\ desk' = Empty(desk)
          /\ Handled(c, {[Following(c, "select", NoSession) EXCEPT !.handler = "reselect"]})
       \/ /\ c.handler = "reselect"
          /\ desk' = Free([desk EXCEPT !.workspace = TRUE])
          /\ Handled(c, {})

\* inspectWorkspace and the calls that only show their result.  Whichever
\* ends first makes the buttons available again.
InspectAnswered(c) ==
    /\ c.handler \in {"inspect", "other"}
    /\ desk' = Free([desk EXCEPT !.workspace = IF c.handler = "inspect" THEN c.answer.ok ELSE @])
    /\ Handled(c, {})

DeskFailed(c) ==
    /\ ~c.answer.ok /\ c.handler \notin {"inspect", "other"}
    /\ desk' = Free(desk)
    /\ Handled(c, {})

DeskAnswers(c) ==
    /\ c.client = "desktop" /\ c.stage = "answered"
    /\ \/ AnalyzeAnswered(c) \/ FixAnswered(c) \/ DeskDemoAnswered(c)
       \/ InspectAnswered(c) \/ DeskFailed(c)

DeskTypeOK ==
    desk \in [session: SessionView, patch: PatchView, analysis: BOOLEAN,
              busy: BOOLEAN, workspace: BOOLEAN]
=============================================================================
