------------------------------ MODULE AgentApi ------------------------------
(***************************************************************************)
(* What the phone and the desktop dashboard see of the agent: HTTP calls   *)
(* that are answered in any order, and rows that calls of either client    *)
(* change.  PatchWorkflow and SessionStore have the inside of a call; here *)
(* a call is one step of the agent, or two when it awaits the model, and a *)
(* read is served when it is sent: its answer takes any time to arrive.    *)
(*                                                                         *)
(* Both programs read and mutate through the same optimistic protocol: a   *)
(* mutation carries the revision, and a decision the patch, of the view it *)
(* was pressed on.  Two equal reads in flight count as one.                *)
(***************************************************************************)
EXTENDS StateMachine, Sequences, FiniteSets

CONSTANTS
    Existing,    \* what rows the agent may have from before
    MaxSessions, \* bound: sessions, the existing ones included
    MaxActs,     \* bound: what people do on either client, and failures of calls
    MaxFaults    \* bound: calls or replies lost, or timed out, among them

VARIABLES
    row,       \* the session and the current patch of each session
    calls,   \* calls in flight, and answers not handled yet
    faults,  \* how often a call failed
    acts,    \* how often a person did something
    created  \* history: the acts of ANALYZE, and the session each created

agentVars == <<row, calls, faults, acts, created>>

Ids == 1..MaxSessions

PatchStatus ==
    {"NONE", "PROPOSED", "AWAITING_APPROVAL", "REJECTED", "APPROVED", "APPLYING",
     "APPLIED", "VERIFIED", "FAILED", "ROLLED_BACK", "RECOVERY_REQUIRED"}
RollbackStatus == {"AVAILABLE", "COMPLETED", "CONFLICT", "UNAVAILABLE"}

Row == [state: DebugState, revision: Nat, retry_count: 0..MaxRetries,
        patch: Nat, status: PatchStatus, rollback: RollbackStatus]

ASSUME AgentAssumption ==
    /\ MaxSessions \in Nat /\ MaxActs \in Nat /\ MaxFaults \in Nat
    /\ \A rows \in Existing : rows \in Seq(Row) /\ Len(rows) <= MaxSessions

NewRow == [state |-> "IDLE", revision |-> 0, retry_count |-> 0, patch |-> 0,
           status |-> "NONE", rollback |-> "UNAVAILABLE"]

\* DebugSession and PatchWorkflowView, or none of them.
SessionView == [id: Ids \cup {0}, state: DebugState, revision: Nat,
                retry_count: 0..MaxRetries]
PatchView == [session: Ids \cup {0}, number: Nat, status: PatchStatus,
              rollback: RollbackStatus]
NoSession == [id |-> 0, state |-> "IDLE", revision |-> 0, retry_count |-> 0]
NoPatch == [session |-> 0, number |-> 0, status |-> "NONE", rollback |-> "UNAVAILABLE"]

ViewOf(rows, s) == [id |-> s, state |-> rows[s].state, revision |-> rows[s].revision,
                    retry_count |-> rows[s].retry_count]
PatchOf(rows, s) ==
    IF rows[s].patch = 0 THEN NoPatch
    ELSE [session |-> s, number |-> rows[s].patch, status |-> rows[s].status,
          rollback |-> rows[s].rollback]

Clients == {"phone", "desktop"}
Reads   == {"session", "patch", "list", "dashboard", "page"}
Changes == {"create", "capture", "analyze", "generate", "approve", "reject", "rollback",
            "select", "prepare", "reset", "other"}

\* The functions that await calls, of either client.
Handlers == {"dashboard", "reconcile", "read", "open", "start", "analyze", "generate", "retry",
             "approve", "reject", "rollback", "demo", "reselect", "inspect", "other"}

\* An answer carries what of the agent's rows its handler takes.
Refused == [ok |-> FALSE, rows |-> <<>>, view |-> NoSession, patch |-> NoPatch]
Answers == [ok: BOOLEAN, rows: Seq(SessionView), view: SessionView, patch: PatchView]

\* handler is the function that awaits the call, press the act that began it;
\* a call of client "none" is one whose client has given up on it.
Call == [client: Clients \cup {"none"}, handler: Handlers, kind: Reads \cup Changes,
         press: Nat, view: SessionView, patch: PatchView,
         stage: {"sent", "running", "answered"}, tries: 0..1, answer: Answers]

\* What the agent returns for a call on session s, having the given rows.
Response(kind, s, rows) ==
    LET has(kinds) == s # 0 /\ kind \in kinds
    IN [ok   |-> kind = "patch" => rows[s].patch # 0,
        rows |-> IF kind = "dashboard" THEN [i \in DOMAIN rows |-> ViewOf(rows, i)] ELSE <<>>,
        view |-> IF has((Reads \cup Changes) \ {"patch"}) THEN ViewOf(rows, s)
                 ELSE NoSession,
        patch |-> IF has({"patch", "generate", "approve", "reject", "rollback"})
                  THEN PatchOf(rows, s) ELSE NoPatch]

Request(client, handler, kind, press, view, patch) ==
    [client |-> client, handler |-> handler, kind |-> kind, press |-> press,
     view |-> view, patch |-> patch, stage |-> "sent", tries |-> 0, answer |-> Refused]

Read(client, handler, kind, s) ==
    [Request(client, handler, kind, 0, [NoSession EXCEPT !.id = s], NoPatch)
       EXCEPT !.stage = "answered", !.answer = Response(kind, s, row)]

AgentInit ==
    /\ row \in Existing
    /\ faults = 0 /\ acts = 0 /\ created = {}

\* What a handler leaves alone.
agentRows == <<row, faults, created>>

Acts == acts + faults < MaxActs /\ acts' = acts + 1

\* A person presses a button: its handler sends its first call.
Press(client, handler, kind, view, patch) ==
    /\ Acts
    /\ calls' = calls \cup {Request(client, handler, kind, acts', view, patch)}
    /\ UNCHANGED agentRows

\* A handler takes the answer c, and sends what follows.
Handled(c, next) == calls' = (calls \ {c}) \cup next /\ UNCHANGED <<agentRows, acts>>

\* The same handler's next change.
Following(c, kind, view) == Request(c.client, c.handler, kind, c.press, view, c.patch)

-----------------------------------------------------------------------------
(* What the agent may answer.                                              *)

Transition(r, target) ==
    [r EXCEPT !.state = target, !.revision = @ + 1,
              !.retry_count = NextRetryCount(r.state, target, @)]
Tested(r) == Transition(Transition(r, "PATCH_APPLYING"), "TESTING")
Patched(r, status, rollback) == [r EXCEPT !.status = status, !.rollback = rollback]

\* Faulty variant: the patch a decision names is not looked at.
NamesAnyPatch(c, r) == TRUE

\* _current_patch: the decision names the patch the session has now.
NamesCurrentPatch(c, r) == c.patch.session = c.view.id /\ c.patch.number = r.patch

Admits(c, r) ==
    /\ c.view.revision = r.revision
    /\ CASE c.kind = "capture"  -> r.state = "IDLE"
         [] c.kind = "analyze"  -> Decidable(r.state, "ANALYZING", r.retry_count)
         [] c.kind = "generate" -> /\ r.state = "ROOT_CAUSE_FOUND"
                                   /\ \A d \in calls : d.view.id = c.view.id =>
                                          ~(d.kind = "generate" /\ d.stage = "running")
         [] c.kind \in {"approve", "reject"} ->
                /\ r.state = "AWAITING_APPROVAL" /\ r.status = "AWAITING_APPROVAL"
                /\ NamesCurrentPatch(c, r)
         [] c.kind = "rollback" ->
                /\ r.state \in {"SUCCESS", "FAILED"} /\ r.rollback = "AVAILABLE"
                /\ NamesCurrentPatch(c, r)
         [] OTHER -> FALSE

\* Rows after a call that ends normally, and after one that ends in an error.
Succeeds(c, r) ==
    CASE c.kind = "capture" -> {Transition(r, "CAPTURED")}
      [] c.kind = "analyze" -> {Transition(r, "ROOT_CAUSE_FOUND")}
      [] c.kind = "generate" ->
            {[Patched(Transition(Transition(r, "PATCH_GENERATED"), "AWAITING_APPROVAL"),
                      "AWAITING_APPROVAL", "UNAVAILABLE") EXCEPT !.patch = @ + 1]}
      [] c.kind = "approve" ->
            {Patched(Transition(Tested(r), "SUCCESS"), "VERIFIED", "AVAILABLE"),
             Patched(Transition(Tested(r), "FAILED"), "FAILED", "AVAILABLE")}
      [] c.kind = "reject" -> {Patched(Transition(r, "FAILED"), "REJECTED", r.rollback)}
      [] OTHER -> {Patched(Transition(r, "ROLLED_BACK"), "ROLLED_BACK", "COMPLETED")}

Fails(c, r) ==
    CASE c.kind \in {"analyze", "generate"} -> {Transition(r, "FAILED")}
      [] c.kind = "approve" ->
            {r} \cup {Patched(Transition(Transition(r, "PATCH_APPLYING"), "FAILED"), "FAILED",
                                rollback) :
                        rollback \in {"UNAVAILABLE", "AVAILABLE"}}
      [] c.kind = "rollback" -> {Patched(r, r.status, "CONFLICT")}
      [] OTHER -> {}

-----------------------------------------------------------------------------
(* Steps of the agent.                                                     *)

\* The answer goes on its way, unless its client has given up on the call.
Answer(c, ok, s) ==
    calls' = (calls \ {c}) \cup
        (IF c.client = "none" THEN {}
         ELSE {[c EXCEPT !.stage = "answered", !.view = NoSession, !.patch = NoPatch,
                         !.answer = IF ok THEN Response(c.kind, s, row') ELSE Refused]})

\* POST /sessions; its answer names the session with the last row.
ServeCreate(c) ==
    /\ c.stage = "sent" /\ c.kind = "create"
    /\ Len(row) < MaxSessions
    /\ row' = Append(row, NewRow)
    /\ created' = created \cup {<<c.press, Len(row) + 1>>}
    /\ UNCHANGED <<faults, acts>>
    /\ Answer(c, TRUE, Len(row) + 1)

\* Selecting, preparing and inspecting can fail; so can the calls that touch
\* no session (commands, demo checks, pairing codes, revocations).
ServeWorkspace(c) ==
    /\ c.stage = "sent" /\ c.kind \in {"select", "prepare", "reset", "other"}
    /\ UNCHANGED <<row, faults, acts, created>>
    /\ \E ok \in BOOLEAN : Answer(c, ok, 0)

\* A change is refused, or made at once, or begun when it needs the model.
ServeChange(c) ==
    /\ c.stage = "sent" /\ c.kind \in Changes
    /\ c.kind \notin {"create", "select", "prepare", "reset", "other"}
    /\ UNCHANGED <<faults, acts, created>>
    /\ LET s == c.view.id
           r == row[s]
           begun == IF c.kind = "analyze" THEN Transition(r, "ANALYZING") ELSE r
       IN IF ~Admits(c, r) THEN UNCHANGED row /\ Answer(c, FALSE, s)
          ELSE IF c.kind \in {"analyze", "generate"}
          THEN /\ row' = [row EXCEPT ![s] = begun]
               /\ calls' = (calls \ {c}) \cup {[c EXCEPT !.stage = "running"]}
          ELSE \/ \E n \in Succeeds(c, r) : row' = [row EXCEPT ![s] = n] /\ Answer(c, TRUE, s)
               \/ \E n \in Fails(c, r) : row' = [row EXCEPT ![s] = n] /\ Answer(c, FALSE, s)

\* The model has answered, or has not.
FinishChange(c) ==
    /\ c.stage = "running"
    /\ UNCHANGED <<faults, acts, created>>
    /\ LET s == c.view.id
           r == row[s]
       IN \/ \E n \in Succeeds(c, r) : row' = [row EXCEPT ![s] = n] /\ Answer(c, TRUE, s)
          \/ \E n \in Fails(c, r) : row' = [row EXCEPT ![s] = n] /\ Answer(c, FALSE, s)

-----------------------------------------------------------------------------
(* Calls that fail on the way.                                             *)

\* Faulty variant: POST /sessions is sent again as well.
RetriesOfAll(kind) == IF kind \in Reads \cup {"create"} THEN 1 ELSE 0

\* Faulty variant: no call is sent again.
RetriesOfNone(kind) == 0

\* ApiClient.request: a GET is sent again once, a POST never.
Retries(kind) == IF kind \in Reads THEN 1 ELSE 0

\* Sent again (once asks anew), or the handler is told of the failure.
Afresh(c) ==
    IF c.client = "phone" /\ c.tries < Retries(c.kind)
    THEN IF c.kind \in Reads
         THEN [c EXCEPT !.tries = @ + 1, !.answer = Response(c.kind, c.view.id, row)]
         ELSE [c EXCEPT !.tries = @ + 1, !.stage = "sent"]
    ELSE [c EXCEPT !.stage = "answered", !.view = NoSession, !.patch = NoPatch,
                   !.answer = Refused]

\* The request or its answer is lost, or the client's timeout ends it while
\* the agent is still going to serve it or serving it.
Fault(c) ==
    /\ c.client # "none" /\ ~(c.stage = "answered" /\ ~c.answer.ok)
    /\ faults < MaxFaults /\ acts + faults < MaxActs /\ faults' = faults + 1
    /\ \/ c.stage # "running" /\ calls' = (calls \ {c}) \cup {Afresh(c)}
       \/ /\ c.stage # "answered"
          /\ calls' = (calls \ {c}) \cup {Afresh(c), [c EXCEPT !.client = "none"]}
    /\ UNCHANGED <<row, acts, created>>

Serve(c) == ServeCreate(c) \/ ServeWorkspace(c) \/ ServeChange(c)
            \/ FinishChange(c)

AgentTypeOK ==
    /\ row \in Seq(Row) /\ Len(row) <= MaxSessions
    /\ calls \subseteq Call
    /\ faults \in 0..MaxFaults /\ acts \in 0..MaxActs
    /\ created \subseteq (Nat \X Ids)
=============================================================================
