--------------------------- MODULE PatchWorkflow ---------------------------
(***************************************************************************)
(* PatchService over PatchStore, PatchEngine and WorkspaceService: from a  *)
(* diagnosed session to a patch that is generated, approved or rejected,   *)
(* written to the developer's files, tested and rolled back.               *)
(*                                                                         *)
(* The service runs on one asyncio event loop.  An operation keeps the     *)
(* loop from its first step to its last except while generate awaits the   *)
(* provider, so operations interleave only there.  What interleaves with   *)
(* every single database commit and file access is the rest of the world:  *)
(* the worker threads that select a workspace, the developer's editor, an  *)
(* operating-system error, and the end of the process.                     *)
(*                                                                         *)
(* A file's content is the set of changes in it; patch p turns c into      *)
(* c \cup {p}, and two contents have the same hash iff they are equal.     *)
(* Progress events and their broker are left out (SessionStore has them).  *)
(***************************************************************************)
EXTENDS StateMachine, FiniteSets

CONSTANTS
    Sessions,       \* debug sessions
    Requests,       \* operations the server may have in progress
    Workspaces,     \* directories a thread may select, all with the same files
    Files,          \* the context files of the analysis, as relative paths
    Patches,        \* proposals the provider may return
    Edits,          \* changes the developer may make
    NoWorkspace, NoPatch, NoFile,
    ClientTargets,  \* states clients ask for through POST /transitions
    FaultPoints,    \* file accesses at which an OSError may strike
    MaxFaults, MaxCrashes, MaxSwitches  \* bounds

ASSUME ConstantsAssumption ==
    /\ Sessions # {}
    /\ ClientTargets \subseteq DebugState
    /\ FaultPoints \subseteq {"check", "replace", "verify", "restore",
                              "rollback_check", "rollback_replace", "undo"}
    /\ MaxFaults \in Nat /\ MaxCrashes \in Nat /\ MaxSwitches \in Nat
    /\ NoWorkspace \notin Workspaces /\ NoFile \notin Files
    /\ NoPatch \notin Patches \cup Edits /\ Patches \cap Edits = {}

VARIABLES
    session,    \* debug_sessions: the row of each session
    record,     \* patch_workflows: the row of each session
    disk,       \* the files of each workspace
    selected,   \* WorkspaceService._current
    active,     \* PatchService._active
    analyzing,  \* AnalysisService._in_flight: the revision each analysis holds, or 0
    op,         \* the operation of each request
    fresh,      \* proposal identifiers not issued yet
    edits,      \* changes the developer has not made yet
    faults, crashes, switches,  \* how often each has happened
    \* history, read by the properties only
    consent,    \* patches whose last decision by a human was to approve them
    start,      \* the files when the engine of the current operation began ...
    edited,     \* ... those the developer has touched since then ...
    unseen      \* ... and those touched since the engine last read them

rows    == <<session, record>>
memory  == <<selected, active, analyzing, op>>
world   == <<disk, fresh, edits, faults, crashes, switches>>
history == <<consent, start, edited, unseen>>
vars    == <<rows, memory, world, history>>

Content  == SUBSET (Patches \cup Edits)
Contents == [Files -> Content]
Blank    == [f \in Files |-> {}]

PatchStatus ==
    {"PROPOSED", "AWAITING_APPROVAL", "REJECTED", "APPROVED", "APPLYING", "APPLIED",
     "VERIFIED", "FAILED", "ROLLED_BACK", "RECOVERY_REQUIRED"}

RollbackStatus == {"UNAVAILABLE", "AVAILABLE", "CONFLICT", "COMPLETED"}

\* files and base are the proposal (its targets and the content it was made
\* from), saved and original the snapshot, tested the workspace of test_result.
Record ==
    [status: PatchStatus \cup {"NONE"}, patch: Patches \cup {NoPatch},
     files: SUBSET Files, base: Contents, saved: BOOLEAN, original: Contents,
     rollback: RollbackStatus, tested: Workspaces \cup {NoWorkspace}]

NoRecord ==
    [status |-> "NONE", patch |-> NoPatch, files |-> {}, base |-> Blank,
     saved |-> FALSE, original |-> Blank, rollback |-> "UNAVAILABLE",
     tested |-> NoWorkspace]

Steps ==
    {"idle", "provider", "to_generated", "to_awaiting", "save_awaiting",
     "save_rejected", "save_approved", "prepare", "check", "replace", "verify",
     "restore", "to_testing", "select_test", "run_test", "finish", "save_result",
     "fail_apply", "save_failed", "rollback_check", "conflict", "rollback_replace",
     "undo", "undo_replace", "to_rolled_back", "save_rolled_back"}

\* sources is what generate read; ws the workspace it or the engine holds;
\* todo, done and file the progress of a loop over the snapshot's files.
Operation ==
    [pc: Steps, session: Sessions, revision: Nat, ws: Workspaces \cup {NoWorkspace},
     sources: Contents, repaired: BOOLEAN, todo: SUBSET Files, done: SUBSET Files,
     file: Files \cup {NoFile}, command: Workspaces \cup {NoWorkspace}, passed: BOOLEAN]

Started(s, pc, revision) ==
    [pc |-> pc, session |-> s, revision |-> revision, ws |-> NoWorkspace,
     sources |-> Blank, repaired |-> FALSE, todo |-> {}, done |-> {}, file |-> NoFile,
     command |-> NoWorkspace, passed |-> FALSE]

Idle == Started(CHOOSE s \in Sessions : TRUE, "idle", 0)

Init ==
    /\ session = [s \in Sessions |-> Created]
    /\ record = [s \in Sessions |-> NoRecord]
    /\ disk = [w \in Workspaces |-> Blank]
    /\ selected = NoWorkspace
    /\ active = {}
    /\ analyzing = [s \in Sessions |-> 0]
    /\ op = [r \in Requests |-> Idle]
    /\ fresh = Patches /\ edits = Edits
    /\ faults = 0 /\ crashes = 0 /\ switches = 0
    /\ consent = {}
    /\ start = Blank /\ edited = {} /\ unseen = {}

-----------------------------------------------------------------------------
(* Pieces of the actions.                                                  *)

\* No operation holds the event loop: each is idle or awaits the provider.
LoopFree == \A r \in Requests : op[r].pc \in {"idle", "provider"}

\* Faulty variant: only the revision is compared.
CanMoveAnywhere(s, target, revision) == session[s].revision = revision

CanMove(s, target, revision) ==
    /\ session[s].revision = revision
    /\ Decidable(session[s].state, target, session[s].retry_count)

Move(s, target) == session' = [session EXCEPT ![s] = Moved(@, target)]

Save(s, fields) == record' = [record EXCEPT ![s] = fields]

Goto(r, pc) == op' = [op EXCEPT ![r].pc = pc]

\* Faulty variant: the claim on the session excludes nobody.
BeginUnclaimed(r, o) ==
    /\ LoopFree
    /\ op[r].pc = "idle"
    /\ active' = active \cup {o.session}
    /\ op' = [op EXCEPT ![r] = o]

\* _claim, then the first step of the operation.
Begin(r, o) ==
    /\ LoopFree
    /\ op[r].pc = "idle"
    /\ o.session \notin active
    /\ active' = active \cup {o.session}
    /\ op' = [op EXCEPT ![r] = o]

\* _release in the finally clause.
End(r) ==
    /\ active' = active \ {op[r].session}
    /\ op' = [op EXCEPT ![r] = Idle]

Target(r)  == <<op[r].ws, op[r].file>>
Current(r) == record[op[r].session]

\* What the engine writes into file f: the rendered patch, or the original.
Rendered(r, f) == Current(r).original[f] \cup {Current(r).patch}

Write(r, f, content) == disk' = [disk EXCEPT ![op[r].ws][f] = content]

\* The operating system fails a file access.
Fault(point) ==
    /\ point \in FaultPoints
    /\ faults < MaxFaults
    /\ faults' = faults + 1

\* Faulty variant: the files already replaced stay replaced.
UnwindNothing(r) == Goto(r, "fail_apply")

\* The except clause of apply restores what was replaced, then re-raises.
Unwind(r) ==
    op' = [op EXCEPT ![r].pc = IF op[r].done = {} THEN "fail_apply" ELSE "restore"]

-----------------------------------------------------------------------------
(* Sessions and analysis, as far as the patch workflow depends on them.    *)

ClientTransition(s, target) ==
    /\ LoopFree
    /\ CanMove(s, target, session[s].revision)
    /\ Move(s, target)
    /\ UNCHANGED <<record, memory, world, history>>

StartAnalysis(s) ==
    /\ LoopFree
    /\ analyzing[s] = 0
    /\ CanMove(s, "ANALYZING", session[s].revision)
    /\ Move(s, "ANALYZING")
    /\ analyzing' = [analyzing EXCEPT ![s] = session[s].revision + 1]
    /\ UNCHANGED <<record, selected, active, op, world, history>>

\* Without a workspace the context cannot be collected and the analysis fails;
\* a session that moved on meanwhile is left alone.
FinishAnalysis(s, target) ==
    /\ LoopFree
    /\ analyzing[s] # 0
    /\ selected = NoWorkspace => target = "FAILED"
    /\ IF CanMove(s, target, analyzing[s])
         THEN Move(s, target)
         ELSE UNCHANGED session
    /\ analyzing' = [analyzing EXCEPT ![s] = 0]
    /\ UNCHANGED <<record, selected, active, op, world, history>>

-----------------------------------------------------------------------------
(* generate.  A request refused before its first write changes nothing and *)
(* is no step.                                                             *)

\* Any failure before the proposal is committed ends in _fail_generation,
\* which fails the session unless it moved on.
FailGeneration(s, revision) ==
    IF session[s].state = "ROOT_CAUSE_FOUND" /\ session[s].revision = revision
      THEN Move(s, "FAILED")
      ELSE UNCHANGED session

BeginGenerate(r, s) ==
    /\ session[s].state = "ROOT_CAUSE_FOUND"
    /\ selected # NoWorkspace
    /\ Begin(r, [Started(s, "provider", session[s].revision) EXCEPT
                   !.ws = selected, !.sources = disk[selected]])
    /\ UNCHANGED <<rows, selected, analyzing, world, history>>

\* No analysis stored, no workspace, or a file that cannot be read.
GenerateWithoutSources(s) ==
    /\ LoopFree
    /\ s \notin active
    /\ session[s].state = "ROOT_CAUSE_FOUND"
    /\ FailGeneration(s, session[s].revision)
    /\ UNCHANGED <<record, memory, world, history>>

\* Unavailable, timed out, an unsupplied file, or not valid after the repair.
GenerateFails(r) ==
    /\ LoopFree
    /\ op[r].pc = "provider"
    /\ FailGeneration(op[r].session, op[r].revision)
    /\ End(r)
    /\ UNCHANGED <<record, selected, analyzing, world, history>>

\* Faulty variant: every malformed answer earns another.
GenerateRepairsForever(r) ==
    /\ LoopFree
    /\ op[r].pc = "provider"
    /\ op' = [op EXCEPT ![r].repaired = ~@]
    /\ UNCHANGED <<rows, selected, active, analyzing, world, history>>

\* Malformed output or a failed validation earns one more answer.
GenerateRepairs(r) ==
    /\ LoopFree
    /\ op[r].pc = "provider"
    /\ ~op[r].repaired
    /\ op' = [op EXCEPT ![r].repaired = TRUE]
    /\ UNCHANGED <<rows, selected, active, analyzing, world, history>>

\* The validator compares the base hashes with the files as they are now.
GenerateProposes(r, p, files) ==
    LET o == op[r]
    IN  /\ LoopFree
        /\ o.pc = "provider"
        /\ \A f \in files : disk[o.ws][f] = o.sources[f]
        /\ Save(o.session, [NoRecord EXCEPT
                  !.status = "PROPOSED", !.patch = p, !.files = files,
                  !.base = [f \in Files |-> IF f \in files THEN o.sources[f] ELSE {}]])
        /\ fresh' = fresh \ {p}
        /\ Goto(r, "to_generated")
        /\ UNCHANGED <<session, selected, active, analyzing, disk, edits, faults,
                       crashes, switches, history>>

\* The record is already saved when a session that moved on refuses this.
GenerateTransition(r) ==
    LET o == op[r]
    IN  /\ o.pc = "to_generated"
        /\ IF CanMove(o.session, "PATCH_GENERATED", o.revision)
             THEN /\ Move(o.session, "PATCH_GENERATED")
                  /\ Goto(r, "to_awaiting")
                  /\ UNCHANGED active
             ELSE /\ UNCHANGED session
                  /\ End(r)
        /\ UNCHANGED <<record, selected, analyzing, world, history>>

GenerateAwaits(r) ==
    /\ op[r].pc = "to_awaiting"
    /\ CanMove(op[r].session, "AWAITING_APPROVAL", op[r].revision + 1)
    /\ Move(op[r].session, "AWAITING_APPROVAL")
    /\ Goto(r, "save_awaiting")
    /\ UNCHANGED <<record, selected, active, analyzing, world, history>>

SaveAwaiting(r) ==
    /\ op[r].pc = "save_awaiting"
    /\ Save(op[r].session, [Current(r) EXCEPT !.status = "AWAITING_APPROVAL"])
    /\ End(r)
    /\ UNCHANGED <<session, selected, analyzing, world, history>>

-----------------------------------------------------------------------------
(* reject                                                                  *)

\* Faulty variant: the decision applies to whatever patch is current.
AwaitsAnyDecision(s, p) ==
    session[s].state = "AWAITING_APPROVAL" /\ record[s].status = "AWAITING_APPROVAL"

\* The request names the current patch and the revision of its session.
AwaitsDecision(s, p) ==
    /\ session[s].state = "AWAITING_APPROVAL"
    /\ record[s].patch = p
    /\ record[s].status = "AWAITING_APPROVAL"

Reject(r, s, p) ==
    /\ AwaitsDecision(s, p)
    /\ Begin(r, Started(s, "save_rejected", session[s].revision))
    /\ Move(s, "FAILED")
    /\ consent' = consent \ {p}
    /\ UNCHANGED <<record, selected, analyzing, world, start, edited, unseen>>

SaveRejected(r) ==
    /\ op[r].pc = "save_rejected"
    /\ Save(op[r].session, [Current(r) EXCEPT !.status = "REJECTED"])
    /\ End(r)
    /\ UNCHANGED <<session, selected, analyzing, world, history>>

-----------------------------------------------------------------------------
(* approve                                                                 *)

Approve(r, s, p) ==
    /\ AwaitsDecision(s, p)
    /\ Begin(r, Started(s, "save_approved", session[s].revision + 1))
    /\ Move(s, "PATCH_APPLYING")
    /\ consent' = consent \cup {p}
    /\ UNCHANGED <<record, selected, analyzing, world, start, edited, unseen>>

SaveApproved(r) ==
    /\ op[r].pc = "save_approved"
    /\ Save(op[r].session, [Current(r) EXCEPT !.status = "APPROVED"])
    /\ Goto(r, "prepare")
    /\ UNCHANGED <<session, selected, active, analyzing, world, history>>

\* The patch still validates against the workspace selected by now.
Applicable(r) ==
    /\ selected # NoWorkspace
    /\ \A f \in Current(r).files : disk[selected][f] = Current(r).base[f]

\* Faulty variant: the snapshot stays in memory.
PrepareUnsaved(r) ==
    LET files == Current(r).files
    IN  /\ op[r].pc = "prepare"
        /\ Applicable(r)
        /\ Save(op[r].session, [Current(r) EXCEPT !.status = "APPLYING"])
        /\ op' = [op EXCEPT ![r].pc = "check", ![r].ws = selected, ![r].todo = files]
        /\ start' = disk[selected] /\ edited' = {} /\ unseen' = {}
        /\ UNCHANGED <<session, selected, active, analyzing, world, consent>>

\* PatchEngine.prepare, and the save that makes the snapshot durable before
\* the first write.
Prepare(r) ==
    LET files == Current(r).files
    IN  /\ op[r].pc = "prepare"
        /\ Applicable(r)
        /\ Save(op[r].session, [Current(r) EXCEPT
                  !.status = "APPLYING", !.saved = TRUE, !.rollback = "AVAILABLE",
                  !.original = [f \in Files |-> IF f \in files THEN disk[selected][f] ELSE {}]])
        /\ op' = [op EXCEPT ![r].pc = "check", ![r].ws = selected, ![r].todo = files]
        /\ start' = disk[selected] /\ edited' = {} /\ unseen' = {}
        /\ UNCHANGED <<session, selected, active, analyzing, world, consent>>

\* Faulty variant: the exception does not fail the session.
PrepareRefusesQuietly(r) ==
    /\ op[r].pc = "prepare"
    /\ ~Applicable(r)
    /\ End(r)
    /\ UNCHANGED <<rows, selected, analyzing, world, history>>

PrepareRefuses(r) ==
    /\ op[r].pc = "prepare"
    /\ ~Applicable(r)
    /\ Goto(r, "fail_apply")
    /\ UNCHANGED <<rows, selected, active, analyzing, world, history>>

\* Faulty variant: the file is not compared again just before it is replaced.
CheckFileBlindly(r, f) ==
    LET o == op[r]
    IN  /\ o.pc = "check"
        /\ f \in o.todo
        /\ op' = [op EXCEPT ![r].pc = "replace", ![r].file = f]
        /\ unseen' = unseen \ {<<o.ws, f>>}
        /\ UNCHANGED <<rows, selected, active, analyzing, world, consent, start, edited>>

\* PatchEngine.apply, one file access at a time.
CheckFile(r, f) ==
    LET o == op[r]
    IN  /\ o.pc = "check"
        /\ f \in o.todo
        /\ IF disk[o.ws][f] = Current(r).base[f]
             THEN op' = [op EXCEPT ![r].pc = "replace", ![r].file = f]
             ELSE Unwind(r)
        /\ unseen' = unseen \ {<<o.ws, f>>}
        /\ UNCHANGED <<rows, selected, active, analyzing, world, consent, start, edited>>

ReplaceFile(r) ==
    /\ op[r].pc = "replace"
    /\ Write(r, op[r].file, Rendered(r, op[r].file))
    /\ Goto(r, "verify")
    /\ UNCHANGED <<rows, selected, active, analyzing, fresh, edits, faults, crashes,
                   switches, history>>

VerifyFile(r) ==
    LET o == op[r]
    IN  /\ o.pc = "verify"
        /\ IF disk[o.ws][o.file] = Rendered(r, o.file)
             THEN op' = [op EXCEPT ![r].pc = "check", ![r].done = @ \cup {o.file},
                                   ![r].todo = @ \ {o.file}, ![r].file = NoFile]
             ELSE Unwind(r)
        /\ unseen' = unseen \ {Target(r)}
        /\ UNCHANGED <<rows, selected, active, analyzing, world, consent, start, edited>>

ApplyFault(r) ==
    /\ op[r].pc \in {"check", "replace", "verify"}
    /\ op[r].todo # {}
    /\ Fault(op[r].pc)
    /\ Unwind(r)
    /\ UNCHANGED <<rows, selected, active, analyzing, disk, fresh, edits, crashes,
                   switches, history>>

\* The loop over reversed(replaced); its order matters to nothing here.
RestoreFile(r, f) ==
    LET o == op[r]
    IN  /\ o.pc = "restore"
        /\ f \in o.done
        /\ Write(r, f, Current(r).original[f])
        /\ op' = [op EXCEPT ![r].done = @ \ {f},
                            ![r].pc = IF o.done = {f} THEN "fail_apply" ELSE "restore"]
        /\ UNCHANGED <<rows, selected, active, analyzing, fresh, edits, faults, crashes,
                       switches, history>>

RestoreFault(r) ==
    /\ op[r].pc = "restore"
    /\ Fault("restore")
    /\ Goto(r, "fail_apply")
    /\ UNCHANGED <<rows, selected, active, analyzing, disk, fresh, edits, crashes,
                   switches, history>>

SaveApplied(r) ==
    /\ op[r].pc = "check"
    /\ op[r].todo = {}
    /\ Save(op[r].session, [Current(r) EXCEPT !.status = "APPLIED"])
    /\ Goto(r, "to_testing")
    /\ UNCHANGED <<session, selected, active, analyzing, world, history>>

StartTesting(r) ==
    /\ op[r].pc = "to_testing"
    /\ CanMove(op[r].session, "TESTING", op[r].revision)
    /\ Move(op[r].session, "TESTING")
    /\ Goto(r, "select_test")
    /\ UNCHANGED <<record, selected, active, analyzing, world, history>>

\* workspace.commands(): the registry of the workspace selected now, which may
\* hold no command at all.
SelectTest(r) ==
    /\ op[r].pc = "select_test"
    /\ \/ op' = [op EXCEPT ![r].pc = "run_test", ![r].command = selected]
       \/ Goto(r, "finish")
    /\ UNCHANGED <<rows, selected, active, analyzing, world, history>>

\* run_command() reads the selection once more; another workspace may not know
\* the command.
RunTest(r) ==
    /\ op[r].pc = "run_test"
    /\ \/ \E passed \in BOOLEAN :
            op' = [op EXCEPT ![r].pc = "finish", ![r].passed = passed,
                             ![r].command = selected]
       \/ selected # op[r].command /\ Goto(r, "fail_apply")
    /\ UNCHANGED <<rows, selected, active, analyzing, world, history>>

Finish(r) ==
    LET target == IF op[r].passed THEN "SUCCESS" ELSE "FAILED"
    IN  /\ op[r].pc = "finish"
        /\ CanMove(op[r].session, target, op[r].revision + 1)
        /\ Move(op[r].session, target)
        /\ Goto(r, "save_result")
        /\ UNCHANGED <<record, selected, active, analyzing, world, history>>

SaveResult(r) ==
    /\ op[r].pc = "save_result"
    /\ Save(op[r].session, [Current(r) EXCEPT
              !.status = IF op[r].passed THEN "VERIFIED" ELSE "FAILED",
              !.tested = op[r].command])
    /\ End(r)
    /\ UNCHANGED <<session, selected, analyzing, world, history>>

\* _fail_apply: the session first, then the record.
FailApply(r) ==
    LET s == op[r].session
    IN  /\ op[r].pc = "fail_apply"
        /\ \/ session[s].state = "PATCH_APPLYING" /\ session[s].revision = op[r].revision
           \/ session[s].state = "TESTING"
        /\ Move(s, "FAILED")
        /\ Goto(r, "save_failed")
        /\ UNCHANGED <<record, selected, active, analyzing, world, history>>

SaveFailed(r) ==
    /\ op[r].pc = "save_failed"
    /\ Save(op[r].session, [Current(r) EXCEPT
              !.status = "FAILED",
              !.rollback = IF Current(r).saved THEN @ ELSE "UNAVAILABLE"])
    /\ End(r)
    /\ UNCHANGED <<session, selected, analyzing, world, history>>

-----------------------------------------------------------------------------
(* rollback                                                                *)

Rollback(r, s, p) ==
    /\ session[s].state \in {"SUCCESS", "FAILED"}
    /\ record[s].patch = p
    /\ record[s].saved
    /\ record[s].rollback = "AVAILABLE"
    /\ selected # NoWorkspace
    /\ Begin(r, [Started(s, "rollback_check", session[s].revision) EXCEPT
                   !.ws = selected, !.todo = record[s].files])
    /\ start' = disk[selected] /\ edited' = {} /\ unseen' = {}
    /\ UNCHANGED <<rows, selected, analyzing, world, consent>>

\* Faulty variant: the current bytes are not compared with the patched hash.
RollbackCheckNothing(r, f) ==
    LET o == op[r]
    IN  /\ o.pc = "rollback_check"
        /\ f \in o.todo
        /\ op' = IF o.todo = {f}
                   THEN [op EXCEPT ![r].pc = "rollback_replace", ![r].todo = Current(r).files]
                   ELSE [op EXCEPT ![r].todo = @ \ {f}]
        /\ unseen' = unseen \ {<<o.ws, f>>}
        /\ UNCHANGED <<rows, selected, active, analyzing, world, consent, start, edited>>

\* Every file is checked before any is restored.
RollbackCheck(r, f) ==
    LET o == op[r]
    IN  /\ o.pc = "rollback_check"
        /\ f \in o.todo
        /\ op' = IF disk[o.ws][f] # Rendered(r, f)
                   THEN [op EXCEPT ![r].pc = "conflict"]
                 ELSE IF o.todo = {f}
                   THEN [op EXCEPT ![r].pc = "rollback_replace", ![r].todo = Current(r).files]
                   ELSE [op EXCEPT ![r].todo = @ \ {f}]
        /\ unseen' = unseen \ {<<o.ws, f>>}
        /\ UNCHANGED <<rows, selected, active, analyzing, world, consent, start, edited>>

\* The conflict is final: no later rollback of this patch is accepted.
SaveConflict(r) ==
    /\ op[r].pc = "conflict"
    /\ Save(op[r].session, [Current(r) EXCEPT !.rollback = "CONFLICT"])
    /\ End(r)
    /\ UNCHANGED <<session, selected, analyzing, world, history>>

RollbackReplace(r, f) ==
    LET o == op[r]
    IN  /\ o.pc = "rollback_replace"
        /\ f \in o.todo
        /\ Write(r, f, Current(r).original[f])
        /\ op' = [op EXCEPT ![r].todo = @ \ {f}, ![r].done = @ \cup {f},
                            ![r].pc = IF o.todo = {f} THEN "to_rolled_back" ELSE @]
        /\ UNCHANGED <<rows, selected, active, analyzing, fresh, edits, faults, crashes,
                       switches, history>>

\* The file needs no more compensation; after the last one the request ends.
Undone(r, f) ==
    IF op[r].done = {f}
      THEN End(r)
      ELSE /\ op' = [op EXCEPT ![r].pc = "undo", ![r].done = @ \ {f}, ![r].file = NoFile]
           /\ UNCHANGED active

\* A failing read ends the request; a failing write first puts the patch back.
\* Neither changes a row, so the rollback may be asked for again.
RollbackFault(r) ==
    LET o == op[r]
    IN  /\ o.pc \in {"rollback_check", "rollback_replace"}
        /\ Fault(o.pc)
        /\ IF o.pc = "rollback_replace" /\ o.done # {}
             THEN Goto(r, "undo") /\ UNCHANGED active
             ELSE End(r)
        /\ UNCHANGED <<rows, selected, analyzing, disk, fresh, edits, crashes,
                       switches, history>>

\* The compensation keeps what no longer is the original.
UndoCheck(r, f) ==
    LET o == op[r]
    IN  /\ o.pc = "undo"
        /\ f \in o.done
        /\ IF disk[o.ws][f] = Current(r).original[f]
             THEN op' = [op EXCEPT ![r].pc = "undo_replace", ![r].file = f] /\ UNCHANGED active
             ELSE Undone(r, f)
        /\ unseen' = unseen \ {<<o.ws, f>>}
        /\ UNCHANGED <<rows, selected, analyzing, world, consent, start, edited>>

UndoReplace(r) ==
    /\ op[r].pc = "undo_replace"
    /\ Write(r, op[r].file, Rendered(r, op[r].file))
    /\ Undone(r, op[r].file)
    /\ UNCHANGED <<rows, selected, analyzing, fresh, edits, faults, crashes, switches, history>>

\* A failure of the compensation itself leaves the rest of it undone.
UndoFault(r) ==
    /\ op[r].pc \in {"undo", "undo_replace"}
    /\ Fault("undo")
    /\ End(r)
    /\ UNCHANGED <<rows, selected, analyzing, disk, fresh, edits, crashes,
                   switches, history>>

FinishRollback(r) ==
    /\ op[r].pc = "to_rolled_back"
    /\ CanMove(op[r].session, "ROLLED_BACK", op[r].revision)
    /\ Move(op[r].session, "ROLLED_BACK")
    /\ Goto(r, "save_rolled_back")
    /\ UNCHANGED <<record, selected, active, analyzing, world, history>>

SaveRolledBack(r) ==
    /\ op[r].pc = "save_rolled_back"
    /\ Save(op[r].session, [Current(r) EXCEPT
              !.status = "ROLLED_BACK", !.rollback = "COMPLETED"])
    /\ End(r)
    /\ UNCHANGED <<session, selected, analyzing, world, history>>

-----------------------------------------------------------------------------
(* The rest of the world, which waits for nobody.                          *)

\* WorkspaceService.inspect, in a worker thread.
SelectWorkspace(w) ==
    /\ selected # w
    /\ switches < MaxSwitches
    /\ selected' = w
    /\ switches' = switches + 1
    /\ UNCHANGED <<rows, active, analyzing, op, disk, fresh, edits, faults, crashes, history>>

\* The developer changes a file, or checks its committed content out again
\* (DemoService.reset does that too).
DeveloperWrites(w, f, e) ==
    /\ e \in edits
    /\ edits' = edits \ {e}
    /\ \E content \in {disk[w][f] \cup {e}, {}} : disk' = [disk EXCEPT ![w][f] = content]
    /\ edited' = edited \cup {<<w, f>>}
    /\ unseen' = unseen \cup {<<w, f>>}
    /\ UNCHANGED <<rows, memory, fresh, faults, crashes, switches, consent, start>>

\* Faulty variant: the new process trusts the record it finds.
RestartUnmarked ==
    /\ crashes < MaxCrashes
    /\ crashes' = crashes + 1
    /\ selected' = NoWorkspace
    /\ active' = {}
    /\ analyzing' = [s \in Sessions |-> 0]
    /\ op' = [r \in Requests |-> Idle]
    /\ UNCHANGED <<rows, disk, fresh, edits, faults, switches, history>>

\* The process ends and a new one opens the database: PatchStore.__init__ marks
\* an interrupted application; nothing else survives.
Restart ==
    /\ crashes < MaxCrashes
    /\ crashes' = crashes + 1
    /\ record' = [s \in Sessions |->
                    IF record[s].status = "APPLYING"
                      THEN [record[s] EXCEPT !.status = "RECOVERY_REQUIRED"]
                      ELSE record[s]]
    /\ selected' = NoWorkspace
    /\ active' = {}
    /\ analyzing' = [s \in Sessions |-> 0]
    /\ op' = [r \in Requests |-> Idle]
    /\ UNCHANGED <<session, disk, fresh, edits, faults, switches, history>>

Request(r) ==
    \E s \in Sessions :
      \/ BeginGenerate(r, s)
      \/ \E p \in Patches : Reject(r, s, p) \/ Approve(r, s, p) \/ Rollback(r, s, p)

\* The steps of an operation that has begun.
Continue(r) ==
    \/ GenerateFails(r) \/ GenerateRepairs(r)
    \/ \E p \in fresh, files \in (SUBSET Files) \ {{}} : GenerateProposes(r, p, files)
    \/ GenerateTransition(r) \/ GenerateAwaits(r) \/ SaveAwaiting(r)
    \/ SaveRejected(r)
    \/ SaveApproved(r) \/ Prepare(r) \/ PrepareRefuses(r)
    \/ \E f \in Files : CheckFile(r, f) \/ RestoreFile(r, f)
    \/ ReplaceFile(r) \/ VerifyFile(r) \/ ApplyFault(r) \/ RestoreFault(r)
    \/ SaveApplied(r) \/ StartTesting(r) \/ SelectTest(r) \/ RunTest(r)
    \/ Finish(r) \/ SaveResult(r) \/ FailApply(r) \/ SaveFailed(r)
    \/ \E f \in Files : RollbackCheck(r, f) \/ RollbackReplace(r, f) \/ UndoCheck(r, f)
    \/ UndoReplace(r) \/ UndoFault(r)
    \/ SaveConflict(r) \/ RollbackFault(r) \/ FinishRollback(r) \/ SaveRolledBack(r)

Sessioned ==
    \E s \in Sessions :
      \/ \E t \in ClientTargets : ClientTransition(s, t)
      \/ StartAnalysis(s)
      \/ \E t \in {"ROOT_CAUSE_FOUND", "FAILED"} : FinishAnalysis(s, t)
      \/ GenerateWithoutSources(s)

World ==
    \/ \E w \in Workspaces : SelectWorkspace(w)
    \/ \E w \in Workspaces, f \in Files, e \in Edits : DeveloperWrites(w, f, e)
    \/ Restart

Next == Sessioned \/ World \/ \E r \in Requests : Request(r) \/ Continue(r)

Spec == Init /\ [][Next]_vars

\* Every step of an operation is taken by the loop, whose queue is fair; the
\* provider answers because asyncio.wait_for gives up on it.  Nothing obliges
\* clients, the developer, the operating system or a worker thread to act.
FairSpec == Spec /\ \A r \in Requests : WF_vars(Continue(r))

-----------------------------------------------------------------------------

TypeOK ==
    /\ session \in [Sessions -> [state: DebugState, revision: Nat, retry_count: 0..MaxRetries]]
    /\ record \in [Sessions -> Record]
    /\ disk \in [Workspaces -> Contents]
    /\ selected \in Workspaces \cup {NoWorkspace}
    /\ active \subseteq Sessions
    /\ analyzing \in [Sessions -> Nat]
    /\ op \in [Requests -> Operation]
    /\ fresh \subseteq Patches /\ edits \subseteq Edits
    /\ faults \in 0..MaxFaults /\ crashes \in 0..MaxCrashes /\ switches \in 0..MaxSwitches
    /\ consent \subseteq Patches
    /\ start \in Contents
    /\ edited \subseteq Workspaces \X Files /\ unseen \subseteq Workspaces \X Files

\* Nothing is in a file unless exactly that patch was put to a human whose last
\* word on it was yes, in any order of generations, decisions, retries, client
\* transitions and restarts: a decision that arrives late touches no other patch,
\* and nothing already written can come up for rejection.
ConsentedChangesOnly ==
    \A w \in Workspaces, f \in Files, p \in Patches : p \in disk[w][f] => p \in consent

\* The originals are durable before the first write: whatever the moment the
\* process ends, a file that carries the current patch of a session has its
\* original in that session's row.
SnapshotBeforeWrite ==
    \A s \in Sessions, w \in Workspaces : \A f \in record[s].files :
        record[s].patch \in disk[w][f] =>
          record[s].saved /\ record[s].patch \notin record[s].original[f]

Untouched(r) == {f \in Current(r).files : <<op[r].ws, f>> \notin edited}

\* The engine is all or nothing: when it returns, and when it gives up before
\* anything else happens to the files, either every file of the patch has
\* changed or none has, apart from those the developer touched meanwhile.
\* That covers a stale file met half way, a failing write and a conflict.
AllOrNothing ==
    \A r \in Requests :
      LET now == disk[op[r].ws]
          p   == Current(r).patch
      IN  /\ op[r].pc = "to_testing" => \A f \in Untouched(r) : now[f] = start[f] \cup {p}
          /\ op[r].pc = "to_rolled_back" => \A f \in Untouched(r) : now[f] = start[f] \ {p}
          /\ op[r].pc = "fail_apply" /\ session[op[r].session].state = "PATCH_APPLYING"
               /\ op[r].ws # NoWorkspace => \A f \in Untouched(r) : now[f] = start[f]
          /\ op[r].pc = "conflict" => \A f \in Untouched(r) : now[f] = start[f]

\* A step of the agent, as opposed to one of the developer.
AgentStep == edits' = edits

\* What the agent does to a file is to put in or take out the patch of the
\* operation under way, in the workspace that operation began with.  An edit of
\* the developer and the patch of another session survive every operation,
\* unless they came after the engine last looked at that very file.
NoChangeLost ==
    [][AgentStep => \A w \in Workspaces, f \in Files :
         disk'[w][f] # disk[w][f] /\ <<w, f>> \notin unseen =>
           \E r \in Requests :
             /\ op[r].pc \notin {"idle", "provider"}
             /\ op[r].ws = w
             /\ disk'[w][f] \ {Current(r).patch} = disk[w][f] \ {Current(r).patch}]_vars

\* Between operations the two tables agree, although each operation writes them
\* in separate transactions: what is awaited can be decided, what succeeded is
\* verified, what was rolled back says so, and nothing is left half way.
TablesAgree ==
    \A s \in Sessions \ active :
      LET state == session[s].state
          rec   == record[s]
      IN  /\ state \notin {"PATCH_GENERATED", "PATCH_APPLYING", "TESTING"}
          /\ state = "AWAITING_APPROVAL" => rec.status = "AWAITING_APPROVAL"
          /\ state = "SUCCESS" <=> rec.status = "VERIFIED"
          /\ state = "ROLLED_BACK" <=> rec.status = "ROLLED_BACK"
          /\ rec.status \notin {"APPROVED", "APPLYING", "APPLIED", "RECOVERY_REQUIRED"}

\* Whatever the moment the process ends, and whatever a client asks of the
\* session, the patch record never claims more than happened: a verified or
\* rolled-back patch has a session that says the same, what was applied had been
\* approved, and an application recorded as under way is under way ("the
\* service never infers success after uncertainty", docs/patch-engine.md:27).
RecordNeverAhead ==
    \A s \in Sessions :
      LET state == session[s].state
          rec   == record[s]
      IN  /\ rec.status = "VERIFIED" => state \in {"SUCCESS", "ROLLED_BACK"} /\ rec.saved
          /\ rec.status = "ROLLED_BACK" => state = "ROLLED_BACK"
          /\ rec.status \in {"APPROVED", "APPLYING", "APPLIED", "VERIFIED", "RECOVERY_REQUIRED"}
               => rec.patch \in consent
          /\ rec.status = "APPLYING" =>
               \E r \in Requests : op[r].session = s /\ op[r].ws # NoWorkspace

\* The four properties below state what the documentation says and the code
\* does not do; each has a run that shows how.

\* "Any later developer edit produces ROLLBACK_CONFLICT and remains untouched"
\* (docs/security-model.md:116).
RollbackKeepsEdits ==
    [][\A r \in Requests : op[r].pc = "rollback_replace" /\ op'[r] # op[r] =>
         \A w \in Workspaces, f \in Files : disk[w][f] \cap Edits \subseteq disk'[w][f]]_vars

\* "The stored pre-patch content supports rollback when the current file hash
\* is safe" (docs/judge-pitch.md:83): a patch that is in a file is the current
\* patch of a session, whose row holds its originals.
RollbackStaysPossible ==
    \A w \in Workspaces, f \in Files, p \in Patches :
        p \in disk[w][f] => \E s \in Sessions : record[s].patch = p

\* "a patched file has newer developer changes" (patch_engine.py:115): a
\* conflict is reported only when the developer has changed something.
ConflictMeansEdit ==
    \A s \in Sessions : record[s].rollback = "CONFLICT" => edits # Edits

\* "PocketPilot applies it atomically and runs the repository's pre-registered
\* pytest command" (docs/judge-pitch.md:25): success is reported for the
\* workspace that was patched.
TestedWherePatched ==
    \A r \in Requests : op[r].pc = "finish" /\ op[r].passed => op[r].command = op[r].ws

\* Every operation gives its session back, whatever the provider, the
\* developer and the operating system do: no exception leaves a session claimed,
\* which would refuse every later request with "already active".
OperationsEnd ==
    \A s \in Sessions : s \in active ~> s \notin active

\* An approved patch comes to an end: the session leaves PATCH_APPLYING and
\* TESTING for SUCCESS or FAILED, on every error path of approve.
ApprovalConcludes ==
    \A s \in Sessions :
        session[s].state = "PATCH_APPLYING" ~> session[s].state \in {"SUCCESS", "FAILED"}

\* The patch workflow, with its two tables, its retries and its restarts,
\* moves sessions only as the abstract lifecycle allows.
Lifecycle == INSTANCE SessionLifecycle

ImplementsLifecycle == Lifecycle!Spec
=============================================================================
