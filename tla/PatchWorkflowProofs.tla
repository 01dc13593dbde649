------------------------ MODULE PatchWorkflowProofs ------------------------
(***************************************************************************)
(* Proofs about the patch workflow, for any number of sessions, requests,  *)
(* workspaces, files, patches and edits and whatever the bounds: types, the*)
(* lifecycle it implements, what it promises about the developer's consent;*)
(* what apply and rollback leave in the files when they succeed, give up or*)
(* refuse; that the record of a patch never claims more than happened, and *)
(* that without a crash it agrees with its session between operations.     *)
(***************************************************************************)
EXTENDS PatchWorkflow, FiniteSetTheorems, TLAPS

\* TypeOK, one part for each variable that operations change in a way of their
\* own.
SessionRow == [state: DebugState, revision: Nat, retry_count: 0..MaxRetries]
SessionsTyped   == session \in [Sessions -> SessionRow]
RecordsTyped    == record \in [Sessions -> Record]
OperationsTyped == op \in [Requests -> Operation]
DiskTyped       == disk \in [Workspaces -> Contents]

\* Between its access to a file and the next the engine holds that file.
HoldsFile(o) == o.pc \in {"replace", "verify", "undo_replace"} => o.file \in Files

\* An operation has what its next step needs: past the provider a session that
\* has a proposal, inside the engine a file.
OperationsReady ==
    \A r \in Requests :
        /\ op[r].pc \notin {"idle", "provider"} => record[op[r].session].patch \in Patches
        /\ HoldsFile(op[r])

IInv == TypeOK /\ OperationsReady

-----------------------------------------------------------------------------
(* Sessions.                                                               *)

\* One legal transition of one session, and nothing else of any session.
OneMoves ==
    \E s \in Sessions, t \in DebugState :
        Decidable(session[s].state, t, session[s].retry_count) /\ Move(s, t)

LEMMA CanMoveMoves ==
    ASSUME NEW s \in Sessions, NEW t \in DebugState, NEW n, CanMove(s, t, n), Move(s, t)
    PROVE  OneMoves
  BY DEF CanMove, OneMoves

\* The transitions a handler makes after it has checked the state itself.
LEMMA CheckedStateMoves ==
    ASSUME NEW s \in Sessions, NEW t, Move(s, t),
           \/ session[s].state = "ROOT_CAUSE_FOUND" /\ t = "FAILED"
           \/ session[s].state = "AWAITING_APPROVAL" /\ t \in {"FAILED", "PATCH_APPLYING"}
           \/ session[s].state \in {"PATCH_APPLYING", "TESTING"} /\ t = "FAILED"
    PROVE  OneMoves
  BY DEF Decidable, OneMoves, Successors, IsRetry, DebugState

\* Every step moves at most one session, and legally.
LEMMA NextMoves ==
    ASSUME OperationsTyped, [Next]_vars
    PROVE  OneMoves \/ UNCHANGED session
  <1> DEFINE Goal == OneMoves \/ UNCHANGED session
  <1>0. \A r \in Requests : op[r].session \in Sessions
    BY DEF OperationsTyped, Operation
  <1>1. ASSUME NEW s \in Sessions, NEW t \in ClientTargets, ClientTransition(s, t) PROVE Goal
    BY <1>1, CanMoveMoves, ConstantsAssumption DEF ClientTransition
  <1>2. ASSUME NEW s \in Sessions, StartAnalysis(s) PROVE Goal
    BY <1>2, CanMoveMoves DEF StartAnalysis, DebugState
  <1>3. ASSUME NEW s \in Sessions, NEW t \in {"ROOT_CAUSE_FOUND", "FAILED"}, FinishAnalysis(s, t)
        PROVE  Goal
    BY <1>3, CanMoveMoves DEF FinishAnalysis, DebugState
  <1>4. ASSUME NEW s \in Sessions, NEW n, FailGeneration(s, n) PROVE Goal
    BY <1>4, CheckedStateMoves DEF FailGeneration
  <1>5. ASSUME NEW s \in Sessions, GenerateWithoutSources(s) PROVE Goal
    BY <1>4, <1>5 DEF GenerateWithoutSources
  <1>6. ASSUME NEW r \in Requests, GenerateFails(r) PROVE Goal
    BY <1>0, <1>4, <1>6 DEF GenerateFails
  <1>7. ASSUME NEW r \in Requests, NEW s \in Sessions, NEW p \in Patches,
               Reject(r, s, p) \/ Approve(r, s, p)
        PROVE  Goal
    BY <1>7, CheckedStateMoves DEF Reject, Approve, AwaitsDecision
  <1>8. ASSUME NEW r \in Requests, GenerateTransition(r) \/ GenerateAwaits(r) PROVE Goal
    BY <1>0, <1>8, CanMoveMoves DEF GenerateTransition, GenerateAwaits, DebugState
  <1>9. ASSUME NEW r \in Requests, StartTesting(r) \/ Finish(r) \/ FinishRollback(r) PROVE Goal
    BY <1>0, <1>9, CanMoveMoves DEF StartTesting, Finish, FinishRollback, DebugState
  <1>10. ASSUME NEW r \in Requests, FailApply(r) PROVE Goal
    BY <1>0, <1>10, CheckedStateMoves DEF FailApply
  <1>11. ASSUME NEW r \in Requests,
                \/ GenerateRepairs(r) \/ SaveAwaiting(r) \/ SaveRejected(r) \/ SaveApproved(r)
                \/ Prepare(r) \/ PrepareRefuses(r) \/ ReplaceFile(r) \/ VerifyFile(r)
                \/ ApplyFault(r) \/ RestoreFault(r) \/ SaveApplied(r) \/ SelectTest(r)
                \/ RunTest(r) \/ SaveResult(r) \/ SaveFailed(r) \/ UndoReplace(r)
                \/ UndoFault(r) \/ SaveConflict(r) \/ RollbackFault(r) \/ SaveRolledBack(r)
         PROVE  Goal
    BY <1>11 DEF GenerateRepairs, SaveAwaiting, SaveRejected, SaveApproved, Prepare,
       PrepareRefuses, ReplaceFile, VerifyFile, ApplyFault, RestoreFault, SaveApplied,
       SelectTest, RunTest, SaveResult, SaveFailed, UndoReplace, UndoFault, SaveConflict,
       RollbackFault, SaveRolledBack, rows
  <1>12. ASSUME NEW r \in Requests, NEW f \in Files,
                \/ CheckFile(r, f) \/ RestoreFile(r, f) \/ RollbackCheck(r, f)
                \/ RollbackReplace(r, f) \/ UndoCheck(r, f)
         PROVE  Goal
    BY <1>12 DEF CheckFile, RestoreFile, RollbackCheck, RollbackReplace, UndoCheck, rows
  <1>13. ASSUME NEW r \in Requests, NEW p, NEW files, GenerateProposes(r, p, files) PROVE Goal
    BY <1>13 DEF GenerateProposes
  <1>14. ASSUME NEW r \in Requests, NEW s \in Sessions, NEW p,
                BeginGenerate(r, s) \/ Rollback(r, s, p)
         PROVE  Goal
    BY <1>14 DEF BeginGenerate, Rollback, rows
  <1>15. CASE World \/ UNCHANGED vars
    BY <1>15 DEF World, SelectWorkspace, DeveloperWrites, Restart, vars, rows
  <1> QED
    BY <1>1, <1>2, <1>3, <1>5, <1>6, <1>7, <1>8, <1>9, <1>10, <1>11, <1>12, <1>13, <1>14,
       <1>15
    DEF Next, Sessioned, Request, Continue

\* A transition keeps the type of the session.
LEMMA MovesTyped ==
    ASSUME SessionsTyped, OneMoves
    PROVE  SessionsTyped'
  <1>1. PICK s \in Sessions, t \in DebugState :
          Decidable(session[s].state, t, session[s].retry_count) /\ Move(s, t)
    BY DEF OneMoves
  <1>2. session[s] \in SessionRow
    BY DEF SessionsTyped
  <1>3. NextRetryCount(session[s].state, t, session[s].retry_count) \in 0..MaxRetries
    BY <1>1, <1>2 DEF SessionRow, Decidable, NextRetryCount, MaxRetries
  <1>4. Moved(session[s], t) \in SessionRow
    BY <1>2, <1>3 DEF Moved, SessionRow
  <1> QED
    BY <1>1, <1>4 DEF SessionsTyped, Move

-----------------------------------------------------------------------------
(* Records.                                                                *)

\* A record that has a proposal keeps one.
ProposalsKept ==
    \A s \in Sessions : record[s].patch \in Patches => record'[s].patch \in Patches

LEMMA SaveTyped ==
    ASSUME RecordsTyped, NEW s \in Sessions, NEW new \in Record, Save(s, new),
           record[s].patch \in Patches => new.patch \in Patches
    PROVE  RecordsTyped' /\ ProposalsKept
  BY DEF RecordsTyped, Save, ProposalsKept

\* The new record of a save, by the fields it changes.
LEMMA StatusTyped ==
    ASSUME NEW old \in Record, NEW status \in PatchStatus
    PROVE  LET new == [old EXCEPT !.status = status]
           IN  new \in Record /\ new.patch = old.patch
  BY DEF Record

LEMMA SnapshotTyped ==
    ASSUME NEW old \in Record, NEW original \in Contents
    PROVE  LET new == [old EXCEPT !.status = "APPLYING", !.saved = TRUE,
                                  !.rollback = "AVAILABLE", !.original = original]
           IN  new \in Record /\ new.patch = old.patch
  BY DEF Record, PatchStatus, RollbackStatus

LEMMA ResultTyped ==
    ASSUME NEW old \in Record, NEW status \in PatchStatus,
           NEW w \in Workspaces \cup {NoWorkspace}
    PROVE  LET new == [old EXCEPT !.status = status, !.tested = w]
           IN  new \in Record /\ new.patch = old.patch
  BY DEF Record

LEMMA RollbackTyped ==
    ASSUME NEW old \in Record, NEW rollback \in RollbackStatus
    PROVE  LET new == [old EXCEPT !.rollback = rollback]
           IN  new \in Record /\ new.patch = old.patch
  BY DEF Record

LEMMA StatusRollbackTyped ==
    ASSUME NEW old \in Record, NEW status \in PatchStatus, NEW rollback \in RollbackStatus
    PROVE  LET new == [old EXCEPT !.status = status, !.rollback = rollback]
           IN  new \in Record /\ new.patch = old.patch
  BY DEF Record

\* What an operation reads of the files has the type of a snapshot.
LEMMA PartTyped ==
    ASSUME NEW c \in Contents, NEW files
    PROVE  [f \in Files |-> IF f \in files THEN c[f] ELSE {}] \in Contents
  BY DEF Contents, Content

LEMMA RecordsStep ==
    ASSUME TypeOK, [Next]_vars
    PROVE  RecordsTyped' /\ ProposalsKept
  <1> DEFINE Goal == RecordsTyped' /\ ProposalsKept
  <1> USE DEF Current
  <1>0. /\ RecordsTyped
        /\ \A r \in Requests : op[r].session \in Sessions /\ op[r].sources \in Contents
                                 /\ op[r].command \in Workspaces \cup {NoWorkspace}
        /\ \A r \in Requests : Current(r) \in Record
        /\ \A w \in Workspaces : disk[w] \in Contents
    BY DEF TypeOK, RecordsTyped, Operation
  <1>1. ASSUME UNCHANGED record PROVE Goal
    BY <1>0, <1>1 DEF RecordsTyped, ProposalsKept
  <1>2. ASSUME NEW r \in Requests, NEW p \in fresh, NEW files \in SUBSET Files,
               GenerateProposes(r, p, files)
        PROVE  Goal
    <2> DEFINE base == [f \in Files |-> IF f \in files THEN op[r].sources[f] ELSE {}]
               new  == [NoRecord EXCEPT !.status = "PROPOSED", !.patch = p, !.files = files,
                                        !.base = base]
    <2>1. base \in Contents
      BY <1>0, PartTyped
    <2>2. p \in Patches
      BY DEF TypeOK
    <2>3. Blank \in Contents
      BY DEF Blank, Contents, Content
    <2>4. new \in Record /\ new.patch = p
      BY <2>1, <2>2, <2>3 DEF NoRecord, Record, PatchStatus, RollbackStatus
    <2>5. Save(op[r].session, new)
      BY <1>2 DEF GenerateProposes
    <2> HIDE DEF new
    <2> QED
      BY <1>0, <2>2, <2>4, <2>5, SaveTyped
  <1>3. ASSUME NEW r \in Requests, NEW status \in PatchStatus,
               Save(op[r].session, [Current(r) EXCEPT !.status = status])
        PROVE  Goal
    BY <1>0, <1>3, SaveTyped, StatusTyped
  <1>4. ASSUME NEW r \in Requests,
               SaveAwaiting(r) \/ SaveRejected(r) \/ SaveApproved(r) \/ SaveApplied(r)
        PROVE  Goal
    BY <1>3, <1>4 DEF SaveAwaiting, SaveRejected, SaveApproved, SaveApplied, PatchStatus
  <1>5. ASSUME NEW r \in Requests, Prepare(r) PROVE Goal
    <2> DEFINE original == [f \in Files |-> IF f \in Current(r).files
                                              THEN disk[selected][f] ELSE {}]
               new == [Current(r) EXCEPT !.status = "APPLYING", !.saved = TRUE,
                         !.rollback = "AVAILABLE", !.original = original]
    <2>1. selected \in Workspaces
      BY <1>5 DEF Prepare, Applicable, TypeOK
    <2>2. original \in Contents
      BY <1>0, <2>1, PartTyped
    <2>3. new \in Record /\ new.patch = Current(r).patch
      BY <1>0, <2>2, SnapshotTyped
    <2>4. Save(op[r].session, new)
      BY <1>5 DEF Prepare
    <2> HIDE DEF new
    <2> QED
      BY <1>0, <2>3, <2>4, SaveTyped
  <1>6. ASSUME NEW r \in Requests, SaveResult(r) PROVE Goal
    <2> DEFINE status == IF op[r].passed THEN "VERIFIED" ELSE "FAILED"
               new == [Current(r) EXCEPT !.status = status, !.tested = op[r].command]
    <2>0. status \in PatchStatus
      BY DEF PatchStatus
    <2>1. new \in Record /\ new.patch = Current(r).patch
      <3> HIDE DEF status
      <3> QED
        BY <1>0, <2>0, ResultTyped
    <2>2. Save(op[r].session, new)
      BY <1>6 DEF SaveResult
    <2> HIDE DEF new
    <2> QED
      BY <1>0, <2>1, <2>2, SaveTyped
  <1>7. ASSUME NEW r \in Requests, SaveFailed(r) PROVE Goal
    <2> DEFINE rollback == IF Current(r).saved THEN Current(r).rollback ELSE "UNAVAILABLE"
               new == [Current(r) EXCEPT !.status = "FAILED", !.rollback = rollback]
    <2>0. "FAILED" \in PatchStatus /\ rollback \in RollbackStatus
      BY <1>0 DEF PatchStatus, RollbackStatus, Record
    <2>1. new \in Record /\ new.patch = Current(r).patch
      <3> HIDE DEF rollback
      <3> QED
        BY <1>0, <2>0, StatusRollbackTyped
    <2>2. Save(op[r].session, new)
      BY <1>7 DEF SaveFailed
    <2> HIDE DEF new
    <2> QED
      BY <1>0, <2>1, <2>2, SaveTyped
  <1>8. ASSUME NEW r \in Requests, SaveConflict(r) \/ SaveRolledBack(r) PROVE Goal
    <2> DEFINE conflict == [Current(r) EXCEPT !.rollback = "CONFLICT"]
               undone   == [Current(r) EXCEPT !.status = "ROLLED_BACK",
                                              !.rollback = "COMPLETED"]
    <2>1. /\ conflict \in Record /\ conflict.patch = Current(r).patch
          /\ undone \in Record /\ undone.patch = Current(r).patch
      <3>1. "ROLLED_BACK" \in PatchStatus /\ {"CONFLICT", "COMPLETED"} \subseteq RollbackStatus
        BY DEF PatchStatus, RollbackStatus
      <3> QED
        BY <1>0, <3>1, RollbackTyped, StatusRollbackTyped
    <2>2. Save(op[r].session, conflict) \/ Save(op[r].session, undone)
      BY <1>8 DEF SaveConflict, SaveRolledBack
    <2> HIDE DEF conflict, undone
    <2> QED
      BY <1>0, <2>1, <2>2, SaveTyped
  <1>9. CASE Restart
    <2>1. "RECOVERY_REQUIRED" \in PatchStatus
      BY DEF PatchStatus
    <2>2. \A s \in Sessions :
            LET new == [record[s] EXCEPT !.status = "RECOVERY_REQUIRED"]
            IN  new \in Record /\ new.patch = record[s].patch
      BY <1>0, <2>1, StatusTyped DEF RecordsTyped
    <2> QED
      BY <1>0, <1>9, <2>2 DEF Restart, RecordsTyped, ProposalsKept
  <1>10. ASSUME NEW r \in Requests,
                \/ GenerateFails(r) \/ GenerateRepairs(r) \/ GenerateTransition(r)
                \/ GenerateAwaits(r) \/ PrepareRefuses(r) \/ ReplaceFile(r) \/ VerifyFile(r)
                \/ ApplyFault(r) \/ RestoreFault(r) \/ StartTesting(r) \/ SelectTest(r)
                \/ RunTest(r) \/ Finish(r) \/ FailApply(r) \/ UndoReplace(r) \/ UndoFault(r)
                \/ RollbackFault(r) \/ FinishRollback(r)
         PROVE  UNCHANGED record
    BY <1>10 DEF GenerateFails, GenerateRepairs, GenerateTransition, GenerateAwaits,
       PrepareRefuses, ReplaceFile, VerifyFile, ApplyFault, RestoreFault, StartTesting,
       SelectTest, RunTest, Finish, FailApply, UndoReplace, UndoFault, RollbackFault,
       FinishRollback, rows
  <1>11. ASSUME NEW r \in Requests, NEW f \in Files,
                \/ CheckFile(r, f) \/ RestoreFile(r, f) \/ RollbackCheck(r, f)
                \/ RollbackReplace(r, f) \/ UndoCheck(r, f)
         PROVE  UNCHANGED record
    BY <1>11 DEF CheckFile, RestoreFile, RollbackCheck, RollbackReplace, UndoCheck, rows
  <1>12. ASSUME NEW r \in Requests, Request(r) PROVE UNCHANGED record
    BY <1>12 DEF Request, BeginGenerate, Reject, Approve, Rollback, rows
  <1>13. ASSUME Sessioned PROVE UNCHANGED record
    BY <1>13 DEF Sessioned, ClientTransition, StartAnalysis, FinishAnalysis,
       GenerateWithoutSources
  <1>14. ASSUME \/ \E w \in Workspaces : SelectWorkspace(w)
                \/ \E w \in Workspaces, f \in Files, e \in Edits : DeveloperWrites(w, f, e)
                \/ UNCHANGED vars
         PROVE  UNCHANGED record
    BY <1>14 DEF SelectWorkspace, DeveloperWrites, vars, rows
  <1> QED
    BY <1>1, <1>2, <1>4, <1>5, <1>6, <1>7, <1>8, <1>9, <1>10, <1>11, <1>12, <1>13, <1>14
    DEF Next, Continue, World

-----------------------------------------------------------------------------
(* Operations.                                                             *)

LEMMA IdleTyped == Idle \in Operation /\ Idle.pc = "idle"
  BY ConstantsAssumption
  DEF Idle, Started, Operation, Steps, Blank, Contents, Content

\* Request r takes a step: the others stay, and past the provider its session
\* has a proposal.
OperationSteps(r) ==
    /\ op' \in [Requests -> Operation]
    /\ \A q \in Requests \ {r} : op'[q] = op[q]
    /\ op'[r].pc \notin {"idle", "provider"} => record'[op'[r].session].patch \in Patches
    /\ HoldsFile(op'[r])

LEMMA OperationReplaced ==
    ASSUME OperationsTyped, NEW r \in Requests, NEW o \in Operation,
           op' = [op EXCEPT ![r] = o],
           o.pc \notin {"idle", "provider"} => record'[o.session].patch \in Patches,
           HoldsFile(o)
    PROVE  OperationSteps(r)
  BY DEF OperationsTyped, OperationSteps

LEMMA EndSteps ==
    ASSUME OperationsTyped, NEW r \in Requests, End(r)
    PROVE  OperationSteps(r)
  BY IdleTyped, OperationReplaced DEF End, HoldsFile

\* An operation past the provider changes its progress and keeps its session.
LEMMA ProgressSteps ==
    ASSUME OperationsTyped, OperationsReady, ProposalsKept,
           NEW r \in Requests, op[r].pc \notin {"idle", "provider"},
           NEW o \in Operation, o.session = op[r].session, op' = [op EXCEPT ![r] = o],
           HoldsFile(o)
    PROVE  OperationSteps(r)
  <1>1. op[r].session \in Sessions
    BY DEF OperationsTyped, Operation
  <1>2. record'[o.session].patch \in Patches
    BY <1>1 DEF OperationsReady, ProposalsKept
  <1> QED
    BY <1>2, OperationReplaced

LEMMA GotoSteps ==
    ASSUME OperationsTyped, OperationsReady, ProposalsKept,
           NEW r \in Requests, op[r].pc \notin {"idle", "provider"},
           NEW pc \in Steps, Goto(r, pc),
           pc \notin {"replace", "undo_replace"}, pc = "verify" => op[r].pc = "replace"
    PROVE  OperationSteps(r)
  <1> DEFINE o == [op[r] EXCEPT !.pc = pc]
  <1>1. o \in Operation /\ o.session = op[r].session /\ o.pc = pc /\ o.file = op[r].file
    BY DEF OperationsTyped, Operation
  <1>2. HoldsFile(o)
    BY <1>1 DEF OperationsReady, HoldsFile
  <1>3. op' = [op EXCEPT ![r] = o]
    BY DEF Goto
  <1> HIDE DEF o
  <1> QED
    BY <1>1, <1>2, <1>3, ProgressSteps

LEMMA BeginSteps ==
    ASSUME OperationsTyped, NEW r \in Requests, NEW o \in Operation, Begin(r, o),
           o.pc # "provider" => record'[o.session].patch \in Patches, HoldsFile(o)
    PROVE  OperationSteps(r)
  BY OperationReplaced DEF Begin

LEMMA StartedTyped ==
    ASSUME NEW s \in Sessions, NEW pc \in Steps, NEW n \in Nat
    PROVE  Started(s, pc, n) \in Operation
  BY DEF Started, Operation, Blank, Contents, Content

LEMMA UnwindSteps ==
    ASSUME OperationsTyped, OperationsReady, ProposalsKept,
           NEW r \in Requests, op[r].pc \notin {"idle", "provider"}, Unwind(r)
    PROVE  OperationSteps(r)
  BY GotoSteps DEF Unwind, Goto, Steps

\* An operation starts: generate with what it read, a decision or a rollback
\* with the proposal it names.
LEMMA RequestSteps ==
    ASSUME TypeOK, ProposalsKept, NEW r \in Requests, Request(r)
    PROVE  OperationSteps(r)
  <1>0. /\ OperationsTyped
        /\ \A s \in Sessions : session[s].revision \in Nat
        /\ selected # NoWorkspace => selected \in Workspaces /\ disk[selected] \in Contents
    BY DEF TypeOK, OperationsTyped
  <1>1. ASSUME NEW s \in Sessions, BeginGenerate(r, s) PROVE OperationSteps(r)
    <2> DEFINE o == [Started(s, "provider", session[s].revision) EXCEPT
                       !.ws = selected, !.sources = disk[selected]]
    <2>1. selected \in Workspaces /\ disk[selected] \in Contents /\ Begin(r, o)
      BY <1>0, <1>1 DEF BeginGenerate
    <2>2. Started(s, "provider", session[s].revision) \in Operation
      BY <1>0, StartedTyped DEF Steps
    <2>3. o \in Operation /\ o.pc = "provider" /\ HoldsFile(o)
      BY <2>1, <2>2 DEF Operation, Started, HoldsFile
    <2> HIDE DEF o
    <2> QED
      BY <1>0, <2>1, <2>3, BeginSteps
  <1>2. ASSUME NEW s \in Sessions, NEW p \in Patches, Reject(r, s, p) PROVE OperationSteps(r)
    <2> DEFINE o == Started(s, "save_rejected", session[s].revision)
    <2>1. Begin(r, o) /\ record[s].patch = p
      BY <1>2 DEF Reject, AwaitsDecision
    <2>2. o \in Operation /\ o.session = s /\ HoldsFile(o)
      BY <1>0, StartedTyped DEF Steps, Started, HoldsFile
    <2> HIDE DEF o
    <2> QED
      BY <1>0, <2>1, <2>2, BeginSteps DEF ProposalsKept
  <1>3. ASSUME NEW s \in Sessions, NEW p \in Patches, Approve(r, s, p) PROVE OperationSteps(r)
    <2> DEFINE o == Started(s, "save_approved", session[s].revision + 1)
    <2>1. Begin(r, o) /\ record[s].patch = p
      BY <1>3 DEF Approve, AwaitsDecision
    <2>2. session[s].revision + 1 \in Nat
      BY <1>0
    <2>3. o \in Operation /\ o.session = s /\ HoldsFile(o)
      BY <2>2, StartedTyped DEF Steps, Started, HoldsFile
    <2> HIDE DEF o
    <2> QED
      BY <1>0, <2>1, <2>3, BeginSteps DEF ProposalsKept
  <1>4. ASSUME NEW s \in Sessions, NEW p \in Patches, Rollback(r, s, p) PROVE OperationSteps(r)
    <2> DEFINE o == [Started(s, "rollback_check", session[s].revision) EXCEPT
                       !.ws = selected, !.todo = record[s].files]
    <2>1. selected \in Workspaces /\ Begin(r, o) /\ record[s].patch = p
      BY <1>0, <1>4 DEF Rollback
    <2>2. record[s].files \subseteq Files
      BY DEF TypeOK, Record
    <2>3. Started(s, "rollback_check", session[s].revision) \in Operation
      BY <1>0, StartedTyped DEF Steps
    <2>4. o \in Operation /\ o.session = s /\ HoldsFile(o)
      BY <2>1, <2>2, <2>3 DEF Operation, Started, HoldsFile
    <2> HIDE DEF o
    <2> QED
      BY <1>0, <2>1, <2>4, BeginSteps DEF ProposalsKept
  <1> QED
    BY <1>1, <1>2, <1>3, <1>4 DEF Request

\* The steps of generate, approve and reject outside the engine.
LEMMA ServiceSteps ==
    ASSUME TypeOK, OperationsReady, ProposalsKept, NEW r \in Requests,
           \/ GenerateFails(r) \/ GenerateRepairs(r)
           \/ \E p \in fresh, files \in SUBSET Files : GenerateProposes(r, p, files)
           \/ GenerateTransition(r) \/ GenerateAwaits(r) \/ SaveAwaiting(r) \/ SaveRejected(r)
           \/ SaveApproved(r) \/ Prepare(r) \/ PrepareRefuses(r) \/ SaveApplied(r)
           \/ StartTesting(r) \/ SelectTest(r) \/ RunTest(r) \/ Finish(r) \/ SaveResult(r)
           \/ FailApply(r) \/ SaveFailed(r)
    PROVE  OperationSteps(r)
  <1>0. OperationsTyped /\ op[r] \in Operation
    BY DEF TypeOK, OperationsTyped
  <1>1. CASE GenerateFails(r) \/ SaveAwaiting(r) \/ SaveRejected(r) \/ SaveResult(r)
               \/ SaveFailed(r)
    BY <1>0, <1>1, EndSteps DEF GenerateFails, SaveAwaiting, SaveRejected, SaveResult, SaveFailed
  <1>2. CASE GenerateRepairs(r)
    <2> DEFINE o == [op[r] EXCEPT !.repaired = TRUE]
    <2>1. o \in Operation /\ o.pc = "provider" /\ HoldsFile(o)
      BY <1>0, <1>2 DEF Operation, GenerateRepairs, HoldsFile
    <2>2. op' = [op EXCEPT ![r] = o]
      BY <1>2 DEF GenerateRepairs
    <2> HIDE DEF o
    <2> QED
      BY <1>0, <2>1, <2>2, OperationReplaced
  <1>3. ASSUME NEW p \in fresh, NEW files \in SUBSET Files, GenerateProposes(r, p, files)
        PROVE  OperationSteps(r)
    <2> DEFINE o == [op[r] EXCEPT !.pc = "to_generated"]
    <2>1. o \in Operation /\ o.session = op[r].session /\ o.session \in Sessions
            /\ HoldsFile(o)
      BY <1>0 DEF Operation, Steps, HoldsFile
    <2>2. op' = [op EXCEPT ![r] = o]
      BY <1>3 DEF GenerateProposes, Goto
    <2>3. record'[op[r].session].patch = p
      BY <1>3, <2>1 DEF GenerateProposes, Save, NoRecord, TypeOK
    <2>4. p \in Patches
      BY DEF TypeOK
    <2> HIDE DEF o
    <2> QED
      BY <1>0, <2>1, <2>2, <2>3, <2>4, OperationReplaced
  <1>4. CASE GenerateTransition(r)
    BY <1>0, <1>4, EndSteps, GotoSteps DEF GenerateTransition, Steps
  <1>5. CASE \/ GenerateAwaits(r) \/ SaveApproved(r) \/ PrepareRefuses(r) \/ SaveApplied(r)
             \/ StartTesting(r) \/ Finish(r) \/ FailApply(r)
    BY <1>0, <1>5, GotoSteps
    DEF GenerateAwaits, SaveApproved, PrepareRefuses, SaveApplied, StartTesting, Finish,
        FailApply, Steps
  <1>6. CASE Prepare(r)
    <2> DEFINE o == [op[r] EXCEPT !.pc = "check", !.ws = selected,
                                  !.todo = Current(r).files]
    <2>1. selected \in Workspaces /\ Current(r).files \subseteq Files
      BY <1>0, <1>6 DEF Prepare, Applicable, TypeOK, Current, Record, Operation
    <2>2. o \in Operation /\ o.session = op[r].session /\ HoldsFile(o)
      BY <1>0, <2>1 DEF Operation, Steps, HoldsFile
    <2>3. op' = [op EXCEPT ![r] = o] /\ op[r].pc = "prepare"
      BY <1>6 DEF Prepare
    <2> HIDE DEF o
    <2> QED
      BY <1>0, <2>2, <2>3, ProgressSteps
  <1>7. CASE SelectTest(r)
    <2> DEFINE o == [op[r] EXCEPT !.pc = "run_test", !.command = selected]
    <2>1. o \in Operation /\ o.session = op[r].session /\ HoldsFile(o)
      BY <1>0 DEF Operation, Steps, TypeOK, HoldsFile
    <2>2. op[r].pc = "select_test" /\ (op' = [op EXCEPT ![r] = o] \/ Goto(r, "finish"))
      BY <1>7 DEF SelectTest
    <2> HIDE DEF o
    <2> QED
      BY <1>0, <2>1, <2>2, ProgressSteps, GotoSteps DEF Steps
  <1>8. CASE RunTest(r)
    <2>1. ASSUME NEW passed \in BOOLEAN,
                 op' = [op EXCEPT ![r].pc = "finish", ![r].passed = passed,
                                  ![r].command = selected]
          PROVE  OperationSteps(r)
      <3> DEFINE o == [op[r] EXCEPT !.pc = "finish", !.passed = passed, !.command = selected]
      <3>1. o \in Operation /\ o.session = op[r].session /\ HoldsFile(o)
        BY <1>0 DEF Operation, Steps, TypeOK, HoldsFile
      <3>2. op[r].pc = "run_test" /\ op' = [op EXCEPT ![r] = o]
        BY <1>8, <2>1 DEF RunTest
      <3> HIDE DEF o
      <3> QED
        BY <1>0, <3>1, <3>2, ProgressSteps
    <2> QED
      BY <1>0, <1>8, <2>1, GotoSteps DEF RunTest, Steps
  <1> QED
    BY <1>1, <1>2, <1>3, <1>4, <1>5, <1>6, <1>7, <1>8

\* The engine's loops over the files of a patch.
LEMMA EngineSteps ==
    ASSUME TypeOK, OperationsReady, ProposalsKept, NEW r \in Requests,
           \/ \E f \in Files : CheckFile(r, f) \/ RestoreFile(r, f)
           \/ ReplaceFile(r) \/ VerifyFile(r) \/ ApplyFault(r) \/ RestoreFault(r)
    PROVE  OperationSteps(r)
  <1>0. OperationsTyped /\ op[r] \in Operation
    BY DEF TypeOK, OperationsTyped
  <1>1. ASSUME NEW f \in Files, CheckFile(r, f) PROVE OperationSteps(r)
    <2> DEFINE o == [op[r] EXCEPT !.pc = "replace", !.file = f]
    <2>1. o \in Operation /\ o.session = op[r].session /\ HoldsFile(o)
      BY <1>0 DEF Operation, Steps, HoldsFile
    <2>2. op[r].pc = "check" /\ (op' = [op EXCEPT ![r] = o] \/ Unwind(r))
      BY <1>1 DEF CheckFile
    <2> HIDE DEF o
    <2> QED
      BY <1>0, <2>1, <2>2, ProgressSteps, UnwindSteps
  <1>2. ASSUME NEW f \in Files, RestoreFile(r, f) PROVE OperationSteps(r)
    <2> DEFINE pc == IF op[r].done = {f} THEN "fail_apply" ELSE "restore"
               o  == [op[r] EXCEPT !.done = @ \ {f}, !.pc = pc]
    <2>0. pc \in Steps
      BY DEF Steps
    <2>1. op' = [op EXCEPT ![r] = o] /\ op[r].pc = "restore"
      BY <1>2 DEF RestoreFile
    <2>2. o \in Operation /\ o.session = op[r].session /\ o.pc = pc
      <3> HIDE DEF pc
      <3> QED
        BY <1>0, <2>0 DEF Operation
    <2>3. HoldsFile(o)
      BY <2>2 DEF HoldsFile
    <2> HIDE DEF o
    <2> QED
      BY <1>0, <2>1, <2>2, <2>3, ProgressSteps
  <1>3. CASE ReplaceFile(r)
    BY <1>0, <1>3, GotoSteps DEF ReplaceFile, Steps
  <1>4. CASE VerifyFile(r)
    <2> DEFINE o == [op[r] EXCEPT !.pc = "check", !.done = @ \cup {op[r].file},
                                  !.todo = @ \ {op[r].file}, !.file = NoFile]
    <2>1. op[r].pc = "verify" /\ (op' = [op EXCEPT ![r] = o] \/ Unwind(r))
      BY <1>4 DEF VerifyFile
    <2>2. op[r].file \in Files
      BY <2>1 DEF OperationsReady, HoldsFile
    <2>3. o \in Operation /\ o.session = op[r].session /\ HoldsFile(o)
      BY <1>0, <2>2 DEF Operation, Steps, HoldsFile
    <2> HIDE DEF o
    <2> QED
      BY <1>0, <2>1, <2>3, ProgressSteps, UnwindSteps
  <1>5. CASE ApplyFault(r)
    BY <1>0, <1>5, UnwindSteps DEF ApplyFault
  <1>6. CASE RestoreFault(r)
    BY <1>0, <1>6, GotoSteps DEF RestoreFault, Steps
  <1> QED
    BY <1>1, <1>2, <1>3, <1>4, <1>5, <1>6

\* A file is done with in the compensation of a rollback.
LEMMA UndoneSteps ==
    ASSUME OperationsTyped, OperationsReady, ProposalsKept, NEW r \in Requests,
           op[r].pc \notin {"idle", "provider"}, NEW f \in Files, Undone(r, f)
    PROVE  OperationSteps(r)
  <1> DEFINE o == [op[r] EXCEPT !.pc = "undo", !.done = @ \ {f}, !.file = NoFile]
  <1>0. op[r] \in Operation
    BY DEF OperationsTyped
  <1>1. o \in Operation /\ o.session = op[r].session /\ HoldsFile(o)
    BY <1>0 DEF Operation, Steps, HoldsFile
  <1>2. op' = [op EXCEPT ![r] = o] \/ End(r)
    BY DEF Undone
  <1> HIDE DEF o
  <1> QED
    BY <1>1, <1>2, ProgressSteps, EndSteps

LEMMA RollbackSteps ==
    ASSUME TypeOK, OperationsReady, ProposalsKept, NEW r \in Requests,
           \/ \E f \in Files : RollbackCheck(r, f) \/ RollbackReplace(r, f) \/ UndoCheck(r, f)
           \/ UndoReplace(r) \/ UndoFault(r) \/ SaveConflict(r) \/ RollbackFault(r)
           \/ FinishRollback(r) \/ SaveRolledBack(r)
    PROVE  OperationSteps(r)
  <1>0. OperationsTyped /\ op[r] \in Operation
    BY DEF TypeOK, OperationsTyped
  <1>1. ASSUME NEW f \in Files, RollbackCheck(r, f) PROVE OperationSteps(r)
    <2> DEFINE conflict == [op[r] EXCEPT !.pc = "conflict"]
               checked  == [op[r] EXCEPT !.pc = "rollback_replace", !.todo = Current(r).files]
               checking == [op[r] EXCEPT !.todo = @ \ {f}]
    <2>1. /\ op[r].pc = "rollback_check"
          /\ \/ op' = [op EXCEPT ![r] = conflict]
             \/ op' = [op EXCEPT ![r] = checked]
             \/ op' = [op EXCEPT ![r] = checking]
      BY <1>1 DEF RollbackCheck
    <2>2. Current(r).files \subseteq Files
      BY <1>0 DEF TypeOK, Current, Record, Operation
    <2>3. /\ conflict \in Operation /\ conflict.session = op[r].session
          /\ checked \in Operation /\ checked.session = op[r].session
          /\ checking \in Operation /\ checking.session = op[r].session
      BY <1>0, <2>2 DEF Operation, Steps
    <2>4. HoldsFile(conflict) /\ HoldsFile(checked) /\ HoldsFile(checking)
      BY <1>0, <2>1 DEF HoldsFile, Operation
    <2> HIDE DEF conflict, checked, checking
    <2> QED
      BY <1>0, <2>1, <2>3, <2>4, ProgressSteps
  <1>2. ASSUME NEW f \in Files, RollbackReplace(r, f) PROVE OperationSteps(r)
    <2> DEFINE pc == IF op[r].todo = {f} THEN "to_rolled_back" ELSE op[r].pc
               o  == [op[r] EXCEPT !.todo = @ \ {f}, !.done = @ \cup {f}, !.pc = pc]
    <2>0. op[r].pc = "rollback_replace"
      BY <1>2 DEF RollbackReplace
    <2>1. op' = [op EXCEPT ![r] = o]
      BY <1>2 DEF RollbackReplace
    <2>2. pc \in Steps /\ pc \notin {"replace", "verify", "undo_replace"}
      BY <2>0 DEF Steps
    <2>3. o \in Operation /\ o.session = op[r].session /\ o.pc = pc
      <3> HIDE DEF pc
      <3> QED
        BY <1>0, <2>2 DEF Operation
    <2>4. HoldsFile(o)
      BY <2>2, <2>3 DEF HoldsFile
    <2> HIDE DEF o
    <2> QED
      BY <1>0, <2>0, <2>1, <2>3, <2>4, ProgressSteps
  <1>3. ASSUME NEW f \in Files, UndoCheck(r, f) PROVE OperationSteps(r)
    <2> DEFINE o == [op[r] EXCEPT !.pc = "undo_replace", !.file = f]
    <2>1. op[r].pc = "undo" /\ (op' = [op EXCEPT ![r] = o] \/ Undone(r, f))
      BY <1>3 DEF UndoCheck
    <2>2. o \in Operation /\ o.session = op[r].session /\ HoldsFile(o)
      BY <1>0 DEF Operation, Steps, HoldsFile
    <2> HIDE DEF o
    <2> QED
      BY <1>0, <2>1, <2>2, ProgressSteps, UndoneSteps
  <1>4. CASE UndoReplace(r)
    <2>1. op[r].file \in Files
      BY <1>4 DEF UndoReplace, OperationsReady, HoldsFile
    <2> QED
      BY <1>0, <1>4, <2>1, UndoneSteps DEF UndoReplace
  <1>5. CASE RollbackFault(r)
    BY <1>0, <1>5, GotoSteps, EndSteps DEF RollbackFault, Steps
  <1>6. CASE FinishRollback(r)
    BY <1>0, <1>6, GotoSteps DEF FinishRollback, Steps
  <1>7. CASE UndoFault(r) \/ SaveConflict(r) \/ SaveRolledBack(r)
    BY <1>0, <1>7, EndSteps DEF UndoFault, SaveConflict, SaveRolledBack
  <1> QED
    BY <1>1, <1>2, <1>3, <1>4, <1>5, <1>6, <1>7

LEMMA OperationsStep ==
    ASSUME IInv, ProposalsKept, [Next]_vars
    PROVE  OperationsTyped' /\ OperationsReady'
  <1>0. TypeOK /\ OperationsReady /\ OperationsTyped
    BY DEF IInv, TypeOK, OperationsTyped
  <1>1. ASSUME NEW r \in Requests, OperationSteps(r)
        PROVE  OperationsTyped' /\ OperationsReady'
    <2>1. ASSUME NEW q \in Requests \ {r}
          PROVE  /\ op'[q].pc \notin {"idle", "provider"} =>
                      record'[op'[q].session].patch \in Patches
                 /\ HoldsFile(op'[q])
      BY <1>0, <1>1, <2>1 DEF OperationSteps, OperationsReady, ProposalsKept, OperationsTyped,
         Operation
    <2> QED
      BY <1>1, <2>1 DEF OperationSteps, OperationsTyped, OperationsReady
  <1>2. ASSUME NEW r \in Requests, Continue(r) PROVE OperationSteps(r)
    BY <1>0, <1>2, ServiceSteps, EngineSteps, RollbackSteps DEF Continue
  <1>3. ASSUME NEW r \in Requests, Request(r) PROVE OperationSteps(r)
    BY <1>0, <1>3, RequestSteps
  <1>4. ASSUME UNCHANGED op PROVE OperationsTyped' /\ OperationsReady'
    BY <1>0, <1>4 DEF OperationsTyped, OperationsReady, ProposalsKept, Operation
  <1>5. ASSUME Sessioned PROVE UNCHANGED op
    BY <1>5 DEF Sessioned, ClientTransition, StartAnalysis, FinishAnalysis,
       GenerateWithoutSources, memory
  <1>6. ASSUME \/ \E w \in Workspaces : SelectWorkspace(w)
               \/ \E w \in Workspaces, f \in Files, e \in Edits : DeveloperWrites(w, f, e)
               \/ UNCHANGED vars
        PROVE  UNCHANGED op
    BY <1>6 DEF SelectWorkspace, DeveloperWrites, vars, memory
  <1>7. CASE Restart
    BY <1>7, IdleTyped DEF Restart, OperationsTyped, OperationsReady, HoldsFile
  <1> QED
    BY <1>1, <1>2, <1>3, <1>4, <1>5, <1>6, <1>7 DEF Next, World

-----------------------------------------------------------------------------
(* Files.                                                                  *)

LEMMA WriteTyped ==
    ASSUME DiskTyped, NEW w, NEW f \in Files, NEW content \in Content,
           disk' = [disk EXCEPT ![w][f] = content]
    PROVE  DiskTyped'
  BY DEF DiskTyped, Contents

LEMMA DiskStep ==
    ASSUME IInv, [Next]_vars
    PROVE  DiskTyped'
  <1>0. /\ TypeOK /\ OperationsReady /\ DiskTyped
        /\ \A r \in Requests : op[r] \in Operation /\ Current(r) \in Record
    BY DEF IInv, TypeOK, DiskTyped, Operation, Current
  <1>1. ASSUME NEW r \in Requests, NEW f \in Files
        PROVE  Current(r).original[f] \in Content
    BY <1>0, <1>1 DEF Record, Contents
  <1>2. ASSUME NEW r \in Requests, NEW f \in Files, op[r].pc \notin {"idle", "provider"}
        PROVE  Rendered(r, f) \in Content
    BY <1>1, <1>2, <1>0 DEF Rendered, OperationsReady, Current, Content
  <1>3. ASSUME NEW r \in Requests, op[r].pc \in {"replace", "undo_replace"}
        PROVE  op[r].file \in Files
    BY <1>0, <1>3 DEF OperationsReady, HoldsFile
  <1>4. ASSUME NEW r \in Requests, ReplaceFile(r) \/ UndoReplace(r) PROVE DiskTyped'
    BY <1>0, <1>2, <1>3, <1>4, WriteTyped DEF ReplaceFile, UndoReplace, Write
  <1>5. ASSUME NEW r \in Requests, NEW f \in Files, RestoreFile(r, f) \/ RollbackReplace(r, f)
        PROVE  DiskTyped'
    BY <1>0, <1>1, <1>5, WriteTyped DEF RestoreFile, RollbackReplace, Write
  <1>6. ASSUME NEW w \in Workspaces, NEW f \in Files, NEW e \in Edits, DeveloperWrites(w, f, e)
        PROVE  DiskTyped'
    <2>1. disk[w][f] \cup {e} \in Content /\ {} \in Content
      BY <1>0 DEF DiskTyped, Contents, Content
    <2> QED
      BY <1>0, <1>6, <2>1, WriteTyped DEF DeveloperWrites
  <1>7. ASSUME UNCHANGED disk PROVE DiskTyped'
    BY <1>0, <1>7 DEF DiskTyped
  <1>8. ASSUME NEW r \in Requests,
               \/ GenerateFails(r) \/ GenerateRepairs(r) \/ GenerateTransition(r)
               \/ GenerateAwaits(r) \/ SaveAwaiting(r) \/ SaveRejected(r) \/ SaveApproved(r)
               \/ Prepare(r) \/ PrepareRefuses(r) \/ VerifyFile(r) \/ ApplyFault(r)
               \/ RestoreFault(r) \/ SaveApplied(r) \/ StartTesting(r) \/ SelectTest(r)
               \/ RunTest(r) \/ Finish(r) \/ SaveResult(r) \/ FailApply(r) \/ SaveFailed(r)
               \/ SaveConflict(r) \/ RollbackFault(r) \/ UndoFault(r) \/ FinishRollback(r)
               \/ SaveRolledBack(r)
        PROVE  UNCHANGED disk
    BY <1>8 DEF GenerateFails, GenerateRepairs, GenerateTransition, GenerateAwaits,
       SaveAwaiting, SaveRejected, SaveApproved, Prepare, PrepareRefuses, VerifyFile,
       ApplyFault, RestoreFault, SaveApplied, StartTesting, SelectTest, RunTest, Finish,
       SaveResult, FailApply, SaveFailed, SaveConflict, RollbackFault, UndoFault,
       FinishRollback, SaveRolledBack, world
  <1>9. ASSUME NEW r \in Requests,
               \/ Request(r)
               \/ \E p \in fresh, files \in SUBSET Files : GenerateProposes(r, p, files)
               \/ \E f \in Files : CheckFile(r, f) \/ RollbackCheck(r, f) \/ UndoCheck(r, f)
        PROVE  UNCHANGED disk
    BY <1>9 DEF Request, BeginGenerate, Reject, Approve, Rollback, GenerateProposes, CheckFile,
       RollbackCheck, UndoCheck, world
  <1>10. ASSUME Sessioned PROVE UNCHANGED disk
    BY <1>10 DEF Sessioned, ClientTransition, StartAnalysis, FinishAnalysis,
       GenerateWithoutSources, world
  <1>11. ASSUME (\E w \in Workspaces : SelectWorkspace(w)) \/ Restart \/ UNCHANGED vars
         PROVE  UNCHANGED disk
    BY <1>11 DEF SelectWorkspace, Restart, vars, world
  <1> QED
    BY <1>4, <1>5, <1>6, <1>7, <1>8, <1>9, <1>10, <1>11 DEF Next, Continue, World

-----------------------------------------------------------------------------
(* The rest of the state.                                                  *)

RestTyped ==
    /\ selected \in Workspaces \cup {NoWorkspace}
    /\ active \subseteq Sessions
    /\ analyzing \in [Sessions -> Nat]
    /\ fresh \subseteq Patches /\ edits \subseteq Edits
    /\ faults \in 0..MaxFaults /\ crashes \in 0..MaxCrashes /\ switches \in 0..MaxSwitches
    /\ consent \subseteq Patches
    /\ start \in Contents
    /\ edited \subseteq Workspaces \X Files /\ unseen \subseteq Workspaces \X Files

LEMMA TypeOKParts ==
    TypeOK <=> SessionsTyped /\ RecordsTyped /\ OperationsTyped /\ DiskTyped /\ RestTyped
  BY DEF TypeOK, SessionsTyped, SessionRow, RecordsTyped, OperationsTyped, DiskTyped, RestTyped

LEMMA RestStep ==
    ASSUME TypeOK, [Next]_vars
    PROVE  RestTyped'
  <1>0. /\ RestTyped
        /\ \A r \in Requests : op[r].session \in Sessions
        /\ \A s \in Sessions : session[s].revision \in Nat
        /\ \A w \in Workspaces : disk[w] \in Contents
    BY DEF TypeOK, RestTyped, Operation
  <1>1. ASSUME NEW s \in Sessions, NEW t,
               ClientTransition(s, t) \/ StartAnalysis(s) \/ FinishAnalysis(s, t)
                 \/ GenerateWithoutSources(s)
        PROVE  RestTyped'
    BY <1>0, <1>1 DEF RestTyped, ClientTransition, StartAnalysis, FinishAnalysis,
       GenerateWithoutSources, FailGeneration, memory, world, history
  <1>2. ASSUME NEW r \in Requests, NEW s \in Sessions, BeginGenerate(r, s)
        PROVE  RestTyped'
    BY <1>0, <1>2 DEF RestTyped, BeginGenerate, Begin, Started, world, history
  <1>3. ASSUME NEW r \in Requests, NEW s \in Sessions, NEW p \in Patches,
               Reject(r, s, p) \/ Approve(r, s, p) \/ Rollback(r, s, p)
        PROVE  RestTyped'
    BY <1>0, <1>3 DEF RestTyped, Reject, Approve, Rollback, Begin, Started, world
  <1>4. ASSUME NEW r \in Requests,
               \/ GenerateFails(r) \/ SaveAwaiting(r) \/ SaveRejected(r) \/ SaveResult(r)
               \/ SaveFailed(r) \/ SaveConflict(r) \/ SaveRolledBack(r) \/ GenerateTransition(r)
        PROVE  RestTyped'
    BY <1>0, <1>4 DEF RestTyped, GenerateFails, FailGeneration, SaveAwaiting, SaveRejected,
       SaveResult, SaveFailed, SaveConflict, SaveRolledBack, GenerateTransition, End, world,
       history
  <1>5. ASSUME NEW r \in Requests,
               \/ GenerateRepairs(r) \/ GenerateAwaits(r) \/ SaveApproved(r)
               \/ PrepareRefuses(r) \/ ReplaceFile(r) \/ SaveApplied(r) \/ StartTesting(r)
               \/ SelectTest(r) \/ RunTest(r) \/ Finish(r) \/ FailApply(r) \/ FinishRollback(r)
        PROVE  RestTyped'
    BY <1>0, <1>5 DEF RestTyped, GenerateRepairs, GenerateAwaits, SaveApproved, PrepareRefuses,
       ReplaceFile, SaveApplied, StartTesting, SelectTest, RunTest, Finish, FailApply,
       FinishRollback, world, history
  <1>6. ASSUME NEW r \in Requests, NEW p \in fresh, NEW files, GenerateProposes(r, p, files)
        PROVE  RestTyped'
    BY <1>0, <1>6 DEF RestTyped, GenerateProposes, history
  <1>7. ASSUME NEW r \in Requests, Prepare(r) PROVE RestTyped'
    BY <1>0, <1>7 DEF RestTyped, Prepare, Applicable, world
  <1>8. ASSUME NEW r \in Requests, NEW f \in Files,
               \/ CheckFile(r, f) \/ RollbackCheck(r, f) \/ RestoreFile(r, f)
               \/ RollbackReplace(r, f) \/ UndoCheck(r, f)
        PROVE  RestTyped'
    BY <1>0, <1>8 DEF RestTyped, CheckFile, RollbackCheck, RestoreFile, RollbackReplace,
       UndoCheck, Undone, End, world, history
  <1>9. ASSUME NEW r \in Requests, VerifyFile(r) \/ UndoReplace(r) PROVE RestTyped'
    BY <1>0, <1>9 DEF RestTyped, VerifyFile, UndoReplace, Undone, End, world, history
  <1>10. ASSUME NEW r \in Requests,
                ApplyFault(r) \/ RestoreFault(r) \/ RollbackFault(r) \/ UndoFault(r)
         PROVE  RestTyped'
    <2>1. faults \in 0..MaxFaults /\ faults < MaxFaults /\ faults' = faults + 1
      BY <1>0, <1>10 DEF RestTyped, ApplyFault, RestoreFault, RollbackFault, UndoFault, Fault
    <2>2. faults' \in 0..MaxFaults
      BY <2>1, ConstantsAssumption
    <2> QED
      BY <1>0, <1>10, <2>2 DEF RestTyped, ApplyFault, RestoreFault, RollbackFault, UndoFault,
         End, history
  <1>11. ASSUME NEW w \in Workspaces, SelectWorkspace(w) PROVE RestTyped'
    BY <1>0, <1>11, ConstantsAssumption DEF RestTyped, SelectWorkspace, history
  <1>12. ASSUME NEW w \in Workspaces, NEW f \in Files, NEW e \in Edits, DeveloperWrites(w, f, e)
         PROVE  RestTyped'
    BY <1>0, <1>12 DEF RestTyped, DeveloperWrites, memory
  <1>13. ASSUME Restart PROVE RestTyped'
    BY <1>0, <1>13, ConstantsAssumption DEF RestTyped, Restart, history
  <1>14. ASSUME UNCHANGED vars PROVE RestTyped'
    BY <1>0, <1>14 DEF RestTyped, vars, memory, world, history
  <1>15. ASSUME NEW r \in Requests, Continue(r) PROVE RestTyped'
    BY <1>4, <1>5, <1>6, <1>7, <1>8, <1>9, <1>10, <1>15 DEF Continue
  <1>16. ASSUME NEW r \in Requests, Request(r) PROVE RestTyped'
    BY <1>2, <1>3, <1>16 DEF Request
  <1>17. ASSUME Sessioned PROVE RestTyped'
    BY <1>1, <1>17 DEF Sessioned
  <1>18. ASSUME World PROVE RestTyped'
    BY <1>11, <1>12, <1>13, <1>18 DEF World
  <1> QED
    BY <1>14, <1>15, <1>16, <1>17, <1>18 DEF Next

-----------------------------------------------------------------------------

LEMMA InitTyped == Init => IInv
  <1> SUFFICES ASSUME Init PROVE IInv
    OBVIOUS
  <1>1. Created \in SessionRow
    BY DEF Created, SessionRow, DebugState, MaxRetries
  <1>2. Blank \in Contents
    BY DEF Blank, Contents, Content
  <1>3. NoRecord \in Record
    BY <1>2 DEF NoRecord, Record, RollbackStatus
  <1>4. SessionsTyped /\ RecordsTyped /\ OperationsTyped /\ DiskTyped
    BY <1>1, <1>2, <1>3, IdleTyped
    DEF Init, SessionsTyped, RecordsTyped, OperationsTyped, DiskTyped
  <1>5. RestTyped
    BY <1>2, ConstantsAssumption DEF Init, RestTyped
  <1>6. OperationsReady
    BY IdleTyped DEF Init, OperationsReady, HoldsFile
  <1> QED
    BY <1>4, <1>5, <1>6, TypeOKParts DEF IInv

LEMMA NextTyped == IInv /\ [Next]_vars => IInv'
  <1> SUFFICES ASSUME IInv, [Next]_vars PROVE IInv'
    OBVIOUS
  <1>0. TypeOK /\ SessionsTyped /\ OperationsTyped
    BY TypeOKParts DEF IInv
  <1>1. SessionsTyped'
    BY <1>0, NextMoves, MovesTyped DEF SessionsTyped
  <1>2. RecordsTyped' /\ ProposalsKept
    BY <1>0, RecordsStep
  <1>3. OperationsTyped' /\ OperationsReady'
    BY <1>2, OperationsStep
  <1>4. DiskTyped' /\ RestTyped'
    BY <1>0, DiskStep, RestStep
  <1>5. (TypeOK <=> SessionsTyped /\ RecordsTyped /\ OperationsTyped /\ DiskTyped /\ RestTyped)'
    BY DEF TypeOK, SessionsTyped, SessionRow, RecordsTyped, OperationsTyped, DiskTyped, RestTyped
  <1> QED
    BY <1>1, <1>2, <1>3, <1>4, <1>5 DEF IInv

\* Every reachable state is well typed, and every operation in it has what its
\* next step needs.
THEOREM PatchIInv == Spec => []IInv
  BY InitTyped, NextTyped, PTL DEF Spec

\* The variables of the patch workflow have their types in every reachable
\* state: in particular the engine never renders a missing proposal into a
\* file, and never a file it does not hold.
THEOREM PatchTypeOK == Spec => []TypeOK
  <1>1. IInv => TypeOK
    BY DEF IInv
  <1> QED
    BY <1>1, PatchIInv, PTL

\* Every step of the service, of its clients, of the world and of a restart is
\* a legal transition of one session or leaves all sessions alone.
THEOREM PatchImplementsLifecycle == Spec => ImplementsLifecycle
  <1>1. Init => Lifecycle!Init
    BY DEF Init, Lifecycle!Init, Created, Lifecycle!Created
  <1>2. IInv /\ [Next]_vars => [Lifecycle!Next]_session
    <2> SUFFICES ASSUME IInv, [Next]_vars, OneMoves PROVE Lifecycle!Next
      BY NextMoves, TypeOKParts DEF IInv
    <2>1. PICK s \in Sessions, t \in DebugState :
            Decidable(session[s].state, t, session[s].retry_count) /\ Move(s, t)
      BY DEF OneMoves
    <2>2. Lifecycle!Step(s, t)
      BY <2>1 DEF Lifecycle!Step, Move, Moved, Lifecycle!Moved, Decidable, Lifecycle!Decidable,
         NextRetryCount, Lifecycle!NextRetryCount, IsRetry, Lifecycle!IsRetry, Successors,
         Lifecycle!Successors, MaxRetries, Lifecycle!MaxRetries
    <2> QED
      BY <2>2 DEF Lifecycle!Next, DebugState, Lifecycle!DebugState
  <1> QED
    BY <1>1, <1>2, PatchIInv, PTL DEF Spec, ImplementsLifecycle, Lifecycle!Spec

\* The theorems of the lifecycle, read for the sessions of the patch workflow.
Proved == INSTANCE SessionLifecycleProofs

\* However often patches are generated, decided, retried and rolled back, and
\* whatever clients ask, no session makes more than 23 transitions.
THEOREM PatchRevisionBound == Spec => []Lifecycle!RevisionBound
  <1>1. Proved!Spec => []Proved!RevisionBound
    BY Proved!LifecycleRevisionBound
  <1>2. Lifecycle!Init => Proved!Init
    BY DEF Lifecycle!Init, Proved!Init, Lifecycle!Absent, Proved!Absent, Lifecycle!Created,
       Proved!Created
  <1>3. Lifecycle!Next => Proved!Next
    BY DEF Lifecycle!Next, Proved!Next, Lifecycle!Create, Proved!Create, Lifecycle!Step,
       Proved!Step, Lifecycle!Absent, Proved!Absent, Lifecycle!Created, Proved!Created,
       Lifecycle!DebugState, Proved!DebugState, Lifecycle!Decidable, Proved!Decidable,
       Lifecycle!Moved, Proved!Moved, Lifecycle!NextRetryCount, Proved!NextRetryCount,
       Lifecycle!Successors, Proved!Successors, Lifecycle!IsRetry, Proved!IsRetry,
       Lifecycle!MaxRetries, Proved!MaxRetries
  <1>4. Proved!RevisionBound => Lifecycle!RevisionBound
    BY DEF Lifecycle!RevisionBound, Proved!RevisionBound, Lifecycle!MaxRetries,
       Proved!MaxRetries
  <1> QED
    BY <1>1, <1>2, <1>3, <1>4, PatchImplementsLifecycle, PTL
    DEF ImplementsLifecycle, Lifecycle!Spec, Proved!Spec

-----------------------------------------------------------------------------
(* Consent: every change in the developer's files is one a human approved, *)
(* and its originals are in the database before it is.                     *)

Busy(o) == o.pc \notin {"idle", "provider"}

\* The steps that come before the snapshot, those of them that follow an
\* approval, and the steps that access files.
BeforeSnapshot == {"to_generated", "to_awaiting", "save_awaiting", "save_approved", "prepare"}
AfterApproval  == {"save_approved", "prepare"}
InEngine ==
    {"check", "replace", "verify", "restore", "rollback_check", "rollback_replace", "undo",
     "undo_replace"}

\* The loop belongs to one operation.
OneBusy == \A q, r \in Requests : Busy(op[q]) /\ Busy(op[r]) => q = r

OperationsInPhase ==
    \A r \in Requests :
        /\ op[r].pc \in BeforeSnapshot => ~Current(r).saved
        /\ op[r].pc \in AfterApproval => Current(r).patch \in consent
        /\ op[r].pc \in InEngine => Current(r).saved

\* Patch p is in a file, or in the original of a file.
Carried(p) ==
    \/ \E w \in Workspaces, f \in Files : p \in disk[w][f]
    \/ \E s \in Sessions, f \in Files : p \in record[s].original[f]

CarriedConsented == \A p \in Patches : Carried(p) => p \in consent

FreshUnknown ==
    \A p \in fresh : ~Carried(p) /\ \A s \in Sessions : record[s].patch # p

\* A proposal belongs to one session.
ProposalsDiffer ==
    \A s, t \in Sessions :
        record[s].patch = record[t].patch /\ record[s].patch \in Patches => s = t

\* A snapshot is made of approved patches only, whose status says so.
SavedConsented ==
    \A s \in Sessions : record[s].saved =>
        record[s].patch \in consent /\ record[s].status \notin {"PROPOSED", "AWAITING_APPROVAL"}

\* Before its snapshot a patch is in no file, and never is in its own originals.
SnapshotFirst ==
    \A s \in Sessions : record[s].patch \in Patches =>
        /\ ~record[s].saved => ~Carried(record[s].patch)
        /\ \A f \in Files : record[s].patch \notin record[s].original[f]

ConsentInv ==
    /\ OneBusy
    /\ OperationsInPhase
    /\ CarriedConsented
    /\ FreshUnknown
    /\ ProposalsDiffer
    /\ SavedConsented
    /\ SnapshotFirst

-----------------------------------------------------------------------------
(* What the steps do to operations, records and files.                     *)

\* Request r takes a step of its operation: it ends, or it goes on in the same
\* session and in the same phase; only the snapshot leads into the engine.
Advances(r) ==
    /\ \A q \in Requests \ {r} : op'[q] = op[q]
    /\ Busy(op'[r]) =>
         /\ Busy(op[r])
         /\ op'[r].session = op[r].session
         /\ op'[r].pc \in BeforeSnapshot => op[r].pc \in BeforeSnapshot
         /\ op'[r].pc \in AfterApproval => op[r].pc \in AfterApproval
         /\ op'[r].pc \in InEngine => op[r].pc \in InEngine \/ Prepare(r)

\* No record changes its proposal or its snapshot, and a proposal becomes
\* decidable only before its snapshot.
RecordsKeep ==
    \A s \in Sessions :
        /\ record'[s].patch = record[s].patch
        /\ record'[s].saved = record[s].saved
        /\ record'[s].original = record[s].original
        /\ record'[s].status \in {"PROPOSED", "AWAITING_APPROVAL"} =>
             record[s].status \in {"PROPOSED", "AWAITING_APPROVAL"} \/ ~record[s].saved

\* A patch gets into a file from another place that carries it, or from a record
\* that has its snapshot.
FilesKeep ==
    \A w \in Workspaces, f \in Files, p \in Patches :
        p \in disk'[w][f] =>
          Carried(p) \/ \E s \in Sessions : record[s].saved /\ record[s].patch = p

LEMMA EndAdvances ==
    ASSUME TypeOK, NEW r \in Requests, End(r)
    PROVE  Advances(r)
  BY IdleTyped DEF End, Advances, Busy, TypeOK

LEMMA GotoAdvances ==
    ASSUME TypeOK, NEW r \in Requests, Busy(op[r]), NEW pc, Goto(r, pc),
           pc \in BeforeSnapshot => op[r].pc \in BeforeSnapshot,
           pc \in AfterApproval => op[r].pc \in AfterApproval,
           pc \in InEngine => op[r].pc \in InEngine
    PROVE  Advances(r)
  BY DEF Goto, Advances, TypeOK, Operation

LEMMA ReplacedAdvances ==
    ASSUME TypeOK, NEW r \in Requests, Busy(op[r]), NEW o, op' = [op EXCEPT ![r] = o],
           o.session = op[r].session,
           o.pc \in BeforeSnapshot => op[r].pc \in BeforeSnapshot,
           o.pc \in AfterApproval => op[r].pc \in AfterApproval,
           o.pc \in InEngine => op[r].pc \in InEngine
    PROVE  Advances(r)
  BY DEF Advances, TypeOK

LEMMA UnwindAdvances ==
    ASSUME TypeOK, NEW r \in Requests, op[r].pc \in InEngine, Unwind(r)
    PROVE  Advances(r)
  BY GotoAdvances DEF Unwind, Goto, Busy, InEngine, BeforeSnapshot, AfterApproval

LEMMA UndoneAdvances ==
    ASSUME TypeOK, NEW r \in Requests, op[r].pc \in InEngine, NEW f, Undone(r, f)
    PROVE  Advances(r)
  <1>1. CASE End(r)
    BY <1>1, EndAdvances
  <1>2. CASE op' = [op EXCEPT ![r].pc = "undo", ![r].done = @ \ {f}, ![r].file = NoFile]
    BY <1>2 DEF Advances, Busy, InEngine, BeforeSnapshot, AfterApproval, TypeOK, Operation
  <1> QED
    BY <1>1, <1>2 DEF Undone

LEMMA ServiceAdvances ==
    ASSUME TypeOK, NEW r \in Requests,
           \/ GenerateFails(r) \/ GenerateRepairs(r)
           \/ GenerateTransition(r) \/ GenerateAwaits(r) \/ SaveAwaiting(r) \/ SaveRejected(r)
           \/ SaveApproved(r) \/ Prepare(r) \/ PrepareRefuses(r) \/ SaveApplied(r)
           \/ StartTesting(r) \/ SelectTest(r) \/ RunTest(r) \/ Finish(r) \/ SaveResult(r)
           \/ FailApply(r) \/ SaveFailed(r)
    PROVE  Advances(r)
  <1>1. CASE GenerateFails(r) \/ SaveAwaiting(r) \/ SaveRejected(r) \/ SaveResult(r)
               \/ SaveFailed(r)
    BY <1>1, EndAdvances DEF GenerateFails, SaveAwaiting, SaveRejected, SaveResult, SaveFailed
  <1>2. CASE GenerateRepairs(r)
    BY <1>2 DEF GenerateRepairs, Advances, Busy, TypeOK, Operation
  <1>3. CASE GenerateTransition(r)
    BY <1>3, EndAdvances, GotoAdvances
    DEF GenerateTransition, Busy, InEngine, BeforeSnapshot, AfterApproval
  <1>4. CASE \/ GenerateAwaits(r) \/ SaveApproved(r) \/ PrepareRefuses(r) \/ SaveApplied(r)
             \/ StartTesting(r) \/ Finish(r) \/ FailApply(r)
    BY <1>4, GotoAdvances
    DEF GenerateAwaits, SaveApproved, PrepareRefuses, SaveApplied, StartTesting, Finish,
        FailApply, Busy, InEngine, BeforeSnapshot, AfterApproval
  <1>5. CASE Prepare(r)
    BY <1>5 DEF Prepare, Advances, Busy, InEngine, BeforeSnapshot, AfterApproval, TypeOK,
       Operation
  <1>6. CASE SelectTest(r)
    <2> DEFINE o == [op[r] EXCEPT !.pc = "run_test", !.command = selected]
    <2>1. o.session = op[r].session /\ o.pc = "run_test"
      BY DEF TypeOK, Operation
    <2>2. op[r].pc = "select_test" /\ (op' = [op EXCEPT ![r] = o] \/ Goto(r, "finish"))
      BY <1>6 DEF SelectTest
    <2> HIDE DEF o
    <2> QED
      BY <2>1, <2>2, ReplacedAdvances, GotoAdvances
      DEF Busy, InEngine, BeforeSnapshot, AfterApproval
  <1>7. CASE RunTest(r)
    <2>1. ASSUME NEW passed \in BOOLEAN,
                 op' = [op EXCEPT ![r].pc = "finish", ![r].passed = passed,
                                  ![r].command = selected]
          PROVE  Advances(r)
      <3> DEFINE o == [op[r] EXCEPT !.pc = "finish", !.passed = passed, !.command = selected]
      <3>1. o.session = op[r].session /\ o.pc = "finish"
        BY DEF TypeOK, Operation
      <3>2. op[r].pc = "run_test" /\ op' = [op EXCEPT ![r] = o]
        BY <1>7, <2>1 DEF RunTest
      <3> HIDE DEF o
      <3> QED
        BY <3>1, <3>2, ReplacedAdvances DEF Busy, InEngine, BeforeSnapshot, AfterApproval
    <2> QED
      BY <1>7, <2>1, GotoAdvances DEF RunTest, Busy, InEngine, BeforeSnapshot, AfterApproval
  <1> QED
    BY <1>1, <1>2, <1>3, <1>4, <1>5, <1>6, <1>7

LEMMA EngineAdvances ==
    ASSUME TypeOK, NEW r \in Requests,
           \/ \E f \in Files :
                \/ CheckFile(r, f) \/ RestoreFile(r, f) \/ RollbackCheck(r, f)
                \/ RollbackReplace(r, f) \/ UndoCheck(r, f)
           \/ ReplaceFile(r) \/ VerifyFile(r) \/ ApplyFault(r) \/ RestoreFault(r)
           \/ UndoReplace(r) \/ UndoFault(r) \/ SaveConflict(r) \/ RollbackFault(r)
           \/ FinishRollback(r) \/ SaveRolledBack(r)
    PROVE  Advances(r)
  <1>1. CASE UndoFault(r) \/ SaveConflict(r) \/ SaveRolledBack(r)
    BY <1>1, EndAdvances DEF UndoFault, SaveConflict, SaveRolledBack
  <1>2. CASE ReplaceFile(r) \/ RestoreFault(r) \/ FinishRollback(r)
    BY <1>2, GotoAdvances
    DEF ReplaceFile, RestoreFault, FinishRollback, Busy, InEngine, BeforeSnapshot, AfterApproval
  <1>3. CASE ApplyFault(r)
    BY <1>3, UnwindAdvances DEF ApplyFault, InEngine
  <1>4. CASE RollbackFault(r)
    BY <1>4, EndAdvances, GotoAdvances
    DEF RollbackFault, Busy, InEngine, BeforeSnapshot, AfterApproval
  <1>5. CASE UndoReplace(r)
    BY <1>5, UndoneAdvances DEF UndoReplace, InEngine
  <1>6. CASE VerifyFile(r)
    BY <1>6, UnwindAdvances DEF VerifyFile, Advances, Busy, InEngine, BeforeSnapshot,
       AfterApproval, TypeOK, Operation
  <1>7. ASSUME NEW f \in Files, CheckFile(r, f) PROVE Advances(r)
    BY <1>7, UnwindAdvances DEF CheckFile, Advances, Busy, InEngine, BeforeSnapshot,
       AfterApproval, TypeOK, Operation
  <1>8. ASSUME NEW f \in Files, UndoCheck(r, f) PROVE Advances(r)
    BY <1>8, UndoneAdvances DEF UndoCheck, Advances, Busy, InEngine, BeforeSnapshot,
       AfterApproval, TypeOK, Operation
  <1>9. ASSUME NEW f \in Files, RestoreFile(r, f) \/ RollbackReplace(r, f) PROVE Advances(r)
    <2> DEFINE restored == [op[r] EXCEPT !.done = @ \ {f},
                              !.pc = IF op[r].done = {f} THEN "fail_apply" ELSE "restore"]
               replaced == [op[r] EXCEPT !.todo = @ \ {f}, !.done = @ \cup {f},
                              !.pc = IF op[r].todo = {f} THEN "to_rolled_back" ELSE @]
    <2>1. \/ op[r].pc = "restore" /\ op' = [op EXCEPT ![r] = restored]
          \/ op[r].pc = "rollback_replace" /\ op' = [op EXCEPT ![r] = replaced]
      BY <1>9 DEF RestoreFile, RollbackReplace
    <2>2. /\ restored.session = op[r].session /\ restored.pc \in {"fail_apply", "restore"}
      BY DEF TypeOK, Operation
    <2>3. /\ replaced.session = op[r].session /\ replaced.pc \in {"to_rolled_back", op[r].pc}
      BY DEF TypeOK, Operation
    <2> HIDE DEF restored, replaced
    <2> QED
      BY <2>1, <2>2, <2>3, ReplacedAdvances
      DEF Busy, InEngine, BeforeSnapshot, AfterApproval
  <1>10. ASSUME NEW f \in Files, RollbackCheck(r, f) PROVE Advances(r)
    BY <1>10 DEF RollbackCheck, Advances, Busy, InEngine, BeforeSnapshot, AfterApproval,
       TypeOK, Operation
  <1> QED
    BY <1>1, <1>2, <1>3, <1>4, <1>5, <1>6, <1>7, <1>8, <1>9, <1>10

\* A save that changes neither the proposal nor the snapshot.
LEMMA SaveKeeps ==
    ASSUME TypeOK, NEW s \in Sessions, NEW new, Save(s, new),
           new.patch = record[s].patch, new.saved = record[s].saved,
           new.original = record[s].original,
           new.status \in {"PROPOSED", "AWAITING_APPROVAL"} =>
             record[s].status \in {"PROPOSED", "AWAITING_APPROVAL"} \/ ~record[s].saved
    PROVE  RecordsKeep
  BY DEF Save, RecordsKeep, TypeOK

LEMMA SavesKeep ==
    ASSUME TypeOK, OperationsInPhase, NEW r \in Requests,
           \/ SaveAwaiting(r) \/ SaveRejected(r) \/ SaveApproved(r) \/ SaveApplied(r)
           \/ SaveResult(r) \/ SaveFailed(r) \/ SaveConflict(r) \/ SaveRolledBack(r)
    PROVE  RecordsKeep
  <1>0. op[r].session \in Sessions /\ Current(r) = record[op[r].session] /\ Current(r) \in Record
    BY DEF TypeOK, Operation, Current
  <1>1. ASSUME NEW status,
               Save(op[r].session, [Current(r) EXCEPT !.status = status]),
               status = "AWAITING_APPROVAL" => ~Current(r).saved,
               status # "PROPOSED"
        PROVE  RecordsKeep
    <2> DEFINE new == [Current(r) EXCEPT !.status = status]
    <2>1. /\ new.patch = Current(r).patch /\ new.saved = Current(r).saved
          /\ new.original = Current(r).original /\ new.status = status
      BY <1>0 DEF Record
    <2> HIDE DEF new
    <2> QED
      BY <1>0, <1>1, <2>1, SaveKeeps DEF new
  <1>2. CASE SaveAwaiting(r)
    BY <1>1, <1>2 DEF SaveAwaiting, OperationsInPhase, BeforeSnapshot
  <1>3. CASE SaveRejected(r) \/ SaveApproved(r) \/ SaveApplied(r)
    BY <1>1, <1>3 DEF SaveRejected, SaveApproved, SaveApplied
  <1>4. CASE SaveResult(r)
    <2> DEFINE status == IF op[r].passed THEN "VERIFIED" ELSE "FAILED"
               new == [Current(r) EXCEPT !.status = status, !.tested = op[r].command]
    <2>1. /\ new.patch = Current(r).patch /\ new.saved = Current(r).saved
          /\ new.original = Current(r).original /\ new.status \in {"VERIFIED", "FAILED"}
      BY <1>0 DEF Record
    <2>2. Save(op[r].session, new)
      BY <1>4 DEF SaveResult
    <2> HIDE DEF new
    <2> QED
      BY <1>0, <2>1, <2>2, SaveKeeps
  <1>5. CASE SaveFailed(r)
    <2> DEFINE rollback == IF Current(r).saved THEN Current(r).rollback ELSE "UNAVAILABLE"
               new == [Current(r) EXCEPT !.status = "FAILED", !.rollback = rollback]
    <2>1. /\ new.patch = Current(r).patch /\ new.saved = Current(r).saved
          /\ new.original = Current(r).original /\ new.status = "FAILED"
      BY <1>0 DEF Record
    <2>2. Save(op[r].session, new)
      BY <1>5 DEF SaveFailed
    <2> HIDE DEF new
    <2> QED
      BY <1>0, <2>1, <2>2, SaveKeeps
  <1>6. CASE SaveConflict(r) \/ SaveRolledBack(r)
    <2> DEFINE conflict == [Current(r) EXCEPT !.rollback = "CONFLICT"]
               undone   == [Current(r) EXCEPT !.status = "ROLLED_BACK",
                                              !.rollback = "COMPLETED"]
    <2>1. /\ conflict.patch = Current(r).patch /\ conflict.saved = Current(r).saved
          /\ conflict.original = Current(r).original /\ conflict.status = Current(r).status
      BY <1>0 DEF Record
    <2>2. /\ undone.patch = Current(r).patch /\ undone.saved = Current(r).saved
          /\ undone.original = Current(r).original /\ undone.status = "ROLLED_BACK"
      BY <1>0 DEF Record
    <2>3. Save(op[r].session, conflict) \/ Save(op[r].session, undone)
      BY <1>6 DEF SaveConflict, SaveRolledBack
    <2> HIDE DEF conflict, undone
    <2> QED
      BY <1>0, <2>1, <2>2, <2>3, SaveKeeps
  <1> QED
    BY <1>2, <1>3, <1>4, <1>5, <1>6

LEMMA RestartKeeps ==
    ASSUME TypeOK, Restart
    PROVE  RecordsKeep
  <1>1. \A s \in Sessions :
          LET new == [record[s] EXCEPT !.status = "RECOVERY_REQUIRED"]
          IN  /\ new.patch = record[s].patch /\ new.saved = record[s].saved
              /\ new.original = record[s].original /\ new.status = "RECOVERY_REQUIRED"
    BY DEF TypeOK, Record
  <1> QED
    BY <1>1 DEF Restart, RecordsKeep

\* What the engine writes into a file is a snapshot, with or without the
\* proposal of a record that has its snapshot.
LEMMA WriteKeeps ==
    ASSUME TypeOK, NEW w, NEW g, NEW content,
           disk' = [disk EXCEPT ![w][g] = content],
           \A p \in Patches :
             p \in content =>
               Carried(p) \/ \E s \in Sessions : record[s].saved /\ record[s].patch = p
    PROVE  FilesKeep
  BY DEF TypeOK, Contents, FilesKeep, Carried

LEMMA EngineKeepsFiles ==
    ASSUME TypeOK, OperationsReady, OperationsInPhase, NEW r \in Requests, NEW f \in Files,
           \/ ReplaceFile(r) \/ UndoReplace(r) \/ RestoreFile(r, f) \/ RollbackReplace(r, f)
    PROVE  FilesKeep
  <1>0. op[r].session \in Sessions /\ Current(r) = record[op[r].session]
    BY DEF TypeOK, Operation, Current
  <1>1. op[r].pc \in InEngine
    BY DEF ReplaceFile, UndoReplace, RestoreFile, RollbackReplace, InEngine
  <1>2. Current(r).saved
    BY <1>1 DEF OperationsInPhase
  <1>3. CASE ReplaceFile(r) \/ UndoReplace(r)
    <2>1. op[r].file \in Files
      BY <1>3 DEF ReplaceFile, UndoReplace, OperationsReady, HoldsFile
    <2>2. disk' = [disk EXCEPT ![op[r].ws][op[r].file] = Rendered(r, op[r].file)]
      BY <1>3 DEF ReplaceFile, UndoReplace, Write
    <2>3. \A p \in Patches : p \in Rendered(r, op[r].file) =>
            Carried(p) \/ \E s \in Sessions : record[s].saved /\ record[s].patch = p
      BY <1>0, <1>2, <2>1 DEF Rendered, Carried
    <2> QED
      BY <2>2, <2>3, WriteKeeps
  <1>4. CASE RestoreFile(r, f) \/ RollbackReplace(r, f)
    <2>1. disk' = [disk EXCEPT ![op[r].ws][f] = Current(r).original[f]]
      BY <1>4 DEF RestoreFile, RollbackReplace, Write
    <2>2. \A p \in Patches : p \in Current(r).original[f] => Carried(p)
      BY <1>0 DEF Carried
    <2> QED
      BY <2>1, <2>2, WriteKeeps
  <1> QED
    BY <1>3, <1>4

LEMMA DeveloperKeepsFiles ==
    ASSUME TypeOK, NEW w \in Workspaces, NEW f \in Files, NEW e \in Edits,
           DeveloperWrites(w, f, e)
    PROVE  FilesKeep
  <1>1. \A p \in Patches : p \in disk[w][f] \cup {e} \/ p \in {} => Carried(p)
    BY ConstantsAssumption DEF Carried
  <1>2. \E content \in {disk[w][f] \cup {e}, {}} : disk' = [disk EXCEPT ![w][f] = content]
    BY DEF DeveloperWrites
  <1> QED
    BY <1>1, <1>2, WriteKeeps

-----------------------------------------------------------------------------
(* Every step preserves the invariant.                                     *)

\* The parts of the invariant about records and files.
CarriedParts ==
    CarriedConsented /\ FreshUnknown /\ ProposalsDiffer /\ SavedConsented /\ SnapshotFirst

LEMMA CarriedKept ==
    ASSUME TypeOK, CarriedParts, RecordsKeep, FilesKeep, consent' = consent, fresh' = fresh
    PROVE  CarriedParts'
  <1> USE DEF CarriedParts, RecordsKeep
  <1>0. /\ \A p \in Patches : Carried(p)' =>
             Carried(p) \/ \E s \in Sessions : record[s].saved /\ record[s].patch = p
        /\ fresh \subseteq Patches
    BY DEF Carried, FilesKeep, TypeOK
  <1>1. CarriedConsented'
    BY <1>0 DEF CarriedConsented, SavedConsented
  <1>2. FreshUnknown'
    BY <1>0 DEF FreshUnknown
  <1>3. ProposalsDiffer'
    BY DEF ProposalsDiffer
  <1>4. SavedConsented'
    BY DEF SavedConsented
  <1>5. SnapshotFirst'
    <2>1. ASSUME NEW s \in Sessions, record[s].patch \in Patches, ~record[s].saved
          PROVE  ~Carried(record[s].patch)'
      BY <1>0, <2>1 DEF SnapshotFirst, ProposalsDiffer
    <2> QED
      BY <2>1 DEF SnapshotFirst
  <1> QED
    BY <1>1, <1>2, <1>3, <1>4, <1>5

\* While consents and snapshots stay, so do the phases of the operations.
LEMMA PhasesKept ==
    ASSUME TypeOK, OneBusy, OperationsInPhase, RecordsKeep, consent' = consent,
           NEW r \in Requests, Advances(r), ~Prepare(r)
    PROVE  OneBusy' /\ OperationsInPhase'
  <1>0. \A q \in Requests : op[q].session \in Sessions
    BY DEF TypeOK, Operation
  <1>1. OneBusy'
    BY DEF OneBusy, Advances
  <1>2. ASSUME NEW q \in Requests \ {r}
        PROVE  /\ op'[q].pc \in BeforeSnapshot => ~Current(q)'.saved
               /\ op'[q].pc \in AfterApproval => Current(q)'.patch \in consent'
               /\ op'[q].pc \in InEngine => Current(q)'.saved
    BY <1>0 DEF Advances, OperationsInPhase, RecordsKeep, Current
  <1>3. op'[r].pc \notin BeforeSnapshot \cup AfterApproval \cup InEngine \/ Busy(op'[r])
    BY DEF BeforeSnapshot, AfterApproval, InEngine, Busy
  <1>4. /\ op'[r].pc \in BeforeSnapshot => ~Current(r)'.saved
        /\ op'[r].pc \in AfterApproval => Current(r)'.patch \in consent'
        /\ op'[r].pc \in InEngine => Current(r)'.saved
    BY <1>0, <1>3 DEF Advances, OperationsInPhase, RecordsKeep, Current
  <1> QED
    BY <1>1, <1>2, <1>4 DEF OperationsInPhase

\* Steps of an operation other than those that make a proposal or a snapshot.
LEMMA ContinueKeeps ==
    ASSUME TypeOK, OperationsReady, ConsentInv, NEW r \in Requests, Continue(r), ~Prepare(r),
           ~\E p \in fresh, files \in SUBSET Files : GenerateProposes(r, p, files)
    PROVE  Advances(r) /\ RecordsKeep /\ FilesKeep /\ consent' = consent /\ fresh' = fresh
  <1> DEFINE Goal == Advances(r) /\ RecordsKeep /\ FilesKeep /\ consent' = consent
                       /\ fresh' = fresh
  <1>0. /\ UNCHANGED record => RecordsKeep
        /\ UNCHANGED disk => FilesKeep
    BY DEF RecordsKeep, FilesKeep, Carried
  <1>1. CASE \/ GenerateFails(r) \/ GenerateRepairs(r) \/ GenerateTransition(r)
             \/ GenerateAwaits(r) \/ PrepareRefuses(r) \/ StartTesting(r) \/ SelectTest(r)
             \/ RunTest(r) \/ Finish(r) \/ FailApply(r)
    <2>1. UNCHANGED <<record, disk, consent, fresh>>
      BY <1>1 DEF GenerateFails, GenerateRepairs, GenerateTransition, GenerateAwaits,
         PrepareRefuses, StartTesting, SelectTest, RunTest, Finish, FailApply, rows, world,
         history
    <2> QED
      BY <1>0, <1>1, <2>1, ServiceAdvances
  <1>2. CASE \/ SaveAwaiting(r) \/ SaveRejected(r) \/ SaveApproved(r) \/ SaveApplied(r)
             \/ SaveResult(r) \/ SaveFailed(r) \/ SaveConflict(r) \/ SaveRolledBack(r)
    <2>1. UNCHANGED <<disk, consent, fresh>>
      BY <1>2 DEF SaveAwaiting, SaveRejected, SaveApproved, SaveApplied, SaveResult,
         SaveFailed, SaveConflict, SaveRolledBack, world, history
    <2>2. Advances(r)
      BY <1>2, ServiceAdvances, EngineAdvances
    <2> QED
      BY <1>0, <1>2, <2>1, <2>2, SavesKeep DEF ConsentInv
  <1>3. ASSUME NEW f \in Files,
               \/ ReplaceFile(r) \/ UndoReplace(r) \/ RestoreFile(r, f) \/ RollbackReplace(r, f)
        PROVE  Goal
    <2>1. UNCHANGED <<record, consent, fresh>>
      BY <1>3 DEF ReplaceFile, UndoReplace, RestoreFile, RollbackReplace, rows, history
    <2> QED
      BY <1>0, <1>3, <2>1, EngineAdvances, EngineKeepsFiles DEF ConsentInv
  <1>4. CASE ReplaceFile(r) \/ UndoReplace(r)
    <2>1. op[r].file \in Files
      BY <1>4 DEF ReplaceFile, UndoReplace, OperationsReady, HoldsFile
    <2> QED
      BY <1>3, <1>4, <2>1
  <1>5. ASSUME NEW f \in Files, CheckFile(r, f) \/ RollbackCheck(r, f) \/ UndoCheck(r, f)
        PROVE  Goal
    <2>1. UNCHANGED <<record, disk, consent, fresh>>
      BY <1>5 DEF CheckFile, RollbackCheck, UndoCheck, rows, world
    <2> QED
      BY <1>0, <1>5, <2>1, EngineAdvances
  <1>6. CASE \/ VerifyFile(r) \/ ApplyFault(r) \/ RestoreFault(r) \/ UndoFault(r)
             \/ RollbackFault(r) \/ FinishRollback(r)
    <2>1. UNCHANGED <<record, disk, consent, fresh>>
      BY <1>6 DEF VerifyFile, ApplyFault, RestoreFault, UndoFault, RollbackFault,
         FinishRollback, rows, world, history
    <2> QED
      BY <1>0, <1>6, <2>1, EngineAdvances
  <1> QED
    BY <1>1, <1>2, <1>3, <1>4, <1>5, <1>6 DEF Continue

\* A proposal has never been seen before; it replaces the record of its session.
LEMMA ProposesKeeps ==
    ASSUME TypeOK, ConsentInv, NEW r \in Requests, NEW p \in fresh, NEW files \in SUBSET Files,
           GenerateProposes(r, p, files)
    PROVE  ConsentInv'
  <1> DEFINE s == op[r].session
             new == [NoRecord EXCEPT !.status = "PROPOSED", !.patch = p, !.files = files,
                       !.base = [f \in Files |-> IF f \in files THEN op[r].sources[f] ELSE {}]]
  <1>0. s \in Sessions /\ p \in Patches /\ fresh \subseteq Patches
    BY DEF TypeOK, Operation
  <1>1. /\ new.patch = p /\ ~new.saved /\ new.status = "PROPOSED"
        /\ \A f \in Files : new.original[f] = {}
    BY DEF NoRecord, Blank
  <1>2. /\ LoopFree /\ op[r].pc = "provider" /\ UNCHANGED <<disk, consent>>
        /\ fresh' = fresh \ {p} /\ Goto(r, "to_generated") /\ Save(s, new)
    BY DEF GenerateProposes, history
  <1> HIDE DEF new
  <1>3. record'[s] = new /\ \A t \in Sessions \ {s} : record'[t] = record[t]
    BY <1>0, <1>2 DEF Save, TypeOK
  <1>4. \A q \in Patches : Carried(q)' => Carried(q)
    BY <1>0, <1>1, <1>2, <1>3 DEF Carried
  <1>5. OneBusy' /\ OperationsInPhase'
    <2>1. /\ op'[r].pc = "to_generated" /\ op'[r].session = s
          /\ \A q \in Requests \ {r} : op'[q] = op[q] /\ op[q].pc \in {"idle", "provider"}
      BY <1>2 DEF Goto, LoopFree, TypeOK, Operation
    <2> QED
      BY <1>1, <1>3, <2>1
      DEF OneBusy, OperationsInPhase, Busy, Current, BeforeSnapshot, AfterApproval, InEngine
  <1>6. CarriedConsented' /\ FreshUnknown'
    BY <1>0, <1>1, <1>2, <1>3, <1>4 DEF ConsentInv, CarriedConsented, FreshUnknown
  <1>7. ProposalsDiffer'
    BY <1>0, <1>1, <1>3 DEF ConsentInv, ProposalsDiffer, FreshUnknown
  <1>8. SavedConsented'
    BY <1>1, <1>2, <1>3 DEF ConsentInv, SavedConsented
  <1>9. SnapshotFirst'
    BY <1>0, <1>1, <1>3, <1>4 DEF ConsentInv, SnapshotFirst, FreshUnknown
  <1> QED
    BY <1>5, <1>6, <1>7, <1>8, <1>9 DEF ConsentInv

\* The snapshot is taken of files that do not have the patch yet.
LEMMA PrepareKeeps ==
    ASSUME TypeOK, ConsentInv, NEW r \in Requests, Prepare(r)
    PROVE  ConsentInv'
  <1> DEFINE s == op[r].session
             original == [f \in Files |-> IF f \in Current(r).files THEN disk[selected][f]
                                                                    ELSE {}]
             new == [Current(r) EXCEPT !.status = "APPLYING", !.saved = TRUE,
                       !.rollback = "AVAILABLE", !.original = original]
  <1>0. /\ s \in Sessions /\ Current(r) = record[s] /\ selected \in Workspaces
        /\ record[s] \in Record
    BY DEF TypeOK, Operation, Current, Prepare, Applicable
  <1>1. /\ new.patch = record[s].patch /\ new.saved /\ new.status = "APPLYING"
        /\ new.original = original
    BY <1>0 DEF Record
  <1>2. /\ op[r].pc = "prepare" /\ UNCHANGED <<disk, consent, fresh>> /\ Save(s, new)
    BY DEF Prepare, world
  <1>3. /\ record[s].patch \in consent /\ record[s].patch \in Patches /\ ~record[s].saved
    BY <1>0, <1>2 DEF ConsentInv, OperationsInPhase, AfterApproval, BeforeSnapshot, TypeOK
  <1> HIDE DEF new
  <1>4. record'[s] = new /\ \A t \in Sessions \ {s} : record'[t] = record[t]
    BY <1>0, <1>2 DEF Save, TypeOK
  <1>5. \A f \in Files, q \in Patches : q \in original[f] => Carried(q)
    BY <1>0 DEF Carried
  <1> HIDE DEF original
  <1>6. \A q \in Patches : Carried(q)' => Carried(q)
    BY <1>1, <1>2, <1>4, <1>5 DEF Carried
  <1>7. OneBusy' /\ OperationsInPhase'
    <2>0. Busy(op[r])
      BY <1>2 DEF Busy
    <2>1. /\ op'[r].pc = "check" /\ op'[r].session = s
          /\ \A q \in Requests \ {r} : op'[q] = op[q] /\ ~Busy(op[q])
      BY <2>0 DEF Prepare, TypeOK, Operation, ConsentInv, OneBusy
    <2> QED
      BY <1>1, <1>4, <2>1
      DEF OneBusy, OperationsInPhase, Busy, Current, BeforeSnapshot, AfterApproval, InEngine
  <1>8. CarriedConsented' /\ FreshUnknown'
    <2>1. fresh \subseteq Patches
      BY DEF TypeOK
    <2> QED
      BY <1>1, <1>2, <1>4, <1>6, <2>1 DEF ConsentInv, CarriedConsented, FreshUnknown
  <1>9. ProposalsDiffer'
    BY <1>0, <1>1, <1>4 DEF ConsentInv, ProposalsDiffer
  <1>10. SavedConsented'
    BY <1>1, <1>2, <1>3, <1>4 DEF ConsentInv, SavedConsented
  <1>11. SnapshotFirst'
    BY <1>0, <1>1, <1>3, <1>4, <1>5, <1>6 DEF ConsentInv, SnapshotFirst
  <1> QED
    BY <1>7, <1>8, <1>9, <1>10, <1>11 DEF ConsentInv

\* An operation begins while no other holds the loop.
LEMMA BeginKeepsPhases ==
    ASSUME TypeOK, NEW r \in Requests, NEW o, Begin(r, o), UNCHANGED record,
           o.pc \in BeforeSnapshot => ~record[o.session].saved,
           o.pc \in AfterApproval => record[o.session].patch \in consent',
           o.pc \in InEngine => record[o.session].saved
    PROVE  OneBusy' /\ OperationsInPhase'
  <1>1. /\ op'[r] = o
        /\ \A q \in Requests \ {r} : op'[q].pc \in {"idle", "provider"}
    BY DEF Begin, LoopFree, TypeOK
  <1> QED
    BY <1>1 DEF OneBusy, OperationsInPhase, Busy, Current, BeforeSnapshot, AfterApproval,
       InEngine

\* A decision can only be taken on a patch that no file carries.
LEMMA UndecidedNotCarried ==
    ASSUME TypeOK, ConsentInv, NEW s \in Sessions, NEW p \in Patches, AwaitsDecision(s, p)
    PROVE  record[s].patch = p /\ ~record[s].saved /\ ~Carried(p)
  BY DEF AwaitsDecision, ConsentInv, SavedConsented, SnapshotFirst

LEMMA RequestKeeps ==
    ASSUME TypeOK, ConsentInv, NEW r \in Requests, Request(r)
    PROVE  ConsentInv'
  <1> USE DEF ConsentInv
  <1>0. /\ UNCHANGED record => RecordsKeep
        /\ UNCHANGED disk => FilesKeep
    BY DEF RecordsKeep, FilesKeep, Carried
  <1>1. ASSUME NEW s \in Sessions, BeginGenerate(r, s) PROVE ConsentInv'
    <2> DEFINE o == [Started(s, "provider", session[s].revision) EXCEPT
                       !.ws = selected, !.sources = disk[selected]]
    <2>1. Begin(r, o) /\ UNCHANGED <<record, disk, consent, fresh>>
      BY <1>1 DEF BeginGenerate, rows, world, history
    <2>2. o.pc = "provider"
      BY DEF Started
    <2> HIDE DEF o
    <2>3. OneBusy' /\ OperationsInPhase'
      BY <2>1, <2>2, BeginKeepsPhases DEF BeforeSnapshot, AfterApproval, InEngine
    <2> QED
      BY <1>0, <2>1, <2>3, CarriedKept DEF CarriedParts
  <1>2. ASSUME NEW s \in Sessions, NEW p \in Patches, Rollback(r, s, p) PROVE ConsentInv'
    <2> DEFINE o == [Started(s, "rollback_check", session[s].revision) EXCEPT
                       !.ws = selected, !.todo = record[s].files]
    <2>1. Begin(r, o) /\ record[s].saved /\ UNCHANGED <<record, disk, consent, fresh>>
      BY <1>2 DEF Rollback, rows, world
    <2>2. o.pc = "rollback_check" /\ o.session = s
      BY DEF Started
    <2> HIDE DEF o
    <2>3. OneBusy' /\ OperationsInPhase'
      BY <2>1, <2>2, BeginKeepsPhases DEF BeforeSnapshot, AfterApproval, InEngine
    <2> QED
      BY <1>0, <2>1, <2>3, CarriedKept DEF CarriedParts
  <1>3. ASSUME NEW s \in Sessions, NEW p \in Patches, Reject(r, s, p) PROVE ConsentInv'
    <2> DEFINE o == Started(s, "save_rejected", session[s].revision)
    <2>1. /\ Begin(r, o) /\ consent' = consent \ {p} /\ UNCHANGED <<record, disk, fresh>>
          /\ AwaitsDecision(s, p)
      BY <1>3 DEF Reject, world
    <2>2. o.pc = "save_rejected"
      BY DEF Started
    <2> HIDE DEF o
    <2>3. OneBusy' /\ OperationsInPhase'
      BY <2>1, <2>2, BeginKeepsPhases DEF BeforeSnapshot, AfterApproval, InEngine
    <2>4. record[s].patch = p /\ ~record[s].saved /\ ~Carried(p)
      BY <2>1, UndecidedNotCarried
    <2>5. FreshUnknown' /\ ProposalsDiffer' /\ SnapshotFirst'
      BY <2>1 DEF FreshUnknown, ProposalsDiffer, SnapshotFirst, Carried
    <2>6. CarriedConsented'
      BY <2>1, <2>4 DEF CarriedConsented, Carried
    <2>7. SavedConsented'
      BY <2>1, <2>4 DEF SavedConsented, ProposalsDiffer
    <2> QED
      BY <2>3, <2>5, <2>6, <2>7
  <1>4. ASSUME NEW s \in Sessions, NEW p \in Patches, Approve(r, s, p) PROVE ConsentInv'
    <2> DEFINE o == Started(s, "save_approved", session[s].revision + 1)
    <2>1. /\ Begin(r, o) /\ consent' = consent \cup {p} /\ UNCHANGED <<record, disk, fresh>>
          /\ AwaitsDecision(s, p)
      BY <1>4 DEF Approve, world
    <2>2. o.pc = "save_approved" /\ o.session = s
      BY DEF Started
    <2> HIDE DEF o
    <2>3. record[s].patch = p /\ ~record[s].saved
      BY <2>1, UndecidedNotCarried
    <2>4. OneBusy' /\ OperationsInPhase'
      BY <2>1, <2>2, <2>3, BeginKeepsPhases DEF InEngine
    <2>5. CarriedParts'
      BY <2>1 DEF CarriedParts, CarriedConsented, FreshUnknown, ProposalsDiffer,
         SavedConsented, SnapshotFirst, Carried
    <2> QED
      BY <2>4, <2>5 DEF CarriedParts
  <1> QED
    BY <1>1, <1>2, <1>3, <1>4 DEF Request

LEMMA ConsentInit == Init => ConsentInv
  <1> SUFFICES ASSUME Init PROVE ConsentInv
    OBVIOUS
  <1>1. \A r \in Requests : op[r].pc = "idle"
    BY IdleTyped DEF Init
  <1>2. OneBusy /\ OperationsInPhase
    BY <1>1 DEF OneBusy, OperationsInPhase, Busy, BeforeSnapshot, AfterApproval, InEngine
  <1>3. \A s \in Sessions : record[s] = NoRecord
    BY DEF Init
  <1>4. /\ NoRecord.patch \notin Patches /\ ~NoRecord.saved
        /\ \A f \in Files : NoRecord.original[f] = {}
    BY ConstantsAssumption DEF NoRecord, Blank
  <1>5. \A p \in Patches : ~Carried(p)
    BY <1>3, <1>4 DEF Init, Carried, Blank
  <1> QED
    BY <1>2, <1>3, <1>4, <1>5
    DEF Init, ConsentInv, CarriedConsented, FreshUnknown, ProposalsDiffer, SavedConsented,
        SnapshotFirst

LEMMA ConsentNext == IInv /\ ConsentInv /\ [Next]_vars => ConsentInv'
  <1> SUFFICES ASSUME IInv, ConsentInv, [Next]_vars PROVE ConsentInv'
    OBVIOUS
  <1>0. TypeOK /\ OperationsReady
    BY DEF IInv
  <1>1. ASSUME NEW r \in Requests, Continue(r) PROVE ConsentInv'
    <2>1. CASE Prepare(r)
      BY <1>0, <2>1, PrepareKeeps
    <2>2. CASE \E p \in fresh, files \in SUBSET Files : GenerateProposes(r, p, files)
      BY <1>0, <2>2, ProposesKeeps
    <2>3. CASE ~Prepare(r)
                 /\ ~\E p \in fresh, files \in SUBSET Files : GenerateProposes(r, p, files)
      <3>1. Advances(r) /\ RecordsKeep /\ FilesKeep /\ consent' = consent /\ fresh' = fresh
        BY <1>0, <1>1, <2>3, ContinueKeeps
      <3> QED
        BY <1>0, <2>3, <3>1, CarriedKept, PhasesKept DEF ConsentInv, CarriedParts
    <2> QED
      BY <2>1, <2>2, <2>3
  <1>2. ASSUME NEW r \in Requests, Request(r) PROVE ConsentInv'
    BY <1>0, <1>2, RequestKeeps
  <1>3. ASSUME RecordsKeep, FilesKeep, consent' = consent, fresh' = fresh,
               op' = op \/ \A r \in Requests : op'[r].pc = "idle"
        PROVE  ConsentInv'
    <2>1. OneBusy' /\ OperationsInPhase'
      <3>1. CASE op' = op
        BY <1>0, <1>3, <3>1
        DEF ConsentInv, OneBusy, OperationsInPhase, RecordsKeep, Current, TypeOK, Operation
      <3>2. CASE \A r \in Requests : op'[r].pc = "idle"
        BY <3>2 DEF OneBusy, OperationsInPhase, Busy, BeforeSnapshot, AfterApproval, InEngine
      <3> QED
        BY <1>3, <3>1, <3>2
    <2> QED
      BY <1>0, <1>3, <2>1, CarriedKept DEF ConsentInv, CarriedParts
  <1>4. /\ UNCHANGED record => RecordsKeep
        /\ UNCHANGED disk => FilesKeep
    BY DEF RecordsKeep, FilesKeep, Carried
  <1>5. CASE Sessioned
    <2>1. UNCHANGED <<record, disk, consent, fresh, op>>
      BY <1>5 DEF Sessioned, ClientTransition, StartAnalysis, FinishAnalysis,
         GenerateWithoutSources, memory, world, history
    <2> QED
      BY <1>3, <1>4, <2>1
  <1>6. CASE Restart
    <2>1. UNCHANGED <<disk, consent, fresh>> /\ op' = [r \in Requests |-> Idle]
      BY <1>6 DEF Restart, history
    <2> QED
      BY <1>0, <1>3, <1>4, <1>6, <2>1, RestartKeeps, IdleTyped
  <1>7. ASSUME NEW w \in Workspaces, NEW f \in Files, NEW e \in Edits, DeveloperWrites(w, f, e)
        PROVE  ConsentInv'
    <2>1. UNCHANGED <<record, consent, fresh, op>>
      BY <1>7 DEF DeveloperWrites, rows, memory
    <2> QED
      BY <1>0, <1>3, <1>4, <1>7, <2>1, DeveloperKeepsFiles
  <1>8. ASSUME (\E w \in Workspaces : SelectWorkspace(w)) \/ UNCHANGED vars PROVE ConsentInv'
    <2>1. UNCHANGED <<record, disk, consent, fresh, op>>
      BY <1>8 DEF SelectWorkspace, vars, rows, memory, world, history
    <2> QED
      BY <1>3, <1>4, <2>1
  <1> QED
    BY <1>1, <1>2, <1>5, <1>6, <1>7, <1>8 DEF Next, World

\* The inductive invariant of the two theorems below.
THEOREM PatchConsentInv == Spec => []ConsentInv
  BY ConsentInit, ConsentNext, PatchIInv, PTL DEF Spec

\* Whatever the interleaving of operations, clients, editors, faults and crashes,
\* a patch is in a file only if a human's last word on that very patch was yes.
THEOREM PatchConsentedChangesOnly == Spec => []ConsentedChangesOnly
  <1>1. ConsentInv => ConsentedChangesOnly
    BY DEF ConsentInv, CarriedConsented, Carried, ConsentedChangesOnly
  <1> QED
    BY <1>1, PatchConsentInv, PTL

\* At every moment a file that carries the patch of a session has its original,
\* free of that patch, in the session's row.
THEOREM PatchSnapshotBeforeWrite == Spec => []SnapshotBeforeWrite
  <1>1. TypeOK /\ ConsentInv => SnapshotBeforeWrite
    <2> SUFFICES ASSUME TypeOK, ConsentInv, NEW s \in Sessions, NEW w \in Workspaces,
                        NEW f \in record[s].files, record[s].patch \in disk[w][f]
                 PROVE  record[s].saved /\ record[s].patch \notin record[s].original[f]
      BY DEF SnapshotBeforeWrite
    <2>1. f \in Files /\ record[s].patch \in Patches
      BY ConstantsAssumption DEF TypeOK, Record, Contents, Content
    <2> QED
      BY <2>1 DEF ConsentInv, SnapshotFirst, Carried
  <1> QED
    BY <1>1, PatchConsentInv, PatchTypeOK, PTL

-----------------------------------------------------------------------------
(* The engine: its inductive invariant, for the operation of one request.  *)

Applying    == {"check", "replace", "verify"}
RollingBack == {"rollback_check", "rollback_replace"}

\* What file f holds now where the operation works, and whether the engine has
\* seen it since the developer last touched it.
Here(r, f) == disk[op[r].ws][f]
Seen(r, f) == <<op[r].ws, f>> \notin unseen

\* While apply runs the snapshot is what the files held when it began, and what
\* the proposal was made from.
SnapshotHeld(r) ==
    /\ op[r].pc \in Applying \cup {"restore"} =>
         \A f \in Current(r).files :
           Current(r).original[f] = start[f] /\ Current(r).base[f] = start[f]
    /\ op[r].pc \in AfterApproval => op[r].ws = NoWorkspace /\ op[r].done = {}
    /\ op[r].pc \in InEngine \cup {"to_testing", "conflict", "to_rolled_back"} =>
         op[r].ws \in Workspaces

\* todo and done split the files of the patch, and the file in hand is to do.
ProgressKept(r) ==
    /\ op[r].pc \in Applying \cup {"rollback_replace"} =>
         op[r].done \subseteq Current(r).files /\ op[r].todo = Current(r).files \ op[r].done
    /\ op[r].pc \in {"replace", "verify"} => op[r].file \in op[r].todo
    /\ op[r].pc = "restore" => op[r].done \subseteq Current(r).files
    /\ op[r].pc = "rollback_check" => op[r].todo \subseteq Current(r).files /\ op[r].done = {}
    /\ op[r].pc \in {"select_test", "run_test"} => session[op[r].session].state = "TESTING"

\* The files that hold the patch, as far as apply knows.
Patched(r) ==
    CASE op[r].pc \in {"check", "replace", "restore"} -> op[r].done
      [] op[r].pc = "verify"                          -> op[r].done \cup {op[r].file}
      [] op[r].pc = "to_testing"                      -> Current(r).files
      [] OTHER                                        -> {}

\* No access fails at the two places where the code does not compensate: the
\* read that verifies a replacement, and the restoring itself.
FaultsSpared == FaultPoints \cap {"verify", "restore"} = {}

\* Apply gives up after it has begun.
GivingUp(r) ==
    \/ op[r].pc = "restore"
    \/ /\ op[r].pc = "fail_apply"
       /\ session[op[r].session].state = "PATCH_APPLYING"
       /\ op[r].ws # NoWorkspace

\* Every file the developer leaves alone holds what the engine's progress says.
FilesMatch(r) ==
    LET p == Current(r).patch
    IN  /\ op[r].pc \in Applying \cup {"to_testing"} \/ (FaultsSpared /\ GivingUp(r)) =>
             \A f \in Untouched(r) :
               Here(r, f) = IF f \in Patched(r) THEN start[f] \cup {p} ELSE start[f]
        /\ op[r].pc \in {"rollback_check", "conflict"} =>
             \A f \in Untouched(r) : Here(r, f) = start[f]
        /\ op[r].pc = "rollback_check" =>
             \A f \in Untouched(r) \ op[r].todo : start[f] = Rendered(r, f)
        /\ op[r].pc = "rollback_replace" =>
             \A f \in Untouched(r) :
               /\ start[f] = Rendered(r, f)
               /\ Here(r, f) = IF f \in op[r].done THEN Current(r).original[f] ELSE start[f]
        /\ op[r].pc = "to_rolled_back" =>
             \A f \in Untouched(r) : Here(r, f) = start[f] \ {p}

\* Every file that is about to be replaced holds what the engine saw in it,
\* unless the developer came after.
SeenMatch(r) ==
    /\ op[r].pc \in {"replace", "undo_replace"} /\ Seen(r, op[r].file) =>
         Here(r, op[r].file) = Current(r).original[op[r].file]
    /\ op[r].pc \in Applying \cup {"restore"} =>
         \A f \in op[r].done : Seen(r, f) => Here(r, f) = Rendered(r, f)
    /\ op[r].pc = "rollback_check" =>
         \A f \in Current(r).files \ op[r].todo : Seen(r, f) => Here(r, f) = Rendered(r, f)
    /\ op[r].pc = "rollback_replace" =>
         \A f \in op[r].todo : Seen(r, f) => Here(r, f) = Rendered(r, f)

EngineOf(r) == SnapshotHeld(r) /\ ProgressKept(r) /\ FilesMatch(r) /\ SeenMatch(r)

EngineInv == \A r \in Requests : EngineOf(r)

-----------------------------------------------------------------------------
(* What one step of one operation leaves alone.                            *)

\* The steps of an operation of which the invariant says nothing.
Quiet == {"idle", "provider", "to_generated", "to_awaiting", "save_awaiting",
          "save_rejected", "finish", "save_result", "save_failed", "save_rolled_back"}

LEMMA QuietEngine ==
    ASSUME NEW r, op[r].pc \in Quiet
    PROVE  EngineOf(r)
  BY DEF Quiet, EngineOf, SnapshotHeld, ProgressKept, FilesMatch, SeenMatch, GivingUp,
     Applying, AfterApproval, InEngine

LEMMA OperationFacts ==
    ASSUME TypeOK, NEW r \in Requests
    PROVE  /\ op[r] \in Operation /\ op[r].session \in Sessions
           /\ Current(r) = record[op[r].session] /\ Current(r) \in Record
           /\ Current(r).files \subseteq Files /\ Current(r).original \in Contents
  BY DEF TypeOK, Operation, Current, Record

\* Whoever takes a step of an operation has the loop, or the loop is free.
LEMMA ContinueHasLoop ==
    ASSUME NEW r \in Requests, Continue(r)
    PROVE  Busy(op[r]) \/ LoopFree
  <1>1. CASE \/ GenerateFails(r) \/ GenerateRepairs(r)
             \/ \E p \in fresh, files \in (SUBSET Files) \ {{}} : GenerateProposes(r, p, files)
    BY <1>1 DEF GenerateFails, GenerateRepairs, GenerateProposes
  <1>2. CASE \/ GenerateTransition(r) \/ GenerateAwaits(r) \/ SaveAwaiting(r) \/ SaveRejected(r)
             \/ SaveApproved(r) \/ Prepare(r) \/ PrepareRefuses(r) \/ SaveApplied(r)
             \/ StartTesting(r) \/ SelectTest(r) \/ RunTest(r) \/ Finish(r) \/ SaveResult(r)
             \/ FailApply(r) \/ SaveFailed(r)
    BY <1>2 DEF GenerateTransition, GenerateAwaits, SaveAwaiting, SaveRejected, SaveApproved,
       Prepare, PrepareRefuses, SaveApplied, StartTesting, SelectTest, RunTest, Finish,
       SaveResult, FailApply, SaveFailed, Busy
  <1>3. CASE \/ \E f \in Files : CheckFile(r, f) \/ RestoreFile(r, f)
             \/ ReplaceFile(r) \/ VerifyFile(r) \/ ApplyFault(r) \/ RestoreFault(r)
    BY <1>3 DEF CheckFile, RestoreFile, ReplaceFile, VerifyFile, ApplyFault, RestoreFault, Busy
  <1>4. CASE \/ \E f \in Files : RollbackCheck(r, f) \/ RollbackReplace(r, f) \/ UndoCheck(r, f)
             \/ UndoReplace(r) \/ UndoFault(r) \/ SaveConflict(r) \/ RollbackFault(r)
             \/ FinishRollback(r) \/ SaveRolledBack(r)
    BY <1>4 DEF RollbackCheck, RollbackReplace, UndoCheck, UndoReplace, UndoFault,
       SaveConflict, RollbackFault, FinishRollback, SaveRolledBack, Busy
  <1> QED
    BY <1>1, <1>2, <1>3, <1>4 DEF Continue

\* While one request takes a step the others wait, none of them inside an
\* operation.
LEMMA OthersWait ==
    ASSUME TypeOK, OperationsReady, ConsentInv, NEW r \in Requests, Continue(r) \/ Request(r)
    PROVE  \A q \in Requests \ {r} : op'[q] = op[q] /\ ~Busy(op[q])
  <1>1. Busy(op[r]) \/ LoopFree
    BY ContinueHasLoop DEF Request, BeginGenerate, Reject, Approve, Rollback, Begin
  <1>2. \A q \in Requests \ {r} : ~Busy(op[q])
    BY <1>1 DEF ConsentInv, OneBusy, LoopFree, Busy
  <1>3. CASE Request(r)
    BY <1>2, <1>3 DEF Request, BeginGenerate, Reject, Approve, Rollback, Begin, TypeOK
  <1>4. CASE Prepare(r)
    BY <1>2, <1>4, ServiceAdvances DEF Advances
  <1>5. CASE \E p \in fresh, files \in SUBSET Files : GenerateProposes(r, p, files)
    BY <1>2, <1>5 DEF GenerateProposes, Goto, TypeOK
  <1>6. CASE Continue(r) /\ ~Prepare(r)
               /\ ~\E p \in fresh, files \in SUBSET Files : GenerateProposes(r, p, files)
    BY <1>2, <1>6, ContinueKeeps DEF Advances
  <1> QED
    BY <1>3, <1>4, <1>5, <1>6

\* An operation goes on in its session, with its record unchanged.
LEMMA GoesOn ==
    ASSUME TypeOK, NEW r \in Requests, NEW o, op' = [op EXCEPT ![r] = o],
           o.session = op[r].session, UNCHANGED record
    PROVE  op'[r] = o /\ Current(r)' = Current(r)
  BY DEF TypeOK, Current

\* A write changes one file of one workspace.
LEMMA WriteChanges ==
    ASSUME TypeOK, NEW r \in Requests, op[r].ws \in Workspaces, NEW f \in Files, NEW content,
           Write(r, f, content), op'[r].ws = op[r].ws
    PROVE  /\ Here(r, f)' = content
           /\ \A g \in Files \ {f} : Here(r, g)' = Here(r, g)
  BY DEF TypeOK, Write, Here, Contents

-----------------------------------------------------------------------------
(* apply                                                                   *)

\* Until it is prepared an operation holds no workspace.
LEMMA ApprovedEngine ==
    ASSUME TypeOK, NEW r \in Requests, EngineOf(r), SaveApproved(r) \/ PrepareRefuses(r)
    PROVE  EngineOf(r)'
  <1>1. op[r].ws = NoWorkspace /\ op[r].done = {}
    BY DEF SaveApproved, PrepareRefuses, EngineOf, SnapshotHeld, AfterApproval
  <1>2. op'[r].pc \in {"prepare", "fail_apply"} /\ op'[r].ws = op[r].ws
          /\ op'[r].done = op[r].done
    BY DEF SaveApproved, PrepareRefuses, Goto, TypeOK, Operation
  <1> QED
    BY <1>1, <1>2 DEF EngineOf, SnapshotHeld, ProgressKept, FilesMatch, SeenMatch, GivingUp,
       Applying, InEngine

\* The snapshot is what the files hold, and what the patch was made from.
LEMMA PrepareEngine ==
    ASSUME TypeOK, NEW r \in Requests, EngineOf(r), Prepare(r)
    PROVE  EngineOf(r)'
  <1> DEFINE s == op[r].session
             original == [f \in Files |-> IF f \in Current(r).files THEN disk[selected][f]
                                                                    ELSE {}]
             new == [Current(r) EXCEPT !.status = "APPLYING", !.saved = TRUE,
                       !.rollback = "AVAILABLE", !.original = original]
             o == [op[r] EXCEPT !.pc = "check", !.ws = selected, !.todo = Current(r).files]
  <1> op[r].done = {}
    BY DEF Prepare, EngineOf, SnapshotHeld, AfterApproval
  <1>0. /\ s \in Sessions /\ Current(r) = record[s] /\ selected \in Workspaces
        /\ Current(r) \in Record /\ Current(r).files \subseteq Files /\ op[r] \in Operation
    BY OperationFacts DEF TypeOK, Prepare, Applicable
  <1>1. /\ new.patch = Current(r).patch /\ new.files = Current(r).files
        /\ new.base = Current(r).base /\ new.original = original
    BY <1>0 DEF Record
  <1>2. /\ o.pc = "check" /\ o.ws = selected /\ o.todo = Current(r).files /\ o.session = s
        /\ o.done = {}
    BY <1>0 DEF Operation
  <1>3. /\ Save(s, new) /\ op' = [op EXCEPT ![r] = o] /\ start' = disk[selected]
        /\ edited' = {} /\ disk' = disk
        /\ \A f \in Current(r).files : disk[selected][f] = Current(r).base[f]
    BY DEF Prepare, world, Applicable
  <1> HIDE DEF new, o
  <1>4. op'[r] = o /\ Current(r)' = new
    BY <1>0, <1>2, <1>3 DEF TypeOK, Save, Current
  <1>5. \A f \in Current(r).files : original[f] = disk[selected][f]
    BY <1>0
  <1> HIDE DEF original
  <1>6. SnapshotHeld(r)' /\ ProgressKept(r)'
    BY <1>0, <1>1, <1>2, <1>3, <1>4, <1>5 DEF SnapshotHeld, ProgressKept, Applying, AfterApproval
  <1>7. FilesMatch(r)' /\ SeenMatch(r)'
    BY <1>0, <1>1, <1>2, <1>3, <1>4, <1>5
    DEF FilesMatch, SeenMatch, Patched, Here, Untouched, Applying
  <1> QED
    BY <1>6, <1>7 DEF EngineOf

\* The engine gives up: what it has replaced is still to be restored.
LEMMA UnwindEngine ==
    ASSUME TypeOK, NEW r \in Requests, EngineOf(r), op[r].pc \in Applying, Unwind(r),
           UNCHANGED <<record, session, disk, start, edited>>,
           \/ unseen' = unseen
           \/ \E f \in op[r].todo : unseen' = unseen \ {<<op[r].ws, f>>},
           FaultsSpared => \A f \in Untouched(r) \ op[r].done : Here(r, f) = start[f]
    PROVE  EngineOf(r)'
  <1> DEFINE o == [op[r] EXCEPT !.pc = IF op[r].done = {} THEN "fail_apply" ELSE "restore"]
  <1>0. op[r] \in Operation /\ Current(r).files \subseteq Files
    BY OperationFacts
  <1>1. /\ o.pc = (IF op[r].done = {} THEN "fail_apply" ELSE "restore")
        /\ o.session = op[r].session /\ o.ws = op[r].ws /\ o.done = op[r].done
    BY <1>0 DEF Operation
  <1>2. op' = [op EXCEPT ![r] = o]
    BY DEF Unwind
  <1> HIDE DEF o
  <1>3. op'[r] = o /\ Current(r)' = Current(r)
    BY <1>1, <1>2, GoesOn
  <1>4. SnapshotHeld(r)' /\ ProgressKept(r)'
    BY <1>1, <1>3 DEF EngineOf, SnapshotHeld, ProgressKept, Applying, AfterApproval, InEngine
  <1>5. FilesMatch(r)'
    BY <1>1, <1>3 DEF EngineOf, FilesMatch, Patched, Here, Untouched, Applying, GivingUp
  <1>6. SeenMatch(r)'
    BY <1>1, <1>3 DEF EngineOf, ProgressKept, SeenMatch, Here, Seen, Rendered, Applying
  <1> QED
    BY <1>4, <1>5, <1>6 DEF EngineOf

LEMMA CheckFileEngine ==
    ASSUME TypeOK, NEW r \in Requests, EngineOf(r), NEW f \in Files, CheckFile(r, f)
    PROVE  EngineOf(r)'
  <1> DEFINE o == [op[r] EXCEPT !.pc = "replace", !.file = f]
  <1>0. /\ op[r] \in Operation /\ Current(r).files \subseteq Files
        /\ op[r].pc = "check" /\ f \in op[r].todo
        /\ UNCHANGED <<record, session, disk, start, edited>>
        /\ unseen' = unseen \ {<<op[r].ws, f>>}
    BY OperationFacts DEF CheckFile, rows, world
  <1>1. /\ o.pc = "replace" /\ o.file = f /\ o.session = op[r].session
        /\ o.ws = op[r].ws /\ o.todo = op[r].todo /\ o.done = op[r].done
    BY <1>0 DEF Operation
  <1>2. \/ op' = [op EXCEPT ![r] = o] /\ Here(r, f) = Current(r).base[f]
        \/ Unwind(r)
    BY DEF CheckFile, Here
  <1> HIDE DEF o
  <1>3. CASE op' = [op EXCEPT ![r] = o] /\ Here(r, f) = Current(r).base[f]
    <2>1. op'[r] = o /\ Current(r)' = Current(r)
      BY <1>0, <1>1, <1>3, GoesOn
    <2>2. SnapshotHeld(r)' /\ ProgressKept(r)'
      BY <1>0, <1>1, <2>1 DEF EngineOf, SnapshotHeld, ProgressKept, Applying, AfterApproval,
         InEngine
    <2>3. FilesMatch(r)'
      BY <1>0, <1>1, <2>1 DEF EngineOf, FilesMatch, Patched, Here, Untouched, Applying,
         GivingUp
    <2>4. SeenMatch(r)'
      BY <1>0, <1>1, <1>3, <2>1 DEF EngineOf, SnapshotHeld, ProgressKept, SeenMatch, Here, Seen,
         Rendered, Applying
    <2> QED
      BY <2>2, <2>3, <2>4 DEF EngineOf
  <1>4. CASE Unwind(r)
    <2>1. \A g \in Untouched(r) \ op[r].done : Here(r, g) = start[g]
      BY <1>0 DEF EngineOf, FilesMatch, Patched, Applying
    <2> QED
      BY <1>0, <1>4, <2>1, UnwindEngine DEF Applying
  <1> QED
    BY <1>2, <1>3, <1>4

LEMMA ReplaceFileEngine ==
    ASSUME TypeOK, OperationsReady, NEW r \in Requests, EngineOf(r), ReplaceFile(r)
    PROVE  EngineOf(r)'
  <1> DEFINE f == op[r].file
             o == [op[r] EXCEPT !.pc = "verify"]
  <1>0. /\ op[r] \in Operation /\ Current(r).files \subseteq Files
        /\ op[r].pc = "replace" /\ f \in Files /\ f \in op[r].todo /\ op[r].ws \in Workspaces
        /\ UNCHANGED <<record, session, start, edited, unseen>>
    BY OperationFacts DEF ReplaceFile, rows, history, OperationsReady, HoldsFile, EngineOf,
       SnapshotHeld, ProgressKept, InEngine
  <1>1. /\ o.pc = "verify" /\ o.file = f /\ o.session = op[r].session
        /\ o.ws = op[r].ws /\ o.todo = op[r].todo /\ o.done = op[r].done
    BY <1>0 DEF Operation
  <1>2. op' = [op EXCEPT ![r] = o] /\ Write(r, f, Rendered(r, f))
    BY DEF ReplaceFile, Goto
  <1> HIDE DEF o
  <1>3. op'[r] = o /\ Current(r)' = Current(r)
    BY <1>0, <1>1, <1>2, GoesOn
  <1>4. Here(r, f)' = Rendered(r, f) /\ \A g \in Files \ {f} : Here(r, g)' = Here(r, g)
    BY <1>0, <1>1, <1>2, <1>3, WriteChanges
  <1>5. SnapshotHeld(r)' /\ ProgressKept(r)'
    BY <1>0, <1>1, <1>3 DEF EngineOf, SnapshotHeld, ProgressKept, Applying, AfterApproval,
       InEngine
  <1>6. Rendered(r, f) = start[f] \cup {Current(r).patch}
    BY <1>0 DEF EngineOf, SnapshotHeld, ProgressKept, Rendered, Applying
  <1>7. op[r].done \subseteq Files /\ f \notin op[r].done
    BY <1>0 DEF EngineOf, ProgressKept, Applying
  <1>8. FilesMatch(r)'
    <2>1. \A g \in Untouched(r) :
            Here(r, g) = IF g \in op[r].done THEN start[g] \cup {Current(r).patch}
                                             ELSE start[g]
      BY <1>0 DEF EngineOf, FilesMatch, Patched, Applying
    <2>2. Untouched(r)' = Untouched(r) /\ Untouched(r) \subseteq Files
      BY <1>0, <1>1, <1>3 DEF Untouched
    <2>3. Patched(r)' = op[r].done \cup {f}
      BY <1>1, <1>3 DEF Patched
    <2> QED
      BY <1>0, <1>1, <1>3, <1>4, <1>6, <2>1, <2>2, <2>3 DEF FilesMatch
  <1>9. SeenMatch(r)'
    BY <1>0, <1>1, <1>3, <1>4, <1>7 DEF EngineOf, SeenMatch, Seen, Rendered, Applying
  <1> QED
    BY <1>5, <1>8, <1>9 DEF EngineOf

LEMMA VerifyFileEngine ==
    ASSUME TypeOK, OperationsReady, NEW r \in Requests, EngineOf(r), VerifyFile(r)
    PROVE  EngineOf(r)'
  <1> DEFINE f == op[r].file
             o == [op[r] EXCEPT !.pc = "check", !.done = @ \cup {f}, !.todo = @ \ {f},
                                !.file = NoFile]
  <1>0. /\ op[r] \in Operation /\ Current(r).files \subseteq Files
        /\ op[r].pc = "verify" /\ f \in Files /\ f \in op[r].todo
        /\ UNCHANGED <<record, session, disk, start, edited>>
        /\ unseen' = unseen \ {<<op[r].ws, f>>}
    BY OperationFacts DEF VerifyFile, Target, rows, world, OperationsReady, HoldsFile, EngineOf,
       ProgressKept
  <1>1. /\ o.pc = "check" /\ o.session = op[r].session /\ o.ws = op[r].ws
        /\ o.todo = op[r].todo \ {f} /\ o.done = op[r].done \cup {f}
    BY <1>0 DEF Operation
  <1>2. \/ op' = [op EXCEPT ![r] = o] /\ Here(r, f) = Rendered(r, f)
        \/ Unwind(r) /\ Here(r, f) # Rendered(r, f)
    BY DEF VerifyFile, Here
  <1> HIDE DEF o
  <1>3. \A g \in Untouched(r) :
          Here(r, g) = IF g \in op[r].done \cup {f} THEN start[g] \cup {Current(r).patch}
                                                    ELSE start[g]
    BY <1>0 DEF EngineOf, FilesMatch, Patched, Applying
  <1>4. CASE op' = [op EXCEPT ![r] = o] /\ Here(r, f) = Rendered(r, f)
    <2>1. op'[r] = o /\ Current(r)' = Current(r)
      BY <1>0, <1>1, <1>4, GoesOn
    <2>2. SnapshotHeld(r)' /\ ProgressKept(r)'
      BY <1>0, <1>1, <2>1 DEF EngineOf, SnapshotHeld, ProgressKept, Applying, AfterApproval,
         InEngine
    <2>3. FilesMatch(r)'
      BY <1>0, <1>1, <1>3, <2>1 DEF FilesMatch, Patched, Here, Untouched, Applying
    <2>4. SeenMatch(r)'
      BY <1>0, <1>1, <1>4, <2>1 DEF EngineOf, SeenMatch, Here, Seen, Rendered, Applying
    <2> QED
      BY <2>2, <2>3, <2>4 DEF EngineOf
  <1>5. CASE Unwind(r) /\ Here(r, f) # Rendered(r, f)
    <2>1. Rendered(r, f) = start[f] \cup {Current(r).patch}
      BY <1>0 DEF EngineOf, SnapshotHeld, ProgressKept, Rendered, Applying
    <2>2. f \notin Untouched(r)
      BY <1>3, <1>5, <2>1
    <2> QED
      BY <1>0, <1>3, <1>5, <2>2, UnwindEngine DEF Applying
  <1> QED
    BY <1>2, <1>4, <1>5

LEMMA ApplyFaultEngine ==
    ASSUME TypeOK, NEW r \in Requests, EngineOf(r), ApplyFault(r)
    PROVE  EngineOf(r)'
  <1>1. /\ op[r].pc \in Applying /\ Unwind(r) /\ op[r].pc \in FaultPoints
        /\ UNCHANGED <<record, session, disk, start, edited, unseen>>
    BY DEF ApplyFault, Applying, Fault, rows, history
  <1>2. FaultsSpared => \A f \in Untouched(r) \ op[r].done : Here(r, f) = start[f]
    BY <1>1 DEF FaultsSpared, EngineOf, FilesMatch, Patched, Applying
  <1> QED
    BY <1>1, <1>2, UnwindEngine

LEMMA RestoreFileEngine ==
    ASSUME TypeOK, NEW r \in Requests, EngineOf(r), NEW f \in Files, RestoreFile(r, f)
    PROVE  EngineOf(r)'
  <1> DEFINE pc == IF op[r].done = {f} THEN "fail_apply" ELSE "restore"
             o  == [op[r] EXCEPT !.done = @ \ {f}, !.pc = pc]
  <1>0. /\ op[r] \in Operation /\ Current(r).files \subseteq Files
        /\ op[r].pc = "restore" /\ f \in op[r].done /\ op[r].ws \in Workspaces
        /\ op[r].done \subseteq Current(r).files
        /\ UNCHANGED <<record, session, start, edited, unseen>>
    BY OperationFacts DEF RestoreFile, rows, history, EngineOf, SnapshotHeld, ProgressKept,
       InEngine
  <1>1. /\ o.pc = pc /\ o.session = op[r].session /\ o.ws = op[r].ws
        /\ o.done = op[r].done \ {f}
    BY <1>0 DEF Operation
  <1>2. op' = [op EXCEPT ![r] = o] /\ Write(r, f, Current(r).original[f])
    BY DEF RestoreFile
  <1> HIDE DEF o
  <1>3. op'[r] = o /\ Current(r)' = Current(r)
    BY <1>0, <1>1, <1>2, GoesOn
  <1>4. /\ Here(r, f)' = Current(r).original[f]
        /\ \A g \in Files \ {f} : Here(r, g)' = Here(r, g)
    BY <1>0, <1>1, <1>2, <1>3, WriteChanges
  <1>5. SnapshotHeld(r)' /\ ProgressKept(r)'
    BY <1>0, <1>1, <1>3 DEF EngineOf, SnapshotHeld, ProgressKept, Applying, AfterApproval,
       InEngine
  <1>6. FilesMatch(r)'
    <2>1. SUFFICES ASSUME FaultsSpared
          PROVE  \A g \in Untouched(r)' :
                   Here(r, g)' = IF g \in Patched(r)' THEN start[g] \cup {Current(r).patch}
                                                      ELSE start[g]
      BY <1>0, <1>1, <1>3 DEF FilesMatch, Applying
    <2>2. \A g \in Untouched(r) :
            Here(r, g) = IF g \in op[r].done THEN start[g] \cup {Current(r).patch}
                                             ELSE start[g]
      BY <1>0, <2>1 DEF EngineOf, FilesMatch, Patched, GivingUp
    <2>3. Untouched(r)' = Untouched(r) /\ Untouched(r) \subseteq Files
      BY <1>0, <1>1, <1>3 DEF Untouched
    <2>4. Patched(r)' = op[r].done \ {f}
      BY <1>0, <1>1, <1>3 DEF Patched
    <2>5. Current(r).original[f] = start[f]
      BY <1>0 DEF EngineOf, SnapshotHeld
    <2> QED
      BY <1>4, <2>2, <2>3, <2>4, <2>5
  <1>7. SeenMatch(r)'
    BY <1>0, <1>1, <1>3, <1>4 DEF EngineOf, SeenMatch, Seen, Rendered, Applying
  <1> QED
    BY <1>5, <1>6, <1>7 DEF EngineOf

LEMMA RestoreFaultEngine ==
    ASSUME TypeOK, NEW r \in Requests, RestoreFault(r)
    PROVE  EngineOf(r)'
  <1>1. op'[r].pc = "fail_apply" /\ ~FaultsSpared
    BY DEF RestoreFault, Goto, Fault, FaultsSpared, TypeOK, Operation
  <1> QED
    BY <1>1 DEF EngineOf, SnapshotHeld, ProgressKept, FilesMatch, SeenMatch, FaultsSpared,
       Applying, AfterApproval, InEngine

\* Nothing is left to do: every file has been replaced and verified.
LEMMA SaveAppliedEngine ==
    ASSUME TypeOK, NEW r \in Requests, EngineOf(r), SaveApplied(r)
    PROVE  EngineOf(r)'
  <1> DEFINE new == [Current(r) EXCEPT !.status = "APPLIED"]
             o   == [op[r] EXCEPT !.pc = "to_testing"]
  <1>0. /\ op[r] \in Operation /\ Current(r) = record[op[r].session]
        /\ Current(r) \in Record /\ op[r].session \in Sessions
        /\ op[r].pc = "check" /\ op[r].todo = {} /\ op[r].ws \in Workspaces
        /\ UNCHANGED <<disk, start, edited>>
    BY OperationFacts DEF SaveApplied, world, history, EngineOf, SnapshotHeld, InEngine
  <1>1. new.patch = Current(r).patch /\ new.files = Current(r).files
    BY <1>0 DEF Record
  <1>2. o.pc = "to_testing" /\ o.session = op[r].session /\ o.ws = op[r].ws
    BY <1>0 DEF Operation
  <1>3. Save(op[r].session, new) /\ op' = [op EXCEPT ![r] = o]
    BY DEF SaveApplied, Goto
  <1> HIDE DEF new, o
  <1>4. op'[r] = o /\ Current(r)' = new
    BY <1>0, <1>2, <1>3 DEF TypeOK, Save, Current
  <1>5. \A f \in Untouched(r) : Here(r, f) = start[f] \cup {Current(r).patch}
    <2>1. op[r].done = Current(r).files
      BY <1>0 DEF EngineOf, ProgressKept, Applying
    <2> QED
      BY <1>0, <2>1 DEF EngineOf, FilesMatch, Patched, Untouched, Applying
  <1>6. FilesMatch(r)'
    BY <1>0, <1>1, <1>2, <1>4, <1>5 DEF FilesMatch, Patched, Untouched, Here, Applying
  <1> QED
    BY <1>0, <1>2, <1>4, <1>6 DEF EngineOf, SnapshotHeld, ProgressKept, SeenMatch, Applying,
       AfterApproval, InEngine

\* The tests run in a session that is TESTING, and stay there until they end.
LEMMA TestsEngine ==
    ASSUME TypeOK, NEW r \in Requests, EngineOf(r),
           StartTesting(r) \/ SelectTest(r) \/ RunTest(r)
    PROVE  EngineOf(r)'
  <1>0. op[r] \in Operation /\ op[r].session \in Sessions
    BY OperationFacts
  <1>1. /\ op'[r].session = op[r].session
        /\ op'[r].pc \in {"select_test", "run_test", "finish", "fail_apply"}
    <2>1. ASSUME NEW pc, Goto(r, pc) PROVE op'[r].session = op[r].session /\ op'[r].pc = pc
      BY <1>0, <2>1 DEF Goto, TypeOK, Operation
    <2>2. CASE StartTesting(r) \/ SelectTest(r)
      BY <1>0, <2>1, <2>2 DEF StartTesting, SelectTest, TypeOK, Operation
    <2>3. ASSUME NEW passed \in BOOLEAN,
                 op' = [op EXCEPT ![r].pc = "finish", ![r].passed = passed,
                                  ![r].command = selected]
          PROVE  op'[r].session = op[r].session /\ op'[r].pc = "finish"
      BY <1>0, <2>3 DEF TypeOK, Operation
    <2>4. CASE RunTest(r)
      BY <2>1, <2>3, <2>4 DEF RunTest
    <2> QED
      BY <2>2, <2>4
  <1>2. session'[op[r].session].state = "TESTING"
    <2>1. CASE StartTesting(r)
      BY <1>0, <2>1 DEF StartTesting, Move, Moved, TypeOK
    <2>2. CASE SelectTest(r) \/ RunTest(r)
      BY <2>2 DEF SelectTest, RunTest, rows, EngineOf, ProgressKept
    <2> QED
      BY <2>1, <2>2
  <1> QED
    BY <1>1, <1>2 DEF EngineOf, SnapshotHeld, ProgressKept, FilesMatch, SeenMatch, GivingUp,
       Applying, AfterApproval, InEngine

-----------------------------------------------------------------------------
(* rollback                                                                *)

LEMMA RollbackEngine ==
    ASSUME TypeOK, NEW r \in Requests, NEW s \in Sessions, NEW p, Rollback(r, s, p)
    PROVE  EngineOf(r)'
  <1> DEFINE o == [Started(s, "rollback_check", session[s].revision) EXCEPT
                     !.ws = selected, !.todo = record[s].files]
  <1>1. /\ o.pc = "rollback_check" /\ o.session = s /\ o.ws = selected
        /\ o.todo = record[s].files /\ o.done = {}
    BY DEF Started
  <1>2. /\ op' = [op EXCEPT ![r] = o] /\ selected \in Workspaces
        /\ UNCHANGED <<record, disk>> /\ start' = disk[selected]
    BY DEF Rollback, Begin, rows, world, TypeOK
  <1> HIDE DEF o
  <1>3. op'[r] = o /\ Current(r)' = record[s]
    BY <1>1, <1>2 DEF TypeOK, Current
  <1> QED
    BY <1>1, <1>2, <1>3 DEF EngineOf, SnapshotHeld, ProgressKept, FilesMatch, SeenMatch,
       GivingUp, Here, Untouched, Applying, AfterApproval, InEngine

LEMMA RollbackCheckEngine ==
    ASSUME TypeOK, NEW r \in Requests, EngineOf(r), NEW f \in Files, RollbackCheck(r, f)
    PROVE  EngineOf(r)'
  <1> DEFINE conflict == [op[r] EXCEPT !.pc = "conflict"]
             checked  == [op[r] EXCEPT !.pc = "rollback_replace", !.todo = Current(r).files]
             checking == [op[r] EXCEPT !.todo = @ \ {f}]
  <1>0. /\ op[r] \in Operation /\ op[r].pc = "rollback_check" /\ f \in op[r].todo
        /\ UNCHANGED <<record, session, disk, start, edited>>
        /\ unseen' = unseen \ {<<op[r].ws, f>>}
    BY OperationFacts DEF RollbackCheck, rows, world
  <1>1. /\ conflict.pc = "conflict" /\ conflict.session = op[r].session
        /\ conflict.ws = op[r].ws
        /\ checked.pc = "rollback_replace" /\ checked.session = op[r].session
        /\ checked.ws = op[r].ws /\ checked.done = op[r].done
        /\ checked.todo = Current(r).files
        /\ checking.pc = "rollback_check" /\ checking.session = op[r].session
        /\ checking.ws = op[r].ws /\ checking.done = op[r].done
        /\ checking.todo = op[r].todo \ {f}
    BY <1>0 DEF Operation
  <1>2. \/ op' = [op EXCEPT ![r] = conflict]
        \/ /\ op' = [op EXCEPT ![r] = checked] /\ op[r].todo = {f}
           /\ Here(r, f) = Rendered(r, f)
        \/ op' = [op EXCEPT ![r] = checking] /\ Here(r, f) = Rendered(r, f)
    BY DEF RollbackCheck, Here
  <1> HIDE DEF conflict, checked, checking
  <1>3. /\ op[r].todo \subseteq Current(r).files /\ op[r].done = {}
        /\ op[r].ws \in Workspaces
        /\ \A g \in Untouched(r) : Here(r, g) = start[g]
        /\ \A g \in Untouched(r) \ op[r].todo : start[g] = Rendered(r, g)
        /\ \A g \in Current(r).files \ op[r].todo : Seen(r, g) => Here(r, g) = Rendered(r, g)
    BY <1>0 DEF EngineOf, SnapshotHeld, ProgressKept, FilesMatch, SeenMatch, InEngine
  <1>4. CASE op' = [op EXCEPT ![r] = conflict]
    <2>1. op'[r] = conflict /\ Current(r)' = Current(r)
      BY <1>0, <1>1, <1>4, GoesOn
    <2> QED
      BY <1>0, <1>1, <1>3, <2>1 DEF EngineOf, SnapshotHeld, ProgressKept, FilesMatch,
         SeenMatch, GivingUp, Here, Untouched, Applying, AfterApproval, InEngine
  <1>5. CASE /\ op' = [op EXCEPT ![r] = checked] /\ op[r].todo = {f}
             /\ Here(r, f) = Rendered(r, f)
    <2>1. op'[r] = checked /\ Current(r)' = Current(r)
      BY <1>0, <1>1, <1>5, GoesOn
    <2>2. \A g \in Current(r).files :
            /\ g \in Untouched(r) => start[g] = Rendered(r, g) /\ Here(r, g) = start[g]
            /\ g = f \/ Seen(r, g) => Here(r, g) = Rendered(r, g)
      BY <1>3, <1>5
    <2> QED
      BY <1>0, <1>1, <1>3, <2>1, <2>2 DEF EngineOf, SnapshotHeld, ProgressKept, FilesMatch,
         SeenMatch, GivingUp, Here, Seen, Untouched, Rendered, Applying, AfterApproval,
         InEngine
  <1>6. CASE op' = [op EXCEPT ![r] = checking] /\ Here(r, f) = Rendered(r, f)
    <2>1. op'[r] = checking /\ Current(r)' = Current(r)
      BY <1>0, <1>1, <1>6, GoesOn
    <2> QED
      BY <1>0, <1>1, <1>3, <1>6, <2>1 DEF EngineOf, SnapshotHeld, ProgressKept, FilesMatch,
         SeenMatch, GivingUp, Here, Seen, Untouched, Rendered, Applying, AfterApproval,
         InEngine
  <1> QED
    BY <1>2, <1>4, <1>5, <1>6

LEMMA RollbackReplaceEngine ==
    ASSUME TypeOK, OperationsReady, ConsentInv, NEW r \in Requests, EngineOf(r),
           NEW f \in Files, RollbackReplace(r, f)
    PROVE  EngineOf(r)'
  <1> DEFINE pc == IF op[r].todo = {f} THEN "to_rolled_back" ELSE "rollback_replace"
             o  == [op[r] EXCEPT !.todo = @ \ {f}, !.done = @ \cup {f}, !.pc = pc]
  <1>0. /\ op[r] \in Operation /\ Current(r).files \subseteq Files
        /\ op[r].pc = "rollback_replace" /\ f \in op[r].todo /\ op[r].ws \in Workspaces
        /\ UNCHANGED <<record, session, start, edited, unseen>>
    BY OperationFacts DEF RollbackReplace, rows, history, EngineOf, SnapshotHeld, InEngine
  <1>1. /\ o.pc = pc /\ o.session = op[r].session /\ o.ws = op[r].ws
        /\ o.done = op[r].done \cup {f} /\ o.todo = op[r].todo \ {f}
    BY <1>0 DEF Operation
  <1>2. op' = [op EXCEPT ![r] = o] /\ Write(r, f, Current(r).original[f])
    BY <1>0 DEF RollbackReplace
  <1> HIDE DEF o
  <1>3. op'[r] = o /\ Current(r)' = Current(r)
    BY <1>0, <1>1, <1>2, GoesOn
  <1>4. /\ Here(r, f)' = Current(r).original[f]
        /\ \A g \in Files \ {f} : Here(r, g)' = Here(r, g)
    BY <1>0, <1>1, <1>2, <1>3, WriteChanges
  <1>5. /\ op[r].done \subseteq Current(r).files /\ op[r].todo = Current(r).files \ op[r].done
        /\ \A g \in Untouched(r) :
             /\ start[g] = Rendered(r, g)
             /\ Here(r, g) = IF g \in op[r].done THEN Current(r).original[g] ELSE start[g]
        /\ \A g \in op[r].todo : Seen(r, g) => Here(r, g) = Rendered(r, g)
    BY <1>0 DEF EngineOf, ProgressKept, FilesMatch, SeenMatch
  <1>6. Untouched(r)' = Untouched(r) /\ Untouched(r) \subseteq Files
    BY <1>0, <1>1, <1>3 DEF Untouched
  <1>7. \A g \in Untouched(r) :
          Here(r, g)' = IF g \in op'[r].done THEN Current(r).original[g] ELSE start[g]
    BY <1>1, <1>3, <1>4, <1>5, <1>6
  <1>8. CASE pc = "rollback_replace"
    BY <1>0, <1>1, <1>3, <1>4, <1>5, <1>6, <1>7, <1>8
    DEF EngineOf, SnapshotHeld, ProgressKept, FilesMatch, SeenMatch, GivingUp, Seen, Rendered,
        Applying, AfterApproval, InEngine
  <1>9. CASE pc = "to_rolled_back"
    <2>1. Current(r).files \subseteq op'[r].done
      BY <1>1, <1>3, <1>5, <1>9
    <2>2. \A g \in Files : Current(r).patch \notin Current(r).original[g]
      BY <1>0, OperationFacts DEF ConsentInv, SnapshotFirst, OperationsReady
    <2>3. \A g \in Untouched(r) : Here(r, g)' = start[g] \ {Current(r).patch}
      BY <1>5, <1>6, <1>7, <2>1, <2>2 DEF Rendered, Untouched
    <2> QED
      BY <1>0, <1>1, <1>3, <1>6, <1>9, <2>3
      DEF EngineOf, SnapshotHeld, ProgressKept, FilesMatch, SeenMatch, GivingUp, Applying,
          AfterApproval, InEngine
  <1> QED
    BY <1>8, <1>9

\* The compensation of a rollback puts the patch back where the original still is.
LEMMA UndoEngine ==
    ASSUME TypeOK, NEW r \in Requests, EngineOf(r),
           (\E f \in Files : UndoCheck(r, f)) \/ UndoReplace(r) \/ RollbackFault(r)
    PROVE  EngineOf(r)'
  <1>0. op[r] \in Operation
    BY OperationFacts
  <1>1. ASSUME NEW pc, op'[r].pc = pc, pc \in {"idle", "undo"},
               pc = "undo" => op'[r].ws \in Workspaces
        PROVE  EngineOf(r)'
    BY <1>1 DEF EngineOf, SnapshotHeld, ProgressKept, FilesMatch, SeenMatch, GivingUp, Applying,
       AfterApproval, InEngine
  <1>2. ASSUME End(r) PROVE EngineOf(r)'
    BY <1>1, <1>2, IdleTyped DEF End, TypeOK
  <1>3. ASSUME NEW f, Undone(r, f), op[r].pc \in InEngine PROVE EngineOf(r)'
    <2>1. op[r].ws \in Workspaces
      BY <1>3 DEF EngineOf, SnapshotHeld
    <2>2. CASE op' = [op EXCEPT ![r].pc = "undo", ![r].done = @ \ {f}, ![r].file = NoFile]
      BY <1>0, <1>1, <2>1, <2>2 DEF TypeOK, Operation
    <2> QED
      BY <1>2, <1>3, <2>2 DEF Undone
  <1>4. CASE UndoReplace(r)
    BY <1>3, <1>4 DEF UndoReplace, InEngine
  <1>5. CASE RollbackFault(r)
    <2>1. op[r].ws \in Workspaces
      BY <1>5 DEF RollbackFault, EngineOf, SnapshotHeld, InEngine
    <2>2. CASE Goto(r, "undo")
      BY <1>0, <1>1, <2>1, <2>2 DEF Goto, TypeOK, Operation
    <2> QED
      BY <1>2, <1>5, <2>2 DEF RollbackFault
  <1>6. ASSUME NEW f \in Files, UndoCheck(r, f) PROVE EngineOf(r)'
    <2> DEFINE o == [op[r] EXCEPT !.pc = "undo_replace", !.file = f]
    <2>0. /\ op[r].pc = "undo" /\ op[r].ws \in Workspaces
          /\ UNCHANGED <<record, disk>>
      BY <1>6 DEF UndoCheck, rows, world, EngineOf, SnapshotHeld, InEngine
    <2>1. /\ o.pc = "undo_replace" /\ o.file = f /\ o.session = op[r].session
          /\ o.ws = op[r].ws
      BY <1>0 DEF Operation
    <2>2. \/ op' = [op EXCEPT ![r] = o] /\ Here(r, f) = Current(r).original[f]
          \/ Undone(r, f)
      BY <1>6 DEF UndoCheck, Here
    <2> HIDE DEF o
    <2>3. CASE op' = [op EXCEPT ![r] = o] /\ Here(r, f) = Current(r).original[f]
      <3>1. op'[r] = o /\ Current(r)' = Current(r)
        BY <2>0, <2>1, <2>3, GoesOn
      <3> QED
        BY <2>0, <2>1, <2>3, <3>1 DEF EngineOf, SnapshotHeld, ProgressKept, FilesMatch, SeenMatch,
           GivingUp, Here, Applying, AfterApproval, InEngine
    <2>4. CASE Undone(r, f)
      BY <1>3, <2>0, <2>4 DEF InEngine
    <2> QED
      BY <2>2, <2>3, <2>4
  <1> QED
    BY <1>4, <1>5, <1>6

-----------------------------------------------------------------------------
(* Every step preserves the invariant.                                     *)

\* The steps that begin or end an operation, or stay outside the engine.
LEMMA QuietSteps ==
    ASSUME TypeOK, NEW r \in Requests,
           \/ GenerateFails(r) \/ GenerateRepairs(r)
           \/ \E p \in fresh, files \in SUBSET Files : GenerateProposes(r, p, files)
           \/ GenerateTransition(r) \/ GenerateAwaits(r) \/ SaveAwaiting(r) \/ SaveRejected(r)
           \/ Finish(r) \/ SaveResult(r) \/ FailApply(r) \/ SaveFailed(r)
           \/ SaveConflict(r) \/ UndoFault(r) \/ FinishRollback(r) \/ SaveRolledBack(r)
           \/ \E s \in Sessions :
                BeginGenerate(r, s) \/ \E p \in Patches : Reject(r, s, p)
    PROVE  EngineOf(r)'
  <1>0. op[r] \in Operation
    BY OperationFacts
  <1>1. ASSUME op'[r].pc \in Quiet PROVE EngineOf(r)'
    BY <1>1 DEF Quiet, EngineOf, SnapshotHeld, ProgressKept, FilesMatch, SeenMatch, GivingUp,
       Applying, AfterApproval, InEngine
  <1>2. ASSUME End(r) PROVE EngineOf(r)'
    BY <1>1, <1>2, IdleTyped DEF End, TypeOK, Quiet
  <1>3. ASSUME NEW pc \in Quiet, Goto(r, pc) PROVE EngineOf(r)'
    BY <1>0, <1>1, <1>3 DEF Goto, TypeOK, Operation
  <1>4. CASE \/ GenerateFails(r) \/ GenerateTransition(r) \/ GenerateAwaits(r) \/ SaveAwaiting(r)
             \/ SaveRejected(r) \/ Finish(r) \/ SaveResult(r) \/ FailApply(r) \/ SaveFailed(r)
             \/ SaveConflict(r) \/ UndoFault(r) \/ FinishRollback(r) \/ SaveRolledBack(r)
    BY <1>2, <1>3, <1>4 DEF GenerateFails, GenerateTransition, GenerateAwaits, SaveAwaiting,
       SaveRejected, Finish, SaveResult, FailApply, SaveFailed, SaveConflict, UndoFault,
       FinishRollback, SaveRolledBack, Quiet
  <1>5. CASE GenerateRepairs(r)
    BY <1>0, <1>1, <1>5 DEF GenerateRepairs, TypeOK, Operation, Quiet
  <1>6. CASE \E p \in fresh, files \in SUBSET Files : GenerateProposes(r, p, files)
    BY <1>3, <1>6 DEF GenerateProposes, Quiet
  <1>7. ASSUME NEW s \in Sessions, BeginGenerate(r, s) PROVE EngineOf(r)'
    <2>1. op'[r].pc = "provider"
      BY <1>7 DEF BeginGenerate, Begin, Started, TypeOK
    <2> QED
      BY <1>1, <2>1 DEF Quiet
  <1>8. ASSUME NEW s \in Sessions, NEW p \in Patches, Reject(r, s, p) PROVE EngineOf(r)'
    <2>1. op'[r].pc = "save_rejected"
      BY <1>8 DEF Reject, Begin, Started, TypeOK
    <2> QED
      BY <1>1, <2>1 DEF Quiet
  <1> QED
    BY <1>4, <1>5, <1>6, <1>7, <1>8

\* An approved operation has read nothing yet.
LEMMA ApproveEngine ==
    ASSUME TypeOK, NEW r \in Requests, NEW s \in Sessions, NEW p \in Patches, Approve(r, s, p)
    PROVE  EngineOf(r)'
  <1>1. op'[r] = Started(s, "save_approved", session[s].revision + 1)
    BY DEF Approve, Begin, TypeOK
  <1>2. op'[r].pc = "save_approved" /\ op'[r].ws = NoWorkspace /\ op'[r].done = {}
    BY <1>1 DEF Started
  <1> QED
    BY <1>2 DEF EngineOf, SnapshotHeld, ProgressKept, FilesMatch, SeenMatch, GivingUp, Applying,
       AfterApproval, InEngine

LEMMA OwnEngine ==
    ASSUME TypeOK, OperationsReady, ConsentInv, NEW r \in Requests, EngineOf(r),
           Continue(r) \/ Request(r)
    PROVE  EngineOf(r)'
  <1>1. CASE Request(r)
    BY <1>1, QuietSteps, ApproveEngine, RollbackEngine DEF Request
  <1>2. CASE Continue(r)
    <2>1. CASE \E f \in Files :
                 \/ CheckFile(r, f) \/ RestoreFile(r, f)
                 \/ RollbackCheck(r, f) \/ RollbackReplace(r, f)
      BY <2>1, CheckFileEngine, RestoreFileEngine, RollbackCheckEngine, RollbackReplaceEngine
    <2>2. CASE \/ SaveApproved(r) \/ Prepare(r) \/ PrepareRefuses(r) \/ ReplaceFile(r)
               \/ VerifyFile(r) \/ ApplyFault(r) \/ RestoreFault(r) \/ SaveApplied(r)
      BY <2>2, ApprovedEngine, PrepareEngine, ReplaceFileEngine, VerifyFileEngine,
         ApplyFaultEngine, RestoreFaultEngine, SaveAppliedEngine
    <2>3. CASE \/ StartTesting(r) \/ SelectTest(r) \/ RunTest(r)
               \/ (\E f \in Files : UndoCheck(r, f)) \/ UndoReplace(r) \/ RollbackFault(r)
      BY <2>3, TestsEngine, UndoEngine
    <2> QED
      BY <1>2, <2>1, <2>2, <2>3, QuietSteps DEF Continue
  <1> QED
    BY <1>1, <1>2

\* What the developer writes concerns only the file written, which from then on
\* is neither untouched nor seen.
LEMMA DeveloperEngine ==
    ASSUME TypeOK, OperationsReady, NEW w \in Workspaces, NEW f \in Files, NEW e \in Edits,
           DeveloperWrites(w, f, e), NEW r \in Requests, EngineOf(r)
    PROVE  EngineOf(r)'
  <1>0. /\ op[r] \in Operation /\ Current(r).files \subseteq Files
        /\ HoldsFile(op[r]) /\ UNCHANGED <<record, session, op, start>>
        /\ edited' = edited \cup {<<w, f>>} /\ unseen' = unseen \cup {<<w, f>>}
    BY OperationFacts DEF OperationsReady, DeveloperWrites, rows, memory
  <1>1. /\ op'[r] = op[r] /\ Current(r)' = Current(r)
        /\ \A g : Rendered(r, g)' = Rendered(r, g)
    BY <1>0 DEF Current, Rendered
  <1>2. ASSUME NEW v \in Workspaces, NEW g \in Files, <<v, g>> # <<w, f>>
        PROVE  disk'[v][g] = disk[v][g]
    BY <1>2 DEF DeveloperWrites, TypeOK, Contents
  <1>3. ASSUME op[r].ws \in Workspaces, NEW g \in Files, Seen(r, g)'
        PROVE  Seen(r, g) /\ Here(r, g)' = Here(r, g)
    BY <1>0, <1>1, <1>2, <1>3 DEF Seen, Here
  <1>4. ASSUME op[r].ws \in Workspaces
        PROVE  /\ Untouched(r)' \subseteq Untouched(r) \cap Files
               /\ \A g \in Untouched(r)' : Here(r, g)' = Here(r, g)
    BY <1>0, <1>1, <1>2, <1>4 DEF Untouched, Here
  <1>5. SnapshotHeld(r)' /\ ProgressKept(r)'
    BY <1>0, <1>1 DEF EngineOf, SnapshotHeld, ProgressKept
  <1>6. FilesMatch(r)'
    <2>1. CASE op[r].ws \in Workspaces
      <3>1. Patched(r)' = Patched(r) /\ (GivingUp(r)' <=> GivingUp(r))
        BY <1>0, <1>1 DEF Patched, GivingUp
      <3> QED
        BY <1>0, <1>1, <1>4, <2>1, <3>1 DEF EngineOf, FilesMatch
    <2>2. CASE op[r].ws = NoWorkspace
      BY <1>0, <1>1, <2>2, ConstantsAssumption
      DEF EngineOf, SnapshotHeld, FilesMatch, GivingUp, Applying, InEngine
    <2> QED
      BY <1>0, <2>1, <2>2 DEF Operation
  <1>7. SeenMatch(r)'
    <2>1. CASE op[r].ws \in Workspaces
      <3>1. /\ op[r].pc \in {"replace", "undo_replace"} => op[r].file \in Files
            /\ op[r].todo \subseteq Files /\ op[r].done \subseteq Files
        BY <1>0 DEF HoldsFile, Operation
      <3> QED
        BY <1>0, <1>1, <1>3, <2>1, <3>1 DEF EngineOf, SeenMatch
    <2>2. CASE op[r].ws = NoWorkspace
      BY <1>0, <1>1, <2>2, ConstantsAssumption
      DEF EngineOf, SnapshotHeld, SeenMatch, Applying, InEngine
    <2> QED
      BY <1>0, <2>1, <2>2 DEF Operation
  <1> QED
    BY <1>5, <1>6, <1>7 DEF EngineOf

LEMMA EngineNext ==
    ASSUME IInv, ConsentInv, EngineInv, [Next]_vars
    PROVE  EngineInv'
  <1>0. TypeOK /\ OperationsReady
    BY DEF IInv
  <1>1. ASSUME NEW r \in Requests, ~Busy(op'[r]) PROVE EngineOf(r)'
    BY <1>1 DEF Busy, EngineOf, SnapshotHeld, ProgressKept, FilesMatch, SeenMatch, GivingUp,
       Applying, AfterApproval, InEngine
  <1>2. ASSUME NEW r \in Requests, Continue(r) \/ Request(r) PROVE EngineInv'
    <2>1. EngineOf(r)'
      BY <1>0, <1>2, OwnEngine DEF EngineInv
    <2>2. \A q \in Requests \ {r} : ~Busy(op'[q])
      BY <1>0, <1>2, OthersWait
    <2> QED
      BY <1>1, <2>1, <2>2 DEF EngineInv
  <1>3. CASE Sessioned
    <2>1. LoopFree /\ UNCHANGED op
      BY <1>3 DEF Sessioned, ClientTransition, StartAnalysis, FinishAnalysis,
         GenerateWithoutSources, memory
    <2> QED
      BY <1>1, <2>1 DEF EngineInv, LoopFree, Busy
  <1>4. ASSUME NEW w \in Workspaces, NEW f \in Files, NEW e \in Edits, DeveloperWrites(w, f, e)
        PROVE  EngineInv'
    BY <1>0, <1>4, DeveloperEngine DEF EngineInv
  <1>5. CASE (\E w \in Workspaces : SelectWorkspace(w)) \/ UNCHANGED vars
    <2>1. UNCHANGED <<record, session, op, disk, start, edited, unseen>>
      BY <1>5 DEF SelectWorkspace, vars, rows, memory, world, history
    <2> QED
      BY <2>1 DEF EngineInv, EngineOf, SnapshotHeld, ProgressKept, FilesMatch, SeenMatch,
         GivingUp, Patched, Untouched, Current, Here, Seen, Rendered
  <1>6. CASE Restart
    BY <1>1, <1>6, IdleTyped DEF Restart, EngineInv, Busy
  <1> QED
    BY <1>2, <1>3, <1>4, <1>5, <1>6 DEF Next, World

LEMMA EngineInit == Init => EngineInv
  BY IdleTyped, QuietEngine DEF Init, EngineInv, Quiet

\* The inductive invariant of the theorems below.
THEOREM PatchEngineInv == Spec => []EngineInv
  BY EngineInit, EngineNext, PatchIInv, PatchConsentInv, PTL DEF Spec

\* Whatever the developer does meanwhile, an application that reports success
\* has written every file, a rollback that does has restored every file, and
\* one that reports a conflict has changed none: every clause of AllOrNothing
\* but the one about an application that fails, with no hypothesis.
SuccessIsComplete ==
    \A r \in Requests :
      LET now == disk[op[r].ws]
          p   == Current(r).patch
      IN  /\ op[r].pc = "to_testing" => \A f \in Untouched(r) : now[f] = start[f] \cup {p}
          /\ op[r].pc = "to_rolled_back" => \A f \in Untouched(r) : now[f] = start[f] \ {p}
          /\ op[r].pc = "conflict" => \A f \in Untouched(r) : now[f] = start[f]

THEOREM PatchSuccessIsComplete == Spec => []SuccessIsComplete
  <1>1. EngineInv => SuccessIsComplete
    BY DEF EngineInv, EngineOf, FilesMatch, SuccessIsComplete, Patched, Untouched, Here
  <1> QED
    BY <1>1, PatchEngineInv, PTL

\* The engine is all or nothing, provided the operating system fails neither the
\* read that verifies a replacement nor the restoring itself.
THEOREM PatchAllOrNothing ==
    ASSUME FaultPoints \cap {"verify", "restore"} = {}
    PROVE  Spec => []AllOrNothing
  <1>1. EngineInv => AllOrNothing
    BY DEF EngineInv, EngineOf, FilesMatch, FaultsSpared, AllOrNothing, Patched, GivingUp,
       Untouched, Here
  <1> QED
    BY <1>1, PatchEngineInv, PTL

-----------------------------------------------------------------------------
(* What a step of the agent does to a file.                                *)

\* A file changes by one write of one operation, of the rendered patch or of the
\* original.
LEMMA DiskChanges ==
    ASSUME TypeOK, OperationsReady, [Next]_vars, AgentStep, disk' # disk
    PROVE  \E r \in Requests, f \in Files :
             \/ (ReplaceFile(r) \/ UndoReplace(r)) /\ f = op[r].file
             \/ RestoreFile(r, f) \/ RollbackReplace(r, f)
  <1>1. ASSUME NEW r \in Requests, Request(r) PROVE FALSE
    BY <1>1 DEF Request, BeginGenerate, Reject, Approve, Rollback, world
  <1>2. ~Sessioned
    BY DEF Sessioned, ClientTransition, StartAnalysis, FinishAnalysis, GenerateWithoutSources,
       world
  <1>3. ~World
    BY DEF World, SelectWorkspace, DeveloperWrites, Restart, AgentStep, TypeOK
  <1>4. PICK r \in Requests : Continue(r)
    BY <1>1, <1>2, <1>3 DEF Next, vars, world
  <1>5. ~ \/ GenerateFails(r) \/ GenerateRepairs(r) \/ GenerateTransition(r)
          \/ GenerateAwaits(r) \/ SaveAwaiting(r) \/ SaveRejected(r) \/ SaveApproved(r)
          \/ Prepare(r) \/ PrepareRefuses(r) \/ VerifyFile(r) \/ ApplyFault(r)
          \/ RestoreFault(r) \/ SaveApplied(r) \/ StartTesting(r) \/ SelectTest(r)
          \/ RunTest(r) \/ Finish(r) \/ SaveResult(r) \/ FailApply(r) \/ SaveFailed(r)
          \/ SaveConflict(r) \/ RollbackFault(r) \/ UndoFault(r) \/ FinishRollback(r)
          \/ SaveRolledBack(r)
    BY DEF GenerateFails, GenerateRepairs, GenerateTransition, GenerateAwaits,
       SaveAwaiting, SaveRejected, SaveApproved, Prepare, PrepareRefuses, VerifyFile,
       ApplyFault, RestoreFault, SaveApplied, StartTesting, SelectTest, RunTest, Finish,
       SaveResult, FailApply, SaveFailed, SaveConflict, RollbackFault, UndoFault,
       FinishRollback, SaveRolledBack, world
  <1>6. ~ \/ \E p \in fresh, files \in SUBSET Files : GenerateProposes(r, p, files)
          \/ \E f \in Files : CheckFile(r, f) \/ RollbackCheck(r, f) \/ UndoCheck(r, f)
    BY DEF GenerateProposes, CheckFile, RollbackCheck, UndoCheck, world
  <1>7. \/ ReplaceFile(r) \/ UndoReplace(r)
        \/ \E f \in Files : RestoreFile(r, f) \/ RollbackReplace(r, f)
    BY <1>4, <1>5, <1>6 DEF Continue
  <1>8. ReplaceFile(r) \/ UndoReplace(r) => op[r].file \in Files
    BY DEF ReplaceFile, UndoReplace, OperationsReady, HoldsFile
  <1> QED
    BY <1>7, <1>8

\* The file written has been seen with the content that the write puts the patch
\* into or takes it out of.
LEMMA WriteKeepsRest ==
    ASSUME TypeOK, NEW r \in Requests, EngineOf(r), NEW f \in Files,
           \/ (ReplaceFile(r) \/ UndoReplace(r)) /\ f = op[r].file
           \/ RestoreFile(r, f) \/ RollbackReplace(r, f)
    PROVE  /\ Busy(op[r])
           /\ \A w \in Workspaces, g \in Files :
                disk'[w][g] # disk[w][g] => w = op[r].ws /\ g = f
           /\ Seen(r, f) => disk'[op[r].ws][f] \ {Current(r).patch}
                              = Here(r, f) \ {Current(r).patch}
  <1>0. op[r] \in Operation
    BY OperationFacts
  <1>1. /\ Busy(op[r]) /\ op[r].ws \in Workspaces
    BY
    DEF ReplaceFile, UndoReplace, RestoreFile, RollbackReplace, Busy, EngineOf, SnapshotHeld,
        InEngine
  <1>2. \/ Write(r, f, Rendered(r, f)) /\ (Seen(r, f) => Here(r, f) = Current(r).original[f])
        \/ Write(r, f, Current(r).original[f]) /\ (Seen(r, f) => Here(r, f) = Rendered(r, f))
    BY DEF ReplaceFile, UndoReplace, RestoreFile, RollbackReplace, EngineOf, SeenMatch, Applying
  <1>3. ASSUME NEW content, Write(r, f, content)
        PROVE  /\ disk'[op[r].ws][f] = content
               /\ \A w \in Workspaces, g \in Files :
                    disk'[w][g] # disk[w][g] => w = op[r].ws /\ g = f
    BY <1>1, <1>3 DEF Write, TypeOK, Contents
  <1> QED
    BY <1>1, <1>2, <1>3 DEF Rendered

\* An edit of the developer and the patch of another session survive every step
\* of the agent, in every file the engine has seen since.
THEOREM PatchNoChangeLost == Spec => NoChangeLost
  <1> DEFINE Kept ==
        \A w \in Workspaces, f \in Files :
          disk'[w][f] # disk[w][f] /\ <<w, f>> \notin unseen =>
            \E r \in Requests :
              /\ op[r].pc \notin {"idle", "provider"}
              /\ op[r].ws = w
              /\ disk'[w][f] \ {Current(r).patch} = disk[w][f] \ {Current(r).patch}
  <1>1. ASSUME IInv, EngineInv, [Next]_vars, AgentStep, disk' # disk PROVE Kept
    <2>0. TypeOK /\ OperationsReady
      BY <1>1 DEF IInv
    <2>1. PICK r \in Requests, f \in Files :
            \/ (ReplaceFile(r) \/ UndoReplace(r)) /\ f = op[r].file
            \/ RestoreFile(r, f) \/ RollbackReplace(r, f)
      BY <1>1, <2>0, DiskChanges
    <2>2. EngineOf(r)
      BY <1>1 DEF EngineInv
    <2>3. /\ op[r].pc \notin {"idle", "provider"}
          /\ \A w \in Workspaces, g \in Files : disk'[w][g] # disk[w][g] => w = op[r].ws /\ g = f
          /\ <<op[r].ws, f>> \notin unseen =>
               disk'[op[r].ws][f] \ {Current(r).patch} = disk[op[r].ws][f] \ {Current(r).patch}
      BY <2>0, <2>1, <2>2, WriteKeepsRest DEF Busy, Seen, Here
    <2> QED
      BY <2>3
  <1>2. IInv /\ EngineInv /\ [Next]_vars => [AgentStep => Kept]_vars
    BY <1>1 DEF vars
  <1> QED
    BY <1>2, PatchIInv, PatchEngineInv, PTL DEF Spec, NoChangeLost

-----------------------------------------------------------------------------
(* The way of an operation through its steps.                              *)

\* One step of an operation that does not end it, by its control state.
FlowsTo(pc, next) ==
    \/ pc = "provider" /\ next \in {"provider", "to_generated"}
    \/ pc = "to_generated" /\ next = "to_awaiting"
    \/ pc = "to_awaiting" /\ next = "save_awaiting"
    \/ pc = "save_approved" /\ next = "prepare"
    \/ pc = "prepare" /\ next \in {"check", "fail_apply"}
    \/ pc = "check" /\ next \in {"replace", "restore", "fail_apply", "to_testing"}
    \/ pc = "replace" /\ next \in {"verify", "restore", "fail_apply"}
    \/ pc = "verify" /\ next \in {"check", "restore", "fail_apply"}
    \/ pc = "restore" /\ next \in {"restore", "fail_apply"}
    \/ pc = "to_testing" /\ next = "select_test"
    \/ pc = "select_test" /\ next \in {"run_test", "finish"}
    \/ pc = "run_test" /\ next \in {"finish", "fail_apply"}
    \/ pc = "finish" /\ next = "save_result"
    \/ pc = "fail_apply" /\ next = "save_failed"
    \/ pc = "rollback_check" /\ next \in {"rollback_check", "conflict", "rollback_replace"}
    \/ pc = "rollback_replace" /\ next \in {"rollback_replace", "to_rolled_back", "undo"}
    \/ pc = "undo" /\ next \in {"undo", "undo_replace"}
    \/ pc = "undo_replace" /\ next = "undo"
    \/ pc = "to_rolled_back" /\ next = "save_rolled_back"

\* Request r goes on with its operation in the same session, which it still
\* claims, and all others wait.
Flows(r) ==
    /\ \A q \in Requests \ {r} : op'[q] = op[q]
    /\ active' = active
    /\ op'[r].session = op[r].session
    /\ op'[r].revision = op[r].revision
    /\ FlowsTo(op[r].pc, op'[r].pc)

LEMMA ReplacedFlows ==
    ASSUME TypeOK, NEW r \in Requests, NEW o, op' = [op EXCEPT ![r] = o], active' = active,
           o.session = op[r].session /\ o.revision = op[r].revision, FlowsTo(op[r].pc, o.pc)
    PROVE  Flows(r)
  BY DEF Flows, TypeOK

LEMMA GotoFlows ==
    ASSUME TypeOK, NEW r \in Requests, NEW pc, Goto(r, pc), active' = active,
           FlowsTo(op[r].pc, pc)
    PROVE  Flows(r)
  <1> DEFINE o == [op[r] EXCEPT !.pc = pc]
  <1>1. o.pc = pc /\ o.session = op[r].session /\ o.revision = op[r].revision
    BY OperationFacts DEF Operation
  <1>2. op' = [op EXCEPT ![r] = o]
    BY DEF Goto
  <1> HIDE DEF o
  <1> QED
    BY <1>1, <1>2, ReplacedFlows

LEMMA UnwindFlows ==
    ASSUME TypeOK, NEW r \in Requests, op[r].pc \in Applying, Unwind(r), active' = active
    PROVE  Flows(r)
  BY GotoFlows DEF Unwind, Goto, FlowsTo, Applying

LEMMA UndoneFlows ==
    ASSUME TypeOK, NEW r \in Requests, op[r].pc \in {"undo", "undo_replace"}, NEW f, Undone(r, f)
    PROVE  End(r) \/ Flows(r)
  <1> DEFINE o == [op[r] EXCEPT !.pc = "undo", !.done = @ \ {f}, !.file = NoFile]
  <1>1. o.pc = "undo" /\ o.session = op[r].session /\ o.revision = op[r].revision
    BY OperationFacts DEF Operation
  <1>2. End(r) \/ (op' = [op EXCEPT ![r] = o] /\ active' = active)
    BY DEF Undone
  <1> HIDE DEF o
  <1> QED
    BY <1>1, <1>2, ReplacedFlows DEF FlowsTo

\* Every step of an operation ends it or follows the flow.
LEMMA ServiceFlows ==
    ASSUME TypeOK, NEW r \in Requests,
           \/ GenerateFails(r) \/ GenerateRepairs(r)
           \/ \E p \in fresh, files \in SUBSET Files : GenerateProposes(r, p, files)
           \/ GenerateTransition(r) \/ GenerateAwaits(r) \/ SaveAwaiting(r) \/ SaveRejected(r)
           \/ SaveApproved(r) \/ Prepare(r) \/ PrepareRefuses(r) \/ SaveApplied(r)
           \/ StartTesting(r) \/ SelectTest(r) \/ RunTest(r) \/ Finish(r) \/ SaveResult(r)
           \/ FailApply(r) \/ SaveFailed(r)
    PROVE  End(r) \/ Flows(r)
  <1>0. op[r] \in Operation
    BY OperationFacts
  <1>1. CASE GenerateFails(r) \/ SaveAwaiting(r) \/ SaveRejected(r) \/ SaveResult(r)
               \/ SaveFailed(r)
    BY <1>1 DEF GenerateFails, SaveAwaiting, SaveRejected, SaveResult, SaveFailed
  <1>2. CASE GenerateRepairs(r)
    <2> DEFINE o == [op[r] EXCEPT !.repaired = TRUE]
    <2>1. o.pc = "provider" /\ o.session = op[r].session /\ o.revision = op[r].revision
      BY <1>0, <1>2 DEF Operation, GenerateRepairs
    <2>2. op[r].pc = "provider" /\ op' = [op EXCEPT ![r] = o] /\ active' = active
      BY <1>2 DEF GenerateRepairs
    <2> HIDE DEF o
    <2> QED
      BY <2>1, <2>2, ReplacedFlows DEF FlowsTo
  <1>3. CASE \E p \in fresh, files \in SUBSET Files : GenerateProposes(r, p, files)
    BY <1>3, GotoFlows DEF GenerateProposes, FlowsTo
  <1>4. CASE GenerateTransition(r)
    BY <1>4, GotoFlows DEF GenerateTransition, FlowsTo
  <1>5. CASE \/ GenerateAwaits(r) \/ SaveApproved(r) \/ PrepareRefuses(r) \/ SaveApplied(r)
             \/ StartTesting(r) \/ Finish(r) \/ FailApply(r)
    BY <1>5, GotoFlows
    DEF GenerateAwaits, SaveApproved, PrepareRefuses, SaveApplied, StartTesting, Finish,
        FailApply, FlowsTo
  <1>6. CASE Prepare(r)
    <2> DEFINE o == [op[r] EXCEPT !.pc = "check", !.ws = selected, !.todo = Current(r).files]
    <2>1. o.pc = "check" /\ o.session = op[r].session /\ o.revision = op[r].revision
      BY <1>0 DEF Operation
    <2>2. op[r].pc = "prepare" /\ op' = [op EXCEPT ![r] = o] /\ active' = active
      BY <1>6 DEF Prepare
    <2> HIDE DEF o
    <2> QED
      BY <2>1, <2>2, ReplacedFlows DEF FlowsTo
  <1>7. CASE SelectTest(r)
    <2> DEFINE o == [op[r] EXCEPT !.pc = "run_test", !.command = selected]
    <2>1. o.pc = "run_test" /\ o.session = op[r].session /\ o.revision = op[r].revision
      BY <1>0 DEF Operation
    <2>2. /\ op[r].pc = "select_test" /\ active' = active
          /\ op' = [op EXCEPT ![r] = o] \/ Goto(r, "finish")
      BY <1>7 DEF SelectTest
    <2> HIDE DEF o
    <2> QED
      BY <2>1, <2>2, ReplacedFlows, GotoFlows DEF FlowsTo
  <1>8. CASE RunTest(r)
    <2>1. ASSUME NEW passed \in BOOLEAN,
                 op' = [op EXCEPT ![r].pc = "finish", ![r].passed = passed,
                                  ![r].command = selected]
          PROVE  Flows(r)
      <3> DEFINE o == [op[r] EXCEPT !.pc = "finish", !.passed = passed, !.command = selected]
      <3>1. o.pc = "finish" /\ o.session = op[r].session /\ o.revision = op[r].revision
        BY <1>0 DEF Operation
      <3>2. op[r].pc = "run_test" /\ op' = [op EXCEPT ![r] = o] /\ active' = active
        BY <1>8, <2>1 DEF RunTest
      <3> HIDE DEF o
      <3> QED
        BY <3>1, <3>2, ReplacedFlows DEF FlowsTo
    <2> QED
      BY <1>8, <2>1, GotoFlows DEF RunTest, FlowsTo
  <1> QED
    BY <1>1, <1>2, <1>3, <1>4, <1>5, <1>6, <1>7, <1>8

LEMMA EngineFlows ==
    ASSUME TypeOK, NEW r \in Requests,
           \/ \E f \in Files :
                \/ CheckFile(r, f) \/ RestoreFile(r, f) \/ RollbackCheck(r, f)
                \/ RollbackReplace(r, f) \/ UndoCheck(r, f)
           \/ ReplaceFile(r) \/ VerifyFile(r) \/ ApplyFault(r) \/ RestoreFault(r)
           \/ UndoReplace(r) \/ UndoFault(r) \/ SaveConflict(r) \/ RollbackFault(r)
           \/ FinishRollback(r) \/ SaveRolledBack(r)
    PROVE  End(r) \/ Flows(r)
  <1>0. op[r] \in Operation
    BY OperationFacts
  <1>1. CASE UndoFault(r) \/ SaveConflict(r) \/ SaveRolledBack(r)
    BY <1>1 DEF UndoFault, SaveConflict, SaveRolledBack
  <1>2. CASE ReplaceFile(r) \/ RestoreFault(r) \/ FinishRollback(r)
    BY <1>2, GotoFlows DEF ReplaceFile, RestoreFault, FinishRollback, FlowsTo
  <1>3. CASE ApplyFault(r)
    BY <1>3, UnwindFlows DEF ApplyFault, Applying
  <1>4. CASE RollbackFault(r)
    BY <1>4, GotoFlows DEF RollbackFault, FlowsTo
  <1>5. CASE UndoReplace(r)
    BY <1>5, UndoneFlows DEF UndoReplace
  <1>6. CASE VerifyFile(r)
    <2> DEFINE o == [op[r] EXCEPT !.pc = "check", !.done = @ \cup {op[r].file},
                                  !.todo = @ \ {op[r].file}, !.file = NoFile]
    <2>1. o.pc = "check" /\ o.session = op[r].session /\ o.revision = op[r].revision
      BY <1>0 DEF Operation
    <2>2. /\ op[r].pc = "verify" /\ active' = active
          /\ op' = [op EXCEPT ![r] = o] \/ Unwind(r)
      BY <1>6 DEF VerifyFile
    <2> HIDE DEF o
    <2> QED
      BY <2>1, <2>2, ReplacedFlows, UnwindFlows DEF FlowsTo, Applying
  <1>7. ASSUME NEW f \in Files, CheckFile(r, f) PROVE Flows(r)
    <2> DEFINE o == [op[r] EXCEPT !.pc = "replace", !.file = f]
    <2>1. o.pc = "replace" /\ o.session = op[r].session /\ o.revision = op[r].revision
      BY <1>0 DEF Operation
    <2>2. /\ op[r].pc = "check" /\ active' = active
          /\ op' = [op EXCEPT ![r] = o] \/ Unwind(r)
      BY <1>7 DEF CheckFile
    <2> HIDE DEF o
    <2> QED
      BY <2>1, <2>2, ReplacedFlows, UnwindFlows DEF FlowsTo, Applying
  <1>8. ASSUME NEW f \in Files, UndoCheck(r, f) PROVE End(r) \/ Flows(r)
    <2> DEFINE o == [op[r] EXCEPT !.pc = "undo_replace", !.file = f]
    <2>1. o.pc = "undo_replace" /\ o.session = op[r].session /\ o.revision = op[r].revision
      BY <1>0 DEF Operation
    <2>2. /\ op[r].pc = "undo"
          /\ (op' = [op EXCEPT ![r] = o] /\ active' = active) \/ Undone(r, f)
      BY <1>8 DEF UndoCheck
    <2> HIDE DEF o
    <2> QED
      BY <2>1, <2>2, ReplacedFlows, UndoneFlows DEF FlowsTo
  <1>9. ASSUME NEW f \in Files, RestoreFile(r, f) \/ RollbackReplace(r, f) PROVE Flows(r)
    <2> DEFINE restored == [op[r] EXCEPT !.done = @ \ {f},
                              !.pc = IF op[r].done = {f} THEN "fail_apply" ELSE "restore"]
               replaced == [op[r] EXCEPT !.todo = @ \ {f}, !.done = @ \cup {f},
                              !.pc = IF op[r].todo = {f} THEN "to_rolled_back" ELSE @]
    <2>1. /\ \/ op[r].pc = "restore" /\ op' = [op EXCEPT ![r] = restored]
             \/ op[r].pc = "rollback_replace" /\ op' = [op EXCEPT ![r] = replaced]
          /\ active' = active
      BY <1>9 DEF RestoreFile, RollbackReplace
    <2>2. /\ restored.session = op[r].session /\ restored.revision = op[r].revision
          /\ restored.pc \in {"fail_apply", "restore"}
      BY <1>0 DEF Operation
    <2>3. /\ replaced.session = op[r].session /\ replaced.revision = op[r].revision
          /\ replaced.pc \in {"to_rolled_back", op[r].pc}
      BY <1>0 DEF Operation
    <2> HIDE DEF restored, replaced
    <2> QED
      BY <2>1, <2>2, <2>3, ReplacedFlows DEF FlowsTo
  <1>10. ASSUME NEW f \in Files, RollbackCheck(r, f) PROVE Flows(r)
    <2> DEFINE conflict == [op[r] EXCEPT !.pc = "conflict"]
               checked  == [op[r] EXCEPT !.pc = "rollback_replace", !.todo = Current(r).files]
               checking == [op[r] EXCEPT !.todo = @ \ {f}]
    <2>1. /\ conflict.pc = "conflict" /\ conflict.session = op[r].session
          /\ conflict.revision = op[r].revision
          /\ checked.pc = "rollback_replace" /\ checked.session = op[r].session
          /\ checked.revision = op[r].revision
          /\ checking.pc = op[r].pc /\ checking.session = op[r].session
          /\ checking.revision = op[r].revision
      BY <1>0 DEF Operation
    <2>2. /\ op[r].pc = "rollback_check" /\ active' = active
          /\ \/ op' = [op EXCEPT ![r] = conflict]
             \/ op' = [op EXCEPT ![r] = checked]
             \/ op' = [op EXCEPT ![r] = checking]
      BY <1>10 DEF RollbackCheck
    <2> HIDE DEF conflict, checked, checking
    <2> QED
      BY <2>1, <2>2, ReplacedFlows DEF FlowsTo
  <1> QED
    BY <1>1, <1>2, <1>3, <1>4, <1>5, <1>6, <1>7, <1>8, <1>9, <1>10

LEMMA ContinueFlows ==
    ASSUME TypeOK, NEW r \in Requests, Continue(r)
    PROVE  End(r) \/ Flows(r)
  BY ServiceFlows, EngineFlows DEF Continue

\* The control state of an operation says which step comes next.
LEMMA StepAt ==
    ASSUME NEW r \in Requests, Continue(r)
    PROVE  /\ op[r].pc # "idle"
           /\ op[r].pc = "provider" =>
                \/ GenerateFails(r) \/ GenerateRepairs(r)
                \/ \E p \in fresh, files \in SUBSET Files : GenerateProposes(r, p, files)
           /\ op[r].pc = "to_generated" => GenerateTransition(r)
           /\ op[r].pc = "to_awaiting" => GenerateAwaits(r)
           /\ op[r].pc = "save_awaiting" => SaveAwaiting(r)
           /\ op[r].pc = "save_rejected" => SaveRejected(r)
           /\ op[r].pc = "save_approved" => SaveApproved(r)
           /\ op[r].pc = "prepare" => Prepare(r) \/ PrepareRefuses(r)
           /\ op[r].pc \in Applying \cup {"restore"} =>
                \/ \E f \in Files : CheckFile(r, f) \/ RestoreFile(r, f)
                \/ ReplaceFile(r) \/ VerifyFile(r) \/ ApplyFault(r) \/ RestoreFault(r)
                \/ SaveApplied(r)
           /\ op[r].pc = "to_testing" => StartTesting(r)
           /\ op[r].pc = "select_test" => SelectTest(r)
           /\ op[r].pc = "run_test" => RunTest(r)
           /\ op[r].pc = "finish" => Finish(r)
           /\ op[r].pc = "save_result" => SaveResult(r)
           /\ op[r].pc = "fail_apply" => FailApply(r)
           /\ op[r].pc = "save_failed" => SaveFailed(r)
           /\ op[r].pc \in RollingBack \cup {"undo", "undo_replace"} =>
                \/ \E f \in Files : RollbackCheck(r, f) \/ RollbackReplace(r, f) \/ UndoCheck(r, f)
                \/ UndoReplace(r) \/ UndoFault(r) \/ RollbackFault(r)
           /\ op[r].pc = "conflict" => SaveConflict(r)
           /\ op[r].pc = "to_rolled_back" => FinishRollback(r)
           /\ op[r].pc = "save_rolled_back" => SaveRolledBack(r)
  <1>1. CASE \/ GenerateFails(r) \/ GenerateRepairs(r)
             \/ \E p \in fresh, files \in (SUBSET Files) \ {{}} : GenerateProposes(r, p, files)
    BY <1>1 DEF GenerateFails, GenerateRepairs, GenerateProposes, Applying, RollingBack
  <1>2. CASE \/ GenerateTransition(r) \/ GenerateAwaits(r) \/ SaveAwaiting(r) \/ SaveRejected(r)
             \/ SaveApproved(r) \/ Prepare(r) \/ PrepareRefuses(r) \/ SaveApplied(r)
    BY <1>2 DEF GenerateTransition, GenerateAwaits, SaveAwaiting, SaveRejected, SaveApproved,
       Prepare, PrepareRefuses, SaveApplied, Applying, RollingBack
  <1>3. CASE \/ StartTesting(r) \/ SelectTest(r) \/ RunTest(r) \/ Finish(r) \/ SaveResult(r)
             \/ FailApply(r) \/ SaveFailed(r)
    BY <1>3 DEF StartTesting, SelectTest, RunTest, Finish, SaveResult, FailApply, SaveFailed,
       Applying, RollingBack
  <1>4. CASE \/ \E f \in Files : CheckFile(r, f) \/ RestoreFile(r, f)
             \/ ReplaceFile(r) \/ VerifyFile(r) \/ ApplyFault(r) \/ RestoreFault(r)
    BY <1>4 DEF CheckFile, RestoreFile, ReplaceFile, VerifyFile, ApplyFault, RestoreFault,
       Applying, RollingBack
  <1>5. CASE \/ \E f \in Files : RollbackCheck(r, f) \/ RollbackReplace(r, f) \/ UndoCheck(r, f)
             \/ UndoReplace(r) \/ UndoFault(r) \/ SaveConflict(r) \/ RollbackFault(r)
             \/ FinishRollback(r) \/ SaveRolledBack(r)
    BY <1>5 DEF RollbackCheck, RollbackReplace, UndoCheck, UndoReplace, UndoFault,
       SaveConflict, RollbackFault, FinishRollback, SaveRolledBack, Applying, RollingBack
  <1> QED
    BY <1>1, <1>2, <1>3, <1>4, <1>5 DEF Continue

-----------------------------------------------------------------------------
(* The record never claims more than happened.                             *)

\* The steps of approve that follow the application, and those that a record
\* in APPLYING stands for.
Applied  == {"to_testing", "select_test", "run_test", "finish", "save_result"}
UnderWay == Applying \cup {"restore", "fail_apply", "save_failed"}

\* What an operation is about to write into its record has happened.
OutcomeOf(r) ==
    LET state == session[op[r].session].state
    IN  /\ op[r].pc \in Applied => Current(r).saved
        /\ op[r].pc = "save_result" => state = IF op[r].passed THEN "SUCCESS" ELSE "FAILED"
        /\ op[r].pc = "save_rolled_back" => state = "ROLLED_BACK"

\* The last clause names the operation that applies the patch.
AheadOf(s) ==
    LET state == session[s].state
        rec   == record[s]
    IN  /\ rec.status = "VERIFIED" => state \in {"SUCCESS", "ROLLED_BACK"} /\ rec.saved
        /\ rec.status = "ROLLED_BACK" => state = "ROLLED_BACK"
        /\ rec.status \in {"APPROVED", "APPLYING", "APPLIED", "VERIFIED", "RECOVERY_REQUIRED"}
             => rec.patch \in consent
        /\ rec.status = "APPLYING" =>
             \E r \in Requests :
               op[r].session = s /\ op[r].pc \in UnderWay /\ op[r].ws \in Workspaces

AheadInv == (\A r \in Requests : OutcomeOf(r)) /\ (\A s \in Sessions : AheadOf(s))

\* Success is left only for a rollback, and a rollback never.
LEMMA FinalMoves ==
    ASSUME TypeOK, [Next]_vars, NEW s \in Sessions
    PROVE  /\ session[s].state = "SUCCESS" => session'[s].state \in {"SUCCESS", "ROLLED_BACK"}
           /\ session[s].state = "ROLLED_BACK" => session'[s].state = "ROLLED_BACK"
  <1>1. OneMoves \/ UNCHANGED session
    BY NextMoves DEF TypeOK, OperationsTyped
  <1>2. CASE OneMoves
    <2>1. PICK t \in Sessions, target \in DebugState :
            Decidable(session[t].state, target, session[t].retry_count) /\ Move(t, target)
      BY <1>2 DEF OneMoves
    <2>2. session'[s].state = IF s = t THEN target ELSE session[s].state
      BY <2>1 DEF Move, Moved, TypeOK
    <2> QED
      BY <2>1, <2>2 DEF Decidable, Successors
  <1> QED
    BY <1>1, <1>2

\* What an outcome rests on: the step that decided it, and the snapshot.
LEMMA OutcomeStep ==
    ASSUME TypeOK, OperationsReady, ConsentInv, NEW r \in Requests, OutcomeOf(r), Continue(r)
    PROVE  OutcomeOf(r)'
  <1> DEFINE s == op[r].session
  <1>0. op[r] \in Operation /\ s \in Sessions
    BY OperationFacts
  <1>1. CASE End(r)
    BY <1>1, IdleTyped DEF End, OutcomeOf, Applied, TypeOK
  <1>2. CASE Flows(r) /\ op'[r].pc \in Applied
    <2>1. op[r].pc \in Applied \cup {"check"} /\ op'[r].session = s
      BY <1>2 DEF Flows, FlowsTo, Applied
    <2>2. record[s].saved
      BY <2>1 DEF OutcomeOf, ConsentInv, OperationsInPhase, InEngine, Current
    <2>3. RecordsKeep
      <3>1. ~Prepare(r) /\ ~\E p \in fresh, files \in SUBSET Files : GenerateProposes(r, p, files)
        BY <2>1 DEF Prepare, GenerateProposes, Applied
      <3> QED
        BY <3>1, ContinueKeeps
    <2>4. Current(r)'.saved
      BY <1>0, <2>1, <2>2, <2>3 DEF RecordsKeep, Current
    <2>5. op'[r].pc = "save_result" =>
            session'[s].state = IF op'[r].passed THEN "SUCCESS" ELSE "FAILED"
      <3> SUFFICES ASSUME op'[r].pc = "save_result"
                   PROVE  session'[s].state = IF op'[r].passed THEN "SUCCESS" ELSE "FAILED"
        OBVIOUS
      <3>1. Finish(r)
        BY <1>2, StepAt DEF Flows, FlowsTo
      <3> QED
        BY <1>0, <3>1 DEF Finish, Move, Moved, Goto, TypeOK, Operation
    <2> QED
      BY <1>2, <2>1, <2>4, <2>5 DEF OutcomeOf, Applied
  <1>3. CASE Flows(r) /\ op'[r].pc = "save_rolled_back"
    <2>1. FinishRollback(r) /\ op'[r].session = s
      BY <1>3, StepAt DEF Flows, FlowsTo
    <2> QED
      BY <1>0, <1>3, <2>1 DEF FinishRollback, Move, Moved, TypeOK, OutcomeOf, Applied
  <1>4. CASE op'[r].pc \notin Applied \cup {"save_rolled_back"}
    BY <1>4 DEF OutcomeOf, Applied
  <1> QED
    BY <1>1, <1>2, <1>3, <1>4, ContinueFlows

\* Until its record is saved an application goes on, where it began.
LEMMA UnderWayStep ==
    ASSUME TypeOK, NEW r \in Requests, Continue(r), op[r].pc \in UnderWay,
           ~SaveApplied(r), ~SaveFailed(r)
    PROVE  op'[r].session = op[r].session /\ op'[r].pc \in UnderWay /\ op'[r].ws = op[r].ws
  <1>0. op[r] \in Operation
    BY OperationFacts
  <1>1. CASE ReplaceFile(r) \/ VerifyFile(r) \/ ApplyFault(r) \/ RestoreFault(r) \/ FailApply(r)
    <2> USE DEF Unwind, Goto, UnderWay, Applying, TypeOK
    <2>1. CASE ReplaceFile(r) \/ ApplyFault(r) \/ RestoreFault(r) \/ FailApply(r)
      BY <1>0, <2>1 DEF ReplaceFile, ApplyFault, RestoreFault, FailApply, Operation
    <2>2. CASE VerifyFile(r)
      BY <1>0, <2>2 DEF VerifyFile, Operation
    <2> QED
      BY <1>1, <2>1, <2>2
  <1>2. ASSUME NEW f \in Files, CheckFile(r, f) \/ RestoreFile(r, f)
        PROVE  op'[r].session = op[r].session /\ op'[r].pc \in UnderWay /\ op'[r].ws = op[r].ws
    BY <1>0, <1>2 DEF CheckFile, RestoreFile, Unwind, UnderWay, Applying, TypeOK, Operation
  <1> QED
    BY <1>1, <1>2, StepAt DEF UnderWay

\* The steps of an operation that write into a record more than it said.
Records(r) == SaveApproved(r) \/ Prepare(r) \/ SaveApplied(r) \/ SaveResult(r) \/ SaveRolledBack(r)

\* Every other step leaves a record alone or makes it claim nothing.
LEMMA RecordSteps ==
    ASSUME TypeOK, OperationsReady, ConsentInv, NEW r \in Requests, Continue(r), NEW s \in Sessions
    PROVE  /\ \/ /\ record'[s].status = record[s].status
                 /\ record'[s].patch = record[s].patch /\ record'[s].saved = record[s].saved
              \/ record'[s].status \in {"PROPOSED", "AWAITING_APPROVAL", "REJECTED", "FAILED"}
              \/ op[r].session = s /\ Records(r)
           /\ op[r].session = s /\ SaveFailed(r) =>
                record'[s].status = "FAILED"
  <1> DEFINE t == op[r].session
  <1>0. /\ t \in Sessions /\ Current(r) = record[t] /\ Current(r) \in Record
        /\ record[s] \in Record
    BY OperationFacts DEF TypeOK
  <1>1. ASSUME NEW new, Save(t, new) PROVE record'[s] = IF s = t THEN new ELSE record[s]
    BY <1>0, <1>1 DEF Save, TypeOK
  <1>2. SaveFailed(r) => IF s = t THEN record'[s].status = "FAILED" ELSE record'[s] = record[s]
    <2> DEFINE new == [Current(r) EXCEPT
                         !.status = "FAILED",
                         !.rollback = IF Current(r).saved THEN @ ELSE "UNAVAILABLE"]
    <2>1. new.status = "FAILED"
      BY <1>0 DEF Record
    <2>2. SaveFailed(r) => Save(t, new)
      BY DEF SaveFailed
    <2> HIDE DEF new
    <2> QED
      BY <1>1, <2>1, <2>2
  <1>3. CASE SaveAwaiting(r) \/ SaveRejected(r) \/ SaveFailed(r)
    <2>1. ASSUME NEW status, Save(t, [Current(r) EXCEPT !.status = status])
          PROVE  record'[s] = record[s] \/ record'[s].status = status
      <3> DEFINE new == [Current(r) EXCEPT !.status = status]
      <3>1. new.status = status /\ Save(t, new)
        BY <1>0, <2>1 DEF Record
      <3> HIDE DEF new
      <3> QED
        BY <1>1, <3>1
    <2> QED
      BY <1>2, <1>3, <2>1 DEF SaveAwaiting, SaveRejected
  <1>4. CASE SaveConflict(r)
    <2> DEFINE new == [Current(r) EXCEPT !.rollback = "CONFLICT"]
    <2>1. /\ new.status = record[t].status /\ new.patch = record[t].patch
          /\ new.saved = record[t].saved
      BY <1>0 DEF Record
    <2>2. Save(t, new)
      BY <1>4 DEF SaveConflict
    <2> HIDE DEF new
    <2> QED
      BY <1>1, <1>2, <2>1, <2>2
  <1>5. CASE \E p \in fresh, files \in SUBSET Files : GenerateProposes(r, p, files)
    <2>1. PICK p \in fresh, files \in SUBSET Files : GenerateProposes(r, p, files)
      BY <1>5
    <2> DEFINE new == [NoRecord EXCEPT !.status = "PROPOSED", !.patch = p, !.files = files,
                !.base = [f \in Files |-> IF f \in files THEN op[r].sources[f] ELSE {}]]
    <2>2. Save(t, new)
      BY <2>1 DEF GenerateProposes
    <2>3. new.status = "PROPOSED"
      BY DEF NoRecord
    <2> HIDE DEF new
    <2> QED
      BY <1>1, <1>2, <2>2, <2>3
  <1>6. CASE Records(r)
    <2>1. \E new : Save(t, new)
      BY <1>6 DEF Records, SaveApproved, Prepare, SaveApplied, SaveResult, SaveRolledBack
    <2> QED
      BY <1>1, <1>2, <1>6, <2>1
  <1>7. CASE /\ ~SaveAwaiting(r) /\ ~SaveRejected(r) /\ ~SaveFailed(r) /\ ~SaveConflict(r)
             /\ ~Records(r)
             /\ ~\E p \in fresh, files \in SUBSET Files : GenerateProposes(r, p, files)
    <2> UNCHANGED record
      <3>1. CASE \/ GenerateFails(r) \/ GenerateRepairs(r)
                 \/ GenerateTransition(r) \/ GenerateAwaits(r) \/ PrepareRefuses(r)
                 \/ StartTesting(r) \/ SelectTest(r) \/ RunTest(r) \/ Finish(r) \/ FailApply(r)
        BY <3>1 DEF GenerateFails, GenerateRepairs, GenerateTransition, GenerateAwaits,
           PrepareRefuses, StartTesting, SelectTest, RunTest, Finish, FailApply, rows
      <3>2. CASE \/ \E f \in Files :
                      \/ CheckFile(r, f) \/ RestoreFile(r, f) \/ RollbackCheck(r, f)
                      \/ RollbackReplace(r, f) \/ UndoCheck(r, f)
                 \/ ReplaceFile(r) \/ VerifyFile(r) \/ ApplyFault(r) \/ RestoreFault(r)
                 \/ UndoReplace(r) \/ UndoFault(r) \/ RollbackFault(r) \/ FinishRollback(r)
        BY <3>2 DEF CheckFile, RestoreFile, RollbackCheck, RollbackReplace, UndoCheck,
           ReplaceFile, VerifyFile, ApplyFault, RestoreFault, UndoReplace, UndoFault,
           RollbackFault, FinishRollback, rows
      <3> QED
        BY <1>7, <3>1, <3>2 DEF Continue, Records
    <2> QED
      BY <1>2
  <1> QED
    BY <1>3, <1>4, <1>5, <1>6, <1>7

\* What a record already claims it may go on claiming.
LEMMA AheadKept ==
    ASSUME TypeOK, NEW s \in Sessions, AheadOf(s), [Next]_vars,
           record'[s].status = record[s].status, record'[s].patch = record[s].patch,
           record'[s].saved = record[s].saved,
           record[s].patch \in consent =>
             record[s].patch \in consent' \/ record[s].status = "AWAITING_APPROVAL",
           record[s].status = "APPLYING" =>
             \E r \in Requests :
               op'[r].session = s /\ op'[r].pc \in UnderWay /\ op'[r].ws \in Workspaces
    PROVE  AheadOf(s)'
  BY FinalMoves DEF AheadOf

\* A step of an operation leaves every record within what has happened.
LEMMA ContinueAhead ==
    ASSUME IInv, ConsentInv, AheadInv, NEW r \in Requests, Continue(r), NEW s \in Sessions
    PROVE  AheadOf(s)'
  <1> DEFINE t == op[r].session
  <1>0. /\ TypeOK /\ OperationsReady /\ [Next]_vars /\ AheadOf(s) /\ OutcomeOf(r)
        /\ t \in Sessions /\ Current(r) = record[t] /\ Current(r) \in Record
    BY OperationFacts DEF IInv, AheadInv, Next
  <1>1. consent' = consent
    BY <1>0, ContinueKeeps DEF Prepare, GenerateProposes, history
  <1>2. \A q \in Requests \ {r} : op'[q] = op[q] /\ ~Busy(op[q])
    BY <1>0, OthersWait
  <1>3. CASE /\ record'[s].status = record[s].status /\ record'[s].patch = record[s].patch
             /\ record'[s].saved = record[s].saved
             /\ ~(t = s /\ (SaveApplied(r) \/ SaveFailed(r)))
    <2>1. record[s].status = "APPLYING" =>
            \E q \in Requests :
              op'[q].session = s /\ op'[q].pc \in UnderWay /\ op'[q].ws \in Workspaces
      <3> SUFFICES ASSUME record[s].status = "APPLYING"
                   PROVE  op'[r].session = s /\ op'[r].pc \in UnderWay /\ op'[r].ws \in Workspaces
        OBVIOUS
      <3>1. op[r].session = s /\ op[r].pc \in UnderWay /\ op[r].ws \in Workspaces
        BY <1>0, <1>2 DEF AheadOf, UnderWay, Applying, Busy
      <3> QED
        BY <1>0, <1>3, <3>1, UnderWayStep
    <2> QED
      BY <1>0, <1>1, <1>3, <2>1, AheadKept
  <1>4. CASE record'[s].status \in {"PROPOSED", "AWAITING_APPROVAL", "REJECTED", "FAILED"}
    BY <1>4 DEF AheadOf
  <1>5. CASE t = s /\ Records(r)
    <2>1. ASSUME NEW new, Save(t, new) PROVE record'[s] = new
      BY <1>0, <1>5, <2>1 DEF Save, TypeOK
    <2>2. CASE SaveApproved(r)
      <3>1. record'[s].status = "APPROVED" /\ record'[s].patch = record[s].patch
        BY <1>0, <1>5, <2>1, <2>2 DEF SaveApproved, Record
      <3>2. record[s].patch \in consent
        BY <1>0, <1>5, <2>2 DEF SaveApproved, ConsentInv, OperationsInPhase, AfterApproval
      <3> QED
        BY <1>1, <3>1, <3>2 DEF AheadOf
    <2>3. CASE Prepare(r)
      <3>1. record'[s].status = "APPLYING" /\ record'[s].patch = record[s].patch
        BY <1>0, <1>5, <2>1, <2>3 DEF Prepare, Record
      <3>2. record[s].patch \in consent
        BY <1>0, <1>5, <2>3 DEF Prepare, ConsentInv, OperationsInPhase, AfterApproval
      <3>3. op'[r].session = s /\ op'[r].pc = "check" /\ op'[r].ws \in Workspaces
        BY <1>0, <1>5, <2>3 DEF Prepare, Applicable, TypeOK, Operation
      <3> QED
        BY <1>1, <3>1, <3>2, <3>3 DEF AheadOf, UnderWay, Applying
    <2>4. CASE SaveApplied(r)
      <3>1. record'[s].status = "APPLIED" /\ record'[s].patch = record[s].patch
        BY <1>0, <1>5, <2>1, <2>4 DEF SaveApplied, Record
      <3>2. record[s].patch \in consent
        BY <1>0, <1>5, <2>4
        DEF SaveApplied, ConsentInv, OperationsInPhase, InEngine, SavedConsented
      <3> QED
        BY <1>1, <3>1, <3>2 DEF AheadOf
    <2>5. CASE SaveResult(r)
      <3>1. /\ record'[s].status = IF op[r].passed THEN "VERIFIED" ELSE "FAILED"
            /\ record'[s].patch = record[s].patch /\ record'[s].saved = record[s].saved
        BY <1>0, <1>5, <2>1, <2>5 DEF SaveResult, Record
      <3>2. /\ record[s].saved /\ record[s].patch \in consent
            /\ op[r].passed => session'[s].state = "SUCCESS"
        BY <1>0, <1>5, <2>5 DEF SaveResult, OutcomeOf, Applied, ConsentInv, SavedConsented
      <3> QED
        BY <1>1, <3>1, <3>2 DEF AheadOf
    <2>6. CASE SaveRolledBack(r)
      <3>1. record'[s].status = "ROLLED_BACK"
        BY <1>0, <1>5, <2>1, <2>6 DEF SaveRolledBack, Record
      <3>2. session'[s].state = "ROLLED_BACK"
        BY <1>0, <1>5, <2>6 DEF SaveRolledBack, OutcomeOf
      <3> QED
        BY <3>1, <3>2 DEF AheadOf
    <2> QED
      BY <1>5, <2>2, <2>3, <2>4, <2>5, <2>6 DEF Records
  <1>6. t = s /\ SaveApplied(r) => Records(r)
    BY DEF Records
  <1> QED
    BY <1>0, <1>3, <1>4, <1>5, <1>6, RecordSteps

\* So does every step of clients, editors, worker threads and a new process.
LEMMA OthersAhead ==
    ASSUME IInv, ConsentInv, AheadInv, [Next]_vars, NEW s \in Sessions,
           Sessioned \/ World \/ UNCHANGED vars \/ \E r \in Requests : Request(r)
    PROVE  AheadOf(s)'
  <1>0. TypeOK /\ OperationsReady /\ AheadOf(s)
    BY DEF IInv, AheadInv
  <1>1. CASE Restart
    <2>1. record'[s] = IF record[s].status = "APPLYING"
                         THEN [record[s] EXCEPT !.status = "RECOVERY_REQUIRED"]
                         ELSE record[s]
      BY <1>1 DEF Restart
    <2>2. consent' = consent /\ session' = session /\ record[s] \in Record
      BY <1>0, <1>1 DEF Restart, history, TypeOK
    <2> QED
      BY <1>0, <2>1, <2>2 DEF AheadOf, Record
  <1>2. ASSUME UNCHANGED <<record, consent>>, UNCHANGED op \/ LoopFree PROVE AheadOf(s)'
    <2>1. record[s].status = "APPLYING" => UNCHANGED op
      BY <1>0, <1>2 DEF AheadOf, LoopFree, UnderWay, Applying
    <2>2. record[s].status = "APPLYING" =>
            \E r \in Requests :
              op'[r].session = s /\ op'[r].pc \in UnderWay /\ op'[r].ws \in Workspaces
      BY <1>0, <2>1 DEF AheadOf
    <2> QED
      BY <1>0, <1>2, <2>2, AheadKept
  <1>3. CASE Sessioned
    BY <1>2, <1>3 DEF Sessioned, ClientTransition, StartAnalysis, FinishAnalysis,
       GenerateWithoutSources, history
  <1>4. CASE \/ \E w \in Workspaces : SelectWorkspace(w)
             \/ \E w \in Workspaces, f \in Files, e \in Edits : DeveloperWrites(w, f, e)
             \/ UNCHANGED vars
    BY <1>2, <1>4 DEF SelectWorkspace, DeveloperWrites, vars, rows, memory, history
  <1>5. ASSUME NEW r \in Requests, Request(r) PROVE AheadOf(s)'
    <2>1. LoopFree /\ UNCHANGED record
      BY <1>5 DEF Request, BeginGenerate, Reject, Approve, Rollback, Begin, rows
    <2>2. CASE consent' = consent
      BY <1>2, <2>1, <2>2
    <2>3. ASSUME NEW t \in Sessions, NEW p \in Patches, Reject(r, t, p) \/ Approve(r, t, p)
          PROVE  AheadOf(s)'
      <3>1. /\ record[t].patch = p /\ record[t].status = "AWAITING_APPROVAL"
            /\ consent \ {p} \subseteq consent'
        BY <2>3 DEF Reject, Approve, AwaitsDecision
      <3>2. record[s].patch \in consent =>
              record[s].patch \in consent' \/ record[s].status = "AWAITING_APPROVAL"
        BY <1>0, <3>1 DEF ConsentInv, ProposalsDiffer, TypeOK
      <3>3. record[s].status # "APPLYING"
        BY <1>0, <2>1 DEF AheadOf, LoopFree, UnderWay, Applying
      <3> QED
        BY <1>0, <2>1, <3>2, <3>3, AheadKept
    <2> QED
      BY <1>5, <2>2, <2>3 DEF Request, BeginGenerate, Rollback, history
  <1> QED
    BY <1>1, <1>3, <1>4, <1>5 DEF World

\* What a request begins with.
LEMMA RequestBegins ==
    ASSUME TypeOK, NEW r \in Requests, NEW s, NEW p
    PROVE  /\ BeginGenerate(r, s) =>
                /\ op'[r].pc = "provider" /\ op'[r].session = s
                /\ op'[r].revision = session[s].revision
           /\ Reject(r, s, p) => op'[r].pc = "save_rejected" /\ op'[r].session = s
           /\ Approve(r, s, p) =>
                /\ op'[r].pc = "save_approved" /\ op'[r].session = s
                /\ op'[r].revision = session[s].revision + 1
           /\ Rollback(r, s, p) =>
                /\ op'[r].pc = "rollback_check" /\ op'[r].session = s
                /\ op'[r].revision = session[s].revision /\ op'[r].todo = record[s].files
  <1>1. ASSUME NEW o, Begin(r, o) PROVE op'[r] = o
    BY <1>1 DEF Begin, TypeOK
  <1>2. BeginGenerate(r, s) =>
          /\ op'[r].pc = "provider" /\ op'[r].session = s
          /\ op'[r].revision = session[s].revision
    <2> DEFINE o == [Started(s, "provider", session[s].revision) EXCEPT
                       !.ws = selected, !.sources = disk[selected]]
    <2>1. o.pc = "provider" /\ o.session = s /\ o.revision = session[s].revision
      BY DEF Started
    <2>2. BeginGenerate(r, s) => Begin(r, o)
      BY DEF BeginGenerate
    <2> HIDE DEF o
    <2> QED
      BY <1>1, <2>1, <2>2
  <1>3. Rollback(r, s, p) =>
          /\ op'[r].pc = "rollback_check" /\ op'[r].session = s
          /\ op'[r].revision = session[s].revision /\ op'[r].todo = record[s].files
    <2> DEFINE o == [Started(s, "rollback_check", session[s].revision) EXCEPT
                       !.ws = selected, !.todo = record[s].files]
    <2>1. /\ o.pc = "rollback_check" /\ o.session = s
          /\ o.revision = session[s].revision /\ o.todo = record[s].files
      BY DEF Started
    <2>2. Rollback(r, s, p) => Begin(r, o)
      BY DEF Rollback
    <2> HIDE DEF o
    <2> QED
      BY <1>1, <2>1, <2>2
  <1>4. ASSUME NEW pc, NEW n, Begin(r, Started(s, pc, n))
        PROVE  op'[r].pc = pc /\ op'[r].session = s /\ op'[r].revision = n
    BY <1>1, <1>4 DEF Started
  <1> QED
    BY <1>2, <1>3, <1>4 DEF Reject, Approve

LEMMA AheadNext ==
    ASSUME IInv, ConsentInv, AheadInv, [Next]_vars
    PROVE  AheadInv'
  <1>0. TypeOK /\ OperationsReady
    BY DEF IInv
  <1>1. \A s \in Sessions : AheadOf(s)'
    BY ContinueAhead, OthersAhead DEF Next
  <1>2. ASSUME NEW r \in Requests, ~Busy(op'[r]) PROVE OutcomeOf(r)'
    BY <1>2 DEF OutcomeOf, Busy, Applied
  <1>3. ASSUME NEW r \in Requests, Continue(r) \/ Request(r) PROVE \A q \in Requests : OutcomeOf(q)'
    <2>1. \A q \in Requests \ {r} : ~Busy(op'[q])
      BY <1>0, <1>3, OthersWait
    <2>2. CASE Continue(r)
      BY <1>0, <1>2, <2>1, <2>2, OutcomeStep DEF AheadInv
    <2>3. CASE Request(r)
      <3>1. \A s \in Sessions : \A p :
              /\ BeginGenerate(r, s) => op'[r].pc = "provider"
              /\ Reject(r, s, p) => op'[r].pc = "save_rejected"
              /\ Approve(r, s, p) => op'[r].pc = "save_approved"
              /\ Rollback(r, s, p) => op'[r].pc = "rollback_check"
        BY <1>0, RequestBegins
      <3>2. op'[r].pc \in {"provider", "save_rejected", "save_approved", "rollback_check"}
        BY <2>3, <3>1 DEF Request
      <3> QED
        BY <1>2, <2>1, <3>2 DEF OutcomeOf, Applied
    <2> QED
      BY <1>3, <2>2, <2>3
  <1>4. CASE Sessioned
    <2>1. LoopFree /\ UNCHANGED op
      BY <1>4 DEF Sessioned, ClientTransition, StartAnalysis, FinishAnalysis,
         GenerateWithoutSources, memory
    <2> QED
      BY <1>1, <1>2, <2>1 DEF AheadInv, LoopFree, Busy
  <1>5. CASE \/ \E w \in Workspaces : SelectWorkspace(w)
             \/ \E w \in Workspaces, f \in Files, e \in Edits : DeveloperWrites(w, f, e)
             \/ UNCHANGED vars
    <2>1. UNCHANGED <<record, session, op>>
      BY <1>5 DEF SelectWorkspace, DeveloperWrites, vars, rows, memory
    <2> QED
      BY <1>1, <2>1 DEF AheadInv, OutcomeOf, Current
  <1>6. CASE Restart
    BY <1>1, <1>2, <1>6, IdleTyped DEF Restart, AheadInv, Busy
  <1> QED
    BY <1>1, <1>3, <1>4, <1>5, <1>6 DEF AheadInv, Next, World

LEMMA AheadInit == Init => AheadInv
  BY IdleTyped DEF Init, AheadInv, OutcomeOf, AheadOf, Applied, NoRecord

THEOREM PatchAheadInv == Spec => []AheadInv
  BY AheadInit, AheadNext, PatchIInv, PatchConsentInv, PTL DEF Spec

\* Whatever the moment the process ends and whatever clients ask of sessions, the
\* record of a patch claims only what has happened.
THEOREM PatchRecordNeverAhead == Spec => []RecordNeverAhead
  <1>1. AheadInv => RecordNeverAhead
    BY ConstantsAssumption DEF AheadInv, AheadOf, RecordNeverAhead
  <1> QED
    BY <1>1, PatchAheadInv, PTL

-----------------------------------------------------------------------------
(* The two tables agree between operations.                                *)

\* Agreement of the rows of one session.
Agrees(s) ==
    LET state == session[s].state
        rec   == record[s]
    IN  /\ state \notin {"PATCH_GENERATED", "PATCH_APPLYING", "TESTING"}
        /\ state = "AWAITING_APPROVAL" => rec.status = "AWAITING_APPROVAL"
        /\ state = "SUCCESS" <=> rec.status = "VERIFIED"
        /\ state = "ROLLED_BACK" <=> rec.status = "ROLLED_BACK"
        /\ rec.status \notin {"APPROVED", "APPLYING", "APPLIED", "RECOVERY_REQUIRED"}

\* The steps at which an operation has not yet written either row, and those
\* from which it goes on to write one.
Between ==
    {"provider", "rollback_check", "rollback_replace", "undo", "undo_replace", "conflict",
     "to_rolled_back"}

\* An operation has its session to itself.
ClaimsHeld ==
    /\ \A r \in Requests : op[r].pc # "idle" => op[r].session \in active
    /\ \A q, r \in Requests :
         op[q].pc # "idle" /\ op[r].pc # "idle" /\ op[q].session = op[r].session => q = r

\* The states that are not the patch workflow's own.
Outside == {"IDLE", "CAPTURED", "ANALYZING", "ROOT_CAUSE_FOUND", "FAILED"}

\* The state in which each step finds its session.
PhaseOf(r) ==
    LET state == session[op[r].session].state
        pc    == op[r].pc
    IN  /\ pc \in {"provider", "to_generated"} => state \in Outside
        /\ pc = "to_generated" => Current(r).status = "PROPOSED"
        /\ pc = "to_awaiting" => state = "PATCH_GENERATED"
        /\ pc = "save_awaiting" => state = "AWAITING_APPROVAL"
        /\ pc \in {"save_rejected", "save_failed"} => state = "FAILED"
        /\ pc \in AfterApproval \cup Applying \cup {"restore", "to_testing"} =>
             state = "PATCH_APPLYING"
        /\ pc \in {"select_test", "run_test", "finish"} => state = "TESTING"
        /\ pc = "fail_apply" => state \in {"PATCH_APPLYING", "TESTING"}
        /\ pc \in Between \ {"provider"} => state \in {"SUCCESS", "FAILED"}

\* The rows of a session agree, or an operation is about to make them agree.
Reconciled(s) ==
    Agrees(s) \/ \E r \in Requests : op[r].session = s /\ op[r].pc \notin Between \cup {"idle"}

AgreeInv ==
    /\ ClaimsHeld
    /\ \A r \in Requests : PhaseOf(r)
    /\ \A s \in Sessions : Reconciled(s)

\* The steps that move a session.
Movers == {"provider", "to_generated", "to_awaiting", "to_testing", "finish", "fail_apply",
           "to_rolled_back"}

\* The rows a step of an operation writes are those of its session.
LEMMA ContinueFrame ==
    ASSUME TypeOK, NEW r \in Requests, Continue(r)
    PROVE  /\ \A s \in Sessions \ {op[r].session} :
                session'[s] = session[s] /\ record'[s] = record[s]
           /\ op[r].pc \notin Movers => UNCHANGED session
           /\ crashes' = crashes
  <1> DEFINE t == op[r].session
             Goal == /\ \A s \in Sessions \ {t} :
                          session'[s] = session[s] /\ record'[s] = record[s]
                     /\ op[r].pc \notin Movers => UNCHANGED session
                     /\ crashes' = crashes
  <1>0. ASSUME UNCHANGED session \/ (op[r].pc \in Movers /\ \E target : Move(t, target)),
               UNCHANGED record \/ \E new : Save(t, new),
               crashes' = crashes
        PROVE  Goal
    BY <1>0 DEF Move, Save, TypeOK
  <1> USE DEF world
  <1>1. CASE \/ GenerateFails(r) \/ GenerateRepairs(r)
             \/ GenerateTransition(r) \/ GenerateAwaits(r) \/ StartTesting(r) \/ SelectTest(r)
             \/ RunTest(r) \/ Finish(r) \/ FailApply(r) \/ PrepareRefuses(r) \/ FinishRollback(r)
    BY <1>0, <1>1 DEF GenerateFails, FailGeneration, GenerateRepairs, GenerateTransition,
       GenerateAwaits, StartTesting, SelectTest, RunTest, Finish, FailApply, PrepareRefuses,
       FinishRollback, rows, Movers
  <1>2. CASE \/ \E p \in fresh, files \in (SUBSET Files) \ {{}} : GenerateProposes(r, p, files)
             \/ SaveAwaiting(r) \/ SaveRejected(r) \/ SaveApproved(r) \/ Prepare(r)
             \/ SaveApplied(r) \/ SaveResult(r) \/ SaveFailed(r) \/ SaveConflict(r)
             \/ SaveRolledBack(r)
    BY <1>0, <1>2 DEF GenerateProposes, SaveAwaiting, SaveRejected, SaveApproved, Prepare,
       SaveApplied, SaveResult, SaveFailed, SaveConflict, SaveRolledBack
  <1>3. CASE \/ \E f \in Files :
                  \/ CheckFile(r, f) \/ RestoreFile(r, f) \/ RollbackCheck(r, f)
                  \/ RollbackReplace(r, f) \/ UndoCheck(r, f)
             \/ ReplaceFile(r) \/ VerifyFile(r) \/ ApplyFault(r) \/ RestoreFault(r)
             \/ UndoReplace(r) \/ UndoFault(r) \/ RollbackFault(r)
    BY <1>0, <1>3 DEF CheckFile, RestoreFile, RollbackCheck, RollbackReplace, UndoCheck,
       ReplaceFile, VerifyFile, ApplyFault, RestoreFault, UndoReplace, UndoFault,
       RollbackFault, rows
  <1> QED
    BY <1>1, <1>2, <1>3 DEF Continue

\* The state in which the next step finds its session.
LEMMA PhaseStep ==
    ASSUME TypeOK, NEW r \in Requests, PhaseOf(r), Continue(r)
    PROVE  PhaseOf(r)'
  <1> DEFINE t == op[r].session
  <1>0. op[r] \in Operation /\ t \in Sessions
    BY OperationFacts
  <1>1. CASE op'[r].pc = "idle"
    BY <1>1 DEF PhaseOf, AfterApproval, Applying, Between
  <1>2. CASE Flows(r) /\ op[r].pc \notin Movers
    BY <1>2, ContinueFrame
    DEF Flows, FlowsTo, PhaseOf, AfterApproval, Applying, Between, Movers
  <1>3. ASSUME NEW target, NEW pc, Move(t, target), Goto(r, pc)
        PROVE  session'[op'[r].session].state = target /\ op'[r].pc = pc
    BY <1>0, <1>3 DEF Move, Moved, Goto, TypeOK, Operation
  <1>4. CASE Flows(r) /\ op[r].pc = "provider"
    <2>1. CASE GenerateRepairs(r)
      <3>1. session' = session /\ op'[r].pc = "provider" /\ op'[r].session = t
        BY <1>0, <1>4, <2>1 DEF GenerateRepairs, rows, TypeOK, Operation
      <3> QED
        BY <1>4, <3>1 DEF PhaseOf, AfterApproval, Applying, Between
    <2>2. CASE \E p \in fresh, files \in SUBSET Files : GenerateProposes(r, p, files)
      <3>1. /\ session' = session /\ op'[r].pc = "to_generated" /\ op'[r].session = t
            /\ record'[t].status = "PROPOSED"
        BY <1>0, <2>2 DEF GenerateProposes, Goto, Save, NoRecord, TypeOK, Operation
      <3> QED
        BY <1>4, <3>1 DEF PhaseOf, Current, AfterApproval, Applying, Between
    <2>3. ~GenerateFails(r)
      BY <1>0, <1>4, IdleTyped DEF GenerateFails, End, Flows, FlowsTo, TypeOK
    <2> QED
      BY <1>4, <2>1, <2>2, <2>3, StepAt
  <1>5. CASE Flows(r) /\ op[r].pc \in Movers \ {"provider"}
    <2>1. CASE GenerateTransition(r)
      <3>1. op'[r].pc = "to_awaiting"
        BY <1>5, <2>1 DEF GenerateTransition, Flows, FlowsTo
      <3>2. ~End(r)
        BY <1>0, <3>1, IdleTyped DEF End, TypeOK
      <3> QED
        BY <1>3, <2>1, <3>1, <3>2
        DEF GenerateTransition, PhaseOf, AfterApproval, Applying, Between
    <2>2. CASE GenerateAwaits(r) \/ StartTesting(r) \/ Finish(r) \/ FailApply(r)
                 \/ FinishRollback(r)
      BY <1>3, <2>2 DEF GenerateAwaits, StartTesting, Finish, FailApply, FinishRollback,
         PhaseOf, AfterApproval, Applying, Between
    <2> QED
      BY <1>5, <2>1, <2>2, StepAt DEF Movers
  <1>6. End(r) => op'[r].pc = "idle"
    BY IdleTyped DEF End, TypeOK
  <1> QED
    BY <1>1, <1>2, <1>4, <1>5, <1>6, ContinueFlows

\* The claims after a step of an operation.
LEMMA ClaimsStep ==
    ASSUME IInv, ConsentInv, AgreeInv, NEW r \in Requests, Continue(r)
    PROVE  ClaimsHeld'
  <1> DEFINE t == op[r].session
  <1>0. /\ TypeOK /\ OperationsReady /\ op[r] \in Operation /\ t \in Sessions
        /\ op[r].pc # "idle"
    BY OperationFacts, StepAt DEF IInv
  <1>1. ASSUME End(r) PROVE ClaimsHeld'
    <2>1. op'[r].pc = "idle" /\ active' = active \ {t}
          /\ \A q \in Requests \ {r} : op'[q] = op[q]
      BY <1>0, <1>1, IdleTyped DEF End, TypeOK
    <2> QED
      BY <1>0, <2>1 DEF AgreeInv, ClaimsHeld
  <1>2. ASSUME Flows(r) PROVE ClaimsHeld'
    <2>1. /\ op'[r].session = t /\ active' = active
          /\ \A q \in Requests \ {r} : op'[q] = op[q]
      BY <1>2 DEF Flows
    <2> QED
      BY <1>0, <2>1 DEF AgreeInv, ClaimsHeld
  <1> QED
    BY <1>0, <1>1, <1>2, ContinueFlows

\* An operation that ends leaves the rows of its session in agreement.
LEMMA EndAgrees ==
    ASSUME TypeOK, NEW r \in Requests, PhaseOf(r), OutcomeOf(r), Continue(r), End(r),
           NEW t \in Sessions, t = op[r].session, op[r].pc \in Between => Agrees(t)
    PROVE  Agrees(t)'
  <1>0. /\ Current(r) = record[t] /\ Current(r) \in Record
        /\ op'[r].pc = "idle"
    BY OperationFacts, IdleTyped DEF End, TypeOK
  <1>1. ASSUME UNCHANGED <<session, record>>, op[r].pc \in Between PROVE Agrees(t)'
    BY <1>1 DEF Agrees
  <1>2. CASE GenerateFails(r)
    <2>1. op[r].pc \in Between /\ UNCHANGED record
      BY <1>2 DEF GenerateFails, Between
    <2>2. CASE Move(t, "FAILED") /\ session[t].state = "ROOT_CAUSE_FOUND"
      <3>1. session'[t].state = "FAILED"
        BY <1>0, <2>2 DEF Move, Moved, TypeOK
      <3> QED
        BY <2>1, <2>2, <3>1 DEF Agrees
    <2> QED
      BY <1>1, <1>2, <2>1, <2>2 DEF GenerateFails, FailGeneration
  <1>3. ASSUME NEW new, Save(t, new), UNCHANGED session
        PROVE  record'[t] = new /\ session'[t] = session[t]
    BY <1>0, <1>3 DEF Save, TypeOK
  <1>4. CASE SaveAwaiting(r)
    <2>1. record'[t].status = "AWAITING_APPROVAL" /\ session'[t].state = "AWAITING_APPROVAL"
      BY <1>0, <1>3, <1>4 DEF SaveAwaiting, Record, PhaseOf
    <2> QED
      BY <2>1 DEF Agrees
  <1>5. CASE SaveRejected(r)
    <2>1. record'[t].status = "REJECTED" /\ session'[t].state = "FAILED"
      BY <1>0, <1>3, <1>5 DEF SaveRejected, Record, PhaseOf
    <2> QED
      BY <2>1 DEF Agrees
  <1>6. CASE SaveResult(r)
    <2>1. /\ record'[t].status = IF op[r].passed THEN "VERIFIED" ELSE "FAILED"
          /\ session'[t].state = IF op[r].passed THEN "SUCCESS" ELSE "FAILED"
      <3> DEFINE status == IF op[r].passed THEN "VERIFIED" ELSE "FAILED"
                 new    == [Current(r) EXCEPT !.status = status, !.tested = op[r].command]
      <3>1. new.status = status
        BY <1>0 DEF Record
      <3>2. Save(t, new) /\ UNCHANGED session /\ op[r].pc = "save_result"
        BY <1>6 DEF SaveResult
      <3> HIDE DEF new
      <3> QED
        BY <1>3, <3>1, <3>2 DEF OutcomeOf
    <2> QED
      BY <2>1 DEF Agrees
  <1>7. CASE SaveFailed(r)
    <2> DEFINE new == [Current(r) EXCEPT
                         !.status = "FAILED",
                         !.rollback = IF Current(r).saved THEN @ ELSE "UNAVAILABLE"]
    <2>1. new.status = "FAILED"
      BY <1>0 DEF Record
    <2>2. Save(t, new) /\ UNCHANGED session /\ session[t].state = "FAILED"
      BY <1>7 DEF SaveFailed, PhaseOf
    <2> HIDE DEF new
    <2> QED
      BY <1>3, <2>1, <2>2 DEF Agrees
  <1>8. CASE SaveConflict(r)
    <2>1. record'[t].status = record[t].status /\ session'[t] = session[t]
      BY <1>0, <1>3, <1>8 DEF SaveConflict, Record
    <2> QED
      BY <1>8, <2>1 DEF SaveConflict, Between, Agrees
  <1>9. CASE SaveRolledBack(r)
    <2>1. record'[t].status = "ROLLED_BACK" /\ session'[t].state = "ROLLED_BACK"
      <3> DEFINE new == [Current(r) EXCEPT !.status = "ROLLED_BACK", !.rollback = "COMPLETED"]
      <3>1. new.status = "ROLLED_BACK"
        BY <1>0 DEF Record
      <3>2. Save(t, new) /\ UNCHANGED session /\ op[r].pc = "save_rolled_back"
        BY <1>9 DEF SaveRolledBack
      <3> HIDE DEF new
      <3> QED
        BY <1>3, <3>1, <3>2 DEF OutcomeOf
    <2> QED
      BY <2>1 DEF Agrees
  <1>10. CASE \/ \E f \in Files :
                   RollbackCheck(r, f) \/ RollbackReplace(r, f) \/ UndoCheck(r, f)
              \/ UndoReplace(r) \/ UndoFault(r) \/ RollbackFault(r)
    BY <1>1, <1>10 DEF RollbackCheck, RollbackReplace, UndoCheck, UndoReplace, UndoFault,
       RollbackFault, rows, Between
  <1>11. ASSUME NEW pc \in Steps \ {"idle"}, Goto(r, pc) PROVE FALSE
    BY <1>0, <1>11 DEF Goto, TypeOK, Operation
  <1>12. CASE GenerateTransition(r)
    <2>1. op[r].pc = "to_generated" /\ UNCHANGED <<session, record>>
      BY <1>11, <1>12 DEF GenerateTransition, Steps
    <2> QED
      BY <1>0, <2>1 DEF PhaseOf, Agrees, Outside
  <1>13. CASE \/ GenerateAwaits(r) \/ SaveApproved(r) \/ PrepareRefuses(r) \/ SaveApplied(r)
              \/ StartTesting(r) \/ Finish(r) \/ FailApply(r) \/ FinishRollback(r)
    BY <1>11, <1>13 DEF GenerateAwaits, SaveApproved, PrepareRefuses, SaveApplied,
       StartTesting, Finish, FailApply, FinishRollback, Steps
  <1>14. CASE op[r].pc \in UnderWay
    BY <1>0, <1>7, <1>13, <1>14, UnderWayStep DEF UnderWay, Applying
  <1>15. CASE GenerateRepairs(r) \/ SelectTest(r) \/ RunTest(r)
    BY <1>0, <1>15 DEF GenerateRepairs, SelectTest, RunTest, Goto, TypeOK, Operation
  <1>16. CASE Prepare(r) \/ \E p \in fresh, files \in SUBSET Files : GenerateProposes(r, p, files)
    <2>1. CASE Prepare(r)
      BY <1>0, <2>1 DEF Prepare, TypeOK, Operation
    <2> QED
      BY <1>11, <1>16, <2>1 DEF GenerateProposes, Steps
  <1> QED
    BY <1>2, <1>4, <1>5, <1>6, <1>7, <1>8, <1>9, <1>10, <1>12, <1>13, <1>14, <1>15, <1>16
    DEF Continue, CheckFile, RestoreFile, ReplaceFile, VerifyFile, ApplyFault, RestoreFault,
        UnderWay, Applying

\* The rows of every session after a step of an operation.
LEMMA ReconciledStep ==
    ASSUME IInv, ConsentInv, AheadInv, AgreeInv, NEW r \in Requests, Continue(r),
           NEW s \in Sessions
    PROVE  Reconciled(s)'
  <1>0. /\ TypeOK /\ OperationsReady /\ op[r] \in Operation /\ op[r].pc # "idle"
        /\ PhaseOf(r) /\ OutcomeOf(r) /\ Reconciled(s)
        /\ \A q \in Requests \ {r} : op'[q] = op[q] /\ ~Busy(op[q])
    BY OperationFacts, OthersWait, StepAt DEF IInv, AheadInv, AgreeInv
  <1>1. op[r].session # s \/ op[r].pc \in Between => Agrees(s)
    BY <1>0 DEF Reconciled, Busy, Between
  <1>2. CASE op[r].session # s
    BY <1>0, <1>1, <1>2, ContinueFrame DEF Reconciled, Agrees
  <1>3. CASE op[r].session = s /\ End(r)
    BY <1>0, <1>1, <1>3, EndAgrees DEF Reconciled
  <1>4. CASE op[r].session = s /\ Flows(r)
    <2>1. CASE op'[r].pc \notin Between
      BY <1>4, <2>1 DEF Flows, FlowsTo, Reconciled
    <2>2. CASE op'[r].pc \in Between
      <3>1. op[r].pc \in Between /\ op[r].pc \notin {"conflict", "to_rolled_back"}
        BY <1>4, <2>2 DEF Flows, FlowsTo, Between
      <3>2. CASE op[r].pc = "provider"
        <4>1. op'[r].pc = "provider"
          BY <1>4, <2>2, <3>2 DEF Flows, FlowsTo, Between
        <4>2. GenerateRepairs(r)
          <5>1. ~GenerateFails(r)
            BY <1>0, <4>1, IdleTyped DEF GenerateFails, End, TypeOK
          <5>2. ~\E p \in fresh, files \in SUBSET Files : GenerateProposes(r, p, files)
            BY <1>0, <4>1 DEF GenerateProposes, Goto, TypeOK, Operation
          <5> QED
            BY <3>2, <5>1, <5>2, StepAt
        <4> QED
          BY <1>1, <3>1, <4>2 DEF GenerateRepairs, rows, Reconciled, Agrees
      <3>3. CASE op[r].pc # "provider"
        <4>1. UNCHANGED rows
          BY <3>1, <3>3, StepAt DEF Between, RollingBack, RollbackCheck, RollbackReplace,
             UndoCheck, UndoReplace, UndoFault, RollbackFault
        <4> QED
          BY <1>1, <3>1, <4>1 DEF rows, Reconciled, Agrees
      <3> QED
        BY <3>2, <3>3
    <2> QED
      BY <2>1, <2>2
  <1> QED
    BY <1>0, <1>2, <1>3, <1>4, ContinueFlows

LEMMA ContinueAgrees ==
    ASSUME IInv, ConsentInv, AheadInv, AgreeInv, NEW r \in Requests, Continue(r)
    PROVE  AgreeInv'
  <1>0. /\ TypeOK /\ OperationsReady /\ op[r].session \in Sessions /\ op[r].pc # "idle"
        /\ \A q \in Requests \ {r} : op'[q] = op[q]
    BY OperationFacts, OthersWait, StepAt DEF IInv
  <1>1. ASSUME NEW q \in Requests \ {r} PROVE PhaseOf(q)'
    <2>1. op[q].pc = "idle" \/ op[q].session \in Sessions \ {op[r].session}
      BY <1>0, OperationFacts DEF AgreeInv, ClaimsHeld
    <2> QED
      BY <1>0, <2>1, ContinueFrame
      DEF AgreeInv, PhaseOf, Current, AfterApproval, Applying, Between
  <1> QED
    BY <1>0, <1>1, PhaseStep, ClaimsStep, ReconciledStep DEF AgreeInv

\* A request finds the rows of its session in agreement.
LEMMA RequestAgrees ==
    ASSUME IInv, ConsentInv, AgreeInv, NEW r \in Requests, Request(r)
    PROVE  AgreeInv'
  <1>0. TypeOK /\ OperationsReady
    BY DEF IInv
  <1>a. PICK s \in Sessions :
          \E p : BeginGenerate(r, s) \/ Reject(r, s, p) \/ Approve(r, s, p) \/ Rollback(r, s, p)
    BY DEF Request
  <1>1. PICK p :
          BeginGenerate(r, s) \/ Reject(r, s, p) \/ Approve(r, s, p) \/ Rollback(r, s, p)
    BY <1>a
  <1>2. /\ \E o : Begin(r, o) /\ o.session = s
        /\ op'[r].session = s
    <2>1. \A o : Begin(r, o) => op'[r] = o
      BY <1>0 DEF Begin, TypeOK
    <2>2. \E o : Begin(r, o)
      BY <1>1 DEF BeginGenerate, Reject, Approve, Rollback
    <2>3. op'[r].session = s
      BY <1>0, <1>1, RequestBegins
    <2> QED
      BY <2>1, <2>2, <2>3
  <1>3. /\ LoopFree /\ op[r].pc = "idle" /\ s \notin active /\ active' = active \cup {s}
        /\ \A q \in Requests \ {r} : op'[q] = op[q]
    BY <1>0, <1>2 DEF Begin, TypeOK
  <1>4. /\ op'[r].pc \in {"provider", "save_rejected", "save_approved", "rollback_check"}
        /\ op'[r].pc = "provider" => BeginGenerate(r, s)
        /\ op'[r].pc = "rollback_check" => Rollback(r, s, p)
    BY <1>0, <1>1, RequestBegins
  <1>5. /\ record' = record
        /\ \A t \in Sessions \ {s} : session'[t] = session[t]
        /\ op'[r].pc \in {"provider", "rollback_check"} => session' = session
        /\ op'[r].pc = "save_rejected" => session'[s].state = "FAILED"
        /\ op'[r].pc = "save_approved" => session'[s].state = "PATCH_APPLYING"
        /\ session' = session \/ session[s].state = "AWAITING_APPROVAL"
    <2>1. CASE BeginGenerate(r, s) \/ Rollback(r, s, p)
      BY <1>0, <1>1, <2>1, RequestBegins DEF BeginGenerate, Rollback, rows
    <2>2. CASE Reject(r, s, p)
      BY <1>0, <2>2, RequestBegins DEF Reject, AwaitsDecision, Move, Moved, TypeOK
    <2>3. CASE Approve(r, s, p)
      BY <1>0, <2>3, RequestBegins DEF Approve, AwaitsDecision, Move, Moved, TypeOK
    <2> QED
      BY <1>1, <2>1, <2>2, <2>3
  <1>6. ClaimsHeld'
    BY <1>0, <1>2, <1>3 DEF AgreeInv, ClaimsHeld
  <1>8. ASSUME NEW q \in Requests PROVE PhaseOf(q)'
    <2>1. CASE q = r
      <3>1. op'[r].pc = "provider" => session[s].state = "ROOT_CAUSE_FOUND"
        BY <1>4 DEF BeginGenerate
      <3>2. op'[r].pc = "rollback_check" => session[s].state \in {"SUCCESS", "FAILED"}
        BY <1>4 DEF Rollback
      <3> QED
        BY <1>2, <1>4, <1>5, <2>1, <3>1, <3>2
        DEF PhaseOf, Outside, AfterApproval, Applying, Between
    <2>2. CASE q # r
      <3>1. op[q].pc = "idle" \/ op[q].session \in Sessions \ {s}
        BY <1>0, <1>3, OperationFacts DEF AgreeInv, ClaimsHeld
      <3> QED
        BY <1>3, <1>5, <2>2, <3>1
        DEF AgreeInv, PhaseOf, Current, AfterApproval, Applying, Between
    <2> QED
      BY <2>1, <2>2
  <1>9. ASSUME NEW t \in Sessions PROVE Reconciled(t)'
    <2>1. Agrees(t)
      BY <1>3 DEF AgreeInv, Reconciled, LoopFree, Between
    <2>2. CASE session'[t] = session[t]
      BY <1>5, <2>1, <2>2 DEF Reconciled, Agrees
    <2>3. CASE t = s /\ op'[r].pc \in {"save_rejected", "save_approved"}
      BY <1>2, <2>3 DEF Reconciled, Between
    <2> QED
      BY <1>4, <1>5, <2>2, <2>3
  <1> QED
    BY <1>6, <1>8, <1>9 DEF AgreeInv

\* The transitions that other services make, when clients ask for no state of the
\* patch workflow: none leaves a final state, and none enters one of its own.
LEMMA SessionedMoves ==
    ASSUME TypeOK, ClientTargets \subseteq Outside, Sessioned
    PROVE  /\ LoopFree /\ UNCHANGED <<record, active, op>>
           /\ \A s \in Sessions :
                \/ session'[s] = session[s]
                \/ /\ session[s].state \notin {"SUCCESS", "ROLLED_BACK"}
                   /\ session'[s].state \in Outside
  <1>1. LoopFree /\ UNCHANGED <<record, active, op>>
    BY DEF Sessioned, ClientTransition, StartAnalysis, FinishAnalysis, GenerateWithoutSources,
       memory
  <1>2. ASSUME NEW s \in Sessions, NEW target \in Outside, Move(s, target),
               session[s].state \notin {"SUCCESS", "ROLLED_BACK"}, NEW t \in Sessions
        PROVE  \/ session'[t] = session[t]
               \/ /\ session[t].state \notin {"SUCCESS", "ROLLED_BACK"}
                  /\ session'[t].state \in Outside
    BY <1>2 DEF Move, Moved, TypeOK
  <1>3. ASSUME NEW s \in Sessions, NEW target \in Outside, NEW revision,
               CanMove(s, target, revision)
        PROVE  session[s].state \notin {"SUCCESS", "ROLLED_BACK"}
    BY <1>3 DEF CanMove, Decidable, Successors, IsRetry, Outside
  <1>4. PICK s \in Sessions :
          \/ session' = session
          \/ \E target \in Outside :
               Move(s, target) /\ session[s].state \notin {"SUCCESS", "ROLLED_BACK"}
    <2>1. PICK s \in Sessions :
            \/ \E t \in ClientTargets : ClientTransition(s, t)
            \/ StartAnalysis(s)
            \/ \E t \in {"ROOT_CAUSE_FOUND", "FAILED"} : FinishAnalysis(s, t)
            \/ GenerateWithoutSources(s)
      BY DEF Sessioned
    <2>2. CASE \/ \E t \in ClientTargets : ClientTransition(s, t)
               \/ StartAnalysis(s)
               \/ \E t \in {"ROOT_CAUSE_FOUND", "FAILED"} : FinishAnalysis(s, t)
      <3>1. \/ session' = session
            \/ \E target \in Outside, revision \in {session[s].revision, analyzing[s]} :
                 Move(s, target) /\ CanMove(s, target, revision)
        BY <2>2 DEF ClientTransition, StartAnalysis, FinishAnalysis, Outside
      <3> QED
        BY <1>3, <3>1
    <2>3. CASE GenerateWithoutSources(s)
      BY <2>3 DEF GenerateWithoutSources, FailGeneration, Outside
    <2> QED
      BY <2>1, <2>2, <2>3
  <1> QED
    BY <1>1, <1>2, <1>4

LEMMA SessionedAgrees ==
    ASSUME TypeOK, AgreeInv, ClientTargets \subseteq Outside, Sessioned
    PROVE  AgreeInv'
  <1>0. /\ LoopFree /\ UNCHANGED <<record, active, op>>
        /\ \A s \in Sessions :
             \/ session'[s] = session[s]
             \/ /\ session[s].state \notin {"SUCCESS", "ROLLED_BACK"}
                /\ session'[s].state \in Outside
    BY SessionedMoves
  <1>1. ClaimsHeld'
    BY <1>0 DEF AgreeInv, ClaimsHeld
  <1>2. ASSUME NEW q \in Requests PROVE PhaseOf(q)'
    <2>1. op[q].pc \in {"idle", "provider"} /\ op' = op /\ op[q].session \in Sessions
      BY <1>0, OperationFacts DEF LoopFree
    <2>2. op[q].pc = "provider" => session'[op[q].session].state \in Outside
      BY <1>0, <2>1 DEF AgreeInv, PhaseOf
    <2> QED
      BY <2>1, <2>2 DEF PhaseOf, AfterApproval, Applying, Between
  <1>3. ASSUME NEW t \in Sessions PROVE Reconciled(t)'
    <2>1. Agrees(t)
      BY <1>0 DEF AgreeInv, Reconciled, LoopFree, Between
    <2> QED
      BY <1>0, <2>1 DEF Reconciled, Agrees, Outside
  <1> QED
    BY <1>1, <1>2, <1>3 DEF AgreeInv

LEMMA AgreeNext ==
    ASSUME ClientTargets \subseteq Outside, IInv, ConsentInv, AheadInv,
           crashes = 0 => AgreeInv, [Next]_vars
    PROVE  crashes' = 0 => AgreeInv'
  <1>0. TypeOK
    BY DEF IInv
  <1>1. CASE \/ \E w \in Workspaces : SelectWorkspace(w)
             \/ \E w \in Workspaces, f \in Files, e \in Edits : DeveloperWrites(w, f, e)
             \/ UNCHANGED vars
    <2>1. UNCHANGED <<session, record, active, op, crashes>>
      BY <1>1 DEF SelectWorkspace, DeveloperWrites, vars, rows, memory, world
    <2> QED
      BY <2>1 DEF AgreeInv, ClaimsHeld, PhaseOf, Current, Reconciled, Agrees
  <1>2. CASE Restart
    BY <1>0, <1>2 DEF Restart, TypeOK
  <1>3. CASE Sessioned
    <2>1. crashes' = crashes
      BY <1>3 DEF Sessioned, ClientTransition, StartAnalysis, FinishAnalysis,
         GenerateWithoutSources, world
    <2> QED
      BY <1>0, <1>3, <2>1, SessionedAgrees
  <1>4. ASSUME NEW r \in Requests, Request(r) PROVE crashes' = 0 => AgreeInv'
    <2>1. crashes' = crashes
      BY <1>4 DEF Request, BeginGenerate, Reject, Approve, Rollback, world
    <2> QED
      BY <1>4, <2>1, RequestAgrees
  <1>5. ASSUME NEW r \in Requests, Continue(r) PROVE crashes' = 0 => AgreeInv'
    BY <1>0, <1>5, ContinueFrame, ContinueAgrees
  <1> QED
    BY <1>1, <1>2, <1>3, <1>4, <1>5 DEF Next, World

LEMMA AgreeInit == Init => AgreeInv
  <1> SUFFICES ASSUME Init PROVE AgreeInv
    OBVIOUS
  <1>1. \A r \in Requests : op[r].pc = "idle"
    BY IdleTyped DEF Init
  <1>2. \A s \in Sessions : session[s].state = "IDLE" /\ record[s].status = "NONE"
    BY DEF Init, Created, NoRecord
  <1> QED
    BY <1>1, <1>2 DEF Init, AgreeInv, ClaimsHeld, PhaseOf, Reconciled, Agrees,
       AfterApproval, Applying, Between

\* Until the process first ends, and as long as clients ask for none of the patch
\* workflow's own states (those of the repository ask for CAPTURED only), the two
\* tables agree on every session that no operation holds, although each operation
\* writes them in separate transactions.
THEOREM PatchTablesAgree ==
    ASSUME ClientTargets \subseteq Outside
    PROVE  Spec => [](crashes = 0 => TablesAgree)
  <1>1. (crashes = 0 => AgreeInv) => (crashes = 0 => TablesAgree)
    BY DEF AgreeInv, ClaimsHeld, Reconciled, Agrees, TablesAgree
  <1>2. Init => (crashes = 0 => AgreeInv)
    BY AgreeInit
  <1>3. IInv /\ ConsentInv /\ AheadInv /\ (crashes = 0 => AgreeInv) /\ [Next]_vars
          => (crashes = 0 => AgreeInv)'
    BY AgreeNext
  <1> QED
    BY <1>1, <1>2, <1>3, PatchIInv, PatchConsentInv, PatchAheadInv, PTL DEF Spec

-----------------------------------------------------------------------------
(* Operations come to an end: none waits for what does not come, and each  *)
(* step brings its operation nearer to its last.                           *)

\* The next step of an operation can be taken: the state machine accepts the
\* transition it is about to make, and a loop has a file to go on with.
StepReady(r) ==
    LET s  == op[r].session
        pc == op[r].pc
    IN  /\ pc = "to_awaiting" => CanMove(s, "AWAITING_APPROVAL", op[r].revision + 1)
        /\ pc = "to_testing" => CanMove(s, "TESTING", op[r].revision)
        /\ pc = "finish" =>
             \A target \in {"SUCCESS", "FAILED"} : CanMove(s, target, op[r].revision + 1)
        /\ pc = "to_rolled_back" => CanMove(s, "ROLLED_BACK", op[r].revision)
        /\ pc = "fail_apply" =>
             \/ session[s].state = "PATCH_APPLYING" /\ session[s].revision = op[r].revision
             \/ session[s].state = "TESTING"
        /\ pc \in {"restore", "undo"} => op[r].done # {}
        /\ pc \in RollingBack => op[r].todo # {}

StepsReady == \A r \in Requests : StepReady(r)

\* The row each step finds, whatever clients do: they have to wait for the loop.
RowOf(r) ==
    LET row == session[op[r].session]
        pc  == op[r].pc
    IN  /\ pc = "to_awaiting" =>
             row.state = "PATCH_GENERATED" /\ row.revision = op[r].revision + 1
        /\ pc \in AfterApproval \cup Applying \cup {"restore", "to_testing"} =>
             row.state = "PATCH_APPLYING" /\ row.revision = op[r].revision
        /\ pc \in {"select_test", "run_test", "finish"} =>
             row.state = "TESTING" /\ row.revision = op[r].revision + 1
        /\ pc = "fail_apply" =>
             (row.state = "PATCH_APPLYING" /\ row.revision = op[r].revision)
               \/ row.state = "TESTING"
        /\ pc \in RollingBack \cup {"to_rolled_back"} =>
             row.state \in {"SUCCESS", "FAILED"} /\ row.revision = op[r].revision

\* The files a loop still has to visit.
LoopOf(o) ==
    /\ o.pc \in {"restore", "undo"} => o.done # {}
    /\ o.pc \in RollingBack => o.todo # {}
    /\ o.pc = "undo_replace" => o.file \in o.done

\* Every proposal has a file.
ProposalsHaveFiles == \A s \in Sessions : record[s].patch \in Patches => record[s].files # {}

ReadyInv == ProposalsHaveFiles /\ \A r \in Requests : RowOf(r) /\ LoopOf(op[r])

\* A save that changes neither the patch nor its files.
LEMMA SaveKeepsFiles ==
    ASSUME TypeOK, ProposalsHaveFiles, NEW s \in Sessions, NEW new, Save(s, new),
           new.patch \in Patches =>
             new.files # {} \/ (new.patch = record[s].patch /\ new.files = record[s].files)
    PROVE  ProposalsHaveFiles'
  BY DEF ProposalsHaveFiles, Save, TypeOK

LEMMA ProposalsStep ==
    ASSUME TypeOK, ProposalsHaveFiles, NEW r \in Requests, Continue(r)
    PROVE  ProposalsHaveFiles'
  <1>0. /\ op[r].session \in Sessions /\ Current(r) = record[op[r].session]
        /\ Current(r) \in Record
    BY OperationFacts
  <1>1. ASSUME NEW status, Save(op[r].session, [Current(r) EXCEPT !.status = status])
        PROVE  ProposalsHaveFiles'
    <2> DEFINE new == [Current(r) EXCEPT !.status = status]
    <2>1. new.patch = Current(r).patch /\ new.files = Current(r).files
      BY <1>0 DEF Record
    <2> HIDE DEF new
    <2> QED
      BY <1>0, <1>1, <2>1, SaveKeepsFiles DEF new
  <1>2. CASE SaveAwaiting(r) \/ SaveRejected(r) \/ SaveApproved(r) \/ SaveApplied(r)
    BY <1>1, <1>2 DEF SaveAwaiting, SaveRejected, SaveApproved, SaveApplied
  <1>3. CASE SaveResult(r)
    <2> DEFINE new == [Current(r) EXCEPT
                         !.status = IF op[r].passed THEN "VERIFIED" ELSE "FAILED",
                         !.tested = op[r].command]
    <2>1. new.patch = Current(r).patch /\ new.files = Current(r).files
      BY <1>0 DEF Record
    <2>2. Save(op[r].session, new)
      BY <1>3 DEF SaveResult
    <2> HIDE DEF new
    <2> QED
      BY <1>0, <2>1, <2>2, SaveKeepsFiles
  <1>4. CASE SaveFailed(r)
    <2> DEFINE new == [Current(r) EXCEPT
                         !.status = "FAILED",
                         !.rollback = IF Current(r).saved THEN @ ELSE "UNAVAILABLE"]
    <2>1. new.patch = Current(r).patch /\ new.files = Current(r).files
      BY <1>0 DEF Record
    <2>2. Save(op[r].session, new)
      BY <1>4 DEF SaveFailed
    <2> HIDE DEF new
    <2> QED
      BY <1>0, <2>1, <2>2, SaveKeepsFiles
  <1>5. CASE SaveConflict(r)
    <2> DEFINE new == [Current(r) EXCEPT !.rollback = "CONFLICT"]
    <2>1. new.patch = Current(r).patch /\ new.files = Current(r).files
      BY <1>0 DEF Record
    <2>2. Save(op[r].session, new)
      BY <1>5 DEF SaveConflict
    <2> HIDE DEF new
    <2> QED
      BY <1>0, <2>1, <2>2, SaveKeepsFiles
  <1>6. CASE SaveRolledBack(r)
    <2> DEFINE new == [Current(r) EXCEPT !.status = "ROLLED_BACK", !.rollback = "COMPLETED"]
    <2>1. new.patch = Current(r).patch /\ new.files = Current(r).files
      BY <1>0 DEF Record
    <2>2. Save(op[r].session, new)
      BY <1>6 DEF SaveRolledBack
    <2> HIDE DEF new
    <2> QED
      BY <1>0, <2>1, <2>2, SaveKeepsFiles
  <1>7. CASE Prepare(r)
    <2> DEFINE original == [f \in Files |-> IF f \in Current(r).files
                                              THEN disk[selected][f] ELSE {}]
               new == [Current(r) EXCEPT !.status = "APPLYING", !.saved = TRUE,
                         !.rollback = "AVAILABLE", !.original = original]
    <2>1. new.patch = Current(r).patch /\ new.files = Current(r).files
      BY <1>0 DEF Record
    <2>2. Save(op[r].session, new)
      BY <1>7 DEF Prepare
    <2> HIDE DEF new
    <2> QED
      BY <1>0, <2>1, <2>2, SaveKeepsFiles
  <1>8. ASSUME NEW p \in fresh, NEW files \in (SUBSET Files) \ {{}}, GenerateProposes(r, p, files)
        PROVE  ProposalsHaveFiles'
    <2> DEFINE base == [f \in Files |-> IF f \in files THEN op[r].sources[f] ELSE {}]
               new  == [NoRecord EXCEPT !.status = "PROPOSED", !.patch = p, !.files = files,
                                        !.base = base]
    <2>1. new.files # {}
      BY DEF NoRecord
    <2>2. Save(op[r].session, new)
      BY <1>8 DEF GenerateProposes
    <2> HIDE DEF new
    <2> QED
      BY <1>0, <2>1, <2>2, SaveKeepsFiles
  <1>9. CASE UNCHANGED record
    BY <1>9 DEF ProposalsHaveFiles
  <1>10. \/ UNCHANGED record
         \/ SaveAwaiting(r) \/ SaveRejected(r) \/ SaveApproved(r) \/ SaveApplied(r)
         \/ SaveResult(r) \/ SaveFailed(r) \/ SaveConflict(r) \/ SaveRolledBack(r) \/ Prepare(r)
         \/ \E p \in fresh, files \in (SUBSET Files) \ {{}} : GenerateProposes(r, p, files)
    BY DEF Continue, GenerateFails, GenerateRepairs, GenerateTransition, GenerateAwaits,
       PrepareRefuses, CheckFile, RestoreFile, ReplaceFile, VerifyFile, ApplyFault,
       RestoreFault, StartTesting, SelectTest, RunTest, Finish, FailApply, RollbackCheck,
       RollbackReplace, UndoCheck, UndoReplace, UndoFault, RollbackFault, FinishRollback, rows
  <1> QED
    BY <1>2, <1>3, <1>4, <1>5, <1>6, <1>7, <1>8, <1>9, <1>10

\* A move and a step of the operation that makes it.
LEMMA MoveAndGo ==
    ASSUME TypeOK, NEW r \in Requests, NEW target, NEW pc,
           Move(op[r].session, target), Goto(r, pc)
    PROVE  /\ op'[r].pc = pc /\ op'[r].session = op[r].session
           /\ op'[r].revision = op[r].revision
           /\ session'[op[r].session].state = target
           /\ session'[op[r].session].revision = session[op[r].session].revision + 1
  BY OperationFacts DEF Move, Moved, Goto, TypeOK, Operation

\* The row that the next step of an operation finds.
LEMMA RowStep ==
    ASSUME TypeOK, NEW r \in Requests, RowOf(r), Continue(r)
    PROVE  RowOf(r)'
  <1> USE DEF RowOf, AfterApproval, Applying, RollingBack
  <1>1. CASE End(r)
    <2>1. op'[r].pc = "idle"
      BY <1>1, IdleTyped DEF End, TypeOK
    <2> QED
      BY <2>1
  <1>2. CASE Flows(r) /\ op[r].pc \notin Movers
    BY <1>2, ContinueFrame DEF Flows, FlowsTo, Movers
  <1>3. CASE Flows(r) /\ op[r].pc = "provider"
    BY <1>3 DEF Flows, FlowsTo
  <1>4. ASSUME NEW target, NEW pc, Move(op[r].session, target), Goto(r, pc),
               \/ pc \in {"save_awaiting", "save_result", "save_failed", "save_rolled_back"}
               \/ /\ session[op[r].session].revision = op[r].revision
                  /\ \/ target = "PATCH_GENERATED" /\ pc = "to_awaiting"
                     \/ target = "TESTING" /\ pc = "select_test"
        PROVE  RowOf(r)'
    <2>1. /\ op'[r].pc = pc /\ op'[r].session = op[r].session
          /\ op'[r].revision = op[r].revision
          /\ session'[op[r].session].state = target
          /\ session'[op[r].session].revision = session[op[r].session].revision + 1
      BY <1>4, MoveAndGo
    <2> QED
      BY <1>4, <2>1
  <1>5. CASE Flows(r) /\ op[r].pc = "to_generated"
    <2>1. op'[r].pc = "to_awaiting"
      BY <1>5 DEF Flows, FlowsTo
    <2>2. ~End(r)
      BY <2>1, IdleTyped DEF End, TypeOK
    <2> QED
      BY <1>4, <1>5, <2>2, StepAt DEF GenerateTransition, CanMove
  <1>6. CASE op[r].pc \in {"to_awaiting", "to_testing", "finish", "fail_apply", "to_rolled_back"}
    <2>1. GenerateAwaits(r) \/ StartTesting(r) \/ Finish(r) \/ FailApply(r) \/ FinishRollback(r)
      BY <1>6, StepAt
    <2> QED
      BY <1>4, <2>1 DEF GenerateAwaits, StartTesting, Finish, FailApply, FinishRollback, CanMove
  <1> QED
    BY <1>1, <1>2, <1>3, <1>5, <1>6, ContinueFlows DEF Movers

\* The steps of a loop over files.
Looping == Applying \cup RollingBack \cup {"restore", "undo", "undo_replace"}

\* What a step of a loop over some files makes of the operation: n of o.
LoopGoes(o, n, files) ==
    \/ n.pc \notin Looping
    \/ o.pc = "check" /\ n.pc = "replace" /\ n.todo = o.todo
    \/ o.pc = "replace" /\ n.pc = "verify" /\ n.todo = o.todo
    \/ o.pc = "verify" /\ n.pc = "check" /\ n.todo = o.todo \ {o.file}
    \/ o.pc \in Applying /\ n.pc = "restore" /\ n.done = o.done /\ o.done # {}
    \/ /\ o.pc = "restore" /\ n.pc = "restore"
       /\ \E f \in o.done : o.done # {f} /\ n.done = o.done \ {f}
    \/ /\ o.pc \in RollingBack /\ n.pc = o.pc
       /\ \E f \in o.todo : o.todo # {f} /\ n.todo = o.todo \ {f}
    \/ /\ o.pc = "rollback_check" /\ n.pc = "rollback_replace"
       /\ o.todo # {} /\ n.todo = files
    \/ o.pc = "rollback_replace" /\ n.pc = "undo" /\ n.done = o.done /\ o.done # {}
    \/ o.pc = "undo" /\ n.pc = "undo_replace" /\ n.done = o.done /\ n.file \in o.done
    \/ /\ o.pc \in {"undo", "undo_replace"} /\ n.pc = "undo"
       /\ \E f : /\ IF o.pc = "undo" THEN f \in o.done ELSE f = o.file
                 /\ o.done # {f} /\ n.done = o.done \ {f}

LEMMA UndoneGoes ==
    ASSUME TypeOK, NEW r \in Requests, op[r].pc \in {"undo", "undo_replace"}, NEW f,
           IF op[r].pc = "undo" THEN f \in op[r].done ELSE f = op[r].file, Undone(r, f)
    PROVE  LoopGoes(op[r], op'[r], Current(r).files)
  <1> DEFINE o == [op[r] EXCEPT !.pc = "undo", !.done = @ \ {f}, !.file = NoFile]
  <1>1. o.pc = "undo" /\ o.done = op[r].done \ {f}
    BY OperationFacts DEF Operation
  <1>2. CASE End(r)
    BY <1>2, IdleTyped DEF End, TypeOK, LoopGoes, Looping, Applying, RollingBack
  <1>3. CASE op[r].done # {f} /\ op' = [op EXCEPT ![r] = o]
    <2>1. op'[r] = o
      BY <1>3 DEF TypeOK
    <2> HIDE DEF o
    <2> QED
      BY <1>1, <1>3, <2>1 DEF LoopGoes
  <1> QED
    BY <1>2, <1>3 DEF Undone

\* The steps of the loops.
LEMMA LoopSteps ==
    ASSUME TypeOK, NEW r \in Requests, Continue(r), op[r].pc \in Looping
    PROVE  LoopGoes(op[r], op'[r], Current(r).files)
  <1> DEFINE Goes(n) == LoopGoes(op[r], n, Current(r).files)
  <1>0. /\ op[r] \in Operation
        /\ \A o : op' = [op EXCEPT ![r] = o] => op'[r] = o
        /\ \A n : n.pc \notin Looping => Goes(n)
    BY OperationFacts DEF TypeOK, LoopGoes
  <1>1. ASSUME NEW pc, Goto(r, pc)
        PROVE  op'[r].pc = pc /\ op'[r].done = op[r].done /\ op'[r].todo = op[r].todo
    BY <1>0, <1>1 DEF Goto, TypeOK, Operation
  <1>2. CASE End(r)
    BY <1>0, <1>2, IdleTyped DEF End, Looping, Applying, RollingBack
  <1>3. CASE Unwind(r) /\ op[r].pc \in Applying
    BY <1>1, <1>3 DEF Unwind, Goto, LoopGoes, Looping, Applying, RollingBack
  <1>4. ASSUME NEW f \in Files, CheckFile(r, f) PROVE Goes(op'[r])
    <2> DEFINE o == [op[r] EXCEPT !.pc = "replace", !.file = f]
    <2>1. op[r].pc = "check" /\ (op' = [op EXCEPT ![r] = o] \/ Unwind(r))
      BY <1>4 DEF CheckFile
    <2>2. o.pc = "replace" /\ o.todo = op[r].todo
      BY <1>0 DEF Operation
    <2> HIDE DEF o
    <2>3. op'[r] = o \/ Unwind(r)
      BY <1>0, <2>1
    <2> QED
      BY <1>3, <2>1, <2>2, <2>3 DEF LoopGoes, Applying
  <1>5. CASE VerifyFile(r)
    <2> DEFINE o == [op[r] EXCEPT !.pc = "check", !.done = @ \cup {op[r].file},
                                  !.todo = @ \ {op[r].file}, !.file = NoFile]
    <2>1. op[r].pc = "verify" /\ (op' = [op EXCEPT ![r] = o] \/ Unwind(r))
      BY <1>5 DEF VerifyFile
    <2>2. o.pc = "check" /\ o.todo = op[r].todo \ {op[r].file}
      BY <1>0 DEF Operation
    <2> HIDE DEF o
    <2>3. op'[r] = o \/ Unwind(r)
      BY <1>0, <2>1
    <2> QED
      BY <1>3, <2>1, <2>2, <2>3 DEF LoopGoes, Applying
  <1>6. CASE ReplaceFile(r) \/ SaveApplied(r) \/ RestoreFault(r) \/ ApplyFault(r)
    BY <1>0, <1>1, <1>3, <1>6
    DEF ReplaceFile, SaveApplied, RestoreFault, ApplyFault, LoopGoes, Looping, Applying,
        RollingBack
  <1>7. ASSUME NEW f \in Files, RestoreFile(r, f) PROVE Goes(op'[r])
    <2> DEFINE o == [op[r] EXCEPT !.done = @ \ {f},
                        !.pc = IF op[r].done = {f} THEN "fail_apply" ELSE "restore"]
    <2>1. op' = [op EXCEPT ![r] = o] /\ f \in op[r].done /\ op[r].pc = "restore"
      BY <1>7 DEF RestoreFile
    <2>2. /\ o.pc = IF op[r].done = {f} THEN "fail_apply" ELSE "restore"
          /\ o.done = op[r].done \ {f}
      BY <1>0 DEF Operation
    <2> HIDE DEF o
    <2>3. op'[r] = o
      BY <1>0, <2>1
    <2> QED
      BY <2>1, <2>2, <2>3 DEF LoopGoes, Looping, Applying, RollingBack
  <1>8. ASSUME NEW f \in Files, RollbackCheck(r, f) PROVE Goes(op'[r])
    <2> DEFINE conflict == [op[r] EXCEPT !.pc = "conflict"]
               checked  == [op[r] EXCEPT !.pc = "rollback_replace", !.todo = Current(r).files]
               checking == [op[r] EXCEPT !.todo = @ \ {f}]
    <2>1. /\ conflict.pc = "conflict"
          /\ checked.pc = "rollback_replace" /\ checked.todo = Current(r).files
          /\ checking.pc = op[r].pc /\ checking.todo = op[r].todo \ {f}
      BY <1>0 DEF Operation
    <2>2. /\ op[r].pc = "rollback_check" /\ f \in op[r].todo
          /\ \/ op' = [op EXCEPT ![r] = conflict]
             \/ op' = [op EXCEPT ![r] = checked]
             \/ op[r].todo # {f} /\ op' = [op EXCEPT ![r] = checking]
      BY <1>8 DEF RollbackCheck
    <2> HIDE DEF conflict, checked, checking
    <2>3. \/ op'[r] = conflict
          \/ op'[r] = checked
          \/ op[r].todo # {f} /\ op'[r] = checking
      BY <1>0, <2>2
    <2> QED
      BY <2>1, <2>2, <2>3 DEF LoopGoes, Looping, Applying, RollingBack
  <1>9. ASSUME NEW f \in Files, RollbackReplace(r, f) PROVE Goes(op'[r])
    <2> DEFINE o == [op[r] EXCEPT !.todo = @ \ {f}, !.done = @ \cup {f},
                        !.pc = IF op[r].todo = {f} THEN "to_rolled_back" ELSE @]
    <2>1. op' = [op EXCEPT ![r] = o] /\ f \in op[r].todo /\ op[r].pc = "rollback_replace"
      BY <1>9 DEF RollbackReplace
    <2>2. /\ o.pc = IF op[r].todo = {f} THEN "to_rolled_back" ELSE op[r].pc
          /\ o.todo = op[r].todo \ {f}
      BY <1>0 DEF Operation
    <2> HIDE DEF o
    <2>3. op'[r] = o
      BY <1>0, <2>1
    <2> QED
      BY <2>1, <2>2, <2>3 DEF LoopGoes, Looping, Applying, RollingBack
  <1>10. CASE RollbackFault(r)
    BY <1>1, <1>2, <1>10 DEF RollbackFault, LoopGoes
  <1>11. ASSUME NEW f \in Files, UndoCheck(r, f) PROVE Goes(op'[r])
    <2> DEFINE o == [op[r] EXCEPT !.pc = "undo_replace", !.file = f]
    <2>1. /\ op[r].pc = "undo" /\ f \in op[r].done
          /\ op' = [op EXCEPT ![r] = o] \/ Undone(r, f)
      BY <1>11 DEF UndoCheck
    <2>2. o.pc = "undo_replace" /\ o.file = f /\ o.done = op[r].done
      BY <1>0 DEF Operation
    <2> HIDE DEF o
    <2>3. op'[r] = o \/ Undone(r, f)
      BY <1>0, <2>1
    <2> QED
      BY <2>1, <2>2, <2>3, UndoneGoes DEF LoopGoes
  <1>12. CASE UndoReplace(r)
    BY <1>12, UndoneGoes DEF UndoReplace
  <1> QED
    BY <1>2, <1>4, <1>5, <1>6, <1>7, <1>8, <1>9, <1>10, <1>11, <1>12, StepAt
    DEF Looping, UndoFault

\* The files left to visit after a step.
LEMMA LoopStep ==
    ASSUME TypeOK, NEW r \in Requests, ProgressKept(r), LoopOf(op[r]), Continue(r)
    PROVE  LoopOf(op'[r])
  <1>1. CASE op'[r].pc \notin Looping
    BY <1>1 DEF LoopOf, Looping
  <1>2. CASE op[r].pc \in Looping
    <2>1. LoopGoes(op[r], op'[r], Current(r).files)
      BY <1>2, LoopSteps
    <2>2. op[r].pc = "rollback_check" /\ op[r].todo # {} => Current(r).files # {}
      BY DEF ProgressKept
    <2> QED
      BY <2>1, <2>2 DEF LoopGoes, LoopOf, Looping, Applying, RollingBack
  <1>3. CASE op[r].pc \notin Looping /\ op'[r].pc \in Looping
    <2>1. End(r) => op'[r].pc = "idle"
      BY IdleTyped DEF End, TypeOK
    <2> QED
      BY <1>3, <2>1, ContinueFlows DEF Flows, FlowsTo, LoopOf, Looping, Applying, RollingBack
  <1> QED
    BY <1>1, <1>2, <1>3

\* A request finds its rows as they were read, and a rollback a file to check.
LEMMA RequestReady ==
    ASSUME TypeOK, OperationsReady, ConsentInv, ReadyInv, NEW r \in Requests, Request(r)
    PROVE  ReadyInv'
  <1>1. \A q \in Requests \ {r} : op'[q] = op[q] /\ ~Busy(op[q])
    BY OthersWait
  <1>2. PICK s \in Sessions :
          \/ BeginGenerate(r, s)
          \/ \E p \in Patches : Reject(r, s, p) \/ Approve(r, s, p) \/ Rollback(r, s, p)
    BY DEF Request
  <1>3. ASSUME BeginGenerate(r, s) PROVE record' = record /\ RowOf(r)' /\ LoopOf(op'[r])
    <2>1. op'[r].pc = "provider" /\ record' = record
      BY <1>3, RequestBegins DEF BeginGenerate, rows
    <2> QED
      BY <2>1 DEF RowOf, LoopOf, AfterApproval, Applying, RollingBack
  <1>4. ASSUME NEW p \in Patches, Reject(r, s, p)
        PROVE  record' = record /\ RowOf(r)' /\ LoopOf(op'[r])
    <2>1. op'[r].pc = "save_rejected" /\ record' = record
      BY <1>4, RequestBegins DEF Reject
    <2> QED
      BY <2>1 DEF RowOf, LoopOf, AfterApproval, Applying, RollingBack
  <1>5. ASSUME NEW p \in Patches, Approve(r, s, p)
        PROVE  record' = record /\ RowOf(r)' /\ LoopOf(op'[r])
    <2>1. /\ op'[r].pc = "save_approved" /\ op'[r].session = s
          /\ op'[r].revision = session[s].revision + 1
          /\ record' = record
      BY <1>5, RequestBegins DEF Approve
    <2>2. session'[s].state = "PATCH_APPLYING" /\ session'[s].revision = session[s].revision + 1
      BY <1>5 DEF Approve, Move, Moved, TypeOK
    <2> QED
      BY <2>1, <2>2 DEF RowOf, LoopOf, AfterApproval, Applying, RollingBack
  <1>6. ASSUME NEW p \in Patches, Rollback(r, s, p)
        PROVE  record' = record /\ RowOf(r)' /\ LoopOf(op'[r])
    <2>1. /\ op'[r].pc = "rollback_check" /\ op'[r].session = s
          /\ op'[r].revision = session[s].revision /\ op'[r].todo = record[s].files
          /\ record' = record /\ session' = session
      BY <1>6, RequestBegins DEF Rollback, rows
    <2>2. session[s].state \in {"SUCCESS", "FAILED"} /\ record[s].files # {}
      BY <1>6 DEF Rollback, ReadyInv, ProposalsHaveFiles
    <2> QED
      BY <2>1, <2>2 DEF RowOf, LoopOf, AfterApproval, Applying, RollingBack
  <1>7. record' = record /\ RowOf(r)' /\ LoopOf(op'[r])
    BY <1>2, <1>3, <1>4, <1>5, <1>6
  <1>8. ASSUME NEW q \in Requests \ {r} PROVE RowOf(q)' /\ LoopOf(op'[q])
    BY <1>1 DEF RowOf, LoopOf, Busy, AfterApproval, Applying, RollingBack
  <1> QED
    BY <1>7, <1>8 DEF ReadyInv, ProposalsHaveFiles

LEMMA ReadyNext ==
    ASSUME IInv, ConsentInv, EngineInv, ReadyInv, [Next]_vars
    PROVE  ReadyInv'
  <1>0. TypeOK /\ OperationsReady
    BY DEF IInv
  <1>1. CASE \/ \E w \in Workspaces : SelectWorkspace(w)
             \/ \E w \in Workspaces, f \in Files, e \in Edits : DeveloperWrites(w, f, e)
             \/ UNCHANGED vars
    <2>1. UNCHANGED <<session, record, op>>
      BY <1>1 DEF SelectWorkspace, DeveloperWrites, vars, rows, memory
    <2> QED
      BY <2>1 DEF ReadyInv, ProposalsHaveFiles, RowOf
  <1>2. CASE Restart
    <2>1. \A r \in Requests : op'[r].pc = "idle"
      BY <1>2, IdleTyped DEF Restart
    <2>2. \A s \in Sessions :
            record'[s].patch = record[s].patch /\ record'[s].files = record[s].files
      BY <1>0, <1>2 DEF Restart, TypeOK, Record
    <2> QED
      BY <2>1, <2>2
      DEF ReadyInv, ProposalsHaveFiles, RowOf, LoopOf, AfterApproval, Applying, RollingBack
  <1>3. CASE Sessioned
    <2>1. LoopFree /\ UNCHANGED <<record, op>>
      BY <1>3 DEF Sessioned, ClientTransition, StartAnalysis, FinishAnalysis,
         GenerateWithoutSources, memory
    <2>2. \A r \in Requests : RowOf(r)'
      BY <2>1 DEF LoopFree, RowOf, AfterApproval, Applying, RollingBack
    <2> QED
      BY <2>1, <2>2 DEF ReadyInv, ProposalsHaveFiles
  <1>4. ASSUME NEW r \in Requests, Request(r) PROVE ReadyInv'
    BY <1>0, <1>4, RequestReady
  <1>5. ASSUME NEW r \in Requests, Continue(r) PROVE ReadyInv'
    <2>1. RowOf(r)' /\ LoopOf(op'[r])
      BY <1>0, <1>5, RowStep, LoopStep DEF ReadyInv, EngineInv, EngineOf
    <2>2. ASSUME NEW q \in Requests \ {r} PROVE RowOf(q)' /\ LoopOf(op'[q])
      <3>1. op'[q] = op[q] /\ ~Busy(op[q])
        BY <1>0, <1>5, OthersWait
      <3> QED
        BY <3>1 DEF RowOf, LoopOf, Busy, AfterApproval, Applying, RollingBack
    <2> QED
      BY <1>0, <1>5, <2>1, <2>2, ProposalsStep DEF ReadyInv
  <1> QED
    BY <1>1, <1>2, <1>3, <1>4, <1>5 DEF Next, World

LEMMA ReadyInit == Init => ReadyInv
  <1> SUFFICES ASSUME Init PROVE ReadyInv
    OBVIOUS
  <1>1. \A r \in Requests : op[r].pc = "idle"
    BY IdleTyped DEF Init
  <1>2. \A s \in Sessions : record[s].patch = NoPatch
    BY DEF Init, NoRecord
  <1> QED
    BY <1>1, <1>2, ConstantsAssumption
    DEF ReadyInv, ProposalsHaveFiles, RowOf, LoopOf, AfterApproval, Applying, RollingBack

\* The rows and the files an operation needs are there when it comes to them.
THEOREM PatchReadyInv == Spec => []ReadyInv
  BY PatchIInv, PatchConsentInv, PatchEngineInv, ReadyInit, ReadyNext, PTL DEF Spec

\* No operation waits for what does not come: whatever clients and the developer
\* do, the state machine accepts the transition the operation is about to make, and
\* a loop over files has one to go on with.
THEOREM PatchStepsReady == Spec => []StepsReady
  <1>1. ASSUME TypeOK, ReadyInv, NEW r \in Requests PROVE StepReady(r)
    <2>1. /\ op[r].session \in Sessions
          /\ session[op[r].session].state \in DebugState
      BY <1>1, OperationFacts DEF TypeOK
    <2> QED
      BY <1>1, <2>1
      DEF ReadyInv, RowOf, LoopOf, StepReady, CanMove, Decidable, Successors, IsRetry,
          RollingBack
  <1>2. IInv /\ ReadyInv => StepsReady
    BY <1>1 DEF IInv, StepsReady
  <1> QED
    BY <1>2, PatchIInv, PatchReadyInv, PTL

\* How far an operation is from its end: the stage it is in, then the files its
\* loop still has to visit, then its place in the visit of one file.
Stage(pc) ==
    CASE pc = "save_approved" -> 8
      [] pc = "prepare" -> 7
      [] pc \in Applying -> 6
      [] pc \in {"restore", "to_testing"} -> 5
      [] pc \in {"provider", "select_test", "rollback_check"} -> 4
      [] pc \in {"to_generated", "run_test", "rollback_replace"} -> 3
      [] pc \in {"to_awaiting", "finish", "fail_apply", "undo", "undo_replace",
                 "to_rolled_back"} -> 2
      [] pc = "idle" -> 0
      [] OTHER -> 1

Unvisited(o) ==
    CASE o.pc \in Applying \cup RollingBack -> o.todo
      [] o.pc \in {"restore", "undo", "undo_replace"} -> o.done
      [] OTHER -> {}

Visit(o) ==
    CASE o.pc = "check" -> 2
      [] o.pc \in {"replace", "undo"} -> 1
      [] o.pc = "provider" /\ ~o.repaired -> 1
      [] OTHER -> 0

\* Operation n is nearer to its end than o.
Nearer(o, n) ==
    \/ Stage(n.pc) < Stage(o.pc)
    \/ /\ Stage(n.pc) = Stage(o.pc)
       /\ Cardinality(Unvisited(n)) < Cardinality(Unvisited(o))
    \/ /\ Stage(n.pc) = Stage(o.pc)
       /\ Cardinality(Unvisited(n)) = Cardinality(Unvisited(o))
       /\ Visit(n) < Visit(o)

\* A loop that has visited one more file.
LEMMA OneVisited ==
    ASSUME IsFiniteSet(Files), NEW o \in Operation, NEW n, NEW f, f \in Unvisited(o),
           Unvisited(n) = Unvisited(o) \ {f}, Stage(n.pc) = Stage(o.pc)
    PROVE  Nearer(o, n)
  <1>1. IsFiniteSet(Unvisited(o))
    <2>1. Unvisited(o) \subseteq Files
      BY DEF Unvisited, Operation
    <2> QED
      BY <2>1, FS_Subset
  <1>2. /\ Cardinality(Unvisited(n)) = Cardinality(Unvisited(o)) - 1
        /\ Cardinality(Unvisited(o)) \in Nat
    BY <1>1, FS_RemoveElement, FS_CardinalityType
  <1> QED
    BY <1>2 DEF Nearer

\* Each step of an operation brings it nearer to its end.
LEMMA ContinueNearer ==
    ASSUME IsFiniteSet(Files), TypeOK, NEW r \in Requests, ProgressKept(r), LoopOf(op[r]),
           Continue(r)
    PROVE  Nearer(op[r], op'[r])
  <1>0. op[r] \in Operation /\ op[r].pc # "idle"
    BY OperationFacts, StepAt
  <1>1. CASE End(r)
    <2>1. op'[r].pc = "idle"
      BY <1>1, IdleTyped DEF End, TypeOK
    <2> QED
      BY <1>0, <2>1 DEF Nearer, Stage
  <1>2. CASE Flows(r) /\ Stage(op'[r].pc) < Stage(op[r].pc)
    BY <1>2 DEF Nearer
  <1>3. CASE op[r].pc = "provider" /\ op'[r].pc = "provider"
    <2>1. GenerateRepairs(r)
      <3>1. ~GenerateFails(r)
        BY <1>3, IdleTyped DEF GenerateFails, End, TypeOK
      <3>2. ~\E p \in fresh, files \in SUBSET Files : GenerateProposes(r, p, files)
        BY <1>3 DEF GenerateProposes, Goto, TypeOK, Operation
      <3> QED
        BY <1>3, <3>1, <3>2, StepAt
    <2>2. ~op[r].repaired /\ op'[r].repaired
      BY <1>0, <2>1 DEF GenerateRepairs, TypeOK, Operation
    <2> QED
      BY <1>3, <2>2 DEF Nearer, Unvisited, Visit, Applying, RollingBack
  <1>4. CASE /\ op[r].pc \in Looping /\ op'[r].pc \in Looping
             /\ Stage(op'[r].pc) = Stage(op[r].pc)
    <2> DEFINE o == op[r]
               n == op'[r]
               Same == Stage(n.pc) = Stage(o.pc) /\ Unvisited(n) = Unvisited(o)
    <2>1. LoopGoes(o, n, Current(r).files)
      BY <1>4, LoopSteps
    <2>2. CASE \/ o.pc = "check" /\ n.pc = "replace" /\ n.todo = o.todo
               \/ o.pc = "replace" /\ n.pc = "verify" /\ n.todo = o.todo
               \/ o.pc = "undo" /\ n.pc = "undo_replace" /\ n.done = o.done
      <3>1. Same /\ Visit(n) < Visit(o)
        BY <1>4, <2>2 DEF Unvisited, Visit, Applying, RollingBack
      <3> QED
        BY <3>1 DEF Nearer
    <2>3. CASE \E f \in Unvisited(o) : Unvisited(n) = Unvisited(o) \ {f}
      BY <1>0, <1>4, <2>3, OneVisited
    <2>4. CASE o.pc = "verify" /\ n.pc = "check" /\ n.todo = o.todo \ {o.file}
      <3>1. o.file \in o.todo
        BY <2>4 DEF ProgressKept
      <3> QED
        BY <2>3, <2>4, <3>1 DEF Unvisited, Applying
    <2>5. CASE o.pc = "restore" /\ n.pc = "restore" /\ \E f \in o.done : n.done = o.done \ {f}
      BY <2>3, <2>5 DEF Unvisited, Applying, RollingBack
    <2>6. CASE o.pc \in RollingBack /\ n.pc = o.pc /\ \E f \in o.todo : n.todo = o.todo \ {f}
      BY <2>3, <2>6 DEF Unvisited, Applying, RollingBack
    <2>7. CASE /\ o.pc \in {"undo", "undo_replace"} /\ n.pc = "undo"
               /\ \E f \in o.done : n.done = o.done \ {f}
      BY <2>3, <2>7 DEF Unvisited, Applying, RollingBack
    <2>8. /\ ~(o.pc \in Applying /\ n.pc = "restore")
          /\ ~(o.pc = "rollback_check" /\ n.pc = "rollback_replace")
          /\ ~(o.pc = "rollback_replace" /\ n.pc = "undo")
      BY <1>4 DEF Stage, Applying
    <2> HIDE DEF o, n
    <2>9. o.pc = "undo_replace" => o.file \in o.done
      BY DEF LoopOf, o
    <2> QED
      BY <1>4, <2>1, <2>2, <2>4, <2>5, <2>6, <2>7, <2>8, <2>9 DEF LoopGoes, o, n
  <1> QED
    BY <1>1, <1>2, <1>3, <1>4, ContinueFlows
    DEF Flows, FlowsTo, Stage, Looping, Applying, RollingBack

\* Whatever takes a step of an operation, or changes it otherwise, brings it nearer
\* to its end.
OperationsFall ==
    \A r \in Requests :
        Continue(r) \/ (op[r].pc # "idle" /\ op'[r] # op[r]) => Nearer(op[r], op'[r])

LEMMA NextFalls ==
    ASSUME IsFiniteSet(Files), IInv, ConsentInv, EngineInv, ReadyInv, Next,
           NEW r \in Requests, Continue(r) \/ (op[r].pc # "idle" /\ op'[r] # op[r])
    PROVE  Nearer(op[r], op'[r])
  <1>0. TypeOK /\ OperationsReady
    BY DEF IInv
  <1>1. CASE Continue(r)
    BY <1>0, <1>1, ContinueNearer DEF ReadyInv, EngineInv, EngineOf
  <1>2. CASE Restart
    <2>1. op'[r].pc = "idle"
      BY <1>2, IdleTyped DEF Restart
    <2>2. op[r].pc # "idle"
      BY StepAt
    <2> QED
      BY <2>1, <2>2 DEF Nearer, Stage
  <1>3. CASE /\ ~Continue(r)
             /\ \/ Sessioned
                \/ \E w \in Workspaces : SelectWorkspace(w)
                \/ \E w \in Workspaces, f \in Files, e \in Edits : DeveloperWrites(w, f, e)
    BY <1>3 DEF Sessioned, ClientTransition, StartAnalysis, FinishAnalysis,
       GenerateWithoutSources, SelectWorkspace, DeveloperWrites, memory
  <1>4. ASSUME Request(r), ~Continue(r) PROVE FALSE
    BY <1>4 DEF Request, BeginGenerate, Reject, Approve, Rollback, Begin
  <1>5. ASSUME NEW q \in Requests \ {r}, Request(q) \/ Continue(q), ~Continue(r) PROVE FALSE
    BY <1>0, <1>5, OthersWait
  <1> QED
    BY <1>1, <1>2, <1>3, <1>4, <1>5 DEF Next, World

\* An operation that goes on ends: each step brings it nearer to its last, in an
\* order without infinite descent, and so does whatever else changes it.
THEOREM PatchOperationsFall ==
    ASSUME IsFiniteSet(Files)
    PROVE  Spec => [][OperationsFall]_vars
  <1>1. IInv /\ ConsentInv /\ EngineInv /\ ReadyInv /\ [Next]_vars => [OperationsFall]_vars
    BY NextFalls DEF OperationsFall
  <1> QED
    BY <1>1, PatchIInv, PatchConsentInv, PatchEngineInv, PatchReadyInv, PTL DEF Spec
=============================================================================
