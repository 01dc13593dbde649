# PocketPilot: TLA+ models, model checks and proofs

PocketPilot is a desktop agent (Python, FastAPI, SQLite) that helps a developer
debug from a phone.  The phone sends an error, a local model finds a root cause
and proposes a patch, a human approves it, the agent writes it to the
developer's files, runs the repository's tests, and can undo it.  Paths below
are relative to `src/services/agent/src/pocketpilot_agent/` unless they start
with `apps/`, `packages/` or `docs/`.

To repeat a check: `tlc -config PatchCrash.cfg MCPatchWorkflow.tla`; to repeat
the proofs: `tlapm SessionStoreProofs.tla`.  `PROJECT.json` lists every run, the
source lines behind every definition, the hazards and the findings.

## 1. The system

| Component | State it keeps | Operations | Hard behaviour | Correct when |
|---|---|---|---|---|
| State machine (`state_machine.py`) | none; a table | `decide`, `_event_for` | the retry boundary | every history is finite, every edge legal |
| Session service and store (`session_service.py`, `session_store.py`) | one SQLite row per session, an append-only event log, a lock per instance | create, transition, append_event, get, list, events | several instances on one file; stale clients; a crash between read and commit | log without gap or duplicate; row = fold of log; a revision names one state; only another instance overtakes |
| Event broker, event stream (`event_broker.py`, `sessions_api.py`) | subscriber queues of 100, the position of each socket | publish, subscribe, snapshot, forward, authenticate again | drops, reconnects, events both in a snapshot and in a queue | each event once, in order, none passed over, in the end all |
| Patch workflow (`patch_service.py`, `patch_store.py`) | one record per session, the set of active sessions | generate, approve, reject, rollback | awaits, two tables written in turn, a crash between, late decisions | only consented changes reach files; tables agree; every operation ends |
| Patch engine (`patch_engine.py`) | none; the developer's files | prepare, apply, rollback | an edit or an error between two file accesses | all or nothing; nobody's change lost |
| Patch validation, diff parser, selector | none | pure functions | hunk arithmetic at the edges | output equals the reference application of the hunks |
| Analysis (`analysis_service.py` and helpers) | sessions in flight, stored analyses | analyze | a client moves the session while the provider is awaited | a late answer changes nothing |
| Workspace (`workspace.py`, scanner, detector, security) | the selected workspace | inspect, commands, run_command | worker threads change the selection under an operation | an operation stays in the workspace it began with |
| Process runner (`runner.py`) | a process tree, two reader threads | run | timeout against exit, output budget | bounded time and output, no orphan |
| Device pairing (`device_registry.py`, `devices_api.py`, `device_auth.py`) | one pairing code, a table of devices | generate, pair, authenticate, revoke | two claims of one code, guesses, expiry, a restart | a code pairs at most one device; guesses are limited |
| Demo service | fixtures under version control | select, prepare, reset | reset while an operation runs | |
| Phone: app and client (`apps/mobile/App.tsx`, `src/state`, `src/api`, `src/auth`) | the session and patch on the screen, busy, the stored credential | every button, reconcile, expire, disconnect | answers out of order, lost, late; a credential refused | nothing decided on a stale screen, nothing created twice, no screen stuck, the newest state shown |
| Phone: bridge (`src/bridge`) | a socket, a timer, a position | connect, reconnect, disconnect, callbacks | late callbacks of a replaced socket | one connection |
| Phone: voice (`src/voice`) | the sheet's phase, a recognizer, a pending confirmation, a start-up lock | listen, confirm, cancel, execute | callbacks that come late, 30 seconds, a session that moves | a confirmation is used once, in time, for what was asked; never hangs |
| Phone: vision (`src/vision`) | the scanner's phase, temporary files | capture, choose, rotate, read, retake, analyze | answers after closing, failing steps | files live as long as they are needed; crops fit; the review is honest |
| Desktop dashboard (`apps/desktop-web`) | the session and patch on the screen, busy | the same API | a second client | as the phone |

How they interact.  HTTP handlers and all mutations of sessions run on the one
asyncio event loop of the agent.  `PatchService` and `AnalysisService` call
`DebugSessionService`, which commits to SQLite, and publish each event to the
broker.  Publishing and releasing a claim take an `asyncio.Lock` nobody holds
across an await, so they never yield: approve, reject and rollback keep the loop
from their first statement to their last, and only `generate` and `analyze`,
awaiting the provider, let others in.  Handlers declared with `def` (workspace
selection, demo reset) run in worker threads, and the developer's editor in
another process: they interleave with every file access of an operation.

The phone and the desktop are clients of the same API: a change carries the
revision, and a decision the patch, of the screen it was pressed on.  The phone
follows one session over a websocket; what it hears there makes it read the
session again (`reconcile`).  Answers, messages, timers and native callbacks run on
one JavaScript thread each, in any order.

## 2. The modules

    StateMachine            the rules of state_machine.py, pure operators
      SessionLifecycle      abstract: what happens to a session, one legal step at a time
        SessionLifecycleProofs
      SessionStore          sessions and their log, with instances, locks, crashes
        SessionStoreProofs      implements SessionLifecycle: proved
        MCSessionStore          two instances and three callers for TLC
      PatchWorkflow         PatchService + PatchStore + PatchEngine + the selection
        PatchWorkflowProofs     lifecycle, consent, files and tables: proved
        MCPatchWorkflow         symmetry for TLC
      AgentApi              the agent as its two clients see it
        PhoneWorkflow           the phone's dashboard
        DesktopDashboard        the desktop's dashboard
          Dashboards                both, composed
          DashboardsProofs          screens, calls and decisions: proved
          MCDashboards              the sessions from before, for TLC
    EventStream             broker, websocket endpoint and the phone's bridge
      PhoneTimeline           the list of events the phone makes of it
        EventStreamProofs       order and completeness, of both: proved
    DevicePairing           codes, devices, the phone's credential
      DevicePairingProofs     codes, guesses, credential: proved
    VoiceControl            the voice sheet
      VoiceControlProofs      silence and consent: proved
      MCVoiceControl          words and screens for TLC
    VisionCapture           the error scanner
      VisionCaptureProofs     files, areas and review: proved
      MCVisionCapture         pictures and texts for TLC

**StateMachine** translates `decide` and `_event_for`.  A request that `decide`
refuses changes nothing, so `Decidable` is a guard.

**SessionLifecycle** is the promise to everybody who holds a session:
a session is created once and makes one legal transition at a time, each of
which adds one to the revision.  Both detailed modules implement it.

**SessionStore**: `row` and `events` are the two tables; `lock` is `_lock` of
each `DebugSessionService`; `call` is a mutation that has read its row and not
yet committed; `snapshot` is the session as a client last read it, whose
revision the client sends back.  `BeginTransition` and `BeginAppend` are the part
of `transition` and `append_event` up to the store call, `Commit` and `Abort` the
two outcomes of the transaction (`RowMatches` its WHERE clause, `SequenceTaken`
the UNIQUE constraint), `Crash` the end of an instance's process.
`tests/test_session_store.py` opens two services on one file, hence `Services`.

**PatchWorkflow** follows an operation through `op[r].pc`, one step per database
commit, per file access and per read of the selection.  `Begin` is `_claim`, `End`
the `finally`.  `LoopFree` says when the event loop is free for another handler.
A file's content is the set of changes in it: the patches applied and the
edits made.  Two contents hash alike iff they are equal, applying patch `p` adds
`p`, and a wrong restore, a lost edit or a partial application is then visible as
a missing or a foreign element.  `Sessioned` holds the transitions others make
(clients, analyses), `World` what no handler controls: selection, developer,
operating-system errors and the end of the process.

**AgentApi** is the agent from outside: rows of sessions with their current patch,
and calls that are sent, served (in two steps when the model is awaited) and
answered in any order, with requests or answers lost and time limits that end a
call while the agent goes on.  What a call may do to a row is `Admits`, `Succeeds`
and `Fails`, the outcomes PatchWorkflow has in detail.  **PhoneWorkflow** and
**DesktopDashboard** have one action per button and one per answered handler;
`phone.busy` and `desk.busy` are the flags that switch buttons off.  The bridge in
PhoneWorkflow is what EventStream promises: a snapshot when it opens, then word
of every revision.  **Dashboards** composes the three.

**EventStream** joins `SessionEventBroker`, `stream_session_events`,
`PocketPilotSocket` and the channel between them.  `link[c]` is both ends and the
wire of the c-th socket, `phone` the fields of PocketPilotSocket.  A callback of a
socket that was replaced is delivered and ignored, as in the code.  Nothing is
awaited between commit and publish, or between subscribing and reading the
snapshot, so each pair is one step.

**PhoneTimeline** extends EventStream with what the app does around its bridge: the
handlers that open, resume, start and clear a session, each calling the bridge's
`Connect` or `Disconnect`, and the reducer's `shown`, which keeps for every number the
session whose event it has.  `fetches` are the requests of `openSession`, served
one by one, and of `startAnalysis`.
`unread` are the numbers behind the position that no handler asked for, which a
history has to name.

**DevicePairing** has the agent's one code in memory, `devices` in the database, the
phone's two screens, its secure storage as a queue of requests that are done in
order, or fail, and requests under way.  `pair` is two steps because the device is
inserted after the lock is let go.

**VoiceControl**: `attempts` are calls of `listen` that await the speaker's silence or
the permission, `mic` the recognizer, `running` the actions of the app a phrase
started.  `listenVersion` only tells whether something is older than the last
increment, so each carries that answer (`current`).

**VisionCapture**: `calls` are the native calls awaited, `files` what is on the
phone, `lost` (a history) what an answer came too late for or replaced.  `Plan` is the
arithmetic of `preprocessImage`, `Result` the trimming and the quality of the text.
A line is what each pattern of the code finds in it, independently: `anchor` and
`trace` are the two of `postprocessor.ts`, `tokens` the one of `quality.ts`, `secret`
those of `privacy.ts`.  So a line may be technical to the quality check and nothing to
the cut (`src.main started`), or the other way round.  Length is kept as `brief`, how
many of the last lines are below 24 characters together.

Abstractions, and why they do not hide what the properties look at:

- `prepare` and the validator read all files in one step.  Whatever they read
  must equal the base hash or the step refuses, so a later moment of reading gives
  the same snapshot.
- Proposals of risk HIGH or BLOCKED are proposals nobody approves.
- Contents of proposals, prompts and test output are left out; a provider answers
  well, badly or not, and a command passes, fails or is unknown.
- Progress events of patch operations are left out (SessionStore has them); they
  cannot fail for a conflict while the agent is alone on its database, which
  `OnlyOthersOvertake` shows.  Errors of SQLite itself are not modelled.
- Test commands do not change files.
- Sessions exist from the start in PatchWorkflow; creation is in SessionStore.
- The operating system fails at most `MaxFaults` file accesses.
- A read of the API is served when it is sent, and its answer takes any time; two
  equal reads in flight count as one.
- Of texts (errors, phrases) only the kind is kept, of a line that was read which
  patterns match it, of a pairing code only equality.
- Clocks are actions: a code expires, a token expires, a confirmation is too old, a
  timer fires, whenever they may.

## 3. The runs

Every run sets the constants by name; a bound that is never reached is left large.

| Run | Question | Bounds, and why they are enough |
|---|---|---|
| `store_shared` | Do two instances keep row and log consistent, with crashes, and does the lock spare an instance its own conflicts? | two callers share a lock, a third has its own; revision 7 passes through both retries and a rollback; progress events up to sequence 4 fall before, between and after the first transitions; one session (sessions share nothing but the lock) |
| `patch_concurrent` | Consent, atomicity and agreement of the tables under interleaving | two requests (a claim conflict needs two), two files (a half needs two), two proposals (a late decision needs two), two workspaces, two edits, one failing access |
| `patch_crash` | What survives the end of the process, and an arbitrary client after it | one crash at any step, every target state for clients, every fault point, two faults so that the second may strike the compensation of the first; all retries |
| `patch_liveness` | Does every operation end, every approval conclude, and do two sessions respect each other's patch? | two sessions, one file, one failing replacement; without symmetry, which liveness does not allow |
| `stream` | Does the phone see its session's events once, in order, without gaps and to the end? | two sessions (a change of session resets the position), queue of one (it overflows at the second event), three events, two calls of the bridge and one fault: three sockets, so that callbacks of two replaced ones may be late |
| `dashboards` | Can either screen decide on something stale, create twice, be stuck, or miss a change? | two sessions at most, from three histories (none; a patch to decide beside a verified one; two rejected ones with one retry left); two presses on either client, or one and a lost call |
| `timeline` | Does the phone's list of events have every number its position passed? | two sessions, new or captured; three events, queue of one; one request of the app and two calls of the bridge under way with one fault: an answer and a message may both be late |
| `voice` | Can a late callback, a late "yes" or a moved session make voice do what nobody asked, or hang? | nine words, five screens, four taps on the microphone: an attempt, its cancellation, a confirmation and one more |
| `vision` | Do files live exactly as long as needed, do crops fit, is the review honest, does reading end? | two calls awaited at once (a late answer needs a second), three files; a picture 3 wide and 4000 long, at the edge of both roundings; four texts: an error below six lines (as many as are cut), some with technical tokens or a secret, so that GOOD becomes POOR; an error below seven (kept); one below a trace (kept) and noise; nothing |
| `pairing` | One device per code, limited guesses, the credential kept, a refused phone back to pairing | two phones, two codes of two possible digits (so that a new code may equal the old), one attempt, one fault; a phone disconnects while its storage is idle (`MaxAsked`): pressed again, with a third code and a second fault, in `PairingAgain.cfg`, and any number of times in the theorems |
| two `violation` runs | see section 5 | one property each |

`CHECK_DEADLOCK FALSE` stands where the system may really come to rest: the bounded
world runs out of proposals, presses, calls and taps.  `store_shared` keeps the
deadlock check: a client can always read.

The properties, by what they would catch:

- *Sessions*: `RetriesBoundRevision` (a budget that does not bound),
  `LogContiguous`, `RowIsFoldOfLog`, `LogIsLegalPath` (two writers interleaved),
  `RevisionIdentifiesState` (a client deciding on something it did not see),
  `OnlyOthersOvertake` (an operation killed by its own progress report).  The last is
  about what the lock of a `DebugSessionService` gives to callers on several threads;
  in the deployed agent every mutation runs on one event loop with nothing awaited
  between read and commit, so the lock never has two contenders there.
- *Files*: `ConsentedChangesOnly`, `AllOrNothing`, `NoChangeLost`,
  `SnapshotBeforeWrite`.  `NoChangeLost` allows one window, and names it: an edit
  made after the engine last read that very file (`unseen`).  Where the engine reads
  right before it renames, no program of that kind can close it.  The loop that
  restores originals after a failed application (`patch_engine.py:97`) does not read
  again: an edit made since the file was patched and verified is overwritten there,
  which another look would have narrowed to the same instant.
- *Tables*: `TablesAgree` between operations without a crash, `RecordNeverAhead`
  with crashes and arbitrary clients.
- *Stream*: `OneConnection`, `InOrderOnce`, `NothingSkipped`, and `CatchesUp`;
  for the list made of it `ListMeetsPosition`.
- *Screens*: `DecidesWhatWasShown`, `OnePressOneSession`, `BusyOnlyWhileWaiting`,
  and `NothingIsMissed`.
- *Voice*: `ConfirmedOnly`, `CalledOffStaysSilent`, `LockIsHeld`, `WorkEnds`.
- *Vision*: `FilesInUse` and `SomeoneRemoves` (too early, never), `PlansFit`,
  `ReviewIsHonest`, `ReadingEnds`.
- *Pairing*: `OneDevicePerCode`, `GuessesAreLimited`, `CredentialIsKept`,
  `RefusedReturns`.
- *Liveness of the workflow*: `OperationsEnd`, `ApprovalConcludes`.

The type invariants of EventStream, PhoneTimeline, Dashboards, VoiceControl,
VisionCapture and DevicePairing (`TypeOK`, `TimelineTypeOK`) are not listed in their
runs, whose places go to what could be wrong; add them to the cfg to check them.
PatchWorkflow's is proved.

Fairness is asked only of what cannot stop by itself:

- PatchWorkflow: `WF(Continue(r))` for every request that has begun.  asyncio runs
  ready tasks in FIFO order, file accesses and commits return, and the provider is
  awaited through `asyncio.wait_for` with a timeout (`patch_service.py:120`, `:159`).
  The liveness run has no crash: after one, `_active` is empty and the session waits
  for a client, as section 5 says.
- EventStream: timers fire, the endpoint's coroutines run, the channel delivers or
  is cut (which the phone notices by a close).
- Dashboards: the agent answers, or the call's time limit does (a failing call is an
  answer); messages arrive.
- VoiceControl: promises settle, a recognizer ends (its silence limit), timers fire,
  and a call of the agent ends (`apps/mobile/src/api/client.ts:57` limits it).
- VisionCapture: the native modules answer each call, well or with an error.
- DevicePairing: the endpoint looks at the token of an open socket every five
  seconds at least (`sessions_api.py:194`), and the secure storage ends what it was
  asked, well or not.

People, developers, selections, failures, revocations and crashes are never obliged
to happen.

Every property of a passing run has a mutant in `PROJECT.json`: a definition
marked *Faulty variant* in the module, with a plausible bug, under which TLC
finds the property violated.

Further configurations, for runs by hand (all but the last two end in a violation,
which section 5 explains):

| Configuration | Module | Shows |
|---|---|---|
| `PatchRollbackRace.cfg` | MCPatchWorkflow | `RollbackKeepsEdits` violated |
| `PatchRetryOverwrites.cfg` | MCPatchWorkflow | `RollbackStaysPossible` violated |
| `PatchFalseConflict.cfg` | MCPatchWorkflow | `ConflictMeansEdit` violated |
| `PatchTestedElsewhere.cfg` | MCPatchWorkflow | `TestedWherePatched` violated |
| `StreamDropped.cfg` | EventStream | `DroppedIsRecovered` violated |
| `TimelineRestored.cfg`, `TimelineMixed.cfg` | PhoneTimeline | `RestoredIsReconciled`, `OneSessionIsShown` violated |
| `VoiceClosed.cfg`, `VisionFiles.cfg` | MCVoiceControl, MCVisionCapture | `CloseInvalidates`, `DeletedAfterUse` violated |
| `VisionTrimmed.cfg`, `VisionPoor.cfg` | MCVisionCapture | `TrimsNothingTechnical`, `PoorIsCorrected` violated |
| `PairingAgain.cfg` | DevicePairing | the properties of `pairing` on one phone that pairs three times, with two faults and DISCONNECT pressed again while the storage works |
| `SessionLifecycle.cfg` | SessionLifecycle | the abstract lifecycle of two sessions: the retry budget alone makes it finite (215 x 215 states) |

## 4. The proofs

TLAPS proves for every value of the constants:

- `SessionLifecycleProofs`: the type invariant; `Progress`, by the fact that each
  transition other than a retry climbs `Rank` by at least one (`RankRises`) while a
  retry falls by six and uses up one of `MaxRetries`; and from it that no session
  ever makes more than 23 transitions.
- `SessionStoreProofs`: type invariant, `LogContiguous`, `LogIsLegalPath`,
  `RowIsFoldOfLog`, `RevisionIdentifiesState`, the refinement of SessionLifecycle and what follows from
  it for the rows of the store (`RetriesBoundRevision`, the 23 transitions),
  `OnlyOthersOvertake`, and, assuming that all callers use one instance, that no
  mutation is refused at its commit.
- `PatchWorkflowProofs`: the type invariant of the patch workflow, its refinement
  of SessionLifecycle and the bound of 23 transitions that follows from it.
  For every interleaving, failing access, crash and client: `ConsentedChangesOnly`,
  `SnapshotBeforeWrite`, `NoChangeLost`, `RecordNeverAhead`, and that an application,
  a rollback or a conflict that is reported is one (`SuccessIsComplete`, three of the
  four clauses of `AllOrNothing`).  With a hypothesis each: `AllOrNothing` if neither
  the read that verifies a write nor the restoring itself fails
  (`FaultPoints \cap {"verify", "restore"} = {}`), and `TablesAgree` until the first
  crash if clients ask for none of the patch workflow's own states (the repository's
  ask for CAPTURED only, and so does the run).  Neither hypothesis can go:
  `patch_verify_fault` is a counterexample to the first, a crash between two commits
  or a client that itself asks for PATCH_GENERATED one to the second.  Of the way to
  `OperationsEnd`, all but the fairness: that no operation waits for what does not
  come (`StepsReady`) and that each step brings it nearer to its end
  (`OperationsFall`, for any finite number of files).
- `EventStreamProofs`: `OneConnection`, `InOrderOnce` and `NothingSkipped`, for any
  queue size, any number of sockets, events, calls and faults; that PhoneTimeline's
  handlers keep all three; and `ListMeetsPosition`.
- `DashboardsProofs`: the types, `OnePressOneSession`, `BusyOnlyWhileWaiting` and the
  action property `DecidesWhatWasShown`, for any sessions, presses, lost calls and
  orders of answers on both screens.
- `DevicePairingProofs`: `OneDevicePerCode`, `GuessesAreLimited`, `CredentialIsKept`.
- `VisionCaptureProofs`: `FilesInUse`, `SomeoneRemoves`, `PlansFit` for pictures of
  every size, and `ReviewIsHonest` for texts of every length, whatever the patterns
  find in their lines.
- `VoiceControlProofs`: `ConfirmedOnly`, `CalledOffStaysSilent`, `LockIsHeld`.

The inductive invariant of the store, `IInv`, is needed because a commit writes
what an *earlier* read decided.  `CallsEarlier` and `SnapshotsEarlier` say that what
a pending call or a client has read is an earlier version of the row: its revision
and sequence are no larger, and equal revisions mean equal state and retry count.
`CallsLegal` says that a pending transition was legal for what it read.  So when
`RowMatches` holds at the commit, the decision is legal for the row as it is.
`persist_transition` does not compare the sequence, and there the argument is
another one: `LogContiguous` puts an event at every number up to the row's
sequence, so a stale sequence is taken and the INSERT fails.
`LastEventIsState` carries the state of the last event from one commit to the
next, which `LogIsLegalPath` needs.  `RowIsFoldOfLog` adds `RowsCount`: revision and
retry count are the cardinalities of the sets of transitions and retries in the log.
An event that is appended has a new number, so each set grows by one or not at all;
which of them is what `EventFor` says, and the proof uses that exactly the retries
have RETRY_STARTED for their event (`RetryIsNamed`).

The refinement of the patch workflow needs no invariant but the type: each of
its transitions is guarded by `CanMove` or starts in the one state its handler
checked.  The type invariant needs `OperationsReady`: an operation past the
provider works on a session that has a proposal and, between its access to a file
and the next, holds a file; otherwise the engine would render `NoPatch`, or write
`NoFile`.

`ConsentInv` is about where a patch may be: in files and in stored originals
(`Carried`).  A patch that nobody has seen is `fresh`, and each belongs to one
session (`ProposalsDiffer`).  Until its snapshot a patch is carried nowhere
(`SnapshotFirst`); so the snapshot itself is free of it, and a decision, which
needs a record without a snapshot (`SavedConsented`), is never about a patch that
a file already has.  The engine accesses files only for a record that has its
snapshot (`OperationsInPhase`), and a snapshot is made only of what was approved.
The phases hold because the loop belongs to one operation (`OneBusy`): no other
operation decides or proposes between an approval and the last file.  The proof
sorts the steps by what they do (`Advances`, `RecordsKeep`, `FilesKeep`) and treats
a proposal, a snapshot and the two decisions one by one.

Of one operation between two accesses `EngineInv` says four things: the snapshot is
what the files held when it began (`SnapshotHeld`), `todo` and `done` split the files
of the patch (`ProgressKept`), every file the developer leaves alone holds what `done`
says of it (`FilesMatch`), and a file the developer has not touched since the engine
read it still holds what was read (`SeenMatch`).  The third gives `AllOrNothing`, the
fourth `NoChangeLost`.  That other operations do not disturb them rests on
`ConsentInv`: only one operation at a time is in the files.  The failing step of
`FilesMatch` is where the hypothesis on faults comes in: a read that fails after its
write leaves a file that is in neither `done` nor `todo`.

`AheadInv` adds to `RecordNeverAhead` what an operation that is about to write its
record has done (`OutcomeOf`), and that SUCCESS is left only by a rollback, whatever
a client asks for (`FinalMoves`).  `AgreeInv` needs more, because the two tables are
written in turn: each operation has its session to itself (`ClaimsHeld`), finds it in
the state its step expects (`PhaseOf`), and tables that differ have an operation past
its first write that will make them agree (`Reconciled`).

`ReadyInv` is what an operation's next step needs and an earlier one left: the row in
the state and revision at which the state machine accepts the transition (`RowOf`), a
file for each loop to go on with (`LoopOf`), and a file in every proposal.  Clients
cannot disturb the row because they wait for the loop, which an operation that is not
with the provider does not give up.  `Nearer` orders operations by the stage they are
in, then by how many files their loop has still to visit, then by the place in the
visit of one file; natural numbers descend in each, so no operation takes infinitely
many steps.

`StreamInv` has to account for every event on its way.  `Owes` says of the socket that
the phone heeds: each message of the wire leaves out only events that are behind the
phone's position, were dropped, or are told of by a message before it (`WireCovers`);
once the snapshot is sent the same is true of the agent's position (`SentCovers`), of
each entry of the queue (`QueueCovers`) and of the end of the log (`LogCovers`); before
it, the position the socket was opened with is not beyond the phone's, so the snapshot
starts early enough.  Delivering, forwarding, publishing and dropping each move an
event from one of the four to another.  A socket that was replaced owes nothing, and
`OneOpen` says that it is closed and that what it still delivers is ignored.
`ListMeetsPosition` is inductive beside it once the requests under way are typed
(`TimelineInv`): a message that moves the position is put in the list by the same
callback, and what a handler opens a socket behind, it has asked for or counts as
`unread`.

`DashInv` rests on one relation: a view of a session is `Known` if its revision is at
most the row's and equal revisions mean an equal state and retry count.  Rows only
grow (`Grows`), so whatever holds a view (a screen, an open question, a message of the
bridge, a call or an answer under way) holds a known one for ever (`KnownStays`).  When
the agent accepts a call, the revisions are equal, so the view *is* the row, and with
the patch number compared this is `DecidesWhatWasShown` (`AdmittedDecides`).  Around it
`CallInv` has the types of rows and calls, what each kind of call may hold
(`CallsKnown`), that only one operation works on a session (`OneWorks`), and that a
press has a create under way or a session but never two of either (`PressesOnce`).
`BusyOnlyWhileWaiting` is inductive beside it, by which handler may ask what
(`AskedBy`): a handler's answer releases the screen or is followed by the next call
of the same handler.

The pairing's `CodeInv` is about the codes that were matched: each is one that was
made, is gone from the agent's memory, and was guessed while attempts were left
(`Spent`); no two calls, no two devices, nor a call and a device have the same
(`Apart`); the attempts left and the wrong guesses add up to `MaxAttempts`.  The gap
between the match and the insertion of the device is why calls are in it.  `KeptInv` follows one phone whose storage no late answer has
emptied: on its dashboard, its token is stored and nothing is asked of the storage, or
a save is the last thing asked.  Requests are done in order, so the last one decides.

The scanner's `FilesInv` says that no two native calls read the same file (`Apart`);
that what is read and what the scanner holds exists and differs, and that every other
temporary file was lost in a way the model names (`Kept`); and that a scanner which
was closed awaits nothing and one without a picture has no files (`Quiet`).  For `PlansFit` the roundings of `preprocessImage` become linear
inequalities, and no assumption on the picture but that it has at least one pixel is
left.  `ReviewInv` adds that the review on the screen is the result of one of the
texts.  The cut begins at the least line with an anchor (`SmallestIs`, by the
well-foundedness of the naturals), which is the seventh at most (`TrimmedIs`); a
suffix has every defect of the whole, because it is no longer and two tokens in it are
two tokens in the whole (`CutHidesNothing`); and with more defects and no more lines
the score falls (`LevelFalls`).

`VoiceInv` says that at most one attempt to listen is current, that it holds the
start-up lock while the sheet does not yet listen (`OneCurrent`), and that what was
called off is not current, whatever it still waits for (`RevokedStale`); that the lock
and a listening sheet belong to a current attempt or a live microphone on a sheet that
is shown, unless the app closed it over them (`Held`); and that what `consume` would
return is the question that stands (`Asked`).

Assumptions, each evaluated by TLC in the runs: `CallersAssumption`,
`ConstantsAssumption` (there is a session, the stand-ins for *none* are none of the
real ones, a developer's edit is told apart from a patch), `StreamAssumption` (*no
session* is none of the sessions, a queue holds at least one event),
`PairingAssumption` (a code may be guessed once at least), `AgentAssumption` (the rows
from before are rows, no more than there may be) and `VisionAssumption` (a picture has
a pixel, a text is a sequence of lines).  The bounds of the models are natural
numbers; no argument uses more of them.

One definition the proofs depend on: `EventFor` tests for a retry before its CASE, as
`_event_for` does.  A retry also has the target of another arm, and TLA+ lets a CASE
with overlapping arms have the value of either, although TLC takes the first.
Likewise `Continue` writes the non-empty sets of files as `(SUBSET Files) \ {{}}`: the
parentheses keep TLC and the prover from reading it in two ways.

Only model-checked: the liveness properties (`OperationsEnd`, `ApprovalConcludes`,
`CatchesUp`, `NothingIsMissed`, `WorkEnds`, `ReadingEnds`, `RefusedReturns`).  They need
ENABLED, by which fairness is defined and which the prover does not treat; for
`OperationsEnd` what remains is to conclude from `StepsReady`, `OperationsFall` and
`FairSpec` that the descent goes on until the operation is idle.  Every
safety and action property of a passing run has its theorem.

## 5. What the models found

Two have a run that expects a violation; `PROJECT.json` quotes the sentence that
promises otherwise.

1. `patch_verify_fault`: an error in the read that verifies a write leaves that
   file patched; the restore loop knows only files verified before.
2. `pairing_revoked`: a revoked device is answered 403, the app heeds 401; without a
   socket it stays on a dashboard where nothing works.

The others are shown by the configurations of section 3:

3. The lines cut above an error are those that do not look like a trace; they may
   hold the technical tokens the quality check counts, such as `src.main started`
   (`docs/security-model.md:124`: "can trim only a short non-technical prefix"), and a
   text that was GOOD as a whole may be shown as POOR without them, with a warning
   always (`VisionTrimmed.cfg`).
4. A text rated POOR can be sent as it was read; only an empty one cannot
   (`docs/vision-debugger.md:60`: "`POOR` and empty output cannot advance unless the
   user corrects or adds text"; `VisionPoor.cfg`).
5. An event that a full queue dropped is passed over by the next one on a socket that
   stays open; the phone's position moves past it, so no reconnection brings it back
   (`event_broker.py:40`: "Clients recover any dropped event from SQLite using its
   sequence number.").  The phone reads the session itself again, so only its list of
   events has the gap.
6. A session restored at launch goes on from its last event, and nothing fetches those
   before it (`docs/mobile-app.md:26`: "reconciles missing analysis/patch events"); of
   its pipeline, drawn from them, only what comes after the launch is shown as done
   (and *Tests verified*, which the session tells).
7. Opening or starting a session does not clear the list of events, and events are
   kept by number alone, so the pipeline may be drawn from events of two sessions
   (`apps/mobile/src/state/workflow.ts:39`).
8. Rollback checks all files, then replaces all files; an edit in between is
   overwritten (`docs/security-model.md:116`: "Any later developer edit produces
   `ROLLBACK_CONFLICT` and remains untouched.").
9. After failing tests the patch stays in the files; the next `generate` overwrites
   the row that holds its originals (`docs/judge-pitch.md:83`).
10. Rollback with another workspace selected records a permanent conflict though
   nothing was edited (`patch_engine.py:115`).
11. The tests that verify a patch may be those of a workspace selected meanwhile
   (`docs/judge-pitch.md:25`).
12. A voice action that succeeds closes the sheet without resetting it; reopened
   meanwhile, its microphone goes on and what is heard runs
   (`docs/voice-engine.md:88`).
13. A picture that arrives after the scanner closed, or that replaces another, leaves
   a file nobody removes (`README.md:193`).

A smaller divergence has no run: `docs/architecture.md:67` has the agent capture
rollback data before it presents a patch, and `patch_service.py:277-292` does it
after the approval.

Seen in the models, promised otherwise by nobody: a crash between the transition
to AWAITING_APPROVAL and the save of the record leaves a patch that can be neither
approved nor rejected until a client fails the session; a crash in the middle of
apply leaves PATCH_APPLYING with RECOVERY_REQUIRED, and once a client has failed
the session a rollback meets files that were never patched and is refused for good;
a crash between a rejection's transition and its save leaves a record that still
awaits a decision, so a client that walks the session back to AWAITING_APPROVAL
puts the rejected patch to the human once more.
A 401 that arrives when its dashboard was disconnected clears the credential of the
next one (`late` in DevicePairing).  `openSession` reads the session and its events at
once, and an event between the two answers is in neither; selecting or resetting a demo
clears the list but leaves the socket open, so the cleared session's next message
brings it back on the screen.

## 6. Not modelled

- Prompts, error parsing, scanning and detection, the diff parser and the risk rules,
  the characters of a text that was read (`apps/mobile/src/vision/normalizer.ts`):
  text in, verdict out, without a state that outlives the call.
- The process runner: its behaviour is that of operating-system processes and pipes.
  PatchWorkflow takes every outcome a command can have.
- The store of analyses and `demo_service.py`'s git commands; GET /events reads the
  session and its events in two queries, here in one (no client uses that session).
- The phone's list of devices, tabs, animations and styles, the two
  taps of its patch panel (`apps/mobile/App.tsx:635`), the metrics and spoken
  answers of the voice sheet.
- The showcase site.  Two thirds of the repository's TypeScript are its vendored
  library of user-interface components, most of which no page imports; this is why
  the map covers only a fifth of the TypeScript lines, although it covers most of
  those of the phone and the desktop dashboard.  Scripts, fixtures, build files.

What could be added next: the analysis store against files that change, the hunk
arithmetic as recursive functions against a reference definition; in the proofs,
measures for the other liveness properties as there is one for `OperationsEnd`, and
AgentApi's calls as an abstraction of PatchWorkflow.
