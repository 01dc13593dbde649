---------------------------- MODULE VoiceControl ----------------------------
(***************************************************************************)
(* Push-to-talk voice control of the phone: VoiceSheet with its recognizer *)
(* and its pending confirmation, the closed vocabulary, and the actions of *)
(* App.tsx that a phrase may run.                                          *)
(*                                                                         *)
(* listenVersion only ever tells whether something is from before the last *)
(* increment, so each attempt and each action carries that answer          *)
(* (current) in place of a number; a confirmation carries whether the      *)
(* screen has changed since in place of its target's text.  Speech output, *)
(* partial results, metrics and the list of past commands are left out.    *)
(***************************************************************************)
EXTENDS Naturals, FiniteSets

CONSTANTS
    Words,      \* phrases that are spoken
    Screens,    \* what the dashboard may show behind the sheet
    MaxListens  \* bound: taps on the microphone

VARIABLES
    screen,       \* VoiceSessionContext, and whether the patch is the session's
    sheet,        \* what the sheet shows, and whether it is there at all
    lock,         \* listenInFlight, confirmationListening, and whether the app
                  \* closed the sheet over something that goes on
    attempts,     \* calls of listen that await something
    mic,          \* the native recognizer
    confirmation, \* VoiceConfirmation and its timer
    running,      \* actions of the app that voice started and that go on
    listens,      \* how often the microphone was tapped
    asked         \* history: the question on the sheet, and whether it still stands

vars == <<screen, sheet, lock, attempts, mic, confirmation, running, listens, asked>>

VoiceIntents ==
    {"SCAN_ERROR", "ANALYZE_ERROR", "EXPLAIN_ROOT_CAUSE", "GENERATE_PATCH", "SHOW_PATCH",
     "APPROVE_PATCH", "REJECT_PATCH", "RUN_VALIDATION", "EXPLAIN_FIX", "TRY_ANOTHER_FIX",
     "ROLLBACK", "SHOW_ERROR", "SHOW_LOCATION", "SHOW_TEST_RESULT", "SHOW_SESSION_STATUS",
     "CONFIRM", "CANCEL", "UNKNOWN"}
Phases ==
    {"IDLE", "REQUESTING_PERMISSION", "LISTENING", "PROCESSING", "AWAITING_CONFIRMATION",
     "EXECUTING", "COMPLETED", "FAILED"}
Permissions == {"NOT_REQUESTED", "GRANTED", "DENIED", "PERMANENTLY_DENIED"}

Confirmable == {"APPROVE_PATCH", "ROLLBACK"}
\* The actions that wait for the agent, those that close the sheet when they
\* succeed, and those that close it at once.
Remote == {"ANALYZE_ERROR", "GENERATE_PATCH", "APPROVE_PATCH", "REJECT_PATCH", "ROLLBACK",
           "TRY_ANOTHER_FIX"}
Closing == {"ANALYZE_ERROR", "GENERATE_PATCH", "APPROVE_PATCH", "ROLLBACK"}
Leaving == {"SCAN_ERROR", "SHOW_PATCH", "SHOW_ERROR"}

None == "none"
Quiet == [live |-> FALSE, current |-> FALSE, confirms |-> FALSE, about |-> None,
          revoked |-> FALSE]
NoConfirmation == [intent |-> None, moved |-> FALSE, expired |-> FALSE]
NoQuestion == [intent |-> None, stands |-> FALSE]

Init ==
    /\ screen \in Screens
    /\ sheet \in [mounted: {TRUE}, foreground: {TRUE}, open: {FALSE}, phase: {"IDLE"},
                  pending: {None}, available: {FALSE},
                  permission: {"NOT_REQUESTED", "GRANTED", "PERMANENTLY_DENIED"}]
    /\ lock = [busy |-> FALSE, confirming |-> FALSE, shut |-> FALSE]
    /\ attempts = {} /\ mic = Quiet /\ running = {} /\ listens = 0
    /\ confirmation = NoConfirmation /\ asked = NoQuestion

-----------------------------------------------------------------------------
(* The vocabulary.                                                         *)

\* One word stands for all phrases of an intent; "approve" is also an answer,
\* and "this" depends on the session.  Anything else, dangerous or not, is
\* no command.
IntentOf(word, state) ==
    CASE word \in VoiceIntents -> word
      [] word = "approve" -> "APPROVE_PATCH"
      [] word = "explain this" -> IF state \in {"SUCCESS", "ROLLED_BACK"} THEN "EXPLAIN_FIX"
                                  ELSE "EXPLAIN_ROOT_CAUSE"
      [] word = "show this" -> IF state \in {"PATCH_GENERATED", "AWAITING_APPROVAL"}
                               THEN "SHOW_PATCH" ELSE "UNKNOWN"
      [] word = "check this" -> IF state \in {None, "IDLE"} THEN "ANALYZE_ERROR"
                                ELSE "SHOW_SESSION_STATUS"
      [] OTHER -> "UNKNOWN"

AnswerOf(word) ==
    CASE word \in {"CONFIRM", "approve"} -> "CONFIRM"
      [] word = "CANCEL" -> "CANCEL"
      [] OTHER -> "UNKNOWN"

\* validateVoiceIntent.
Allowed(intent, s) ==
    LET patched == s.patch # None
        awaits == s.state = "AWAITING_APPROVAL" /\ s.patch = "AWAITING_APPROVAL"
        done == {"SUCCESS", "ROLLED_BACK"}
    IN CASE intent \in {"SCAN_ERROR", "CANCEL"} -> TRUE
         [] intent = "ANALYZE_ERROR" -> s.state \in {None, "IDLE"} /\ s.text
         [] intent \in {"EXPLAIN_ROOT_CAUSE", "SHOW_LOCATION"} -> s.analysis
         [] intent = "GENERATE_PATCH" -> s.state = "ROOT_CAUSE_FOUND"
         [] intent = "SHOW_PATCH" -> patched
         [] intent \in {"APPROVE_PATCH", "REJECT_PATCH"} -> awaits
         [] intent = "RUN_VALIDATION" -> s.state = "SUCCESS"
         [] intent = "EXPLAIN_FIX" -> patched /\ s.state \in done
         [] intent = "TRY_ANOTHER_FIX" -> s.state = "FAILED" /\ s.retry_count < 2
         [] intent = "ROLLBACK" -> s.patch = "VERIFIED" /\ s.state = "SUCCESS"
         [] intent = "SHOW_ERROR" -> s.text
         [] intent = "SHOW_TEST_RESULT" -> patched /\ s.state \in done \cup {"FAILED"}
         [] intent = "SHOW_SESSION_STATUS" -> s.state # None
         [] OTHER -> FALSE

\* confirmationTarget is not null.
HasTarget(s) == s.state # None /\ s.patch # None /\ s.own

-----------------------------------------------------------------------------
(* The pieces of VoiceSheet that its handlers share.                       *)

IsCurrent(a) == sheet.mounted /\ sheet.foreground /\ sheet.open /\ a.current

\* Faulty variant: the version does not grow.
StaysCurrent(set) == set

\* The version grows.
Stale(set) == {[x EXCEPT !.current = FALSE] : x \in set}

\* cancelListening: the version grows, and the recognizer lets go.
CancelListening ==
    /\ lock' = [lock EXCEPT !.busy = FALSE, !.shut = FALSE]
    /\ attempts' = Stale(attempts) /\ mic' = Quiet
    /\ running' = Stale(running)

\* Faulty variant: only the intent is kept, not the target or the deadline.
ConsumesAny == confirmation.intent

\* consume: the intent asked for, unless the target changed or time is up.
Consumes == IF confirmation.moved \/ confirmation.expired THEN None ELSE confirmation.intent

Shows(phase, pending) == [sheet EXCEPT !.phase = phase, !.pending = pending]

\* execute: checked again against the screen, then handed to the app, whose
\* work is known by the tap it came from.
Execute(intent, others) ==
    IF ~Allowed(intent, screen)
    THEN sheet' = Shows("FAILED", None) /\ running' = others
    ELSE IF intent \in Remote
    THEN /\ sheet' = Shows("EXECUTING", None)
         /\ running' = others \cup {[intent |-> intent, current |-> TRUE, tap |-> listens]}
    ELSE /\ sheet' = [Shows("COMPLETED", None) EXCEPT !.open = @ /\ intent \notin Leaving]
         /\ running' = others

Given(stands) == [asked EXCEPT !.stands = @ /\ stands]

-----------------------------------------------------------------------------
(* Listening.                                                              *)

\* The microphone, or SAY YES OR CANCEL.  While LISTENING it only asks the
\* recognizer for its result.  An attempt before is given up.
Listen ==
    /\ sheet.mounted /\ sheet.foreground /\ sheet.open
    /\ sheet.phase \notin {"PROCESSING", "REQUESTING_PERMISSION", "EXECUTING", "LISTENING"}
    /\ listens < MaxListens /\ listens' = listens + 1
    /\ LET confirms == sheet.phase = "AWAITING_CONFIRMATION" IN
       /\ lock' = [lock EXCEPT !.busy = TRUE, !.shut = FALSE]
       /\ attempts' = Stale(attempts) \cup
            {[current |-> TRUE, confirms |-> confirms, about |-> sheet.pending,
              awaits |-> "silence", revoked |-> FALSE]}
       /\ running' = Stale(running)
       /\ mic' = IF lock.busy THEN Quiet ELSE [mic EXCEPT !.current = FALSE]
       /\ confirmation' = IF confirms THEN confirmation ELSE NoConfirmation
       /\ asked' = Given(confirms)
    /\ UNCHANGED <<screen, sheet>>

\* START, and the recognizer's start.
Start(a) ==
    /\ lock' = [lock EXCEPT !.confirming = a.confirms]
    /\ mic' = [live |-> TRUE, current |-> TRUE, confirms |-> a.confirms, about |-> a.about,
               revoked |-> a.revoked]
    /\ sheet' = [Shows("PROCESSING", IF a.confirms THEN sheet.pending ELSE None)
                   EXCEPT !.permission = "GRANTED"]
    /\ attempts' = attempts \ {a}
    /\ UNCHANGED running

\* fail, for a listening attempt that is current.
GivesUp(recoverable, confirms, about) ==
    LET again == recoverable /\ confirms /\ about # None /\ Consumes # None
    IN /\ attempts' = Stale(attempts) /\ mic' = Quiet /\ running' = Stale(running)
       /\ lock' = [busy |-> FALSE, confirming |-> lock.confirming /\ ~again, shut |-> FALSE]
       /\ sheet' = IF again THEN Shows("AWAITING_CONFIRMATION", about) ELSE Shows("FAILED", None)

\* listen goes on after speechOutput.stop.
Silenced(a) ==
    /\ a \in attempts /\ a.awaits = "silence"
    /\ \/ /\ ~IsCurrent(a)
          /\ attempts' = attempts \ {a} /\ UNCHANGED <<sheet, lock, mic, running>>
       \/ /\ IsCurrent(a) /\ ~sheet.available
          /\ GivesUp(FALSE, a.confirms, a.about)
       \/ /\ IsCurrent(a) /\ sheet.available /\ sheet.permission = "PERMANENTLY_DENIED"
          /\ CancelListening /\ UNCHANGED sheet
       \/ /\ IsCurrent(a) /\ sheet.available /\ sheet.permission = "GRANTED"
          /\ Start(a)
       \/ /\ IsCurrent(a) /\ sheet.available /\ sheet.permission \in {"NOT_REQUESTED", "DENIED"}
          /\ sheet' = [sheet EXCEPT !.phase = "REQUESTING_PERMISSION"]
          /\ attempts' = (attempts \ {a}) \cup {[a EXCEPT !.awaits = "permission"]}
          /\ UNCHANGED <<lock, mic, running>>
    /\ UNCHANGED <<screen, confirmation, listens, asked>>

\* The person answers Android's question for the microphone.
Permitted(a) ==
    /\ a \in attempts /\ a.awaits = "permission"
    /\ \/ /\ ~IsCurrent(a)
          /\ attempts' = attempts \ {a} /\ UNCHANGED <<sheet, lock, mic, running>>
       \/ IsCurrent(a) /\ Start(a)
       \/ /\ IsCurrent(a)
          /\ CancelListening
          /\ \E answer \in {"DENIED", "PERMANENTLY_DENIED"} :
                sheet' = [Shows("FAILED", None) EXCEPT !.permission = answer]
    /\ UNCHANGED <<screen, confirmation, listens, asked>>

\* The recognizer is ready.
SpeakNow ==
    /\ mic.live /\ IsCurrent(mic) /\ sheet.phase = "PROCESSING"
    /\ sheet' = [sheet EXCEPT !.phase = "LISTENING"]
    /\ UNCHANGED <<screen, lock, attempts, mic, confirmation, running, listens, asked>>

\* Faulty variant: the recognizer's end is taken for a result that came.
UnheardWithoutEnd ==
    /\ mic.live
    /\ mic' = [mic EXCEPT !.live = FALSE]
    /\ UNCHANGED <<screen, sheet, lock, attempts, confirmation, running, listens, asked>>

\* An error or the end of listening; nobody heeds it when it is not current.
Unheard ==
    /\ mic.live
    /\ \/ /\ IsCurrent(mic)
          /\ \E recoverable \in BOOLEAN : GivesUp(recoverable, mic.confirms, mic.about)
       \/ /\ ~IsCurrent(mic)
          /\ mic' = [mic EXCEPT !.live = FALSE]
          /\ UNCHANGED <<sheet, lock, attempts, running>>
    /\ UNCHANGED <<screen, confirmation, listens, asked>>

-----------------------------------------------------------------------------
(* handleTranscript.                                                       *)

\* The answer to the question.
Reply(word) ==
    LET answer == AnswerOf(word)
        requested == IF answer = "CONFIRM" THEN Consumes ELSE None
    IN /\ confirmation' = NoConfirmation
       /\ asked' = Given(FALSE)
       /\ IF requested # None THEN Execute(requested, Stale(running))
          ELSE /\ sheet' = Shows(IF answer = "CANCEL" THEN "COMPLETED" ELSE "FAILED", None)
               /\ running' = Stale(running)

\* A command: refused, asked about, or executed.
Command(word) ==
    LET intent == IntentOf(word, screen.state) IN
    \/ /\ intent \notin Confirmable
       /\ Execute(intent, Stale(running))
       /\ UNCHANGED <<confirmation, asked>>
    \/ /\ intent \in Confirmable
       /\ running' = Stale(running)
       /\ IF ~Allowed(intent, screen) THEN sheet' = Shows("FAILED", None) /\ UNCHANGED <<confirmation, asked>>
          ELSE IF ~HasTarget(screen)
          THEN sheet' = Shows("FAILED", None) /\ confirmation' = NoConfirmation /\ UNCHANGED asked
          ELSE /\ sheet' = Shows("AWAITING_CONFIRMATION", intent)
               /\ confirmation' = [NoConfirmation EXCEPT !.intent = intent]
               /\ asked' = [intent |-> intent, stands |-> TRUE]

\* The final result; recognition ends with it, and the attempt is over.
Heard(word) ==
    /\ mic.live /\ IsCurrent(mic)
    /\ lock' = [busy |-> FALSE, confirming |-> FALSE, shut |-> FALSE]
    /\ attempts' = Stale(attempts) /\ mic' = Quiet
    /\ IF lock.confirming THEN Reply(word) ELSE Command(word)
    /\ UNCHANGED <<screen, listens>>

\* The CONFIRM button.
Confirm ==
    /\ sheet.open /\ sheet.foreground /\ sheet.phase = "AWAITING_CONFIRMATION"
    /\ lock' = [lock EXCEPT !.busy = FALSE, !.shut = FALSE]
    /\ attempts' = Stale(attempts) /\ mic' = Quiet
    /\ confirmation' = NoConfirmation /\ asked' = Given(FALSE)
    /\ IF Consumes = None
       THEN sheet' = Shows("FAILED", None) /\ running' = Stale(running)
       ELSE Execute(Consumes, Stale(running))
    /\ UNCHANGED <<screen, listens>>

-----------------------------------------------------------------------------
(* Time, the person, the system and the app.                               *)

\* 30 seconds have passed since the question ...
Deadline ==
    /\ confirmation.intent # None /\ ~confirmation.expired
    /\ confirmation' = [confirmation EXCEPT !.expired = TRUE]
    /\ asked' = Given(FALSE)
    /\ UNCHANGED <<screen, sheet, lock, attempts, mic, running, listens>>

\* ... and the timer fires.
TimesOut ==
    /\ confirmation.expired
    /\ CancelListening
    /\ confirmation' = NoConfirmation
    /\ sheet' = Shows("FAILED", None)
    /\ UNCHANGED <<screen, listens, asked>>

\* What the person or the system called off must stay silent.
Revoked(set) == {[x EXCEPT !.revoked = TRUE] : x \in set}

\* Faulty variant: the start-up lock stays.
ResetsLocked(open, foreground) ==
    /\ lock' = [lock EXCEPT !.confirming = FALSE, !.shut = FALSE]
    /\ attempts' = Revoked(Stale(attempts)) /\ mic' = Quiet /\ running' = Stale(running)
    /\ confirmation' = NoConfirmation /\ asked' = Given(FALSE)
    /\ sheet' = [Shows("IDLE", None) EXCEPT !.open = open, !.foreground = foreground]
    /\ UNCHANGED <<screen, listens>>

\* resetVoice, the sheet left open or not, in the foreground or not.
Resets(open, foreground) ==
    /\ lock' = [busy |-> FALSE, confirming |-> FALSE, shut |-> FALSE]
    /\ attempts' = Revoked(Stale(attempts)) /\ mic' = Quiet /\ running' = Stale(running)
    /\ confirmation' = NoConfirmation /\ asked' = Given(FALSE)
    /\ sheet' = [Shows("IDLE", None) EXCEPT !.open = open, !.foreground = foreground]
    /\ UNCHANGED <<screen, listens>>

\* CANCEL, CANCEL LISTENING and NEW COMMAND.
ResetVoice ==
    /\ sheet.open /\ sheet.foreground
    /\ sheet.phase \in {"AWAITING_CONFIRMATION", "LISTENING", "COMPLETED", "FAILED"}
    /\ Resets(TRUE, TRUE)

Close == sheet.open /\ sheet.foreground /\ Resets(FALSE, TRUE)

Open ==
    /\ sheet.mounted /\ sheet.foreground /\ ~sheet.open
    /\ sheet' = [sheet EXCEPT !.open = TRUE]
    /\ UNCHANGED <<screen, lock, attempts, mic, confirmation, running, listens, asked>>

\* The capability and the permission are known, and there is a recognizer.
Capability ==
    /\ sheet.mounted /\ sheet.open /\ ~sheet.available
    /\ sheet' = [sheet EXCEPT !.available = TRUE]
    /\ UNCHANGED <<screen, lock, attempts, mic, confirmation, running, listens, asked>>

\* The app goes to the background or comes back; a sheet that is open starts again.
Switches ==
    /\ sheet.mounted
    /\ IF sheet.open THEN Resets(TRUE, ~sheet.foreground)
       ELSE /\ sheet' = [sheet EXCEPT !.foreground = ~@]
            /\ UNCHANGED <<screen, lock, attempts, mic, confirmation, running, listens, asked>>

\* The phone is disconnected from its laptop: the dashboard and the sheet go.
Unmount ==
    /\ sheet.mounted
    /\ sheet' = [sheet EXCEPT !.mounted = FALSE, !.open = FALSE]
    /\ CancelListening
    /\ confirmation' = NoConfirmation /\ asked' = Given(FALSE)
    /\ UNCHANGED <<screen, listens>>

\* The dashboard changes behind the sheet.
ScreenChanges ==
    /\ sheet.mounted
    /\ screen' \in Screens \ {screen}
    /\ confirmation' = [confirmation EXCEPT !.moved = @ \/ confirmation.intent # None]
    /\ asked' = Given(FALSE)
    /\ UNCHANGED <<sheet, lock, attempts, mic, running, listens>>

\* Something that was not called off goes on.
GoesOn(actions) == lock.busy \/ \E r \in actions : r.current

\* An action of the app ends: it may close the sheet, and tells its result
\* when nothing was called off meanwhile.
Finish(r) ==
    /\ r \in running /\ running' = running \ {r}
    /\ \E ok \in BOOLEAN :
         LET closes == ok /\ r.intent \in Closing /\ sheet.open
             tells == sheet.mounted /\ sheet.foreground /\ r.current
         IN /\ sheet' = [sheet EXCEPT !.open = @ /\ ~closes,
                           !.phase = IF ~tells THEN @ ELSE IF ok THEN "COMPLETED" ELSE "FAILED",
                           !.pending = IF tells THEN None ELSE @]
            /\ lock' = [lock EXCEPT !.shut = @ \/ (closes /\ GoesOn(running'))]
    /\ UNCHANGED <<screen, attempts, mic, confirmation, listens, asked>>

-----------------------------------------------------------------------------

Goes == \/ \E a \in attempts : Silenced(a)
        \/ SpeakNow \/ Unheard \/ TimesOut

Next ==
    \/ Listen \/ Confirm \/ ResetVoice \/ Close \/ Open \/ Capability \/ Switches \/ Unmount
    \/ Goes \/ Deadline \/ ScreenChanges
    \/ \E a \in attempts : Permitted(a)
    \/ \E word \in Words : Heard(word)
    \/ \E r \in running : Finish(r)

Spec == Init /\ [][Next]_vars

\* Promises settle, a recognizer ends, timers fire, and calls of the agent end
\* (ApiClient limits them).
FairSpec == Spec /\ WF_vars(Goes) /\ WF_vars(\E r \in running : Finish(r))

-----------------------------------------------------------------------------

TypeOK ==
    /\ screen \in Screens
    /\ sheet \in [mounted: BOOLEAN, foreground: BOOLEAN, open: BOOLEAN, phase: Phases,
                  pending: Confirmable \cup {None}, available: BOOLEAN, permission: Permissions]
    /\ lock \in [busy: BOOLEAN, confirming: BOOLEAN, shut: BOOLEAN]
    /\ attempts \subseteq [current: BOOLEAN, confirms: BOOLEAN,
                           about: Confirmable \cup {None}, awaits: {"silence", "permission"},
                           revoked: BOOLEAN]
    /\ mic \in [live: BOOLEAN, current: BOOLEAN, confirms: BOOLEAN,
                about: Confirmable \cup {None}, revoked: BOOLEAN]
    /\ confirmation \in [intent: Confirmable \cup {None}, moved: BOOLEAN, expired: BOOLEAN]
    /\ running \subseteq [intent: Remote, current: BOOLEAN, tap: 1..MaxListens]
    /\ listens \in 0..MaxListens
    /\ asked \in [intent: Confirmable \cup {None}, stands: BOOLEAN]

\* A spoken or tapped "yes" approves or rolls back only what the sheet asked
\* about: the same action, on the session revision and the patch that were on
\* the screen, in time, not called off since, and once.
ConfirmedOnly ==
    [][\A r \in running' \ Stale(running) :
         (r \notin running /\ r.intent \in Confirmable) =>
             /\ asked.stands /\ asked.intent = r.intent
             /\ ~asked'.stands]_vars

\* An attempt that the person cancelled, or that ended with the sheet closed or
\* the app in the background, never reaches the recognizer.
CalledOffStaysSilent == ~mic.revoked

\* The sheet says STARTING MIC or SPEAK NOW only while the microphone is on for
\* it, and the start-up lock is held only by an attempt that goes on: unless the
\* app closed the sheet, nobody has to wait or tap in vain.
LockIsHeld ==
    ~lock.shut =>
        /\ (sheet.phase \in {"PROCESSING", "LISTENING"} /\ sheet.open) => mic.live /\ mic.current
        /\ lock.busy => mic.live \/ \E a \in attempts : a.current

\* Voice never hangs: WORKING, STARTING MIC and SPEAK NOW end.
WorkEnds ==
    (sheet.phase \in {"EXECUTING", "PROCESSING", "LISTENING"} /\ sheet.open) ~>
        (sheet.phase \notin {"EXECUTING", "PROCESSING", "LISTENING"} \/ ~sheet.open \/ lock.shut)

\* docs/voice-engine.md:88: "Cancel, close, backgrounding, and a completed
\* result invalidate its callbacks, so delayed transcripts cannot execute
\* commands."  But an action that succeeds closes a sheet that was opened again
\* and invalidates nothing: once it is open again, what is heard runs.
CloseInvalidates ==
    [][(mic.live /\ lock.shut) => \A r \in running' : r.current => r \in running]_vars
=============================================================================
