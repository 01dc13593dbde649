------------------------- MODULE VoiceControlProofs -------------------------
(***************************************************************************)
(* The safety properties of VoiceControl, for all phrases and screens and  *)
(* any number of taps.                                                     *)
(***************************************************************************)
EXTENDS VoiceControl, TLAPS

Subjects == Confirmable \cup {None}
Sheet == [mounted: BOOLEAN, foreground: BOOLEAN, open: BOOLEAN, phase: Phases,
          pending: Subjects, available: BOOLEAN, permission: Permissions]
Lock == [busy: BOOLEAN, confirming: BOOLEAN, shut: BOOLEAN]
Attempt == [current: BOOLEAN, confirms: BOOLEAN, about: Subjects,
            awaits: {"silence", "permission"}, revoked: BOOLEAN]
Mic == [live: BOOLEAN, current: BOOLEAN, confirms: BOOLEAN, about: Subjects, revoked: BOOLEAN]
Confirmation == [intent: Subjects, moved: BOOLEAN, expired: BOOLEAN]
Question == [intent: Subjects, stands: BOOLEAN]

Typed ==
    /\ sheet \in Sheet /\ lock \in Lock /\ attempts \subseteq Attempt /\ mic \in Mic
    /\ confirmation \in Confirmation /\ asked \in Question

\* What was called off is no longer current.
RevokedStale == (\A a \in attempts : a.revoked = TRUE => a.current = FALSE) /\ mic.revoked = FALSE

On == {"PROCESSING", "LISTENING"}

\* There is one attempt that is current; it holds the start-up lock, and the
\* microphone is not on for another meanwhile.
OneCurrent ==
    /\ \A a, b \in attempts : (a.current = TRUE /\ b.current = TRUE) => a = b
    /\ \A a \in attempts : a.current = TRUE => sheet.phase \notin On /\ lock.busy = TRUE

Waits == \E a \in attempts : a.current = TRUE
Hears == mic.live = TRUE /\ mic.current = TRUE
Shown == sheet.open = TRUE /\ sheet.foreground = TRUE /\ sheet.mounted = TRUE

\* Unless the app closed the sheet over something that goes on, the lock and
\* the microphone belong to a sheet that is shown.
Held ==
    /\ sheet.open = TRUE => sheet.mounted = TRUE
    /\ lock.shut = FALSE =>
         /\ lock.busy = TRUE => Shown /\ (Hears \/ Waits)
         /\ (sheet.phase \in On /\ sheet.mounted = TRUE) => Shown /\ Hears /\ lock.busy = TRUE

\* A confirmation that would be heeded is the question that stands.
Asked ==
    (confirmation.intent # None /\ confirmation.moved = FALSE /\ confirmation.expired = FALSE) =>
        asked.stands = TRUE /\ asked.intent = confirmation.intent

VoiceInv == Typed /\ RevokedStale /\ OneCurrent /\ Held /\ Asked

-----------------------------------------------------------------------------
(* Sheets, locks and attempts.                                             *)

LEMMA Members ==
    /\ None \in Subjects /\ Quiet \in Mic /\ NoConfirmation \in Confirmation
    /\ \A c \in Confirmable : c \in Subjects /\ c # None
    /\ {"IDLE", "REQUESTING_PERMISSION", "LISTENING", "PROCESSING", "AWAITING_CONFIRMATION",
        "EXECUTING", "COMPLETED", "FAILED"} = Phases
    /\ {"IDLE", "REQUESTING_PERMISSION", "AWAITING_CONFIRMATION", "EXECUTING", "COMPLETED",
        "FAILED"} \cap On = {}
BY DEF Subjects, Confirmable, None, Quiet, Mic, NoConfirmation, Confirmation, Phases, On

LEMMA ShowsIs ==
    ASSUME sheet \in Sheet, NEW phase \in Phases, NEW pending \in Subjects
    PROVE  /\ Shows(phase, pending) \in Sheet /\ Shows(phase, pending).phase = phase
           /\ Shows(phase, pending).open = sheet.open
           /\ Shows(phase, pending).mounted = sheet.mounted
           /\ Shows(phase, pending).foreground = sheet.foreground
BY DEF Sheet, Shows

LEMMA StaleAttempts ==
    ASSUME attempts \subseteq Attempt
    PROVE  Stale(attempts) \subseteq Attempt /\ \A a \in Stale(attempts) : a.current = FALSE
<1> SUFFICES ASSUME NEW a \in attempts
             PROVE  [a EXCEPT !.current = FALSE] \in Attempt /\ [a EXCEPT !.current = FALSE].current = FALSE
  BY DEF Stale
<1>1. a \in Attempt
  OBVIOUS
<1> QED
  BY <1>1 DEF Attempt

LEMMA RevokedAttempts ==
    ASSUME NEW S \in SUBSET Attempt, \A a \in S : a.current = FALSE
    PROVE  Revoked(S) \subseteq Attempt /\ \A a \in Revoked(S) : a.current = FALSE
<1> SUFFICES ASSUME NEW a \in S
             PROVE  [a EXCEPT !.revoked = TRUE] \in Attempt /\ [a EXCEPT !.revoked = TRUE].current = FALSE
  BY DEF Revoked
<1>1. a \in Attempt
  OBVIOUS
<1> QED
  BY <1>1 DEF Attempt

LEMMA QuestionGiven ==
    ASSUME asked \in Question, NEW b \in BOOLEAN, asked' = Given(b)
    PROVE  asked' \in Question /\ asked'.intent = asked.intent
           /\ (b = FALSE => asked'.stands = FALSE) /\ (b = TRUE => asked' = asked)
BY DEF Question, Given

\* The steps after which nothing is current, the lock is free and the
\* microphone off.
LEMMA AllGivenUp ==
    ASSUME VoiceInv, sheet' \in Sheet, lock' \in Lock, lock'.busy = FALSE,
           mic' = Quiet, confirmation' \in Confirmation, asked' \in Question, Asked',
           attempts' \subseteq Attempt, \A a \in attempts' : a.current = FALSE,
           sheet'.phase \notin On \/ sheet'.mounted = FALSE,
           sheet'.open = TRUE => sheet'.mounted = TRUE
    PROVE  VoiceInv'
<1>1. mic' \in Mic /\ mic'.revoked = FALSE
  BY Members DEF Quiet
<1> QED
  BY <1>1 DEF VoiceInv, Typed, RevokedStale, OneCurrent, Held

\* The steps that leave listening as it is.
LEMMA OthersKeep ==
    ASSUME VoiceInv, UNCHANGED <<lock, attempts, mic>>,
           sheet' \in Sheet, sheet'.phase = sheet.phase \/ (sheet.phase \in On /\ sheet'.phase \in On),
           sheet'.mounted = sheet.mounted,
           \/ sheet'.open = sheet.open /\ sheet'.foreground = sheet.foreground
           \/ sheet.open = FALSE /\ sheet.mounted = TRUE,
           confirmation' \in Confirmation, asked' \in Question, Asked'
    PROVE  VoiceInv'
BY DEF VoiceInv, Typed, RevokedStale, OneCurrent, Held, Shown, Hears, Waits

LEMMA ExecuteIs ==
    ASSUME sheet \in Sheet, NEW intent, NEW others, Execute(intent, others)
    PROVE  /\ sheet' \in Sheet /\ sheet'.phase \notin On
           /\ sheet'.mounted = sheet.mounted /\ (sheet'.open = TRUE => sheet.open = TRUE)
           /\ \A r \in running' : r \in others \/ r.intent = intent
<1>1. CASE ~Allowed(intent, screen)
  <2>1. sheet' = Shows("FAILED", None) /\ running' = others
    BY <1>1 DEF Execute
  <2> QED
    BY <2>1, ShowsIs, Members
<1>2. CASE Allowed(intent, screen) /\ intent \in Remote
  <2>1. /\ sheet' = Shows("EXECUTING", None)
        /\ running' = others \cup {[intent |-> intent, current |-> TRUE, tap |-> listens]}
    BY <1>2 DEF Execute
  <2> QED
    BY <2>1, ShowsIs, Members
<1>3. CASE Allowed(intent, screen) /\ intent \notin Remote
  <2> DEFINE shown == Shows("COMPLETED", None)
  <2>1. /\ sheet' = [shown EXCEPT !.open = @ /\ intent \notin Leaving] /\ running' = others
    BY <1>3 DEF Execute
  <2>2. /\ shown \in Sheet /\ shown.phase = "COMPLETED" /\ shown.open = sheet.open
        /\ shown.mounted = sheet.mounted
    BY ShowsIs, Members
  <2>3. "COMPLETED" \notin On
    BY DEF On
  <2> HIDE DEF shown
  <2> QED
    BY <2>1, <2>2, <2>3 DEF Sheet
<1> QED
  BY <1>1, <1>2, <1>3

\* CancelListening frees the lock.
LEMMA Cancelled ==
    ASSUME VoiceInv, CancelListening
    PROVE  /\ lock' \in Lock /\ lock'.busy = FALSE /\ mic' = Quiet
           /\ attempts' \subseteq Attempt /\ \A a \in attempts' : a.current = FALSE
<1>1. lock \in Lock /\ attempts \subseteq Attempt
  BY DEF VoiceInv, Typed
<1> QED
  BY <1>1, StaleAttempts DEF CancelListening, Lock

LEMMA AskedSame ==
    ASSUME VoiceInv, UNCHANGED <<confirmation, asked>>
    PROVE  confirmation' \in Confirmation /\ asked' \in Question /\ Asked'
BY DEF VoiceInv, Typed, Asked

LEMMA AskedNothing ==
    ASSUME VoiceInv, confirmation' = NoConfirmation, NEW b \in BOOLEAN, asked' = Given(b)
    PROVE  confirmation' \in Confirmation /\ asked' \in Question /\ Asked'
<1>1. asked \in Question
  BY DEF VoiceInv, Typed
<1> QED
  BY <1>1, QuestionGiven, Members DEF NoConfirmation, Asked

-----------------------------------------------------------------------------
(* Listening.                                                              *)

LEMMA ListenKeeps ==
    ASSUME VoiceInv, Listen
    PROVE  VoiceInv'
<1> DEFINE confirms == sheet.phase = "AWAITING_CONFIRMATION"
           fresh == [current |-> TRUE, confirms |-> confirms, about |-> sheet.pending,
                     awaits |-> "silence", revoked |-> FALSE]
<1>1. /\ sheet.mounted /\ sheet.foreground /\ sheet.open /\ UNCHANGED sheet
      /\ sheet.phase \notin On
      /\ lock' = [lock EXCEPT !.busy = TRUE, !.shut = FALSE]
      /\ attempts' = Stale(attempts) \cup {fresh}
      /\ mic' = IF lock.busy THEN Quiet ELSE [mic EXCEPT !.current = FALSE]
      /\ confirmation' = IF confirms THEN confirmation ELSE NoConfirmation
      /\ asked' = Given(confirms)
  BY DEF Listen, On
<1>2. /\ sheet \in Sheet /\ lock \in Lock /\ attempts \subseteq Attempt /\ mic \in Mic
      /\ confirmation \in Confirmation /\ asked \in Question /\ mic.revoked = FALSE
  BY DEF VoiceInv, Typed, RevokedStale
<1>3. fresh \in Attempt /\ fresh.current = TRUE /\ fresh.revoked = FALSE
  BY <1>2 DEF Attempt, Sheet
<1>4. confirms \in BOOLEAN
  OBVIOUS
<1>5. confirmation' \in Confirmation /\ asked' \in Question /\ Asked'
  <2>1. CASE confirms = TRUE
    BY <1>1, <1>2, <2>1, QuestionGiven, AskedSame
  <2>2. CASE confirms = FALSE
    BY <1>1, <2>2, AskedNothing
  <2> QED
    BY <2>1, <2>2, <1>4
<1>6. mic' \in Mic /\ mic'.revoked = FALSE
  BY <1>1, <1>2, Members DEF Mic, Quiet
<1>7. lock' \in Lock /\ lock'.busy = TRUE
  BY <1>1, <1>2 DEF Lock
<1>8. /\ attempts' \subseteq Attempt /\ fresh \in attempts'
      /\ \A a \in attempts' : a.current = TRUE => a = fresh
  BY <1>1, <1>2, <1>3, StaleAttempts
<1>9. Shown' /\ sheet' \in Sheet /\ sheet'.phase \notin On /\ sheet'.open = sheet'.mounted
  BY <1>1, <1>2 DEF Shown, Sheet
<1> HIDE DEF fresh, confirms
<1>10. OneCurrent' /\ RevokedStale'
  BY <1>3, <1>6, <1>7, <1>8, <1>9 DEF OneCurrent, RevokedStale
<1>11. Held'
  BY <1>3, <1>7, <1>8, <1>9 DEF Held, Waits, Shown
<1> QED
  BY <1>2, <1>5, <1>6, <1>7, <1>8, <1>9, <1>10, <1>11 DEF VoiceInv, Typed

\* The recognizer starts for the attempt that is current.
LEMMA StartKeeps ==
    ASSUME VoiceInv, NEW a \in attempts, IsCurrent(a), Start(a), UNCHANGED <<confirmation, asked>>
    PROVE  VoiceInv'
<1> DEFINE pending == IF a.confirms THEN sheet.pending ELSE None
           shown == Shows("PROCESSING", pending)
<1>1. /\ sheet \in Sheet /\ lock \in Lock /\ attempts \subseteq Attempt /\ a \in Attempt
      /\ a.current = TRUE /\ a.revoked = FALSE
      /\ \A b \in attempts : b.current = TRUE => b = a
      /\ lock.busy = TRUE
  BY DEF VoiceInv, Typed, IsCurrent, RevokedStale, OneCurrent, Attempt
<1>2. sheet.mounted = TRUE /\ sheet.foreground = TRUE /\ sheet.open = TRUE
  BY <1>1 DEF IsCurrent, Sheet
<1>3. pending \in Subjects
  BY <1>1, Members DEF Sheet
<1>4. /\ shown \in Sheet /\ shown.phase = "PROCESSING" /\ shown.open = TRUE
      /\ shown.mounted = TRUE /\ shown.foreground = TRUE
  BY <1>1, <1>2, <1>3, ShowsIs, Members
<1>5. sheet' = [shown EXCEPT !.permission = "GRANTED"]
  BY DEF Start
<1> HIDE DEF shown
<1>6. sheet' \in Sheet /\ sheet'.phase = "PROCESSING" /\ Shown' /\ sheet'.mounted = TRUE
  BY <1>4, <1>5 DEF Sheet, Permissions, Shown
<1>7. lock' \in Lock /\ lock'.busy = TRUE /\ lock'.shut = lock.shut
  BY <1>1 DEF Start, Lock, Attempt
<1>8. mic' \in Mic /\ mic'.revoked = FALSE /\ Hears'
  BY <1>1 DEF Start, Mic, Attempt, Hears
<1>9. attempts' \subseteq Attempt /\ \A b \in attempts' : b.current # TRUE /\ b \in attempts
  BY <1>1 DEF Start
<1>10. OneCurrent' /\ RevokedStale'
  BY <1>8, <1>9 DEF OneCurrent, RevokedStale, VoiceInv
<1>11. Held'
  BY <1>6, <1>7, <1>8 DEF Held
<1> QED
  BY <1>6, <1>7, <1>8, <1>9, <1>10, <1>11, AskedSame DEF VoiceInv, Typed

\* An attempt that is not current goes.
LEMMA StaleGoes ==
    ASSUME VoiceInv, NEW a \in attempts, a.current = FALSE \/ ~Shown, attempts' = attempts \ {a},
           UNCHANGED <<sheet, lock, mic, confirmation, asked>>
    PROVE  VoiceInv'
<1>1. Held'
  BY DEF VoiceInv, Held, Hears, Waits, Shown
<1> QED
  BY <1>1 DEF VoiceInv, Typed, RevokedStale, OneCurrent, Asked

LEMMA GivesUpKeeps ==
    ASSUME VoiceInv, NEW recoverable \in BOOLEAN, NEW confirms \in BOOLEAN, NEW about \in Subjects,
           GivesUp(recoverable, confirms, about), UNCHANGED <<confirmation, asked>>
    PROVE  VoiceInv'
<1> DEFINE again == recoverable /\ confirms /\ about # None /\ Consumes # None
<1>1. sheet \in Sheet /\ lock \in Lock /\ attempts \subseteq Attempt
  BY DEF VoiceInv, Typed
<1>2. /\ attempts' = Stale(attempts) /\ mic' = Quiet
      /\ lock' = [busy |-> FALSE, confirming |-> lock.confirming /\ ~again, shut |-> FALSE]
      /\ sheet' = IF again THEN Shows("AWAITING_CONFIRMATION", about) ELSE Shows("FAILED", None)
  BY DEF GivesUp
<1>3. again \in BOOLEAN
  OBVIOUS
<1> HIDE DEF again
<1>4. lock' \in Lock /\ lock'.busy = FALSE
  BY <1>1, <1>2, <1>3 DEF Lock
<1>5. sheet' \in Sheet /\ sheet'.phase \notin On /\ sheet'.open = sheet.open /\ sheet'.mounted = sheet.mounted
  BY <1>1, <1>2, ShowsIs, Members
<1>6. sheet'.open = TRUE => sheet'.mounted = TRUE
  BY <1>5 DEF VoiceInv, Held
<1> QED
  BY <1>1, <1>2, <1>4, <1>5, <1>6, StaleAttempts, AskedSame, AllGivenUp

LEMMA SilencedKeeps ==
    ASSUME VoiceInv, NEW a \in attempts, Silenced(a)
    PROVE  VoiceInv'
<1>1. /\ sheet \in Sheet /\ lock \in Lock /\ attempts \subseteq Attempt /\ a \in Attempt
      /\ UNCHANGED <<confirmation, asked>>
  BY DEF VoiceInv, Typed, Silenced
<1>2. CASE ~IsCurrent(a) /\ attempts' = attempts \ {a} /\ UNCHANGED <<sheet, lock, mic, running>>
  BY <1>1, <1>2, StaleGoes DEF IsCurrent, Shown, Attempt, Sheet
<1>3. CASE IsCurrent(a) /\ GivesUp(FALSE, a.confirms, a.about)
  BY <1>1, <1>3, GivesUpKeeps DEF Attempt
<1>4. CASE IsCurrent(a) /\ CancelListening /\ UNCHANGED sheet
  <2>1. sheet.phase \notin On /\ (sheet.open = TRUE => sheet.mounted = TRUE)
    BY <1>1, <1>4 DEF VoiceInv, OneCurrent, Held, IsCurrent, Attempt
  <2> QED
    BY <2>1, <1>1, <1>4, Cancelled, AskedSame, AllGivenUp
<1>5. CASE IsCurrent(a) /\ Start(a)
  BY <1>1, <1>5, StartKeeps
<1>6. CASE /\ IsCurrent(a) /\ UNCHANGED <<lock, mic, running>>
           /\ sheet' = [sheet EXCEPT !.phase = "REQUESTING_PERMISSION"]
           /\ attempts' = (attempts \ {a}) \cup {[a EXCEPT !.awaits = "permission"]}
  <2> DEFINE asks == [a EXCEPT !.awaits = "permission"]
  <2>1. asks \in Attempt /\ asks.current = a.current /\ asks.revoked = a.revoked
    BY <1>1 DEF Attempt
  <2>2. a.current = TRUE /\ Shown /\ lock.busy = TRUE
    BY <1>1, <1>6 DEF IsCurrent, Attempt, Shown, Sheet, VoiceInv, OneCurrent
  <2>3. attempts' = (attempts \ {a}) \cup {asks}
    BY <1>6
  <2> HIDE DEF asks
  <2>4. sheet' \in Sheet /\ sheet'.phase \notin On /\ Shown' /\ sheet'.mounted = TRUE
    BY <1>1, <1>6, <2>2, Members DEF Sheet, Shown, Phases, On
  <2>5. /\ attempts' \subseteq Attempt
        /\ \A b \in attempts' : b.current = TRUE => b = asks
        /\ \A b \in attempts' : b.revoked = TRUE => b.current = FALSE
    BY <1>1, <2>1, <2>2, <2>3 DEF VoiceInv, OneCurrent, RevokedStale
  <2>6. OneCurrent' /\ RevokedStale' /\ Held'
    BY <1>6, <2>1, <2>2, <2>3, <2>4, <2>5 DEF VoiceInv, OneCurrent, RevokedStale, Held, Waits
  <2> QED
    BY <1>1, <1>6, <2>4, <2>5, <2>6, AskedSame DEF VoiceInv, Typed
<1> QED
  BY <1>2, <1>3, <1>4, <1>5, <1>6 DEF Silenced

LEMMA PermittedKeeps ==
    ASSUME VoiceInv, NEW a \in attempts, Permitted(a)
    PROVE  VoiceInv'
<1>1. /\ sheet \in Sheet /\ attempts \subseteq Attempt /\ a \in Attempt
      /\ UNCHANGED <<confirmation, asked>>
  BY DEF VoiceInv, Typed, Permitted
<1>2. CASE ~IsCurrent(a) /\ attempts' = attempts \ {a} /\ UNCHANGED <<sheet, lock, mic, running>>
  BY <1>1, <1>2, StaleGoes DEF IsCurrent, Shown, Attempt, Sheet
<1>3. CASE IsCurrent(a) /\ Start(a)
  BY <1>1, <1>3, StartKeeps
<1>4. ASSUME CancelListening, NEW answer \in {"DENIED", "PERMANENTLY_DENIED"},
             sheet' = [Shows("FAILED", None) EXCEPT !.permission = answer]
      PROVE  VoiceInv'
  <2> DEFINE shown == Shows("FAILED", None)
  <2>1. /\ shown \in Sheet /\ shown.phase = "FAILED" /\ shown.open = sheet.open
        /\ shown.mounted = sheet.mounted
    BY <1>1, ShowsIs, Members
  <2>2. sheet' = [shown EXCEPT !.permission = answer]
    BY <1>4
  <2> HIDE DEF shown
  <2>3. /\ sheet' \in Sheet /\ sheet'.phase \notin On
        /\ sheet'.open = sheet.open /\ sheet'.mounted = sheet.mounted
    BY <1>4, <2>1, <2>2 DEF Sheet, Permissions, On
  <2>4. sheet'.open = TRUE => sheet'.mounted = TRUE
    BY <2>3 DEF VoiceInv, Held
  <2> QED
    BY <1>1, <1>4, <2>3, <2>4, Cancelled, AskedSame, AllGivenUp
<1> QED
  BY <1>2, <1>3, <1>4 DEF Permitted

LEMMA SpeakNowKeeps ==
    ASSUME VoiceInv, SpeakNow
    PROVE  VoiceInv'
<1>1. sheet \in Sheet /\ UNCHANGED <<lock, attempts, mic, confirmation, asked>>
  BY DEF VoiceInv, Typed, SpeakNow
<1>2. sheet.phase = "PROCESSING" /\ sheet' = [sheet EXCEPT !.phase = "LISTENING"]
  BY DEF SpeakNow
<1>3. /\ sheet' \in Sheet /\ sheet'.mounted = sheet.mounted /\ sheet'.open = sheet.open
      /\ sheet'.foreground = sheet.foreground /\ sheet'.phase \in On /\ sheet.phase \in On
  BY <1>1, <1>2, Members DEF Sheet, Phases, On
<1> QED
  BY <1>1, <1>3, AskedSame, OthersKeep

LEMMA UnheardKeeps ==
    ASSUME VoiceInv, Unheard
    PROVE  VoiceInv'
<1>1. sheet \in Sheet /\ mic \in Mic /\ UNCHANGED <<confirmation, asked>>
  BY DEF VoiceInv, Typed, Unheard
<1>2. ASSUME NEW recoverable \in BOOLEAN, GivesUp(recoverable, mic.confirms, mic.about)
      PROVE  VoiceInv'
  BY <1>1, <1>2, GivesUpKeeps DEF Mic
<1>3. CASE /\ ~IsCurrent(mic) /\ mic' = [mic EXCEPT !.live = FALSE]
           /\ UNCHANGED <<sheet, lock, attempts, running>>
  <2>1. mic' \in Mic /\ mic'.revoked = FALSE
    BY <1>1, <1>3 DEF Mic, VoiceInv, RevokedStale
  <2>2. ~(Shown /\ Hears)
    BY <1>1, <1>3 DEF IsCurrent, Shown, Hears, Mic, Sheet
  <2>3. Held'
    BY <1>3, <2>2 DEF VoiceInv, Held, Shown, Waits
  <2> QED
    BY <1>1, <1>3, <2>1, <2>3, AskedSame DEF VoiceInv, Typed, RevokedStale, OneCurrent
<1> QED
  BY <1>2, <1>3 DEF Unheard

-----------------------------------------------------------------------------
(* What was heard.                                                         *)

\* The answer ends the question; what runs is what stood.
LEMMA ReplyIs ==
    ASSUME VoiceInv, NEW word, Reply(word)
    PROVE  /\ sheet' \in Sheet /\ sheet'.phase \notin On /\ sheet'.mounted = sheet.mounted
           /\ (sheet'.open = TRUE => sheet.open = TRUE)
           /\ confirmation' \in Confirmation /\ asked' \in Question /\ Asked'
           /\ asked'.stands = FALSE
           /\ \A r \in running' : r \in Stale(running) \/ (asked.stands = TRUE /\ asked.intent = r.intent)
<1> DEFINE requested == IF AnswerOf(word) = "CONFIRM" THEN Consumes ELSE None
<1>1. sheet \in Sheet /\ asked \in Question /\ confirmation \in Confirmation
  BY DEF VoiceInv, Typed
<1>2. /\ confirmation' = NoConfirmation /\ asked' = Given(FALSE)
      /\ IF requested # None THEN Execute(requested, Stale(running))
         ELSE /\ sheet' = Shows(IF AnswerOf(word) = "CANCEL" THEN "COMPLETED" ELSE "FAILED", None)
              /\ running' = Stale(running)
  BY DEF Reply
<1>3. requested # None => asked.stands = TRUE /\ asked.intent = requested
  BY <1>1 DEF Consumes, VoiceInv, Asked, Confirmation
<1> HIDE DEF requested
<1>4. confirmation' \in Confirmation /\ asked' \in Question /\ Asked'
  BY <1>2, AskedNothing
<1>5. asked'.stands = FALSE
  <2> DEFINE no == FALSE
  <2>1. no \in BOOLEAN /\ no = FALSE /\ asked' = Given(no)
    BY <1>2
  <2> HIDE DEF no
  <2> QED
    BY <1>1, <2>1, QuestionGiven
<1>6. CASE requested # None
  BY <1>1, <1>2, <1>3, <1>4, <1>5, <1>6, ExecuteIs
<1>7. CASE requested = None
  <2>1. PICK phase \in {"COMPLETED", "FAILED"} : sheet' = Shows(phase, None)
    BY <1>2, <1>7
  <2>2. phase \in Phases /\ phase \notin On
    BY DEF Phases, On
  <2>3. /\ sheet' \in Sheet /\ sheet'.phase \notin On /\ sheet'.mounted = sheet.mounted
        /\ sheet'.open = sheet.open
    BY <1>1, <2>1, <2>2, ShowsIs, Members
  <2>4. running' = Stale(running)
    BY <1>2, <1>7
  <2> QED
    BY <1>4, <1>5, <2>3, <2>4
<1> QED
  BY <1>6, <1>7

\* A command asks anew, or runs what needs no question.
LEMMA CommandIs ==
    ASSUME VoiceInv, NEW word, Command(word)
    PROVE  /\ sheet' \in Sheet /\ sheet'.phase \notin On /\ sheet'.mounted = sheet.mounted
           /\ (sheet'.open = TRUE => sheet.open = TRUE)
           /\ confirmation' \in Confirmation /\ asked' \in Question /\ Asked'
           /\ \A r \in running' : r \in Stale(running) \/ r.intent \notin Confirmable
<1> DEFINE intent == IntentOf(word, screen.state)
           asks == [NoConfirmation EXCEPT !.intent = intent]
<1>1. sheet \in Sheet /\ asked \in Question /\ confirmation \in Confirmation
  BY DEF VoiceInv, Typed
<1>2. CASE /\ intent \notin Confirmable /\ Execute(intent, Stale(running))
           /\ UNCHANGED <<confirmation, asked>>
  BY <1>1, <1>2, ExecuteIs, AskedSame
<1>3. CASE sheet' = Shows("FAILED", None) /\ running' = Stale(running) /\ UNCHANGED <<confirmation, asked>>
  BY <1>1, <1>3, ShowsIs, AskedSame, Members
<1>4. CASE /\ sheet' = Shows("FAILED", None) /\ running' = Stale(running)
           /\ confirmation' = NoConfirmation /\ UNCHANGED asked
  BY <1>1, <1>4, ShowsIs, Members DEF NoConfirmation, Asked
<1>5. CASE /\ intent \in Confirmable /\ running' = Stale(running)
           /\ sheet' = Shows("AWAITING_CONFIRMATION", intent) /\ confirmation' = asks
           /\ asked' = [intent |-> intent, stands |-> TRUE]
  <2>1. asks \in Confirmation /\ asks.intent = intent /\ asked' \in Question
    BY <1>5, Members DEF Confirmation, Question, NoConfirmation
  <2>2. asked'.stands = TRUE /\ asked'.intent = intent
    BY <1>5
  <2>3. intent \in Subjects /\ sheet' = Shows("AWAITING_CONFIRMATION", intent)
    BY <1>5, Members
  <2>4. "AWAITING_CONFIRMATION" \in Phases /\ "AWAITING_CONFIRMATION" \notin On
    BY DEF Phases, On
  <2>5. confirmation' = asks /\ running' = Stale(running)
    BY <1>5
  <2> HIDE DEF intent, asks
  <2>6. /\ sheet' \in Sheet /\ sheet'.phase \notin On /\ sheet'.mounted = sheet.mounted
        /\ sheet'.open = sheet.open
    BY <1>1, <2>3, <2>4, ShowsIs
  <2>7. Asked'
    BY <2>1, <2>2, <2>5 DEF Asked
  <2> QED
    BY <2>1, <2>5, <2>6, <2>7
<1> QED
  BY <1>2, <1>3, <1>4, <1>5 DEF Command

LEMMA HeardKeeps ==
    ASSUME VoiceInv, NEW word, Heard(word)
    PROVE  VoiceInv'
<1>1. attempts \subseteq Attempt /\ (sheet.open = TRUE => sheet.mounted = TRUE)
  BY DEF VoiceInv, Typed, Held
<1>2. /\ attempts' = Stale(attempts) /\ mic' = Quiet
      /\ lock' = [busy |-> FALSE, confirming |-> FALSE, shut |-> FALSE]
      /\ Reply(word) \/ Command(word)
  BY DEF Heard
<1>3. lock' \in Lock /\ lock'.busy = FALSE
  BY <1>2 DEF Lock
<1>4. /\ sheet' \in Sheet /\ sheet'.phase \notin On /\ sheet'.mounted = sheet.mounted
      /\ (sheet'.open = TRUE => sheet.open = TRUE)
      /\ confirmation' \in Confirmation /\ asked' \in Question /\ Asked'
  BY <1>2, ReplyIs, CommandIs
<1> QED
  BY <1>1, <1>2, <1>3, <1>4, StaleAttempts, AllGivenUp

\* The button answers as the voice does.
LEMMA ConfirmIs ==
    ASSUME VoiceInv, Confirm
    PROVE  /\ VoiceInv'
           /\ asked'.stands = FALSE
           /\ \A r \in running' : r \in Stale(running) \/ (asked.stands = TRUE /\ asked.intent = r.intent)
<1>1. /\ sheet \in Sheet /\ asked \in Question /\ confirmation \in Confirmation /\ lock \in Lock
      /\ attempts \subseteq Attempt /\ (sheet.open = TRUE => sheet.mounted = TRUE)
  BY DEF VoiceInv, Typed, Held
<1>2. /\ lock' = [lock EXCEPT !.busy = FALSE, !.shut = FALSE]
      /\ attempts' = Stale(attempts) /\ mic' = Quiet
      /\ confirmation' = NoConfirmation /\ asked' = Given(FALSE)
      /\ IF Consumes = None THEN sheet' = Shows("FAILED", None) /\ running' = Stale(running)
         ELSE Execute(Consumes, Stale(running))
  BY DEF Confirm
<1>3. Consumes # None => asked.stands = TRUE /\ asked.intent = Consumes
  BY <1>1 DEF Consumes, VoiceInv, Asked, Confirmation
<1>4. confirmation' \in Confirmation /\ asked' \in Question /\ Asked'
  BY <1>2, AskedNothing
<1>5. asked'.stands = FALSE
  <2> DEFINE no == FALSE
  <2>1. no \in BOOLEAN /\ no = FALSE /\ asked' = Given(no)
    BY <1>2
  <2> HIDE DEF no
  <2> QED
    BY <1>1, <2>1, QuestionGiven
<1>6. lock' \in Lock /\ lock'.busy = FALSE
  BY <1>1, <1>2 DEF Lock
<1>7. /\ sheet' \in Sheet /\ sheet'.phase \notin On /\ sheet'.mounted = sheet.mounted
      /\ (sheet'.open = TRUE => sheet.open = TRUE)
      /\ \A r \in running' : r \in Stale(running) \/ (r.intent = Consumes /\ Consumes # None)
  <2>1. CASE Consumes = None
    BY <1>1, <1>2, <2>1, ShowsIs, Members
  <2>2. CASE Consumes # None
    BY <1>1, <1>2, <2>2, ExecuteIs
  <2> QED
    BY <2>1, <2>2
<1>8. VoiceInv'
  BY <1>1, <1>2, <1>4, <1>6, <1>7, StaleAttempts, AllGivenUp
<1> QED
  BY <1>3, <1>5, <1>7, <1>8

-----------------------------------------------------------------------------
(* Time, the person, the system and the app.                               *)

LEMMA DeadlineKeeps ==
    ASSUME VoiceInv, Deadline
    PROVE  VoiceInv'
<1>1. /\ confirmation \in Confirmation /\ asked \in Question
      /\ confirmation' = [confirmation EXCEPT !.expired = TRUE] /\ asked' = Given(FALSE)
      /\ UNCHANGED <<sheet, lock, attempts, mic>>
  BY DEF VoiceInv, Typed, Deadline
<1>2. confirmation' \in Confirmation /\ confirmation'.expired = TRUE /\ asked' \in Question
  BY <1>1, QuestionGiven DEF Confirmation
<1> QED
  BY <1>1, <1>2, OthersKeep DEF VoiceInv, Typed, Asked

LEMMA TimesOutKeeps ==
    ASSUME VoiceInv, TimesOut
    PROVE  VoiceInv'
<1>1. /\ sheet \in Sheet /\ asked \in Question /\ (sheet.open = TRUE => sheet.mounted = TRUE)
      /\ CancelListening /\ confirmation' = NoConfirmation /\ UNCHANGED asked
      /\ sheet' = Shows("FAILED", None)
  BY DEF VoiceInv, Typed, Held, TimesOut
<1>2. confirmation' \in Confirmation /\ Asked'
  BY <1>1, Members DEF NoConfirmation, Asked
<1>3. /\ sheet' \in Sheet /\ sheet'.phase \notin On /\ sheet'.mounted = sheet.mounted
      /\ sheet'.open = sheet.open
  BY <1>1, ShowsIs, Members
<1> QED
  BY <1>1, <1>2, <1>3, Cancelled, AllGivenUp

LEMMA ResetsKeeps ==
    ASSUME VoiceInv, NEW open \in BOOLEAN, NEW foreground \in BOOLEAN, Resets(open, foreground),
           open = TRUE => sheet.mounted = TRUE
    PROVE  VoiceInv'
<1> DEFINE shown == Shows("IDLE", None)
<1>1. /\ sheet \in Sheet /\ asked \in Question /\ attempts \subseteq Attempt
      /\ lock' = [busy |-> FALSE, confirming |-> FALSE, shut |-> FALSE]
      /\ attempts' = Revoked(Stale(attempts)) /\ mic' = Quiet
      /\ confirmation' = NoConfirmation /\ asked' = Given(FALSE)
      /\ sheet' = [shown EXCEPT !.open = open, !.foreground = foreground]
  BY DEF VoiceInv, Typed, Resets
<1>2. shown \in Sheet /\ shown.phase = "IDLE" /\ shown.mounted = sheet.mounted
  BY <1>1, ShowsIs, Members
<1> HIDE DEF shown
<1>3. /\ sheet' \in Sheet /\ sheet'.phase \notin On
      /\ (sheet'.open = TRUE => sheet'.mounted = TRUE)
  BY <1>1, <1>2 DEF Sheet, On
<1>4. lock' \in Lock /\ lock'.busy = FALSE
  BY <1>1 DEF Lock
<1>5. attempts' \subseteq Attempt /\ \A a \in attempts' : a.current = FALSE
  BY <1>1, StaleAttempts, RevokedAttempts
<1> QED
  BY <1>1, <1>3, <1>4, <1>5, AskedNothing, AllGivenUp

LEMMA SwitchesKeeps ==
    ASSUME VoiceInv, Switches
    PROVE  VoiceInv'
<1>1. sheet \in Sheet /\ sheet.mounted = TRUE
  BY DEF VoiceInv, Typed, Switches, Sheet
<1>2. CASE sheet.open /\ Resets(TRUE, ~sheet.foreground)
  BY <1>1, <1>2, ResetsKeeps DEF Sheet
<1>3. CASE /\ ~sheet.open /\ sheet' = [sheet EXCEPT !.foreground = ~@]
           /\ UNCHANGED <<lock, attempts, mic, confirmation, asked>>
  <2>1. /\ sheet' \in Sheet /\ sheet'.phase = sheet.phase /\ sheet'.mounted = sheet.mounted
        /\ sheet.open = FALSE
    BY <1>1, <1>3 DEF Sheet
  <2> QED
    BY <1>1, <1>3, <2>1, AskedSame, OthersKeep
<1> QED
  BY <1>2, <1>3 DEF Switches

LEMMA OpenKeeps ==
    ASSUME VoiceInv, Open
    PROVE  VoiceInv'
<1>1. /\ sheet \in Sheet /\ sheet.mounted /\ ~sheet.open /\ sheet' = [sheet EXCEPT !.open = TRUE]
      /\ UNCHANGED <<lock, attempts, mic, confirmation, asked>>
  BY DEF VoiceInv, Typed, Open
<1>2. /\ sheet' \in Sheet /\ sheet'.phase = sheet.phase /\ sheet'.mounted = sheet.mounted
      /\ sheet.open = FALSE /\ sheet.mounted = TRUE
  BY <1>1 DEF Sheet
<1> QED
  BY <1>1, <1>2, AskedSame, OthersKeep

LEMMA CapabilityKeeps ==
    ASSUME VoiceInv, Capability
    PROVE  VoiceInv'
<1>1. /\ sheet \in Sheet /\ sheet' = [sheet EXCEPT !.available = TRUE]
      /\ UNCHANGED <<lock, attempts, mic, confirmation, asked>>
  BY DEF VoiceInv, Typed, Capability
<1>2. /\ sheet' \in Sheet /\ sheet'.phase = sheet.phase /\ sheet'.mounted = sheet.mounted
      /\ sheet'.open = sheet.open /\ sheet'.foreground = sheet.foreground
  BY <1>1 DEF Sheet
<1> QED
  BY <1>1, <1>2, AskedSame, OthersKeep

LEMMA UnmountKeeps ==
    ASSUME VoiceInv, Unmount
    PROVE  VoiceInv'
<1>1. /\ sheet \in Sheet /\ sheet' = [sheet EXCEPT !.mounted = FALSE, !.open = FALSE]
      /\ CancelListening /\ confirmation' = NoConfirmation /\ asked' = Given(FALSE)
  BY DEF VoiceInv, Typed, Unmount
<1>2. sheet' \in Sheet /\ sheet'.mounted = FALSE /\ sheet'.open = FALSE
  BY <1>1 DEF Sheet
<1> QED
  BY <1>1, <1>2, Cancelled, AskedNothing, AllGivenUp

LEMMA ScreenChangesKeeps ==
    ASSUME VoiceInv, ScreenChanges
    PROVE  VoiceInv'
<1>1. /\ confirmation \in Confirmation /\ asked \in Question
      /\ confirmation' = [confirmation EXCEPT !.moved = @ \/ confirmation.intent # None]
      /\ asked' = Given(FALSE) /\ UNCHANGED <<sheet, lock, attempts, mic>>
  BY DEF VoiceInv, Typed, ScreenChanges
<1>2. /\ confirmation' \in Confirmation
      /\ confirmation'.moved = TRUE \/ confirmation'.intent = None
      /\ asked' \in Question
  BY <1>1, QuestionGiven DEF Confirmation
<1> QED
  BY <1>1, <1>2, OthersKeep DEF VoiceInv, Typed, Asked

\* The app closes the sheet: if anything goes on, it is said to be shut.
LEMMA FinishKeeps ==
    ASSUME VoiceInv, NEW r \in running, Finish(r)
    PROVE  VoiceInv'
<1>1. /\ sheet \in Sheet /\ lock \in Lock /\ UNCHANGED <<attempts, mic, confirmation, asked>>
  BY DEF VoiceInv, Typed, Finish
<1>2. PICK ok \in BOOLEAN :
         LET closes == ok /\ r.intent \in Closing /\ sheet.open
             tells == sheet.mounted /\ sheet.foreground /\ r.current
         IN /\ sheet' = [sheet EXCEPT !.open = @ /\ ~closes,
                           !.phase = IF ~tells THEN @ ELSE IF ok THEN "COMPLETED" ELSE "FAILED",
                           !.pending = IF tells THEN None ELSE @]
            /\ lock' = [lock EXCEPT !.shut = @ \/ (closes /\ GoesOn(running'))]
  BY DEF Finish
<1> DEFINE closes == ok /\ r.intent \in Closing /\ sheet.open
           tells == sheet.mounted /\ sheet.foreground /\ r.current
           open == sheet.open /\ ~closes
           phase == IF ~tells THEN sheet.phase ELSE IF ok THEN "COMPLETED" ELSE "FAILED"
           pending == IF tells THEN None ELSE sheet.pending
           shut == lock.shut \/ (closes /\ GoesOn(running'))
<1>3. /\ sheet' = [sheet EXCEPT !.open = open, !.phase = phase, !.pending = pending]
      /\ lock' = [lock EXCEPT !.shut = shut]
  BY <1>2
<1>4. /\ phase \in Phases /\ (phase = sheet.phase \/ phase \notin On) /\ pending \in Subjects
      /\ open \in BOOLEAN /\ shut \in BOOLEAN
  BY <1>1, Members DEF Sheet, Lock, Phases, On
<1>5. open = sheet.open \/ (open = FALSE /\ (lock.busy = TRUE => shut = TRUE))
  BY <1>1 DEF Sheet, Lock, GoesOn
<1>6. lock.shut = TRUE => shut = TRUE
  OBVIOUS
<1> HIDE DEF closes, tells, open, phase, pending, shut
<1>7. /\ sheet' \in Sheet /\ sheet'.open = open /\ sheet'.phase = phase
      /\ sheet'.mounted = sheet.mounted /\ sheet'.foreground = sheet.foreground
      /\ lock' \in Lock /\ lock'.busy = lock.busy /\ lock'.shut = shut
  BY <1>1, <1>3, <1>4 DEF Sheet, Lock
<1>8. /\ sheet.open = TRUE \/ sheet.open = FALSE
      /\ lock.busy = TRUE \/ lock.busy = FALSE
      /\ lock.shut = TRUE \/ lock.shut = FALSE
      /\ shut = TRUE \/ shut = FALSE
  BY <1>1, <1>4 DEF Sheet, Lock
<1>9. OneCurrent'
  BY <1>1, <1>4, <1>7 DEF VoiceInv, OneCurrent
<1>10. Held'
  BY <1>1, <1>4, <1>5, <1>6, <1>7, <1>8 DEF VoiceInv, Held, Shown, Hears, Waits
<1> QED
  BY <1>1, <1>7, <1>9, <1>10, AskedSame DEF VoiceInv, Typed, RevokedStale

-----------------------------------------------------------------------------
(* The theorems.                                                           *)

LEMMA VoiceStep ==
    VoiceInv /\ [Next]_vars => VoiceInv'
<1> SUFFICES ASSUME VoiceInv, [Next]_vars
             PROVE  VoiceInv'
  OBVIOUS
<1>1. CASE Listen
  BY <1>1, ListenKeeps
<1>2. CASE Confirm
  BY <1>2, ConfirmIs
<1>3. CASE ResetVoice
  <2>1. Resets(TRUE, TRUE) /\ sheet.mounted = TRUE
    BY <1>3 DEF ResetVoice, VoiceInv, Typed, Held, Sheet
  <2> QED
    BY <2>1, ResetsKeeps
<1>4. CASE Close
  BY <1>4, ResetsKeeps DEF Close
<1>5. CASE Open
  BY <1>5, OpenKeeps
<1>6. CASE Capability
  BY <1>6, CapabilityKeeps
<1>7. CASE Switches
  BY <1>7, SwitchesKeeps
<1>8. CASE Unmount
  BY <1>8, UnmountKeeps
<1>9. CASE \E a \in attempts : Silenced(a)
  BY <1>9, SilencedKeeps
<1>10. CASE SpeakNow
  BY <1>10, SpeakNowKeeps
<1>11. CASE Unheard
  BY <1>11, UnheardKeeps
<1>12. CASE TimesOut
  BY <1>12, TimesOutKeeps
<1>13. CASE Deadline
  BY <1>13, DeadlineKeeps
<1>14. CASE ScreenChanges
  BY <1>14, ScreenChangesKeeps
<1>15. CASE \E a \in attempts : Permitted(a)
  BY <1>15, PermittedKeeps
<1>16. CASE \E word \in Words : Heard(word)
  BY <1>16, HeardKeeps
<1>17. CASE \E r \in running : Finish(r)
  BY <1>17, FinishKeeps
<1>18. CASE UNCHANGED vars
  BY <1>18 DEF vars, VoiceInv, Typed, RevokedStale, OneCurrent, Held, Asked, Shown, Hears, Waits
<1> QED
  BY <1>1, <1>2, <1>3, <1>4, <1>5, <1>6, <1>7, <1>8, <1>9, <1>10, <1>11, <1>12, <1>13, <1>14,
     <1>15, <1>16, <1>17, <1>18 DEF Next, Goes

\* The inductive invariant: one attempt of VoiceSheet's listen is current and
\* holds the lock, what was called off is not current, the sheet says that it
\* starts or listens only while the recognizer is on for it, and what consume
\* would return is the question that stands.
THEOREM VoiceInvariant == Spec => []VoiceInv
<1>1. Init => VoiceInv
  <2> SUFFICES ASSUME Init
               PROVE  VoiceInv
    OBVIOUS
  <2>1. /\ sheet \in Sheet /\ sheet.phase = "IDLE" /\ sheet.open = FALSE
    BY Members DEF Init, Sheet, Permissions
  <2>2. /\ lock \in Lock /\ lock.busy = FALSE /\ attempts = {} /\ mic = Quiet
        /\ confirmation = NoConfirmation /\ asked = NoQuestion
    BY DEF Init, Lock
  <2>3. asked \in Question /\ mic \in Mic /\ mic.revoked = FALSE /\ confirmation \in Confirmation
    BY <2>2, Members DEF Question, NoQuestion, Quiet
  <2>4. sheet.phase \notin On
    BY <2>1 DEF On
  <2>5. Asked
    BY <2>2 DEF Asked, NoConfirmation
  <2> QED
    BY <2>1, <2>2, <2>3, <2>4, <2>5 DEF VoiceInv, Typed, RevokedStale, OneCurrent, Held
<1> QED
  BY <1>1, VoiceStep, PTL DEF Spec

\* An attempt that was cancelled, or that ended with the sheet or the app in
\* the background, never reaches the recognizer (VoiceSheet's listenVersion).
THEOREM SilenceIsKept == Spec => []CalledOffStaysSilent
<1>1. VoiceInv => CalledOffStaysSilent
  BY DEF VoiceInv, RevokedStale, CalledOffStaysSilent
<1> QED
  BY <1>1, VoiceInvariant, PTL

\* The sheet's STARTING MIC and SPEAK NOW and its start-up lock belong to a
\* microphone or an attempt that goes on (listenInFlight), unless the app
\* closed the sheet over it.
THEOREM LockIsAnswered == Spec => []LockIsHeld
<1>1. VoiceInv => LockIsHeld
  <2> SUFFICES ASSUME VoiceInv, ~lock.shut
               PROVE  /\ (sheet.phase \in On /\ sheet.open) => mic.live /\ mic.current
                      /\ lock.busy => mic.live \/ \E a \in attempts : a.current
    BY DEF LockIsHeld, On
  <2>1. lock.shut = FALSE
    BY DEF VoiceInv, Typed, Lock
  <2>2. sheet.open => sheet.open = TRUE /\ sheet.mounted = TRUE
    BY DEF VoiceInv, Typed, Sheet, Held
  <2>3. lock.busy => lock.busy = TRUE
    BY DEF VoiceInv, Typed, Lock
  <2> QED
    BY <2>1, <2>2, <2>3 DEF VoiceInv, Held, Hears, Waits
<1> QED
  BY <1>1, VoiceInvariant, PTL

\* A "yes" by voice or by the CONFIRM button approves or rolls back only what
\* the sheet asked about, while the question stands, and once (consume).
THEOREM OnlyConfirmedRuns == Spec => ConfirmedOnly
<1> DEFINE Fine == \A r \in running' \ Stale(running) :
                      (r \notin running /\ r.intent \in Confirmable) =>
                          /\ asked.stands /\ asked.intent = r.intent /\ ~asked'.stands
<1>1. VoiceInv /\ [Next]_vars =>
        [\A r \in running' \ Stale(running) :
           (r \notin running /\ r.intent \in Confirmable) =>
               /\ asked.stands /\ asked.intent = r.intent
               /\ ~asked'.stands]_vars
  <2> SUFFICES ASSUME VoiceInv, [Next]_vars
               PROVE  Fine
    OBVIOUS
  <2>1. running' \subseteq running \cup Stale(running) => Fine
    OBVIOUS
  <2>2. ASSUME NEW word, Heard(word)
        PROVE  Fine
    <3>1. CASE Reply(word)
      BY <3>1, ReplyIs
    <3>2. CASE Command(word)
      BY <3>2, CommandIs
    <3> QED
      BY <2>2, <3>1, <3>2 DEF Heard
  <2>3. CASE Confirm
    BY <2>3, ConfirmIs
  <2>4. CASE \E word \in Words : Heard(word)
    BY <2>2, <2>4
  <2>5. CASE ~Confirm /\ ~\E word \in Words : Heard(word)
    <3>1. running' \subseteq running \cup Stale(running)
      <4>1. ASSUME NEW open, NEW foreground, Resets(open, foreground)
            PROVE  running' \subseteq running \cup Stale(running)
        BY <4>1 DEF Resets
      <4>2. ASSUME NEW x, NEW y, NEW z, GivesUp(x, y, z)
            PROVE  running' \subseteq running \cup Stale(running)
        BY <4>2 DEF GivesUp
      <4>3. ASSUME NEW a \in attempts, Silenced(a) \/ Permitted(a)
            PROVE  running' \subseteq running \cup Stale(running)
        BY <4>2, <4>3 DEF Silenced, Permitted, CancelListening, Start
      <4>4. CASE Unheard
        BY <4>2, <4>4 DEF Unheard
      <4>5. CASE ResetVoice \/ Close \/ Switches
        BY <4>1, <4>5 DEF ResetVoice, Close, Switches
      <4>6. CASE \/ Listen \/ Open \/ Capability \/ Unmount \/ SpeakNow \/ TimesOut \/ Deadline
                 \/ ScreenChanges
        BY <4>6 DEF Listen, Open, Capability, Unmount, SpeakNow, TimesOut, Deadline,
                    ScreenChanges, CancelListening
      <4>7. CASE \E r \in running : Finish(r)
        BY <4>7 DEF Finish
      <4>8. CASE UNCHANGED vars
        BY <4>8 DEF vars
      <4> QED
        BY <2>5, <4>3, <4>4, <4>5, <4>6, <4>7, <4>8 DEF Next, Goes
    <3> QED
      BY <2>1, <3>1
  <2> QED
    BY <2>3, <2>4, <2>5
<1> QED
  BY <1>1, VoiceInvariant, PTL DEF Spec, ConfirmedOnly
=============================================================================
