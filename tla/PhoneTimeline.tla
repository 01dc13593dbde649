--------------------------- MODULE PhoneTimeline ---------------------------
(***************************************************************************)
(* The list of events on the phone's screen, from which its pipeline is    *)
(* drawn: the reducer's EVENT, SNAPSHOT and CLEAR_SESSION, the handlers of *)
(* App.tsx that dispatch them, and the socket of EventStream they call.    *)
(*                                                                         *)
(* The list has one event for each sequence number, whatever its session.  *)
(* It is filled from two sides that know nothing of each other: answers of *)
(* GET /events, and the socket, which asks only for what comes after the   *)
(* position the handler gives it.  Answers about analyses and patches are   *)
(* PhoneWorkflow's, revoked devices EventStream's; a phone that was refused *)
(* may go on until it has left for the pairing screen.                     *)
(***************************************************************************)
EXTENDS EventStream

CONSTANTS
    MaxFetches  \* bound: calls of openSession and startAnalysis under way

VARIABLES
    screen,   \* the session of WorkflowState
    shown,    \* its events: of which session the one of each number is
    fetches,  \* openSession and startAnalysis, awaiting their answers
    asked,    \* sessions whose GET /sessions/{id} reconcile awaits
    resumed,  \* the session resumed, once resumeAttempted found one
    \* history, read by the properties only
    unread    \* numbers behind the position that no handler asked for

timeline == <<screen, shown, fetches, asked, resumed, unread>>
timelineVars == <<vars, timeline>>

\* Not yet served.
Unserved == 0 - 1

\* The sessions of earlier days: not created, or created and captured.
TimelineInit ==
    /\ log \in [Sessions -> {0, 2}] /\ Unconnected
    /\ screen = NoSession /\ shown = <<>> /\ fetches = {} /\ asked = {}
    /\ resumed = NoSession
    /\ unread = {}

-----------------------------------------------------------------------------
(* The reducer.                                                            *)

\* Faulty variant: SNAPSHOT replaces the list.
SnapshotOnly(s, numbers) == [n \in numbers |-> s]

\* SNAPSHOT: by sequence number, the events that arrive win.
Snapshot(s, numbers) ==
    [n \in DOMAIN shown \cup numbers |-> IF n \in numbers THEN s ELSE shown[n]]

\* EVENT: a number that is there already is ignored.
Event(s, number) == IF number \in DOMAIN shown THEN shown ELSE Snapshot(s, {number})

-----------------------------------------------------------------------------
(* Handlers.                                                               *)

\* What nobody asked for, when the socket goes on to session s.
StillUnread(s) == IF s = phone.session THEN unread ELSE {}

\* The first dashboard: the list of sessions says how far each is, and the
\* socket goes on from there.
ResumeSession(s, after) ==
    /\ resumed = NoSession /\ resumed' = s
    /\ after >= 2
    /\ Connect(s, after)
    /\ screen' = s /\ asked' = asked \cup {s}
    /\ unread' = StillUnread(s) \cup 1..after
    /\ UNCHANGED <<shown, fetches>>

\* openSession: two requests at once.
AskOpen(s) ==
    /\ log[s] > 0 /\ Cardinality(fetches) < MaxFetches
    /\ fetches' = fetches \cup
         {[kind |-> "open", session |-> s, after |-> Unserved, upto |-> Unserved]}
    /\ UNCHANGED <<vars, screen, shown, asked, resumed, unread>>

\* Each is served by a thread of its own.
ServeSession(f) ==
    /\ f.kind = "open" /\ f.after = Unserved
    /\ fetches' = (fetches \ {f}) \cup {[f EXCEPT !.after = log[f.session]]}
    /\ UNCHANGED <<vars, screen, shown, asked, resumed, unread>>

ServeEvents(f) ==
    /\ f.kind = "open" /\ f.upto = Unserved
    /\ fetches' = (fetches \ {f}) \cup {[f EXCEPT !.upto = log[f.session]]}
    /\ UNCHANGED <<vars, screen, shown, asked, resumed, unread>>

\* Both answers are there.
Opened(f) ==
    /\ f.kind = "open" /\ f.after # Unserved /\ f.upto # Unserved
    /\ Connect(f.session, f.after)
    /\ screen' = f.session /\ shown' = Snapshot(f.session, 1..f.upto)
    /\ fetches' = fetches \ {f} /\ asked' = asked \cup {f.session}
    /\ unread' = (StillUnread(f.session) \cup (f.upto + 1)..f.after) \ 1..f.upto
    /\ UNCHANGED resumed

\* startAnalysis: createSession and captureSession make the first two events.
StartAnalysis(s) ==
    /\ log[s] = 0 /\ Cardinality(fetches) < MaxFetches
    /\ fetches' = fetches \cup
         {[kind |-> "start", session |-> s, after |-> Unserved, upto |-> Unserved]}
    /\ UNCHANGED <<vars, screen, shown, asked, resumed, unread>>

\* The second is shown, and the socket goes on from it; the analysis that is
\* asked for next ends with a SESSION, as a reconciliation does.
Captured(f) ==
    /\ f.kind = "start" /\ log[f.session] >= 2
    /\ Connect(f.session, 2)
    /\ screen' = f.session /\ shown' = Event(f.session, 2)
    /\ fetches' = fetches \ {f} /\ asked' = asked \cup {f.session}
    /\ unread' = StillUnread(f.session) \cup {1}
    /\ UNCHANGED resumed

\* reconcile's answer: SESSION, which leaves the events alone.
Reconciled(s) ==
    /\ s \in asked /\ asked' = asked \ {s}
    /\ screen' = s
    /\ UNCHANGED <<vars, shown, fetches, resumed, unread>>

\* NEW SESSION, DONE, and a demo that was prepared: CLEAR_SESSION or RESET.
StartOver ==
    /\ Disconnect
    /\ screen' = NoSession /\ shown' = <<>>
    /\ unread' = 1..phone.last
    /\ UNCHANGED <<fetches, asked, resumed>>

\* A demo was selected or reset: CLEAR_SESSION, with the socket left open.
ClearSession ==
    /\ screen' = NoSession /\ shown' = <<>>
    /\ unread' = 1..phone.last
    /\ UNCHANGED <<vars, fetches, asked, resumed>>

\* The app is back in the foreground; a bridge that was stopped stays so.
Foreground ==
    /\ Reconnect \/ (~phone.active /\ UNCHANGED vars)
    /\ asked' = IF screen = NoSession THEN asked ELSE asked \cup {screen}
    /\ UNCHANGED <<screen, shown, fetches, resumed, unread>>

-----------------------------------------------------------------------------
(* The bridge's messages.                                                  *)

Takes(c, message) == phone.socket = c /\ message.type \in {"event", "snapshot"}

\* An event the socket lets through, or a snapshot, which tells of the session
\* even when it has no new event.
Hear(c) ==
    /\ Deliver(c)
    /\ LET message == Head(link[c].wire)
           s == link[c].session
           news == Range(Fresh(message))
       IN IF Takes(c, message) /\ (message.type = "snapshot" \/ news # {})
          THEN /\ shown' = IF message.type = "event" THEN Event(s, message.sequence)
                           ELSE Snapshot(s, news)
               /\ screen' = IF message.type = "event" THEN screen ELSE s
               /\ asked' = asked \cup {s}
          ELSE UNCHANGED <<shown, screen, asked>>
    /\ UNCHANGED <<fetches, resumed, unread>>

-----------------------------------------------------------------------------

Handlers ==
    \/ \E s \in Sessions : \/ \E after \in 0..MaxEvents : ResumeSession(s, after)
                           \/ AskOpen(s) \/ StartAnalysis(s) \/ Reconciled(s)
    \/ \E f \in fetches : ServeSession(f) \/ ServeEvents(f) \/ Opened(f) \/ Captured(f)
    \/ StartOver \/ ClearSession \/ Foreground
    \/ \E c \in Sockets : Hear(c)

\* The agent, the network and the timer do nothing to the list.
Around ==
    /\ \/ \E s \in Sessions : Publish(s)
       \/ \E c \in Sockets : Accept(c) \/ Stream(c) \/ Forward(c)
       \/ Network \/ TimerFires
    /\ UNCHANGED timeline

TimelineNext == Handlers \/ Around

TimelineSpec == TimelineInit /\ [][TimelineNext]_timelineVars

-----------------------------------------------------------------------------

TimelineTypeOK ==
    /\ screen \in Sessions \cup {NoSession}
    /\ DOMAIN shown \subseteq 1..MaxEvents /\ Range(shown) \subseteq Sessions
    /\ fetches \subseteq [kind: {"open", "start"}, session: Sessions,
                          after: Nat \cup {Unserved}, upto: Nat \cup {Unserved}]
    /\ asked \subseteq Sessions /\ resumed \in Sessions \cup {NoSession}
    /\ unread \subseteq 1..MaxEvents

\* Answers of GET /events and the socket's messages fit together: whatever was
\* opened, started, cleared or reconnected in whatever order, the list has an
\* event for every number the phone's position has passed, but those a full
\* queue dropped and those no handler asked for.  The latter are the events
\* before a session that was resumed, the first of one that was started here,
\* those before a clearing, and those committed between the two answers of
\* openSession.
ListMeetsPosition ==
    \A n \in 1..phone.last : n \in DOMAIN shown \/ n \in dropped \/ n \in unread

\* docs/mobile-app.md:5: the app "follows real events".  Then the pipeline is
\* drawn from the events of one session; but SNAPSHOT and EVENT merge what
\* arrives with the events of the session that was open before.
OneSessionIsShown == \A n, m \in DOMAIN shown : shown[n] = shown[m]

\* docs/mobile-app.md:26: "On launch or foreground, the app restores the latest
\* meaningful persisted session from the laptop and reconciles missing
\* analysis/patch events."  Then a session that was restored shows its events;
\* but neither the socket nor reconcile asks for those before its launch.
RestoredIsReconciled ==
    resumed # NoSession /\ screen = resumed /\ phone.session = resumed
    /\ phone.status = "CONNECTED" /\ asked = {} =>
        \A n \in 1..phone.last : n \in DOMAIN shown \/ n \in dropped
=============================================================================
