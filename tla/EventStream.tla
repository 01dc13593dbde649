---------------------------- MODULE EventStream ----------------------------
(***************************************************************************)
(* How the events of a debug session reach the phone: the agent persists   *)
(* an event and offers it to the bounded queue of every open websocket     *)
(* (SessionEventBroker, stream_session_events); the phone keeps one socket,*)
(* filters what it receives by sequence number and reconnects from the     *)
(* last number it has (PocketPilotSocket behind LocalWebSocketBridge).     *)
(*                                                                         *)
(* The agent's handlers share one event loop and await nothing between     *)
(* committing an event and publishing it, nor between subscribing and      *)
(* reading the snapshot, so each of those pairs is one step.  What is      *)
(* between the two programs is a channel per socket that keeps the order,  *)
(* may be cut anywhere, and still delivers to a socket the phone has       *)
(* already replaced.                                                       *)
(***************************************************************************)
EXTENDS Integers, FiniteSets, Sequences, Functions

CONSTANTS
    Sessions,   \* debug sessions of the agent
    NoSession,  \* the phone has chosen none
    QueueSize,  \* events a subscriber's queue holds (100 in the agent)
    MaxEvents,  \* bound: events of all sessions together
    MaxCalls,   \* bound: calls of connect, reconnect and disconnect
    MaxFaults   \* bound: cut connections and authentication timeouts

ASSUME StreamAssumption ==
    /\ NoSession \notin Sessions
    /\ QueueSize \in Nat \ {0} /\ MaxEvents \in Nat
    /\ MaxCalls \in Nat /\ MaxFaults \in Nat

\* Every socket is opened by a call or after a fault or a close by the agent.
Sockets  == 1..(MaxCalls + MaxFaults)
NoSocket == 0

VARIABLES
    log,    \* events persisted for each session, numbered from 1
    token,  \* what DeviceRegistry.authenticate says of the phone's token
    link,   \* both ends and the wire of each socket
    phone,  \* the fields of PocketPilotSocket, and the status it last reported
    made,   \* sockets created so far: the latest one's name
    calls, faults,  \* how often each has happened
    \* history, read by the properties only
    given,   \* events handed to onMessage since the session was chosen
    vouched, \* events the caller of connect said it had
    dropped  \* events a full queue did not take, for the session chosen

vars == <<log, token, link, phone, made, calls, faults, given, vouched, dropped>>
agent   == <<log, token>>
history == <<given, vouched, dropped>>

\* SessionWebSocketMessage, with the opening and closing of the socket that
\* the phone learns of in the same order.  A snapshot carries the events
\* from+1..upto and the session whose last_event_sequence is upto.
Message ==
    [type: {"open"}] \cup [type: {"event"}, sequence: Nat]
    \cup [type: {"snapshot"}, from: Nat, upto: Nat]
    \cup [type: {"close"}, code: {1006, 4401, 4403}]

SocketStatus == {"CONNECTING", "CONNECTED", "DISCONNECTED", "UNAUTHORIZED"}

Larger(a, b) == IF a >= b THEN a ELSE b

NewLink(s, after) ==
    [session |-> s, stage |-> "connecting", sent |-> FALSE, lastSent |-> after,
     queue |-> <<>>, wire |-> <<>>]

Put(c, message) == [link EXCEPT ![c].wire = Append(@, message)]

\* The agent's handler returns; the phone is told after what is on the wire.
Finish(c, code) ==
    [link EXCEPT ![c].stage = "closed", ![c].queue = <<>>,
                 ![c].wire = Append(@, [type |-> "close", code |-> code])]

\* Nothing is connected.
Unconnected ==
    /\ token = "valid"
    /\ link = [c \in Sockets |-> [NewLink(NoSession, 0) EXCEPT !.stage = "closed"]]
    /\ phone = [socket |-> NoSocket, timer |-> FALSE, session |-> NoSession,
                last |-> 0, active |-> FALSE, status |-> "DISCONNECTED"]
    /\ made = 0 /\ calls = 0 /\ faults = 0
    /\ given = <<>> /\ vouched = 0 /\ dropped = {}

Init == log = [s \in Sessions |-> 0] /\ Unconnected

-----------------------------------------------------------------------------
(* The phone: calls of the bridge.                                         *)

\* close() on the phone's side: what is already on the wire may still come.
Abandon(c) == IF c # NoSocket /\ link[c].stage # "closed" THEN Finish(c, 1006) ELSE link

\* Faulty variant: connect and reconnect do not clear the timer.
OpenKeepsTimer(links, p) ==
    /\ made' = made + 1
    /\ link' = [links EXCEPT ![made + 1] = NewLink(p.session, p.last)]
    /\ phone' = [p EXCEPT !.socket = made + 1, !.status = "CONNECTING"]

\* open(): a new socket asks for the events after the last one received.
Open(links, p) ==
    /\ made' = made + 1
    /\ link' = [links EXCEPT ![made + 1] = NewLink(p.session, p.last)]
    /\ phone' = [p EXCEPT !.socket = made + 1, !.timer = FALSE, !.status = "CONNECTING"]

\* Faulty variant: the position is kept when another session is chosen.
ResumeAlways(s, after) == Larger(phone.last, after)

\* The sequence number to go on from: of another session only the caller's.
Resume(s, after) == IF s = phone.session THEN Larger(phone.last, after) ELSE after

\* The caller has fetched the session, and says how far.
Connect(s, after) ==
    /\ calls < MaxCalls
    /\ after \in 0..log[s]
    /\ calls' = calls + 1
    /\ Open(Abandon(phone.socket),
            [phone EXCEPT !.session = s, !.last = Resume(s, after), !.active = TRUE])
    /\ given' = IF s = phone.session THEN given ELSE <<>>
    /\ vouched' = IF s = phone.session THEN Larger(vouched, after) ELSE after
    /\ dropped' = IF s = phone.session THEN dropped ELSE {}
    /\ UNCHANGED <<agent, faults>>

\* The app came back to the foreground.
Reconnect ==
    /\ calls < MaxCalls /\ calls' = calls + 1
    /\ phone.active
    /\ Open(Abandon(phone.socket), phone)
    /\ UNCHANGED <<agent, faults, history>>

Disconnect ==
    /\ calls < MaxCalls /\ calls' = calls + 1
    /\ link' = Abandon(phone.socket)
    /\ phone' = [phone EXCEPT !.socket = NoSocket, !.timer = FALSE, !.active = FALSE,
                              !.status = "DISCONNECTED"]
    /\ UNCHANGED <<agent, made, faults, history>>

\* The timer of queueReconnect fires; the backoff only decides when.
TimerFires ==
    /\ phone.timer
    /\ IF phone.active THEN Open(link, phone)
       ELSE phone' = [phone EXCEPT !.timer = FALSE] /\ UNCHANGED <<link, made>>
    /\ UNCHANGED <<agent, calls, faults, history>>

-----------------------------------------------------------------------------
(* The phone: callbacks of a socket, ignored unless it is the current one. *)

Received(c) == [link EXCEPT ![c].wire = Tail(@)]

OnOpen(c) ==
    IF phone.socket = c
    THEN /\ link' = [Received(c) EXCEPT ![c].sent = TRUE]
         /\ phone' = [phone EXCEPT !.status = "CONNECTED"]
    ELSE link' = Received(c) /\ UNCHANGED phone

Fresh(message) ==
    IF message.type = "event"
    THEN IF message.sequence > phone.last THEN <<message.sequence>> ELSE <<>>
    ELSE [i \in 1..(message.upto - Larger(message.from, phone.last)) |->
             Larger(message.from, phone.last) + i]

Upto(message) == IF message.type = "event" THEN message.sequence ELSE message.upto

\* Faulty variant: a snapshot does not move the position.
OnMessageByEvents(c, message) ==
    /\ link' = Received(c)
    /\ IF phone.socket = c
       THEN /\ phone' = IF message.type = "event"
                        THEN [phone EXCEPT !.last = message.sequence] ELSE phone
            /\ given' = given \o Fresh(message)
       ELSE UNCHANGED <<phone, given>>

OnMessage(c, message) ==
    /\ link' = Received(c)
    /\ IF phone.socket = c
       THEN /\ phone' = [phone EXCEPT !.last = Larger(@, Upto(message))]
            /\ given' = given \o Fresh(message)
       ELSE UNCHANGED <<phone, given>>

\* Faulty variant: only a socket that was open is replaced.
OnCloseWhenOpen(c, code) ==
    /\ link' = Received(c)
    /\ phone' =
         IF phone.socket # c THEN phone
         ELSE IF code \in {4401, 4403}
         THEN [phone EXCEPT !.socket = NoSocket, !.active = FALSE, !.status = "UNAUTHORIZED"]
         ELSE [phone EXCEPT !.socket = NoSocket, !.status = "DISCONNECTED",
                            !.timer = @ \/ (phone.active /\ phone.status = "CONNECTED")]

\* A refused device stops; any other end is retried after a delay.
OnClose(c, code) ==
    /\ link' = Received(c)
    /\ phone' =
         IF phone.socket # c THEN phone
         ELSE IF code \in {4401, 4403}
         THEN [phone EXCEPT !.socket = NoSocket, !.active = FALSE, !.status = "UNAUTHORIZED"]
         ELSE [phone EXCEPT !.socket = NoSocket, !.status = "DISCONNECTED",
                            !.timer = @ \/ phone.active]

Deliver(c) ==
    /\ link[c].wire # <<>>
    /\ LET message == Head(link[c].wire) IN
         \/ message.type = "open" /\ OnOpen(c) /\ UNCHANGED given
         \/ message.type \in {"event", "snapshot"} /\ OnMessage(c, message)
         \/ message.type = "close" /\ OnClose(c, message.code) /\ UNCHANGED given
    /\ UNCHANGED <<agent, made, calls, faults, vouched, dropped>>

-----------------------------------------------------------------------------
(* The agent.                                                              *)

\* How many events there are: the bound is on all sessions together.
Published == FoldFunction(+, 0, log)

\* An event is committed and published; a full queue does not take it.
Publish(s) ==
    /\ Published < MaxEvents
    /\ log' = [log EXCEPT ![s] = @ + 1]
    /\ LET subscribed == {c \in Sockets : link[c].stage = "live" /\ link[c].session = s}
           full == {c \in subscribed : Len(link[c].queue) >= QueueSize}
       IN /\ link' = [c \in Sockets |->
                        IF c \in subscribed \ full
                        THEN [link[c] EXCEPT !.queue = Append(@, log'[s])] ELSE link[c]]
          /\ dropped' = IF phone.socket \in full THEN dropped \cup {log'[s]} ELSE dropped
    /\ UNCHANGED <<token, phone, made, calls, faults, given, vouched>>

\* The laptop's user revokes the device.  (A token that expires ends the
\* socket with 4401, which the phone treats alike.)
Revoke ==
    /\ token = "valid" /\ token' = "revoked"
    /\ UNCHANGED <<log, link, phone, made, calls, faults, history>>

Accept(c) ==
    /\ link[c].stage = "connecting"
    /\ link' = [Put(c, [type |-> "open"]) EXCEPT ![c].stage = "auth"]
    /\ UNCHANGED <<agent, phone, made, calls, faults, history>>

\* The token arrives: authenticate, subscribe, then read and send the snapshot.
Stream(c) ==
    /\ link[c].stage = "auth" /\ link[c].sent
    /\ link' =
         IF token # "valid" THEN Finish(c, 4403)
         ELSE LET upto == log[link[c].session] IN
              [Put(c, [type |-> "snapshot", from |-> link[c].lastSent, upto |-> upto])
                 EXCEPT ![c].stage = "live", ![c].lastSent = Larger(@, upto)]
    /\ UNCHANGED <<agent, phone, made, calls, faults, history>>

AuthTimeout(c) ==
    /\ link[c].stage = "auth"
    /\ faults < MaxFaults /\ faults' = faults + 1
    /\ link' = Finish(c, 4401)
    /\ UNCHANGED <<agent, phone, made, calls, history>>

\* Take the next event of the queue, or wake up after five seconds without
\* one; either way the token is looked up again first.
Forward(c) ==
    /\ link[c].stage = "live"
    /\ token # "valid" \/ link[c].queue # <<>>
    /\ link' =
         IF token # "valid" THEN Finish(c, 4403)
         ELSE LET event == Head(link[c].queue)
                  taken == [link EXCEPT ![c].queue = Tail(@)]
              IN IF event <= link[c].lastSent THEN taken
                 ELSE [taken EXCEPT ![c].lastSent = event,
                         ![c].wire = Append(@, [type |-> "event", sequence |-> event])]
    /\ UNCHANGED <<agent, phone, made, calls, faults, history>>

\* The network or the agent goes away: only the first k messages arrive.
Cut(c, k) ==
    /\ link[c].stage # "closed"
    /\ faults < MaxFaults /\ faults' = faults + 1
    /\ link' = [link EXCEPT ![c].stage = "closed", ![c].queue = <<>>,
                  ![c].wire = Append(SubSeq(@, 1, k), [type |-> "close", code |-> 1006])]
    /\ UNCHANGED <<agent, phone, made, calls, history>>

-----------------------------------------------------------------------------

Phone == \/ \E s \in Sessions, after \in 0..MaxEvents : Connect(s, after)
         \/ Reconnect \/ Disconnect \/ TimerFires
         \/ \E c \in Sockets : Deliver(c)

Agent == \/ \E s \in Sessions : Publish(s)
         \/ Revoke
         \/ \E c \in Sockets : Accept(c) \/ Stream(c) \/ Forward(c)

Network == \E c \in Sockets : AuthTimeout(c) \/ \E k \in 0..Len(link[c].wire) : Cut(c, k)

Next == Phone \/ Agent \/ Network

Spec == Init /\ [][Next]_vars

\* Timers fire, the event loops run and the channel delivers; nobody has to
\* call the bridge, publish an event, revoke a device or cut a connection.
Fairness ==
    /\ WF_vars(TimerFires)
    /\ \A c \in Sockets : WF_vars(Deliver(c)) /\ WF_vars(Accept(c))
                          /\ WF_vars(Stream(c)) /\ WF_vars(Forward(c))

FairSpec == Spec /\ Fairness

-----------------------------------------------------------------------------

TypeOK ==
    /\ log \in [Sessions -> 0..MaxEvents]
    /\ token \in {"valid", "revoked"}
    /\ link \in [Sockets -> [session: Sessions \cup {NoSession},
                             stage: {"connecting", "auth", "live", "closed"},
                             sent: BOOLEAN, lastSent: Nat,
                             queue: Seq(Nat), wire: Seq(Message)]]
    /\ phone \in [socket: Sockets \cup {NoSocket}, timer: BOOLEAN,
                  session: Sessions \cup {NoSession}, last: 0..MaxEvents,
                  active: BOOLEAN, status: SocketStatus]
    /\ made \in Sockets \cup {NoSocket}
    /\ calls \in 0..MaxCalls /\ faults \in 0..MaxFaults
    /\ given \in Seq(Nat) /\ vouched \in 0..MaxEvents /\ dropped \in SUBSET (1..MaxEvents)

\* The phone never has two connections: whatever mixture of reconnect timers,
\* late callbacks, calls of connect, reconnect and disconnect and refusals it
\* went through, every socket but the current one is closed, a timer runs only
\* while there is none, and neither exists once it has been told to stop.
OneConnection ==
    /\ \A c \in Sockets : link[c].stage # "closed" => phone.socket = c
    /\ phone.timer => phone.socket = NoSocket
    /\ ~phone.active => phone.socket = NoSocket /\ ~phone.timer
    /\ (phone.socket # NoSocket) <=> phone.status \in {"CONNECTING", "CONNECTED"}

\* The app sees the events of its session in order and each of them once,
\* through replayed snapshots, events that are both in a snapshot and in a
\* queue, and reconnections.
InOrderOnce ==
    \A i, j \in 1..Len(given) : i < j => given[i] < given[j]

\* What the phone's position has passed it was given, or the caller had, or a
\* full queue dropped: no replay starts too late and no snapshot skips one.
NothingSkipped ==
    \A n \in 1..phone.last :
        n <= vouched \/ n \in dropped \/ \E i \in 1..Len(given) : given[i] = n

\* When the events of its session have ended, a phone that wants them and is
\* accepted is given all of them but those a full queue dropped at the end.
CatchesUp ==
    <>[](phone.active =>
            LET last == log[phone.session] IN phone.last = last \/ last \in dropped)

\* event_broker.py:40: "Clients recover any dropped event from SQLite using its
\* sequence number."  Then no event behind the phone's position would be unseen;
\* but a socket that stays open moves on to the event after the one it lost.
DroppedIsRecovered ==
    \A n \in 1..phone.last : n <= vouched \/ \E i \in 1..Len(given) : given[i] = n
=============================================================================
