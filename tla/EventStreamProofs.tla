------------------------- MODULE EventStreamProofs -------------------------
(***************************************************************************)
(* Safety of the event stream, for any sessions, any size of the queues    *)
(* and any number of calls, events and faults: one connection at a time,   *)
(* every event once and in order, and none passed over but what a full     *)
(* queue dropped; and, of the phone's list of events, that it meets the    *)
(* position.  The bounds of the model play no part in the arguments.       *)
(***************************************************************************)
EXTENDS PhoneTimeline, TLAPS

Stages == {"connecting", "auth", "live", "closed"}
Link == [session: Sessions \cup {NoSession}, stage: Stages, sent: BOOLEAN, lastSent: Nat,
         queue: Seq(Nat), wire: Seq(Message)]
Bridge == [socket: Nat, timer: BOOLEAN, session: Sessions \cup {NoSession}, last: Nat,
           active: BOOLEAN, status: SocketStatus]

Typed ==
    /\ log \in [Sessions -> Nat] /\ link \in [Sockets -> Link] /\ phone \in Bridge
    /\ made \in Nat /\ given \in Seq(Nat) /\ vouched \in Nat

IsData(m) == m.type \in {"event", "snapshot"}

\* Message m tells of event n.
Carries(m, n) ==
    \/ m.type = "event" /\ n = m.sequence
    \/ m.type = "snapshot" /\ m.from < n /\ n <= m.upto

\* Event n is behind the position, lost, or told of by a message of the wire.
Covered(n, wire, last, lost) ==
    n <= last \/ n \in lost \/ \E j \in 1..Len(wire) : Carries(wire[j], n)

\* A message of the wire leaves out only what is behind the position, lost, or
\* told of by a message before it.
WireCovers(wire, last, lost) ==
    \A i \in 1..Len(wire) : IsData(wire[i]) =>
        \A n \in 1..Upto(wire[i]) :
            n <= last \/ n \in lost \/ \E j \in 1..i : Carries(wire[j], n)

SentCovers(sent, wire, last, lost) == \A n \in 1..sent : Covered(n, wire, last, lost)

QueueCovers(queue, wire, last, lost) ==
    \A k \in 1..Len(queue) : \A n \in 1..queue[k] :
        Covered(n, wire, last, lost) \/ \E j \in 1..k : queue[j] = n

LogCovers(upto, queue, wire, last, lost) ==
    \A n \in 1..upto :
        Covered(n, wire, last, lost) \/ \E j \in 1..Len(queue) : queue[j] = n

\* What a socket whose messages are heeded owes to a phone that is at last.
Owes(stage, sent, queue, wire, last, lost, upto) ==
    /\ WireCovers(wire, last, lost)
    /\ stage \in {"connecting", "auth"} => sent <= last /\ queue = <<>>
    /\ stage = "live" => /\ SentCovers(sent, wire, last, lost)
                         /\ QueueCovers(queue, wire, last, lost)
                         /\ LogCovers(upto, queue, wire, last, lost)

\* The messages of a socket end with its closing.
Ends(stage, wire) == \A i \in 1..Len(wire) : wire[i].type = "close" => stage = "closed"

OneOpen ==
    /\ \A c \in Sockets : link[c].stage # "closed" => phone.socket = c
    /\ \A c \in Sockets : Ends(link[c].stage, link[c].wire)
    /\ phone.timer = TRUE => phone.socket = NoSocket
    /\ phone.active = FALSE => phone.socket = NoSocket /\ phone.timer = FALSE
    /\ phone.active = TRUE => phone.session \in Sessions
    /\ phone.socket # NoSocket <=> phone.status \in {"CONNECTING", "CONNECTED"}

Delivers ==
    phone.socket \in Sockets =>
        LET l == link[phone.socket] IN
        /\ l.session = phone.session
        /\ Owes(l.stage, l.lastSent, l.queue, l.wire, phone.last, dropped, log[phone.session])

Ordered == InOrderOnce /\ \A i \in 1..Len(given) : given[i] <= phone.last

StreamInv == Typed /\ OneOpen /\ Delivers /\ Ordered /\ NothingSkipped

-----------------------------------------------------------------------------
(* Messages, wires and queues.                                             *)

LEMMA SocketsAre == Sockets \subseteq Nat \ {0} /\ NoSocket = 0 /\ 0 \notin Sockets
BY StreamAssumption DEF Sockets, NoSocket

LEMMA LargerIs == ASSUME NEW a \in Nat, NEW b \in Nat
                  PROVE  /\ Larger(a, b) \in Nat /\ Larger(a, b) >= a /\ Larger(a, b) >= b
                         /\ Larger(a, b) = a \/ Larger(a, b) = b
BY DEF Larger

LEMMA MessageIs ==
    ASSUME NEW m \in Message
    PROVE  /\ IsData(m) => Upto(m) \in Nat
           /\ m.type = "event" => m.sequence \in Nat
           /\ m.type = "snapshot" => m.from \in Nat /\ m.upto \in Nat
           /\ \A n \in Nat : Carries(m, n) => IsData(m) /\ n <= Upto(m)
BY DEF Message, IsData, Upto, Carries

LEMMA MessagesMade ==
    /\ [type |-> "open"] \in Message /\ ~IsData([type |-> "open"])
    /\ \A code \in {1006, 4401, 4403} :
         /\ [type |-> "close", code |-> code] \in Message
         /\ ~IsData([type |-> "close", code |-> code])
    /\ \A e \in Nat : LET m == [type |-> "event", sequence |-> e] IN
         m \in Message /\ IsData(m) /\ Upto(m) = e /\ Carries(m, e)
    /\ \A from, upto \in Nat :
         LET m == [type |-> "snapshot", from |-> from, upto |-> upto] IN
         /\ m \in Message /\ IsData(m) /\ Upto(m) = upto
         /\ \A n \in Nat : n > from /\ n <= upto => Carries(m, n)
BY DEF Message, IsData, Upto, Carries

LEMMA AppendCovered ==
    ASSUME NEW w \in Seq(Message), NEW m \in Message, NEW n, NEW last, NEW lost
    PROVE  /\ Covered(n, w, last, lost) => Covered(n, Append(w, m), last, lost)
           /\ Carries(m, n) => Covered(n, Append(w, m), last, lost)
<1> DEFINE v == Append(w, m)
<1>1. /\ v \in Seq(Message) /\ Len(v) = Len(w) + 1 /\ v[Len(v)] = m /\ Len(w) \in Nat
      /\ \A j \in 1..Len(w) : v[j] = w[j]
  OBVIOUS
<1>2. 1..Len(w) \subseteq 1..Len(v) /\ Len(v) \in 1..Len(v)
  BY <1>1
<1> HIDE DEF v
<1> QED
  BY <1>1, <1>2 DEF Covered

LEMMA AppendWire ==
    ASSUME NEW w \in Seq(Message), NEW m \in Message, NEW last, NEW lost, WireCovers(w, last, lost),
           IsData(m) => \A n \in 1..Upto(m) : Covered(n, Append(w, m), last, lost)
    PROVE  Append(w, m) \in Seq(Message) /\ WireCovers(Append(w, m), last, lost)
<1> DEFINE v == Append(w, m)
<1>1. /\ v \in Seq(Message) /\ Len(v) = Len(w) + 1 /\ v[Len(v)] = m /\ Len(w) \in Nat
      /\ \A j \in 1..Len(w) : v[j] = w[j]
  OBVIOUS
<1>2. IsData(m) => \A n \in 1..Upto(m) : Covered(n, v, last, lost)
  OBVIOUS
<1> HIDE DEF v
<1>3. ASSUME NEW i \in 1..Len(v), IsData(v[i]), NEW n \in 1..Upto(v[i])
      PROVE  n <= last \/ n \in lost \/ \E j \in 1..i : Carries(v[j], n)
  <2>1. CASE i = Len(v)
    BY <1>1, <1>2, <1>3, <2>1 DEF Covered
  <2>2. CASE i # Len(v)
    <3>1. i \in 1..Len(w) /\ v[i] = w[i]
      BY <1>1, <2>2
    <3>2. n <= last \/ n \in lost \/ \E j \in 1..i : Carries(w[j], n)
      BY <1>3, <3>1 DEF WireCovers
    <3>3. \A j \in 1..i : v[j] = w[j]
      BY <1>1, <3>1
    <3> QED
      BY <3>2, <3>3
  <2> QED
    BY <2>1, <2>2
<1>4. v \in Seq(Message) /\ WireCovers(v, last, lost)
  BY <1>1, <1>3 DEF WireCovers
<1> QED
  BY <1>4 DEF v

LEMMA PrefixWire ==
    ASSUME NEW w \in Seq(Message), NEW k \in 0..Len(w), NEW last, NEW lost,
           WireCovers(w, last, lost)
    PROVE  SubSeq(w, 1, k) \in Seq(Message) /\ WireCovers(SubSeq(w, 1, k), last, lost)
<1> DEFINE v == SubSeq(w, 1, k)
<1>1. v \in Seq(Message) /\ Len(v) = k /\ \A j \in 1..k : v[j] = w[j]
  OBVIOUS
<1>2. 1..k \subseteq 1..Len(w) /\ k \in Nat
  OBVIOUS
<1> HIDE DEF v
<1>3. ASSUME NEW i \in 1..k, IsData(v[i]), NEW n \in 1..Upto(v[i])
      PROVE  n <= last \/ n \in lost \/ \E j \in 1..i : Carries(v[j], n)
  <2>1. n <= last \/ n \in lost \/ \E j \in 1..i : Carries(w[j], n)
    BY <1>1, <1>2, <1>3 DEF WireCovers
  <2>2. \A j \in 1..i : v[j] = w[j]
    BY <1>1
  <2> QED
    BY <2>1, <2>2
<1>4. v \in Seq(Message) /\ WireCovers(v, last, lost)
  BY <1>1, <1>3 DEF WireCovers
<1> QED
  BY <1>4 DEF v

\* The first message arrives, and the position is where it leads.
LEMMA TailCovered ==
    ASSUME NEW w \in Seq(Message), w # <<>>, NEW last \in Nat, NEW next \in Nat, next >= last,
           IsData(Head(w)) => next >= Upto(Head(w)), NEW lost
    PROVE  /\ Tail(w) \in Seq(Message)
           /\ \A n \in Nat : Covered(n, w, last, lost) => Covered(n, Tail(w), next, lost)
           /\ WireCovers(w, last, lost) => WireCovers(Tail(w), next, lost)
<1> DEFINE t == Tail(w)
           h == Head(w)
<1>1. /\ t \in Seq(Message) /\ Len(t) = Len(w) - 1 /\ h = w[1] /\ h \in Message
      /\ Len(w) \in Nat \ {0} /\ \A j \in 1..Len(t) : t[j] = w[j + 1] /\ t[j] \in Message
  OBVIOUS
<1>2. IsData(h) => next >= Upto(h)
  OBVIOUS
<1> HIDE DEF t, h
<1>3. ASSUME NEW n \in Nat, NEW i \in 1..Len(w), NEW j \in 1..i, Carries(w[j], n)
      PROVE  n <= next \/ \E k \in 1..(i - 1) : Carries(t[k], n)
  <2>1. CASE j = 1
    BY <1>1, <1>2, <1>3, <2>1, MessageIs
  <2>2. CASE j # 1
    <3>1. j - 1 \in 1..(i - 1) /\ j - 1 \in 1..Len(t) /\ (j - 1) + 1 = j
      BY <1>1, <2>2
    <3>2. t[j - 1] = w[j]
      BY <1>1, <3>1
    <3> QED
      BY <1>3, <3>1, <3>2
  <2> QED
    BY <2>1, <2>2
<1>4. ASSUME NEW n \in Nat, Covered(n, w, last, lost)
      PROVE  Covered(n, t, next, lost)
  <2>1. CASE n <= last \/ n \in lost
    BY <2>1 DEF Covered
  <2>2. CASE \E j \in 1..Len(w) : Carries(w[j], n)
    <3>1. Len(w) \in 1..Len(w) /\ Len(t) = Len(w) - 1
      BY <1>1
    <3> QED
      BY <1>3, <2>2, <3>1 DEF Covered
  <2> QED
    BY <1>4, <2>1, <2>2 DEF Covered
<1>5. ASSUME WireCovers(w, last, lost), NEW i \in 1..Len(t), IsData(t[i]), NEW n \in 1..Upto(t[i])
      PROVE  n <= next \/ n \in lost \/ \E j \in 1..i : Carries(t[j], n)
  <2>1. i + 1 \in 1..Len(w) /\ t[i] = w[i + 1] /\ (i + 1) - 1 = i
    BY <1>1
  <2>2. n \in Nat
    BY <1>1, <1>5, MessageIs
  <2>3. n <= last \/ n \in lost \/ \E j \in 1..(i + 1) : Carries(w[j], n)
    BY <1>5, <2>1 DEF WireCovers
  <2> QED
    BY <1>3, <2>1, <2>2, <2>3
<1>6. /\ t \in Seq(Message)
      /\ \A n \in Nat : Covered(n, w, last, lost) => Covered(n, t, next, lost)
      /\ WireCovers(w, last, lost) => WireCovers(t, next, lost)
  BY <1>1, <1>4, <1>5 DEF WireCovers
<1> QED
  BY <1>6 DEF t

-----------------------------------------------------------------------------
(* What a socket owes.                                                     *)

\* A message is put on the wire that leaves nothing out.
LEMMA OwesStream ==
    ASSUME NEW w \in Seq(Message), NEW sent \in Nat, NEW last \in Nat, NEW lost, NEW upto \in Nat,
           WireCovers(w, last, lost), sent <= last
    PROVE  LET v == Append(w, [type |-> "snapshot", from |-> sent, upto |-> upto]) IN
           v \in Seq(Message) /\ Owes("live", Larger(sent, upto), <<>>, v, last, lost, upto)
<1> DEFINE m == [type |-> "snapshot", from |-> sent, upto |-> upto]
           v == Append(w, m)
           to == Larger(sent, upto)
<1>1. /\ m \in Message /\ IsData(m) /\ Upto(m) = upto
      /\ \A n \in Nat : n > sent /\ n <= upto => Carries(m, n)
  BY MessagesMade
<1>2. to \in Nat /\ (to = sent \/ to = upto)
  BY LargerIs
<1> HIDE DEF m, to
<1>3. \A n \in 1..upto : Covered(n, v, last, lost)
  <2> SUFFICES ASSUME NEW n \in 1..upto PROVE Covered(n, v, last, lost)
    OBVIOUS
  <2>1. CASE n <= sent
    BY <2>1 DEF Covered
  <2>2. CASE n > sent
    BY <1>1, <2>2, AppendCovered
  <2> QED
    BY <2>1, <2>2
<1>4. v \in Seq(Message) /\ WireCovers(v, last, lost)
  BY <1>1, <1>3, AppendWire
<1> HIDE DEF v
<1>5. SentCovers(to, v, last, lost)
  <2>1. ASSUME NEW n \in 1..sent PROVE Covered(n, v, last, lost)
    BY DEF Covered
  <2> QED
    BY <1>2, <1>3, <2>1 DEF SentCovers
<1>6. QueueCovers(<<>>, v, last, lost)
  BY DEF QueueCovers
<1>7. LogCovers(upto, <<>>, v, last, lost)
  BY <1>3 DEF LogCovers
<1>8. v \in Seq(Message) /\ Owes("live", to, <<>>, v, last, lost, upto)
  BY <1>4, <1>5, <1>6, <1>7 DEF Owes
<1> QED
  BY <1>8 DEF v, m, to

\* Taking the first event of the queue that was already sent.
LEMMA OwesTaken ==
    ASSUME NEW w \in Seq(Message), NEW sent \in Nat, NEW q \in Seq(Nat), q # <<>>,
           NEW last \in Nat, NEW lost, NEW upto \in Nat,
           Owes("live", sent, q, w, last, lost, upto),
           NEW v \in Seq(Message), WireCovers(v, last, lost), NEW to \in Nat,
           SentCovers(to, v, last, lost),
           \A n \in Nat : Covered(n, w, last, lost) => Covered(n, v, last, lost),
           Head(q) >= 1 => Covered(Head(q), v, last, lost)
    PROVE  Tail(q) \in Seq(Nat) /\ Owes("live", to, Tail(q), v, last, lost, upto)
<1> DEFINE t == Tail(q)
           e == Head(q)
<1>1. /\ t \in Seq(Nat) /\ Len(t) = Len(q) - 1 /\ e = q[1] /\ e \in Nat
      /\ Len(q) \in Nat \ {0} /\ \A j \in 1..Len(t) : t[j] = q[j + 1] /\ t[j] \in Nat
  OBVIOUS
<1>2. e >= 1 => Covered(e, v, last, lost)
  OBVIOUS
<1> HIDE DEF t, e
<1>3. ASSUME NEW k \in 0..Len(t), NEW n \in Nat \ {0}, NEW j \in 1..(k + 1), q[j] = n
      PROVE  Covered(n, v, last, lost) \/ \E i \in 1..k : t[i] = n
  <2>1. CASE j = 1
    BY <1>1, <1>2, <1>3, <2>1
  <2>2. CASE j # 1
    <3>1. j - 1 \in 1..k /\ j - 1 \in 1..Len(t) /\ (j - 1) + 1 = j
      BY <1>1, <2>2
    <3>2. t[j - 1] = n
      BY <1>1, <1>3, <3>1
    <3> QED
      BY <3>1, <3>2
  <2> QED
    BY <2>1, <2>2
<1>4. QueueCovers(t, v, last, lost)
  <2> SUFFICES ASSUME NEW k \in 1..Len(t), NEW n \in 1..t[k]
               PROVE  Covered(n, v, last, lost) \/ \E j \in 1..k : t[j] = n
    BY DEF QueueCovers
  <2>1. /\ k + 1 \in 1..Len(q) /\ t[k] = q[k + 1] /\ n \in Nat \ {0} /\ k \in 0..Len(t)
        /\ n \in 1..q[k + 1]
    <3>1. k + 1 \in 1..Len(q) /\ t[k] = q[k + 1] /\ t[k] \in Nat /\ k \in 0..Len(t)
      BY <1>1
    <3> QED
      BY <3>1
  <2>2. Covered(n, w, last, lost) \/ \E j \in 1..(k + 1) : q[j] = n
    BY <2>1 DEF Owes, QueueCovers
  <2> QED
    BY <1>3, <2>1, <2>2
<1>5. LogCovers(upto, t, v, last, lost)
  <2> SUFFICES ASSUME NEW n \in 1..upto
               PROVE  Covered(n, v, last, lost) \/ \E j \in 1..Len(t) : t[j] = n
    BY DEF LogCovers
  <2>1. n \in Nat \ {0} /\ Len(t) \in 0..Len(t) /\ Len(q) = Len(t) + 1
    BY <1>1
  <2>2. Covered(n, w, last, lost) \/ \E j \in 1..Len(q) : q[j] = n
    BY DEF Owes, LogCovers
  <2> QED
    BY <1>3, <2>1, <2>2
<1>6. t \in Seq(Nat) /\ Owes("live", to, t, v, last, lost, upto)
  BY <1>1, <1>4, <1>5 DEF Owes
<1> QED
  BY <1>6 DEF t

\* The first event of the queue is sent, or was.
LEMMA OwesForward ==
    ASSUME NEW w \in Seq(Message), NEW sent \in Nat, NEW q \in Seq(Nat), q # <<>>,
           NEW last \in Nat, NEW lost, NEW upto \in Nat,
           Owes("live", sent, q, w, last, lost, upto)
    PROVE  /\ Head(q) \in Nat /\ Tail(q) \in Seq(Nat)
           /\ Head(q) <= sent => Owes("live", sent, Tail(q), w, last, lost, upto)
           /\ LET v == Append(w, [type |-> "event", sequence |-> Head(q)]) IN
              v \in Seq(Message) /\ Owes("live", Head(q), Tail(q), v, last, lost, upto)
<1> DEFINE e == Head(q)
           m == [type |-> "event", sequence |-> e]
           v == Append(w, m)
<1>1. e \in Nat /\ e = q[1] /\ Len(q) \in Nat \ {0} /\ Tail(q) \in Seq(Nat) /\ 1 \in 1..Len(q)
  OBVIOUS
<1>2. m \in Message /\ IsData(m) /\ Upto(m) = e /\ Carries(m, e)
  BY <1>1, MessagesMade
<1>3. /\ WireCovers(w, last, lost) /\ SentCovers(sent, w, last, lost)
      /\ QueueCovers(q, w, last, lost)
  BY DEF Owes
<1>4. e <= sent => Owes("live", sent, Tail(q), w, last, lost, upto)
  <2> SUFFICES ASSUME e <= sent PROVE Owes("live", sent, Tail(q), w, last, lost, upto)
    OBVIOUS
  <2>1. e >= 1 => Covered(e, w, last, lost)
    BY <1>1, <1>3 DEF SentCovers
  <2> QED
    BY <1>1, <1>3, <2>1, OwesTaken
<1> HIDE DEF m
<1>5. \A n \in Nat : Covered(n, w, last, lost) => Covered(n, v, last, lost)
  BY <1>2, AppendCovered
<1>6. \A n \in 1..e : Covered(n, v, last, lost)
  <2> SUFFICES ASSUME NEW n \in 1..e PROVE Covered(n, v, last, lost)
    OBVIOUS
  <2>1. Covered(n, w, last, lost) \/ \E j \in 1..1 : q[j] = n
    BY <1>1, <1>3 DEF QueueCovers
  <2>2. n \in Nat /\ (n # e => Covered(n, w, last, lost))
    BY <1>1, <2>1
  <2> QED
    BY <1>2, <1>5, <2>2, AppendCovered
<1>7. v \in Seq(Message) /\ WireCovers(v, last, lost)
  BY <1>2, <1>3, <1>6, AppendWire
<1> HIDE DEF v, e
<1>8. SentCovers(e, v, last, lost) /\ (e >= 1 => Covered(e, v, last, lost))
  BY <1>1, <1>6 DEF SentCovers
<1>9. Owes("live", e, Tail(q), v, last, lost, upto)
  <2>1. Head(q) >= 1 => Covered(Head(q), v, last, lost)
    BY <1>8 DEF e
  <2> QED
    BY <1>1, <1>5, <1>7, <1>8, <2>1, OwesTaken
<1> QED
  BY <1>1, <1>4, <1>7, <1>9 DEF v, m, e

\* An event is published to a queue, or is lost to it.
LEMMA OwesPublish ==
    ASSUME NEW w \in Seq(Message), NEW sent \in Nat, NEW q \in Seq(Nat), NEW last \in Nat,
           NEW lost, NEW upto \in Nat, Owes("live", sent, q, w, last, lost, upto)
    PROVE  /\ Append(q, upto + 1) \in Seq(Nat)
           /\ Owes("live", sent, Append(q, upto + 1), w, last, lost, upto + 1)
           /\ Owes("live", sent, q, w, last, lost \cup {upto + 1}, upto + 1)
<1> DEFINE t == Append(q, upto + 1)
           more == lost \cup {upto + 1}
<1>1. /\ t \in Seq(Nat) /\ Len(t) = Len(q) + 1 /\ Len(q) \in Nat /\ t[Len(t)] = upto + 1
      /\ \A j \in 1..Len(q) : t[j] = q[j] /\ q[j] \in Nat
  OBVIOUS
<1>2. \A n : Covered(n, w, last, lost) => Covered(n, w, last, more)
  BY DEF Covered
<1>3. Covered(upto + 1, w, last, more)
  BY DEF Covered
<1>4. WireCovers(w, last, more)
  BY DEF Owes, WireCovers
<1>5. lost \subseteq more
  OBVIOUS
<1> HIDE DEF t, more
<1>6. LogCovers(upto + 1, t, w, last, lost)
  <2> SUFFICES ASSUME NEW n \in 1..(upto + 1)
               PROVE  Covered(n, w, last, lost) \/ \E j \in 1..Len(t) : t[j] = n
    BY DEF LogCovers
  <2>1. CASE n = upto + 1
    BY <1>1, <2>1
  <2>2. CASE n \in 1..upto
    <3>1. Covered(n, w, last, lost) \/ \E j \in 1..Len(q) : q[j] = n
      BY <2>2 DEF Owes, LogCovers
    <3>2. 1..Len(q) \subseteq 1..Len(t)
      BY <1>1
    <3> QED
      BY <1>1, <3>1, <3>2
  <2> QED
    BY <2>1, <2>2
<1>7. QueueCovers(t, w, last, lost)
  <2> SUFFICES ASSUME NEW k \in 1..Len(t), NEW n \in 1..t[k]
               PROVE  Covered(n, w, last, lost) \/ \E j \in 1..k : t[j] = n
    BY DEF QueueCovers
  <2>1. CASE k = Len(t)
    <3>1. n \in 1..(upto + 1)
      BY <1>1, <2>1
    <3> QED
      BY <1>6, <2>1, <3>1 DEF LogCovers
  <2>2. CASE k # Len(t)
    <3>1. k \in 1..Len(q) /\ n \in 1..q[k] /\ \A j \in 1..k : t[j] = q[j]
      BY <1>1, <2>2
    <3> QED
      BY <3>1 DEF Owes, QueueCovers
  <2> QED
    BY <2>1, <2>2
<1>8. QueueCovers(q, w, last, more) /\ SentCovers(sent, w, last, more)
  BY <1>2 DEF Owes, QueueCovers, SentCovers
<1>9. LogCovers(upto + 1, q, w, last, more)
  <2> SUFFICES ASSUME NEW n \in 1..(upto + 1)
               PROVE  Covered(n, w, last, more) \/ \E j \in 1..Len(q) : q[j] = n
    BY DEF LogCovers
  <2>1. CASE n = upto + 1
    BY <1>3, <2>1
  <2>2. CASE n \in 1..upto
    BY <1>2, <2>2 DEF Owes, LogCovers
  <2> QED
    BY <2>1, <2>2
<1>10. /\ t \in Seq(Nat) /\ Owes("live", sent, t, w, last, lost, upto + 1)
       /\ Owes("live", sent, q, w, last, more, upto + 1)
  BY <1>1, <1>4, <1>6, <1>7, <1>8, <1>9 DEF Owes
<1> QED
  BY <1>10 DEF t, more

\* The first message is received.
LEMMA OwesReceived ==
    ASSUME NEW w \in Seq(Message), w # <<>>, NEW last \in Nat, NEW next \in Nat, next >= last,
           IsData(Head(w)) => next >= Upto(Head(w)), NEW lost,
           NEW stage, NEW sent \in Nat, NEW q \in Seq(Nat), NEW upto \in Nat,
           Owes(stage, sent, q, w, last, lost, upto)
    PROVE  Tail(w) \in Seq(Message) /\ Owes(stage, sent, q, Tail(w), next, lost, upto)
<1> DEFINE t == Tail(w)
<1>1. /\ t \in Seq(Message) /\ WireCovers(t, next, lost)
      /\ \A n \in Nat : Covered(n, w, last, lost) => Covered(n, t, next, lost)
  BY TailCovered DEF Owes
<1> HIDE DEF t
<1>2. SentCovers(sent, w, last, lost) => SentCovers(sent, t, next, lost)
  BY <1>1 DEF SentCovers
<1>3. QueueCovers(q, w, last, lost) => QueueCovers(q, t, next, lost)
  <2> SUFFICES ASSUME QueueCovers(q, w, last, lost), NEW k \in 1..Len(q), NEW n \in 1..q[k]
               PROVE  Covered(n, t, next, lost) \/ \E j \in 1..k : q[j] = n
    BY DEF QueueCovers
  <2>1. n \in Nat
    OBVIOUS
  <2> QED
    BY <1>1, <2>1 DEF QueueCovers
<1>4. LogCovers(upto, q, w, last, lost) => LogCovers(upto, q, t, next, lost)
  BY <1>1 DEF LogCovers
<1>5. stage \in {"connecting", "auth"} => sent <= next /\ q = <<>>
  BY DEF Owes
<1>6. t \in Seq(Message) /\ Owes(stage, sent, q, t, next, lost, upto)
  BY <1>1, <1>2, <1>3, <1>4, <1>5 DEF Owes
<1> QED
  BY <1>6 DEF t

-----------------------------------------------------------------------------
(* Links.                                                                  *)

LEMMA LinkIs ==
    ASSUME NEW l \in Link
    PROVE  /\ l.stage \in Stages /\ l.lastSent \in Nat /\ l.queue \in Seq(Nat)
           /\ l.wire \in Seq(Message) /\ l.session \in Sessions \cup {NoSession}
BY DEF Link

LEMMA WireEnds ==
    ASSUME NEW w \in Seq(Message), NEW m \in Message, NEW stage, NEW now, Ends(stage, w),
           stage = "closed" => now = "closed", m.type = "close" => now = "closed"
    PROVE  Ends(now, Append(w, m))
<1> DEFINE v == Append(w, m)
<1>1. /\ Len(v) = Len(w) + 1 /\ v[Len(v)] = m /\ Len(w) \in Nat
      /\ \A j \in 1..Len(w) : v[j] = w[j]
  OBVIOUS
<1> HIDE DEF v
<1>2. Ends(now, v)
  BY <1>1 DEF Ends
<1> QED
  BY <1>2 DEF v

LEMMA TailEnds ==
    ASSUME NEW w \in Seq(Message), w # <<>>, NEW stage, Ends(stage, w)
    PROVE  Ends(stage, Tail(w)) /\ (Head(w).type = "close" => stage = "closed")
<1> DEFINE t == Tail(w)
<1>1. /\ Len(t) = Len(w) - 1 /\ Head(w) = w[1] /\ Len(w) \in Nat \ {0}
      /\ \A j \in 1..Len(t) : t[j] = w[j + 1] /\ j + 1 \in 1..Len(w)
  OBVIOUS
<1> HIDE DEF t
<1>2. Ends(stage, t) /\ (Head(w).type = "close" => stage = "closed")
  BY <1>1 DEF Ends
<1> QED
  BY <1>2 DEF t

\* A link that is given a new stage, position, queue and wire.
Becomes(l, stage, sent, queue, wire) ==
    /\ l \in Link /\ l.stage = stage /\ l.lastSent = sent /\ l.queue = queue /\ l.wire = wire

LEMMA ThreeFields ==
    ASSUME link \in [Sockets -> Link], NEW c \in Sockets, NEW stage, NEW queue, NEW wire
    PROVE  [link EXCEPT ![c].stage = stage, ![c].queue = queue, ![c].wire = wire]
             = [link EXCEPT ![c] = [link[c] EXCEPT !.stage = stage, !.queue = queue, !.wire = wire]]
BY DEF Link

\* A link that was closed, with what is left on its wire.
Ended(c, queue, wire) == [link[c] EXCEPT !.stage = "closed", !.queue = queue, !.wire = wire]

EndedAt(c, queue, wire) == [link EXCEPT ![c] = Ended(c, queue, wire)]

LEMMA EndedIs ==
    ASSUME NEW c \in Sockets, link[c] \in Link, NEW queue \in Seq(Nat), NEW wire \in Seq(Message)
    PROVE  /\ Ended(c, queue, wire).session = link[c].session
           /\ Becomes(Ended(c, queue, wire), "closed", link[c].lastSent, queue, wire)
BY DEF Ended, Becomes, Link, Stages

LEMMA Finished ==
    ASSUME link \in [Sockets -> Link], NEW c \in Sockets, NEW code
    PROVE  Finish(c, code) =
              EndedAt(c, <<>>, Append(link[c].wire, [type |-> "close", code |-> code]))
<1> DEFINE w == Append(link[c].wire, [type |-> "close", code |-> code])
           q == <<>>
<1>1. Finish(c, code) = [link EXCEPT ![c].stage = "closed", ![c].queue = q, ![c].wire = w]
  BY DEF Finish
<1> HIDE DEF w, q
<1>2. Finish(c, code) = EndedAt(c, q, w)
  BY <1>1, ThreeFields DEF Ended, EndedAt
<1> QED
  BY <1>2 DEF q, w

\* The steps that move one link: none is opened, and one that the phone heeds
\* goes on to owe what it owed.
LEMMA OneLinkMoves ==
    ASSUME StreamInv, NEW c \in Sockets, NEW l, link' = [link EXCEPT ![c] = l],
           UNCHANGED <<log, phone, made, given, vouched, dropped>>,
           l \in Link, l.session = link[c].session, Ends(l.stage, l.wire),
           link[c].stage = "closed" => l.stage = "closed",
           phone.socket = c =>
              Owes(l.stage, l.lastSent, l.queue, l.wire, phone.last, dropped, log[phone.session])
    PROVE  StreamInv'
<1>1. link \in [Sockets -> Link]
  BY DEF StreamInv, Typed
<1>2. link' \in [Sockets -> Link] /\ link'[c] = l /\ \A d \in Sockets \ {c} : link'[d] = link[d]
  BY <1>1
<1>3. Typed'
  BY <1>2 DEF StreamInv, Typed
<1>4. OneOpen'
  BY <1>2 DEF StreamInv, OneOpen
<1>5. Delivers'
  BY <1>2 DEF StreamInv, Delivers
<1>6. Ordered' /\ NothingSkipped'
  BY DEF StreamInv, Ordered, InOrderOnce, NothingSkipped
<1> QED
  BY <1>3, <1>4, <1>5, <1>6 DEF StreamInv

\* What is known of a link that the phone heeds, and of any other.
LEMMA LinkKnown ==
    ASSUME StreamInv, NEW c \in Sockets
    PROVE  /\ link[c] \in Link /\ link[c].lastSent \in Nat /\ link[c].queue \in Seq(Nat)
           /\ link[c].wire \in Seq(Message) /\ Ends(link[c].stage, link[c].wire)
           /\ link[c].stage # "closed" => phone.socket = c
           /\ phone.socket = c =>
                /\ link[c].session = phone.session /\ phone.session \in Sessions
                /\ log[phone.session] \in Nat
                /\ Owes(link[c].stage, link[c].lastSent, link[c].queue, link[c].wire,
                        phone.last, dropped, log[phone.session])
           /\ phone.last \in Nat
<1>1. link[c] \in Link /\ phone.last \in Nat /\ phone.active \in BOOLEAN
  BY DEF StreamInv, Typed, Bridge
<1>2. phone.socket = c => phone.session \in Sessions
  BY <1>1, SocketsAre DEF StreamInv, OneOpen
<1>3. phone.socket = c => log[phone.session] \in Nat
  BY <1>2 DEF StreamInv, Typed
<1> QED
  BY <1>1, <1>2, <1>3, LinkIs DEF StreamInv, OneOpen, Delivers

-----------------------------------------------------------------------------
(* The agent and the network.                                              *)

\* A link that ends owes what is on its wire, or on the part that arrives.
LEMMA EndKeeps ==
    ASSUME StreamInv, NEW c \in Sockets, NEW q \in Seq(Nat), NEW w \in Seq(Message),
           phone.socket = c, WireCovers(w, phone.last, dropped),
           link' = EndedAt(c, q, w),
           UNCHANGED <<log, phone, made, given, vouched, dropped>>
    PROVE  StreamInv'
<1> DEFINE l == Ended(c, q, w)
<1>1. link' = [link EXCEPT ![c] = l] /\ link[c] \in Link
  BY LinkKnown DEF EndedAt
<1>2. l.session = link[c].session /\ Becomes(l, "closed", link[c].lastSent, q, w)
  BY <1>1, EndedIs
<1> HIDE DEF l
<1>3. /\ Ends("closed", w)
      /\ Owes("closed", link[c].lastSent, q, w, phone.last, dropped, log[phone.session])
  BY DEF Ends, Owes
<1>4. /\ l \in Link /\ l.stage = "closed" /\ Ends(l.stage, l.wire)
      /\ Owes(l.stage, l.lastSent, l.queue, l.wire, phone.last, dropped, log[phone.session])
  BY <1>2, <1>3 DEF Becomes
<1> QED
  BY <1>1, <1>2, <1>4, OneLinkMoves

\* What Finish leaves of a link.
Emptied == <<>>
EndWire(c, code) == Append(link[c].wire, [type |-> "close", code |-> code])

LEMMA Finishes ==
    ASSUME StreamInv, NEW c \in Sockets, NEW code \in {1006, 4401, 4403}, phone.socket = c
    PROVE  /\ Finish(c, code) = EndedAt(c, Emptied, EndWire(c, code))
           /\ Emptied \in Seq(Nat) /\ EndWire(c, code) \in Seq(Message)
           /\ WireCovers(EndWire(c, code), phone.last, dropped)
<1> DEFINE m == [type |-> "close", code |-> code]
<1>1. link \in [Sockets -> Link] /\ Emptied \in Seq(Nat) /\ m \in Message /\ ~IsData(m)
  BY MessagesMade DEF StreamInv, Typed, Emptied
<1>2. Finish(c, code) = EndedAt(c, Emptied, EndWire(c, code))
  BY <1>1, Finished DEF Emptied, EndWire
<1>3. EndWire(c, code) = Append(link[c].wire, m)
  BY DEF EndWire
<1> HIDE DEF m
<1>4. /\ EndWire(c, code) \in Seq(Message)
      /\ WireCovers(EndWire(c, code), phone.last, dropped)
  BY <1>1, <1>3, LinkKnown, AppendWire DEF Owes
<1> QED
  BY <1>1, <1>2, <1>4

LEMMA FinishKeeps ==
    ASSUME StreamInv, NEW c \in Sockets, NEW code \in {1006, 4401, 4403}, phone.socket = c,
           link' = Finish(c, code), UNCHANGED <<log, phone, made, given, vouched, dropped>>
    PROVE  StreamInv'
<1>1. /\ Emptied \in Seq(Nat) /\ EndWire(c, code) \in Seq(Message)
      /\ WireCovers(EndWire(c, code), phone.last, dropped)
      /\ link' = EndedAt(c, Emptied, EndWire(c, code))
  BY Finishes
<1> QED
  BY <1>1, EndKeeps

LEMMA AcceptKeeps ==
    ASSUME StreamInv, NEW c \in Sockets, Accept(c)
    PROVE  StreamInv'
<1> DEFINE m == [type |-> "open"]
           w == Append(link[c].wire, m)
           l == [link[c] EXCEPT !.stage = "auth", !.wire = w]
<1>1. m \in Message /\ ~IsData(m) /\ link \in [Sockets -> Link] /\ m.type # "close"
  BY MessagesMade DEF StreamInv, Typed
<1>2. link[c].stage = "connecting" /\ link[c] \in Link /\ "auth" \in Stages
  BY LinkKnown DEF Accept, Stages
<1>3. link' = [link EXCEPT ![c] = l]
  BY <1>1, <1>2 DEF Accept, Put, Link
<1> HIDE DEF m
<1>4. w \in Seq(Message) /\ Ends("auth", w)
  BY <1>1, <1>2, LinkKnown, WireEnds
<1>5. phone.socket = c => WireCovers(w, phone.last, dropped)
  BY <1>1, LinkKnown, AppendWire DEF Owes
<1> HIDE DEF w
<1>6. l.session = link[c].session /\ Becomes(l, "auth", link[c].lastSent, link[c].queue, w)
  BY <1>2, <1>4 DEF Becomes, Link
<1> HIDE DEF l
<1>7. phone.socket = c =>
        Owes("auth", link[c].lastSent, link[c].queue, w, phone.last, dropped, log[phone.session])
  BY <1>2, <1>5, LinkKnown DEF Owes
<1>8. UNCHANGED <<log, phone, made, given, vouched, dropped>>
  BY DEF Accept, agent, history
<1> QED
  BY <1>2, <1>3, <1>4, <1>6, <1>7, <1>8, OneLinkMoves DEF Becomes

LEMMA StreamKeeps ==
    ASSUME StreamInv, NEW c \in Sockets, Stream(c)
    PROVE  StreamInv'
<1>1. UNCHANGED <<log, phone, made, given, vouched, dropped>>
  BY DEF Stream, agent, history
<1>2. CASE token # "valid"
  <2>1. phone.socket = c
    BY LinkKnown DEF Stream
  <2>2. link' = Finish(c, 4403)
    BY <1>2 DEF Stream
  <2> QED
    BY <1>1, <2>1, <2>2, FinishKeeps
<1>3. CASE token = "valid"
  <2> DEFINE upto == log[link[c].session]
             m == [type |-> "snapshot", from |-> link[c].lastSent, upto |-> upto]
             w == Append(link[c].wire, m)
             to == Larger(link[c].lastSent, upto)
             l == [link[c] EXCEPT !.stage = "live", !.lastSent = to, !.wire = w]
  <2>1. /\ link[c].stage = "auth" /\ link[c] \in Link /\ "live" \in Stages
        /\ link \in [Sockets -> Link] /\ phone.socket = c
    BY LinkKnown DEF Stream, Stages, StreamInv, Typed
  <2>2. /\ upto \in Nat /\ upto = log[phone.session] /\ link[c].queue = <<>>
        /\ link[c].lastSent <= phone.last
    BY <2>1, LinkKnown DEF Owes
  <2>3. to \in Nat /\ m \in Message /\ m.type # "close"
    <3>1. link[c].lastSent \in Nat /\ upto \in Nat
      BY <2>2, LinkKnown
    <3>2. m \in Message /\ m.type = "snapshot"
      BY <3>1, MessagesMade
    <3> HIDE DEF upto
    <3> QED
      BY <3>1, <3>2, LargerIs
  <2>4. link' = [link EXCEPT ![c] = l]
    BY <1>3, <2>1 DEF Stream, Put, Link
  <2>5. WireCovers(link[c].wire, phone.last, dropped)
    BY <2>1, LinkKnown DEF Owes
  <2>6. /\ w \in Seq(Message)
        /\ Owes("live", to, <<>>, w, phone.last, dropped, log[phone.session])
    BY <2>2, <2>5, LinkKnown, OwesStream
  <2> HIDE DEF m, to
  <2>7. Ends("live", w)
    BY <2>1, <2>3, LinkKnown, WireEnds
  <2> HIDE DEF w
  <2>8. l.session = link[c].session /\ Becomes(l, "live", to, <<>>, w)
    BY <2>1, <2>2, <2>3, <2>6 DEF Becomes, Link
  <2> HIDE DEF l
  <2> QED
    BY <1>1, <2>1, <2>4, <2>6, <2>7, <2>8, OneLinkMoves DEF Becomes
<1> QED
  BY <1>2, <1>3

LEMMA ForwardKeeps ==
    ASSUME StreamInv, NEW c \in Sockets, Forward(c)
    PROVE  StreamInv'
<1>1. UNCHANGED <<log, phone, made, given, vouched, dropped>>
  BY DEF Forward, agent, history
<1>2. CASE token # "valid"
  <2>1. phone.socket = c
    BY LinkKnown DEF Forward
  <2>2. link' = Finish(c, 4403)
    BY <1>2 DEF Forward
  <2> QED
    BY <1>1, <2>1, <2>2, FinishKeeps
<1>3. CASE token = "valid"
  <2> DEFINE e == Head(link[c].queue)
             t == Tail(link[c].queue)
             m == [type |-> "event", sequence |-> e]
             w == Append(link[c].wire, m)
             taken == [link[c] EXCEPT !.queue = t]
             sent == [link[c] EXCEPT !.queue = t, !.lastSent = e, !.wire = w]
  <2>1. /\ link[c].stage = "live" /\ link[c].queue # <<>> /\ link[c] \in Link
        /\ link \in [Sockets -> Link] /\ phone.socket = c
    BY <1>3, LinkKnown DEF Forward, StreamInv, Typed
  <2>2. /\ e \in Nat /\ t \in Seq(Nat)
        /\ e <= link[c].lastSent => Owes("live", link[c].lastSent, t, link[c].wire, phone.last,
                                         dropped, log[phone.session])
        /\ w \in Seq(Message)
        /\ Owes("live", e, t, w, phone.last, dropped, log[phone.session])
    BY <2>1, LinkKnown, OwesForward
  <2>3. m \in Message /\ m.type # "close"
    BY <2>2, MessagesMade
  <2>4. IF e <= link[c].lastSent THEN link' = [link EXCEPT ![c] = taken]
        ELSE link' = [link EXCEPT ![c] = sent]
    BY <1>3, <2>1 DEF Forward, Link
  <2> HIDE DEF m, e, t
  <2>5. Ends("live", w)
    BY <2>1, <2>3, LinkKnown, WireEnds
  <2> HIDE DEF w
  <2>6. /\ taken.session = link[c].session
        /\ Becomes(taken, "live", link[c].lastSent, t, link[c].wire)
    BY <2>1, <2>2, LinkKnown DEF Becomes, Link
  <2>7. sent.session = link[c].session /\ Becomes(sent, "live", e, t, w)
    BY <2>1, <2>2 DEF Becomes, Link
  <2> HIDE DEF taken, sent
  <2>8. CASE e <= link[c].lastSent
    <3>1. Ends("live", link[c].wire)
      BY <2>1, LinkKnown
    <3> QED
      BY <1>1, <2>1, <2>2, <2>4, <2>6, <2>8, <3>1, OneLinkMoves DEF Becomes
  <2>9. CASE ~(e <= link[c].lastSent)
    BY <1>1, <2>1, <2>2, <2>4, <2>5, <2>7, <2>9, OneLinkMoves DEF Becomes
  <2> QED
    BY <2>8, <2>9
<1> QED
  BY <1>2, <1>3

LEMMA CutKeeps ==
    ASSUME StreamInv, NEW c \in Sockets, NEW k \in 0..Len(link[c].wire), Cut(c, k)
    PROVE  StreamInv'
<1> DEFINE m == [type |-> "close", code |-> 1006]
           v == SubSeq(link[c].wire, 1, k)
           w == Append(v, m)
           q == <<>>
<1>1. /\ link \in [Sockets -> Link] /\ phone.socket = c
      /\ q \in Seq(Nat) /\ m \in Message /\ ~IsData(m)
  BY LinkKnown, MessagesMade DEF Cut, StreamInv, Typed
<1>2. link' = [link EXCEPT ![c].stage = "closed", ![c].queue = q, ![c].wire = w]
  BY DEF Cut
<1>3. v \in Seq(Message) /\ WireCovers(v, phone.last, dropped)
  BY <1>1, LinkKnown, PrefixWire DEF Owes
<1>4. UNCHANGED <<log, phone, made, given, vouched, dropped>>
  BY DEF Cut, agent, history
<1> HIDE DEF m, q, v
<1>5. w \in Seq(Message) /\ WireCovers(w, phone.last, dropped)
  BY <1>1, <1>3, AppendWire
<1> HIDE DEF w
<1>6. link' = EndedAt(c, q, w)
  BY <1>1, <1>2, ThreeFields DEF Ended, EndedAt
<1> QED
  BY <1>1, <1>4, <1>5, <1>6, EndKeeps

\* An event is persisted and offered to the queues.
LEMMA PublishKeeps ==
    ASSUME StreamInv, NEW s \in Sessions, Publish(s)
    PROVE  StreamInv'
<1> DEFINE next == log[s] + 1
           Subscribed(c) == link[c].stage = "live" /\ link[c].session = s
           Full(c) == Subscribed(c) /\ Len(link[c].queue) >= QueueSize
           Offered(c) == [link[c] EXCEPT !.queue = Append(@, next)]
<1>1. /\ log \in [Sessions -> Nat] /\ link \in [Sockets -> Link] /\ next \in Nat
      /\ UNCHANGED <<phone, made, given, vouched>>
  BY DEF Publish, StreamInv, Typed
<1>2. log' = [log EXCEPT ![s] = next] /\ log'[s] = next
  BY <1>1 DEF Publish
<1>3. /\ DOMAIN link' = Sockets
      /\ \A c \in Sockets : link'[c] = IF Subscribed(c) /\ ~Full(c) THEN Offered(c) ELSE link[c]
      /\ link' = [c \in Sockets |-> link'[c]]
      /\ dropped' = IF phone.socket \in Sockets /\ Full(phone.socket) THEN dropped \cup {next}
                    ELSE dropped
  BY <1>2 DEF Publish
<1>4. ASSUME NEW c \in Sockets
      PROVE  /\ Offered(c) \in Link /\ Offered(c).queue = Append(link[c].queue, next)
             /\ Offered(c).stage = link[c].stage /\ Offered(c).session = link[c].session
             /\ Offered(c).lastSent = link[c].lastSent /\ Offered(c).wire = link[c].wire
  <2> DEFINE q == Append(link[c].queue, next)
  <2>1. link[c] \in Link /\ q \in Seq(Nat)
    BY <1>1, LinkKnown
  <2> HIDE DEF q
  <2>2. LET l == [link[c] EXCEPT !.queue = q] IN
        /\ l \in Link /\ l.queue = q
        /\ l.stage = link[c].stage /\ l.session = link[c].session
        /\ l.lastSent = link[c].lastSent /\ l.wire = link[c].wire
    BY <2>1 DEF Link
  <2> QED
    BY <2>2 DEF q
<1> HIDE DEF Offered
<1>5. ASSUME NEW c \in Sockets
      PROVE  /\ link'[c] \in Link /\ link'[c].stage = link[c].stage
             /\ link'[c].session = link[c].session /\ link'[c].wire = link[c].wire
             /\ link'[c].lastSent = link[c].lastSent
  BY <1>1, <1>3, <1>4
<1>6. link' \in [Sockets -> Link] /\ log' \in [Sessions -> Nat]
  BY <1>1, <1>2, <1>3, <1>5
<1>7. Typed'
  BY <1>1, <1>6 DEF StreamInv, Typed
<1>8. OneOpen'
  BY <1>1, <1>5 DEF StreamInv, OneOpen
<1>9. Delivers'
  <2> SUFFICES ASSUME NEW c \in Sockets, phone.socket = c
               PROVE  /\ link'[c].session = phone.session
                      /\ Owes(link'[c].stage, link'[c].lastSent, link'[c].queue, link'[c].wire,
                              phone.last, dropped', log'[phone.session])
    BY <1>1 DEF Delivers
  <2> DEFINE stage == link[c].stage  sent == link[c].lastSent  q == link[c].queue
             w == link[c].wire  last == phone.last
  <2>1. /\ link[c].session = phone.session /\ w \in Seq(Message) /\ q \in Seq(Nat) /\ sent \in Nat
        /\ last \in Nat /\ log[phone.session] \in Nat /\ phone.session \in Sessions
        /\ Owes(stage, sent, q, w, last, dropped, log[phone.session])
    BY LinkKnown
  <2>2. CASE Subscribed(c)
    <3>1. stage = "live" /\ phone.session = s /\ next = log[phone.session] + 1
      BY <2>1, <2>2
    <3>2. /\ Owes("live", sent, Append(q, next), w, last, dropped, next)
          /\ Owes("live", sent, q, w, last, dropped \cup {next}, next)
      BY <2>1, <3>1, OwesPublish
    <3>3. CASE Full(c)
      BY <1>2, <1>3, <2>1, <3>1, <3>2, <3>3
    <3>4. CASE ~Full(c)
      <4>1. /\ link'[c] = Offered(c) /\ dropped' = dropped /\ log'[phone.session] = next
            /\ Offered(c).queue = Append(q, next)
            /\ Offered(c).stage = "live" /\ Offered(c).session = phone.session
            /\ Offered(c).lastSent = sent /\ Offered(c).wire = w
        BY <1>2, <1>3, <1>4, <2>1, <2>2, <3>1, <3>4
      <4> HIDE DEF sent, q, w, last, next
      <4>2. /\ link'[c].queue = Append(q, next) /\ link'[c].stage = "live"
            /\ link'[c].session = phone.session /\ link'[c].lastSent = sent /\ link'[c].wire = w
        BY <4>1
      <4>3. Owes("live", sent, Append(q, next), w, last, dropped, next)
        BY <3>2
      <4>4. last = phone.last
        BY DEF last
      <4> QED
        BY <4>1, <4>2, <4>3, <4>4
    <3> QED
      BY <3>3, <3>4
  <2>3. CASE ~Subscribed(c)
    <3>1. link'[c] = link[c] /\ dropped' = dropped
      BY <1>3, <2>3
    <3>2. CASE phone.session # s
      BY <1>1, <1>2, <2>1, <3>1, <3>2
    <3>3. CASE phone.session = s
      BY <2>1, <2>3, <3>1, <3>3 DEF Owes
    <3> QED
      BY <3>2, <3>3
  <2> QED
    BY <2>2, <2>3
<1>10. Ordered' /\ NothingSkipped'
  BY <1>1, <1>3 DEF StreamInv, Ordered, InOrderOnce, NothingSkipped
<1> QED
  BY <1>7, <1>8, <1>9, <1>10 DEF StreamInv

LEMMA AuthTimeoutKeeps ==
    ASSUME StreamInv, NEW c \in Sockets, AuthTimeout(c)
    PROVE  StreamInv'
<1>1. phone.socket = c
  BY LinkKnown DEF AuthTimeout
<1>2. link' = Finish(c, 4401)
  BY DEF AuthTimeout
<1>4. UNCHANGED <<log, phone, made, given, vouched, dropped>>
  BY DEF AuthTimeout, agent, history
<1> QED
  BY <1>1, <1>2, <1>4, FinishKeeps

-----------------------------------------------------------------------------
(* The phone's calls.                                                      *)

\* The links once the phone closed its socket: none is open.
LEMMA AllClosed ==
    ASSUME StreamInv, NEW links,
           links = Abandon(phone.socket) \/ (links = link /\ phone.socket = NoSocket)
    PROVE  /\ links \in [Sockets -> Link]
           /\ \A c \in Sockets : links[c].stage = "closed"
<1> DEFINE s == phone.socket
<1>1. /\ link \in [Sockets -> Link]
      /\ \A c \in Sockets : link[c].stage # "closed" => s = c
  BY DEF StreamInv, Typed, OneOpen
<1>2. CASE links = link /\ (s = NoSocket \/ link[s].stage = "closed" \/ s \notin Sockets)
  BY <1>1, <1>2, SocketsAre
<1>3. CASE links = Finish(s, 1006) /\ s \in Sockets
  <2>0. s \in Sockets /\ phone.socket = s /\ 1006 \in {1006, 4401, 4403}
    BY <1>3
  <2> HIDE DEF s
  <2>1. /\ links = [link EXCEPT ![s] = Ended(s, Emptied, EndWire(s, 1006))]
        /\ Emptied \in Seq(Nat) /\ EndWire(s, 1006) \in Seq(Message)
    BY <1>3, <2>0, Finishes DEF EndedAt
  <2>2. /\ Ended(s, Emptied, EndWire(s, 1006)) \in Link
        /\ Ended(s, Emptied, EndWire(s, 1006)).stage = "closed"
    BY <1>1, <1>3, <2>1, EndedIs DEF Becomes
  <2> QED
    BY <1>1, <1>3, <2>1, <2>2
<1>4. CASE links = Finish(s, 1006) /\ s \notin Sockets
  <2>1. links = link
    BY <1>1, <1>4 DEF Finish
  <2> QED
    BY <1>2, <1>4, <2>1
<1> QED
  BY <1>2, <1>3, <1>4 DEF Abandon

\* A new socket is opened where none is.
LEMMA Opens ==
    ASSUME StreamInv, NEW links \in [Sockets -> Link], \A c \in Sockets : links[c].stage = "closed",
           NEW p \in Bridge, p.session \in Sessions, p.active = TRUE, Open(links, p), log' = log,
           given' \in Seq(Nat), vouched' \in Nat,
           \A i, j \in 1..Len(given') : i < j => given'[i] < given'[j],
           \A i \in 1..Len(given') : given'[i] <= p.last,
           \A n \in 1..p.last :
               n <= vouched' \/ n \in dropped' \/ \E i \in 1..Len(given') : given'[i] = n
    PROVE  StreamInv'
<1> DEFINE next == made + 1
           fresh == NewLink(p.session, p.last)
<1>1. /\ made \in Nat /\ log \in [Sessions -> Nat] /\ next \in Nat /\ next # NoSocket
      /\ p.last \in Nat /\ log[p.session] \in Nat
  BY SocketsAre DEF StreamInv, Typed, Bridge
<1>2. /\ made' = next /\ link' = [links EXCEPT ![next] = fresh]
      /\ phone' = [p EXCEPT !.socket = next, !.timer = FALSE, !.status = "CONNECTING"]
  BY DEF Open
<1>3. /\ fresh \in Link /\ fresh.stage = "connecting" /\ fresh.wire = <<>>
      /\ fresh.session = p.session /\ fresh.queue = <<>> /\ fresh.lastSent = p.last
  BY <1>1 DEF NewLink, Link, Stages, Bridge
<1> HIDE DEF fresh, next
<1>4. /\ phone' \in Bridge /\ phone'.socket = next /\ phone'.timer = FALSE
      /\ phone'.status = "CONNECTING" /\ phone'.last = p.last /\ phone'.active = TRUE
      /\ phone'.session = p.session
  BY <1>1, <1>2 DEF Bridge, SocketStatus
<1>5. /\ link' \in [Sockets -> Link] /\ (next \in Sockets => link'[next] = fresh)
      /\ \A c \in Sockets \ {next} : link'[c] = links[c]
  BY <1>2, <1>3
<1>6. Typed'
  BY <1>1, <1>2, <1>4, <1>5 DEF Typed
<1>7. OneOpen'
  <2>1. \A c \in Sockets : link'[c].stage # "closed" => phone'.socket = c
    BY <1>4, <1>5
  <2>2. ASSUME NEW c \in Sockets PROVE Ends(link'[c].stage, link'[c].wire)
    <3>1. CASE c = next
      BY <1>3, <1>5, <3>1 DEF Ends
    <3>2. CASE c # next
      BY <1>5, <3>2 DEF Ends
    <3> QED
      BY <3>1, <3>2
  <2> QED
    BY <1>1, <1>4, <2>1, <2>2 DEF OneOpen
<1>8. Delivers'
  <2> SUFFICES ASSUME next \in Sockets
               PROVE  Owes("connecting", p.last, <<>>, <<>>, p.last, dropped', log'[p.session])
    BY <1>3, <1>4, <1>5 DEF Delivers
  <2>1. WireCovers(<<>>, p.last, dropped')
    BY DEF WireCovers
  <2> QED
    BY <1>1, <2>1 DEF Owes
<1>9. Ordered' /\ NothingSkipped'
  BY <1>4 DEF Ordered, InOrderOnce, NothingSkipped
<1> QED
  BY <1>6, <1>7, <1>8, <1>9 DEF StreamInv

LEMMA PhoneKnown ==
    ASSUME StreamInv
    PROVE  /\ phone \in Bridge /\ phone.last \in Nat /\ phone.active \in BOOLEAN
           /\ phone.timer \in BOOLEAN /\ given \in Seq(Nat) /\ vouched \in Nat
           /\ \A i, j \in 1..Len(given) : i < j => given[i] < given[j]
           /\ \A i \in 1..Len(given) : given[i] <= phone.last /\ given[i] \in Nat
           /\ \A n \in 1..phone.last :
                 n <= vouched \/ n \in dropped \/ \E i \in 1..Len(given) : given[i] = n
BY DEF StreamInv, Typed, Bridge, Ordered, InOrderOnce, NothingSkipped

LEMMA ConnectKeeps ==
    ASSUME StreamInv, NEW s \in Sessions, NEW after, Connect(s, after)
    PROVE  StreamInv'
<1> DEFINE links == Abandon(phone.socket)
           last == Resume(s, after)
           p == [phone EXCEPT !.session = s, !.last = last, !.active = TRUE]
<1>1. /\ Open(links, p) /\ log' = log /\ after \in 0..log[s]
      /\ given' = IF s = phone.session THEN given ELSE <<>>
      /\ vouched' = IF s = phone.session THEN Larger(vouched, after) ELSE after
      /\ dropped' = IF s = phone.session THEN dropped ELSE {}
  BY DEF Connect, agent
<1>2. links \in [Sockets -> Link] /\ \A c \in Sockets : links[c].stage = "closed"
  BY AllClosed
<1>3. after \in Nat
  BY <1>1 DEF StreamInv, Typed
<1>4. last = IF s = phone.session THEN Larger(phone.last, after) ELSE after
  BY DEF Resume
<1>5. last \in Nat
  BY <1>3, <1>4, PhoneKnown, LargerIs
<1> HIDE DEF links, last
<1>6. p \in Bridge /\ p.session \in Sessions /\ p.active = TRUE /\ p.last = last
  BY <1>5, PhoneKnown DEF Bridge
<1> HIDE DEF p
<1>7. CASE s = phone.session
  <2>1. /\ given' = given /\ vouched' = Larger(vouched, after) /\ dropped' = dropped
        /\ last = Larger(phone.last, after)
    BY <1>1, <1>4, <1>7
  <2>2. /\ last >= phone.last /\ (last = phone.last \/ last = after)
        /\ vouched' \in Nat /\ vouched' >= vouched /\ vouched' >= after
    BY <1>3, <2>1, PhoneKnown, LargerIs
  <2>3. \A i \in 1..Len(given') : given'[i] <= last
    BY <1>5, <2>1, <2>2, PhoneKnown
  <2>4. ASSUME NEW n \in 1..last
        PROVE  n <= vouched' \/ n \in dropped' \/ \E i \in 1..Len(given') : given'[i] = n
    <3>1. CASE n <= phone.last
      <4>1. n \in 1..phone.last
        BY <3>1, PhoneKnown
      <4>2. n <= vouched => n <= vouched'
        BY <2>2, PhoneKnown
      <4> QED
        BY <2>1, <4>1, <4>2, PhoneKnown
    <3>2. CASE ~(n <= phone.last)
      BY <1>3, <1>5, <2>2, <3>2, PhoneKnown
    <3> QED
      BY <3>1, <3>2
  <2>5. \A i, j \in 1..Len(given') : i < j => given'[i] < given'[j]
    BY <2>1, PhoneKnown
  <2>6. given' \in Seq(Nat)
    BY <2>1, PhoneKnown
  <2> QED
    BY <1>1, <1>2, <1>6, <2>2, <2>3, <2>4, <2>5, <2>6, Opens
<1>8. CASE s # phone.session
  <2>1. given' = <<>> /\ vouched' = after /\ last = after
    BY <1>1, <1>4, <1>8
  <2>2. /\ given' \in Seq(Nat) /\ Len(given') = 0
        /\ \A i, j \in 1..Len(given') : i < j => given'[i] < given'[j]
        /\ \A i \in 1..Len(given') : given'[i] <= last
    BY <2>1
  <2>3. /\ vouched' \in Nat
        /\ \A n \in 1..last :
              n <= vouched' \/ n \in dropped' \/ \E i \in 1..Len(given') : given'[i] = n
    BY <1>3, <2>1
  <2> QED
    BY <1>1, <1>2, <1>6, <2>2, <2>3, Opens
<1> QED
  BY <1>7, <1>8

\* The app is back, or the timer fires.
LEMMA ReopenKeeps ==
    ASSUME StreamInv, NEW links,
           links = Abandon(phone.socket) \/ (links = link /\ phone.socket = NoSocket),
           phone.active = TRUE, Open(links, phone), UNCHANGED <<log, given, vouched, dropped>>
    PROVE  StreamInv'
<1>1. links \in [Sockets -> Link] /\ \A c \in Sockets : links[c].stage = "closed"
  BY AllClosed
<1>2. phone.session \in Sessions
  BY DEF StreamInv, OneOpen
<1> QED
  BY <1>1, <1>2, PhoneKnown, Opens

\* No socket is left, and none is opened.
LEMMA Rests ==
    ASSUME StreamInv, link' \in [Sockets -> Link], \A c \in Sockets : link'[c].stage = "closed",
           phone' \in Bridge, phone'.socket = NoSocket, phone'.last = phone.last,
           phone'.status \in {"DISCONNECTED", "UNAUTHORIZED"},
           phone'.active = FALSE => phone'.timer = FALSE,
           phone'.active = TRUE => phone'.session \in Sessions,
           UNCHANGED <<log, made, given, vouched, dropped>>
    PROVE  StreamInv'
<1>1. Typed'
  BY DEF StreamInv, Typed
<1>2. OneOpen'
  BY DEF OneOpen, Ends
<1>3. Delivers'
  BY SocketsAre DEF Delivers
<1>4. Ordered' /\ NothingSkipped'
  BY DEF StreamInv, Ordered, InOrderOnce, NothingSkipped
<1> QED
  BY <1>1, <1>2, <1>3, <1>4 DEF StreamInv

LEMMA DisconnectKeeps ==
    ASSUME StreamInv, Disconnect
    PROVE  StreamInv'
<1>1. /\ link' = Abandon(phone.socket)
      /\ phone' = [phone EXCEPT !.socket = NoSocket, !.timer = FALSE, !.active = FALSE,
                                !.status = "DISCONNECTED"]
      /\ UNCHANGED <<log, made, given, vouched, dropped>>
  BY DEF Disconnect, agent, history
<1>2. link' \in [Sockets -> Link] /\ \A c \in Sockets : link'[c].stage = "closed"
  BY <1>1, AllClosed
<1>3. /\ phone' \in Bridge /\ phone'.socket = NoSocket /\ phone'.last = phone.last
      /\ phone'.status = "DISCONNECTED" /\ phone'.timer = FALSE /\ phone'.active = FALSE
  BY <1>1, PhoneKnown, SocketsAre DEF Bridge, SocketStatus
<1> QED
  BY <1>1, <1>2, <1>3, Rests

LEMMA TimerKeeps ==
    ASSUME StreamInv, TimerFires
    PROVE  StreamInv'
<1>1. phone.timer = TRUE /\ phone.socket = NoSocket /\ phone.active = TRUE
  BY PhoneKnown DEF TimerFires, StreamInv, OneOpen
<1>2. Open(link, phone) /\ UNCHANGED <<log, given, vouched, dropped>>
  BY <1>1 DEF TimerFires, agent, history
<1> QED
  BY <1>1, <1>2, ReopenKeeps

-----------------------------------------------------------------------------
(* The phone's callbacks.                                                  *)

\* The replayed events of a snapshot, as a sequence.
LEMMA UpFrom ==
    ASSUME NEW k \in Nat, NEW to \in Nat, NEW f, f = [i \in 1..k |-> to + i]
    PROVE  f \in Seq(Nat) /\ Len(f) = k /\ \A i \in 1..k : f[i] = to + i
<1>1. \A i \in 1..k : to + i \in Nat
  OBVIOUS
<1>2. f \in [1..k -> Nat]
  BY <1>1
<1> QED
  BY <1>2

\* The new events of a message are in order, beyond the position, and all that
\* it carries beyond it.
LEMMA FreshIs ==
    ASSUME NEW m \in Message, IsData(m), phone.last \in Nat
    PROVE  /\ Fresh(m) \in Seq(Nat)
           /\ \A i \in 1..Len(Fresh(m)) : phone.last < Fresh(m)[i] /\ Fresh(m)[i] <= Upto(m)
           /\ \A i, j \in 1..Len(Fresh(m)) : i < j => Fresh(m)[i] < Fresh(m)[j]
           /\ \A n \in Nat : (Carries(m, n) /\ n > phone.last) =>
                 \E i \in 1..Len(Fresh(m)) : Fresh(m)[i] = n
<1>1. CASE m.type = "event"
  <2>1. m.sequence \in Nat
    BY <1>1, MessageIs
  <2>2. Fresh(m) = IF m.sequence > phone.last THEN <<m.sequence>> ELSE <<>>
    BY <1>1 DEF Fresh
  <2>3. Upto(m) = m.sequence /\ \A n : Carries(m, n) => n = m.sequence
    BY <1>1 DEF Upto, Carries
  <2>4. CASE m.sequence > phone.last
    <3>1. Fresh(m) \in Seq(Nat) /\ Len(Fresh(m)) = 1 /\ Fresh(m)[1] = m.sequence
      BY <2>1, <2>2, <2>4
    <3> QED
      BY <2>1, <2>3, <2>4, <3>1
  <2>5. CASE ~(m.sequence > phone.last)
    <3>1. Fresh(m) \in Seq(Nat) /\ Len(Fresh(m)) = 0
      BY <2>1, <2>2, <2>5
    <3> QED
      BY <2>1, <2>3, <2>5, <3>1
  <2> QED
    BY <2>4, <2>5
<1>2. CASE m.type = "snapshot"
  <2> DEFINE to == Larger(m.from, phone.last)
             f == [i \in 1..(m.upto - to) |-> to + i]
             k == IF m.upto >= to THEN m.upto - to ELSE 0
  <2>1. m.from \in Nat /\ m.upto \in Nat /\ to \in Nat /\ to >= phone.last
        /\ (to = m.from \/ to = phone.last)
    BY <1>2, MessageIs, LargerIs
  <2>2. Fresh(m) = f
    BY <1>2 DEF Fresh
  <2>3. Upto(m) = m.upto /\ \A n : Carries(m, n) => m.from < n /\ n <= m.upto
    BY <1>2 DEF Upto, Carries
  <2> HIDE DEF to
  <2>4. k \in Nat /\ 1..(m.upto - to) = 1..k
    BY <2>1
  <2>5. f = [i \in 1..k |-> to + i]
    BY <2>4
  <2> HIDE DEF f, k
  <2>6. /\ f \in Seq(Nat) /\ Len(f) = k /\ \A i \in 1..k : f[i] = to + i
    BY <2>1, <2>4, <2>5, UpFrom
  <2> USE DEF k
  <2>7. \A i \in 1..k : to + i <= m.upto
    BY <2>1
  <2>8. ASSUME NEW n \in Nat, Carries(m, n), n > phone.last
        PROVE  n - to \in 1..k /\ to + (n - to) = n
    BY <2>1, <2>3, <2>8
  <2> HIDE DEF f, k
  <2>9. \A i \in 1..k : phone.last < f[i] /\ f[i] <= m.upto
    BY <2>1, <2>4, <2>6, <2>7
  <2>10. \A i, j \in 1..k : i < j => f[i] < f[j]
    BY <2>1, <2>4, <2>6
  <2>11. ASSUME NEW n \in Nat, Carries(m, n), n > phone.last
         PROVE  \E i \in 1..k : f[i] = n
    BY <2>6, <2>8, <2>11
  <2> QED
    BY <2>2, <2>3, <2>6, <2>9, <2>10, <2>11
<1> QED
  BY <1>1, <1>2 DEF IsData

\* Sequences of event numbers.
Within(f, low, high) == \A i \in 1..Len(f) : low < f[i] /\ f[i] <= high
UpTo(f, high) == \A i \in 1..Len(f) : f[i] <= high
Rising(f) == \A i, j \in 1..Len(f) : i < j => f[i] < f[j]
Has(f, n) == \E i \in 1..Len(f) : f[i] = n

LEMMA Joined ==
    ASSUME NEW g \in Seq(Nat), NEW f \in Seq(Nat), NEW last \in Nat, NEW next \in Nat, next >= last,
           UpTo(g, last), Within(f, last, next), Rising(g), Rising(f)
    PROVE  /\ g \o f \in Seq(Nat) /\ UpTo(g \o f, next) /\ Rising(g \o f)
           /\ \A n : Has(g, n) \/ Has(f, n) => Has(g \o f, n)
<1> USE DEF UpTo, Within, Rising, Has
<1> DEFINE h == g \o f
<1>1. /\ h \in Seq(Nat) /\ Len(h) = Len(g) + Len(f) /\ Len(g) \in Nat /\ Len(f) \in Nat
      /\ \A i \in 1..Len(g) : h[i] = g[i] /\ g[i] \in Nat
      /\ \A i \in 1..Len(f) : h[Len(g) + i] = f[i] /\ f[i] \in Nat
  OBVIOUS
<1> HIDE DEF h
<1>2. \A i \in 1..Len(h) : \/ i \in 1..Len(g)
                           \/ i - Len(g) \in 1..Len(f) /\ i = Len(g) + (i - Len(g)) /\ i > Len(g)
  BY <1>1
<1>3. ASSUME NEW i \in 1..Len(h)
      PROVE  /\ h[i] <= next /\ h[i] \in Nat /\ (i > Len(g) => h[i] > last)
             /\ i \in 1..Len(g) => h[i] <= last
  <2>1. CASE i \in 1..Len(g)
    <3>1. h[i] = g[i] /\ g[i] \in Nat /\ g[i] <= last /\ ~(i > Len(g))
      BY <1>1, <2>1
    <3> QED
      BY <3>1
  <2>2. CASE ~(i \in 1..Len(g))
    <3> DEFINE d == i - Len(g)
    <3>1. d \in 1..Len(f) /\ i = Len(g) + d
      BY <1>2, <2>2
    <3> HIDE DEF d
    <3>2. h[i] = f[d] /\ f[d] \in Nat /\ last < f[d] /\ f[d] <= next
      BY <1>1, <3>1
    <3> QED
      BY <2>2, <3>2
  <2> QED
    BY <2>1, <2>2
<1>4. ASSUME NEW i \in 1..Len(h), NEW j \in 1..Len(h), i < j
      PROVE  h[i] < h[j]
  <2>1. CASE j \in 1..Len(g)
    <3>1. i \in 1..Len(g)
      BY <1>1, <1>4, <2>1
    <3> QED
      BY <1>1, <1>4, <2>1, <3>1
  <2>2. CASE ~(j \in 1..Len(g)) /\ i \in 1..Len(g)
    <3>1. j > Len(g)
      BY <1>1, <2>2
    <3> QED
      BY <1>3, <2>2, <3>1
  <2>3. CASE ~(j \in 1..Len(g)) /\ ~(i \in 1..Len(g))
    <3> DEFINE a == i - Len(g)
               b == j - Len(g)
    <3>1. /\ a \in 1..Len(f) /\ i = Len(g) + a
          /\ b \in 1..Len(f) /\ j = Len(g) + b /\ a < b
      BY <1>1, <1>2, <1>4, <2>3
    <3> HIDE DEF a, b
    <3>2. h[i] = f[a] /\ h[j] = f[b] /\ f[a] < f[b]
      BY <1>1, <3>1
    <3> QED
      BY <3>2
  <2> QED
    BY <2>1, <2>2, <2>3
<1>5. ASSUME NEW n, \/ \E i \in 1..Len(g) : g[i] = n
                    \/ \E i \in 1..Len(f) : f[i] = n
      PROVE  \E i \in 1..Len(h) : h[i] = n
  <2>1. ASSUME NEW i \in 1..Len(g), g[i] = n
        PROVE  \E j \in 1..Len(h) : h[j] = n
    BY <1>1, <2>1
  <2>2. ASSUME NEW i \in 1..Len(f), f[i] = n
        PROVE  \E j \in 1..Len(h) : h[j] = n
    <3>1. Len(g) + i \in 1..Len(h)
      BY <1>1
    <3> QED
      BY <1>1, <2>2, <3>1
  <2> QED
    BY <1>5, <2>1, <2>2
<1>6. /\ h \in Seq(Nat) /\ \A i \in 1..Len(h) : h[i] <= next
      /\ \A i, j \in 1..Len(h) : i < j => h[i] < h[j]
      /\ \A n : (\/ \E i \in 1..Len(g) : g[i] = n
                 \/ \E i \in 1..Len(f) : f[i] = n) => \E i \in 1..Len(h) : h[i] = n
  BY <1>1, <1>3, <1>4, <1>5
<1> QED
  BY <1>6 DEF h

\* A link whose next message was received.
Heard(c, sent) == [link[c] EXCEPT !.wire = Tail(link[c].wire), !.sent = sent]

LEMMA HeardIs ==
    ASSUME StreamInv, NEW c \in Sockets, link[c].wire # <<>>, NEW sent \in BOOLEAN
    PROVE  /\ Heard(c, sent) \in Link /\ Heard(c, sent).session = link[c].session
           /\ Heard(c, sent).stage = link[c].stage /\ Heard(c, sent).lastSent = link[c].lastSent
           /\ Heard(c, sent).queue = link[c].queue /\ Heard(c, sent).wire = Tail(link[c].wire)
<1> DEFINE w == Tail(link[c].wire)
<1>1. link[c] \in Link /\ w \in Seq(Message)
  BY LinkKnown
<1> HIDE DEF w
<1>2. LET l == [link[c] EXCEPT !.wire = w, !.sent = sent] IN
      /\ l \in Link /\ l.session = link[c].session /\ l.stage = link[c].stage
      /\ l.lastSent = link[c].lastSent /\ l.queue = link[c].queue /\ l.wire = w
  BY <1>1 DEF Link
<1> QED
  BY <1>2 DEF w, Heard

\* The links after a callback of socket c.
Hearing(c) == \E sent \in BOOLEAN : link' = [link EXCEPT ![c] = Heard(c, sent)]

LEMMA ReceivedIs ==
    ASSUME StreamInv, NEW c \in Sockets
    PROVE  /\ Received(c) = [link EXCEPT ![c] = Heard(c, link[c].sent)]
           /\ [Received(c) EXCEPT ![c].sent = TRUE] = [link EXCEPT ![c] = Heard(c, TRUE)]
           /\ link[c].sent \in BOOLEAN
<1> DEFINE w == Tail(link[c].wire)
<1>1. link \in [Sockets -> Link] /\ link[c] \in Link
  BY LinkKnown DEF StreamInv, Typed
<1>2. Received(c) = [link EXCEPT ![c].wire = w]
  BY DEF Received
<1> HIDE DEF w
<1>3. /\ [link EXCEPT ![c].wire = w]
            = [link EXCEPT ![c] = [link[c] EXCEPT !.wire = w, !.sent = link[c].sent]]
      /\ [[link EXCEPT ![c].wire = w] EXCEPT ![c].sent = TRUE]
            = [link EXCEPT ![c] = [link[c] EXCEPT !.wire = w, !.sent = TRUE]]
      /\ link[c].sent \in BOOLEAN
  BY <1>1 DEF Link
<1> QED
  BY <1>2, <1>3 DEF w, Heard

\* A callback keeps the invariant if the position it leaves is that of the
\* message, and if it gives up only a socket that is closed.
LEMMA CallbackKeeps ==
    ASSUME StreamInv, NEW c \in Sockets, link[c].wire # <<>>, Hearing(c),
           phone' \in Bridge, phone'.session = phone.session, phone'.last >= phone.last,
           \/ phone'.socket = phone.socket
           \/ phone'.socket = NoSocket /\ phone.socket = c /\ link[c].stage = "closed",
           phone.socket = c =>
             (IsData(Head(link[c].wire)) => phone'.last >= Upto(Head(link[c].wire))),
           phone.socket # c => phone'.last = phone.last,
           phone'.timer = TRUE => phone'.socket = NoSocket,
           phone'.active = FALSE => phone'.socket = NoSocket /\ phone'.timer = FALSE,
           phone'.active = TRUE => phone.active = TRUE,
           phone'.socket # NoSocket <=> phone'.status \in {"CONNECTING", "CONNECTED"},
           given' \in Seq(Nat), Ordered', NothingSkipped',
           UNCHANGED <<log, made, vouched, dropped>>
    PROVE  StreamInv'
<1>1. PICK sent \in BOOLEAN : link' = [link EXCEPT ![c] = Heard(c, sent)]
  BY DEF Hearing
<1> DEFINE l == Heard(c, sent)
<1>2. /\ l \in Link /\ l.session = link[c].session /\ l.stage = link[c].stage
      /\ l.lastSent = link[c].lastSent /\ l.queue = link[c].queue /\ l.wire = Tail(link[c].wire)
  BY HeardIs
<1>3. link' = [link EXCEPT ![c] = l] /\ link \in [Sockets -> Link]
  BY <1>1 DEF StreamInv, Typed
<1> HIDE DEF l
<1>4. link' \in [Sockets -> Link] /\ link'[c] = l /\ \A d \in Sockets \ {c} : link'[d] = link[d]
  BY <1>2, <1>3
<1>5. Typed'
  BY <1>4 DEF StreamInv, Typed
<1>6. Ends(l.stage, l.wire)
  BY <1>2, LinkKnown, TailEnds
<1>7. OneOpen'
  <2>1. \A d \in Sockets : link'[d].stage # "closed" => phone'.socket = d
    BY <1>2, <1>4, LinkKnown
  <2>2. \A d \in Sockets : Ends(link'[d].stage, link'[d].wire)
    BY <1>4, <1>6, LinkKnown
  <2>3. phone'.active = TRUE => phone'.session \in Sessions
    BY DEF StreamInv, OneOpen
  <2> QED
    BY <2>1, <2>2, <2>3 DEF OneOpen
<1>8. Delivers'
  <2> SUFFICES ASSUME NEW d \in Sockets, phone'.socket = d
               PROVE  /\ link'[d].session = phone'.session
                      /\ Owes(link'[d].stage, link'[d].lastSent, link'[d].queue, link'[d].wire,
                              phone'.last, dropped', log'[phone'.session])
    BY DEF Delivers
  <2>1. phone.socket = d
    BY SocketsAre
  <2>2. CASE d # c
    <3>1. link'[d] = link[d] /\ phone'.last = phone.last
      BY <1>4, <2>1, <2>2
    <3> QED
      BY <2>1, <3>1, LinkKnown
  <2>3. CASE d = c
    <3> DEFINE w == link[c].wire
    <3>1. /\ w \in Seq(Message) /\ w # <<>> /\ phone.last \in Nat /\ phone'.last \in Nat
          /\ link[c].lastSent \in Nat /\ link[c].queue \in Seq(Nat) /\ log[phone.session] \in Nat
          /\ link[c].session = phone.session
          /\ Owes(link[c].stage, link[c].lastSent, link[c].queue, w, phone.last, dropped,
                  log[phone.session])
      BY <2>1, <2>3, LinkKnown DEF Bridge
    <3>2. IsData(Head(w)) => phone'.last >= Upto(Head(w))
      BY <2>1, <2>3
    <3>3. Owes(link[c].stage, link[c].lastSent, link[c].queue, Tail(w), phone'.last, dropped,
               log[phone.session])
      BY <3>1, <3>2, OwesReceived
    <3> QED
      BY <1>2, <1>4, <2>3, <3>1, <3>3
  <2> QED
    BY <2>2, <2>3
<1> QED
  BY <1>5, <1>7, <1>8 DEF StreamInv

\* A callback of a socket the phone has replaced.
LEMMA IgnoredKeeps ==
    ASSUME StreamInv, NEW c \in Sockets, link[c].wire # <<>>, Hearing(c), phone.socket # c,
           UNCHANGED <<log, phone, made, given, vouched, dropped>>
    PROVE  StreamInv'
<1>1. Ordered' /\ NothingSkipped' /\ phone.last >= phone.last
  BY PhoneKnown DEF StreamInv, Ordered, InOrderOnce, NothingSkipped
<1>2. /\ phone.timer = TRUE => phone.socket = NoSocket
      /\ phone.active = FALSE => phone.socket = NoSocket /\ phone.timer = FALSE
      /\ phone.socket # NoSocket <=> phone.status \in {"CONNECTING", "CONNECTED"}
  BY DEF StreamInv, OneOpen
<1> QED
  BY <1>1, <1>2, PhoneKnown, CallbackKeeps

LEMMA OpenKeeps ==
    ASSUME StreamInv, NEW c \in Sockets, link[c].wire # <<>>, Head(link[c].wire).type = "open",
           OnOpen(c), UNCHANGED <<log, made, given, vouched, dropped>>
    PROVE  StreamInv'
<1>1. Hearing(c)
  BY ReceivedIs DEF OnOpen, Hearing
<1>2. CASE phone.socket # c
  BY <1>1, <1>2, IgnoredKeeps DEF OnOpen
<1>3. CASE phone.socket = c
  <2>1. phone' = [phone EXCEPT !.status = "CONNECTED"]
    BY <1>3 DEF OnOpen
  <2>2. /\ phone' \in Bridge /\ phone'.socket = c /\ phone'.session = phone.session
        /\ phone'.last = phone.last /\ phone'.timer = phone.timer /\ phone'.active = phone.active
        /\ phone'.status = "CONNECTED"
    BY <1>3, <2>1, PhoneKnown DEF Bridge, SocketStatus
  <2>3. Ordered' /\ NothingSkipped' /\ phone'.last >= phone.last
    BY <2>2, PhoneKnown DEF StreamInv, Ordered, InOrderOnce, NothingSkipped
  <2>4. ~IsData(Head(link[c].wire))
    BY DEF IsData
  <2>5. c # NoSocket /\ phone.timer # TRUE /\ phone.active # FALSE
    BY <1>3, SocketsAre DEF StreamInv, OneOpen
  <2> QED
    BY <1>1, <1>3, <2>2, <2>3, <2>4, <2>5, PhoneKnown, CallbackKeeps
<1> QED
  BY <1>2, <1>3

LEMMA MessageKeeps ==
    ASSUME StreamInv, NEW c \in Sockets, link[c].wire # <<>>, NEW m, m = Head(link[c].wire),
           IsData(m), OnMessage(c, m), UNCHANGED <<log, made, vouched, dropped>>
    PROVE  StreamInv'
<1>1. Hearing(c)
  BY ReceivedIs DEF OnMessage, Hearing
<1>2. CASE phone.socket # c
  BY <1>1, <1>2, IgnoredKeeps DEF OnMessage
<1>3. CASE phone.socket = c
  <2> DEFINE next == Larger(phone.last, Upto(m))
             f == Fresh(m)
  <2>1. /\ link[c].wire \in Seq(Message) /\ m = link[c].wire[1] /\ m \in Message
        /\ 1 \in 1..Len(link[c].wire)
    BY LinkKnown
  <2>2. /\ Upto(m) \in Nat /\ next \in Nat /\ next >= phone.last /\ next >= Upto(m)
        /\ (next = phone.last \/ next = Upto(m))
    BY <2>1, MessageIs, PhoneKnown, LargerIs
  <2>3. phone' = [phone EXCEPT !.last = next] /\ given' = given \o f
    BY <1>3 DEF OnMessage
  <2>4. /\ f \in Seq(Nat)
        /\ \A i \in 1..Len(f) : phone.last < f[i] /\ f[i] <= Upto(m)
        /\ \A i, j \in 1..Len(f) : i < j => f[i] < f[j]
        /\ \A n \in Nat : (Carries(m, n) /\ n > phone.last) => \E i \in 1..Len(f) : f[i] = n
    BY <2>1, PhoneKnown, FreshIs
  <2> HIDE DEF next, f
  <2>5. /\ phone' \in Bridge /\ phone'.last = next /\ phone'.socket = c
        /\ phone'.session = phone.session /\ phone'.timer = phone.timer
        /\ phone'.active = phone.active /\ phone'.status = phone.status
    BY <1>3, <2>2, <2>3, PhoneKnown DEF Bridge
  <2>6. \A i \in 1..Len(f) : phone.last < f[i] /\ f[i] <= next
    BY <2>2, <2>4
  <2>7. /\ given' \in Seq(Nat)
        /\ \A i \in 1..Len(given') : given'[i] <= next
        /\ \A i, j \in 1..Len(given') : i < j => given'[i] < given'[j]
        /\ \A n : (\/ \E i \in 1..Len(given) : given[i] = n
                   \/ \E i \in 1..Len(f) : f[i] = n) => \E i \in 1..Len(given') : given'[i] = n
    <3> DEFINE h == given \o f
    <3>1. /\ given \in Seq(Nat) /\ phone.last \in Nat
          /\ UpTo(given, phone.last) /\ Rising(given)
      BY PhoneKnown DEF UpTo, Rising
    <3>2. Within(f, phone.last, next) /\ Rising(f)
      BY <2>4, <2>6 DEF Within, Rising
    <3>3. /\ h \in Seq(Nat) /\ UpTo(h, next) /\ Rising(h)
          /\ \A n : Has(given, n) \/ Has(f, n) => Has(h, n)
      BY <2>2, <2>4, <3>1, <3>2, Joined
    <3>4. given' = h
      BY <2>3
    <3> HIDE DEF h
    <3> QED
      BY <3>3, <3>4 DEF UpTo, Rising, Has
  <2>8. ASSUME NEW n \in 1..next
        PROVE  n <= vouched \/ n \in dropped \/ \E i \in 1..Len(given') : given'[i] = n
    <3>1. CASE n <= phone.last
      <4>1. n \in 1..phone.last
        BY <2>2, <3>1, PhoneKnown
      <4> QED
        BY <2>7, <4>1, PhoneKnown
    <3>2. CASE ~(n <= phone.last)
      <4>1. n \in 1..Upto(m) /\ n > phone.last /\ n \in Nat
        BY <2>2, <3>2, PhoneKnown
      <4>2. WireCovers(link[c].wire, phone.last, dropped)
        BY <1>3, LinkKnown DEF Owes
      <4>3. n \in dropped \/ \E j \in 1..1 : Carries(link[c].wire[j], n)
        BY <2>1, <3>2, <4>1, <4>2 DEF WireCovers
      <4>4. n \in dropped \/ Carries(m, n)
        BY <2>1, <4>3
      <4> QED
        BY <2>4, <2>7, <4>1, <4>4
    <3> QED
      BY <3>1, <3>2
  <2>9. Ordered'
    BY <2>5, <2>7 DEF Ordered, InOrderOnce
  <2>10. NothingSkipped'
    BY <2>5, <2>8 DEF NothingSkipped
  <2>11. /\ c # NoSocket /\ phone.timer # TRUE /\ phone.active # FALSE
         /\ phone.status \in {"CONNECTING", "CONNECTED"}
    BY <1>3, SocketsAre DEF StreamInv, OneOpen
  <2> QED
    BY <1>1, <1>3, <2>2, <2>5, <2>7, <2>9, <2>10, <2>11, PhoneKnown, CallbackKeeps
<1> QED
  BY <1>2, <1>3

LEMMA CloseKeeps ==
    ASSUME StreamInv, NEW c \in Sockets, link[c].wire # <<>>, Head(link[c].wire).type = "close",
           NEW code, OnClose(c, code), UNCHANGED <<log, made, given, vouched, dropped>>
    PROVE  StreamInv'
<1>1. Hearing(c)
  BY ReceivedIs DEF OnClose, Hearing
<1>2. CASE phone.socket # c
  BY <1>1, <1>2, IgnoredKeeps DEF OnClose
<1>3. CASE phone.socket = c
  <2>1. link[c].stage = "closed"
    BY LinkKnown, TailEnds
  <2> DEFINE Alone ==
        /\ phone' \in Bridge /\ phone'.socket = NoSocket /\ phone'.session = phone.session
        /\ phone'.last = phone.last /\ phone'.status \in {"DISCONNECTED", "UNAUTHORIZED"}
        /\ phone'.active = TRUE => phone.active = TRUE
        /\ phone'.active = FALSE => phone'.timer = FALSE
  <2>2. Alone
    <3>1. CASE code \in {4401, 4403}
      <4>1. phone' = [phone EXCEPT !.socket = NoSocket, !.active = FALSE, !.status = "UNAUTHORIZED"]
        BY <1>3, <3>1 DEF OnClose
      <4>2. phone.timer = FALSE
        BY <1>3, SocketsAre, PhoneKnown DEF StreamInv, OneOpen
      <4> QED
        BY <4>1, <4>2, PhoneKnown, SocketsAre DEF Bridge, SocketStatus
    <3>2. CASE ~(code \in {4401, 4403})
      <4> DEFINE again == phone.timer \/ phone.active
      <4>1. phone' = [phone EXCEPT !.socket = NoSocket, !.status = "DISCONNECTED", !.timer = again]
        BY <1>3, <3>2 DEF OnClose
      <4>2. again \in BOOLEAN /\ phone.active = TRUE
        BY <1>3, SocketsAre, PhoneKnown DEF StreamInv, OneOpen
      <4> HIDE DEF again
      <4> QED
        BY <4>1, <4>2, PhoneKnown, SocketsAre DEF Bridge, SocketStatus
    <3> HIDE DEF Alone
    <3> QED
      BY <3>1, <3>2
  <2>3. Ordered' /\ NothingSkipped' /\ phone'.last >= phone.last
    BY <2>2, PhoneKnown DEF StreamInv, Ordered, InOrderOnce, NothingSkipped
  <2>4. ~IsData(Head(link[c].wire))
    BY DEF IsData
  <2> QED
    BY <1>1, <1>3, <2>1, <2>2, <2>3, <2>4, PhoneKnown, CallbackKeeps
<1> QED
  BY <1>2, <1>3

LEMMA DeliverKeeps ==
    ASSUME StreamInv, NEW c \in Sockets, Deliver(c)
    PROVE  StreamInv'
<1> DEFINE m == Head(link[c].wire)
<1>1. link[c].wire # <<>> /\ UNCHANGED <<log, made, vouched, dropped>>
  BY DEF Deliver, agent
<1>2. CASE m.type = "open" /\ OnOpen(c) /\ UNCHANGED given
  BY <1>1, <1>2, OpenKeeps
<1>3. CASE m.type \in {"event", "snapshot"} /\ OnMessage(c, m)
  BY <1>1, <1>3, MessageKeeps DEF IsData
<1>4. CASE m.type = "close" /\ OnClose(c, m.code) /\ UNCHANGED given
  BY <1>1, <1>4, CloseKeeps
<1> QED
  BY <1>2, <1>3, <1>4 DEF Deliver

-----------------------------------------------------------------------------
(* Every step, and the theorems.                                           *)

LEMMA StreamStart ==
    ASSUME log \in [Sessions -> Nat], Unconnected
    PROVE  StreamInv
<1> DEFINE l == [NewLink(NoSession, 0) EXCEPT !.stage = "closed"]
<1>1. l \in Link /\ l.stage = "closed" /\ l.wire = <<>>
  <2>1. <<>> \in Seq(Nat) /\ <<>> \in Seq(Message)
    OBVIOUS
  <2>2. NewLink(NoSession, 0) \in Link /\ NewLink(NoSession, 0).wire = <<>>
    BY <2>1 DEF NewLink, Link, Stages
  <2>3. \A k \in Link : [k EXCEPT !.stage = "closed"] \in Link
                        /\ [k EXCEPT !.stage = "closed"].stage = "closed"
                        /\ [k EXCEPT !.stage = "closed"].wire = k.wire
    BY DEF Link, Stages
  <2> QED
    BY <2>2, <2>3
<1>2. link = [c \in Sockets |-> l]
  BY DEF Unconnected
<1> HIDE DEF l
<1>3. /\ phone = [socket |-> NoSocket, timer |-> FALSE, session |-> NoSession,
                  last |-> 0, active |-> FALSE, status |-> "DISCONNECTED"]
      /\ made = 0 /\ given = <<>> /\ vouched = 0
  BY DEF Unconnected
<1>4. Typed
  BY <1>1, <1>2, <1>3, SocketsAre DEF Typed, Bridge, SocketStatus
<1>5. OneOpen
  BY <1>1, <1>2, <1>3 DEF OneOpen, Ends
<1>6. Delivers
  BY <1>3, SocketsAre DEF Delivers
<1>7. Ordered /\ NothingSkipped
  BY <1>3 DEF Ordered, InOrderOnce, NothingSkipped
<1> QED
  BY <1>4, <1>5, <1>6, <1>7 DEF StreamInv

LEMMA ReconnectKeeps ==
    ASSUME StreamInv, Reconnect
    PROVE  StreamInv'
<1> DEFINE links == Abandon(phone.socket)
<1>1. /\ phone.active = TRUE /\ Open(links, phone)
      /\ UNCHANGED <<log, given, vouched, dropped>>
  BY PhoneKnown DEF Reconnect, agent, history
<1> QED
  BY <1>1, ReopenKeeps

LEMMA NothingMoved ==
    ASSUME StreamInv, UNCHANGED <<log, link, phone, made, given, vouched, dropped>>
    PROVE  StreamInv'
BY DEF StreamInv, Typed, OneOpen, Delivers, Ordered, InOrderOnce, NothingSkipped

LEMMA StreamStep == StreamInv /\ [Next]_vars => StreamInv'
<1> SUFFICES ASSUME StreamInv, [Next]_vars PROVE StreamInv'
  OBVIOUS
<1>1. CASE Phone
  <2>1. ASSUME NEW s \in Sessions, NEW after \in 0..MaxEvents, Connect(s, after)
        PROVE  StreamInv'
    BY <2>1, ConnectKeeps
  <2>2. CASE Reconnect
    BY <2>2, ReconnectKeeps
  <2>3. CASE Disconnect
    BY <2>3, DisconnectKeeps
  <2>4. CASE TimerFires
    BY <2>4, TimerKeeps
  <2>5. ASSUME NEW c \in Sockets, Deliver(c)
        PROVE  StreamInv'
    BY <2>5, DeliverKeeps
  <2> QED
    BY <1>1, <2>1, <2>2, <2>3, <2>4, <2>5 DEF Phone
<1>2. CASE Agent
  <2>1. ASSUME NEW s \in Sessions, Publish(s)
        PROVE  StreamInv'
    BY <2>1, PublishKeeps
  <2>2. CASE Revoke
    BY <2>2, NothingMoved DEF Revoke, history
  <2>3. ASSUME NEW c \in Sockets, Accept(c) \/ Stream(c) \/ Forward(c)
        PROVE  StreamInv'
    BY <2>3, AcceptKeeps, StreamKeeps, ForwardKeeps
  <2> QED
    BY <1>2, <2>1, <2>2, <2>3 DEF Agent
<1>3. CASE Network
  <2>1. ASSUME NEW c \in Sockets, AuthTimeout(c)
        PROVE  StreamInv'
    BY <2>1, AuthTimeoutKeeps
  <2>2. ASSUME NEW c \in Sockets, NEW k \in 0..Len(link[c].wire), Cut(c, k)
        PROVE  StreamInv'
    BY <2>2, CutKeeps
  <2> QED
    BY <1>3, <2>1, <2>2 DEF Network
<1>4. CASE UNCHANGED vars
  BY <1>4, NothingMoved DEF vars
<1> QED
  BY <1>1, <1>2, <1>3, <1>4 DEF Next

\* Along every behaviour the agent's handlers, the wires and the phone's
\* fields fit together: the invariant the three properties below rest on.
THEOREM StreamInvariant == Spec => []StreamInv
<1>1. Init => StreamInv
  BY StreamStart DEF Init
<1> QED
  BY <1>1, StreamStep, PTL DEF Spec

\* The phone never has two connections, whatever mixture of timers, late
\* callbacks, calls and refusals PocketPilotSocket goes through, and neither a
\* timer nor a socket once it has been told to stop.
THEOREM OneConnectionHolds == Spec => []OneConnection
<1>1. StreamInv => OneConnection
  BY PhoneKnown DEF StreamInv, OneOpen, OneConnection
<1> QED
  BY <1>1, StreamInvariant, PTL

\* The app is given the events of its session in order and each of them once,
\* through replayed snapshots, queues and reconnections of any length.
THEOREM EventsAreInOrder == Spec => []InOrderOnce
<1>1. StreamInv => InOrderOnce
  BY DEF StreamInv, Ordered
<1> QED
  BY <1>1, StreamInvariant, PTL

\* Of the events its position has passed the phone was given every one, but
\* those its caller had and those a full queue dropped.
THEOREM NoEventIsSkipped == Spec => []NothingSkipped
<1>1. StreamInv => NothingSkipped
  BY DEF StreamInv
<1> QED
  BY <1>1, StreamInvariant, PTL

-----------------------------------------------------------------------------
(* The list on the phone's screen, beside the same socket.                 *)

Fetches == [kind: {"open", "start"}, session: Sessions,
            after: Nat \cup {Unserved}, upto: Nat \cup {Unserved}]

TimelineInv == StreamInv /\ fetches \subseteq Fetches /\ ListMeetsPosition

LEMMA FetchIs ==
    /\ \A s \in Sessions, kind \in {"open", "start"} :
         [kind |-> kind, session |-> s, after |-> Unserved, upto |-> Unserved] \in Fetches
    /\ \A f \in Fetches, n \in Nat : /\ [f EXCEPT !.after = n] \in Fetches
                                     /\ [f EXCEPT !.upto = n] \in Fetches
    /\ \A f \in Fetches : f.session \in Sessions /\ f.upto \in Int
BY DEF Fetches, Unserved

\* SNAPSHOT and EVENT keep what is in the list.
LEMMA SnapshotGrows == \A s, numbers : DOMAIN Snapshot(s, numbers) = DOMAIN shown \cup numbers
BY DEF Snapshot

LEMMA EventGrows == \A s, number : DOMAIN Event(s, number) = DOMAIN shown \cup {number}
BY SnapshotGrows DEF Event

\* Where connect leaves the position, and what it forgets.
LEMMA ConnectMoves ==
    ASSUME StreamInv, NEW s \in Sessions, NEW after, Connect(s, after)
    PROVE  /\ after \in Nat
           /\ \A n \in 1..phone'.last : n \in 1..after \/ (s = phone.session /\ n \in 1..phone.last)
           /\ s = phone.session => dropped' = dropped
<1>1. after \in Nat
  BY DEF Connect, StreamInv, Typed
<1>2. phone'.last = Resume(s, after)
  <2> DEFINE last == Resume(s, after)
             p == [phone EXCEPT !.session = s, !.last = last, !.active = TRUE]
  <2>1. phone' = [p EXCEPT !.socket = made + 1, !.timer = FALSE, !.status = "CONNECTING"]
    BY DEF Connect, Open
  <2> HIDE DEF last
  <2> QED
    BY <2>1, PhoneKnown DEF last, Bridge
<1>3. dropped' = IF s = phone.session THEN dropped ELSE {}
  BY DEF Connect
<1>4. phone.last \in Nat
  BY PhoneKnown
<1> QED
  BY <1>1, <1>2, <1>3, <1>4 DEF Resume, Larger

\* A handler that goes on to a session leaves no hole if the numbers it asks
\* the socket not to send are in the list or set down as unread.
LEMMA ConnectMeets ==
    ASSUME TimelineInv, NEW s \in Sessions, NEW after, Connect(s, after),
           DOMAIN shown \subseteq DOMAIN shown',
           \A n \in 1..after : n \in DOMAIN shown' \/ n \in unread',
           s = phone.session => \A n \in unread : n \in DOMAIN shown' \/ n \in unread'
    PROVE  ListMeetsPosition'
BY ConnectMoves DEF TimelineInv, ListMeetsPosition

\* What a socket's message does to the position, and to the list.
LEMMA DeliverMoves ==
    ASSUME StreamInv, NEW c \in Sockets, Deliver(c)
    PROVE  LET m == Head(link[c].wire) IN
           /\ dropped' = dropped /\ m \in Message
           /\ ~Takes(c, m) => phone'.last = phone.last
           /\ Takes(c, m) => /\ IsData(m) /\ phone'.last = Larger(phone.last, Upto(m))
                             /\ \A n \in 1..Upto(m) :
                                  n <= phone.last \/ n \in dropped \/ Carries(m, n)
<1> DEFINE m == Head(link[c].wire)
<1>1. /\ link[c].wire \in Seq(Message) /\ link[c].wire # <<>> /\ dropped' = dropped
      /\ m = link[c].wire[1] /\ 1 \in 1..Len(link[c].wire) /\ m \in Message
  BY LinkKnown DEF Deliver
<1>2. phone \in Bridge
  BY PhoneKnown
<1>3. CASE m.type = "open"
  BY <1>1, <1>2, <1>3 DEF Deliver, OnOpen, Takes, Bridge
<1>4. CASE m.type = "close"
  <2>1. OnClose(c, m.code) /\ ~Takes(c, m)
    BY <1>4 DEF Deliver, Takes
  <2>2. phone'.last = phone.last
    BY <1>2, <2>1 DEF OnClose, Bridge
  <2> QED
    BY <1>1, <2>1, <2>2
<1>5. CASE IsData(m)
  <2>1. OnMessage(c, m)
    BY <1>5 DEF Deliver, IsData
  <2>2. CASE phone.socket # c
    BY <1>1, <2>1, <2>2 DEF OnMessage, Takes
  <2>3. CASE phone.socket = c
    <3>1. phone'.last = Larger(phone.last, Upto(m)) /\ Takes(c, m)
      BY <1>2, <1>5, <2>1, <2>3 DEF OnMessage, Bridge, Takes, IsData
    <3>2. WireCovers(link[c].wire, phone.last, dropped)
      BY <2>3, LinkKnown DEF Owes
    <3>3. \A n \in 1..Upto(m) :
             n <= phone.last \/ n \in dropped \/ \E j \in 1..1 : Carries(link[c].wire[j], n)
      BY <1>1, <1>5, <3>2 DEF WireCovers
    <3>4. \A n \in 1..Upto(m) : n <= phone.last \/ n \in dropped \/ Carries(m, n)
      BY <1>1, <3>3
    <3> QED
      BY <1>1, <1>5, <3>1, <3>4
  <2> QED
    BY <2>2, <2>3
<1> QED
  BY <1>1, <1>3, <1>4, <1>5 DEF Message, IsData

LEMMA HearMeets ==
    ASSUME TimelineInv, NEW c \in Sockets, Hear(c)
    PROVE  ListMeetsPosition'
<1> DEFINE m == Head(link[c].wire)
           s == link[c].session
           news == Range(Fresh(m))
<1>1. /\ StreamInv /\ Deliver(c) /\ unread' = unread /\ phone.last \in Nat
      /\ IF Takes(c, m) /\ (m.type = "snapshot" \/ news # {})
         THEN shown' = IF m.type = "event" THEN Event(s, m.sequence) ELSE Snapshot(s, news)
         ELSE shown' = shown
  BY PhoneKnown DEF TimelineInv, Hear
<1>2. /\ dropped' = dropped /\ m \in Message
      /\ ~Takes(c, m) => phone'.last = phone.last
      /\ Takes(c, m) => /\ IsData(m) /\ phone'.last = Larger(phone.last, Upto(m))
                        /\ \A n \in 1..Upto(m) :
                             n <= phone.last \/ n \in dropped \/ Carries(m, n)
  BY <1>1, DeliverMoves
<1>3. \A n \in 1..phone.last : n \in DOMAIN shown \/ n \in dropped \/ n \in unread
  BY DEF TimelineInv, ListMeetsPosition
<1> HIDE DEF m, s, news
<1>4. DOMAIN shown \subseteq DOMAIN shown'
  <2>1. CASE shown' = shown
    BY <2>1
  <2>2. CASE shown' = Event(s, m.sequence)
    <3>1. DOMAIN shown' = DOMAIN shown \cup {m.sequence}
      BY <2>2, EventGrows
    <3> QED
      BY <3>1
  <2>3. CASE shown' = Snapshot(s, news)
    <3>1. DOMAIN shown' = DOMAIN shown \cup news
      BY <2>3, SnapshotGrows
    <3> QED
      BY <3>1
  <2> QED
    BY <1>1, <2>1, <2>2, <2>3
<1>5. CASE ~Takes(c, m)
  BY <1>1, <1>2, <1>3, <1>5 DEF ListMeetsPosition
<1>6. CASE Takes(c, m)
  <2>1. /\ IsData(m) /\ Upto(m) \in Nat /\ m.type \in {"event", "snapshot"}
        /\ m.type = "event" => Upto(m) = m.sequence /\ \A n : Carries(m, n) => n = m.sequence
    BY <1>2, <1>6, MessageIs DEF Takes, Upto, Carries
  <2>2. \A n \in Nat : Carries(m, n) /\ n > phone.last => n \in news
    BY <1>1, <1>2, <2>1, FreshIs DEF Range, news
  <2>3. ASSUME NEW n \in Nat, Carries(m, n), n > phone.last
        PROVE  n \in DOMAIN shown'
    <3>1. n \in news
      BY <2>2, <2>3
    <3>2. CASE m.type = "event"
      <4>1. n = m.sequence
        BY <2>1, <2>3, <3>2
      <4>2. shown' = Event(s, m.sequence)
        BY <1>1, <1>6, <3>1, <3>2
      <4>3. DOMAIN shown' = DOMAIN shown \cup {m.sequence}
        BY <4>2, EventGrows
      <4> QED
        BY <4>1, <4>3
    <3>3. CASE m.type = "snapshot"
      <4>1. shown' = Snapshot(s, news)
        BY <1>1, <1>6, <3>1, <3>3
      <4>2. DOMAIN shown' = DOMAIN shown \cup news
        BY <4>1, SnapshotGrows
      <4> QED
        BY <3>1, <4>2
    <3> QED
      BY <2>1, <3>2, <3>3
  <2>4. ASSUME NEW n \in 1..phone'.last
        PROVE  n \in DOMAIN shown' \/ n \in dropped \/ n \in unread
    <3>1. n \in 1..phone.last \/ (n \in 1..Upto(m) /\ n \in Nat /\ n > phone.last)
      BY <1>1, <1>2, <1>6, <2>1, <2>4 DEF Larger
    <3> QED
      BY <1>2, <1>3, <1>4, <1>6, <2>3, <3>1
  <2> QED
    BY <1>1, <1>2, <2>4 DEF ListMeetsPosition
<1> QED
  BY <1>5, <1>6

\* Whatever leaves the position and the list alone.
LEMMA ListRests ==
    ASSUME TimelineInv, phone'.last = phone.last, dropped \subseteq dropped',
           UNCHANGED <<shown, unread>>
    PROVE  ListMeetsPosition'
BY DEF TimelineInv, ListMeetsPosition

\* Reconnections and the timer leave the position alone.
LEMMA ReopenRests ==
    ASSUME StreamInv, Reconnect \/ Disconnect \/ TimerFires
    PROVE  phone'.last = phone.last /\ dropped' = dropped
BY PhoneKnown DEF Reconnect, Disconnect, TimerFires, Open, history, Bridge

LEMMA OpenedMeets ==
    ASSUME TimelineInv, NEW f \in fetches, Opened(f)
    PROVE  TimelineInv'
<1> DEFINE s == f.session
           after == f.after
           upto == f.upto
<1>1. /\ Connect(s, after) /\ shown' = Snapshot(s, 1..upto) /\ fetches' = fetches \ {f}
      /\ unread' = (StillUnread(s) \cup (upto + 1)..after) \ 1..upto
  BY DEF Opened
<1>2. s \in Sessions /\ upto \in Int /\ StreamInv
  BY FetchIs DEF TimelineInv
<1> HIDE DEF s, after, upto
<1>3. StreamInv'
  BY <1>1, <1>2, ConnectKeeps
<1>4. after \in Nat
  BY <1>1, <1>2, ConnectMoves
<1>5. DOMAIN shown' = DOMAIN shown \cup 1..upto
  BY <1>1, SnapshotGrows
<1>6. \A n \in 1..after : n \in DOMAIN shown' \/ n \in unread'
  BY <1>1, <1>2, <1>4, <1>5
<1>7. s = phone.session => \A n \in unread : n \in DOMAIN shown' \/ n \in unread'
  BY <1>1, <1>5 DEF StillUnread
<1>8. ListMeetsPosition'
  BY <1>1, <1>2, <1>5, <1>6, <1>7, ConnectMeets
<1> QED
  BY <1>1, <1>3, <1>8 DEF TimelineInv

LEMMA CapturedMeets ==
    ASSUME TimelineInv, NEW f \in fetches, Captured(f)
    PROVE  TimelineInv'
<1> DEFINE s == f.session
<1>1. /\ Connect(s, 2) /\ shown' = Event(s, 2) /\ fetches' = fetches \ {f}
      /\ unread' = StillUnread(s) \cup {1}
  BY DEF Captured
<1>2. s \in Sessions /\ StreamInv
  BY FetchIs DEF TimelineInv
<1> HIDE DEF s
<1>3. StreamInv'
  BY <1>1, <1>2, ConnectKeeps
<1>4. DOMAIN shown' = DOMAIN shown \cup {2}
  BY <1>1, EventGrows
<1>5. \A n \in 1..2 : n \in DOMAIN shown' \/ n \in unread'
  BY <1>1, <1>4
<1>6. s = phone.session => \A n \in unread : n \in DOMAIN shown' \/ n \in unread'
  BY <1>1 DEF StillUnread
<1>7. ListMeetsPosition'
  BY <1>1, <1>2, <1>4, <1>5, <1>6, ConnectMeets
<1> QED
  BY <1>1, <1>3, <1>7 DEF TimelineInv

LEMMA ResumeMeets ==
    ASSUME TimelineInv, NEW s \in Sessions, NEW after, ResumeSession(s, after)
    PROVE  TimelineInv'
<1>1. /\ Connect(s, after) /\ UNCHANGED <<shown, fetches>>
      /\ unread' = StillUnread(s) \cup 1..after /\ StreamInv
  BY DEF ResumeSession, TimelineInv
<1>2. StreamInv'
  BY <1>1, ConnectKeeps
<1>3. s = phone.session => \A n \in unread : n \in unread'
  BY <1>1 DEF StillUnread
<1>4. ListMeetsPosition'
  BY <1>1, <1>3, ConnectMeets
<1> QED
  BY <1>1, <1>2, <1>4 DEF TimelineInv

\* The requests, which leave the socket alone.
LEMMA RequestMeets ==
    ASSUME TimelineInv, UNCHANGED <<vars, shown, unread>>, fetches' \subseteq Fetches
    PROVE  TimelineInv'
<1>1. StreamInv'
  BY NothingMoved DEF TimelineInv, vars
<1>2. ListMeetsPosition'
  BY ListRests DEF vars
<1> QED
  BY <1>1, <1>2 DEF TimelineInv

LEMMA HandlersMeet ==
    ASSUME TimelineInv, Handlers
    PROVE  TimelineInv'
<1>1. StreamInv /\ log \in [Sessions -> Nat] /\ fetches \subseteq Fetches /\ phone.last \in Nat
  BY PhoneKnown DEF TimelineInv, StreamInv, Typed
<1>2. ASSUME NEW s \in Sessions, NEW after \in 0..MaxEvents, ResumeSession(s, after)
      PROVE  TimelineInv'
  BY <1>2, ResumeMeets
<1>3. ASSUME NEW s \in Sessions, AskOpen(s) \/ StartAnalysis(s) \/ Reconciled(s)
      PROVE  TimelineInv'
  <2> DEFINE asking(kind) == [kind |-> kind, session |-> s, after |-> Unserved, upto |-> Unserved]
  <2>1. asking("open") \in Fetches /\ asking("start") \in Fetches
    BY FetchIs
  <2>2. \/ fetches' = fetches \/ fetches' = fetches \cup {asking("open")}
        \/ fetches' = fetches \cup {asking("start")}
    BY <1>3 DEF AskOpen, StartAnalysis, Reconciled
  <2> HIDE DEF asking
  <2>3. fetches' \subseteq Fetches
    BY <1>1, <2>1, <2>2
  <2> QED
    BY <1>3, <2>3, RequestMeets DEF AskOpen, StartAnalysis, Reconciled
<1>4. ASSUME NEW f \in fetches, ServeSession(f) \/ ServeEvents(f)
      PROVE  TimelineInv'
  <2>1. f \in Fetches /\ log[f.session] \in Nat
    BY <1>1, <1>4, FetchIs
  <2>2. fetches' \subseteq Fetches
    BY <1>1, <1>4, <2>1, FetchIs DEF ServeSession, ServeEvents
  <2> QED
    BY <1>4, <2>2, RequestMeets DEF ServeSession, ServeEvents
<1>5. ASSUME NEW f \in fetches, Opened(f) \/ Captured(f)
      PROVE  TimelineInv'
  BY <1>5, OpenedMeets, CapturedMeets
<1>6. CASE StartOver
  <2>1. StreamInv' /\ phone'.last = phone.last /\ fetches' = fetches /\ unread' = 1..phone.last
    BY <1>1, <1>6, DisconnectKeeps, ReopenRests DEF StartOver
  <2> QED
    BY <1>1, <2>1 DEF TimelineInv, ListMeetsPosition
<1>7. CASE ClearSession
  <2>1. StreamInv'
    BY <1>1, <1>7, NothingMoved DEF ClearSession, vars
  <2>2. phone' = phone /\ fetches' = fetches /\ unread' = 1..phone.last
    BY <1>7 DEF ClearSession, vars
  <2> QED
    BY <1>1, <2>1, <2>2 DEF TimelineInv, ListMeetsPosition
<1>8. CASE Foreground
  <2>1. CASE Reconnect
    <3>1. StreamInv' /\ phone'.last = phone.last /\ dropped' = dropped
      BY <1>1, <2>1, ReconnectKeeps, ReopenRests
    <3>2. ListMeetsPosition'
      BY <1>8, <3>1, ListRests DEF Foreground
    <3> QED
      BY <1>1, <1>8, <3>1, <3>2 DEF TimelineInv, Foreground
  <2>2. CASE UNCHANGED vars
    BY <1>1, <1>8, <2>2, RequestMeets DEF Foreground
  <2> QED
    BY <1>8, <2>1, <2>2 DEF Foreground
<1>9. ASSUME NEW c \in Sockets, Hear(c)
      PROVE  TimelineInv'
  <2>1. StreamInv' /\ fetches' = fetches
    BY <1>1, <1>9, DeliverKeeps DEF Hear
  <2> QED
    BY <1>1, <1>9, <2>1, HearMeets DEF TimelineInv
<1> QED
  BY <1>2, <1>3, <1>4, <1>5, <1>6, <1>7, <1>8, <1>9 DEF Handlers

LEMMA AroundMeets ==
    ASSUME TimelineInv, Around
    PROVE  TimelineInv'
<1>1. StreamInv /\ UNCHANGED <<shown, fetches, unread>>
  BY DEF TimelineInv, Around, timeline
<1>2. ASSUME NEW s \in Sessions, Publish(s)
      PROVE  StreamInv' /\ phone'.last = phone.last /\ dropped \subseteq dropped'
  BY <1>1, <1>2, PublishKeeps DEF Publish
<1>3. ASSUME NEW c \in Sockets, Accept(c) \/ Stream(c) \/ Forward(c)
      PROVE  StreamInv' /\ phone'.last = phone.last /\ dropped \subseteq dropped'
  BY <1>1, <1>3, AcceptKeeps, StreamKeeps, ForwardKeeps DEF Accept, Stream, Forward, history
<1>4. ASSUME NEW c \in Sockets, AuthTimeout(c)
      PROVE  StreamInv' /\ phone'.last = phone.last /\ dropped \subseteq dropped'
  BY <1>1, <1>4, AuthTimeoutKeeps DEF AuthTimeout, history
<1>5. ASSUME NEW c \in Sockets, NEW k \in 0..Len(link[c].wire), Cut(c, k)
      PROVE  StreamInv' /\ phone'.last = phone.last /\ dropped \subseteq dropped'
  BY <1>1, <1>5, CutKeeps DEF Cut, history
<1>6. ASSUME TimerFires
      PROVE  StreamInv' /\ phone'.last = phone.last /\ dropped \subseteq dropped'
  BY <1>1, <1>6, TimerKeeps, ReopenRests
<1>7. StreamInv' /\ phone'.last = phone.last /\ dropped \subseteq dropped'
  <2>1. CASE Network
    BY <1>4, <1>5, <2>1 DEF Network
  <2>2. CASE (\E s \in Sessions : Publish(s)) \/ TimerFires
             \/ \E c \in Sockets : Accept(c) \/ Stream(c) \/ Forward(c)
    BY <1>2, <1>3, <1>6, <2>2
  <2> QED
    BY <2>1, <2>2 DEF Around
<1>8. ListMeetsPosition'
  BY <1>1, <1>7, ListRests
<1> QED
  BY <1>1, <1>7, <1>8 DEF TimelineInv

LEMMA TimelineStart == TimelineInit => TimelineInv
<1> SUFFICES ASSUME TimelineInit PROVE TimelineInv
  OBVIOUS
<1>1. log \in [Sessions -> Nat] /\ Unconnected /\ fetches = {} /\ phone.last = 0
  BY DEF TimelineInit, Unconnected
<1> QED
  BY <1>1, StreamStart DEF TimelineInv, ListMeetsPosition

LEMMA TimelineStep == TimelineInv /\ [TimelineNext]_timelineVars => TimelineInv'
<1> SUFFICES ASSUME TimelineInv, [TimelineNext]_timelineVars PROVE TimelineInv'
  OBVIOUS
<1>1. CASE UNCHANGED timelineVars
  BY <1>1, RequestMeets DEF timelineVars, timeline, TimelineInv
<1> QED
  BY <1>1, HandlersMeet, AroundMeets DEF TimelineNext

\* The phone's list and its socket fit together along every behaviour of
\* App.tsx's handlers: the stream's own invariant, whose steps are all of the
\* timeline's, beside requests that are typed and a list without a hole.
THEOREM TimelineInvariant == TimelineSpec => []TimelineInv
<1> QED
  BY TimelineStart, TimelineStep, PTL DEF TimelineSpec

\* Whatever was opened, started, resumed, cleared or reconnected in whatever
\* order, the list has an event for every number the position has passed, but
\* those a full queue dropped and those no handler of App.tsx asks for.
THEOREM ListHasNoHole == TimelineSpec => []ListMeetsPosition
<1>1. TimelineInv => ListMeetsPosition
  BY DEF TimelineInv
<1> QED
  BY <1>1, TimelineInvariant, PTL

\* The screen beside the socket does not disturb what EventStream guarantees:
\* one connection, events in order and once, none passed over.
THEOREM TimelineKeepsStream == TimelineSpec => [](OneConnection /\ InOrderOnce /\ NothingSkipped)
<1>1. TimelineInv => OneConnection /\ InOrderOnce /\ NothingSkipped
  BY PhoneKnown DEF TimelineInv, StreamInv, OneOpen, OneConnection, Ordered
<1> QED
  BY <1>1, TimelineInvariant, PTL
=============================================================================
