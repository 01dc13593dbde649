-------------------------- MODULE DashboardsProofs --------------------------
(***************************************************************************)
(* Proofs about Dashboards: what the phone and the desktop dashboard hold  *)
(* of a session is never ahead of the agent and, at equal revisions, is    *)
(* what the agent has; a press creates one session; a decision is made on  *)
(* the row it was shown; a busy screen waits.                              *)
(*                                                                         *)
(* The handlers fall into four groups, each with a lemma for what is in    *)
(* flight: a client sends and takes (CallsReplaced), the agent answers     *)
(* (AnswerKeeps), begins to work (BeginKeeps), and a call fails on its way *)
(* (FaultKeeps).                                                           *)
(***************************************************************************)
EXTENDS Dashboards, FunctionTheorems, TLAPS

Mutations == {"capture", "analyze", "generate", "approve", "reject", "rollback"}

\* A view is the agent's row, or is older than it.
Known(rows, v) ==
    /\ v.id \in DOMAIN rows /\ v.revision <= rows[v.id].revision
    /\ v.revision = rows[v.id].revision =>
         v.state = rows[v.id].state /\ v.retry_count = rows[v.id].retry_count

Held(rows, v) == v = NoSession \/ Known(rows, v)

\* Which handlers ask what: those that put a change on the screen ask for it,
\* and the phone's for the history after it.
Fixes == {"generate", "retry", "approve", "reject", "rollback"}
AskedBy(client, handler, kind) ==
    /\ kind = "session" => handler \in {"reconcile", "open"}
    /\ handler \in Fixes =>
         kind \in Mutations \/ (kind = "list" /\ client # "desktop" /\ handler # "generate")

\* What is in flight: a change names a session as it was seen, a read one that
\* exists, and an answer brings views of rows there are.
CallKnown(rows, c) ==
    /\ c.stage # "answered" => c.kind \in Changes
    /\ c.stage = "running" => c.kind \in {"analyze", "generate"}
    /\ c.stage # "answered" /\ c.kind \in Mutations => Known(rows, c.view)
    /\ c.kind \in Reads /\ c.kind \notin {"session", "page", "patch"} => c.view.id = 0
    /\ c.kind \in {"session", "page", "patch"} /\ c.answer.ok => c.view.id \in DOMAIN rows
    /\ c.kind \in Mutations \cup {"create", "session", "page"} /\ c.answer.ok =>
         Known(rows, c.answer.view)
    /\ \A i \in DOMAIN c.answer.rows : Known(rows, c.answer.rows[i])
    /\ AskedBy(c.client, c.handler, c.kind)

CallsKnown == \A c \in calls : CallKnown(row, c)

\* The agent works on a session for one call, which its row waits for.
Working(c) == IF c.kind = "analyze" THEN "ANALYZING" ELSE "ROOT_CAUSE_FOUND"
OneWorks ==
    /\ \A c \in calls : c.stage = "running" => row[c.view.id].state = Working(c)
    /\ \A c, d \in calls : c.stage = "running" /\ d.stage = "running" /\ c.view.id = d.view.id
                              => c = d

\* A create in flight is the only one of its press, which created nothing yet.
Creating(c) == c.kind = "create" /\ c.stage # "answered"
PressesOnce ==
    /\ \A c \in calls : c.press <= acts
    /\ \A x \in created : x[1] <= acts
    /\ \A c, d \in calls : Creating(c) /\ Creating(d) /\ c.press = d.press => c = d
    /\ \A c \in calls : Creating(c) => \A x \in created : x[1] # c.press

CallInv == AgentTypeOK /\ CallsKnown /\ OneWorks /\ PressesOnce /\ OnePressOneSession

\* What the screens show, the alert was opened on and the bridge is to tell.
ScreenInv ==
    /\ PhoneTypeOK /\ Held(row, phone.session)
    /\ phone.alert = NoAlert \/ Known(row, phone.alert.view)
    /\ bridge.stage # "off" => bridge.session \in DOMAIN row
    /\ bridge.stage = "snapshot" => Known(row, bridge.view)

DeskInv == DeskTypeOK /\ Held(row, desk.session)

DashInv == CallInv /\ ScreenInv /\ DeskInv

-----------------------------------------------------------------------------
(* Rows.                                                                   *)

\* The sessions there are stay, and each that changes gets a later revision;
\* what belongs to the patch alone may change without one.
Grows(old, new) ==
    /\ DOMAIN old \subseteq DOMAIN new
    /\ \A s \in DOMAIN old :
         \/ old[s].revision < new[s].revision
         \/ /\ old[s].revision = new[s].revision /\ old[s].state = new[s].state
            /\ old[s].retry_count = new[s].retry_count

LEMMA RowAt ==
    ASSUME NEW rows \in Seq(Row), NEW s \in DOMAIN rows
    PROVE  /\ s \in 1..Len(rows) /\ rows[s] \in Row
           /\ rows[s].revision \in Nat /\ rows[s].state \in DebugState
           /\ rows[s].retry_count \in 0..MaxRetries
<1>1. s \in 1..Len(rows) /\ rows[s] \in Row
  OBVIOUS
<1> QED
  BY <1>1 DEF Row

LEMMA KnownStays ==
    ASSUME NEW old \in Seq(Row), NEW new \in Seq(Row), Grows(old, new),
           NEW v \in SessionView, Known(old, v)
    PROVE  Known(new, v)
<1>1. v.id \in DOMAIN old /\ v.id \in DOMAIN new /\ v.revision \in Nat
  BY DEF Known, Grows, SessionView
<1>2. old[v.id].revision \in Nat /\ new[v.id].revision \in Nat
  BY <1>1, RowAt
<1> QED
  BY <1>1, <1>2 DEF Known, Grows

LEMMA CallStays ==
    ASSUME NEW old \in Seq(Row), NEW new \in Seq(Row), Grows(old, new),
           NEW c \in Call, CallKnown(old, c)
    PROVE  CallKnown(new, c)
<1>1. /\ c.view \in SessionView /\ c.answer.view \in SessionView
      /\ \A i \in DOMAIN c.answer.rows : c.answer.rows[i] \in SessionView
  BY DEF Call, Answers
<1>2. DOMAIN old \subseteq DOMAIN new
  BY DEF Grows
<1> QED
  BY <1>1, <1>2, KnownStays DEF CallKnown

LEMMA TransitionIs ==
    ASSUME NEW r \in Row, NEW target \in DebugState,
           IsRetry(r.state, target) => r.retry_count < MaxRetries
    PROVE  /\ Transition(r, target) \in Row
           /\ Transition(r, target).revision = r.revision + 1
           /\ Transition(r, target).state = target
<1> DEFINE k == NextRetryCount(r.state, target, r.retry_count)
<1>1. k \in 0..MaxRetries
  BY DEF NextRetryCount, Row, MaxRetries
<1>2. Transition(r, target) = [r EXCEPT !.state = target, !.revision = r.revision + 1,
                                        !.retry_count = k]
  BY DEF Transition, Row
<1> HIDE DEF k
<1> DEFINE next == [r EXCEPT !.state = target, !.revision = r.revision + 1, !.retry_count = k]
<1>3. r.revision + 1 \in Nat
  BY DEF Row
<1>4. next \in Row
  BY <1>1, <1>3 DEF Row
<1>5. next.revision = r.revision + 1 /\ next.state = target
  BY DEF Row
<1> HIDE DEF next
<1> QED
  BY <1>2, <1>4, <1>5 DEF next

LEMMA TransitionOnward ==
    ASSUME NEW r \in Row, NEW target \in DebugState, target # "ANALYZING"
    PROVE  /\ Transition(r, target) \in Row
           /\ Transition(r, target).revision = r.revision + 1
           /\ Transition(r, target).state = target
BY TransitionIs DEF IsRetry

LEMMA PatchedIs ==
    ASSUME NEW r \in Row, NEW status \in PatchStatus, NEW rollback \in RollbackStatus
    PROVE  /\ Patched(r, status, rollback) \in Row
           /\ Patched(r, status, rollback).revision = r.revision
           /\ Patched(r, status, rollback).state = r.state
           /\ Patched(r, status, rollback).retry_count = r.retry_count
BY DEF Patched, Row

\* Whichever way a call ends, its row is a row and grows.
LEMMA SucceedsIs ==
    ASSUME NEW c, c.kind \in Mutations, NEW r \in Row, NEW n \in Succeeds(c, r)
    PROVE  n \in Row /\ r.revision < n.revision
<1>1. r.revision \in Nat /\ r.rollback \in RollbackStatus
  BY DEF Row
<1>2. {"CAPTURED", "ROOT_CAUSE_FOUND", "PATCH_GENERATED", "AWAITING_APPROVAL", "PATCH_APPLYING",
       "TESTING", "SUCCESS", "FAILED", "ROLLED_BACK"} \subseteq DebugState
  BY DEF DebugState
<1>3. {"AWAITING_APPROVAL", "VERIFIED", "FAILED", "REJECTED", "ROLLED_BACK"} \subseteq PatchStatus
      /\ {"UNAVAILABLE", "AVAILABLE", "COMPLETED"} \subseteq RollbackStatus
  BY DEF PatchStatus, RollbackStatus
<1>4. CASE c.kind = "capture"
  <2>1. n = Transition(r, "CAPTURED")
    BY <1>4 DEF Succeeds
  <2> QED
    BY <1>1, <1>2, <2>1, TransitionOnward
<1>5. CASE c.kind = "analyze"
  <2>1. n = Transition(r, "ROOT_CAUSE_FOUND")
    BY <1>5 DEF Succeeds
  <2> QED
    BY <1>1, <1>2, <2>1, TransitionOnward
<1>6. CASE c.kind = "generate"
  <2> DEFINE a == Transition(r, "PATCH_GENERATED")
             b == Transition(a, "AWAITING_APPROVAL")
             d == Patched(b, "AWAITING_APPROVAL", "UNAVAILABLE")
  <2>1. n = [d EXCEPT !.patch = @ + 1]
    BY <1>6 DEF Succeeds
  <2>2. a \in Row /\ a.revision = r.revision + 1
    BY <1>2, TransitionOnward
  <2> HIDE DEF a
  <2>3. b \in Row /\ b.revision = r.revision + 2
    BY <1>1, <1>2, <2>2, TransitionOnward
  <2> HIDE DEF b
  <2>4. d \in Row /\ d.revision = r.revision + 2
    BY <1>3, <2>3, PatchedIs
  <2> HIDE DEF d
  <2>5. n \in Row /\ n.revision = d.revision
    BY <2>1, <2>4 DEF Row
  <2> QED
    BY <1>1, <2>4, <2>5
<1>7. CASE c.kind = "approve"
  <2> DEFINE a == Transition(r, "PATCH_APPLYING")
             b == Transition(a, "TESTING")
  <2>1. PICK target \in {"SUCCESS", "FAILED"} : \E status \in {"VERIFIED", "FAILED"} :
          n = Patched(Transition(b, target), status, "AVAILABLE")
    BY <1>7 DEF Succeeds, Tested
  <2>2. a \in Row /\ a.revision = r.revision + 1
    BY <1>2, TransitionOnward
  <2> HIDE DEF a
  <2>3. b \in Row /\ b.revision = r.revision + 2
    BY <1>1, <1>2, <2>2, TransitionOnward
  <2> HIDE DEF b
  <2> DEFINE d == Transition(b, target)
  <2>4. d \in Row /\ d.revision = r.revision + 3
    BY <1>1, <1>2, <2>3, TransitionOnward
  <2>5. PICK status \in {"VERIFIED", "FAILED"} : n = Patched(d, status, "AVAILABLE")
    BY <2>1
  <2> HIDE DEF d
  <2>6. status \in PatchStatus /\ "AVAILABLE" \in RollbackStatus
    BY <1>3
  <2>7. n \in Row /\ n.revision = d.revision
    BY <2>4, <2>5, <2>6, PatchedIs
  <2> QED
    BY <1>1, <2>4, <2>7
<1>8. CASE c.kind = "reject"
  <2> DEFINE a == Transition(r, "FAILED")
  <2>1. n = Patched(a, "REJECTED", r.rollback)
    BY <1>8 DEF Succeeds
  <2>2. a \in Row /\ a.revision = r.revision + 1
    BY <1>2, TransitionOnward
  <2> HIDE DEF a
  <2>3. n \in Row /\ n.revision = a.revision
    BY <1>1, <1>3, <2>1, <2>2, PatchedIs
  <2> QED
    BY <1>1, <2>2, <2>3
<1>9. CASE c.kind = "rollback"
  <2> DEFINE a == Transition(r, "ROLLED_BACK")
  <2>1. n = Patched(a, "ROLLED_BACK", "COMPLETED")
    BY <1>9 DEF Succeeds
  <2>2. a \in Row /\ a.revision = r.revision + 1
    BY <1>2, TransitionOnward
  <2> HIDE DEF a
  <2>3. n \in Row /\ n.revision = a.revision
    BY <1>1, <1>3, <2>1, <2>2, PatchedIs
  <2> QED
    BY <1>1, <2>2, <2>3
<1> QED
  BY <1>4, <1>5, <1>6, <1>7, <1>8, <1>9 DEF Mutations

LEMMA FailsIs ==
    ASSUME NEW c, c.kind \in Mutations, NEW r \in Row, NEW n \in Fails(c, r)
    PROVE  /\ n \in Row
           /\ \/ r.revision < n.revision
              \/ r.revision = n.revision /\ r.state = n.state /\ r.retry_count = n.retry_count
           /\ n.state # r.state => r.revision < n.revision /\ n.state = "FAILED"
<1>1. r.revision \in Nat /\ r.status \in PatchStatus
  BY DEF Row
<1>2. /\ {"PATCH_APPLYING", "FAILED"} \subseteq DebugState /\ "FAILED" \in PatchStatus
      /\ {"UNAVAILABLE", "AVAILABLE", "CONFLICT"} \subseteq RollbackStatus
  BY DEF DebugState, PatchStatus, RollbackStatus
<1>3. CASE c.kind \in {"analyze", "generate"}
  <2>1. n = Transition(r, "FAILED")
    BY <1>3 DEF Fails
  <2> QED
    BY <1>1, <1>2, <2>1, TransitionOnward
<1>4. CASE c.kind = "approve" /\ n # r
  <2> DEFINE a == Transition(r, "PATCH_APPLYING")
  <2>1. PICK rollback \in {"UNAVAILABLE", "AVAILABLE"} :
          n = Patched(Transition(a, "FAILED"), "FAILED", rollback)
    BY <1>4 DEF Fails
  <2>2. a \in Row /\ a.revision = r.revision + 1
    BY <1>2, TransitionOnward
  <2> HIDE DEF a
  <2>3. /\ Transition(a, "FAILED") \in Row /\ Transition(a, "FAILED").revision = r.revision + 2
        /\ Transition(a, "FAILED").state = "FAILED"
    BY <1>1, <1>2, <2>2, TransitionOnward
  <2> DEFINE b == Transition(a, "FAILED")
  <2>4. rollback \in RollbackStatus /\ "FAILED" \in PatchStatus /\ n = Patched(b, "FAILED", rollback)
    BY <1>2, <2>1
  <2>5. b \in Row /\ b.revision = r.revision + 2 /\ b.state = "FAILED"
    BY <2>3
  <2> HIDE DEF b
  <2>6. n \in Row /\ n.revision = b.revision /\ n.state = b.state
    BY <2>4, <2>5, PatchedIs
  <2> QED
    BY <1>1, <2>5, <2>6
<1>5. CASE c.kind = "rollback"
  <2>1. n = Patched(r, r.status, "CONFLICT")
    BY <1>5 DEF Fails
  <2> QED
    BY <1>1, <1>2, <2>1, PatchedIs
<1>6. CASE c.kind \in {"capture", "reject"}
  BY <1>6 DEF Fails
<1> QED
  BY <1>3, <1>4, <1>5, <1>6 DEF Mutations

-----------------------------------------------------------------------------
(* What is sent and answered.                                              *)

LEMMA NothingHeld ==
    /\ NoSession \in SessionView /\ NoPatch \in PatchView
    /\ Refused \in Answers /\ Refused.rows = <<>> /\ Refused.ok = FALSE
<1>1. NoSession \in SessionView /\ NoPatch \in PatchView
  BY DEF NoSession, SessionView, NoPatch, PatchView, DebugState, PatchStatus, RollbackStatus,
         MaxRetries
<1>2. <<>> \in Seq(SessionView)
  OBVIOUS
<1> QED
  BY <1>1, <1>2 DEF Refused, Answers

\* The agent's rows and what it shows of them.
Rows == {rows \in Seq(Row) : Len(rows) <= MaxSessions}

LEMMA ViewIs ==
    ASSUME NEW rows \in Rows, NEW s \in DOMAIN rows
    PROVE  /\ s \in Ids /\ ViewOf(rows, s) \in SessionView /\ Known(rows, ViewOf(rows, s))
           /\ ViewOf(rows, s).id = s /\ PatchOf(rows, s) \in PatchView
<1>1. rows \in Seq(Row) /\ Len(rows) <= MaxSessions /\ MaxSessions \in Nat
  BY AgentAssumption DEF Rows
<1>2. /\ s \in 1..Len(rows) /\ rows[s] \in Row /\ rows[s].revision \in Nat
      /\ rows[s].state \in DebugState /\ rows[s].retry_count \in 0..MaxRetries
  BY <1>1, RowAt
<1>3. s \in Ids
  BY <1>1, <1>2 DEF Ids
<1>4. PatchOf(rows, s) \in PatchView
  BY <1>2, <1>3, NothingHeld DEF PatchOf, PatchView, Row
<1>5. ViewOf(rows, s) \in SessionView /\ ViewOf(rows, s).id = s
  BY <1>2, <1>3 DEF ViewOf, SessionView
<1>6. Known(rows, ViewOf(rows, s))
  BY <1>2 DEF Known, ViewOf
<1> QED
  BY <1>3, <1>4, <1>5, <1>6

LEMMA ResponseIs ==
    ASSUME NEW rows \in Rows, NEW s \in DOMAIN rows \cup {0}, NEW kind \in Reads \cup Changes,
           kind = "patch" => s # 0
    PROVE  /\ Response(kind, s, rows) \in Answers
           /\ s # 0 /\ kind # "patch" => Known(rows, Response(kind, s, rows).view)
           /\ \A i \in DOMAIN Response(kind, s, rows).rows :
                Known(rows, Response(kind, s, rows).rows[i])
<1> DEFINE a == Response(kind, s, rows)
<1>1. rows \in Seq(Row) /\ DOMAIN rows = 1..Len(rows) /\ Len(rows) \in Nat
  BY DEF Rows
<1>2. a.ok \in BOOLEAN
  BY DEF Response
<1>3. a.rows \in Seq(SessionView) /\ \A i \in DOMAIN a.rows : Known(rows, a.rows[i])
  <2> DEFINE views == [i \in DOMAIN rows |-> ViewOf(rows, i)]
  <2>1. \A i \in DOMAIN rows : ViewOf(rows, i) \in SessionView /\ Known(rows, ViewOf(rows, i))
    BY ViewIs
  <2>2. views \in Seq(SessionView) /\ \A i \in DOMAIN views : Known(rows, views[i])
    BY <1>1, <2>1
  <2>3. a.rows = IF kind = "dashboard" THEN views ELSE <<>>
    BY DEF Response
  <2> HIDE DEF views, a
  <2>4. <<>> \in Seq(SessionView) /\ DOMAIN <<>> = {}
    OBVIOUS
  <2> QED
    BY <2>2, <2>3, <2>4
<1>4. a.view = ViewOf(rows, s) \/ a.view = NoSession
  BY DEF Response
<1>5. s # 0 /\ kind # "patch" => a.view = ViewOf(rows, s)
  BY DEF Response
<1>6. a.patch = NoPatch \/ (s # 0 /\ a.patch = PatchOf(rows, s))
  BY DEF Response
<1>7. s = 0 => a.view = NoSession
  BY DEF Response
<1>8. a = [ok |-> a.ok, rows |-> a.rows, view |-> a.view, patch |-> a.patch]
  BY DEF Response
<1> HIDE DEF a
<1>9. a.view \in SessionView /\ a.patch \in PatchView
  BY <1>4, <1>6, <1>7, ViewIs, NothingHeld
<1>10. a \in Answers
  BY <1>2, <1>3, <1>8, <1>9 DEF Answers
<1>11. s # 0 /\ kind # "patch" => Known(rows, a.view)
  BY <1>5, ViewIs
<1> QED
  BY <1>3, <1>10, <1>11 DEF a

LEMMA RequestIs ==
    ASSUME NEW client \in Clients, NEW handler \in Handlers, NEW kind \in Changes,
           NEW press \in Nat, NEW view \in SessionView, NEW patch \in PatchView,
           NEW rows, kind \in Mutations => Known(rows, view), AskedBy(client, handler, kind)
    PROVE  LET c == Request(client, handler, kind, press, view, patch)
           IN /\ c \in Call /\ CallKnown(rows, c) /\ c.press = press /\ c.kind = kind
              /\ c.stage = "sent" /\ c.client = client /\ c.handler = handler
<1> DEFINE c == Request(client, handler, kind, press, view, patch)
<1>1. c \in Call
  BY NothingHeld DEF Request, Call
<1>2. /\ c.press = press /\ c.kind = kind /\ c.stage = "sent" /\ c.client = client
      /\ c.handler = handler /\ c.view = view /\ c.answer.ok = FALSE /\ c.answer.rows = <<>>
  BY NothingHeld DEF Request
<1> HIDE DEF c
<1>3. kind \notin Reads
  BY DEF Changes, Reads
<1>4. CallKnown(rows, c)
  BY <1>2, <1>3 DEF CallKnown, Reads
<1> QED
  BY <1>1, <1>2, <1>4 DEF c

LEMMA ReadIs ==
    ASSUME row \in Rows, NEW client \in Clients, NEW handler \in Handlers, NEW kind \in Reads,
           NEW s \in DOMAIN row \cup {0}, kind \in {"session", "page", "patch"} <=> s # 0,
           AskedBy(client, handler, kind)
    PROVE  LET c == Read(client, handler, kind, s)
           IN /\ c \in Call /\ CallKnown(row, c) /\ c.press = 0 /\ c.kind = kind
              /\ c.stage = "answered" /\ c.client = client /\ c.handler = handler
<1> DEFINE c == Read(client, handler, kind, s)
           v == [NoSession EXCEPT !.id = s]
           a == Response(kind, s, row)
<1>1. s \in Ids \cup {0} /\ v \in SessionView /\ v.id = s
  <2>1. s \in Ids \cup {0}
    BY ViewIs
  <2>2. v = [id |-> s, state |-> "IDLE", revision |-> 0, retry_count |-> 0]
    BY DEF NoSession
  <2> QED
    BY <2>1, <2>2 DEF SessionView, DebugState, MaxRetries
<1>2. /\ a \in Answers
      /\ s # 0 /\ kind # "patch" => Known(row, a.view)
      /\ \A i \in DOMAIN a.rows : Known(row, a.rows[i])
  BY ResponseIs
<1>3. c = [client |-> client, handler |-> handler, kind |-> kind, press |-> 0, view |-> v,
           patch |-> NoPatch, stage |-> "answered", tries |-> 0, answer |-> a]
  <2>1. c = [Request(client, handler, kind, 0, v, NoPatch) EXCEPT !.stage = "answered",
                                                                  !.answer = a]
    BY DEF Read
  <2> HIDE DEF c, v, a
  <2> QED
    BY <2>1 DEF Request
<1> HIDE DEF c, v, a
<1>4. c \in Call
  BY <1>1, <1>2, <1>3, NothingHeld DEF Call
<1>5. CallKnown(row, c)
  <2>1. kind \notin Mutations \cup {"create"}
    BY DEF Reads, Mutations
  <2> QED
    BY <1>1, <1>2, <1>3, <2>1 DEF CallKnown
<1> QED
  BY <1>3, <1>4, <1>5 DEF c

LEMMA InvGives ==
    ASSUME CallInv
    PROVE  /\ row \in Rows /\ row \in Seq(Row) /\ DOMAIN row = 1..Len(row) /\ 0 \notin DOMAIN row
           /\ calls \subseteq Call /\ acts \in Nat /\ faults \in Nat
           /\ \A c \in calls : /\ CallKnown(row, c) /\ c.press \in Nat /\ c.press <= acts
                               /\ c.client \in Clients \cup {"none"} /\ c.handler \in Handlers
                               /\ c.kind \in Reads \cup Changes
                               /\ c.view \in SessionView /\ c.patch \in PatchView
                               /\ c.answer \in Answers
<1>1. row \in Rows /\ row \in Seq(Row) /\ DOMAIN row = 1..Len(row) /\ 0 \notin DOMAIN row
  BY DEF CallInv, AgentTypeOK, Rows
<1>2. calls \subseteq Call /\ acts \in Nat /\ faults \in Nat
  BY AgentAssumption DEF CallInv, AgentTypeOK
<1>3. \A c \in calls : CallKnown(row, c) /\ c.press <= acts
  BY DEF CallInv, CallsKnown, PressesOnce
<1>4. \A c \in Call : /\ c.press \in Nat
                      /\ c.client \in Clients \cup {"none"} /\ c.handler \in Handlers
                      /\ c.kind \in Reads \cup Changes
                      /\ c.view \in SessionView /\ c.patch \in PatchView
                      /\ c.answer \in Answers
  BY DEF Call
<1> QED
  BY <1>1, <1>2, <1>3, <1>4

-----------------------------------------------------------------------------
(* What is in flight.                                                      *)

\* A client sends a request or reads, and takes answers: the agent's rows stay.
LEMMA CallsReplaced ==
    ASSUME CallInv, UNCHANGED <<row, faults, created>>, acts' \in 0..MaxActs, acts <= acts',
           NEW N, calls' \subseteq calls \cup N,
           \A n \in N : /\ n \in Call /\ CallKnown(row, n) /\ n.stage # "running"
                        /\ n.press <= acts'
                        /\ Creating(n) => acts < n.press,
           \A m, n \in N : Creating(m) /\ Creating(n) => m = n
    PROVE  CallInv'
<1>1. acts \in Nat /\ acts' \in Nat /\ calls \subseteq Call
  BY InvGives, AgentAssumption
<1>2. AgentTypeOK'
  BY <1>1 DEF CallInv, AgentTypeOK
<1>3. CallsKnown'
  BY DEF CallInv, CallsKnown
<1>4. OneWorks'
  <2>1. \A c \in calls' : c.stage = "running" => c \in calls
    OBVIOUS
  <2> QED
    BY <2>1 DEF CallInv, OneWorks
<1>5. PressesOnce'
  <2>1. \A c \in calls' : c \in calls \/ c \in N
    OBVIOUS
  <2>2. \A c \in calls : c.press \in Nat /\ c.press <= acts
    BY InvGives
  <2>3. \A n \in N : n.press \in Nat
    BY DEF Call
  <2>4. \A x \in created : x[1] \in Nat /\ x[1] <= acts
    BY DEF CallInv, AgentTypeOK, PressesOnce
  <2>5. \A c \in calls' : c.press <= acts'
    BY <1>1, <2>1, <2>2
  <2>6. \A x \in created' : x[1] <= acts'
    BY <1>1, <2>4
  <2>7. \A c, d \in calls' : Creating(c) /\ Creating(d) /\ c.press = d.press => c = d
    BY <1>1, <2>1, <2>2, <2>3 DEF CallInv, PressesOnce
  <2>8. \A c \in calls' : Creating(c) => \A x \in created' : x[1] # c.press
    BY <1>1, <2>1, <2>3, <2>4 DEF CallInv, PressesOnce
  <2> QED
    BY <2>5, <2>6, <2>7, <2>8 DEF PressesOnce
<1>6. OnePressOneSession'
  BY DEF CallInv, OnePressOneSession
<1> QED
  BY <1>2, <1>3, <1>4, <1>5, <1>6 DEF CallInv

\* A gesture that sends a request, and one that reads.
LEMMA PressSends ==
    ASSUME CallInv, NEW client \in Clients, NEW handler \in Handlers, NEW kind \in Changes,
           NEW view \in SessionView, NEW patch \in PatchView,
           kind \in Mutations => Known(row, view), handler \in Fixes => kind \in Mutations,
           Press(client, handler, kind, view, patch)
    PROVE  CallInv' /\ row' = row
<1> DEFINE c == Request(client, handler, kind, acts', view, patch)
<1>1. /\ acts \in Nat /\ faults \in Nat /\ acts' = acts + 1 /\ acts' <= MaxActs
      /\ calls' = calls \cup {c} /\ UNCHANGED <<row, faults, created>>
  BY InvGives, AgentAssumption DEF Press, Acts, agentRows
<1>2. c \in Call /\ CallKnown(row, c) /\ c.stage = "sent" /\ c.press = acts'
  <2>1. AskedBy(client, handler, kind)
    BY DEF AskedBy, Changes
  <2> HIDE DEF c
  <2> QED
    BY <1>1, <2>1, RequestIs DEF c
<1> HIDE DEF c
<1>3. acts' \in 0..MaxActs /\ acts < acts' /\ acts <= acts' /\ acts' <= acts'
  BY <1>1, AgentAssumption
<1> DEFINE N == {c}
<1>4. \A n \in N : /\ n \in Call /\ CallKnown(row, n) /\ n.stage # "running"
                   /\ n.press <= acts'
                   /\ Creating(n) => acts < n.press
  BY <1>2, <1>3
<1>5. \A m, n \in N : m = n
  OBVIOUS
<1>6. calls' \subseteq calls \cup N
  BY <1>1
<1> HIDE DEF N
<1> QED
  BY <1>1, <1>3, <1>4, <1>5, <1>6, CallsReplaced

LEMMA GestureReads ==
    ASSUME CallInv, Acts, UNCHANGED agentRows, NEW N, calls' \subseteq calls \cup N,
           \A n \in N : n \in Call /\ CallKnown(row, n) /\ n.stage = "answered" /\ n.press = 0
    PROVE  CallInv'
<1>1. /\ acts \in Nat /\ faults \in Nat /\ acts' = acts + 1 /\ acts' <= MaxActs
      /\ UNCHANGED <<row, faults, created>>
  BY InvGives, AgentAssumption DEF Acts, agentRows
<1>2. acts' \in 0..MaxActs /\ acts <= acts' /\ 0 <= acts'
  BY <1>1, AgentAssumption
<1>3. \A n \in N : ~Creating(n) /\ n.stage # "running"
  BY DEF Creating
<1> QED
  BY <1>1, <1>2, <1>3, CallsReplaced

\* A handler takes an answer, and sends what follows.
LEMMA HandlerSends ==
    ASSUME CallInv, NEW c \in calls, NEW next, Handled(c, next),
           \A n \in next : /\ n \in Call /\ CallKnown(row, n) /\ n.stage # "running"
                           /\ n.press = 0 \/ n.press = c.press
                           /\ n.kind # "create"
    PROVE  CallInv' /\ row' = row
<1>1. /\ calls' \subseteq calls \cup next /\ UNCHANGED <<row, faults, created, acts>>
  BY DEF Handled, agentRows
<1>2. acts' \in 0..MaxActs /\ acts <= acts'
  BY <1>1 DEF CallInv, AgentTypeOK
<1>3. \A n \in next : n.press <= acts' /\ ~Creating(n)
  BY <1>1, InvGives DEF Creating
<1> QED
  BY <1>1, <1>2, <1>3, CallsReplaced

LEMMA SilenceKeeps == CallInv /\ UNCHANGED agentVars => CallInv'
<1> SUFFICES ASSUME CallInv, UNCHANGED agentVars PROVE CallInv'
  OBVIOUS
<1>1. acts' \in 0..MaxActs /\ acts <= acts'
  BY DEF CallInv, AgentTypeOK, agentVars
<1> DEFINE N == {}
<1>2. calls' \subseteq calls \cup N /\ UNCHANGED <<row, faults, created>>
  BY DEF agentVars
<1>3. \A n \in N : FALSE
  OBVIOUS
<1> HIDE DEF N
<1> QED
  BY <1>1, <1>2, <1>3, CallsReplaced

\* The next of a handler's changes, and the history it ends with.
LEMMA FollowingIs ==
    ASSUME CallInv, NEW c \in calls, c.client \in Clients, c.stage = "answered", c.answer.ok,
           c.kind \in {"create", "capture"}, NEW kind \in Mutations
    PROVE  LET n == Following(c, kind, c.answer.view)
           IN /\ n \in Call /\ CallKnown(row, n) /\ n.stage = "sent" /\ n.press = c.press
              /\ n.kind = kind /\ n.client = c.client /\ n.handler = c.handler
<1>1. /\ Known(row, c.answer.view) /\ c.answer.view \in SessionView
      /\ c.handler \in Handlers /\ c.press \in Nat /\ c.patch \in PatchView
  BY InvGives DEF CallKnown, Mutations, Answers
<1>2. kind \in Changes
  BY DEF Changes, Mutations
<1> DEFINE n == Following(c, kind, c.answer.view)
<1>3. n = Request(c.client, c.handler, kind, c.press, c.answer.view, c.patch)
  BY DEF Following
<1> HIDE DEF n
<1>4. /\ n \in Call /\ CallKnown(row, n) /\ n.stage = "sent" /\ n.press = c.press
      /\ n.kind = kind /\ n.client = c.client /\ n.handler = c.handler
  <2> DEFINE view == c.answer.view
             press == c.press
             patch == c.patch
             client == c.client
             handler == c.handler
  <2>1. /\ view \in SessionView /\ Known(row, view) /\ press \in Nat /\ patch \in PatchView
        /\ client \in Clients /\ handler \in Handlers
    BY <1>1
  <2>2. n = Request(client, handler, kind, press, view, patch)
    BY <1>3
  <2> HIDE DEF view, press, patch, client, handler
  <2>3. /\ n \in Call /\ CallKnown(row, n) /\ n.stage = "sent" /\ n.press = press
        /\ n.kind = kind /\ n.client = client /\ n.handler = handler
    <3>1. AskedBy(client, handler, kind)
      BY DEF AskedBy, Mutations
    <3> QED
      BY <1>2, <2>1, <2>2, <3>1, RequestIs
  <2> QED
    BY <2>3 DEF press, client, handler
<1> QED
  BY <1>4 DEF n

\* The answer c becomes, whatever it was: of a change, or a refusal.
Ended(c, a) == [c EXCEPT !.stage = "answered", !.view = NoSession, !.patch = NoPatch, !.answer = a]

LEMMA EndedIs ==
    ASSUME NEW rows, NEW c \in Call, NEW a \in Answers,
           c.kind \in Reads => a.ok = FALSE,
           AskedBy(c.client, c.handler, c.kind),
           c.kind \in Mutations \cup {"create"} /\ a.ok => Known(rows, a.view),
           \A i \in DOMAIN a.rows : Known(rows, a.rows[i])
    PROVE  /\ Ended(c, a) \in Call /\ CallKnown(rows, Ended(c, a))
           /\ Ended(c, a).stage = "answered" /\ Ended(c, a).press = c.press
           /\ Ended(c, a).kind = c.kind /\ Ended(c, a).client = c.client
           /\ Ended(c, a).handler = c.handler
<1> DEFINE n == Ended(c, a)
<1>1. n \in Call
  BY NothingHeld DEF Ended, Call
<1>2. /\ n.stage = "answered" /\ n.press = c.press /\ n.kind = c.kind /\ n.client = c.client
      /\ n.handler = c.handler /\ n.view = NoSession /\ n.answer = a
  BY DEF Ended, Call
<1> HIDE DEF n
<1>3. CallKnown(rows, n)
  BY <1>2 DEF CallKnown, NoSession, Reads
<1> QED
  BY <1>1, <1>2, <1>3 DEF n

\* Sent again, or given up.
LEMMA AfreshIs ==
    ASSUME CallInv, NEW c \in calls, c.client # "none", ~(c.stage = "answered" /\ ~c.answer.ok)
    PROVE  /\ Afresh(c) \in Call /\ CallKnown(row, Afresh(c)) /\ Afresh(c).stage = "answered"
           /\ Afresh(c).press = c.press /\ Afresh(c).kind = c.kind
           /\ Afresh(c).client = c.client /\ Afresh(c).handler = c.handler
<1>1. c \in Call /\ CallKnown(row, c) /\ row \in Rows /\ c.answer.ok \in BOOLEAN
  BY InvGives DEF Answers
<1>2. CASE c.client = "phone" /\ c.tries < Retries(c.kind)
  <2> DEFINE a == Response(c.kind, c.view.id, row)
             n == [c EXCEPT !.tries = c.tries + 1, !.answer = a]
  <2>1. c.kind \in Reads /\ c.tries = 0
    BY <1>1, <1>2 DEF Retries, Call
  <2>2. Afresh(c) = n
    BY <1>1, <1>2, <2>1 DEF Afresh, Call
  <2>3. c.stage = "answered" /\ c.answer.ok /\ c.kind \notin Changes
    BY <1>1, <2>1 DEF CallKnown, Reads, Changes
  <2>4. /\ c.view.id \in DOMAIN row \cup {0}
        /\ c.kind = "patch" => c.view.id # 0
    BY <1>1, <2>1, <2>3, InvGives DEF CallKnown, Reads
  <2>5. c.kind \in {"session", "page", "patch"} => c.view.id \in DOMAIN row /\ c.view.id # 0
    BY <1>1, <2>3, InvGives DEF CallKnown
  <2>6. /\ a \in Answers
        /\ c.view.id # 0 /\ c.kind # "patch" => Known(row, a.view)
        /\ \A i \in DOMAIN a.rows : Known(row, a.rows[i])
    BY <1>1, <2>1, <2>4, ResponseIs
  <2> HIDE DEF a
  <2>7. /\ n \in Call /\ n.stage = "answered" /\ n.press = c.press /\ n.kind = c.kind
        /\ n.client = c.client /\ n.handler = c.handler /\ n.view = c.view /\ n.answer = a
    <3>1. c.tries + 1 \in 0..1
      BY <2>1
    <3> QED
      BY <1>1, <2>3, <2>6, <3>1 DEF Call
  <2> HIDE DEF n
  <2>8. c.kind \notin Mutations \cup {"create"}
    BY <2>1 DEF Reads, Mutations
  <2>9. CallKnown(row, n)
    BY <1>1, <2>3, <2>5, <2>6, <2>7, <2>8 DEF CallKnown
  <2> QED
    BY <2>2, <2>3, <2>7, <2>9
<1>3. CASE ~(c.client = "phone" /\ c.tries < Retries(c.kind))
  <2>1. Afresh(c) = Ended(c, Refused)
    BY <1>3 DEF Afresh, Ended
  <2>2. DOMAIN Refused.rows = {} /\ Refused \in Answers /\ Refused.ok = FALSE
    BY NothingHeld
  <2>3. AskedBy(c.client, c.handler, c.kind)
    BY <1>1 DEF CallKnown
  <2> DEFINE a == Refused
  <2>4. a \in Answers /\ a.ok = FALSE /\ \A i \in DOMAIN a.rows : FALSE
    BY <2>2
  <2>5. Afresh(c) = Ended(c, a)
    BY <2>1
  <2> HIDE DEF a
  <2>6. /\ c.kind \in Mutations \cup {"create"} /\ a.ok => Known(row, a.view)
        /\ \A i \in DOMAIN a.rows : Known(row, a.rows[i])
    BY <2>4
  <2> DEFINE n == Ended(c, a)
  <2>7. /\ n \in Call /\ CallKnown(row, n) /\ n.stage = "answered" /\ n.press = c.press
        /\ n.kind = c.kind /\ n.client = c.client /\ n.handler = c.handler
    BY <1>1, <2>3, <2>4, <2>6, EndedIs
  <2> QED
    BY <2>5, <2>7
<1> QED
  BY <1>2, <1>3

\* A call is lost, or its client gives up while the agent goes on with it.
LEMMA FaultKeeps ==
    ASSUME CallInv, NEW c \in calls, Fault(c)
    PROVE  CallInv' /\ row' = row
<1> DEFINE n == Afresh(c)
           o == [c EXCEPT !.client = "none"]
<1>1. /\ UNCHANGED <<row, acts, created>> /\ faults' = faults + 1 /\ faults < MaxFaults
      /\ c.client # "none" /\ ~(c.stage = "answered" /\ ~c.answer.ok)
      /\ \/ calls' = (calls \ {c}) \cup {n}
         \/ c.stage # "answered" /\ calls' = (calls \ {c}) \cup {n, o}
  BY DEF Fault
<1>2. n \in Call /\ CallKnown(row, n) /\ n.stage = "answered" /\ n.press = c.press
  BY <1>1, AfreshIs
<1>3. c \in Call /\ CallKnown(row, c) /\ c.press <= acts /\ calls \subseteq Call
  BY InvGives
<1>4. /\ o \in Call /\ o.stage = c.stage /\ o.kind = c.kind /\ o.press = c.press
      /\ o.view = c.view /\ o.answer = c.answer /\ o.handler = c.handler
  BY <1>3 DEF Call
<1> HIDE DEF n, o
<1>5. CallKnown(row, o)
  <2>1. AskedBy(o.client, o.handler, o.kind)
    BY <1>3, <1>4 DEF CallKnown, AskedBy, o
  <2> QED
    BY <1>3, <1>4, <2>1 DEF CallKnown
<1>6. AgentTypeOK'
  <2>1. faults' \in 0..MaxFaults
    BY <1>1, AgentAssumption DEF CallInv, AgentTypeOK
  <2>2. calls' \subseteq Call
    BY <1>1, <1>2, <1>3, <1>4
  <2> QED
    BY <1>1, <2>1, <2>2 DEF CallInv, AgentTypeOK
<1>7. CallsKnown'
  BY <1>1, <1>2, <1>5 DEF CallInv, CallsKnown
<1>8. OneWorks'
  <2>1. \A d \in calls' : d.stage = "running" =>
          (d \in calls /\ d # c) \/ (d = o /\ c.stage = "running")
    BY <1>1, <1>2, <1>4
  <2>2. Working(o) = Working(c)
    BY <1>4 DEF Working
  <2> QED
    BY <1>1, <1>4, <2>1, <2>2 DEF CallInv, OneWorks
<1>9. PressesOnce'
  <2>1. \A d \in calls' : Creating(d) => (d \in calls /\ d # c) \/ (d = o /\ Creating(c))
    BY <1>1, <1>2, <1>4 DEF Creating
  <2>2. \A d \in calls' : d \in calls \/ d.press = c.press
    BY <1>1, <1>2, <1>4
  <2> QED
    BY <1>1, <1>3, <1>4, <2>1, <2>2 DEF CallInv, PressesOnce
<1>10. OnePressOneSession'
  BY <1>1 DEF CallInv, OnePressOneSession
<1> QED
  BY <1>1, <1>6, <1>7, <1>8, <1>9, <1>10 DEF CallInv

-----------------------------------------------------------------------------
(* The agent.                                                              *)

\* The agent answers a call; a create makes the session of its press.
LEMMA AnswerKeeps ==
    ASSUME CallInv, NEW c \in calls, c.stage # "answered", NEW ok \in BOOLEAN, NEW s,
           Answer(c, ok, s), UNCHANGED <<faults, acts>>, row' \in Rows, Grows(row, row'),
           ok => s \in DOMAIN row' \cup {0} /\ (c.kind \in Mutations \cup {"create"} => s # 0),
           \A d \in calls \ {c} :
             d.stage = "running" => row'[d.view.id].state = row[d.view.id].state,
           \/ created' = created
           \/ Creating(c) /\ s \in Ids /\ created' = created \cup {<<c.press, s>>}
    PROVE  CallInv'
<1> DEFINE a == IF ok THEN Response(c.kind, s, row') ELSE Refused
           n == Ended(c, a)
<1>1. /\ c \in Call /\ CallKnown(row, c) /\ row \in Rows /\ row \in Seq(Row) /\ row' \in Seq(Row)
      /\ c.kind \in Changes /\ calls \subseteq Call /\ c.press \in Nat /\ c.press <= acts
  BY InvGives DEF CallKnown, Rows
<1>2. /\ a \in Answers /\ \A i \in DOMAIN a.rows : Known(row', a.rows[i])
      /\ c.kind \in Mutations \cup {"create"} /\ a.ok => Known(row', a.view)
  <2>1. CASE ok
    <3>1. c.kind \in Reads \cup Changes /\ c.kind # "patch"
      BY <1>1 DEF Changes
    <3>2. s \in DOMAIN row' \cup {0} /\ (c.kind \in Mutations \cup {"create"} => s # 0)
      BY <2>1
    <3>3. a = Response(c.kind, s, row')
      BY <2>1
    <3> HIDE DEF a
    <3> QED
      BY <3>1, <3>2, <3>3, ResponseIs
  <2>2. CASE ~ok
    <3>1. a = Refused
      BY <2>2
    <3> HIDE DEF a
    <3> QED
      BY <3>1, NothingHeld
  <2> QED
    BY <2>1, <2>2
<1>3. calls' \subseteq (calls \ {c}) \cup {n}
  BY DEF Answer, Ended
<1> HIDE DEF a
<1>4. n \in Call /\ CallKnown(row', n) /\ n.stage = "answered" /\ n.press = c.press
  <2>1. c.kind \notin Reads /\ AskedBy(c.client, c.handler, c.kind)
    BY <1>1 DEF Changes, Reads, CallKnown
  <2> QED
    BY <1>1, <1>2, <2>1, EndedIs
<1> HIDE DEF n
<1>5. AgentTypeOK'
  <2>1. created' \subseteq Nat \X Ids
    BY <1>1 DEF CallInv, AgentTypeOK
  <2>2. calls' \subseteq Call
    BY <1>1, <1>3, <1>4
  <2> QED
    BY <2>1, <2>2 DEF CallInv, AgentTypeOK, Rows
<1>6. CallsKnown'
  <2>1. \A d \in calls : CallKnown(row', d)
    BY <1>1, InvGives, CallStays
  <2> QED
    BY <1>3, <1>4, <2>1 DEF CallsKnown
<1>7. OneWorks'
  <2>1. \A d \in calls' : d.stage = "running" => d \in calls \ {c}
    BY <1>3, <1>4
  <2> QED
    BY <2>1 DEF CallInv, OneWorks
<1>8. PressesOnce'
  <2>1. \A d \in calls' : /\ d.press <= acts
                          /\ Creating(d) => d \in calls /\ d # c
    BY <1>1, <1>3, <1>4 DEF CallInv, PressesOnce, Creating
  <2>2. \A x \in created' : x \in created \/ (Creating(c) /\ x[1] = c.press)
    OBVIOUS
  <2> QED
    BY <1>1, <2>1, <2>2 DEF CallInv, PressesOnce
<1>9. OnePressOneSession'
  <2>1. \A x \in created' : x \in created \/ (Creating(c) /\ x = <<c.press, s>>)
    OBVIOUS
  <2>2. \A x \in created : Creating(c) => x[1] # c.press
    BY DEF CallInv, PressesOnce
  <2> QED
    BY <2>1, <2>2 DEF CallInv, OnePressOneSession
<1> QED
  BY <1>5, <1>6, <1>7, <1>8, <1>9 DEF CallInv

LEMMA CreateKeeps ==
    ASSUME CallInv, NEW c \in calls, ServeCreate(c)
    PROVE  CallInv' /\ Grows(row, row') /\ row' \in Rows
<1> DEFINE s == Len(row) + 1
<1>1. /\ c.stage = "sent" /\ c.kind = "create" /\ Len(row) < MaxSessions
      /\ row' = Append(row, NewRow) /\ created' = created \cup {<<c.press, s>>}
      /\ UNCHANGED <<faults, acts>> /\ Answer(c, TRUE, s)
  BY DEF ServeCreate
<1>2. NewRow \in Row
  BY DEF NewRow, Row, DebugState, MaxRetries, PatchStatus, RollbackStatus
<1>3. row \in Seq(Row) /\ Len(row) \in Nat /\ DOMAIN row = 1..Len(row) /\ MaxSessions \in Nat
  BY InvGives, AgentAssumption
<1>4. /\ row' \in Rows /\ DOMAIN row' = 1..s /\ s \in DOMAIN row' /\ s \in Ids /\ s # 0
      /\ \A i \in DOMAIN row : i \in DOMAIN row' /\ row'[i] = row[i]
  <2>1. row' \in Seq(Row) /\ Len(row') = s
    BY <1>1, <1>2, <1>3
  <2>2. \A i \in 1..Len(row) : row'[i] = row[i]
    BY <1>1, <1>2, <1>3
  <2> QED
    BY <1>1, <1>3, <2>1, <2>2 DEF Rows, Ids
<1>5. Grows(row, row')
  BY <1>4 DEF Grows
<1>6. \A d \in calls \ {c} : d.stage = "running" => row'[d.view.id].state = row[d.view.id].state
  <2>1. \A d \in calls : d.stage = "running" => d.view.id \in DOMAIN row
    BY InvGives DEF CallKnown, Mutations, Known
  <2> QED
    BY <1>4, <2>1
<1>7. Creating(c)
  BY <1>1 DEF Creating
<1> HIDE DEF s
<1> QED
  BY <1>1, <1>4, <1>5, <1>6, <1>7, AnswerKeeps

LEMMA WorkspaceKeeps ==
    ASSUME CallInv, NEW c \in calls, ServeWorkspace(c)
    PROVE  CallInv' /\ row' = row
<1>1. /\ c.stage = "sent" /\ c.kind \in {"select", "prepare", "reset", "other"}
      /\ UNCHANGED <<row, faults, acts, created>>
  BY DEF ServeWorkspace
<1>2. PICK ok \in BOOLEAN : Answer(c, ok, 0)
  BY DEF ServeWorkspace
<1>3. row' \in Rows /\ Grows(row, row')
  BY <1>1, InvGives DEF Grows
<1>4. c.kind \notin Mutations \cup {"create"}
  BY <1>1 DEF Mutations
<1> QED
  BY <1>1, <1>2, <1>3, <1>4, AnswerKeeps

\* A change of one row.
LEMMA RowReplaced ==
    ASSUME row \in Rows, NEW s \in DOMAIN row, NEW n \in Row, row' = [row EXCEPT ![s] = n],
           \/ row[s].revision < n.revision
           \/ /\ row[s].revision = n.revision /\ row[s].state = n.state
              /\ row[s].retry_count = n.retry_count
    PROVE  /\ row' \in Rows /\ Grows(row, row') /\ DOMAIN row' = DOMAIN row /\ row'[s] = n
           /\ \A i \in DOMAIN row \ {s} : row'[i] = row[i]
<1>1. row \in Seq(Row) /\ DOMAIN row = 1..Len(row) /\ s \in 1..Len(row)
  BY DEF Rows
<1>2. /\ row' \in Seq(Row) /\ Len(row') = Len(row) /\ DOMAIN row' = DOMAIN row /\ row'[s] = n
      /\ \A i \in DOMAIN row \ {s} : row'[i] = row[i]
  BY <1>1
<1>3. row' \in Rows
  BY <1>2 DEF Rows
<1>4. Grows(row, row')
  BY <1>2 DEF Grows
<1> QED
  BY <1>2, <1>3, <1>4

\* Nothing is admitted for a session that the agent works on.
LEMMA AdmittedAlone ==
    ASSUME CallInv, NEW c \in calls, c.stage = "sent", c.kind \in Mutations,
           Admits(c, row[c.view.id])
    PROVE  \A d \in calls : d.stage = "running" => d.view.id # c.view.id
<1> DEFINE r == row[c.view.id]
<1>1. SUFFICES ASSUME NEW d \in calls, d.stage = "running", d.view.id = c.view.id
               PROVE  FALSE
  OBVIOUS
<1>2. /\ d.kind \in {"analyze", "generate"}
      /\ r.state = IF d.kind = "analyze" THEN "ANALYZING" ELSE "ROOT_CAUSE_FOUND"
  BY <1>1, InvGives DEF CallKnown, CallInv, OneWorks, Working
<1> HIDE DEF r
<1>3. c.kind = "capture" => r.state = "IDLE"
  BY DEF Admits, r
<1>4. c.kind = "analyze" => r.state \in {"CAPTURED", "FAILED"}
  <2>1. c.kind = "analyze" => "ANALYZING" \in Successors(r.state)
    BY DEF Admits, r, Decidable
  <2> QED
    BY <2>1 DEF Successors
<1>5. c.kind = "generate" => r.state = "ROOT_CAUSE_FOUND" /\ ~(d.kind = "generate")
  BY <1>1 DEF Admits, r
<1>6. c.kind \in {"approve", "reject"} => r.state = "AWAITING_APPROVAL"
  BY DEF Admits, r
<1>7. c.kind = "rollback" => r.state \in {"SUCCESS", "FAILED"}
  BY DEF Admits, r
<1> QED
  BY <1>2, <1>3, <1>4, <1>5, <1>6, <1>7 DEF Mutations

\* The agent begins to work on a session for a call.
LEMMA BeginKeeps ==
    ASSUME CallInv, NEW c \in calls, c.stage = "sent", c.kind \in {"analyze", "generate"},
           Admits(c, row[c.view.id]), NEW n,
           n = IF c.kind = "analyze" THEN Transition(row[c.view.id], "ANALYZING")
               ELSE row[c.view.id],
           row' = [row EXCEPT ![c.view.id] = n],
           calls' = (calls \ {c}) \cup {[c EXCEPT !.stage = "running"]},
           UNCHANGED <<faults, acts, created>>
    PROVE  CallInv' /\ Grows(row, row') /\ row' \in Rows
<1> DEFINE s == c.view.id
           r == row[s]
           o == [c EXCEPT !.stage = "running"]
<1>1. /\ c \in Call /\ CallKnown(row, c) /\ row \in Rows /\ row \in Seq(Row) /\ calls \subseteq Call
      /\ c.press <= acts
  BY InvGives
<1>2. s \in DOMAIN row /\ r \in Row /\ r.revision \in Nat
  <2>1. s \in DOMAIN row
    BY <1>1 DEF CallKnown, Mutations, Known
  <2> QED
    BY <1>1, <2>1, RowAt
<1>3. /\ o \in Call /\ o.stage = "running" /\ o.kind = c.kind /\ o.press = c.press
      /\ o.view = c.view /\ o.answer = c.answer /\ o.handler = c.handler /\ o.client = c.client
  BY <1>1 DEF Call
<1>4. /\ n \in Row /\ n.state = Working(c)
      /\ \/ r.revision < n.revision
         \/ r.revision = n.revision /\ r.state = n.state /\ r.retry_count = n.retry_count
  <2>1. CASE c.kind = "analyze"
    <3>1. n = Transition(r, "ANALYZING") /\ "ANALYZING" \in DebugState
      BY <2>1 DEF DebugState
    <3>2. IsRetry(r.state, "ANALYZING") => r.retry_count < MaxRetries
      BY <2>1 DEF Admits, Decidable
    <3> HIDE DEF r
    <3>3. n \in Row /\ n.revision = r.revision + 1 /\ n.state = "ANALYZING"
      BY <1>2, <3>1, <3>2, TransitionIs
    <3> QED
      BY <1>2, <2>1, <3>3 DEF Working
  <2>2. CASE c.kind = "generate"
    BY <1>2, <2>2 DEF Admits, Working
  <2> QED
    BY <2>1, <2>2
<1>5. /\ row' \in Rows /\ Grows(row, row') /\ row'[s] = n
      /\ \A i \in DOMAIN row \ {s} : row'[i] = row[i]
  BY <1>1, <1>2, <1>4, RowReplaced
<1>6. \A d \in calls : d.stage = "running" => d.view.id # s /\ d.view.id \in DOMAIN row
  <2>1. \A d \in calls : d.stage = "running" => d.view.id # s
    BY AdmittedAlone DEF Mutations
  <2>2. \A d \in calls : d.stage = "running" => d.view.id \in DOMAIN row
    BY InvGives DEF CallKnown, Mutations, Known
  <2> QED
    BY <2>1, <2>2
<1>7. \A d \in calls' : (d \in calls /\ d # c) \/ d = o
  OBVIOUS
<1> HIDE DEF s, r, o
<1>8. CallKnown(row', o)
  <2>1. CallKnown(row', c)
    BY <1>1, <1>5, CallStays DEF Rows
  <2> QED
    BY <1>3, <2>1 DEF CallKnown, Changes
<1>9. AgentTypeOK'
  BY <1>1, <1>3, <1>5, <1>7 DEF CallInv, AgentTypeOK, Rows
<1>10. CallsKnown'
  <2>1. \A d \in calls : CallKnown(row', d)
    BY <1>1, <1>5, InvGives, CallStays DEF Rows
  <2> QED
    BY <1>7, <1>8, <2>1 DEF CallsKnown
<1>11. OneWorks'
  <2>1. Working(o) = Working(c) /\ o.view.id = s
    BY <1>3 DEF Working, s
  <2>2. \A d \in calls' : d.stage = "running" => row'[d.view.id].state = Working(d)
    BY <1>4, <1>5, <1>6, <1>7, <2>1 DEF CallInv, OneWorks
  <2>3. \A d, e \in calls' : d.stage = "running" /\ e.stage = "running" /\ d.view.id = e.view.id
                               => d = e
    BY <1>6, <1>7, <2>1 DEF CallInv, OneWorks
  <2> QED
    BY <2>2, <2>3 DEF OneWorks
<1>12. PressesOnce'
  <2>1. ~Creating(o)
    BY <1>3 DEF Creating
  <2> QED
    BY <1>1, <1>3, <1>7, <2>1 DEF CallInv, PressesOnce
<1>13. OnePressOneSession'
  BY DEF CallInv, OnePressOneSession
<1> QED
  BY <1>5, <1>9, <1>10, <1>11, <1>12, <1>13 DEF CallInv

\* A call on a session ends, with the row one of those it may leave.
LEMMA EndKeeps ==
    ASSUME CallInv, NEW c \in calls, c.stage # "answered", c.kind \in Mutations,
           \A d \in calls \ {c} : d.stage = "running" => d.view.id # c.view.id,
           NEW ok \in BOOLEAN, NEW n \in IF ok THEN Succeeds(c, row[c.view.id])
                                         ELSE Fails(c, row[c.view.id]),
           row' = [row EXCEPT ![c.view.id] = n], Answer(c, ok, c.view.id),
           UNCHANGED <<faults, acts, created>>
    PROVE  CallInv' /\ Grows(row, row') /\ row' \in Rows
<1> DEFINE s == c.view.id
           r == row[s]
<1>1. row \in Rows /\ s \in DOMAIN row /\ s # 0
  BY InvGives DEF CallKnown, Known
<1>2. r \in Row
  BY <1>1, RowAt DEF Rows
<1>3. /\ n \in Row
      /\ \/ r.revision < n.revision
         \/ r.revision = n.revision /\ r.state = n.state /\ r.retry_count = n.retry_count
  <2> HIDE DEF r
  <2>1. CASE ok
    <3>1. n \in Succeeds(c, r)
      BY <2>1 DEF r
    <3> QED
      BY <1>2, <3>1, SucceedsIs
  <2>2. CASE ~ok
    <3>1. n \in Fails(c, r)
      BY <2>2 DEF r
    <3> QED
      BY <1>2, <3>1, FailsIs
  <2> QED
    BY <2>1, <2>2
<1>4. /\ row' \in Rows /\ Grows(row, row') /\ DOMAIN row' = DOMAIN row
      /\ \A i \in DOMAIN row \ {s} : row'[i] = row[i]
  BY <1>1, <1>3, RowReplaced
<1>5. \A d \in calls \ {c} : d.stage = "running" => row'[d.view.id].state = row[d.view.id].state
  <2>1. \A d \in calls : d.stage = "running" => d.view.id \in DOMAIN row
    BY InvGives DEF CallKnown, Mutations, Known
  <2> QED
    BY <1>4, <2>1
<1> HIDE DEF s, r
<1>6. Answer(c, ok, s) /\ s \in DOMAIN row' \cup {0}
  BY <1>1, <1>4 DEF s
<1> QED
  BY <1>1, <1>4, <1>5, <1>6, AnswerKeeps

LEMMA ChangeKeeps ==
    ASSUME CallInv, NEW c \in calls, ServeChange(c)
    PROVE  CallInv' /\ Grows(row, row') /\ row' \in Rows
<1> DEFINE s == c.view.id
           r == row[s]
<1>1. c.stage = "sent" /\ c.kind \in Mutations /\ UNCHANGED <<faults, acts, created>>
  BY DEF ServeChange, Changes, Mutations
<1>2. CASE ~Admits(c, r)
  <2>1. row' = row /\ Answer(c, FALSE, s)
    BY <1>2 DEF ServeChange
  <2>2. row' \in Rows /\ Grows(row, row')
    BY <2>1, InvGives DEF Grows
  <2> QED
    BY <1>1, <2>1, <2>2, AnswerKeeps
<1>3. CASE Admits(c, r) /\ c.kind \in {"analyze", "generate"}
  <2> DEFINE n == IF c.kind = "analyze" THEN Transition(r, "ANALYZING") ELSE r
  <2>1. /\ row' = [row EXCEPT ![s] = n]
        /\ calls' = (calls \ {c}) \cup {[c EXCEPT !.stage = "running"]}
    BY <1>3 DEF ServeChange
  <2>2. n = IF c.kind = "analyze" THEN Transition(row[c.view.id], "ANALYZING")
            ELSE row[c.view.id]
    OBVIOUS
  <2>3. row' = [row EXCEPT ![c.view.id] = n]
    BY <2>1
  <2> HIDE DEF n
  <2> QED
    BY <1>1, <1>3, <2>1, <2>2, <2>3, BeginKeeps
<1>4. CASE Admits(c, r) /\ c.kind \notin {"analyze", "generate"}
  <2>1. PICK ok \in BOOLEAN : \E n \in IF ok THEN Succeeds(c, r) ELSE Fails(c, r) :
                                 row' = [row EXCEPT ![s] = n] /\ Answer(c, ok, s)
    <3>1. \/ \E n \in Succeeds(c, r) : row' = [row EXCEPT ![s] = n] /\ Answer(c, TRUE, s)
          \/ \E n \in Fails(c, r) : row' = [row EXCEPT ![s] = n] /\ Answer(c, FALSE, s)
      BY <1>4 DEF ServeChange
    <3> QED
      BY <3>1
  <2>2. \A d \in calls \ {c} : d.stage = "running" => d.view.id # s
    BY <1>1, <1>4, AdmittedAlone
  <2> QED
    BY <1>1, <2>1, <2>2, EndKeeps
<1> QED
  BY <1>2, <1>3, <1>4

LEMMA FinishKeeps ==
    ASSUME CallInv, NEW c \in calls, FinishChange(c)
    PROVE  CallInv' /\ Grows(row, row') /\ row' \in Rows
<1> DEFINE s == c.view.id
           r == row[s]
<1>1. c.stage = "running" /\ UNCHANGED <<faults, acts, created>>
  BY DEF FinishChange
<1>2. c.kind \in Mutations
  BY <1>1, InvGives DEF CallKnown, Mutations
<1>3. PICK ok \in BOOLEAN : \E n \in IF ok THEN Succeeds(c, r) ELSE Fails(c, r) :
                               row' = [row EXCEPT ![s] = n] /\ Answer(c, ok, s)
  <2>1. \/ \E n \in Succeeds(c, r) : row' = [row EXCEPT ![s] = n] /\ Answer(c, TRUE, s)
        \/ \E n \in Fails(c, r) : row' = [row EXCEPT ![s] = n] /\ Answer(c, FALSE, s)
    BY DEF FinishChange
  <2> QED
    BY <2>1
<1>4. \A d \in calls \ {c} : d.stage = "running" => d.view.id # s
  BY <1>1 DEF CallInv, OneWorks
<1> QED
  BY <1>1, <1>2, <1>3, <1>4, EndKeeps

\* Any step of the agent.
LEMMA AgentKeeps ==
    ASSUME CallInv, Agent
    PROVE  CallInv' /\ Grows(row, row') /\ row \in Seq(Row) /\ row' \in Seq(Row)
<1>1. PICK c \in calls : Serve(c) \/ Fault(c)
  BY DEF Agent
<1>2. row \in Rows /\ Grows(row, row)
  BY InvGives DEF Grows
<1>3. CallInv' /\ Grows(row, row') /\ row' \in Rows
  BY <1>1, <1>2, CreateKeeps, WorkspaceKeeps, ChangeKeeps, FinishKeeps, FaultKeeps DEF Serve
<1> QED
  BY <1>2, <1>3 DEF Rows

-----------------------------------------------------------------------------
(* The screens, while the agent works.                                     *)

LEMMA ScreensStay ==
    ASSUME CallInv, ScreenInv, DeskInv, Agent, UNCHANGED <<phoneVars, desk>>
    PROVE  ScreenInv' /\ DeskInv'
<1>1. Grows(row, row') /\ row \in Seq(Row) /\ row' \in Seq(Row)
  BY AgentKeeps
<1>2. phone' = phone /\ bridge' = bridge /\ desk' = desk
  BY DEF phoneVars
<1>3. /\ phone.session \in SessionView /\ phone.alert.view \in SessionView
      /\ bridge.view \in SessionView /\ desk.session \in SessionView
  BY DEF ScreenInv, PhoneTypeOK, DeskInv, DeskTypeOK
<1>4. \A v \in SessionView : Known(row, v) => Known(row', v)
  BY <1>1, KnownStays
<1>5. Held(row', phone.session) /\ Held(row', desk.session)
  BY <1>3, <1>4 DEF Held, ScreenInv, DeskInv
<1>6. phone.alert = NoAlert \/ Known(row', phone.alert.view)
  BY <1>3, <1>4 DEF ScreenInv
<1>7. /\ bridge.stage # "off" => bridge.session \in DOMAIN row'
      /\ bridge.stage = "snapshot" => Known(row', bridge.view)
  BY <1>1, <1>3, <1>4 DEF ScreenInv, Grows
<1>8. PhoneTypeOK' /\ DeskTypeOK'
  BY <1>2 DEF ScreenInv, DeskInv, PhoneTypeOK, DeskTypeOK
<1> QED
  BY <1>2, <1>5, <1>6, <1>7, <1>8 DEF ScreenInv, DeskInv

-----------------------------------------------------------------------------
(* The phone.                                                              *)

PhoneState == [session: SessionView, patch: PatchView,
               busy: BOOLEAN, workspace: BOOLEAN, resumed: BOOLEAN,
               alert: [view: SessionView, patch: PatchView]]
BridgeState == [session: Ids \cup {0}, stage: {"off", "opening", "snapshot", "live"},
                upto: Nat, shown: Nat, view: SessionView, patch: PatchView]

LEMMA PhoneMoves ==
    ASSUME NEW p \in PhoneState, NEW v \in SessionView, NEW q \in PatchView
    PROVE  /\ WithSession(p, v) \in PhoneState /\ WithSession(p, v).session = v
           /\ WithSession(p, v).alert = p.alert
           /\ WithPatch(p, q) \in PhoneState /\ WithPatch(p, q).session = p.session
           /\ WithPatch(p, q).alert = p.alert
           /\ Cleared(p) \in PhoneState /\ Cleared(p).session = NoSession
           /\ Cleared(p).alert = p.alert
           /\ Idle(p) \in PhoneState /\ Idle(p).session = p.session /\ Idle(p).alert = p.alert
<1>1. WithSession(p, v) \in PhoneState /\ WithSession(p, v).session = v
      /\ WithSession(p, v).alert = p.alert
  BY DEF WithSession, PhoneState
<1>2. WithPatch(p, q) \in PhoneState /\ WithPatch(p, q).session = p.session
      /\ WithPatch(p, q).alert = p.alert
  BY DEF WithPatch, PhoneState
<1>3. Cleared(p) \in PhoneState /\ Cleared(p).session = NoSession /\ Cleared(p).alert = p.alert
  BY NothingHeld DEF Cleared, PhoneState
<1>4. Idle(p) \in PhoneState /\ Idle(p).session = p.session /\ Idle(p).alert = p.alert
  BY DEF Idle, PhoneState
<1> QED
  BY <1>1, <1>2, <1>3, <1>4

LEMMA BridgeMoves ==
    /\ Off \in BridgeState /\ Off.stage = "off"
    /\ \A v \in SessionView : /\ Connected(v) \in BridgeState /\ Connected(v).stage = "opening"
                              /\ Connected(v).session = v.id
    /\ \A b \in BridgeState, v \in SessionView :
         /\ Dispatched(b, v) \in BridgeState /\ Dispatched(b, v).stage = b.stage
         /\ Dispatched(b, v).session = b.session /\ Dispatched(b, v).view = b.view
<1>1. Off \in BridgeState /\ Off.stage = "off"
  BY NothingHeld DEF Off, BridgeState
<1>2. ASSUME NEW v \in SessionView
      PROVE  /\ Connected(v) \in BridgeState /\ Connected(v).stage = "opening"
             /\ Connected(v).session = v.id
  <2>1. v.id \in Ids \cup {0} /\ v.revision \in Nat
    BY DEF SessionView
  <2> QED
    BY <1>1, <2>1 DEF Connected, BridgeState
<1>3. ASSUME NEW b \in BridgeState, NEW v \in SessionView
      PROVE  /\ Dispatched(b, v) \in BridgeState /\ Dispatched(b, v).stage = b.stage
             /\ Dispatched(b, v).session = b.session /\ Dispatched(b, v).view = b.view
  BY DEF Dispatched, BridgeState, SessionView
<1> QED
  BY <1>1, <1>2, <1>3

\* What a handler may put on the screen, while the rows stay.
LEMMA ScreenShows ==
    ASSUME ScreenInv, row' = row, phone' \in PhoneState, bridge' \in BridgeState,
           phone'.session \in {phone.session, NoSession} \/ Known(row, phone'.session),
           \/ phone'.alert \in {phone.alert, NoAlert} \/ Known(row, phone'.alert.view),
           bridge'.stage # "off" => bridge'.session \in DOMAIN row,
           bridge'.stage = "snapshot" => Known(row, bridge'.view)
    PROVE  ScreenInv'
<1>1. PhoneTypeOK'
  BY DEF PhoneTypeOK, PhoneState, BridgeState
<1>2. Held(row', phone'.session)
  BY DEF ScreenInv, Held
<1>3. phone'.alert = NoAlert \/ Known(row', phone'.alert.view)
  BY DEF ScreenInv
<1> QED
  BY <1>1, <1>2, <1>3 DEF ScreenInv

\* What the invariants give of the screen and the bridge.
LEMMA ScreenGives ==
    ASSUME ScreenInv
    PROVE  /\ phone \in PhoneState /\ bridge \in BridgeState
           /\ phone.session \in SessionView /\ phone.patch \in PatchView
           /\ phone.alert.view \in SessionView /\ phone.alert.patch \in PatchView
           /\ phone.session # NoSession => Known(row, phone.session)
           /\ phone.alert # NoAlert => Known(row, phone.alert.view)
           /\ bridge.stage # "off" => bridge.session \in DOMAIN row
           /\ bridge.stage = "snapshot" => Known(row, bridge.view)
<1>1. phone \in PhoneState /\ bridge \in BridgeState
  BY DEF ScreenInv, PhoneTypeOK, PhoneState, BridgeState
<1>2. /\ phone.session \in SessionView /\ phone.patch \in PatchView
      /\ phone.alert.view \in SessionView /\ phone.alert.patch \in PatchView
  BY <1>1 DEF PhoneState
<1> QED
  BY <1>1, <1>2 DEF ScreenInv, Held

LEMMA AskKeeps ==
    ASSUME CallInv, ScreenInv, NEW handler \in Handlers, NEW kind \in Changes,
           kind \in Mutations => phone.session # NoSession,
           handler \in Fixes => kind \in Mutations, Ask(handler, kind)
    PROVE  CallInv' /\ ScreenInv' /\ row' = row
<1>1. /\ Press("phone", handler, kind, phone.session, phone.patch)
      /\ phone' = [phone EXCEPT !.busy = TRUE] /\ bridge' = bridge
  BY DEF Ask
<1>2. CallInv' /\ row' = row
  BY <1>1, PressSends, ScreenGives DEF Clients
<1>3. phone' \in PhoneState /\ phone'.session = phone.session /\ phone'.alert = phone.alert
  BY <1>1, ScreenGives DEF PhoneState
<1> QED
  BY <1>1, <1>2, <1>3, ScreenGives, ScreenShows

LEMMA RollbackKeeps ==
    ASSUME CallInv, ScreenInv, ConfirmRollback
    PROVE  CallInv' /\ ScreenInv' /\ row' = row
<1>1. /\ phone.alert # NoAlert /\ bridge' = bridge
      /\ Press("phone", "rollback", "rollback", phone.alert.view, phone.alert.patch)
      /\ phone' = [phone EXCEPT !.busy = TRUE, !.alert = NoAlert]
  BY DEF ConfirmRollback, NoAlertOpen
<1>2. CallInv' /\ row' = row
  <2> DEFINE view == phone.alert.view
             patch == phone.alert.patch
  <2>1. /\ Known(row, view) /\ view \in SessionView /\ patch \in PatchView
        /\ Press("phone", "rollback", "rollback", view, patch)
    BY <1>1, ScreenGives
  <2>2. "rollback" \in Changes /\ "phone" \in Clients
    BY DEF Clients, Changes
  <2>3. "rollback" \in Handlers /\ "rollback" \in Mutations
    BY DEF Handlers, Mutations
  <2> HIDE DEF view, patch
  <2> QED
    BY <2>1, <2>2, <2>3, PressSends
<1>3. phone' \in PhoneState /\ phone'.session = phone.session /\ phone'.alert = NoAlert
  BY <1>1, ScreenGives, NothingHeld DEF PhoneState, NoAlert
<1> QED
  BY <1>1, <1>2, <1>3, ScreenGives, ScreenShows

\* A read that the phone sends by itself.
LEMMA PhoneReads ==
    ASSUME CallInv
    PROVE  /\ LET c == Dashboard
              IN c \in Call /\ CallKnown(row, c) /\ c.press = 0 /\ c.stage = "answered"
                 /\ c.kind = "dashboard"
           /\ \A s \in DOMAIN row :
                LET c == Reconcile(s)
                IN c \in Call /\ CallKnown(row, c) /\ c.press = 0 /\ c.stage = "answered"
                   /\ c.kind = "session"
           /\ \A s \in DOMAIN row, kind \in {"session", "page"} :
                LET c == Read("phone", "open", kind, s)
                IN c \in Call /\ CallKnown(row, c) /\ c.press = 0 /\ c.stage = "answered"
                   /\ c.kind = kind
           /\ \A s \in DOMAIN row :
                LET c == Read("phone", "read", "patch", s)
                IN c \in Call /\ CallKnown(row, c) /\ c.press = 0 /\ c.stage = "answered"
                   /\ c.kind = "patch"
           /\ \A handler \in Handlers \ {"generate"} :
                LET c == Read("phone", handler, "list", 0)
                IN c \in Call /\ CallKnown(row, c) /\ c.press = 0 /\ c.stage = "answered"
                   /\ c.kind = "list"
<1>1. row \in Rows /\ 0 \notin DOMAIN row
  BY InvGives
<1>2. /\ "phone" \in Clients /\ {"dashboard", "reconcile", "open", "read"} \subseteq Handlers
      /\ {"session", "patch", "list", "dashboard", "page"} \subseteq Reads
  BY DEF Clients, Handlers, Reads
<1> USE DEF AskedBy, Fixes
<1>3. LET c == Dashboard
      IN c \in Call /\ CallKnown(row, c) /\ c.press = 0 /\ c.stage = "answered"
         /\ c.kind = "dashboard"
  BY <1>1, <1>2, ReadIs DEF Dashboard
<1>4. ASSUME NEW s \in DOMAIN row
      PROVE  LET c == Reconcile(s)
             IN c \in Call /\ CallKnown(row, c) /\ c.press = 0 /\ c.stage = "answered"
                /\ c.kind = "session"
  BY <1>1, <1>2, ReadIs DEF Reconcile
<1>5. ASSUME NEW s \in DOMAIN row, NEW kind \in {"session", "page"}
      PROVE  LET c == Read("phone", "open", kind, s)
             IN c \in Call /\ CallKnown(row, c) /\ c.press = 0 /\ c.stage = "answered"
                /\ c.kind = kind
  BY <1>1, <1>2, ReadIs
<1>6. ASSUME NEW s \in DOMAIN row
      PROVE  LET c == Read("phone", "read", "patch", s)
             IN c \in Call /\ CallKnown(row, c) /\ c.press = 0 /\ c.stage = "answered"
                /\ c.kind = "patch"
  BY <1>1, <1>2, ReadIs
<1>7. ASSUME NEW handler \in Handlers \ {"generate"}
      PROVE  LET c == Read("phone", handler, "list", 0)
             IN c \in Call /\ CallKnown(row, c) /\ c.press = 0 /\ c.stage = "answered"
                /\ c.kind = "list"
  BY <1>1, <1>2, ReadIs
<1> QED
  BY <1>3, <1>4, <1>5, <1>6, <1>7

\* A press only asks when the screen has what it asks about.
LEMMA AsksKeep ==
    ASSUME CallInv, ScreenInv,
           StartAnalysis \/ RequestPatch \/ Approve \/ Reject \/ RetryAnalysis \/ ChooseDemo
    PROVE  CallInv' /\ ScreenInv' /\ row' = row
<1>1. /\ {"start", "generate", "approve", "reject", "retry", "demo"} \subseteq Handlers
      /\ {"create", "generate", "approve", "reject", "analyze", "select", "prepare", "reset"}
           \subseteq Changes
      /\ {"create", "select", "prepare", "reset"} \cap Mutations = {}
      /\ "start" \notin Fixes /\ "demo" \notin Fixes
      /\ {"generate", "approve", "reject", "analyze"} \subseteq Mutations
  BY DEF Handlers, Changes, Mutations, Fixes
<1>2. phone.session.state \in {"ROOT_CAUSE_FOUND", "FAILED"} => phone.session # NoSession
  BY DEF NoSession
<1>3. CASE StartAnalysis
  BY <1>1, <1>3, AskKeeps DEF StartAnalysis
<1>4. CASE RequestPatch
  BY <1>1, <1>2, <1>4, AskKeeps DEF RequestPatch
<1>5. CASE Approve
  BY <1>1, <1>5, AskKeeps DEF Approve, ShowsDecision
<1>6. CASE Reject
  BY <1>1, <1>6, AskKeeps DEF Reject, ShowsDecision
<1>7. CASE RetryAnalysis
  BY <1>1, <1>2, <1>7, AskKeeps DEF RetryAnalysis
<1>8. CASE ChooseDemo
  <2>1. PICK kind \in {"select", "prepare", "reset"} : Ask("demo", kind)
    BY <1>8 DEF ChooseDemo
  <2>2. kind \in Changes /\ kind \notin Mutations
    BY <1>1
  <2> QED
    BY <1>1, <2>1, <2>2, AskKeeps
<1> QED
  BY <1>3, <1>4, <1>5, <1>6, <1>7, <1>8

\* Gestures that only look, or change nothing the agent hears of.
LEMMA AlertsKeep ==
    ASSUME CallInv, ScreenInv, OpenAlert \/ CancelAlert
    PROVE  CallInv' /\ ScreenInv' /\ row' = row
<1>1. UNCHANGED agentVars /\ row' = row /\ bridge' = bridge
  BY DEF OpenAlert, CancelAlert, agentVars
<1>2. CallInv'
  BY <1>1, SilenceKeeps
<1>3. /\ phone' \in PhoneState /\ phone'.session = phone.session
      /\ phone'.alert \in {phone.alert, NoAlert} \/ Known(row, phone'.alert.view)
  <2>1. CASE OpenAlert
    <3>1. /\ phone' = [phone EXCEPT !.alert = [view |-> phone.session, patch |-> phone.patch]]
          /\ phone.session # NoSession
      BY <2>1 DEF OpenAlert, OffersRollback
    <3>2. phone' \in PhoneState /\ phone'.session = phone.session
          /\ phone'.alert.view = phone.session
      BY <3>1, ScreenGives DEF PhoneState
    <3> QED
      BY <3>1, <3>2, ScreenGives
  <2>2. CASE CancelAlert
    <3>1. phone' = [phone EXCEPT !.alert = NoAlert]
      BY <2>2 DEF CancelAlert
    <3> QED
      BY <3>1, ScreenGives, NothingHeld DEF PhoneState, NoAlert
  <2> QED
    BY <2>1, <2>2
<1> QED
  BY <1>1, <1>2, <1>3, ScreenGives, ScreenShows

LEMMA OpenKeeps ==
    ASSUME CallInv, ScreenInv, NEW s \in Ids, OpenSession(s)
    PROVE  CallInv' /\ ScreenInv' /\ row' = row
<1> DEFINE c == Read("phone", "open", "page", s)
<1>1. /\ s \in DOMAIN row /\ Acts /\ calls' = calls \cup {c} /\ UNCHANGED agentRows
      /\ phone' = [phone EXCEPT !.busy = TRUE] /\ bridge' = bridge /\ row' = row
  BY DEF OpenSession, Gesture, agentRows
<1>2. c \in Call /\ CallKnown(row, c) /\ c.press = 0 /\ c.stage = "answered"
  BY <1>1, PhoneReads
<1> HIDE DEF c
<1>3. CallInv'
  <2> DEFINE N == {c}
  <2>1. calls' \subseteq calls \cup N
    BY <1>1
  <2>2. \A n \in N : n \in Call /\ CallKnown(row, n) /\ n.stage = "answered" /\ n.press = 0
    BY <1>2
  <2> HIDE DEF N
  <2> QED
    BY <1>1, <2>1, <2>2, GestureReads
<1>4. phone' \in PhoneState /\ phone'.session = phone.session /\ phone'.alert = phone.alert
  BY <1>1, ScreenGives DEF PhoneState
<1> QED
  BY <1>1, <1>3, <1>4, ScreenGives, ScreenShows

\* Leaving the session, asking again, and coming back to the foreground.
LEMMA GesturesKeep ==
    ASSUME CallInv, ScreenInv, NewSession \/ Reset \/ Refresh \/ Foreground
    PROVE  CallInv' /\ ScreenInv' /\ row' = row
<1> DEFINE N == {n \in Call : /\ CallKnown(row, n) /\ n.stage = "answered" /\ n.press = 0}
<1>1. Dashboard \in N /\ \A s \in DOMAIN row : Reconcile(s) \in N
  BY PhoneReads
<1>2. phone.session # NoSession => phone.session.id \in DOMAIN row
  BY ScreenGives DEF Known
<1>3. Acts /\ UNCHANGED agentRows /\ row' = row
  BY DEF NewSession, Reset, Refresh, Foreground, Gesture, agentRows
<1>4. calls' \subseteq calls \cup N
  <2>1. CASE NewSession
    BY <2>1 DEF NewSession
  <2>2. CASE Reset \/ Refresh
    BY <1>1, <2>2 DEF Reset, Refresh
  <2>3. CASE Foreground
    BY <1>1, <1>2, <2>3 DEF Foreground
  <2> QED
    BY <2>1, <2>2, <2>3
<1>5. \A n \in N : n \in Call /\ CallKnown(row, n) /\ n.stage = "answered" /\ n.press = 0
  OBVIOUS
<1> HIDE DEF N
<1>6. CallInv'
  BY <1>3, <1>4, <1>5, GestureReads
<1>7. phone' \in PhoneState /\ phone'.session \in {phone.session, NoSession}
      /\ phone'.alert = phone.alert
  <2>1. CASE NewSession
    BY <2>1, ScreenGives, PhoneMoves, NothingHeld DEF NewSession
  <2>2. CASE Reset
    <3> DEFINE p == Cleared(phone)
    <3>1. phone' = [p EXCEPT !.workspace = FALSE]
      BY <2>2 DEF Reset
    <3>2. p \in PhoneState /\ p.session = NoSession /\ p.alert = phone.alert
      BY ScreenGives, PhoneMoves, NothingHeld
    <3> HIDE DEF p
    <3> QED
      BY <3>1, <3>2 DEF PhoneState
  <2>3. CASE Refresh \/ Foreground
    BY <2>3, ScreenGives DEF Refresh, Foreground
  <2> QED
    BY <2>1, <2>2, <2>3
<1>8. /\ bridge' \in BridgeState
      /\ bridge'.stage # "off" => bridge'.session \in DOMAIN row
      /\ bridge'.stage = "snapshot" => Known(row, bridge'.view)
  <2>1. CASE NewSession \/ Reset
    BY <2>1, BridgeMoves DEF NewSession, Reset
  <2>2. CASE Refresh
    BY <2>2, ScreenGives DEF Refresh
  <2>3. CASE Foreground
    <3>1. CASE bridge.stage = "off"
      BY <2>3, <3>1, ScreenGives DEF Foreground
    <3>2. CASE bridge.stage # "off"
      <4>1. bridge' = [bridge EXCEPT !.stage = "opening"]
        BY <2>3, <3>2 DEF Foreground
      <4>2. bridge' \in BridgeState /\ bridge'.stage = "opening" /\ bridge'.session = bridge.session
        BY <4>1, ScreenGives DEF BridgeState
      <4> QED
        BY <3>2, <4>2, ScreenGives
    <3> QED
      BY <3>1, <3>2
  <2> QED
    BY <2>1, <2>2, <2>3
<1> QED
  BY <1>3, <1>6, <1>7, <1>8, ScreenShows

LEMMA PressesKeep ==
    ASSUME CallInv, ScreenInv, PhonePresses
    PROVE  CallInv' /\ ScreenInv' /\ row' = row
<1>1. CASE \E s \in Ids : OpenSession(s)
  BY <1>1, OpenKeeps
<1>2. CASE ~\E s \in Ids : OpenSession(s)
  BY <1>2, AsksKeep, AlertsKeep, RollbackKeeps, GesturesKeep DEF PhonePresses
<1> QED
  BY <1>1, <1>2

\* The bridge opens again, or brings a snapshot or word of events.
LEMMA BridgeKeeps ==
    ASSUME CallInv, ScreenInv, Reopened \/ SendSnapshot \/ TakeSnapshot \/ TakeEvents
    PROVE  CallInv' /\ ScreenInv' /\ row' = row
<1>1. /\ row \in Rows /\ row' = row /\ acts' \in 0..MaxActs
      /\ bridge.stage # "off" /\ bridge.session \in DOMAIN row
  <2>1. row \in Rows /\ row' = row
    BY InvGives DEF Reopened, SendSnapshot, TakeSnapshot, TakeEvents, agentRows, agentVars
  <2>2. bridge.stage # "off"
    BY DEF Reopened, SendSnapshot, TakeSnapshot, TakeEvents
  <2>3. acts' = acts \/ Acts
    BY DEF Reopened, SendSnapshot, TakeSnapshot, TakeEvents, agentVars
  <2>4. acts' \in 0..MaxActs
    <3>1. CASE acts' = acts
      BY <3>1 DEF CallInv, AgentTypeOK
    <3>2. CASE Acts
      BY <3>2, InvGives, AgentAssumption DEF Acts
    <3> QED
      BY <2>3, <3>1, <3>2
  <2> QED
    BY <2>1, <2>2, <2>4, ScreenGives
<1> DEFINE s == bridge.session
           b == bridge
<1>2. /\ b \in BridgeState /\ phone \in PhoneState
      /\ row[s].revision \in Nat
      /\ ViewOf(row, s) \in SessionView /\ Known(row, ViewOf(row, s))
      /\ PatchOf(row, s) \in PatchView
  BY <1>1, ScreenGives, ViewIs, RowAt DEF Rows
<1>3. CASE Reopened
  <2>1. /\ Acts /\ UNCHANGED agentRows /\ calls' = calls /\ phone' = phone
        /\ bridge' = [bridge EXCEPT !.stage = "opening", !.view = NoSession, !.patch = NoPatch]
    BY <1>3 DEF Reopened
  <2>2. CallInv'
    <3> DEFINE N == {}
    <3>1. calls' \subseteq calls \cup N
      BY <2>1
    <3>2. \A n \in N : FALSE
      OBVIOUS
    <3> HIDE DEF N
    <3> QED
      BY <2>1, <3>1, <3>2, GestureReads
  <2>3. bridge' \in BridgeState /\ bridge'.stage = "opening" /\ bridge'.session = s
    BY <1>2, <2>1, NothingHeld DEF BridgeState
  <2> QED
    BY <1>1, <1>2, <2>1, <2>2, <2>3, ScreenShows
<1>4. CASE SendSnapshot
  <2>1. /\ UNCHANGED agentVars /\ phone' = phone
        /\ bridge' = [bridge EXCEPT !.stage = "snapshot", !.upto = row[s].revision,
                        !.view = ViewOf(row, s), !.patch = PatchOf(row, s)]
    BY <1>4 DEF SendSnapshot
  <2>2. /\ bridge' \in BridgeState /\ bridge'.session = s /\ bridge'.view = ViewOf(row, s)
    <3> DEFINE v == ViewOf(row, s)
               q == PatchOf(row, s)
               u == row[s].revision
    <3>1. bridge' = [bridge EXCEPT !.stage = "snapshot", !.upto = u, !.view = v, !.patch = q]
      BY <2>1
    <3>2. v \in SessionView /\ q \in PatchView /\ u \in Nat
      BY <1>2
    <3> HIDE DEF v, q, u
    <3>3. bridge' \in BridgeState /\ bridge'.session = s /\ bridge'.view = v
      BY <1>2, <3>1, <3>2 DEF BridgeState
    <3> QED
      BY <3>3 DEF v
  <2> QED
    BY <1>1, <1>2, <2>1, <2>2, SilenceKeeps, ScreenShows
<1>5. CASE TakeSnapshot
  <2> DEFINE v == bridge.view
             q == bridge.patch
             n == Reconcile(s)
             d == Dispatched(bridge, v)
             p == WithSession(phone, v)
  <2>1. /\ UNCHANGED agentRows /\ acts' = acts /\ calls' = calls \cup {n}
        /\ bridge' = [d EXCEPT !.stage = "live", !.view = NoSession, !.patch = NoPatch]
        /\ phone' = WithPatch(p, q) /\ bridge.stage = "snapshot"
    BY <1>5 DEF TakeSnapshot
  <2>2. v \in SessionView /\ q \in PatchView /\ Known(row, v)
    BY <1>2, <2>1, ScreenGives DEF BridgeState
  <2>3. n \in Call /\ CallKnown(row, n) /\ n.press = 0 /\ n.stage = "answered"
        /\ n.kind = "session"
    BY <1>1, PhoneReads
  <2> HIDE DEF n, v, q
  <2>4. CallInv'
    <3> DEFINE N == {n}
    <3>1. calls' \subseteq calls \cup N /\ acts <= acts' /\ UNCHANGED <<row, faults, created>>
      BY <2>1, InvGives DEF agentRows
    <3>2. \A x \in N : x \in Call /\ CallKnown(row, x) /\ x.stage # "running"
                       /\ x.press <= acts' /\ ~Creating(x)
      BY <2>1, <2>3, InvGives DEF Creating
    <3> HIDE DEF N
    <3> QED
      BY <1>1, <3>1, <3>2, CallsReplaced
  <2>5. d \in BridgeState /\ d.session = s
    BY <1>2, <2>2, BridgeMoves
  <2>6. p \in PhoneState /\ p.session = v /\ p.alert = phone.alert
    BY <1>2, <2>2, PhoneMoves
  <2> HIDE DEF d, p
  <2>7. bridge' \in BridgeState /\ bridge'.session = s /\ bridge'.stage = "live"
    BY <2>1, <2>5, NothingHeld DEF BridgeState
  <2>8. phone' \in PhoneState /\ phone'.session = v /\ phone'.alert = phone.alert
    BY <2>1, <2>2, <2>6, PhoneMoves
  <2> QED
    BY <1>1, <2>2, <2>4, <2>7, <2>8, ScreenShows
<1>6. CASE TakeEvents
  <2> DEFINE n == Reconcile(s)
             u == row[s].revision
  <2>1. /\ UNCHANGED agentRows /\ acts' = acts /\ calls' = calls \cup {n} /\ phone' = phone
        /\ bridge' = [bridge EXCEPT !.upto = u] /\ bridge.stage = "live"
    BY <1>6 DEF TakeEvents
  <2>2. n \in Call /\ CallKnown(row, n) /\ n.press = 0 /\ n.stage = "answered"
        /\ n.kind = "session"
    BY <1>1, PhoneReads
  <2>3. u \in Nat
    BY <1>2
  <2> HIDE DEF n, u
  <2>4. CallInv'
    <3> DEFINE N == {n}
    <3>1. calls' \subseteq calls \cup N /\ acts <= acts' /\ UNCHANGED <<row, faults, created>>
      BY <2>1, InvGives DEF agentRows
    <3>2. \A x \in N : x \in Call /\ CallKnown(row, x) /\ x.stage # "running"
                       /\ x.press <= acts' /\ ~Creating(x)
      BY <2>1, <2>2, InvGives DEF Creating
    <3> HIDE DEF N
    <3> QED
      BY <1>1, <3>1, <3>2, CallsReplaced
  <2>5. bridge' \in BridgeState /\ bridge'.session = s /\ bridge'.stage = "live"
    BY <1>2, <2>1, <2>3 DEF BridgeState
  <2> QED
    BY <1>1, <1>2, <2>1, <2>4, <2>5, ScreenShows
<1> QED
  BY <1>3, <1>4, <1>5, <1>6

\* What an answer carries.
LEMMA AnswerGives ==
    ASSUME CallInv, NEW c \in calls, c.answer.ok
    PROVE  /\ c.answer.view \in SessionView /\ c.answer.patch \in PatchView
           /\ c.kind \in Mutations \cup {"create", "session", "page"} => Known(row, c.answer.view)
           /\ \A view \in Range(c.answer.rows) : view \in SessionView /\ Known(row, view)
           /\ c.handler \in Fixes /\ c.kind # "list" => c.kind \in Mutations
           /\ c.handler = "generate" => c.kind \in Mutations
           /\ c.handler \in Fixes /\ c.client = "desktop" => c.kind \in Mutations
           /\ c.kind = "session" => c.handler \in {"reconcile", "open"}
<1>1. c \in Call /\ CallKnown(row, c) /\ c.answer \in Answers
  BY InvGives
<1>2. /\ c.answer.view \in SessionView /\ c.answer.patch \in PatchView
      /\ c.answer.rows \in Seq(SessionView)
  BY <1>1 DEF Answers
<1>3. \A view \in Range(c.answer.rows) : view \in SessionView /\ Known(row, view)
  <2>1. \A i \in DOMAIN c.answer.rows :
          c.answer.rows[i] \in SessionView /\ Known(row, c.answer.rows[i])
    BY <1>1, <1>2 DEF CallKnown
  <2> QED
    BY <2>1 DEF Range
<1> QED
  BY <1>1, <1>2, <1>3 DEF CallKnown, AskedBy, Fixes

\* A handler that takes an answer and asks for the history.
LEMMA HistoryFollows ==
    ASSUME CallInv, NEW c \in calls, Handled(c, {History(c)}), c.handler # "generate"
    PROVE  CallInv' /\ row' = row
<1> DEFINE n == History(c)
           next == {n}
<1>1. c.handler \in Handlers
  BY InvGives
<1>2. n \in Call /\ CallKnown(row, n) /\ n.press = 0 /\ n.stage = "answered" /\ n.kind = "list"
  <2> DEFINE handler == c.handler
  <2>1. handler \in Handlers \ {"generate"} /\ n = Read("phone", handler, "list", 0)
    BY <1>1 DEF History
  <2> HIDE DEF handler, n
  <2> QED
    BY <2>1, PhoneReads
<1> HIDE DEF n
<1>3. \A x \in next : /\ x \in Call /\ CallKnown(row, x) /\ x.stage # "running"
                      /\ x.press = 0 \/ x.press = c.press
                      /\ x.kind # "create"
  BY <1>2
<1>4. Handled(c, next)
  BY DEF n
<1> HIDE DEF next
<1> QED
  BY <1>3, <1>4, HandlerSends

LEMMA NothingFollows ==
    ASSUME CallInv, NEW c \in calls, Handled(c, {})
    PROVE  CallInv' /\ row' = row
<1> DEFINE next == {}
<1>1. \A n \in next : FALSE
  OBVIOUS
<1>2. Handled(c, next)
  OBVIOUS
<1> HIDE DEF next
<1> QED
  BY <1>1, <1>2, HandlerSends

LEMMA ChangeFollows ==
    ASSUME CallInv, NEW c \in calls, c.client \in Clients, c.stage = "answered", c.answer.ok,
           c.kind \in {"create", "capture"}, NEW kind \in Mutations,
           Handled(c, {Following(c, kind, c.answer.view)})
    PROVE  CallInv' /\ row' = row
<1> DEFINE n == Following(c, kind, c.answer.view)
           next == {n}
<1>1. n \in Call /\ CallKnown(row, n) /\ n.stage = "sent" /\ n.press = c.press /\ n.kind = kind
  BY FollowingIs
<1> HIDE DEF n
<1>2. \A x \in next : /\ x \in Call /\ CallKnown(row, x) /\ x.stage # "running"
                      /\ x.press = 0 \/ x.press = c.press
                      /\ x.kind # "create"
  BY <1>1 DEF Mutations
<1>3. Handled(c, next)
  BY DEF n
<1> HIDE DEF next
<1> QED
  BY <1>2, <1>3, HandlerSends

\* A read that follows an answer.
LEMMA ReadFollows ==
    ASSUME CallInv, NEW c \in calls, NEW n, n \in Call, CallKnown(row, n),
           n.press = 0, n.stage = "answered", n.kind # "create", Handled(c, {n}) \/ Handled(c, {})
    PROVE  CallInv' /\ row' = row
<1> DEFINE next == {n}
<1>1. \A x \in next : /\ x \in Call /\ CallKnown(row, x) /\ x.stage # "running"
                      /\ x.press = 0 \/ x.press = c.press
                      /\ x.kind # "create"
  OBVIOUS
<1>2. Handled(c, next) \/ Handled(c, {})
  OBVIOUS
<1> HIDE DEF next
<1> QED
  BY <1>1, <1>2, HandlerSends, NothingFollows

LEMMA StartKeeps ==
    ASSUME CallInv, ScreenInv, NEW c \in calls, c.client = "phone", c.stage = "answered",
           StartAnswered(c)
    PROVE  CallInv' /\ ScreenInv' /\ row' = row
<1> DEFINE v == c.answer.view
<1>1. c.answer.ok /\ c.handler = "start" /\ c.client \in Clients
  BY DEF StartAnswered, Clients
<1>2. v \in SessionView /\ (c.kind \in {"create", "capture", "analyze"} => Known(row, v))
  BY <1>1, AnswerGives DEF Mutations
<1>3. "capture" \in Mutations /\ "analyze" \in Mutations
  BY DEF Mutations
<1>4. CASE c.kind = "create"
  <2>1. /\ Handled(c, {Following(c, "capture", c.answer.view)})
        /\ phone' = phone /\ bridge' = bridge
    BY <1>4 DEF StartAnswered, View
  <2>2. CallInv' /\ row' = row
    BY <1>1, <1>3, <1>4, <2>1, ChangeFollows
  <2> QED
    BY <2>1, <2>2, ScreenGives, ScreenShows
<1>5. CASE c.kind = "capture"
  <2>1. /\ Handled(c, {Following(c, "analyze", c.answer.view)})
        /\ phone' = WithSession(phone, v) /\ bridge' = Connected(v)
    BY <1>5 DEF StartAnswered, View
  <2>2. CallInv' /\ row' = row
    BY <1>1, <1>3, <1>5, <2>1, ChangeFollows
  <2> HIDE DEF v
  <2>3. phone' \in PhoneState /\ phone'.session = v /\ phone'.alert = phone.alert
    BY <1>2, <2>1, ScreenGives, PhoneMoves
  <2>4. bridge' \in BridgeState /\ bridge'.stage = "opening" /\ bridge'.session = v.id
    BY <1>2, <2>1, BridgeMoves
  <2> QED
    BY <1>2, <1>5, <2>2, <2>3, <2>4, ScreenShows DEF Known
<1>6. CASE c.kind = "analyze"
  <2>1. /\ Handled(c, {History(c)})
        /\ phone' = WithSession(phone, v) /\ bridge' = Dispatched(bridge, v)
    BY <1>6 DEF StartAnswered, View
  <2>2. CallInv' /\ row' = row
    BY <1>1, <2>1, HistoryFollows
  <2> HIDE DEF v
  <2>3. phone' \in PhoneState /\ phone'.session = v /\ phone'.alert = phone.alert
    BY <1>2, <2>1, ScreenGives, PhoneMoves
  <2>4. /\ bridge' \in BridgeState /\ bridge'.stage = bridge.stage
        /\ bridge'.session = bridge.session /\ bridge'.view = bridge.view
    BY <1>2, <2>1, ScreenGives, BridgeMoves
  <2> QED
    BY <1>2, <1>6, <2>2, <2>3, <2>4, ScreenGives, ScreenShows
<1> QED
  BY <1>4, <1>5, <1>6 DEF StartAnswered

LEMMA ResultKeeps ==
    ASSUME CallInv, ScreenInv, NEW c \in calls, c.client = "phone", c.stage = "answered",
           GenerateAnswered(c) \/ ResultAnswered(c)
    PROVE  CallInv' /\ ScreenInv' /\ row' = row
<1> DEFINE v == c.answer.view
<1>1. c.answer.ok
  BY DEF GenerateAnswered, ResultAnswered
<1>2. c.kind \in Mutations
  BY <1>1, AnswerGives DEF GenerateAnswered, ResultAnswered, Fixes
<1>3. v \in SessionView /\ Known(row, v) /\ c.answer.patch \in PatchView
  BY <1>1, <1>2, AnswerGives
<1>4. PICK q \in PatchView :
        /\ phone' \in {Idle(WithPatch(WithSession(phone, v), q)),
                       WithPatch(WithSession(phone, v), q)}
        /\ bridge' = Dispatched(bridge, v)
  <2>1. CASE GenerateAnswered(c)
    BY <1>3, <2>1 DEF GenerateAnswered, View, Patch
  <2>2. CASE ResultAnswered(c)
    BY <1>3, <2>2, NothingHeld DEF ResultAnswered, View, Patch
  <2> QED
    BY <2>1, <2>2
<1>5. CallInv' /\ row' = row
  <2>1. CASE GenerateAnswered(c)
    BY <2>1, NothingFollows DEF GenerateAnswered
  <2>2. CASE ResultAnswered(c)
    BY <2>2, HistoryFollows DEF ResultAnswered
  <2> QED
    BY <2>1, <2>2
<1> HIDE DEF v
<1>6. phone' \in PhoneState /\ phone'.session = v /\ phone'.alert = phone.alert
  <2> DEFINE p == WithSession(phone, v)
             d == WithPatch(p, q)
  <2>1. p \in PhoneState /\ p.session = v /\ p.alert = phone.alert
    BY <1>3, ScreenGives, PhoneMoves
  <2>2. phone' \in {Idle(d), d}
    BY <1>4
  <2> HIDE DEF p
  <2>3. d \in PhoneState /\ d.session = v /\ d.alert = phone.alert
    BY <1>3, <2>1, PhoneMoves
  <2> HIDE DEF d
  <2>4. Idle(d) \in PhoneState /\ Idle(d).session = v /\ Idle(d).alert = phone.alert
    BY <1>3, <2>3, PhoneMoves
  <2> QED
    BY <2>2, <2>3, <2>4
<1>7. /\ bridge' \in BridgeState /\ bridge'.stage = bridge.stage
      /\ bridge'.session = bridge.session /\ bridge'.view = bridge.view
  BY <1>3, <1>4, ScreenGives, BridgeMoves
<1> QED
  BY <1>3, <1>5, <1>6, <1>7, ScreenGives, ScreenShows

\* The answers that put no session on the screen.
LEMMA EmptyAnswerKeeps ==
    ASSUME CallInv, ScreenInv, NEW c \in calls, c.client = "phone", c.stage = "answered",
           HistoryAnswered(c) \/ DemoAnswered(c) \/ ReadAnswered(c) \/ FailureAnswered(c)
    PROVE  CallInv' /\ ScreenInv' /\ row' = row
<1>1. CallInv' /\ row' = row
  BY NothingFollows DEF HistoryAnswered, DemoAnswered, ReadAnswered, FailureAnswered, GivesUp
<1>2. /\ phone' \in PhoneState /\ phone'.session \in {phone.session, NoSession}
      /\ phone'.alert = phone.alert
  <2>1. CASE phone' = phone
    BY <2>1, ScreenGives
  <2>2. CASE phone' = Idle(phone)
    BY <2>2, ScreenGives, PhoneMoves, NothingHeld
  <2>3. CASE DemoAnswered(c)
    <3> DEFINE p == Cleared(phone)
    <3>1. p \in PhoneState /\ p.session = NoSession /\ p.alert = phone.alert
      BY ScreenGives, PhoneMoves, NothingHeld
    <3>2. PICK w \in BOOLEAN : phone' = Idle([p EXCEPT !.workspace = w])
      <4>1. phone' = Idle([p EXCEPT !.workspace = p.workspace \/ c.kind # "reset"])
        BY <2>3 DEF DemoAnswered
      <4> QED
        BY <4>1
    <3> HIDE DEF p
    <3> DEFINE d == [p EXCEPT !.workspace = w]
    <3>3. d \in PhoneState /\ d.session = NoSession /\ d.alert = phone.alert
      BY <3>1 DEF PhoneState
    <3> HIDE DEF d
    <3> QED
      BY <3>2, <3>3, PhoneMoves, NothingHeld DEF d
  <2>4. CASE ReadAnswered(c)
    <3> DEFINE q == c.answer.patch
    <3>1. q \in PatchView /\ phone' = WithPatch(phone, q)
      BY <2>4, AnswerGives DEF ReadAnswered, Patch
    <3> HIDE DEF q
    <3> QED
      BY <3>1, ScreenGives, PhoneMoves, NothingHeld
  <2> QED
    BY <2>1, <2>2, <2>3, <2>4
    DEF HistoryAnswered, FailureAnswered, GivesUp, phoneVars
<1>3. bridge' \in {bridge, Off}
  BY DEF HistoryAnswered, DemoAnswered, ReadAnswered, FailureAnswered, GivesUp, phoneVars
<1> QED
  BY <1>1, <1>2, <1>3, ScreenGives, BridgeMoves, ScreenShows

LEMMA OpenedKeeps ==
    ASSUME CallInv, ScreenInv, NEW c \in calls, c.client = "phone", c.stage = "answered",
           OpenAnswered(c)
    PROVE  CallInv' /\ ScreenInv' /\ row' = row
<1> DEFINE v == c.answer.view
           n == Read("phone", "open", "session", v.id)
<1>1. /\ c.answer.ok /\ c.kind = "page" /\ Handled(c, {n})
      /\ phone' = WithSession(phone, v) /\ bridge' = Connected(v)
  BY DEF OpenAnswered, View
<1>2. v \in SessionView /\ Known(row, v) /\ v.id \in DOMAIN row
  BY <1>1, AnswerGives DEF Known
<1> HIDE DEF v
<1>3. n \in Call /\ CallKnown(row, n) /\ n.press = 0 /\ n.stage = "answered"
      /\ n.kind # "create"
  BY <1>2, PhoneReads
<1> HIDE DEF n
<1>4. CallInv' /\ row' = row
  BY <1>1, <1>3, ReadFollows
<1>5. phone' \in PhoneState /\ phone'.session = v /\ phone'.alert = phone.alert
  BY <1>1, <1>2, ScreenGives, PhoneMoves, NothingHeld
<1>6. bridge' \in BridgeState /\ bridge'.stage = "opening" /\ bridge'.session = v.id
  BY <1>1, <1>2, BridgeMoves
<1> QED
  BY <1>2, <1>4, <1>5, <1>6, ScreenShows

LEMMA ReconcileKeeps ==
    ASSUME CallInv, ScreenInv, NEW c \in calls, c.client = "phone", c.stage = "answered",
           ReconcileAnswered(c)
    PROVE  CallInv' /\ ScreenInv' /\ row' = row
<1> DEFINE v == c.answer.view
           n == Read("phone", "read", "patch", v.id)
<1>1. /\ c.answer.ok /\ c.kind = "session"
      /\ Handled(c, {n}) \/ Handled(c, {})
      /\ phone' \in {Idle(WithSession(phone, v)), WithSession(phone, v)}
      /\ bridge' = Dispatched(bridge, v)
  BY DEF ReconcileAnswered, View
<1>2. v \in SessionView /\ Known(row, v) /\ v.id \in DOMAIN row
  BY <1>1, AnswerGives DEF Known
<1> HIDE DEF v
<1>3. n \in Call /\ CallKnown(row, n) /\ n.press = 0 /\ n.stage = "answered"
      /\ n.kind # "create"
  BY <1>2, PhoneReads
<1> HIDE DEF n
<1>4. CallInv' /\ row' = row
  BY <1>1, <1>3, ReadFollows
<1>5. phone' \in PhoneState /\ phone'.session = v /\ phone'.alert = phone.alert
  <2> DEFINE p == WithSession(phone, v)
  <2>1. p \in PhoneState /\ p.session = v /\ p.alert = phone.alert
    BY <1>2, ScreenGives, PhoneMoves, NothingHeld
  <2>2. phone' \in {Idle(p), p}
    BY <1>1
  <2> HIDE DEF p
  <2> QED
    BY <1>2, <2>1, <2>2, PhoneMoves, NothingHeld
<1>6. /\ bridge' \in BridgeState /\ bridge'.stage = bridge.stage
      /\ bridge'.session = bridge.session /\ bridge'.view = bridge.view
  BY <1>1, <1>2, ScreenGives, BridgeMoves
<1> QED
  BY <1>2, <1>4, <1>5, <1>6, ScreenGives, ScreenShows

LEMMA DashboardKeeps ==
    ASSUME CallInv, ScreenInv, NEW c \in calls, c.client = "phone", c.stage = "answered",
           DashboardAnswered(c)
    PROVE  CallInv' /\ ScreenInv' /\ row' = row
<1> DEFINE p == [phone EXCEPT !.workspace = TRUE, !.resumed = TRUE]
<1>1. p \in PhoneState /\ p.session = phone.session /\ p.alert = phone.alert
  BY ScreenGives DEF PhoneState
<1>2. \/ phone' = p /\ bridge' = bridge /\ Handled(c, {})
      \/ \E view \in Range(c.answer.rows) :
           phone' = WithSession(p, view) /\ bridge' = Connected(view)
             /\ Handled(c, {Reconcile(view.id)})
  BY DEF DashboardAnswered
<1>3. c.answer.ok
  BY DEF DashboardAnswered
<1> HIDE DEF p
<1>4. CASE phone' = p /\ bridge' = bridge /\ Handled(c, {})
  <2>1. CallInv' /\ row' = row
    BY <1>4, NothingFollows
  <2> QED
    BY <1>1, <1>4, <2>1, ScreenGives, ScreenShows
<1>5. ASSUME NEW v \in Range(c.answer.rows), phone' = WithSession(p, v), bridge' = Connected(v),
             Handled(c, {Reconcile(v.id)})
      PROVE  CallInv' /\ ScreenInv' /\ row' = row
  <2> DEFINE n == Reconcile(v.id)
  <2>1. v \in SessionView /\ Known(row, v) /\ v.id \in DOMAIN row
    BY <1>3, AnswerGives DEF Known
  <2>2. n \in Call /\ CallKnown(row, n) /\ n.press = 0 /\ n.stage = "answered"
        /\ n.kind # "create"
    BY <2>1, PhoneReads
  <2>3. Handled(c, {n})
    BY <1>5
  <2> HIDE DEF n
  <2>4. CallInv' /\ row' = row
    BY <2>2, <2>3, ReadFollows
  <2>5. phone' \in PhoneState /\ phone'.session = v /\ phone'.alert = phone.alert
    BY <1>1, <1>5, <2>1, PhoneMoves, NothingHeld
  <2>6. bridge' \in BridgeState /\ bridge'.stage = "opening" /\ bridge'.session = v.id
    BY <1>5, <2>1, BridgeMoves
  <2> QED
    BY <2>1, <2>4, <2>5, <2>6, ScreenShows
<1> QED
  BY <1>2, <1>4, <1>5

LEMMA PhoneKeeps ==
    ASSUME CallInv, ScreenInv, Phone
    PROVE  CallInv' /\ ScreenInv' /\ row' = row
<1>1. CASE \E c \in calls : PhoneAnswers(c)
  <2>1. PICK c \in calls : PhoneAnswers(c)
    BY <1>1
  <2> QED
    BY <2>1, StartKeeps, ResultKeeps, EmptyAnswerKeeps, OpenedKeeps, ReconcileKeeps, DashboardKeeps
    DEF PhoneAnswers
<1> QED
  BY <1>1, PressesKeep, BridgeKeeps DEF Phone

-----------------------------------------------------------------------------

(* The desktop.                                                            *)

DeskState == [session: SessionView, patch: PatchView, analysis: BOOLEAN,
              busy: BOOLEAN, workspace: BOOLEAN]

\* What the panel may show while the rows stay.
LEMMA DeskShows ==
    ASSUME DeskInv, row' = row, desk' \in DeskState,
           desk'.session \in {desk.session, NoSession} \/ Known(row, desk'.session)
    PROVE  DeskInv'
BY DEF DeskInv, DeskTypeOK, DeskState, Held

LEMMA DeskGives ==
    ASSUME DeskInv
    PROVE  /\ desk \in DeskState /\ desk.session \in SessionView /\ desk.patch \in PatchView
           /\ desk.session # NoSession => Known(row, desk.session)
BY DEF DeskInv, DeskTypeOK, DeskState, Held

LEMMA SendsKeeps ==
    ASSUME CallInv, DeskInv, NEW handler \in Handlers, NEW kind \in Changes,
           kind \in Mutations => desk.session # NoSession,
           handler \in Fixes => kind \in Mutations,
           NEW shown \in DeskState, shown.session = desk.session, Sends(handler, kind, shown)
    PROVE  CallInv' /\ DeskInv' /\ row' = row
<1>1. /\ Press("desktop", handler, kind, desk.session, desk.patch)
      /\ desk' = [shown EXCEPT !.busy = TRUE]
  BY DEF Sends
<1>2. CallInv' /\ row' = row
  BY <1>1, PressSends, DeskGives DEF Clients
<1>3. desk' \in DeskState /\ desk'.session = desk.session
  BY <1>1 DEF DeskState
<1> QED
  BY <1>2, <1>3, DeskShows

LEMMA DeskPressesKeep ==
    ASSUME CallInv, DeskInv, DeskPresses
    PROVE  CallInv' /\ DeskInv' /\ row' = row
<1>1. /\ {"analyze", "generate", "approve", "reject", "rollback", "retry", "demo", "other",
          "inspect"} \subseteq Handlers
      /\ {"create", "generate", "approve", "reject", "rollback", "analyze", "select", "reset",
          "other"} \subseteq Changes
      /\ {"create", "select", "reset", "other"} \cap Mutations = {}
      /\ {"analyze", "demo", "other", "inspect"} \cap Fixes = {}
      /\ {"generate", "approve", "reject", "rollback", "analyze"} \subseteq Mutations
  BY DEF Handlers, Changes, Mutations, Fixes
<1>2. desk \in DeskState
  BY DeskGives
<1>3. CASE AnalyzeError
  <2> DEFINE shown == [desk EXCEPT !.analysis = FALSE, !.patch = NoPatch]
  <2>1. shown \in DeskState /\ shown.session = desk.session
    BY <1>2, NothingHeld DEF DeskState
  <2>2. Sends("analyze", "create", shown)
    BY <1>3 DEF AnalyzeError
  <2> HIDE DEF shown
  <2> QED
    BY <1>1, <2>1, <2>2, SendsKeeps
<1>4. CASE GenerateFix
  BY <1>1, <1>2, <1>4, SendsKeeps DEF GenerateFix
<1>5. CASE DecidePatch
  <2>1. PICK action \in {"approve", "reject"} : Sends(action, action, desk)
    BY <1>5 DEF DecidePatch
  <2>2. action \in Handlers /\ action \in Changes /\ action \in Mutations
    BY <1>1, <2>1
  <2> QED
    BY <1>2, <1>5, <2>1, <2>2, SendsKeeps DEF DecidePatch
<1>6. CASE RollbackPatch
  BY <1>1, <1>2, <1>6, SendsKeeps DEF RollbackPatch
<1>7. CASE RetryFix
  <2>1. desk.session # NoSession
    BY <1>7 DEF RetryFix, NoSession
  <2> QED
    BY <1>1, <1>2, <1>7, <2>1, SendsKeeps DEF RetryFix
<1>8. CASE DeskDemo
  <2>1. PICK kind \in {"select", "reset"} : Sends("demo", kind, desk)
    BY <1>8 DEF DeskDemo
  <2>2. kind \in Changes /\ kind \notin Mutations
    BY <1>1
  <2> QED
    BY <1>1, <1>2, <2>1, <2>2, SendsKeeps
<1>9. CASE DeskOther
  BY <1>1, <1>2, <1>9, SendsKeeps DEF DeskOther
<1>10. CASE InspectWorkspace
  BY <1>1, <1>2, <1>10, SendsKeeps DEF InspectWorkspace
<1> QED
  BY <1>3, <1>4, <1>5, <1>6, <1>7, <1>8, <1>9, <1>10 DEF DeskPresses

\* After a demo was reset, the one that is selected is selected again.
LEMMA ReselectFollows ==
    ASSUME CallInv, NEW c \in calls, c.client = "desktop",
           Handled(c, {[Following(c, "select", NoSession) EXCEPT !.handler = "reselect"]})
    PROVE  CallInv' /\ row' = row
<1> DEFINE n == Request(c.client, "reselect", "select", c.press, NoSession, c.patch)
           next == {n}
<1>1. [Following(c, "select", NoSession) EXCEPT !.handler = "reselect"] = n
  BY DEF Following, Request
<1>2. n \in Call /\ CallKnown(row, n) /\ n.press = c.press /\ n.stage = "sent"
      /\ n.kind = "select"
  <2> DEFINE client == c.client
             press == c.press
             patch == c.patch
  <2>1. client \in Clients /\ press \in Nat /\ patch \in PatchView
    BY InvGives DEF Clients
  <2>2. /\ "reselect" \in Handlers /\ "select" \in Changes /\ "select" \notin Mutations
        /\ AskedBy(client, "reselect", "select")
    BY DEF Handlers, Changes, Mutations, AskedBy, Fixes
  <2>3. n = Request(client, "reselect", "select", press, NoSession, patch)
    OBVIOUS
  <2> HIDE DEF client, press, n, patch
  <2>4. n \in Call /\ CallKnown(row, n) /\ n.press = press /\ n.stage = "sent"
        /\ n.kind = "select"
    BY <2>1, <2>2, <2>3, RequestIs, NothingHeld
  <2> QED
    BY <2>4 DEF press
<1>3. Handled(c, next)
  BY <1>1
<1> HIDE DEF n
<1>4. \A x \in next : /\ x \in Call /\ CallKnown(row, x) /\ x.stage # "running"
                      /\ x.press = 0 \/ x.press = c.press
                      /\ x.kind # "create"
  BY <1>2
<1> HIDE DEF next
<1> QED
  BY <1>3, <1>4, HandlerSends

LEMMA AnalyzedKeeps ==
    ASSUME CallInv, DeskInv, NEW c \in calls, c.client = "desktop", c.stage = "answered",
           AnalyzeAnswered(c)
    PROVE  CallInv' /\ DeskInv' /\ row' = row
<1>1. /\ c.answer.ok /\ c.client \in Clients
      /\ "capture" \in Mutations /\ "analyze" \in Mutations
  BY DEF AnalyzeAnswered, Clients, Mutations
<1>2. CASE c.kind \in {"create", "capture"}
  <2>1. PICK kind \in {"capture", "analyze"} :
          Handled(c, {Following(c, kind, c.answer.view)}) /\ desk' = desk
    BY <1>2 DEF AnalyzeAnswered, DeskView
  <2>2. CallInv' /\ row' = row
    BY <1>1, <1>2, <2>1, ChangeFollows
  <2> QED
    BY <2>1, <2>2, DeskGives, DeskShows
<1>3. CASE c.kind = "analyze"
  <2> DEFINE v == c.answer.view
  <2>1. /\ Handled(c, {})
        /\ desk' = Free([desk EXCEPT !.session = v, !.analysis = TRUE])
    BY <1>3 DEF AnalyzeAnswered, DeskView
  <2>2. v \in SessionView /\ Known(row, v)
    BY <1>1, <1>3, AnswerGives
  <2> HIDE DEF v
  <2>3. desk' \in DeskState /\ desk'.session = v
    BY <2>1, <2>2, DeskGives DEF DeskState, Free
  <2> QED
    BY <2>1, <2>2, <2>3, NothingFollows, DeskShows
<1> QED
  BY <1>2, <1>3 DEF AnalyzeAnswered

LEMMA FixKeeps ==
    ASSUME CallInv, DeskInv, NEW c \in calls, c.client = "desktop", c.stage = "answered",
           FixAnswered(c)
    PROVE  CallInv' /\ DeskInv' /\ row' = row
<1> DEFINE v == c.answer.view
           q == c.answer.patch
<1>1. /\ c.answer.ok /\ Handled(c, {}) /\ c.handler \in Fixes
      /\ desk' = Free(IF c.kind = "analyze"
                      THEN [desk EXCEPT !.session = v, !.analysis = TRUE, !.patch = NoPatch]
                      ELSE [desk EXCEPT !.session = v, !.patch = q])
  BY DEF FixAnswered, DeskView, DeskPatch, Fixes
<1>2. v \in SessionView /\ Known(row, v) /\ q \in PatchView
  BY <1>1, AnswerGives
<1> HIDE DEF v, q
<1>3. desk' \in DeskState /\ desk'.session = v
  <2>1. CASE c.kind = "analyze"
    BY <1>1, <1>2, <2>1, DeskGives, NothingHeld DEF DeskState, Free
  <2>2. CASE c.kind # "analyze"
    BY <1>1, <1>2, <2>2, DeskGives DEF DeskState, Free
  <2> QED
    BY <2>1, <2>2
<1> QED
  BY <1>1, <1>2, <1>3, NothingFollows, DeskShows

LEMMA DemoKeeps ==
    ASSUME CallInv, DeskInv, NEW c \in calls, c.client = "desktop", c.stage = "answered",
           DeskDemoAnswered(c)
    PROVE  CallInv' /\ DeskInv' /\ row' = row
<1> DEFINE e == Empty(desk)
<1>1. e \in DeskState /\ e.session = NoSession
  BY DeskGives, NothingHeld DEF DeskState, Empty
<1>2. CASE Handled(c, {}) /\ desk' = Free([e EXCEPT !.workspace = @ \/ c.kind # "reset"])
  <2>1. PICK w \in BOOLEAN : desk' = Free([e EXCEPT !.workspace = w])
    <3>1. desk' = Free([e EXCEPT !.workspace = e.workspace \/ c.kind # "reset"])
      BY <1>2
    <3> QED
      BY <3>1
  <2> HIDE DEF e
  <2>2. desk' \in DeskState /\ desk'.session = NoSession
    BY <1>1, <2>1 DEF DeskState, Free
  <2> QED
    BY <1>2, <2>2, NothingFollows, DeskShows
<1>3. CASE /\ desk' = e
           /\ Handled(c, {[Following(c, "select", NoSession) EXCEPT !.handler = "reselect"]})
  <2> HIDE DEF e
  <2> QED
    BY <1>1, <1>3, ReselectFollows, DeskShows
<1>4. CASE Handled(c, {}) /\ desk' = Free([desk EXCEPT !.workspace = TRUE])
  <2>1. desk' \in DeskState /\ desk'.session = desk.session
    BY <1>4, DeskGives DEF DeskState, Free
  <2> QED
    BY <1>4, <2>1, NothingFollows, DeskShows
<1> QED
  BY <1>2, <1>3, <1>4 DEF DeskDemoAnswered

LEMMA DeskAnswersKeep ==
    ASSUME CallInv, DeskInv, NEW c \in calls, DeskAnswers(c)
    PROVE  CallInv' /\ DeskInv' /\ row' = row
<1>1. CASE InspectAnswered(c) \/ DeskFailed(c)
  <2>1. Handled(c, {})
    BY <1>1 DEF InspectAnswered, DeskFailed
  <2>2. c.answer.ok \in BOOLEAN
    BY InvGives DEF Answers
  <2>3. desk' \in DeskState /\ desk'.session = desk.session
    <3>1. CASE InspectAnswered(c)
      <4>1. PICK w \in BOOLEAN : desk' = Free([desk EXCEPT !.workspace = w])
        <5>1. desk.workspace \in BOOLEAN
          BY DeskGives DEF DeskState
        <5>2. desk' = Free([desk EXCEPT !.workspace = IF c.handler = "inspect" THEN c.answer.ok
                                                      ELSE desk.workspace])
          BY <3>1, DeskGives DEF InspectAnswered, DeskState
        <5> QED
          BY <2>2, <5>1, <5>2
      <4> QED
        BY <4>1, DeskGives DEF DeskState, Free
    <3>2. CASE DeskFailed(c)
      BY <3>2, DeskGives DEF DeskState, Free, DeskFailed
    <3> QED
      BY <1>1, <3>1, <3>2
  <2> QED
    BY <2>1, <2>3, NothingFollows, DeskShows
<1> QED
  BY <1>1, AnalyzedKeeps, FixKeeps, DemoKeeps DEF DeskAnswers

LEMMA DesktopKeeps ==
    ASSUME CallInv, DeskInv, Desktop
    PROVE  CallInv' /\ DeskInv' /\ row' = row
BY DeskPressesKeep, DeskAnswersKeep DEF Desktop

-----------------------------------------------------------------------------
(* The whole.                                                              *)

LEMMA DashStart == Init => DashInv
<1> SUFFICES ASSUME Init PROVE DashInv
  OBVIOUS
<1>1. /\ row \in Existing /\ faults = 0 /\ acts = 0 /\ created = {} /\ calls = {Dashboard}
      /\ PhoneInit /\ DeskInit
  BY DEF Init, AgentInit
<1>2. row \in Seq(Row) /\ Len(row) <= MaxSessions /\ row \in Rows
  BY <1>1, AgentAssumption DEF Rows
<1>3. 0 \notin DOMAIN row /\ DOMAIN row = 1..Len(row) /\ Len(row) \in Nat
  BY <1>2
<1> DEFINE c == Dashboard
<1>4. c \in Call /\ CallKnown(row, c) /\ c.press = 0 /\ c.stage = "answered" /\ c.kind = "dashboard"
  <2>1. /\ "phone" \in Clients /\ "dashboard" \in Handlers /\ "dashboard" \in Reads
        /\ AskedBy("phone", "dashboard", "dashboard")
    BY DEF Clients, Handlers, Reads, AskedBy, Fixes
  <2> QED
    BY <1>2, <2>1, ReadIs DEF Dashboard
<1>5. calls = {c}
  BY <1>1
<1> HIDE DEF c
<1>6. AgentTypeOK
  BY <1>1, <1>2, <1>4, <1>5, AgentAssumption DEF AgentTypeOK
<1>7. CallsKnown /\ OneWorks /\ PressesOnce /\ OnePressOneSession
  BY <1>1, <1>4, <1>5 DEF CallsKnown, OneWorks, PressesOnce, Creating, OnePressOneSession
<1>8. ScreenInv
  BY <1>1, NothingHeld DEF PhoneInit, ScreenInv, PhoneTypeOK, Held, Off, NoAlert
<1>9. DeskInv
  <2>1. CASE row = <<>>
    BY <1>1, <2>1, NothingHeld DEF DeskInit, DeskInv, DeskTypeOK, Held
  <2>2. CASE row # <<>>
    <3>1. 1 \in DOMAIN row
      BY <1>2, <1>3, <2>2
    <3> DEFINE v == ViewOf(row, 1)
               q == PatchOf(row, 1)
    <3>2. v \in SessionView /\ Known(row, v) /\ q \in PatchView
      BY <1>2, <3>1, ViewIs
    <3>3. desk = [session |-> v, patch |-> q, analysis |-> TRUE, busy |-> FALSE,
                  workspace |-> TRUE]
      BY <1>1, <2>2 DEF DeskInit
    <3> HIDE DEF v, q
    <3> QED
      BY <3>2, <3>3 DEF DeskInv, DeskTypeOK, Held
  <2> QED
    BY <2>1, <2>2
<1> QED
  BY <1>6, <1>7, <1>8, <1>9 DEF DashInv, CallInv

LEMMA DashStep == DashInv /\ [Next]_vars => DashInv'
<1> SUFFICES ASSUME DashInv, [Next]_vars PROVE DashInv'
  OBVIOUS
<1>1. CallInv /\ ScreenInv /\ DeskInv
  BY DEF DashInv
<1>2. CASE Phone /\ UNCHANGED desk
  BY <1>1, <1>2, PhoneKeeps DEF DashInv, DeskInv, DeskTypeOK
<1>3. CASE Desktop /\ UNCHANGED phoneVars
  BY <1>1, <1>3, DesktopKeeps DEF DashInv, ScreenInv, PhoneTypeOK, phoneVars
<1>4. CASE Agent /\ UNCHANGED <<phoneVars, desk>>
  BY <1>1, <1>4, AgentKeeps, ScreensStay DEF DashInv
<1>5. CASE UNCHANGED vars
  <2>1. UNCHANGED agentVars /\ row' = row /\ UNCHANGED phoneVars /\ desk' = desk
    BY <1>5 DEF vars, agentVars
  <2> QED
    BY <1>1, <2>1, SilenceKeeps
    DEF DashInv, ScreenInv, PhoneTypeOK, phoneVars, DeskInv, DeskTypeOK
<1> QED
  BY <1>2, <1>3, <1>4, <1>5 DEF Next

\* Whatever the two clients press, and whichever calls fail or cross, what a
\* screen holds of a session is the agent's row at that revision, or older.
THEOREM DashboardsInvariant == Spec => []DashInv
BY DashStart, DashStep, PTL DEF Spec

\* The states of the agent, of the phone (App.tsx, workflow.ts) and of the
\* desktop dashboard have their types.
THEOREM DashboardsTypes == Spec => []TypeOK
<1>1. DashInv => TypeOK
  BY DEF DashInv, CallInv, ScreenInv, DeskInv, TypeOK
<1> QED
  BY <1>1, DashboardsInvariant, PTL

\* startAnalysis of App.tsx and analyzeError of the desktop: a press of ANALYZE
\* creates at most one session, whatever is lost, times out or is sent again.
THEOREM PressCreatesOnce == Spec => []OnePressOneSession
<1>1. DashInv => OnePressOneSession
  BY DEF DashInv, CallInv
<1> QED
  BY <1>1, DashboardsInvariant, PTL

-----------------------------------------------------------------------------
(* Decisions.                                                              *)

Decides(c, s) ==
    /\ c.kind \in {"approve", "reject", "rollback"} /\ c.view = ViewOf(row, s)
    /\ c.patch.session = s /\ c.patch.number = row[s].patch

\* What the agent admits names the session as it is: its view, at the row's
\* revision, is the row's.
LEMMA AdmittedDecides ==
    ASSUME CallInv, NEW c \in calls, c.stage = "sent",
           c.kind \in {"approve", "reject", "rollback"}, Admits(c, row[c.view.id])
    PROVE  Decides(c, c.view.id)
<1> DEFINE v == c.view
           r == row[v.id]
<1>1. v \in SessionView /\ Known(row, v)
  BY InvGives DEF CallKnown, Mutations
<1>2. v.revision = r.revision /\ c.patch.session = v.id /\ c.patch.number = r.patch
  BY DEF Admits, NamesCurrentPatch
<1>3. v.state = r.state /\ v.retry_count = r.retry_count
  BY <1>1, <1>2 DEF Known
<1>4. v = [id |-> v.id, state |-> v.state, revision |-> v.revision,
           retry_count |-> v.retry_count]
  BY <1>1 DEF SessionView
<1>5. v = ViewOf(row, v.id)
  <2>1. ViewOf(row, v.id) = [id |-> v.id, state |-> r.state, revision |-> r.revision,
                             retry_count |-> r.retry_count]
    BY DEF ViewOf
  <2> HIDE DEF v, r
  <2> QED
    BY <1>2, <1>3, <1>4, <2>1
<1> QED
  BY <1>2, <1>5 DEF Decides

\* Where the calls that decide nothing start, and where they leave a row.
LEMMA OthersDecideNothing ==
    ASSUME NEW r \in Row, NEW c, c.kind \in {"capture", "analyze", "generate"},
           r.state # "ROLLED_BACK", NEW n \in Succeeds(c, r) \cup Fails(c, r)
    PROVE  n.state # "ROLLED_BACK"
<1>1. {"CAPTURED", "ROOT_CAUSE_FOUND", "PATCH_GENERATED", "AWAITING_APPROVAL", "FAILED"}
        \subseteq DebugState
  BY DEF DebugState
<1>2. CASE n \in Fails(c, r)
  BY <1>2, FailsIs DEF Mutations
<1>3. CASE n \in Succeeds(c, r) /\ c.kind \in {"capture", "analyze"}
  <2>1. n = Transition(r, "CAPTURED") \/ n = Transition(r, "ROOT_CAUSE_FOUND")
    BY <1>3 DEF Succeeds
  <2> QED
    BY <1>1, <2>1, TransitionOnward
<1>4. CASE n \in Succeeds(c, r) /\ c.kind = "generate"
  <2> DEFINE a == Transition(r, "PATCH_GENERATED")
             b == Transition(a, "AWAITING_APPROVAL")
             d == Patched(b, "AWAITING_APPROVAL", "UNAVAILABLE")
  <2>1. n = [d EXCEPT !.patch = @ + 1]
    BY <1>4 DEF Succeeds
  <2>2. a \in Row
    BY <1>1, TransitionOnward
  <2> HIDE DEF a
  <2>3. b \in Row /\ b.state = "AWAITING_APPROVAL"
    BY <1>1, <2>2, TransitionOnward
  <2> HIDE DEF b
  <2>4. d \in Row /\ d.state = "AWAITING_APPROVAL"
    BY <2>3, PatchedIs DEF PatchStatus, RollbackStatus
  <2> HIDE DEF d
  <2>5. n.state = d.state
    BY <2>1, <2>4 DEF Row
  <2> QED
    BY <2>4, <2>5
<1> QED
  BY <1>2, <1>3, <1>4

LEMMA DecisionShown ==
    ASSUME CallInv, Agent, NEW s \in DOMAIN row, row'[s] # row[s],
           row[s].state = "AWAITING_APPROVAL" \/ row'[s].state = "ROLLED_BACK"
    PROVE  \E c \in calls : Decides(c, s)
<1>1. PICK c \in calls : Serve(c) \/ Fault(c)
  BY DEF Agent
<1>2. row \in Seq(Row) /\ s \in 1..Len(row) /\ row[s] \in Row
  BY InvGives, RowAt
<1>3. CASE ServeCreate(c) \/ ServeWorkspace(c) \/ Fault(c)
  <2>1. NewRow \in Row
    BY DEF NewRow, Row, DebugState, MaxRetries, PatchStatus, RollbackStatus
  <2>2. row' = row \/ row' = Append(row, NewRow)
    BY <1>3 DEF ServeCreate, ServeWorkspace, Fault
  <2>3. row'[s] = row[s]
    BY <1>2, <2>1, <2>2
  <2> QED
    BY <2>3
<1>4. \A n : row' = [row EXCEPT ![c.view.id] = n] => row'[s] = n /\ c.view.id = s
  BY <1>2
<1>5. CASE FinishChange(c)
  <2>1. /\ c.stage = "running" /\ c.kind \in {"analyze", "generate"}
        /\ row[c.view.id].state \in {"ANALYZING", "ROOT_CAUSE_FOUND"}
    BY <1>5, InvGives DEF FinishChange, CallKnown, CallInv, OneWorks, Working
  <2>2. PICK n \in Succeeds(c, row[c.view.id]) \cup Fails(c, row[c.view.id]) :
          row' = [row EXCEPT ![c.view.id] = n]
    BY <1>5 DEF FinishChange
  <2>3. row'[s] = n /\ c.view.id = s
    BY <1>4, <2>2
  <2>4. n \in Succeeds(c, row[s]) \cup Fails(c, row[s])
    BY <2>2, <2>3
  <2>5. row[s].state \in {"ANALYZING", "ROOT_CAUSE_FOUND"}
    BY <2>1, <2>3
  <2>6. n.state # "ROLLED_BACK"
    BY <1>2, <2>1, <2>4, <2>5, OthersDecideNothing
  <2> QED
    BY <2>3, <2>5, <2>6
<1>6. CASE ServeChange(c)
  <2> DEFINE r == row[c.view.id]
  <2>1. /\ c.stage = "sent" /\ c.kind \in Mutations /\ Admits(c, r)
        /\ \E n : row' = [row EXCEPT ![c.view.id] = n]
    BY <1>6 DEF ServeChange, Changes, Mutations
  <2>2. c.view.id = s
    BY <1>4, <2>1
  <2>3. CASE c.kind \in {"approve", "reject", "rollback"}
    BY <2>1, <2>2, <2>3, AdmittedDecides
  <2>4. CASE c.kind = "capture"
    <3>1. r.state = "IDLE"
      BY <2>1, <2>4 DEF Admits
    <3>2. PICK n \in Succeeds(c, r) \cup Fails(c, r) : row' = [row EXCEPT ![c.view.id] = n]
      BY <1>6, <2>1, <2>4 DEF ServeChange
    <3>3. n.state # "ROLLED_BACK"
      BY <1>2, <2>2, <2>4, <3>1, <3>2, OthersDecideNothing
    <3> QED
      BY <1>4, <2>2, <3>1, <3>2, <3>3
  <2>5. CASE c.kind = "analyze"
    <3>1. row' = [row EXCEPT ![c.view.id] = Transition(r, "ANALYZING")]
      BY <1>6, <2>1, <2>5 DEF ServeChange
    <3>2. /\ Decidable(r.state, "ANALYZING", r.retry_count)
      BY <2>1, <2>5 DEF Admits
    <3>3. r.state # "AWAITING_APPROVAL"
      BY <3>2 DEF Decidable, Successors
    <3>4. Transition(r, "ANALYZING").state = "ANALYZING"
      BY <1>2, <2>2 DEF Transition, Row
    <3> QED
      BY <1>4, <2>2, <3>1, <3>3, <3>4
  <2>6. CASE c.kind = "generate"
    <3>1. row' = [row EXCEPT ![c.view.id] = r]
      BY <1>6, <2>1, <2>6 DEF ServeChange
    <3> QED
      BY <1>2, <2>2, <3>1
  <2> QED
    BY <2>1, <2>3, <2>4, <2>5, <2>6 DEF Mutations
<1> QED
  BY <1>1, <1>3, <1>5, <1>6 DEF Serve

\* Whatever mix of older answers, other sessions' patches and the other
\* client's changes a screen shows, a session leaves AWAITING_APPROVAL, or is
\* rolled back, only for a press on the session as it is and the patch it has.
THEOREM DecisionsAreInformed == Spec => DecidesWhatWasShown
<1> DEFINE Informed ==
             \A s \in DOMAIN row :
               (row'[s] # row[s]
                 /\ (row[s].state = "AWAITING_APPROVAL" \/ row'[s].state = "ROLLED_BACK"))
               => \E c \in calls : /\ c.kind \in {"approve", "reject", "rollback"}
                                   /\ c.view = ViewOf(row, s)
                                   /\ c.patch.session = s /\ c.patch.number = row[s].patch
<1>1. DashInv /\ [Next]_vars => Informed
  <2> SUFFICES ASSUME DashInv, [Next]_vars PROVE Informed
    OBVIOUS
  <2>1. CallInv /\ ScreenInv /\ DeskInv
    BY DEF DashInv
  <2>2. row' = row \/ Agent
    <3>1. CASE Phone
      BY <2>1, <3>1, PhoneKeeps
    <3>2. CASE Desktop
      BY <2>1, <3>2, DesktopKeeps
    <3>3. CASE UNCHANGED vars
      BY <3>3 DEF vars, agentVars
    <3> QED
      BY <3>1, <3>2, <3>3 DEF Next
  <2>3. CASE row' = row
    BY <2>3
  <2>4. CASE Agent
    BY <2>1, <2>4, DecisionShown DEF Decides
  <2> QED
    BY <2>2, <2>3, <2>4
<1>2. DecidesWhatWasShown <=> [][Informed]_vars
  BY DEF DecidesWhatWasShown
<1> HIDE DEF Informed
<1> QED
  BY <1>1, <1>2, DashboardsInvariant, PTL DEF Spec

-----------------------------------------------------------------------------
(* Busy screens.                                                           *)

\* The calls that make a screen free when they are answered.
PhoneAwaits(c) == c.client = "phone" /\ c.handler \notin {"reconcile", "read", "dashboard"}
DeskAwaits(c) == c.client = "desktop"

\* The agent, and a failure, leave each client its call, and its handler.
LEMMA AgentAnswersAll ==
    ASSUME CallInv, Agent, NEW d \in calls, d.client # "none"
    PROVE  \E e \in calls' : e.client = d.client /\ e.handler = d.handler
<1>1. PICK c \in calls : Serve(c) \/ Fault(c)
  BY DEF Agent
<1>2. c \in Call
  BY InvGives
<1>3. CASE d # c
  <2>1. \A e \in calls : e # c => e \in calls'
    BY <1>1 DEF Serve, ServeCreate, ServeWorkspace, ServeChange, FinishChange, Answer, Fault
  <2> QED
    BY <1>3, <2>1
<1>4. CASE d = c
  <2>1. CASE Fault(c)
    <3>1. Afresh(c) \in calls' /\ ~(c.stage = "answered" /\ ~c.answer.ok)
      BY <2>1 DEF Fault
    <3>2. Afresh(c).client = c.client /\ Afresh(c).handler = c.handler
      BY <1>4, <3>1, AfreshIs
    <3> QED
      BY <1>4, <3>1, <3>2
  <2>2. ASSUME NEW ok \in BOOLEAN, NEW s, Answer(c, ok, s)
        PROVE  \E e \in calls' : e.client = d.client /\ e.handler = d.handler
    <3> DEFINE a == IF ok THEN Response(c.kind, s, row') ELSE Refused
    <3>2. Ended(c, a) \in calls'
      BY <1>4, <2>2 DEF Answer, Ended
    <3>3. Ended(c, a).client = c.client /\ Ended(c, a).handler = c.handler
      BY <1>2 DEF Ended, Call
    <3> QED
      BY <1>4, <3>2, <3>3
  <2>3. CASE calls' = (calls \ {c}) \cup {[c EXCEPT !.stage = "running"]}
    <3> DEFINE o == [c EXCEPT !.stage = "running"]
    <3>1. o.client = c.client /\ o.handler = c.handler
      BY <1>2 DEF Call
    <3> QED
      BY <1>4, <2>3, <3>1
  <2>4. \/ Fault(c)
        \/ \E ok \in BOOLEAN : \E s : Answer(c, ok, s)
        \/ calls' = (calls \ {c}) \cup {[c EXCEPT !.stage = "running"]}
    <3>1. CASE ServeCreate(c)
      <4>1. Answer(c, TRUE, Len(row) + 1)
        BY <3>1 DEF ServeCreate
      <4> QED
        BY <4>1
    <3>2. CASE ServeWorkspace(c)
      <4>1. \E ok \in BOOLEAN : Answer(c, ok, 0)
        BY <3>2 DEF ServeWorkspace
      <4> QED
        BY <4>1
    <3>3. CASE ServeChange(c) \/ FinishChange(c)
      <4>1. \/ Answer(c, TRUE, c.view.id) \/ Answer(c, FALSE, c.view.id)
            \/ calls' = (calls \ {c}) \cup {[c EXCEPT !.stage = "running"]}
        BY <3>3 DEF ServeChange, FinishChange
      <4> QED
        BY <4>1
    <3> QED
      BY <1>1, <3>1, <3>2, <3>3 DEF Serve
  <2> QED
    BY <2>1, <2>2, <2>3, <2>4
<1> QED
  BY <1>3, <1>4

\* What a press sends.
LEMMA RequestNames ==
    ASSUME NEW client, NEW handler, NEW kind, NEW press, NEW view, NEW patch, NEW s
    PROVE  /\ Request(client, handler, kind, press, view, patch).client = client
           /\ Request(client, handler, kind, press, view, patch).handler = handler
           /\ Read(client, handler, kind, s).client = client
           /\ Read(client, handler, kind, s).handler = handler
<1>1. /\ Request(client, handler, kind, press, view, patch).client = client
      /\ Request(client, handler, kind, press, view, patch).handler = handler
  BY DEF Request
<1>2. /\ Read(client, handler, kind, s).client = client
      /\ Read(client, handler, kind, s).handler = handler
  <2> DEFINE q == Request(client, handler, kind, 0, [NoSession EXCEPT !.id = s], NoPatch)
             a == Response(kind, s, row)
  <2>1. Read(client, handler, kind, s) = [q EXCEPT !.stage = "answered", !.answer = a]
    BY DEF Read
  <2> HIDE DEF a
  <2> QED
    BY <2>1 DEF Request
<1> QED
  BY <1>1, <1>2

\* Each client takes and sends only its own calls.
LEMMA OthersCallsStay ==
    /\ Phone => \A d \in calls : d.client # "phone" => d \in calls'
    /\ Desktop => \A d \in calls : d.client # "desktop" => d \in calls'
<1>1. ASSUME Phone, NEW d \in calls, d.client # "phone"
      PROVE  d \in calls'
  <2>1. CASE PhonePresses
    BY <2>1
    DEF PhonePresses, StartAnalysis, RequestPatch, Approve, Reject, RetryAnalysis, OpenAlert,
        ConfirmRollback, CancelAlert, ChooseDemo, OpenSession, NewSession, Reset, Refresh,
        Foreground, Ask, Press, agentVars
  <2>2. CASE Reopened \/ SendSnapshot \/ TakeSnapshot \/ TakeEvents
    BY <2>2 DEF Reopened, SendSnapshot, TakeSnapshot, TakeEvents, agentVars
  <2>3. ASSUME NEW c \in calls, PhoneAnswers(c) PROVE d \in calls'
    <3>1. \E next : Handled(c, next)
      BY <2>3
      DEF PhoneAnswers, StartAnswered, GenerateAnswered, ResultAnswered, HistoryAnswered,
          DemoAnswered, OpenAnswered, ReconcileAnswered, ReadAnswered, DashboardAnswered,
          FailureAnswered, GivesUp
    <3> QED
      BY <1>1, <2>3, <3>1 DEF Handled, PhoneAnswers
  <2> QED
    BY <1>1, <2>1, <2>2, <2>3 DEF Phone
<1>2. ASSUME Desktop, NEW d \in calls, d.client # "desktop"
      PROVE  d \in calls'
  <2>1. CASE DeskPresses
    BY <2>1
    DEF DeskPresses, AnalyzeError, GenerateFix, DecidePatch, RollbackPatch, RetryFix, DeskDemo,
        DeskOther, InspectWorkspace, Sends, Press
  <2>2. ASSUME NEW c \in calls, DeskAnswers(c) PROVE d \in calls'
    <3>1. \E next : Handled(c, next)
      BY <2>2
      DEF DeskAnswers, AnalyzeAnswered, FixAnswered, DeskDemoAnswered, InspectAnswered, DeskFailed
    <3> QED
      BY <1>2, <2>2, <3>1 DEF Handled, DeskAnswers
  <2> QED
    BY <1>2, <2>1, <2>2 DEF Desktop
<1> QED
  BY <1>1, <1>2

\* A press of the phone leaves it as busy as it was, or sends a call.
LEMMA PressesWait ==
    ASSUME ScreenInv, PhonePresses
    PROVE  \/ phone'.busy = phone.busy /\ calls \subseteq calls'
           \/ \E c \in calls' : PhoneAwaits(c)
<1>1. phone \in PhoneState
  BY ScreenGives
<1>2. ASSUME NEW handler, NEW kind, NEW view, NEW patch,
             Press("phone", handler, kind, view, patch),
             handler \notin {"reconcile", "read", "dashboard"}
      PROVE  \E c \in calls' : PhoneAwaits(c)
  <2> DEFINE c == Request("phone", handler, kind, acts', view, patch)
  <2>1. c.client = "phone" /\ c.handler = handler
    BY RequestNames
  <2>2. c \in calls'
    BY <1>2 DEF Press
  <2> HIDE DEF c
  <2> QED
    BY <1>2, <2>1, <2>2 DEF PhoneAwaits
<1>3. CASE StartAnalysis \/ RequestPatch \/ Approve \/ Reject \/ RetryAnalysis \/ ConfirmRollback
             \/ ChooseDemo
  <2>1. \E handler \in {"start", "generate", "approve", "reject", "retry", "rollback", "demo"} :
          \E kind, view, patch : Press("phone", handler, kind, view, patch)
    BY <1>3
    DEF StartAnalysis, RequestPatch, Approve, Reject, RetryAnalysis, ConfirmRollback, ChooseDemo,
        Ask
  <2> QED
    BY <1>2, <2>1
<1>4. CASE \E s \in Ids : OpenSession(s)
  <2>1. PICK s \in Ids : Read("phone", "open", "page", s) \in calls'
    BY <1>4 DEF OpenSession
  <2> QED
    BY <2>1, RequestNames DEF PhoneAwaits
<1>5. CASE OpenAlert \/ CancelAlert \/ NewSession \/ Reset \/ Refresh \/ Foreground
  <2>1. phone'.busy = phone.busy
    BY <1>1, <1>5
    DEF OpenAlert, CancelAlert, NewSession, Reset, Refresh, Foreground, PhoneState, Cleared
  <2>2. calls \subseteq calls'
    BY <1>5
    DEF OpenAlert, CancelAlert, NewSession, Reset, Refresh, Foreground, agentVars
  <2> QED
    BY <2>1, <2>2
<1> QED
  BY <1>3, <1>4, <1>5 DEF PhonePresses

\* The handler of an answer ends and frees the screen, or awaits its next
\* call; one that does neither is none of those that a busy screen waits for.
LEMMA AnswersWait ==
    ASSUME CallInv, ScreenInv, NEW c \in calls, PhoneAnswers(c)
    PROVE  \/ ~phone'.busy
           \/ \E e \in calls' : PhoneAwaits(e)
           \/ phone'.busy = phone.busy /\ ~PhoneAwaits(c) /\ calls \ {c} \subseteq calls'
<1>1. /\ phone \in PhoneState /\ c.client = "phone"
      /\ c.kind = "session" => c.handler \in {"reconcile", "open"}
  BY ScreenGives, InvGives DEF PhoneAnswers, CallKnown, AskedBy
<1>2. ASSUME NEW n, Handled(c, {n}), n.client = "phone", n.handler = c.handler,
             c.handler \notin {"reconcile", "read", "dashboard"}
      PROVE  \E e \in calls' : PhoneAwaits(e)
  BY <1>2 DEF Handled, PhoneAwaits
<1>3. CASE StartAnswered(c) \/ ResultAnswered(c)
  <2>1. c.handler \notin {"reconcile", "read", "dashboard"}
    BY <1>3 DEF StartAnswered, ResultAnswered
  <2>2. \/ \E kind, view : Handled(c, {Following(c, kind, view)})
        \/ Handled(c, {History(c)})
    BY <1>3 DEF StartAnswered, ResultAnswered
  <2>3. History(c).client = "phone" /\ History(c).handler = c.handler
    BY RequestNames DEF History
  <2>4. \A kind, view : /\ Following(c, kind, view).client = "phone"
                        /\ Following(c, kind, view).handler = c.handler
    BY <1>1, RequestNames DEF Following
  <2> QED
    BY <1>2, <2>1, <2>2, <2>3, <2>4
<1>4. CASE GenerateAnswered(c) \/ HistoryAnswered(c) \/ DemoAnswered(c)
  <2>1. \E p : phone' = Idle(p) /\ "busy" \in DOMAIN p
    <3>1. CASE GenerateAnswered(c)
      <4>1. phone' = Idle(WithPatch(WithSession(phone, View(c)), Patch(c)))
        BY <3>1 DEF GenerateAnswered
      <4>2. "busy" \in DOMAIN WithPatch(WithSession(phone, View(c)), Patch(c))
        BY <1>1 DEF WithPatch, WithSession, PhoneState
      <4> QED
        BY <4>1, <4>2
    <3>2. CASE HistoryAnswered(c)
      BY <1>1, <3>2 DEF HistoryAnswered, GivesUp, PhoneState
    <3>3. CASE DemoAnswered(c)
      <4> DEFINE p == [Cleared(phone) EXCEPT !.workspace = @ \/ c.kind # "reset"]
      <4>1. phone' = Idle(p)
        BY <3>3 DEF DemoAnswered
      <4>2. "busy" \in DOMAIN p
        BY <1>1 DEF Cleared, PhoneState
      <4> QED
        BY <4>1, <4>2
    <3> QED
      BY <1>4, <3>1, <3>2, <3>3
  <2>2. phone'.busy = FALSE
    BY <2>1 DEF Idle
  <2> QED
    BY <2>2
<1>5. CASE OpenAnswered(c)
  <2> DEFINE n == Read("phone", "open", "session", View(c).id)
  <2>1. Handled(c, {n}) /\ c.handler = "open"
    BY <1>5 DEF OpenAnswered
  <2>2. n.client = "phone" /\ n.handler = "open"
    BY RequestNames
  <2> HIDE DEF n
  <2> QED
    BY <1>2, <2>1, <2>2
<1>6. CASE ReconcileAnswered(c) \/ ReadAnswered(c) \/ DashboardAnswered(c)
  <2>1. calls \ {c} \subseteq calls'
    <3>1. \E next : Handled(c, next)
      BY <1>6 DEF ReconcileAnswered, ReadAnswered, DashboardAnswered
    <3> QED
      BY <3>1 DEF Handled
  <2>2. CASE ReconcileAnswered(c)
    <3>1. WithSession(phone, View(c)).busy = phone.busy
          /\ "busy" \in DOMAIN WithSession(phone, View(c))
      BY <1>1 DEF WithSession, PhoneState
    <3>2. CASE c.handler = "open"
      <4>1. phone' = Idle(WithSession(phone, View(c)))
        BY <2>2, <3>2 DEF ReconcileAnswered
      <4>2. phone'.busy = FALSE
        BY <3>1, <4>1 DEF Idle
      <4> QED
        BY <4>2
    <3>3. CASE c.handler # "open"
      <4>1. phone' = WithSession(phone, View(c)) /\ c.handler = "reconcile"
        BY <1>1, <2>2, <3>3 DEF ReconcileAnswered
      <4> QED
        BY <2>1, <3>1, <4>1 DEF PhoneAwaits
    <3> QED
      BY <3>2, <3>3
  <2>3. CASE ReadAnswered(c)
    <3>1. phone' = WithPatch(phone, Patch(c)) /\ c.handler = "read"
      BY <2>3 DEF ReadAnswered
    <3>2. phone'.busy = phone.busy
      BY <1>1, <3>1 DEF WithPatch, PhoneState
    <3> QED
      BY <2>1, <3>1, <3>2 DEF PhoneAwaits
  <2>4. CASE DashboardAnswered(c)
    <3> DEFINE p == [phone EXCEPT !.workspace = TRUE, !.resumed = TRUE]
    <3>1. phone' = p \/ \E view : phone' = WithSession(p, view)
      BY <2>4 DEF DashboardAnswered
    <3>2. p \in PhoneState /\ p.busy = phone.busy
      BY <1>1 DEF PhoneState
    <3> HIDE DEF p
    <3>3. phone'.busy = phone.busy
      BY <3>1, <3>2 DEF WithSession, PhoneState
    <3>4. c.handler = "dashboard"
      BY <2>4 DEF DashboardAnswered
    <3> QED
      BY <2>1, <3>3, <3>4 DEF PhoneAwaits
  <2> QED
    BY <1>6, <2>2, <2>3, <2>4
<1>7. CASE FailureAnswered(c)
  <2>1. CASE c.handler \in {"reconcile", "read", "dashboard"}
    BY <1>7, <2>1 DEF FailureAnswered, Handled, PhoneAwaits, phoneVars
  <2>2. CASE c.handler \notin {"reconcile", "read", "dashboard"}
    <3>1. phone' = Idle(phone)
      BY <1>7, <2>2 DEF FailureAnswered, GivesUp
    <3>2. phone'.busy = FALSE
      BY <1>1, <3>1 DEF Idle, PhoneState
    <3> QED
      BY <3>2
  <2> QED
    BY <2>1, <2>2
<1> QED
  BY <1>3, <1>4, <1>5, <1>6, <1>7 DEF PhoneAnswers

LEMMA PhoneWaits ==
    ASSUME CallInv, ScreenInv, Phone, phone.busy => \E c \in calls : PhoneAwaits(c)
    PROVE  phone'.busy => \E c \in calls' : PhoneAwaits(c)
<1>1. CASE PhonePresses
  BY <1>1, PressesWait
<1>2. CASE Reopened \/ SendSnapshot \/ TakeSnapshot \/ TakeEvents
  <2>1. phone'.busy = phone.busy
    BY <1>2, ScreenGives
    DEF Reopened, SendSnapshot, TakeSnapshot, TakeEvents, WithPatch, WithSession, PhoneState
  <2>2. calls \subseteq calls'
    BY <1>2 DEF Reopened, SendSnapshot, TakeSnapshot, TakeEvents, agentVars
  <2> QED
    BY <2>1, <2>2
<1>3. ASSUME NEW c \in calls, PhoneAnswers(c)
      PROVE  phone'.busy => \E e \in calls' : PhoneAwaits(e)
  <2>1. \/ ~phone'.busy
        \/ \E e \in calls' : PhoneAwaits(e)
        \/ phone'.busy = phone.busy /\ ~PhoneAwaits(c) /\ calls \ {c} \subseteq calls'
    BY <1>3, AnswersWait
  <2> QED
    BY <2>1
<1> QED
  BY <1>1, <1>2, <1>3 DEF Phone

LEMMA DeskWaits ==
    ASSUME CallInv, DeskInv, Desktop, desk.busy => \E c \in calls : DeskAwaits(c)
    PROVE  desk'.busy => \E c \in calls' : DeskAwaits(c)
<1>1. desk \in DeskState
  BY DeskGives
<1>2. CASE DeskPresses
  <2>1. \E handler, kind, shown : Sends(handler, kind, shown)
    BY <1>2
    DEF DeskPresses, AnalyzeError, GenerateFix, DecidePatch, RollbackPatch, RetryFix, DeskDemo,
        DeskOther, InspectWorkspace
  <2>2. \E handler, kind : Request("desktop", handler, kind, acts', desk.session, desk.patch)
                             \in calls'
    BY <2>1 DEF Sends, Press
  <2> QED
    BY <2>2, RequestNames DEF DeskAwaits
<1>3. ASSUME NEW c \in calls, DeskAnswers(c)
      PROVE  desk'.busy => \E e \in calls' : DeskAwaits(e)
  <2>1. CASE \E kind, view : Handled(c, {Following(c, kind, view)})
    <3>1. PICK kind, view : Following(c, kind, view) \in calls'
      BY <2>1 DEF Handled
    <3>2. Following(c, kind, view).client = "desktop"
      BY <1>3, RequestNames DEF DeskAnswers, Following
    <3> QED
      BY <3>1, <3>2 DEF DeskAwaits
  <2>2. CASE Handled(c, {[Following(c, "select", NoSession) EXCEPT !.handler = "reselect"]})
    <3> DEFINE n == Following(c, "select", NoSession)
    <3>1. [n EXCEPT !.handler = "reselect"] \in calls'
      BY <2>2 DEF Handled
    <3>2. [n EXCEPT !.handler = "reselect"].client = "desktop"
      BY <1>3 DEF DeskAnswers, Following, Request
    <3> QED
      BY <3>1, <3>2 DEF DeskAwaits
  <2>3. CASE \E d : desk' = Free(d) /\ "busy" \in DOMAIN d
    BY <2>3 DEF Free
  <2>4. CASE InspectAnswered(c) \/ DeskFailed(c) \/ FixAnswered(c)
    <3>1. \E d : desk' = Free(d) /\ "busy" \in DOMAIN d
      <4>1. CASE InspectAnswered(c)
        <5> DEFINE d == [desk EXCEPT !.workspace = IF c.handler = "inspect" THEN c.answer.ok ELSE @]
        <5>1. desk' = Free(d)
          BY <4>1 DEF InspectAnswered
        <5>2. "busy" \in DOMAIN d
          BY <1>1 DEF DeskState
        <5> QED
          BY <5>1, <5>2
      <4>2. CASE DeskFailed(c)
        BY <1>1, <4>2 DEF DeskFailed, DeskState
      <4>3. CASE FixAnswered(c)
        <5> DEFINE d == IF c.kind = "analyze"
                        THEN [desk EXCEPT !.session = DeskView(c), !.analysis = TRUE,
                                          !.patch = NoPatch]
                        ELSE [desk EXCEPT !.session = DeskView(c), !.patch = DeskPatch(c)]
        <5>1. desk' = Free(d)
          BY <4>3 DEF FixAnswered
        <5>2. "busy" \in DOMAIN d
          BY <1>1 DEF DeskState
        <5> QED
          BY <5>1, <5>2
      <4> QED
        BY <2>4, <4>1, <4>2, <4>3
    <3> QED
      BY <2>3, <3>1
  <2>5. CASE AnalyzeAnswered(c)
    <3>1. CASE desk' = Free([desk EXCEPT !.session = DeskView(c), !.analysis = TRUE])
      <4> DEFINE d == [desk EXCEPT !.session = DeskView(c), !.analysis = TRUE]
      <4>1. "busy" \in DOMAIN d
        BY <1>1 DEF DeskState
      <4> QED
        BY <2>3, <3>1, <4>1
    <3> QED
      BY <2>1, <2>5, <3>1 DEF AnalyzeAnswered
  <2>6. CASE DeskDemoAnswered(c)
    <3>1. CASE desk' = Free([Empty(desk) EXCEPT !.workspace = @ \/ c.kind # "reset"])
      <4> DEFINE d == [Empty(desk) EXCEPT !.workspace = @ \/ c.kind # "reset"]
      <4>1. "busy" \in DOMAIN d
        BY <1>1 DEF DeskState, Empty
      <4> QED
        BY <2>3, <3>1, <4>1
    <3>2. CASE desk' = Free([desk EXCEPT !.workspace = TRUE])
      BY <1>1, <2>3, <3>2 DEF DeskState
    <3> QED
      BY <2>2, <2>6, <3>1, <3>2 DEF DeskDemoAnswered
  <2> QED
    BY <1>3, <2>4, <2>5, <2>6 DEF DeskAnswers
<1> QED
  BY <1>2, <1>3 DEF Desktop

\* setBusy of the phone and busyAction of the desktop: a screen is busy only
\* while a call is in flight whose answer goes to a handler that frees it.
THEOREM BusyScreensWait == Spec => []BusyOnlyWhileWaiting
<1> DEFINE Waits == /\ phone.busy => \E c \in calls : PhoneAwaits(c)
                    /\ desk.busy => \E c \in calls : DeskAwaits(c)
<1>1. Init => Waits
  <2>1. DeskInit => ~desk.busy
    BY DEF DeskInit
  <2> QED
    BY <2>1 DEF Init, PhoneInit
<1>2. DashInv /\ Waits /\ [Next]_vars => Waits'
  <2> SUFFICES ASSUME DashInv, Waits, [Next]_vars PROVE Waits'
    OBVIOUS
  <2>1. CallInv /\ ScreenInv /\ DeskInv
    BY DEF DashInv
  <2>2. CASE Phone /\ UNCHANGED desk
    <3>1. phone'.busy => \E c \in calls' : PhoneAwaits(c)
      BY <2>1, <2>2, PhoneWaits
    <3>2. desk'.busy => \E c \in calls' : DeskAwaits(c)
      BY <2>2, OthersCallsStay DEF DeskAwaits
    <3> QED
      BY <3>1, <3>2
  <2>3. CASE Desktop /\ UNCHANGED phoneVars
    <3>1. desk'.busy => \E c \in calls' : DeskAwaits(c)
      BY <2>1, <2>3, DeskWaits
    <3>2. phone'.busy => \E c \in calls' : PhoneAwaits(c)
      BY <2>3, OthersCallsStay DEF PhoneAwaits, phoneVars
    <3> QED
      BY <3>1, <3>2
  <2>4. CASE Agent /\ UNCHANGED <<phoneVars, desk>>
    <3>1. \A d \in calls : PhoneAwaits(d) => \E e \in calls' : PhoneAwaits(e)
      BY <2>1, <2>4, AgentAnswersAll DEF PhoneAwaits
    <3>2. \A d \in calls : DeskAwaits(d) => \E e \in calls' : DeskAwaits(e)
      BY <2>1, <2>4, AgentAnswersAll DEF DeskAwaits
    <3>3. phone' = phone /\ desk' = desk
      BY <2>4 DEF phoneVars
    <3> QED
      BY <3>1, <3>2, <3>3
  <2>5. CASE UNCHANGED vars
    BY <2>5 DEF vars, agentVars, phoneVars
  <2> QED
    BY <2>2, <2>3, <2>4, <2>5 DEF Next
<1>3. Waits => BusyOnlyWhileWaiting
  BY DEF PhoneAwaits, DeskAwaits, BusyOnlyWhileWaiting
<1> HIDE DEF Waits
<1> QED
  BY <1>1, <1>2, <1>3, DashboardsInvariant, PTL DEF Spec
=============================================================================
