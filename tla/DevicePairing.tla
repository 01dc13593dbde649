--------------------------- MODULE DevicePairing ---------------------------
(***************************************************************************)
(* Pairing phones with the laptop: the agent's DeviceRegistry with its one *)
(* pairing code and its table of devices, the desktop that makes codes and *)
(* revokes devices, and the part of the phone's app that decides between   *)
(* the pairing screen and the dashboard, with its secure storage.          *)
(*                                                                         *)
(* Codes are numbered in the order they are made; what the digits are is a *)
(* member of Digits.  A token is the number of its device.  Addresses,     *)
(* names, permissions and what an error says are left out; the instants    *)
(* that matter are actions (CodeExpires, Refuse).  The native secure       *)
(* storage carries out what it is asked, in order.                         *)
(***************************************************************************)
EXTENDS Naturals, Sequences, FiniteSets

CONSTANTS
    Phones, Digits,
    MaxAttempts, \* pairing_max_attempts
    MaxCodes,    \* bound: codes made
    MaxFaults,   \* bound: lost answers, failures of the storage, crashes and restarts
    MaxAsked     \* bound: what a storage was asked when DISCONNECT PHONE is pressed again

ASSUME PairingAssumption ==
    MaxAttempts \in Nat \ {0} /\ MaxCodes \in Nat /\ MaxFaults \in Nat /\ MaxAsked \in Nat

VARIABLES
    pairing, \* _PairingCode, in the memory of the agent
    codes,   \* how many codes were made
    wrong,   \* history: the wrong guesses at each code
    devices, \* the table devices: [code, phone, status]
    phone,   \* the app of each phone
    storage, \* what each phone's secure storage holds, and what it was asked to do;
             \* history: whether a dashboard that was gone asked, too
    calls,   \* requests under way
    faults

vars == <<pairing, codes, wrong, devices, phone, storage, calls, faults>>

NoToken == 0
NoCode == [number |-> 0, digits |-> CHOOSE d \in Digits : TRUE, left |-> 0]

\* The pairing screen.
Unpaired == [screen |-> "pairing", uses |-> NoToken, busy |-> FALSE, socket |-> FALSE,
             resetting |-> FALSE]
\* ConnectedApp, just mounted.
Connected(token) == [Unpaired EXCEPT !.screen = "dashboard", !.uses = token]

Init ==
    /\ pairing = NoCode /\ codes = 0 /\ wrong = <<>> /\ devices = <<>>
    /\ phone = [p \in Phones |-> Unpaired]
    /\ storage = [p \in Phones |-> [token |-> NoToken, asked |-> <<>>, late |-> FALSE]]
    /\ calls = {} /\ faults = 0

Fault == faults < MaxFaults /\ faults' = faults + 1

-----------------------------------------------------------------------------
(* The laptop.                                                             *)

\* generate_code; the one before is forgotten.
GenerateCode ==
    /\ codes < MaxCodes /\ codes' = codes + 1
    /\ \E d \in Digits :
         pairing' = [number |-> codes', digits |-> d, left |-> MaxAttempts]
    /\ wrong' = Append(wrong, 0)
    /\ UNCHANGED <<devices, phone, storage, calls, faults>>

\* Its time is over: no answer tells it from a code that is not there.
CodeExpires ==
    /\ pairing.number # 0 /\ pairing' = NoCode
    /\ UNCHANGED <<codes, wrong, devices, phone, storage, calls, faults>>

\* The device is refused from now on: its token expires, or the desktop
\* revokes it, before or after that.
Refuse(t, status) ==
    /\ \/ status = "expired" /\ devices[t].status = "valid"
       \/ status = "revoked" /\ devices[t].status # "revoked"
    /\ devices' = [devices EXCEPT ![t].status = status]
    /\ UNCHANGED <<pairing, codes, wrong, phone, storage, calls, faults>>

Becomes(c, fields) == calls' = (calls \ {c}) \cup {fields}
Answers(c, answer) == Becomes(c, [c EXCEPT !.step = "answered", !.answer = answer])

\* Faulty variant: the code is read under the lock and forgotten afterwards.
ChecksOnly(c) ==
    /\ c \in calls /\ c.kind = "pair" /\ c.step = "sent"
    /\ IF pairing.number = 0
       THEN Answers(c, "error") /\ UNCHANGED <<pairing, wrong>>
       ELSE IF pairing.left = 0
       THEN Answers(c, "error") /\ UNCHANGED <<pairing, wrong>>
       ELSE IF c.digits # pairing.digits
       THEN /\ pairing' = [pairing EXCEPT !.left = @ - 1]
            /\ wrong' = [wrong EXCEPT ![pairing.number] = @ + 1]
            /\ Answers(c, "error")
       ELSE /\ Becomes(c, [c EXCEPT !.step = "matched", !.code = pairing.number])
            /\ UNCHANGED <<pairing, wrong>>
    /\ UNCHANGED <<codes, devices, phone, storage, faults>>

\* Faulty variant: the right digits are let in however often others failed.
ChecksUnlimited(c) ==
    /\ c \in calls /\ c.kind = "pair" /\ c.step = "sent"
    /\ IF pairing.number = 0
       THEN Answers(c, "error") /\ UNCHANGED <<pairing, wrong>>
       ELSE IF c.digits # pairing.digits
       THEN /\ pairing' = [pairing EXCEPT !.left = IF @ = 0 THEN 0 ELSE @ - 1]
            /\ wrong' = [wrong EXCEPT ![pairing.number] = @ + 1]
            /\ Answers(c, "error")
       ELSE /\ pairing' = NoCode
            /\ Becomes(c, [c EXCEPT !.step = "matched", !.code = pairing.number])
            /\ UNCHANGED wrong
    /\ UNCHANGED <<codes, devices, phone, storage, faults>>

\* pair, under the lock: the code is used up by a match ...
Checks(c) ==
    /\ c \in calls /\ c.kind = "pair" /\ c.step = "sent"
    /\ \/ /\ pairing.number = 0 \/ pairing.left = 0
          /\ Answers(c, "error") /\ UNCHANGED <<pairing, wrong>>
       \/ /\ pairing.number # 0 /\ pairing.left > 0
          /\ IF c.digits = pairing.digits
             THEN /\ pairing' = NoCode
                  /\ Becomes(c, [c EXCEPT !.step = "matched", !.code = pairing.number])
                  /\ UNCHANGED wrong
             ELSE /\ pairing' = [pairing EXCEPT !.left = @ - 1]
                  /\ wrong' = [wrong EXCEPT ![pairing.number] = @ + 1]
                  /\ Answers(c, "error")
    /\ UNCHANGED <<codes, devices, phone, storage, faults>>

\* ... and outside of it the device is inserted, with a token of its own.
Inserts(c) ==
    /\ c \in calls /\ c.kind = "pair" /\ c.step = "matched"
    /\ devices' = Append(devices, [code |-> c.code, phone |-> c.phone, status |-> "valid"])
    /\ Becomes(c, [c EXCEPT !.step = "answered", !.answer = "paired", !.token = Len(devices')])
    /\ UNCHANGED <<pairing, codes, wrong, phone, storage, faults>>

\* The agent ends and starts again: the code is gone, the devices stay.
Restart ==
    /\ Fault /\ pairing' = NoCode
    /\ calls' = {IF c.step = "answered" THEN c
                 ELSE [c EXCEPT !.step = "answered", !.answer = "error"] : c \in calls}
    /\ UNCHANGED <<codes, wrong, devices, phone, storage>>

-----------------------------------------------------------------------------
(* The phone.                                                              *)

Now(p, state) == phone' = [phone EXCEPT ![p] = state]
AsksStorage(p, request) == storage' = [storage EXCEPT ![p].asked = Append(@, request)]
Asking(p, kind, token, digits) ==
    [phone |-> p, kind |-> kind, step |-> "sent", answer |-> "", token |-> token,
     digits |-> digits, code |-> 0, current |-> TRUE, resetting |-> FALSE]

\* CONNECT; POST is not repeated.
Connect(p, digits) ==
    /\ phone[p].screen = "pairing" /\ ~phone[p].busy
    /\ Cardinality({c \in calls : c.phone = p}) < 2
    /\ ~\E c \in calls : c.phone = p /\ c.kind = "pair"
    /\ Now(p, [phone[p] EXCEPT !.busy = TRUE])
    /\ calls' = calls \cup {Asking(p, "pair", NoToken, digits)}
    /\ UNCHANGED <<pairing, codes, wrong, devices, storage, faults>>

Answered(c, kind) == c \in calls /\ c.kind = kind /\ c.step = "answered" /\ calls' = calls \ {c}

PairAnswered(c) ==
    LET p == c.phone IN
    /\ Answered(c, "pair")
    /\ IF ~c.current THEN UNCHANGED <<phone, storage>>
       ELSE IF c.answer = "paired"
       THEN AsksStorage(p, [token |-> c.token, leaves |-> FALSE]) /\ UNCHANGED phone
       ELSE Now(p, [phone[p] EXCEPT !.busy = FALSE]) /\ UNCHANGED storage
    /\ UNCHANGED <<pairing, codes, wrong, devices, faults>>

\* The time limit of a request, or a connection that fails: the phone gives up,
\* the agent may not have.
GivesUp(c) ==
    LET p == c.phone IN
    /\ Fault /\ c \in calls /\ c.current
    /\ IF c.kind = "pair"
       THEN /\ Becomes(c, [c EXCEPT !.current = FALSE])
            /\ Now(p, [phone[p] EXCEPT !.busy = FALSE])
       ELSE calls' = calls \ {c} /\ UNCHANGED phone
    /\ UNCHANGED <<pairing, codes, wrong, devices, storage>>

\* The dashboard that made these calls is gone; that it was reset stays known to
\* them.
Orphaned(p) ==
    {IF c.phone = p THEN [c EXCEPT !.current = FALSE, !.resetting = phone[p].resetting] ELSE c :
        c \in calls}

\* setStored(null).
Leaves(p) ==
    IF phone[p].screen = "dashboard" THEN Now(p, Unpaired) /\ calls' = Orphaned(p)
    ELSE UNCHANGED <<phone, calls>>

\* Faulty variant: the phone goes to the dashboard although nothing was saved.
StorageFailsUnseen(p) ==
    LET request == Head(storage[p].asked) IN
    /\ Fault /\ storage[p].asked # <<>>
    /\ storage' = [storage EXCEPT ![p].asked = Tail(@)]
    /\ IF request.token # NoToken THEN Now(p, Connected(request.token)) /\ UNCHANGED calls
       ELSE IF request.leaves THEN Leaves(p) ELSE UNCHANGED <<phone, calls>>
    /\ UNCHANGED <<pairing, codes, wrong, devices>>

\* The storage fails.  Only expireConnection goes on all the same.
StorageFails(p) ==
    LET request == Head(storage[p].asked) IN
    /\ Fault /\ storage[p].asked # <<>>
    /\ storage' = [storage EXCEPT ![p].asked = Tail(@)]
    /\ IF request.token # NoToken THEN Now(p, [phone[p] EXCEPT !.busy = FALSE]) /\ UNCHANGED calls
       ELSE IF request.leaves THEN Leaves(p) ELSE UNCHANGED <<phone, calls>>
    /\ UNCHANGED <<pairing, codes, wrong, devices>>

\* The storage does what it was asked first: saveConnection, then onPaired, or
\* clearConnection, then onDisconnect.
StorageEnds(p) ==
    LET request == Head(storage[p].asked) IN
    /\ storage[p].asked # <<>>
    /\ storage' = [storage EXCEPT ![p].token = request.token, ![p].asked = Tail(@)]
    /\ IF request.token # NoToken THEN Now(p, Connected(request.token)) /\ UNCHANGED calls
       ELSE Leaves(p)
    /\ UNCHANGED <<pairing, codes, wrong, devices, faults>>

\* Whatever the dashboard asks the agent for, one request at a time: the
\* middleware authenticates it when it comes, the phone hears of it any time
\* later.
Use(p) ==
    /\ phone[p].screen = "dashboard"
    /\ ~\E c \in calls : c.phone = p
    /\ calls' = calls \cup
         {[Asking(p, "use", phone[p].uses, CHOOSE d \in Digits : TRUE) EXCEPT
             !.step = "answered", !.answer = devices[phone[p].uses].status]}
    /\ UNCHANGED <<pairing, codes, wrong, devices, phone, storage, faults>>

\* expireConnection, once in the life of a dashboard.
Expires(p) ==
    IF phone[p].resetting THEN UNCHANGED <<phone, storage>>
    ELSE /\ Now(p, [phone[p] EXCEPT !.resetting = TRUE, !.socket = FALSE])
         /\ AsksStorage(p, [token |-> NoToken, leaves |-> TRUE])

\* handleError heeds 401 only.  A dashboard that is gone still answers to it,
\* unless it was reset itself.
UseAnswered(c) ==
    LET p == c.phone IN
    /\ Answered(c, "use")
    /\ IF c.answer # "expired" THEN UNCHANGED <<phone, storage>>
       ELSE IF c.current THEN Expires(p)
       ELSE IF c.resetting THEN UNCHANGED <<phone, storage>>
       ELSE /\ storage' = [storage EXCEPT ![p].late = TRUE,
                             ![p].asked = Append(@, [token |-> NoToken, leaves |-> TRUE])]
            /\ UNCHANGED phone
    /\ UNCHANGED <<pairing, codes, wrong, devices, faults>>

Refused(p) == phone[p].screen = "dashboard" /\ devices[phone[p].uses].status # "valid"

\* Faulty variant: a device that was revoked only loses its socket.
SocketChecksToken(p) ==
    /\ phone[p].socket /\ Refused(p)
    /\ IF devices[phone[p].uses].status = "revoked"
       THEN UNCHANGED <<phone, storage>> ELSE Expires(p)
    /\ UNCHANGED <<pairing, codes, wrong, devices, calls, faults>>

\* The stream authenticates its token again, at every event and every five
\* seconds, and closes with 4401 or 4403.
SocketCloses(p) ==
    /\ phone[p].socket /\ Refused(p)
    /\ Expires(p)
    /\ UNCHANGED <<pairing, codes, wrong, devices, calls, faults>>

\* A session is followed; the agent lets the phone in, or it does not.
SocketOpens(p) ==
    /\ phone[p].screen = "dashboard" /\ ~phone[p].socket /\ ~phone[p].resetting
    /\ IF Refused(p) THEN Expires(p)
       ELSE Now(p, [phone[p] EXCEPT !.socket = TRUE]) /\ UNCHANGED storage
    /\ UNCHANGED <<pairing, codes, wrong, devices, calls, faults>>

\* DISCONNECT PHONE, which is never disabled.
Disconnect(p) ==
    /\ phone[p].screen = "dashboard" /\ Len(storage[p].asked) < MaxAsked
    /\ Now(p, [phone[p] EXCEPT !.socket = FALSE])
    /\ AsksStorage(p, [token |-> NoToken, leaves |-> FALSE])
    /\ UNCHANGED <<pairing, codes, wrong, devices, calls, faults>>

\* The app is killed; when it is started again it loads its connection, and
\* pairs when it cannot.
Killed(p) ==
    /\ Fault
    /\ \/ storage[p].token # NoToken /\ Now(p, Connected(storage[p].token))
       \/ Now(p, Unpaired)
    /\ storage' = [storage EXCEPT ![p].asked = <<>>]
    /\ calls' = {IF c.phone = p THEN [c EXCEPT !.current = FALSE] ELSE c :
                   c \in {d \in calls : d.phone # p \/ d.kind = "pair"}}
    /\ UNCHANGED <<pairing, codes, wrong, devices>>

-----------------------------------------------------------------------------

Laptop ==
    \/ GenerateCode \/ CodeExpires \/ Restart
    \/ \E t \in DOMAIN devices, status \in {"expired", "revoked"} : Refuse(t, status)

AgentAnswers(c) == Checks(c) \/ Inserts(c)
PhoneHears(c) == PairAnswered(c) \/ UseAnswered(c)

PhoneActs(p) ==
    \/ Use(p) \/ SocketOpens(p) \/ Disconnect(p) \/ Killed(p)
    \/ \E digits \in Digits : Connect(p, digits)

Next ==
    \/ Laptop
    \/ \E c \in calls : AgentAnswers(c) \/ PhoneHears(c) \/ GivesUp(c)
    \/ \E p \in Phones : PhoneActs(p) \/ StorageEnds(p) \/ StorageFails(p) \/ SocketCloses(p)

Spec == Init /\ [][Next]_vars

\* The agent checks its streams, and the storage does what it is asked.
FairSpec == Spec /\ \A p \in Phones : WF_vars(SocketCloses(p))
                                     /\ WF_vars(StorageEnds(p) \/ StorageFails(p))

-----------------------------------------------------------------------------

Tokens == 0..MaxCodes
TypeOK ==
    /\ pairing \in [number: 0..MaxCodes, digits: Digits, left: 0..MaxAttempts]
    /\ codes \in 0..MaxCodes /\ Len(wrong) = codes
    /\ \A t \in DOMAIN devices : devices[t] \in
         [code: 1..MaxCodes, phone: Phones, status: {"valid", "expired", "revoked"}]
    /\ phone \in [Phones -> [screen: {"pairing", "dashboard"}, uses: Tokens,
                             busy: BOOLEAN, socket: BOOLEAN, resetting: BOOLEAN]]
    /\ \A p \in Phones :
         /\ storage[p].token \in Tokens
         /\ phone[p].screen = "dashboard" => phone[p].uses \in DOMAIN devices
    /\ \A c \in calls : c.phone \in Phones /\ c.kind \in {"pair", "use"}
    /\ faults \in 0..MaxFaults

\* A code pairs one device, although the device is inserted after the lock was
\* let go, phones ask at the same time and a new code may have the same digits.
OneDevicePerCode ==
    \A n \in 1..codes :
        Cardinality({t \in DOMAIN devices : devices[t].code = n})
            + Cardinality({c \in calls : c.step = "matched" /\ c.code = n}) <= 1

\* Nobody pairs by trying: no more wrong guesses at a code count than its
\* attempts, by all phones together, and none pairs after the last.
GuessesAreLimited ==
    \A n \in 1..codes :
        /\ wrong[n] <= MaxAttempts
        /\ (\E t \in DOMAIN devices : devices[t].code = n) => wrong[n] < MaxAttempts

\* A phone on the dashboard finds its credential again when it is started anew:
\* it is the one in the secure storage.  But an answer 401 that comes when its
\* dashboard was disconnected and another one is there empties the storage of it.
CredentialIsKept ==
    \A p \in Phones :
        (phone[p].screen = "dashboard" /\ storage[p].asked = <<>> /\ ~storage[p].late)
            => storage[p].token = phone[p].uses

\* A phone whose token expired or was revoked returns to pairing from a session
\* that it follows, whatever else goes on and even when its storage fails; only
\* the person may be first, and stop to follow the session.
RefusedReturns ==
    \A p \in Phones :
        (phone[p].socket /\ Refused(p)) ~>
            (phone[p].screen # "dashboard" \/ ~(phone[p].socket \/ phone[p].resetting))

\* docs/mobile-app.md:46: "An expired or revoked credential is removed from
\* secure storage and returns the app directly to secure pairing instead of
\* leaving an unusable disconnected dashboard."  But a revoked device is answered
\* 403, and the phone heeds 401.
RefusalIsHeeded ==
    [][\A c \in calls \ calls' :
        (c.kind = "use" /\ c.current /\ c.answer \in {"expired", "revoked"} /\ faults' = faults)
            => phone'[c.phone].resetting \/ phone'[c.phone].screen # "dashboard"]_vars
=============================================================================
