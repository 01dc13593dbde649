------------------------ MODULE DevicePairingProofs ------------------------
(***************************************************************************)
(* The safety properties of DevicePairing, for all phones, digits and      *)
(* bounds.  CodeInv is about the agent: a code that was matched is gone    *)
(* and stays so, and the guesses add up.  KeptInv is about the phones:     *)
(* what a phone waits for, what it asked of its storage and which screen   *)
(* it shows fit together.  A call is a record with the fields Fields; what *)
(* an answer may be is not needed.                                         *)
(***************************************************************************)
EXTENDS DevicePairing, FiniteSetTheorems, TLAPS

\* The fields of a call.
Fields == {"phone", "kind", "step", "answer", "token", "digits", "code", "current", "resetting"}

CallsTyped == \A c \in calls : DOMAIN c = Fields /\ c.phone \in Phones
Device == [code: Nat, phone: Phones, status: {"valid", "expired", "revoked"}]

CodesTyped ==
    /\ codes \in Nat /\ wrong \in Seq(Nat) /\ Len(wrong) = codes
    /\ DOMAIN pairing = {"number", "digits", "left"}
    /\ pairing.number \in 0..codes /\ pairing.left \in Nat

Typed == CodesTyped /\ CallsTyped /\ devices \in Seq(Device)

\* A code that paired a device is known, gone, and was guessed in time.
Spent(n) == n \in 1..codes /\ n # pairing.number /\ wrong[n] < MaxAttempts

SpentCodes ==
    /\ \A c \in calls : c.step = "matched" => Spent(c.code)
    /\ \A t \in DOMAIN devices : Spent(devices[t].code)

Apart ==
    /\ \A c, d \in calls :
         (c.step = "matched" /\ d.step = "matched" /\ c.code = d.code) => c = d
    /\ \A t, u \in DOMAIN devices : devices[t].code = devices[u].code => t = u
    /\ \A c \in calls, t \in DOMAIN devices : c.step = "matched" => c.code # devices[t].code

\* The attempts that are left and the wrong guesses make up what was given.
Guesses ==
    /\ \A n \in 1..codes : wrong[n] <= MaxAttempts
    /\ pairing.number # 0 => pairing.left + wrong[pairing.number] = MaxAttempts

CodeInv == Typed /\ SpentCodes /\ Apart /\ Guesses

\* What most steps do to codes and calls: no code is made or matched, and the
\* calls that matched one are the same, some perhaps dropped or marked.
CallsComeFrom ==
    /\ CallsTyped'
    /\ \A c \in calls' : c.step = "matched" =>
         \E d \in calls : d.step = "matched" /\ d.code = c.code
    /\ \A c, d \in calls' :
         (c.step = "matched" /\ d.step = "matched" /\ c.code = d.code) => c = d

-----------------------------------------------------------------------------
(* What becomes of a call.                                                 *)

LEMMA CallMatched ==
    ASSUME NEW c, DOMAIN c = Fields, NEW w
    PROVE  LET e == [c EXCEPT !.step = "matched", !.code = w] IN
           /\ DOMAIN e = Fields /\ e.step = "matched" /\ e.code = w /\ e.phone = c.phone
           /\ e.kind = c.kind /\ e.current = c.current
           /\ e.answer = c.answer /\ e.token = c.token
BY DEF Fields

LEMMA CallAnswered ==
    ASSUME NEW c, DOMAIN c = Fields, NEW w
    PROVE  LET e == [c EXCEPT !.step = "answered", !.answer = w] IN
           /\ DOMAIN e = Fields /\ e.step = "answered" /\ e.phone = c.phone
           /\ e.kind = c.kind /\ e.current = c.current /\ e.answer = w
BY DEF Fields

LEMMA CallPaired ==
    ASSUME NEW c, DOMAIN c = Fields, NEW v, NEW w
    PROVE  LET e == [c EXCEPT !.step = "answered", !.answer = v, !.token = w] IN
           /\ DOMAIN e = Fields /\ e.step = "answered" /\ e.phone = c.phone
           /\ e.kind = c.kind /\ e.current = c.current /\ e.token = w
BY DEF Fields

LEMMA CallLeft ==
    ASSUME NEW c, DOMAIN c = Fields, NEW v
    PROVE  LET e == [c EXCEPT !.current = v] IN
           /\ DOMAIN e = Fields /\ e.step = c.step /\ e.code = c.code /\ e.phone = c.phone
           /\ e.kind = c.kind /\ e.current = v /\ e.answer = c.answer /\ e.token = c.token
BY DEF Fields

LEMMA CallOrphaned ==
    ASSUME NEW c, DOMAIN c = Fields, NEW v, NEW w
    PROVE  LET e == [c EXCEPT !.current = v, !.resetting = w] IN
           /\ DOMAIN e = Fields /\ e.step = c.step /\ e.code = c.code /\ e.phone = c.phone
           /\ e.kind = c.kind /\ e.current = v /\ e.answer = c.answer /\ e.token = c.token
BY DEF Fields

LEMMA CallAsked ==
    ASSUME NEW p, NEW k, NEW t, NEW d
    PROVE  LET e == Asking(p, k, t, d) IN
           /\ DOMAIN e = Fields /\ e.step = "sent" /\ e.phone = p
           /\ e.kind = k /\ e.current = TRUE /\ e.answer = ""
BY DEF Fields, Asking

LEMMA CallUsed ==
    ASSUME NEW p, NEW k, NEW t, NEW d, NEW v
    PROVE  LET e == [Asking(p, k, t, d) EXCEPT !.step = "answered", !.answer = v] IN
           /\ DOMAIN e = Fields /\ e.step = "answered" /\ e.phone = p
           /\ e.kind = k /\ e.current = TRUE
BY DEF Fields, Asking

-----------------------------------------------------------------------------
(* The agent: codes, guesses and devices.                                  *)

LEMMA Carries ==
    ASSUME CodeInv, CallsComeFrom, UNCHANGED <<codes, wrong, devices>>,
           pairing' = pairing \/ pairing' = NoCode
    PROVE  CodeInv'
<1>1. /\ pairing'.number \in {0, pairing.number} /\ pairing'.left \in Nat
      /\ DOMAIN pairing' = {"number", "digits", "left"}
      /\ pairing'.number # 0 => pairing'.left = pairing.left
  BY DEF CodeInv, Typed, CodesTyped, NoCode
<1>2. Typed'
  BY <1>1 DEF CodeInv, Typed, CodesTyped, CallsComeFrom, CallsTyped
<1>3. \A n : Spent(n) => Spent(n)'
  BY <1>1 DEF Spent
<1>4. SpentCodes'
  BY <1>3 DEF CodeInv, SpentCodes, CallsComeFrom
<1>5. Apart'
  BY DEF CodeInv, Apart, CallsComeFrom
<1>6. Guesses'
  BY <1>1 DEF CodeInv, Guesses
<1> QED
  BY <1>2, <1>4, <1>5, <1>6 DEF CodeInv

LEMMA FewerCalls ==
    ASSUME CodeInv, NEW e, calls' \subseteq calls \cup {e},
           DOMAIN e = Fields, e.phone \in Phones, e.step # "matched"
    PROVE  CallsComeFrom
BY DEF CodeInv, Typed, CallsTyped, Apart, CallsComeFrom

LEMMA RefuseKeeps ==
    ASSUME CodeInv, NEW t \in DOMAIN devices, NEW status \in {"expired", "revoked"},
           Refuse(t, status)
    PROVE  CodeInv'
<1>1. /\ devices' \in Seq(Device) /\ DOMAIN devices' = DOMAIN devices
      /\ \A u \in DOMAIN devices : devices'[u].code = devices[u].code
  <2> DEFINE d == [devices[t] EXCEPT !.status = status]
  <2>1. devices \in Seq(Device) /\ devices[t] \in Device
    BY DEF CodeInv, Typed
  <2>2. d \in Device /\ d.code = devices[t].code
    BY <2>1 DEF Device
  <2>3. devices' = [devices EXCEPT ![t] = d]
    BY DEF Refuse
  <2> HIDE DEF d
  <2> QED
    BY <2>1, <2>2, <2>3
<1> QED
  BY <1>1 DEF CodeInv, Typed, CodesTyped, CallsTyped, SpentCodes, Spent, Apart, Guesses, Refuse

LEMMA GenerateKeeps ==
    ASSUME CodeInv, GenerateCode
    PROVE  CodeInv'
<1>1. /\ codes' = codes + 1 /\ pairing'.number = codes' /\ pairing'.left = MaxAttempts
      /\ DOMAIN pairing' = {"number", "digits", "left"}
  BY DEF GenerateCode
<1>2. /\ wrong' \in Seq(Nat) /\ Len(wrong') = codes' /\ wrong'[codes'] = 0
      /\ \A n \in 1..codes : wrong'[n] = wrong[n]
  BY <1>1 DEF GenerateCode, CodeInv, Typed, CodesTyped
<1>3. \A n : Spent(n) => Spent(n)'
  BY <1>1, <1>2 DEF Spent, CodeInv, Typed, CodesTyped
<1>4. UNCHANGED <<devices, calls>>
  BY DEF GenerateCode
<1>5. Typed'
  BY <1>1, <1>2, <1>4, PairingAssumption DEF CodeInv, Typed, CodesTyped, CallsTyped
<1>6. SpentCodes' /\ Apart'
  BY <1>3, <1>4 DEF CodeInv, SpentCodes, Apart
<1>7. Guesses'
  BY <1>1, <1>2, PairingAssumption DEF CodeInv, Typed, CodesTyped, Guesses
<1> QED
  BY <1>5, <1>6, <1>7 DEF CodeInv

LEMMA ChecksKeeps ==
    ASSUME CodeInv, NEW c, Checks(c)
    PROVE  CodeInv'
<1> DEFINE e == [c EXCEPT !.step = "answered", !.answer = "error"]
           m == [c EXCEPT !.step = "matched", !.code = pairing.number]
<1>1. /\ DOMAIN c = Fields /\ c.phone \in Phones /\ c \in calls
      /\ UNCHANGED <<codes, devices>>
  BY DEF CodeInv, Typed, CallsTyped, Checks
<1>2. DOMAIN e = Fields /\ e.phone \in Phones /\ e.step = "answered"
  BY <1>1, CallAnswered
<1>3. DOMAIN m = Fields /\ m.phone \in Phones /\ m.step = "matched" /\ m.code = pairing.number
  BY <1>1, CallMatched
<1>4. CASE Answers(c, "error") /\ UNCHANGED <<pairing, wrong>>
  <2>1. CallsComeFrom
    <3> HIDE DEF e
    <3>1. calls' \subseteq calls \cup {e}
      BY <1>4 DEF Answers, Becomes, e
    <3> QED BY <3>1, <1>2, FewerCalls
  <2> QED BY <2>1, <1>1, <1>4, Carries
<1>5. CASE /\ pairing.number # 0 /\ pairing.left > 0
           /\ pairing' = [pairing EXCEPT !.left = @ - 1]
           /\ wrong' = [wrong EXCEPT ![pairing.number] = @ + 1]
           /\ Answers(c, "error")
  <2>1. CallsComeFrom
    <3> HIDE DEF e
    <3>1. calls' \subseteq calls \cup {e}
      BY <1>5 DEF Answers, Becomes, e
    <3> QED BY <3>1, <1>2, FewerCalls
  <2>2. /\ DOMAIN pairing' = {"number", "digits", "left"} /\ pairing'.number = pairing.number
        /\ pairing'.left = pairing.left - 1 /\ pairing'.left \in Nat
    BY <1>5 DEF CodeInv, Typed, CodesTyped
  <2>3. /\ wrong' \in Seq(Nat) /\ Len(wrong') = codes /\ pairing.number \in 1..codes
        /\ wrong'[pairing.number] = wrong[pairing.number] + 1
        /\ \A n \in 1..codes : n # pairing.number => wrong'[n] = wrong[n]
    BY <1>5 DEF CodeInv, Typed, CodesTyped
  <2>4. \A n : Spent(n) => Spent(n)'
    BY <1>1, <2>2, <2>3 DEF Spent
  <2>5. Typed'
    BY <1>1, <2>1, <2>2, <2>3 DEF CodeInv, Typed, CodesTyped, CallsComeFrom
  <2>6. SpentCodes'
    BY <1>1, <2>1, <2>4 DEF CodeInv, SpentCodes, CallsComeFrom
  <2>7. Apart'
    BY <1>1, <2>1 DEF CodeInv, Apart, CallsComeFrom
  <2>8. Guesses'
    <3>1. wrong[pairing.number] \in Nat /\ pairing.left \in Nat /\ pairing.left > 0
      BY <1>5, <2>3 DEF CodeInv, Typed, CodesTyped
    <3>2. pairing.left + wrong[pairing.number] = MaxAttempts
      BY <1>5 DEF CodeInv, Guesses
    <3>3. pairing'.left + wrong'[pairing.number] = MaxAttempts /\ wrong'[pairing.number] <= MaxAttempts
      BY <3>1, <3>2, <2>2, <2>3, PairingAssumption
    <3> QED
      BY <3>3, <1>1, <2>2, <2>3 DEF CodeInv, Guesses
  <2> QED
    BY <2>5, <2>6, <2>7, <2>8 DEF CodeInv
<1>6. CASE /\ pairing.number # 0 /\ pairing.left > 0 /\ pairing' = NoCode
           /\ Becomes(c, m) /\ UNCHANGED wrong
  <2> HIDE DEF m
  <2>1. calls' = (calls \ {c}) \cup {m}
    BY <1>6 DEF Becomes
  <2>2. pairing'.number = 0 /\ pairing'.left = 0 /\ DOMAIN pairing' = {"number", "digits", "left"}
    BY <1>6 DEF NoCode
  <2>3. \A n : Spent(n) => Spent(n)'
    BY <1>1, <1>6, <2>2 DEF Spent
  <2>4. m.code \in 1..codes /\ m.code # 0 /\ wrong[m.code] < MaxAttempts
    <3>1. pairing.number \in 1..codes /\ wrong[pairing.number] \in Nat
      BY <1>6 DEF CodeInv, Typed, CodesTyped
    <3> QED
      BY <3>1, <1>3, <1>6, PairingAssumption DEF CodeInv, Typed, CodesTyped, Guesses
  <2>5. Typed'
    BY <1>1, <1>3, <1>6, <2>1, <2>2 DEF CodeInv, Typed, CodesTyped, CallsTyped
  <2>6. SpentCodes'
    BY <1>1, <1>3, <1>6, <2>1, <2>2, <2>3, <2>4 DEF CodeInv, SpentCodes, Spent
  <2>7. Apart'
    BY <1>1, <1>3, <2>1 DEF CodeInv, Apart, SpentCodes, Spent
  <2>8. Guesses'
    BY <1>1, <1>6, <2>2 DEF CodeInv, Guesses
  <2> QED
    BY <2>5, <2>6, <2>7, <2>8 DEF CodeInv
<1> QED
  BY <1>4, <1>5, <1>6 DEF Checks

LEMMA InsertsKeeps ==
    ASSUME CodeInv, NEW c, Inserts(c)
    PROVE  CodeInv'
<1> DEFINE e == [c EXCEPT !.step = "answered", !.answer = "paired", !.token = Len(devices')]
           r == [code |-> c.code, phone |-> c.phone, status |-> "valid"]
<1>1. /\ DOMAIN c = Fields /\ c.phone \in Phones /\ c \in calls /\ c.step = "matched"
      /\ UNCHANGED <<pairing, codes, wrong>> /\ Spent(c.code)
  BY DEF CodeInv, Typed, CallsTyped, Inserts, SpentCodes
<1>2. DOMAIN e = Fields /\ e.phone \in Phones /\ e.step = "answered"
  BY <1>1, CallPaired
<1>3. r \in Device /\ r.code = c.code
  BY <1>1 DEF Spent, Device, CodeInv, Typed, CodesTyped
<1> HIDE DEF e, r
<1>4. calls' = (calls \ {c}) \cup {e} /\ devices' = Append(devices, r)
  BY DEF Inserts, Becomes, e, r
<1>5. /\ devices' \in Seq(Device) /\ DOMAIN devices' = 1..(Len(devices) + 1)
      /\ DOMAIN devices = 1..Len(devices) /\ Len(devices) \in Nat
      /\ devices'[Len(devices) + 1] = r
      /\ \A t \in DOMAIN devices : devices'[t] = devices[t]
  BY <1>3, <1>4 DEF CodeInv, Typed
<1>6. \A t \in DOMAIN devices' : t \in DOMAIN devices \/ (t = Len(devices) + 1)
  BY <1>5
<1>7. Typed'
  BY <1>1, <1>2, <1>4, <1>5 DEF CodeInv, Typed, CodesTyped, CallsTyped
<1>8. SpentCodes'
  BY <1>1, <1>2, <1>3, <1>4, <1>5, <1>6 DEF CodeInv, SpentCodes, Spent
<1>9. Apart'
  <2>1. \A d \in calls' : d.step = "matched" => d \in calls /\ d.code # c.code
    BY <1>1, <1>2, <1>4 DEF CodeInv, Apart
  <2>2. \A t \in DOMAIN devices : devices[t].code # c.code
    BY <1>1 DEF CodeInv, Apart
  <2>3. \A t, u \in DOMAIN devices' : devices'[t].code = devices'[u].code => t = u
    BY <2>2, <1>3, <1>5, <1>6 DEF CodeInv, Apart
  <2>4. \A d \in calls', t \in DOMAIN devices' : d.step = "matched" => d.code # devices'[t].code
    BY <2>1, <1>3, <1>5, <1>6 DEF CodeInv, Apart
  <2> QED BY <2>1, <2>3, <2>4 DEF CodeInv, Apart
<1>10. Guesses'
  BY <1>1 DEF CodeInv, Guesses
<1> QED
  BY <1>7, <1>8, <1>9, <1>10 DEF CodeInv

LEMMA SameCalls ==
    ASSUME CodeInv, calls' \subseteq calls
    PROVE  CallsComeFrom
BY DEF CodeInv, Typed, CallsTyped, Apart, CallsComeFrom

\* Calls that are marked one by one are as many, of the same codes.
LEMMA MarkedCalls ==
    ASSUME CodeInv, NEW f,
           calls' = {f[c] : c \in calls},
           \A c \in calls : /\ DOMAIN f[c] = Fields /\ f[c].phone = c.phone
                            /\ f[c].step = "matched" => c.step = "matched" /\ f[c].code = c.code
    PROVE  CallsComeFrom
BY DEF CodeInv, Typed, CallsTyped, Apart, CallsComeFrom

LEMMA OrphanedKeeps ==
    ASSUME CodeInv, NEW p, calls' = Orphaned(p)
    PROVE  CallsComeFrom
<1> DEFINE f == [c \in calls |->
                   IF c.phone = p
                   THEN [c EXCEPT !.current = FALSE, !.resetting = phone[p].resetting] ELSE c]
<1>1. \A c \in calls : /\ DOMAIN f[c] = Fields /\ f[c].phone = c.phone
                       /\ f[c].step = "matched" => c.step = "matched" /\ f[c].code = c.code
  BY CallOrphaned DEF CodeInv, Typed, CallsTyped
<1>2. calls' = {f[c] : c \in calls}
  BY DEF Orphaned
<1> QED
  BY <1>1, <1>2, MarkedCalls

LEMMA LeavesKeeps ==
    ASSUME CodeInv, NEW p, Leaves(p)
    PROVE  CallsComeFrom
BY OrphanedKeeps, SameCalls DEF Leaves

LEMMA RestartKeeps ==
    ASSUME CodeInv, Restart
    PROVE  CallsComeFrom
<1> DEFINE f == [c \in calls |->
                   IF c.step = "answered" THEN c
                   ELSE [c EXCEPT !.step = "answered", !.answer = "error"]]
<1>1. \A c \in calls : /\ DOMAIN f[c] = Fields /\ f[c].phone = c.phone
                       /\ f[c].step = "matched" => c.step = "matched" /\ f[c].code = c.code
  BY CallAnswered DEF CodeInv, Typed, CallsTyped
<1>2. calls' = {f[c] : c \in calls}
  BY DEF Restart
<1> QED
  BY <1>1, <1>2, MarkedCalls

LEMMA KilledKeeps ==
    ASSUME CodeInv, NEW p, Killed(p)
    PROVE  CallsComeFrom
<1> DEFINE mark(c) == IF c.phone = p THEN [c EXCEPT !.current = FALSE] ELSE c
<1>1. \A c \in calls : /\ DOMAIN mark(c) = Fields /\ mark(c).phone = c.phone
                       /\ mark(c).step = c.step /\ mark(c).code = c.code
  BY CallLeft DEF CodeInv, Typed, CallsTyped
<1>2. \A e \in calls' : \E c \in calls : e = mark(c)
  BY DEF Killed
<1> HIDE DEF mark
<1> QED
  BY <1>1, <1>2 DEF CodeInv, Typed, CallsTyped, Apart, CallsComeFrom

LEMMA GivesUpKeeps ==
    ASSUME CodeInv, NEW c, GivesUp(c)
    PROVE  CallsComeFrom
<1> DEFINE e == [c EXCEPT !.current = FALSE]
<1>1. c \in calls /\ DOMAIN c = Fields /\ c.phone \in Phones
  BY DEF GivesUp, CodeInv, Typed, CallsTyped
<1>2. DOMAIN e = Fields /\ e.step = c.step /\ e.code = c.code /\ e.phone = c.phone
  BY <1>1, CallLeft
<1>3. calls' \subseteq calls \/ calls' = (calls \ {c}) \cup {e}
  BY DEF GivesUp, Becomes
<1> HIDE DEF e
<1> QED
  BY <1>1, <1>2, <1>3, SameCalls DEF CodeInv, Typed, CallsTyped, Apart, CallsComeFrom

LEMMA PhoneKeeps ==
    ASSUME CodeInv, NEW p \in Phones,
           PhoneActs(p) \/ StorageEnds(p) \/ StorageFails(p) \/ SocketCloses(p)
    PROVE  CodeInv'
<1>1. UNCHANGED <<pairing, codes, wrong, devices>>
  BY DEF PhoneActs, Use, SocketOpens, Disconnect, Killed, Connect, StorageEnds, StorageFails,
         SocketCloses
<1>2. CallsComeFrom
  <2>1. CASE Use(p)
    <3> DEFINE e == [Asking(p, "use", phone[p].uses, CHOOSE d \in Digits : TRUE) EXCEPT
                       !.step = "answered", !.answer = devices[phone[p].uses].status]
    <3>1. calls' = calls \cup {e}
      BY <2>1 DEF Use
    <3>2. DOMAIN e = Fields /\ e.step = "answered" /\ e.phone = p
      BY DEF Asking, Fields
    <3> HIDE DEF e
    <3> QED BY <3>1, <3>2, FewerCalls
  <2>2. CASE \E digits \in Digits : Connect(p, digits)
    <3>1. PICK digits \in Digits : calls' = calls \cup {Asking(p, "pair", NoToken, digits)}
      BY <2>2 DEF Connect
    <3> DEFINE e == Asking(p, "pair", NoToken, digits)
    <3>2. DOMAIN e = Fields /\ e.step = "sent" /\ e.phone = p
      BY DEF Asking, Fields
    <3> HIDE DEF e
    <3>3. calls' = calls \cup {e}
      BY <3>1 DEF e
    <3> QED BY <3>2, <3>3, FewerCalls
  <2>3. CASE Killed(p)
    BY <2>3, KilledKeeps
  <2>4. CASE SocketOpens(p) \/ Disconnect(p) \/ SocketCloses(p)
    BY <2>4, SameCalls DEF SocketOpens, Disconnect, SocketCloses
  <2>5. CASE StorageEnds(p) \/ StorageFails(p)
    BY <2>5, LeavesKeeps, SameCalls DEF StorageEnds, StorageFails
  <2> QED
    BY <2>1, <2>2, <2>3, <2>4, <2>5 DEF PhoneActs
<1> QED
  BY <1>1, <1>2, Carries

LEMMA CallKeeps ==
    ASSUME CodeInv, NEW c \in calls, AgentAnswers(c) \/ PhoneHears(c) \/ GivesUp(c)
    PROVE  CodeInv'
<1>1. CASE AgentAnswers(c)
  BY <1>1, ChecksKeeps, InsertsKeeps DEF AgentAnswers
<1>2. CASE PhoneHears(c)
  BY <1>2, SameCalls, Carries DEF PhoneHears, PairAnswered, UseAnswered, Answered
<1>3. CASE GivesUp(c)
  BY <1>3, GivesUpKeeps, Carries DEF GivesUp
<1> QED
  BY <1>1, <1>2, <1>3

\* What is known of a code, of the attempts at it and of the devices it paired
\* holds always.
THEOREM CodesInvariant == Spec => []CodeInv
<1>1. Init => CodeInv
  BY PairingAssumption DEF Init, NoCode, CodeInv, Typed, CodesTyped, CallsTyped, SpentCodes, Apart,
     Guesses
<1>2. CodeInv /\ [Next]_vars => CodeInv'
  <2> SUFFICES ASSUME CodeInv, [Next]_vars PROVE CodeInv'
    OBVIOUS
  <2>1. CASE Laptop
    <3>1. CASE CodeExpires
      BY <3>1, SameCalls, Carries DEF CodeExpires
    <3>2. CASE Restart
      BY <3>2, RestartKeeps, Carries DEF Restart
    <3> QED
      BY <2>1, <3>1, <3>2, GenerateKeeps, RefuseKeeps DEF Laptop
  <2>2. CASE UNCHANGED vars
    BY <2>2, SameCalls, Carries DEF vars
  <2> QED
    BY <2>1, <2>2, CallKeeps, PhoneKeeps DEF Next
<1> QED
  BY <1>1, <1>2, PTL DEF Spec

LEMMA AtMostOne ==
    ASSUME NEW S, \A x, y \in S : x = y
    PROVE  S = {} \/ Cardinality(S) = 1
<1>1. ASSUME NEW x \in S PROVE Cardinality(S) = 1
  <2>1. S = {x}
    OBVIOUS
  <2> QED
    BY <2>1, FS_Singleton
<1> QED
  BY <1>1

\* A code pairs one device at most, whichever phones asked for it and whenever
\* the registry got round to insert the device (DeviceRegistry.pair).
THEOREM CodePairsOnce == Spec => []OneDevicePerCode
<1>1. CodeInv => OneDevicePerCode
  <2> SUFFICES ASSUME CodeInv, NEW n \in 1..codes
               PROVE  Cardinality({t \in DOMAIN devices : devices[t].code = n})
                        + Cardinality({c \in calls : c.step = "matched" /\ c.code = n}) <= 1
    BY DEF OneDevicePerCode
  <2> DEFINE D == {t \in DOMAIN devices : devices[t].code = n}
             M == {c \in calls : c.step = "matched" /\ c.code = n}
  <2>1. D = {} \/ M = {}
    BY DEF CodeInv, Apart
  <2>2. D = {} \/ Cardinality(D) = 1
    BY AtMostOne DEF CodeInv, Apart
  <2>3. M = {} \/ Cardinality(M) = 1
    BY AtMostOne DEF CodeInv, Apart
  <2> HIDE DEF D, M
  <2>4. Cardinality({}) = 0
    BY FS_EmptySet
  <2>5. Cardinality(D) + Cardinality(M) <= 1
    BY <2>1, <2>2, <2>3, <2>4
  <2> QED
    BY <2>5 DEF D, M
<1> QED
  BY <1>1, CodesInvariant, PTL

\* The wrong guesses at a code, by all phones together, are no more than its
\* attempts, and fewer at one that paired a device.
THEOREM GuessingIsLimited == Spec => []GuessesAreLimited
<1>1. CodeInv => GuessesAreLimited
  BY DEF CodeInv, Guesses, SpentCodes, Spent, GuessesAreLimited
<1> QED
  BY <1>1, CodesInvariant, PTL

-----------------------------------------------------------------------------
(* The phones: their screens, their storages and what they wait for.       *)

PhoneState == [screen: {"pairing", "dashboard"}, uses: Nat, busy: BOOLEAN, socket: BOOLEAN,
               resetting: BOOLEAN]
Request == [token: Nat, leaves: BOOLEAN]
Secure == [token: Nat, asked: Seq(Request), late: BOOLEAN]

CallTyped(c) ==
    /\ c.kind \in {"pair", "use"} /\ c.current \in BOOLEAN
    /\ (c.kind = "pair" /\ c.answer = "paired") => c.token \in Nat \ {0}

AppTyped ==
    /\ phone \in [Phones -> PhoneState] /\ storage \in [Phones -> Secure]
    /\ \A c \in calls : CallTyped(c)

\* The calls that a phone waits for.
Awaited(p) == {c \in calls : c.phone = p /\ c.current = TRUE}
Pairs(p) == {c \in Awaited(p) : c.kind = "pair"}

Alone(p) == \A c, d \in Pairs(p) : c = d

\* What was asked of a storage saves nothing, or in the end.
NoSave(a) == \A i \in 1..Len(a) : a[i].token = NoToken
SaveLast(a) == \A i \in 1..Len(a) : i = Len(a) \/ a[i].token = NoToken

Kept(p) ==
    /\ phone[p].screen = "dashboard" =>
         storage[p].token = phone[p].uses /\ Pairs(p) = {} /\ NoSave(storage[p].asked)
    /\ phone[p].screen = "pairing" => \A c \in Awaited(p) : c.kind = "pair"
    /\ Pairs(p) # {} => phone[p].busy = TRUE /\ NoSave(storage[p].asked)
    /\ SaveLast(storage[p].asked)
    /\ NoSave(storage[p].asked) \/ phone[p].busy = TRUE
    /\ Alone(p)

KeptInv == AppTyped /\ \A p \in Phones : storage[p].late = FALSE => Kept(p)

LEMMA StateMarked ==
    ASSUME NEW s \in PhoneState, NEW b \in BOOLEAN
    PROVE  /\ [s EXCEPT !.busy = b] \in PhoneState
           /\ [s EXCEPT !.busy = b].screen = s.screen
           /\ [s EXCEPT !.busy = b].uses = s.uses
           /\ [s EXCEPT !.busy = b].busy = b
BY DEF PhoneState

LEMMA StateSocket ==
    ASSUME NEW s \in PhoneState, NEW b \in BOOLEAN
    PROVE  /\ [s EXCEPT !.socket = b] \in PhoneState
           /\ [s EXCEPT !.socket = b].screen = s.screen
           /\ [s EXCEPT !.socket = b].uses = s.uses
           /\ [s EXCEPT !.socket = b].busy = s.busy
BY DEF PhoneState

LEMMA StateResetting ==
    ASSUME NEW s \in PhoneState
    PROVE  LET r == [s EXCEPT !.resetting = TRUE, !.socket = FALSE] IN
           r \in PhoneState /\ r.screen = s.screen /\ r.uses = s.uses /\ r.busy = s.busy
BY DEF PhoneState

LEMMA StateUnpaired ==
    Unpaired \in PhoneState /\ Unpaired.screen = "pairing" /\ Unpaired.busy = FALSE
BY DEF PhoneState, Unpaired, NoToken

LEMMA StateConnected ==
    ASSUME NEW t \in Nat
    PROVE  Connected(t) \in PhoneState /\ Connected(t).screen = "dashboard" /\ Connected(t).uses = t
BY DEF PhoneState, Connected, Unpaired, NoToken

LEMMA AskedLast ==
    ASSUME NEW a \in Seq(Request), NEW r \in Request
    PROVE  /\ Append(a, r) \in Seq(Request)
           /\ NoSave(a) => SaveLast(Append(a, r))
           /\ (NoSave(a) /\ r.token = NoToken) => NoSave(Append(a, r))
BY DEF NoSave, SaveLast, Request

LEMMA HeadAsked ==
    ASSUME NEW a \in Seq(Request), a # <<>>
    PROVE  Head(a) \in Request /\ Head(a).token \in Nat /\ Tail(a) \in Seq(Request)
<1>1. Head(a) \in Request /\ Tail(a) \in Seq(Request)
  OBVIOUS
<1> QED
  BY <1>1 DEF Request

LEMMA AskedFirst ==
    ASSUME NEW a \in Seq(Request), a # <<>>, SaveLast(a)
    PROVE  /\ Head(a) \in Request /\ Tail(a) \in Seq(Request) /\ SaveLast(Tail(a))
           /\ NoSave(a) => Head(a).token = NoToken /\ NoSave(Tail(a))
           /\ Head(a).token # NoToken => NoSave(Tail(a))
<1> DEFINE t == Tail(a)
<1>1. /\ Len(a) \in Nat \ {0} /\ Head(a) = a[1] /\ a[1] \in Request
      /\ t \in Seq(Request) /\ Len(t) = Len(a) - 1
      /\ \A i \in 1..(Len(a) - 1) : t[i] = a[i + 1]
  OBVIOUS
<1> HIDE DEF t
<1>2. 1 \in 1..Len(a)
  BY <1>1
<1>4. ASSUME NEW i \in 1..Len(t)
      PROVE  i + 1 \in 1..Len(a) /\ t[i] = a[i + 1] /\ (i + 1 = Len(a) => i = Len(t))
  <2>1. i \in 1..(Len(a) - 1) /\ i + 1 \in 1..Len(a)
    BY <1>1
  <2> QED BY <2>1, <1>1
<1>5. SaveLast(t)
  <2> SUFFICES ASSUME NEW i \in 1..Len(t) PROVE i = Len(t) \/ t[i].token = NoToken
    BY DEF SaveLast
  <2> QED BY <1>4 DEF SaveLast
<1>6. ASSUME NoSave(a) PROVE a[1].token = NoToken /\ NoSave(t)
  <2>1. a[1].token = NoToken
    BY <1>2, <1>6 DEF NoSave
  <2>2. ASSUME NEW i \in 1..Len(t) PROVE t[i].token = NoToken
    BY <1>4, <1>6 DEF NoSave
  <2> QED BY <2>1, <2>2 DEF NoSave
<1>7. ASSUME a[1].token # NoToken PROVE NoSave(t)
  <2>1. Len(a) = 1
    BY <1>2, <1>7 DEF SaveLast
  <2>2. 1..Len(t) = {}
    BY <2>1, <1>1
  <2> QED BY <2>2 DEF NoSave
<1> QED
  BY <1>1, <1>5, <1>6, <1>7 DEF t

LEMMA AsksStorageIs ==
    ASSUME AppTyped, NEW p \in Phones, NEW r \in Request, AsksStorage(p, r)
    PROVE  /\ storage' \in [Phones -> Secure]
           /\ \A q \in Phones \ {p} : storage'[q] = storage[q]
           /\ storage'[p].asked = Append(storage[p].asked, r)
           /\ storage'[p].token = storage[p].token /\ storage'[p].late = storage[p].late
<1> DEFINE n == [storage[p] EXCEPT !.asked = Append(storage[p].asked, r)]
<1>1. storage[p] \in Secure /\ storage[p].asked \in Seq(Request)
  BY DEF AppTyped, Secure
<1>2. Append(storage[p].asked, r) \in Seq(Request)
  BY <1>1
<1>3. /\ n \in Secure /\ n.asked = Append(storage[p].asked, r)
      /\ n.token = storage[p].token /\ n.late = storage[p].late
  BY <1>1, <1>2 DEF Secure
<1>4. storage' = [storage EXCEPT ![p] = n]
  BY DEF AsksStorage
<1> HIDE DEF n
<1> QED
  BY <1>3, <1>4 DEF AppTyped

LEMMA NowIs ==
    ASSUME AppTyped, NEW p \in Phones, NEW s \in PhoneState, Now(p, s)
    PROVE  /\ phone' \in [Phones -> PhoneState] /\ phone'[p] = s
           /\ \A q \in Phones \ {p} : phone'[q] = phone[q]
BY DEF AppTyped, Now

\* The calls that a phone waits for are those it waited for, or fewer.
From(p) ==
    /\ \A c \in Awaited(p)' : \E d \in Awaited(p) : d.kind = c.kind
    /\ Alone(p) => Alone(p)'

LEMMA PairsFrom ==
    ASSUME NEW p, From(p), Pairs(p) = {}
    PROVE  Pairs(p)' = {}
BY DEF From, Pairs

LEMMA KeptFrame ==
    ASSUME NEW p, Kept(p), phone'[p] = phone[p], storage'[p] = storage[p], From(p)
    PROVE  Kept(p)'
<1>1. Pairs(p)' # {} => Pairs(p) # {}
  BY PairsFrom
<1>2. Alone(p)'
  BY DEF Kept, From
<1>3. phone[p].screen = "pairing" => \A c \in Awaited(p)' : c.kind = "pair"
  BY DEF Kept, From
<1> QED
  BY <1>1, <1>2, <1>3 DEF Kept

LEMMA OneMoves ==
    ASSUME KeptInv, NEW p \in Phones,
           phone' \in [Phones -> PhoneState], storage' \in [Phones -> Secure],
           \A c \in calls' : CallTyped(c),
           \A q \in Phones \ {p} : phone'[q] = phone[q] /\ storage'[q] = storage[q] /\ From(q),
           storage'[p].late = FALSE => Kept(p)'
    PROVE  KeptInv'
<1>1. AppTyped'
  BY DEF AppTyped
<1>2. ASSUME NEW q \in Phones, storage'[q].late = FALSE PROVE Kept(q)'
  BY <1>2, KeptFrame DEF KeptInv
<1> QED
  BY <1>1, <1>2 DEF KeptInv

LEMMA NoneMoves ==
    ASSUME KeptInv, UNCHANGED <<phone, storage>>,
           \A c \in calls' : CallTyped(c), \A q \in Phones : From(q)
    PROVE  KeptInv'
<1>1. AppTyped'
  BY DEF KeptInv, AppTyped
<1>2. ASSUME NEW q \in Phones, storage'[q].late = FALSE PROVE Kept(q)'
  BY <1>2, KeptFrame DEF KeptInv
<1> QED
  BY <1>1, <1>2 DEF KeptInv

LEMMA CallsFewer ==
    ASSUME KeptInv, calls' \subseteq calls
    PROVE  (\A c \in calls' : CallTyped(c)) /\ \A q \in Phones : From(q)
BY DEF KeptInv, AppTyped, From, Awaited, Pairs, Alone

LEMMA CallsBecome ==
    ASSUME KeptInv, NEW c \in calls, NEW e, calls' = (calls \ {c}) \cup {e}, CallTyped(e),
           e.phone = c.phone, e.kind = c.kind, e.current = TRUE => c.current = TRUE
    PROVE  (\A d \in calls' : CallTyped(d)) /\ \A q \in Phones : From(q)
<1>1. \A d \in calls' : CallTyped(d)
  BY DEF KeptInv, AppTyped
<1>2. ASSUME NEW q \in Phones PROVE From(q)
  <2>1. \A d \in Awaited(q)' : \E x \in Awaited(q) : x.kind = d.kind
    BY DEF Awaited
  <2>2. Alone(q) => Alone(q)'
    BY DEF Alone, Pairs, Awaited
  <2> QED BY <2>1, <2>2 DEF From
<1> QED
  BY <1>1, <1>2

LEMMA CallsMarked ==
    ASSUME KeptInv, NEW S \in SUBSET calls, NEW f, calls' = {f[c] : c \in S},
           \A c \in S : /\ CallTyped(f[c]) /\ f[c].phone = c.phone /\ f[c].kind = c.kind
                        /\ f[c].current = TRUE => c.current = TRUE
    PROVE  (\A d \in calls' : CallTyped(d)) /\ \A q \in Phones : From(q)
<1>1. \A d \in calls' : CallTyped(d)
  OBVIOUS
<1>2. ASSUME NEW q \in Phones PROVE From(q)
  <2>1. \A d \in Awaited(q)' : \E x \in Awaited(q) : x.kind = d.kind
    BY DEF Awaited
  <2>2. Alone(q) => Alone(q)'
    BY DEF Alone, Pairs, Awaited
  <2> QED BY <2>1, <2>2 DEF From
<1> QED
  BY <1>1, <1>2

LEMMA AgentKept ==
    ASSUME CodeInv, KeptInv, NEW c, AgentAnswers(c)
    PROVE  KeptInv'
<1>1. /\ c \in calls /\ DOMAIN c = Fields /\ CallTyped(c) /\ UNCHANGED <<phone, storage>>
  BY DEF CodeInv, Typed, CallsTyped, KeptInv, AppTyped, AgentAnswers, Checks, Inserts
<1>2. CASE Answers(c, "error")
  <2> DEFINE e == [c EXCEPT !.step = "answered", !.answer = "error"]
  <2>1. e.phone = c.phone /\ e.kind = c.kind /\ e.current = c.current /\ e.answer = "error"
    BY <1>1, CallAnswered
  <2>2. calls' = (calls \ {c}) \cup {e}
    BY <1>2 DEF Answers, Becomes
  <2> HIDE DEF e
  <2>3. CallTyped(e)
    BY <2>1, <1>1 DEF CallTyped
  <2> QED BY <1>1, <2>1, <2>2, <2>3, CallsBecome, NoneMoves
<1>3. CASE Becomes(c, [c EXCEPT !.step = "matched", !.code = pairing.number])
  <2> DEFINE e == [c EXCEPT !.step = "matched", !.code = pairing.number]
  <2>1. /\ e.phone = c.phone /\ e.kind = c.kind /\ e.current = c.current
        /\ e.answer = c.answer /\ e.token = c.token
    BY <1>1, CallMatched
  <2>2. calls' = (calls \ {c}) \cup {e}
    BY <1>3 DEF Becomes
  <2> HIDE DEF e
  <2>3. CallTyped(e)
    BY <2>1, <1>1 DEF CallTyped
  <2> QED BY <1>1, <2>1, <2>2, <2>3, CallsBecome, NoneMoves
<1>4. CASE Inserts(c)
  <2> DEFINE e == [c EXCEPT !.step = "answered", !.answer = "paired", !.token = Len(devices')]
  <2>1. /\ e.phone = c.phone /\ e.kind = c.kind /\ e.current = c.current
        /\ e.token = Len(devices')
    BY <1>1, CallPaired
  <2>2. calls' = (calls \ {c}) \cup {e}
    BY <1>4 DEF Inserts, Becomes
  <2>3. Len(devices') \in Nat \ {0}
    <3>1. devices \in Seq(Device) /\ Len(devices) \in Nat
      BY DEF CodeInv, Typed
    <3> QED BY <1>4, <3>1 DEF Inserts
  <2> HIDE DEF e
  <2>4. CallTyped(e)
    BY <2>1, <2>3, <1>1 DEF CallTyped
  <2> QED BY <1>1, <2>1, <2>2, <2>4, CallsBecome, NoneMoves
<1> QED
  BY <1>2, <1>3, <1>4 DEF AgentAnswers, Checks

LEMMA RestartKept ==
    ASSUME CodeInv, KeptInv, Restart
    PROVE  KeptInv'
<1> DEFINE f == [c \in calls |->
                   IF c.step = "answered" THEN c
                   ELSE [c EXCEPT !.step = "answered", !.answer = "error"]]
<1>1. \A c \in calls : /\ CallTyped(f[c]) /\ f[c].phone = c.phone /\ f[c].kind = c.kind
                       /\ f[c].current = TRUE => c.current = TRUE
  BY CallAnswered DEF CodeInv, Typed, CallsTyped, KeptInv, AppTyped, CallTyped
<1>2. calls' = {f[c] : c \in calls} /\ UNCHANGED <<phone, storage>>
  BY DEF Restart
<1> HIDE DEF f
<1> QED
  BY <1>1, <1>2, CallsMarked, NoneMoves

LEMMA AnsweredFewer ==
    ASSUME KeptInv, NEW c, NEW kind, Answered(c, kind)
    PROVE  /\ c \in calls /\ c.kind = kind /\ CallTyped(c)
           /\ \A d \in calls' : CallTyped(d)
           /\ \A q \in Phones : From(q)
           /\ Pairs(c.phone)' = Pairs(c.phone) \ {c}
<1>1. c \in calls /\ c.kind = kind /\ CallTyped(c) /\ calls' = calls \ {c}
  BY DEF KeptInv, AppTyped, Answered
<1> QED
  BY <1>1, CallsFewer DEF Pairs, Awaited

LEMMA PairAnsweredKept ==
    ASSUME CodeInv, KeptInv, NEW c, PairAnswered(c)
    PROVE  KeptInv'
<1> DEFINE p == c.phone
<1>1. /\ c \in calls /\ c.kind = "pair" /\ CallTyped(c) /\ p \in Phones
      /\ \A d \in calls' : CallTyped(d)
      /\ \A q \in Phones : From(q)
      /\ Pairs(p)' = Pairs(p) \ {c}
  BY AnsweredFewer DEF PairAnswered, CodeInv, Typed, CallsTyped
<1>2. CASE ~c.current
  BY <1>1, <1>2, NoneMoves DEF PairAnswered
<1>3. CASE c.current
  <2>1. c \in Pairs(p)
    BY <1>1, <1>3 DEF Pairs, Awaited, CallTyped
  <2>2. phone[p] \in PhoneState /\ storage[p] \in Secure /\ storage[p].asked \in Seq(Request)
    BY <1>1 DEF KeptInv, AppTyped, Secure
  <2>3. phone[p].screen \in {"pairing", "dashboard"}
    BY <2>2 DEF PhoneState
  <2>4. ASSUME Kept(p)
        PROVE  /\ phone[p].screen = "pairing" /\ phone[p].busy = TRUE
               /\ NoSave(storage[p].asked) /\ Pairs(p)' = {} /\ Alone(p)'
               /\ \A d \in Awaited(p)' : d.kind = "pair"
    BY <2>1, <2>3, <2>4, <1>1 DEF Kept, Alone, From
  <2>5. CASE c.answer = "paired"
    <3> DEFINE r == [token |-> c.token, leaves |-> FALSE]
    <3>1. r \in Request /\ AsksStorage(p, r) /\ UNCHANGED phone
      BY <1>1, <1>3, <2>5 DEF CallTyped, Request, PairAnswered
    <3> HIDE DEF r
    <3>2. /\ storage' \in [Phones -> Secure]
          /\ \A q \in Phones \ {p} : storage'[q] = storage[q]
          /\ storage'[p].asked = Append(storage[p].asked, r)
          /\ storage'[p].late = storage[p].late
      BY <3>1, <1>1, AsksStorageIs DEF KeptInv
    <3>3. ASSUME storage'[p].late = FALSE PROVE Kept(p)'
      <4>1. Kept(p)
        BY <3>2, <3>3, <1>1 DEF KeptInv
      <4>2. SaveLast(storage'[p].asked)
        BY <4>1, <2>4, <2>2, <3>1, <3>2, AskedLast
      <4> QED BY <4>1, <4>2, <2>4, <3>1 DEF Kept
    <3> QED BY <3>1, <3>2, <3>3, <1>1, OneMoves DEF KeptInv, AppTyped
  <2>6. CASE c.answer # "paired"
    <3> DEFINE s == [phone[p] EXCEPT !.busy = FALSE]
    <3>1. Now(p, s) /\ UNCHANGED storage
      BY <1>3, <2>6 DEF PairAnswered
    <3>2. s \in PhoneState /\ s.screen = phone[p].screen /\ s.uses = phone[p].uses
      BY <2>2, StateMarked
    <3> HIDE DEF s
    <3>3. /\ phone' \in [Phones -> PhoneState] /\ phone'[p] = s
          /\ \A q \in Phones \ {p} : phone'[q] = phone[q]
      BY <3>1, <3>2, <1>1, NowIs DEF KeptInv
    <3>4. ASSUME storage'[p].late = FALSE PROVE Kept(p)'
      <4>1. Kept(p)
        BY <3>1, <3>4, <1>1 DEF KeptInv
      <4> QED BY <4>1, <2>4, <3>1, <3>2, <3>3 DEF Kept
    <3> QED BY <3>1, <3>3, <3>4, <1>1, OneMoves DEF KeptInv, AppTyped
  <2> QED BY <2>5, <2>6
<1> QED
  BY <1>2, <1>3

LEMMA GivesUpKept ==
    ASSUME CodeInv, KeptInv, NEW c, GivesUp(c)
    PROVE  KeptInv'
<1> DEFINE p == c.phone
<1>1. /\ c \in calls /\ DOMAIN c = Fields /\ CallTyped(c) /\ p \in Phones
      /\ UNCHANGED storage /\ c.current = TRUE
  BY DEF GivesUp, CodeInv, Typed, CallsTyped, KeptInv, AppTyped, CallTyped
<1>2. CASE c.kind = "pair"
  <2> DEFINE e == [c EXCEPT !.current = FALSE]
             s == [phone[p] EXCEPT !.busy = FALSE]
  <2>1. calls' = (calls \ {c}) \cup {e} /\ Now(p, s)
    BY <1>2 DEF GivesUp, Becomes
  <2>2. /\ e.phone = c.phone /\ e.kind = c.kind /\ e.current = FALSE
        /\ e.answer = c.answer /\ e.token = c.token
    BY <1>1, CallLeft
  <2>3. s \in PhoneState /\ s.screen = phone[p].screen /\ s.uses = phone[p].uses
    <3>1. phone[p] \in PhoneState
      BY <1>1 DEF KeptInv, AppTyped
    <3> QED BY <3>1, StateMarked
  <2> HIDE DEF e, s
  <2>4. CallTyped(e)
    BY <2>2, <1>1 DEF CallTyped
  <2>5. (\A d \in calls' : CallTyped(d)) /\ \A q \in Phones : From(q)
    BY <1>1, <2>1, <2>2, <2>4, CallsBecome
  <2>6. /\ phone' \in [Phones -> PhoneState] /\ phone'[p] = s
        /\ \A q \in Phones \ {p} : phone'[q] = phone[q]
    BY <2>1, <2>3, <1>1, NowIs DEF KeptInv
  <2>7. Pairs(p)' = Pairs(p) \ {c} /\ c \in Pairs(p)
    BY <2>1, <2>2, <1>1, <1>2 DEF Pairs, Awaited
  <2>8. ASSUME storage'[p].late = FALSE PROVE Kept(p)'
    <3>1. Kept(p)
      BY <2>8, <1>1 DEF KeptInv
    <3>2. NoSave(storage[p].asked) /\ Pairs(p)' = {}
      BY <3>1, <2>7 DEF Kept, Alone
    <3> QED BY <3>1, <3>2, <2>3, <2>5, <2>6, <1>1 DEF Kept, From, Alone
  <2> QED BY <2>5, <2>6, <2>8, <1>1, OneMoves DEF KeptInv, AppTyped
<1>3. CASE c.kind # "pair"
  BY <1>1, <1>3, CallsFewer, NoneMoves DEF GivesUp
<1> QED
  BY <1>2, <1>3

LEMMA OrphanedKept ==
    ASSUME CodeInv, KeptInv, NEW p \in Phones, calls' = Orphaned(p)
    PROVE  /\ \A d \in calls' : CallTyped(d)
           /\ \A q \in Phones : From(q)
           /\ Awaited(p)' = {}
<1> DEFINE f == [c \in calls |->
                   IF c.phone = p
                   THEN [c EXCEPT !.current = FALSE, !.resetting = phone[p].resetting] ELSE c]
<1>1. \A c \in calls : /\ CallTyped(f[c]) /\ f[c].phone = c.phone /\ f[c].kind = c.kind
                       /\ f[c].current = TRUE => c.current = TRUE
                       /\ c.phone = p => f[c].current = FALSE
  <2> SUFFICES ASSUME NEW c \in calls
               PROVE  /\ CallTyped(f[c]) /\ f[c].phone = c.phone /\ f[c].kind = c.kind
                      /\ f[c].current = TRUE => c.current = TRUE
                      /\ c.phone = p => f[c].current = FALSE
    OBVIOUS
  <2> DEFINE e == [c EXCEPT !.current = FALSE, !.resetting = phone[p].resetting]
  <2>1. DOMAIN c = Fields /\ CallTyped(c)
    BY DEF CodeInv, Typed, CallsTyped, KeptInv, AppTyped
  <2>2. /\ e.phone = c.phone /\ e.kind = c.kind /\ e.current = FALSE
        /\ e.answer = c.answer /\ e.token = c.token
    BY <2>1, CallOrphaned
  <2>3. f[c] = IF c.phone = p THEN e ELSE c
    OBVIOUS
  <2> HIDE DEF e, f
  <2> QED
    BY <2>1, <2>2, <2>3 DEF CallTyped
<1>2. calls' = {f[c] : c \in calls}
  BY DEF Orphaned
<1> HIDE DEF f
<1>3. Awaited(p)' = {}
  BY <1>1, <1>2 DEF Awaited
<1>4. \A c \in calls : /\ CallTyped(f[c]) /\ f[c].phone = c.phone /\ f[c].kind = c.kind
                       /\ f[c].current = TRUE => c.current = TRUE
  BY <1>1
<1>5. calls \in SUBSET calls
  OBVIOUS
<1> QED
  BY <1>2, <1>3, <1>4, <1>5, CallsMarked

\* A phone without calls, on the pairing screen.
LEMMA UnpairedKept ==
    ASSUME NEW p, phone'[p] = Unpaired, Awaited(p)' = {}, NoSave(storage'[p].asked)
    PROVE  Kept(p)'
BY StateUnpaired DEF Kept, Pairs, Alone, NoSave, SaveLast

LEMMA StorageKept ==
    ASSUME CodeInv, KeptInv, NEW p \in Phones, StorageEnds(p) \/ StorageFails(p)
    PROVE  KeptInv'
<1> DEFINE a == storage[p].asked
           request == Head(a)
<1>1. /\ phone[p] \in PhoneState /\ storage[p] \in Secure /\ a \in Seq(Request) /\ a # <<>>
  BY DEF KeptInv, AppTyped, Secure, StorageEnds, StorageFails
<1>2. request \in Request /\ request.token \in Nat /\ Tail(a) \in Seq(Request)
  BY <1>1, HeadAsked
<1>3. phone[p].screen \in {"pairing", "dashboard"}
  BY <1>1 DEF PhoneState
<1>4. PICK s \in Secure : /\ storage' = [storage EXCEPT ![p] = s]
                          /\ s.asked = Tail(a) /\ s.late = storage[p].late
                          /\ \/ StorageEnds(p) /\ s.token = request.token
                             \/ StorageFails(p) /\ s.token = storage[p].token
  <2>1. CASE StorageEnds(p)
    <3> DEFINE s == [storage[p] EXCEPT !.token = request.token, !.asked = Tail(a)]
    <3>1. s \in Secure /\ s.asked = Tail(a) /\ s.late = storage[p].late /\ s.token = request.token
      BY <1>1, <1>2 DEF Secure
    <3>2. storage' = [storage EXCEPT ![p] = s]
      BY <2>1 DEF StorageEnds
    <3> QED BY <3>1, <3>2, <2>1
  <2>2. CASE StorageFails(p)
    <3> DEFINE s == [storage[p] EXCEPT !.asked = Tail(a)]
    <3>1. s \in Secure /\ s.asked = Tail(a) /\ s.late = storage[p].late /\ s.token = storage[p].token
      BY <1>1, <1>2 DEF Secure
    <3>2. storage' = [storage EXCEPT ![p] = s]
      BY <2>2 DEF StorageFails
    <3> QED BY <3>1, <3>2, <2>2
  <2> QED BY <2>1, <2>2
<1>5. /\ storage' \in [Phones -> Secure] /\ storage'[p] = s
      /\ \A q \in Phones \ {p} : storage'[q] = storage[q]
  BY <1>4 DEF KeptInv, AppTyped
<1>6. ASSUME storage'[p].late = FALSE
      PROVE  /\ Kept(p) /\ SaveLast(Tail(a))
             /\ NoSave(a) => request.token = NoToken /\ NoSave(Tail(a))
             /\ request.token # NoToken =>
                  /\ NoSave(Tail(a)) /\ Pairs(p) = {} /\ phone[p].busy = TRUE
                  /\ phone[p].screen = "pairing"
  <2>1. Kept(p)
    BY <1>4, <1>5, <1>6 DEF KeptInv
  <2>2. SaveLast(a)
    BY <2>1 DEF Kept
  <2> HIDE DEF a
  <2>3. /\ SaveLast(Tail(a)) /\ (NoSave(a) => Head(a).token = NoToken /\ NoSave(Tail(a)))
        /\ Head(a).token # NoToken => NoSave(Tail(a))
    BY <2>2, <1>1, AskedFirst
  <2>4. ~NoSave(a) => Pairs(p) = {} /\ phone[p].busy = TRUE /\ phone[p].screen = "pairing"
    BY <2>1, <1>3 DEF Kept, a
  <2> QED BY <2>1, <2>3, <2>4
<1> HIDE DEF a, request
\* The phone is left to pair.
<1>7. CASE Leaves(p) /\ request.token = NoToken
  <2>1. CASE phone[p].screen = "dashboard"
    <3>1. Now(p, Unpaired) /\ calls' = Orphaned(p)
      BY <1>7, <2>1 DEF Leaves
    <3>2. /\ \A d \in calls' : CallTyped(d)
          /\ \A q \in Phones : From(q)
          /\ Awaited(p)' = {}
      BY <3>1, OrphanedKept
    <3>3. /\ phone' \in [Phones -> PhoneState] /\ phone'[p] = Unpaired
          /\ \A q \in Phones \ {p} : phone'[q] = phone[q]
      BY <3>1, NowIs, StateUnpaired DEF KeptInv
    <3>4. ASSUME storage'[p].late = FALSE PROVE Kept(p)'
      <4>1. NoSave(a)
        BY <1>6, <3>4, <2>1 DEF Kept, a
      <4>2. NoSave(storage'[p].asked)
        BY <4>1, <1>4, <1>5, <1>6, <3>4
      <4> QED BY <4>2, <3>2, <3>3, UnpairedKept
    <3> QED BY <3>2, <3>3, <3>4, <1>5, OneMoves
  <2>2. CASE phone[p].screen # "dashboard"
    <3>1. UNCHANGED <<phone, calls>>
      BY <1>7, <2>2 DEF Leaves
    <3>2. (\A d \in calls' : CallTyped(d)) /\ \A q \in Phones : From(q)
      BY <3>1, CallsFewer
    <3>3. ASSUME storage'[p].late = FALSE PROVE Kept(p)'
      <4>1. Pairs(p)' = Pairs(p) /\ Awaited(p)' = Awaited(p) /\ Alone(p)' = Alone(p)
        BY <3>1 DEF Pairs, Awaited, Alone
      <4>2. storage'[p].asked = Tail(a)
        BY <1>4, <1>5
      <4> QED BY <4>1, <4>2, <2>2, <3>1, <3>3, <1>6 DEF Kept, a
    <3> QED BY <3>1, <3>2, <3>3, <1>5, OneMoves DEF KeptInv, AppTyped
  <2> QED BY <2>1, <2>2
\* A token was saved.
<1>8. CASE StorageEnds(p) /\ s.token = request.token /\ request.token # NoToken
  <2>1. Now(p, Connected(request.token)) /\ UNCHANGED calls
    BY <1>8 DEF StorageEnds, a, request
  <2>2. /\ phone' \in [Phones -> PhoneState] /\ phone'[p] = Connected(request.token)
        /\ \A q \in Phones \ {p} : phone'[q] = phone[q]
    BY <2>1, <1>2, NowIs, StateConnected DEF KeptInv
  <2>3. (\A d \in calls' : CallTyped(d)) /\ \A q \in Phones : From(q)
    BY <2>1, CallsFewer
  <2>4. ASSUME storage'[p].late = FALSE PROVE Kept(p)'
    <3>1. Pairs(p)' = {} /\ Alone(p)'
      BY <1>6, <1>8, <2>1, <2>4 DEF Pairs, Awaited, Alone
    <3>2. NoSave(storage'[p].asked) /\ storage'[p].token = request.token
      BY <1>4, <1>5, <1>6, <1>8, <2>4
    <3>3. phone'[p].screen = "dashboard" /\ phone'[p].uses = request.token
      BY <2>2, <1>2, StateConnected
    <3> QED BY <3>1, <3>2, <3>3 DEF Kept, NoSave, SaveLast
  <2> QED BY <2>2, <2>3, <2>4, <1>5, OneMoves
\* A token was not saved.
<1>9. CASE StorageFails(p) /\ s.token = storage[p].token /\ request.token # NoToken
  <2> DEFINE n == [phone[p] EXCEPT !.busy = FALSE]
  <2>1. Now(p, n) /\ UNCHANGED calls
    BY <1>9 DEF StorageFails, a, request
  <2>2. n \in PhoneState /\ n.screen = phone[p].screen
    BY <1>1, StateMarked
  <2> HIDE DEF n
  <2>3. /\ phone' \in [Phones -> PhoneState] /\ phone'[p] = n
        /\ \A q \in Phones \ {p} : phone'[q] = phone[q]
    BY <2>1, <2>2, NowIs DEF KeptInv
  <2>4. (\A d \in calls' : CallTyped(d)) /\ \A q \in Phones : From(q)
    BY <2>1, CallsFewer
  <2>5. ASSUME storage'[p].late = FALSE PROVE Kept(p)'
    <3>1. /\ Pairs(p)' = {} /\ Alone(p)' /\ phone[p].screen = "pairing"
          /\ \A c \in Awaited(p)' : c.kind = "pair"
      BY <1>6, <1>9, <2>1, <2>5 DEF Pairs, Awaited, Alone, Kept
    <3>2. NoSave(storage'[p].asked)
      BY <1>4, <1>5, <1>6, <1>9, <2>5
    <3> QED BY <3>1, <3>2, <2>2, <2>3 DEF Kept, NoSave, SaveLast
  <2> QED BY <2>3, <2>4, <2>5, <1>5, OneMoves
\* Clearing fails, and the phone stays.
<1>10. CASE UNCHANGED <<phone, calls>> /\ s.token = storage[p].token /\ request.token = NoToken
  <2>1. (\A d \in calls' : CallTyped(d)) /\ \A q \in Phones : From(q)
    BY <1>10, CallsFewer
  <2>2. ASSUME storage'[p].late = FALSE PROVE Kept(p)'
    <3>1. Pairs(p)' = Pairs(p) /\ Awaited(p)' = Awaited(p) /\ Alone(p)' = Alone(p)
      BY <1>10 DEF Pairs, Awaited, Alone
    <3>2. storage'[p].asked = Tail(a) /\ storage'[p].token = storage[p].token
      BY <1>4, <1>5, <1>10
    <3> QED BY <3>1, <3>2, <2>2, <1>6, <1>10 DEF Kept, a
  <2> QED BY <2>1, <2>2, <1>5, <1>10, OneMoves DEF KeptInv, AppTyped
<1> QED
  BY <1>4, <1>7, <1>8, <1>9, <1>10 DEF StorageEnds, StorageFails, a, request

LEMMA ExpiresKept ==
    ASSUME KeptInv, NEW p \in Phones, Expires(p),
           \A d \in calls' : CallTyped(d), \A q \in Phones : From(q),
           storage[p].late = FALSE => phone[p].screen = "dashboard"
    PROVE  KeptInv'
<1>1. CASE phone[p].resetting
  BY <1>1, NoneMoves DEF Expires
<1>2. CASE ~phone[p].resetting
  <2> DEFINE s == [phone[p] EXCEPT !.resetting = TRUE, !.socket = FALSE]
             r == [token |-> NoToken, leaves |-> TRUE]
  <2>1. Now(p, s) /\ AsksStorage(p, r)
    BY <1>2 DEF Expires
  <2>2. phone[p] \in PhoneState /\ storage[p].asked \in Seq(Request)
    BY DEF KeptInv, AppTyped, Secure
  <2>3. s \in PhoneState /\ s.screen = phone[p].screen /\ s.uses = phone[p].uses
    BY <2>2, StateResetting
  <2>4. r \in Request /\ r.token = NoToken
    BY DEF Request, NoToken
  <2> HIDE DEF s, r
  <2>5. /\ phone' \in [Phones -> PhoneState] /\ phone'[p] = s
        /\ \A q \in Phones \ {p} : phone'[q] = phone[q]
    BY <2>1, <2>3, NowIs DEF KeptInv
  <2>6. /\ storage' \in [Phones -> Secure]
        /\ \A q \in Phones \ {p} : storage'[q] = storage[q]
        /\ storage'[p].asked = Append(storage[p].asked, r)
        /\ storage'[p].token = storage[p].token /\ storage'[p].late = storage[p].late
    BY <2>1, <2>4, AsksStorageIs DEF KeptInv
  <2>7. ASSUME storage'[p].late = FALSE PROVE Kept(p)'
    <3>1. /\ phone[p].screen = "dashboard" /\ storage[p].token = phone[p].uses
          /\ Pairs(p) = {} /\ NoSave(storage[p].asked)
      BY <2>6, <2>7 DEF KeptInv, Kept
    <3>2. Pairs(p)' = {}
      BY <3>1, PairsFrom
    <3>3. NoSave(storage'[p].asked) /\ SaveLast(storage'[p].asked)
      BY <3>1, <2>2, <2>4, <2>6, AskedLast
    <3> QED BY <3>1, <3>2, <3>3, <2>3, <2>5, <2>6 DEF Kept, Alone
  <2> QED BY <2>5, <2>6, <2>7, OneMoves
<1> QED
  BY <1>1, <1>2

LEMMA SocketKept ==
    ASSUME CodeInv, KeptInv, NEW p \in Phones,
           SocketOpens(p) \/ SocketCloses(p) \/ Disconnect(p)
    PROVE  KeptInv'
<1> DEFINE r == [token |-> NoToken, leaves |-> FALSE]
           s(b) == [phone[p] EXCEPT !.socket = b]
<1>1. /\ phone[p].screen = "dashboard" /\ UNCHANGED calls
      /\ phone[p] \in PhoneState /\ storage[p].asked \in Seq(Request)
  BY DEF SocketOpens, SocketCloses, Disconnect, Refused, KeptInv, AppTyped, Secure
<1>2. (\A d \in calls' : CallTyped(d)) /\ \A q \in Phones : From(q)
  BY <1>1, CallsFewer
<1>3. CASE Expires(p)
  BY <1>1, <1>2, <1>3, ExpiresKept
<1>4. \A b \in BOOLEAN : /\ s(b) \in PhoneState /\ s(b).screen = phone[p].screen
                         /\ s(b).uses = phone[p].uses
  BY <1>1, StateSocket
<1>5. r \in Request /\ r.token = NoToken
  BY DEF Request, NoToken
<1>6. CASE \E b \in BOOLEAN : Now(p, s(b)) /\ (UNCHANGED storage \/ AsksStorage(p, r))
  <2>1. PICK b \in BOOLEAN : Now(p, s(b)) /\ (UNCHANGED storage \/ AsksStorage(p, r))
    BY <1>6
  <2> HIDE DEF r, s
  <2>2. /\ phone' \in [Phones -> PhoneState] /\ phone'[p] = s(b)
        /\ \A q \in Phones \ {p} : phone'[q] = phone[q]
    BY <2>1, <1>4, NowIs DEF KeptInv
  <2>3. /\ storage' \in [Phones -> Secure]
        /\ \A q \in Phones \ {p} : storage'[q] = storage[q]
        /\ storage'[p].asked \in {storage[p].asked, Append(storage[p].asked, r)}
        /\ storage'[p].token = storage[p].token /\ storage'[p].late = storage[p].late
    BY <2>1, <1>5, AsksStorageIs DEF KeptInv, AppTyped
  <2>4. ASSUME storage'[p].late = FALSE PROVE Kept(p)'
    <3>1. /\ storage[p].token = phone[p].uses /\ Pairs(p) = {}
          /\ NoSave(storage[p].asked) /\ SaveLast(storage[p].asked)
      BY <2>3, <2>4, <1>1 DEF KeptInv, Kept
    <3>2. Pairs(p)' = {}
      BY <3>1, <1>2, PairsFrom
    <3>3. NoSave(storage'[p].asked) /\ SaveLast(storage'[p].asked)
      BY <3>1, <1>1, <1>5, <2>3, AskedLast
    <3> QED BY <3>1, <3>2, <3>3, <1>1, <1>4, <2>2, <2>3 DEF Kept, Alone
  <2> QED BY <2>2, <2>3, <2>4, <1>2, OneMoves
<1> QED
  BY <1>3, <1>6 DEF SocketOpens, SocketCloses, Disconnect

LEMMA UseKept ==
    ASSUME KeptInv, NEW p \in Phones, Use(p)
    PROVE  KeptInv'
<1> DEFINE e == [Asking(p, "use", phone[p].uses, CHOOSE d \in Digits : TRUE) EXCEPT
                   !.step = "answered", !.answer = devices[phone[p].uses].status]
<1>1. calls' = calls \cup {e} /\ phone[p].screen = "dashboard" /\ UNCHANGED <<phone, storage>>
  BY DEF Use
<1>2. e.phone = p /\ e.kind = "use" /\ e.current = TRUE
  BY DEF Asking
<1> HIDE DEF e
<1>3. \A d \in calls' : CallTyped(d)
  BY <1>1, <1>2 DEF CallTyped, KeptInv, AppTyped
<1>4. \A q \in Phones \ {p} : From(q)
  BY <1>1, <1>2 DEF From, Alone, Pairs, Awaited
<1>5. ASSUME storage'[p].late = FALSE PROVE Kept(p)'
  <2>1. Kept(p)
    BY <1>1, <1>5 DEF KeptInv
  <2>2. Pairs(p)' = Pairs(p)
    BY <1>1, <1>2 DEF Pairs, Awaited
  <2> QED BY <2>1, <2>2, <1>1 DEF Kept, Alone
<1> QED
  BY <1>1, <1>3, <1>4, <1>5, OneMoves DEF KeptInv, AppTyped

LEMMA ConnectKept ==
    ASSUME KeptInv, NEW p \in Phones, NEW digits, Connect(p, digits)
    PROVE  KeptInv'
<1> DEFINE e == Asking(p, "pair", NoToken, digits)
           s == [phone[p] EXCEPT !.busy = TRUE]
<1>1. /\ calls' = calls \cup {e} /\ phone[p].screen = "pairing" /\ ~phone[p].busy
      /\ Now(p, s) /\ UNCHANGED storage
      /\ ~\E c \in calls : c.phone = p /\ c.kind = "pair"
  BY DEF Connect
<1>2. e.phone = p /\ e.kind = "pair" /\ e.current = TRUE /\ e.answer = ""
  BY DEF Asking
<1>3. /\ s \in PhoneState /\ s.screen = phone[p].screen /\ s.uses = phone[p].uses
      /\ s.busy = TRUE
  BY StateMarked DEF KeptInv, AppTyped
<1> HIDE DEF e, s
<1>4. \A d \in calls' : CallTyped(d)
  BY <1>1, <1>2 DEF CallTyped, KeptInv, AppTyped
<1>5. ASSUME NEW q \in Phones \ {p} PROVE From(q)
  <2>1. Awaited(q)' = Awaited(q)
    BY <1>1, <1>2 DEF Awaited
  <2> QED BY <2>1 DEF From, Alone, Pairs
<1>6. /\ phone' \in [Phones -> PhoneState] /\ phone'[p] = s
      /\ \A q \in Phones \ {p} : phone'[q] = phone[q]
  BY <1>1, <1>3, NowIs DEF KeptInv
<1>7. ASSUME storage'[p].late = FALSE PROVE Kept(p)'
  <2>1. Kept(p)
    BY <1>1, <1>7 DEF KeptInv
  <2>2. Awaited(p) = {}
    BY <2>1, <1>1 DEF Kept, Pairs, Awaited
  <2>3. Awaited(p)' = {e} /\ Pairs(p)' = {e}
    BY <2>2, <1>1, <1>2 DEF Pairs, Awaited
  <2>4. NoSave(storage[p].asked)
    BY <2>1, <1>1 DEF Kept
  <2> QED BY <2>1, <2>3, <2>4, <1>1, <1>2, <1>3, <1>6 DEF Kept, Alone
<1> QED
  BY <1>1, <1>4, <1>5, <1>6, <1>7, OneMoves DEF KeptInv, AppTyped

LEMMA UseAnsweredKept ==
    ASSUME CodeInv, KeptInv, NEW c, UseAnswered(c)
    PROVE  KeptInv'
<1> DEFINE p == c.phone
           r == [token |-> NoToken, leaves |-> TRUE]
           n == [storage[p] EXCEPT !.late = TRUE, !.asked = Append(storage[p].asked, r)]
<1>1. /\ c \in calls /\ c.kind = "use" /\ CallTyped(c) /\ p \in Phones
      /\ \A d \in calls' : CallTyped(d)
      /\ \A q \in Phones : From(q)
  BY AnsweredFewer DEF UseAnswered, CodeInv, Typed, CallsTyped
<1>2. CASE UNCHANGED <<phone, storage>>
  BY <1>1, <1>2, NoneMoves
<1>3. CASE c.current /\ Expires(p)
  <2>1. c \in Awaited(p) /\ phone[p].screen \in {"pairing", "dashboard"}
    BY <1>1, <1>3 DEF Awaited, CallTyped, KeptInv, AppTyped, PhoneState
  <2>2. storage[p].late = FALSE => phone[p].screen = "dashboard"
    BY <2>1, <1>1 DEF KeptInv, Kept
  <2> QED BY <2>2, <1>1, <1>3, ExpiresKept
<1>4. CASE storage' = [storage EXCEPT ![p] = n] /\ UNCHANGED phone
  <2>1. storage[p] \in Secure /\ storage[p].asked \in Seq(Request) /\ r \in Request
    BY <1>1 DEF KeptInv, AppTyped, Secure, Request, NoToken
  <2>2. Append(storage[p].asked, r) \in Seq(Request)
    BY <2>1
  <2>3. n \in Secure /\ n.late = TRUE
    BY <2>1, <2>2 DEF Secure
  <2> HIDE DEF n
  <2>4. /\ storage' \in [Phones -> Secure] /\ storage'[p] = n
        /\ \A q \in Phones \ {p} : storage'[q] = storage[q]
    BY <2>3, <1>1, <1>4 DEF KeptInv, AppTyped
  <2> QED BY <2>3, <2>4, <1>1, <1>4, OneMoves DEF KeptInv, AppTyped
<1> QED
  BY <1>2, <1>3, <1>4 DEF UseAnswered

LEMMA KilledKept ==
    ASSUME CodeInv, KeptInv, NEW p \in Phones, Killed(p)
    PROVE  KeptInv'
<1> DEFINE S == {d \in calls : d.phone # p \/ d.kind = "pair"}
           f == [c \in S |-> IF c.phone = p THEN [c EXCEPT !.current = FALSE] ELSE c]
           n == [storage[p] EXCEPT !.asked = <<>>]
<1>1. \A c \in S : /\ CallTyped(f[c]) /\ f[c].phone = c.phone /\ f[c].kind = c.kind
                   /\ f[c].current = TRUE => c.current = TRUE
                   /\ c.phone = p => f[c].current = FALSE
  <2> SUFFICES ASSUME NEW c \in S
               PROVE  /\ CallTyped(f[c]) /\ f[c].phone = c.phone /\ f[c].kind = c.kind
                      /\ f[c].current = TRUE => c.current = TRUE
                      /\ c.phone = p => f[c].current = FALSE
    OBVIOUS
  <2> DEFINE e == [c EXCEPT !.current = FALSE]
  <2>1. DOMAIN c = Fields /\ CallTyped(c)
    BY DEF CodeInv, Typed, CallsTyped, KeptInv, AppTyped
  <2>2. /\ e.phone = c.phone /\ e.kind = c.kind /\ e.current = FALSE
        /\ e.answer = c.answer /\ e.token = c.token
    BY <2>1, CallLeft
  <2>3. f[c] = IF c.phone = p THEN e ELSE c
    OBVIOUS
  <2> HIDE DEF e, f
  <2> QED
    BY <2>1, <2>2, <2>3 DEF CallTyped
<1>2. calls' = {f[c] : c \in S} /\ storage' = [storage EXCEPT ![p] = n]
  BY DEF Killed
<1>3. phone[p] \in PhoneState /\ storage[p] \in Secure /\ storage[p].token \in Nat
  BY DEF KeptInv, AppTyped, Secure
<1>4. n \in Secure /\ n.asked = <<>> /\ n.token = storage[p].token /\ n.late = storage[p].late
  <2>1. <<>> \in Seq(Request)
    OBVIOUS
  <2> QED BY <1>3, <2>1 DEF Secure
<1>5. S \in SUBSET calls
  OBVIOUS
<1> HIDE DEF S, f, n
<1>6. Awaited(p)' = {}
  BY <1>1, <1>2 DEF Awaited
<1>7. \A c \in S : /\ CallTyped(f[c]) /\ f[c].phone = c.phone /\ f[c].kind = c.kind
                   /\ f[c].current = TRUE => c.current = TRUE
  BY <1>1
<1>8. (\A d \in calls' : CallTyped(d)) /\ \A q \in Phones : From(q)
  BY <1>2, <1>5, <1>7, CallsMarked
<1>9. /\ storage' \in [Phones -> Secure] /\ storage'[p] = n
      /\ \A q \in Phones \ {p} : storage'[q] = storage[q]
  BY <1>2, <1>4 DEF KeptInv, AppTyped
<1>10. NoSave(storage'[p].asked)
  BY <1>4, <1>9 DEF NoSave
<1>11. CASE Now(p, Unpaired)
  <2>1. /\ phone' \in [Phones -> PhoneState] /\ phone'[p] = Unpaired
        /\ \A q \in Phones \ {p} : phone'[q] = phone[q]
    BY <1>11, StateUnpaired, NowIs DEF KeptInv
  <2> QED BY <2>1, <1>6, <1>8, <1>9, <1>10, UnpairedKept, OneMoves
<1>12. CASE Now(p, Connected(storage[p].token))
  <2>1. /\ phone' \in [Phones -> PhoneState] /\ phone'[p] = Connected(storage[p].token)
        /\ \A q \in Phones \ {p} : phone'[q] = phone[q]
    BY <1>3, <1>12, StateConnected, NowIs DEF KeptInv
  <2>2. phone'[p].screen = "dashboard" /\ phone'[p].uses = storage'[p].token
    BY <2>1, <1>3, <1>4, <1>9, StateConnected
  <2>3. Kept(p)'
    BY <2>2, <1>6, <1>10 DEF Kept, Pairs, Alone, NoSave, SaveLast
  <2> QED BY <2>1, <2>3, <1>8, <1>9, OneMoves
<1> QED
  BY <1>11, <1>12 DEF Killed

\* What a phone shows, waits for and stores fit together, in every phone whose
\* storage no dashboard that was gone has emptied.
THEOREM ConnectionInvariant == Spec => []KeptInv
<1>1. Init => KeptInv
  <2> SUFFICES ASSUME Init PROVE KeptInv
    OBVIOUS
  <2>1. calls = {} /\ \A p \in Phones : phone[p] = Unpaired /\ storage[p].asked = <<>>
    BY DEF Init
  <2>2. phone \in [Phones -> PhoneState]
    BY StateUnpaired DEF Init
  <2>3. storage \in [Phones -> Secure]
    <3>1. <<>> \in Seq(Request)
      OBVIOUS
    <3>2. [token |-> NoToken, asked |-> <<>>, late |-> FALSE] \in Secure
      BY <3>1 DEF Secure, NoToken
    <3> QED BY <3>2 DEF Init
  <2>4. AppTyped
    BY <2>1, <2>2, <2>3 DEF AppTyped
  <2>5. ASSUME NEW p \in Phones PROVE Kept(p)
    BY <2>1, StateUnpaired DEF Kept, Awaited, Pairs, Alone, NoSave, SaveLast
  <2> QED BY <2>4, <2>5 DEF KeptInv
<1>2. CodeInv /\ KeptInv /\ [Next]_vars => KeptInv'
  <2> SUFFICES ASSUME CodeInv, KeptInv, [Next]_vars PROVE KeptInv'
    OBVIOUS
  <2>1. CASE UNCHANGED <<phone, storage, calls>>
    BY <2>1, CallsFewer, NoneMoves
  <2>2. CASE Laptop
    BY <2>1, <2>2, RestartKept DEF Laptop, GenerateCode, CodeExpires, Refuse
  <2>3. ASSUME NEW c \in calls, AgentAnswers(c) \/ PhoneHears(c) \/ GivesUp(c)
        PROVE  KeptInv'
    BY <2>3, AgentKept, PairAnsweredKept, UseAnsweredKept, GivesUpKept DEF PhoneHears
  <2>4. ASSUME NEW p \in Phones, PhoneActs(p) \/ StorageEnds(p) \/ StorageFails(p) \/ SocketCloses(p)
        PROVE  KeptInv'
    BY <2>4, UseKept, ConnectKept, SocketKept, KilledKept, StorageKept DEF PhoneActs
  <2> QED
    BY <2>1, <2>2, <2>3, <2>4 DEF Next, vars
<1> QED
  BY <1>1, <1>2, CodesInvariant, PTL DEF Spec

\* A phone on its dashboard has its credential in the secure storage, whatever
\* it asked of the storage before and whatever failed, unless a dashboard that
\* was gone emptied it.
THEOREM CredentialsAreKept == Spec => []CredentialIsKept
<1>1. KeptInv => CredentialIsKept
  BY DEF KeptInv, AppTyped, Secure, Kept, CredentialIsKept
<1> QED
  BY <1>1, ConnectionInvariant, PTL
=============================================================================
