------------------------ MODULE VisionCaptureProofs ------------------------
(***************************************************************************)
(* The scanner's files and the areas it crops, for all sizes of pictures,  *)
(* texts and bounds.                                                       *)
(***************************************************************************)
EXTENDS VisionCapture, FiniteSetTheorems, TLAPS

Size == (Nat \ {0}) \X (Nat \ {0})
Orientations == {0, 90, 180, 270}
CallFields == {"id", "kind", "current", "captured", "prepared", "orientation", "crop"}
ScannerFields == {"state", "open", "ready", "draft", "sending", "permission"}
StateFields == {"phase", "captured", "prepared", "result", "orientation"}

\* An image, when m files were made; a temporary one is one of them.
Fine(image, m) == image.size \in Size /\ Temporary(image) \subseteq 1..m

StateFine(state, m) ==
    /\ DOMAIN state = StateFields /\ state.orientation \in Orientations
    /\ Fine(state.captured, m) /\ Fine(state.prepared, m)

CallFine(c, m) ==
    /\ DOMAIN c = CallFields /\ c.orientation \in Orientations /\ c.current \in BOOLEAN
    /\ Fine(c.captured, m) /\ Fine(c.prepared, m)
    /\ c.kind = "read" => c.prepared.source = "PREPARED"

Typed ==
    /\ made \in Nat
    /\ DOMAIN scanner = ScannerFields /\ scanner.open \in BOOLEAN
    /\ StateFine(scanner.state, made)
    /\ \A c \in calls : CallFine(c, made)

\* The files of the scanner's state, those being read, and those of a picture
\* whose text was sent.
Holding == Holds(scanner.state)
Reading == UNION {Temporary(c.prepared) : c \in {d \in calls : d.kind = "read"}}
Sending == UNION {Holds(c) : c \in {d \in calls : d.kind = "analyze"}}

Apart ==
    \A c, d \in calls :
        (c.kind = "read" /\ d.kind = "read" /\ c.prepared.file = d.prepared.file) => c = d

Kept ==
    /\ Original \in files
    /\ Holding \cup Reading \subseteq files
    /\ Reading \cap (Holding \cup Sending) = {}
    /\ Holding \cup Reading \cup Sending \subseteq 1..made
    /\ files \ {Original} \subseteq lost \cup Holding \cup Reading

\* A scanner that is gone awaits nothing; one without a picture has no files.
Quiet ==
    /\ scanner.open = FALSE =>
         scanner.state.phase = "SOURCE" /\ \A c \in calls : c.current = FALSE
    /\ scanner.state.phase \in {"SOURCE", "CAMERA"} => Holding = {}

FilesInv == Typed /\ Apart /\ Kept /\ Quiet

-----------------------------------------------------------------------------
(* Areas.                                                                  *)

\* Of the length n of a side, the part that is shown, at least a pixel, and the
\* margin before it.
LEMMA PartFits ==
    ASSUME NEW n \in Nat \ {0}, NEW w \in Int, NEW x \in Int,
           \/ w = IF Rounded(n * 9, 10) < 1 THEN 1 ELSE Rounded(n * 9, 10)
           \/ w = IF Rounded(n * 62, 100) < 1 THEN 1 ELSE Rounded(n * 62, 100),
           x = Rounded(n - w, 2)
    PROVE  x >= 0 /\ w >= 1 /\ x + w <= n
<1>1. w >= 1 /\ w <= n
  BY DEF Rounded
<1> QED
  BY <1>1 DEF Rounded

LEMMA GuidedFits ==
    ASSUME NEW size \in Size
    PROVE  LET g == Guided(size) IN
           /\ g.x \in Int /\ g.y \in Int /\ g.size \in Int \X Int
           /\ g.x >= 0 /\ g.size[1] >= 1 /\ g.x + g.size[1] <= size[1]
           /\ g.y >= 0 /\ g.size[2] >= 1 /\ g.y + g.size[2] <= size[2]
<1> DEFINE w == IF Rounded(size[1] * 9, 10) < 1 THEN 1 ELSE Rounded(size[1] * 9, 10)
           h == IF Rounded(size[2] * 62, 100) < 1 THEN 1 ELSE Rounded(size[2] * 62, 100)
           x == Rounded(size[1] - w, 2)
           y == Rounded(size[2] - h, 2)
<1>1. size[1] \in Nat \ {0} /\ size[2] \in Nat \ {0}
  BY DEF Size
<1>2. w \in Int /\ h \in Int
  BY <1>1 DEF Rounded
<1>3. x \in Int /\ y \in Int
  <2> HIDE DEF w, h
  <2> QED BY <1>1, <1>2 DEF Rounded
<1>4. x >= 0 /\ w >= 1 /\ x + w <= size[1]
  BY <1>1, <1>2, <1>3, PartFits
<1>5. y >= 0 /\ h >= 1 /\ y + h <= size[2]
  BY <1>1, <1>2, <1>3, PartFits
<1>6. Guided(size) = [x |-> x, y |-> y, size |-> <<w, h>>]
  BY DEF Guided
<1> HIDE DEF w, h, x, y
<1> QED
  BY <1>2, <1>3, <1>4, <1>5, <1>6

LEMMA TurnedSize ==
    ASSUME NEW size \in Size, NEW o
    PROVE  Turned(size, o) \in Size
BY DEF Turned, Size

LEMMA PlanFits ==
    ASSUME NEW image, image.size \in Size, NEW o, NEW crop
    PROVE  LET plan == Plan(image, o, crop)
               area == plan.area
           IN /\ area.x >= 0 /\ area.size[1] >= 1 /\ area.x + area.size[1] <= plan.turned[1]
              /\ area.y >= 0 /\ area.size[2] >= 1 /\ area.y + area.size[2] <= plan.turned[2]
              /\ plan.side \in 1..2200
<1> DEFINE t == Turned(image.size, o)
           a == IF crop THEN Guided(t) ELSE [x |-> 0, y |-> 0, size |-> t]
           longest == IF a.size[1] >= a.size[2] THEN a.size[1] ELSE a.size[2]
           side == IF longest > 2200 THEN 2200 ELSE longest
<1>1. t \in Size /\ t[1] \in Nat \ {0} /\ t[2] \in Nat \ {0}
  BY TurnedSize DEF Size
<1>2. /\ a.x \in Int /\ a.y \in Int /\ a.size \in Int \X Int
      /\ a.x >= 0 /\ a.size[1] >= 1 /\ a.x + a.size[1] <= t[1]
      /\ a.y >= 0 /\ a.size[2] >= 1 /\ a.y + a.size[2] <= t[2]
  <2> HIDE DEF t
  <2>1. CASE crop
    BY <1>1, <2>1, GuidedFits
  <2>2. CASE ~crop
    BY <1>1, <2>2 DEF Size
  <2> QED BY <2>1, <2>2
<1>3. Plan(image, o, crop) = [turned |-> t, area |-> a, side |-> side]
  BY DEF Plan
<1> HIDE DEF t, a
<1>4. side \in 1..2200
  <2>1. a.size[1] \in Int /\ a.size[2] \in Int /\ a.size[1] >= 1 /\ a.size[2] >= 1
    BY <1>2
  <2>2. longest \in Int /\ longest >= 1
    BY <2>1
  <2> HIDE DEF longest
  <2> QED BY <2>2
<1> HIDE DEF side
<1> QED
  BY <1>2, <1>3, <1>4

-----------------------------------------------------------------------------
(* Scanners, states and calls.                                             *)

LEMMA StateBecomes ==
    ASSUME NEW s, DOMAIN s = StateFields, NEW p, NEW r, NEW i
    PROVE  /\ LET n == [s EXCEPT !.phase = p] IN
              /\ DOMAIN n = StateFields /\ n.phase = p /\ n.orientation = s.orientation
              /\ n.captured = s.captured /\ n.prepared = s.prepared
           /\ LET n == [s EXCEPT !.orientation = r] IN
              /\ DOMAIN n = StateFields /\ n.phase = s.phase /\ n.orientation = r
              /\ n.captured = s.captured /\ n.prepared = s.prepared
           /\ LET n == [s EXCEPT !.phase = p, !.prepared = i, !.result = r] IN
              /\ DOMAIN n = StateFields /\ n.phase = p /\ n.orientation = s.orientation
              /\ n.captured = s.captured /\ n.prepared = i
BY DEF StateFields

LEMMA NoImageFine ==
    ASSUME NEW m \in Nat
    PROVE  Temporary(NoImage) = {} /\ Fine(NoImage, m)
BY DEF NoImage, Temporary, Fine, Size

LEMMA InitialFine ==
    ASSUME NEW m \in Nat, NEW phase
    PROVE  /\ StateFine(Initial(phase), m) /\ Initial(phase).phase = phase
           /\ Holds(Initial(phase)) = {}
<1>1. /\ DOMAIN Initial(phase) = StateFields /\ Initial(phase).orientation = 0
      /\ Initial(phase).captured = NoImage /\ Initial(phase).prepared = NoImage
      /\ Initial(phase).phase = phase
  BY DEF Initial, StateFields
<1> QED
  BY <1>1, NoImageFine DEF StateFine, Holds, Orientations

LEMMA CapturedFine ==
    ASSUME NEW m \in Nat, NEW image, Fine(image, m)
    PROVE  LET s == [Initial("PREVIEW") EXCEPT !.captured = image] IN
           StateFine(s, m) /\ s.phase = "PREVIEW" /\ Holds(s) = Temporary(image)
<1> DEFINE s == [Initial("PREVIEW") EXCEPT !.captured = image]
<1>1. /\ DOMAIN s = StateFields /\ s.orientation = 0 /\ s.captured = image
      /\ s.prepared = NoImage /\ s.phase = "PREVIEW"
  BY DEF Initial, StateFields
<1> HIDE DEF s
<1>2. StateFine(s, m) /\ Holds(s) = Temporary(image)
  BY <1>1, NoImageFine DEF StateFine, Holds, Orientations
<1> QED
  BY <1>1, <1>2 DEF s

LEMMA FineLater ==
    ASSUME NEW m \in Nat, NEW n \in Nat, m <= n
    PROVE  /\ \A image : Fine(image, m) => Fine(image, n)
           /\ \A c : CallFine(c, m) => CallFine(c, n)
           /\ \A s : StateFine(s, m) => StateFine(s, n)
BY DEF Fine, CallFine, StateFine

LEMMA AwaitsIs ==
    ASSUME NEW kind, NEW captured, NEW prepared, NEW o \in Orientations, NEW crop,
           Fine(captured, made), Fine(prepared, made), kind # "read",
           Awaits(kind, captured, prepared, o, crop)
    PROVE  \E e : /\ calls' = calls \cup {e} /\ CallFine(e, made)
                  /\ e.kind = kind /\ e.captured = captured /\ e.prepared = prepared
<1> DEFINE free == (1..MaxCalls) \ {c.id : c \in calls}
           e == [id |-> CHOOSE i \in free : \A j \in free : i <= j, kind |-> kind,
                 current |-> TRUE, captured |-> captured, prepared |-> prepared,
                 orientation |-> o, crop |-> crop]
<1>1. calls' = calls \cup {e}
  BY DEF Awaits
<1>2. /\ DOMAIN e = CallFields /\ e.kind = kind /\ e.current = TRUE /\ e.captured = captured
      /\ e.prepared = prepared /\ e.orientation = o
  BY DEF CallFields
<1> HIDE DEF e
<1> QED
  BY <1>1, <1>2 DEF CallFine

\* Calls that are removed or added, but none that reads or sends.
LEMMA CallsOther ==
    ASSUME FilesInv, NEW e, calls' \subseteq calls \cup {e},
           e.kind \notin {"read", "analyze"} \/ e \in calls,
           \A c \in calls : c.kind = "read" => c \in calls'
    PROVE  Reading' = Reading /\ Sending' \subseteq Sending /\ Apart'
BY DEF Reading, Sending, FilesInv, Apart

\* Calls that are given up, and perhaps one that sends a text removed.
LEMMA CallsGivenUp ==
    ASSUME FilesInv, NEW S \in SUBSET calls, \A c \in calls : c.kind = "read" => c \in S,
           calls' = {[c EXCEPT !.current = FALSE] : c \in S}
    PROVE  /\ Reading' = Reading /\ Sending' \subseteq Sending /\ Apart'
           /\ \A c \in calls' : CallFine(c, made) /\ c.current = FALSE
<1> DEFINE up(c) == [c EXCEPT !.current = FALSE]
<1>1. \A c \in calls : /\ DOMAIN up(c) = CallFields /\ up(c).kind = c.kind
                       /\ up(c).current = FALSE /\ up(c).captured = c.captured
                       /\ up(c).prepared = c.prepared /\ up(c).orientation = c.orientation
  BY DEF FilesInv, Typed, CallFine, CallFields
<1>2. calls' = {up(c) : c \in S}
  OBVIOUS
<1> HIDE DEF up
<1>3. \A c \in calls' : CallFine(c, made) /\ c.current = FALSE
  <2> SUFFICES ASSUME NEW c \in S PROVE CallFine(up(c), made) /\ up(c).current = FALSE
    BY <1>2
  <2>1. CallFine(c, made)
    BY DEF FilesInv, Typed
  <2>2. /\ DOMAIN up(c) = CallFields /\ up(c).kind = c.kind
        /\ up(c).current = FALSE /\ up(c).captured = c.captured
        /\ up(c).prepared = c.prepared /\ up(c).orientation = c.orientation
    BY <1>1
  <2> QED BY <2>1, <2>2 DEF CallFine
<1>4. Apart'
  BY <1>1, <1>2 DEF FilesInv, Apart
<1>5. Reading' = Reading
  BY <1>1, <1>2 DEF Reading
<1>6. Sending' \subseteq Sending
  BY <1>1, <1>2 DEF Sending, Holds
<1> QED
  BY <1>3, <1>4, <1>5, <1>6

-----------------------------------------------------------------------------
(* What the steps do to the files.                                         *)

\* Nothing is written or removed, and the scanner keeps its files or they are
\* known as lost.
LEMMA NothingRemoved ==
    ASSUME FilesInv, UNCHANGED <<files, made>>, Reading' = Reading,
           Sending' \subseteq Sending \cup Holding,
           \/ Holding' = Holding /\ lost' = lost
           \/ Holding' = {} /\ lost' = lost \cup Holding
    PROVE  Kept'
BY DEF FilesInv, Kept

\* The files of the scanner are removed with its picture, and those of a text
\* that was sent.
LEMMA HeldRemoved ==
    ASSUME FilesInv, NEW T \in SUBSET Sending, UNCHANGED <<made, lost>>,
           files' = (files \ Holding) \ T,
           Reading' = Reading, Sending' \subseteq Sending, Holding' = {}
    PROVE  Kept'
BY DEF FilesInv, Kept, Original

LEMMA NewWritten ==
    ASSUME FilesInv, Written, lost \subseteq lost',
           Sending' \subseteq Sending,
           Holding' \cup Reading' \subseteq Holding \cup Reading \cup {made'},
           Holding \cup Reading \cup {made'} \subseteq lost' \cup Holding' \cup Reading',
           Reading' \cap Holding' = {}, Reading' \subseteq Reading \cup {made'}
    PROVE  Kept'
<1>1. made \in Nat /\ made' = made + 1 /\ files' = files \cup {made'}
  BY DEF FilesInv, Typed, Written
<1>2. Sending' \subseteq 1..made /\ made' \notin 1..made /\ 1..made \subseteq 1..made'
      /\ made' \in 1..made' /\ made' # Original
  BY <1>1 DEF FilesInv, Kept, Original
<1> QED
  BY <1>1, <1>2 DEF FilesInv, Kept

-----------------------------------------------------------------------------
(* The steps.                                                              *)

LEMMA StateMoves ==
    ASSUME FilesInv, DOMAIN scanner' = ScannerFields, scanner'.open \in BOOLEAN,
           StateFine(scanner'.state, made), UNCHANGED <<files, made>>,
           \/ Holding' = Holding /\ lost' = lost
           \/ Holding' = {} /\ lost' = lost \cup Holding,
           \A c \in calls' : CallFine(c, made),
           Reading' = Reading, Sending' \subseteq Sending \cup Holding, Apart', Quiet'
    PROVE  FilesInv'
BY NothingRemoved DEF FilesInv, Typed

\* The scanner's state stays; a call is asked or answered.
LEMMA StateStays ==
    ASSUME FilesInv, DOMAIN scanner' = ScannerFields, scanner'.state = scanner.state,
           scanner'.open = scanner.open, UNCHANGED <<files, made, lost>>,
           NEW e, calls' \subseteq calls \cup {e}, CallFine(e, made),
           scanner.open = TRUE \/ e \in calls,
           e.kind \notin {"read", "analyze"} \/ e \in calls,
           \A c \in calls : c.kind = "read" => c \in calls'
    PROVE  FilesInv'
<1>1. Reading' = Reading /\ Sending' \subseteq Sending /\ Apart'
  BY CallsOther
<1>2. Holding' = Holding
  BY DEF Holding
<1>3. \A c \in calls' : CallFine(c, made)
  BY DEF FilesInv, Typed
<1>4. Quiet'
  BY <1>2 DEF FilesInv, Typed, Quiet
<1> QED
  BY <1>1, <1>2, <1>3, <1>4, StateMoves DEF FilesInv, Typed

\* A call of the scanner that is open sets its state.
LEMMA StateSet ==
    ASSUME FilesInv, NEW c \in calls, calls' = calls \ {c}, c.kind \notin {"read", "analyze"},
           scanner.open = TRUE, DOMAIN scanner' = ScannerFields, scanner'.open = scanner.open,
           StateFine(scanner'.state, made), UNCHANGED <<files, made>>,
           \/ scanner'.state.phase \notin {"SOURCE", "CAMERA"} /\ Holding' = Holding /\ lost' = lost
           \/ Holding' = {} /\ lost' = lost \cup Holding
    PROVE  FilesInv'
<1>1. Reading' = Reading /\ Sending' \subseteq Sending /\ Apart'
  BY CallsOther
<1>2. \A d \in calls' : CallFine(d, made)
  BY DEF FilesInv, Typed
<1>3. Quiet'
  BY DEF Quiet
<1> QED
  BY <1>1, <1>2, <1>3, StateMoves DEF FilesInv, Typed

LEMMA CurrentOpen ==
    ASSUME FilesInv, NEW c \in calls, c.current
    PROVE  scanner.open = TRUE
BY DEF FilesInv, Quiet, Typed, CallFine

LEMMA SameCalls ==
    ASSUME FilesInv, UNCHANGED calls
    PROVE  Reading' = Reading /\ Sending' = Sending /\ Apart' /\ \A c \in calls' : CallFine(c, made)
BY DEF FilesInv, Typed, Reading, Sending, Apart

LEMMA MarkedKeeps ==
    ASSUME FilesInv, UNCHANGED calls, CameraReady \/ Edit
    PROVE  FilesInv'
<1>1. /\ DOMAIN scanner' = ScannerFields /\ scanner'.state = scanner.state
      /\ scanner'.open = scanner.open /\ UNCHANGED <<files, made, lost>>
  BY DEF CameraReady, Edit, FilesInv, Typed, ScannerFields
<1>2. Holding' = Holding /\ Quiet'
  BY <1>1 DEF FilesInv, Quiet, Holding
<1> QED
  BY <1>1, <1>2, SameCalls, StateMoves DEF FilesInv, Typed

LEMMA AsksKeeps ==
    ASSUME FilesInv,
           \/ OpenCamera /\ scanner.permission # "granted"
           \/ CaptureCamera \/ ChooseGallery,
           NEW kind \in {"permission", "picture", "gallery"}, Asks(kind)
    PROVE  FilesInv'
<1>1. PICK e : /\ calls' = calls \cup {e} /\ CallFine(e, made) /\ e.kind = kind
  <2>1. Fine(NoImage, made) /\ 0 \in Orientations /\ kind # "read"
    BY NoImageFine DEF FilesInv, Typed, Orientations
  <2> QED BY <2>1, AwaitsIs DEF Asks
<1>2. CASE scanner' = scanner
  <2>1. scanner.open = TRUE /\ UNCHANGED <<files, made, lost>>
    BY DEF OpenCamera, CaptureCamera, ChooseGallery, Phase, FilesInv, Typed
  <2> QED BY <1>1, <1>2, <2>1, StateStays DEF FilesInv, Typed
<1>3. CASE scanner' = [scanner EXCEPT !.ready = FALSE]
  <2>1. /\ scanner.open = TRUE /\ UNCHANGED <<files, made, lost>>
        /\ DOMAIN scanner' = ScannerFields /\ scanner'.state = scanner.state
        /\ scanner'.open = scanner.open
    BY <1>3 DEF OpenCamera, CaptureCamera, ChooseGallery, Phase, FilesInv, Typed, ScannerFields
  <2> QED BY <1>1, <2>1, StateStays DEF FilesInv, Typed
<1> QED
  BY <1>2, <1>3 DEF OpenCamera, CaptureCamera, ChooseGallery

LEMMA OpenCameraKeeps ==
    ASSUME FilesInv, OpenCamera
    PROVE  FilesInv'
<1>1. CASE scanner.permission = "granted"
  <2>1. /\ scanner' = [scanner EXCEPT !.ready = FALSE, !.state = Initial("CAMERA")]
        /\ scanner.open = TRUE /\ scanner.state.phase \in {"SOURCE", "CAMERA"}
        /\ UNCHANGED <<files, made, lost, calls>>
    BY <1>1 DEF OpenCamera, Phase, FilesInv, Typed
  <2>2. /\ DOMAIN scanner' = ScannerFields /\ scanner'.state = Initial("CAMERA")
        /\ scanner'.open = scanner.open
    BY <2>1 DEF FilesInv, Typed, ScannerFields
  <2>3. StateFine(scanner'.state, made) /\ Holding' = {} /\ Holding = {}
    BY <2>1, <2>2, InitialFine DEF Holding, FilesInv, Typed, Quiet
  <2>4. Quiet'
    BY <2>1, <2>2, <2>3 DEF Quiet
  <2> QED BY <2>1, <2>2, <2>3, <2>4, SameCalls, StateMoves DEF FilesInv, Typed
<1>2. CASE scanner.permission # "granted"
  BY <1>2, AsksKeeps DEF OpenCamera
<1> QED
  BY <1>1, <1>2

LEMMA OpenScannerKeeps ==
    ASSUME FilesInv, OpenScanner
    PROVE  FilesInv'
<1>1. /\ scanner' = Opened(scanner.permission) /\ scanner.open = FALSE
      /\ UNCHANGED <<files, made, lost, calls>>
  BY DEF OpenScanner, FilesInv, Typed
<1>2. /\ DOMAIN scanner' = ScannerFields /\ scanner'.state = Initial("SOURCE")
      /\ scanner'.open = TRUE
  BY <1>1 DEF Opened, ScannerFields
<1>3. StateFine(scanner'.state, made) /\ Holding' = {} /\ Holding = {}
  BY <1>1, <1>2, InitialFine DEF Holding, FilesInv, Typed, Quiet
<1>4. Quiet'
  BY <1>2, <1>3 DEF Quiet
<1> QED
  BY <1>1, <1>2, <1>3, <1>4, SameCalls, StateMoves DEF FilesInv, Typed

LEMMA RotateKeeps ==
    ASSUME FilesInv, Rotate
    PROVE  FilesInv'
<1> DEFINE s == [scanner.state EXCEPT !.orientation = (scanner.state.orientation + 90) % 360]
<1>1. /\ scanner' = [scanner EXCEPT !.state = s] /\ scanner.state.phase = "PREVIEW"
      /\ scanner.open = TRUE /\ UNCHANGED <<files, made, lost, calls>>
  BY DEF Rotate, Phase, FilesInv, Typed
<1>2. (scanner.state.orientation + 90) % 360 \in Orientations
  BY DEF FilesInv, Typed, StateFine, Orientations
<1>3. /\ DOMAIN s = StateFields /\ s.phase = "PREVIEW" /\ s.orientation \in Orientations
      /\ s.captured = scanner.state.captured /\ s.prepared = scanner.state.prepared
  BY <1>1, <1>2 DEF FilesInv, Typed, StateFine, StateFields
<1> HIDE DEF s
<1>4. /\ DOMAIN scanner' = ScannerFields /\ scanner'.state = s /\ scanner'.open = TRUE
  BY <1>1 DEF FilesInv, Typed, ScannerFields
<1>5. StateFine(s, made) /\ Holding' = Holding
  BY <1>3, <1>4 DEF Holding, Holds, FilesInv, Typed, StateFine
<1>6. Quiet'
  BY <1>3, <1>4 DEF Quiet
<1> QED
  BY <1>1, <1>4, <1>5, <1>6, SameCalls, StateMoves DEF FilesInv, Typed

LEMMA RecognizeKeeps ==
    ASSUME FilesInv, NEW crop \in BOOLEAN, Recognize(crop)
    PROVE  FilesInv'
<1> DEFINE s == [scanner.state EXCEPT !.phase = "PROCESSING"]
<1>1. /\ scanner' = [scanner EXCEPT !.state = s] /\ scanner.open = TRUE
      /\ UNCHANGED <<files, made, lost>>
      /\ Awaits("prepare", scanner.state.captured, NoImage, scanner.state.orientation, crop)
  BY DEF Recognize, Phase, FilesInv, Typed
<1>2. /\ DOMAIN s = StateFields /\ s.phase = "PROCESSING"
      /\ s.orientation = scanner.state.orientation
      /\ s.captured = scanner.state.captured /\ s.prepared = scanner.state.prepared
  BY DEF FilesInv, Typed, StateFine, StateFields
<1> HIDE DEF s
<1>3. /\ DOMAIN scanner' = ScannerFields /\ scanner'.state = s /\ scanner'.open = TRUE
  BY <1>1 DEF FilesInv, Typed, ScannerFields
<1>4. StateFine(s, made) /\ Holding' = Holding
  BY <1>2, <1>3 DEF Holding, Holds, FilesInv, Typed, StateFine
<1>5. PICK e : calls' = calls \cup {e} /\ CallFine(e, made) /\ e.kind = "prepare"
  BY <1>1, NoImageFine, AwaitsIs DEF FilesInv, Typed, StateFine
<1>6. Reading' = Reading /\ Sending' \subseteq Sending /\ Apart'
  BY <1>5, CallsOther
<1>7. Quiet' /\ \A c \in calls' : CallFine(c, made)
  BY <1>2, <1>3, <1>5 DEF Quiet, FilesInv, Typed
<1> QED
  BY <1>1, <1>3, <1>4, <1>6, <1>7, StateMoves

LEMMA AnalyzeKeeps ==
    ASSUME FilesInv, Analyze
    PROVE  FilesInv'
<1>1. /\ scanner' = [scanner EXCEPT !.sending = TRUE] /\ scanner.open = TRUE
      /\ UNCHANGED <<files, made, lost>>
      /\ Awaits("analyze", scanner.state.captured, scanner.state.prepared, 0, FALSE)
  BY DEF Analyze, Phase, FilesInv, Typed
<1>2. /\ DOMAIN scanner' = ScannerFields /\ scanner'.state = scanner.state /\ scanner'.open = TRUE
  BY <1>1 DEF FilesInv, Typed, ScannerFields
<1>3. PICK e : /\ calls' = calls \cup {e} /\ CallFine(e, made) /\ e.kind = "analyze"
               /\ e.captured = scanner.state.captured /\ e.prepared = scanner.state.prepared
  <2> DEFINE captured == scanner.state.captured
             prepared == scanner.state.prepared
             crop == FALSE
  <2>1. 0 \in Orientations /\ Fine(captured, made) /\ Fine(prepared, made) /\ "analyze" # "read"
    BY DEF Orientations, FilesInv, Typed, StateFine
  <2>2. Awaits("analyze", captured, prepared, 0, crop)
    BY <1>1
  <2> HIDE DEF captured, prepared, crop
  <2>3. \E e : /\ calls' = calls \cup {e} /\ CallFine(e, made) /\ e.kind = "analyze"
              /\ e.captured = captured /\ e.prepared = prepared
    BY <2>1, <2>2, AwaitsIs
  <2> QED BY <2>3 DEF captured, prepared
<1>4. Reading' = Reading /\ Apart'
  BY <1>3 DEF Reading, Apart, FilesInv
<1>5. Sending' = Sending \cup Holding
  <2>1. Holds(e) = Holding
    BY <1>3 DEF Holds, Holding
  <2> QED BY <1>3, <2>1 DEF Sending
<1>6. Quiet' /\ Holding' = Holding /\ \A c \in calls' : CallFine(c, made)
  BY <1>2, <1>3 DEF Quiet, Holding, FilesInv, Typed
<1> QED
  BY <1>1, <1>2, <1>4, <1>5, <1>6, StateMoves DEF FilesInv, Typed

LEMMA DiscardKeeps ==
    ASSUME FilesInv, DiscardAndRetake
    PROVE  FilesInv'
<1>1. PICK phase \in {"CAMERA", "SOURCE"} :
        scanner' = [scanner EXCEPT !.state = Initial(phase)]
  BY DEF DiscardAndRetake
<1>2. /\ files' = files \ Holding /\ UNCHANGED <<made, lost, calls>> /\ scanner.open = TRUE
  BY DEF DiscardAndRetake, Removed, Holding, Phase, FilesInv, Typed
<1>3. /\ DOMAIN scanner' = ScannerFields /\ scanner'.state = Initial(phase)
      /\ scanner'.open = TRUE
  BY <1>1, <1>2 DEF FilesInv, Typed, ScannerFields
<1>4. StateFine(scanner'.state, made) /\ Holding' = {}
  BY <1>3, InitialFine DEF Holding, FilesInv, Typed
<1>5. Quiet'
  BY <1>3, <1>4 DEF Quiet
<1>6. Reading' = Reading /\ Sending' = Sending /\ Apart' /\ \A c \in calls' : CallFine(c, made)
  BY <1>2, SameCalls
<1>7. Kept'
  <2>1. files' = (files \ Holding) \ {}
    BY <1>2
  <2> QED BY <2>1, <1>2, <1>4, <1>6, HeldRemoved
<1> QED
  BY <1>2, <1>3, <1>4, <1>5, <1>6, <1>7 DEF FilesInv, Typed

\* The scanner goes, with what it and a text that was sent hold.
LEMMA ShutKeeps ==
    ASSUME FilesInv, scanner' = Shut(scanner.permission), UNCHANGED <<made, lost>>,
           NEW T \in SUBSET Sending, files' = (files \ Holding) \ T,
           NEW S \in SUBSET calls, \A c \in calls : c.kind = "read" => c \in S,
           calls' = {[c EXCEPT !.current = FALSE] : c \in S}
    PROVE  FilesInv'
<1>1. /\ DOMAIN scanner' = ScannerFields /\ scanner'.state = Initial("SOURCE")
      /\ scanner'.open = FALSE
  BY DEF Shut, Opened, ScannerFields
<1>2. /\ StateFine(scanner'.state, made) /\ Holding' = {} /\ scanner'.state.phase = "SOURCE"
  BY <1>1, InitialFine DEF Holding, FilesInv, Typed
<1>3. /\ Reading' = Reading /\ Sending' \subseteq Sending /\ Apart'
      /\ \A c \in calls' : CallFine(c, made) /\ c.current = FALSE
  BY CallsGivenUp
<1>4. Kept'
  BY <1>2, <1>3, HeldRemoved
<1>5. Quiet'
  BY <1>1, <1>2, <1>3 DEF Quiet
<1> QED
  BY <1>1, <1>2, <1>3, <1>4, <1>5 DEF FilesInv, Typed

LEMMA CloseKeeps ==
    ASSUME FilesInv, Close
    PROVE  FilesInv'
<1>1. /\ scanner' = Shut(scanner.permission) /\ UNCHANGED <<made, lost>>
      /\ files' = (files \ Holding) \ {}
      /\ calls' = {[c EXCEPT !.current = FALSE] : c \in calls}
  BY DEF Close, Closed, Removed, Holding
<1>2. {} \in SUBSET Sending /\ calls \in SUBSET calls
  OBVIOUS
<1> QED
  BY <1>1, <1>2, ShutKeeps

LEMMA AnalyzedKeeps ==
    ASSUME FilesInv, NEW c, Analyzed(c)
    PROVE  FilesInv'
<1>1. c \in calls /\ c.kind = "analyze" /\ UNCHANGED <<made, lost>> /\ CallFine(c, made)
  BY DEF Analyzed, FilesInv, Typed
<1>2. CASE /\ scanner' = Shut(scanner.permission)
           /\ files' = Removed(scanner.state) \ Holds(c)
           /\ calls' = {[d EXCEPT !.current = FALSE] : d \in calls \ {c}}
  <2>1. Holds(c) \in SUBSET Sending
    BY <1>1 DEF Sending
  <2>2. files' = (files \ Holding) \ Holds(c)
    BY <1>2 DEF Removed, Holding
  <2>3. calls \ {c} \in SUBSET calls /\ \A d \in calls : d.kind = "read" => d \in calls \ {c}
    BY <1>1
  <2> QED BY <1>1, <1>2, <2>1, <2>2, <2>3, ShutKeeps
<1>3. CASE /\ scanner' = [scanner EXCEPT !.sending = @ /\ ~c.current]
           /\ calls' = calls \ {c} /\ UNCHANGED files
  <2>1. /\ DOMAIN scanner' = ScannerFields /\ scanner'.state = scanner.state
        /\ scanner'.open = scanner.open
    BY <1>3 DEF FilesInv, Typed, ScannerFields
  <2>2. /\ calls' \subseteq calls \cup {c}
        /\ \A d \in calls : d.kind = "read" => d \in calls'
    BY <1>1, <1>3
  <2> QED BY <1>1, <1>3, <2>1, <2>2, StateStays
<1> QED
  BY <1>2, <1>3 DEF Analyzed

LEMMA FailedIs ==
    ASSUME FilesInv
    PROVE  /\ StateFine(Failed, made) /\ Failed.phase = "ERROR"
           /\ Holds(Failed) = Holding
<1>1. /\ DOMAIN Failed = StateFields /\ Failed.phase = "ERROR"
      /\ Failed.orientation = scanner.state.orientation
      /\ Failed.captured = scanner.state.captured /\ Failed.prepared = scanner.state.prepared
  BY DEF Failed, FilesInv, Typed, StateFine, StateFields
<1> QED
  BY <1>1 DEF Holding, Holds, FilesInv, Typed, StateFine

\* The answer of a call that reads nothing sets the scanner's state, or comes
\* too late.
LEMMA DispatchKeeps ==
    ASSUME FilesInv, NEW c \in calls, calls' = calls \ {c}, c.kind \notin {"read", "analyze"},
           NEW s, Dispatch(c, s), StateFine(s, made), UNCHANGED <<files, made>>,
           s.phase \notin {"SOURCE", "CAMERA"}, Holds(s) = Holding \/ Holds(s) = {}
    PROVE  FilesInv'
<1>1. CASE c.current
  <2>1. /\ scanner' = [scanner EXCEPT !.state = s]
        /\ lost' = lost \cup (Holding \ Holds(s))
    BY <1>1 DEF Dispatch, Holding
  <2>2. scanner.open = TRUE
    BY <1>1, CurrentOpen
  <2>3. /\ DOMAIN scanner' = ScannerFields /\ scanner'.state = s /\ scanner'.open = scanner.open
    BY <2>1 DEF FilesInv, Typed, ScannerFields
  <2>4. Holding' = Holds(s)
    BY <2>3 DEF Holding
  <2>5. \/ Holding' = Holding /\ lost' = lost
        \/ Holding' = {} /\ lost' = lost \cup Holding
    BY <2>1, <2>4
  <2> QED BY <2>2, <2>3, <2>5, StateSet
<1>2. CASE ~c.current
  <2>1. scanner' = scanner /\ UNCHANGED lost /\ CallFine(c, made)
    BY <1>2 DEF Dispatch, FilesInv, Typed
  <2>2. calls' \subseteq calls \cup {c} /\ \A d \in calls : d.kind = "read" => d \in calls'
    OBVIOUS
  <2> QED BY <2>1, <2>2, StateStays DEF FilesInv, Typed
<1> QED
  BY <1>1, <1>2

LEMMA FailedKeeps ==
    ASSUME FilesInv, NEW c \in calls, calls' = calls \ {c}, c.kind \notin {"read", "analyze"},
           Dispatch(c, Failed), UNCHANGED <<files, made>>
    PROVE  FilesInv'
<1> DEFINE s == Failed
<1>1. StateFine(s, made) /\ s.phase = "ERROR" /\ Holds(s) = Holding /\ Dispatch(c, s)
  BY FailedIs
<1> HIDE DEF s
<1> QED
  BY <1>1, DispatchKeeps

LEMMA AllowsKeeps ==
    ASSUME FilesInv, NEW c, Allows(c)
    PROVE  FilesInv'
<1>1. /\ c \in calls /\ c.kind = "permission" /\ calls' = calls \ {c} /\ CallFine(c, made)
      /\ UNCHANGED <<files, made>>
  BY DEF Allows, Answered, FilesInv, Typed
<1>2. PICK permission \in Permissions :
         IF c.current
         THEN /\ scanner' = [scanner EXCEPT !.permission = permission, !.state = Initial("CAMERA"),
                               !.ready = @ /\ permission = "granted"]
              /\ lost' = lost \cup Holds(scanner.state)
         ELSE scanner' = [scanner EXCEPT !.permission = permission] /\ UNCHANGED lost
  BY DEF Allows
<1>3. CASE c.current
  <2>1. /\ DOMAIN scanner' = ScannerFields /\ scanner'.state = Initial("CAMERA")
        /\ scanner'.open = scanner.open /\ lost' = lost \cup Holding
    BY <1>2, <1>3 DEF FilesInv, Typed, ScannerFields, Holding
  <2>2. StateFine(scanner'.state, made) /\ Holding' = {}
    BY <2>1, InitialFine DEF Holding, FilesInv, Typed
  <2>3. scanner.open = TRUE
    BY <1>1, <1>3, CurrentOpen
  <2> QED BY <1>1, <2>1, <2>2, <2>3, StateSet
<1>4. CASE ~c.current
  <2>1. /\ DOMAIN scanner' = ScannerFields /\ scanner'.state = scanner.state
        /\ scanner'.open = scanner.open /\ UNCHANGED lost
    BY <1>2, <1>4 DEF FilesInv, Typed, ScannerFields
  <2>2. calls' \subseteq calls \cup {c} /\ \A d \in calls : d.kind = "read" => d \in calls'
    BY <1>1
  <2> QED BY <1>1, <2>1, <2>2, StateStays
<1> QED
  BY <1>3, <1>4

LEMMA ChosenKeeps ==
    ASSUME FilesInv, NEW c, Chosen(c)
    PROVE  FilesInv'
<1>1. /\ c \in calls /\ c.kind = "gallery" /\ calls' = calls \ {c} /\ CallFine(c, made)
      /\ UNCHANGED <<files, made>>
  BY DEF Chosen, Answered, FilesInv, Typed
<1>2. CASE \E size \in Sizes : Captures(c, [file |-> Original, source |-> "GALLERY", size |-> size])
  <2>1. PICK size \in Sizes : Captures(c, [file |-> Original, source |-> "GALLERY", size |-> size])
    BY <1>2
  <2> DEFINE image == [file |-> Original, source |-> "GALLERY", size |-> size]
             s == [Initial("PREVIEW") EXCEPT !.captured = image]
  <2>2. Temporary(image) = {} /\ Fine(image, made)
    BY VisionAssumption DEF Temporary, Fine, Size
  <2>3. Dispatch(c, s)
    BY <2>1 DEF Captures
  <2> HIDE DEF image
  <2>4. StateFine(s, made) /\ s.phase = "PREVIEW" /\ Holds(s) = {}
    BY <2>2, CapturedFine DEF FilesInv, Typed
  <2> HIDE DEF s
  <2> QED BY <1>1, <2>3, <2>4, DispatchKeeps
<1>3. CASE Dispatch(c, Failed)
  BY <1>1, <1>3, FailedKeeps
<1>4. CASE UNCHANGED <<scanner, lost>>
  <2>1. calls' \subseteq calls \cup {c} /\ \A d \in calls : d.kind = "read" => d \in calls'
    BY <1>1
  <2> QED BY <1>1, <1>4, <2>1, StateStays DEF FilesInv, Typed
<1> QED
  BY <1>2, <1>3, <1>4 DEF Chosen

\* A file is new when it is written.
LEMMA WrittenNew ==
    ASSUME FilesInv, Written
    PROVE  /\ made' \in Nat \ {0} /\ made <= made' /\ made' \in 1..made'
           /\ made' \notin Holding \cup Reading \cup Sending
           /\ \A c \in calls : CallFine(c, made') /\ made' \notin Temporary(c.prepared)
           /\ StateFine(scanner.state, made')
<1>1. made \in Nat /\ made' = made + 1
  BY DEF Written, FilesInv, Typed
<1>2. \A c \in calls : Temporary(c.prepared) \subseteq 1..made
  BY DEF FilesInv, Typed, CallFine, Fine
<1> QED
  BY <1>1, <1>2, FineLater DEF FilesInv, Typed, Kept

LEMMA PicturedKeeps ==
    ASSUME FilesInv, NEW c, Pictured(c)
    PROVE  FilesInv'
<1>1. /\ c \in calls /\ c.kind = "picture" /\ calls' = calls \ {c} /\ CallFine(c, made)
  BY DEF Pictured, Answered, FilesInv, Typed
<1>2. CASE Dispatch(c, Failed) /\ UNCHANGED <<files, made>>
  BY <1>1, <1>2, FailedKeeps
<1>3. Reading' = Reading /\ Sending' \subseteq Sending /\ Apart'
  <2>1. calls' \subseteq calls \cup {c} /\ \A d \in calls : d.kind = "read" => d \in calls'
    BY <1>1
  <2> QED BY <1>1, <2>1, CallsOther
<1>4. ASSUME Written, c.current, NEW size \in Sizes,
             Captures(c, [file |-> made', source |-> "CAMERA", size |-> size])
      PROVE  FilesInv'
  <2> DEFINE image == [file |-> made', source |-> "CAMERA", size |-> size]
             s == [Initial("PREVIEW") EXCEPT !.captured = image]
             m == made'
  <2>1. m \in Nat /\ Temporary(image) = {m} /\ Fine(image, m)
    BY <1>4, WrittenNew, VisionAssumption DEF Temporary, Fine, Size, None
  <2>2. Dispatch(c, s)
    BY <1>4 DEF Captures
  <2> HIDE DEF image, m
  <2>3. StateFine(s, m) /\ s.phase = "PREVIEW" /\ Holds(s) = {m}
    BY <2>1, CapturedFine
  <2> HIDE DEF s
  <2>4. /\ scanner' = [scanner EXCEPT !.state = s] /\ scanner.open = TRUE
        /\ lost' = lost \cup (Holding \ Holds(s))
    BY <1>1, <1>4, <2>2, CurrentOpen DEF Dispatch, Holding
  <2>5. /\ DOMAIN scanner' = ScannerFields /\ scanner'.state = s /\ scanner'.open = TRUE
    BY <2>4 DEF FilesInv, Typed, ScannerFields
  <2>6. Holding' = {m}
    BY <2>3, <2>5 DEF Holding
  <2>7. Kept'
    <3>1. m \notin Holding \cup Reading /\ lost \subseteq lost'
      BY <1>4, <2>4, WrittenNew DEF m
    <3>2. Holding \cup Reading \cup {made'} \subseteq lost' \cup Holding' \cup Reading'
      BY <1>3, <2>3, <2>4, <2>6 DEF m
    <3>3. Reading' \cap Holding' = {}
      BY <1>3, <2>6, <3>1
    <3>4. Holding' \cup Reading' \subseteq Holding \cup Reading \cup {made'}
      BY <1>3, <2>6 DEF m
    <3> QED BY <1>3, <1>4, <3>1, <3>2, <3>3, <3>4, NewWritten
  <2>8. Typed'
    BY <1>1, <1>4, <2>1, <2>3, <2>5, WrittenNew DEF Typed, m
  <2>9. Quiet'
    BY <2>3, <2>5 DEF Quiet
  <2> QED BY <1>3, <2>7, <2>8, <2>9 DEF FilesInv
<1>5. ASSUME Written, lost' = lost \cup {made'}, UNCHANGED scanner
      PROVE  FilesInv'
  <2>1. Holding' = Holding
    BY <1>5 DEF Holding
  <2>2. Kept'
    <3>1. Reading \cap Holding = {}
      BY DEF FilesInv, Kept
    <3> QED BY <1>3, <1>5, <2>1, <3>1, NewWritten
  <2>3. Typed'
    BY <1>1, <1>5, WrittenNew DEF FilesInv, Typed
  <2>4. Quiet'
    BY <1>1, <1>5, <2>1 DEF FilesInv, Quiet
  <2> QED BY <1>3, <2>2, <2>3, <2>4 DEF FilesInv
<1> QED
  <2>1. CASE c.current
    BY <2>1, <1>2, <1>4 DEF Pictured
  <2>2. CASE ~c.current
    <3>1. ASSUME Written, \E size \in Sizes : lost' = lost \cup {made'} /\ UNCHANGED scanner
          PROVE FilesInv'
      BY <3>1, <1>5
    <3> QED BY <2>2, <1>2, <3>1 DEF Pictured
  <2> QED BY <2>1, <2>2

LEMMA PreparesKeeps ==
    ASSUME FilesInv, NEW c, Prepares(c)
    PROVE  FilesInv'
<1>1. /\ c \in calls /\ c.kind = "prepare" /\ CallFine(c, made)
  BY DEF Prepares, FilesInv, Typed
<1>2. CASE calls' = calls \ {c} /\ Dispatch(c, Failed) /\ UNCHANGED <<files, made>>
  BY <1>1, <1>2, FailedKeeps
<1>3. CASE /\ Written /\ UNCHANGED <<scanner, lost>>
           /\ calls' = (calls \ {c}) \cup
                {[c EXCEPT !.kind = "read", !.captured = NoImage, !.orientation = 0, !.crop = FALSE,
                     !.prepared = [NoImage EXCEPT !.file = made', !.source = "PREPARED"]]}
  <2> DEFINE m == made'
             image == [NoImage EXCEPT !.file = m, !.source = "PREPARED"]
             e == [c EXCEPT !.kind = "read", !.captured = NoImage, !.orientation = 0,
                            !.crop = FALSE,
                     !.prepared = image]
  <2>1. calls' = (calls \ {c}) \cup {e}
    BY <1>3
  <2>2. /\ m \in Nat /\ m \in 1..m /\ m \notin Holding \cup Reading \cup Sending
        /\ \A d \in calls : CallFine(d, m) /\ m \notin Temporary(d.prepared)
    BY <1>3, WrittenNew
  <2>3. Temporary(image) = {m} /\ Fine(image, m) /\ image.source = "PREPARED" /\ image.file = m
    BY <2>2 DEF Temporary, Fine, Size, None, NoImage
  <2> HIDE DEF image, m
  <2>4. /\ DOMAIN e = CallFields /\ e.kind = "read" /\ e.captured = NoImage
        /\ e.prepared = image /\ e.orientation = 0 /\ e.current = c.current
    BY <1>1 DEF CallFine, CallFields
  <2> HIDE DEF e
  <2>5. CallFine(e, m)
    BY <1>1, <2>2, <2>3, <2>4, NoImageFine DEF CallFine, Orientations
  <2>6. Reading' = Reading \cup {m} /\ Sending' \subseteq Sending
    <3>1. Reading' = Reading \cup Temporary(e.prepared)
      BY <1>1, <2>1, <2>4 DEF Reading
    <3>2. Sending' \subseteq Sending
      BY <2>1, <2>4 DEF Sending
    <3> QED BY <3>1, <3>2, <2>3, <2>4
  <2>7. Apart'
    <3>1. \A d \in calls : d.kind = "read" => d.prepared.file # m
      <4>1. \A d \in calls : d.kind = "read" => Temporary(d.prepared) = {d.prepared.file}
        BY DEF FilesInv, Typed, CallFine, Temporary, None
      <4> QED BY <4>1, <2>2
    <3> QED BY <2>1, <2>3, <2>4, <3>1 DEF FilesInv, Apart
  <2>8. Holding' = Holding
    BY <1>3 DEF Holding
  <2>9. Kept'
    <3>1. Reading \cap Holding = {}
      BY DEF FilesInv, Kept
    <3>2. Reading' \cap Holding' = {}
      BY <3>1, <2>2, <2>6, <2>8
    <3> QED BY <1>3, <2>6, <2>8, <3>2, NewWritten DEF m
  <2>10. Typed'
    BY <1>3, <2>1, <2>2, <2>5, WrittenNew DEF FilesInv, Typed, m
  <2>11. Quiet'
    BY <1>1, <1>3, <2>1, <2>4, <2>8 DEF FilesInv, Quiet
  <2> QED BY <2>7, <2>9, <2>10, <2>11 DEF FilesInv
<1> QED
  BY <1>2, <1>3 DEF Prepares

\* A call that read is answered; no other has its file.
LEMMA ReadAnswered ==
    ASSUME FilesInv, NEW c, Answered(c, "read")
    PROVE  /\ c \in calls /\ CallFine(c, made) /\ Temporary(c.prepared) = {c.prepared.file}
           /\ c.prepared.file \in Reading
           /\ c.prepared.file \notin Holding \cup Sending
           /\ Reading' = Reading \ {c.prepared.file} /\ Sending' \subseteq Sending /\ Apart'
           /\ \A d \in calls' : CallFine(d, made)
<1>1. c \in calls /\ c.kind = "read" /\ calls' = calls \ {c}
  BY DEF Answered
<1>2. \A d \in calls : CallFine(d, made)
  BY DEF FilesInv, Typed
<1>3. \A d \in calls : d.kind = "read" => Temporary(d.prepared) = {d.prepared.file}
  BY <1>2 DEF CallFine, Temporary, None
<1>4. c.prepared.file \in Reading
  BY <1>1, <1>3 DEF Reading
<1>5. c.prepared.file \notin Holding \cup Sending
  BY <1>4 DEF FilesInv, Kept
<1>6. Reading' = Reading \ {c.prepared.file}
  <2>1. \A d \in calls' : d.kind = "read" => d.prepared.file # c.prepared.file
    BY <1>1 DEF FilesInv, Apart
  <2>2. ASSUME NEW f PROVE f \in Reading' <=> f \in Reading /\ f # c.prepared.file
    BY <1>1, <1>3, <2>1 DEF Reading
  <2> QED BY <2>2
<1>7. Sending' \subseteq Sending /\ Apart'
  BY <1>1 DEF Sending, FilesInv, Apart
<1> QED
  BY <1>1, <1>2, <1>3, <1>4, <1>5, <1>6, <1>7

LEMMA UnreadKeeps ==
    ASSUME FilesInv, NEW c, Unread(c)
    PROVE  FilesInv'
<1> DEFINE f == c.prepared.file
<1>1. Answered(c, "read") /\ UNCHANGED made /\ files' = files \ Temporary(c.prepared)
      /\ Dispatch(c, Failed)
  BY DEF Unread
<1>2. /\ c \in calls /\ Temporary(c.prepared) = {f} /\ f \in Reading
      /\ f \notin Holding \cup Sending
      /\ Reading' = Reading \ {f} /\ Sending' \subseteq Sending /\ Apart'
      /\ \A d \in calls' : CallFine(d, made)
  BY <1>1, ReadAnswered
<1>3. /\ DOMAIN scanner' = ScannerFields /\ scanner'.open = scanner.open
      /\ StateFine(scanner'.state, made) /\ Holding' = Holding /\ lost' = lost
      /\ \/ scanner' = scanner
         \/ scanner'.state.phase = "ERROR" /\ scanner.open = TRUE
  <2>1. CASE c.current
    <3> DEFINE s == Failed
    <3>1. scanner' = [scanner EXCEPT !.state = s] /\ lost' = lost \cup (Holding \ Holds(s))
      BY <1>1, <2>1 DEF Dispatch, Holding
    <3>2. StateFine(s, made) /\ s.phase = "ERROR" /\ Holds(s) = Holding
      BY FailedIs
    <3> HIDE DEF s
    <3>3. DOMAIN scanner' = ScannerFields /\ scanner'.open = scanner.open /\ scanner'.state = s
      BY <3>1 DEF FilesInv, Typed, ScannerFields
    <3>4. scanner.open = TRUE
      BY <1>2, <2>1, CurrentOpen
    <3> QED BY <3>1, <3>2, <3>3, <3>4 DEF Holding
  <2>2. CASE ~c.current
    BY <1>1, <2>2 DEF Dispatch, FilesInv, Typed, Holding
  <2> QED BY <2>1, <2>2
<1> HIDE DEF f
<1>4. Kept'
  <2>1. f # Original /\ files' = files \ {f}
    BY <1>1, <1>2 DEF FilesInv, Typed, Kept, Original
  <2> QED BY <1>1, <1>2, <1>3, <2>1 DEF FilesInv, Kept
<1>5. Quiet'
  BY <1>1, <1>3 DEF FilesInv, Quiet, Answered
<1> QED
  BY <1>1, <1>2, <1>3, <1>4, <1>5 DEF FilesInv, Typed

LEMMA ReadsKeeps ==
    ASSUME FilesInv, NEW c, Reads(c)
    PROVE  FilesInv'
<1> DEFINE f == c.prepared.file
<1>1. Answered(c, "read") /\ UNCHANGED <<files, made>>
  BY DEF Reads
<1>2. /\ c \in calls /\ CallFine(c, made) /\ Temporary(c.prepared) = {f}
      /\ f \in Reading /\ f \notin Holding \cup Sending
      /\ Reading' = Reading \ {f} /\ Sending' \subseteq Sending /\ Apart'
      /\ \A d \in calls' : CallFine(d, made)
  BY <1>1, ReadAnswered
<1>3. CASE c.current
  <2>1. PICK text \in Texts :
          LET state == [scanner.state EXCEPT !.phase = "REVIEW",
                          !.prepared = c.prepared, !.result = Result(text)]
          IN /\ scanner' = [scanner EXCEPT !.state = state, !.draft = IF Trimmed(text.lines) = <<>> THEN "empty" ELSE "read"]
             /\ lost' = lost \cup (Holds(scanner.state) \ Holds(state))
    BY <1>3 DEF Reads
  <2> DEFINE result == Result(text)
             draft == IF Trimmed(text.lines) = <<>> THEN "empty" ELSE "read"
             s == [scanner.state EXCEPT !.phase = "REVIEW", !.prepared = c.prepared,
                     !.result = result]
  <2>2. /\ scanner' = [scanner EXCEPT !.state = s, !.draft = draft]
        /\ lost' = lost \cup (Holding \ Holds(s))
    BY <2>1 DEF Holding
  <2> HIDE DEF result, draft
  <2>3. /\ DOMAIN s = StateFields /\ s.phase = "REVIEW" /\ s.prepared = c.prepared
        /\ s.captured = scanner.state.captured /\ s.orientation = scanner.state.orientation
    BY DEF FilesInv, Typed, StateFine, StateFields
  <2> HIDE DEF s
  <2>4. /\ DOMAIN scanner' = ScannerFields /\ scanner'.state = s /\ scanner'.open = scanner.open
        /\ scanner.open = TRUE
    <3>1. scanner.open = TRUE
      BY <1>2, <1>3, CurrentOpen
    <3> QED BY <2>2, <3>1 DEF FilesInv, Typed, ScannerFields
  <2>5. StateFine(s, made)
    BY <1>2, <2>3 DEF StateFine, FilesInv, Typed, CallFine
  <2>6. Holding' = Holds(s) /\ f \in Holding' /\ Holding' \subseteq Holding \cup {f}
    BY <1>2, <2>3, <2>4 DEF Holding, Holds
  <2> HIDE DEF f
  <2>7. Kept'
    <3>1. lost' = lost \cup (Holding \ Holding')
      BY <2>2, <2>6
    <3> QED BY <1>1, <1>2, <2>6, <3>1 DEF FilesInv, Kept
  <2>8. Quiet'
    BY <2>3, <2>4 DEF Quiet
  <2> QED BY <1>1, <1>2, <2>4, <2>5, <2>7, <2>8 DEF FilesInv, Typed
<1>4. CASE ~c.current
  <2>1. lost' = lost \cup {f} /\ UNCHANGED scanner
    BY <1>2, <1>4 DEF Reads
  <2> HIDE DEF f
  <2>2. Holding' = Holding
    BY <2>1 DEF Holding
  <2>3. Kept'
    BY <1>1, <1>2, <2>1, <2>2 DEF FilesInv, Kept
  <2>4. Quiet'
    BY <1>1, <2>1, <2>2 DEF FilesInv, Quiet, Answered
  <2> QED BY <1>1, <1>2, <2>1, <2>3, <2>4 DEF FilesInv, Typed
<1> QED
  BY <1>3, <1>4

-----------------------------------------------------------------------------
(* The theorems.                                                           *)

\* What the scanner and its calls hold fits the files on the phone, always: the
\* inductive invariant behind the removals of VisionScanner.
THEOREM FilesInvariant == Spec => []FilesInv
<1>1. Init => FilesInv
  <2> SUFFICES ASSUME Init PROVE FilesInv
    OBVIOUS
  <2>1. PICK permission \in Permissions : scanner = Shut(permission)
    BY DEF Init
  <2>2. /\ DOMAIN scanner = ScannerFields /\ scanner.state = Initial("SOURCE")
        /\ scanner.open = FALSE
    BY <2>1 DEF Shut, Opened, ScannerFields
  <2>3. files = {Original} /\ made = 0 /\ calls = {} /\ lost = {}
    BY DEF Init
  <2>4. StateFine(scanner.state, made) /\ Holding = {} /\ scanner.state.phase = "SOURCE"
    BY <2>2, <2>3, InitialFine DEF Holding
  <2>5. Reading = {} /\ Sending = {} /\ Apart
    BY <2>3 DEF Reading, Sending, Apart
  <2> QED BY <2>2, <2>3, <2>4, <2>5 DEF FilesInv, Typed, Kept, Quiet
<1>2. FilesInv /\ [Next]_vars => FilesInv'
  <2> SUFFICES ASSUME FilesInv, [Next]_vars PROVE FilesInv'
    OBVIOUS
  <2>1. CASE Person
    <3>1. CASE CaptureCamera \/ ChooseGallery
      BY <3>1, AsksKeeps DEF CaptureCamera, ChooseGallery
    <3>2. CASE Edit
      BY <3>2, MarkedKeeps DEF Edit
    <3> QED
      BY <2>1, <3>1, <3>2, OpenScannerKeeps, CloseKeeps, OpenCameraKeeps, RotateKeeps,
         RecognizeKeeps, DiscardKeeps, AnalyzeKeeps DEF Person
  <2>2. CASE CameraReady
    BY <2>2, MarkedKeeps DEF CameraReady
  <2>3. ASSUME NEW c \in calls, Answer(c) PROVE FilesInv'
    BY <2>3, AllowsKeeps, PicturedKeeps, ChosenKeeps, PreparesKeeps, UnreadKeeps, ReadsKeeps,
       AnalyzedKeeps DEF Answer
  <2>4. CASE UNCHANGED vars
    <3>1. UNCHANGED <<scanner, files, made, calls, lost>>
      BY <2>4 DEF vars
    <3>2. Holding' = Holding /\ Quiet'
      BY <3>1 DEF FilesInv, Quiet, Holding
    <3> QED BY <3>1, <3>2, SameCalls, StateMoves DEF FilesInv, Typed
  <2> QED
    BY <2>1, <2>2, <2>3, <2>4 DEF Next
<1> QED
  BY <1>1, <1>2, PTL DEF Spec

\* No removal by VisionScanner (retake, close, failure, analysis) takes a file
\* that somebody still needs, nor an original of the gallery.
THEOREM NeededFilesStay == Spec => []FilesInUse
<1>1. FilesInv => FilesInUse
  <2> SUFFICES ASSUME FilesInv PROVE FilesInUse
    OBVIOUS
  <2>1. \A c \in calls : c.kind = "read" => c.prepared.file \in Reading
    BY DEF FilesInv, Typed, CallFine, Temporary, None, Reading
  <2> QED BY <2>1 DEF FilesInv, Kept, Holding, FilesInUse
<1> QED
  BY <1>1, FilesInvariant, PTL

\* Every temporary file has somebody who will remove it, the scanner or the
\* reading that goes on, or is known as lost.
THEOREM FilesAreRemoved == Spec => []SomeoneRemoves
<1>1. FilesInv => SomeoneRemoves
  BY DEF FilesInv, Kept, Holding, Reading, SomeoneRemoves
<1> QED
  BY <1>1, FilesInvariant, PTL

\* The area that preprocessImage crops lies inside the picture and is not empty,
\* and the side it asks for is at most 2200, for every size of a picture.
THEOREM AreasFit == Spec => []PlansFit
<1>1. FilesInv => PlansFit
  <2> SUFFICES ASSUME FilesInv, NEW c \in calls, c.kind = "prepare"
               PROVE  LET plan == Plan(c.captured, c.orientation, c.crop)
                          area == plan.area
                      IN /\ area.x >= 0 /\ area.size[1] >= 1
                         /\ area.x + area.size[1] <= plan.turned[1]
                         /\ area.y >= 0 /\ area.size[2] >= 1
                         /\ area.y + area.size[2] <= plan.turned[2]
                         /\ plan.side \in 1..2200
    BY DEF PlansFit
  <2>1. c.captured.size \in Size
    BY DEF FilesInv, Typed, CallFine, Fine
  <2> QED BY <2>1, PlanFits
<1> QED
  BY <1>1, FilesInvariant, PTL

-----------------------------------------------------------------------------
(* What the review says of the text.                                       *)

\* A set of numbers has a smallest one.
LEMMA SmallestIs ==
    ASSUME NEW T \in SUBSET Nat, T # {}
    PROVE  \E x \in T : \A y \in T : x <= y
<1> DEFINE R == OpToRel(<, Nat)
<1>1. IsWellFoundedOn(R, Nat)
  BY NatLessThanWellFounded
<1>2. \A a, b \in Nat : a < b => <<a, b>> \in R
  BY DEF OpToRel
<1> HIDE DEF R
<1>3. PICK x \in T : \A y \in T : ~(<<y, x>> \in R)
  BY <1>1, WFMin
<1>4. ASSUME NEW y \in T, ~(x <= y)
      PROVE  FALSE
  <2>1. y \in Nat /\ x \in Nat /\ y < x
    BY <1>4
  <2> QED
    BY <2>1, <1>2, <1>3, Zenon
<1> QED
  BY <1>4

\* What postprocessErrorText cuts off are lines above the head of an error that do
\* not look like a trace, six at most.
LEMMA TrimmedIs ==
    ASSUME NEW lines \in Seq(Line)
    PROVE  \E cut \in 0..6 :
              /\ Trimmed(lines) = SubSeq(lines, cut + 1, Len(lines))
              /\ \A i \in 1..cut : ~lines[i].anchor /\ ~lines[i].trace
              /\ cut > 0 => cut < Len(lines) /\ lines[cut + 1].anchor
<1> DEFINE anchors == {i \in DOMAIN lines : lines[i].anchor}
           first == CHOOSE i \in anchors : \A j \in anchors : i <= j
<1>1. Trimmed(lines) = IF anchors = {} THEN lines
                       ELSE IF first > 7 \/ (\E i \in 1..first - 1 : lines[i].trace)
                       THEN lines ELSE SubSeq(lines, first, Len(lines))
  BY DEF Trimmed
<1>2. CASE Trimmed(lines) = lines
  <2>1. lines = SubSeq(lines, 0 + 1, Len(lines))
    OBVIOUS
  <2>2. 0 \in 0..6 /\ (\A i \in 1..0 : ~lines[i].anchor /\ ~lines[i].trace) /\ ~(0 > 0)
    OBVIOUS
  <2> QED
    BY <1>2, <2>1, <2>2
<1>3. CASE /\ anchors # {} /\ ~(first > 7)
           /\ ~(\E i \in 1..first - 1 : lines[i].trace)
           /\ Trimmed(lines) = SubSeq(lines, first, Len(lines))
  <2>1. anchors \in SUBSET Nat /\ DOMAIN lines = 1..Len(lines) /\ Len(lines) \in Nat
    OBVIOUS
  <2>2. \E i \in anchors : \A j \in anchors : i <= j
    <3> HIDE DEF anchors
    <3> QED
      BY <1>3, <2>1, SmallestIs
  <2>3. first \in anchors /\ \A j \in anchors : first <= j
    BY <2>2
  <2> HIDE DEF first
  <2>4. first \in 1..Len(lines) /\ first <= 7 /\ lines[first].anchor
    BY <1>3, <2>1, <2>3
  <2>5. \A i \in 1..first - 1 : ~lines[i].anchor
    BY <2>1, <2>3, <2>4
  <2>6. \A i \in 1..first - 1 : ~lines[i].anchor /\ ~lines[i].trace
    BY <1>3, <2>5
  <2>7. first - 1 \in 0..6 /\ (first - 1) + 1 = first /\ first - 1 < Len(lines)
    BY <2>1, <2>4
  <2> QED
    BY <1>3, <2>4, <2>6, <2>7
<1> QED
  BY <1>1, <1>2, <1>3

\* Cutting lines off the front adds defects and takes none away.
LEMMA CutHidesNothing ==
    ASSUME NEW text \in Texts, NEW cut \in Nat, cut <= Len(text.lines)
    PROVE  LET part == SubSeq(text.lines, cut + 1, Len(text.lines)) IN
           /\ Len(part) <= Len(text.lines)
           /\ Defects(text.lines, text) \subseteq Defects(part, text)
<1> DEFINE whole == text.lines
           part == SubSeq(whole, cut + 1, Len(whole))
<1>1. whole \in Seq(Line) /\ text.brief \in Nat
  BY VisionAssumption
<1> HIDE DEF whole
<1>2. /\ Len(whole) \in Nat /\ DOMAIN whole = 1..Len(whole)
      /\ Len(part) = Len(whole) - cut /\ DOMAIN part = 1..Len(part)
      /\ \A i \in DOMAIN part : i + cut \in DOMAIN whole /\ part[i] = whole[i + cut]
  BY <1>1 DEF whole
<1> HIDE DEF part
<1>3. Technical(part) => Technical(whole)
  <2> SUFFICES ASSUME NEW i \in DOMAIN part, NEW j \in DOMAIN part,
                      IF i = j THEN part[i].tokens = 2
                      ELSE part[i].tokens >= 1 /\ part[j].tokens >= 1
               PROVE  Technical(whole)
    BY DEF Technical
  <2>1. /\ i + cut \in DOMAIN whole /\ part[i] = whole[i + cut]
        /\ j + cut \in DOMAIN whole /\ part[j] = whole[j + cut]
    BY <1>2
  <2>2. i = j <=> i + cut = j + cut
    BY <1>2
  <2> QED
    BY <2>1, <2>2 DEF Technical
<1>4. Len(whole) <= text.brief => Len(part) <= text.brief
  BY <1>1, <1>2
<1>5. Defects(whole, text) \subseteq Defects(part, text)
  BY <1>3, <1>4 DEF Defects
<1> QED
  BY <1>2, <1>5 DEF whole, part

\* With more defects and no more lines the level is no better.
LEMMA LevelFalls ==
    ASSUME NEW part, NEW whole, NEW text, part # <<>>, whole # <<>>,
           Len(part) \in Nat, Len(whole) \in Nat, Len(part) <= Len(whole),
           Defects(whole, text) \subseteq Defects(part, text)
    PROVE  /\ Quality(part, text) = "GOOD" => Quality(whole, text) = "GOOD"
           /\ Quality(whole, text) = "POOR" => Quality(part, text) = "POOR"
<1> DEFINE Costs(lines, defect, points) == IF defect \in Defects(lines, text) THEN points ELSE 0
           Score(lines) == 100 - Costs(lines, "SHORT_TEXT", 30)
                               - Costs(lines, "LOW_TECHNICAL_SIGNAL", 25)
                               - Costs(lines, "NOISY_TEXT", 30)
                               + (IF Len(lines) >= 2 THEN 5 ELSE 0)
<1>1. ASSUME NEW lines, lines # <<>>
      PROVE  Quality(lines, text) = IF Score(lines) >= 75 THEN "GOOD"
                                    ELSE IF Score(lines) >= 50 THEN "REVIEW" ELSE "POOR"
  BY <1>1 DEF Quality
<1>2. Score(part) <= Score(whole) /\ Score(part) \in Int /\ Score(whole) \in Int
  OBVIOUS
<1> HIDE DEF Score
<1>3. Score(part) >= 75 => Score(whole) >= 75
  BY <1>2
<1>4. Score(part) >= 50 => Score(whole) >= 50
  BY <1>2
<1> QED
  BY <1>1, <1>3, <1>4

\* Of three defects, at most one, or at least two.
LEMMA DefectsCount ==
    ASSUME NEW b, NEW c, NEW d, b # c, b # d, c # d, NEW D, D \subseteq {b, c, d}
    PROVE  /\ ~(b \in D /\ c \in D) /\ ~(b \in D /\ d \in D) /\ ~(c \in D /\ d \in D)
                => Cardinality(D) <= 1
           /\ (b \in D /\ c \in D) \/ (b \in D /\ d \in D) \/ (c \in D /\ d \in D)
                => Cardinality(D) >= 2
<1>1. IsFiniteSet(D)
  <2>1. IsFiniteSet({b} \cup {c} \cup {d})
    BY FS_Singleton, FS_AddElement
  <2>2. D \in SUBSET ({b} \cup {c} \cup {d})
    OBVIOUS
  <2> QED
    BY <2>1, <2>2, FS_Subset
<1>2. ASSUME NEW x, NEW y, x # y, x \in D, y \in D
      PROVE  Cardinality(D) >= 2
  <2>1. IsFiniteSet({x}) /\ Cardinality({x}) = 1
    BY FS_Singleton
  <2>2. IsFiniteSet({x} \cup {y}) /\ Cardinality({x} \cup {y}) = 2
    BY <1>2, <2>1, FS_AddElement
  <2>3. {x} \cup {y} \in SUBSET D
    BY <1>2
  <2>4. Cardinality({x} \cup {y}) <= Cardinality(D) /\ Cardinality(D) \in Nat
    BY <1>1, <2>3, FS_Subset, FS_CardinalityType
  <2> QED
    BY <2>2, <2>4
<1>3. ASSUME ~(b \in D /\ c \in D), ~(b \in D /\ d \in D), ~(c \in D /\ d \in D)
      PROVE  Cardinality(D) <= 1
  <2>1. D = {} \/ D = {b} \/ D = {c} \/ D = {d}
    BY <1>3
  <2>2. /\ Cardinality({}) = 0
        /\ Cardinality({b}) = 1 /\ Cardinality({c}) = 1 /\ Cardinality({d}) = 1
    BY FS_EmptySet, FS_Singleton
  <2>3. Cardinality(D) = 0 \/ Cardinality(D) = 1
    BY <2>1, <2>2
  <2> QED
    BY <2>3
<1> QED
  BY <1>2, <1>3

\* evaluateOcrQuality: GOOD has one defect at most, POOR two at least.
LEMMA LevelIs ==
    ASSUME NEW lines, NEW text, lines # <<>>
    PROVE  /\ Quality(lines, text) = "GOOD" => Cardinality(Defects(lines, text)) <= 1
           /\ Quality(lines, text) = "POOR" => Cardinality(Defects(lines, text)) >= 2
<1> DEFINE short == "SHORT_TEXT" \in Defects(lines, text)
           low == "LOW_TECHNICAL_SIGNAL" \in Defects(lines, text)
           noisy == "NOISY_TEXT" \in Defects(lines, text)
           score == 100 - (IF short THEN 30 ELSE 0) - (IF low THEN 25 ELSE 0)
                        - (IF noisy THEN 30 ELSE 0) + (IF Len(lines) >= 2 THEN 5 ELSE 0)
<1>1. Quality(lines, text) = IF score >= 75 THEN "GOOD"
                             ELSE IF score >= 50 THEN "REVIEW" ELSE "POOR"
  BY DEF Quality
<1>2. Defects(lines, text) \subseteq {"SHORT_TEXT", "LOW_TECHNICAL_SIGNAL", "NOISY_TEXT"}
  BY DEF Defects
<1>3. /\ ~(short /\ low) /\ ~(short /\ noisy) /\ ~(low /\ noisy)
           => Cardinality(Defects(lines, text)) <= 1
      /\ (short /\ low) \/ (short /\ noisy) \/ (low /\ noisy)
           => Cardinality(Defects(lines, text)) >= 2
  BY <1>2, DefectsCount
<1> HIDE DEF short, low, noisy
<1>4. /\ score >= 75 => ~(short /\ low) /\ ~(short /\ noisy) /\ ~(low /\ noisy)
      /\ ~(score >= 50) => (short /\ low) \/ (short /\ noisy) \/ (low /\ noisy)
  OBVIOUS
<1> HIDE DEF score
<1>5. Quality(lines, text) = "GOOD" => score >= 75
  BY <1>1
<1>6. Quality(lines, text) = "POOR" => ~(score >= 50)
  BY <1>1
<1> QED
  BY <1>3, <1>4, <1>5, <1>6

\* The cut and the judgement of one text agree.
LEMMA ResultHonest ==
    ASSUME NEW text \in Texts
    PROVE  LET r == Result(text)
               whole == r.raw.lines
               defects == r.warnings \cap {"SHORT_TEXT", "LOW_TECHNICAL_SIGNAL", "NOISY_TEXT"}
           IN /\ \E cut \in 0..6 :
                    /\ r.lines = SubSeq(whole, cut + 1, Len(whole))
                    /\ \A i \in 1..cut : ~whole[i].anchor /\ ~whole[i].trace
                    /\ cut > 0 => r.lines[1].anchor /\ "TEXT_TRIMMED_TO_ERROR" \in r.warnings
              /\ whole # <<>> => Defects(whole, r.raw) \subseteq r.warnings
              /\ r.level = "GOOD" => Quality(whole, r.raw) = "GOOD"
              /\ Quality(whole, r.raw) = "POOR" => r.level = "POOR"
              /\ r.level = "GOOD" => Cardinality(defects) <= 1 /\ r.lines # <<>>
              /\ r.level = "POOR" => Cardinality(defects) >= 2 \/ r.lines = <<>>
<1> DEFINE r == Result(text)
           whole == text.lines
           lines == Trimmed(whole)
           Kinds == {"SHORT_TEXT", "LOW_TECHNICAL_SIGNAL", "NOISY_TEXT"}
           defects == r.warnings \cap Kinds
<1>1. /\ r.raw = text /\ r.lines = lines /\ r.level = Quality(lines, text)
      /\ r.warnings = Warnings(text)
  BY DEF Result
<1>2. whole \in Seq(Line) /\ Len(whole) \in Nat
  BY VisionAssumption
<1>3. PICK cut \in 0..6 :
         /\ lines = SubSeq(whole, cut + 1, Len(whole))
         /\ \A i \in 1..cut : ~whole[i].anchor /\ ~whole[i].trace
         /\ cut > 0 => cut < Len(whole) /\ whole[cut + 1].anchor
  BY <1>2, TrimmedIs
<1> HIDE DEF lines
<1>4. /\ Len(lines) = Len(whole) - cut /\ Len(lines) \in Nat
      /\ cut \in Nat /\ cut <= Len(whole)
      /\ cut > 0 => lines[1] = whole[cut + 1] /\ whole # <<>> /\ lines # <<>> /\ lines # whole
  <2> HIDE DEF whole
  <2>1. cut \in Nat /\ cut <= Len(whole)
    BY <1>2, <1>3
  <2>2. Len(lines) = Len(whole) - cut /\ Len(lines) \in Nat
    BY <1>2, <1>3, <2>1
  <2>3. cut > 0 => lines[1] = whole[cut + 1]
    BY <1>2, <1>3, <2>1
  <2>4. cut > 0 => Len(whole) > 0 /\ Len(lines) > 0 /\ Len(lines) # Len(whole)
    BY <1>2, <1>3, <2>1, <2>2
  <2> QED
    BY <2>1, <2>2, <2>3, <2>4
<1>5. whole # <<>> <=> lines # <<>>
  BY <1>2, <1>3, <1>4
<1>6. Len(lines) <= Len(whole) /\ Defects(whole, text) \subseteq Defects(lines, text)
  BY <1>3, <1>4, CutHidesNothing
<1>7. /\ lines # whole => "TEXT_TRIMMED_TO_ERROR" \in Warnings(text)
      /\ lines # <<>> => Defects(lines, text) = Warnings(text) \cap Kinds
  <2>1. Defects(lines, text) \subseteq Kinds
    BY DEF Defects
  <2>2. /\ Warnings(text) =
             (IF lines = <<>> THEN {"EMPTY_TEXT"} ELSE Defects(lines, text))
             \cup (IF \E i \in DOMAIN lines : lines[i].secret THEN {"POSSIBLE_SECRET"} ELSE {})
             \cup (IF lines # whole THEN {"TEXT_TRIMMED_TO_ERROR"} ELSE {})
    BY DEF Warnings, lines
  <2> HIDE DEF whole
  <2> QED
    BY <2>1, <2>2
<1>8. \E n \in 0..6 :
         /\ r.lines = SubSeq(whole, n + 1, Len(whole))
         /\ \A i \in 1..n : ~whole[i].anchor /\ ~whole[i].trace
         /\ n > 0 => r.lines[1].anchor /\ "TEXT_TRIMMED_TO_ERROR" \in r.warnings
  BY <1>1, <1>3, <1>4, <1>7
<1>9. whole # <<>> => Defects(whole, text) \subseteq r.warnings
  BY <1>1, <1>5, <1>6, <1>7
<1>10. lines = <<>> => Quality(lines, text) = "POOR"
  BY DEF Quality
<1>11. /\ Quality(lines, text) = "GOOD" => Quality(whole, text) = "GOOD"
       /\ Quality(whole, text) = "POOR" => Quality(lines, text) = "POOR"
  <2>1. CASE lines # <<>>
    BY <2>1, <1>2, <1>4, <1>5, <1>6, LevelFalls
  <2> QED
    BY <2>1, <1>10
<1>12. /\ r.level = "GOOD" => Cardinality(defects) <= 1 /\ r.lines # <<>>
       /\ r.level = "POOR" => Cardinality(defects) >= 2 \/ r.lines = <<>>
  <2>1. CASE lines # <<>>
    <3>1. defects = Defects(lines, text)
      BY <2>1, <1>1, <1>7
    <3> QED
      BY <2>1, <3>1, <1>1, LevelIs
  <2>2. CASE lines = <<>>
    BY <2>2, <1>1, <1>10
  <2> QED
    BY <2>1, <2>2
<1> QED
  BY <1>1, <1>8, <1>9, <1>11, <1>12

\* A state has no result, or that of a text that was read.
ResultKnown(state) == state.result = NoResult \/ \E text \in Texts : state.result = Result(text)

ReviewInv == FilesInv /\ ResultKnown(scanner.state)

LEMMA ResultInitial ==
    ASSUME NEW phase, NEW image
    PROVE  /\ Initial(phase).result = NoResult
           /\ [Initial(phase) EXCEPT !.captured = image].result = NoResult
BY DEF Initial

\* Dispatching keeps the result when the new state has that of the old one, or none.
LEMMA DispatchKnown ==
    ASSUME ReviewInv, NEW c, NEW state, Dispatch(c, state),
           state.result = scanner.state.result \/ state.result = NoResult
    PROVE  ResultKnown(scanner.state)'
BY DEF Dispatch, ReviewInv, ResultKnown, FilesInv, Typed, ScannerFields

LEMMA FailedResult ==
    ASSUME FilesInv
    PROVE  Failed.result = scanner.state.result
BY DEF Failed, FilesInv, Typed, StateFine, StateFields

LEMMA PersonKnown ==
    ASSUME ReviewInv, Person \/ CameraReady
    PROVE  ResultKnown(scanner.state)'
<1>1. /\ DOMAIN scanner = ScannerFields /\ DOMAIN scanner.state = StateFields
      /\ ResultKnown(scanner.state)
  BY DEF ReviewInv, FilesInv, Typed, StateFine
<1>2. CASE OpenScanner \/ Close
  <2>1. scanner'.state = Initial("SOURCE")
    BY <1>2 DEF OpenScanner, Close, Closed, Opened, Shut
  <2> QED
    BY <2>1, ResultInitial DEF ResultKnown
<1>3. CASE OpenCamera
  <2>1. scanner'.state = Initial("CAMERA") \/ scanner'.state = scanner.state
    BY <1>1, <1>3 DEF OpenCamera, ScannerFields
  <2> QED
    BY <1>1, <2>1, ResultInitial DEF ResultKnown
<1>4. CASE DiscardAndRetake
  <2> DEFINE phase == IF scanner.state.captured.source = "CAMERA" THEN "CAMERA" ELSE "SOURCE"
  <2>1. scanner' = [scanner EXCEPT !.state = Initial(phase)]
    BY <1>4 DEF DiscardAndRetake
  <2> HIDE DEF phase
  <2>2. scanner'.state = Initial(phase)
    BY <1>1, <2>1 DEF ScannerFields
  <2> QED
    BY <2>2, ResultInitial DEF ResultKnown
<1>5. CASE Rotate \/ \E crop \in BOOLEAN : Recognize(crop)
  <2>1. scanner'.state.result = scanner.state.result
    BY <1>1, <1>5 DEF Rotate, Recognize, ScannerFields, StateFields
  <2> QED
    BY <1>1, <2>1 DEF ResultKnown
<1>6. CASE CaptureCamera \/ ChooseGallery \/ Edit \/ Analyze \/ CameraReady
  <2>1. scanner'.state = scanner.state
    BY <1>1, <1>6 DEF CaptureCamera, ChooseGallery, Edit, Analyze, CameraReady, ScannerFields
  <2> QED
    BY <1>1, <2>1 DEF ResultKnown
<1> QED
  BY <1>2, <1>3, <1>4, <1>5, <1>6 DEF Person

LEMMA AnswerKnown ==
    ASSUME ReviewInv, NEW c \in calls, Answer(c)
    PROVE  ResultKnown(scanner.state)'
<1>1. /\ DOMAIN scanner = ScannerFields /\ DOMAIN scanner.state = StateFields
      /\ ResultKnown(scanner.state) /\ Failed.result = scanner.state.result
  BY FailedResult DEF ReviewInv, FilesInv, Typed, StateFine
<1>2. CASE Allows(c)
  <2>1. scanner'.state = Initial("CAMERA") \/ scanner'.state = scanner.state
    BY <1>1, <1>2 DEF Allows, ScannerFields
  <2> QED
    BY <1>1, <2>1, ResultInitial DEF ResultKnown
<1>3. CASE Pictured(c) \/ Chosen(c)
  <2>1. ASSUME NEW image, Captures(c, image)
        PROVE  ResultKnown(scanner.state)'
    BY <2>1, ResultInitial, DispatchKnown DEF Captures
  <2>2. ASSUME Dispatch(c, Failed)
        PROVE  ResultKnown(scanner.state)'
    BY <1>1, <2>2, DispatchKnown
  <2>3. ASSUME UNCHANGED scanner
        PROVE  ResultKnown(scanner.state)'
    BY <1>1, <2>3 DEF ResultKnown
  <2> QED
    BY <1>3, <2>1, <2>2, <2>3 DEF Pictured, Chosen
<1>4. CASE Prepares(c) \/ Unread(c)
  <2>1. UNCHANGED scanner \/ Dispatch(c, Failed)
    BY <1>4 DEF Prepares, Unread
  <2> QED
    BY <1>1, <2>1, DispatchKnown DEF ResultKnown
<1>5. CASE Reads(c)
  <2>1. CASE c.current
    <3>1. PICK text \in Texts :
            LET state == [scanner.state EXCEPT !.phase = "REVIEW",
                            !.prepared = c.prepared, !.result = Result(text)]
            IN scanner' = [scanner EXCEPT !.state = state, !.draft = IF Trimmed(text.lines) = <<>> THEN "empty" ELSE "read"]
      BY <1>5, <2>1 DEF Reads
    <3> DEFINE result == Result(text)
               draft == IF Trimmed(text.lines) = <<>> THEN "empty" ELSE "read"
               state == [scanner.state EXCEPT !.phase = "REVIEW", !.prepared = c.prepared,
                           !.result = result]
    <3>2. scanner' = [scanner EXCEPT !.state = state, !.draft = draft]
      BY <3>1
    <3> HIDE DEF result, draft
    <3>3. scanner'.state.result = result
      BY <1>1, <3>2 DEF ScannerFields, StateFields
    <3> QED
      BY <3>3 DEF ResultKnown, result
  <2>2. CASE ~c.current
    BY <1>1, <1>5, <2>2 DEF Reads, ResultKnown
  <2> QED
    BY <2>1, <2>2
<1>6. CASE Analyzed(c)
  <2>1. scanner'.state = Initial("SOURCE") \/ scanner'.state = scanner.state
    BY <1>1, <1>6 DEF Analyzed, Shut, Opened, ScannerFields
  <2> QED
    BY <1>1, <2>1, ResultInitial DEF ResultKnown
<1> QED
  BY <1>2, <1>3, <1>4, <1>5, <1>6 DEF Answer

\* Whatever came of pictures, turns and readings, the result of the scanner's
\* state is that of a whole text, or none: never a mixture of two readings.
THEOREM ReviewInvariant == Spec => []ReviewInv
<1>1. Init => ResultKnown(scanner.state)
  BY ResultInitial DEF Init, Shut, Opened, ResultKnown
<1>2. ReviewInv /\ [Next]_vars => ResultKnown(scanner.state)'
  <2> SUFFICES ASSUME ReviewInv, [Next]_vars PROVE ResultKnown(scanner.state)'
    OBVIOUS
  <2>1. CASE UNCHANGED vars
    BY <2>1 DEF vars, ReviewInv, ResultKnown
  <2> QED
    BY <2>1, PersonKnown, AnswerKnown DEF Next
<1> QED
  BY <1>1, <1>2, FilesInvariant, PTL DEF Spec, ReviewInv

\* Whatever the patterns of the two places find in the lines of a text of any
\* length, the review leaves out at most six lines above an error, none of a trace,
\* and warns of it; the cut hides no defect of the whole text and betters no level;
\* GOOD has at most one defect, POOR at least two.
THEOREM ReviewsAreHonest == Spec => []ReviewIsHonest
<1>1. ReviewInv => ReviewIsHonest
  <2> SUFFICES ASSUME ReviewInv, scanner.state.result.level # None
               PROVE  ReviewIsHonest
    BY DEF ReviewIsHonest
  <2>1. scanner.state.result # NoResult
    BY DEF NoResult
  <2>2. PICK text \in Texts : scanner.state.result = Result(text)
    BY <2>1 DEF ReviewInv, ResultKnown
  <2> QED
    BY <2>2, ResultHonest DEF ReviewIsHonest
<1> QED
  BY <1>1, ReviewInvariant, PTL
=============================================================================
