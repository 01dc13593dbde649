--------------------------- MODULE VisionCapture ---------------------------
(***************************************************************************)
(* The phone's error scanner: VisionScanner with its reducer, its camera   *)
(* and gallery sources, the preparation of the picture, the reading of its *)
(* text on the device and the removal of the files that all this leaves.   *)
(*                                                                         *)
(* A file is a number, in the order the files were made; 0 is the original *)
(* in the gallery.  A line of text is what the patterns of the code find   *)
(* in it, each by itself: postprocessor.ts's for the head of an error and  *)
(* for the rest of a trace, quality.ts's for technical tokens, privacy.ts's *)
(* for a secret.  Blocks and times are left out, as is the torch.  A call  *)
(* that the scanner waits for carries whether the scanner that made it is  *)
(* still the one on the screen (current).                                  *)
(***************************************************************************)
EXTENDS Integers, Sequences, FiniteSets

CONSTANTS
    Sizes,   \* <<width, height>> of the pictures
    Texts,   \* what may be read: its lines; how many of the last ones, together,
             \* stay below 24 characters (brief); whether the raw text is noisy
    MaxFiles, \* bound: files made on the phone
    MaxCalls  \* bound: calls awaited at the same time

\* tokens: quality.ts's technical tokens of the line, 2 for two or more.
Line == [anchor : BOOLEAN, trace : BOOLEAN, tokens : 0..2, secret : BOOLEAN]

ASSUME VisionAssumption ==
    /\ Sizes \subseteq (Nat \ {0}) \X (Nat \ {0})
    /\ Texts \subseteq [lines : Seq(Line), brief : Nat, noisy : BOOLEAN]
    /\ MaxFiles \in Nat /\ MaxCalls \in Nat

VARIABLES
    scanner, \* VisionState and the other state of the component; whether it is shown
    files,   \* files on the phone
    made,    \* how many were made
    calls,   \* what the scanner awaits
    lost     \* history: files that an answer came too late for, or replaced

vars == <<scanner, files, made, calls, lost>>

Original == 0
None == "none"
NoImage == [file |-> -1, source |-> None, size |-> <<1, 1>>]
NoResult == [raw |-> {}, lines |-> <<>>, level |-> None, warnings |-> {}]

Initial(phase) ==
    [phase |-> phase, captured |-> NoImage, prepared |-> NoImage, result |-> NoResult,
     orientation |-> 0]
\* A scanner that was just opened.
Opened(permission) ==
    [state |-> Initial("SOURCE"), open |-> TRUE, ready |-> FALSE, draft |-> "empty",
     sending |-> FALSE, permission |-> permission]
Shut(permission) == [Opened(permission) EXCEPT !.open = FALSE]

Permissions == {"granted", "denied", "blocked"}

Init ==
    /\ \E permission \in Permissions : scanner = Shut(permission)
    /\ files = {Original} /\ made = 0 /\ calls = {} /\ lost = {}

-----------------------------------------------------------------------------
(* Preparing a picture and reading it.                                     *)

\* Math.round of n / d.
Rounded(n, d) == (2 * n + d) \div (2 * d)

\* The guided area of a picture, as shown on the preview.
Guided(size) ==
    LET AtLeastOne(n) == IF n < 1 THEN 1 ELSE n
        w == AtLeastOne(Rounded(size[1] * 9, 10))
        h == AtLeastOne(Rounded(size[2] * 62, 100))
    IN [x |-> Rounded(size[1] - w, 2), y |-> Rounded(size[2] - h, 2), size |-> <<w, h>>]

\* The sides after a turn of the manipulator.
Turned(size, orientation) == IF orientation \in {90, 270} THEN <<size[2], size[1]>> ELSE size

\* Faulty variant: the area of the picture as it was before the turn.
PlanUnturned(image, orientation, crop) ==
    LET area == IF crop THEN Guided(image.size) ELSE [x |-> 0, y |-> 0, size |-> image.size]
    IN [turned |-> Turned(image.size, orientation), area |-> area, side |-> 2200]

\* What preprocessImage asks the manipulator for: the area of the turned
\* picture, and the longer side of what it makes of it.
Plan(image, orientation, crop) ==
    LET turned == Turned(image.size, orientation)
        area == IF crop THEN Guided(turned) ELSE [x |-> 0, y |-> 0, size |-> turned]
        longest == IF area.size[1] >= area.size[2] THEN area.size[1] ELSE area.size[2]
    IN [turned |-> turned, area |-> area, side |-> IF longest > 2200 THEN 2200 ELSE longest]

\* Faulty variant: whatever stands above the error goes.
TrimmedAlways(lines) ==
    LET anchors == {i \in DOMAIN lines : lines[i].anchor}
    IN IF anchors = {} THEN lines
       ELSE SubSeq(lines, CHOOSE i \in anchors : \A j \in anchors : i <= j, Len(lines))

\* postprocessErrorText: up to six lines above the head of the error go, when
\* none of them looks like a trace.
Trimmed(lines) ==
    LET anchors == {i \in DOMAIN lines : lines[i].anchor}
        first == CHOOSE i \in anchors : \A j \in anchors : i <= j
    IN IF anchors = {} THEN lines
       ELSE IF first > 7 \/ (\E i \in 1..first - 1 : lines[i].trace) THEN lines
       ELSE SubSeq(lines, first, Len(lines))

\* Two technical tokens, in one line or in two.
Technical(lines) ==
    \E i, j \in DOMAIN lines :
        IF i = j THEN lines[i].tokens = 2 ELSE lines[i].tokens >= 1 /\ lines[j].tokens >= 1

\* What evaluateOcrQuality finds wrong with the last lines of a text that was
\* read; the noise is that of the raw text.
Defects(lines, text) ==
    (IF Len(lines) <= text.brief THEN {"SHORT_TEXT"} ELSE {})
    \cup (IF Technical(lines) THEN {} ELSE {"LOW_TECHNICAL_SIGNAL"})
    \cup (IF text.noisy THEN {"NOISY_TEXT"} ELSE {})

Quality(lines, text) ==
    LET Costs(defect, points) == IF defect \in Defects(lines, text) THEN points ELSE 0
        score == 100 - Costs("SHORT_TEXT", 30) - Costs("LOW_TECHNICAL_SIGNAL", 25)
                     - Costs("NOISY_TEXT", 30) + (IF Len(lines) >= 2 THEN 5 ELSE 0)
    IN IF lines = <<>> THEN "POOR"
       ELSE IF score >= 75 THEN "GOOD" ELSE IF score >= 50 THEN "REVIEW" ELSE "POOR"

Warnings(text) ==
    LET lines == Trimmed(text.lines)
    IN (IF lines = <<>> THEN {"EMPTY_TEXT"} ELSE Defects(lines, text))
       \cup (IF \E i \in DOMAIN lines : lines[i].secret THEN {"POSSIBLE_SECRET"} ELSE {})
       \cup (IF lines # text.lines THEN {"TEXT_TRIMMED_TO_ERROR"} ELSE {})

Result(text) ==
    [raw |-> text, lines |-> Trimmed(text.lines), level |-> Quality(Trimmed(text.lines), text),
     warnings |-> Warnings(text)]

-----------------------------------------------------------------------------
(* The pieces that the handlers share.                                     *)

\* Faulty variant: whose file it is does not matter.
TemporaryAny(image) == {image.file}

\* The file of an image that is the app's own.
Temporary(image) == IF image.source \in {None, "GALLERY"} THEN {} ELSE {image.file}

Holds(state) == Temporary(state.captured) \cup Temporary(state.prepared)

\* cleanupVisionFiles.
Removed(state) == files \ Holds(state)

\* A dispatch; it reaches only a scanner that is still there.
Dispatch(c, state) ==
    IF c.current
    THEN /\ scanner' = [scanner EXCEPT !.state = state]
         /\ lost' = lost \cup (Holds(scanner.state) \ Holds(state))
    ELSE UNCHANGED <<scanner, lost>>

Failed == [scanner.state EXCEPT !.phase = "ERROR"]

\* A call and the images its handler holds; calls are told apart by a number
\* that is free.
Awaits(kind, captured, prepared, orientation, crop) ==
    LET free == (1..MaxCalls) \ {c.id : c \in calls} IN
    /\ free # {}
    /\ calls' = calls \cup {[id |-> CHOOSE i \in free : \A j \in free : i <= j, kind |-> kind,
                             current |-> TRUE, captured |-> captured, prepared |-> prepared,
                             orientation |-> orientation, crop |-> crop]}
Asks(kind) == Awaits(kind, NoImage, NoImage, 0, FALSE)

Phase(phase) == scanner.open /\ scanner.state.phase = phase

\* Unmounted: the effect removes the files of the last state.
Closed ==
    /\ scanner' = Shut(scanner.permission)
    /\ files' = Removed(scanner.state)

-----------------------------------------------------------------------------
(* The person.                                                             *)

OpenScanner ==
    /\ ~scanner.open
    /\ scanner' = Opened(scanner.permission)
    /\ UNCHANGED <<files, made, calls, lost>>

\* CLOSE, or the app closes it after a spoken command.
Close ==
    /\ scanner.open /\ Closed
    /\ calls' = {[c EXCEPT !.current = FALSE] : c \in calls}
    /\ UNCHANGED <<made, lost>>

OpenCamera ==
    /\ \/ Phase("SOURCE")
       \/ Phase("CAMERA") /\ scanner.permission = "denied"
    /\ IF scanner.permission = "granted"
       THEN /\ scanner' = [scanner EXCEPT !.ready = FALSE, !.state = Initial("CAMERA")]
            /\ UNCHANGED calls
       ELSE /\ scanner' = [scanner EXCEPT !.ready = FALSE]
            /\ Asks("permission")
    /\ UNCHANGED <<files, made, lost>>

CameraReady ==
    /\ Phase("CAMERA") /\ scanner.permission = "granted" /\ ~scanner.ready
    /\ scanner' = [scanner EXCEPT !.ready = TRUE]
    /\ UNCHANGED <<files, made, calls, lost>>

CaptureCamera ==
    /\ Phase("CAMERA") /\ scanner.permission = "granted" /\ scanner.ready
    /\ Asks("picture")
    /\ UNCHANGED <<scanner, files, made, lost>>

ChooseGallery ==
    /\ Phase("SOURCE") \/ Phase("CAMERA")
    /\ Asks("gallery")
    /\ UNCHANGED <<scanner, files, made, lost>>

Rotate ==
    /\ Phase("PREVIEW")
    /\ scanner' = [scanner EXCEPT !.state.orientation = (@ + 90) % 360]
    /\ UNCHANGED <<files, made, calls, lost>>

\* READ GUIDED AREA and READ FULL IMAGE.
Recognize(crop) ==
    /\ Phase("PREVIEW")
    /\ scanner' = [scanner EXCEPT !.state.phase = "PROCESSING"]
    /\ Awaits("prepare", scanner.state.captured, NoImage, scanner.state.orientation, crop)
    /\ UNCHANGED <<files, made, lost>>

\* Faulty variant: the files of the picture stay.
DiscardAndRetakeOnly ==
    /\ Phase("PREVIEW") \/ Phase("REVIEW") \/ Phase("ERROR")
    /\ scanner' = [scanner EXCEPT !.state =
            Initial(IF @.captured.source = "CAMERA" THEN "CAMERA" ELSE "SOURCE")]
    /\ UNCHANGED <<files, made, calls, lost>>

\* RETAKE, DISCARD & RETAKE, TRY ANOTHER IMAGE.
DiscardAndRetake ==
    /\ Phase("PREVIEW") \/ (Phase("REVIEW") /\ ~scanner.sending) \/ Phase("ERROR")
    /\ files' = Removed(scanner.state)
    /\ scanner' = [scanner EXCEPT !.state =
            Initial(IF @.captured.source = "CAMERA" THEN "CAMERA" ELSE "SOURCE")]
    /\ UNCHANGED <<made, calls, lost>>

\* The text is edited, perhaps until nothing is left.
Edit ==
    /\ Phase("REVIEW") /\ ~scanner.sending
    /\ \E draft \in {"empty", "edited"} \ {scanner.draft} :
         scanner' = [scanner EXCEPT !.draft = draft]
    /\ UNCHANGED <<files, made, calls, lost>>

Analyze ==
    /\ Phase("REVIEW") /\ ~scanner.sending /\ scanner.draft # "empty"
    /\ scanner' = [scanner EXCEPT !.sending = TRUE]
    /\ Awaits("analyze", scanner.state.captured, scanner.state.prepared, 0, FALSE)
    /\ UNCHANGED <<files, made, lost>>

-----------------------------------------------------------------------------
(* What the calls answer.                                                  *)

Answered(c, kind) == c \in calls /\ c.kind = kind /\ calls' = calls \ {c}

\* A file is written; nobody hears of it when the scanner is gone.
Written ==
    /\ made < MaxFiles /\ made' = made + 1
    /\ files' = files \cup {made'}

Allows(c) ==
    /\ Answered(c, "permission")
    /\ \E permission \in Permissions :
         IF c.current
         THEN /\ scanner' = [scanner EXCEPT !.permission = permission, !.state = Initial("CAMERA"),
                               !.ready = @ /\ permission = "granted"]
              /\ lost' = lost \cup Holds(scanner.state)
         ELSE scanner' = [scanner EXCEPT !.permission = permission] /\ UNCHANGED lost
    /\ UNCHANGED <<files, made>>

Captures(c, image) ==
    Dispatch(c, [Initial("PREVIEW") EXCEPT !.captured = image])

Pictured(c) ==
    /\ Answered(c, "picture")
    /\ \/ /\ Written
          /\ \E size \in Sizes :
               IF c.current
               THEN Captures(c, [file |-> made', source |-> "CAMERA", size |-> size])
               ELSE lost' = lost \cup {made'} /\ UNCHANGED scanner
       \/ Dispatch(c, Failed) /\ UNCHANGED <<files, made>>

Chosen(c) ==
    /\ Answered(c, "gallery")
    /\ \/ \E size \in Sizes : Captures(c, [file |-> Original, source |-> "GALLERY", size |-> size])
       \/ Dispatch(c, Failed)
       \/ UNCHANGED <<scanner, lost>>
    /\ UNCHANGED <<files, made>>

\* The picture was turned, cropped and written; now it is read.  It cannot be
\* when its file is gone.
Prepares(c) ==
    /\ c \in calls /\ c.kind = "prepare"
    /\ \/ /\ c.captured.file \in files /\ Written
          /\ calls' = (calls \ {c}) \cup
               {[c EXCEPT !.kind = "read", !.captured = NoImage, !.orientation = 0, !.crop = FALSE,
                    !.prepared = [NoImage EXCEPT !.file = made', !.source = "PREPARED"]]}
          /\ UNCHANGED <<scanner, lost>>
       \/ /\ calls' = calls \ {c}
          /\ Dispatch(c, Failed) /\ UNCHANGED <<files, made>>

Unread(c) ==
    /\ Answered(c, "read")
    /\ files' = files \ Temporary(c.prepared)
    /\ Dispatch(c, Failed) /\ UNCHANGED made

\* Faulty variant: RECOGNIZED leaves the phase.
ReadsOnly(c) ==
    /\ Answered(c, "read")
    /\ \E text \in Texts :
         Dispatch(c, [scanner.state EXCEPT !.prepared = c.prepared, !.result = Result(text)])
    /\ UNCHANGED <<files, made>>

Reads(c) ==
    /\ Answered(c, "read")
    /\ IF c.current
       THEN \E text \in Texts :
              LET state == [scanner.state EXCEPT !.phase = "REVIEW",
                              !.prepared = c.prepared, !.result = Result(text)]
              IN /\ scanner' = [scanner EXCEPT !.state = state,
                                            !.draft = IF Trimmed(text.lines) = <<>> THEN "empty" ELSE "read"]
                 /\ lost' = lost \cup (Holds(scanner.state) \ Holds(state))
       ELSE lost' = lost \cup Temporary(c.prepared) /\ UNCHANGED scanner
    /\ UNCHANGED <<files, made>>

\* The agent took the text, or not.  When it did the scanner closes: the one
\* that sent the text, or whichever is open by now.
Analyzed(c) ==
    /\ c \in calls /\ c.kind = "analyze"
    /\ \/ /\ scanner' = Shut(scanner.permission)
          /\ files' = Removed(scanner.state) \ Holds(c)
          /\ calls' = {[d EXCEPT !.current = FALSE] : d \in calls \ {c}}
       \/ /\ scanner' = [scanner EXCEPT !.sending = @ /\ ~c.current]
          /\ calls' = calls \ {c} /\ UNCHANGED files
    /\ UNCHANGED <<made, lost>>

-----------------------------------------------------------------------------

Person ==
    \/ OpenScanner \/ Close \/ OpenCamera \/ CaptureCamera \/ ChooseGallery \/ Rotate
    \/ \E crop \in BOOLEAN : Recognize(crop)
    \/ DiscardAndRetake \/ Edit \/ Analyze

Answer(c) ==
    Allows(c) \/ Pictured(c) \/ Chosen(c) \/ Prepares(c) \/ Unread(c) \/ Reads(c) \/ Analyzed(c)

Next == Person \/ CameraReady \/ \E c \in calls : Answer(c)

Spec == Init /\ [][Next]_vars

\* The native modules answer every call.
FairSpec == Spec /\ WF_vars(\E c \in calls : Answer(c))

-----------------------------------------------------------------------------

Phases == {"SOURCE", "CAMERA", "PREVIEW", "PROCESSING", "REVIEW", "ERROR"}
ImageOK(image) ==
    /\ image.file \in -1..MaxFiles
    /\ image.source \in {None, "CAMERA", "GALLERY", "PREPARED"}
    /\ image.size \in (Nat \ {0}) \X (Nat \ {0})
StateOK(state) ==
    /\ state.phase \in Phases /\ state.orientation \in {0, 90, 180, 270}
    /\ ImageOK(state.captured) /\ ImageOK(state.prepared)
    /\ state.phase = "REVIEW" => state.result.level # None
    /\ state.phase = "PREVIEW" => state.captured.source # None

TypeOK ==
    /\ StateOK(scanner.state) /\ scanner.permission \in Permissions
    /\ {scanner.open, scanner.ready, scanner.sending} \subseteq BOOLEAN
    /\ scanner.draft \in {"empty", "read", "edited"}
    /\ files \subseteq 0..MaxFiles /\ lost \subseteq 1..MaxFiles /\ made \in 0..MaxFiles
    /\ \A c \in calls : ImageOK(c.captured) /\ ImageOK(c.prepared) /\ c.current \in BOOLEAN

\* No removal takes a file that is still needed: the picture on the preview,
\* the prepared file that is being read, or anybody's original in the gallery.
\* Several calls end in any order, and each may remove files.
FilesInUse ==
    /\ Original \in files
    /\ scanner.open => Holds(scanner.state) \subseteq files
    /\ \A c \in calls : c.kind = "read" => c.prepared.file \in files

\* Every temporary file on the phone still has somebody who will remove it: the
\* scanner that is open, or a call that goes on.  Only an answer that came too
\* late, or that replaced a picture, makes an exception.
SomeoneRemoves ==
    files \ {Original} \subseteq
        lost \cup Holds(scanner.state)
             \cup UNION {Temporary(c.prepared) : c \in {d \in calls : d.kind = "read"}}

\* Whatever the size and the turn, the guided area lies inside the picture, is a
\* pixel at least, and the longer side that is asked for is at most 2200.
PlansFit ==
    \A c \in calls : c.kind = "prepare" =>
        LET plan == Plan(c.captured, c.orientation, c.crop)
            area == plan.area
        IN /\ area.x >= 0 /\ area.size[1] >= 1 /\ area.x + area.size[1] <= plan.turned[1]
           /\ area.y >= 0 /\ area.size[2] >= 1 /\ area.y + area.size[2] <= plan.turned[2]
           /\ plan.side \in 1..2200

\* The text is cut in postprocessor.ts and judged in quality.ts, by other patterns.
\* What the review leaves out stands above an error, six lines at most, without a
\* trace, and is warned of.  The cut hides no defect: what is wrong with the whole
\* text is among the warnings, and the level is no better than the whole text's.
\* GOOD tells of one defect at most, POOR of two.
ReviewIsHonest ==
    scanner.state.result.level # None =>
        LET r == scanner.state.result
            whole == r.raw.lines
            defects == r.warnings \cap {"SHORT_TEXT", "LOW_TECHNICAL_SIGNAL", "NOISY_TEXT"}
        IN /\ \E cut \in 0..6 :
                 /\ r.lines = SubSeq(whole, cut + 1, Len(whole))
                 /\ \A i \in 1..cut : ~whole[i].anchor /\ ~whole[i].trace
                 /\ cut > 0 => r.lines[1].anchor /\ "TEXT_TRIMMED_TO_ERROR" \in r.warnings
           /\ whole # <<>> => Defects(whole, r.raw) \subseteq r.warnings
           /\ r.level = "GOOD" => Quality(whole, r.raw) = "GOOD"
           /\ Quality(whole, r.raw) = "POOR" => r.level = "POOR"
           /\ r.level = "GOOD" => Cardinality(defects) <= 1 /\ r.lines # <<>>
           /\ r.level = "POOR" => Cardinality(defects) >= 2 \/ r.lines = <<>>

\* Reading on device ends.
ReadingEnds == Phase("PROCESSING") ~> ~Phase("PROCESSING")

\* README.md:193: "Camera and processed cache files are deleted after use".  But
\* nobody deletes the file of an answer that comes after the scanner closed, nor
\* that of a picture which a second one replaces.
DeletedAfterUse == (~scanner.open /\ calls = {}) => files = {Original}

\* docs/security-model.md:124: the postprocessor "can trim only a short
\* non-technical prefix".  But a line that is no trace to it, such as
\* "src.main started", may hold the technical tokens that quality.ts counts.
TrimsNothingTechnical ==
    LET r == scanner.state.result
    IN r.level # None =>
         \A i \in 1..Len(r.raw.lines) - Len(r.lines) : r.raw.lines[i].tokens = 0

\* docs/vision-debugger.md:60: "`POOR` and empty output cannot advance unless the
\* user corrects or adds text."  But ANALYZE ERROR waits for an empty text only.
PoorIsCorrected ==
    [][Analyze /\ scanner.state.result.level = "POOR" => scanner.draft = "edited"]_vars
=============================================================================
