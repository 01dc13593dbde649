-------------------------- MODULE MCVisionCapture --------------------------
(* VisionCapture with a picture that is narrow and too long, and texts     *)
(* whose error stands below as many lines as are cut at most, below one    *)
(* more, and below a trace; and no text at all.                            *)
EXTENDS VisionCapture

SomeSizes == {<<3, 4000>>}

Says(anchor, trace, tokens) ==
    [anchor |-> anchor, trace |-> trace, tokens |-> tokens, secret |-> FALSE]
Header == Says(FALSE, FALSE, 0)     \* Build output
Module == Says(FALSE, FALSE, 1)     \* src.main started
Password == [Header EXCEPT !.secret = TRUE]
Failure == Says(TRUE, FALSE, 0)     \* Build failed
Frame == Says(FALSE, TRUE, 2)       \* at getUser (user.ts:42)
Raised == Says(TRUE, TRUE, 2)       \* TypeError: no user at user.ts:42

Text(lines, brief, noisy) == [lines |-> lines, brief |-> brief, noisy |-> noisy]

SomeTexts ==
    {Text(<<>>, 0, FALSE),
     Text(<<Header, Module, Password, Header, Header, Module, Failure>>, 1, FALSE),
     Text(<<Header, Password, Header, Header, Module, Header, Header, Failure>>, 1, FALSE),
     Text(<<Frame, Header, Raised>>, 0, TRUE)}
=============================================================================
