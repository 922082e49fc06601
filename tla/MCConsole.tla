------------------------------- MODULE MCConsole -------------------------------
(* The text screen with its callers, the same with the mouse and one caller, the *)
(* window of a process, the input of lines, and the two directions of formatting: *)
(* each is explored with the others at rest, as none looks at the state of another. *)
EXTENDS Mouse, GlText, LineInput, Formats, TLC

VARIABLE part   \* which of them it is

consoleVars == <<svars, mvars, glVars, ivars, fvars, part>>

MCInit ==
  /\ ScreenInit /\ MouseInit /\ GlInit /\ InputInit
  /\ \/ part \in {"screen", "pointer", "window", "input", "words"} /\ WordsInit
     \/ part = "numbers" /\ NumbersInit

PointerPaper == 3  \* bound: lines of paper when there is a mouse

Text  == part = "screen" /\ ScreenNext /\ UNCHANGED <<mvars, glVars, ivars, fvars, part>>
Some  == \E c \in Letters \cup {NL} : c_puts(<<c>>)
Point == /\ part = "pointer" /\ Len(paper.lines) < PointerPaper
         /\ MouseNext \/ (Some /\ UNCHANGED mvars)
         /\ UNCHANGED <<glVars, ivars, fvars, part>>
Window == part = "window" /\ GlNext /\ UNCHANGED <<svars, mvars, ivars, fvars, part>>
Typed == part = "input" /\ InputNext /\ UNCHANGED <<svars, mvars, glVars, fvars, part>>
Words == part = "words" /\ WordsNext /\ UNCHANGED <<svars, mvars, glVars, ivars, part>>

MCNext == Text \/ Point \/ Window \/ Typed \/ Words
MCSpec == MCInit /\ [][MCNext]_consoleVars

\* The screen and the input of lines together, for what c_io.c says of both.
Both ==
  \/ ScreenNext /\ UNCHANGED <<mvars, glVars, ivars, fvars, part>>
  \/ InputNext /\ UNCHANGED <<svars, mvars, glVars, fvars, part>>
BothSpec == MCInit /\ part = "screen" /\ [][Both]_consoleVars

\* c_io.h says that clearing the scrolling region moves the cursor to its corner, and
\* c_io.c that scan codes without a character are ignored.  That at least one of the two
\* is kept at every step is the least they say together: it fails when the region is
\* cleared and the cursor stays, while an undefined character waits to be read.
SomePromiseOfConsoleKept == [][ClearHomes \/ UndefinedIgnored]_consoleVars

MCGlyph    == <<1, 2, 3, 4>>
MCMessage  == <<5, 8>>
MCHead(o, l, r, m) == [overflow |-> o, left |-> l, right |-> r, middle |-> m]
MCHeads    == {MCHead(FALSE, FALSE, FALSE, FALSE), MCHead(FALSE, TRUE, FALSE, FALSE),
               MCHead(FALSE, FALSE, TRUE, TRUE), MCHead(TRUE, TRUE, FALSE, FALSE)}
MCMoves    == {0, 100, -13}
MCKeys     == {"d", "enter", "F1"}
MCScanCode == [k \in MCKeys |-> [s \in {0, 1} |->
                 CASE k = "d" -> IF s = 0 THEN "d" ELSE "D" [] k = "enter" -> "nl" [] k = "F1" -> "377"]]
MCControl  == [c \in {"d", "D", "nl", "377"} |->
                 CASE c \in {"d", "D"} -> "eot" [] c = "nl" -> "nl" [] c = "377" -> "^_"]
=============================================================================
