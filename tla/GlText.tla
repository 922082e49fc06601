-------------------------------- MODULE GlText ---------------------------------
(***************************************************************************)
(* Text in the window of a process (gl_print.c, with the drawing of gl.c): *)
(* a buffer of lines, and glyphs that are drawn as they are printed.  To   *)
(* scroll is to clear the picture, to move the lines up and to draw them   *)
(* again from the buffer; the last line keeps its buffer.  Glyphs are      *)
(* drawn over what is there, so that a place shows a set of them.          *)
(*                                                                         *)
(* Column x_max lies beyond the right border: a glyph there is not seen.   *)
(* A tab moves some columns on and looks at no border.                     *)
(***************************************************************************)
EXTENDS Integers, Sequences

CONSTANTS
  XMax, YMax,   \* x_max, y_max
  Printable,    \* characters that have a glyph
  Nul,          \* what a line is filled with, and what ends a string
  LineEnd, Return, Tab,
  TabWidth,     \* 4 in the code
  LastColumn,   \* bound: no character is printed beyond this column
  MaxRows       \* bound: rows begun, those that have left the window included

ASSUME GlTextAssumption ==
  /\ XMax \in Nat \ {0} /\ YMax \in Nat
  /\ Nul \notin Printable /\ {LineEnd, Return, Tab} \cap Printable = {}
  /\ TabWidth \in Nat \ {0}
  /\ LastColumn \in Nat /\ LastColumn > XMax
  /\ MaxRows \in Nat

Across  == 0 .. LastColumn
Visible == 0 .. XMax-1
Down    == 0 .. YMax

NoText   == [x \in Across |-> Nul]
NoGlyphs == [x \in Visible |-> {}]

VARIABLES
  lines,        \* the buffer
  shown,        \* the glyphs at each visible place
  at,           \* curr_x, curr_y: the latter is y_max + 1 until the output
                \* comes for which the window is scrolled
  rows          \* history: what was printed last at each column of each row

glVars == <<lines, shown, at, rows>>

\* the fields that _win_man_init fills in
GlInit ==
  /\ lines = [y \in Down |-> NoText]
  /\ shown = [y \in Down |-> NoGlyphs]
  /\ at = [x |-> 0, y |-> 0]
  /\ rows = [n \in 1 .. YMax + 1 |-> NoText]

\* draw_string stops at the first Nul.
Drawn(line) ==
  [x \in Visible |-> IF \A k \in 0 .. x : line[k] # Nul THEN {line[x]} ELSE {}]

\* Mutant of Raised: the loop ends before the last line.
Raised_short(y) ==
  [x \in Across |-> IF x < XMax /\ y + 1 < YMax THEN lines[y + 1][x]
                    ELSE IF x = XMax THEN Nul ELSE lines[y][x]]

\* what line y becomes in a scroll
Raised(y) ==
  [x \in Across |-> IF x < XMax THEN lines[y + 1][x] ELSE IF x = XMax THEN Nul ELSE lines[y][x]]

\* gl_scroll, before what is printed below the last line; rows has the row that it adds
Full == at.y > YMax

gl_scroll == IF Full THEN [y \in Down |-> IF y < YMax THEN Raised(y) ELSE lines[y]] ELSE lines
Redrawn   == IF Full THEN [y \in Down |-> IF y < YMax THEN Drawn(gl_scroll[y]) ELSE NoGlyphs] ELSE shown
Here      == IF Full THEN YMax ELSE at.y
History   == IF Full THEN Append(rows, NoText) ELSE rows

\* the row of the history that line y of the window shows
RowOf(history, y) == Len(history) - YMax + y

\* do_draw_character: beyond the right border set_pixel draws nothing.  It does let
\* through pixel column w, which is the first of the next row (gl.c:264), and at column
\* x_max that is the first column of the glyph; but the glyphs of font.h leave theirs
\* empty: no byte of it is above 0x7E.
do_draw_character(picture, x, y, c) ==
  IF x \in Visible THEN [picture EXCEPT ![y][x] = @ \cup {c}] ELSE picture

\* _gl_do_putchar
MovedTo(to) ==
  /\ lines' = gl_scroll
  /\ shown' = Redrawn
  /\ rows' = History
  /\ at' = to

Put(c) ==
  /\ c \in Printable
  /\ at.x <= LastColumn
  /\ lines' = [gl_scroll EXCEPT ![Here][at.x] = c]
  /\ shown' = do_draw_character(Redrawn, at.x, Here, c)
  /\ rows' = [History EXCEPT ![RowOf(History, Here)][at.x] = c]
  /\ at' = IF at.x + 1 > XMax THEN [x |-> 0, y |-> Here + 1] ELSE [x |-> at.x + 1, y |-> Here]

gl_putchar(c) ==
  \/ c = LineEnd /\ MovedTo([x |-> 0, y |-> Here + 1])
  \/ c = Return  /\ MovedTo([x |-> 0, y |-> Here])
  \/ c = Tab     /\ MovedTo([x |-> at.x + TabWidth, y |-> Here])
  \/ Put(c)

\* gl_puts and gl_printf are sequences of gl_putchar.
GlNext ==
  /\ Len(rows) < MaxRows \/ ~Full
  /\ \/ \E c \in Printable \cup {LineEnd, Return} : gl_putchar(c)
     \/ at.x + TabWidth <= LastColumn /\ gl_putchar(Tab)

-----------------------------------------------------------------------------
\* What is printed stays visible until its row leaves the window, however often
\* that is redrawn in between, where no gap that a tab has left comes before it
\* in the line; the last line shows its own row and nothing of earlier ones,
\* although its buffer still has them.
PrintedStays ==
  /\ \A y \in Down, x \in Visible :
       LET c == rows[RowOf(rows, y)][x]
       IN (c # Nul /\ \A k \in 0 .. x : rows[RowOf(rows, y)][k] # Nul) => c \in shown[y][x]
  /\ \A x \in Visible :
       LET c == rows[Len(rows)][x]
       IN IF c = Nul THEN shown[YMax][x] = {} ELSE c \in shown[YMax][x]
=============================================================================
