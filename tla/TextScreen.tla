------------------------------ MODULE TextScreen ------------------------------
(***************************************************************************)
(* The output half of c_io.c: characters in video memory, a scrolling      *)
(* region with a cursor in it, and output at a position.  A call is one    *)
(* action; c_puts and c_printf are sequences of c_putchar (Formats.tla has *)
(* the text that a format stands for).                                     *)
(***************************************************************************)
EXTENDS Integers, Sequences, FiniteSets

CONSTANTS
  Columns, Rows,  \* SCREEN_X_SIZE, SCREEN_Y_SIZE
  Word,           \* 2^32: coordinates are unsigned
  Letters,        \* characters that are printed as they are
  Blank, NL, CR,
  Coordinates,    \* bound: what callers give as coordinates
  MaxPaper        \* bound: lines of paper, see below

ASSUME ScreenAssumption ==
  /\ Columns \in Nat \ {0} /\ Rows \in Nat \ {0}
  /\ Word \in Nat /\ Word > Columns /\ Word > Rows
  /\ Coordinates \subseteq 0 .. Word-1
  /\ NL # CR /\ Blank \notin {NL, CR} /\ {NL, CR} \cap Letters = {}
  /\ MaxPaper \in Nat

max_x == Columns - 1
max_y == Rows - 1

VARIABLES
  video,    \* the character at each <<x, y>>
  region,   \* scroll_min_x, scroll_min_y, scroll_max_x, scroll_max_y
  curr,     \* curr_x, curr_y: the latter is one more than the region has
            \* until the output comes for which the region is scrolled
  cursor,   \* the place of the blinking cursor
  paper     \* history: what a screen without an end would show, see below

svars == <<video, region, curr, cursor, paper>>

Cell == (0 .. max_x) \X (0 .. max_y)
Blanks == [c \in Cell |-> Blank]

In(r) == (r.x1 .. r.x2) \X (r.y1 .. r.y2)

-----------------------------------------------------------------------------
(* Operators on s = [video, region, curr, cursor] *)

Screen == [video |-> video, region |-> region, curr |-> curr, cursor |-> cursor]

bound(least, value, most) ==
  LET v == IF value < least THEN least ELSE value IN IF v > most THEN most ELSE v

\* __c_setcursor
setcursor(s) ==
  LET y == IF s.curr.y > s.region.y2 THEN s.region.y2 ELSE s.curr.y
  IN [s EXCEPT !.cursor = y * Columns + s.curr.x]

\* __c_putchar_at: what is outside is not drawn
draw(v, x, y, c) == IF <<x, y>> \in Cell THEN [v EXCEPT ![<<x, y>>] = c] ELSE v

\* c_clearscroll
clearscroll(s) == [s EXCEPT !.video = [c \in Cell |-> IF c \in In(s.region) THEN Blank ELSE @[c]]]

Home(s) == [s EXCEPT !.curr = [x |-> s.region.x1, y |-> s.region.y1]]

\* c_scroll
scroll(s, lines) ==
  LET r == s.region IN
  IF lines > r.y2 - r.y1
  THEN setcursor(Home(clearscroll(s)))
  ELSE [s EXCEPT !.video = [c \in Cell |->
          CASE c \notin In(r)                           -> @[c]
            [] c \in In(r) /\ c[2] <= r.y2 - lines      -> @[<<c[1], c[2] + lines>>]
            [] c \in In(r) /\ c[2] > r.y2 - lines       -> Blank]]

\* Mutant of MadeRoom: the cursor stays below the region.
MadeRoom_below(s) ==
  IF s.curr.y > s.region.y2 THEN scroll(s, s.curr.y - s.region.y2) ELSE s

\* The region is scrolled when output comes, not when its last line is left.
MadeRoom(s) ==
  IF s.curr.y > s.region.y2
  THEN [scroll(s, s.curr.y - s.region.y2) EXCEPT !.curr.y = s.region.y2]
  ELSE s

\* c_putchar: NL erases the rest of the line.
putchar(s0, c) ==
  LET s == MadeRoom(s0)
      r == s.region
      next == [x |-> r.x1, y |-> s.curr.y + 1]
  IN setcursor(
     CASE c = NL -> [s EXCEPT !.curr = next,
                       !.video = [p \in Cell |->
                          IF p[2] = s.curr.y /\ p[1] \in s.curr.x .. r.x2 THEN Blank ELSE @[p]]]
       [] c = CR -> [s EXCEPT !.curr.x = r.x1]
       [] OTHER  -> [s EXCEPT !.video = draw(@, s.curr.x, s.curr.y, c),
                              !.curr = IF s.curr.x + 1 > r.x2 THEN next
                                       ELSE [x |-> s.curr.x + 1, y |-> s.curr.y]])

\* c_putchar_at: NL erases up to the border of the region, from outside or inside.
putchar_at(v, r, x, y, c) ==
  LET limit == CASE x > r.x2             -> max_x
                 [] x \in r.x1 .. r.x2   -> r.x2
                 [] x < r.x1             -> r.x1 - 1
  IN IF c = NL
     THEN [p \in Cell |-> IF p[2] = y /\ p[1] \in x .. limit THEN Blank ELSE v[p]]
     ELSE draw(v, x, y, c)

\* c_puts, one c_putchar after the other
puts(s, str) ==
  LET after[k \in 0 .. Len(str)] == IF k = 0 THEN s ELSE putchar(after[k-1], str[k])
  IN after[Len(str)]

\* c_puts_at, up to the border of the screen
puts_at(v, r, x, y, str) ==
  LET after[k \in 0 .. Len(str)] ==
        IF k = 0 THEN v
        ELSE IF x + k - 1 > max_x THEN after[k-1]
        ELSE putchar_at(after[k-1], r, x + k - 1, y, str[k])
  IN after[Len(str)]

-----------------------------------------------------------------------------
(***************************************************************************)
(* The paper: lines are added to it and never lost.  The first lines are   *)
(* those of the region when it was set; what is outside of the region is   *)
(* not on it.  row is the line that is written, which is not there before  *)
(* something is put on it.                                                 *)
(***************************************************************************)
Width(r)  == r.x2 - r.x1 + 1
Height(r) == r.y2 - r.y1 + 1

EmptyLine(r) == [x \in 1 .. Width(r) |-> Blank]

\* of what is on the screen, with the cursor at its first character
PaperOf(v, r) ==
  [lines |-> [y \in 1 .. Height(r) |-> [x \in 1 .. Width(r) |-> v[<<r.x1 + x-1, r.y1 + y-1>>]]],
   rest  |-> [c \in Cell \ In(r) |-> v[c]],
   row   |-> 1, col |-> 1]

Top(q, r) == Len(q.lines) - Height(r)

Started(q, r) == IF q.row > Len(q.lines) THEN [q EXCEPT !.lines = Append(@, EmptyLine(r))] ELSE q

Written(q0, r, c) ==
  LET q == Started(q0, r)
      next == [q EXCEPT !.row = @ + 1, !.col = 1]
  IN CASE c = NL -> [next EXCEPT !.lines[q.row] =
                       [x \in DOMAIN @ |-> IF x < q.col THEN @[x] ELSE Blank]]
       [] c = CR -> [q EXCEPT !.col = 1]
       [] OTHER  -> [(IF q.col = Width(r) THEN next ELSE [q EXCEPT !.col = @ + 1])
                       EXCEPT !.lines[q.row][q.col] = c]

\* A character, or blanks up to a border of the region, at a place of the screen
Side(r, x) == CASE x < r.x1 -> "left" [] x \in r.x1 .. r.x2 -> "in" [] x > r.x2 -> "right"

PutAt(q, r, x, y, c) ==
  LET hit == {p \in Cell : p[2] = y /\ IF c = NL THEN p[1] >= x /\ Side(r, p[1]) = Side(r, x)
                                                  ELSE p[1] = x}
      put == IF c = NL THEN Blank ELSE c
      Line(n) == n - Top(q, r) + r.y1 - 1
  IN [q EXCEPT
        !.lines = [n \in DOMAIN @ |-> [k \in DOMAIN @[n] |->
                     IF <<r.x1 + k - 1, Line(n)>> \in hit \cap In(r) THEN put ELSE @[n][k]]],
        !.rest  = [p \in DOMAIN @ |-> IF p \in hit THEN put ELSE @[p]]]

\* The same for strings
WrittenAll(q, r, str) ==
  LET after[k \in 0 .. Len(str)] == IF k = 0 THEN q ELSE Written(after[k-1], r, str[k])
  IN after[Len(str)]

PutAllAt(q, r, x, y, str) ==
  LET after[k \in 0 .. Len(str)] ==
        IF k = 0 THEN q
        ELSE IF x + k - 1 > max_x THEN after[k-1]
        ELSE PutAt(after[k-1], r, x + k - 1, y, str[k])
  IN after[Len(str)]

-----------------------------------------------------------------------------
Show(s) ==
  /\ video' = s.video
  /\ region' = s.region
  /\ curr' = s.curr
  /\ cursor' = s.cursor

\* c_io_init, on what the machine has left on the screen
ScreenInit ==
  /\ video = Blanks
  /\ region = [x1 |-> 0, y1 |-> 0, x2 |-> max_x, y2 |-> max_y]
  /\ curr = [x |-> 0, y |-> 0]
  /\ cursor = 0
  /\ paper = PaperOf(video, region)

c_setscroll(x1, y1, x2, y2) ==
  LET r == [x1 |-> bound(0, x1, max_x), y1 |-> bound(0, y1, max_y),
            x2 |-> bound(bound(0, x1, max_x), x2, max_x),
            y2 |-> bound(bound(0, y1, max_y), y2, max_y)]
  IN /\ Show(setcursor(Home([Screen EXCEPT !.region = r])))
     /\ paper' = PaperOf(video, r)

c_moveto(x, y) ==
  LET r == region
      to == [x |-> bound(r.x1, (x + r.x1) % Word, r.x2), y |-> bound(r.y1, (y + r.y1) % Word, r.y2)]
  IN /\ Show(setcursor([Screen EXCEPT !.curr = to]))
     /\ paper' = [paper EXCEPT !.row = Top(paper, r) + to.y - r.y1 + 1, !.col = to.x - r.x1 + 1]

c_puts(str) ==
  /\ Show(puts(Screen, str))
  /\ paper' = WrittenAll(paper, region, str)

c_putchar_at(x, y, c) ==
  /\ Show([Screen EXCEPT !.video = putchar_at(@, region, x, y, c)])
  /\ paper' = PutAt(paper, region, x, y, c)

c_puts_at(x, y, str) ==
  /\ Show([Screen EXCEPT !.video = puts_at(@, region, x, y, str)])
  /\ paper' = PutAllAt(paper, region, x, y, str)

\* c_clearscroll and c_clearscreen leave the cursor where it is; for the former c_io.h
\* says otherwise (ClearHomes).
Wiped(q, r, all) ==
  [q EXCEPT !.lines = [i \in DOMAIN @ |-> IF i > Top(q, r) THEN EmptyLine(r) ELSE @[i]],
            !.rest = IF all THEN [c \in DOMAIN @ |-> Blank] ELSE @]

c_clearscroll == Show(clearscroll(Screen)) /\ paper' = Wiped(paper, region, FALSE)
c_clearscreen == Show([Screen EXCEPT !.video = Blanks]) /\ paper' = Wiped(paper, region, TRUE)

c_scroll(lines) ==
  LET all == lines > region.y2 - region.y1
      q   == [paper EXCEPT !.lines = @ \o [i \in 1 .. lines |-> EmptyLine(region)]]
  IN /\ Show(scroll(Screen, lines))
     /\ paper' = IF all THEN [Wiped(paper, region, FALSE) EXCEPT !.row = Top(paper, region) + 1, !.col = 1]
                 ELSE [q EXCEPT !.row = @ + lines]

\* calls of the kernel and of processes; no more when the paper is used up
ScreenNext ==
  /\ Len(paper.lines) < MaxPaper
  /\ \/ \E c \in Letters \cup {NL, CR} : c_puts(<<c>>)
     \/ \E x, y \in Coordinates :
          \/ c_moveto(x, y)
          \/ \E c \in Letters \cup {NL} : c_putchar_at(x, y, c)
          \/ \E a, b \in Letters : c_puts_at(x, y, <<a, b>>)
     \/ \E x1, y1, x2, y2 \in Coordinates : c_setscroll(x1, y1, x2, y2)
     \/ c_clearscroll \/ c_clearscreen
     \/ \E n \in 0 .. Rows : c_scroll(n)

-----------------------------------------------------------------------------
\* The region shows the last lines of the paper, from whatever calls in whatever
\* order: scrolling late, wrapping, moving and output at a place lose and repeat
\* nothing; all else on the screen is as it was put there.  The cursor blinks where
\* the next character goes, or on the last line while that is yet to be scrolled.
ShowsWhatIsWritten ==
  LET r == region
      q == paper
  IN /\ \A x \in r.x1 .. r.x2, y \in r.y1 .. r.y2 :
          video[<<x, y>>] = q.lines[Top(q, r) + y - r.y1 + 1][x - r.x1 + 1]
     /\ \A c \in Cell \ In(r) : video[c] = q.rest[c]
     /\ curr = [x |-> r.x1 + q.col - 1, y |-> r.y1 + q.row - Top(q, r) - 1]
     /\ cursor = (IF q.row > Len(q.lines) THEN r.y2 ELSE curr.y) * Columns + curr.x

\* What c_io.h:139-140 says of c_clearscroll: it moves the cursor to (0,0), which as in
\* c_moveto is the corner of the region.  The code does not (c_io.c:241), so that what
\* is written next starts in the middle of the cleared region.
ClearHomes == c_clearscroll => curr' = [x |-> region.x1, y |-> region.y1]
=============================================================================
