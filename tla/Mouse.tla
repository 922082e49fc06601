-------------------------------- MODULE Mouse ---------------------------------
(***************************************************************************)
(* mouse.c: the interrupts of the mouse, one for each byte of a packet of  *)
(* three, the pointer that they draw among the text of TextScreen.tla, and *)
(* what the program of the active screen is told of the buttons.  The      *)
(* controller is external: it sends whole packets.  An interrupt comes     *)
(* between two calls of c_io.c here, not within one.                       *)
(***************************************************************************)
EXTENDS TextScreen

CONSTANTS
  Glyph,     \* the pointer without a button, and with the left, right, middle one
  Attached,  \* what _ps2_mouse_init prints
  Overflow,  \* what the handler prints when a packet has a bit for that
  Heads,     \* bound: the first bytes of packets: what their bits say
  Moves      \* bound: the other bytes, as signed characters

ASSUME MouseAssumption ==
  /\ Heads \subseteq [overflow : BOOLEAN, left : BOOLEAN, right : BOOLEAN, middle : BOOLEAN]
  /\ Moves \subseteq -128 .. 127
  /\ Attached \in Seq(Letters \cup {NL}) /\ Overflow \in Seq(Letters \cup {NL})
  /\ \A i \in 1 .. 4 : Glyph[i] # NL

VARIABLES
  packet,   \* m_bytes, as many as byte_c says
  motion,   \* _x_move, _y_move, and _x_t_move, _y_t_move, which they add up to
  pointer,  \* _x_pos, _y_pos; NoPointer before the mouse is attached
  buttons,  \* _left_button, _right_button, _middle_button
  told      \* what the handler of the program was called with last

mvars == <<packet, motion, pointer, buttons, told>>

NoPointer == <<0 - 1, 0 - 1>>
NoButtons == [left |-> FALSE, right |-> FALSE, middle |-> FALSE]

MouseInit ==
  /\ packet = <<>>
  /\ motion = [x |-> 0, y |-> 0, xt |-> 0, yt |-> 0]
  /\ pointer = NoPointer
  /\ buttons = NoButtons
  /\ told = NoButtons

\* the division of C
over(n, d) == IF n >= 0 THEN n \div d ELSE 0 - ((0 - n) \div d)

\* _ps2_mouse_init, whose last call clears the screen.  The interrupts before that
\* are not taken for bytes.
_ps2_mouse_init ==
  LET s == puts(Screen, Attached) IN
  /\ pointer = NoPointer
  /\ pointer' = <<0, 0>>
  /\ Show([s EXCEPT !.video = Blanks])
  /\ paper' = Wiped(WrittenAll(paper, region, Attached), region, TRUE)
  /\ UNCHANGED <<packet, motion, buttons, told>>

\* One step when enough has added up, which begins anew then
Step(t, limit) == CASE t > limit -> 1 [] t < 0 - limit -> 0 - 1 [] OTHER -> 0

\* Mutant of ChangedButtons: buttons that are released are not noticed.
ChangedButtons_pressed(head) == \E b \in DOMAIN buttons : head[b]

\* button_change: what is held is told again, and what is released.
ChangedButtons(head) == \E b \in DOMAIN buttons : head[b] \/ buttons[b]

\* _ps2_mouse_isr.  The movement of the last packet counts with every byte.  The
\* sign bits of the packet do nothing: that of x is not looked at but for the bit
\* that is always set, and that of y changes a value that is then overwritten.
_ps2_mouse_isr(byte) ==
  LET got   == Append(packet, byte)
      head  == got[1]
      whole == Len(got) = 3
      lost  == whole /\ head.overflow
      new   == whole /\ ~head.overflow
      held  == IF new THEN [b \in DOMAIN buttons |-> head[b]] ELSE buttons
      x  == bound(0 - 80, IF new THEN got[2] ELSE motion.x, 80)
      y  == bound(0 - 64, IF new THEN got[3] ELSE motion.y, 64)
      xt == motion.xt + over(x, 2)
      yt == motion.yt + over(y, 6)
      to == << bound(0, pointer[1] + Step(xt, 6), max_x), bound(0, pointer[2] - Step(yt, 8), max_y) >>
      glyph == CASE held.left                                    -> Glyph[2]
                 [] ~held.left /\ held.right                      -> Glyph[3]
                 [] ~held.left /\ ~held.right /\ held.middle      -> Glyph[4]
                 [] OTHER                                        -> Glyph[1]
      message == IF lost THEN Overflow ELSE <<>>
      s == puts(Screen, message)
      q == WrittenAll(paper, region, message)
  IN /\ pointer # NoPointer
     /\ packet' = IF whole THEN <<>> ELSE got
     /\ buttons' = held
     /\ motion' = [x |-> x, y |-> y, xt |-> IF Step(xt, 6) = 0 THEN xt ELSE 0,
                                     yt |-> IF Step(yt, 8) = 0 THEN yt ELSE 0]
     /\ pointer' = to
     /\ Show([s EXCEPT !.video = draw(draw(@, pointer[1], pointer[2], Blank), to[1], to[2], glyph)])
     /\ paper' = PutAt(PutAt(q, region, pointer[1], pointer[2], Blank), region, to[1], to[2], glyph)
     /\ told' = IF new /\ ChangedButtons(head) THEN held ELSE told

MouseNext ==
  \/ _ps2_mouse_init
  \/ packet = <<>> /\ \E head \in Heads : _ps2_mouse_isr(head)
  \/ packet # <<>> /\ \E n \in Moves : _ps2_mouse_isr(n)

-----------------------------------------------------------------------------
\* After every interrupt the pointer is on the screen, what is drawn for it are the
\* buttons that the program was told of last, and no movement is left over that is
\* enough for a step: packets that overflow, buttons that change together and
\* movements of the packet before (which count again) do not part the three.
PointerAgrees ==
  /\ pointer \in Cell \cup {NoPointer}
  /\ told = buttons
  /\ motion.xt \in -6 .. 6 /\ motion.yt \in -8 .. 8
=============================================================================
