------------------------------ MODULE MCKeyboard ------------------------------
EXTENDS Keyboard

\* newline, the left shift key, a function key, and the parts of win and the down arrow
McKeys == {NEWLINE, LSHIFT_P, 62, EXTENDED, LWIN_P, DOWN_P}
===============================================================================
