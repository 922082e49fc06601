------------------------------ MODULE MCTerminal ------------------------------
(* The keyboard with the reads of processes, and the parts of the console: each is *)
(* explored with the others at rest, as none looks at the state of another.         *)
EXTENDS MCConsole, MCKeyboard

VARIABLE unit   \* which of the two it is

mcvars == <<consoleVars, vars, unit>>

TerminalInit ==
  /\ MCInit /\ Init
  /\ unit \in {"console", "keyboard"}
  /\ IF unit = "keyboard" THEN part = "input" ELSE owner[2] = NOBODY

Driver  == unit = "keyboard" /\ Next /\ UNCHANGED <<consoleVars, unit>>
Console == unit = "console" /\ MCNext /\ UNCHANGED <<vars, unit>>

\* The bounds of the console leave it nothing more to do; only the keyboard is checked
\* for a deadlock.
Rest == unit = "console" /\ UNCHANGED mcvars

TerminalNext == Driver \/ Console \/ Rest
TerminalSpec == TerminalInit /\ [][TerminalNext]_mcvars
=============================================================================
