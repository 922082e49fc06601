-------------------------------- MODULE WinMan ---------------------------------
(***************************************************************************)
(* The state of the window manager (win_man.c): who has which screen, what *)
(* the four quadrants show, and which quadrant has the focus.  Keyboard    *)
(* composes it with the keyboard driver.                                   *)
(*                                                                         *)
(* The keyboard interrupt calls it with interrupts off; get_screen_buffer  *)
(* runs in the child of a spawn, which can be preempted between the test   *)
(* of a screen and the store of its pid, so these are two steps.           *)
(***************************************************************************)
EXTENDS Integers

CONSTANTS
  DEFAULT_SCREENS,  \* number of screens
  GONE,             \* number of processes that have ended before
  Taken,            \* how many screens they may have taken
  MAX_PID           \* bound: no process is spawned beyond it

Screens   == 0 .. DEFAULT_SCREENS-1
Quadrants == 0 .. 3
Pids      == 1 .. MAX_PID

ASSUME WinManAssumption ==
  /\ DEFAULT_SCREENS \in Nat /\ DEFAULT_SCREENS >= 4
  /\ MAX_PID \in Nat \ {0}
  /\ GONE \in 0 .. MAX_PID
  /\ Taken \subseteq 0 .. DEFAULT_SCREENS
  /\ \A n \in Taken : n <= GONE

NOBODY == 0         \* the pid field of a screen that is free

VARIABLES
  owner,            \* the pid field of each screen
  screens,          \* the screen shown in each quadrant
  active_quad,      \* the quadrant that has the focus
  spawned,          \* the pids given out so far are 1 .. spawned
  stage,            \* what each process is about to do in get_screen_buffer
  index             \* and to which screen

winVars == <<owner, screens, active_quad, spawned, stage, index>>

\* TEST and SET are the two steps; RUNS follows SUCCESS, FAILED follows FAILURE
TEST   == "test"
SET    == "set"
RUNS   == "runs"
FAILED == "failed"
ENDED  == "ended"
Stages == {TEST, SET, RUNS, FAILED, ENDED}

\* the pids of processes that run user programs
Running == {p \in 1 .. spawned : stage[p] = RUNS}

\* Nothing gives a screen back: what ended processes have taken stays taken.
WinInit ==
  /\ \E n \in Taken : owner = [i \in Screens |-> IF i < n THEN i + 1 ELSE NOBODY]
  /\ screens = [q \in Quadrants |-> q]
  /\ active_quad = 0
  /\ spawned = GONE
  /\ stage = [p \in Pids |-> IF p <= GONE THEN ENDED ELSE TEST]
  /\ index = [p \in Pids |-> 0]

\* the process that has the focus, when quadrant q has it
ActivePid(q) == owner[screens[q]]

\* the quadrant that has the focus after switch_active(q)
switch_active(q) == IF q \in Quadrants THEN q ELSE active_quad

set_active(i, q) == screens' = [screens EXCEPT ![q] = i]

\* spawnp: the child enters get_screen_buffer
Spawn ==
  /\ spawned < MAX_PID
  /\ spawned' = spawned + 1
  /\ UNCHANGED <<owner, screens, active_quad, stage, index>>

\* the test of one screen; after the last one FAILURE
TestScreen(p) ==
  /\ p <= spawned
  /\ stage[p] = TEST
  /\ \/ /\ owner[index[p]] = NOBODY
        /\ stage' = [stage EXCEPT ![p] = SET]
        /\ UNCHANGED index
     \/ /\ owner[index[p]] # NOBODY
        /\ index[p] + 1 \in Screens
        /\ index' = [index EXCEPT ![p] = @ + 1]
        /\ UNCHANGED stage
     \/ /\ owner[index[p]] # NOBODY
        /\ index[p] + 1 \notin Screens
        /\ stage' = [stage EXCEPT ![p] = FAILED]
        /\ UNCHANGED index
  /\ UNCHANGED <<owner, screens, active_quad, spawned>>

\* Mutant of SetScreen: the loop goes on to the next screen.
SetScreen_goes_on(p) ==
  /\ p <= spawned
  /\ stage[p] = SET
  /\ owner' = [owner EXCEPT ![index[p]] = p]
  /\ IF index[p] + 1 \in Screens
     THEN /\ index' = [index EXCEPT ![p] = @ + 1]
          /\ stage' = [stage EXCEPT ![p] = TEST]
     ELSE /\ stage' = [stage EXCEPT ![p] = RUNS]
          /\ UNCHANGED index
  /\ UNCHANGED <<screens, active_quad, spawned>>

\* the store; SUCCESS, and the child goes on with its program
SetScreen(p) ==
  /\ p <= spawned
  /\ stage[p] = SET
  /\ owner' = [owner EXCEPT ![index[p]] = p]
  /\ stage' = [stage EXCEPT ![p] = RUNS]
  /\ UNCHANGED <<screens, active_quad, spawned, index>>

\* the end of a process does not touch its screen
Exit(p) ==
  /\ p <= spawned
  /\ stage[p] \in {RUNS, FAILED}
  /\ stage' = [stage EXCEPT ![p] = ENDED]
  /\ UNCHANGED <<owner, screens, active_quad, spawned, index>>

WinTypeOK ==
  /\ owner \in [Screens -> Pids \cup {NOBODY}]
  /\ screens \in [Quadrants -> Screens]
  /\ active_quad \in Quadrants
  /\ spawned \in GONE .. MAX_PID
  /\ stage \in [Pids -> Stages]
  /\ index \in [Pids -> Screens]

\* A process has one screen at most, so that get_screen_info, which takes the first
\* screen with its pid, and the focus, which goes by the pid of the screen shown,
\* mean the same one.
OneScreenEach ==
  \A i, j \in Screens : owner[i] = owner[j] /\ owner[i] # NOBODY => i = j
================================================================================
