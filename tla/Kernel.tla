------------------------------- MODULE Kernel --------------------------------
(***************************************************************************)
(* Processes of DERP OS: the PCB table (pcbs.c), the scheduler             *)
(* (scheduler.c), the clock (clock.c), process termination (system.c), the *)
(* system calls (syscalls.c), and the parts of the serial and keyboard     *)
(* drivers (sio.c, keyboard.c) that block and wake processes.              *)
(*                                                                         *)
(* There is one CPU and every handler is entered through an interrupt      *)
(* gate, so a handler runs to its end with interrupts off: one handler is  *)
(* one step.  User code between two system calls changes nothing here.     *)
(***************************************************************************)
EXTENDS Integers, Sequences, SequencesExt, Iteration

CONSTANTS
  N_PCBS,       \* entries of the PCB table
  N_PRIOS,      \* priority levels; level 0 is served first
  STD_QUANTUM,  \* ticks of a time slice
  TIME_MOD,     \* a Time is a Uint32: 2^32 in the code
  PID_MOD,      \* a Pid is a Uint16: 2^16 in the code
  PRIO_MOD,     \* a Prio is a Uint8: 2^8 in the code
  BUF_SIZE,     \* characters the serial input buffer holds
  MAX_PID,      \* bound: no fork once _next_pid has reached this value
  PrioArgs,     \* arguments of set_priority that are tried
  SleepArgs,    \* arguments of msleep that are tried
  TimeArgs      \* arguments of set_time that are tried

ASSUME KernelAssumption ==
  /\ N_PCBS \in Nat \ {0}
  /\ N_PRIOS \in Nat \ {0}
  /\ STD_QUANTUM \in Nat
  /\ TIME_MOD \in Nat \ {0}
  /\ PID_MOD \in Nat \ {0, 1, 2}
  /\ PRIO_MOD \in Nat \ {0}
  /\ N_PRIOS <= PRIO_MOD
  /\ BUF_SIZE \in Nat
  /\ MAX_PID \in Nat
  /\ PrioArgs \subseteq Nat
  /\ SleepArgs \subseteq Nat
  /\ TimeArgs \subseteq 0 .. TIME_MOD-1

Pcbs     == 1 .. N_PCBS
PID_INIT == 1
PRIO_HIGH == 0
PRIO_IDLE == N_PRIOS - 1

FREE    == "free"
ST_NEW  == "new"           \* NEW in pcbs.h, a reserved word here
READY   == "ready"
RUNNING == "running"
BLOCKED == "blocked"
KILLED  == "killed"
States  == {FREE, ST_NEW, READY, RUNNING, BLOCKED, KILLED}

(***************************************************************************)
(* The queues of the system.  Identifiers 0 .. N_PRIOS-1 are the ready     *)
(* queues, one per priority.                                               *)
(***************************************************************************)
Levels    == 0 .. N_PRIOS-1
SLEEPQ    == N_PRIOS          \* _sleeping, in ascending order of wakeup time
READQ     == N_PRIOS + 1      \* _reading, blocked for serial input
BUFBLOCKQ == N_PRIOS + 2      \* _buf_block, blocked for keyboard input
FREEQ     == N_PRIOS + 3      \* _pcb_free_queue
QueueIds  == 0 .. N_PRIOS+3

KERNEL_DIR == 0               \* the kernel's page directory; PCB p owns directory p

VARIABLES
  queue,        \* the queues, as sequences of PCBs
  state,        \* the state field of each PCB
  current,      \* _current
  quantum,      \* the quantum field of _current (never read in another PCB)
  cr3,          \* the page directory in force
  panicked,     \* _kpanic has stopped the machine
  pid,          \* the pid field of each PCB
  priority,     \* the priority field of each PCB
  wakeup,       \* key of a PCB on the sleep queue, 0 when not on it
  system_time,  \* _system_time
  next_pid,     \* _next_pid
  incount       \* _incount: characters in the serial input buffer

schedVars == <<queue, state, current, quantum, cr3, panicked>>
vars == <<schedVars, pid, priority, wakeup, system_time, next_pid, incount>>

-----------------------------------------------------------------------------
(***************************************************************************)
(* The functions of the kernel that handlers share, as operators from the  *)
(* scheduling state they find to the one they leave.                       *)
(***************************************************************************)
Kernels == [queue    : [QueueIds -> Seq(Pcbs)],
            state    : [Pcbs -> States],
            current  : Pcbs,
            quantum  : Nat,
            cr3      : Pcbs \cup {KERNEL_DIR},
            panicked : BOOLEAN]

Here == [queue |-> queue, state |-> state, current |-> current,
         quantum |-> quantum, cr3 |-> cr3, panicked |-> panicked]

Becomes(k) ==
  \E after \in {k} :
    /\ queue' = after.queue
    /\ state' = after.state
    /\ current' = after.current
    /\ quantum' = after.quantum
    /\ cr3' = after.cr3
    /\ panicked' = after.panicked

Pop(k, q) == [k EXCEPT !.queue[q] = Tail(@)]

\* Mutant of Enqueue: at the head of the queue.
Enqueue_lifo(k, q, p) == [k EXCEPT !.queue[q] = <<p>> \o @]

Enqueue(k, q, p) == [k EXCEPT !.queue[q] = Append(@, p)]

\* Mutant of CanSched: the last level is out of range.
CanSched_off_by_one(p) == priority[p] < N_PRIOS - 1

\* _sched succeeds unless the priority is out of range (BAD_PRIO)
CanSched(p) == priority[p] < N_PRIOS

\* the state is READY afterwards, whatever it was before
Sched(k, p) == Enqueue([k EXCEPT !.state[p] = READY], priority[p], p)

\* leaves the kernel's page directory in force
Cleanup(k, p) ==
  Enqueue([k EXCEPT !.state[p] = FREE, !.cr3 = KERNEL_DIR], FREEQ, p)

\* Mutant of AnyReady: the last level is not searched.
AnyReady_off_by_one(k) == \E l \in 0 .. N_PRIOS-2 : k.queue[l] # <<>>

AnyReady(k) == \E l \in Levels : k.queue[l] # <<>>

\* the level _dispatch finds first
TopLevel(k) ==
  CHOOSE l \in Levels : /\ k.queue[l] # <<>>
                        /\ \A m \in Levels : m < l => k.queue[m] = <<>>

FirstReady(k) == Head(k.queue[TopLevel(k)])

\* Mutant of Reap: no check for KILLED.
Reap_unchecked == [k \in Kernels |-> k]

\* one round of _dispatch that finds a process marked KILLED
Reap == [k \in Kernels |->
           IF AnyReady(k) /\ k.state[FirstReady(k)] = KILLED
           THEN Cleanup([Pop(k, TopLevel(k)) EXCEPT !.current = FirstReady(k)],
                        FirstReady(k))
           ELSE k]

\* Mutant of Switch: the page directory in force is kept.
Switch_same_directory(k) ==
  [Pop(k, TopLevel(k)) EXCEPT !.current = FirstReady(k),
                              !.state[FirstReady(k)] = RUNNING,
                              !.quantum = STD_QUANTUM]

\* the round of _dispatch that finds a process to run
Switch(k) ==
  [Pop(k, TopLevel(k)) EXCEPT !.current = FirstReady(k),
                              !.state[FirstReady(k)] = RUNNING,
                              !.quantum = STD_QUANTUM,
                              !.cr3 = FirstReady(k)]

Dispatch(k) ==
  LET reaped == Iterate(Reap, k, N_PCBS)
  IN  IF AnyReady(reaped) THEN Switch(reaped)
                          ELSE [reaped EXCEPT !.panicked = TRUE]

\* Mutant of SleepInsert: a queue without an order.
SleepInsert_unordered(k, p, key) == [k EXCEPT !.queue[SLEEPQ] = Append(@, p)]

\* _q_insert with _comp_ascend_uint: before the first entry with a later key
SleepInsert(k, p, key) ==
  LET s     == k.queue[SLEEPQ]
      later == {i \in DOMAIN s : wakeup[s[i]] > key}
      at    == IF later = {} THEN Len(s) + 1
               ELSE CHOOSE i \in later : \A j \in later : i <= j
  IN  [k EXCEPT !.queue[SLEEPQ] = InsertAt(@, at, p)]

\* Mutants of Wake: the sleeper stays queued; it is woken a tick late; a tick early.
Wake_without_remove(now) ==
  [k \in Kernels |->
     LET p == Head(k.queue[SLEEPQ])
     IN  IF k.queue[SLEEPQ] # <<>> /\ wakeup[p] <= now THEN Sched(k, p) ELSE k]

Wake_late(now) ==
  [k \in Kernels |->
     LET p == Head(k.queue[SLEEPQ])
     IN  IF k.queue[SLEEPQ] # <<>> /\ wakeup[p] < now
         THEN Sched(Pop(k, SLEEPQ), p) ELSE k]

\* one round of the loop of _isr_clock: move the first sleeper if it is due
Wake(now) ==
  [k \in Kernels |->
     LET p == Head(k.queue[SLEEPQ])
     IN  IF k.queue[SLEEPQ] = <<>> THEN k
         ELSE IF wakeup[p] > now THEN k
         ELSE IF CanSched(p) THEN Sched(Pop(k, SLEEPQ), p)
                             ELSE Cleanup(Pop(k, SLEEPQ), p)]
-----------------------------------------------------------------------------
(***************************************************************************)
(* After _init(): the initial process is _current with a zeroed PCB, so    *)
(* its state is still FREE and its first tick already ends its slice.      *)
(***************************************************************************)
Init ==
  /\ queue = [q \in QueueIds |-> IF q = FREEQ THEN [i \in 1 .. N_PCBS-1 |-> i+1]
                                              ELSE <<>>]
  /\ state = [p \in Pcbs |-> FREE]
  /\ current = 1
  /\ quantum = 0
  /\ cr3 = 1
  /\ panicked = FALSE
  /\ pid = [p \in Pcbs |-> IF p = 1 THEN PID_INIT ELSE 0]
  /\ priority = [p \in Pcbs |-> PRIO_HIGH]
  /\ wakeup = [p \in Pcbs |-> 0]
  /\ system_time = 0
  /\ next_pid = PID_INIT + 1
  /\ incount = 0
-----------------------------------------------------------------------------
(***************************************************************************)
(* System calls.  The initial process runs init() of users.c, which only   *)
(* forks, lowers its own priority to PRIO_IDLE and writes; every other     *)
(* process may make any call.  Calls that change nothing here (write, exec *)
(* and the get_ calls, and every call that returns an error) are stuttering*)
(* steps and have no action.                                               *)
(***************************************************************************)
Running == ~panicked

Unrestricted == Running /\ pid[current] # PID_INIT

NextPid == (next_pid + 1) % PID_MOD

sys_fork ==
  /\ Running
  /\ next_pid < MAX_PID
  /\ queue[FREEQ] # <<>>
  /\ LET new    == Head(queue[FREEQ])
         copied == [Pop(Here, FREEQ) EXCEPT !.state[new] = ST_NEW]
     IN  /\ IF state[new] # FREE THEN Becomes([Here EXCEPT !.panicked = TRUE])
            ELSE IF CanSched(current)
                 THEN Becomes(Enqueue([copied EXCEPT !.state[new] = READY],
                                      priority[current], new))
                 ELSE Becomes(Cleanup(copied, new))
         /\ pid' = [pid EXCEPT ![new] = next_pid]
         /\ priority' = [priority EXCEPT ![new] = priority[current]]
  /\ next_pid' = NextPid
  /\ UNCHANGED <<wakeup, system_time, incount>>

\* also what a call with an illegal number does
sys_exit ==
  /\ Unrestricted
  /\ Becomes(Dispatch(Cleanup(Here, current)))
  /\ UNCHANGED <<pid, priority, wakeup, system_time, next_pid, incount>>

\* Mutant of sys_read: the process blocks without a look at the buffer.
sys_read_blindly ==
  /\ Unrestricted
  /\ Becomes(Dispatch(Enqueue([Here EXCEPT !.state[current] = BLOCKED],
                              READQ, current)))
  /\ UNCHANGED <<pid, priority, wakeup, system_time, next_pid, incount>>

sys_read ==
  /\ Unrestricted
  /\ IF incount > 0
     THEN /\ incount' = incount - 1
          /\ UNCHANGED schedVars
     ELSE /\ Becomes(Dispatch(Enqueue([Here EXCEPT !.state[current] = BLOCKED],
                                      READQ, current)))
          /\ UNCHANGED incount
  /\ UNCHANGED <<pid, priority, wakeup, system_time, next_pid>>

\* read_buf and read_char
sys_read_buf ==
  /\ Unrestricted
  /\ Becomes(Dispatch(Enqueue([Here EXCEPT !.state[current] = BLOCKED],
                              BUFBLOCKQ, current)))
  /\ UNCHANGED <<pid, priority, wakeup, system_time, next_pid, incount>>

sys_msleep(ms) ==
  /\ Unrestricted
  /\ IF ms = 0
     THEN /\ CanSched(current)
          /\ Becomes(Dispatch(Sched(Here, current)))
          /\ UNCHANGED wakeup
     ELSE LET key == (system_time + ms) % TIME_MOD
          IN  /\ Becomes(Dispatch(SleepInsert(Here, current, key)))
              /\ wakeup' = [wakeup EXCEPT ![current] = key]
  /\ UNCHANGED <<pid, priority, system_time, next_pid, incount>>

\* Mutant of sys_kill: the search does not skip FREE entries.
sys_kill_free(victim) ==
  /\ Unrestricted
  /\ \E p \in Pcbs : /\ pid[p] = victim
                     /\ \A o \in Pcbs : pid[o] = victim => p <= o
                     /\ state' = [state EXCEPT ![p] = KILLED]
  /\ UNCHANGED <<queue, current, quantum, cr3, panicked, pid, priority, wakeup,
                 system_time, next_pid, incount>>

\* the first PCB in the table with this pid that is not FREE
sys_kill(victim) ==
  /\ Unrestricted
  /\ LET found == {p \in Pcbs : pid[p] = victim /\ state[p] # FREE}
     IN  /\ found # {}
         /\ state' = [state EXCEPT ![CHOOSE p \in found : \A o \in found : p <= o]
                                     = KILLED]
  /\ UNCHANGED <<queue, current, quantum, cr3, panicked, pid, priority, wakeup,
                 system_time, next_pid, incount>>

\* Mutant of sys_set_priority: the range is not checked.
sys_set_priority_unchecked(arg) ==
  /\ Running
  /\ pid[current] = PID_INIT => arg = PRIO_IDLE
  /\ priority' = [priority EXCEPT ![current] = arg % PRIO_MOD]
  /\ UNCHANGED <<schedVars, pid, wakeup, system_time, next_pid, incount>>

sys_set_priority(arg) ==
  /\ Running
  /\ pid[current] = PID_INIT => arg = PRIO_IDLE
  /\ LET prio == arg % PRIO_MOD
     IN  /\ prio < N_PRIOS
         /\ priority' = [priority EXCEPT ![current] = prio]
  /\ UNCHANGED <<schedVars, pid, wakeup, system_time, next_pid, incount>>

sys_set_time(time) ==
  /\ Unrestricted
  /\ system_time' = time
  /\ UNCHANGED <<schedVars, pid, priority, wakeup, next_pid, incount>>
-----------------------------------------------------------------------------
(***************************************************************************)
(* Interrupts.                                                             *)
(***************************************************************************)
isr_clock ==
  /\ Running
  /\ system_time' = (system_time + 1) % TIME_MOD
  /\ LET woken == Iterate(Wake((system_time + 1) % TIME_MOD), Here, N_PCBS)
     IN  IF woken.quantum < 1
         THEN Becomes(Dispatch(IF CanSched(current) THEN Sched(woken, current)
                                                    ELSE Cleanup(woken, current)))
         ELSE Becomes([woken EXCEPT !.quantum = @ - 1])
  /\ wakeup' = [p \in Pcbs |-> IF Contains(queue'[SLEEPQ], p) THEN wakeup[p] ELSE 0]
  /\ UNCHANGED <<pid, priority, next_pid, incount>>

\* a character arrives on the serial line
isr_sio ==
  /\ Running
  /\ IF queue[READQ] # <<>>
     THEN LET p == Head(queue[READQ])
          IN  /\ Becomes(IF CanSched(p) THEN Sched(Pop(Here, READQ), p)
                                        ELSE Pop(Here, READQ))
              /\ UNCHANGED incount
     ELSE /\ incount < BUF_SIZE
          /\ incount' = incount + 1
          /\ UNCHANGED schedVars
  /\ UNCHANGED <<pid, priority, wakeup, system_time, next_pid>>

\* a key completes the keyboard request of the i-th blocked process
keyboard_isr(i) ==
  /\ Running
  /\ LET p       == queue[BUFBLOCKQ][i]
         removed == [Here EXCEPT !.queue[BUFBLOCKQ] = RemoveAt(@, i)]
     IN  Becomes(IF CanSched(p) THEN Sched(removed, p) ELSE removed)
  /\ UNCHANGED <<pid, priority, wakeup, system_time, next_pid, incount>>

\* _kpanic never returns
Halted == panicked /\ UNCHANGED vars
-----------------------------------------------------------------------------
SystemCall ==
  \/ sys_fork
  \/ sys_exit
  \/ sys_read
  \/ sys_read_buf
  \/ \E ms \in SleepArgs : sys_msleep(ms)
  \/ \E victim \in 0 .. MAX_PID : sys_kill(victim)
  \/ \E arg \in PrioArgs : sys_set_priority(arg)
  \/ \E time \in TimeArgs : sys_set_time(time)

Next ==
  \/ SystemCall
  \/ isr_clock
  \/ isr_sio
  \/ \E i \in DOMAIN queue[BUFBLOCKQ] : keyboard_isr(i)
  \/ Halted

Spec == Init /\ [][Next]_vars

\* the timer keeps interrupting a machine that has not panicked
FairSpec == Spec /\ WF_vars(isr_clock)
-----------------------------------------------------------------------------
(***************************************************************************)
(* Properties.                                                             *)
(***************************************************************************)
On(p, q) == \E i \in DOMAIN queue[q] : queue[q][i] = p

IsReady(p) == \E l \in Levels : On(p, l)

\* The type invariant.
TypeOK ==
  /\ Here \in Kernels
  /\ pid \in [Pcbs -> 0 .. PID_MOD-1]
  /\ priority \in [Pcbs -> Levels]
  /\ wakeup \in [Pcbs -> 0 .. TIME_MOD-1]
  /\ system_time \in 0 .. TIME_MOD-1
  /\ next_pid \in 0 .. PID_MOD-1
  /\ incount \in 0 .. BUF_SIZE

\* The queues q hold every PCB outside the set held exactly once, and hold no
\* PCB of the set.
Placed(q, held) ==
  /\ \A a, b \in QueueIds : \A i \in DOMAIN q[a], j \in DOMAIN q[b] :
       q[a][i] = q[b][j] => a = b /\ i = j
  /\ \A p \in Pcbs :
       p \in held <=> \A a \in QueueIds : \A i \in DOMAIN q[a] : q[a][i] # p

\* Whatever the order of calls and interrupts, every PCB is either _current or on
\* exactly one queue, once: none is scheduled twice, none is lost, none is freed
\* while it still waits somewhere (queues.c has no check of its own for this).
OnePlace == ~panicked => Placed(queue, {current})

\* The state field tells where a PCB is: FREE exactly on the free list (the
\* initial process before its first dispatch is the exception _init leaves), a
\* PCB on a ready queue is READY, a blocked one BLOCKED, a sleeper is still marked
\* RUNNING; and any of them may have been marked KILLED where it is.
StateMatchesPlace ==
  ~panicked =>
    \A p \in Pcbs :
      /\ On(p, FREEQ) => state[p] = FREE
      /\ IsReady(p) => state[p] \in {READY, KILLED}
      /\ On(p, READQ) \/ On(p, BUFBLOCKQ) => state[p] \in {BLOCKED, KILLED}
      /\ On(p, SLEEPQ) => state[p] \in {RUNNING, KILLED}
      /\ p = current => state[p] \in {FREE, RUNNING, KILLED}

\* A handler returns to the process it left in _current with that process's own
\* page directory loaded, although fork and _cleanup switch directories.
OwnAddressSpace == ~panicked => cr3 = current

\* The sleep queue is in order of wakeup time, which is what lets _isr_clock stop
\* at the first sleeper that is not due.
SleepSorted ==
  \A i, j \in DOMAIN queue[SLEEPQ] :
    i < j => wakeup[queue[SLEEPQ][i]] <= wakeup[queue[SLEEPQ][j]]

\* A process blocks on the serial line only while the input buffer is empty, and
\* no character is buffered past a process that waits for one.
NobodyWaitsOnInput == queue[READQ] # <<>> => incount = 0

\* _dispatch finds no process at all only after init, which never blocks, has been
\* killed: with init alive the system never stops in the "no non-empty readyq" panic.
PanicNeedsInitKilled ==
  panicked => \A p \in Pcbs : pid[p] = PID_INIT => state[p] = FREE

\* A PCB on a ready queue that has been marked KILLED is never run: it stays where
\* it is until _dispatch finds it and frees it.
KilledReadyNeverRuns ==
  [][\A p \in Pcbs : IsReady(p) /\ state[p] = KILLED => state'[p] \in {KILLED, FREE}]_vars

\* A PCB is freed only when its process exits or when _dispatch finds it KILLED:
\* no wakeup, timer tick or failed fork takes a PCB from a living process.
FreedOnlyWhenDead ==
  [][\A p \in Pcbs :
       state[p] # FREE /\ state'[p] = FREE =>
         \/ sys_exit /\ p = current
         \/ state[p] = KILLED /\ IsReady(p)]_vars

\* A tick leaves no sleeper behind whose time has come.
TickWakesAllDue ==
  [][isr_clock => \A p \in Pcbs : On(p, SLEEPQ)' => wakeup[p] > system_time']_vars

\* Nobody overtakes: processes that share a ready queue after a step are in the
\* order they had before it, sleepers that a tick wakes together included.
Before(q, p, o) ==
  \E i, j \in DOMAIN queue[q] : i < j /\ queue[q][i] = p /\ queue[q][j] = o

FirstComeFirstServed ==
  [][\A p, o \in Pcbs : \A q \in QueueIds \ {FREEQ} :
       Before(q, p, o) => \A l \in Levels : ~Before(l, o, p)']_vars

\* A process on the ready queue of the highest priority gets the CPU (or is
\* reaped), whatever the others do: a slice ends after STD_QUANTUM+1 ticks.
TopPriorityRuns ==
  \A p \in Pcbs : On(p, PRIO_HIGH) ~> (~On(p, PRIO_HIGH) \/ panicked)

\* A process that sleeps is woken, across a wrap of the clock as well.
SleepersWake ==
  \A p \in Pcbs : On(p, SLEEPQ) ~> (~On(p, SLEEPQ) \/ panicked)

\* docs/syscalls/kill: a process that has been killed is erased, it does not come
\* back to life.
KilledIsErased ==
  [][\A p \in Pcbs : state[p] = KILLED => state'[p] \in {KILLED, FREE}]_vars

=============================================================================
