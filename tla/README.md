# A verification project for DERP OS

DERP OS is a small x86 kernel: one CPU, up to 24 processes that share the code and
data of one image and have a paged stack each, a serial line, a PS/2 keyboard, a
VESA screen divided into windows, and a file system of its own on an ATA disk. This
directory holds TLA+ modules that model its core, TLC configurations that check
them on small instances, and proofs, checked by TLAPS, that hold for every instance.

## The system

One fact shapes everything: all interrupts and system calls enter through interrupt
gates (`support.c`, `isr_stubs.S`), so interrupts are off while a handler runs, and a
handler runs to its end. The unit of interleaving is a whole handler. Code in user
programs is preempted freely; so is code of the window manager and of the file
system, which user programs call as a library.

| Component | State | Operations | Interacts with | What makes it correct | Hard to test |
|---|---|---|---|---|---|
| queues (`queues.c`) | free lists of nodes and queues, doubly linked lists | alloc, insert (fifo or sorted), remove first / by key / selected, peek | used by all below | each node in one list, links sound both ways, order, stability | link errors that show calls later |
| processes, scheduler (`pcbs.c`, `scheduler.c`) | PCB table, one ready queue per level, `_current` | `_sched`, `_dispatch`, alloc, dealloc | every handler moves PCBs | a PCB is in one place; the highest level runs first; killed ones are reaped | six handlers, any order |
| clock (`clock.c`) | `_system_time`, `_sleeping`, quantum | `_isr_clock` | scheduler | due sleepers wake, slices end | wrap of the clock, several due at once |
| system calls (`syscalls.c`, `system.c`) | `_next_pid`, PCB fields | fork, exit, kill, msleep, read, read_buf, set_priority, set_time ... | all | documented results; a kill takes effect | kill of a process anywhere |
| serial driver (`sio.c`) | two buffers with raw pointers, `_sending`, `_ier`, `_reading` | interrupt (receive, transmit), readc, writec | scheduler, address spaces | order kept, nothing lost, transmitter never stalls, reader gets its character | races of write and last interrupt; buffer limits |
| virtual memory (`vmem.c`, `vmemL2.c`) | page bitmap, directories, tables, CR3 | create directory/table/page, release | fork, exit, dispatch | no page shared or lost; private stacks; own directory in force | leaks, stale directory, masks |
| keyboard (`keyboard.c`) | request table, modifier state, `_buf_block` | interrupt, read_buf, read_char | scheduler, address spaces, window manager | a request gets its keys and completes | aliasing of requests, modifiers |
| window manager (`win_man.c`) | screens, quadrants, focus | get_screen_buffer, switch_active ... | keyboard, user code | a screen has one owner | preempted check-then-set |
| mouse (`mouse.c`) | packet, movement, buttons, pointer | init, interrupt | text screen, window manager | pointer, buttons and what programs are told agree | a pointer drawn into text that scrolls |
| file system (`fs.c`, `ufs.c`) | sector bitmap, file pointers, names, open FILEs with buffers | create partition, format, probe; open, close, delete, flush, seek, read, write | disk, user code | bitmap agrees with files; buffers go where they belong; files are what was written | tables in step, preemption and stops between sector writes |
| disk (`ata.c`, `pci.c`) | registers of a channel, drives found | read, write a sector; probe | file system | a transfer is one sector, whole | order of register writes, a drive's own time |
| text (`c_io.c`, `printf.c`, `string.c`) | scrolling region, cursor, ring of typed characters | output, scrolling, formats, line input, strtok | kernel, programs | what is shown is what was written | late scrolling, borders, an interrupt in the ring |
| windows' text (`gl.c`, `gl_print.c`) | lines and picture of a window | gl_putchar, scrolling | programs | what is printed stays | picture and buffer part ways |
| page reference counts (`vmem_ref.c`) | counters | inc, dec | nobody yet | | |

`PROJECT.json` lists every component with its status and, under `hazards`, what can go
wrong at which line and which property would notice.

## The modules

**Kernel** models process management as one state machine: `queue` is all queues of
PCBs (ready queues by level, sleeping, reading, blocked for the keyboard, free),
`state`, `pid`, `priority` and `wakeup` are PCB fields, `cr3` names the page directory
in force (PCB p owns directory p, 0 is the kernel's). Each handler is an action with
the name of its function (`sys_fork`, `isr_clock`, ...). What handlers share -
`_sched`, `_cleanup`, `_dispatch` - are operators from a record of the scheduling
state to the next (`Sched(k, p)`, `Cleanup(k, p)`, `Dispatch(k)`), so that an action is
the composition the C code is. The loops of `_dispatch` (reap killed processes until a
live one is found) and `_isr_clock` (wake until the first sleeper that is not due) are
their bodies iterated (`Iteration`): a body is the identity once its loop condition has
failed, and neither loop can go round more than `N_PCBS` times. System calls that
change nothing here are stuttering steps. The initial process makes only the calls of
`init()` in `users.c`; any other process may make any call at any time.

**QueueSpec** says what the queue module promises, on sequences; **QueueLists** is the
code: nodes with `prev` and `next`, the list of free nodes, queues with head and tail,
unallocated queues linked through `head`. `result` is the status of the last call and
what it stored, so that refinement covers what callers see. **QueueTypes** has what the
two share. Kernel's queues are these queues: `Enqueue` and `Pop` are `_q_insert` and
`_q_remove` on a fifo queue, `SleepInsert` is the sorted insertion.

**Sio** models the serial driver with its buffers as arrays and its pointers as
indices. `rx` and `tx` are the two buffers, `txd` the transmitter register, `ier` the
enabled interrupts; `stored`, `taken`, `written` and `wire` are history. The hardware is
two actions: a character arrives (`isr_rx`, combined with the interrupt it raises) and
`Transmit`. A write past the end of a buffer (undefined behaviour in C) is recorded in
`overrun` and ends the model. What Kernel abstracts to `incount` is the content of `rx`.

**ProcessMemory** says what processes are promised about their stacks: private memory,
copied by fork. **AddressSpaces** is the code: the bitmap of free pages, directories and
tables in physical pages, translation through CR3, the copy of a stack through reserved
pages under two directories, release through masked addresses. It implements
ProcessMemory under the mapping that reads a stack through the tables of its process.
Kernel abstracts a directory to its owner; AddressSpaces abstracts the scheduler to
"any live process may be dispatched".

**WinMan** has the state of the window manager - the owner of each screen, the screen
in each quadrant, the quadrant with the focus - and `spawnp` with `get_screen_buffer`,
whose test of a screen and store of a pid are two steps, since the child that runs them
can be preempted. **Keyboard** extends it with the driver: a key is one action
(`keyboard_isr`), reads are `sys_read` (size 0 is `read_char`), `request` is the one
record that all entries of the request table share. `-1` for "no entry" becomes 255, so
a read that finds the record in use either overwrites it or goes nowhere: which of the
two depends on a word behind the array, and the model allows both. `in_service` is the
interrupt that some keys leave unacknowledged until the next system call. `typed` is
history: the characters that were typed with the focus on a process while it waits. A
`kill` of a waiting process acts when it is scheduled again (Kernel), which here is the
end of its read followed by its exit.

**DerpDisk** is the layout of a partition and the routines that read and write it: the
bitmap is the set of marked sectors, index blocks and name sectors are kept by content,
sectors of files as records. **FileStore** says what `ufs.c` promises a program (named
strings of bytes, a position of its own, one user at a time), and **DerpFs** is the code:
the table of FILEs with their buffers, a call of `ufs.c` as one action, the refinement
to FileStore by following chains with open buffers in the place of sectors. The code
does not survive everything: the situations in which a call breaks its promise are
listed in DerpFs under Faults, by name. Such a call is modelled by what the code does
and recorded in `fault`, and the behaviour ends there; the refinement and the
invariants speak of what comes before. One of them is no end: a read that stops at the
end of a full sector (`short read`) gives less than it should and harms nothing, so that
other calls follow it (`Survived`); FileStore, as the documents do, lets a read end early
only at the end of the file, and the run `files_read` shows the difference. The instance
meets ten of them: a found file taken for a new one since its code was never set, a name
found behind the partition, no room for a new file, no sector to go on in, a file opened
twice, a recycled sector whose links are old, a seek behind the end, a seek whose sum
wraps, a write into the sector before, and the short read. The others (another slot
opened, a name not found, the wrong index block, a seek in the wrong sector) need more
names and sectors. `_fs_find_file` looks one index block too far (`fs.c:440`), where the
first layout of a disk has the name sectors of the next partition (`fs.c:28`): what lies there
is anything in the model, so that `find_file` gives a set of slots, those behind included.

**FileShell** cuts the same code finer: `touch`, `rm`, `cat` and `write` of the shell with
one step for each access to the disk or to the shared tables, since a process can lose
the CPU there and the machine can stop there (`Crash` keeps only the disk). `last` is the
static variable of `strtok`. Files stay within one sector, and only files of the
first index block are opened: what DerpFs records as a fault, a name found in a later block
or behind the partition, is not followed.

**AtomicDisk** says what the file system takes a disk to be; **Ata** is the dialogue that
makes it one: address registers that are written twice, a command, looks at the status,
the data. Drives are external: they take their time and can fail a command. It
implements AtomicDisk for one process at a time. **Partitions** has the walk over the PCI
bus, the drives, the partition table, formatting, probing at the start, and files that
may write whatever sector their bitmap has a bit for; sizes and sector numbers are
modulo a word.

**TextScreen** is the output of `c_io.c`, with `paper`, an endless sheet, as the history
that says what it should show; **Mouse** draws its pointer on it. **InputLine** promises
lines; **LineInput** is the ring of typed characters that implements it, with the
interrupt between any two accesses of the reader. **Formats** has the conversions of
`c_printf` and of `printf.c`, and `atoi` and `strtok` that take text apart. **GlText** is the
text of a process's window: a buffer, and a picture that scrolling redraws from it.
Much of this is a library that the default build uses little of. `c_getchar` and `c_gets`
have no caller, and `c_setscroll` one, at the start (`system.c:217`); the keyboard handler of
`c_io.c` is replaced by that of `keyboard.c`. The mouse is never started: `ps2.c:20` is
commented out, and only the test program `user_mouse` would do it. The branches of `c_io.c`
for `current_device == 1`, which send text to windows, are left out: the one call of
`c_set_device(1)` is commented out (`users.c:1142`).

How they fit together: FileShell and DerpFs take DerpDisk to have atomic sectors, which
Ata implements; Partitions says where a DerpDisk lies; programs print through GlText and
Formats; Keyboard extends WinMan and Mouse extends TextScreen. FileShell's shells are
processes of Kernel, which lets any of them lose the CPU at any time.

**KernelProofs**, **QueueListsProofs**, **AddressSpacesProofs**, **SioProofs**,
**DerpFsProofs**, **FileShellProofs**, **DiskProofs** and **ConsoleProofs** hold theorems
(below).
`MC*` modules instantiate, and put modules side by side in one run. Definitions whose comment begins "Mutant of" are plausible mistakes in the
definition they name; no specification uses them. Each shows that some property would
notice that mistake.

## The runs

| Run | Instance | Shows |
|---|---|---|
| `kernel` | 3 PCBs, 2 levels, quantum 1, clock modulo 4, pids that do not wrap, priorities up to one out of range | queues and state fields agree, order of service, wakeups, killed processes are not run, directory in force; with the timer fair: the top level runs, sleepers wake |
| `services`: lists | 3 nodes, 2 queues, 2 data, 2 keys | sound lists; implements QueueSpec |
| `services`: memory | 3 processes, stacks of 2 pages, exactly as many pages as they need, one page set aside in their midst, 2 pages beyond the mask | no page lost or shared, no panic; implements ProcessMemory |
| `sio` | buffers of 3, 2 processes, up to 3 input characters and 2 writes (4 characters) | order on both paths; all is sent |
| `storage`: files | one index block of 5 sectors, 2 names, 2 FILEs, sectors of 2 bytes, files up to 4 bytes, writes of 2 bytes across the end of a sector, offsets 0, 1, 2 and 7 modulo 8 | sectors accounted for, buffers in place; implements FileStore until a fault, and past short reads |
| `storage`: transfers, partitions | sector numbers of four digits in base 2, one channel, two drives; two controllers with one drive of 20 sectors, partition tables of 2, index blocks of 4, word 64 | transfers implement AtomicDisk and return; partitions stay apart; one letter each |
| `shell` | 5 sectors, 2 names, 2 FILEs, one shell, the machine stops up to twice | what is left on the disk leads to files; a stop costs at most a sector |
| `terminal`: keyboard | 4 screens, 2 or 3 of them kept by dead processes, 2 live processes, sizes 0 and 2, up to 3 characters per read, six key codes | a read returns what was typed for it; requests and waiting processes agree; one screen per process |
| `terminal`: console | screen 2 by 2 with 4 lines of paper, window of 2 by 2 visible characters with two scrolls, ring of 3, int of 8 bits, lines of 5 characters | screen, pointer, window, input and formats show and read what was given |
| `kill` (violation) | as `kernel` | a kill of a process that sleeps, blocks or runs is forgotten |
| `sio_reader` (violation) | as `sio`, input only | a blocked reader never gets its character |
| `files_read` (violation) | as `storage`: files | a read stops at the end of a full sector, before the end of the file |
| `shell_reserved` (violation) | as `shell`, two shells, no stops | an open file is opened again |
| `keyboard_promises` (violation) | as `terminal`: keyboard | an arrow key is read as a digit; a read that has all its characters waits for one key more; a read without a free request waits, and does not return |
| `console_promises` (violation) | as `terminal`: console, the screen and the ring together | a key without a character puts one into the ring; c_clearscroll does not move the cursor |

In `services`, `storage` and `terminal` modules that do not look at each other's state
share a run; a variable (`part`, `unit`) says which is explored while the others rest. The
state graphs lie side by side, and every property is checked in the one it is about.
Where an end is no deadlock the MC module says so by a step that changes nothing: a
behaviour of DerpFs ends with a fault, and the paper of the console is used up. What
the two promise runs refute is the weakest reading, that at each step *some* of the promises
is kept: so the one trace of each breaks all of them.

Why these bounds suffice for what they check. Three PCBs give a running, a waiting and
a third process that overtakes or is overtaken; two levels give a higher and a lower.
A quantum of one has slices that end at once and slices that do not. Everything that
the code does with more of these it does by comparing two at a time. Buffers of three
are filled, emptied, refilled and overrun within the bounds on characters. Three
processes in an exact memory make every fork use a page that another has released, and
the bounds of the mask are met to the page. With two or three screens already taken,
two processes get a screen each, race for the last one, or find none; three characters
fill a buffer of two and overrun it, and the keys (a function key, win and down) can take
the focus away from either process and back. A block of five sectors
has two for files, so that files go on, compete for the last sector and get recycled
ones; two FILEs meet in one file and in different ones. An 8-bit int has all the
boundaries of a 32-bit one, and every value of it is tried. A window of two lines
scrolls twice, so that what the first scroll left in the buffer comes up in the
second. Bounds that are not in the code: `MAX_PID` (no fork beyond it), `MAX_IN`,
`MAX_OUT`, `MAX_TYPED`, `MaxLength`, `Word` and `UWord` (8 and 64 here, 2^32 in the code),
`MaxCrashes`, `MaxPaper`, `MaxRows`, `LastColumn`, `MaxLine`, and the argument sets of calls. Pids that wrap and `set_time` back and forth
have no run: that every PCB stays in one place is proved for them too.

The fairness assumed: in Kernel, weak fairness of `isr_clock` alone - the timer keeps
interrupting until the machine has panicked, whatever processes do; no process is
assumed to make any call. In Sio, the UART sends what it holds, and its pending
interrupt is served, as interrupts are off only within handlers. In Ata, weak fairness
of the whole next step: the processor goes on and a drive comes to an end with each
command, by success or by error, as drives do. A step of the driver and one of a drive
exclude each other while it waits, so no more is needed.

Violations are disagreements between the code and what it says about itself; each is
listed in `PROJECT.json` under `findings` with the line and the quoted promise.

### What the models show besides

These happen in the models or decided how they are cut; none of them is checked for.

* Sleep: a wakeup time computed across the wrap of the 32-bit clock lies in the past
  (`syscalls.c:396`). Input: `_inlast` only moves up, so that the buffer of the serial
  line is overrun while its count shows room (`sio.c:173`).
* Echo in the keyboard interrupt can scroll, and scrolling makes system calls from
  within the handler and draws on the screen of whoever was interrupted
  (`keyboard.c:342`, `gl.c:140`).
* Two shells side by side take the same sector (`fs.c:567`): the invariants of `shell`
  hold for one shell. Two processes in `ata.c` mix their register writes: the
  refinement of Ata holds for one.
* A full disk gives a FILE with sector 0, whose flush goes over the boot record
  (`fs.c:358`). `cat`, and `write` with a bad offset, do not close their file; `ls`
  leaks one FILE per name.
* A partition size that is whole index blocks leaves no room for the boot record
  (`fs.c:106`), so that the last sector lies behind the end; the two partitions that
  a fresh disk gets overlap by one sector (`fs.c:28`); the mount table is not renewed
  by `part` and `format`. PartitionsApart names these as its conditions.
* Formats: `c_printf` pads with zeros in front of the sign, and `cvtoct` extends the
  sign of the top digit. The mouse inverts `_y_move` before
  it assigns it (`mouse.c:178`), and applies a movement with each byte of a packet.
  Column `x_max` of a window is never visible (`win_man.c:78`), and a tab has no border.
  `set_pixel` lets through the first pixel column of a glyph there, which is the start of
  the next pixel row (`gl.c:264`); no glyph of `font.h` has a pixel in it.

## The proofs

Eight modules hold theorems, which are true for all values of the constants that meet
the named assumptions of the modules they are about (`KernelAssumption` and so on). Three
theorems have a hypothesis more, which says what the code relies on: `OneShell`,
`OneProcess` and `DrivesFit` (below).

A rule that loops need comes first in KernelProofs: the state after n rounds is well
defined (`IterateAdvances`), and a set that every round stays in contains it
(`IterateStays`). It is derived from the well-foundedness of < on the naturals
(`LeastNumber`, `NatSetInduction`), since the induction theorems of the library take an
operator.

**KernelProofs**: `TypeCorrect`, `EveryPcbInOnePlace`, `StateFieldFits` and
`ReturnsToOwnAddressSpace` say that TypeOK, OnePlace, StateMatchesPlace and
OwnAddressSpace hold in every reachable state, for any number of processes, levels,
pids and clock ticks. The inductive invariant is

    IInv == TypeOK /\ (~panicked => InHand(Here)
                                    /\ (state[current] = FREE => pid[current] = PID_INIT))

where `InHand(k)` says that in the scheduling state k every PCB but the current one is
on exactly one queue (`Tidy`, which also serves for the states in the middle of a
handler, with the PCBs that the handler holds), its state field fits, and the directory
in force is that of the current process. OnePlace alone says nothing of the states
between the calls that make up a handler, and the steps that move a PCB need to know
that nobody else has it. The last conjunct is about the initial process, whose state
_init leaves FREE. There is one lemma for each way to move a PCB (`TakenOut`, `PutIn`,
`TakeTidy`, `PutTidy` ...), one for each of `Sched`, `Cleanup` and `Dispatch`, and one for
each handler; the loops use `IterateStays` with the tidy states as the set that a round
stays in.

The second part of the module is the order of service, which is all else that the run
`kernel` checks but liveness: `SleepQueueInOrder`, `NoReaderWaitsOnInput`, `OnlyWithoutInitPanic`,
`KilledWhileReadyNeverRuns`, `NobodyFreedAlive`, `NoSleeperLeftBehind` and
`NobodyOvertakes`, for any number of processes and levels. The invariant is

    OrderInv == IInv /\ SleepSorted /\ NobodyWaitsOnInput /\ InitNeverWaits /\ PanicNeedsInitKilled

`SleepSorted` is why the wakeup loop may stop at the first sleeper that is not due;
`InitNeverWaits`, that the initial process is never on a queue but a ready one, is why
_dispatch finds somebody as long as that process lives. Each handler is followed as a
composition of steps that keep the order of what stays on a queue (`Rest`, `BeforeIn`).
_dispatch's search is the hard one: it takes killed PCBs off the ready queues, and
`ReapingEnds` shows by counting the ones that are left (`Doomed`) that N_PCBS rounds reach
one that is alive, or none.

**QueueListsProofs**: `NodesAlwaysAccountedFor`, `ListsImplementQueues` and
`QueuesStayInOrder`, for any number of nodes, queues, data and keys. The inductive invariant
is

    IInv == TypeOK /\ head, tail \in [Queues -> Nat] /\ FreeQueues
            /\ Spread(Lists) /\ Linked(Lists, prev, next, qnode_list, head, tail, compare)

`Spread(L)` says that every node is in one list of the family L, once, and `Linked` that the
links are those of L, backwards too, and that the ends of a queue are those of its list.
The model reads the lists off the links by walking along them; `ChainIs` turns this round:
if the links are those of a sequence without repetitions, that sequence is what the walk
gives, and it ends, because there are no more places than nodes (`NoLongerThanNodes`). So a
call is followed on the sequences: `SpreadMoves` has a node change from one list to
another, `LinkIn` and `LinkOut` are the links before and after an insertion and a removal,
at either end or in the middle, `ItemsIn` and `ItemsOut` the entries. `RoomIs` is what makes the
status agree: all entries are in use exactly if the free list is empty, since places and
nodes are in bijection. `Steps` gives, for each call, the call of QueueSpec that it
implements.

**AddressSpacesProofs**: all properties of the part memory of `services`, the refinement
included, for any number of processes, stack pages and pages: `TypeCorrect`,
`NoPageIsLost`, `AddressSpacesApart`, `PagesSuffice` and `StacksAsPromised`
(Spec => Promise!Spec). The inductive invariant adds to the checked ones that each live
process has its directory and table in the reserve and its stack below the mask
(`Placed`), and that the pages to copy through differ (`CopiesApart`). The argument for
`PagesSuffice` counts: fewer than N_PCBS processes own at most as many pages as
`EnoughPages` grants the others, so a search finds a page (`EnoughFree`), and because
it takes the lowest one, stacks stay below the mask (`SearchesStayBelow`). For the
refinement, `DuplicatedValues` follows the two copies of fork through the two
directories, and `PromisedStep` maps each action to one of ProcessMemory.

**SioProofs**: `InputKeepsItsOrder` and `OutputKeepsItsOrder`, for buffers of every size
and any number of characters. The invariant adds to the types that, while neither buffer
has been overrun (`Intact`), what has been taken and what is between the pointers make up
what was stored, and what is on the wire, in the transmitter and between the pointers
makes up what was written. The distance of the pointers is the count, except that the output
buffer is also left empty with its first pointer at the start and its second at the
end (`Spans`): the handler wraps the one before the other.

**DerpFsProofs**: all properties of the part files of `storage`, the refinement included, for any
geometry of the partition, any names, bytes and number of FILEs:
`SectorsAlwaysAccountedFor`, `BuffersStayInPlace` and `ImplementsFileStore`. The inductive
invariant is

    IInv == Survived => Sound(disk, file_pointers, Lists(disk))

where `Lists` is the sequence of the sectors of each slot's file and `Sound(d, T, L)` says of
a disk, a table of FILEs and such sequences that the tables of the disk list the same files,
with each sector in one place of one (`Listed`), that a sector is linked to the next of its
sequence and full if there is one (`Fits`), and that each open FILE has the sector of
its `bufindex` in its buffer, with its offset there (`InPlace`). What the run checks is not
inductive: a sector that was just linked to a file is empty on the disk until it is flushed,
so a sector other than the first is said to hold something unless it is in a buffer (`Begun`,
`Buffers`), and nothing but the sequences tells what a disk in the middle of a loop has. The
invariant says nothing after a fault, as the properties do: the behaviour ends there,
unless the fault is a short read, which keeps Sound like any other read.
`ListsAre` turns the walk along the links round, as `ChainIs` does in QueueListsProofs. The
loops of `fread`, `fwrite`, `fseek`, `_fs_get_file_size` and `_fs_delete_file` are recursive
functions, each with a lemma that it is one, one for a round and one for all of them; the
rounds of `fwrite` keep Sound with the FILE half written, and `GoOn`, which takes a sector and
links it, is the hard one. For the refinement, the content of a file is read off the same
sequences, and `StepIs` has for each call the call of FileStore that it is. A read that ends
early without being a short read ends at the end of the last sector, and so of the file
(`ReadStep`); a relative seek is refused by the code and by the store alike unless its sum
wraps into the file (`Wraps`), which is a fault.

**FileShellProofs**: `PointersStayMarked`, `NamesAlwaysLead` and `LeaksAreStops`, for a
partition of any geometry, any number of commands and of stops of the machine, under
`OneShell`: two shells side by side share their tables without a lock, and the invariants
then fail (the violation `shell_reserved` is one consequence). `Sound` is what holds of
the disk alone, and so of what a stop leaves. `Knows` says, for each place
that the shell can be at, what of its copies is still what the disk has; with it each write
of a copied index block or name table is a change of one entry. For the leaks, the sectors
that are marked and that no name leads to are counted, without the one that the shell has
in hand (`Hand`): each command returns what it takes, and only a stop lets go of one.

**DiskProofs**: `TransfersAreWhole`, that Ata implements AtomicDisk, for drives and sector
numbers of every size, drives that fail included, under `OneProcess`, since ata.c has no
lock. `InPlace` ties the registers to what remains to be written to them; the four
bytes that are written make up the sector number again (`Bytes`). `PartitionsStayApart` is
PartitionsApart for any drives, tables and calls of `part` and `format`, under
`DrivesFit`: a size is rounded up to whole index blocks, which must not wrap for the
largest drive. `MbrInv` says what sizes partitions can have.

**ConsoleProofs** has a theorem for each part of the console:

* `RingIsAQueue`: LineInput implements InputLine, for rings of every size, with the
  interrupt between any two accesses of the reader. `RingInv` has what the reader relies on
  between its look at the pointers and its step: a character is there, and stays.
* `PointerNeverParts`: PointerAgrees, for all packets and screens.
* `ScreenShowsText`: ShowsWhatIsWritten, for every size of the screen, all calls, strings
  and regions, and the interrupts of the mouse that write messages and draw among the text.
  The invariant `TextInv` is `Fits(Screen, paper)` - the region is the last lines of the
  paper (`Pictured`), and the next character goes to the same place on both (`Placed`),
  which is below the region only at the start of a line - and `CursorThere`. `Fits` is a
  relation between a screen and a paper, so that it can be followed through the middle of
  a call: `RoomFits` for the scrolling that is put off, `CharFits` for a character,
  `StringFits` for a string by induction; `Retouched` is the part of it that output at a
  place, clearing and the pointer keep.
* `PrintingKeepsText`: PrintedStays, for windows of every size. `Shows` relates the
  buffer, the picture and the history of rows, through redrawing.

* `OneScreenAtMost`, `RequestsInStep` and `ReadsReturnWhatWasTyped`: all properties of the
  part keyboard of `terminal`, for any keys, sizes of reads, screens and processes. The inductive
  invariant is `ScreensInv /\ HolderWaits /\ StoredIsTyped`. `ScreensInv` adds to OneScreenEach
  that a process that has not come out of get_screen_buffer has no screen yet: the store goes
  to a screen that another process may have taken since the test, and it is the store that
  would give a process a second one. `StoredIsTyped` relates the buffer to what was typed: the
  request on file has all of it; without it nothing is known of the characters that a read has
  when it ends. `CharacterTyped` has the cases of `write_to_active`; `AnswerIsStored` is the
  boundary: the character that ends a read, by being a newline or one too many, is not in
  the answer.

Only model-checked: liveness (`TopPriorityRuns`, `SleepersWake`, `EverythingIsSent`,
`CallsReturn`), `OneLetterEach`, and `ReadsBack`, the formats. Liveness under fairness and
recursion over data are beyond the prover.

## Not modelled

* `vmem_ref.c` (reference counts) has no caller besides its initialisation, and
  `vmem_isr.c` prints and panics.
* Of `ufs.c`, `fnamefile`; of the shell, `ls`, `drives`, `mounts` and `exit`; of `users.c`,
  the test programs: any process may make any call instead. Crashes in the middle of
  a sector, and bad sectors.
* Of the window manager, blocking flags, the cursor and dirty bits. Of `gl.c`, pixels,
  lines and the copying of windows to video memory; the font, the mode switch.
* `exec`, the calls that only read a field, `_create_process`, the static mappings and
  4 MB pages of `vmemL2.c`, and debugging output. Global variables of user programs,
  which all processes share: a process here keeps its variables on its stack, except
  for that of `strtok`.
* Boot code, interrupt stubs and the image builder are assembly or host programs. The
  nesting of system calls in a handler (above) is undefined, and no model follows it.

## The plan

1. Done: Kernel with proofs; the queue module and its specification; the serial
   driver; address spaces with proofs; the window manager and the keyboard with proofs;
   the file system down to the registers of the disk; text in and out.
2. Done: proofs of the order of service, the queue module, the serial driver, the file
   system, the shell and its crashes, the transfers and partitions of the disk, and the console.
3. `ls` with `fnamefile`, and two shells under a lock that the code could take, to see
   which of the invariants it would restore.
