----------------------------- MODULE AddressSpaces -----------------------------
(***************************************************************************)
(* Virtual memory as the kernel uses it (vmem.c, vmemL2.c, and the parts   *)
(* of _init, _sys_fork, _cleanup and _dispatch that call them): a bitmap   *)
(* of free physical pages, and for each process a page directory with one  *)
(* page table that maps its stack, at the same virtual address in all.     *)
(*                                                                         *)
(* The directory entries that all processes share are copied into each     *)
(* directory and blanked before it is released; they never change, and are *)
(* left out.  Interrupts are off in the kernel, so a call is one step; a   *)
(* panic stops the machine.                                                *)
(***************************************************************************)
EXTENDS Integers, FiniteSets

CONSTANTS
  N_PCBS,         \* entries of the PCB table
  STACK_PAGES,    \* pages of a stack, and pages reserved to copy one
  KERNEL_PAGES,   \* pages 0 .. KERNEL_PAGES-1 are the first 8 MB
  RESERVE_PAGES,  \* pages below this one are mapped in every directory
  MAX_PAGES,      \* number of pages the search of the bitmap covers
  MASK_PAGES,     \* PAGE_TABLE_ADDRESS keeps the page number modulo this
  STATIC,         \* pages set aside for the video memory and the screens
  Values          \* what a page of a stack may hold

Pcbs  == 1 .. N_PCBS
Slots == 1 .. STACK_PAGES
Pages == 0 .. MAX_PAGES-1

Reserve == KERNEL_PAGES .. RESERVE_PAGES-1
Normal  == (RESERVE_PAGES .. MAX_PAGES-1) \ STATIC

ASSUME AddressSpacesAssumption ==
  /\ N_PCBS \in Nat \ {0}
  /\ STACK_PAGES \in Nat \ {0}
  /\ KERNEL_PAGES \in Nat \ {0}
  /\ RESERVE_PAGES \in Nat /\ MAX_PAGES \in Nat /\ MASK_PAGES \in Nat
  /\ KERNEL_PAGES <= RESERVE_PAGES /\ RESERVE_PAGES <= MAX_PAGES
  /\ RESERVE_PAGES <= MASK_PAGES
  /\ STATIC \subseteq RESERVE_PAGES .. MAX_PAGES-1
  /\ {0, 1} \subseteq Values

\* There are pages for all processes, those for stacks below the mask (in DERP OS
\* 10240 reserved pages for 52, and more than 50000 normal ones for 96).
ASSUME EnoughPages ==
  /\ Cardinality(Reserve) >= STACK_PAGES + 2 * N_PCBS
  /\ Cardinality({g \in Normal : g < MASK_PAGES}) >= STACK_PAGES * N_PCBS

ABSENT     == 0   \* a page table entry that is not present; page 0 is the kernel's
KERNEL_DIR == 0   \* _vmem_page_dir, in the first 4 MB
NOBODY     == 0   \* no process: the dispatcher is at work

CHILD  == 0       \* what fork stores for the child
PARENT == 1       \* and for the parent: the pid of the child, which is not 0

VARIABLES
  free,                \* the pages whose bit in the bitmap is 1
  dir,                 \* the entry for the stack, of the directory in each page
  table,               \* the entries of the page table in each page
  content,             \* what a page holds when it is used for a stack
  pdt,                 \* the pdt field of each PCB
  stack_copy_reserve,  \* the pages fork copies a stack through
  live,                \* the PCBs in use
  current,             \* _current, NOBODY in the dispatcher
  cr3,                 \* the page directory in force
  panicked

memory == <<free, dir, table, content, pdt, live, cr3, current>>
vars   == <<memory, stack_copy_reserve, panicked>>

\* what a search of the bitmap finds in S: its lowest page, if there is one
Search(S) == {g \in S : \A h \in S : g <= h}

\* what a search for each of Slots finds, when each marks its page as taken: the
\* lowest pages of S in turn, if there are enough
Searches(S) ==
  {f \in [Slots -> S] :
     /\ \A s, t \in Slots : s < t => f[s] < f[t]
     /\ \A s \in Slots : \A g \in S : g < f[s] => \E t \in Slots : t < s /\ f[t] = g}

\* _vmeml2_get_phyical_address, and what the processor does with an address in
\* page s of the stack while d is in force
Translate(d, s) == table[dir[d]][s]

\* to[s] receives what from[s] holds, for every page s of a stack
Copied(c, to, from) ==
  [g \in Pages |-> IF \E s \in Slots : to[s] = g
                   THEN c[from[CHOOSE s \in Slots : to[s] = g]] ELSE c[g]]

Panic == panicked' = TRUE /\ UNCHANGED <<memory, stack_copy_reserve>>
-----------------------------------------------------------------------------
\* an address space with its directory in d and its page table in t
Taken(d, t, stack) == {d, t} \cup {stack[s] : s \in Slots}

\* _init: what is free once the pages to copy through are set aside
Left(copy) == (Reserve \cup Normal) \ {copy[s] : s \in Slots}

\* the initial process runs, alone
Started(copy, d, t, stack) ==
  /\ free = Left(copy) \ Taken(d, t, stack)
  /\ dir = [g \in Pages |-> IF g = d THEN t ELSE ABSENT]
  /\ table = [g \in Pages |-> IF g = t THEN stack ELSE [s \in Slots |-> ABSENT]]
  /\ content = [g \in Pages |-> 0]
  /\ pdt = [p \in Pcbs |-> IF p = 1 THEN d ELSE KERNEL_DIR]
  /\ stack_copy_reserve = copy
  /\ live = {1}
  /\ current = 1
  /\ cr3 = d
  /\ panicked = FALSE

Init ==
  \E copy \in Searches(Reserve) :
  \E d \in Search(Left(copy) \cap Reserve) :
  \E t \in Search((Left(copy) \cap Reserve) \ {d}), stack \in Searches(Left(copy) \cap Normal) :
    Started(copy, d, t, stack)

\* the running process stores to its stack
Store(s, v) ==
  /\ ~panicked
  /\ current # NOBODY
  /\ content' = [content EXCEPT ![Translate(cr3, s)] = v]
  /\ UNCHANGED <<free, dir, table, pdt, live, cr3, current, stack_copy_reserve,
                 panicked>>

\* Mutant of NewSpace: the page of the directory is not marked as taken.
NewSpace_unmarked(new, d, t, stack) ==
  /\ free' = free \ (Taken(d, t, stack) \ {d})
  /\ dir' = [dir EXCEPT ![d] = t]
  /\ table' = [table EXCEPT ![t] = stack]
  /\ pdt' = [pdt EXCEPT ![new] = d]

\* _vmeml2_create_page_dir, _vmeml2_create_page_table, _vmeml2_create_page
NewSpace(new, d, t, stack) ==
  /\ free' = free \ Taken(d, t, stack)
  /\ dir' = [dir EXCEPT ![d] = t]
  /\ table' = [table EXCEPT ![t] = stack]
  /\ pdt' = [pdt EXCEPT ![new] = d]

\* Mutant of Duplicated: without the switch to the directory of the child.
Duplicated_in_parent(stack, arg) ==
  LET parent == [s \in Slots |-> Translate(cr3, s)]
      saved  == Copied(content, stack_copy_reserve, parent)
      result == [saved EXCEPT ![parent[arg]] = PARENT]
      copied == Copied(result, parent, stack_copy_reserve)
  IN  [copied EXCEPT ![parent[arg]] = CHILD]

\* The stack goes to the reserved pages while the parent's directory is in force,
\* and from there to the child's stack while the child's is; arg is the page that
\* holds the variable for the result.
Duplicated(stack, arg) ==
  LET parent == [s \in Slots |-> Translate(cr3, s)]
      saved  == Copied(content, stack_copy_reserve, parent)
      result == [saved EXCEPT ![parent[arg]] = PARENT]
      copied == Copied(result, stack, stack_copy_reserve)
  IN  [copied EXCEPT ![stack[arg]] = CHILD]

\* "OUT OF PHYISCAL MEMORY" unless every search finds a page
OutOfPages ==
  \/ Cardinality(free \cap Reserve) < 2
  \/ Cardinality(free \cap Normal) < STACK_PAGES

sys_fork(new, arg) ==
  /\ ~panicked
  /\ current # NOBODY
  /\ new \notin live
  /\ \/ OutOfPages /\ Panic
     \/ \E d \in Search(free \cap Reserve) :
        \E t \in Search((free \cap Reserve) \ {d}), stack \in Searches(free \cap Normal) :
          /\ NewSpace(new, d, t, stack)
          /\ content' = Duplicated(stack, arg)
          /\ live' = live \cup {new}
          /\ UNCHANGED <<cr3, current, stack_copy_reserve, panicked>>

\* Mutant of Masked: the mask is one bit too short.
Masked_too_short(g) == g % (MASK_PAGES \div 2)

\* the address in an entry, as it is masked
Masked(g) == g % MASK_PAGES

\* Mutant of Released: the page table is not freed.
Released_keeps_table(d) == {Masked(Translate(d, s)) : s \in Slots} \cup {d}

\* _vmeml2_release_page_dir: the pages of the stack, the page table, the directory
Released(d) == {Masked(Translate(d, s)) : s \in Slots} \cup {Masked(dir[d]), d}

\* two of them are one page, or one is free already: "address already cleared"
FreedTwice(d) ==
  \/ Released(d) \cap free # {}
  \/ \E s, t \in Slots : s # t /\ Masked(Translate(d, s)) = Masked(Translate(d, t))
  \/ \E s \in Slots : Masked(Translate(d, s)) \in {Masked(dir[d]), d}
  \/ Masked(dir[d]) = d

\* a process ends, or the dispatcher finds that it has been killed
Cleanup(p) ==
  /\ ~panicked
  /\ p \in live
  /\ IF FreedTwice(pdt[p]) THEN Panic
     ELSE /\ free' = free \cup Released(pdt[p])
          /\ live' = live \ {p}
          /\ cr3' = KERNEL_DIR
          /\ current' = NOBODY
          /\ UNCHANGED <<dir, table, content, pdt, stack_copy_reserve, panicked>>

Dispatch(p) ==
  /\ ~panicked
  /\ p \in live
  /\ current' = p
  /\ cr3' = pdt[p]
  /\ UNCHANGED <<free, dir, table, content, pdt, live, stack_copy_reserve, panicked>>

\* no process is left, or _kpanic has stopped the machine
Halted == (panicked \/ live = {}) /\ UNCHANGED vars

Next ==
  \/ \E s \in Slots, v \in Values : Store(s, v)
  \/ \E new \in Pcbs, arg \in Slots : sys_fork(new, arg)
  \/ \E p \in Pcbs : Cleanup(p) \/ Dispatch(p)
  \/ Halted

Spec == Init /\ [][Next]_vars
-----------------------------------------------------------------------------
\* The type invariant.
TypeOK ==
  /\ free \subseteq Reserve \cup Normal
  /\ dir \in [Pages -> Pages]
  /\ table \in [Pages -> [Slots -> Pages]]
  /\ content \in [Pages -> Values]
  /\ pdt \in [Pcbs -> Pages]
  /\ stack_copy_reserve \in [Slots -> Reserve]
  /\ live \subseteq Pcbs
  /\ current \in live \cup {NOBODY}
  /\ cr3 = IF current = NOBODY THEN KERNEL_DIR ELSE pdt[current]
  /\ panicked \in BOOLEAN

Owned(p) ==
  {pdt[p], dir[pdt[p]]} \cup {Translate(pdt[p], s) : s \in Slots}

Copies == {stack_copy_reserve[s] : s \in Slots}

\* No page is lost and none is free while it is used: the bitmap has exactly those
\* pages that are in no address space and not set aside, after any sequence of
\* forks, exits and kills.
PagesAccountedFor ==
  ~panicked =>
    free = (Reserve \cup Normal) \ (Copies \cup UNION {Owned(p) : p \in live})

\* No page has two uses: not in two address spaces, not twice in one, and the
\* pages that every fork copies through are in none.
NoPageShared ==
  ~panicked =>
    /\ \A p \in live : Owned(p) \cap Copies = {}
    /\ \A p, q \in live : p # q => Owned(p) \cap Owned(q) = {}
    /\ \A p \in live :
         /\ dir[pdt[p]] # pdt[p]
         /\ \A s \in Slots : Translate(pdt[p], s) \notin {pdt[p], dir[pdt[p]]}
         /\ \A s, t \in Slots :
              Translate(pdt[p], s) = Translate(pdt[p], t) => s = t

\* With a page for each need, and although a release keeps only the low bits of an
\* address, fork never runs out of pages and no release finds a page free already.
NeverPanics == ~panicked

\* What the processes see is ProcessMemory: stores, forks, exits and kills of one
\* change the stack of no other, through whatever page directory is in force.
Promise == INSTANCE ProcessMemory WITH
  running <- current,
  mem     <- [p \in Pcbs |-> IF p \in live
                             THEN [s \in Slots |-> content[Translate(pdt[p], s)]]
                             ELSE [s \in Slots |-> 0]]

Implements == Promise!Spec
================================================================================
