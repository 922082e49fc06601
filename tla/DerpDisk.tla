------------------------------- MODULE DerpDisk --------------------------------
(***************************************************************************)
(* The layout of a DERP_FS partition and the routines of fs.c that read    *)
(* and write it (fs.h, fs.c).  Sector 0 is the boot record; from sector 1  *)
(* on, every PerBlock sectors begin with an index block (a bitmap of these *)
(* sectors and a table of file pointers) and two sectors of file names.    *)
(*                                                                         *)
(* A file is a slot: the index block it is listed in and the index into    *)
(* its table, numbered through the partition.  Only what sectors of files  *)
(* and the boot record look like to code that takes them for sectors of    *)
(* files is kept; index blocks and name tables are kept by their content.  *)
(* Sectors are numbered within the partition: mp->offset is left out.      *)
(***************************************************************************)
EXTENDS Integers, Sequences, FiniteSets, FiniteSetsExt, SequencesExt

CONSTANTS
  PerBlock,    \* FS_SECT_PER_IB: sectors, and file pointers, of an index block
  NameEntries, \* FS_NAME_S1ENTRIES: names in the first of its name sectors
  Blocks,      \* the index blocks of the partition
  DataLength,  \* FS_FILE_DATA_LENGTH: bytes of data in a sector
  Names,       \* file names, as numbers other than 0
  Bytes        \* the bytes of files; 0 is what a blank sector holds

ASSUME DiskAssumption ==
  /\ PerBlock \in Nat /\ PerBlock > 3
  /\ NameEntries \in 1 .. PerBlock
  /\ Blocks \in Nat \ {0}
  /\ DataLength \in Nat \ {0}
  /\ Names \subseteq Nat \ {0}
  /\ Bytes \subseteq Nat

EOC   == 0   \* FS_FILE_EOC, FS_FP_FREE
BLANK == 0   \* a name that was erased or never written
NONE  == -1  \* no slot

Size   == Blocks * PerBlock + 1   \* bootRecord.size, as _fs_create_partition rounds it
Sector == 0 .. Size-1
Slot   == 0 .. Blocks*PerBlock - 1
Behind == Blocks*PerBlock .. (Blocks+1)*PerBlock - 1  \* where one more index block would have its slots

BlockOf(s)  == (s-1) \div PerBlock                          \* of a sector other than 0
IndexBlocks == {b*PerBlock + 1 : b \in 0 .. Blocks-1}
Metadata    == UNION {i .. i+2 : i \in IndexBlocks}         \* the sectors of no file

\* a file sector: the next sector of the file, the bytes in use, the bytes
FileSector == [next: Sector, count: 0 .. Size + DataLength,
               data: [0 .. DataLength-1 -> Bytes \cup {0}]]
BlankSector == [next |-> EOC, count |-> 0, data |-> [i \in 0 .. DataLength-1 |-> 0]]

\* the boot record, read as a file sector: its size field is where the count is
BootRecord == [BlankSector EXCEPT !.count = Size]

Disk == [used: SUBSET (1 .. Size-1),          \* the bitmaps
         fp: [Slot -> Sector],                \* the tables of file pointers
         name: [Slot -> Names \cup {BLANK}],  \* the name tables
         sector: [Sector -> FileSector]]

\* what _fs_format leaves of a partition whose sectors were blank
Formatted == [used   |-> Metadata,
              fp     |-> [i \in Slot |-> EOC],
              name   |-> [i \in Slot |-> BLANK],
              sector |-> [s \in Sector |-> IF s = 0 THEN BootRecord ELSE BlankSector]]

-----------------------------------------------------------------------------
\* _fs_find_empty_sector: the first clear bit of the bitmaps, 0 if there is none
find_empty_sector(d) ==
  LET free == 1 .. Size-1 \ d.used IN IF free = {} THEN 0 ELSE Min(free)

\* _fs_find_empty_fspointer: the first free file pointer
find_empty_fspointer(d) ==
  LET free == {i \in Slot : d.fp[i] = EOC} IN IF free = {} THEN NONE ELSE Min(free)

\* _fs_toggle_sector.  Sector 0 becomes 2^32-1 there, whose bitmap is not of
\* this partition.
toggle(d, s) ==
  IF s = 0 THEN d
  ELSE [d EXCEPT !.used = IF s \in @ THEN @ \ {s} ELSE @ \cup {s}]

\* The name that _fs_find_file sees for a slot.  Its test j > FS_NAME_S1ENTRIES
\* takes the first slot of the second name sector for one more of the first
\* sector, where nothing is ever written, and the others for their predecessors.
name_seen(d, i) ==
  LET j == i % PerBlock
  IN CASE j < NameEntries -> d.name[i]
       [] j = NameEntries -> BLANK
       [] j > NameEntries -> d.name[i-1]

\* What the search of _fs_find_file may come to, by _fs_namecmp.  Its test
\* i <= bootRecord.size goes on by an index block, into the sectors behind the
\* partition: the name sectors of the next one, say, which has whatever names its
\* users gave.
find_file(d, n) ==
  LET hits == {i \in Slot : name_seen(d, i) = n}
  IN IF hits = {} THEN Behind \cup {NONE} ELSE {Min(hits)}

\* the sectors of a chain that begins with s; a cycle is followed for as many
\* sectors as the partition has
Chain(d, s) ==
  LET from[left \in 0 .. Size] ==
        [x \in Sector |-> IF x = EOC \/ left = 0 THEN <<>>
                          ELSE <<x>> \o from[left-1][d.sector[x].next]]
  IN from[Size][s]

SectorsOf(d, i) == Range(Chain(d, d.fp[i]))

=============================================================================
