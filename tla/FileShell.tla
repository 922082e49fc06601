------------------------------ MODULE FileShell -------------------------------
(***************************************************************************)
(* The file commands of fileshell (users.c) down to the single accesses to *)
(* the disk: touch, rm, cat and write, by any number of shells on one      *)
(* partition.  The clock can take the processor away between two accesses, *)
(* and the machine can stop there: the disk is all that is left then.      *)
(*                                                                         *)
(* An index block holds bitmap and file pointers in one sector, and who    *)
(* changes it reads it, changes the copy and writes the copy back.  The    *)
(* search for a name, which only reads, is one step, and so is an access   *)
(* to the table of FILEs.  The commands write one byte per fwrite, whose   *)
(* place is in the buffered sector, so that no file gets a second sector.  *)
(***************************************************************************)
EXTENDS DerpDisk

CONSTANTS
  Shells,      \* the processes that run fileshell
  MaxFiles,    \* FS_MAX_FILEPOINTERS
  MaxLength,   \* bound: offsets that are given and typed up to
  MaxCrashes   \* bound: how often the machine stops

ASSUME ShellAssumption ==
  MaxFiles \in Nat \ {0} /\ MaxLength \in Nat /\ MaxCrashes \in Nat

Handle == 0 .. MaxFiles-1

VARIABLES
  disk,           \* the sectors of the partition
  file_pointers,  \* the open FILEs; by is the shell that opened one
  shell,          \* where each shell is, and what it has in hand
  last,           \* what strtok has not handed out, in the static that all share
  crashes

vars == <<disk, file_pointers, shell, last, crashes>>

Prompt == [at |-> "prompt", cmd |-> "", offset |-> 0, name |-> BLANK, slot |-> NONE,
           sector |-> 0, next |-> 0, copy |-> <<>>, file |-> NONE]

Init ==
  /\ disk = Formatted
  /\ file_pointers = [h \in {} |-> <<>>]
  /\ shell = [p \in Shells |-> Prompt]
  /\ last = <<>>
  /\ crashes = 0

-----------------------------------------------------------------------------
(* Sectors that are read, changed and written back *)

BlockSectors(b) == b*PerBlock + 1 .. (b+1)*PerBlock
BlockSlots(b)   == b*PerBlock .. (b+1)*PerBlock - 1

ReadIB(b) == [used |-> disk.used \cap BlockSectors(b),
              fp   |-> [i \in BlockSlots(b) |-> disk.fp[i]]]
WriteIB(b, c) == disk' = [disk EXCEPT !.used = (@ \ BlockSectors(b)) \cup c.used,
                                      !.fp = [i \in Slot |-> IF i \in BlockSlots(b)
                                                             THEN c.fp[i] ELSE @[i]]]

\* the slots whose names are in the same sector as that of slot i
NameSector(i)    == {j \in BlockSlots(i \div PerBlock) :
                       (j % PerBlock < NameEntries) = (i % PerBlock < NameEntries)}
ReadNames(i)     == [j \in NameSector(i) |-> disk.name[j]]
WriteNames(c)    == disk' = [disk EXCEPT !.name = [i \in Slot |-> IF i \in DOMAIN c
                                                                  THEN c[i] ELSE @[i]]]

toggled(used, s) == IF s \in used THEN used \ {s} ELSE used \cup {s}

\* the step of shell p at label a, and what it goes on with
At(p, a)     == shell[p].at = a
Go(p, r, to) == shell' = [shell EXCEPT ![p] = [r EXCEPT !.at = to]]
Done(p)      == shell' = [shell EXCEPT ![p] = Prompt]

-----------------------------------------------------------------------------
(* The command line *)

\* A command, with its words: a file name, and for write an offset before it.
Command(p) ==
  /\ At(p, "prompt")
  /\ \E cmd \in {"touch", "rm", "cat", "write"}, n \in Names, k \in 0 .. MaxLength :
       /\ cmd = "write" \/ k = 0
       /\ last' = IF k = 0 THEN << <<"name", n>> >> ELSE << <<"offset", k>>, <<"name", n>> >>
       /\ Go(p, [Prompt EXCEPT !.cmd = cmd], "word")
  /\ UNCHANGED <<disk, file_pointers, crashes>>

\* strtok(NULL, " "): the next word, of whichever line strtok was given last
strtok(p) ==
  LET r    == shell[p]
      word == Head(last)
  IN /\ At(p, "word")
     /\ last' = IF last = <<>> THEN last ELSE Tail(last)
     /\ CASE last = <<>> -> Done(p)
          [] last # <<>> /\ word[1] = "name" -> Go(p, [r EXCEPT !.name = word[2]], "open")
          [] last # <<>> /\ word[1] = "offset" ->
               IF r.cmd = "write" /\ r.offset = 0
               THEN Go(p, [r EXCEPT !.offset = word[2]], "word")
               ELSE Done(p)
     /\ UNCHANGED <<disk, file_pointers, crashes>>

-----------------------------------------------------------------------------
(* fopen *)

\* _fs_allocate_filepointer, and on to the command
Opened(p, r, s, buffer) ==
  LET free == Handle \ DOMAIN file_pointers
      h    == Min(free)
  IN IF free = {}
     THEN Go(p, [r EXCEPT !.file = NONE], "opened") /\ UNCHANGED file_pointers
     ELSE /\ Go(p, [r EXCEPT !.file = h], "opened")
          /\ file_pointers' = [x \in DOMAIN file_pointers \cup {h} |->
               IF x # h THEN file_pointers[x] ELSE
               [by |-> p, slot |-> r.slot, bufsect |-> s, offset |-> 0, buffer |-> buffer]]

\* _fs_find_file, whose code is not set when the file is found (DerpFs.tla).  What is
\* found beyond the first index block is opened as another file (Faults in DerpFs);
\* what the command does to that one is not followed.
fopen(p) ==
  LET r == shell[p]
  IN /\ At(p, "open")
     /\ \E found \in find_file(disk, r.name) : \E i \in {found, NONE} :
          \/ /\ i \in Slot /\ i < PerBlock
             /\ Opened(p, [r EXCEPT !.slot = i], disk.fp[i], disk.sector[disk.fp[i]])
          \/ /\ i = NONE
             /\ IF DOMAIN file_pointers = Handle
                THEN Go(p, r, "opened") ELSE Go(p, r, "create")
             /\ UNCHANGED file_pointers
     /\ UNCHANGED <<disk, last, crashes>>

\* _fs_create_file, access by access: a pointer and a sector that are free;
FindSlot(p) ==
  /\ At(p, "create")
  /\ Go(p, [shell[p] EXCEPT !.slot = find_empty_fspointer(disk)], "sector")
  /\ UNCHANGED <<disk, file_pointers, last, crashes>>

\* without a sector the FILE is handed out all the same, with sector 0 and what the
\* buffer happens to hold, for which a blank sector stands.  There are fewer sectors
\* than slots; without a slot, the partition is not set either and the shell is lost.
FindSector(p) ==
  LET r == shell[p]
      s == find_empty_sector(disk)
  IN /\ At(p, "sector") /\ r.slot # NONE
     /\ IF s = 0
        THEN Opened(p, r, 0, BlankSector)
        ELSE Go(p, [r EXCEPT !.sector = s], "mark") /\ UNCHANGED file_pointers
     /\ UNCHANGED <<disk, last, crashes>>

\* the sector is marked,
MarkRead(p) ==
  /\ At(p, "mark")
  /\ Go(p, [shell[p] EXCEPT !.copy = ReadIB(BlockOf(shell[p].sector))], "mark write")
  /\ UNCHANGED <<disk, file_pointers, last, crashes>>

MarkWrite(p) ==
  LET r == shell[p] IN
  /\ At(p, "mark write")
  /\ WriteIB(BlockOf(r.sector), [r.copy EXCEPT !.used = toggled(@, r.sector)])
  /\ Go(p, [r EXCEPT !.copy = <<>>], "point")
  /\ UNCHANGED <<file_pointers, last, crashes>>

\* Mutant of PointRead: the index block is changed as it was before the sector was
\* marked, so that writing it back unmarks the sector.
PointRead_stale(p) ==
  LET r == shell[p]
      c == ReadIB(r.slot \div PerBlock)
  IN /\ At(p, "point")
     /\ Go(p, [r EXCEPT !.copy = [c EXCEPT !.used = @ \ {r.sector}]], "point write")
     /\ UNCHANGED <<disk, file_pointers, last, crashes>>

\* the pointer set,
PointRead(p) ==
  /\ At(p, "point")
  /\ Go(p, [shell[p] EXCEPT !.copy = ReadIB(shell[p].slot \div PerBlock)], "point write")
  /\ UNCHANGED <<disk, file_pointers, last, crashes>>

PointWrite(p) ==
  LET r == shell[p] IN
  /\ At(p, "point write")
  /\ WriteIB(r.slot \div PerBlock, [r.copy EXCEPT !.fp[r.slot] = r.sector])
  /\ Go(p, [r EXCEPT !.copy = <<>>], "name")
  /\ UNCHANGED <<file_pointers, last, crashes>>

\* the name written,
NameRead(p) ==
  /\ At(p, "name")
  /\ Go(p, [shell[p] EXCEPT !.copy = ReadNames(shell[p].slot)], "name write")
  /\ UNCHANGED <<disk, file_pointers, last, crashes>>

NameWrite(p) ==
  LET r == shell[p] IN
  /\ At(p, "name write")
  /\ WriteNames([r.copy EXCEPT ![r.slot] = r.name])
  /\ Go(p, [r EXCEPT !.copy = <<>>], "blank")
  /\ UNCHANGED <<file_pointers, last, crashes>>

\* and the sector made a blank one.
Blank(p) ==
  LET r == shell[p] IN
  /\ At(p, "blank")
  /\ disk' = [disk EXCEPT !.sector[r.sector] = BlankSector]
  /\ Opened(p, r, r.sector, BlankSector)
  /\ UNCHANGED <<last, crashes>>

-----------------------------------------------------------------------------
(* What the commands do with the file *)

\* fopen returned NULL, or rather: cat does not ask, but fread does.
Failed(p) ==
  /\ At(p, "opened") /\ shell[p].file = NONE
  /\ Done(p)
  /\ UNCHANGED <<disk, file_pointers, last, crashes>>

touch(p) ==
  /\ At(p, "opened") /\ shell[p].file # NONE /\ shell[p].cmd = "touch"
  /\ Go(p, shell[p], "close")
  /\ UNCHANGED <<disk, file_pointers, last, crashes>>

\* A full sector is flushed when fread looks for the next.  The FILE is never closed.
cat(p) ==
  LET f == file_pointers[shell[p].file] IN
  /\ At(p, "opened") /\ shell[p].file # NONE /\ shell[p].cmd = "cat"
  /\ disk' = IF f.buffer.count >= DataLength
             THEN [disk EXCEPT !.sector[f.bufsect] = f.buffer] ELSE disk
  /\ Done(p)
  /\ UNCHANGED <<file_pointers, last, crashes>>

\* fseek: an offset past the end is refused, and the FILE never closed.  One at the
\* end of a full sector makes the sector behind the end of the chain, 0, the buffer.
write(p) ==
  LET r == shell[p]
      f == file_pointers[r.file]
      first == disk.fp[f.slot]
      size  == CASE first = EOC       -> 0
                 [] first = f.bufsect -> f.buffer.count
                 [] OTHER             -> disk.sector[first].count
      behind == r.offset >= DataLength
  IN /\ At(p, "opened") /\ r.file # NONE /\ r.cmd = "write"
     /\ IF r.offset > size
        THEN Done(p) /\ UNCHANGED <<disk, file_pointers>>
        ELSE /\ disk' = IF behind THEN [disk EXCEPT !.sector[f.bufsect] = f.buffer] ELSE disk
             /\ file_pointers' = [file_pointers EXCEPT ![r.file] =
                  IF behind
                  THEN [@ EXCEPT !.bufsect = 0, !.buffer = disk.sector[0], !.offset = r.offset]
                  ELSE [@ EXCEPT !.offset = r.offset]]
             /\ Go(p, r, "typing")
     /\ UNCHANGED <<last, crashes>>

\* fwrite of one character: into the buffer, whose end it never finds
Type(p) ==
  LET h  == shell[p].file
      at == file_pointers[h].offset % DataLength
  IN /\ At(p, "typing")
     /\ file_pointers[h].offset < MaxLength
     /\ \E c \in Bytes :
          file_pointers' = [file_pointers EXCEPT
            ![h].buffer.data[at] = c,
            ![h].buffer.count = IF at >= @ THEN @ + 1 ELSE @,
            ![h].offset = @ + 1]
     /\ UNCHANGED <<disk, shell, last, crashes>>

EndOfInput(p) ==
  /\ At(p, "typing")
  /\ Go(p, shell[p], "close")
  /\ UNCHANGED <<disk, file_pointers, last, crashes>>

Release(h) == file_pointers' = [x \in DOMAIN file_pointers \ {h} |-> file_pointers[x]]

fclose(p) ==
  LET h == shell[p].file
      f == file_pointers[h]
  IN /\ At(p, "close")
     /\ disk' = [disk EXCEPT !.sector[f.bufsect] = f.buffer]
     /\ Release(h)
     /\ Done(p)
     /\ UNCHANGED <<last, crashes>>

-----------------------------------------------------------------------------
(* fdelete, access by access: the name goes, *)

rm(p) ==
  LET r == shell[p]
      i == file_pointers[r.file].slot
  IN /\ At(p, "opened") /\ r.file # NONE /\ r.cmd = "rm"
     /\ Go(p, [r EXCEPT !.slot = i, !.copy = ReadNames(i)], "unname")
     /\ UNCHANGED <<disk, file_pointers, last, crashes>>

\* Mutant of UnnameWrite: the name is not written back.
UnnameWrite_kept(p) ==
  /\ At(p, "unname")
  /\ Go(p, [shell[p] EXCEPT !.copy = <<>>], "unpoint")
  /\ UNCHANGED <<disk, file_pointers, last, crashes>>

UnnameWrite(p) ==
  LET r == shell[p] IN
  /\ At(p, "unname")
  /\ WriteNames([r.copy EXCEPT ![r.slot] = BLANK])
  /\ Go(p, [r EXCEPT !.copy = <<>>], "unpoint")
  /\ UNCHANGED <<file_pointers, last, crashes>>

\* the pointer goes,
UnpointRead(p) ==
  LET r == shell[p]
      c == ReadIB(r.slot \div PerBlock)
  IN /\ At(p, "unpoint")
     /\ Go(p, [r EXCEPT !.copy = c, !.sector = c.fp[r.slot]], "unpoint write")
     /\ UNCHANGED <<disk, file_pointers, last, crashes>>

UnpointWrite(p) ==
  LET r == shell[p] IN
  /\ At(p, "unpoint write")
  /\ WriteIB(r.slot \div PerBlock, [r.copy EXCEPT !.fp[r.slot] = EOC])
  /\ Go(p, [r EXCEPT !.copy = <<>>], "unmark")
  /\ UNCHANGED <<file_pointers, last, crashes>>

\* and sector after sector of the chain is unmarked.
UnmarkRead(p) ==
  LET r == shell[p] IN
  /\ At(p, "unmark") /\ r.sector # EOC
  /\ Go(p, [r EXCEPT !.next = disk.sector[r.sector].next, !.copy = ReadIB(BlockOf(r.sector))],
        "unmark write")
  /\ UNCHANGED <<disk, file_pointers, last, crashes>>

\* Mutant of UnmarkWrite: the bitmap is not written back.
UnmarkWrite_kept(p) ==
  LET r == shell[p] IN
  /\ At(p, "unmark write")
  /\ Go(p, [r EXCEPT !.sector = r.next, !.copy = <<>>], "unmark")
  /\ UNCHANGED <<disk, file_pointers, last, crashes>>

UnmarkWrite(p) ==
  LET r == shell[p] IN
  /\ At(p, "unmark write")
  /\ WriteIB(BlockOf(r.sector), [r.copy EXCEPT !.used = toggled(@, r.sector)])
  /\ Go(p, [r EXCEPT !.sector = r.next, !.copy = <<>>], "unmark")
  /\ UNCHANGED <<file_pointers, last, crashes>>

Deleted(p) ==
  /\ At(p, "unmark") /\ shell[p].sector = EOC
  /\ Release(shell[p].file)
  /\ Done(p)
  /\ UNCHANGED <<disk, last, crashes>>

-----------------------------------------------------------------------------
\* The machine stops, is started again, and finds the partition as it was left.
Crash ==
  /\ crashes < MaxCrashes
  /\ crashes' = crashes + 1
  /\ file_pointers' = [h \in {} |-> <<>>]
  /\ shell' = [p \in Shells |-> Prompt]
  /\ last' = <<>>
  /\ UNCHANGED disk

Create(p) == FindSlot(p) \/ FindSector(p) \/ MarkRead(p) \/ MarkWrite(p) \/ PointRead(p)
             \/ PointWrite(p) \/ NameRead(p) \/ NameWrite(p) \/ Blank(p)
Delete(p) == rm(p) \/ UnnameWrite(p) \/ UnpointRead(p) \/ UnpointWrite(p)
             \/ UnmarkRead(p) \/ UnmarkWrite(p) \/ Deleted(p)
Use(p)    == Failed(p) \/ touch(p) \/ cat(p) \/ write(p) \/ Type(p) \/ EndOfInput(p) \/ fclose(p)

Next == Crash \/ \E p \in Shells : Command(p) \/ strtok(p) \/ fopen(p) \/ Create(p)
                                   \/ Delete(p) \/ Use(p)

Spec == Init /\ [][Next]_vars

-----------------------------------------------------------------------------
(* Properties *)

Pointed == {i \in Slot : disk.fp[i] # EOC}
Named   == {i \in Slot : disk.name[i] # BLANK}

\* Whatever access a shell is at or the machine stopped at, the first sector of a
\* file is marked and is that of no other file (_fs_create_file marks before it
\* points, _fs_delete_file unmarks after; both rewrite the sector that has both).
PointersMarked ==
  /\ \A i \in Pointed : disk.fp[i] \in disk.used \ Metadata
  /\ \A i, j \in Pointed : disk.fp[i] = disk.fp[j] => i = j

\* A name that can be found leads to a file, however far a creation or deletion
\* came: fopen looks the pointer up without asking whether there is one.
NamesLeadToFiles == Named \subseteq Pointed

\* Sectors leak only where the machine stopped: those that are marked but not of
\* a file with a name are no more than there were stops, and one for each shell
\* that is on its way (nothing looks for them later).
LeaksOnlyByCrash ==
  Cardinality(disk.used \ (Metadata \cup {disk.fp[i] : i \in Named}))
    <= crashes + Cardinality({p \in Shells : ~At(p, "prompt")})

\* What docs/ufs.h/ufs.h says: an open file cannot be used by other processes.
Reserved == \A g, h \in DOMAIN file_pointers :
  file_pointers[g].slot = file_pointers[h].slot => file_pointers[g].by = file_pointers[h].by
=============================================================================
