-------------------------------- MODULE DerpFs ---------------------------------
(***************************************************************************)
(* The calls of ufs.c on one mounted DERP_FS partition: what they do to    *)
(* the disk, to the global table of open files with their sector buffers,  *)
(* and what they return.  A call is one action: FileShell has the single   *)
(* accesses to the disk and what can come between them.  Any process may   *)
(* make any call with any open FILE; one that never closes it just stops.  *)
(*                                                                         *)
(* The code does not keep its promises in the situations listed under      *)
(* Faults.  A call made in one of them is modelled like any other, by what *)
(* the code does, but it is the last: fault names the situation, and what  *)
(* later calls make of the damage is not followed.  Only a read that stops *)
(* short does no damage, and other calls follow it.                        *)
(***************************************************************************)
EXTENDS DerpDisk

CONSTANTS
  MaxFiles,    \* FS_MAX_FILEPOINTERS
  Strings,     \* bound: what a call writes, a sector's end can lie in it but only one
  Offsets,     \* bound: the offsets and sizes that calls ask for
  MaxLength,   \* bound: no file is written past this
  Word         \* 2^32: offsets are counted modulo this

ASSUME FsAssumption ==
  /\ MaxFiles \in Nat \ {0}
  /\ Word \in Nat \ {0} /\ MaxLength \in 0 .. Word-1 /\ Offsets \subseteq 0 .. Word-1
  /\ \A b \in Strings : b \in Seq(Bytes) /\ Len(b) \in 1 .. DataLength+1

Handle == 0 .. MaxFiles-1

VARIABLES
  disk,           \* the sectors of the partition
  file_pointers,  \* the table of FILEs
  result,         \* what the last call returned
  fault           \* the situation that the last call was made in, or "none"

vars == <<disk, file_pointers, result, fault>>

\* code is FS_AVAILABLE, or anything else in an open file.  The name of a FILE in
\* the table is never set (_fs_allocate_filepointer does not copy it), and what a
\* FILE holds that is no longer open is not kept: it is set before it is used again.
FILE == [open: BOOLEAN, ib: Nat, ibindex: 0 .. PerBlock-1, bufsect: Sector,
         bufindex: Nat, offset: Nat, buffer: FileSector]

Closed == [open |-> FALSE, ib |-> 0, ibindex |-> 0, bufsect |-> 0, bufindex |-> 0,
           offset |-> 0, buffer |-> BlankSector]

NULL == [call |-> "fopen", value |-> NONE]

\* after _pci_init and _fs_probe
Init ==
  /\ disk = Formatted
  /\ file_pointers = [h \in Handle |-> Closed]
  /\ result = [call |-> "boot", value |-> 0]
  /\ fault = "none"

-----------------------------------------------------------------------------
Open      == {h \in Handle : file_pointers[h].open}
Available == Handle \ Open

\* the slot a FILE is about
SlotOf(f) == BlockOf(f.ib) * PerBlock + f.ibindex

\* fflush: the buffer goes where it came from
fflush(d, f) == [d EXCEPT !.sector[f.bufsect] = f.buffer]

\* sector s as the new buffer of a file
Load(d, f, s, index) ==
  [f EXCEPT !.bufsect = s, !.buffer = d.sector[s], !.bufindex = index]

\* _fs_get_file_size: the counts of the sectors on the disk, save that of the
\* buffered one
get_file_size(d, f) ==
  LET chain    == Chain(d, d.fp[SlotOf(f)])
      Count(s) == IF s = f.bufsect THEN f.buffer.count ELSE d.sector[s].count
      upto[n \in 0 .. Len(chain)] == IF n = 0 THEN 0 ELSE upto[n-1] + Count(chain[n])
  IN upto[Len(chain)]

\* Follow the links for n sectors; what is behind the end is sector 0.
Walk(d, s, n) ==
  LET after[k \in 0 .. n] == IF k = 0 THEN s ELSE d.sector[after[k-1]].next
  IN after[n]

-----------------------------------------------------------------------------
(* Faults: situations in which a call does not do what the documents say.  *)

\* fopen: _fs_find_file sets no code when it finds the file, and fopen then
\* compares what was in that place of the stack with FS_ERR_FILENOTFOUND.
\* name_seen looks for names past the first name sector in the wrong slots.
\* The name is found behind the partition.
\* No sector or slot is free: the code FS_ERR_FULL is overwritten.
\* _fs_find_file gives the number of the index block as its sector.
\* _fs_file_inuse never finds a file to be in use.
OpenFault(n, found, i) ==
  IF Available = {} THEN "none"
  ELSE CASE found \in Slot /\ i = NONE             -> "found file taken for a new one"
         [] i \in Behind                           -> "found behind the partition"
         [] i \in Slot /\ i >= PerBlock            -> "wrong index block"
         [] i \in Slot /\ disk.name[i] # n         -> "another slot opened"
         [] i = NONE /\ n \in Range(disk.name)     -> "name not found"
         [] i = NONE /\ 0 \in {find_empty_sector(disk), find_empty_fspointer(disk) + 1}
                                                   -> "no room for a new file"
         [] i # NONE /\ \E h \in Open : SlotOf(file_pointers[h]) = i -> "opened twice"
         [] OTHER                                  -> "none"

\* fwrite: the buffer is still the sector before the one of the offset; the sector
\* that is linked to a file keeps the links and the count of its last file; the
\* sector is 0, the boot record, as none was free.
WriteFault(f, more, taken) ==
  CASE f.offset \div DataLength # f.bufindex -> "written into the sector before"
    [] more /\ taken = 0                     -> "no sector to go on in"
    [] more /\ disk.sector[taken].next # EOC -> "recycled sector"
    [] more /\ disk.sector[taken].count # 0  -> "recycled sector"
    [] OTHER                                 -> "none"

\* fread: the test whether the byte is in the file is made before the one whether it
\* is in the next sector, and fails at the end of any sector: the read stops there.
ReadFault(f, read, size) ==
  IF Len(read) < size /\ f.buffer.next # EOC THEN "short read" ELSE "none"

\* fseek: the sum of the offset and a long way forward wraps, and lies in the file
\* again.  The offset is the end of the file and of its last sector, so that the
\* sector behind the end of the chain, 0, is buffered.  The index of a sector is
\* compared with the number of the buffered one, and they agree by chance.
SeekFault(f, to, index, relative) ==
  CASE to >= Word -> "seek that wraps"
    [] relative /\ index = f.bufsect /\ index # f.bufindex -> "seek in the wrong sector"
    [] index # f.bufindex /\ index >= Len(Chain(disk, disk.fp[SlotOf(f)]))
                                                           -> "seek behind the end"
    [] OTHER                                               -> "none"

-----------------------------------------------------------------------------
\* _fs_allocate_filepointer and the end of fopen
allocate_filepointer(f) ==
  LET h == Min(Available) IN
  IF Available = {}
  THEN result' = NULL /\ UNCHANGED file_pointers
  ELSE /\ file_pointers' = [file_pointers EXCEPT ![h] = [f EXCEPT !.open = TRUE]]
       /\ result' = [call |-> "fopen", value |-> h]

\* The FILE for a slot, with the first sector of the file in its buffer.
\* _fs_create_file has the number of the index block; _fs_find_file divides.
FileAt(d, i, ib) ==
  Load(d, [Closed EXCEPT !.ib = ib, !.ibindex = i % PerBlock], d.fp[i], 0)

\* Mutant of create_file: the sector is not marked in the bitmap.
create_file_unmarked(d, n, i, s) ==
  [d EXCEPT !.fp[i] = s, !.name[i] = n, !.sector[s] = BlankSector]

\* _fs_create_file, when a slot i and a sector s are free
create_file(d, n, i, s) ==
  [toggle(d, s) EXCEPT !.fp[i] = s, !.name[i] = n, !.sector[s] = BlankSector]

\* fopen of a name that was not found.  With no room the FILE that is handed out
\* is not initialised; BlankSector and sector 0 stand for what it holds.
open_new(n) ==
  LET i == find_empty_fspointer(disk)
      s == find_empty_sector(disk)
      d == create_file(disk, n, i, s)
  IN IF i = NONE \/ s = 0
     THEN allocate_filepointer(Closed) /\ UNCHANGED disk
     ELSE disk' = d /\ allocate_filepointer(FileAt(d, i, (i \div PerBlock)*PerBlock + 1))

\* The FILE for a name that is found behind the partition: in the index block that
\* would come next, with a sector that the pointers there say, for which 0 stands.
FileBehind(i) == [Closed EXCEPT !.ib = i \div PerBlock + 1, !.ibindex = i % PerBlock]

fopen(n) ==
  \E found \in find_file(disk, n) : \E i \in {found, NONE} :
    /\ fault' = OpenFault(n, found, i)
    /\ \/ /\ i \in Slot
          /\ allocate_filepointer(FileAt(disk, i, i \div PerBlock + 1))
          /\ UNCHANGED disk
       \/ i \in Behind /\ allocate_filepointer(FileBehind(i)) /\ UNCHANGED disk
       \/ i = NONE /\ Available = {} /\ result' = NULL /\ UNCHANGED <<disk, file_pointers>>
       \/ i = NONE /\ Available # {} /\ open_new(n)

fclose(h) ==
  /\ disk' = fflush(disk, file_pointers[h])
  /\ file_pointers' = [file_pointers EXCEPT ![h] = Closed]
  /\ result' = [call |-> "fclose", value |-> 0]
  /\ fault' = "none"

fdelete(h) ==
  LET i == SlotOf(file_pointers[h])
      chain == Chain(disk, disk.fp[i])
      unlisted == [disk EXCEPT !.name[i] = BLANK, !.fp[i] = EOC]
      freed[n \in 0 .. Len(chain)] ==
        IF n = 0 THEN unlisted ELSE toggle(freed[n-1], chain[n])
  IN /\ disk' = freed[Len(chain)]
     /\ file_pointers' = [file_pointers EXCEPT ![h] = Closed]
     /\ result' = [call |-> "fdelete", value |-> 0]
     /\ fault' = "none"

fflush_call(h) ==
  /\ disk' = fflush(disk, file_pointers[h])
  /\ result' = [call |-> "fflush", value |-> 0]
  /\ fault' = "none"
  /\ UNCHANGED file_pointers

\* Mutant of Sought: the buffer is not flushed before the next sector is read into it.
Sought_unflushed(h, offset, index, stays, loaded) ==
  /\ UNCHANGED disk
  /\ file_pointers' = [file_pointers EXCEPT ![h] =
                         [(IF stays THEN @ ELSE loaded) EXCEPT !.offset = offset]]
  /\ result' = [call |-> "fseek", value |-> 0]

\* A seek that succeeds: to the sector of the given index, unless the test that is
\* made says that it is the buffered one, and then to the offset.
Sought(h, offset, index, stays, loaded) ==
  LET f == file_pointers[h] IN
  /\ disk' = IF stays THEN disk ELSE fflush(disk, f)
  /\ file_pointers' = [file_pointers EXCEPT ![h] =
                         [(IF stays THEN f ELSE loaded) EXCEPT !.offset = offset]]
  /\ result' = [call |-> "fseek", value |-> 0]

Invalid ==
  /\ result' = [call |-> "fseek", value |-> NONE]
  /\ fault' = "none"
  /\ UNCHANGED <<disk, file_pointers>>

\* from the first sector of the file
FromStart(d, f, index) == Load(d, f, Walk(d, d.fp[SlotOf(f)], index), index)

fseek_abs(h, offset) ==
  LET f == file_pointers[h]
      index == offset \div DataLength
  IN IF offset > get_file_size(disk, f)
     THEN Invalid
     ELSE /\ Sought(h, offset, index, index = f.bufindex, FromStart(fflush(disk, f), f, index))
          /\ fault' = SeekFault(f, offset, index, FALSE)

\* From the buffered sector on.  The number of sectors to go is unsigned, and for
\* one before it, after a wrap, the loop goes round and round the end of the chain.
fseek_rel(h, by) ==
  LET f == file_pointers[h]
      to    == (f.offset + by) % Word
      index == to \div DataLength
      jumps == index - f.bufindex
      d == fflush(disk, f)
      loaded == CASE jumps = 0 -> f
                  [] jumps > 0 -> Load(d, f, Walk(d, f.bufsect, jumps), index)
                  [] jumps < 0 -> Load(d, f, 0, index)
  IN IF to >= get_file_size(disk, f)
     THEN Invalid
     ELSE /\ Sought(h, to, index, index = f.bufsect, loaded)
          /\ fault' = SeekFault(f, f.offset + by, index, TRUE)

\* An offset that would be negative wraps around, and the test for it finds it.
fseek_rel_rev(h, by) ==
  LET f == file_pointers[h]
      index == (f.offset - by) \div DataLength
  IN IF by > f.offset
     THEN Invalid
     ELSE /\ Sought(h, f.offset - by, index, index = f.bufsect,
                    FromStart(fflush(disk, f), f, index))
          /\ fault' = SeekFault(f, f.offset - by, index, TRUE)

-----------------------------------------------------------------------------
\* One round of the loop of fread: the next byte, from the next sector if the
\* offset is past the buffered one.  at is sectBytes.
ReadByte(k) ==
  LET past == (k.f.offset + Len(k.read)) \div DataLength > k.f.bufindex
      d    == fflush(k.d, k.f)
      next == k.f.buffer.next
      f    == IF past THEN Load(d, k.f, next, k.f.bufindex + 1) ELSE k.f
      at   == IF past THEN 0 ELSE k.at
  IN CASE k.done \/ k.at >= k.f.buffer.count -> [k EXCEPT !.done = TRUE]
       [] ~k.done /\ k.at < k.f.buffer.count /\ past /\ next = EOC -> [k EXCEPT !.d = d, !.done = TRUE]
       [] OTHER -> [k EXCEPT !.d = IF past THEN d ELSE @, !.f = f, !.at = at + 1,
                             !.read = Append(@, f.buffer.data[at])]

fread(h, size) ==
  LET f == file_pointers[h]
      start == [d |-> disk, f |-> f, at |-> f.offset % DataLength,
                read |-> <<>>, done |-> FALSE]
      after[n \in 0 .. size] == IF n = 0 THEN start ELSE ReadByte(after[n-1])
      k == after[size]
  IN /\ disk' = k.d
     /\ file_pointers' = [file_pointers EXCEPT ![h] = [k.f EXCEPT !.offset = @ + Len(k.read)]]
     /\ result' = [call |-> "fread", value |-> k.read]
     /\ fault' = ReadFault(k.f, k.read, size)

\* Mutant of GoOn: bufindex is not counted up with the sector.
GoOn_same_index(k) ==
  LET new  == k.f.buffer.next = EOC
      s    == IF new THEN find_empty_sector(k.d) ELSE k.f.buffer.next
      full == [k.f EXCEPT !.buffer.next = s]
      d    == fflush(IF new THEN toggle(k.d, s) ELSE k.d, full)
  IN [d |-> d, f |-> Load(d, full, s, full.bufindex), at |-> 0]

\* The sector that follows the buffered one, allocated if there is none.
GoOn(k) ==
  LET new  == k.f.buffer.next = EOC
      s    == IF new THEN find_empty_sector(k.d) ELSE k.f.buffer.next
      full == [k.f EXCEPT !.buffer.next = s]
      d    == fflush(IF new THEN toggle(k.d, s) ELSE k.d, full)
  IN [d |-> d, f |-> Load(d, full, s, full.bufindex + 1), at |-> 0]

\* One round of the loop of fwrite
WriteByte(k0, b) ==
  LET k == IF k0.at >= DataLength THEN GoOn(k0) ELSE k0
  IN [d  |-> k.d,
      f  |-> [k.f EXCEPT !.buffer.data[k.at] = b, !.offset = @ + 1,
                         !.buffer.count = IF k.at >= @ THEN @ + 1 ELSE @],
      at |-> k.at + 1]

fwrite(h, bytes) ==
  LET f    == file_pointers[h]
      at   == f.offset % DataLength
      more == at + Len(bytes) > DataLength /\ f.buffer.next = EOC
      after[n \in 0 .. Len(bytes)] ==
        IF n = 0 THEN [d |-> disk, f |-> f, at |-> at] ELSE WriteByte(after[n-1], bytes[n])
      k    == after[Len(bytes)]
  IN /\ disk' = k.d
     /\ file_pointers' = [file_pointers EXCEPT ![h] = k.f]
     /\ result' = [call |-> "fwrite", value |-> Len(bytes)]
     /\ fault' = WriteFault(f, more, find_empty_sector(disk))

-----------------------------------------------------------------------------
Seek(h) == \E by \in Offsets :
  fseek_abs(h, by) \/ fseek_rel(h, by) \/ fseek_rel_rev(h, by)

\* what a call can follow
Survived == fault \in {"none", "short read"}

Next ==
  /\ Survived
  /\ \/ \E n \in Names : fopen(n)
     \/ \E h \in Open :
          \/ fclose(h) \/ fdelete(h) \/ fflush_call(h) \/ Seek(h)
          \/ \E size \in Offsets : fread(h, size)
          \/ \E bytes \in Strings :
               file_pointers[h].offset + Len(bytes) <= MaxLength /\ fwrite(h, bytes)

Spec == Init /\ [][Next]_vars

-----------------------------------------------------------------------------
(* Properties *)

\* The sectors of a file as its user sees them: the buffer of the open FILE that
\* has one of them in place of the sector on the disk.
Seen(s) ==
  LET at == {h \in Open : file_pointers[h].bufsect = s}
  IN IF at = {} THEN disk.sector[s] ELSE file_pointers[Min(at)].buffer

\* All sectors but the last are full (SectorsAccountedFor).
Content(i) ==
  LET chain == Chain(disk, disk.fp[i])
  IN [k \in 1 .. (Len(chain)-1) * DataLength + Seen(Last(chain)).count |->
        Seen(chain[(k-1) \div DataLength + 1]).data[(k-1) % DataLength]]

Files   == {i \in Slot : disk.fp[i] # EOC}
SlotNamed(n) == CHOOSE i \in Files : disk.name[i] = n

Contents == [n \in {disk.name[i] : i \in Files} |-> Content(SlotNamed(n))]
Users    == [h \in Open |-> [name |-> disk.name[SlotOf(file_pointers[h])],
                             pos  |-> file_pointers[h].offset]]

Store == INSTANCE FileStore WITH
  files   <- Contents,
  open    <- Users,
  call    <- result.call,
  answer  <- result.value

\* What docs/ufs.h/fread and the comment at ufs.c:361-363 say of fread: fewer bytes
\* than were asked for only at the end of the file.
ReadsToTheEnd ==
  [][\A h \in Open, size \in Offsets : fread(h, size) => Store!Read(h, size)]_vars

\* Sector buffers, chains of sectors and tables together do what a store of named
\* strings of bytes does: every call that is not one of the faults, of however
\* many open files in whatever order, is a call of FileStore with the same answer.
Implements == Store!Init /\ [][fault' = "none" => [Store!Next]_(Store!vars)]_vars

\* Sectors are neither lost nor shared: those marked in the bitmaps are the
\* metadata and the sectors of files, every one of them in one place of the chain
\* of one file and full if another follows, and a slot has a name exactly if it has a file
\* (_fs_create_file, fwrite and _fs_delete_file keep three tables in step).
SectorsAccountedFor == Survived =>
  /\ disk.used = Metadata \cup UNION {SectorsOf(disk, i) : i \in Files}
  /\ Metadata \cap UNION {SectorsOf(disk, i) : i \in Files} = {}
  /\ \A i \in Files : IsInjective(Chain(disk, disk.fp[i]))
  /\ \A i, j \in Files : i # j => SectorsOf(disk, i) \cap SectorsOf(disk, j) = {}
  /\ \A i \in Slot : i \in Files <=> disk.name[i] # BLANK
  /\ \A s \in UNION {SectorsOf(disk, i) : i \in Files} :
       disk.sector[s].next # EOC => disk.sector[s].count = DataLength

\* The buffer of an open FILE holds the sector of its file that bufindex says,
\* with the link the disk has, and the offset is in that sector or at its end: what
\* is flushed goes to its place, whatever was sought, read and written before
\* (bufsect, bufindex, offset and the buffer are set in six functions).
BufferInPlace == Survived => \A h \in Open :
  LET f     == file_pointers[h]
      chain == Chain(disk, disk.fp[SlotOf(f)])
  IN /\ f.bufindex < Len(chain)
     /\ chain[f.bufindex + 1] = f.bufsect
     /\ f.buffer.next = disk.sector[f.bufsect].next
     /\ f.offset - f.bufindex * DataLength \in 0 .. f.buffer.count
=============================================================================
