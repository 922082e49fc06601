------------------------------ MODULE Partitions ------------------------------
(***************************************************************************)
(* How drives and partitions are found and made: the walk over the PCI bus *)
(* (pci.c), the drives of a controller (_ata_probe), the partition table,  *)
(* _fs_create_partition, _fs_format and _fs_probe (fs.c), and the commands *)
(* part and format of fileshell.  What the files of a mounted partition    *)
(* do to the drive is one action: they can write any sector that the       *)
(* bitmaps of the partition have a bit for.                                *)
(***************************************************************************)
EXTENDS Integers, Sequences, FiniteSets, FiniteSetsExt, SequencesExt

CONSTANTS
  PerIndex,     \* FS_SECT_PER_IB
  Entries,      \* FS_PART_TABLE_ENTRIES
  UWord,        \* 2^32: unsigned integers are taken modulo UWord
  Devices,      \* device numbers of a PCI bus that there are: 0 .. Devices-1
  Functions,    \* functions of a PCI device that there are: 0 .. Functions-1
  Scan,         \* buses and devices that _pci_init looks at: 0 .. Scan-1
  Controllers,  \* <<bus, device, function>> of the IDE controllers, each with its
                \* four drives: the size of one, or 0 where there is none
  Starts, Sizes \* bound: what is given to part

ASSUME PartitionAssumption ==
  /\ PerIndex \in Nat /\ PerIndex > 3
  /\ Entries \in Nat \ {0}
  /\ UWord \in Nat \ {0}
  /\ Devices \in Nat \ {0} /\ Functions \in Nat \ {0} /\ Scan \in Nat \ {0}
  /\ Starts \subseteq 0 .. UWord-1 /\ Sizes \subseteq 0 .. UWord-1

VARIABLES
  mbr,           \* the partition table of each drive, by position in ata_devices
  sector,        \* the sectors of each drive: what they are, for which partition
  mount_points,  \* the partitions in use, as they were found when the system started
  status         \* what the last call returned

pvars == <<mbr, sector, mount_points, status>>

-----------------------------------------------------------------------------
(* Finding drives *)

\* Mutant of address: the bits that are or-ed into the bus are dropped.
address_dropped(bus, device, func) == <<bus, device % Devices, func>>

\* _pci_config_get_address: a device number that is too large for its bits is or-ed
\* into those of the bus.
or(m, n) == LET bit[k \in 0 .. 8] ==
                  IF k = 0 THEN 0
                  ELSE bit[k-1] + IF 1 \in {(m \div 2^(k-1)) % 2, (n \div 2^(k-1)) % 2}
                                  THEN 2^(k-1) ELSE 0
            IN bit[8]
address(bus, device, func) == <<or(bus, device \div Devices), device % Devices, func>>

\* _pci_init: what is at each address in turn; the last function of a device is
\* left out.
walk == [k \in 0 .. Scan*Scan*(Functions-1) - 1 |->
           address(k \div (Scan * (Functions-1)), (k \div (Functions-1)) % Scan,
                   k % (Functions-1))]
found == SelectSeq([k \in 1 .. Scan*Scan*(Functions-1) |-> walk[k-1]],
                   LAMBDA a : a \in DOMAIN Controllers)

\* _ata_probe: the drives of these controllers, master and slave of either channel.
\* A drive is what it is called here: its controller and its place there.
Drive == {<<c, k>> : c \in DOMAIN Controllers, k \in 1 .. 4}
size(d) == Controllers[d[1]][d[2]]
ata_devices == SelectSeq(FlattenSeq([i \in DOMAIN found |-> [k \in 1 .. 4 |-> <<found[i], k>>]]),
                         LAMBDA d : size(d) > 0)

-----------------------------------------------------------------------------
NoEntry   == [type |-> FALSE, start |-> 0, size |-> 0]
Nothing   == [is |-> "nothing", size |-> 0, of |-> 0]
BootSector(s, n) == [is |-> "boot record", size |-> n, of |-> s]
Index(s)  == [is |-> "index block", size |-> 0, of |-> s]
Name(s)   == [is |-> "name table", size |-> 0, of |-> s]
Data(s)   == [is |-> "data", size |-> 0, of |-> s]

\* What is written past the end of a drive fails, and nobody looks.
Put(d, what) == sector' = [sector EXCEPT ![d] =
                  [l \in DOMAIN @ |-> IF l \in DOMAIN what THEN what[l] ELSE @[l]]]

\* Drives that were never partitioned
PartitionsInit ==
  /\ mbr = [d \in Drive |-> [i \in 0 .. Entries-1 |-> NoEntry]]
  /\ sector = [d \in Drive |-> [l \in 1 .. size(d)-1 |-> Nothing]]
  /\ mount_points = <<>>
  /\ status = "boot"

\* Mutant of IndexAt: the boot record is not counted.
IndexAt_too_far(start, sz) == {start + 1 + k*PerIndex : k \in 0 .. sz \div PerIndex}

\* The first sector of an index block, and all of them
IndexAt(start, sz) == {start + 1 + k*PerIndex : k \in 0 .. (sz - 2) \div PerIndex}

\* _fs_create_partition, by part, which takes 0 as the index of no partition
create_partition(d, start, sz, index) ==
  LET rest == sz % PerIndex
      rounded == IF rest = 0 THEN sz ELSE sz + (PerIndex - rest) + 1
      error == CASE index >= Entries -> "FS_ERR_BADINDEX"
                 [] index < Entries /\ (sz >= size(d) \/ (sz + start) % UWord >= size(d))
                                     -> "FS_ERR_TOOBIG"
                 [] index < Entries /\ sz < size(d) /\ (sz + start) % UWord < size(d) /\ sz <= 4
                                     -> "FS_ERR_TOOSMALL"
                 [] OTHER -> "FS_SUCCESS"
  IN /\ start # 0
     /\ status' = error
     /\ mbr' = IF error # "FS_SUCCESS" THEN mbr
               ELSE [mbr EXCEPT ![d][index] = [type |-> TRUE, start |-> start, size |-> rounded % UWord]]
     /\ UNCHANGED <<sector, mount_points>>

\* _fs_format, of a partition that is in the table
format(d, index) ==
  LET e   == mbr[d][index]
      ibs == IndexAt(e.start, e.size)
      within(l) == CASE l = e.start -> BootSector(e.start, e.size)
                     [] l \in ibs   -> Index(e.start)
                     [] OTHER       -> Name(e.start)
  IN /\ status' = IF e.type THEN "FS_SUCCESS" ELSE "FS_ERR_NOTDERP"
     /\ IF e.type
        THEN Put(d, [l \in {e.start} \cup UNION {i .. i+2 : i \in ibs} |-> within(l)])
        ELSE UNCHANGED sector
     /\ UNCHANGED <<mbr, mount_points>>

-----------------------------------------------------------------------------
\* _fs_probe: the partitions of a drive that begin with a boot record
IsDerp(d, e) == e.type /\ e.start \in DOMAIN sector[d] /\ sector[d][e.start].is = "boot record"

probe(d) ==
  LET table == [i \in 1 .. Entries |-> mbr[d][i-1]]
      derp  == SelectSeq(table, LAMBDA e : IsDerp(d, e))
  IN [i \in DOMAIN derp |-> [device |-> d, offset |-> derp[i].start,
                             size |-> sector[d][derp[i].start].size]]

\* _pci_init and _fs_init, when the system starts
Boot ==
  /\ mount_points' = FlattenSeq([i \in DOMAIN ata_devices |-> probe(ata_devices[i])])
  /\ status' = "boot"
  /\ UNCHANGED <<mbr, sector>>

\* A file of a mounted partition gets a sector.
Use(m) ==
  /\ \E i \in IndexAt(m.offset, m.size), j \in 3 .. PerIndex-1 :
       Put(m.device, [l \in {i + j} |-> Data(m.offset)])
  /\ status' = "used"
  /\ UNCHANGED <<mbr, mount_points>>

PartitionsNext ==
  \/ \E d \in Range(ata_devices), i \in 0 .. Entries :
       \/ \E start \in Starts, sz \in Sizes : create_partition(d, start, sz, i)
       \/ i < Entries /\ format(d, i)
  \/ Boot
  \/ \E m \in Range(mount_points) : Use(m)

-----------------------------------------------------------------------------
(* Properties *)

Extent(e) == e.start .. e.start + e.size - 1

\* A mounted partition is as the table has it.
Fresh(m) == \E i \in 0 .. Entries-1 :
  mbr[m.device][i] = [type |-> TRUE, start |-> m.offset, size |-> m.size]

\* The sectors of a partition are written by formatting it and by its own files
\* only, as long as no other partition of the drive overlaps it or has the size of
\* whole index blocks (for which create_partition makes no room for the boot record)
\* and the mounted partitions are those of the table: index blocks, bitmaps and the
\* rounding of the size agree on where a partition ends.
PartitionsApart == [][
  \A d \in Drive, i \in 0 .. Entries-1 :
    LET e == mbr[d][i] IN
    /\ e.type
    /\ \A j \in 0 .. Entries-1 \ {i} : mbr[d][j].type =>
         /\ Extent(mbr[d][j]) \cap Extent(e) = {}
         /\ mbr[d][j].size % PerIndex # 0
    /\ \A m \in Range(mount_points) : Fresh(m)
    => \A l \in Extent(e) \cap DOMAIN sector[d] :
         sector'[d][l] # sector[d][l] => sector'[d][l].of = e.start]_pvars

\* Starting gives every partition one letter: the walk over the bus comes by each
\* drive once.  On a bus whose number has the bits that device numbers above
\* Devices-1 are or-ed into it comes by more often; all controllers are on bus 0 here.
OneLetterEach == [][
  /\ mount_points' # mount_points
  /\ \A d \in Drive, i, j \in 0 .. Entries-1 :
       i # j /\ mbr[d][i].type /\ mbr[d][j].type => mbr[d][i].start # mbr[d][j].start
  => \A d \in Drive, i \in 0 .. Entries-1 : IsDerp(d, mbr[d][i]) =>
       Cardinality({k \in DOMAIN mount_points' :
          mount_points'[k].device = d /\ mount_points'[k].offset = mbr[d][i].start}) = 1]_pvars
=============================================================================
