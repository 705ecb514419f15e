------------------------------ MODULE FatTable ------------------------------
(***************************************************************************)
(* FAT table access of src/MeOS/FAT32_fs.cpp: fat_fs_find_next_cluster,    *)
(* fat_fs_mark_cluster and fat_fs_reserve_first_cluster, with the sector   *)
(* arithmetic the code does.  The FAT region of the volume is modelled     *)
(* entry by entry: FAT #1 holds entries 0 .. NumClusters-1 and the copy,   *)
(* FAT #2, follows it on disk (number_FATs = 2; the driver never writes    *)
(* FAT #2 on purpose).  A sector holds EntriesPerSector entries (128 in    *)
(* the code) and one page-cache buffer read covers SectorsPerBuffer        *)
(* sectors (8 in the code).  Every operation is an operator returning the  *)
(* set of its possible outcomes.  Each first reserves the page-cache       *)
(* scratch buffer <<root fd, GFD_FAT_SPECIAL>>; argument avail says       *)
(* whether the pool has a free buffer.  A failed reservation or device    *)
(* transfer makes it return 0 and leave the disk as it was.                *)
(***************************************************************************)
EXTENDS Integers, Sequences

CONSTANTS
  EntriesPerSector,  \* 512 / 4 = 128 in the code
  SectorsPerBuffer,  \* 4096 / 512 = 8 in the code
  SectorsPerFat,     \* volume->extended.sectors_per_FAT
  EOF,               \* FAT_EOF; every value >= EOF ends a chain
  IoFail             \* whether reservations and transfers may fail

ASSUME EntriesPerSector \in Nat \ {0} /\ SectorsPerBuffer \in Nat \ {0}
ASSUME SectorsPerFat \in Nat \ {0}

\* number of FAT #1 entries, all of which name clusters here
NumClusters == SectorsPerFat * EntriesPerSector

ASSUME EOF > NumClusters

\* the FAT region on disk: FAT #1 then FAT #2
DiskEntries == 2 * NumClusters
FatIndex == 0 .. DiskEntries - 1

\* values a 28-bit FAT entry takes in the model: free, a link, or an end
Clusters == 2 .. NumClusters - 1
FatValues == {0} \cup Clusters \cup {EOF}

\* entries per page-cache buffer
BufferEntries == SectorsPerBuffer * EntriesPerSector

\* outcome of one failed call, when failures are modelled
Failed(x) == IF IoFail THEN {x} ELSE {}

(***************************************************************************)
(* A 32-bit word read at position pos of the buffer filled from FAT       *)
(* sector s (sectors counted from fat_lba).  Words past the 4 KiB buffer   *)
(* belong to the next page-cache cell and words past both FAT copies to   *)
(* the data region: their contents are unknown to the model.               *)
(***************************************************************************)
BufferWord(disk, s, pos) ==
  LET idx == s * EntriesPerSector + pos
  IN  IF pos < BufferEntries /\ idx < DiskEntries THEN {disk[idx]} ELSE FatValues

\* fat_fs_find_next_cluster: loads sector fat_lba + c / 128 and reads word c
\* of the buffer (fat_fs_read_fat_value(address, current_cluster))
FindNextCluster(disk, c, avail) ==
  IF ~avail THEN {0}
  ELSE BufferWord(disk, c \div EntriesPerSector, c) \cup Failed(0)

(***************************************************************************)
(* fat_fs_mark_cluster: loads sector fat_lba + i / 128, remembers word     *)
(* i % 128, stores value there and writes the buffer back.  Outcomes are  *)
(* <<disk after, value returned>>; a mark past the FAT region has none.    *)
(***************************************************************************)
MarkCluster(disk, i, value, avail) ==
  LET idx == (i \div EntriesPerSector) * EntriesPerSector + (i % EntriesPerSector)
  IN  IF ~avail THEN {<<disk, 0>>}
      ELSE IF idx >= DiskEntries THEN {}
      ELSE {<<[disk EXCEPT ![idx] = value], disk[idx]>>} \cup Failed(<<disk, 0>>)

(***************************************************************************)
(* fat_fs_reserve_first_cluster: for fat_lba_index = 0, 1, ... it loads    *)
(* the buffer at fat_lba + fat_lba_index * 8, scans its first 128 words,  *)
(* marks the first zero with next_cluster, writes the buffer back and     *)
(* returns fat_lba_index * 128 + i.  The loop has no bound in the code;   *)
(* here it ends at the last sector of the FAT region (a scan that would   *)
(* read the data region has no outcome).                                   *)
(***************************************************************************)
RECURSIVE ReserveScan(_, _, _)
ReserveScan(disk, next_cluster, k) ==
  LET base == k * SectorsPerBuffer * EntriesPerSector
      free == {i \in 0 .. EntriesPerSector - 1 :
                 base + i < DiskEntries /\ disk[base + i] = 0}
      i    == CHOOSE j \in free : \A j2 \in free : j <= j2
  IN  IF base >= DiskEntries THEN {}
      ELSE Failed(<<disk, 0>>) \cup
           IF free = {} THEN ReserveScan(disk, next_cluster, k + 1)
           ELSE {<<[disk EXCEPT ![base + i] = next_cluster],
                   k * EntriesPerSector + i>>}
              \cup Failed(<<disk, 0>>)

ReserveFirstCluster(disk, next_cluster, avail) ==
  IF ~avail THEN {<<disk, 0>>} ELSE ReserveScan(disk, next_cluster, 0)

(***************************************************************************)
(* The chain of clusters FAT #1 links from c: c, FAT[c], ... up to the    *)
(* first value that is not a cluster of the volume.                        *)
(***************************************************************************)
RECURSIVE ChainFrom(_, _, _)
ChainFrom(disk, c, fuel) ==
  IF c \notin Clusters \/ fuel = 0 THEN <<>>
  ELSE <<c>> \o ChainFrom(disk, disk[c], fuel - 1)

Chain(disk, c) == ChainFrom(disk, c, NumClusters)

=============================================================================
