----------------------------- MODULE FatVolume -----------------------------
(***************************************************************************)
(* A mounted FAT32 volume as src/MeOS/FAT32_fs.cpp drives it: the FAT      *)
(* region (FatTable), the root directory's cluster of 32-byte entries, and *)
(* the VFS nodes fat_fs_mount built for it, each with its metadata slot    *)
(* and its layout (the list of its data clusters).  The operations are the *)
(* driver's whole calls: fat_fs_open, fat_fs_create_node,                  *)
(* fat_fs_delete_node and fat_fs_move_node on files of the root directory, *)
(* and a remount.  The state after fat_fs_mount is the initial state.      *)
(* File contents are not modelled.                                         *)
(***************************************************************************)
EXTENDS Integers, Sequences, SequencesExt, FiniteSets

CONSTANTS
  EntriesPerSector, SectorsPerBuffer, SectorsPerFat, EOF, IoFail,
  Files,           \* VFS nodes that may exist (names are model values)
  SlotsPerCluster, \* directory entries per cluster (128 in the code)
  RootCluster,     \* root_dir_first_cluster
  InitImage,       \* root entries on the mounted image: <<[file, chain]>>
  CacheBuffers,    \* usable page-cache buffers (the pool less the bitmap)
  InitNodeResults, \* values fat_fs_initialize_node_cluster may return
  MaxLayout        \* bound on the length of a node's layout

VARIABLES
  disk,     \* the FAT region (FAT #1 and FAT #2)
  dirent,   \* dirent[i]: slot i of the root directory cluster
  node,     \* node[f]: the VFS node of f (exists = FALSE when there is none)
  cached    \* page-cache buffers the driver still holds between calls

vars == <<disk, dirent, node, cached>>

Fat == INSTANCE FatTable

NoNode == "none"

\* mutant: the bitmap buffer counted as usable (<= for <)
AvailMutant(k) == cached + k <= CacheBuffers

\* page_cache_reserve_buffer finds a free buffer while k more are held
Avail(k) == cached + k < CacheBuffers

\* node[f] when f has no VFS node
Dropped == [exists |-> FALSE, slot |-> 0, layout |-> <<>>]
Slots == 0 .. SlotsPerCluster - 1

(***************************************************************************)
(* A 32-byte short entry: its first byte is 0x00 (mark "end"), 0xE5       *)
(* (mark "deleted") or the first letter of a name (mark "used"); deleting  *)
(* rewrites only that byte.  A slot never written is zero-filled.  The    *)
(* first cluster is split into a 16-bit low and a 16-bit high word; masks *)
(* are remainders and a (uint16) cast is % 2^16.                          *)
(***************************************************************************)
Word16 == 0 .. 2^16 - 1
Entry == [mark : {"end", "deleted", "used"}, file : Files \cup {NoNode},
          cluster_low : Word16, cluster_high : Word16]
ZeroEntry == [mark |-> "end", file |-> NoNode, cluster_low |-> 0, cluster_high |-> 0]
IsEntry(e) == e.mark = "used"

\* fat_fs_create_short_entry_from_node: the name's first letter marks the
\* entry used; cluster_low = (uint16)c, cluster_high = (uint16)(c >> 16) & 0x0FFF
ShortEntryFor(f, c) ==
  [mark |-> "used", file |-> f,
   cluster_low |-> c % 2^16, cluster_high |-> ((c \div 2^16) % 2^16) % 2^12]

\* fat_fs_get_entry_data_cluster: cluster_low + (cluster_high & 0x0FFFFFFF)
GetEntryDataCluster(e) == e.cluster_low + (e.cluster_high % 2^28)

\* the first cluster an entry names in the FAT32 layout: high * 2^16 + low
FirstCluster(e) == e.cluster_high * 2^16 + e.cluster_low

\* cluster ids of a chain as a set
Owned(c) == ToSet(Fat!Chain(disk, c))

(***************************************************************************)
(* The mounted image: FAT #1 and FAT #2 hold the same chains, entries 0    *)
(* and 1 are reserved, the root directory lists InitImage in slot order.   *)
(***************************************************************************)
ImageChains == {<<RootCluster>>} \cup {InitImage[i].chain : i \in 1 .. Len(InitImage)}

InitFat(j) ==
  IF j < 2 THEN EOF
  ELSE IF \E ch \in ImageChains : \E p \in 1 .. Len(ch) : ch[p] = j
  THEN LET ch == CHOOSE ch \in ImageChains : \E p \in 1 .. Len(ch) : ch[p] = j
           p  == CHOOSE p \in 1 .. Len(ch) : ch[p] = j
       IN  IF p = Len(ch) THEN EOF ELSE ch[p + 1]
  ELSE 0

(***************************************************************************)
(* fat_fs_read_directory on the root cluster: walking the slots in order,  *)
(* it stops at the first 0x00, skips 0xE5 and builds one node per used     *)
(* entry, with the slot and a layout holding the entry's first cluster.   *)
(* The model keeps one node per name: of two entries naming the same file *)
(* the first is kept.                                                      *)
(***************************************************************************)
ReadDirectory(d) ==
  LET seen    == {i \in Slots : \A j \in 0 .. i : d[j].mark # "end"}
      live(f) == {i \in seen : d[i].mark = "used" /\ d[i].file = f}
  IN  [f \in Files |->
         IF live(f) = {} THEN Dropped
         ELSE LET i == CHOOSE i \in live(f) : \A j \in live(f) : i <= j
              IN  [exists |-> TRUE, slot |-> i, layout |-> <<GetEntryDataCluster(d[i])>>]]

\* the root directory cluster of the mounted image
ImageDirectory ==
  [i \in Slots |->
     IF i < Len(InitImage)
     THEN ShortEntryFor(InitImage[i + 1].file, InitImage[i + 1].chain[1])
     ELSE ZeroEntry]

\* fat_fs_mount: the VFS tree is what fat_fs_read_directory finds in the
\* root directory; the page cache is freshly initialised
Init ==
  /\ disk = [i \in Fat!FatIndex |-> InitFat(i % Fat!NumClusters)]
  /\ dirent = ImageDirectory
  /\ node = ReadDirectory(ImageDirectory)
  /\ cached = 0

-----------------------------------------------------------------------------

(***************************************************************************)
(* fat_fs_load_file_layout: append fat_fs_find_next_cluster(last) to the  *)
(* layout until a value >= FAT_EOF comes back.  A 0 returned on failure is *)
(* appended like any cluster (the check for it is commented out).  The    *)
(* layout vector has no bound in the code; here an open that would grow   *)
(* it past MaxLayout clusters has no outcome.                              *)
(***************************************************************************)
RECURSIVE LoadLayout(_, _)
LoadLayout(layout, fuel) ==
  UNION {IF next >= EOF THEN {layout}
         ELSE IF fuel = 0 THEN {}
         ELSE LoadLayout(Append(layout, next), fuel - 1) :
           next \in Fat!FindNextCluster(disk, Last(layout), Avail(0))}

\* fat_fs_open
Open(f) ==
  /\ node[f].exists
  /\ \E layout \in LoadLayout(node[f].layout, MaxLayout - Len(node[f].layout)) :
       node' = [node EXCEPT ![f].layout = layout]
  /\ UNCHANGED <<disk, dirent, cached>>

(***************************************************************************)
(* fat_fs_find_empty_entry on the root directory's cluster: the first     *)
(* slot j < 127 (j < SlotsPerCluster - 1) whose first byte is 0xE5 or 0.  *)
(***************************************************************************)
FreeSlots(d) == {j \in 0 .. SlotsPerCluster - 2 : d[j].mark \in {"deleted", "end"}}
FindEmptyEntry(d) == CHOOSE j \in FreeSlots(d) : \A j2 \in FreeSlots(d) : j <= j2

\* fat_fs_initialize_node_cluster: FALSE when the read or the write of the
\* new cluster fails; after a successful write it falls off its end, so its
\* result is one of InitNodeResults
InitializeNodeCluster == InitNodeResults \cup Fat!Failed(FALSE)

(***************************************************************************)
(* fat_fs_create_node(mount, root, name, VFS_FILE).  The (fd, 0) buffer   *)
(* it reserves first is released on every return except the two where    *)
(* fat_fs_find_empty_entry fails.  fat_fs_reserve_first_cluster needs a   *)
(* second buffer for its scratch.  fat_fs_initialize_node_cluster falls   *)
(* off its end after a successful write without a return statement: its  *)
(* result is one of InitNodeResults, the values the build can leave in    *)
(* the return register.                                                    *)
(***************************************************************************)
CreateNode(f) ==
  /\ ~node[f].exists
  /\ \/ \* page_cache_reserve_buffer(fd, 0) fails
        /\ ~Avail(0) \/ IoFail
        /\ UNCHANGED <<disk, dirent, node, cached>>
     \/ \* the directory cluster cannot be read, or it has no free slot
        /\ Avail(0)
        /\ IoFail \/ FreeSlots(dirent) = {}
        /\ cached' = cached + 1
        /\ UNCHANGED <<disk, dirent, node>>
     \/ /\ Avail(0)
        /\ FreeSlots(dirent) # {}
        /\ \E r \in Fat!ReserveFirstCluster(disk, EOF, Avail(1)) :
             /\ disk' = r[1]
             /\ IF r[2] = 0
                THEN UNCHANGED <<dirent, node>>
                ELSE \/ \* the directory cluster write fails
                        /\ IoFail
                        /\ UNCHANGED <<dirent, node>>
                     \/ /\ dirent' = [dirent EXCEPT ![FindEmptyEntry(dirent)] =
                                        ShortEntryFor(f, r[2])]
                        /\ \E initialized \in InitializeNodeCluster :
                             node' = IF initialized
                                     THEN [node EXCEPT ![f] =
                                             [exists |-> TRUE, slot |-> FindEmptyEntry(dirent),
                                              layout |-> <<r[2]>>]]
                                     ELSE node
        /\ UNCHANGED cached

(***************************************************************************)
(* The loop of fat_fs_delete_node: mark each cluster 0 and follow the     *)
(* previous value mark returned, until FAT_EOF; a 0 ends it with an error. *)
(***************************************************************************)
\* mutant: the loop never follows the value mark returned
ZeroChainMutant(d, c, fuel) ==
  {r[1] : r \in Fat!MarkCluster(d, c, 0, Avail(0))}

RECURSIVE ZeroChain(_, _, _)
ZeroChain(d, c, fuel) ==
  IF c >= EOF THEN {d}
  ELSE IF fuel = 0 THEN {}
  ELSE UNION {IF r[2] = 0 THEN {r[1]} ELSE ZeroChain(r[1], r[2], fuel - 1) :
                r \in Fat!MarkCluster(d, c, 0, Avail(0))}

\* mutant: the first byte written to the wrong offset, the entry left as it was
DeletedMarkKeepsByte(index) == dirent[index].mark

\* mutant: 0x00 written whatever follows the entry
DeletedMarkAlwaysEnd(index) == "end"

\* the first byte fat_fs_delete_node writes into the entry at index
DeletedMark(index) ==
  IF index < SlotsPerCluster - 1 /\ dirent[index + 1].mark = "end" THEN "end" ELSE "deleted"

(***************************************************************************)
(* fat_fs_delete_node on a file: rewrite the entry's first byte in the    *)
(* metadata cluster (any failure there returns -1 with nothing changed),  *)
(* then free the chain from layout[0].  The VFS caller drops the node     *)
(* once its entry is gone.                                                 *)
(***************************************************************************)
DeleteNode(f) ==
  /\ node[f].exists
  /\ \/ /\ ~Avail(0) \/ IoFail
        /\ UNCHANGED <<disk, dirent, node>>
     \/ /\ Avail(0)
        /\ dirent' = [dirent EXCEPT ![node[f].slot].mark = DeletedMark(node[f].slot)]
        /\ \E d \in ZeroChain(disk, node[f].layout[1], Fat!NumClusters + 1) :
             disk' = d
        /\ node' = [node EXCEPT ![f] = Dropped]
  /\ UNCHANGED cached

(***************************************************************************)
(* fat_fs_move_node(mount, node, root): the entry is copied, its slot     *)
(* marked as delete marks it and written back; then fat_fs_find_empty_entry *)
(* re-reads the directory and the copy goes to its first free slot.  When *)
(* there is none, or that lookup's read fails, the call still returns     *)
(* VFS_OK; a failed write of the copy returns -1.  Either way the source  *)
(* slot stays marked on disk.  Any failure before the first write changes *)
(* nothing.  Only the root directory is modelled, so source and target    *)
(* directory are the same cluster.                                         *)
(***************************************************************************)
MoveNode(f) ==
  LET src    == node[f].slot
      marked == [dirent EXCEPT ![src].mark = DeletedMark(src)]
  IN  /\ node[f].exists
      /\ \/ /\ ~Avail(0) \/ IoFail
            /\ UNCHANGED <<dirent, node>>
         \/ /\ Avail(0)
            /\ FreeSlots(marked) = {} \/ IoFail
            /\ dirent' = marked
            /\ UNCHANGED node
         \/ /\ Avail(0)
            /\ FreeSlots(marked) # {}
            /\ dirent' = [marked EXCEPT ![FindEmptyEntry(marked)] = dirent[src]]
            /\ node' = [node EXCEPT ![f].slot = FindEmptyEntry(marked)]
      /\ UNCHANGED <<disk, cached>>

(***************************************************************************)
(* A reboot: the page cache is initialised again and fat_fs_mount rebuilds *)
(* the VFS tree from the root directory.  When the reservation or read of *)
(* the root cluster fails, fat_fs_read_directory returns an empty list.   *)
(***************************************************************************)
Remount ==
  /\ \/ /\ IoFail
        /\ node' = [f \in Files |-> Dropped]
     \/ node' = ReadDirectory(dirent)
  /\ cached' = 0
  /\ UNCHANGED <<disk, dirent>>

Next ==
  \/ Remount
  \/ \E f \in Files :
    \/ Open(f)
    \/ CreateNode(f)
    \/ DeleteNode(f)
    \/ MoveNode(f)

Spec == Init /\ [][Next]_vars

-----------------------------------------------------------------------------

TypeOK ==
  /\ disk \in [Fat!FatIndex -> Fat!FatValues]
  /\ dirent \in [Slots -> Entry]
  /\ node \in [Files -> [exists : BOOLEAN, slot : Slots,
                          layout : BoundedSeq(0 .. EOF, MaxLayout)]]
  /\ cached \in 0 .. CacheBuffers

LiveSlots == {i \in Slots : IsEntry(dirent[i])}

\* the root directory (slot -1) and every live entry, with its first cluster
Owners == {<<-1, RootCluster>>} \cup
          {<<i, FirstCluster(dirent[i])>> : i \in LiveSlots}

(***************************************************************************)
(* Files own disjoint chains: the first cluster of every live entry is a  *)
(* cluster of the volume allocated in FAT #1, and no cluster lies on the  *)
(* chains of two entries (or of an entry and the root directory).  It     *)
(* breaks when fat_fs_reserve_first_cluster returns a cluster other than  *)
(* the one it marked, handing a used cluster to a new file.               *)
(***************************************************************************)
FilesOwnDisjointChains ==
  /\ \A i \in LiveSlots :
       FirstCluster(dirent[i]) \in Fat!Clusters /\ disk[FirstCluster(dirent[i])] # 0
  /\ \A o1, o2 \in Owners :
       o1[1] # o2[1] => Owned(o1[2]) \cap Owned(o2[2]) = {}

(***************************************************************************)
(* No cluster leaks: every cluster allocated in FAT #1 lies on the chain   *)
(* of the root directory or of a live entry, so create and delete together *)
(* return every cluster they take.                                          *)
(***************************************************************************)
NoLeakedCluster ==
  \A c \in Fat!Clusters :
    disk[c] # 0 => \E o \in Owners : c \in Owned(o[2])

(***************************************************************************)
(* The directory stays readable: no used or deleted entry follows an      *)
(* end-of-directory byte, so the walker that stops at the first 0x00 sees *)
(* every live file.  Delete writes 0x00 only before another 0x00, and      *)
(* create fills the first free slot.                                       *)
(***************************************************************************)
DirectoryWellFormed ==
  \A i, j \in Slots : i < j /\ dirent[i].mark = "end" => dirent[j].mark = "end"

=============================================================================
