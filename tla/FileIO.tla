------------------------------- MODULE FileIO -------------------------------
(***************************************************************************)
(* File contents through the page cache: fat_fs_read, fat_fs_write and     *)
(* fat_fs_sync of src/MeOS/FAT32_fs.cpp on one open file, composed with    *)
(* the PageCache module, whose bitmap and page list they change through    *)
(* fat_fs_read_to_cache.  The file's layout is fixed (an open file), its   *)
(* pages are PageSize units long and a unit is one sector, so the code's   *)
(* 4096 (bytes per page) and 8 (sectors per page) are both PageSize here.  *)
(* Sector s of the disk initially holds the value s; byte i of the         *)
(* caller's source buffer holds 100 + i, so misplaced data is visible.     *)
(* A read or write call runs page by page (pc).  Only one call runs at a  *)
(* time: calls from two threads on the same file are not modelled.        *)
(***************************************************************************)
EXTENDS Integers, Sequences, SequencesExt, FiniteSets

CONSTANTS
  NumBuffers,  \* no_buffers of the page cache
  Fd,          \* the file's global file descriptor
  PageSize,    \* units (sectors) per page
  Layout,      \* the file's data clusters, LAYOUT(node)
  ClusterLba,  \* MOUNT_DATA(mount)->cluster_lba
  DiskSectors, \* sectors of the disk in the model
  Starts,      \* start offsets callers pass
  Counts,      \* byte counts callers pass
  SyncArgs,    \* <<page_start, page_end>> pairs callers pass to sync
  IoFail       \* whether a device transfer may fail

VARIABLES
  bitmap, pages,  \* the page cache (PageCache)
  mem,            \* mem[i]: contents of page-cache buffer i
  disk,           \* disk[s]: contents of sector s
  user,           \* the caller's destination buffer of a read
  pc,             \* "idle", or where the running call is
  op, cstart, ccount,  \* the running or last call and its arguments
  cur, pg, done,  \* current_pg, the loop's pg, and `read' of the code
  result          \* what the last call returned

vars == <<bitmap, pages, mem, disk, user, pc, op, cstart, ccount, cur, pg, done, result>>

PageIds == 0 .. Len(Layout)
Cache == INSTANCE PageCache WITH Gfds <- {Fd}, Pages <- PageIds, anon <- {}
Slots == Cache!Slots
Nil == Cache!Nil

Junk == -1
UserLen == Max(Counts) + 2 * PageSize
Blank == [i \in 0 .. UserLen - 1 |-> Junk]
Sectors == 0 .. DiskSectors - 1

\* the caller's source bytes address[from .. from + len - 1]
WData(from, len) == [k \in 1 .. len |-> 100 + from + k - 1]

\* page-sized sequence s with units at+1 .. at+Len(data) replaced (memcpy)
Overwrite(s, at, data) ==
  [k \in 1 .. Len(s) |-> IF at < k /\ k <= at + Len(data) THEN data[k - at] ELSE s[k]]

\* memcpy into the caller's buffer at offset at
UserPut(u, at, data) ==
  [i \in DOMAIN u |-> IF at <= i /\ i < at + Len(data) THEN data[i - at + 1] ELSE u[i]]

-----------------------------------------------------------------------------
(* The block I/O shim.                                                     *)

\* fat_fs_read_by_lba / write_by_lba: one page of sectors from lba
ReadByLba(d, lba) == [k \in 1 .. PageSize |-> d[lba + k - 1]]
WriteByLba(d, lba, data) ==
  [s \in DOMAIN d |-> IF lba <= s /\ s < lba + PageSize THEN data[s - lba + 1] ELSE d[s]]

\* fat_fs_read_by_data_cluster: cluster_lba + (cluster - 2) * 8
DataClusterLba(c) == ClusterLba + (c - 2) * PageSize

\* fat_fs_read_by_page: the page's cluster through the layout
ReadByPage(p) == ReadByLba(disk, DataClusterLba(Layout[p + 1]))

\* fat_fs_write_by_page: passes vector_at(layout, file_page) to
\* fat_fs_write_by_lba as the lba
WriteByPage(d, p, data) == WriteByLba(d, Layout[p + 1], data)

-----------------------------------------------------------------------------
(***************************************************************************)
(* fat_fs_read_to_cache(fd, file, page): a hit returns the buffer; a miss *)
(* reserves one through page_cache_reserve_buffer (failing with            *)
(* VFS_CACHE_FULL) and fills it with fat_fs_read_by_page, which fails for *)
(* a page past the layout or on a device error; the buffer is then         *)
(* released by page, which removes the record just appended (the page was *)
(* not in the list), so the cache is as before.                            *)
(***************************************************************************)
\* the buffer contents after the call
Filled(p) ==
  IF Cache!GetBuffer(Fd, p) # Nil THEN mem[Cache!GetBuffer(Fd, p)] ELSE ReadByPage(p)

\* a miss that reserves a buffer and reads the page into it
CacheFill(p, slot) ==
  /\ Cache!GetBuffer(Fd, p) = Nil
  /\ p < Len(Layout)
  /\ Cache!ReserveBuffer(Fd, p)
  /\ Len(pages'[Fd]) = Len(pages[Fd]) + 1
  /\ slot = Last(pages'[Fd]).buffer_index

\* success: slot holds page p (mem' is set by the caller of the step)
ReadToCache(p, slot) ==
  \/ /\ Cache!GetBuffer(Fd, p) # Nil
     /\ slot = Cache!GetBuffer(Fd, p)
     /\ UNCHANGED <<bitmap, pages>>
  \/ CacheFill(p, slot)

\* page_cache_release_buffer(fd, p) applied to the cache as
\* page_cache_reserve_buffer left it: outcomes <<bitmap, pages>>
ReleaseAfterReserve(bm, list, p) ==
  LET k == SelectInSeq(list[Fd], LAMBDA e : e.page = p)
  IN  <<[bm EXCEPT ![list[Fd][k].buffer_index] = 0],
        [list EXCEPT ![Fd] = Cache!RemovePage(@, k)]>>

\* mutant: on a failed read the slot is freed but its record stays listed
ReadToCacheFailsKeepsRecord(p) ==
  /\ Cache!GetBuffer(Fd, p) = Nil
  /\ \E o \in Cache!ReserveAnonymousOutcomes(bitmap) :
       \/ o[1] = Nil /\ UNCHANGED <<bitmap, pages>>
       \/ /\ o[1] # Nil
          /\ p >= Len(Layout) \/ IoFail
          /\ bitmap' = bitmap
          /\ pages' = [pages EXCEPT ![Fd] = Append(@, Cache!FileInfoCreate(p, o[1]))]

(***************************************************************************)
(* failure: page_cache_reserve_buffer returns 0 (VFS_CACHE_FULL), or it   *)
(* reserves a slot and appends <<p, slot>>, fat_fs_read_by_page fails     *)
(* (a page past the layout, or a device error) and                        *)
(* page_cache_release_buffer(fd, p) is applied to that cache.             *)
(***************************************************************************)
ReadToCacheFails(p) ==
  /\ Cache!GetBuffer(Fd, p) = Nil
  /\ \E o \in Cache!ReserveAnonymousOutcomes(bitmap) :
       \/ o[1] = Nil /\ UNCHANGED <<bitmap, pages>>
       \/ /\ o[1] # Nil
          /\ p >= Len(Layout) \/ IoFail
          /\ LET r == ReleaseAfterReserve(o[2],
                         [pages EXCEPT ![Fd] = Append(@, Cache!FileInfoCreate(p, o[1]))], p)
             IN  bitmap' = r[1] /\ pages' = r[2]

-----------------------------------------------------------------------------
(* fat_fs_read and fat_fs_write.                                           *)

\* mutant: the first chunk not limited by count
FirstChunkMutant(s, n) == PageSize - (s % PageSize)

\* min(count, PAGE_SIZE - start % PAGE_SIZE)
FirstChunk(s, n) == Min({n, PageSize - (s % PageSize)})

Return(r) == result' = r /\ pc' = "idle"

Start(o, s, n) ==
  /\ pc = "idle"
  /\ op' = o /\ cstart' = s /\ ccount' = n

\* first page: read_to_cache(start_pg), then the partial copy
ReadBegin(s, n) ==
  LET p == s \div PageSize
      off == s % PageSize
  IN  /\ Start("read", s, n)
      /\ \/ /\ ReadToCacheFails(p)
            /\ Return(0) /\ user' = Blank /\ done' = 0
            /\ UNCHANGED <<mem, cur, pg>>
         \/ \E slot \in Slots :
              /\ ReadToCache(p, slot)
              /\ mem' = [mem EXCEPT ![slot] = Filled(p)]
              /\ user' = UserPut(Blank, 0, SubSeq(Filled(p), off + 1, off + FirstChunk(s, n)))
              /\ done' = FirstChunk(s, n) /\ cur' = p + 1 /\ pg' = 1
              /\ pc' = "loop" /\ UNCHANGED result
      /\ UNCHANGED disk

WriteBegin(s, n) ==
  LET p == s \div PageSize
      off == s % PageSize
  IN  /\ Start("write", s, n)
      /\ user' = Blank
      /\ \/ /\ ReadToCacheFails(p)
            /\ Return(0) /\ done' = 0
            /\ UNCHANGED <<mem, cur, pg>>
         \/ \E slot \in Slots :
              /\ ReadToCache(p, slot)
              /\ mem' = [mem EXCEPT ![slot] = Overwrite(Filled(p), off, WData(0, FirstChunk(s, n)))]
              /\ done' = FirstChunk(s, n) /\ cur' = p + 1 /\ pg' = 1
              /\ pc' = "loop" /\ UNCHANGED result
      /\ UNCHANGED disk

\* the loop over intermediate pages: for (pg = 1; pg < count / PAGE_SIZE; ...)
InLoop == pc = "loop" /\ pg < ccount \div PageSize

\* read += 4096; memcpy(address + read, cache, 4096)
ReadPage ==
  /\ InLoop /\ op = "read"
  /\ \/ ReadToCacheFails(cur) /\ Return(done) /\ UNCHANGED <<mem, user, cur, pg, done>>
     \/ \E slot \in Slots :
          /\ ReadToCache(cur, slot)
          /\ mem' = [mem EXCEPT ![slot] = Filled(cur)]
          /\ done' = done + PageSize
          /\ user' = UserPut(user, done + PageSize, Filled(cur))
          /\ cur' = cur + 1 /\ pg' = pg + 1
          /\ UNCHANGED <<pc, result>>
  /\ UNCHANGED <<disk, op, cstart, ccount>>

\* read += 4096; memcpy(cache, address + read, 4096)
WritePage ==
  /\ InLoop /\ op = "write"
  /\ \/ ReadToCacheFails(cur) /\ Return(done) /\ UNCHANGED <<mem, cur, pg, done>>
     \/ \E slot \in Slots :
          /\ ReadToCache(cur, slot)
          /\ mem' = [mem EXCEPT ![slot] = WData(done + PageSize, PageSize)]
          /\ done' = done + PageSize
          /\ cur' = cur + 1 /\ pg' = pg + 1
          /\ UNCHANGED <<pc, result>>
  /\ UNCHANGED <<disk, user, op, cstart, ccount>>

\* after the loop: if (read == count) return read
LoopExit ==
  /\ pc = "loop" /\ ~InLoop
  /\ IF done = ccount THEN Return(done) ELSE pc' = "last" /\ UNCHANGED result
  /\ UNCHANGED <<bitmap, pages, mem, disk, user, op, cstart, ccount, cur, pg, done>>

\* the last page: memcpy(address + read, cache, count - read)
ReadLast ==
  /\ pc = "last" /\ op = "read"
  /\ \/ ReadToCacheFails(cur) /\ Return(done) /\ UNCHANGED <<mem, user>>
     \/ \E slot \in Slots :
          /\ ReadToCache(cur, slot)
          /\ mem' = [mem EXCEPT ![slot] = Filled(cur)]
          /\ user' = UserPut(user, done, SubSeq(Filled(cur), 1, ccount - done))
          /\ Return(ccount)
  /\ UNCHANGED <<disk, op, cstart, ccount, cur, pg, done>>

\* the last page: memcpy(cache, address + read, count - read)
WriteLast ==
  /\ pc = "last" /\ op = "write"
  /\ \/ ReadToCacheFails(cur) /\ Return(done) /\ UNCHANGED mem
     \/ \E slot \in Slots :
          /\ ReadToCache(cur, slot)
          /\ mem' = [mem EXCEPT ![slot] = Overwrite(Filled(cur), 0, WData(done, ccount - done))]
          /\ Return(ccount)
  /\ UNCHANGED <<disk, user, op, cstart, ccount, cur, pg, done>>

-----------------------------------------------------------------------------
(***************************************************************************)
(* fat_fs_sync(fd, file, page_start, page_end): page_start > page_end     *)
(* means the whole layout; each page with a buffer is written with         *)
(* fat_fs_write_by_page, pages without one are skipped, and the first     *)
(* failed write ends the call with VFS_GENERAL_ERROR.  Outcomes are       *)
(* <<disk after, VFS_OK?>>.                                                *)
(***************************************************************************)
RECURSIVE SyncFrom(_, _, _)
SyncFrom(d, p, last) ==
  IF p > last THEN {<<d, TRUE>>}
  ELSE IF Cache!GetBuffer(Fd, p) = Nil THEN SyncFrom(d, p + 1, last)
  ELSE IF p >= Len(Layout) THEN {<<d, FALSE>>}
  ELSE SyncFrom(WriteByPage(d, p, mem[Cache!GetBuffer(Fd, p)]), p + 1, last)
       \cup (IF IoFail THEN {<<d, FALSE>>} ELSE {})

Sync(ps, pe) ==
  LET first == IF ps > pe THEN 0 ELSE ps
      last  == IF ps > pe THEN Len(Layout) - 1 ELSE pe
  IN  /\ pc = "idle"
      /\ \E o \in SyncFrom(disk, first, last) :
           /\ disk' = o[1]
           /\ result' = IF o[2] THEN 0 ELSE 1
      /\ op' = "sync" /\ cstart' = ps /\ ccount' = pe
      /\ UNCHANGED <<bitmap, pages, mem, user, pc, cur, pg, done>>

-----------------------------------------------------------------------------

Init ==
  /\ bitmap = [i \in Slots |-> IF i = Cache!LastBuffer THEN 1 ELSE 0]
  /\ pages = [g \in {Fd} |-> <<>>]
  /\ mem = [i \in Slots |-> [k \in 1 .. PageSize |-> Junk]]
  /\ disk = [s \in Sectors |-> s]
  /\ user = Blank
  /\ pc = "idle" /\ op = "none" /\ cstart = 0 /\ ccount = 0
  /\ cur = 0 /\ pg = 0 /\ done = 0 /\ result = 0

Next ==
  \/ \E s \in Starts, n \in Counts : ReadBegin(s, n) \/ WriteBegin(s, n)
  \/ ReadPage \/ WritePage \/ LoopExit \/ ReadLast \/ WriteLast
  \/ \E a \in SyncArgs : Sync(a[1], a[2])

Spec == Init /\ [][Next]_vars

-----------------------------------------------------------------------------

Values == {Junk} \cup Sectors \cup (100 .. 100 + UserLen + PageSize)

TypeOK ==
  /\ Cache!TypeOK
  /\ mem \in [Slots -> [1 .. PageSize -> Values]]
  /\ disk \in [Sectors -> Values]
  /\ user \in [0 .. UserLen - 1 -> Values]
  /\ pc \in {"idle", "loop", "last"}
  /\ op \in {"none", "read", "write", "sync"}
  /\ op \in {"read", "write"} => done \in 0 .. ccount

(***************************************************************************)
(* Buffer ownership holds for the composition: every slot the bitmap      *)
(* marks has exactly one holder.  When fat_fs_read_by_page fails,          *)
(* fat_fs_read_to_cache releases by page number, not by the slot it just  *)
(* reserved: the release must find the record just appended and free its  *)
(* slot, at the first page, in the loop and at the last page of a call.   *)
(***************************************************************************)
CacheBuffersOwned == Cache!BufferOwnership

\* unit b of the file as a reader sees it: the cached page, else the disk
FileView(b) ==
  LET p == b \div PageSize
      k == (b % PageSize) + 1
  IN  IF Cache!GetBuffer(Fd, p) # Nil THEN mem[Cache!GetBuffer(Fd, p)][k]
      ELSE IF p < Len(Layout) THEN ReadByPage(p)[k] ELSE Junk

(***************************************************************************)
(* Transfers are correct: when fat_fs_read returns r, the caller's buffer *)
(* holds units start .. start+r-1 of the file and nothing was written at  *)
(* or past count; when fat_fs_write returns r, those units of the file    *)
(* are the caller's r bytes.                                               *)
(***************************************************************************)
TransferCorrect ==
  pc = "idle" =>
    /\ op = "read" =>
         /\ \A i \in 0 .. result - 1 : user[i] = FileView(cstart + i)
         /\ \A i \in ccount .. UserLen - 1 : user[i] = Junk
    /\ op = "write" =>
         \A i \in 0 .. result - 1 : FileView(cstart + i) = 100 + i

\* the sectors of the file's data clusters
FileSectors ==
  UNION {DataClusterLba(Layout[k]) .. DataClusterLba(Layout[k]) + PageSize - 1 :
           k \in 1 .. Len(Layout)}

(***************************************************************************)
(* Sync writes only the file: fat_fs_sync never changes a sector outside  *)
(* the file's data clusters (the FAT, the boot sector, other files).      *)
(***************************************************************************)
DiskOutsideFileIntact == \A s \in Sectors \ FileSectors : disk[s] = s

=============================================================================
