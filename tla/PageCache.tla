----------------------------- MODULE PageCache -----------------------------
(***************************************************************************)
(* The page cache of src/MeOS/page_cache.cpp: a fixed pool of 4 KiB        *)
(* buffers, a one-byte-per-slot allocation bitmap that lives in the last   *)
(* buffer, and, per open file (gfd), a page list of records                *)
(* <<page, buffer_index, dirty>>.  Every public operation is one action;   *)
(* read-only lookups are operators.  Buffers handed out by                 *)
(* page_cache_reserve_anonymous to callers outside the cache are tracked   *)
(* in the history variable anon, so that ownership of every slot can be    *)
(* stated.                                                                 *)
(***************************************************************************)
EXTENDS Integers, Sequences, SequencesExt, FiniteSets

CONSTANTS
  NumBuffers,   \* no_buffers given to page_cache_init
  Gfds,         \* open global file descriptors (entries of the GFT)
  Pages         \* page numbers callers ask for

ASSUME NumBuffers \in Nat \ {0}

VARIABLES
  bitmap,       \* alloced_bitmap[i] \in {0,1}
  pages,        \* pages[g]: the GFT entry's page list, a sequence of finfo
  anon          \* slots returned by reserve_anonymous and not yet released

vars == <<bitmap, pages, anon>>

Slots == 0 .. NumBuffers - 1

\* the address 0 returned on failure
Nil == -1

FInfo == [page : Pages, buffer_index : Slots, dirty : BOOLEAN]

\* page_cache_get_last: the bitmap occupies the last buffer of the pool
LastBuffer == NumBuffers - 1

\* page_cache_index_free_buffer: first slot whose bitmap byte is 0, or
\* NumBuffers when there is none
IndexFreeBuffer(bm) ==
  LET free == {i \in Slots : bm[i] = 0}
  IN  IF free = {} THEN NumBuffers ELSE Min(free)

\* page_cache_file_info_create
FileInfoCreate(page, buffer_index) ==
  [page |-> page, buffer_index |-> buffer_index, dirty |-> FALSE]

\* page_cache_get_finfo: position of the first record of page in the list
\* of gfd, 0 when absent (all modelled gfds are open GFT entries)
GetFInfo(g, page) == SelectInSeq(pages[g], LAMBDA e : e.page = page)

\* page_cache_get_buffer: slot of the first record for page, Nil on a miss
GetBuffer(g, page) ==
  IF GetFInfo(g, page) = 0 THEN Nil ELSE pages[g][GetFInfo(g, page)].buffer_index

\* page_cache_is_page_dirty: FALSE on a miss
IsPageDirty(g, page) ==
  GetFInfo(g, page) # 0 /\ pages[g][GetFInfo(g, page)].dirty

\* mutant: the depletion test off by one (> for >=)
ReserveAnonymousOutcomesMutant(bm) ==
  LET i == IndexFreeBuffer(bm)
  IN  IF i > NumBuffers THEN {<<Nil, bm>>}
      ELSE {<<i, [bm EXCEPT ![i] = 1]>>, <<Nil, bm>>}

(***************************************************************************)
(* page_cache_reserve_anonymous as the set of its outcomes               *)
(* <<slot or Nil, bitmap after>>: the pool is depleted; or the first free  *)
(* slot is reserved and vmmngr_alloc_page succeeds; or it fails and the    *)
(* slot is released again.                                                 *)
(***************************************************************************)
ReserveAnonymousOutcomes(bm) ==
  LET i == IndexFreeBuffer(bm)
  IN  IF i >= NumBuffers
      THEN {<<Nil, bm>>}
      ELSE {<<i, [bm EXCEPT ![i] = 1]>>,
            <<Nil, bm>>}    \* reserved, then released on VM failure

\* mutant: list_remove unlinking prev itself instead of its successor
ListRemoveMutant(s, prev) == RemoveAt(s, prev)

\* list_remove(list, prev) of the kernel's singly linked list: unlinks the
\* node that follows prev (prev is the position of the predecessor)
ListRemove(s, prev) == RemoveAt(s, prev + 1)

\* list_remove_front
ListRemoveFront(s) == Tail(s)

(***************************************************************************)
(* The record for page removed as page_cache_release_buffer removes it:   *)
(* the head through list_remove_front, a later one through list_remove    *)
(* given its predecessor.                                                  *)
(***************************************************************************)
RemovePage(s, k) == IF k = 1 THEN ListRemoveFront(s) ELSE ListRemove(s, k - 1)

-----------------------------------------------------------------------------

\* page_cache_init: bitmap cleared, then the last buffer reserved for it;
\* every gfd registered with an empty page list
Init ==
  /\ bitmap = [i \in Slots |-> IF i = LastBuffer THEN 1 ELSE 0]
  /\ pages = [g \in Gfds |-> <<>>]
  /\ anon = {}

\* page_cache_reserve_anonymous called by a client outside the cache
ReserveAnonymous ==
  \E o \in ReserveAnonymousOutcomes(bitmap) :
    /\ bitmap' = o[2]
    /\ anon' = IF o[1] = Nil THEN anon ELSE anon \cup {o[1]}
    /\ UNCHANGED pages

\* page_cache_release_anonymous(addr) by the client holding addr
ReleaseAnonymous(i) ==
  /\ i \in anon
  /\ i < NumBuffers
  /\ bitmap' = [bitmap EXCEPT ![i] = 0]
  /\ anon' = anon \ {i}
  /\ UNCHANGED pages

\* page_cache_reserve_buffer: reserve a slot and append <<page, slot, clean>>
\* to the page list, whether or not page is already there
ReserveBuffer(g, page) ==
  \E o \in ReserveAnonymousOutcomes(bitmap) :
    /\ bitmap' = o[2]
    /\ pages' = IF o[1] = Nil THEN pages
                ELSE [pages EXCEPT ![g] = Append(@, FileInfoCreate(page, o[1]))]
    /\ UNCHANGED anon

\* page_cache_release_buffer: BAD_PAGES on an empty list, PAGE_NOT_FOUND when
\* page is absent (both leave the state alone); otherwise unlink the first
\* record of page and release its slot through page_cache_release_anonymous
ReleaseBuffer(g, page) ==
  LET k == GetFInfo(g, page)
  IN  /\ Len(pages[g]) > 0
      /\ k # 0
      /\ pages' = [pages EXCEPT ![g] = RemovePage(@, k)]
      /\ bitmap' = [bitmap EXCEPT ![pages[g][k].buffer_index] = 0]
      /\ UNCHANGED anon

\* page_cache_make_dirty: set the flag of the first record of page
MakeDirty(g, page, d) ==
  LET k == GetFInfo(g, page)
  IN  /\ k # 0
      /\ pages' = [pages EXCEPT ![g][k].dirty = d]
      /\ UNCHANGED <<bitmap, anon>>

Next ==
  \/ ReserveAnonymous
  \/ \E i \in Slots : ReleaseAnonymous(i)
  \/ \E g \in Gfds, p \in Pages :
       \/ ReserveBuffer(g, p)
       \/ ReleaseBuffer(g, p)
       \/ \E d \in BOOLEAN : MakeDirty(g, p, d)

Spec == Init /\ [][Next]_vars

-----------------------------------------------------------------------------

TypeOK ==
  /\ bitmap \in [Slots -> {0, 1}]
  /\ pages \in [Gfds -> Seq(FInfo)]
  /\ anon \subseteq Slots

\* Everyone who holds slot i: the bitmap itself, an anonymous client, or a
\* page-list record of some gfd.
Holders(i) ==
  (IF i = LastBuffer THEN {"bitmap"} ELSE {})
  \cup (IF i \in anon THEN {"anonymous"} ELSE {})
  \cup {<<g, k>> \in Gfds \X (1 .. NumBuffers) :
          k <= Len(pages[g]) /\ pages[g][k].buffer_index = i}

(***************************************************************************)
(* Buffer ownership (spec section 3, first invariant): a slot is marked    *)
(* reserved in alloced_bitmap exactly when one holder has it: the bitmap   *)
(* buffer, one anonymous client, or one <<gfd, page>> record.  It breaks   *)
(* if release_buffer unlinks a record other than the one whose slot it     *)
(* frees, if the VM-failure path of reserve_anonymous leaks the slot, or   *)
(* if the bitmap buffer is ever handed out.                                *)
(***************************************************************************)
BufferOwnership ==
  \A i \in Slots : Cardinality(Holders(i)) = bitmap[i]

=============================================================================
