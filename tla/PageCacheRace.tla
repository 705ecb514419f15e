--------------------------- MODULE PageCacheRace ---------------------------
(***************************************************************************)
(* page_cache_reserve_anonymous and page_cache_release_anonymous run by    *)
(* several kernel threads that an interrupt may preempt between any two    *)
(* statements.  The critlock_acquire/critlock_release calls around the     *)
(* bitmap scan and the VM allocation are commented out in the source, so   *)
(* each call is split at the points where it reads or writes the shared   *)
(* alloced_bitmap:                                                         *)
(*   Find     page_cache_index_free_buffer scans the bitmap;              *)
(*   Reserve  page_cache_index_reserve_buffer sets the found byte;        *)
(*   VmAlloc  vmmngr_alloc_page succeeds, or fails and the byte is reset. *)
(* The scan and the allocation are single steps, so the two critical      *)
(* sections the commented-out calls would form add nothing here: Reserve  *)
(* lies between them.  No lock is modelled, since the code takes none.    *)
(***************************************************************************)
EXTENDS Integers, FiniteSets

CONSTANTS
  NumBuffers,   \* no_buffers given to page_cache_init
  Threads       \* kernel threads calling into the page cache

VARIABLES
  bitmap,       \* alloced_bitmap
  pc,           \* where each thread is inside reserve_anonymous
  free_buf,     \* the local free_buf of each thread
  held          \* slots each thread obtained and has not released

vars == <<bitmap, pc, free_buf, held>>

\* the scan and the initial bitmap are those of the sequential cache
Cache == INSTANCE PageCache WITH Gfds <- {}, Pages <- {},
                                 pages <- <<>>, anon <- {}

Slots == Cache!Slots

Init ==
  /\ bitmap = [i \in Slots |-> IF i = Cache!LastBuffer THEN 1 ELSE 0]
  /\ pc = [t \in Threads |-> "idle"]
  /\ free_buf = [t \in Threads |-> NumBuffers]
  /\ held = [t \in Threads |-> {}]

\* page_cache_index_free_buffer; DEPLET returns 0
Find(t) ==
  /\ pc[t] = "idle"
  /\ LET i == Cache!IndexFreeBuffer(bitmap)
     IN  /\ free_buf' = [free_buf EXCEPT ![t] = i]
         /\ pc' = [pc EXCEPT ![t] = IF i >= NumBuffers THEN "idle" ELSE "found"]
  /\ UNCHANGED <<bitmap, held>>

\* page_cache_index_reserve_buffer(free_buf)
Reserve(t) ==
  /\ pc[t] = "found"
  /\ bitmap' = [bitmap EXCEPT ![free_buf[t]] = 1]
  /\ pc' = [pc EXCEPT ![t] = "alloc"]
  /\ UNCHANGED <<free_buf, held>>

\* vmmngr_alloc_page: on success the address is returned to the caller, on
\* failure page_cache_index_release_buffer(free_buf) and 0 is returned
VmAlloc(t) ==
  /\ pc[t] = "alloc"
  /\ \/ /\ held' = [held EXCEPT ![t] = @ \cup {free_buf[t]}]
        /\ UNCHANGED bitmap
     \/ /\ bitmap' = [bitmap EXCEPT ![free_buf[t]] = 0]
        /\ UNCHANGED held
  /\ pc' = [pc EXCEPT ![t] = "idle"]
  /\ UNCHANGED free_buf

\* page_cache_release_anonymous of a slot the thread holds
Release(t, i) ==
  /\ pc[t] = "idle"
  /\ i \in held[t]
  /\ bitmap' = [bitmap EXCEPT ![i] = 0]
  /\ held' = [held EXCEPT ![t] = @ \ {i}]
  /\ UNCHANGED <<pc, free_buf>>

Next ==
  \E t \in Threads :
    \/ Find(t)
    \/ Reserve(t)
    \/ VmAlloc(t)
    \/ \E i \in Slots : Release(t, i)

Spec == Init /\ [][Next]_vars

TypeOK ==
  /\ bitmap \in [Slots -> {0, 1}]
  /\ pc \in [Threads -> {"idle", "found", "alloc"}]
  /\ free_buf \in [Threads -> 0 .. NumBuffers]
  /\ held \in [Threads -> SUBSET Slots]

\* The slot a thread owns or is about to own
Owns(t) == held[t] \cup (IF pc[t] = "alloc" THEN {free_buf[t]} ELSE {})

(***************************************************************************)
(* Exclusive reservation: two threads never own the same buffer, and a    *)
(* buffer a thread owns is marked reserved.  Spec section 5 requires the   *)
(* pool to be serialised; with critlock commented out two threads can     *)
(* both find the same free slot, or one thread's VM-failure path can      *)
(* clear the byte of a slot another thread now holds.                      *)
(***************************************************************************)
ExclusiveReservation ==
  \A t, u \in Threads :
    /\ t # u => Owns(t) \cap Owns(u) = {}
    /\ \A i \in Owns(t) : bitmap[i] = 1

=============================================================================
