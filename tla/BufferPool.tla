----------------------------- MODULE BufferPool -----------------------------
(***************************************************************************)
(* The buffer pool (src/nostr/db/buffer) on top of the disk manager: a     *)
(* fixed number of frames, a page table, pin counts, dirty flags and Clock *)
(* eviction.                                                               *)
(*                                                                         *)
(* The page table is a function from pages to frames; that the open        *)
(* addressing table of the code behaves like one is FrameTable's subject.  *)
(* The clients are the record and B+tree layers: single threaded, they pin *)
(* pages (several at once, a page several times), write into the frame a   *)
(* pin returned and mark the page dirty, and unpin.  The lsn of a frame is *)
(* left out: nothing in the code reads it.                                 *)
(***************************************************************************)
EXTENDS DiskManager, Clock, FiniteSetsExt

CONSTANTS
  PinLimit,      \* pin counts are uint8_t: they wrap after PinLimit
  MaxHolds       \* bound: pins clients hold on one page at a time

ASSUME PoolConstants ==
  /\ PinLimit \in Nat \ {0}
  /\ MaxHolds \in Nat \ {0}

VARIABLES
  page_ids,      \* page cached in each frame, PAGE_ID_NULL for none
  pin_counts,
  dirty_flags,
  ref_bits,
  pages,         \* content of each frame
  clock_hand,
  hash,          \* page table: frame of a page, or NoFrame
  holds,         \* history: for each frame and page, the pins of the page
                 \* that returned the frame and are not given back yet
  lost           \* history: pages of which the flush of a shutdown failed

poolVars == <<page_ids, pin_counts, dirty_flags, ref_bits, pages, clock_hand,
              hash, holds, lost>>
vars == <<diskVars, poolVars>>

NoFrame == PoolSize        \* BUFFER_FRAME_INVALID

PoolTypeOK ==
  /\ DiskTypeOK
  /\ page_ids \in [Frame -> {PAGE_ID_NULL} \cup PageId]
  /\ pin_counts \in [Frame -> 0 .. PinLimit]
  /\ dirty_flags \in [Frame -> BOOLEAN]
  /\ ref_bits \in [Frame -> BOOLEAN]
  /\ pages \in [Frame -> Nat]
  /\ clock_hand \in Frame
  /\ hash \in [PageId -> Frame \cup {NoFrame}]
  /\ holds \in [Frame -> [PageId -> 0 .. MaxHolds]]
  /\ lost \subseteq live

-----------------------------------------------------------------------------
(* buffer_pool_init on a newly created file.                              *)
AllZero == [f \in Frame |-> 0]
AllFalse == [f \in Frame |-> FALSE]
NoMapping == [p \in PageId |-> NoFrame]
NoPins == [f \in Frame |-> [p \in PageId |-> 0]]

PoolInit ==
  /\ DiskInit
  /\ page_ids = AllZero
  /\ pin_counts = AllZero
  /\ dirty_flags = AllFalse
  /\ ref_bits = AllFalse
  /\ pages = AllZero
  /\ clock_hand = 0
  /\ hash = NoMapping
  /\ holds = NoPins
  /\ lost = {}

-----------------------------------------------------------------------------
(* clock_evict, by its outcome (module Clock).                             *)
Unpinned == UnpinnedFrames(pin_counts)
Victim == ClockVictim(pin_counts, ref_bits, clock_hand)

\* The frame for a page that is not cached: an empty one, else the victim.
Empty == {f \in Frame : page_ids[f] = PAGE_ID_NULL}
MustEvict == Empty = {}
FrameFound == Empty # {} \/ Unpinned # {}
Chosen == IF MustEvict THEN Victim ELSE Min(Empty)

\* Reference bits and hand after the search.
SweptBits ==
  IF MustEvict THEN ClockRefBits(pin_counts, ref_bits, clock_hand) ELSE ref_bits

\* Mutation: the hand does not wrap around.
MovedHand_NoWrap == IF MustEvict THEN Victim + 1 ELSE clock_hand

MovedHand == IF MustEvict THEN (Victim + 1) % PoolSize ELSE clock_hand

\* Mutation: the victim keeps its entry.
Unmapped_Kept == hash

\* hash_remove of the page the victim held.
Unmapped == IF MustEvict THEN [hash EXCEPT ![page_ids[Victim]] = NoFrame] ELSE hash

(* flush_frame, for the frames in F in ascending order: what the pages on  *)
(* disk d become.                                                          *)
Flushed(d, F) ==
  [p \in PageId |->
     LET writers == {f \in F : dirty_flags[f] /\ page_ids[f] = p}
     IN  IF writers = {} THEN d[p] ELSE pages[Max(writers)]]

\* Mutation: a dirty victim is dropped.
Evicted_Dropped(d) == d

\* Flushing the frame that was chosen; an empty one has nothing to flush.
Evicted(d) == IF MustEvict THEN Flushed(d, {Victim}) ELSE d

\* The metadata of a frame that receives page p with content w.
Install(p, w, dirty) ==
  /\ page_ids' = [page_ids EXCEPT ![Chosen] = p]
  /\ pin_counts' = [pin_counts EXCEPT ![Chosen] = 1]
  /\ dirty_flags' = [dirty_flags EXCEPT ![Chosen] = dirty]
  /\ ref_bits' = [SweptBits EXCEPT ![Chosen] = TRUE]
  /\ pages' = [pages EXCEPT ![Chosen] = w]
  /\ clock_hand' = MovedHand
  /\ hash' = [Unmapped EXCEPT ![p] = Chosen]
  /\ holds' = [holds EXCEPT ![Chosen][p] = @ + 1]
  /\ UNCHANGED lost

-----------------------------------------------------------------------------
(* buffer_pool_pin.  With every frame pinned a miss returns NULL and       *)
(* changes nothing: no step.                                               *)
Readable(p) == fd /\ 0 < p /\ p < total_pages

PinHit(p) ==
  /\ fd
  /\ hash[p] # NoFrame
  /\ LET f == hash[p] IN
       /\ holds[f][p] < MaxHolds
       /\ pin_counts' = [pin_counts EXCEPT ![f] = (@ + 1) % (PinLimit + 1)]
       /\ ref_bits' = [ref_bits EXCEPT ![f] = TRUE]
       /\ holds' = [holds EXCEPT ![f][p] = @ + 1]
  /\ UNCHANGED <<diskVars, page_ids, dirty_flags, pages, clock_hand, hash, lost>>

PinMiss(p) ==
  /\ Readable(p)
  /\ hash[p] = NoFrame
  /\ FrameFound
  /\ disk' = Evicted(disk)
  /\ Install(p, Evicted(disk)[p], FALSE)
  /\ UNCHANGED <<fd, total_pages, free_list_head, free_page_count, header,
                 file_pages, live, stack>>

\* The victim is dirty and cannot be written: NULL, the sweep stays.
EvictFail ==
  /\ MustEvict /\ Unpinned # {}
  /\ dirty_flags[Victim]
  /\ ref_bits' = SweptBits
  /\ clock_hand' = MovedHand
  /\ UNCHANGED <<page_ids, pin_counts, dirty_flags, pages, hash, holds, lost>>

PinFlushFail(p) ==
  /\ fd
  /\ hash[p] = NoFrame
  /\ EvictFail
  /\ UNCHANGED diskVars

\* disk_read_page fails after the eviction: NULL; the victim has been
\* flushed and removed from the page table but keeps its page id.
PinReadFail(p) ==
  /\ fd
  /\ hash[p] = NoFrame
  /\ FrameFound
  /\ disk' = Evicted(disk)
  /\ dirty_flags' = IF MustEvict THEN [dirty_flags EXCEPT ![Victim] = FALSE] ELSE dirty_flags
  /\ ref_bits' = SweptBits
  /\ clock_hand' = MovedHand
  /\ hash' = Unmapped
  /\ UNCHANGED <<page_ids, pin_counts, pages, holds, lost, fd, total_pages,
                 free_list_head, free_page_count, header, file_pages, live, stack>>

-----------------------------------------------------------------------------
(* buffer_pool_alloc_page: disk_alloc_page first, then a frame for it.     *)
AllocPage ==
  /\ FrameFound
  /\ \/ PopFields /\ disk' = Evicted(PoppedDisk) /\ Install(free_list_head, 0, TRUE)
     \/ ExtendPopFields /\ disk' = Evicted(ExtendPoppedDisk) /\ Install(total_pages, 0, TRUE)

\* No frame, or the victim cannot be flushed: disk_free_page gives the page
\* back.  Popping a page and pushing it again leaves the free list as it
\* was; an extension made on the way stays.
AllocPageFail ==
  /\ \/ ~FrameFound /\ UNCHANGED poolVars
     \/ EvictFail
  /\ \/ free_list_head # PAGE_ID_NULL /\ UNCHANGED diskVars
     \/ free_list_head = PAGE_ID_NULL /\ disk_extend

-----------------------------------------------------------------------------
(* A client writes through the pointer its pin returned, then calls        *)
(* buffer_pool_mark_dirty with the page id.                                *)
WriteAndMarkDirty(f, p, w) ==
  /\ holds[f][p] > 0
  /\ pages' = [pages EXCEPT ![f] = w]
  /\ dirty_flags' = IF hash[p] = NoFrame THEN dirty_flags
                    ELSE [dirty_flags EXCEPT ![hash[p]] = TRUE]
  /\ UNCHANGED <<diskVars, page_ids, pin_counts, ref_bits, clock_hand, hash, holds, lost>>

(* buffer_pool_unpin, by a client whose pin of page p returned frame f.    *)
Unpin(f, p) ==
  /\ holds[f][p] > 0
  /\ LET g == hash[p] IN
       pin_counts' = IF g = NoFrame \/ pin_counts[g] = 0 THEN pin_counts
                     ELSE [pin_counts EXCEPT ![g] = @ - 1]
  /\ holds' = [holds EXCEPT ![f][p] = @ - 1]
  /\ UNCHANGED <<diskVars, page_ids, dirty_flags, ref_bits, pages, clock_hand, hash, lost>>

-----------------------------------------------------------------------------
(* buffer_pool_flush (one page) and buffer_pool_flush_all, which stops at  *)
(* the first frame that cannot be written: the frames in F are clean now.  *)
FlushFrames(F) ==
  /\ fd
  /\ \E f \in F : dirty_flags[f]
  /\ disk' = Flushed(disk, F)
  /\ dirty_flags' = [f \in Frame |-> dirty_flags[f] /\ (f \notin F \/ page_ids[f] = PAGE_ID_NULL)]
  /\ UNCHANGED <<page_ids, pin_counts, ref_bits, pages, clock_hand, hash, holds, lost,
                 fd, total_pages, free_list_head, free_page_count, header,
                 file_pages, live, stack>>

buffer_pool_flush(p) == hash[p] # NoFrame /\ FlushFrames({hash[p]})

buffer_pool_flush_all == \E n \in Frame : FlushFrames(0 .. n)

(* nostr_db_shutdown, the part below the WAL: buffer_pool_shutdown flushes *)
(* every frame and drops the pool, disk_manager_close writes the header.   *)
(* The result of a flush is ignored: what the frames in F hold is lost.    *)
Shutdown ==
  /\ fd
  /\ holds = NoPins
  /\ \E F \in SUBSET {f \in Frame : dirty_flags[f] /\ page_ids[f] # PAGE_ID_NULL} :
       /\ disk' = Flushed(disk, Frame \ F)
       /\ lost' = lost \cup {page_ids[f] : f \in F}
  /\ fd' = FALSE
  /\ header' = FlushedHeader
  /\ page_ids' = AllZero /\ pin_counts' = AllZero
  /\ dirty_flags' = AllFalse /\ ref_bits' = AllFalse
  /\ pages' = AllZero /\ clock_hand' = 0 /\ hash' = NoMapping
  /\ UNCHANGED <<total_pages, free_list_head, free_page_count, file_pages, live,
                 stack, holds>>

Restart == disk_manager_open /\ UNCHANGED poolVars

-----------------------------------------------------------------------------
\* Clients reach pages through ids stored in live pages, so they pin live
\* pages only.
PoolNext ==
  \/ \E p \in live : PinHit(p) \/ PinMiss(p) \/ PinFlushFail(p)
  \/ \E p \in PageId : buffer_pool_flush(p)
  \/ AllocPage
  \/ AllocPageFail
  \/ \E f \in Frame, p \in PageId :
       \/ \E w \in Words : WriteAndMarkDirty(f, p, w)
       \/ Unpin(f, p)
  \/ buffer_pool_flush_all
  \/ Shutdown
  \/ Restart

PoolSpec == PoolInit /\ [][PoolNext]_vars

\* With reads of the file that fail.
PoolReadErrorSpec == PoolInit /\ [][PoolNext \/ \E p \in live : PinReadFail(p)]_vars

\* overflow_free and btree_delete_dup release a page behind the pool's back:
\* they call disk_free_page on a page they have just read through the pool,
\* after unpinning it.
FreeBehindPool(p) ==
  /\ p \in live
  /\ hash[p] # NoFrame /\ holds[hash[p]][p] = 0
  /\ FreePage(p)
  /\ UNCHANGED poolVars

PoolFreeSpec == PoolInit /\ [][PoolNext \/ \E p \in PageId : FreeBehindPool(p)]_vars

-----------------------------------------------------------------------------
\* PINS.  While a client holds a pin, the frame it points into is the cached
\* copy of its page: neither eviction nor allocation nor another client's
\* unpin takes it away, and the pin count is the number of pins held.
PinnedStays ==
  \A f \in Frame, p \in PageId : holds[f][p] > 0 =>
    /\ page_ids[f] = p
    /\ hash[p] = f
    /\ pin_counts[f] = holds[f][p]

\* ONE COPY.  Page table and frames agree, so a page has at most one frame,
\* and every frame that is not empty can be found.
OneCopy ==
  /\ \A p \in PageId : hash[p] # NoFrame => page_ids[hash[p]] = p
  /\ \A f \in Frame : page_ids[f] # PAGE_ID_NULL => hash[page_ids[f]] = f

\* What a client reads when it pins page p.
ContentOf(p) ==
  IF p \notin live THEN 0 ELSE IF hash[p] # NoFrame THEN pages[hash[p]] ELSE disk[p]

\* TRANSPARENCY.  Through misses, evictions, failed flushes and restarts, the
\* pool is an array of pages, of those that no shutdown has failed to write.
Store == INSTANCE PageStore
           WITH inUse <- live,
                content <- [p \in PageId |-> IF p \in lost THEN 0 ELSE ContentOf(p)]

ImplementsStore == Store!StoreSpec
=============================================================================
