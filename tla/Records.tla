------------------------------ MODULE Records ------------------------------
(***************************************************************************)
(* Records in slotted pages (src/nostr/db/record): a slot directory that   *)
(* grows up, record data that grows down, deletion that only counts the    *)
(* bytes lost, compaction, and large records whose head fills a page of    *)
(* its own and whose rest lies in a chain of overflow pages.               *)
(*                                                                         *)
(* Sizes are in units.  A unit of record data is [ev, del, n, ov]: the     *)
(* n-th unit of event ev, the first one carrying the deleted flag; with    *)
(* ev = 0 it is the prefix of a spanned record of n units whose chain      *)
(* starts at page ov.  Counters are 16 bits wide in the code, Word here.   *)
(***************************************************************************)
EXTENDS Integers, SequencesExt, FiniteSetsExt

CONSTANTS
  RecPages,       \* pages the allocator can hand out for records, none of them 0
  PageSize,       \* DB_PAGE_SIZE
  HeaderSize,     \* SLOT_PAGE_HEADER_SIZE
  EntrySize,      \* SLOT_ENTRY_SIZE
  OvSpace,        \* OVERFLOW_DATA_SPACE
  Word            \* number of values of a uint16_t

ASSUME RecordConstants ==
  /\ RecPages \subseteq Nat \ {0} /\ IsFiniteSet(RecPages)
  /\ {PageSize, HeaderSize, EntrySize, OvSpace, Word} \subseteq Nat \ {0}
  /\ PageSize > HeaderSize + EntrySize + 1
  /\ Word > 2 * PageSize

NoPage == 0
NoRid == <<0, 0>>
SPANNED_MARKER == Word - 1
PrefixSize == 1
MAX_INLINE_RECORD_SIZE == PageSize - HeaderSize - EntrySize
MaxInlineData == MAX_INLINE_RECORD_SIZE - PrefixSize

NoUnit == [ev |-> 0, del |-> FALSE, n |-> 0, ov |-> 0]
Prefix(total, ov) == [ev |-> 0, del |-> FALSE, n |-> total, ov |-> ov]
RecordUnits(ev, size, del) ==
  [i \in 1 .. size |-> [ev |-> ev, del |-> del /\ i = 1, n |-> i, ov |-> 0]]

-----------------------------------------------------------------------------
(* Slotted pages.                                                          *)
FreePage == [kind |-> "free"]
OvPage(next, data) == [kind |-> "overflow", next |-> next, data |-> data]
DeletedSlot == [offset |-> 0, length |-> 0]

slot_page_init ==
  [kind |-> "record", slots |-> <<>>, end |-> PageSize, frag |-> 0,
   data |-> [i \in 0 .. (PageSize - 1) |-> NoUnit]]

Start(page) == HeaderSize + EntrySize * Len(page.slots)
Available(page) == page.end - Start(page)
slot_page_free_space(page) == (Available(page) + page.frag) % Word

LiveSlots(page) == {i \in 1 .. Len(page.slots) : page.slots[i] # DeletedSlot}
Bytes(page, offset, length) ==
  [i \in 1 .. length |-> IF offset + i - 1 \in 0 .. (PageSize - 1)
                         THEN page.data[offset + i - 1] ELSE NoUnit]
\* Bytes that no slot refers to are not kept.
Put(data, offset, units) ==
  [i \in 0 .. (PageSize - 1) |-> IF i \in offset .. (offset + Len(units) - 1)
                                 THEN units[i - offset + 1] ELSE data[i]]
Erase(data, offset, length) == Put(data, offset, [i \in 1 .. length |-> NoUnit])

\* Mutation: the lost bytes stay counted.
slot_page_compact_KeepsFrag(page) == [page EXCEPT !.end = @ + page.frag]

\* Live records are laid out anew from the end of the page, in slot order.
slot_page_compact(page) ==
  IF page.frag = 0 THEN page
  ELSE LET upTo[i \in 0 .. Len(page.slots)] ==
             IF i = 0 THEN [slot_page_init EXCEPT !.slots = page.slots]
             ELSE LET p == upTo[i - 1]
                      s == page.slots[i]
                      newEnd == (p.end - s.length) % Word
                  IN  IF s = DeletedSlot THEN p
                      ELSE [p EXCEPT !.end = newEnd,
                                     !.slots[i].offset = newEnd,
                                     !.data = Put(@, newEnd, Bytes(page, s.offset, s.length))]
       IN  upTo[Len(page.slots)]

\* The page with the record and its slot number from 0, or FULL (slot -1).
slot_page_insert(page, units) ==
  LET reusable == {i \in 1 .. Len(page.slots) : page.slots[i] = DeletedSlot}
      needed == Len(units) + IF reusable = {} THEN EntrySize ELSE 0
      p == IF Available(page) < needed /\ Available(page) + page.frag >= needed
           THEN slot_page_compact(page) ELSE page
      offset == p.end - Len(units)
      entry == [offset |-> offset, length |-> Len(units)]
      stored == [p EXCEPT !.end = offset, !.data = Put(@, offset, units)]
  IN  IF Available(p) < needed THEN [page |-> p, slot |-> -1]
      ELSE IF reusable # {}
      THEN [page |-> [stored EXCEPT !.slots[Min(reusable)] = entry], slot |-> Min(reusable) - 1]
      ELSE [page |-> [stored EXCEPT !.slots = Append(@, entry)], slot |-> Len(p.slots)]

HasSlot(page, slot) == page.kind = "record" /\ slot < Len(page.slots)

\* The units of a record, none when it is not there.
slot_page_read(page, slot) ==
  IF ~HasSlot(page, slot) THEN <<>>
  ELSE Bytes(page, page.slots[slot + 1].offset, page.slots[slot + 1].length)

\* Mutation: the lost bytes are not counted.
slot_page_delete_NoCount(page, slot) ==
  IF ~HasSlot(page, slot) \/ page.slots[slot + 1] = DeletedSlot THEN page
  ELSE [page EXCEPT !.slots[slot + 1] = DeletedSlot]

\* Unchanged when there is nothing to delete.  The length of a spanned
\* record is counted as its marker.
slot_page_delete(page, slot) ==
  IF ~HasSlot(page, slot) \/ page.slots[slot + 1] = DeletedSlot THEN page
  ELSE LET s == page.slots[slot + 1]
       IN  [page EXCEPT !.slots[slot + 1] = DeletedSlot,
                        !.frag = (@ + s.length) % Word,
                        !.data = IF s.length = SPANNED_MARKER
                                 THEN [i \in DOMAIN @ |-> NoUnit]
                                 ELSE Erase(@, s.offset, s.length)]

-----------------------------------------------------------------------------
(* Overflow chains.                                                        *)
overflow_is_spanned(page, slot) ==
  HasSlot(page, slot) /\ page.slots[slot + 1].length = SPANNED_MARKER

NoFree(pg) == {p \in RecPages : pg[p].kind = "free"} = {}
NewPage(pg) == Min({p \in RecPages : pg[p].kind = "free"})

\* The pages of a chain: at[k] is the one that k links lead to.
IsOverflow(pg, p) == p # NoPage /\ pg[p].kind = "overflow"
OvChain(pg, first) ==
  LET N == Cardinality(RecPages)
      at[k \in 0 .. N] == IF k = 0 THEN first
                          ELSE IF IsOverflow(pg, at[k - 1]) THEN pg[at[k - 1]].next ELSE NoPage
      length == Min({k \in 0 .. N : ~IsOverflow(pg, at[k])} \cup {N})
  IN  [k \in 1 .. length |-> at[k - 1]]

overflow_free(pg, first) ==
  [p \in RecPages |-> IF p \in ToSet(OvChain(pg, first)) THEN FreePage ELSE pg[p]]

\* Chunk k of the data that does not fit into the primary page.
Chunk(units, k) ==
  LET first == MaxInlineData + (k - 1) * OvSpace + 1
  IN  SubSeq(units, first, Min({first + OvSpace - 1, Len(units)}))

\* The chain is built page by page, each linked to the one before; then the
\* primary page takes the prefix and what is left of it.  When a page is
\* missing the chain built so far is released.
overflow_insert(pg, units) ==
  LET rest == Len(units) - MaxInlineData
      chunks == (rest + OvSpace - 1) \div OvSpace
      build[k \in 0 .. chunks] ==
        IF k = 0 THEN [pages |-> pg, first |-> NoPage, last |-> NoPage, full |-> FALSE]
        ELSE LET b == build[k - 1]
                 p == NewPage(b.pages)
                 added == [b.pages EXCEPT ![p] = OvPage(NoPage, Chunk(units, k))]
             IN  IF b.full \/ NoFree(b.pages) THEN [b EXCEPT !.full = TRUE]
                 ELSE IF b.last = NoPage THEN [b EXCEPT !.pages = added, !.first = p, !.last = p]
                 ELSE [b EXCEPT !.pages = [added EXCEPT ![b.last].next = p], !.last = p]
      done == build[chunks]
      primary == NewPage(done.pages)
      head == <<Prefix(Len(units), done.first)>> \o SubSeq(units, 1, MaxInlineData)
      r == slot_page_insert(slot_page_init, head)
  IN  IF done.full \/ NoFree(done.pages)
      THEN [pages |-> overflow_free(done.pages, done.first), rid |-> NoRid]
      ELSE [pages |-> [done.pages EXCEPT ![primary] =
                         [r.page EXCEPT !.slots[r.slot + 1].length = SPANNED_MARKER]],
            rid |-> <<primary, r.slot>>]

\* Head and chain put together, into a buffer that is large enough.
overflow_read(pg, page, slot) ==
  LET at == page.slots[slot + 1].offset
      prefix == page.data[at]
      list == OvChain(pg, prefix.ov)
  IN  FlattenSeq(<<Bytes(page, at + PrefixSize, Min({MaxInlineData, prefix.n}))>>
                 \o [k \in 1 .. Len(list) |-> pg[list[k]].data])

-----------------------------------------------------------------------------
(* Records.                                                                *)
Roomy(page, length) ==
  page.kind = "record" /\ slot_page_free_space(page) >= length + EntrySize

\* The pages try_insert_existing may end up with: which record pages are in
\* the pool, and in which order, is up to the buffer pool.  0: none of them.
InsertTargets(pg, length) == {NoPage} \cup {p \in RecPages : Roomy(pg[p], length)}

record_insert(pg, units, target) ==
  IF Len(units) > MAX_INLINE_RECORD_SIZE THEN overflow_insert(pg, units)
  ELSE LET p == IF target \in RecPages THEN target ELSE NewPage(pg)
           page == IF target \in RecPages THEN pg[target] ELSE slot_page_init
           r == slot_page_insert(page, units)
       IN  IF target \notin RecPages /\ NoFree(pg) THEN [pages |-> pg, rid |-> NoRid]
           ELSE IF r.slot = -1 THEN [pages |-> [pg EXCEPT ![p] = r.page], rid |-> NoRid]
           ELSE [pages |-> [pg EXCEPT ![p] = r.page], rid |-> <<p, r.slot>>]

record_read(pg, rid) ==
  IF rid = NoRid THEN <<>>
  ELSE LET page == pg[rid[1]]
       IN  IF overflow_is_spanned(page, rid[2]) THEN overflow_read(pg, page, rid[2])
           ELSE slot_page_read(page, rid[2])

record_delete(pg, rid) ==
  LET page == pg[rid[1]]
      freed == IF overflow_is_spanned(page, rid[2])
               THEN overflow_free(pg, page.data[page.slots[rid[2] + 1].offset].ov)
               ELSE pg
  IN  [freed EXCEPT ![rid[1]] = slot_page_delete(@, rid[2])]

\* A spanned record, or one that grows, is deleted and inserted again; else
\* its bytes are overwritten.
record_update(pg, rid, units, target) ==
  LET page == pg[rid[1]]
      s == page.slots[rid[2] + 1]
  IN  IF record_read(pg, rid) = <<>> THEN [pages |-> pg, rid |-> NoRid]
      ELSE IF overflow_is_spanned(page, rid[2]) \/ Len(units) > s.length
      THEN record_insert(record_delete(pg, rid), units, target)
      ELSE [pages |-> [pg EXCEPT
                         ![rid[1]].data = Put(Erase(@, s.offset, s.length), s.offset, units),
                         ![rid[1]].slots[rid[2] + 1].length = Len(units),
                         ![rid[1]].frag = (@ + s.length - Len(units)) % Word],
            rid |-> rid]

-----------------------------------------------------------------------------
(* What holds of the pages at any time, for a state pg of them.            *)
\* The bytes a live slot occupies.
Extent(page, i) ==
  LET s == page.slots[i]
  IN  IF s.length = SPANNED_MARKER THEN s.offset .. (PageSize - 1)
      ELSE s.offset .. (s.offset + s.length - 1)

\* Live records lie between the free space and the end of the page, do not
\* overlap, and with the lost bytes fill it; a spanned record has its page
\* for itself and leaves no space, so that nothing is inserted beside it and
\* no compaction meets its marker.  After its deletion the counter holds the
\* marker, and the page is empty.
PageSound(page) ==
  page.kind = "record" =>
    LET live == LiveSlots(page)
        used == UNION {Extent(page, i) : i \in live}
    IN  /\ Start(page) <= page.end
        /\ used \subseteq page.end .. (PageSize - 1)
        /\ \A i, j \in live : i # j => Extent(page, i) \cap Extent(page, j) = {}
        /\ (\E i \in live : page.slots[i].length = SPANNED_MARKER) =>
             Cardinality(live) = 1 /\ slot_page_free_space(page) = 0
        /\ \/ page.frag = PageSize - page.end - Cardinality(used)
           \/ page.frag = SPANNED_MARKER /\ live = {}

\* Every overflow page belongs to the chain of exactly one live record.
ChainHeads(pg) ==
  {h \in RecPages \X RecPages :
     LET page == pg[h[1]] IN
       /\ page.kind = "record"
       /\ \E i \in LiveSlots(page) : /\ page.slots[i].length = SPANNED_MARKER
                                     /\ page.data[page.slots[i].offset].ov = h[2]}
ChainsSound(pg) ==
  /\ UNION {ToSet(OvChain(pg, h[2])) : h \in ChainHeads(pg)}
       = {p \in RecPages : pg[p].kind = "overflow"}
  /\ \A g, h \in ChainHeads(pg) :
       g # h => ToSet(OvChain(pg, g[2])) \cap ToSet(OvChain(pg, h[2])) = {}
=============================================================================
