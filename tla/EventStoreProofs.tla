-------------------------- MODULE EventStoreProofs --------------------------
(***************************************************************************)
(* Proofs about the event store: record pages and overflow chains stay     *)
(* sound, what was written is read back, and until an operation stops      *)
(* half-way the store is an archive and its indexes agree with it.         *)
(*                                                                         *)
(* Layout(page) is PageSound in terms of offsets and lengths.  Held says   *)
(* for all pages which event each record is of, with the flag it carries   *)
(* and the overflow pages it owns.                                         *)
(***************************************************************************)
EXTENDS EventStore, NatFacts, SequenceTheorems, FiniteSetTheorems, TLAPS

Unit == [ev : Nat, del : BOOLEAN, n : Nat, ov : Nat]
SlotEntry == [offset : Nat, length : Nat]
Bytes0 == 0 .. (PageSize - 1)
RecordPage == [kind : {"record"}, slots : Seq(SlotEntry), end : Nat, frag : Nat,
               data : [Bytes0 -> Unit]]
OverflowPage == [kind : {"overflow"}, next : RecPages \cup {NoPage}, data : Seq(Unit)]

LEMMA Sizes ==
  /\ PageSize \in Nat /\ HeaderSize \in Nat /\ EntrySize \in Nat /\ OvSpace \in Nat /\ Word \in Nat
  /\ HeaderSize >= 1 /\ EntrySize >= 1 /\ OvSpace >= 1 /\ PageSize > HeaderSize + EntrySize + 1
  /\ Word > 2 * PageSize
  /\ SPANNED_MARKER = Word - 1 /\ SPANNED_MARKER \in Nat /\ SPANNED_MARKER >= 2 * PageSize
  /\ MAX_INLINE_RECORD_SIZE = PageSize - HeaderSize - EntrySize
  /\ MAX_INLINE_RECORD_SIZE \in Nat /\ MAX_INLINE_RECORD_SIZE >= 2
  /\ MaxInlineData = MAX_INLINE_RECORD_SIZE - 1 /\ MaxInlineData \in Nat /\ MaxInlineData >= 1
  /\ NoPage = 0 /\ PrefixSize = 1
  BY RecordConstants DEF SPANNED_MARKER, MAX_INLINE_RECORD_SIZE, MaxInlineData, NoPage, PrefixSize

\* The part of it that most steps need.
LEMMA PageFits == PageSize \in Nat /\ Word \in Nat /\ Word > PageSize
  BY RecordConstants

\* A sequence given by a function on 1 .. n.
LEMMA FunctionSeq ==
  ASSUME NEW S, NEW n \in Nat, NEW f \in [1 .. n -> S]
  PROVE  f \in Seq(S) /\ Len(f) = n
  BY IsASeq

LEMMA SeqElement ==
  ASSUME NEW S, NEW s \in Seq(S)
  PROVE  Len(s) \in Nat /\ \A i \in 1 .. Len(s) : s[i] \in S
  BY LenProperties, ElementOfSeq

LEMMA NoUnitType == NoUnit \in Unit
  BY DEF NoUnit, Unit

-----------------------------------------------------------------------------
(* Writing into a page.                                                    *)
LEMMA PutType ==
  ASSUME NEW data \in [Bytes0 -> Unit], NEW units \in Seq(Unit), NEW offset \in Nat
  PROVE  Put(data, offset, units) \in [Bytes0 -> Unit]
  <1>1. Len(units) \in Nat /\ \A j \in 1 .. Len(units) : units[j] \in Unit BY SeqElement
  <1>2. ASSUME NEW x \in Bytes0, x \in offset .. (offset + Len(units) - 1)
        PROVE  units[x - offset + 1] \in Unit
    <2>1. x - offset + 1 \in 1 .. Len(units) BY <1>1, <1>2, Sizes DEF Bytes0
    <2>2. QED BY <1>1, <2>1
  <1>3. QED BY <1>2 DEF Put, Bytes0

LEMMA PutFacts ==
  ASSUME NEW data \in [Bytes0 -> Unit], NEW units \in Seq(Unit), NEW offset \in Nat,
         offset + Len(units) <= PageSize
  PROVE  /\ Put(data, offset, units) \in [Bytes0 -> Unit]
         /\ \A j \in 1 .. Len(units) : Put(data, offset, units)[offset + j - 1] = units[j]
         /\ \A x \in Bytes0 : x < offset \/ x >= offset + Len(units) =>
              Put(data, offset, units)[x] = data[x]
  <1>1. Len(units) \in Nat /\ \A j \in 1 .. Len(units) : units[j] \in Unit BY SeqElement
  <1>3. Put(data, offset, units) \in [Bytes0 -> Unit] BY PutType
  <1>4. ASSUME NEW j \in 1 .. Len(units)
        PROVE  Put(data, offset, units)[offset + j - 1] = units[j]
    <2>1. /\ offset + j - 1 \in Bytes0 /\ offset + j - 1 \in offset .. (offset + Len(units) - 1)
          /\ (offset + j - 1) - offset + 1 = j
      BY <1>1, Sizes DEF Bytes0
    <2>2. QED BY <2>1 DEF Put, Bytes0
  <1>5. ASSUME NEW x \in Bytes0, x < offset \/ x >= offset + Len(units)
        PROVE  Put(data, offset, units)[x] = data[x]
    <2>1. x \notin offset .. (offset + Len(units) - 1) BY <1>1, <1>5, Sizes DEF Bytes0
    <2>2. QED BY <2>1 DEF Put, Bytes0
  <1>6. QED BY <1>3, <1>4, <1>5

LEMMA EraseFacts ==
  ASSUME NEW data \in [Bytes0 -> Unit], NEW length \in Nat, NEW offset \in Nat,
         offset + length <= PageSize
  PROVE  /\ Erase(data, offset, length) \in [Bytes0 -> Unit]
         /\ \A x \in Bytes0 : x < offset \/ x >= offset + length =>
              Erase(data, offset, length)[x] = data[x]
  <1> DEFINE units == [i \in 1 .. length |-> NoUnit]
  <1>1. units \in [1 .. length -> Unit] BY NoUnitType
  <1>2. Erase(data, offset, length) = Put(data, offset, units) BY DEF Erase
  <1> HIDE DEF units
  <1>3. units \in Seq(Unit) /\ Len(units) = length BY <1>1, FunctionSeq
  <1>4. offset + Len(units) <= PageSize BY <1>3
  <1>5. /\ Put(data, offset, units) \in [Bytes0 -> Unit]
        /\ \A x \in Bytes0 : x < offset \/ x >= offset + Len(units) =>
             Put(data, offset, units)[x] = data[x]
    BY <1>3, <1>4, PutFacts
  <1>6. QED BY <1>2, <1>3, <1>5

LEMMA BytesFacts ==
  ASSUME NEW page \in RecordPage, NEW offset \in Nat, NEW length \in Nat
  PROVE  /\ Bytes(page, offset, length) \in Seq(Unit) /\ Len(Bytes(page, offset, length)) = length
         /\ \A j \in 1 .. length : offset + j <= PageSize =>
              Bytes(page, offset, length)[j] = page.data[offset + j - 1]
  <1>1. page.data \in [Bytes0 -> Unit] BY DEF RecordPage
  <1>2. Bytes(page, offset, length) \in [1 .. length -> Unit]
    BY <1>1, NoUnitType DEF Bytes, Bytes0
  <1>3. ASSUME NEW j \in 1 .. length, offset + j <= PageSize
        PROVE  Bytes(page, offset, length)[j] = page.data[offset + j - 1]
    <2>1. offset + j - 1 \in 0 .. (PageSize - 1) BY <1>3, Sizes
    <2>2. QED BY <2>1 DEF Bytes
  <1> DEFINE b == Bytes(page, offset, length)
  <1> HIDE DEF b
  <1>4. b \in Seq(Unit) /\ Len(b) = length
    <2>1. b \in [1 .. length -> Unit] BY <1>2 DEF b
    <2>2. QED BY <2>1, FunctionSeq
  <1>5. QED BY <1>3, <1>4 DEF b

-----------------------------------------------------------------------------
(* Layout of a record page.                                                *)
SlotSound(page, i) ==
  LET s == page.slots[i]
  IN  /\ s.length >= 1 /\ page.end <= s.offset
      /\ \/ s.offset + s.length <= PageSize
         \/ /\ s.length = SPANNED_MARKER /\ LiveSlots(page) = {i}
            /\ page.frag = 0 /\ page.end = Start(page)
            /\ s.offset = page.end /\ s.offset = PageSize - MAX_INLINE_RECORD_SIZE

Apart(page, i, j) ==
  \/ page.slots[i].offset + page.slots[i].length <= page.slots[j].offset
  \/ page.slots[j].offset + page.slots[j].length <= page.slots[i].offset

Used(page) == UNION {Extent(page, i) : i \in LiveSlots(page)}

\* The counter of lost bytes, or what the deletion of a large record leaves.
FragOK(page) ==
  \/ page.frag = PageSize - page.end - Cardinality(Used(page))
  \/ page.frag = SPANNED_MARKER /\ LiveSlots(page) = {} /\ page.end = Start(page)

Layout(page) ==
  /\ page \in RecordPage
  /\ Start(page) <= page.end /\ page.end <= PageSize
  /\ \A i \in LiveSlots(page) : SlotSound(page, i)
  /\ \A i, j \in LiveSlots(page) : i # j => Apart(page, i, j)
  /\ FragOK(page)

\* Slot i holds the same bytes in both pages.
SameRecord(page, p2, i) ==
  /\ p2.slots[i].length = page.slots[i].length
  /\ \A j \in 1 .. page.slots[i].length :
       p2.data[p2.slots[i].offset + j - 1] = page.data[page.slots[i].offset + j - 1]

LEMMA PageTypes ==
  ASSUME NEW page \in RecordPage
  PROVE  /\ page.kind = "record" /\ page.slots \in Seq(SlotEntry) /\ Len(page.slots) \in Nat
         /\ page.end \in Nat /\ page.frag \in Nat /\ page.data \in [Bytes0 -> Unit]
         /\ \A i \in 1 .. Len(page.slots) :
              page.slots[i].offset \in Nat /\ page.slots[i].length \in Nat
         /\ \A i \in LiveSlots(page) :
              /\ i \in 1 .. Len(page.slots)
              /\ page.slots[i].offset \in Nat /\ page.slots[i].length \in Nat
         /\ Start(page) \in Nat /\ Start(page) >= HeaderSize
  <1>1. /\ page.kind = "record" /\ page.slots \in Seq(SlotEntry)
        /\ page.end \in Nat /\ page.frag \in Nat /\ page.data \in [Bytes0 -> Unit]
    BY DEF RecordPage
  <1>2. Len(page.slots) \in Nat /\ \A i \in 1 .. Len(page.slots) : page.slots[i] \in SlotEntry
    BY <1>1, SeqElement
  <1>3. \A i \in 1 .. Len(page.slots) : page.slots[i].offset \in Nat /\ page.slots[i].length \in Nat
    BY <1>2 DEF SlotEntry
  <1>4. EntrySize * Len(page.slots) \in Nat BY <1>2, Sizes
  <1>5. Start(page) \in Nat /\ Start(page) >= HeaderSize BY <1>4, Sizes DEF Start
  <1>6. QED BY <1>1, <1>2, <1>3, <1>5 DEF LiveSlots

\* Live records lie above the free space.
LEMMA UsedFacts ==
  ASSUME NEW page, Layout(page)
  PROVE  /\ \A i \in LiveSlots(page) : Extent(page, i) \subseteq page.end .. (PageSize - 1)
         /\ Used(page) \subseteq page.end .. (PageSize - 1)
         /\ IsFiniteSet(Used(page))
         /\ Cardinality(Used(page)) \in Nat /\ Cardinality(Used(page)) <= PageSize - page.end
  <1>1. page \in RecordPage BY DEF Layout
  <1>2. ASSUME NEW i \in LiveSlots(page)
        PROVE  Extent(page, i) \subseteq page.end .. (PageSize - 1)
    <2>1. SlotSound(page, i) BY DEF Layout
    <2>2. page.slots[i].offset \in Nat /\ page.slots[i].length \in Nat /\ page.end \in Nat
      BY <1>1, PageTypes
    <2>3. QED BY <2>1, <2>2, Sizes DEF SlotSound, Extent
  <1>3. Used(page) \subseteq page.end .. (PageSize - 1) BY <1>2 DEF Used
  <1>4. page.end \in Nat /\ page.end <= PageSize BY <1>1, PageTypes DEF Layout
  <1>5. /\ IsFiniteSet(page.end .. (PageSize - 1))
        /\ Cardinality(page.end .. (PageSize - 1)) = PageSize - page.end
    <2>1. page.end \in Int /\ PageSize - 1 \in Int BY <1>4, Sizes
    <2>2. IsFiniteSet(page.end .. (PageSize - 1))
      BY <2>1, FS_Interval
    <2>3. Cardinality(page.end .. (PageSize - 1))
            = IF page.end > PageSize - 1 THEN 0 ELSE (PageSize - 1) - page.end + 1
      BY <2>1, FS_Interval
    <2>4. QED BY <1>4, <2>2, <2>3, Sizes
  <1>6. IsFiniteSet(Used(page)) /\ Cardinality(Used(page)) <= PageSize - page.end
    BY <1>3, <1>5, FS_Subset
  <1>7. Cardinality(Used(page)) \in Nat BY <1>6, FS_CardinalityType
  <1>8. QED BY <1>2, <1>3, <1>6, <1>7

\* Apart slots occupy no byte in common.
LEMMA ExtentsApart ==
  ASSUME NEW page, Layout(page), NEW i \in LiveSlots(page), NEW j \in LiveSlots(page), i # j
  PROVE  Extent(page, i) \cap Extent(page, j) = {}
  <1>1. page \in RecordPage BY DEF Layout
  <1>2. /\ page.slots[i].offset \in Nat /\ page.slots[i].length \in Nat
        /\ page.slots[j].offset \in Nat /\ page.slots[j].length \in Nat
    BY <1>1, PageTypes
  <1>3. page.slots[i].length # SPANNED_MARKER /\ page.slots[j].length # SPANNED_MARKER
    <2>1. SlotSound(page, i) /\ SlotSound(page, j) BY DEF Layout
    <2>2. QED BY <1>2, <2>1, Sizes DEF SlotSound
  <1>4. Apart(page, i, j) BY DEF Layout
  <1>5. QED BY <1>2, <1>3, <1>4 DEF Apart, Extent

\* The layout is what PageSound asks for.
LEMMA LayoutSound == ASSUME NEW page, Layout(page) PROVE PageSound(page)
  <1>1. page \in RecordPage BY DEF Layout
  <1>2. page.end \in Nat /\ page.frag \in Nat /\ Start(page) \in Nat BY <1>1, PageTypes
  <1>3. ASSUME NEW i \in LiveSlots(page), page.slots[i].length = SPANNED_MARKER
        PROVE  Cardinality(LiveSlots(page)) = 1 /\ slot_page_free_space(page) = 0
    <2>1. SlotSound(page, i) BY DEF Layout
    <2>2. page.slots[i].offset \in Nat BY <1>1, PageTypes
    <2>3. LiveSlots(page) = {i} /\ page.frag = 0 /\ page.end = Start(page)
      BY <1>3, <2>1, <2>2, Sizes DEF SlotSound
    <2>4. Cardinality(LiveSlots(page)) = 1 BY <2>3, FS_Singleton
    <2>5. Available(page) + page.frag = 0 BY <1>2, <2>3 DEF Available
    <2>6. 0 % Word = 0 BY Sizes
    <2>7. QED BY <2>4, <2>5, <2>6 DEF slot_page_free_space
  <1>4. Used(page) = UNION {Extent(page, i) : i \in LiveSlots(page)} BY DEF Used
  <1>5. Start(page) <= page.end BY DEF Layout
  <1>6. Used(page) \subseteq page.end .. (PageSize - 1) BY UsedFacts
  <1>7. \A i, j \in LiveSlots(page) : i # j => Extent(page, i) \cap Extent(page, j) = {}
    BY ExtentsApart
  <1>8. \/ page.frag = PageSize - page.end - Cardinality(Used(page))
        \/ page.frag = SPANNED_MARKER /\ LiveSlots(page) = {}
    BY DEF Layout, FragOK
  <1>9. QED BY <1>3, <1>4, <1>5, <1>6, <1>7, <1>8, Zenon DEF PageSound

-----------------------------------------------------------------------------
(* A record is put below the others.                                       *)
\* p2 is page with units at the low end of its records, in slot i0, which
\* held none.
Placed(page, p2, i0, units) ==
  /\ p2 \in RecordPage /\ i0 \in 1 .. Len(p2.slots) /\ i0 \notin LiveSlots(page)
  /\ 1 .. Len(p2.slots) = (1 .. Len(page.slots)) \cup {i0}
  /\ \A j \in 1 .. Len(page.slots) : j # i0 => p2.slots[j] = page.slots[j]
  /\ p2.slots[i0] = [offset |-> p2.end, length |-> Len(units)]
  /\ p2.end = page.end - Len(units) /\ p2.frag = page.frag
  /\ p2.data = Put(page.data, p2.end, units)
  /\ Start(p2) <= p2.end

\* No live record is large, and the counter is one of bytes.
NoLarge(page) == \A i \in LiveSlots(page) : page.slots[i].length # SPANNED_MARKER
Plain(page) == page.frag # SPANNED_MARKER /\ NoLarge(page)

LEMMA PlacedFacts ==
  ASSUME NEW page, Layout(page), Plain(page), NEW units \in Seq(Unit), Len(units) >= 1,
         NEW p2, NEW i0, Placed(page, p2, i0, units)
  PROVE  /\ Layout(p2) /\ Plain(p2) /\ LiveSlots(p2) = LiveSlots(page) \cup {i0}
         /\ \A i \in LiveSlots(page) : SameRecord(page, p2, i)
         /\ p2.slots[i0].length = Len(units)
         /\ \A j \in 1 .. Len(units) : p2.data[p2.slots[i0].offset + j - 1] = units[j]
  <1>1. page \in RecordPage /\ p2 \in RecordPage BY DEF Layout, Placed
  <1>2. /\ page.end \in Nat /\ page.end <= PageSize /\ p2.end \in Nat /\ Len(units) \in Nat
        /\ p2.end = page.end - Len(units) /\ page.data \in [Bytes0 -> Unit]
        /\ page.frag = p2.frag /\ page.frag \in Nat
    BY <1>1, PageTypes, SeqElement DEF Layout, Placed
  <1>3. /\ p2.slots[i0].offset = p2.end /\ p2.slots[i0].length = Len(units)
        /\ i0 \in LiveSlots(p2)
    <2>1. p2.slots[i0] = [offset |-> p2.end, length |-> Len(units)] BY DEF Placed
    <2>2. p2.slots[i0] # DeletedSlot BY <1>2, <2>1 DEF DeletedSlot
    <2>3. QED BY <2>1, <2>2 DEF LiveSlots, Placed
  <1>4. ASSUME NEW i \in LiveSlots(page)
        PROVE  i \in LiveSlots(p2) /\ i # i0 /\ p2.slots[i] = page.slots[i]
    BY DEF LiveSlots, Placed
  <1>5. LiveSlots(p2) = LiveSlots(page) \cup {i0}
    <2>1. ASSUME NEW i \in LiveSlots(p2), i # i0 PROVE i \in LiveSlots(page)
      BY <2>1 DEF LiveSlots, Placed
    <2>2. QED BY <1>3, <1>4, <2>1
  <1>6. ASSUME NEW i \in LiveSlots(page)
        PROVE  /\ page.slots[i].offset \in Nat /\ page.slots[i].length \in Nat
               /\ page.slots[i].length >= 1 /\ page.end <= page.slots[i].offset
               /\ page.slots[i].offset + page.slots[i].length <= PageSize
               /\ page.slots[i].length # SPANNED_MARKER
    <2>1. SlotSound(page, i) /\ page.slots[i].length # SPANNED_MARKER BY DEF Layout, Plain, NoLarge
    <2>2. page.slots[i].offset \in Nat /\ page.slots[i].length \in Nat BY <1>1, PageTypes
    <2>3. QED BY <2>1, <2>2 DEF SlotSound
  <1>7. /\ \A j \in 1 .. Len(units) : p2.data[p2.end + j - 1] = units[j]
        /\ \A x \in Bytes0 : x < p2.end \/ x >= p2.end + Len(units) => p2.data[x] = page.data[x]
    <2>1. p2.data = Put(page.data, p2.end, units) BY DEF Placed
    <2>2. p2.end + Len(units) <= PageSize BY <1>2
    <2> DEFINE d == Put(page.data, p2.end, units)
    <2>3. /\ \A j \in 1 .. Len(units) : d[p2.end + j - 1] = units[j]
          /\ \A x \in Bytes0 : x < p2.end \/ x >= p2.end + Len(units) => d[x] = page.data[x]
      BY <1>2, <2>2, PutFacts
    <2> HIDE DEF d
    <2>4. QED BY <2>1, <2>3 DEF d
  <1>8. ASSUME NEW i \in LiveSlots(page) PROVE SameRecord(page, p2, i)
    <2>1. p2.slots[i] = page.slots[i] BY <1>4
    <2>2. ASSUME NEW j \in 1 .. page.slots[i].length
          PROVE  p2.data[page.slots[i].offset + j - 1] = page.data[page.slots[i].offset + j - 1]
      <3>1. /\ page.slots[i].offset + j - 1 \in Bytes0
            /\ page.slots[i].offset + j - 1 >= p2.end + Len(units)
        <4> DEFINE o == page.slots[i].offset
                   n == page.slots[i].length
        <4>1. o \in Nat /\ n \in Nat /\ page.end <= o /\ o + n <= PageSize BY <1>6
        <4>2. j \in 1 .. n OBVIOUS
        <4>3. page.end \in Nat /\ page.end = p2.end + Len(units) BY <1>2
        <4> HIDE DEF o, n
        <4>4. o + j - 1 \in Bytes0 /\ o + j - 1 >= page.end BY <4>1, <4>2, <4>3, PageFits DEF Bytes0
        <4>5. QED BY <4>3, <4>4 DEF o
      <3>2. QED BY <1>7, <3>1
    <2>3. QED BY <2>1, <2>2 DEF SameRecord
  <1>9. \A i \in LiveSlots(p2) : p2.slots[i].length # SPANNED_MARKER
    BY <1>2, <1>3, <1>4, <1>5, <1>6, Sizes
  <1>10. ASSUME NEW i \in LiveSlots(p2) PROVE SlotSound(p2, i)
    <2>1. CASE i = i0 BY <1>2, <1>3, <2>1 DEF SlotSound
    <2>2. CASE i \in LiveSlots(page) BY <1>2, <1>4, <1>6, <2>2 DEF SlotSound
    <2>3. QED BY <1>5, <2>1, <2>2
  <1>11. ASSUME NEW i \in LiveSlots(p2), NEW j \in LiveSlots(p2), i # j PROVE Apart(p2, i, j)
    <2>1. CASE i \in LiveSlots(page) /\ j \in LiveSlots(page)
      <3>1. Apart(page, i, j) BY <1>11, <2>1 DEF Layout
      <3>2. QED BY <1>4, <2>1, <3>1 DEF Apart
    <2>2. CASE i = i0 /\ j \in LiveSlots(page)
      <3>1. p2.slots[i].offset + p2.slots[i].length = page.end BY <1>2, <1>3, <2>2
      <3>2. p2.slots[j].offset >= page.end BY <1>4, <1>6, <2>2
      <3>3. QED BY <1>2, <1>3, <1>4, <1>6, <2>2, <3>1, <3>2 DEF Apart
    <2>3. CASE j = i0 /\ i \in LiveSlots(page)
      <3>1. p2.slots[j].offset + p2.slots[j].length = page.end BY <1>2, <1>3, <2>3
      <3>2. p2.slots[i].offset >= page.end BY <1>4, <1>6, <2>3
      <3>3. QED BY <1>2, <1>3, <1>4, <1>6, <2>3, <3>1, <3>2 DEF Apart
    <2>4. QED BY <1>5, <1>11, <2>1, <2>2, <2>3
  <1>12. FragOK(p2)
    <2> DEFINE U == Used(page)
               V == p2.end .. (page.end - 1)
    <2>1. /\ IsFiniteSet(U) /\ Cardinality(U) \in Nat /\ U \subseteq page.end .. (PageSize - 1)
      BY UsedFacts
    <2>2. Extent(p2, i0) = V BY <1>2, <1>3, <1>9 DEF Extent
    <2>3. \A i \in LiveSlots(page) : Extent(p2, i) = Extent(page, i) BY <1>4 DEF Extent
    <2>4. Used(p2) = U \cup V BY <1>5, <2>2, <2>3 DEF Used
    <2>5. IsFiniteSet(V) /\ Cardinality(V) = Len(units)
      <3>1. p2.end \in Int /\ page.end - 1 \in Int BY <1>2
      <3>2. IsFiniteSet(V) BY <3>1, FS_Interval
      <3>3. Cardinality(V) = IF p2.end > page.end - 1 THEN 0 ELSE (page.end - 1) - p2.end + 1
        BY <3>1, FS_Interval
      <3>4. QED BY <1>2, <3>2, <3>3
    <2>6. U \cap V = {} BY <1>2, <2>1
    <2> HIDE DEF U, V
    <2>7. Cardinality(U \cup V) = Cardinality(U) + Cardinality(V)
      <3>1. Cardinality(U \cup V) = Cardinality(U) + Cardinality(V) - Cardinality(U \cap V)
        BY <2>1, <2>5, FS_Union
      <3>2. Cardinality(U \cap V) = 0 BY <2>6, FS_EmptySet
      <3>3. QED BY <1>2, <2>1, <2>5, <3>1, <3>2
    <2>8. page.frag = PageSize - page.end - Cardinality(U) BY DEF Layout, FragOK, Plain, U
    <2>9. p2.frag = PageSize - p2.end - Cardinality(Used(p2))
      <3>1. Cardinality(Used(p2)) = Cardinality(U) + Len(units) BY <2>4, <2>5, <2>7
      <3> DEFINE a == Cardinality(U)
                 n == Len(units)
      <3>2. /\ a \in Nat /\ n \in Nat /\ page.end \in Nat /\ p2.end = page.end - n
            /\ p2.frag = PageSize - page.end - a
        BY <1>2, <2>1, <2>8
      <3> HIDE DEF a, n
      <3>3. p2.frag = PageSize - p2.end - (a + n) BY <3>2, PageFits
      <3>4. QED BY <3>1, <3>3 DEF a, n
    <2>10. QED BY <2>9 DEF FragOK
  <1>13. Start(p2) <= p2.end /\ p2.end <= PageSize BY <1>2, Sizes DEF Placed
  <1>14. Layout(p2) BY <1>1, <1>10, <1>11, <1>12, <1>13 DEF Layout
  <1>15. Plain(p2) BY <1>2, <1>9 DEF Plain, NoLarge
  <1>16. QED BY <1>3, <1>5, <1>7, <1>8, <1>14, <1>15

-----------------------------------------------------------------------------
(* Compaction.                                                             *)
CompactStart(page) == [slot_page_init EXCEPT !.slots = page.slots]
CompactStep(page, i, p) ==
  LET s == page.slots[i]
      newEnd == (p.end - s.length) % Word
  IN  IF s = DeletedSlot THEN p
      ELSE [p EXCEPT !.end = newEnd,
                     !.slots[i].offset = newEnd,
                     !.data = Put(@, newEnd, Bytes(page, s.offset, s.length))]

\* The bytes of the live records among the first i slots.
UsedTo(page, i) == UNION {Extent(page, k) : k \in {m \in LiveSlots(page) : m <= i}}

\* After i slots: their records lie one below the other from the end of the
\* page, the others are where they were.
CompactInv(page, i, p) ==
  /\ p \in RecordPage /\ Len(p.slots) = Len(page.slots) /\ p.frag = 0
  /\ \A k \in 1 .. Len(page.slots) :
       /\ p.slots[k].length = page.slots[k].length
       /\ k > i \/ page.slots[k] = DeletedSlot => p.slots[k] = page.slots[k]
  /\ \A k \in LiveSlots(page) : k <= i =>
       /\ p.end <= p.slots[k].offset /\ p.slots[k].offset + p.slots[k].length <= PageSize
       /\ SameRecord(page, p, k)
  /\ \A k, m \in LiveSlots(page) : k <= i /\ m <= i /\ k # m => Apart(p, k, m)
  /\ p.end = PageSize - Cardinality(UsedTo(page, i))
  /\ \A x \in p.end .. (PageSize - 1) : \E k \in LiveSlots(page) :
       k <= i /\ x \in p.slots[k].offset .. (p.slots[k].offset + p.slots[k].length - 1)

LEMMA InitPageFacts ==
  /\ slot_page_init \in RecordPage /\ slot_page_init.slots = <<>>
  /\ slot_page_init.end = PageSize /\ slot_page_init.frag = 0
  /\ slot_page_init.kind = "record" /\ slot_page_init.data \in [Bytes0 -> Unit]
  <1>1. <<>> \in Seq(SlotEntry) BY EmptySeq
  <1>2. [i \in Bytes0 |-> NoUnit] \in [Bytes0 -> Unit] BY NoUnitType
  <1>3. QED BY <1>1, <1>2, Sizes DEF slot_page_init, RecordPage, Bytes0

LEMMA CompactStepType ==
  ASSUME NEW page \in RecordPage, NEW i \in 1 .. Len(page.slots), NEW p \in RecordPage,
         Len(p.slots) = Len(page.slots)
  PROVE  /\ CompactStep(page, i, p) \in RecordPage
         /\ Len(CompactStep(page, i, p).slots) = Len(page.slots)
         /\ page.slots[i] # DeletedSlot =>
              LET q == CompactStep(page, i, p)
                  newEnd == (p.end - page.slots[i].length) % Word
              IN  /\ q.end = newEnd /\ q.frag = p.frag
                  /\ q.data = Put(p.data, newEnd, Bytes(page, page.slots[i].offset, page.slots[i].length))
                  /\ q.slots[i].offset = newEnd /\ q.slots[i].length = p.slots[i].length
                  /\ \A k \in 1 .. Len(page.slots) : k # i => q.slots[k] = p.slots[k]
  <1>1. CASE page.slots[i] = DeletedSlot BY <1>1 DEF CompactStep
  <1>2. CASE page.slots[i] # DeletedSlot
    <2> DEFINE s == page.slots[i]
               e == (p.end - s.length) % Word
               u == Bytes(page, s.offset, s.length)
               t == [p.slots EXCEPT ![i].offset = e]
               q == [p EXCEPT !.end = e, !.slots[i].offset = e, !.data = Put(@, e, u)]
    <2>1. s.offset \in Nat /\ s.length \in Nat /\ p.end \in Nat /\ p.slots \in Seq(SlotEntry)
      BY PageTypes
    <2>2. e \in Nat
      <3>1. p.end - s.length \in Int BY <2>1
      <3>2. QED BY <3>1, Sizes
    <2>3. u \in Seq(Unit) BY <2>1, BytesFacts
    <2>4. Put(p.data, e, u) \in [Bytes0 -> Unit]
      <3>1. p.data \in [Bytes0 -> Unit] BY PageTypes
      <3> HIDE DEF e, u
      <3>2. QED BY <2>2, <2>3, <3>1, PutType
    <2>5. /\ t \in Seq(SlotEntry) /\ Len(t) = Len(p.slots)
          /\ t[i].offset = e /\ t[i].length = p.slots[i].length
          /\ \A k \in 1 .. Len(page.slots) : k # i => t[k] = p.slots[k]
      <3> HIDE DEF e
      <3>1. p.slots[i] \in SlotEntry BY <2>1, SeqElement
      <3> DEFINE n == [p.slots[i] EXCEPT !.offset = e]
      <3>2. n \in SlotEntry /\ n.offset = e /\ n.length = p.slots[i].length
        BY <2>2, <3>1 DEF SlotEntry
      <3>3. t = [p.slots EXCEPT ![i] = n] OBVIOUS
      <3> HIDE DEF n, t
      <3>4. QED BY <2>1, <3>2, <3>3, ExceptSeq
    <2>6. CompactStep(page, i, p) = q BY <1>2 DEF CompactStep
    <2>7. /\ q.kind = p.kind /\ q.end = e /\ q.frag = p.frag /\ q.slots = t
          /\ q.data = Put(p.data, e, u) /\ q \in RecordPage
      <3> HIDE DEF e, u
      <3>1. p.kind = "record" /\ p.frag \in Nat BY PageTypes
      <3>2. DOMAIN p = {"kind", "slots", "end", "frag", "data"} BY DEF RecordPage
      <3>3. /\ q.kind = p.kind /\ q.end = e /\ q.frag = p.frag /\ q.slots = t
            /\ q.data = Put(p.data, e, u)
        BY <3>2 DEF RecordPage
      <3>4. q \in RecordPage BY <2>2, <2>4, <2>5, <3>1, <3>3 DEF RecordPage
      <3>5. QED BY <3>3, <3>4
    <2> HIDE DEF q, t, u, e
    <2>8. QED BY <2>5, <2>6, <2>7 DEF e, u
  <1>3. QED BY <1>1, <1>2

LEMMA UsedToFacts ==
  ASSUME NEW page, Layout(page), NEW i \in Nat
  PROVE  /\ IsFiniteSet(UsedTo(page, i)) /\ Cardinality(UsedTo(page, i)) \in Nat
         /\ Cardinality(UsedTo(page, i)) <= PageSize - page.end
  <1>1. page \in RecordPage BY DEF Layout
  <1>2. /\ IsFiniteSet(Used(page)) /\ Cardinality(Used(page)) \in Nat /\ page.end \in Nat
        /\ Cardinality(Used(page)) <= PageSize - page.end
    BY <1>1, UsedFacts, PageTypes
  <1>3. UsedTo(page, i) \in SUBSET Used(page) BY DEF UsedTo, Used
  <1>4. IsFiniteSet(UsedTo(page, i)) /\ Cardinality(UsedTo(page, i)) <= Cardinality(Used(page))
    BY <1>2, <1>3, FS_Subset
  <1>5. Cardinality(UsedTo(page, i)) \in Nat BY <1>4, FS_CardinalityType
  <1>6. QED BY <1>2, <1>4, <1>5, Sizes

\* One more slot: nothing when it is deleted, the length of its record else.
LEMMA UsedToNext ==
  ASSUME NEW page, Layout(page), NoLarge(page), NEW i \in Nat, i + 1 \in 1 .. Len(page.slots)
  PROVE  /\ i + 1 \notin LiveSlots(page) => UsedTo(page, i + 1) = UsedTo(page, i)
         /\ i + 1 \in LiveSlots(page) =>
              Cardinality(UsedTo(page, i + 1))
                = Cardinality(UsedTo(page, i)) + page.slots[i + 1].length
  <1>1. page \in RecordPage BY DEF Layout
  <1>2. \A m \in LiveSlots(page) : m \in Nat BY <1>1, PageTypes
  <1>3. CASE i + 1 \notin LiveSlots(page)
    <2>1. {m \in LiveSlots(page) : m <= i + 1} = {m \in LiveSlots(page) : m <= i} BY <1>2, <1>3
    <2>2. QED BY <1>3, <2>1 DEF UsedTo
  <1>4. CASE i + 1 \in LiveSlots(page)
    <2> DEFINE s == page.slots[i + 1]
               U == UsedTo(page, i)
               V == Extent(page, i + 1)
    <2>1. /\ s.offset \in Nat /\ s.length \in Nat /\ s.length >= 1
          /\ s.length # SPANNED_MARKER
      <3>1. SlotSound(page, i + 1) BY <1>4 DEF Layout
      <3>2. QED BY <1>1, <1>4, <3>1, PageTypes DEF SlotSound, NoLarge
    <2>2. V = s.offset .. (s.offset + s.length - 1) BY <2>1 DEF Extent
    <2>3. IsFiniteSet(V) /\ Cardinality(V) = s.length
      <3>1. s.offset \in Int /\ s.offset + s.length - 1 \in Int BY <2>1
      <3>2. IsFiniteSet(s.offset .. (s.offset + s.length - 1)) BY <3>1, FS_Interval
      <3>3. Cardinality(s.offset .. (s.offset + s.length - 1))
              = IF s.offset > s.offset + s.length - 1 THEN 0
                ELSE (s.offset + s.length - 1) - s.offset + 1
        BY <3>1, FS_Interval
      <3> HIDE DEF s, V
      <3>4. QED BY <2>1, <2>2, <3>2, <3>3
    <2>4. IsFiniteSet(U) /\ Cardinality(U) \in Nat BY UsedToFacts
    <2>5. {m \in LiveSlots(page) : m <= i + 1} = {m \in LiveSlots(page) : m <= i} \cup {i + 1}
      BY <1>2, <1>4
    <2>6. UsedTo(page, i + 1) = U \cup V BY <2>5 DEF UsedTo
    <2>7. U \cap V = {}
      <3>1. ASSUME NEW m \in LiveSlots(page), m <= i PROVE Extent(page, m) \cap V = {}
        <4>1. m # i + 1 BY <1>2, <3>1
        <4>2. QED BY <1>4, <4>1, ExtentsApart
      <3>2. QED BY <3>1 DEF UsedTo
    <2> HIDE DEF U, V, s
    <2>8. Cardinality(U \cup V) = Cardinality(U) + Cardinality(V) - Cardinality(U \cap V)
      BY <2>3, <2>4, FS_Union
    <2>9. Cardinality(U \cap V) = 0 BY <2>7, FS_EmptySet
    <2>10. Cardinality(U \cup V) = Cardinality(U) + s.length BY <2>1, <2>3, <2>4, <2>8, <2>9
    <2>11. QED BY <1>4, <2>6, <2>10 DEF U, s
  <1>5. QED BY <1>3, <1>4

LEMMA CompactInvStart ==
  ASSUME NEW page, Layout(page)
  PROVE  CompactStart(page) \in RecordPage /\ CompactInv(page, 0, CompactStart(page))
  <1> DEFINE p == CompactStart(page)
  <1>1. page \in RecordPage BY DEF Layout
  <1>2. page.slots \in Seq(SlotEntry) /\ \A k \in LiveSlots(page) : k \in 1 .. Len(page.slots)
    BY <1>1, PageTypes
  <1>3. /\ p.slots = page.slots /\ p.end = PageSize /\ p.frag = 0 /\ p.kind = "record"
        /\ p.data = slot_page_init.data /\ p \in RecordPage
    BY <1>2, InitPageFacts DEF CompactStart, RecordPage
  <1>4. UsedTo(page, 0) = {}
    <2>1. {m \in LiveSlots(page) : m <= 0} = {} BY <1>1, <1>2, PageTypes
    <2>2. QED BY <2>1 DEF UsedTo
  <1>5. Cardinality(UsedTo(page, 0)) = 0 BY <1>4, FS_EmptySet
  <1>6. \A k \in LiveSlots(page) : ~(k <= 0) BY <1>1, <1>2, PageTypes
  <1> HIDE DEF p
  <1>7. CompactInv(page, 0, p) BY <1>3, <1>5, <1>6, Sizes DEF CompactInv
  <1>8. QED BY <1>3, <1>7 DEF p

LEMMA CompactInvNext ==
  ASSUME NEW page, Layout(page), NoLarge(page), NEW i \in Nat, i + 1 \in 1 .. Len(page.slots),
         NEW p, CompactInv(page, i, p)
  PROVE  CompactInv(page, i + 1, CompactStep(page, i + 1, p))
  <1> DEFINE q == CompactStep(page, i + 1, p)
             s == page.slots[i + 1]
             N == Len(page.slots)
  <1>1. page \in RecordPage /\ p \in RecordPage /\ Len(p.slots) = N BY DEF Layout, CompactInv
  <1>2. q \in RecordPage /\ Len(q.slots) = N BY <1>1, CompactStepType
  <1>3. /\ N \in Nat /\ \A k \in LiveSlots(page) : k \in 1 .. N
        /\ \A k \in 1 .. N : /\ page.slots[k].offset \in Nat /\ page.slots[k].length \in Nat
                             /\ p.slots[k].offset \in Nat /\ p.slots[k].length \in Nat
        /\ page.end \in Nat /\ p.end \in Nat /\ p.data \in [Bytes0 -> Unit]
    BY <1>1, PageTypes
  <1>4. CASE s = DeletedSlot
    <2>1. q = p BY <1>4 DEF CompactStep
    <2>2. i + 1 \notin LiveSlots(page) BY <1>4 DEF LiveSlots
    <2>3. UsedTo(page, i + 1) = UsedTo(page, i) BY <2>2, UsedToNext
    <2>4. \A k \in LiveSlots(page) : k <= i + 1 => k <= i BY <1>3, <2>2
    <2>5. \A k \in 1 .. N : k > i + 1 => k > i OBVIOUS
    <2>6. CompactInv(page, i + 1, p)
      <3>1. \A k \in 1 .. N : /\ p.slots[k].length = page.slots[k].length
                              /\ k > i + 1 \/ page.slots[k] = DeletedSlot => p.slots[k] = page.slots[k]
        BY <2>5 DEF CompactInv
      <3>2. \A k \in LiveSlots(page) : k <= i + 1 =>
              /\ p.end <= p.slots[k].offset /\ p.slots[k].offset + p.slots[k].length <= PageSize
              /\ SameRecord(page, p, k)
        BY <2>4 DEF CompactInv
      <3>3. \A k, m \in LiveSlots(page) : k <= i + 1 /\ m <= i + 1 /\ k # m => Apart(p, k, m)
        BY <2>4 DEF CompactInv
      <3>4. \A x \in p.end .. (PageSize - 1) : \E k \in LiveSlots(page) :
              k <= i + 1 /\ x \in p.slots[k].offset .. (p.slots[k].offset + p.slots[k].length - 1)
        <4>1. \A k \in LiveSlots(page) : k <= i => k <= i + 1 BY <1>3
        <4>2. QED BY <4>1 DEF CompactInv
      <3>5. QED BY <2>3, <3>1, <3>2, <3>3, <3>4 DEF CompactInv
    <2>7. QED BY <2>1, <2>6
  <1>5. CASE s # DeletedSlot
    <2> DEFINE u == Bytes(page, s.offset, s.length)
    <2>1. i + 1 \in LiveSlots(page) BY <1>5 DEF LiveSlots
    <2>2. /\ s.offset \in Nat /\ s.length \in Nat /\ s.length >= 1
          /\ s.offset + s.length <= PageSize
      <3>1. SlotSound(page, i + 1) /\ s.length # SPANNED_MARKER BY <2>1 DEF Layout, NoLarge
      <3>2. QED BY <1>3, <3>1 DEF SlotSound
    <2>3. q.end = p.end - s.length /\ q.end \in Nat /\ page.end <= q.end
          /\ q.end = PageSize - Cardinality(UsedTo(page, i + 1)) /\ p.end <= PageSize
      <3> DEFINE a == Cardinality(UsedTo(page, i))
                 b == Cardinality(UsedTo(page, i + 1))
      <3>1. b = a + s.length BY <2>1, UsedToNext
      <3>2. a \in Nat BY UsedToFacts
      <3>3. b \in Nat /\ b <= PageSize - page.end
        <4>1. i + 1 \in Nat OBVIOUS
        <4>2. QED BY <4>1, UsedToFacts
      <3>4. p.end = PageSize - a BY DEF CompactInv
      <3>5. q.end = (p.end - s.length) % Word BY <1>1, <1>5, CompactStepType
      <3>6. page.end \in Nat /\ p.end \in Nat BY <1>3
      <3> HIDE DEF a, b, q, s
      <3>7. /\ p.end - s.length \in 0 .. (Word - 1) /\ page.end <= p.end - s.length
            /\ p.end - s.length = PageSize - b
        <4> DEFINE e == p.end
                   f == page.end
                   n == s.length
        <4>1. /\ n \in Nat /\ b = a + n /\ a \in Nat /\ b \in Nat /\ b <= PageSize - f
              /\ e = PageSize - a /\ f \in Nat /\ e \in Nat
          BY <2>2, <3>1, <3>2, <3>3, <3>4, <3>6
        <4> HIDE DEF e, f, n
        <4>2. e - n = PageSize - b /\ f <= e - n BY <4>1, PageFits
        <4>3. e - n \in 0 .. (Word - 1) BY <4>1, <4>2, PageFits
        <4>4. QED BY <4>2, <4>3 DEF e, f, n
      <3>8. (p.end - s.length) % Word = p.end - s.length
        <4>1. Word \in Nat \ {0} BY Sizes
        <4>2. QED BY <3>7, <4>1, ModFacts
      <3>9. q.end = p.end - s.length BY <3>5, <3>8
      <3>10. q.end = PageSize - b /\ q.end \in Nat /\ page.end <= q.end BY <3>7, <3>9, Sizes
      <3>11. p.end <= PageSize BY <3>2, <3>4, Sizes
      <3>12. QED BY <3>9, <3>10, <3>11 DEF b
    <2>4. /\ q.frag = p.frag /\ q.data = Put(p.data, q.end, u)
          /\ q.slots[i + 1].offset = q.end /\ q.slots[i + 1].length = p.slots[i + 1].length
          /\ \A k \in 1 .. N : k # i + 1 => q.slots[k] = p.slots[k]
      BY <1>1, <1>5, CompactStepType
    <2>5. /\ u \in Seq(Unit) /\ Len(u) = s.length
          /\ \A j \in 1 .. s.length : u[j] = page.data[s.offset + j - 1]
      <3>1. /\ u \in Seq(Unit) /\ Len(u) = s.length
            /\ \A j \in 1 .. s.length : s.offset + j <= PageSize => u[j] = page.data[s.offset + j - 1]
        BY <1>1, <2>2, BytesFacts
      <3>2. \A j \in 1 .. s.length : s.offset + j <= PageSize
        <4> DEFINE o == s.offset
                   n == s.length
        <4>1. o \in Nat /\ n \in Nat /\ o + n <= PageSize BY <2>2
        <4> HIDE DEF o, n
        <4>2. \A j \in 1 .. n : o + j <= PageSize BY <4>1, PageFits
        <4>3. QED BY <4>2 DEF o, n
      <3>3. QED BY <3>1, <3>2
    <2> HIDE DEF u
    <2>6. /\ \A j \in 1 .. s.length : q.data[q.end + j - 1] = u[j]
          /\ \A x \in Bytes0 : x < q.end \/ x >= p.end => q.data[x] = p.data[x]
      <3> DEFINE d == Put(p.data, q.end, u)
      <3>1. q.end + Len(u) = p.end /\ q.end + Len(u) <= PageSize BY <1>3, <2>2, <2>3, <2>5
      <3>2. /\ \A j \in 1 .. Len(u) : d[q.end + j - 1] = u[j]
            /\ \A x \in Bytes0 : x < q.end \/ x >= q.end + Len(u) => d[x] = p.data[x]
        BY <1>3, <2>3, <2>5, <3>1, PutFacts
      <3> HIDE DEF d, q
      <3>3. q.data = d BY <2>4 DEF d
      <3>4. QED BY <2>5, <3>1, <3>2, <3>3
    <2> HIDE DEF q
    <2>7. \A k \in 1 .. N : /\ q.slots[k].length = page.slots[k].length
                            /\ k > i + 1 \/ page.slots[k] = DeletedSlot => q.slots[k] = page.slots[k]
      <3> SUFFICES ASSUME NEW k \in 1 .. N
                   PROVE  /\ q.slots[k].length = page.slots[k].length
                          /\ k > i + 1 \/ page.slots[k] = DeletedSlot => q.slots[k] = page.slots[k]
        OBVIOUS
      <3>1. /\ p.slots[k].length = page.slots[k].length
            /\ k > i \/ page.slots[k] = DeletedSlot => p.slots[k] = page.slots[k]
        BY DEF CompactInv
      <3>2. CASE k = i + 1 BY <1>5, <2>4, <3>1, <3>2
      <3>3. CASE k # i + 1 BY <2>4, <3>1, <3>3
      <3>4. QED BY <3>2, <3>3
    <2>8. ASSUME NEW k \in LiveSlots(page), k <= i + 1
          PROVE  /\ q.end <= q.slots[k].offset /\ q.slots[k].offset + q.slots[k].length <= PageSize
                 /\ SameRecord(page, q, k)
      <3>1. CASE k = i + 1
        <4>1. q.slots[k].length = s.length /\ q.slots[k].offset = q.end BY <2>4, <2>7, <3>1
        <4>2. SameRecord(page, q, k) BY <2>5, <2>6, <3>1, <4>1 DEF SameRecord
        <4>3. QED BY <1>3, <2>2, <2>3, <4>1, <4>2
      <3>2. CASE k # i + 1
        <4>1. k \in 1 .. N /\ k <= i /\ q.slots[k] = p.slots[k] BY <1>3, <2>4, <2>8, <3>2
        <4>2. /\ p.end <= p.slots[k].offset /\ p.slots[k].offset + p.slots[k].length <= PageSize
              /\ SameRecord(page, p, k)
          BY <4>1 DEF CompactInv
        <4>3. p.slots[k].length = page.slots[k].length BY <4>1 DEF CompactInv
        <4>4. ASSUME NEW j \in 1 .. page.slots[k].length
              PROVE  q.data[q.slots[k].offset + j - 1] = page.data[page.slots[k].offset + j - 1]
          <5>1. p.slots[k].offset + j - 1 \in Bytes0 /\ p.slots[k].offset + j - 1 >= p.end
            <6> DEFINE o == p.slots[k].offset
                       n == page.slots[k].length
            <6>1. o \in Nat /\ n \in Nat /\ p.end \in Nat /\ p.end <= o /\ o + n <= PageSize
              BY <1>3, <4>1, <4>2, <4>3
            <6> HIDE DEF o, n
            <6>2. j \in 1 .. n BY DEF n
            <6>3. o + j - 1 \in Bytes0 /\ o + j - 1 >= p.end BY <6>1, <6>2, Sizes DEF Bytes0
            <6>4. QED BY <6>3 DEF o
          <5>2. q.data[p.slots[k].offset + j - 1] = p.data[p.slots[k].offset + j - 1]
            BY <2>6, <5>1
          <5>3. p.data[p.slots[k].offset + j - 1] = page.data[page.slots[k].offset + j - 1]
            BY <4>2 DEF SameRecord
          <5>4. QED BY <4>1, <5>2, <5>3
        <4>5. SameRecord(page, q, k) BY <4>1, <4>3, <4>4 DEF SameRecord
        <4>6. q.end <= q.slots[k].offset
          <5> DEFINE o == p.slots[k].offset
                     n == s.length
          <5>1. o \in Nat /\ n \in Nat /\ p.end \in Nat /\ p.end <= o /\ q.end = p.end - n
            BY <1>3, <2>2, <2>3, <4>1, <4>2
          <5> HIDE DEF o, n
          <5>2. q.end <= o BY <5>1
          <5>3. QED BY <4>1, <5>2 DEF o
        <4>7. q.slots[k].offset + q.slots[k].length <= PageSize BY <4>1, <4>2
        <4>8. QED BY <4>5, <4>6, <4>7
      <3>3. QED BY <3>1, <3>2
    <2>9. ASSUME NEW k \in LiveSlots(page), NEW m \in LiveSlots(page), k <= i + 1, m <= i + 1, k # m
          PROVE  Apart(q, k, m)
      <3>1. k \in 1 .. N /\ m \in 1 .. N BY <1>3
      <3>2. CASE k # i + 1 /\ m # i + 1
        <4>1. k <= i /\ m <= i /\ q.slots[k] = p.slots[k] /\ q.slots[m] = p.slots[m]
          BY <2>4, <2>9, <3>1, <3>2
        <4>2. Apart(p, k, m) BY <2>9, <4>1 DEF CompactInv
        <4>3. QED BY <4>1, <4>2 DEF Apart
      <3>3. CASE k = i + 1
        <4>1. m <= i /\ q.slots[m] = p.slots[m] BY <2>4, <2>9, <3>1, <3>3
        <4>2. p.end <= q.slots[m].offset BY <4>1 DEF CompactInv
        <4>3. q.slots[k].offset = q.end /\ q.slots[k].length = s.length BY <2>4, <2>7, <3>3
        <4>4. QED BY <1>3, <2>2, <2>3, <4>2, <4>3 DEF Apart
      <3>4. CASE m = i + 1
        <4>1. k <= i /\ q.slots[k] = p.slots[k] BY <2>4, <2>9, <3>1, <3>4
        <4>2. p.end <= q.slots[k].offset BY <4>1 DEF CompactInv
        <4>3. q.slots[m].offset = q.end /\ q.slots[m].length = s.length BY <2>4, <2>7, <3>4
        <4>4. QED BY <1>3, <2>2, <2>3, <4>2, <4>3 DEF Apart
      <3>5. QED BY <3>2, <3>3, <3>4
    <2>10. q.frag = 0 BY <2>4 DEF CompactInv
    <2>11. ASSUME NEW x \in q.end .. (PageSize - 1)
           PROVE  \E k \in LiveSlots(page) : /\ k <= i + 1
                    /\ x \in q.slots[k].offset .. (q.slots[k].offset + q.slots[k].length - 1)
      <3>1. CASE x >= p.end
        <4>1. x \in p.end .. (PageSize - 1) BY <1>3, <2>3, <3>1, Sizes
        <4>2. PICK k \in LiveSlots(page) :
                k <= i /\ x \in p.slots[k].offset .. (p.slots[k].offset + p.slots[k].length - 1)
          BY <4>1 DEF CompactInv
        <4>3. k \in 1 .. N /\ k # i + 1 /\ k <= i + 1 BY <1>3, <4>2
        <4>4. q.slots[k] = p.slots[k] BY <2>4, <4>3
        <4>5. QED BY <4>2, <4>3, <4>4
      <3>2. CASE ~(x >= p.end)
        <4>1. q.slots[i + 1].offset = q.end /\ q.slots[i + 1].length = s.length BY <2>4, <2>7
        <4>2. x \in q.end .. (q.end + s.length - 1)
          <5> HIDE DEF s
          <5>1. QED BY <1>3, <2>2, <2>3, <3>2, Sizes
        <4>3. QED BY <2>1, <4>1, <4>2
      <3>3. QED BY <3>1, <3>2
    <2>12. QED BY <1>2, <2>3, <2>7, <2>8, <2>9, <2>10, <2>11 DEF CompactInv, q
  <1>6. QED BY <1>4, <1>5

LEMMA CompactInvLast ==
  ASSUME NEW page, Layout(page), NoLarge(page), page.frag # 0
  PROVE  CompactInv(page, Len(page.slots), slot_page_compact(page))
  <1> DEFINE N == Len(page.slots)
             X == {p \in RecordPage : Len(p.slots) = N}
             b == CompactStart(page)
             G == [i \in 1 .. N |-> [p \in X |-> CompactStep(page, i, p)]]
  <1>1. page \in RecordPage /\ N \in Nat BY PageTypes DEF Layout
  <1>2. b \in RecordPage /\ CompactInv(page, 0, b) BY CompactInvStart
  <1>3. b \in X BY <1>2 DEF CompactInv
  <1>4. G \in [1 .. N -> [X -> X]] BY <1>1, CompactStepType
  <1>5. PICK f : Recursion(N, X, b, G, f)
    <2>1. N \in Nat BY <1>1
    <2> HIDE DEF N, X, b, G
    <2>2. QED BY <2>1, <1>3, <1>4, RecursionExists
  <1>6. \A n \in 1 .. N : f[n - 1] \in X /\ f[n] = CompactStep(page, n, f[n - 1])
    <2> SUFFICES ASSUME NEW n \in 1 .. N
                 PROVE  f[n - 1] \in X /\ f[n] = CompactStep(page, n, f[n - 1])
      OBVIOUS
    <2>1. n - 1 \in 0 .. N BY <1>1
    <2>2. f[n - 1] \in X /\ f[n] = G[n][f[n - 1]]
      <3> HIDE DEF X, G
      <3>1. QED BY <1>5, <2>1 DEF Recursion
    <2>3. QED BY <2>2
  <1> DEFINE Law(g) == g = [i \in 0 .. N |-> IF i = 0 THEN b ELSE CompactStep(page, i, g[i - 1])]
             u == CHOOSE g : Law(g)
  <1>7. Law(f)
    <2> HIDE DEF b, X, G
    <2>1. f \in [0 .. N -> X] /\ f[0] = b BY <1>5 DEF Recursion
    <2>2. \A i \in 0 .. N : f[i] = IF i = 0 THEN b ELSE CompactStep(page, i, f[i - 1])
      BY <1>1, <1>6, <2>1
    <2>3. QED BY <2>1, <2>2
  <1>8. Law(u)
    <2> HIDE DEF Law
    <2>1. QED BY <1>7
  <1>9. slot_page_compact(page) = u[N] BY DEF slot_page_compact, CompactStart, CompactStep
  <1> HIDE DEF u
  <1>10. u[0] = b /\ \A i \in 1 .. N : u[i] = CompactStep(page, i, u[i - 1])
    <2> HIDE DEF b
    <2>1. \A i \in 0 .. N : u[i] = IF i = 0 THEN b ELSE CompactStep(page, i, u[i - 1]) BY <1>8
    <2>2. QED BY <1>1, <2>1
  <1> DEFINE P == {i \in Nat : i <= N => CompactInv(page, i, u[i])}
  <1>11. 0 \in P BY <1>2, <1>10
  <1>12. ASSUME NEW i \in Nat, i \in P PROVE i + 1 \in P
    <2> SUFFICES ASSUME i + 1 <= N PROVE CompactInv(page, i + 1, u[i + 1]) OBVIOUS
    <2>1. CompactInv(page, i, u[i]) BY <1>1, <1>12
    <2>2. i + 1 \in 1 .. N BY <1>1
    <2>3. u[i + 1] = CompactStep(page, i + 1, u[i])
      <3>1. (i + 1) - 1 = i OBVIOUS
      <3>2. QED BY <1>10, <2>2, <3>1
    <2>4. QED BY <2>1, <2>2, <2>3, CompactInvNext
  <1>13. Nat \subseteq P
    <2> HIDE DEF P
    <2>1. QED BY <1>11, <1>12, SetInduction
  <1>14. QED BY <1>1, <1>9, <1>13

\* p2 holds the same records as page, in the same slots.
SameRecords(page, p2) ==
  LiveSlots(p2) = LiveSlots(page) /\ \A i \in LiveSlots(page) : SameRecord(page, p2, i)

\* Compaction keeps every record, and turns the lost bytes into free space.
LEMMA CompactFacts ==
  ASSUME NEW page, Layout(page), NoLarge(page), page.frag # 0
  PROVE  /\ Layout(slot_page_compact(page)) /\ Plain(slot_page_compact(page))
         /\ Len(slot_page_compact(page).slots) = Len(page.slots)
         /\ SameRecords(page, slot_page_compact(page))
  <1> DEFINE p == slot_page_compact(page)
             N == Len(page.slots)
  <1>1. CompactInv(page, N, p) BY CompactInvLast
  <1> HIDE DEF p
  <1>2. page \in RecordPage /\ N \in Nat /\ p \in RecordPage /\ Len(p.slots) = N
    BY <1>1, PageTypes DEF Layout, CompactInv
  <1>3. /\ p.end \in Nat /\ page.end \in Nat /\ page.end <= PageSize
        /\ \A k \in LiveSlots(page) : k \in 1 .. N /\ k <= N
        /\ \A k \in 1 .. N : p.slots[k].offset \in Nat /\ p.slots[k].length \in Nat
    BY <1>2, PageTypes DEF Layout
  <1>4. /\ p.frag = 0
        /\ \A k \in 1 .. N : /\ p.slots[k].length = page.slots[k].length
                             /\ page.slots[k] = DeletedSlot => p.slots[k] = page.slots[k]
    BY <1>1 DEF CompactInv
  <1>5. \A k \in LiveSlots(page) :
          /\ p.end <= p.slots[k].offset /\ p.slots[k].offset + p.slots[k].length <= PageSize
          /\ SameRecord(page, p, k)
    BY <1>1, <1>3 DEF CompactInv
  <1>6. \A k, m \in LiveSlots(page) : k # m => Apart(p, k, m) BY <1>1, <1>3 DEF CompactInv
  <1>7. \A k \in LiveSlots(page) : p.slots[k].length >= 1 /\ p.slots[k].length # SPANNED_MARKER
    <2>1. \A k \in LiveSlots(page) : SlotSound(page, k) /\ page.slots[k].length # SPANNED_MARKER
      BY DEF Layout, NoLarge
    <2>2. QED BY <1>3, <1>4, <2>1 DEF SlotSound
  <1>8. LiveSlots(p) = LiveSlots(page)
    <2>1. ASSUME NEW k \in 1 .. N PROVE p.slots[k] = DeletedSlot <=> page.slots[k] = DeletedSlot
      <3>1. CASE page.slots[k] = DeletedSlot BY <1>4, <3>1
      <3>2. CASE page.slots[k] # DeletedSlot
        <4>1. k \in LiveSlots(page) BY <3>2 DEF LiveSlots
        <4>2. p.slots[k].length >= 1 BY <1>7, <4>1
        <4>3. QED BY <3>2, <4>2 DEF DeletedSlot
      <3>3. QED BY <3>1, <3>2
    <2>2. QED BY <1>2, <2>1 DEF LiveSlots
  <1>9. p.end <= PageSize /\ page.end <= p.end
    <2>1. p.end = PageSize - Cardinality(UsedTo(page, N)) BY <1>1 DEF CompactInv
    <2>2. /\ Cardinality(UsedTo(page, N)) \in Nat
          /\ Cardinality(UsedTo(page, N)) <= PageSize - page.end
      BY <1>2, UsedToFacts
    <2>3. QED BY <1>3, <2>1, <2>2, Sizes
  <1>10. Start(p) = Start(page) /\ Start(page) <= p.end
    <2>1. Start(p) = Start(page) BY <1>2 DEF Start
    <2>2. Start(page) <= page.end /\ Start(page) \in Nat BY <1>2, PageTypes DEF Layout
    <2>3. QED BY <1>3, <1>9, <2>1, <2>2
  <1>11. Used(p) = p.end .. (PageSize - 1)
    <2>1. \A k \in LiveSlots(page) :
            Extent(p, k) = p.slots[k].offset .. (p.slots[k].offset + p.slots[k].length - 1)
      BY <1>7 DEF Extent
    <2>2. \A k \in LiveSlots(page) : Extent(p, k) \subseteq p.end .. (PageSize - 1)
      <3> SUFFICES ASSUME NEW k \in LiveSlots(page), NEW x \in Extent(p, k)
                   PROVE  x \in p.end .. (PageSize - 1)
        OBVIOUS
      <3>1. x \in p.slots[k].offset .. (p.slots[k].offset + p.slots[k].length - 1) BY <2>1
      <3>2. p.slots[k].offset \in Nat /\ p.slots[k].length \in Nat BY <1>3
      <3>3. p.end <= p.slots[k].offset /\ p.slots[k].offset + p.slots[k].length <= PageSize BY <1>5
      <3> DEFINE o == p.slots[k].offset
                 n == p.slots[k].length
      <3> HIDE DEF o, n
      <3>4. /\ x \in o .. (o + n - 1) /\ o \in Nat /\ n \in Nat
            /\ p.end <= o /\ o + n <= PageSize
        BY <3>1, <3>2, <3>3 DEF o, n
      <3>5. QED BY <1>3, <3>4, Sizes
    <2>3. \A x \in p.end .. (PageSize - 1) : \E k \in LiveSlots(page) :
            x \in p.slots[k].offset .. (p.slots[k].offset + p.slots[k].length - 1)
      BY <1>1 DEF CompactInv
    <2>4. \A x \in p.end .. (PageSize - 1) : \E k \in LiveSlots(page) : x \in Extent(p, k)
      BY <2>1, <2>3
    <2>5. QED BY <1>8, <2>2, <2>4 DEF Used
  <1>12. FragOK(p)
    <2>1. p.end \in Int /\ PageSize - 1 \in Int BY <1>3, Sizes
    <2>2. Cardinality(p.end .. (PageSize - 1))
            = IF p.end > PageSize - 1 THEN 0 ELSE (PageSize - 1) - p.end + 1
      BY <2>1, FS_Interval
    <2>3. 0 = PageSize - p.end - Cardinality(Used(p)) BY <1>3, <1>9, <1>11, <2>2, Sizes
    <2>4. QED BY <1>4, <2>3 DEF FragOK
  <1>13. \A k \in LiveSlots(p) : SlotSound(p, k) BY <1>3, <1>5, <1>7, <1>8 DEF SlotSound
  <1>14. \A k, m \in LiveSlots(p) : k # m => Apart(p, k, m) BY <1>6, <1>8
  <1>15. Layout(p) BY <1>2, <1>9, <1>10, <1>12, <1>13, <1>14 DEF Layout
  <1>16. Plain(p) BY <1>4, <1>7, <1>8, Sizes DEF Plain, NoLarge
  <1>17. SameRecords(page, p) BY <1>5, <1>8 DEF SameRecords
  <1>18. QED BY <1>2, <1>15, <1>16, <1>17 DEF p

-----------------------------------------------------------------------------
(* Insertion into a page.                                                  *)
LEMMA PlaceReused ==
  ASSUME NEW page \in RecordPage, page.end <= PageSize, NEW units \in Seq(Unit), Len(units) >= 1,
         Available(page) >= Len(units),
         NEW i0 \in 1 .. Len(page.slots), i0 \notin LiveSlots(page)
  PROVE  LET offset == page.end - Len(units)
         IN  Placed(page, [[page EXCEPT !.end = offset, !.data = Put(@, offset, units)] EXCEPT
                             !.slots[i0] = [offset |-> offset, length |-> Len(units)]],
                    i0, units)
  <1> DEFINE e == page.end - Len(units)
             entry == [offset |-> e, length |-> Len(units)]
             t == [page.slots EXCEPT ![i0] = entry]
             p2 == [[page EXCEPT !.end = e, !.data = Put(@, e, units)] EXCEPT !.slots[i0] = entry]
  <1>1. /\ page.end \in Nat /\ page.slots \in Seq(SlotEntry) /\ Len(page.slots) \in Nat
        /\ page.data \in [Bytes0 -> Unit] /\ page.frag \in Nat /\ page.kind = "record"
        /\ Start(page) \in Nat
    BY PageTypes
  <1>2. Len(units) \in Nat BY SeqElement
  <1>3. e \in Nat /\ Start(page) <= e BY <1>1, <1>2 DEF Available
  <1>4. entry \in SlotEntry BY <1>2, <1>3 DEF SlotEntry
  <1>5. /\ t \in Seq(SlotEntry) /\ Len(t) = Len(page.slots) /\ t[i0] = entry
        /\ \A j \in 1 .. Len(page.slots) : j # i0 => t[j] = page.slots[j]
    <2> HIDE DEF entry
    <2>1. QED BY <1>1, <1>4, ExceptSeq
  <1>6. Put(page.data, e, units) \in [Bytes0 -> Unit]
    <2> HIDE DEF e
    <2>1. QED BY <1>1, <1>3, PutType
  <1>7. /\ p2.kind = "record" /\ p2.end = e /\ p2.frag = page.frag /\ p2.slots = t
        /\ p2.data = Put(page.data, e, units) /\ p2 \in RecordPage
    <2> HIDE DEF e, entry
    <2>1. DOMAIN page = {"kind", "slots", "end", "frag", "data"} BY DEF RecordPage
    <2>2. /\ p2.kind = page.kind /\ p2.end = e /\ p2.frag = page.frag /\ p2.slots = t
          /\ p2.data = Put(page.data, e, units)
      BY <2>1 DEF RecordPage
    <2> HIDE DEF t
    <2>3. p2 \in RecordPage BY <1>1, <1>3, <1>5, <1>6, <2>2 DEF RecordPage
    <2>4. QED BY <1>1, <2>2, <2>3
  <1> HIDE DEF p2, t
  <1>8. Start(p2) = Start(page) BY <1>5, <1>7 DEF Start
  <1>9. (1 .. Len(p2.slots)) = (1 .. Len(page.slots)) \cup {i0} BY <1>5, <1>7
  <1>10. p2.slots[i0] = [offset |-> p2.end, length |-> Len(units)] BY <1>5, <1>7
  <1>11. Placed(page, p2, i0, units) BY <1>3, <1>5, <1>7, <1>8, <1>9, <1>10 DEF Placed
  <1>12. QED BY <1>11 DEF p2

LEMMA PlaceAppended ==
  ASSUME NEW page \in RecordPage, page.end <= PageSize, NEW units \in Seq(Unit), Len(units) >= 1,
         Available(page) >= Len(units) + EntrySize
  PROVE  LET offset == page.end - Len(units)
         IN  Placed(page, [[page EXCEPT !.end = offset, !.data = Put(@, offset, units)] EXCEPT
                             !.slots = Append(@, [offset |-> offset, length |-> Len(units)])],
                    Len(page.slots) + 1, units)
  <1> DEFINE e == page.end - Len(units)
             entry == [offset |-> e, length |-> Len(units)]
             n == Len(page.slots)
             t == Append(page.slots, entry)
             p2 == [[page EXCEPT !.end = e, !.data = Put(@, e, units)] EXCEPT
                      !.slots = Append(@, entry)]
  <1>1. /\ page.end \in Nat /\ page.slots \in Seq(SlotEntry) /\ n \in Nat
        /\ page.data \in [Bytes0 -> Unit] /\ page.frag \in Nat /\ page.kind = "record"
        /\ Start(page) \in Nat
    BY PageTypes
  <1>2. Len(units) \in Nat BY SeqElement
  <1>3. e \in Nat /\ Start(page) + EntrySize <= e
    <2> DEFINE a == Available(page)
               m == Len(units)
               st == Start(page)
    <2>1. a = page.end - st BY DEF Available
    <2>2. st \in Nat /\ m \in Nat /\ page.end \in Nat /\ a >= m + EntrySize BY <1>1, <1>2
    <2> HIDE DEF a, m, st
    <2>3. page.end - m \in Nat /\ st + EntrySize <= page.end - m BY <2>1, <2>2, Sizes
    <2>4. QED BY <2>3 DEF m, st
  <1>4. entry \in SlotEntry BY <1>2, <1>3 DEF SlotEntry
  <1>5. /\ t \in Seq(SlotEntry) /\ Len(t) = n + 1 /\ t[n + 1] = entry
        /\ \A j \in 1 .. n : t[j] = page.slots[j]
    <2> HIDE DEF entry
    <2>1. QED BY <1>1, <1>4, AppendProperties
  <1>6. Put(page.data, e, units) \in [Bytes0 -> Unit]
    <2> HIDE DEF e
    <2>1. QED BY <1>1, <1>3, PutType
  <1>7. /\ p2.kind = "record" /\ p2.end = e /\ p2.frag = page.frag /\ p2.slots = t
        /\ p2.data = Put(page.data, e, units) /\ p2 \in RecordPage
    <2> HIDE DEF e, entry
    <2>1. DOMAIN page = {"kind", "slots", "end", "frag", "data"} BY DEF RecordPage
    <2>2. /\ p2.kind = page.kind /\ p2.end = e /\ p2.frag = page.frag /\ p2.slots = t
          /\ p2.data = Put(page.data, e, units)
      BY <2>1 DEF RecordPage
    <2> HIDE DEF t
    <2>3. p2 \in RecordPage BY <1>1, <1>3, <1>5, <1>6, <2>2 DEF RecordPage
    <2>4. QED BY <1>1, <2>2, <2>3
  <1> HIDE DEF p2, t
  <1>8. Start(p2) = Start(page) + EntrySize
    <2>1. Len(p2.slots) = n + 1 BY <1>5, <1>7
    <2>2. EntrySize * (n + 1) = EntrySize * n + EntrySize BY <1>1, Sizes
    <2>3. EntrySize * n \in Nat BY <1>1, Sizes
    <2>4. QED BY <2>1, <2>2, <2>3, Sizes DEF Start
  <1>9. (1 .. Len(p2.slots)) = (1 .. n) \cup {n + 1} BY <1>1, <1>5, <1>7
  <1>10. p2.slots[n + 1] = [offset |-> p2.end, length |-> Len(units)] BY <1>5, <1>7
  <1>11. n + 1 \notin LiveSlots(page) BY <1>1 DEF LiveSlots
  <1>12. n + 1 \in 1 .. Len(p2.slots) BY <1>1, <1>5, <1>7
  <1>13. \A j \in 1 .. n : p2.slots[j] = page.slots[j] BY <1>5, <1>7
  <1>14. Start(p2) <= p2.end BY <1>3, <1>7, <1>8
  <1>15. p2.end = page.end - Len(units) /\ p2.data = Put(page.data, p2.end, units) BY <1>7
  <1>16. Placed(page, p2, n + 1, units)
    BY <1>7, <1>9, <1>10, <1>11, <1>12, <1>13, <1>14, <1>15 DEF Placed
  <1>17. QED BY <1>16 DEF p2

\* p2 is page with units as the record of slot i0, which held none; the other
\* records are the same.
Inserted(page, p2, i0, units) ==
  /\ Layout(p2) /\ i0 \notin LiveSlots(page) /\ LiveSlots(p2) = LiveSlots(page) \cup {i0}
  /\ \A i \in LiveSlots(page) : SameRecord(page, p2, i)
  /\ p2.slots[i0].length = Len(units)
  /\ \A j \in 1 .. Len(units) : p2.data[p2.slots[i0].offset + j - 1] = units[j]

\* A page with a large record has no space, one whose counter holds the
\* marker has none before compaction.
LEMMA SpaceFacts ==
  ASSUME NEW page, Layout(page)
  PROVE  /\ page.frag = SPANNED_MARKER => Available(page) = 0
         /\ ~NoLarge(page) => Available(page) = 0 /\ page.frag = 0
         /\ Available(page) \in Nat
  <1>1. page \in RecordPage BY DEF Layout
  <1>2. /\ page.end \in Nat /\ page.frag \in Nat /\ Start(page) \in Nat
        /\ Start(page) <= page.end /\ page.end <= PageSize
    BY <1>1, PageTypes DEF Layout
  <1>3. Available(page) \in Nat BY <1>2 DEF Available
  <1>4. ASSUME page.frag = SPANNED_MARKER PROVE Available(page) = 0
    <2>1. Cardinality(Used(page)) \in Nat BY UsedFacts
    <2>2. page.end = Start(page) BY <1>2, <1>4, <2>1, Sizes DEF Layout, FragOK
    <2>3. QED BY <1>2, <2>2 DEF Available
  <1>5. ASSUME ~NoLarge(page) PROVE Available(page) = 0 /\ page.frag = 0
    <2>1. PICK i \in LiveSlots(page) : page.slots[i].length = SPANNED_MARKER BY <1>5 DEF NoLarge
    <2>2. SlotSound(page, i) BY DEF Layout
    <2>3. page.slots[i].offset \in Nat BY <1>1, PageTypes
    <2>4. page.frag = 0 /\ page.end = Start(page) BY <2>1, <2>2, <2>3, Sizes DEF SlotSound
    <2>5. QED BY <1>2, <2>4 DEF Available
  <1>6. QED BY <1>3, <1>4, <1>5

LEMMA InsertFacts ==
  ASSUME NEW page, Layout(page), NEW units \in Seq(Unit), Len(units) >= 1
  PROVE  LET r == slot_page_insert(page, units)
         IN  \/ r.slot = -1 /\ Layout(r.page) /\ SameRecords(page, r.page)
             \/ r.slot \in Nat /\ Inserted(page, r.page, r.slot + 1, units)
  <1> DEFINE reusable == {i \in 1 .. Len(page.slots) : page.slots[i] = DeletedSlot}
             needed == Len(units) + IF reusable = {} THEN EntrySize ELSE 0
             p == IF Available(page) < needed /\ Available(page) + page.frag >= needed
                  THEN slot_page_compact(page) ELSE page
             offset == p.end - Len(units)
             entry == [offset |-> offset, length |-> Len(units)]
             stored == [p EXCEPT !.end = offset, !.data = Put(@, offset, units)]
             r == slot_page_insert(page, units)
  <1>1. r = IF Available(p) < needed THEN [page |-> p, slot |-> -1]
            ELSE IF reusable # {}
            THEN [page |-> [stored EXCEPT !.slots[Min(reusable)] = entry], slot |-> Min(reusable) - 1]
            ELSE [page |-> [stored EXCEPT !.slots = Append(@, entry)], slot |-> Len(p.slots)]
    BY DEF slot_page_insert
  <1> HIDE DEF r
  <1>2. page \in RecordPage BY DEF Layout
  <1>3. /\ Available(page) \in Nat /\ page.frag \in Nat /\ Len(units) \in Nat
        /\ Len(page.slots) \in Nat
    BY <1>2, SpaceFacts, PageTypes, SeqElement
  <1>4. /\ Layout(p) /\ SameRecords(page, p) /\ Len(p.slots) = Len(page.slots)
        /\ NoLarge(page) => NoLarge(p)
    <2>1. CASE Available(page) < needed /\ Available(page) + page.frag >= needed
      <3>1. page.frag # 0
        <4>1. Len(units) + EntrySize \in Int /\ Len(units) + 0 \in Int BY <1>3, Sizes
        <4>2. needed \in Int BY <4>1
        <4> HIDE DEF needed, p
        <4>3. QED BY <1>3, <2>1, <4>2
      <3>2. NoLarge(page) BY <3>1, SpaceFacts
      <3>3. p = slot_page_compact(page) BY <2>1
      <3> HIDE DEF p
      <3>4. QED BY <3>1, <3>2, <3>3, CompactFacts DEF Plain
    <2>2. CASE ~(Available(page) < needed /\ Available(page) + page.frag >= needed)
      <3>1. p = page BY <2>2
      <3>2. SameRecords(page, page) BY DEF SameRecords, SameRecord
      <3> HIDE DEF p
      <3>3. QED BY <3>1, <3>2
    <2>3. QED BY <2>1, <2>2
  <1>5. CASE Available(p) < needed
    <2>1. r = [page |-> p, slot |-> -1] BY <1>1, <1>5
    <2> HIDE DEF p
    <2>2. r.page = p /\ r.slot = -1 BY <2>1
    <2>3. QED BY <1>4, <2>2 DEF r
  <1>6. CASE ~(Available(p) < needed)
    <2> HIDE DEF p
    <2>1. p \in RecordPage /\ p.end <= PageSize /\ Available(p) \in Nat
      BY <1>4, SpaceFacts DEF Layout
    <2>2. Available(p) >= needed /\ Available(p) >= 1
      <3> DEFINE n == Len(units)
      <3>1. n \in Nat /\ n >= 1 /\ EntrySize \in Nat BY <1>3, RecordConstants
      <3>2. needed = n + EntrySize \/ needed = n + 0 OBVIOUS
      <3> HIDE DEF needed, n
      <3>3. needed \in Nat /\ needed >= 1 BY <3>1, <3>2
      <3>4. QED BY <1>6, <2>1, <3>3
    <2>3. Plain(p)
      <3>1. NoLarge(p) /\ p.frag # SPANNED_MARKER BY <1>4, <2>2, SpaceFacts
      <3>2. QED BY <3>1 DEF Plain
    <2>4. CASE reusable # {}
      <3> DEFINE i0 == Min(reusable)
      <3>1. reusable \subseteq Nat OBVIOUS
      <3>2. i0 \in reusable BY <2>4, <3>1, MinFacts
      <3> HIDE DEF i0
      <3>3. i0 \in 1 .. Len(p.slots) /\ i0 \notin LiveSlots(p)
        <4>1. i0 \in 1 .. Len(page.slots) /\ i0 \notin LiveSlots(page) BY <3>2 DEF LiveSlots
        <4>2. QED BY <1>4, <4>1 DEF SameRecords
      <3>4. Available(p) >= Len(units) BY <1>3, <2>1, <2>2, <2>4
      <3>5. r = [page |-> [stored EXCEPT !.slots[i0] = entry], slot |-> i0 - 1]
        BY <1>1, <1>6, <2>4 DEF i0
      <3> DEFINE p2 == [stored EXCEPT !.slots[i0] = entry]
      <3>6. Placed(p, p2, i0, units) BY <2>1, <3>3, <3>4, PlaceReused
      <3> HIDE DEF p2, stored, entry
      <3>7. r.page = p2 /\ r.slot = i0 - 1 /\ i0 \in Nat /\ i0 >= 1 /\ r.slot + 1 = i0
        BY <3>1, <3>2, <3>5 DEF p2
      <3>8. r.slot \in Nat BY <3>7
      <3>9. Inserted(p, p2, i0, units) BY <1>4, <2>3, <3>3, <3>6, PlacedFacts DEF Inserted
      <3>10. Inserted(page, p2, i0, units) BY <1>4, <3>9 DEF Inserted, SameRecords, SameRecord
      <3>11. QED BY <3>7, <3>8, <3>10 DEF r
    <2>5. CASE reusable = {}
      <3> DEFINE i0 == Len(p.slots) + 1
                 p2 == [stored EXCEPT !.slots = Append(@, entry)]
      <3>1. Available(p) >= Len(units) + EntrySize BY <1>3, <2>1, <2>2, <2>5, Sizes
      <3>2. r = [page |-> p2, slot |-> Len(p.slots)] BY <1>1, <1>6, <2>5
      <3>3. Placed(p, p2, i0, units) BY <2>1, <3>1, PlaceAppended
      <3> HIDE DEF p2, stored, entry
      <3>4. r.page = p2 /\ r.slot = Len(p.slots) /\ r.slot \in Nat /\ r.slot + 1 = i0
        BY <1>3, <1>4, <3>2
      <3>5. i0 \notin LiveSlots(p) BY <3>3 DEF Placed
      <3> HIDE DEF i0
      <3>6. Inserted(p, p2, i0, units) BY <1>4, <2>3, <3>5, <3>3, PlacedFacts DEF Inserted
      <3>7. Inserted(page, p2, i0, units) BY <1>4, <3>6 DEF Inserted, SameRecords, SameRecord
      <3>8. QED BY <3>4, <3>7 DEF r
    <2>6. QED BY <2>4, <2>5
  <1>7. QED BY <1>5, <1>6

-----------------------------------------------------------------------------
(* Deletion from a page, and overwriting a record.                         *)
\* An inline record lies within the page.
LEMMA InlineFacts ==
  ASSUME NEW page, Layout(page), NEW i \in LiveSlots(page), page.slots[i].length # SPANNED_MARKER
  PROVE  /\ i \in 1 .. Len(page.slots)
         /\ page.slots[i].offset \in Nat /\ page.slots[i].length \in Nat
         /\ page.slots[i].length >= 1 /\ page.end <= page.slots[i].offset
         /\ page.slots[i].offset + page.slots[i].length <= PageSize
         /\ page.frag = PageSize - page.end - Cardinality(Used(page))
  <1>1. page \in RecordPage BY DEF Layout
  <1>2. SlotSound(page, i) BY DEF Layout
  <1>3. page.slots[i].offset \in Nat /\ page.slots[i].length \in Nat /\ i \in 1 .. Len(page.slots)
    BY <1>1, PageTypes
  <1>4. page.frag = PageSize - page.end - Cardinality(Used(page)) BY DEF Layout, FragOK
  <1>5. QED BY <1>2, <1>3, <1>4 DEF SlotSound

\* Bytes of one record are not bytes of another.
LEMMA OthersKept ==
  ASSUME NEW page, Layout(page), NEW i \in LiveSlots(page), page.slots[i].length # SPANNED_MARKER,
         NEW p2, NEW k \in LiveSlots(page), k # i, p2.slots[k] = page.slots[k],
         \A x \in Bytes0 :
           x < page.slots[i].offset \/ x >= page.slots[i].offset + page.slots[i].length =>
             p2.data[x] = page.data[x]
  PROVE  SameRecord(page, p2, k)
  <1>1. page.slots[k].length # SPANNED_MARKER
    <2>1. SlotSound(page, k) BY DEF Layout
    <2>2. page \in RecordPage BY DEF Layout
    <2>3. page.slots[k].offset \in Nat BY <2>2, PageTypes
    <2>4. QED BY <2>1, <2>3, Sizes DEF SlotSound
  <1> DEFINE o == page.slots[k].offset
             n == page.slots[k].length
             o2 == page.slots[i].offset
             n2 == page.slots[i].length
  <1>2. /\ o \in Nat /\ n \in Nat /\ o + n <= PageSize /\ o2 \in Nat /\ n2 \in Nat
    BY <1>1, InlineFacts
  <1>3. o + n <= o2 \/ o2 + n2 <= o
    <2>1. Apart(page, k, i) BY DEF Layout
    <2>2. QED BY <2>1 DEF Apart
  <1>4. ASSUME NEW j \in 1 .. n PROVE p2.data[o + j - 1] = page.data[o + j - 1]
    <2> HIDE DEF o, n, o2, n2
    <2>1. o + j - 1 \in Bytes0 /\ (o + j - 1 < o2 \/ o + j - 1 >= o2 + n2)
      BY <1>2, <1>3, Sizes DEF Bytes0
    <2>2. QED BY <2>1 DEF o2, n2
  <1>5. QED BY <1>4 DEF SameRecord

\* p2 is page without the record of slot i.
Removed(page, p2, i) ==
  /\ Layout(p2) /\ LiveSlots(p2) = LiveSlots(page) \ {i}
  /\ \A k \in LiveSlots(p2) : SameRecord(page, p2, k)

LEMMA DeleteFacts ==
  ASSUME NEW page, Layout(page), NEW slot \in Nat, slot + 1 \in LiveSlots(page)
  PROVE  Removed(page, slot_page_delete(page, slot), slot + 1)
  <1> DEFINE i == slot + 1
             s == page.slots[i]
             N == Len(page.slots)
             t == [page.slots EXCEPT ![i] = DeletedSlot]
             f == (page.frag + s.length) % Word
             d == IF s.length = SPANNED_MARKER THEN [x \in DOMAIN page.data |-> NoUnit]
                  ELSE Erase(page.data, s.offset, s.length)
             p2 == slot_page_delete(page, slot)
  <1>1. page \in RecordPage BY DEF Layout
  <1>2. /\ page.end \in Nat /\ page.slots \in Seq(SlotEntry) /\ N \in Nat
        /\ page.data \in [Bytes0 -> Unit] /\ page.frag \in Nat /\ page.kind = "record"
        /\ i \in 1 .. N /\ s.offset \in Nat /\ s.length \in Nat
    BY <1>1, PageTypes
  <1>3. p2 = [page EXCEPT !.slots[i] = DeletedSlot, !.frag = f, !.data = d]
    <2>1. HasSlot(page, slot) BY <1>2 DEF HasSlot
    <2>2. page.slots[slot + 1] # DeletedSlot BY DEF LiveSlots
    <2>3. QED BY <2>1, <2>2 DEF slot_page_delete
  <1>4. DeletedSlot \in SlotEntry BY DEF DeletedSlot, SlotEntry
  <1>5. /\ t \in Seq(SlotEntry) /\ Len(t) = N /\ t[i] = DeletedSlot
        /\ \A j \in 1 .. N : j # i => t[j] = page.slots[j]
    BY <1>2, <1>4, ExceptSeq
  <1>6. f \in Nat
    <2>1. page.frag + s.length \in Int BY <1>2
    <2>2. QED BY <2>1, Sizes
  <1>7. /\ d \in [Bytes0 -> Unit]
        /\ s.length # SPANNED_MARKER =>
             \A x \in Bytes0 : x < s.offset \/ x >= s.offset + s.length => d[x] = page.data[x]
    <2>1. CASE s.length = SPANNED_MARKER
      <3>1. d = [x \in Bytes0 |-> NoUnit] BY <1>2, <2>1
      <3>2. QED BY <2>1, <3>1, NoUnitType
    <2>2. CASE s.length # SPANNED_MARKER
      <3>1. d = Erase(page.data, s.offset, s.length) BY <2>2
      <3>2. s.offset + s.length <= PageSize BY <2>2, InlineFacts
      <3> HIDE DEF d
      <3>3. QED BY <1>2, <3>1, <3>2, EraseFacts
    <2>3. QED BY <2>1, <2>2
  <1>8. /\ p2.kind = "record" /\ p2.end = page.end /\ p2.frag = f /\ p2.slots = t
        /\ p2.data = d /\ p2 \in RecordPage
    <2> HIDE DEF f, d, p2
    <2>1. DOMAIN page = {"kind", "slots", "end", "frag", "data"} BY <1>1 DEF RecordPage
    <2>2. /\ p2.kind = page.kind /\ p2.end = page.end /\ p2.frag = f /\ p2.slots = t
          /\ p2.data = d
      BY <1>1, <1>3, <2>1 DEF RecordPage
    <2>3. p2 = [kind |-> "record", slots |-> t, end |-> page.end, frag |-> f, data |-> d]
      BY <1>1, <1>2, <1>3 DEF RecordPage
    <2> HIDE DEF t
    <2>4. p2 \in RecordPage BY <1>2, <1>5, <1>6, <1>7, <2>3 DEF RecordPage
    <2>5. QED BY <1>2, <2>2, <2>4
  <1> HIDE DEF p2, t, d
  <1>9. LiveSlots(p2) = LiveSlots(page) \ {i}
    <2>1. \A k \in 1 .. N : k # i => p2.slots[k] = page.slots[k] BY <1>5, <1>8
    <2>2. p2.slots[i] = DeletedSlot /\ Len(p2.slots) = N BY <1>5, <1>8
    <2>3. QED BY <2>1, <2>2 DEF LiveSlots
  <1>10. Start(p2) = Start(page) BY <1>5, <1>8 DEF Start
  <1>11. \A k \in LiveSlots(p2) : p2.slots[k] = page.slots[k] /\ k \in LiveSlots(page) /\ k # i
    <2>1. \A k \in LiveSlots(page) : k \in 1 .. N BY DEF LiveSlots
    <2>2. QED BY <1>5, <1>8, <1>9, <2>1
  <1>12. Start(p2) <= p2.end /\ p2.end <= PageSize BY <1>8, <1>10 DEF Layout
  <1>13. CASE s.length = SPANNED_MARKER
    <2>1. SlotSound(page, i) BY DEF Layout
    <2>2. LiveSlots(page) = {i} /\ page.frag = 0 /\ page.end = Start(page)
      <3>1. ~(s.offset + s.length <= PageSize)
        <4> HIDE DEF s
        <4>1. QED BY <1>2, <1>13, Sizes
      <3>2. QED BY <2>1, <3>1 DEF SlotSound
    <2>3. LiveSlots(p2) = {} BY <1>9, <2>2
    <2>4. f = SPANNED_MARKER
      <3>1. page.frag + s.length = Word - 1 BY <1>13, <2>2, Sizes
      <3>2. (Word - 1) % Word = Word - 1
        <4>1. Word \in Nat \ {0} /\ Word - 1 \in 0 .. (Word - 1) BY Sizes
        <4>2. QED BY <4>1, ModFacts
      <3>3. QED BY <3>1, <3>2, Sizes
    <2>5. FragOK(p2) BY <1>8, <1>10, <2>2, <2>3, <2>4 DEF FragOK
    <2>6. Layout(p2) BY <1>8, <1>12, <2>3, <2>5 DEF Layout
    <2>7. QED BY <1>9, <2>3, <2>6 DEF Removed, p2
  <1>14. CASE s.length # SPANNED_MARKER
    <2>1. /\ s.length >= 1 /\ page.end <= s.offset /\ s.offset + s.length <= PageSize
          /\ page.frag = PageSize - page.end - Cardinality(Used(page))
      BY <1>14, InlineFacts
    <2>2. \A k \in LiveSlots(p2) : SameRecord(page, p2, k)
      <3>1. \A x \in Bytes0 : x < s.offset \/ x >= s.offset + s.length => p2.data[x] = page.data[x]
        BY <1>7, <1>8, <1>14
      <3>2. QED BY <1>11, <1>14, <3>1, OthersKept
    <2> DEFINE U == Used(p2)
               V == Extent(page, i)
    <2>3. V = s.offset .. (s.offset + s.length - 1) BY <1>14 DEF Extent
    <2>4. \A k \in LiveSlots(p2) : Extent(p2, k) = Extent(page, k) BY <1>11 DEF Extent
    <2>5. LiveSlots(page) = LiveSlots(p2) \cup {i} BY <1>9
    <2>6. Used(page) = U \cup V BY <2>4, <2>5 DEF Used
    <2>7. U \cap V = {}
      <3>1. \A k \in LiveSlots(p2) : Extent(page, k) \cap V = {} BY <1>11, ExtentsApart
      <3>2. QED BY <2>4, <3>1 DEF Used
    <2>8. IsFiniteSet(V) /\ Cardinality(V) = s.length
      <3> HIDE DEF V, s
      <3>1. s.offset \in Int /\ s.offset + s.length - 1 \in Int BY <1>2
      <3>2. IsFiniteSet(s.offset .. (s.offset + s.length - 1)) BY <3>1, FS_Interval
      <3>3. Cardinality(s.offset .. (s.offset + s.length - 1))
              = IF s.offset > s.offset + s.length - 1 THEN 0
                ELSE (s.offset + s.length - 1) - s.offset + 1
        BY <3>1, FS_Interval
      <3>4. QED BY <1>2, <2>1, <2>3, <3>2, <3>3
    <2>9. IsFiniteSet(Used(page)) /\ Cardinality(Used(page)) \in Nat BY UsedFacts
    <2>10. IsFiniteSet(U) /\ Cardinality(U) \in Nat
      <3>1. IsFiniteSet(U) BY <2>6, <2>9, FS_Subset
      <3>2. QED BY <3>1, FS_CardinalityType
    <2> HIDE DEF U, V, f, s, i
    <2>11. Cardinality(Used(page)) = Cardinality(U) + s.length
      <3>1. Cardinality(U \cup V) = Cardinality(U) + Cardinality(V) - Cardinality(U \cap V)
        BY <2>8, <2>10, FS_Union
      <3>2. Cardinality(U \cap V) = 0 BY <2>7, FS_EmptySet
      <3>3. QED BY <1>2, <2>6, <2>8, <2>10, <3>1, <3>2
    <2>12. page.frag + s.length = PageSize - page.end - Cardinality(U)
      <3> DEFINE all == Cardinality(Used(page))
                 rest == Cardinality(U)
                 len == s.length
                 end == page.end
                 frag == page.frag
      <3>1. all \in Nat /\ rest \in Nat /\ len \in Nat /\ end \in Nat /\ frag \in Nat
        BY <1>2, <2>9, <2>10
      <3>2. all = rest + len /\ frag = PageSize - end - all BY <2>1, <2>11
      <3>3. PageSize \in Nat BY Sizes
      <3> HIDE DEF all, rest, len, end, frag
      <3>4. frag + len = PageSize - end - rest BY <3>1, <3>2, <3>3
      <3>5. QED BY <3>4 DEF rest, len, end, frag
    <2>13. page.frag + s.length \in 0 .. (Word - 1)
      <3> DEFINE a == page.frag + s.length
                 c == Cardinality(U)
      <3>1. a \in Nat /\ page.end \in Nat /\ c \in Nat BY <1>2, <2>10
      <3>2. a = PageSize - page.end - c BY <2>12
      <3> HIDE DEF a, c
      <3>3. a \in 0 .. (Word - 1) BY <3>1, <3>2, Sizes
      <3>4. QED BY <3>3 DEF a
    <2>14. f = page.frag + s.length
      <3>1. Word \in Nat \ {0} BY Sizes
      <3>2. QED BY <2>13, <3>1, ModFacts DEF f
    <2>15. FragOK(p2)
      <3>1. p2.frag = PageSize - p2.end - Cardinality(Used(p2)) BY <1>8, <2>12, <2>14 DEF U
      <3>2. QED BY <3>1 DEF FragOK
    <2>16. ASSUME NEW k \in LiveSlots(p2) PROVE SlotSound(p2, k)
      <3>1. page.slots[k].length # SPANNED_MARKER
        <4>1. SlotSound(page, k) BY <1>11 DEF Layout
        <4>2. i \in LiveSlots(page) /\ k # i BY <1>11 DEF i
        <4>3. page.slots[k].offset \in Nat BY <1>1, <1>11, PageTypes
        <4>4. QED BY <4>1, <4>2, <4>3, Sizes DEF SlotSound
      <3>2. /\ page.slots[k].length >= 1 /\ page.end <= page.slots[k].offset
            /\ page.slots[k].offset + page.slots[k].length <= PageSize
        BY <1>11, <3>1, InlineFacts
      <3>3. QED BY <1>8, <1>11, <3>2 DEF SlotSound
    <2>17. ASSUME NEW k \in LiveSlots(p2), NEW m \in LiveSlots(p2), k # m PROVE Apart(p2, k, m)
      <3>1. Apart(page, k, m) BY <1>11, <2>17 DEF Layout
      <3>2. QED BY <1>11, <3>1 DEF Apart
    <2>18. Layout(p2) BY <1>8, <1>12, <2>15, <2>16, <2>17 DEF Layout
    <2>19. QED BY <1>9, <2>2, <2>18 DEF Removed, p2, i
  <1>15. QED BY <1>13, <1>14

\* Overwriting a record with one of the same length touches no other.
Overwrites(page, p2, i, units) ==
  /\ page.slots[i].length # SPANNED_MARKER /\ Len(units) = page.slots[i].length
  /\ p2.slots = page.slots /\ p2.end = page.end /\ p2.frag = page.frag
  /\ p2.data = Put(Erase(page.data, page.slots[i].offset, page.slots[i].length),
                   page.slots[i].offset, units)

Overwritten(page, p2, i, units) ==
  /\ Layout(p2) /\ LiveSlots(p2) = LiveSlots(page)
  /\ \A k \in LiveSlots(page) : k # i => SameRecord(page, p2, k)
  /\ \A j \in 1 .. Len(units) : p2.data[page.slots[i].offset + j - 1] = units[j]

LEMMA OverwriteFacts ==
  ASSUME NEW page, Layout(page), NEW i \in LiveSlots(page), NEW units \in Seq(Unit),
         NEW p2 \in RecordPage, Overwrites(page, p2, i, units)
  PROVE  Overwritten(page, p2, i, units)
  <1>0. /\ page.slots[i].length # SPANNED_MARKER /\ Len(units) = page.slots[i].length
        /\ p2.slots = page.slots /\ p2.end = page.end /\ p2.frag = page.frag
        /\ p2.data = Put(Erase(page.data, page.slots[i].offset, page.slots[i].length),
                         page.slots[i].offset, units)
    BY DEF Overwrites
  <1> USE <1>0
  <1> DEFINE o == page.slots[i].offset
             n == page.slots[i].length
             d == Erase(page.data, o, n)
  <1>1. o \in Nat /\ n \in Nat /\ o + n <= PageSize BY InlineFacts
  <1>2. page.data \in [Bytes0 -> Unit] BY PageTypes DEF Layout
  <1>3. /\ d \in [Bytes0 -> Unit]
        /\ \A x \in Bytes0 : x < o \/ x >= o + n => d[x] = page.data[x]
    BY <1>1, <1>2, EraseFacts
  <1>4. p2.data = Put(d, o, units) /\ Len(units) = n OBVIOUS
  <1>5. /\ \A j \in 1 .. n : p2.data[o + j - 1] = units[j]
        /\ \A x \in Bytes0 : x < o \/ x >= o + n => p2.data[x] = d[x]
    <2> HIDE DEF d, o, n
    <2>1. /\ \A j \in 1 .. Len(units) : Put(d, o, units)[o + j - 1] = units[j]
          /\ \A x \in Bytes0 : x < o \/ x >= o + Len(units) => Put(d, o, units)[x] = d[x]
      BY <1>1, <1>3, <1>4, PutFacts
    <2>2. QED BY <1>4, <2>1
  <1>6. \A x \in Bytes0 : x < o \/ x >= o + n => p2.data[x] = page.data[x] BY <1>3, <1>5
  <1>7. \A k \in LiveSlots(page) : k # i => SameRecord(page, p2, k) BY <1>6, OthersKept
  <1>8. LiveSlots(p2) = LiveSlots(page) BY DEF LiveSlots
  <1>9. Start(p2) = Start(page) BY DEF Start
  <1>10. \A k \in LiveSlots(p2) : SlotSound(p2, k) BY <1>8, <1>9 DEF Layout, SlotSound
  <1>11. \A k, m \in LiveSlots(p2) : k # m => Apart(p2, k, m) BY <1>8 DEF Layout, Apart
  <1>12. Used(p2) = Used(page) BY <1>8 DEF Used, Extent
  <1>13. FragOK(p2) BY <1>8, <1>9, <1>12 DEF Layout, FragOK
  <1>14. Layout(p2) BY <1>9, <1>10, <1>11, <1>13 DEF Layout
  <1>15. QED BY <1>4, <1>5, <1>7, <1>8, <1>14 DEF Overwritten

-----------------------------------------------------------------------------
(* Chains of overflow pages.                                               *)
First(l) == IF l = <<>> THEN NoPage ELSE l[1]

\* The pages of l are distinct, and each links to the next.
Linked(pg, l) ==
  /\ l \in Seq(RecPages)
  /\ \A j, k \in 1 .. Len(l) : l[j] = l[k] => j = k
  /\ \A k \in 1 .. Len(l) : /\ pg[l[k]].kind = "overflow"
                            /\ pg[l[k]].next = IF k < Len(l) THEN l[k + 1] ELSE NoPage

\* A chain is at most as long as there are pages.
LEMMA ChainLength ==
  ASSUME NEW pg, NEW l, Linked(pg, l)
  PROVE  Cardinality(RecPages) \in Nat /\ Len(l) \in Nat /\ Len(l) <= Cardinality(RecPages)
  <1>1. IsFiniteSet(RecPages) BY RecordConstants
  <1>2. Cardinality(RecPages) \in Nat BY <1>1, FS_CardinalityType
  <1>3. l \in [1 .. Len(l) -> RecPages] /\ Len(l) \in Nat BY LenProperties DEF Linked
  <1>4. l \in Injection(1 .. Len(l), RecPages) BY <1>3 DEF Linked, Injection, IsInjective
  <1>5. Cardinality(1 .. Len(l)) <= Cardinality(RecPages) BY <1>1, <1>4, FS_Injection
  <1>6. Cardinality(1 .. Len(l)) = Len(l)
    <2>1. 1 \in Int /\ Len(l) \in Int BY <1>3
    <2>2. Cardinality(1 .. Len(l)) = IF 1 > Len(l) THEN 0 ELSE Len(l) - 1 + 1
      BY <2>1, FS_Interval
    <2>3. QED BY <1>3, <2>2
  <1>7. QED BY <1>2, <1>3, <1>5, <1>6

\* Following the links from the first page gives the chain.
LEMMA OvChainIs ==
  ASSUME NEW pg, NEW l, Linked(pg, l)
  PROVE  OvChain(pg, First(l)) = l
  <1> DEFINE N == Cardinality(RecPages)
             n == Len(l)
             At(k) == IF k < n THEN l[k + 1] ELSE NoPage
             a == [k \in 0 .. N |-> At(k)]
             Law(g) == g = [k \in 0 .. N |->
                              IF k = 0 THEN First(l)
                              ELSE IF IsOverflow(pg, g[k - 1]) THEN pg[g[k - 1]].next ELSE NoPage]
             u == CHOOSE g : Law(g)
             bounds == {k \in 0 .. N : ~IsOverflow(pg, u[k])} \cup {N}
  <1>1. N \in Nat /\ n \in Nat /\ n <= N BY ChainLength
  <1>2. l \in [1 .. n -> RecPages] /\ \A k \in 1 .. n : l[k] # NoPage
    BY LenProperties, RecordConstants DEF Linked, NoPage
  <1>3. First(l) = At(0)
    <2>1. l = <<>> <=> n = 0
      <3>1. l \in Seq(RecPages) BY DEF Linked
      <3>2. QED BY <3>1, EmptySeq
    <2>2. QED BY <1>1, <2>1 DEF First
  <1>4. ASSUME NEW k \in Nat
        PROVE  /\ IsOverflow(pg, At(k)) <=> k < n
               /\ At(k + 1) = IF IsOverflow(pg, At(k)) THEN pg[At(k)].next ELSE NoPage
    <2>1. CASE k < n
      <3>1. k + 1 \in 1 .. n /\ At(k) = l[k + 1] BY <1>1, <2>1
      <3>2. /\ pg[l[k + 1]].kind = "overflow" /\ l[k + 1] # NoPage
            /\ pg[l[k + 1]].next = IF k + 1 < n THEN l[(k + 1) + 1] ELSE NoPage
        BY <1>2, <3>1 DEF Linked
      <3>3. QED BY <2>1, <3>1, <3>2 DEF IsOverflow
    <2>2. CASE ~(k < n)
      <3>1. At(k) = NoPage /\ At(k + 1) = NoPage BY <1>1, <2>2
      <3>2. QED BY <2>2, <3>1 DEF IsOverflow
    <2>3. QED BY <2>1, <2>2
  <1> HIDE DEF At
  <1>5. Law(a)
    <2>1. ASSUME NEW k \in 0 .. N
          PROVE  At(k) = IF k = 0 THEN First(l)
                         ELSE IF IsOverflow(pg, a[k - 1]) THEN pg[a[k - 1]].next ELSE NoPage
      <3>1. CASE k = 0 BY <1>3, <3>1
      <3>2. CASE k # 0
        <4>1. k - 1 \in Nat /\ k - 1 \in 0 .. N /\ (k - 1) + 1 = k BY <1>1, <3>2
        <4>2. a[k - 1] = At(k - 1) BY <4>1
        <4>3. At(k) = IF IsOverflow(pg, At(k - 1)) THEN pg[At(k - 1)].next ELSE NoPage
          BY <1>4, <4>1
        <4>4. QED BY <3>2, <4>2, <4>3
      <3>3. QED BY <3>1, <3>2
    <2>2. QED BY <2>1
  <1>6. Law(u)
    <2> HIDE DEF Law
    <2>1. QED BY <1>5
  <1> HIDE DEF u
  <1>7. \A k \in 0 .. N : u[k] = At(k)
    <2> DEFINE P == {k \in Nat : k <= N => u[k] = At(k)}
    <2>1. 0 \in P BY <1>1, <1>3, <1>6
    <2>2. ASSUME NEW k \in Nat, k \in P PROVE k + 1 \in P
      <3> SUFFICES ASSUME k + 1 <= N PROVE u[k + 1] = At(k + 1) OBVIOUS
      <3>1. u[k] = At(k) BY <1>1, <2>2
      <3>2. k + 1 \in 0 .. N /\ k + 1 # 0 /\ (k + 1) - 1 = k BY <1>1
      <3>3. u[k + 1] = IF IsOverflow(pg, u[k]) THEN pg[u[k]].next ELSE NoPage BY <1>6, <3>2
      <3>4. QED BY <1>4, <3>1, <3>3
    <2>3. Nat \subseteq P
      <3> HIDE DEF P
      <3>1. QED BY <2>1, <2>2, SetInduction
    <2>4. QED BY <1>1, <2>3
  <1>8. Min(bounds) = n
    <2>1. ASSUME NEW k \in 0 .. N PROVE IsOverflow(pg, u[k]) <=> k < n
      <3>1. k \in Nat /\ u[k] = At(k) BY <1>1, <1>7
      <3>2. IsOverflow(pg, At(k)) <=> k < n BY <1>4, <3>1
      <3>3. QED BY <3>1, <3>2
    <2>2. bounds \subseteq Nat /\ n \in bounds /\ \A k \in bounds : n <= k BY <1>1, <2>1
    <2> HIDE DEF bounds
    <2>3. QED BY <2>2, MinIs
  <1>9. OvChain(pg, First(l)) = [k \in 1 .. Min(bounds) |-> u[k - 1]] BY DEF OvChain, u
  <1>10. \A k \in 1 .. n : u[k - 1] = l[k]
    <2> SUFFICES ASSUME NEW k \in 1 .. n PROVE u[k - 1] = l[k] OBVIOUS
    <2>1. k - 1 \in 0 .. N /\ k - 1 < n /\ (k - 1) + 1 = k BY <1>1
    <2>2. QED BY <1>7, <2>1 DEF At
  <1>11. OvChain(pg, First(l)) = [k \in 1 .. n |-> u[k - 1]] BY <1>8, <1>9
  <1>12. [k \in 1 .. n |-> u[k - 1]] = [k \in 1 .. n |-> l[k]] BY <1>10
  <1>13. l = [k \in 1 .. n |-> l[k]] BY <1>2
  <1>14. QED BY <1>11, <1>12, <1>13

LEMMA ToSetFacts ==
  ASSUME NEW S, NEW s \in Seq(S)
  PROVE  ToSet(s) = {s[i] : i \in 1 .. Len(s)} /\ ToSet(s) \subseteq S
  BY LenProperties, SeqElement DEF ToSet

LEMMA OverflowFreeIs ==
  ASSUME NEW pg, NEW l, Linked(pg, l)
  PROVE  overflow_free(pg, First(l)) = [p \in RecPages |-> IF p \in ToSet(l) THEN FreePage ELSE pg[p]]
  BY OvChainIs DEF overflow_free

-----------------------------------------------------------------------------
(* The chunks of a record.                                                 *)
Chunks(length) == ((length - MaxInlineData) + OvSpace - 1) \div OvSpace

\* How far the data reaches after k chunks.
Reach(units, k) == Min({MaxInlineData + k * OvSpace, Len(units)})

LEMMA MinOfTwo == ASSUME NEW a \in Nat, NEW b \in Nat PROVE Min({a, b}) = IF a <= b THEN a ELSE b
  <1>1. CASE a <= b
    <2>1. {a, b} \subseteq Nat /\ a \in {a, b} /\ \A x \in {a, b} : a <= x BY <1>1
    <2>2. QED BY <1>1, <2>1, MinIs
  <1>2. CASE ~(a <= b)
    <2>1. {a, b} \subseteq Nat /\ b \in {a, b} /\ \A x \in {a, b} : b <= x BY <1>2
    <2>2. QED BY <1>2, <2>1, MinIs
  <1>3. QED BY <1>1, <1>2

LEMMA ChunksFacts ==
  ASSUME NEW length \in Nat, length > MAX_INLINE_RECORD_SIZE
  PROVE  /\ Chunks(length) \in Nat /\ Chunks(length) >= 1
         /\ MaxInlineData + Chunks(length) * OvSpace >= length
         /\ \A k \in 1 .. Chunks(length) :
              /\ (k - 1) * OvSpace \in Nat /\ k * OvSpace = (k - 1) * OvSpace + OvSpace
              /\ MaxInlineData + (k - 1) * OvSpace < length
  <1> DEFINE c == Chunks(length)
             x == (length - MaxInlineData) + OvSpace - 1
  <1>1. x \in Nat /\ x >= OvSpace BY Sizes
  <1>2. OvSpace \in Nat \ {0} BY Sizes
  <1>3. c = x \div OvSpace BY DEF Chunks
  <1> HIDE DEF x, c
  <1>4. c \in Nat /\ OvSpace * c <= x /\ x < OvSpace * c + OvSpace BY <1>1, <1>2, <1>3, DivFacts
  <1>5. OvSpace * c = c * OvSpace /\ c * OvSpace \in Nat BY <1>2, <1>4
  <1>6. c * OvSpace <= x /\ x < c * OvSpace + OvSpace BY <1>4, <1>5
  <1>7. c >= 1
    <2>1. c # 0 BY <1>1, <1>2, <1>6
    <2>2. QED BY <1>4, <2>1
  <1>8. MaxInlineData + c * OvSpace >= length BY <1>2, <1>5, <1>6, Sizes DEF x
  <1>9. ASSUME NEW k \in 1 .. c
        PROVE  /\ (k - 1) * OvSpace \in Nat /\ k * OvSpace = (k - 1) * OvSpace + OvSpace
               /\ MaxInlineData + (k - 1) * OvSpace < length
    <2>1. k \in Nat /\ k - 1 \in Nat BY <1>4
    <2>2. (k - 1) * OvSpace \in Nat BY <1>2, <2>1
    <2>3. k * OvSpace = (k - 1) * OvSpace + OvSpace BY <1>2, <2>1
    <2>4. k * OvSpace <= c * OvSpace
      <3>1. c - k \in Nat BY <1>4
      <3>2. (c - k) * OvSpace \in Nat BY <1>2, <3>1
      <3>3. c * OvSpace = k * OvSpace + (c - k) * OvSpace BY <1>2, <1>4, <2>1
      <3>4. k * OvSpace \in Nat BY <1>2, <2>1
      <3>5. QED BY <3>2, <3>3, <3>4
    <2>5. (k - 1) * OvSpace + OvSpace <= x
      <3> DEFINE y == (k - 1) * OvSpace
                 z == c * OvSpace
      <3>1. y \in Nat /\ y + OvSpace <= z BY <2>2, <2>3, <2>4
      <3>2. z \in Nat /\ z <= x /\ x \in Nat BY <1>1, <1>5, <1>6
      <3> HIDE DEF y, z
      <3>3. y + OvSpace <= x BY <3>1, <3>2, Sizes
      <3>4. QED BY <3>3 DEF y
    <2>6. QED BY <2>2, <2>3, <2>5, Sizes DEF x
  <1>10. QED BY <1>4, <1>7, <1>8, <1>9 DEF c

LEMMA ReachFacts ==
  ASSUME NEW units \in Seq(Unit), Len(units) > MAX_INLINE_RECORD_SIZE
  PROVE  /\ Reach(units, 0) = MaxInlineData
         /\ Reach(units, Chunks(Len(units))) = Len(units)
         /\ \A k \in 1 .. Chunks(Len(units)) :
              /\ Reach(units, k - 1) \in Nat /\ Reach(units, k) \in Nat
              /\ Reach(units, k - 1) < Reach(units, k) /\ Reach(units, k) <= Len(units)
              /\ Chunk(units, k) = SubSeq(units, Reach(units, k - 1) + 1, Reach(units, k))
              /\ Chunk(units, k) \in Seq(Unit)
  <1> DEFINE L == Len(units)
             c == Chunks(L)
             M == MaxInlineData
  <1>1. L \in Nat /\ L > MAX_INLINE_RECORD_SIZE BY SeqElement
  <1>2. /\ c \in Nat /\ c >= 1 /\ M + c * OvSpace >= L
        /\ \A k \in 1 .. c : /\ (k - 1) * OvSpace \in Nat
                             /\ k * OvSpace = (k - 1) * OvSpace + OvSpace
                             /\ M + (k - 1) * OvSpace < L
    BY <1>1, ChunksFacts
  <1>3. M \in Nat /\ M < L BY <1>1, Sizes
  <1>4. Reach(units, 0) = M
    <2>1. M + 0 * OvSpace = M BY <1>3, Sizes
    <2>2. QED BY <1>1, <1>3, <2>1, MinOfTwo DEF Reach
  <1>5. Reach(units, c) = L
    <2>1. M + c * OvSpace \in Nat
      <3>1. c * OvSpace \in Nat BY <1>2, Sizes
      <3>2. QED BY <1>3, <3>1
    <2> HIDE DEF c, M, L
    <2> DEFINE a == M + c * OvSpace
    <2>2. a \in Nat /\ L \in Nat /\ a >= L BY <1>1, <1>2, <2>1
    <2> HIDE DEF a
    <2>3. Min({a, L}) = IF a <= L THEN a ELSE L BY <2>2, MinOfTwo
    <2>4. Min({a, L}) = L BY <2>2, <2>3
    <2>5. QED BY <2>4 DEF Reach, a, M, L, c
  <1>6. ASSUME NEW k \in 1 .. c
        PROVE  /\ Reach(units, k - 1) \in Nat /\ Reach(units, k) \in Nat
               /\ Reach(units, k - 1) < Reach(units, k) /\ Reach(units, k) <= L
               /\ Chunk(units, k) = SubSeq(units, Reach(units, k - 1) + 1, Reach(units, k))
               /\ Chunk(units, k) \in Seq(Unit)
    <2> DEFINE y == (k - 1) * OvSpace
               first == M + y + 1
               top == first + OvSpace - 1
    <2>1. y \in Nat /\ k * OvSpace = y + OvSpace /\ M + y < L BY <1>2
    <2>2. Chunk(units, k) = SubSeq(units, first, Min({top, L})) BY DEF Chunk
    <2>3. Reach(units, k - 1) = Min({M + y, L}) /\ Reach(units, k) = Min({M + k * OvSpace, L})
      BY DEF Reach
    <2> HIDE DEF y, c, M, L
    <2>4. top = M + k * OvSpace /\ top \in Nat /\ first \in Nat BY <1>3, <2>1, Sizes
    <2>5. Reach(units, k - 1) = M + y
      <3>1. M + y \in Nat /\ M + y <= L BY <1>1, <1>3, <2>1
      <3>2. QED BY <1>1, <2>3, <3>1, MinOfTwo
    <2>6. Reach(units, k) = Min({top, L}) BY <2>3, <2>4
    <2>7. Min({top, L}) = IF top <= L THEN top ELSE L BY <1>1, <2>4, MinOfTwo
    <2>8. /\ Reach(units, k) \in Nat /\ Reach(units, k) <= L /\ Reach(units, k) > M + y
      <3>1. top > M + y BY <1>3, <2>1, Sizes
      <3> HIDE DEF top
      <3>2. QED BY <1>1, <1>3, <2>1, <2>4, <2>6, <2>7, <3>1
    <2>9. Chunk(units, k) = SubSeq(units, Reach(units, k - 1) + 1, Reach(units, k))
      BY <2>2, <2>5, <2>6
    <2>10. Chunk(units, k) \in Seq(Unit)
      <3> DEFINE m1 == Reach(units, k - 1) + 1
                 m2 == Reach(units, k)
      <3>1. m1 \in Int /\ m2 \in Int /\ m1 >= 1 /\ m2 <= L BY <1>3, <2>1, <2>5, <2>8
      <3> HIDE DEF m1, m2
      <3>2. \A i \in m1 .. m2 : i \in 1 .. L BY <1>1, <3>1
      <3>3. \A i \in m1 .. m2 : units[i] \in Unit BY <3>2, SeqElement DEF L
      <3>4. SubSeq(units, m1, m2) \in Seq(Unit) BY <3>1, <3>3, SubSeqProperties
      <3>5. QED BY <2>9, <3>4 DEF m1, m2
    <2>11. QED BY <1>3, <2>1, <2>5, <2>8, <2>9, <2>10
  <1>7. QED BY <1>4, <1>5, <1>6

\* The head and the chunks, put together, are the record.
LEMMA FlattenChunks ==
  ASSUME NEW units \in Seq(Unit), Len(units) > MAX_INLINE_RECORD_SIZE,
         NEW ss, Len(ss) = Chunks(Len(units)) + 1, ss[1] = SubSeq(units, 1, MaxInlineData),
         \A k \in 1 .. Chunks(Len(units)) : ss[k + 1] = Chunk(units, k)
  PROVE  FlattenSeq(ss) = units
  <1> DEFINE c == Chunks(Len(units))
             Part(i) == SubSeq(units, 1, Reach(units, i - 1))
             a == [i \in 1 .. Len(ss) |-> Part(i)]
             Law(g) == g = [i \in 1 .. Len(ss) |-> IF i = 1 THEN ss[i] ELSE g[i - 1] \o ss[i]]
             u == CHOOSE g : Law(g)
  <1>1. Len(units) \in Nat /\ c \in Nat /\ c >= 1 BY SeqElement, ChunksFacts
  <1>2. Reach(units, 0) = MaxInlineData /\ Reach(units, c) = Len(units) BY ReachFacts
  <1>3. Part(1) = ss[1]
    <2>1. 1 - 1 = 0 OBVIOUS
    <2>2. QED BY <1>2, <2>1
  <1>4. ASSUME NEW i \in 1 .. c PROVE Part(i + 1) = Part(i) \o ss[i + 1]
    <2> DEFINE x == Reach(units, i - 1)
               y == Reach(units, i)
    <2>1. /\ x \in Nat /\ y \in Nat /\ x < y /\ y <= Len(units)
          /\ Chunk(units, i) = SubSeq(units, x + 1, y)
      BY ReachFacts
    <2>2. (i + 1) - 1 = i OBVIOUS
    <2>3. ss[i + 1] = SubSeq(units, x + 1, y) BY <2>1
    <2> HIDE DEF x, y
    <2>4. 1 \in 1 .. Len(units) + 1 /\ x \in (1 - 1) .. Len(units) /\ y \in x .. Len(units)
      BY <1>1, <2>1
    <2>5. SubSeq(units, 1, x) \o SubSeq(units, x + 1, y) = SubSeq(units, 1, y)
      BY <2>4, ConcatAdjacentSubSeq
    <2>6. Part(i) = SubSeq(units, 1, x) /\ Part(i + 1) = SubSeq(units, 1, y) BY <2>2 DEF x, y
    <2>7. QED BY <2>3, <2>5, <2>6
  <1>5. Part(c + 1) = units
    <2>1. (c + 1) - 1 = c BY <1>1
    <2>2. QED BY <1>2, <2>1, SubSeqFull
  <1> HIDE DEF Part, c
  <1>6. Len(ss) = c + 1 BY DEF c
  <1>7. ASSUME NEW i \in 1 .. Len(ss), i # 1 PROVE Part(i) = Part(i - 1) \o ss[i]
    <2>1. i - 1 \in 1 .. c /\ (i - 1) + 1 = i BY <1>1, <1>6, <1>7
    <2>2. QED BY <1>4, <2>1
  <1>8. Law(a)
    <2>1. ASSUME NEW i \in 1 .. Len(ss)
          PROVE  Part(i) = IF i = 1 THEN ss[i] ELSE a[i - 1] \o ss[i]
      <3>1. CASE i = 1 BY <1>3, <3>1
      <3>2. CASE i # 1
        <4>1. i - 1 \in 1 .. Len(ss) BY <1>1, <1>6, <3>2
        <4>2. a[i - 1] = Part(i - 1) BY <4>1
        <4>3. QED BY <1>7, <3>2, <4>2
      <3>3. QED BY <3>1, <3>2
    <2>2. QED BY <2>1
  <1>9. Law(u)
    <2> HIDE DEF Law
    <2>1. QED BY <1>8
  <1> HIDE DEF u
  <1>10. \A i \in 1 .. Len(ss) : u[i] = Part(i)
    <2> DEFINE P == {i \in Nat : i + 1 <= Len(ss) => u[i + 1] = Part(i + 1)}
    <2>1. 0 \in P
      <3>1. 1 \in 1 .. Len(ss) BY <1>1, <1>6
      <3>2. u[1] = ss[1] BY <1>9, <3>1
      <3>3. u[0 + 1] = Part(0 + 1)
        <4>1. 0 + 1 = 1 OBVIOUS
        <4>2. QED BY <1>3, <3>2, <4>1
      <3>4. QED BY <3>3
    <2>2. ASSUME NEW i \in Nat, i \in P PROVE i + 1 \in P
      <3> SUFFICES ASSUME (i + 1) + 1 <= Len(ss) PROVE u[(i + 1) + 1] = Part((i + 1) + 1) OBVIOUS
      <3> DEFINE j == (i + 1) + 1
      <3>1. j \in 1 .. Len(ss) /\ j # 1 /\ j - 1 = i + 1 BY <1>1, <1>6
      <3>2. u[i + 1] = Part(i + 1) BY <1>1, <1>6, <2>2
      <3> HIDE DEF j
      <3>3. u[j] = u[j - 1] \o ss[j] BY <1>9, <3>1
      <3>4. Part(j) = Part(j - 1) \o ss[j] BY <1>7, <3>1
      <3>5. QED BY <3>1, <3>2, <3>3, <3>4 DEF j
    <2>3. Nat \subseteq P
      <3> HIDE DEF P
      <3>1. QED BY <2>1, <2>2, SetInduction
    <2>4. ASSUME NEW i \in 1 .. Len(ss) PROVE u[i] = Part(i)
      <3>1. i - 1 \in Nat /\ (i - 1) + 1 = i /\ i <= Len(ss) BY <1>1, <1>6
      <3>2. i - 1 \in P BY <2>3, <3>1
      <3>3. QED BY <3>1, <3>2
    <2>5. QED BY <2>4
  <1>11. FlattenSeq(ss) = u[Len(ss)]
    <2>1. Len(ss) # 0 BY <1>1, <1>6
    <2>2. QED BY <2>1 DEF FlattenSeq, u
  <1>12. Len(ss) \in 1 .. Len(ss) BY <1>1, <1>6
  <1>13. QED BY <1>5, <1>6, <1>10, <1>11, <1>12

-----------------------------------------------------------------------------
(* Building a chain.                                                       *)
AnyPage == {FreePage} \cup OverflowPage \cup RecordPage
PageMap == [RecPages -> AnyPage]

LEMMA KindFacts ==
  ASSUME NEW page \in AnyPage
  PROVE  /\ page.kind = "free" <=> page = FreePage
         /\ page.kind = "overflow" <=> page \in OverflowPage
         /\ page.kind = "record" <=> page \in RecordPage
  <1>1. FreePage.kind = "free" BY DEF FreePage
  <1>2. \A p \in OverflowPage : p.kind = "overflow" BY DEF OverflowPage
  <1>3. \A p \in RecordPage : p.kind = "record" BY DEF RecordPage
  <1>4. QED BY <1>1, <1>2, <1>3 DEF AnyPage

LEMMA NewPageFacts ==
  ASSUME NEW pg \in PageMap, ~NoFree(pg)
  PROVE  NewPage(pg) \in RecPages /\ pg[NewPage(pg)] = FreePage
  <1> DEFINE S == {p \in RecPages : pg[p].kind = "free"}
  <1>1. S \subseteq Nat /\ S # {} BY RecordConstants DEF NoFree
  <1>2. Min(S) \in S BY <1>1, MinFacts
  <1>3. NewPage(pg) \in S BY <1>2 DEF NewPage
  <1>4. pg[NewPage(pg)] \in AnyPage BY <1>3 DEF PageMap
  <1>5. QED BY <1>3, <1>4, KindFacts

LEMMA OvPageFacts ==
  ASSUME NEW next \in RecPages \cup {NoPage}, NEW data \in Seq(Unit)
  PROVE  /\ OvPage(next, data) \in OverflowPage /\ OvPage(next, data) \in AnyPage
         /\ OvPage(next, data).kind = "overflow" /\ OvPage(next, data).next = next
         /\ OvPage(next, data).data = data /\ OvPage(next, data) # FreePage
         /\ \A p : [OvPage(next, data) EXCEPT !.next = p] = OvPage(p, data)
  <1>1. /\ OvPage(next, data) \in OverflowPage
        /\ OvPage(next, data).kind = "overflow" /\ OvPage(next, data).next = next
        /\ OvPage(next, data).data = data
    BY DEF OvPage, OverflowPage
  <1>2. FreePage.kind = "free" BY DEF FreePage
  <1>3. \A p : [OvPage(next, data) EXCEPT !.next = p] = OvPage(p, data) BY DEF OvPage
  <1>4. QED BY <1>1, <1>2, <1>3 DEF AnyPage

\* pg2 is pg with the first chunks of units in the pages l, which were free.
Built(pg, units, l, pg2) ==
  /\ l \in Seq(RecPages)
  /\ \A j, k \in 1 .. Len(l) : l[j] = l[k] => j = k
  /\ \A k \in 1 .. Len(l) :
       /\ pg[l[k]] = FreePage
       /\ pg2[l[k]] = OvPage(IF k < Len(l) THEN l[k + 1] ELSE NoPage, Chunk(units, k))
  /\ \A p \in RecPages : p \notin ToSet(l) => pg2[p] = pg[p]

LastOf(l) == IF l = <<>> THEN NoPage ELSE l[Len(l)]

BuildState ==
  {b \in [pages : PageMap, first : RecPages \cup {NoPage}, last : RecPages \cup {NoPage},
          full : BOOLEAN] :
     b.last # NoPage => b.pages[b.last] \in OverflowPage}

BuildStep(units, k, b) ==
  LET p == NewPage(b.pages)
      added == [b.pages EXCEPT ![p] = OvPage(NoPage, Chunk(units, k))]
  IN  IF b.full \/ NoFree(b.pages) THEN [b EXCEPT !.full = TRUE]
      ELSE IF b.last = NoPage THEN [b EXCEPT !.pages = added, !.first = p, !.last = p]
      ELSE [b EXCEPT !.pages = [added EXCEPT ![b.last].next = p], !.last = p]

BuildOK(pg, units, k, b) ==
  /\ b \in BuildState
  /\ \E l : /\ Built(pg, units, l, b.pages) /\ b.first = First(l) /\ b.last = LastOf(l)
            /\ Len(l) <= k /\ (~b.full => Len(l) = k)

LEMMA BuildStepFacts ==
  ASSUME NEW units \in Seq(Unit), NEW k, Chunk(units, k) \in Seq(Unit), NEW b \in BuildState
  PROVE  LET c == BuildStep(units, k, b)
             p == NewPage(b.pages)
         IN  /\ c \in BuildState
             /\ b.full \/ NoFree(b.pages) =>
                  c.pages = b.pages /\ c.first = b.first /\ c.last = b.last /\ c.full = TRUE
             /\ ~b.full /\ ~NoFree(b.pages) =>
                  /\ p \in RecPages /\ b.pages[p] = FreePage /\ p # b.last
                  /\ c.first = (IF b.last = NoPage THEN p ELSE b.first) /\ c.last = p
                  /\ c.full = FALSE
                  /\ c.pages[p] = OvPage(NoPage, Chunk(units, k))
                  /\ \A x \in RecPages : x # p =>
                       c.pages[x] = IF x = b.last THEN [b.pages[x] EXCEPT !.next = p] ELSE b.pages[x]
  <1> DEFINE c == BuildStep(units, k, b)
             p == NewPage(b.pages)
             o == OvPage(NoPage, Chunk(units, k))
             added == [b.pages EXCEPT ![p] = o]
             linked == [added EXCEPT ![b.last].next = p]
  <1>1. /\ b.pages \in PageMap /\ b.first \in RecPages \cup {NoPage}
        /\ b.last \in RecPages \cup {NoPage} /\ b.full \in BOOLEAN
        /\ b.last # NoPage => b.pages[b.last] \in OverflowPage
        /\ b = [pages |-> b.pages, first |-> b.first, last |-> b.last, full |-> b.full]
    BY DEF BuildState
  <1>2. CASE b.full \/ NoFree(b.pages)
    <2>1. c = [b EXCEPT !.full = TRUE] BY <1>2 DEF BuildStep
    <2> HIDE DEF c
    <2>2. c = [pages |-> b.pages, first |-> b.first, last |-> b.last, full |-> TRUE]
      BY <1>1, <2>1
    <2>3. c.pages = b.pages /\ c.first = b.first /\ c.last = b.last /\ c.full = TRUE BY <2>2
    <2>4. c \in BuildState BY <1>1, <2>2 DEF BuildState
    <2>5. QED BY <1>2, <2>3, <2>4 DEF c
  <1>3. CASE ~b.full /\ ~NoFree(b.pages)
    <2>1. p \in RecPages /\ b.pages[p] = FreePage BY <1>1, <1>3, NewPageFacts
    <2>2. p # NoPage BY <2>1, RecordConstants DEF NoPage
    <2>3. p # b.last
      <3>1. ASSUME p = b.last PROVE FALSE
        <4>1. FreePage \in OverflowPage BY <1>1, <2>1, <2>2, <3>1
        <4>2. QED BY <4>1 DEF FreePage, OverflowPage
      <3>2. QED BY <3>1
    <2>4. o \in OverflowPage /\ o \in AnyPage BY OvPageFacts
    <2> HIDE DEF p, o
    <2>5. /\ added \in PageMap /\ added[p] = o
          /\ \A x \in RecPages : x # p => added[x] = b.pages[x]
      BY <1>1, <2>1, <2>4 DEF PageMap
    <2> HIDE DEF added
    <2>6. CASE b.last = NoPage
      <3>1. c = [b EXCEPT !.pages = added, !.first = p, !.last = p]
        BY <1>3, <2>6 DEF BuildStep, p, added, o
      <3> HIDE DEF c
      <3>2. c = [pages |-> added, first |-> p, last |-> p, full |-> b.full] BY <1>1, <3>1
      <3>3. c.pages = added /\ c.first = p /\ c.last = p /\ c.full = FALSE BY <1>1, <1>3, <3>2
      <3>4. c \in BuildState BY <1>1, <2>1, <2>4, <2>5, <3>2 DEF BuildState
      <3>5. \A x \in RecPages : x # b.last BY <2>6, RecordConstants DEF NoPage
      <3>6. QED BY <1>3, <2>1, <2>3, <2>5, <2>6, <3>3, <3>4, <3>5 DEF c, p, o
    <2>7. CASE b.last # NoPage
      <3>1. c = [b EXCEPT !.pages = linked, !.last = p]
        BY <1>3, <2>7 DEF BuildStep, p, added, o
      <3> DEFINE q == [b.pages[b.last] EXCEPT !.next = p]
      <3>2. b.last \in RecPages /\ added[b.last] = b.pages[b.last] BY <1>1, <2>3, <2>5, <2>7
      <3>3. q \in OverflowPage
        <4>1. b.pages[b.last] \in OverflowPage BY <1>1, <2>7
        <4>2. QED BY <2>1, <4>1 DEF OverflowPage
      <3>4. linked = [added EXCEPT ![b.last] = q] BY <3>2
      <3> HIDE DEF c, linked, q
      <3>5. /\ linked \in PageMap /\ linked[p] = o /\ linked[b.last] = q
            /\ \A x \in RecPages : x # p /\ x # b.last => linked[x] = b.pages[x]
        <4>1. q \in AnyPage BY <3>3 DEF AnyPage
        <4>2. QED BY <2>1, <2>3, <2>5, <3>2, <3>4, <4>1 DEF PageMap
      <3>6. c = [pages |-> linked, first |-> b.first, last |-> p, full |-> b.full] BY <1>1, <3>1
      <3>7. c.pages = linked /\ c.first = b.first /\ c.last = p /\ c.full = FALSE BY <1>1, <1>3, <3>6
      <3>8. c \in BuildState BY <1>1, <2>1, <2>4, <3>5, <3>6 DEF BuildState
      <3>9. \A x \in RecPages : x # p =>
              c.pages[x] = IF x = b.last THEN [b.pages[x] EXCEPT !.next = p] ELSE b.pages[x]
        BY <3>5, <3>7 DEF q
      <3>10. QED BY <1>3, <2>1, <2>3, <2>7, <3>5, <3>7, <3>8, <3>9 DEF c, p, o
    <2>8. QED BY <2>6, <2>7
  <1>4. QED BY <1>1, <1>2, <1>3

LEMMA BuildNext ==
  ASSUME NEW pg \in PageMap, NEW units \in Seq(Unit), NEW k \in Nat,
         \A j \in 1 .. (k + 1) : Chunk(units, j) \in Seq(Unit),
         NEW b, BuildOK(pg, units, k, b)
  PROVE  BuildOK(pg, units, k + 1, BuildStep(units, k + 1, b))
  <1> DEFINE c == BuildStep(units, k + 1, b)
             p == NewPage(b.pages)
  <1>1. b \in BuildState BY DEF BuildOK
  <1>2. PICK l : /\ Built(pg, units, l, b.pages) /\ b.first = First(l) /\ b.last = LastOf(l)
                 /\ Len(l) <= k /\ (~b.full => Len(l) = k)
    BY DEF BuildOK
  <1>3. Chunk(units, k + 1) \in Seq(Unit)
    <2>1. k + 1 \in 1 .. (k + 1) OBVIOUS
    <2>2. QED BY <2>1
  <1>4. c \in BuildState BY <1>1, <1>3, BuildStepFacts
  <1>5. Len(l) \in Nat /\ l \in Seq(RecPages) BY <1>2, LenProperties DEF Built
  <1>6. CASE b.full \/ NoFree(b.pages)
    <2>1. c.pages = b.pages /\ c.first = b.first /\ c.last = b.last /\ c.full = TRUE
      BY <1>1, <1>3, <1>6, BuildStepFacts
    <2>2. Len(l) <= k + 1 BY <1>2, <1>5
    <2> HIDE DEF c
    <2>3. BuildOK(pg, units, k + 1, c) BY <1>2, <1>4, <2>1, <2>2 DEF BuildOK
    <2>4. QED BY <2>3 DEF c
  <1>7. CASE ~b.full /\ ~NoFree(b.pages)
    <2>1. /\ p \in RecPages /\ b.pages[p] = FreePage /\ p # b.last
          /\ c.first = (IF b.last = NoPage THEN p ELSE b.first) /\ c.last = p
          /\ c.full = FALSE
          /\ c.pages[p] = OvPage(NoPage, Chunk(units, k + 1))
          /\ \A x \in RecPages : x # p =>
               c.pages[x] = IF x = b.last THEN [b.pages[x] EXCEPT !.next = p] ELSE b.pages[x]
      BY <1>1, <1>3, <1>7, BuildStepFacts
    <2> HIDE DEF c, p
    <2> DEFINE m == Append(l, p)
    <2>2. Len(l) = k BY <1>2, <1>7
    <2>3. /\ m \in Seq(RecPages) /\ Len(m) = k + 1 /\ m[k + 1] = p /\ m # <<>>
          /\ \A j \in 1 .. k : m[j] = l[j]
      <3>1. /\ m \in Seq(RecPages) /\ m # <<>> /\ Len(m) = Len(l) + 1 /\ m[Len(l) + 1] = p
            /\ \A j \in 1 .. Len(l) : m[j] = l[j]
        BY <1>5, <2>1, AppendProperties
      <3>2. QED BY <2>2, <3>1
    <2>4. ASSUME NEW j \in 1 .. k
          PROVE  /\ l[j] \in RecPages /\ l[j] # p
                 /\ pg[l[j]] = FreePage /\ Chunk(units, j) \in Seq(Unit)
                 /\ b.pages[l[j]] = OvPage(IF j < k THEN l[j + 1] ELSE NoPage, Chunk(units, j))
                 /\ l[j] = b.last <=> j = k
      <3>1. l[j] \in RecPages BY <1>5, <2>2, SeqElement
      <3>2. /\ pg[l[j]] = FreePage
            /\ b.pages[l[j]] = OvPage(IF j < k THEN l[j + 1] ELSE NoPage, Chunk(units, j))
        BY <1>2, <2>2 DEF Built
      <3>3. Chunk(units, j) \in Seq(Unit)
        <4>1. j \in 1 .. (k + 1) OBVIOUS
        <4>2. QED BY <4>1
      <3>4. (IF j < k THEN l[j + 1] ELSE NoPage) \in RecPages \cup {NoPage}
        <4>1. CASE j < k
          <5>1. j + 1 \in 1 .. Len(l) BY <2>2, <4>1
          <5>2. l[j + 1] \in RecPages BY <1>5, <5>1, SeqElement
          <5>3. QED BY <4>1, <5>2
        <4>2. QED BY <4>1
      <3>5. b.pages[l[j]] # FreePage
        <4> DEFINE nx == IF j < k THEN l[j + 1] ELSE NoPage
        <4>1. nx \in RecPages \cup {NoPage} /\ b.pages[l[j]] = OvPage(nx, Chunk(units, j))
          BY <3>2, <3>4
        <4> HIDE DEF nx
        <4>2. OvPage(nx, Chunk(units, j)) # FreePage BY <3>3, <4>1, OvPageFacts
        <4>3. QED BY <4>1, <4>2
      <3>6. l[j] # p BY <2>1, <3>5
      <3>7. l[j] = b.last <=> j = k
        <4>1. l # <<>>
          <5>1. l = <<>> => Len(l) = 0 BY EmptySeq
          <5>2. QED BY <2>2, <5>1
        <4>2. b.last = l[k] BY <1>2, <2>2, <4>1 DEF LastOf
        <4>3. k \in 1 .. Len(l) /\ j \in 1 .. Len(l) BY <2>2
        <4>4. l[j] = l[k] => j = k BY <1>2, <4>3 DEF Built
        <4>5. QED BY <4>2, <4>4
      <3>8. QED BY <3>1, <3>2, <3>3, <3>6, <3>7
    <2>5. \A i, j \in 1 .. Len(m) : m[i] = m[j] => i = j
      <3> SUFFICES ASSUME NEW i \in 1 .. Len(m), NEW j \in 1 .. Len(m), m[i] = m[j] PROVE i = j
        OBVIOUS
      <3>1. CASE i = k + 1 /\ j = k + 1 BY <3>1
      <3>2. CASE i \in 1 .. k /\ j \in 1 .. k
        <4>1. l[i] = l[j] BY <2>3, <3>2
        <4>2. QED BY <1>2, <2>2, <3>2, <4>1 DEF Built
      <3>3. CASE i = k + 1 /\ j \in 1 .. k
        <4>1. l[j] # p /\ m[j] = l[j] /\ m[i] = p BY <2>3, <2>4, <3>3
        <4>2. QED BY <4>1
      <3>4. CASE j = k + 1 /\ i \in 1 .. k
        <4>1. l[i] # p /\ m[i] = l[i] /\ m[j] = p BY <2>3, <2>4, <3>4
        <4>2. QED BY <4>1
      <3>5. (i = k + 1 \/ i \in 1 .. k) /\ (j = k + 1 \/ j \in 1 .. k) BY <2>3
      <3>6. QED BY <3>1, <3>2, <3>3, <3>4, <3>5
    <2>6. ToSet(m) = ToSet(l) \cup {p}
      <3>1. ToSet(m) = {m[i] : i \in 1 .. (k + 1)} BY <2>3, ToSetFacts
      <3>2. ToSet(l) = {l[i] : i \in 1 .. k} BY <1>5, <2>2, ToSetFacts
      <3>3. (1 .. (k + 1)) = (1 .. k) \cup {k + 1} OBVIOUS
      <3> HIDE DEF m
      <3>4. QED BY <2>3, <3>1, <3>2, <3>3
    <2>7. pg[p] = FreePage
      <3>1. p \notin ToSet(l)
        <4>1. ToSet(l) = {l[i] : i \in 1 .. k} BY <1>5, <2>2, ToSetFacts
        <4>2. QED BY <2>4, <4>1
      <3>2. b.pages[p] = pg[p] BY <1>2, <2>1, <3>1 DEF Built
      <3>3. QED BY <2>1, <3>2
    <2> HIDE DEF m
    <2>8. ASSUME NEW j \in 1 .. (k + 1)
          PROVE  /\ pg[m[j]] = FreePage
                 /\ c.pages[m[j]] = OvPage(IF j < k + 1 THEN m[j + 1] ELSE NoPage, Chunk(units, j))
      <3>1. CASE j = k + 1
        <4>1. m[j] = p /\ ~(j < k + 1) BY <2>3, <3>1
        <4>2. QED BY <2>1, <2>7, <3>1, <4>1
      <3>2. CASE j = k /\ j # k + 1
        <4>1. j \in 1 .. k /\ j < k + 1 /\ j + 1 = k + 1 /\ ~(j < k) BY <3>2
        <4>2. m[j] = l[j] /\ m[j + 1] = p BY <2>3, <4>1
        <4>3. /\ l[j] \in RecPages /\ l[j] # p /\ l[j] = b.last /\ pg[l[j]] = FreePage
              /\ b.pages[l[j]] = OvPage(NoPage, Chunk(units, j)) /\ Chunk(units, j) \in Seq(Unit)
          BY <2>4, <3>2, <4>1
        <4>4. c.pages[l[j]] = [b.pages[l[j]] EXCEPT !.next = p] BY <2>1, <4>3
        <4>5. [OvPage(NoPage, Chunk(units, j)) EXCEPT !.next = p] = OvPage(p, Chunk(units, j))
          BY <4>3, OvPageFacts
        <4>6. QED BY <4>1, <4>2, <4>3, <4>4, <4>5
      <3>3. CASE j # k /\ j # k + 1
        <4>1. j \in 1 .. k /\ j < k + 1 /\ j + 1 \in 1 .. k /\ j < k BY <3>3
        <4>2. m[j] = l[j] /\ m[j + 1] = l[j + 1] BY <2>3, <4>1
        <4>3. /\ l[j] \in RecPages /\ l[j] # p /\ l[j] # b.last /\ pg[l[j]] = FreePage
              /\ b.pages[l[j]] = OvPage(l[j + 1], Chunk(units, j))
          BY <2>4, <3>3, <4>1
        <4>4. c.pages[l[j]] = b.pages[l[j]] BY <2>1, <4>3
        <4>5. QED BY <4>1, <4>2, <4>3, <4>4
      <3>4. QED BY <3>1, <3>2, <3>3
    <2>9. ASSUME NEW x \in RecPages, x \notin ToSet(m) PROVE c.pages[x] = pg[x]
      <3>1. x # p /\ x \notin ToSet(l) BY <2>6, <2>9
      <3>2. x # b.last
        <4>1. ASSUME x = b.last PROVE FALSE
          <5>1. l # <<>>
            <6>1. x # NoPage BY RecordConstants DEF NoPage
            <6>2. QED BY <1>2, <4>1, <6>1 DEF LastOf
          <5>2. x = l[k] BY <1>2, <2>2, <4>1, <5>1 DEF LastOf
          <5>3. k \in 1 .. Len(l)
            <6>1. Len(l) \in Nat \ {0} BY <1>5, <5>1, EmptySeq
            <6>2. QED BY <2>2, <6>1
          <5>4. x \in ToSet(l) BY <1>5, <5>2, <5>3, ToSetFacts
          <5>5. QED BY <3>1, <5>4
        <4>2. QED BY <4>1
      <3>3. c.pages[x] = b.pages[x] BY <2>1, <3>1, <3>2
      <3>4. b.pages[x] = pg[x] BY <1>2, <3>1 DEF Built
      <3>5. QED BY <3>3, <3>4
    <2>10. Built(pg, units, m, c.pages) BY <2>3, <2>5, <2>8, <2>9 DEF Built
    <2>11. c.first = First(m)
      <3>1. m[1] = IF l = <<>> THEN p ELSE l[1]
        <4>1. CASE l = <<>>
          <5>1. k = 0 BY <2>2, <4>1, EmptySeq
          <5>2. QED BY <2>3, <4>1, <5>1
        <4>2. CASE l # <<>>
          <5>1. Len(l) \in Nat \ {0} BY <1>5, <4>2, EmptySeq
          <5>2. 1 \in 1 .. k BY <2>2, <5>1
          <5>3. QED BY <2>3, <4>2, <5>2
        <4>3. QED BY <4>1, <4>2
      <3>2. b.last = NoPage <=> l = <<>>
        <4>1. CASE l = <<>> BY <1>2, <4>1 DEF LastOf
        <4>2. CASE l # <<>>
          <5>1. Len(l) \in Nat \ {0} BY <1>5, <4>2, EmptySeq
          <5>2. k \in 1 .. Len(l) BY <2>2, <5>1
          <5>3. l[k] \in RecPages BY <1>5, <5>2, SeqElement
          <5>4. b.last = l[k] BY <1>2, <2>2, <4>2 DEF LastOf
          <5>5. QED BY <4>2, <5>3, <5>4, RecordConstants DEF NoPage
        <4>3. QED BY <4>1, <4>2
      <3>3. QED BY <1>2, <2>1, <2>3, <3>1, <3>2 DEF First
    <2>12. c.last = LastOf(m) BY <2>1, <2>3 DEF LastOf
    <2>13. Len(m) <= k + 1 BY <2>3
    <2>14. BuildOK(pg, units, k + 1, c) BY <1>4, <2>3, <2>10, <2>11, <2>12, <2>13 DEF BuildOK
    <2>15. QED BY <2>14 DEF c
  <1>8. b.full \in BOOLEAN BY <1>1 DEF BuildState
  <1>9. QED BY <1>6, <1>7, <1>8

\* A chain that was built is linked, and leaves the other pages.
LEMMA BuiltLinked ==
  ASSUME NEW pg, NEW units, NEW l, NEW pg2, Built(pg, units, l, pg2),
         \A k \in 1 .. Len(l) : Chunk(units, k) \in Seq(Unit)
  PROVE  Linked(pg2, l)
  <1>1. ASSUME NEW k \in 1 .. Len(l)
        PROVE  /\ pg2[l[k]].kind = "overflow"
               /\ pg2[l[k]].next = IF k < Len(l) THEN l[k + 1] ELSE NoPage
    <2> DEFINE nx == IF k < Len(l) THEN l[k + 1] ELSE NoPage
    <2>1. pg2[l[k]] = OvPage(nx, Chunk(units, k)) BY DEF Built
    <2> HIDE DEF nx
    <2>2. pg2[l[k]].kind = "overflow" /\ pg2[l[k]].next = nx BY <2>1 DEF OvPage
    <2>3. QED BY <2>2 DEF nx
  <1>2. QED BY <1>1 DEF Built, Linked

\* The chain of a large record, page by page.
LEMMA BuildLast ==
  ASSUME NEW pg \in PageMap, NEW units \in Seq(Unit), Len(units) > MAX_INLINE_RECORD_SIZE
  PROVE  \E done :
           /\ BuildOK(pg, units, Chunks(Len(units)), done)
           /\ overflow_insert(pg, units) =
                LET primary == NewPage(done.pages)
                    head == <<Prefix(Len(units), done.first)>> \o SubSeq(units, 1, MaxInlineData)
                    r == slot_page_insert(slot_page_init, head)
                IN  IF done.full \/ NoFree(done.pages)
                    THEN [pages |-> overflow_free(done.pages, done.first), rid |-> NoRid]
                    ELSE [pages |-> [done.pages EXCEPT ![primary] =
                                       [r.page EXCEPT !.slots[r.slot + 1].length = SPANNED_MARKER]],
                          rid |-> <<primary, r.slot>>]
  <1> DEFINE N == Chunks(Len(units))
             X == BuildState
             b == [pages |-> pg, first |-> NoPage, last |-> NoPage, full |-> FALSE]
             G == [i \in 1 .. N |-> [s \in X |-> BuildStep(units, i, s)]]
  <1>1. N \in Nat BY SeqElement, ChunksFacts
  <1>2. \A k \in 1 .. N : Chunk(units, k) \in Seq(Unit) BY ReachFacts
  <1>3. b \in X BY DEF BuildState
  <1>4. BuildOK(pg, units, 0, b)
    <2>1. <<>> \in Seq(RecPages) /\ Len(<<>>) = 0 BY EmptySeq
    <2>2. Built(pg, units, <<>>, b.pages) BY <2>1 DEF Built
    <2>3. QED BY <1>3, <2>1, <2>2 DEF BuildOK, First, LastOf
  <1>5. G \in [1 .. N -> [X -> X]]
    <2>1. ASSUME NEW i \in 1 .. N, NEW s \in X PROVE BuildStep(units, i, s) \in X
      BY <1>2, BuildStepFacts
    <2> HIDE DEF X
    <2>2. QED BY <2>1
  <1>6. PICK f : Recursion(N, X, b, G, f)
    <2> HIDE DEF N, X, b, G
    <2>1. QED BY <1>1, <1>3, <1>5, RecursionExists
  <1>7. \A n \in 1 .. N : f[n - 1] \in X /\ f[n] = BuildStep(units, n, f[n - 1])
    <2> SUFFICES ASSUME NEW n \in 1 .. N
                 PROVE  f[n - 1] \in X /\ f[n] = BuildStep(units, n, f[n - 1])
      OBVIOUS
    <2>1. n - 1 \in 0 .. N BY <1>1
    <2> HIDE DEF X, b
    <2>2. f[n - 1] \in X /\ f[n] = G[n][f[n - 1]]
      <3> HIDE DEF G
      <3>1. QED BY <1>6, <2>1 DEF Recursion
    <2>3. QED BY <2>2
  <1> DEFINE Law(g) == g = [i \in 0 .. N |-> IF i = 0 THEN b ELSE BuildStep(units, i, g[i - 1])]
             u == CHOOSE g : Law(g)
  <1>8. Law(f)
    <2> HIDE DEF b, X, G
    <2>1. f \in [0 .. N -> X] /\ f[0] = b BY <1>6 DEF Recursion
    <2>2. \A i \in 0 .. N : f[i] = IF i = 0 THEN b ELSE BuildStep(units, i, f[i - 1])
      BY <1>1, <1>7, <2>1
    <2>3. QED BY <2>1, <2>2
  <1>9. Law(u)
    <2> HIDE DEF Law
    <2>1. QED BY <1>8
  <1>10. overflow_insert(pg, units) =
           LET done == u[N]
               primary == NewPage(done.pages)
               head == <<Prefix(Len(units), done.first)>> \o SubSeq(units, 1, MaxInlineData)
               r == slot_page_insert(slot_page_init, head)
           IN  IF done.full \/ NoFree(done.pages)
               THEN [pages |-> overflow_free(done.pages, done.first), rid |-> NoRid]
               ELSE [pages |-> [done.pages EXCEPT ![primary] =
                                  [r.page EXCEPT !.slots[r.slot + 1].length = SPANNED_MARKER]],
                     rid |-> <<primary, r.slot>>]
    BY DEF overflow_insert, BuildStep, Chunks
  <1> HIDE DEF u
  <1>11. u[0] = b /\ \A i \in 1 .. N : u[i] = BuildStep(units, i, u[i - 1])
    <2> HIDE DEF b
    <2>1. \A i \in 0 .. N : u[i] = IF i = 0 THEN b ELSE BuildStep(units, i, u[i - 1]) BY <1>9
    <2>2. QED BY <1>1, <2>1
  <1> DEFINE P == {i \in Nat : i <= N => BuildOK(pg, units, i, u[i])}
  <1>12. 0 \in P BY <1>4, <1>11
  <1>13. ASSUME NEW i \in Nat, i \in P PROVE i + 1 \in P
    <2> SUFFICES ASSUME i + 1 <= N PROVE BuildOK(pg, units, i + 1, u[i + 1]) OBVIOUS
    <2>1. BuildOK(pg, units, i, u[i]) BY <1>1, <1>13
    <2>2. i + 1 \in 1 .. N /\ \A j \in 1 .. (i + 1) : j \in 1 .. N BY <1>1
    <2>3. u[i + 1] = BuildStep(units, i + 1, u[i])
      <3>1. (i + 1) - 1 = i OBVIOUS
      <3>2. QED BY <1>11, <2>2, <3>1
    <2>4. \A j \in 1 .. (i + 1) : Chunk(units, j) \in Seq(Unit) BY <1>2, <2>2
    <2>5. BuildOK(pg, units, i + 1, BuildStep(units, i + 1, u[i])) BY <2>1, <2>4, BuildNext
    <2>6. QED BY <2>3, <2>5
  <1>14. Nat \subseteq P
    <2> HIDE DEF P
    <2>1. QED BY <1>12, <1>13, SetInduction
  <1>15. BuildOK(pg, units, N, u[N]) BY <1>1, <1>14
  <1>16. QED BY <1>10, <1>15

-----------------------------------------------------------------------------
(* The page with the head of a large record.                               *)
\* Slot i holds the prefix and the first units of a record of length units
\* whose chain starts at first.
LargeAt(page, i, units, first) ==
  /\ page.slots[i].length = SPANNED_MARKER
  /\ page.data[page.slots[i].offset] = Prefix(Len(units), first)
  /\ \A j \in 1 .. MaxInlineData : page.data[page.slots[i].offset + j] = units[j]

LEMMA HeadUnits ==
  ASSUME NEW units \in Seq(Unit), Len(units) > MAX_INLINE_RECORD_SIZE, NEW first \in Nat
  PROVE  LET head == <<Prefix(Len(units), first)>> \o SubSeq(units, 1, MaxInlineData)
         IN  /\ head \in Seq(Unit) /\ Len(head) = MAX_INLINE_RECORD_SIZE
             /\ head[1] = Prefix(Len(units), first)
             /\ \A j \in 1 .. MaxInlineData : head[j + 1] = units[j]
  <1> DEFINE x == Prefix(Len(units), first)
             s == SubSeq(units, 1, MaxInlineData)
             h == <<x>> \o s
  <1>1. Len(units) \in Nat BY SeqElement
  <1>2. x \in Unit BY <1>1 DEF Prefix, Unit
  <1> HIDE DEF x
  <1>3. <<x>> \in Seq(Unit) /\ Len(<<x>>) = 1 /\ <<x>>[1] = x BY <1>2
  <1>4. \A i \in 1 .. MaxInlineData : units[i] \in Unit
    <2>1. \A i \in 1 .. MaxInlineData : i \in 1 .. Len(units) BY <1>1, Sizes
    <2>2. QED BY <2>1, SeqElement
  <1>5. /\ s \in Seq(Unit) /\ Len(s) = MaxInlineData
        /\ \A i \in 1 .. MaxInlineData : s[i] = units[i]
    <2>1. 1 \in Int /\ MaxInlineData \in Int BY Sizes
    <2>2. /\ s \in Seq(Unit) /\ Len(s) = IF 1 <= MaxInlineData THEN MaxInlineData - 1 + 1 ELSE 0
          /\ \A i \in 1 .. MaxInlineData - 1 + 1 : s[i] = units[1 + i - 1]
      BY <1>4, <2>1, SubSeqProperties
    <2> HIDE DEF s
    <2>3. MaxInlineData - 1 + 1 = MaxInlineData BY Sizes
    <2>4. \A i \in 1 .. MaxInlineData : 1 + i - 1 = i OBVIOUS
    <2>5. QED BY <2>2, <2>3, <2>4, Sizes
  <1> HIDE DEF s
  <1>6. /\ h \in Seq(Unit) /\ Len(h) = 1 + MaxInlineData
        /\ \A i \in 1 .. 1 + MaxInlineData : h[i] = IF i <= 1 THEN <<x>>[i] ELSE s[i - 1]
    BY <1>3, <1>5, ConcatProperties
  <1> HIDE DEF h
  <1>7. h[1] = x
    <2>1. 1 \in 1 .. 1 + MaxInlineData BY Sizes
    <2>2. QED BY <1>3, <1>6, <2>1
  <1>8. ASSUME NEW j \in 1 .. MaxInlineData PROVE h[j + 1] = units[j]
    <2>1. j + 1 \in 1 .. 1 + MaxInlineData /\ ~(j + 1 <= 1) /\ (j + 1) - 1 = j BY Sizes
    <2>2. QED BY <1>5, <1>6, <2>1
  <1>9. Len(h) = MAX_INLINE_RECORD_SIZE BY <1>6, Sizes
  <1>10. QED BY <1>6, <1>7, <1>8, <1>9 DEF h, s, x

LEMMA HeadPage ==
  ASSUME NEW units \in Seq(Unit), Len(units) > MAX_INLINE_RECORD_SIZE, NEW first \in Nat
  PROVE  LET head == <<Prefix(Len(units), first)>> \o SubSeq(units, 1, MaxInlineData)
             r == slot_page_insert(slot_page_init, head)
             p == [r.page EXCEPT !.slots[r.slot + 1].length = SPANNED_MARKER]
         IN  r.slot = 0 /\ Layout(p) /\ LiveSlots(p) = {1} /\ LargeAt(p, 1, units, first)
  <1> DEFINE head == <<Prefix(Len(units), first)>> \o SubSeq(units, 1, MaxInlineData)
             r == slot_page_insert(slot_page_init, head)
             p == [r.page EXCEPT !.slots[r.slot + 1].length = SPANNED_MARKER]
             init == slot_page_init
             M == MAX_INLINE_RECORD_SIZE
  <1>1. /\ head \in Seq(Unit) /\ Len(head) = M /\ head[1] = Prefix(Len(units), first)
        /\ \A j \in 1 .. MaxInlineData : head[j + 1] = units[j]
    BY HeadUnits
  <1> HIDE DEF head
  <1>2. /\ init \in RecordPage /\ init.slots = <<>> /\ init.end = PageSize /\ init.frag = 0
    BY InitPageFacts
  <1>3. Len(init.slots) = 0 /\ Available(init) = M + EntrySize
    <2>1. Len(init.slots) = 0 BY <1>2
    <2>2. EntrySize * 0 = 0 BY Sizes
    <2>3. Start(init) = HeaderSize BY <2>1, <2>2, Sizes DEF Start
    <2>4. QED BY <1>2, <2>1, <2>3, Sizes DEF Available
  <1> DEFINE e == init.end - Len(head)
             entry == [offset |-> e, length |-> Len(head)]
             stored == [[init EXCEPT !.end = e, !.data = Put(@, e, head)] EXCEPT
                          !.slots = Append(@, entry)]
  <1>4. r = [page |-> stored, slot |-> 0]
    <2> HIDE DEF init
    <2> DEFINE reusable == {i \in 1 .. Len(init.slots) : init.slots[i] = DeletedSlot}
    <2>1. reusable = {} BY <1>3
    <2>2. ~(Available(init) < M + EntrySize) BY <1>3, Sizes
    <2>3. QED BY <1>1, <1>3, <2>1, <2>2 DEF slot_page_insert, init
  <1>5. Placed(init, stored, 1, head)
    <2>1. Available(init) >= Len(head) + EntrySize BY <1>1, <1>3, Sizes
    <2>2. init.end <= PageSize /\ Len(head) >= 1 BY <1>1, <1>2, Sizes
    <2> HIDE DEF init
    <2>3. Placed(init, stored, Len(init.slots) + 1, head) BY <1>1, <1>2, <2>1, <2>2, PlaceAppended
    <2>4. Len(init.slots) + 1 = 1 BY <1>3
    <2> HIDE DEF stored
    <2>5. QED BY <2>3, <2>4
  <1> HIDE DEF stored, init, r
  <1>6. r.slot = 0 /\ r.page = stored BY <1>4
  <1>7. /\ stored \in RecordPage /\ stored.end = PageSize - M /\ stored.frag = 0
        /\ Len(stored.slots) = 1 /\ stored.slots \in Seq(SlotEntry)
        /\ stored.slots[1] = [offset |-> stored.end, length |-> M]
        /\ stored.data = Put(init.data, stored.end, head)
    <2>1. 1 .. Len(stored.slots) = (1 .. Len(init.slots)) \cup {1} BY <1>5 DEF Placed
    <2>2. stored \in RecordPage BY <1>5 DEF Placed
    <2>3. Len(stored.slots) \in Nat /\ stored.slots \in Seq(SlotEntry) BY <2>2, PageTypes
    <2>4. Len(stored.slots) = 1
      <3> DEFINE L == Len(stored.slots)
      <3>1. 1 .. L = {1} BY <1>3, <2>1
      <3> HIDE DEF L
      <3>2. 1 \in 1 .. L BY <3>1
      <3>3. L \in Nat BY <2>3 DEF L
      <3>4. L \in 1 .. L BY <3>2, <3>3
      <3>5. L = 1 BY <3>1, <3>4
      <3>6. QED BY <3>5 DEF L
    <2>5. QED BY <1>1, <1>2, <1>5, <2>2, <2>3, <2>4 DEF Placed
  <1>8. p = [stored EXCEPT !.slots = [stored.slots EXCEPT ![1].length = SPANNED_MARKER]]
    BY <1>6
  <1> DEFINE t == [stored.slots EXCEPT ![1].length = SPANNED_MARKER]
             n == [stored.slots[1] EXCEPT !.length = SPANNED_MARKER]
  <1>9. n = [offset |-> stored.end, length |-> SPANNED_MARKER] BY <1>7
  <1>10. stored.end \in Nat BY <1>7, Sizes
  <1>11. n \in SlotEntry BY <1>9, <1>10, Sizes DEF SlotEntry
  <1>12. t = [stored.slots EXCEPT ![1] = n] OBVIOUS
  <1> HIDE DEF n
  <1>13. t \in Seq(SlotEntry) /\ Len(t) = 1 /\ t[1] = n
    <2> HIDE DEF t
    <2>1. 1 \in 1 .. Len(stored.slots) BY <1>7
    <2>2. QED BY <1>7, <1>11, <1>12, <2>1, ExceptSeq
  <1> HIDE DEF t, p
  <1>14. /\ p.slots = t /\ p.end = stored.end /\ p.frag = 0 /\ p.data = stored.data
         /\ p \in RecordPage
    <2>1. p = [stored EXCEPT !.slots = t] BY <1>8 DEF t
    <2>2. QED BY <1>7, <1>13, <2>1 DEF RecordPage
  <1>15. p.slots[1].offset = p.end /\ p.slots[1].length = SPANNED_MARKER /\ Len(p.slots) = 1
    BY <1>9, <1>13, <1>14
  <1>16. LiveSlots(p) = {1}
    <2>1. p.slots[1] # DeletedSlot BY <1>15, Sizes DEF DeletedSlot
    <2>2. 1 .. Len(p.slots) = {1} BY <1>15
    <2>3. QED BY <2>1, <2>2 DEF LiveSlots
  <1>17. Start(p) = p.end /\ p.end \in Nat /\ p.end = PageSize - M
    <2>1. EntrySize * 1 = EntrySize BY Sizes
    <2>2. Start(p) = HeaderSize + EntrySize BY <1>15, <2>1 DEF Start
    <2>3. QED BY <1>7, <1>10, <1>14, <2>2, Sizes
  <1>18. SlotSound(p, 1) BY <1>14, <1>15, <1>16, <1>17, Sizes DEF SlotSound
  <1>19. FragOK(p)
    <2>1. Extent(p, 1) = p.end .. (PageSize - 1) BY <1>15 DEF Extent
    <2>2. Used(p) = p.end .. (PageSize - 1) BY <1>16, <2>1 DEF Used
    <2>3. p.end \in Int /\ PageSize - 1 \in Int BY <1>17, Sizes
    <2>4. Cardinality(p.end .. (PageSize - 1))
            = IF p.end > PageSize - 1 THEN 0 ELSE (PageSize - 1) - p.end + 1
      BY <2>3, FS_Interval
    <2>5. 0 = PageSize - p.end - Cardinality(Used(p)) BY <1>17, <2>2, <2>4, Sizes
    <2>6. QED BY <1>14, <2>5 DEF FragOK
  <1>20. Layout(p)
    <2>1. p.end <= PageSize BY <1>17, Sizes
    <2>2. QED BY <1>14, <1>16, <1>17, <1>18, <1>19, <2>1 DEF Layout
  <1>21. LargeAt(p, 1, units, first)
    <2> DEFINE d == Put(init.data, p.end, head)
    <2>1. p.data = d BY <1>7, <1>14
    <2>2. p.end + Len(head) <= PageSize /\ Len(head) = M BY <1>1, <1>17, Sizes
    <2>3. init.data \in [Bytes0 -> Unit] BY <1>2, PageTypes
    <2>4. \A j \in 1 .. Len(head) : d[p.end + j - 1] = head[j]
      BY <1>1, <1>17, <2>2, <2>3, PutFacts
    <2> HIDE DEF d
    <2>5. p.data[p.end] = head[1]
      <3>1. 1 \in 1 .. Len(head) /\ p.end + 1 - 1 = p.end BY <1>17, <2>2, Sizes
      <3>2. QED BY <2>1, <2>4, <3>1
    <2>6. ASSUME NEW j \in 1 .. MaxInlineData PROVE p.data[p.end + j] = units[j]
      <3>1. j + 1 \in 1 .. Len(head) /\ p.end + (j + 1) - 1 = p.end + j BY <1>17, <2>2, Sizes
      <3>2. d[p.end + j] = head[j + 1] BY <2>4, <3>1
      <3>3. QED BY <1>1, <2>1, <3>2
    <2>7. QED BY <1>1, <1>15, <2>5, <2>6 DEF LargeAt
  <1>22. QED BY <1>6, <1>16, <1>20, <1>21 DEF p, r, head

-----------------------------------------------------------------------------
(* Which event each record is of.                                          *)
Rid == RecPages \X Nat

LEMMA RidFacts ==
  ASSUME NEW rid \in Rid
  PROVE  /\ rid[1] \in RecPages /\ rid[2] \in Nat /\ rid = <<rid[1], rid[2]>> /\ rid # NoRid
         /\ rid[2] + 1 \in Nat /\ (rid[2] + 1) - 1 = rid[2]
  <1>1. rid[1] \in RecPages /\ rid[2] \in Nat /\ rid = <<rid[1], rid[2]>> BY DEF Rid
  <1>2. rid # NoRid BY <1>1, RecordConstants DEF NoRid
  <1>3. QED BY <1>1, <1>2

InlineAt(page, i, units) ==
  /\ page.slots[i].length = Len(units)
  /\ \A j \in 1 .. Len(units) : page.data[page.slots[i].offset + j - 1] = units[j]

\* The record at rid is units, with the overflow pages l.
Whole(pg, rid, units, l) ==
  /\ rid \in Rid /\ Layout(pg[rid[1]]) /\ rid[2] + 1 \in LiveSlots(pg[rid[1]])
  /\ \/ Len(units) <= MAX_INLINE_RECORD_SIZE /\ InlineAt(pg[rid[1]], rid[2] + 1, units) /\ l = <<>>
     \/ /\ Len(units) > MAX_INLINE_RECORD_SIZE
        /\ LargeAt(pg[rid[1]], rid[2] + 1, units, First(l))
        /\ Linked(pg, l) /\ Len(l) = Chunks(Len(units))
        /\ \A k \in 1 .. Len(l) : pg[l[k]].data = Chunk(units, k)

PagesOK(pg) == pg \in PageMap /\ \A p \in RecPages : pg[p].kind = "record" => Layout(pg[p])

Units(id, del) == RecordUnits(id, Ev[id].size, del)

\* Event id is at h[id], with the flag c[id] and the overflow pages q[id]; no
\* other record and no other overflow page is there.
Owned(pg, h, q) ==
  /\ \A a, b \in DOMAIN h : a # b => /\ h[a] # NoRid => h[a] # h[b]
                                     /\ ToSet(q[a]) \cap ToSet(q[b]) = {}
  /\ \A p \in RecPages : pg[p].kind = "record" =>
       \A i \in LiveSlots(pg[p]) : \E id \in DOMAIN h : h[id] = <<p, i - 1>>
  /\ \A p \in RecPages : pg[p].kind = "overflow" => \E id \in DOMAIN h : p \in ToSet(q[id])

HeldOne(pg, rid, units, l) == IF rid = NoRid THEN l = <<>> ELSE Whole(pg, rid, units, l)

Held(pg, h, c, q) ==
  /\ PagesOK(pg) /\ Owned(pg, h, q)
  /\ h \in [Ids -> Rid \cup {NoRid}] /\ c \in [Ids -> BOOLEAN] /\ q \in [Ids -> Seq(RecPages)]
  /\ \A id \in Ids : HeldOne(pg, h[id], Units(id, c[id]), q[id])

LEMMA UnitsFacts ==
  ASSUME NEW id \in Ids, NEW del \in BOOLEAN
  PROVE  /\ Units(id, del) \in Seq(Unit) /\ Len(Units(id, del)) = Ev[id].size
         /\ Len(Units(id, del)) >= 1 /\ Len(Units(id, del)) \in Nat
         /\ Units(id, del)[1].ev = id /\ Units(id, del)[1].del = del
         /\ Units(id, del) # <<>>
  <1> DEFINE n == Ev[id].size
             u == Units(id, del)
  <1>1. n \in Nat /\ n >= 1 /\ id \in Nat BY EventConstants
  <1>2. u = [i \in 1 .. n |-> [ev |-> id, del |-> del /\ i = 1, n |-> i, ov |-> 0]]
    BY DEF Units, RecordUnits
  <1>3. u \in [1 .. n -> Unit] BY <1>1, <1>2 DEF Unit
  <1>4. 1 \in 1 .. n BY <1>1
  <1>5. u[1].ev = id /\ u[1].del = del BY <1>2, <1>4
  <1> HIDE DEF u, n
  <1>6. u \in Seq(Unit) /\ Len(u) = n BY <1>1, <1>3, FunctionSeq
  <1>7. u # <<>> BY <1>1, <1>6
  <1>8. QED BY <1>1, <1>5, <1>6, <1>7 DEF u, n

\* What a record needs to stay as it is: its bytes and its overflow pages.
Kept(pg, pg2, rid, l) ==
  /\ Layout(pg2[rid[1]]) /\ rid[2] + 1 \in LiveSlots(pg2[rid[1]])
  /\ SameRecord(pg[rid[1]], pg2[rid[1]], rid[2] + 1)
  /\ \A x \in ToSet(l) : pg2[x] = pg[x]

LEMMA WholeKept ==
  ASSUME NEW pg, NEW pg2, NEW rid, NEW units \in Seq(Unit), NEW l,
         Whole(pg, rid, units, l), Kept(pg, pg2, rid, l)
  PROVE  Whole(pg2, rid, units, l)
  <1> DEFINE a == pg[rid[1]]
             b == pg2[rid[1]]
             i == rid[2] + 1
  <1>1. rid \in Rid /\ Layout(b) /\ i \in LiveSlots(b) BY DEF Whole, Kept
  <1>2. SameRecord(a, b, i) BY DEF Kept
  <1>3. CASE Len(units) <= MAX_INLINE_RECORD_SIZE /\ InlineAt(a, i, units) /\ l = <<>>
    <2> HIDE DEF a, b, i
    <2>1. InlineAt(b, i, units) BY <1>2, <1>3 DEF InlineAt, SameRecord
    <2>2. QED BY <1>1, <1>3, <2>1 DEF Whole, a, b, i
  <1>4. CASE /\ Len(units) > MAX_INLINE_RECORD_SIZE
             /\ LargeAt(a, i, units, First(l))
             /\ Linked(pg, l) /\ Len(l) = Chunks(Len(units))
             /\ \A k \in 1 .. Len(l) : pg[l[k]].data = Chunk(units, k)
    <2>1. \A k \in 1 .. Len(l) : pg2[l[k]] = pg[l[k]]
      <3>1. l \in Seq(RecPages) BY <1>4 DEF Linked
      <3>2. \A k \in 1 .. Len(l) : l[k] \in ToSet(l) BY <3>1, ToSetFacts
      <3>3. QED BY <3>2 DEF Kept
    <2>2. Linked(pg2, l) /\ \A k \in 1 .. Len(l) : pg2[l[k]].data = Chunk(units, k)
      BY <1>4, <2>1 DEF Linked
    <2> DEFINE o == a.slots[i].offset
               o2 == b.slots[i].offset
    <2>3. o \in Nat /\ o2 \in Nat
      <3>1. Layout(a) /\ i \in LiveSlots(a) BY DEF Whole
      <3>2. a \in RecordPage /\ b \in RecordPage BY <1>1, <3>1 DEF Layout
      <3>3. QED BY <1>1, <3>1, <3>2, PageTypes
    <2> HIDE DEF a, b, i
    <2>4. /\ a.slots[i].length = SPANNED_MARKER /\ b.slots[i].length = SPANNED_MARKER
          /\ \A j \in 1 .. SPANNED_MARKER : b.data[o2 + j - 1] = a.data[o + j - 1]
      BY <1>2, <1>4 DEF LargeAt, SameRecord
    <2> HIDE DEF o, o2
    <2>5. b.data[o2] = a.data[o]
      <3>1. 1 \in 1 .. SPANNED_MARKER /\ o2 + 1 - 1 = o2 /\ o + 1 - 1 = o BY <2>3, Sizes
      <3>2. QED BY <2>4, <3>1
    <2>6. ASSUME NEW j \in 1 .. MaxInlineData PROVE b.data[o2 + j] = a.data[o + j]
      <3>1. /\ j + 1 \in 1 .. SPANNED_MARKER /\ o2 + (j + 1) - 1 = o2 + j
            /\ o + (j + 1) - 1 = o + j
        BY <2>3, Sizes
      <3>2. b.data[o2 + (j + 1) - 1] = a.data[o + (j + 1) - 1] BY <2>4, <3>1
      <3>3. QED BY <3>1, <3>2
    <2>7. LargeAt(b, i, units, First(l)) BY <1>4, <2>4, <2>5, <2>6 DEF LargeAt, o, o2
    <2>8. QED BY <1>1, <1>4, <2>2, <2>7 DEF Whole, a, b, i
  <1>5. QED BY <1>3, <1>4 DEF Whole

\* One event changes, all others stay.
LEMMA HeldStep ==
  ASSUME NEW pg, NEW h, NEW c, NEW q, Held(pg, h, c, q),
         NEW pg2, PagesOK(pg2), NEW id \in Ids,
         NEW rid \in Rid \cup {NoRid}, NEW del \in BOOLEAN, NEW l \in Seq(RecPages),
         HeldOne(pg2, rid, Units(id, del), l),
         \A o \in Ids : o # id /\ h[o] # NoRid => Kept(pg, pg2, h[o], q[o]),
         \A o \in Ids : o # id =>
           (h[o] # NoRid => h[o] # rid) /\ ToSet(l) \cap ToSet(q[o]) = {},
         \A p \in RecPages : pg2[p].kind = "record" => \A i \in LiveSlots(pg2[p]) :
           rid = <<p, i - 1>> \/ \E o \in Ids : o # id /\ h[o] = <<p, i - 1>>,
         \A p \in RecPages : pg2[p].kind = "overflow" =>
           p \in ToSet(l) \/ \E o \in Ids : o # id /\ p \in ToSet(q[o])
  PROVE  Held(pg2, [h EXCEPT ![id] = rid], [c EXCEPT ![id] = del], [q EXCEPT ![id] = l])
  <1> DEFINE h2 == [h EXCEPT ![id] = rid]
             c2 == [c EXCEPT ![id] = del]
             q2 == [q EXCEPT ![id] = l]
  <1>1. /\ h \in [Ids -> Rid \cup {NoRid}] /\ c \in [Ids -> BOOLEAN] /\ q \in [Ids -> Seq(RecPages)]
        /\ Owned(pg, h, q) /\ \A o \in Ids : HeldOne(pg, h[o], Units(o, c[o]), q[o])
    BY DEF Held
  <1>2. /\ h2 \in [Ids -> Rid \cup {NoRid}] /\ c2 \in [Ids -> BOOLEAN]
        /\ q2 \in [Ids -> Seq(RecPages)] /\ DOMAIN h2 = Ids /\ DOMAIN h = Ids
    BY <1>1
  <1>3. /\ h2[id] = rid /\ c2[id] = del /\ q2[id] = l
        /\ \A o \in Ids : o # id => h2[o] = h[o] /\ c2[o] = c[o] /\ q2[o] = q[o]
    BY <1>1
  <1> HIDE DEF h2, c2, q2
  <1>4. ASSUME NEW o \in Ids PROVE HeldOne(pg2, h2[o], Units(o, c2[o]), q2[o])
    <2>1. CASE o = id BY <1>3, <2>1
    <2>2. CASE o # id
      <3>1. h2[o] = h[o] /\ c2[o] = c[o] /\ q2[o] = q[o] BY <1>3, <2>2
      <3>2. HeldOne(pg, h[o], Units(o, c[o]), q[o]) BY <1>1
      <3>3. CASE h[o] = NoRid BY <3>1, <3>2, <3>3 DEF HeldOne
      <3>4. CASE h[o] # NoRid
        <4>1. Whole(pg, h[o], Units(o, c[o]), q[o]) BY <3>2, <3>4 DEF HeldOne
        <4>2. Kept(pg, pg2, h[o], q[o]) BY <2>2, <3>4
        <4>3. Units(o, c[o]) \in Seq(Unit) BY <1>1, UnitsFacts
        <4>4. Whole(pg2, h[o], Units(o, c[o]), q[o]) BY <4>1, <4>2, <4>3, WholeKept
        <4>5. QED BY <3>1, <3>4, <4>4 DEF HeldOne
      <3>5. QED BY <3>3, <3>4
    <2>3. QED BY <2>1, <2>2
  <1>5. ASSUME NEW a \in Ids, NEW b \in Ids, a # b
        PROVE  (h2[a] # NoRid => h2[a] # h2[b]) /\ ToSet(q2[a]) \cap ToSet(q2[b]) = {}
    <2>1. CASE a # id /\ b # id BY <1>1, <1>2, <1>3, <1>5, <2>1 DEF Owned
    <2>2. CASE a = id
      <3>1. /\ h2[a] = rid /\ q2[a] = l /\ h2[b] = h[b] /\ q2[b] = q[b] /\ b # id
        BY <1>3, <1>5, <2>2
      <3>2. QED BY <3>1
    <2>3. CASE b = id
      <3>1. /\ h2[b] = rid /\ q2[b] = l /\ h2[a] = h[a] /\ q2[a] = q[a] /\ a # id
        BY <1>3, <1>5, <2>3
      <3>2. QED BY <3>1
    <2>4. QED BY <2>1, <2>2, <2>3
  <1>6. ASSUME NEW p \in RecPages, pg2[p].kind = "record", NEW i \in LiveSlots(pg2[p])
        PROVE  \E o \in Ids : h2[o] = <<p, i - 1>>
    <2>1. CASE rid = <<p, i - 1>> BY <1>3, <2>1
    <2>2. CASE \E o \in Ids : o # id /\ h[o] = <<p, i - 1>> BY <1>3, <2>2
    <2>3. QED BY <1>6, <2>1, <2>2
  <1>7. ASSUME NEW p \in RecPages, pg2[p].kind = "overflow"
        PROVE  \E o \in Ids : p \in ToSet(q2[o])
    <2>1. CASE p \in ToSet(l) BY <1>3, <2>1
    <2>2. CASE \E o \in Ids : o # id /\ p \in ToSet(q[o]) BY <1>3, <2>2
    <2>3. QED BY <1>7, <2>1, <2>2
  <1>8. Owned(pg2, h2, q2) BY <1>2, <1>5, <1>6, <1>7 DEF Owned
  <1>9. Held(pg2, h2, c2, q2) BY <1>2, <1>4, <1>8 DEF Held
  <1>10. QED BY <1>9 DEF h2, c2, q2

LEMMA HomeFacts ==
  ASSUME NEW pg, NEW h, NEW c, NEW q, Held(pg, h, c, q), NEW id \in Ids
  PROVE  /\ h[id] \in Rid \cup {NoRid} /\ c[id] \in BOOLEAN /\ q[id] \in Seq(RecPages)
         /\ h[id] = NoRid => q[id] = <<>> /\ ToSet(q[id]) = {}
         /\ h[id] # NoRid =>
              /\ h[id] \in Rid /\ Whole(pg, h[id], Units(id, c[id]), q[id])
              /\ Layout(pg[h[id][1]]) /\ pg[h[id][1]].kind = "record"
              /\ h[id][1] \in RecPages /\ h[id][2] \in Nat
              /\ h[id][2] + 1 \in LiveSlots(pg[h[id][1]])
         /\ \A x \in ToSet(q[id]) : x \in RecPages /\ pg[x].kind = "overflow"
  <1>1. h[id] \in Rid \cup {NoRid} /\ c[id] \in BOOLEAN /\ q[id] \in Seq(RecPages) BY DEF Held
  <1>2. HeldOne(pg, h[id], Units(id, c[id]), q[id]) BY DEF Held
  <1>3. ToSet(<<>>) = {} BY DEF ToSet
  <1>4. CASE h[id] = NoRid
    <2>1. q[id] = <<>> BY <1>2, <1>4 DEF HeldOne
    <2>2. QED BY <1>1, <1>3, <1>4, <2>1
  <1>5. CASE h[id] # NoRid
    <2>1. Whole(pg, h[id], Units(id, c[id]), q[id]) BY <1>2, <1>5 DEF HeldOne
    <2>2. h[id] \in Rid BY <1>1, <1>5
    <2>3. /\ Layout(pg[h[id][1]]) /\ h[id][1] \in RecPages /\ h[id][2] \in Nat
          /\ h[id][2] + 1 \in LiveSlots(pg[h[id][1]])
      BY <2>1, <2>2, RidFacts DEF Whole
    <2>4. pg[h[id][1]].kind = "record"
      <3>1. pg[h[id][1]] \in RecordPage BY <2>3 DEF Layout
      <3>2. QED BY <3>1, PageTypes
    <2>5. ASSUME NEW x \in ToSet(q[id]) PROVE x \in RecPages /\ pg[x].kind = "overflow"
      <3>1. q[id] # <<>> BY <1>3
      <3>2. Linked(pg, q[id]) BY <2>1, <3>1 DEF Whole
      <3>3. PICK k \in 1 .. Len(q[id]) : x = q[id][k] BY <1>1, ToSetFacts
      <3>4. pg[x].kind = "overflow" BY <3>2, <3>3 DEF Linked
      <3>5. QED BY <1>1, <3>4, ToSetFacts
    <2>6. QED BY <1>1, <1>5, <2>1, <2>2, <2>3, <2>4, <2>5
  <1>6. QED BY <1>4, <1>5

\* A step on page p, and on pages that no other event has, leaves the others.
LEMMA OthersHeld ==
  ASSUME NEW pg, NEW h, NEW c, NEW q, Held(pg, h, c, q), NEW id \in Ids,
         NEW pg2 \in PageMap, NEW p \in RecPages, pg[p].kind # "overflow", Layout(pg2[p]),
         \A x \in RecPages : x # p =>
           \/ pg2[x] = pg[x]
           \/ (x \in ToSet(q[id]) \/ pg[x] = FreePage) /\ pg2[x].kind # "record",
         \A o \in Ids : o # id /\ h[o] # NoRid /\ h[o][1] = p =>
           /\ h[o][2] + 1 \in LiveSlots(pg2[p])
           /\ SameRecord(pg[p], pg2[p], h[o][2] + 1)
  PROVE  /\ PagesOK(pg2)
         /\ \A o \in Ids : o # id /\ h[o] # NoRid => Kept(pg, pg2, h[o], q[o])
  <1>1. PagesOK(pg2)
    <2>1. ASSUME NEW x \in RecPages, pg2[x].kind = "record" PROVE Layout(pg2[x])
      <3>1. CASE x = p BY <3>1
      <3>2. CASE x # p
        <4>1. pg2[x] = pg[x] BY <2>1, <3>2
        <4>2. QED BY <2>1, <4>1 DEF Held, PagesOK
      <3>3. QED BY <3>1, <3>2
    <2>2. QED BY <2>1 DEF PagesOK
  <1>2. FreePage.kind = "free" BY DEF FreePage
  <1>3. ASSUME NEW o \in Ids, o # id, h[o] # NoRid PROVE Kept(pg, pg2, h[o], q[o])
    <2> DEFINE x == h[o][1]
               i == h[o][2] + 1
    <2>1. Layout(pg[x]) /\ pg[x].kind = "record" /\ x \in RecPages /\ i \in LiveSlots(pg[x])
      BY <1>3, HomeFacts
    <2>2. \A y \in ToSet(q[o]) : y \in RecPages /\ pg[y].kind = "overflow" BY HomeFacts
    <2>3. ToSet(q[id]) \cap ToSet(q[o]) = {}
      <3>1. DOMAIN h = Ids BY DEF Held
      <3>2. QED BY <1>3, <3>1 DEF Held, Owned
    <2>4. \A y \in ToSet(q[o]) : pg2[y] = pg[y]
      <3> SUFFICES ASSUME NEW y \in ToSet(q[o]) PROVE pg2[y] = pg[y] OBVIOUS
      <3>1. y \in RecPages /\ pg[y].kind = "overflow" /\ y \notin ToSet(q[id]) BY <2>2, <2>3
      <3>2. y # p /\ pg[y] # FreePage BY <1>2, <3>1
      <3>3. QED BY <3>1, <3>2
    <2>5. Layout(pg2[x]) /\ i \in LiveSlots(pg2[x]) /\ SameRecord(pg[x], pg2[x], i)
      <3>1. CASE x = p BY <1>3, <3>1
      <3>2. CASE x # p
        <4>1. pg[x] # FreePage BY <1>2, <2>1
        <4>2. x \notin ToSet(q[id])
          <5>1. \A y \in ToSet(q[id]) : pg[y].kind = "overflow" BY HomeFacts
          <5>2. QED BY <2>1, <5>1
        <4>3. pg2[x] = pg[x] BY <2>1, <3>2, <4>1, <4>2
        <4>4. QED BY <2>1, <4>3 DEF SameRecord
      <3>3. QED BY <3>1, <3>2
    <2>6. QED BY <2>4, <2>5 DEF Kept
  <1>4. QED BY <1>1, <1>3

\* The records of page p before a step on it, none when it was free.
Before(pg, p, page) ==
  \/ pg[p].kind = "record" /\ page = pg[p]
  \/ pg[p] = FreePage /\ LiveSlots(page) = {}

\* Its records are those that have their home there.
PageHeld(pg, h, p, page) ==
  /\ pg[p].kind # "overflow"
  /\ \A o \in Ids : h[o] # NoRid /\ h[o][1] = p => page = pg[p] /\ h[o][2] + 1 \in LiveSlots(page)
  /\ \A i \in LiveSlots(page) : \E o \in Ids : h[o] = <<p, i - 1>>

LEMMA BeforeFacts ==
  ASSUME NEW pg, NEW h, NEW c, NEW q, Held(pg, h, c, q), NEW p \in RecPages,
         NEW page, Before(pg, p, page)
  PROVE  PageHeld(pg, h, p, page)
  <1>1. FreePage.kind = "free" BY DEF FreePage
  <1>2. pg[p].kind # "overflow" BY <1>1 DEF Before
  <1>3. ASSUME NEW o \in Ids, h[o] # NoRid, h[o][1] = p
        PROVE  page = pg[p] /\ h[o][2] + 1 \in LiveSlots(page)
    <2>1. pg[p].kind = "record" /\ h[o][2] + 1 \in LiveSlots(pg[p]) BY <1>3, HomeFacts
    <2>2. QED BY <1>1, <2>1 DEF Before
  <1>4. ASSUME NEW i \in LiveSlots(page) PROVE \E o \in Ids : h[o] = <<p, i - 1>>
    <2>1. pg[p].kind = "record" /\ page = pg[p] BY DEF Before
    <2>2. DOMAIN h = Ids BY DEF Held
    <2>3. QED BY <2>1, <2>2 DEF Held, Owned
  <1>5. QED BY <1>2, <1>3, <1>4 DEF PageHeld

LEMMA LayoutAny == ASSUME NEW page, Layout(page) PROVE page \in RecordPage /\ page \in AnyPage /\ page.kind = "record"
  <1>1. page \in RecordPage BY DEF Layout
  <1>2. QED BY <1>1, PageTypes DEF AnyPage

\* A page is rearranged.
LEMMA HeldSame ==
  ASSUME NEW pg, NEW h, NEW c, NEW q, Held(pg, h, c, q), NEW id \in Ids, h[id] = NoRid,
         NEW p \in RecPages, NEW page, Before(pg, p, page),
         NEW p2, Layout(p2), SameRecords(page, p2)
  PROVE  Held([pg EXCEPT ![p] = p2], h, c, q)
  <1> DEFINE pg2 == [pg EXCEPT ![p] = p2]
  <1>1. pg \in PageMap BY DEF Held, PagesOK
  <1>2. p2 \in AnyPage /\ p2.kind = "record" BY LayoutAny
  <1>3. pg2 \in PageMap /\ pg2[p] = p2 /\ \A x \in RecPages : x # p => pg2[x] = pg[x]
    BY <1>1, <1>2 DEF PageMap
  <1> HIDE DEF pg2
  <1>4. /\ pg[p].kind # "overflow"
        /\ \A o \in Ids : h[o] # NoRid /\ h[o][1] = p => page = pg[p] /\ h[o][2] + 1 \in LiveSlots(page)
        /\ \A i \in LiveSlots(page) : \E o \in Ids : h[o] = <<p, i - 1>>
    <2>1. PageHeld(pg, h, p, page) BY BeforeFacts
    <2>2. QED BY <2>1 DEF PageHeld
  <1>5. \A o \in Ids : o # id /\ h[o] # NoRid /\ h[o][1] = p =>
          h[o][2] + 1 \in LiveSlots(pg2[p]) /\ SameRecord(pg[p], pg2[p], h[o][2] + 1)
    BY <1>3, <1>4 DEF SameRecords
  <1>6. /\ PagesOK(pg2)
        /\ \A o \in Ids : o # id /\ h[o] # NoRid => Kept(pg, pg2, h[o], q[o])
    BY <1>3, <1>4, <1>5, OthersHeld
  <1>7. q[id] = <<>> /\ ToSet(q[id]) = {} /\ c[id] \in BOOLEAN /\ q[id] \in Seq(RecPages)
    <2>1. c[id] \in BOOLEAN /\ q[id] \in Seq(RecPages) BY DEF Held
    <2>2. HeldOne(pg, h[id], Units(id, c[id]), q[id]) BY DEF Held
    <2>3. q[id] = <<>> BY <2>2 DEF HeldOne
    <2>4. ToSet(<<>>) = {} BY DEF ToSet
    <2>5. QED BY <2>1, <2>3, <2>4
  <1>8. HeldOne(pg2, NoRid, Units(id, c[id]), q[id]) BY <1>7 DEF HeldOne
  <1>9. ASSUME NEW x \in RecPages, pg2[x].kind = "record", NEW i \in LiveSlots(pg2[x])
        PROVE  \E o \in Ids : o # id /\ h[o] = <<x, i - 1>>
    <2>1. \E o \in Ids : h[o] = <<x, i - 1>>
      <3>1. CASE x = p BY <1>3, <1>4, <3>1 DEF SameRecords
      <3>2. CASE x # p
        <4>1. pg[x].kind = "record" /\ i \in LiveSlots(pg[x]) BY <1>3, <1>9, <3>2
        <4>2. DOMAIN h = Ids BY DEF Held
        <4>3. QED BY <4>1, <4>2 DEF Held, Owned
      <3>3. QED BY <3>1, <3>2
    <2>2. <<x, i - 1>> # NoRid BY RecordConstants DEF NoRid
    <2>3. QED BY <2>1, <2>2
  <1>10. ASSUME NEW x \in RecPages, pg2[x].kind = "overflow"
         PROVE  \E o \in Ids : o # id /\ x \in ToSet(q[o])
    <2>1. x # p /\ pg[x].kind = "overflow" BY <1>2, <1>3, <1>10
    <2>2. DOMAIN h = Ids BY DEF Held
    <2>3. QED BY <1>7, <2>1, <2>2 DEF Held, Owned
  <1>11. Held(pg2, [h EXCEPT ![id] = NoRid], [c EXCEPT ![id] = c[id]], [q EXCEPT ![id] = q[id]])
    <2>1. \A o \in Ids : o # id =>
            (h[o] # NoRid => h[o] # NoRid) /\ ToSet(q[id]) \cap ToSet(q[o]) = {}
      BY <1>7
    <2>2. NoRid \in Rid \cup {NoRid} OBVIOUS
    <2>3. QED BY <1>6, <1>7, <1>8, <1>9, <1>10, <2>1, <2>2, HeldStep
  <1>12. /\ [h EXCEPT ![id] = NoRid] = h /\ [c EXCEPT ![id] = c[id]] = c
         /\ [q EXCEPT ![id] = q[id]] = q
    BY DEF Held
  <1>13. QED BY <1>11, <1>12 DEF pg2

\* A record that fits into a page is inserted.
LEMMA HeldInserted ==
  ASSUME NEW pg, NEW h, NEW c, NEW q, Held(pg, h, c, q), NEW id \in Ids, h[id] = NoRid,
         NEW del \in BOOLEAN, Len(Units(id, del)) <= MAX_INLINE_RECORD_SIZE,
         NEW p \in RecPages, NEW page, Before(pg, p, page),
         NEW p2, NEW slot \in Nat, Inserted(page, p2, slot + 1, Units(id, del))
  PROVE  Held([pg EXCEPT ![p] = p2], [h EXCEPT ![id] = <<p, slot>>], [c EXCEPT ![id] = del],
              [q EXCEPT ![id] = <<>>])
  <1> DEFINE pg2 == [pg EXCEPT ![p] = p2]
             rid == <<p, slot>>
             i0 == slot + 1
             u == Units(id, del)
  <1>1. pg \in PageMap BY DEF Held, PagesOK
  <1>2. Layout(p2) /\ p2 \in AnyPage /\ p2.kind = "record" BY LayoutAny DEF Inserted
  <1>3. pg2 \in PageMap /\ pg2[p] = p2 /\ \A x \in RecPages : x # p => pg2[x] = pg[x]
    BY <1>1, <1>2 DEF PageMap
  <1>4. rid \in Rid /\ rid[1] = p /\ rid[2] = slot BY DEF Rid
  <1>5. /\ i0 \notin LiveSlots(page) /\ LiveSlots(p2) = LiveSlots(page) \cup {i0}
        /\ \A i \in LiveSlots(page) : SameRecord(page, p2, i)
        /\ InlineAt(p2, i0, u)
    BY DEF Inserted, InlineAt
  <1> HIDE DEF pg2, rid, u
  <1>6. /\ pg[p].kind # "overflow"
        /\ \A o \in Ids : h[o] # NoRid /\ h[o][1] = p => page = pg[p] /\ h[o][2] + 1 \in LiveSlots(page)
        /\ \A i \in LiveSlots(page) : \E o \in Ids : h[o] = <<p, i - 1>>
    <2>1. PageHeld(pg, h, p, page) BY BeforeFacts
    <2>2. QED BY <2>1 DEF PageHeld
  <1>7. \A o \in Ids : o # id /\ h[o] # NoRid /\ h[o][1] = p =>
          h[o][2] + 1 \in LiveSlots(pg2[p]) /\ SameRecord(pg[p], pg2[p], h[o][2] + 1)
    BY <1>3, <1>5, <1>6
  <1>8. /\ PagesOK(pg2)
        /\ \A o \in Ids : o # id /\ h[o] # NoRid => Kept(pg, pg2, h[o], q[o])
    BY <1>2, <1>3, <1>6, <1>7, OthersHeld
  <1>9. q[id] = <<>> /\ ToSet(q[id]) = {} /\ <<>> \in Seq(RecPages) /\ ToSet(<<>>) = {}
    BY HomeFacts, EmptySeq DEF ToSet
  <1>10. HeldOne(pg2, rid, u, <<>>)
    <2>1. rid # NoRid BY <1>4, RidFacts
    <2>2. Whole(pg2, rid, u, <<>>) BY <1>2, <1>3, <1>4, <1>5 DEF Whole, u
    <2>3. QED BY <2>1, <2>2 DEF HeldOne
  <1>11. ASSUME NEW o \in Ids, o # id
         PROVE  (h[o] # NoRid => h[o] # rid) /\ ToSet(<<>>) \cap ToSet(q[o]) = {}
    <2>1. ASSUME h[o] # NoRid, h[o] = rid PROVE FALSE
      <3>1. h[o][2] + 1 \in LiveSlots(page) BY <1>4, <1>6, <2>1
      <3>2. QED BY <1>4, <1>5, <2>1, <3>1
    <2>2. QED BY <1>9, <2>1
  <1>12. ASSUME NEW x \in RecPages, pg2[x].kind = "record", NEW i \in LiveSlots(pg2[x])
         PROVE  rid = <<x, i - 1>> \/ \E o \in Ids : o # id /\ h[o] = <<x, i - 1>>
    <2>1. CASE x = p /\ i = i0
      <3>1. i - 1 = slot BY <2>1
      <3>2. QED BY <2>1, <3>1 DEF rid
    <2>2. CASE ~(x = p /\ i = i0)
      <3>1. \E o \in Ids : h[o] = <<x, i - 1>>
        <4>1. CASE x = p BY <1>3, <1>5, <1>6, <2>2, <4>1
        <4>2. CASE x # p
          <5>1. pg[x].kind = "record" /\ i \in LiveSlots(pg[x]) BY <1>3, <1>12, <4>2
          <5>2. DOMAIN h = Ids BY DEF Held
          <5>3. QED BY <5>1, <5>2 DEF Held, Owned
        <4>3. QED BY <4>1, <4>2
      <3>2. <<x, i - 1>> # NoRid BY RecordConstants DEF NoRid
      <3>3. QED BY <3>1, <3>2
    <2>3. QED BY <2>1, <2>2
  <1>13. ASSUME NEW x \in RecPages, pg2[x].kind = "overflow"
         PROVE  \E o \in Ids : o # id /\ x \in ToSet(q[o])
    <2>1. x # p /\ pg[x].kind = "overflow" BY <1>2, <1>3, <1>13
    <2>2. DOMAIN h = Ids BY DEF Held
    <2>3. QED BY <1>9, <2>1, <2>2 DEF Held, Owned
  <1>14. rid \in Rid \cup {NoRid} BY <1>4
  <1>15. Held(pg2, [h EXCEPT ![id] = rid], [c EXCEPT ![id] = del], [q EXCEPT ![id] = <<>>])
    BY <1>8, <1>9, <1>10, <1>11, <1>12, <1>13, <1>14, HeldStep DEF u
  <1>16. QED BY <1>15 DEF pg2, rid

-----------------------------------------------------------------------------
(* What the operations on records do to all of them.                       *)
LEMMA SpannedIs ==
  ASSUME NEW pg, NEW rid, NEW units \in Seq(Unit), NEW l, Whole(pg, rid, units, l)
  PROVE  /\ HasSlot(pg[rid[1]], rid[2])
         /\ overflow_is_spanned(pg[rid[1]], rid[2]) <=> Len(units) > MAX_INLINE_RECORD_SIZE
         /\ pg[rid[1]].slots[rid[2] + 1].offset \in Nat
  <1> DEFINE page == pg[rid[1]]
             i == rid[2] + 1
  <1>1. Layout(page) /\ i \in LiveSlots(page) /\ rid \in Rid BY DEF Whole
  <1>2. page \in RecordPage BY <1>1 DEF Layout
  <1>3. /\ page.kind = "record" /\ i \in 1 .. Len(page.slots) /\ Len(page.slots) \in Nat
        /\ page.slots[i].offset \in Nat
    BY <1>1, <1>2, PageTypes
  <1>4. rid[2] \in Nat BY <1>1, RidFacts
  <1>5. HasSlot(page, rid[2]) BY <1>3, <1>4 DEF HasSlot
  <1>6. Len(units) \in Nat BY SeqElement
  <1>7. page.slots[i].length = SPANNED_MARKER <=> Len(units) > MAX_INLINE_RECORD_SIZE
    <2>1. CASE Len(units) <= MAX_INLINE_RECORD_SIZE /\ InlineAt(page, i, units)
      <3>1. page.slots[i].length = Len(units) BY <2>1 DEF InlineAt
      <3>2. QED BY <1>6, <2>1, <3>1, Sizes
    <2>2. CASE Len(units) > MAX_INLINE_RECORD_SIZE /\ LargeAt(page, i, units, First(l))
      BY <2>2 DEF LargeAt
    <2>3. QED BY <2>1, <2>2 DEF Whole
  <1>8. overflow_is_spanned(page, rid[2]) <=> Len(units) > MAX_INLINE_RECORD_SIZE
    BY <1>5, <1>7 DEF overflow_is_spanned
  <1>9. QED BY <1>3, <1>5, <1>8

\* What is freed with a record: its page keeps the rest, its chain is released.
LEMMA DeletedPages ==
  ASSUME NEW pg \in PageMap, NEW rid, NEW units \in Seq(Unit), NEW l, Whole(pg, rid, units, l)
  PROVE  record_delete(pg, rid) =
           [x \in RecPages |-> IF x = rid[1] THEN slot_page_delete(pg[x], rid[2])
                               ELSE IF x \in ToSet(l) THEN FreePage ELSE pg[x]]
  <1> DEFINE p == rid[1]
             page == pg[p]
             i == rid[2] + 1
             freed == IF overflow_is_spanned(page, rid[2])
                      THEN overflow_free(pg, page.data[page.slots[i].offset].ov) ELSE pg
  <1>1. record_delete(pg, rid) = [freed EXCEPT ![p] = slot_page_delete(freed[p], rid[2])]
    BY DEF record_delete
  <1>2. p \in RecPages BY RidFacts DEF Whole
  <1>3. overflow_is_spanned(page, rid[2]) <=> Len(units) > MAX_INLINE_RECORD_SIZE BY SpannedIs
  <1>4. Len(units) \in Nat BY SeqElement
  <1>5. freed = [x \in RecPages |-> IF x \in ToSet(l) THEN FreePage ELSE pg[x]]
    <2>1. CASE Len(units) <= MAX_INLINE_RECORD_SIZE /\ l = <<>>
      <3>1. freed = pg BY <1>3, <1>4, <2>1, Sizes
      <3>2. ToSet(l) = {} BY <2>1 DEF ToSet
      <3> HIDE DEF freed
      <3>3. QED BY <3>1, <3>2 DEF PageMap
    <2>2. CASE Len(units) > MAX_INLINE_RECORD_SIZE /\ LargeAt(page, i, units, First(l)) /\ Linked(pg, l)
      <3>1. page.data[page.slots[i].offset].ov = First(l)
        <4> HIDE DEF page, i
        <4>1. page.data[page.slots[i].offset] = Prefix(Len(units), First(l)) BY <2>2 DEF LargeAt
        <4>2. Prefix(Len(units), First(l)).ov = First(l) BY DEF Prefix
        <4>3. QED BY <4>1, <4>2
      <3>2. freed = overflow_free(pg, First(l)) BY <1>3, <2>2, <3>1
      <3> HIDE DEF freed
      <3>3. QED BY <2>2, <3>2, OverflowFreeIs
    <2>3. QED BY <2>1, <2>2 DEF Whole
  <1>6. p \notin ToSet(l)
    <2>1. CASE l = <<>> BY <2>1 DEF ToSet
    <2>2. CASE Linked(pg, l)
      <3>1. page.kind = "record" BY LayoutAny DEF Whole
      <3>2. l \in Seq(RecPages) BY <2>2 DEF Linked
      <3>3. \A x \in ToSet(l) : pg[x].kind = "overflow" BY <2>2, <3>2, ToSetFacts DEF Linked
      <3>4. QED BY <3>1, <3>3
    <2>3. QED BY <2>1, <2>2 DEF Whole
  <1> HIDE DEF freed
  <1>7. freed[p] = pg[p] BY <1>2, <1>5, <1>6
  <1>8. QED BY <1>1, <1>2, <1>5, <1>7

LEMMA HeldDeleted ==
  ASSUME NEW pg, NEW h, NEW c, NEW q, Held(pg, h, c, q), NEW id \in Ids, h[id] # NoRid
  PROVE  Held(record_delete(pg, h[id]), [h EXCEPT ![id] = NoRid], c, [q EXCEPT ![id] = <<>>])
  <1> DEFINE pg2 == record_delete(pg, h[id])
             p == h[id][1]
             slot == h[id][2]
             p2 == slot_page_delete(pg[p], slot)
  <1>1. /\ h[id] \in Rid /\ Whole(pg, h[id], Units(id, c[id]), q[id]) /\ c[id] \in BOOLEAN
        /\ Layout(pg[p]) /\ pg[p].kind = "record" /\ p \in RecPages /\ slot \in Nat
        /\ slot + 1 \in LiveSlots(pg[p])
    BY HomeFacts
  <1>2. \A x \in ToSet(q[id]) : x \in RecPages /\ pg[x].kind = "overflow" BY HomeFacts
  <1>3. pg \in PageMap /\ DOMAIN h = Ids BY DEF Held, PagesOK
  <1>4. pg2 = [x \in RecPages |-> IF x = p THEN p2 ELSE IF x \in ToSet(q[id]) THEN FreePage ELSE pg[x]]
    <2>1. Units(id, c[id]) \in Seq(Unit) BY <1>1, UnitsFacts
    <2>2. pg2 = [x \in RecPages |-> IF x = p THEN slot_page_delete(pg[x], slot)
                                    ELSE IF x \in ToSet(q[id]) THEN FreePage ELSE pg[x]]
      BY <1>1, <1>3, <2>1, DeletedPages
    <2>3. QED BY <2>2
  <1>5. Removed(pg[p], p2, slot + 1) BY <1>1, DeleteFacts
  <1> HIDE DEF pg2, p2
  <1>6. /\ Layout(p2) /\ LiveSlots(p2) = LiveSlots(pg[p]) \ {slot + 1}
        /\ \A k \in LiveSlots(p2) : SameRecord(pg[p], p2, k)
        /\ p2 \in AnyPage /\ p2.kind = "record"
    BY <1>5, LayoutAny DEF Removed
  <1>7. /\ pg2 \in PageMap /\ pg2[p] = p2
        /\ \A x \in RecPages : x # p => pg2[x] = IF x \in ToSet(q[id]) THEN FreePage ELSE pg[x]
    <2>1. FreePage \in AnyPage BY DEF AnyPage
    <2>2. QED BY <1>1, <1>3, <1>4, <1>6, <2>1 DEF PageMap
  <1>8. FreePage.kind = "free" BY DEF FreePage
  <1>9. \A x \in RecPages : x # p =>
          \/ pg2[x] = pg[x]
          \/ (x \in ToSet(q[id]) \/ pg[x] = FreePage) /\ pg2[x].kind # "record"
    BY <1>7, <1>8
  <1>10. ASSUME NEW o \in Ids, o # id, h[o] # NoRid, h[o][1] = p
         PROVE  h[o][2] + 1 \in LiveSlots(pg2[p]) /\ SameRecord(pg[p], pg2[p], h[o][2] + 1)
    <2>1. h[o] \in Rid /\ h[o][2] \in Nat /\ h[o][2] + 1 \in LiveSlots(pg[p]) BY <1>10, HomeFacts
    <2>2. h[o] # h[id] BY <1>3, <1>10 DEF Held, Owned
    <2>3. h[o] = <<p, h[o][2]>> /\ h[id] = <<p, slot>> BY <1>1, <1>10, <2>1, RidFacts
    <2>4. h[o][2] # slot BY <2>2, <2>3
    <2>5. h[o][2] + 1 # slot + 1 BY <1>1, <2>1, <2>4
    <2>6. QED BY <1>6, <1>7, <2>1, <2>5
  <1>11. /\ PagesOK(pg2)
         /\ \A o \in Ids : o # id /\ h[o] # NoRid => Kept(pg, pg2, h[o], q[o])
    <2>1. Layout(pg2[p]) /\ pg[p].kind # "overflow" BY <1>1, <1>6, <1>7
    <2> HIDE DEF p
    <2>2. QED BY <1>1, <1>7, <1>9, <1>10, <2>1, OthersHeld
  <1>12. <<>> \in Seq(RecPages) /\ ToSet(<<>>) = {} BY EmptySeq DEF ToSet
  <1>13. HeldOne(pg2, NoRid, Units(id, c[id]), <<>>) BY DEF HeldOne
  <1>14. ASSUME NEW x \in RecPages, pg2[x].kind = "record", NEW i \in LiveSlots(pg2[x])
         PROVE  \E o \in Ids : o # id /\ h[o] = <<x, i - 1>>
    <2>1. pg[x].kind = "record" /\ i \in LiveSlots(pg[x]) /\ (x # p \/ i # slot + 1)
      <3>1. CASE x = p BY <1>1, <1>6, <1>7, <3>1
      <3>2. CASE x # p
        <4>1. pg2[x] = pg[x] BY <1>7, <1>8, <1>14, <3>2
        <4>2. QED BY <1>14, <3>2, <4>1
      <3>3. QED BY <3>1, <3>2
    <2>2. PICK o \in Ids : h[o] = <<x, i - 1>> BY <1>3, <2>1 DEF Held, Owned
    <2>3. o # id
      <3>1. ASSUME o = id PROVE FALSE
        <4>1. x = p /\ i - 1 = slot BY <2>2, <3>1
        <4>2. i \in Nat
          <5>1. Layout(pg[x]) BY <1>1, <4>1
          <5>2. pg[x] \in RecordPage BY <5>1 DEF Layout
          <5>3. QED BY <2>1, <5>2, PageTypes
        <4>3. QED BY <2>1, <4>1, <4>2
      <3>2. QED BY <3>1
    <2>4. QED BY <2>2, <2>3
  <1>15. ASSUME NEW x \in RecPages, pg2[x].kind = "overflow"
         PROVE  \E o \in Ids : o # id /\ x \in ToSet(q[o])
    <2>1. x # p /\ x \notin ToSet(q[id]) /\ pg[x].kind = "overflow" BY <1>6, <1>7, <1>8, <1>15
    <2>2. PICK o \in Ids : x \in ToSet(q[o]) BY <1>3, <2>1 DEF Held, Owned
    <2>3. QED BY <2>1, <2>2
  <1>16. Held(pg2, [h EXCEPT ![id] = NoRid], [c EXCEPT ![id] = c[id]], [q EXCEPT ![id] = <<>>])
    <2>1. \A o \in Ids : o # id =>
            (h[o] # NoRid => h[o] # NoRid) /\ ToSet(<<>>) \cap ToSet(q[o]) = {}
      BY <1>12
    <2>2. NoRid \in Rid \cup {NoRid} OBVIOUS
    <2>3. QED BY <1>1, <1>11, <1>12, <1>13, <1>14, <1>15, <2>1, <2>2, HeldStep
  <1>17. [c EXCEPT ![id] = c[id]] = c BY DEF Held
  <1>18. QED BY <1>16, <1>17 DEF pg2

\* A large record: its chain is built in free pages, its head goes to another.
LEMMA HeldChain ==
  ASSUME NEW pg, NEW h, NEW c, NEW q, Held(pg, h, c, q), NEW id \in Ids, h[id] = NoRid,
         NEW del \in BOOLEAN, Len(Units(id, del)) > MAX_INLINE_RECORD_SIZE,
         NEW l, NEW pg1 \in PageMap, Built(pg, Units(id, del), l, pg1),
         Len(l) = Chunks(Len(Units(id, del))),
         NEW p \in RecPages, pg1[p] = FreePage,
         NEW p2, Layout(p2), LiveSlots(p2) = {1}, LargeAt(p2, 1, Units(id, del), First(l))
  PROVE  Held([pg1 EXCEPT ![p] = p2], [h EXCEPT ![id] = <<p, 0>>], [c EXCEPT ![id] = del],
              [q EXCEPT ![id] = l])
  <1> DEFINE pg2 == [pg1 EXCEPT ![p] = p2]
             rid == <<p, 0>>
             u == Units(id, del)
  <1>1. pg \in PageMap /\ DOMAIN h = Ids BY DEF Held, PagesOK
  <1>2. p2 \in AnyPage /\ p2.kind = "record" BY LayoutAny
  <1>3. pg2 \in PageMap /\ pg2[p] = p2 /\ \A x \in RecPages : x # p => pg2[x] = pg1[x]
    BY <1>2 DEF PageMap
  <1>4. rid \in Rid /\ rid[1] = p /\ rid[2] = 0 /\ rid[2] + 1 = 1 BY DEF Rid
  <1>5. u \in Seq(Unit) /\ Len(u) > MAX_INLINE_RECORD_SIZE /\ Len(l) = Chunks(Len(u))
        /\ Built(pg, u, l, pg1) /\ LargeAt(p2, 1, u, First(l))
    BY UnitsFacts
  <1> HIDE DEF pg2, rid, u
  <1>6. \A k \in 1 .. Len(l) : Chunk(u, k) \in Seq(Unit) BY <1>5, ReachFacts
  <1>7. Linked(pg1, l) BY <1>5, <1>6, BuiltLinked
  <1>8. l \in Seq(RecPages) /\ ToSet(l) = {l[i] : i \in 1 .. Len(l)} /\ ToSet(l) \subseteq RecPages
    <2>1. l \in Seq(RecPages) BY <1>5 DEF Built
    <2>2. QED BY <2>1, ToSetFacts
  <1>9. FreePage.kind = "free" BY DEF FreePage
  <1>10. \A x \in ToSet(l) : pg[x] = FreePage /\ pg1[x].kind = "overflow"
    BY <1>5, <1>7, <1>8 DEF Built, Linked
  <1>11. p \notin ToSet(l) BY <1>9, <1>10
  <1>12. \A x \in RecPages : x \notin ToSet(l) => pg1[x] = pg[x] BY <1>5 DEF Built
  <1>13. pg[p] = FreePage BY <1>11, <1>12
  <1>15. \A o \in Ids : h[o] # NoRid => h[o][1] # p
    <2>1. ASSUME NEW o \in Ids, h[o] # NoRid, h[o][1] = p PROVE FALSE
      <3>1. pg[p].kind = "record" BY <2>1, HomeFacts
      <3>2. QED BY <1>9, <1>13, <3>1
    <2>2. QED BY <2>1
  <1>16. /\ PagesOK(pg2)
         /\ \A o \in Ids : o # id /\ h[o] # NoRid => Kept(pg, pg2, h[o], q[o])
    <2>1. \A x \in RecPages : x # p =>
            \/ pg2[x] = pg[x]
            \/ (x \in ToSet(q[id]) \/ pg[x] = FreePage) /\ pg2[x].kind # "record"
      BY <1>3, <1>10, <1>12
    <2>2. pg[p].kind # "overflow" /\ Layout(pg2[p]) BY <1>3, <1>9, <1>13
    <2>3. \A o \in Ids : o # id /\ h[o] # NoRid /\ h[o][1] = p =>
            h[o][2] + 1 \in LiveSlots(pg2[p]) /\ SameRecord(pg[p], pg2[p], h[o][2] + 1)
      BY <1>15
    <2>4. QED BY <1>3, <2>1, <2>2, <2>3, OthersHeld
  <1>17. HeldOne(pg2, rid, u, l)
    <2>1. rid # NoRid BY <1>4, RidFacts
    <2>2. \A x \in ToSet(l) : pg2[x] = pg1[x] BY <1>3, <1>8, <1>11
    <2>3. \A k \in 1 .. Len(l) : l[k] \in ToSet(l) BY <1>8
    <2>4. Linked(pg2, l) BY <1>7, <2>2, <2>3 DEF Linked
    <2>5. ASSUME NEW k \in 1 .. Len(l) PROVE pg2[l[k]].data = Chunk(u, k)
      <3> DEFINE next == IF k < Len(l) THEN l[k + 1] ELSE NoPage
      <3>1. pg1[l[k]] = OvPage(next, Chunk(u, k)) BY <1>5 DEF Built
      <3>2. pg2[l[k]] = pg1[l[k]] BY <2>2, <2>3
      <3>3. QED BY <3>1, <3>2 DEF OvPage
    <2>6. Whole(pg2, rid, u, l) BY <1>3, <1>4, <1>5, <2>4, <2>5 DEF Whole
    <2>7. QED BY <2>1, <2>6 DEF HeldOne
  <1>18. ASSUME NEW o \in Ids, o # id
         PROVE  (h[o] # NoRid => h[o] # rid) /\ ToSet(l) \cap ToSet(q[o]) = {}
    <2>1. h[o] # NoRid => h[o] # rid BY <1>4, <1>15
    <2>2. \A x \in ToSet(q[o]) : pg[x].kind = "overflow" BY HomeFacts
    <2>3. QED BY <1>9, <1>10, <2>1, <2>2
  <1>19. ASSUME NEW x \in RecPages, pg2[x].kind = "record", NEW i \in LiveSlots(pg2[x])
         PROVE  rid = <<x, i - 1>> \/ \E o \in Ids : o # id /\ h[o] = <<x, i - 1>>
    <2>1. CASE x = p
      <3>1. i = 1 /\ i - 1 = 0 BY <1>3, <1>19, <2>1
      <3>2. QED BY <2>1, <3>1 DEF rid
    <2>2. CASE x # p
      <3>1. pg2[x] = pg[x] BY <1>3, <1>10, <1>12, <1>19, <2>2
      <3>2. PICK o \in Ids : h[o] = <<x, i - 1>> BY <1>1, <1>19, <3>1 DEF Held, Owned
      <3>3. <<x, i - 1>> # NoRid BY RecordConstants DEF NoRid
      <3>4. QED BY <3>2, <3>3
    <2>3. QED BY <2>1, <2>2
  <1>20. ASSUME NEW x \in RecPages, pg2[x].kind = "overflow"
         PROVE  x \in ToSet(l) \/ \E o \in Ids : o # id /\ x \in ToSet(q[o])
    <2>1. ToSet(q[id]) = {} BY HomeFacts
    <2>2. CASE x \notin ToSet(l)
      <3>1. pg2[x] = pg[x] BY <1>2, <1>3, <1>12, <1>20, <2>2
      <3>2. PICK o \in Ids : x \in ToSet(q[o]) BY <1>1, <1>20, <3>1 DEF Held, Owned
      <3>3. QED BY <2>1, <3>2
    <2>3. QED BY <2>2
  <1>21. rid \in Rid \cup {NoRid} BY <1>4
  <1>22. Held(pg2, [h EXCEPT ![id] = rid], [c EXCEPT ![id] = del], [q EXCEPT ![id] = l])
    BY <1>8, <1>16, <1>17, <1>18, <1>19, <1>20, <1>21, HeldStep DEF u
  <1>23. QED BY <1>22 DEF pg2, rid

\* What an insertion comes to: nothing but a rearranged page, or a record
\* that was not there.
InsertOK(h, c, q, id, del, r) ==
  \/ r.rid = NoRid /\ Held(r.pages, h, c, q)
  \/ /\ r.rid \in Rid
     /\ \E l : Held(r.pages, [h EXCEPT ![id] = r.rid], [c EXCEPT ![id] = del], [q EXCEPT ![id] = l])

LEMMA HeldLarge ==
  ASSUME NEW pg, NEW h, NEW c, NEW q, Held(pg, h, c, q), NEW id \in Ids, h[id] = NoRid,
         NEW del \in BOOLEAN, Len(Units(id, del)) > MAX_INLINE_RECORD_SIZE
  PROVE  InsertOK(h, c, q, id, del, overflow_insert(pg, Units(id, del)))
  <1> DEFINE u == Units(id, del)
             R == overflow_insert(pg, u)
  <1>1. pg \in PageMap BY DEF Held, PagesOK
  <1>2. u \in Seq(Unit) /\ Len(u) > MAX_INLINE_RECORD_SIZE BY UnitsFacts
  <1> HIDE DEF u
  <1>3. PICK done :
          /\ BuildOK(pg, u, Chunks(Len(u)), done)
          /\ R = LET primary == NewPage(done.pages)
                     head == <<Prefix(Len(u), done.first)>> \o SubSeq(u, 1, MaxInlineData)
                     r == slot_page_insert(slot_page_init, head)
                 IN  IF done.full \/ NoFree(done.pages)
                     THEN [pages |-> overflow_free(done.pages, done.first), rid |-> NoRid]
                     ELSE [pages |-> [done.pages EXCEPT ![primary] =
                                        [r.page EXCEPT !.slots[r.slot + 1].length = SPANNED_MARKER]],
                           rid |-> <<primary, r.slot>>]
    BY <1>1, <1>2, BuildLast
  <1> DEFINE primary == NewPage(done.pages)
             head == <<Prefix(Len(u), done.first)>> \o SubSeq(u, 1, MaxInlineData)
             r == slot_page_insert(slot_page_init, head)
             p2 == [r.page EXCEPT !.slots[r.slot + 1].length = SPANNED_MARKER]
  <1>4. done.pages \in PageMap BY <1>3 DEF BuildOK, BuildState
  <1>5. PICK l : /\ Built(pg, u, l, done.pages) /\ done.first = First(l)
                 /\ Len(l) <= Chunks(Len(u)) /\ (~done.full => Len(l) = Chunks(Len(u)))
    BY <1>3 DEF BuildOK
  <1>6. l \in Seq(RecPages) /\ Len(l) \in Nat BY <1>5, SeqElement DEF Built
  <1>7. \A k \in 1 .. Len(l) : Chunk(u, k) \in Seq(Unit)
    <2>1. Chunks(Len(u)) \in Nat BY <1>2, ChunksFacts, SeqElement
    <2>2. \A k \in 1 .. Chunks(Len(u)) : Chunk(u, k) \in Seq(Unit) BY <1>2, ReachFacts
    <2>3. QED BY <1>5, <1>6, <2>1, <2>2
  <1>8. Linked(done.pages, l) BY <1>5, <1>7, BuiltLinked
  <1>9. CASE done.full \/ NoFree(done.pages)
    <2>1. R = [pages |-> overflow_free(done.pages, done.first), rid |-> NoRid] BY <1>3, <1>9
    <2>2. overflow_free(done.pages, done.first)
            = [p \in RecPages |-> IF p \in ToSet(l) THEN FreePage ELSE done.pages[p]]
      BY <1>5, <1>8, OverflowFreeIs
    <2>3. \A p \in RecPages : p \in ToSet(l) => pg[p] = FreePage
      <3>1. ToSet(l) = {l[i] : i \in 1 .. Len(l)} BY <1>6, ToSetFacts
      <3>2. QED BY <1>5, <3>1 DEF Built
    <2>4. \A p \in RecPages : p \notin ToSet(l) => done.pages[p] = pg[p] BY <1>5 DEF Built
    <2>5. overflow_free(done.pages, done.first) = pg BY <1>1, <2>2, <2>3, <2>4 DEF PageMap
    <2>6. R.rid = NoRid /\ R.pages = pg BY <2>1, <2>5
    <2> HIDE DEF R
    <2>7. InsertOK(h, c, q, id, del, R) BY <2>6 DEF InsertOK
    <2>8. QED BY <2>7 DEF R, u
  <1>10. CASE ~done.full /\ ~NoFree(done.pages)
    <2>1. R = [pages |-> [done.pages EXCEPT ![primary] = p2], rid |-> <<primary, r.slot>>]
      BY <1>3, <1>10
    <2>2. primary \in RecPages /\ done.pages[primary] = FreePage BY <1>4, <1>10, NewPageFacts
    <2>3. done.first \in Nat
      <3>1. done.first \in RecPages \cup {NoPage} BY <1>3 DEF BuildOK, BuildState
      <3>2. \A x \in RecPages : x \in Nat BY RecordConstants
      <3>3. NoPage \in Nat BY Sizes
      <3> HIDE <1>3
      <3>4. QED BY <3>1, <3>2, <3>3
    <2>4. r.slot = 0 /\ Layout(p2) /\ LiveSlots(p2) = {1} /\ LargeAt(p2, 1, u, First(l))
      BY <1>2, <1>5, <2>3, HeadPage
    <2>5. R.pages = [done.pages EXCEPT ![primary] = p2] /\ R.rid = <<primary, 0>>
      BY <2>1, <2>4
    <2> HIDE DEF R, primary, p2, head, r
    <2>6. Held([done.pages EXCEPT ![primary] = p2], [h EXCEPT ![id] = <<primary, 0>>],
               [c EXCEPT ![id] = del], [q EXCEPT ![id] = l])
      BY <1>2, <1>4, <1>5, <1>10, <2>2, <2>4, HeldChain DEF u
    <2>7. <<primary, 0>> \in Rid BY <2>2 DEF Rid
    <2>8. InsertOK(h, c, q, id, del, R) BY <2>5, <2>6, <2>7 DEF InsertOK
    <2>9. QED BY <2>8 DEF R, u
  <1>11. QED BY <1>9, <1>10

LEMMA HeldRecordInsert ==
  ASSUME NEW pg, NEW h, NEW c, NEW q, Held(pg, h, c, q), NEW id \in Ids, h[id] = NoRid,
         NEW del \in BOOLEAN, NEW target \in RecPages \cup {NoPage},
         target \in RecPages => pg[target].kind = "record"
  PROVE  InsertOK(h, c, q, id, del, record_insert(pg, Units(id, del), target))
  <1> DEFINE u == Units(id, del)
             R == record_insert(pg, u, target)
             p == IF target \in RecPages THEN target ELSE NewPage(pg)
             page == IF target \in RecPages THEN pg[target] ELSE slot_page_init
             r == slot_page_insert(page, u)
  <1>1. pg \in PageMap /\ PagesOK(pg) BY DEF Held, PagesOK
  <1>2. /\ u \in Seq(Unit) /\ Len(u) >= 1 /\ Len(u) = Ev[id].size /\ Len(u) \in Nat
    BY UnitsFacts
  <1>3. CASE Len(u) > MAX_INLINE_RECORD_SIZE
    <2>1. R = overflow_insert(pg, u) BY <1>3 DEF record_insert
    <2>2. InsertOK(h, c, q, id, del, overflow_insert(pg, u)) BY <1>3, HeldLarge
    <2>3. QED BY <2>1, <2>2
  <1>4. CASE Len(u) <= MAX_INLINE_RECORD_SIZE
    <2>1. ~(Len(u) > MAX_INLINE_RECORD_SIZE)
      BY <1>2, <1>4, Sizes
    <2>2. R = IF target \notin RecPages /\ NoFree(pg) THEN [pages |-> pg, rid |-> NoRid]
              ELSE IF r.slot = -1 THEN [pages |-> [pg EXCEPT ![p] = r.page], rid |-> NoRid]
              ELSE [pages |-> [pg EXCEPT ![p] = r.page], rid |-> <<p, r.slot>>]
      BY <2>1 DEF record_insert
    <2> HIDE DEF R
    <2>3. CASE target \notin RecPages /\ NoFree(pg)
      <3>1. R.rid = NoRid /\ R.pages = pg BY <2>2, <2>3
      <3>2. InsertOK(h, c, q, id, del, R) BY <3>1 DEF InsertOK
      <3>3. QED BY <3>2 DEF R
    <2>4. CASE target \in RecPages \/ ~NoFree(pg)
      <3>1. p \in RecPages /\ Before(pg, p, page) /\ Layout(page)
        <4>1. CASE target \in RecPages BY <1>1, <4>1 DEF Before, PagesOK
        <4>2. CASE target \notin RecPages
          <5>1. p \in RecPages /\ pg[p] = FreePage BY <1>1, <2>4, <4>2, NewPageFacts
          <5>2. LiveSlots(slot_page_init) = {} BY InitPageFacts, EmptySeq DEF LiveSlots
          <5>3. Layout(slot_page_init)
            <6>1. Len(slot_page_init.slots) = 0 BY InitPageFacts, EmptySeq
            <6>2. EntrySize * 0 = 0 BY Sizes
            <6>3. Start(slot_page_init) = HeaderSize BY <6>1, <6>2, Sizes DEF Start
            <6>4. Used(slot_page_init) = {} BY <5>2 DEF Used
            <6>5. Cardinality(Used(slot_page_init)) = 0 BY <6>4, FS_EmptySet
            <6>6. FragOK(slot_page_init) BY <6>5, InitPageFacts, Sizes DEF FragOK
            <6>7. QED BY <5>2, <6>3, <6>6, InitPageFacts, Sizes DEF Layout
          <5>4. QED BY <4>2, <5>1, <5>2, <5>3 DEF Before
        <4>3. QED BY <4>1, <4>2
      <3>2. R = IF r.slot = -1 THEN [pages |-> [pg EXCEPT ![p] = r.page], rid |-> NoRid]
                ELSE [pages |-> [pg EXCEPT ![p] = r.page], rid |-> <<p, r.slot>>]
        BY <2>2, <2>4
      <3>3. \/ r.slot = -1 /\ Layout(r.page) /\ SameRecords(page, r.page)
            \/ r.slot \in Nat /\ Inserted(page, r.page, r.slot + 1, u)
        BY <1>2, <3>1, InsertFacts
      <3> HIDE DEF r, p, page, u
      <3>4. CASE r.slot = -1
        <4>1. R.rid = NoRid /\ R.pages = [pg EXCEPT ![p] = r.page] BY <3>2, <3>4
        <4>2. Layout(r.page) /\ SameRecords(page, r.page) BY <3>3, <3>4
        <4>3. Held([pg EXCEPT ![p] = r.page], h, c, q) BY <3>1, <4>2, HeldSame
        <4>4. InsertOK(h, c, q, id, del, R) BY <4>1, <4>3 DEF InsertOK
        <4>5. QED BY <4>4 DEF R, u
      <3>5. CASE r.slot # -1
        <4>1. r.slot \in Nat /\ Inserted(page, r.page, r.slot + 1, u) BY <3>3, <3>5
        <4>2. R.rid = <<p, r.slot>> /\ R.pages = [pg EXCEPT ![p] = r.page] BY <3>2, <3>5
        <4>3. Held([pg EXCEPT ![p] = r.page], [h EXCEPT ![id] = <<p, r.slot>>],
                   [c EXCEPT ![id] = del], [q EXCEPT ![id] = <<>>])
          BY <1>4, <3>1, <4>1, HeldInserted DEF u
        <4>4. <<p, r.slot>> \in Rid BY <3>1, <4>1 DEF Rid
        <4>5. InsertOK(h, c, q, id, del, R) BY <4>2, <4>3, <4>4 DEF InsertOK
        <4>6. QED BY <4>5 DEF R, u
      <3>6. QED BY <3>4, <3>5
    <2>5. QED BY <2>3, <2>4
  <1>5. QED BY <1>2, <1>3, <1>4, Sizes

-----------------------------------------------------------------------------
(* Reading.                                                                *)
\* Sequences that agree are equal.
LEMMA SameSeq ==
  ASSUME NEW S, NEW s \in Seq(S), NEW t \in Seq(S), Len(s) = Len(t),
         \A i \in 1 .. Len(s) : s[i] = t[i]
  PROVE  s = t
  BY SeqEqual

LEMMA ReadInline ==
  ASSUME NEW pg, NEW rid, NEW units \in Seq(Unit), NEW l, Whole(pg, rid, units, l),
         Len(units) <= MAX_INLINE_RECORD_SIZE
  PROVE  record_read(pg, rid) = units
  <1> DEFINE page == pg[rid[1]]
             i == rid[2] + 1
             s == page.slots[i]
  <1>1. Len(units) \in Nat /\ rid \in Rid BY SeqElement DEF Whole
  <1>2. ~overflow_is_spanned(page, rid[2]) /\ HasSlot(page, rid[2])
    BY <1>1, SpannedIs, Sizes
  <1>3. record_read(pg, rid) = Bytes(page, s.offset, s.length)
    <2>1. rid # NoRid BY <1>1, RidFacts
    <2>2. QED BY <1>2, <2>1 DEF record_read, slot_page_read
  <1>4. Layout(page) /\ i \in LiveSlots(page) /\ InlineAt(page, i, units)
    BY <1>1, Sizes DEF Whole
  <1> HIDE DEF page, i
  <1>5. s.length = Len(units) /\ \A j \in 1 .. Len(units) : page.data[s.offset + j - 1] = units[j]
    BY <1>4 DEF InlineAt
  <1>6. s.length # SPANNED_MARKER BY <1>1, <1>5, Sizes
  <1>7. page \in RecordPage /\ s.offset \in Nat /\ s.offset + Len(units) <= PageSize
    BY <1>4, <1>5, <1>6, InlineFacts DEF Layout
  <1> DEFINE b == Bytes(page, s.offset, Len(units))
  <1>8. /\ b \in Seq(Unit) /\ Len(b) = Len(units)
        /\ \A j \in 1 .. Len(units) : s.offset + j <= PageSize => b[j] = page.data[s.offset + j - 1]
    BY <1>1, <1>7, BytesFacts
  <1> HIDE DEF b, s
  <1>9. \A j \in 1 .. Len(units) : b[j] = units[j]
    <2>1. \A j \in 1 .. Len(units) : s.offset + j <= PageSize BY <1>1, <1>7, Sizes
    <2>2. QED BY <1>5, <1>8, <2>1
  <1>10. b = units BY <1>8, <1>9, SameSeq
  <1>11. QED BY <1>3, <1>5, <1>10 DEF b

LEMMA PrefixFacts ==
  ASSUME NEW units \in Seq(Unit), NEW n \in Nat, n >= 1, n <= Len(units)
  PROVE  /\ SubSeq(units, 1, n) \in Seq(Unit) /\ Len(SubSeq(units, 1, n)) = n
         /\ \A i \in 1 .. n : SubSeq(units, 1, n)[i] = units[i]
  <1> DEFINE s == SubSeq(units, 1, n)
  <1>1. \A i \in 1 .. n : units[i] \in Unit BY SeqElement
  <1>2. 1 \in Int /\ n \in Int OBVIOUS
  <1>3. /\ s \in Seq(Unit) /\ Len(s) = IF 1 <= n THEN n - 1 + 1 ELSE 0
        /\ \A i \in 1 .. n - 1 + 1 : s[i] = units[1 + i - 1]
    BY <1>1, <1>2, SubSeqProperties
  <1> HIDE DEF s
  <1>4. n - 1 + 1 = n /\ \A i \in 1 .. n : 1 + i - 1 = i OBVIOUS
  <1>5. s \in Seq(Unit) /\ Len(s) = n /\ \A i \in 1 .. n : s[i] = units[i] BY <1>3, <1>4
  <1>6. QED BY <1>5 DEF s

LEMMA ReadLarge ==
  ASSUME NEW pg \in PageMap, NEW rid, NEW units \in Seq(Unit), NEW l, Whole(pg, rid, units, l),
         Len(units) > MAX_INLINE_RECORD_SIZE
  PROVE  record_read(pg, rid) = units
  <1> DEFINE page == pg[rid[1]]
             i == rid[2] + 1
             at == page.slots[i].offset
             c == Chunks(Len(units))
             part(list) == [k \in 1 .. Len(list) |-> pg[list[k]].data]
             b == Bytes(page, at + 1, MaxInlineData)
             ss == <<b>> \o part(l)
  <1>1. Len(units) \in Nat /\ rid \in Rid BY SeqElement DEF Whole
  <1>2. overflow_is_spanned(page, rid[2]) /\ HasSlot(page, rid[2]) BY SpannedIs
  <1>3. record_read(pg, rid) = overflow_read(pg, page, rid[2])
    <2>1. rid # NoRid BY <1>1, RidFacts
    <2>2. QED BY <1>2, <2>1 DEF record_read
  <1>4. /\ Layout(page) /\ i \in LiveSlots(page) /\ LargeAt(page, i, units, First(l))
        /\ Linked(pg, l) /\ Len(l) = c /\ \A k \in 1 .. Len(l) : pg[l[k]].data = Chunk(units, k)
    <2>1. ~(Len(units) <= MAX_INLINE_RECORD_SIZE) BY <1>1, Sizes
    <2>2. QED BY <2>1 DEF Whole
  <1>5. /\ page.slots[i].length = SPANNED_MARKER /\ page.data[at] = Prefix(Len(units), First(l))
        /\ \A j \in 1 .. MaxInlineData : page.data[at + j] = units[j]
    BY <1>4 DEF LargeAt
  <1>6. page \in RecordPage /\ at \in Nat /\ at = PageSize - MAX_INLINE_RECORD_SIZE
    <2>1. page \in RecordPage BY <1>4 DEF Layout
    <2>2. SlotSound(page, i) BY <1>4 DEF Layout
    <2>3. at \in Nat BY <1>4, <2>1, PageTypes
    <2>4. at + SPANNED_MARKER > PageSize
      <3> HIDE DEF at
      <3>1. QED BY <2>3, Sizes
    <2>5. at = PageSize - MAX_INLINE_RECORD_SIZE
      <3>1. \/ at + page.slots[i].length <= PageSize \/ at = PageSize - MAX_INLINE_RECORD_SIZE
        BY <2>2 DEF SlotSound
      <3> HIDE DEF at, page
      <3>2. ~(at + page.slots[i].length <= PageSize) BY <1>5, <2>3, <2>4, Sizes
      <3>3. QED BY <3>1, <3>2
    <2>6. QED BY <2>1, <2>3, <2>5
  <1>7. page.data[at].n = Len(units) /\ page.data[at].ov = First(l)
    <2> HIDE DEF page, at
    <2>1. page.data[at] = Prefix(Len(units), First(l)) BY <1>5
    <2>2. Prefix(Len(units), First(l)).n = Len(units) /\ Prefix(Len(units), First(l)).ov = First(l)
      BY DEF Prefix
    <2>3. QED BY <2>1, <2>2
  <1>8. OvChain(pg, page.data[at].ov) = l BY <1>4, <1>7, OvChainIs
  <1>9. Min({MaxInlineData, page.data[at].n}) = MaxInlineData
    <2>1. Min({MaxInlineData, Len(units)}) = IF MaxInlineData <= Len(units) THEN MaxInlineData ELSE Len(units)
      BY <1>1, MinOfTwo, Sizes
    <2>2. MaxInlineData <= Len(units) BY <1>1, Sizes
    <2>3. QED BY <1>7, <2>1, <2>2
  <1>10. overflow_read(pg, page, rid[2]) = FlattenSeq(ss)
    <2>1. overflow_read(pg, page, rid[2])
            = FlattenSeq(<<Bytes(page, at + PrefixSize, Min({MaxInlineData, page.data[at].n}))>>
                         \o part(OvChain(pg, page.data[at].ov)))
      BY DEF overflow_read
    <2>2. QED BY <1>8, <1>9, <2>1, Sizes
  <1>11. l \in Seq(RecPages) /\ c \in Nat BY <1>1, <1>4, ChunksFacts DEF Linked
  <1>12. b \in Seq(Unit) /\ b = SubSeq(units, 1, MaxInlineData)
    <2>1. MaxInlineData <= Len(units) BY <1>1, Sizes
    <2> DEFINE s == SubSeq(units, 1, MaxInlineData)
    <2>2. s \in Seq(Unit) /\ Len(s) = MaxInlineData /\ \A j \in 1 .. MaxInlineData : s[j] = units[j]
      BY <2>1, PrefixFacts, Sizes
    <2> HIDE DEF page, at
    <2> DEFINE a == at + 1
    <2>3. a \in Nat /\ MaxInlineData \in Nat /\ b = Bytes(page, a, MaxInlineData) BY <1>6, Sizes
    <2>5. \A j \in 1 .. MaxInlineData : a + j <= PageSize /\ a + j - 1 = at + j
      BY <1>6, Sizes
    <2> HIDE DEF a, b, s
    <2>4. /\ b \in Seq(Unit) /\ Len(b) = MaxInlineData
          /\ \A j \in 1 .. MaxInlineData : a + j <= PageSize => b[j] = page.data[a + j - 1]
      BY <1>6, <2>3, BytesFacts
    <2>6. \A j \in 1 .. MaxInlineData : b[j] = s[j] BY <1>5, <2>2, <2>4, <2>5
    <2>7. b = s BY <2>2, <2>4, <2>6, SameSeq
    <2>8. QED BY <2>4, <2>7 DEF s
  <1>13. part(l) \in Seq(Seq(Unit)) /\ Len(part(l)) = c /\ \A k \in 1 .. c : part(l)[k] = Chunk(units, k)
    <2>1. \A k \in 1 .. c : Chunk(units, k) \in Seq(Unit) BY ReachFacts
    <2>2. part(l) \in [1 .. c -> Seq(Unit)] /\ \A k \in 1 .. c : part(l)[k] = Chunk(units, k)
      BY <1>4, <2>1
    <2> HIDE DEF part
    <2>3. QED BY <1>11, <2>2, FunctionSeq
  <1> HIDE DEF b, part, c
  <1> DEFINE t == part(l)
  <1> HIDE DEF t
  <1>14. /\ Len(<<b>> \o t) = c + 1 /\ (<<b>> \o t)[1] = b
         /\ \A k \in 1 .. c : (<<b>> \o t)[k + 1] = t[k]
    <2>1. <<b>> \in Seq(Seq(Unit)) /\ Len(<<b>>) = 1 /\ <<b>>[1] = b BY <1>12
    <2>2. t \in Seq(Seq(Unit)) /\ Len(t) = c BY <1>13 DEF t
    <2> DEFINE w == <<b>> \o t
    <2>3. /\ Len(w) = 1 + c
          /\ \A k \in 1 .. 1 + c : w[k] = IF k <= 1 THEN <<b>>[k] ELSE t[k - 1]
      BY <2>1, <2>2, ConcatProperties
    <2> HIDE DEF w
    <2>4. \A k \in 1 .. c : k + 1 \in 1 .. 1 + c /\ ~(k + 1 <= 1) /\ (k + 1) - 1 = k BY <1>11
    <2>5. 1 \in 1 .. 1 + c /\ 1 <= 1 BY <1>11
    <2>6. w[1] = b BY <2>1, <2>3, <2>5
    <2>7. \A k \in 1 .. c : w[k + 1] = t[k] BY <2>3, <2>4
    <2>8. Len(w) = c + 1 BY <1>11, <2>3
    <2>9. QED BY <2>6, <2>7, <2>8 DEF w
  <1>15. ss = <<b>> \o t BY DEF t
  <1>16. /\ Len(ss) = Chunks(Len(units)) + 1 /\ ss[1] = SubSeq(units, 1, MaxInlineData)
         /\ \A k \in 1 .. Chunks(Len(units)) : ss[k + 1] = Chunk(units, k)
    BY <1>12, <1>13, <1>14, <1>15 DEF c, t
  <1> HIDE DEF ss
  <1>17. FlattenSeq(ss) = units BY <1>16, FlattenChunks
  <1>18. QED BY <1>3, <1>10, <1>17

\* What was stored is read, and where nothing was stored nothing is read.
LEMMA ReadHeld ==
  ASSUME NEW pg, NEW h, NEW c, NEW q, Held(pg, h, c, q), NEW id \in Ids, h[id] # NoRid
  PROVE  record_read(pg, h[id]) = Units(id, c[id])
  <1>1. Whole(pg, h[id], Units(id, c[id]), q[id]) /\ c[id] \in BOOLEAN /\ pg \in PageMap
    BY HomeFacts DEF Held, PagesOK
  <1>2. Units(id, c[id]) \in Seq(Unit) /\ Len(Units(id, c[id])) \in Nat BY <1>1, UnitsFacts
  <1> DEFINE u == Units(id, c[id])
  <1> HIDE DEF u
  <1>3. CASE Len(u) <= MAX_INLINE_RECORD_SIZE BY <1>1, <1>2, <1>3, ReadInline DEF u
  <1>4. CASE Len(u) > MAX_INLINE_RECORD_SIZE BY <1>1, <1>2, <1>4, ReadLarge DEF u
  <1>5. QED BY <1>2, <1>3, <1>4, Sizes DEF u

LEMMA ReadNone ==
  ASSUME NEW pg, NEW h, NEW c, NEW q, Held(pg, h, c, q), NEW rid \in Rid,
         \A id \in Ids : h[id] # rid
  PROVE  record_read(pg, rid) = <<>>
  <1> DEFINE page == pg[rid[1]]
             slot == rid[2]
  <1>1. /\ rid[1] \in RecPages /\ slot \in Nat /\ rid = <<rid[1], slot>> /\ rid # NoRid
        /\ slot + 1 \in Nat /\ (slot + 1) - 1 = slot
    BY RidFacts
  <1>2. PagesOK(pg) /\ DOMAIN h = Ids BY DEF Held
  <1>3. CASE ~HasSlot(page, slot)
    BY <1>1, <1>3 DEF record_read, overflow_is_spanned, slot_page_read
  <1>4. CASE HasSlot(page, slot)
    <2>1. page.kind = "record" /\ slot < Len(page.slots) BY <1>4 DEF HasSlot
    <2>2. page \in RecordPage BY <1>1, <1>2, <2>1 DEF PagesOK, Layout
    <2>3. slot + 1 \in 1 .. Len(page.slots) BY <1>1, <2>1, <2>2, PageTypes
    <2>4. slot + 1 \notin LiveSlots(page)
      <3>1. ASSUME slot + 1 \in LiveSlots(page) PROVE FALSE
        <4>1. \E id \in Ids : h[id] = <<rid[1], (slot + 1) - 1>>
          BY <1>1, <1>2, <2>1, <3>1 DEF Held, Owned
        <4>2. QED BY <1>1, <4>1
      <3>2. QED BY <3>1
    <2>5. page.slots[slot + 1] = DeletedSlot BY <2>3, <2>4 DEF LiveSlots
    <2>6. page.slots[slot + 1].offset = 0 /\ page.slots[slot + 1].length = 0
      BY <2>5 DEF DeletedSlot
    <2>7. ~overflow_is_spanned(page, slot) BY <2>6, Sizes DEF overflow_is_spanned
    <2>8. record_read(pg, rid) = Bytes(page, 0, 0)
      BY <1>1, <1>4, <2>6, <2>7 DEF record_read, slot_page_read
    <2>9. Bytes(page, 0, 0) \in Seq(Unit) /\ Len(Bytes(page, 0, 0)) = 0 BY <2>2, BytesFacts
    <2>10. Bytes(page, 0, 0) = <<>> BY <2>9, EmptySeq
    <2>11. QED BY <2>8, <2>10
  <1>5. QED BY <1>3, <1>4

-----------------------------------------------------------------------------
(* The space is sound when every record and overflow page is held.         *)
\* The chain that starts at head g is the one of event id.
ChainOf(pg, h, q, g, id) ==
  /\ h[id] # NoRid /\ g = <<h[id][1], First(q[id])>> /\ OvChain(pg, g[2]) = q[id]

LEMMA ChainHeadHeld ==
  ASSUME NEW pg, NEW h, NEW c, NEW q, Held(pg, h, c, q), NEW g \in ChainHeads(pg)
  PROVE  \E id \in Ids : ChainOf(pg, h, q, g, id)
  <1> DEFINE page == pg[g[1]]
  <1>1. g \in RecPages \X RecPages /\ page.kind = "record" BY DEF ChainHeads
  <1>2. PICK i \in LiveSlots(page) : /\ page.slots[i].length = SPANNED_MARKER
                                     /\ page.data[page.slots[i].offset].ov = g[2]
    BY DEF ChainHeads
  <1>3. g[1] \in RecPages /\ g = <<g[1], g[2]>> /\ DOMAIN h = Ids /\ pg \in PageMap
    BY <1>1 DEF Held, PagesOK
  <1>4. PICK id \in Ids : h[id] = <<g[1], i - 1>> BY <1>1, <1>3 DEF Held, Owned
  <1>5. i \in Nat
    <2>1. page \in RecordPage BY <1>1, <1>3 DEF Held, PagesOK, Layout
    <2>2. QED BY <2>1, PageTypes
  <1>6. h[id] # NoRid BY <1>3, <1>4, RecordConstants DEF NoRid
  <1>7. h[id][1] = g[1] /\ h[id][2] + 1 = i BY <1>4, <1>5
  <1>8. Whole(pg, h[id], Units(id, c[id]), q[id]) /\ c[id] \in BOOLEAN BY <1>6, HomeFacts
  <1> DEFINE u == Units(id, c[id])
  <1>9. u \in Seq(Unit) /\ Len(u) \in Nat BY <1>8, UnitsFacts
  <1> HIDE DEF u
  <1>10. Whole(pg, h[id], u, q[id]) BY <1>8 DEF u
  <1>11. Len(u) > MAX_INLINE_RECORD_SIZE
    <2>1. HasSlot(page, h[id][2]) /\ overflow_is_spanned(page, h[id][2]) <=> Len(u) > MAX_INLINE_RECORD_SIZE
      BY <1>7, <1>9, <1>10, SpannedIs
    <2>2. HasSlot(page, h[id][2]) BY <1>7, <1>9, <1>10, SpannedIs
    <2>3. QED BY <1>2, <1>7, <2>1, <2>2 DEF overflow_is_spanned
  <1>12. LargeAt(page, i, u, First(q[id])) /\ Linked(pg, q[id])
    <2>1. ~(Len(u) <= MAX_INLINE_RECORD_SIZE) BY <1>9, <1>11, Sizes
    <2>2. QED BY <1>7, <1>10, <2>1 DEF Whole
  <1>13. g[2] = First(q[id])
    <2>1. page.data[page.slots[i].offset] = Prefix(Len(u), First(q[id])) BY <1>12 DEF LargeAt
    <2>2. Prefix(Len(u), First(q[id])).ov = First(q[id]) BY DEF Prefix
    <2>3. QED BY <1>2, <2>1, <2>2
  <1>14. OvChain(pg, g[2]) = q[id] BY <1>12, <1>13, OvChainIs
  <1>15. g = <<h[id][1], First(q[id])>> BY <1>3, <1>7, <1>13
  <1>16. QED BY <1>6, <1>14, <1>15 DEF ChainOf

LEMMA ChainHeadOf ==
  ASSUME NEW pg, NEW h, NEW c, NEW q, Held(pg, h, c, q), NEW id \in Ids, ToSet(q[id]) # {}
  PROVE  \E g \in ChainHeads(pg) : ChainOf(pg, h, q, g, id)
  <1>1. h[id] # NoRid BY HomeFacts
  <1>2. /\ Whole(pg, h[id], Units(id, c[id]), q[id]) /\ c[id] \in BOOLEAN
        /\ h[id][1] \in RecPages /\ h[id][2] \in Nat /\ pg[h[id][1]].kind = "record"
        /\ h[id][2] + 1 \in LiveSlots(pg[h[id][1]])
    BY <1>1, HomeFacts
  <1> DEFINE u == Units(id, c[id])
             l == q[id]
             i == h[id][2] + 1
             page == pg[h[id][1]]
  <1>3. u \in Seq(Unit) /\ Len(u) \in Nat BY <1>2, UnitsFacts
  <1> HIDE DEF u
  <1>4. l # <<>> BY EmptySeq DEF ToSet
  <1>5. Len(u) > MAX_INLINE_RECORD_SIZE /\ LargeAt(page, i, u, First(l)) /\ Linked(pg, l)
    BY <1>2, <1>4 DEF Whole, u
  <1>6. First(l) \in RecPages /\ First(l) = l[1]
    <2>1. l \in Seq(RecPages) BY <1>5 DEF Linked
    <2>2. Len(l) \in Nat /\ \A k \in 1 .. Len(l) : l[k] \in RecPages BY <2>1, SeqElement
    <2>3. Len(l) # 0 BY <1>4, <2>1, EmptySeq
    <2>4. 1 \in 1 .. Len(l) BY <2>2, <2>3
    <2>5. QED BY <1>4, <2>2, <2>4 DEF First
  <1> DEFINE g == <<h[id][1], First(l)>>
  <1>7. g \in RecPages \X RecPages /\ g[1] = h[id][1] /\ g[2] = First(l) BY <1>2, <1>6
  <1>8. page.slots[i].length = SPANNED_MARKER /\ page.data[page.slots[i].offset].ov = First(l)
    <2>1. page.data[page.slots[i].offset] = Prefix(Len(u), First(l)) BY <1>5 DEF LargeAt
    <2>2. Prefix(Len(u), First(l)).ov = First(l) BY DEF Prefix
    <2>3. QED BY <1>5, <2>1, <2>2 DEF LargeAt
  <1>9. i \in LiveSlots(page) /\ page.kind = "record" BY <1>2
  <1> HIDE DEF i, g
  <1>10. g \in ChainHeads(pg) BY <1>7, <1>8, <1>9 DEF ChainHeads
  <1>11. OvChain(pg, g[2]) = l BY <1>5, <1>7, OvChainIs
  <1>12. ChainOf(pg, h, q, g, id) BY <1>1, <1>11 DEF ChainOf, g
  <1>13. QED BY <1>10, <1>12

LEMMA HeldSpace ==
  ASSUME NEW pg, NEW h, NEW c, NEW q, Held(pg, h, c, q)
  PROVE  (\A p \in RecPages : PageSound(pg[p])) /\ ChainsSound(pg)
  <1>1. DOMAIN h = Ids /\ PagesOK(pg) BY DEF Held
  <1>2. ASSUME NEW p \in RecPages PROVE PageSound(pg[p])
    <2>1. CASE pg[p].kind = "record"
      <3>1. Layout(pg[p]) BY <1>1, <2>1 DEF PagesOK
      <3>2. QED BY <3>1, LayoutSound
    <2>2. CASE pg[p].kind # "record" BY <2>2 DEF PageSound
    <2>3. QED BY <2>1, <2>2
  <1>3. ASSUME NEW g \in ChainHeads(pg), NEW x \in ToSet(OvChain(pg, g[2]))
        PROVE  x \in RecPages /\ pg[x].kind = "overflow"
    <2>1. PICK id \in Ids : ChainOf(pg, h, q, g, id) BY ChainHeadHeld
    <2>2. x \in ToSet(q[id]) BY <2>1 DEF ChainOf
    <2>3. QED BY <2>2, HomeFacts
  <1>4. ASSUME NEW x \in RecPages, pg[x].kind = "overflow"
        PROVE  \E g \in ChainHeads(pg) : x \in ToSet(OvChain(pg, g[2]))
    <2>1. PICK id \in Ids : x \in ToSet(q[id]) BY <1>1, <1>4 DEF Held, Owned
    <2>2. PICK g \in ChainHeads(pg) : ChainOf(pg, h, q, g, id) BY <2>1, ChainHeadOf
    <2>3. QED BY <2>1, <2>2 DEF ChainOf
  <1>5. ASSUME NEW f \in ChainHeads(pg), NEW g \in ChainHeads(pg), f # g
        PROVE  ToSet(OvChain(pg, f[2])) \cap ToSet(OvChain(pg, g[2])) = {}
    <2>1. PICK a \in Ids : ChainOf(pg, h, q, f, a) BY ChainHeadHeld
    <2>2. PICK b \in Ids : ChainOf(pg, h, q, g, b) BY ChainHeadHeld
    <2>3. a # b BY <1>5, <2>1, <2>2 DEF ChainOf
    <2>4. ToSet(q[a]) \cap ToSet(q[b]) = {} BY <1>1, <2>3 DEF Held, Owned
    <2>5. QED BY <2>1, <2>2, <2>4 DEF ChainOf
  <1>6. UNION {ToSet(OvChain(pg, g[2])) : g \in ChainHeads(pg)}
          = {p \in RecPages : pg[p].kind = "overflow"}
    BY <1>3, <1>4
  <1>7. QED BY <1>2, <1>5, <1>6 DEF ChainsSound

-----------------------------------------------------------------------------
(* Updating a record.                                                      *)
LEMMA HeldOverwritten ==
  ASSUME NEW pg, NEW h, NEW c, NEW q, Held(pg, h, c, q), NEW id \in Ids, h[id] # NoRid,
         NEW del \in BOOLEAN, Len(Units(id, del)) <= MAX_INLINE_RECORD_SIZE,
         NEW p2 \in RecordPage, NEW p, p = h[id][1], NEW i, i = h[id][2] + 1,
         p2.slots = pg[p].slots, p2.end = pg[p].end, p2.frag = pg[p].frag,
         p2.data = Put(Erase(pg[p].data, pg[p].slots[i].offset, pg[p].slots[i].length),
                       pg[p].slots[i].offset, Units(id, del))
  PROVE  Held([pg EXCEPT ![p] = p2], h, [c EXCEPT ![id] = del], q)
  <1> DEFINE pg2 == [pg EXCEPT ![p] = p2]
             u == Units(id, del)
             v == Units(id, c[id])
  <1>1. /\ h[id] \in Rid /\ Whole(pg, h[id], v, q[id]) /\ c[id] \in BOOLEAN
        /\ Layout(pg[p]) /\ pg[p].kind = "record" /\ p \in RecPages /\ i \in LiveSlots(pg[p])
    BY HomeFacts
  <1>2. /\ u \in Seq(Unit) /\ v \in Seq(Unit) /\ Len(u) \in Nat /\ Len(v) = Len(u)
        /\ Len(u) <= MAX_INLINE_RECORD_SIZE
    BY <1>1, UnitsFacts
  <1>3. pg \in PageMap /\ DOMAIN h = Ids BY DEF Held, PagesOK
  <1> HIDE DEF u, v
  <1>4. pg[p].slots[i].length = Len(u) /\ q[id] = <<>> /\ Len(u) # SPANNED_MARKER
    <2>1. ~(Len(v) > MAX_INLINE_RECORD_SIZE) BY <1>2, Sizes
    <2>2. InlineAt(pg[p], i, v) /\ q[id] = <<>> BY <1>1, <2>1 DEF Whole
    <2>3. pg[p].slots[i].length = Len(v) BY <2>2 DEF InlineAt
    <2>4. Len(u) # SPANNED_MARKER
      <3> DEFINE n == Len(u)
      <3>1. n \in Nat /\ n <= MAX_INLINE_RECORD_SIZE BY <1>2
      <3> HIDE DEF n
      <3>2. n <= PageSize BY <3>1, Sizes
      <3>3. n # SPANNED_MARKER BY <3>1, <3>2, Sizes
      <3>4. QED BY <3>3 DEF n
    <2>5. QED BY <1>2, <2>2, <2>3, <2>4
  <1>5. /\ Layout(p2) /\ LiveSlots(p2) = LiveSlots(pg[p])
        /\ \A k \in LiveSlots(pg[p]) : k # i => SameRecord(pg[p], p2, k)
        /\ \A j \in 1 .. Len(u) : p2.data[pg[p].slots[i].offset + j - 1] = u[j]
    <2> DEFINE page == pg[p]
    <2>1. Layout(page) /\ i \in LiveSlots(page) /\ Overwrites(page, p2, i, u)
      BY <1>1, <1>4 DEF u, Overwrites
    <2> HIDE DEF page
    <2>2. u \in Seq(Unit) /\ p2 \in RecordPage BY <1>2
    <2>3. Overwritten(page, p2, i, u) BY <2>1, <2>2, OverwriteFacts
    <2>4. QED BY <2>3 DEF Overwritten, page
  <1>6. p2 \in AnyPage /\ p2.kind = "record" BY <1>5, LayoutAny
  <1>7. pg2 \in PageMap /\ pg2[p] = p2 /\ \A x \in RecPages : x # p => pg2[x] = pg[x]
    BY <1>1, <1>3, <1>6 DEF PageMap
  <1> HIDE DEF pg2
  <1>8. ASSUME NEW o \in Ids, o # id, h[o] # NoRid, h[o][1] = p
        PROVE  h[o][2] + 1 \in LiveSlots(pg2[p]) /\ SameRecord(pg[p], pg2[p], h[o][2] + 1)
    <2>1. h[o] \in Rid /\ h[o][2] \in Nat /\ h[o][2] + 1 \in LiveSlots(pg[p]) BY <1>8, HomeFacts
    <2>2. h[o] # h[id] BY <1>3, <1>8 DEF Held, Owned
    <2>3. h[o] = <<p, h[o][2]>> /\ h[id] = <<p, h[id][2]>> /\ h[id][2] \in Nat
      BY <1>1, <1>8, <2>1, RidFacts
    <2>4. h[o][2] # h[id][2] BY <2>2, <2>3
    <2>5. h[o][2] + 1 # i BY <2>1, <2>3, <2>4
    <2>6. QED BY <1>5, <1>7, <2>1, <2>5
  <1>9. /\ PagesOK(pg2)
        /\ \A o \in Ids : o # id /\ h[o] # NoRid => Kept(pg, pg2, h[o], q[o])
    <2>1. Layout(pg2[p]) /\ pg[p].kind # "overflow" BY <1>1, <1>5, <1>7
    <2>2. QED BY <1>1, <1>7, <1>8, <2>1, OthersHeld
  <1>10. HeldOne(pg2, h[id], u, <<>>)
    <2>1. InlineAt(p2, i, u) BY <1>4, <1>5 DEF InlineAt
    <2>2. Whole(pg2, h[id], u, <<>>) BY <1>1, <1>2, <1>5, <1>7, <2>1 DEF Whole
    <2>3. QED BY <2>2 DEF HeldOne
  <1>11. <<>> \in Seq(RecPages) /\ ToSet(<<>>) = {} BY EmptySeq DEF ToSet
  <1>12. \A o \in Ids : o # id =>
           (h[o] # NoRid => h[o] # h[id]) /\ ToSet(<<>>) \cap ToSet(q[o]) = {}
    BY <1>3, <1>11 DEF Held, Owned
  <1>13. ASSUME NEW x \in RecPages, pg2[x].kind = "record", NEW k \in LiveSlots(pg2[x])
         PROVE  h[id] = <<x, k - 1>> \/ \E o \in Ids : o # id /\ h[o] = <<x, k - 1>>
    <2>1. pg[x].kind = "record" /\ k \in LiveSlots(pg[x]) BY <1>1, <1>5, <1>7, <1>13
    <2>2. \E o \in Ids : h[o] = <<x, k - 1>> BY <1>3, <2>1 DEF Held, Owned
    <2>3. QED BY <2>2
  <1>14. ASSUME NEW x \in RecPages, pg2[x].kind = "overflow"
         PROVE  \E o \in Ids : o # id /\ x \in ToSet(q[o])
    <2>1. pg[x].kind = "overflow" BY <1>6, <1>7, <1>14
    <2>2. \E o \in Ids : x \in ToSet(q[o]) BY <1>3, <2>1 DEF Held, Owned
    <2>3. QED BY <1>4, <1>11, <2>2
  <1>15. Held(pg2, [h EXCEPT ![id] = h[id]], [c EXCEPT ![id] = del], [q EXCEPT ![id] = <<>>])
    BY <1>1, <1>9, <1>10, <1>11, <1>12, <1>13, <1>14, HeldStep DEF u
  <1>16. [h EXCEPT ![id] = h[id]] = h /\ [q EXCEPT ![id] = <<>>] = q BY <1>4 DEF Held
  <1>17. QED BY <1>15, <1>16 DEF pg2

\* What an update of event id comes to: the other events keep their flags,
\* and it gets its flag where it is stored afterwards, if it is.
UpdateOK(h, c, id, del, r) ==
  /\ r.rid \in Rid \cup {NoRid}
  /\ \E d, q : /\ Held(r.pages, [h EXCEPT ![id] = r.rid], d, q)
               /\ \A o \in Ids : o # id => d[o] = c[o]
               /\ r.rid # NoRid => d[id] = del

LEMMA UpdateInline ==
  ASSUME NEW pg, NEW h, NEW c, NEW q, Held(pg, h, c, q), NEW id \in Ids, h[id] # NoRid,
         NEW del \in BOOLEAN, Len(Units(id, del)) <= MAX_INLINE_RECORD_SIZE, NEW target
  PROVE  UpdateOK(h, c, id, del, record_update(pg, h[id], Units(id, del), target))
  <1> DEFINE u == Units(id, del)
             v == Units(id, c[id])
             p == h[id][1]
             i == h[id][2] + 1
             page == pg[p]
             s == page.slots[i]
             R == record_update(pg, h[id], u, target)
             data == Put(Erase(page.data, s.offset, s.length), s.offset, u)
             pg2 == [pg EXCEPT ![p].data = Put(Erase(@, s.offset, s.length), s.offset, u),
                               ![p].slots[i].length = Len(u),
                               ![p].frag = (@ + s.length - Len(u)) % Word]
  <1>1. /\ h[id] \in Rid /\ Whole(pg, h[id], v, q[id]) /\ c[id] \in BOOLEAN
        /\ Layout(page) /\ p \in RecPages /\ i \in LiveSlots(page)
    BY HomeFacts
  <1>2. /\ u \in Seq(Unit) /\ v \in Seq(Unit) /\ Len(u) \in Nat /\ Len(v) = Len(u)
        /\ Len(u) <= MAX_INLINE_RECORD_SIZE /\ v # <<>>
    BY <1>1, UnitsFacts
  <1>3. pg \in PageMap /\ h \in [Ids -> Rid \cup {NoRid}] /\ c \in [Ids -> BOOLEAN]
    BY DEF Held, PagesOK
  <1>4. record_read(pg, h[id]) # <<>> BY <1>2, ReadHeld
  <1>5. ~overflow_is_spanned(page, h[id][2])
    <2>1. ~(Len(v) > MAX_INLINE_RECORD_SIZE) BY <1>2, Sizes
    <2> HIDE DEF v
    <2>2. QED BY <1>1, <1>2, <2>1, SpannedIs
  <1>6. s.length = Len(u) /\ s.length # SPANNED_MARKER
    <2>1. ~(Len(v) > MAX_INLINE_RECORD_SIZE) BY <1>2, Sizes
    <2>2. InlineAt(page, i, v) BY <1>1, <2>1 DEF Whole
    <2>3. QED BY <1>2, <2>2, Sizes DEF InlineAt
  <1>7. R = [pages |-> pg2, rid |-> h[id]]
    <2>1. ~(Len(u) > s.length) BY <1>2, <1>6
    <2>2. QED BY <1>4, <1>5, <2>1 DEF record_update
  <1>8. /\ page \in RecordPage /\ page.slots \in Seq(SlotEntry) /\ i \in 1 .. Len(page.slots)
        /\ page.slots[i] \in SlotEntry /\ page.frag \in Nat /\ page.frag <= Word - 1
        /\ s.offset \in Nat /\ s.offset + s.length <= PageSize
    <2>1. page \in RecordPage BY <1>1 DEF Layout
    <2>2. /\ s.offset \in Nat /\ s.offset + s.length <= PageSize /\ i \in 1 .. Len(page.slots)
          /\ page.frag = PageSize - page.end - Cardinality(Used(page))
      BY <1>1, <1>6, InlineFacts
    <2>3. page.slots \in Seq(SlotEntry) /\ page.frag \in Nat /\ page.end \in Nat BY <2>1, PageTypes
    <2>4. page.slots[i] \in SlotEntry BY <2>2, <2>3, SeqElement
    <2>5. Cardinality(Used(page)) \in Nat BY <1>1, UsedFacts
    <2>6. page.frag <= Word - 1
      <3> DEFINE fr == page.frag
                 en == page.end
                 us == Cardinality(Used(page))
      <3>1. fr \in Nat /\ en \in Nat /\ us \in Nat /\ fr = PageSize - en - us BY <2>2, <2>3, <2>5
      <3> HIDE DEF fr, en, us
      <3>2. fr <= Word - 1 BY <3>1, Sizes
      <3>3. QED BY <3>2 DEF fr
    <2>7. QED BY <2>1, <2>2, <2>3, <2>4, <2>6
  <1>9. (page.frag + s.length - Len(u)) % Word = page.frag
    <2> DEFINE fr == page.frag
               n == Len(u)
    <2>1. fr \in Nat /\ fr <= Word - 1 /\ n \in Nat /\ s.length = n BY <1>2, <1>6, <1>8
    <2> HIDE DEF fr, n, s
    <2>2. fr + s.length - n = fr BY <2>1
    <2>3. fr \in 0 .. (Word - 1) /\ Word \in Nat \ {0} BY <2>1, Sizes
    <2>4. fr % Word = fr BY <2>3, ModFacts
    <2>5. QED BY <2>2, <2>4 DEF fr, n, s
  <1>10. [page.slots EXCEPT ![i].length = Len(u)] = page.slots
    <2> DEFINE sl == page.slots
    <2>1. sl \in Seq(SlotEntry) /\ i \in 1 .. Len(sl) /\ sl[i] \in SlotEntry /\ sl[i].length = Len(u)
      BY <1>6, <1>8
    <2> HIDE DEF sl, i, u
    <2>2. [sl[i] EXCEPT !.length = Len(u)] = sl[i] BY <2>1 DEF SlotEntry
    <2>3. [sl EXCEPT ![i].length = Len(u)] = [sl EXCEPT ![i] = [sl[i] EXCEPT !.length = Len(u)]]
      OBVIOUS
    <2>4. [sl EXCEPT ![i] = sl[i]] = sl BY <2>1
    <2>5. QED BY <2>2, <2>3, <2>4 DEF sl
  <1> DEFINE p2 == [page EXCEPT !.data = data]
  <1>11. p2 \in RecordPage /\ p2.slots = page.slots /\ p2.end = page.end /\ p2.frag = page.frag
         /\ p2.data = data
    <2>1. page.data \in [Bytes0 -> Unit] BY <1>8, PageTypes
    <2>2. Erase(page.data, s.offset, s.length) \in [Bytes0 -> Unit]
      <3>1. s.length \in Nat BY <1>2, <1>6
      <3> HIDE DEF s
      <3>2. QED BY <1>8, <2>1, <3>1, EraseFacts
    <2>3. data \in [Bytes0 -> Unit] BY <1>2, <1>8, <2>2, PutType
    <2> HIDE DEF data
    <2>4. QED BY <1>8, <2>3 DEF RecordPage
  <1>12. pg2 = [pg EXCEPT ![p] = p2]
    <2> DEFINE fr == page.frag
               ps == page.slots
               pg3 == [pg EXCEPT ![p].data = data, ![p].slots = ps, ![p].frag = fr]
    <2>1. pg2 = [pg EXCEPT ![p] = [page EXCEPT !.data = data, !.slots = [page.slots EXCEPT ![i].length = Len(u)],
                                              !.frag = (page.frag + s.length - Len(u)) % Word]]
      <3> HIDE DEF i, u, s
      <3>1. QED BY <1>1, <1>3, <1>8 DEF PageMap, RecordPage
    <2> DEFINE sl == [page.slots EXCEPT ![i].length = Len(u)]
               f2 == (page.frag + s.length - Len(u)) % Word
    <2>2. sl = page.slots /\ f2 = page.frag BY <1>9, <1>10
    <2>3. pg2 = [pg EXCEPT ![p] = [page EXCEPT !.data = data, !.slots = sl, !.frag = f2]] BY <2>1
    <2> HIDE DEF sl, f2, data, pg2
    <2>4. [page EXCEPT !.data = data, !.slots = page.slots, !.frag = page.frag] = p2
      BY <1>8 DEF RecordPage
    <2>5. QED BY <2>2, <2>3, <2>4
  <1> HIDE DEF p2, pg2
  <1>13. Held(pg2, h, [c EXCEPT ![id] = del], q) BY <1>2, <1>11, <1>12, HeldOverwritten
  <1> DEFINE d == [c EXCEPT ![id] = del]
  <1>14. d[id] = del /\ \A o \in Ids : o # id => d[o] = c[o] BY <1>3
  <1> HIDE DEF d, R, u
  <1>15. R.pages = pg2 /\ R.rid = h[id] BY <1>7
  <1>16. [h EXCEPT ![id] = h[id]] = h BY <1>3
  <1>17. Held(R.pages, [h EXCEPT ![id] = R.rid], d, q) BY <1>13, <1>15, <1>16 DEF d
  <1>18. UpdateOK(h, c, id, del, R) BY <1>1, <1>14, <1>15, <1>17 DEF UpdateOK
  <1>19. QED BY <1>18 DEF R, u

LEMMA HeldUpdated ==
  ASSUME NEW pg, NEW h, NEW c, NEW q, Held(pg, h, c, q), NEW id \in Ids, h[id] # NoRid,
         NEW del \in BOOLEAN
  PROVE  UpdateOK(h, c, id, del, record_update(pg, h[id], Units(id, del), NoPage))
  <1> DEFINE u == Units(id, del)
             v == Units(id, c[id])
             R == record_update(pg, h[id], u, NoPage)
             pg1 == record_delete(pg, h[id])
             h1 == [h EXCEPT ![id] = NoRid]
             q1 == [q EXCEPT ![id] = <<>>]
  <1>1. Whole(pg, h[id], v, q[id]) /\ c[id] \in BOOLEAN BY HomeFacts
  <1>2. /\ u \in Seq(Unit) /\ v \in Seq(Unit) /\ Len(u) \in Nat /\ Len(v) = Len(u) /\ v # <<>>
    BY <1>1, UnitsFacts
  <1>3. CASE Len(u) <= MAX_INLINE_RECORD_SIZE BY <1>3, UpdateInline
  <1>4. CASE Len(u) > MAX_INLINE_RECORD_SIZE
    <2>1. record_read(pg, h[id]) # <<>> BY <1>2, ReadHeld
    <2>2. overflow_is_spanned(pg[h[id][1]], h[id][2])
      <3>1. Len(v) > MAX_INLINE_RECORD_SIZE BY <1>2, <1>4
      <3> HIDE DEF v
      <3>2. QED BY <1>1, <1>2, <3>1, SpannedIs
    <2>3. R = record_insert(pg1, u, NoPage) BY <2>1, <2>2 DEF record_update
    <2>4. Held(pg1, h1, c, q1) BY HeldDeleted
    <2>5. h \in [Ids -> Rid \cup {NoRid}] /\ c \in [Ids -> BOOLEAN] BY DEF Held
    <2>6. h1[id] = NoRid /\ \A x : [h1 EXCEPT ![id] = x] = [h EXCEPT ![id] = x] BY <2>5
    <2>7. NoPage \notin RecPages BY RecordConstants DEF NoPage
    <2> HIDE DEF pg1, h1, q1
    <2>8. InsertOK(h1, c, q1, id, del, R) BY <2>3, <2>4, <2>6, <2>7, HeldRecordInsert
    <2> HIDE DEF R
    <2>9. CASE R.rid = NoRid /\ Held(R.pages, h1, c, q1)
      <3>1. h1 = [h EXCEPT ![id] = R.rid] BY <2>9 DEF h1
      <3>2. Held(R.pages, [h EXCEPT ![id] = R.rid], c, q1) BY <2>9, <3>1
      <3>3. UpdateOK(h, c, id, del, R) BY <2>9, <3>2 DEF UpdateOK
      <3>4. QED BY <3>3 DEF R
    <2>10. CASE ~(R.rid = NoRid /\ Held(R.pages, h1, c, q1))
      <3>1. R.rid \in Rid BY <2>8, <2>10 DEF InsertOK
      <3>2. PICK l : Held(R.pages, [h1 EXCEPT ![id] = R.rid], [c EXCEPT ![id] = del],
                          [q1 EXCEPT ![id] = l])
        BY <2>8, <2>10 DEF InsertOK
      <3>3. [h1 EXCEPT ![id] = R.rid] = [h EXCEPT ![id] = R.rid] BY <2>6
      <3> DEFINE d == [c EXCEPT ![id] = del]
                 q2 == [q1 EXCEPT ![id] = l]
      <3>4. d[id] = del /\ \A o \in Ids : o # id => d[o] = c[o] BY <2>5
      <3>5. Held(R.pages, [h EXCEPT ![id] = R.rid], d, q2) BY <3>2, <3>3
      <3> HIDE DEF d, q2
      <3>6. UpdateOK(h, c, id, del, R) BY <3>1, <3>4, <3>5 DEF UpdateOK
      <3>7. QED BY <3>6 DEF R
    <2>11. QED BY <2>9, <2>10
  <1>5. QED BY <1>2, <1>3, <1>4, Sizes

-----------------------------------------------------------------------------
(* What is said of the events, by where they are and their flags.          *)
StatusFor(h, c) ==
  [id \in Ids |-> IF h[id] = NoRid THEN "absent" ELSE IF c[id] THEN "deleted" ELSE "live"]
AnswersFor(h, c) ==
  [id \in Ids |->
     [write |-> IF Ev[id].size > MaxRecord THEN "invalid" ELSE IF h[id] = NoRid THEN "open"
                ELSE IF c[id] THEN "deleted" ELSE "duplicate",
      delete |-> IF h[id] = NoRid \/ c[id] THEN "not_found" ELSE "ok",
      get |-> IF h[id] = NoRid \/ c[id] THEN "not_found" ELSE "ok"]]

LEMMA FirstUnitHeld ==
  ASSUME NEW pg, NEW h, NEW c, NEW q, Held(pg, h, c, q), NEW id \in Ids, h[id] # NoRid
  PROVE  RecordEvent(pg, h[id]) = id /\ Flagged(pg, h[id]) = c[id] /\ id # 0
  <1>1. record_read(pg, h[id]) = Units(id, c[id]) BY ReadHeld
  <1>2. c[id] \in BOOLEAN BY HomeFacts
  <1>3. Units(id, c[id])[1].ev = id /\ Units(id, c[id])[1].del = c[id] /\ Units(id, c[id]) # <<>>
    BY <1>2, UnitsFacts
  <1>4. FirstUnit(record_read(pg, h[id])) = Units(id, c[id])[1] BY <1>1, <1>3 DEF FirstUnit
  <1>5. id # 0 BY EventConstants
  <1>6. QED BY <1>3, <1>4, <1>5 DEF RecordEvent, Flagged

LEMMA FirstUnitNone ==
  ASSUME NEW pg, NEW h, NEW c, NEW q, Held(pg, h, c, q), NEW rid \in Rid,
         \A id \in Ids : h[id] # rid
  PROVE  RecordEvent(pg, rid) = 0
  <1>1. record_read(pg, rid) = <<>> BY ReadNone
  <1>2. QED BY <1>1 DEF RecordEvent, FirstUnit, NoUnit

LEMMA SerializeFacts ==
  ASSUME NEW id \in Ids
  PROVE  /\ event_serialize(id) = <<>> <=> Ev[id].size > MaxRecord
         /\ ~(Ev[id].size > MaxRecord) => event_serialize(id) = Units(id, FALSE)
  <1>1. Units(id, FALSE) # <<>> BY UnitsFacts
  <1>2. QED BY <1>1 DEF event_serialize, Units

LEMMA AnswersHeld ==
  ASSUME NEW pg, NEW h, NEW c, NEW q, Held(pg, h, c, q)
  PROVE  StatusOf(pg, h) = StatusFor(h, c) /\ AnswersOf(pg, h) = AnswersFor(h, c)
  <1>1. ASSUME NEW id \in Ids
        PROVE  (IF h[id] = NoRid THEN "absent" ELSE IF RecordEvent(pg, h[id]) # id THEN "lost"
                ELSE IF Flagged(pg, h[id]) THEN "deleted" ELSE "live")
                 = IF h[id] = NoRid THEN "absent" ELSE IF c[id] THEN "deleted" ELSE "live"
    BY FirstUnitHeld
  <1>2. StatusOf(pg, h) = StatusFor(h, c) BY <1>1 DEF StatusOf, StatusFor
  <1>3. ASSUME NEW id \in Ids
        PROVE  WriteAnswer(pg, h, id)
                 = IF Ev[id].size > MaxRecord THEN "invalid" ELSE IF h[id] = NoRid THEN "open"
                   ELSE IF c[id] THEN "deleted" ELSE "duplicate"
    <2>1. CASE h[id] = NoRid BY <2>1, SerializeFacts DEF WriteAnswer
    <2>2. CASE h[id] # NoRid
      <3>1. Flagged(pg, h[id]) = c[id] BY <2>2, FirstUnitHeld
      <3>2. QED BY <2>2, <3>1, SerializeFacts DEF WriteAnswer
    <2>3. QED BY <2>1, <2>2
  <1>4. ASSUME NEW id \in Ids
        PROVE  /\ DeleteAnswer(pg, h, id) = IF h[id] = NoRid \/ c[id] THEN "not_found" ELSE "ok"
               /\ nostr_db_get_event_by_id(pg, h, id) = IF h[id] = NoRid \/ c[id] THEN "not_found" ELSE "ok"
    <2>1. CASE h[id] = NoRid BY <2>1 DEF DeleteAnswer, nostr_db_get_event_by_id
    <2>2. CASE h[id] # NoRid
      <3>1. RecordEvent(pg, h[id]) # 0 /\ Flagged(pg, h[id]) = c[id] BY <2>2, FirstUnitHeld
      <3>2. QED BY <2>2, <3>1 DEF DeleteAnswer, nostr_db_get_event_by_id
    <2>3. QED BY <2>1, <2>2
  <1>5. AnswersOf(pg, h) = AnswersFor(h, c) BY <1>3, <1>4 DEF AnswersOf, AnswersFor
  <1>6. QED BY <1>2, <1>5

-----------------------------------------------------------------------------
(* The invariant of the store: every record is where home says, the id     *)
(* index has an entry for it, and until an operation stops half-way the    *)
(* index and home are the same.                                            *)
RecordsHeld == \E c, q : Held(pages, home, c, q)

StoreInv ==
  /\ RecordsHeld
  /\ idIndex \in [Ids -> Rid \cup {NoRid}] /\ broken \in BOOLEAN
  /\ \A id \in Ids : home[id] # NoRid => idIndex[id] # NoRid /\ ~(Ev[id].size > MaxRecord)
  /\ ~broken => idIndex = home
  /\ status = StatusOf(pages, idIndex) /\ answers = AnswersOf(pages, idIndex)

\* Where the insertion of a fresh event leads.
LEMMA FreshInserted ==
  ASSUME NEW c, NEW q, Held(pages, home, c, q), StoreInv, NEW id \in Ids, Fresh(id),
         NEW target \in Targets(pages, Ev[id].size)
  PROVE  /\ home[id] = NoRid /\ idIndex[id] = NoRid /\ ~(Ev[id].size > MaxRecord)
         /\ InsertOK(home, c, q, id, FALSE, record_insert(pages, event_serialize(id), target))
  <1>1. event_serialize(id) # <<>> /\ idIndex[id] = NoRid BY DEF Fresh, WriteAnswer
  <1>2. home[id] = NoRid BY <1>1 DEF StoreInv
  <1>3. ~(Ev[id].size > MaxRecord) /\ event_serialize(id) = Units(id, FALSE)
    BY <1>1, SerializeFacts
  <1>4. target \in RecPages \cup {NoPage} /\ (target \in RecPages => pages[target].kind = "record")
    <2>1. NoPage \notin RecPages BY RecordConstants DEF NoPage
    <2>2. QED BY <2>1 DEF Targets, InsertTargets, Roomy
  <1>5. QED BY <1>1, <1>2, <1>3, <1>4, HeldRecordInsert

\* The event a deletion is about: the one whose record is at the id's entry.
LEMMA DeletedEvent ==
  ASSUME NEW c, NEW q, Held(pages, home, c, q), StoreInv, NEW id \in Ids,
         DeleteAnswer(pages, idIndex, id) = "ok"
  PROVE  LET ev == RecordEvent(pages, idIndex[id])
         IN  /\ ev \in Ids /\ home[ev] = idIndex[id] /\ home[ev] # NoRid /\ idIndex[id] \in Rid
             /\ c[ev] = FALSE /\ (~broken => ev = id)
  <1>1. /\ idIndex[id] # NoRid /\ RecordEvent(pages, idIndex[id]) # 0
        /\ ~Flagged(pages, idIndex[id])
    BY DEF DeleteAnswer
  <1>2. idIndex[id] \in Rid BY <1>1 DEF StoreInv
  <1>3. PICK o \in Ids : home[o] = idIndex[id] BY <1>1, <1>2, FirstUnitNone
  <1>4. RecordEvent(pages, home[o]) = o /\ Flagged(pages, home[o]) = c[o] BY <1>1, <1>3, FirstUnitHeld
  <1>5. c[o] \in BOOLEAN BY HomeFacts
  <1>6. ~broken => o = id
    <2>1. DOMAIN home = Ids BY DEF Held
    <2>2. \A a, b \in Ids : a # b /\ home[a] # NoRid => home[a] # home[b] BY <2>1 DEF Held, Owned
    <2>3. QED BY <1>1, <1>3, <2>2 DEF StoreInv
  <1>7. QED BY <1>1, <1>2, <1>3, <1>4, <1>5, <1>6

-----------------------------------------------------------------------------
(* What the actions do to the records.                                     *)
WrittenTo(c, id, rid) ==
  /\ rid \in Rid /\ home[id] = NoRid /\ idIndex[id] = NoRid /\ ~(Ev[id].size > MaxRecord)
  /\ home' = [home EXCEPT ![id] = rid] /\ idIndex' = [idIndex EXCEPT ![id] = rid]
  /\ dup' = DupInsert(dup, IndexKeys(id), rid)
  /\ \E q : Held(pages', home', [c EXCEPT ![id] = FALSE], q)

UndoneAt(c, id) ==
  /\ home[id] = NoRid /\ idIndex[id] = NoRid /\ home' = home
  /\ idIndex' \in [Ids -> Rid \cup {NoRid}]
  /\ \A o \in Ids : idIndex[o] # NoRid => idIndex'[o] # NoRid
  /\ broken' \in BOOLEAN
  /\ ~broken' => /\ ~broken /\ idIndex' = idIndex
                 /\ \E rid : dup' = DupInsert(dup, SubSeq(IndexKeys(id), 1, 0 - 1), rid)
  /\ \E q : Held(pages', home', [c EXCEPT ![id] = FALSE], q)

DeletedAt(c, id, ev) ==
  /\ ev \in Ids /\ home[ev] = idIndex[id] /\ home[ev] \in Rid /\ c[ev] = FALSE
  /\ ~broken => ev = id
  /\ idIndex' = [idIndex EXCEPT ![ev] = home[ev]]
  /\ home' \in [Ids -> Rid \cup {NoRid}] /\ \A o \in Ids : o # ev => home'[o] = home[o]
  /\ broken' = (broken \/ home'[ev] # home[ev])
  /\ dup' = index_manager_delete_event(dup, ev, home[ev])
  /\ \E d, q : /\ Held(pages', home', d, q)
               /\ \A o \in Ids : o # ev => d[o] = c[o]
               /\ home'[ev] # NoRid => d[ev] = TRUE

LEMMA WriteFullStep ==
  ASSUME NEW c, NEW q, Held(pages, home, c, q), StoreInv, NEW id \in Ids, WriteFull(id)
  PROVE  Held(pages', home', c, q)
  <1>1. PICK target \in Targets(pages, Ev[id].size) :
          /\ record_insert(pages, event_serialize(id), target).rid = NoRid
          /\ pages' = record_insert(pages, event_serialize(id), target).pages
    BY DEF WriteFull
  <1>2. Fresh(id) /\ home' = home BY DEF WriteFull
  <1> DEFINE r == record_insert(pages, event_serialize(id), target)
  <1>3. InsertOK(home, c, q, id, FALSE, r) BY <1>2, FreshInserted
  <1> HIDE DEF r
  <1>4. r.rid = NoRid /\ pages' = r.pages BY <1>1 DEF r
  <1>5. r.rid \notin Rid BY <1>4, RidFacts
  <1>6. QED BY <1>2, <1>3, <1>4, <1>5 DEF InsertOK

LEMMA WrittenStep ==
  ASSUME NEW c, NEW q, Held(pages, home, c, q), StoreInv, NEW id \in Ids, Written(id)
  PROVE  \E rid : WrittenTo(c, id, rid)
  <1>1. PICK target \in Targets(pages, Ev[id].size) :
          LET r == record_insert(pages, event_serialize(id), target)
          IN  /\ r.rid # NoRid
              /\ pages' = r.pages
              /\ idIndex' = [idIndex EXCEPT ![id] = r.rid]
              /\ dup' = DupInsert(dup, IndexKeys(id), r.rid)
              /\ home' = [home EXCEPT ![id] = r.rid]
    BY DEF Written
  <1>2. Fresh(id) BY DEF Written
  <1> DEFINE r == record_insert(pages, event_serialize(id), target)
  <1>3. /\ home[id] = NoRid /\ idIndex[id] = NoRid /\ ~(Ev[id].size > MaxRecord)
        /\ InsertOK(home, c, q, id, FALSE, r)
    BY <1>2, FreshInserted
  <1>4. /\ r.rid # NoRid /\ pages' = r.pages /\ idIndex' = [idIndex EXCEPT ![id] = r.rid]
        /\ dup' = DupInsert(dup, IndexKeys(id), r.rid) /\ home' = [home EXCEPT ![id] = r.rid]
    BY <1>1
  <1> HIDE DEF r
  <1>5. r.rid \in Rid BY <1>3, <1>4 DEF InsertOK
  <1>6. PICK l : Held(r.pages, [home EXCEPT ![id] = r.rid], [c EXCEPT ![id] = FALSE],
                      [q EXCEPT ![id] = l])
    BY <1>3, <1>4 DEF InsertOK
  <1>7. Held(pages', home', [c EXCEPT ![id] = FALSE], [q EXCEPT ![id] = l]) BY <1>4, <1>6
  <1>8. WrittenTo(c, id, r.rid) BY <1>3, <1>4, <1>5, <1>7 DEF WrittenTo
  <1>9. QED BY <1>8

LEMMA WriteFailsStep ==
  ASSUME NEW c, NEW q, Held(pages, home, c, q), StoreInv, NEW id \in Ids, WriteFails(id)
  PROVE  UndoneAt(c, id)
  <1>1. PICK target \in Targets(pages, Ev[id].size), k \in FailAt \cap (0 .. Len(IndexKeys(id))) :
          LET r == record_insert(pages, event_serialize(id), target)
          IN  /\ r.rid # NoRid
              /\ pages' = record_delete(r.pages, r.rid)
              /\ idIndex' = IF k = 0 THEN idIndex ELSE [idIndex EXCEPT ![id] = r.rid]
              /\ dup' = DupInsert(dup, SubSeq(IndexKeys(id), 1, k - 1), r.rid)
              /\ broken' = (broken \/ k > 0)
    BY DEF WriteFails
  <1>2. Fresh(id) /\ home' = home BY DEF WriteFails
  <1> DEFINE r == record_insert(pages, event_serialize(id), target)
  <1>3. /\ home[id] = NoRid /\ idIndex[id] = NoRid /\ ~(Ev[id].size > MaxRecord)
        /\ InsertOK(home, c, q, id, FALSE, r)
    BY <1>2, FreshInserted
  <1>4. /\ r.rid # NoRid /\ pages' = record_delete(r.pages, r.rid)
        /\ idIndex' = (IF k = 0 THEN idIndex ELSE [idIndex EXCEPT ![id] = r.rid])
        /\ dup' = DupInsert(dup, SubSeq(IndexKeys(id), 1, k - 1), r.rid)
        /\ broken' = (broken \/ k > 0)
    BY <1>1
  <1> HIDE DEF r
  <1>5. r.rid \in Rid BY <1>3, <1>4 DEF InsertOK
  <1>6. PICK l : Held(r.pages, [home EXCEPT ![id] = r.rid], [c EXCEPT ![id] = FALSE],
                      [q EXCEPT ![id] = l])
    BY <1>3, <1>4 DEF InsertOK
  <1> DEFINE h1 == [home EXCEPT ![id] = r.rid]
             c1 == [c EXCEPT ![id] = FALSE]
             q1 == [q EXCEPT ![id] = l]
  <1>7. home \in [Ids -> Rid \cup {NoRid}] BY DEF Held
  <1>8. h1[id] = r.rid /\ [h1 EXCEPT ![id] = NoRid] = home
    <2>1. h1[id] = r.rid BY <1>7
    <2>2. [h1 EXCEPT ![id] = NoRid] = [home EXCEPT ![id] = NoRid] BY <1>7
    <2>3. [home EXCEPT ![id] = home[id]] = home BY <1>7
    <2>4. QED BY <1>3, <2>1, <2>2, <2>3
  <1>9. Held(r.pages, h1, c1, q1) BY <1>6
  <1> HIDE DEF h1, c1, q1
  <1>10. Held(record_delete(r.pages, h1[id]), [h1 EXCEPT ![id] = NoRid], c1, [q1 EXCEPT ![id] = <<>>])
    <2>1. h1[id] # NoRid BY <1>4, <1>8
    <2>2. QED BY <1>9, <2>1, HeldDeleted
  <1>11. Held(pages', home', c1, [q1 EXCEPT ![id] = <<>>]) BY <1>2, <1>4, <1>8, <1>10
  <1>12. idIndex \in [Ids -> Rid \cup {NoRid}] /\ broken \in BOOLEAN BY DEF StoreInv
  <1>13. /\ idIndex' \in [Ids -> Rid \cup {NoRid}] /\ broken' \in BOOLEAN
         /\ \A o \in Ids : idIndex[o] # NoRid => idIndex'[o] # NoRid
    <2>1. CASE k = 0 BY <1>4, <1>12, <2>1
    <2>2. CASE k # 0 BY <1>4, <1>5, <1>12, <2>2
    <2>3. QED BY <2>1, <2>2
  <1>14. ~broken' => /\ ~broken /\ idIndex' = idIndex
                     /\ \E rid : dup' = DupInsert(dup, SubSeq(IndexKeys(id), 1, 0 - 1), rid)
    <2> SUFFICES ASSUME ~broken'
                 PROVE  /\ ~broken /\ idIndex' = idIndex
                        /\ \E rid : dup' = DupInsert(dup, SubSeq(IndexKeys(id), 1, 0 - 1), rid)
      OBVIOUS
    <2>1. k \in Nat BY EventConstants
    <2>2. ~(k > 0) /\ ~broken BY <1>4
    <2>3. k = 0 BY <2>1, <2>2
    <2>4. QED BY <1>4, <2>2, <2>3
  <1>15. QED BY <1>2, <1>3, <1>11, <1>13, <1>14 DEF UndoneAt, c1

LEMMA DeletedStep ==
  ASSUME NEW c, NEW q, Held(pages, home, c, q), StoreInv, NEW id \in Ids, Deleted(id)
  PROVE  \E ev : DeletedAt(c, id, ev)
  <1> DEFINE rid == idIndex[id]
             ev == RecordEvent(pages, rid)
             r == record_update(pages, rid, RecordUnits(ev, Ev[ev].size, TRUE), NoPage)
  <1>1. DeleteAnswer(pages, idIndex, id) = "ok" BY DEF Deleted
  <1>2. /\ dup' = index_manager_delete_event(dup, ev, rid) /\ idIndex' = [idIndex EXCEPT ![ev] = rid]
        /\ pages' = r.pages /\ home' = [home EXCEPT ![ev] = r.rid]
        /\ broken' = (broken \/ r.rid # rid)
    BY DEF Deleted
  <1>3. /\ ev \in Ids /\ home[ev] = rid /\ home[ev] # NoRid /\ rid \in Rid
        /\ c[ev] = FALSE /\ (~broken => ev = id)
    BY <1>1, DeletedEvent
  <1>4. r = record_update(pages, rid, Units(ev, TRUE), NoPage) BY DEF Units
  <1> HIDE DEF r, ev
  <1>5. UpdateOK(home, c, ev, TRUE, record_update(pages, home[ev], Units(ev, TRUE), NoPage))
    BY <1>3, HeldUpdated
  <1>6. UpdateOK(home, c, ev, TRUE, r) BY <1>3, <1>4, <1>5
  <1>7. r.rid \in Rid \cup {NoRid} BY <1>6 DEF UpdateOK
  <1>8. PICK d, q2 : /\ Held(r.pages, [home EXCEPT ![ev] = r.rid], d, q2)
                     /\ \A o \in Ids : o # ev => d[o] = c[o]
                     /\ r.rid # NoRid => d[ev] = TRUE
    BY <1>6 DEF UpdateOK
  <1>9. home \in [Ids -> Rid \cup {NoRid}] BY DEF Held
  <1>10. /\ home' \in [Ids -> Rid \cup {NoRid}] /\ home'[ev] = r.rid
         /\ \A o \in Ids : o # ev => home'[o] = home[o]
    BY <1>2, <1>3, <1>7, <1>9
  <1>11. Held(pages', home', d, q2) /\ (home'[ev] # NoRid => d[ev] = TRUE) BY <1>2, <1>8, <1>10
  <1>12. /\ idIndex' = [idIndex EXCEPT ![ev] = home[ev]]
         /\ broken' = (broken \/ home'[ev] # home[ev])
         /\ dup' = index_manager_delete_event(dup, ev, home[ev])
    BY <1>2, <1>3, <1>10
  <1>13. DeletedAt(c, id, ev) BY <1>3, <1>8, <1>10, <1>11, <1>12 DEF DeletedAt
  <1>14. QED BY <1>13

LEMMA StoreInitInv == StoreInit => StoreInv
  <1> SUFFICES ASSUME StoreInit PROVE StoreInv OBVIOUS
  <1> DEFINE c == [id \in Ids |-> FALSE]
             q == [id \in Ids |-> <<>>]
  <1>1. /\ pages = [p \in RecPages |-> FreePage] /\ idIndex = [id \in Ids |-> NoRid]
        /\ status = [id \in Ids |-> "absent"] /\ home = [id \in Ids |-> NoRid]
        /\ answers = AnswersOf(pages, idIndex) /\ broken = FALSE
    BY DEF StoreInit
  <1>2. FreePage \in AnyPage /\ FreePage.kind = "free" BY DEF AnyPage, FreePage
  <1>3. PagesOK(pages) BY <1>1, <1>2 DEF PagesOK, PageMap
  <1>4. Owned(pages, home, q)
    <2>1. ToSet(<<>>) = {} BY EmptySeq DEF ToSet
    <2>2. \A id \in Ids : q[id] = <<>> OBVIOUS
    <2>3. DOMAIN home = Ids BY <1>1
    <2> HIDE DEF q
    <2>4. QED BY <1>1, <1>2, <2>1, <2>2, <2>3 DEF Owned
  <1>5. q \in [Ids -> Seq(RecPages)] /\ c \in [Ids -> BOOLEAN] BY EmptySeq
  <1>6. \A id \in Ids : HeldOne(pages, home[id], Units(id, c[id]), q[id]) BY <1>1 DEF HeldOne
  <1>7. home \in [Ids -> Rid \cup {NoRid}] BY <1>1
  <1> HIDE DEF c, q
  <1>8. Held(pages, home, c, q) BY <1>3, <1>4, <1>5, <1>6, <1>7 DEF Held
  <1>9. StatusOf(pages, idIndex) = [id \in Ids |-> "absent"] BY <1>1 DEF StatusOf
  <1>10. RecordsHeld BY <1>8 DEF RecordsHeld
  <1>11. QED BY <1>1, <1>7, <1>9, <1>10 DEF StoreInv

LEMMA StoreNextInv == StoreInv /\ [StoreNext]_storeVars => StoreInv'
  <1> SUFFICES ASSUME StoreInv, [StoreNext]_storeVars PROVE StoreInv' OBVIOUS
  <1>1. PICK c, q : Held(pages, home, c, q) BY DEF StoreInv, RecordsHeld
  <1>2. /\ idIndex \in [Ids -> Rid \cup {NoRid}] /\ broken \in BOOLEAN
        /\ \A id \in Ids : home[id] # NoRid => idIndex[id] # NoRid /\ ~(Ev[id].size > MaxRecord)
        /\ ~broken => idIndex = home
    BY DEF StoreInv
  <1>3. home \in [Ids -> Rid \cup {NoRid}] BY <1>1 DEF Held
  <1>4. CASE UNCHANGED storeVars
    <2>1. UNCHANGED <<pages, idIndex, status, answers, home, broken>> BY <1>4 DEF storeVars
    <2>2. Held(pages', home', c, q) BY <1>1, <2>1
    <2>3. RecordsHeld' BY <2>2 DEF RecordsHeld
    <2>4. QED BY <1>2, <2>1, <2>3 DEF StoreInv
  <1>5. ASSUME NEW id \in Ids, WriteFull(id) PROVE StoreInv'
    <2>1. Held(pages', home', c, q) BY <1>1, <1>5, WriteFullStep
    <2>2. UNCHANGED <<idIndex, home, broken>> /\ Derived BY <1>5 DEF WriteFull
    <2>3. RecordsHeld' BY <2>1 DEF RecordsHeld
    <2>4. QED BY <1>2, <2>2, <2>3 DEF StoreInv, Derived
  <1>6. ASSUME NEW id \in Ids, Written(id) PROVE StoreInv'
    <2>1. PICK rid : WrittenTo(c, id, rid) BY <1>1, <1>6, WrittenStep
    <2>2. /\ rid \in Rid /\ home' = [home EXCEPT ![id] = rid]
          /\ idIndex' = [idIndex EXCEPT ![id] = rid] /\ ~(Ev[id].size > MaxRecord)
      BY <2>1 DEF WrittenTo
    <2>3. broken' = broken /\ Derived BY <1>6 DEF Written
    <2>4. RecordsHeld' BY <2>1 DEF RecordsHeld, WrittenTo
    <2>5. rid # NoRid BY <2>2, RidFacts
    <2>6. idIndex' \in [Ids -> Rid \cup {NoRid}] BY <1>2, <2>2
    <2>7. \A o \in Ids : home'[o] # NoRid => idIndex'[o] # NoRid /\ ~(Ev[o].size > MaxRecord)
      BY <1>2, <1>3, <2>2, <2>5
    <2>8. ~broken' => idIndex' = home' BY <1>2, <2>2, <2>3
    <2>9. QED BY <1>2, <2>3, <2>4, <2>6, <2>7, <2>8 DEF StoreInv, Derived
  <1>7. ASSUME NEW id \in Ids, WriteFails(id) PROVE StoreInv'
    <2>1. UndoneAt(c, id) BY <1>1, <1>7, WriteFailsStep
    <2>2. Derived BY <1>7 DEF WriteFails
    <2>3. RecordsHeld' BY <2>1 DEF RecordsHeld, UndoneAt
    <2>4. /\ idIndex' \in [Ids -> Rid \cup {NoRid}] /\ broken' \in BOOLEAN /\ home' = home
          /\ \A o \in Ids : idIndex[o] # NoRid => idIndex'[o] # NoRid
          /\ ~broken' => ~broken /\ idIndex' = idIndex
      BY <2>1 DEF UndoneAt
    <2>5. QED BY <1>2, <2>2, <2>3, <2>4 DEF StoreInv, Derived
  <1>8. ASSUME NEW id \in Ids, Deleted(id) PROVE StoreInv'
    <2>1. PICK ev : DeletedAt(c, id, ev) BY <1>1, <1>8, DeletedStep
    <2>2. /\ ev \in Ids /\ home[ev] \in Rid /\ idIndex' = [idIndex EXCEPT ![ev] = home[ev]]
          /\ home' \in [Ids -> Rid \cup {NoRid}] /\ \A o \in Ids : o # ev => home'[o] = home[o]
          /\ broken' = (broken \/ home'[ev] # home[ev])
      BY <2>1 DEF DeletedAt
    <2>3. Derived BY <1>8 DEF Deleted
    <2>4. RecordsHeld' BY <2>1 DEF RecordsHeld, DeletedAt
    <2>5. home[ev] # NoRid BY <2>2, RidFacts
    <2>6. idIndex' \in [Ids -> Rid \cup {NoRid}] /\ broken' \in BOOLEAN BY <1>2, <2>2
    <2>7. \A o \in Ids : home'[o] # NoRid => idIndex'[o] # NoRid /\ ~(Ev[o].size > MaxRecord)
      BY <1>2, <2>2, <2>5
    <2>8. ASSUME ~broken' PROVE idIndex' = home'
      <3>1. ~broken /\ home'[ev] = home[ev] /\ idIndex = home BY <1>2, <2>2, <2>8
      <3>2. \A o \in Ids : idIndex'[o] = home'[o] BY <1>2, <2>2, <3>1
      <3>3. QED BY <2>2, <2>6, <3>2
    <2>9. QED BY <2>3, <2>4, <2>6, <2>7, <2>8 DEF StoreInv, Derived
  <1>9. ASSUME NEW id \in Ids, Refused(id) PROVE StoreInv'
    <2>1. UNCHANGED storeVars BY <1>9 DEF Refused
    <2>2. QED BY <1>4, <2>1
  <1>10. QED BY <1>4, <1>5, <1>6, <1>7, <1>8, <1>9 DEF StoreNext

-----------------------------------------------------------------------------
(* Theorems about the records.                                             *)
\* Every record is where the store put it last, and the derived answers are
\* those of the id index and the records (db_event.c on record_manager.c).
THEOREM StoreInvariant == StoreSpec => []StoreInv
  BY StoreInitInv, StoreNextInv, PTL DEF StoreSpec

\* Record pages and overflow chains stay sound through insertion, deletion,
\* reuse of slots, compaction and the marker of large records, for every page
\* size and every set of events, whatever fails (slot_page.c, overflow.c).
THEOREM SpaceTheorem == StoreSpec => []SpaceSound
  <1>1. StoreInv => SpaceSound
    <2> SUFFICES ASSUME StoreInv PROVE SpaceSound OBVIOUS
    <2>1. PICK c, q : Held(pages, home, c, q) BY DEF StoreInv, RecordsHeld
    <2>2. QED BY <2>1, HeldSpace DEF SpaceSound
  <1>2. QED BY <1>1, StoreInvariant, PTL

\* What record_manager_insert stored is what record_manager_read returns,
\* unit by unit, however other records come and go on its pages, for records
\* within a page and for those with an overflow chain of any length.
THEOREM ReadBackTheorem == StoreSpec => []ReadBack
  <1>1. StoreInv => ReadBack
    <2> SUFFICES ASSUME StoreInv, NEW id \in Ids, home[id] # NoRid
                 PROVE  record_read(pages, home[id])
                          \in {RecordUnits(id, Ev[id].size, del) : del \in BOOLEAN}
      BY DEF ReadBack
    <2>1. PICK c, q : Held(pages, home, c, q) BY DEF StoreInv, RecordsHeld
    <2>2. record_read(pages, home[id]) = Units(id, c[id]) BY <2>1, ReadHeld
    <2>3. c[id] \in BOOLEAN BY <2>1, HomeFacts
    <2>4. QED BY <2>2, <2>3 DEF Units
  <1>2. QED BY <1>1, StoreInvariant, PTL

-----------------------------------------------------------------------------
(* The store is an archive.                                                *)
\* What is answered is what the status calls for.
LEMMA AnswersPromised ==
  ASSUME NEW h, NEW c \in [Ids -> BOOLEAN], NEW id \in Ids,
         h[id] # NoRid => ~(Ev[id].size > MaxRecord)
  PROVE  AbstractStore!Promised(StatusFor(h, c)[id], AnswersFor(h, c)[id])
  <1> DEFINE s == StatusFor(h, c)[id]
             a == AnswersFor(h, c)[id]
  <1>1. c[id] \in BOOLEAN OBVIOUS
  <1>2. s = IF h[id] = NoRid THEN "absent" ELSE IF c[id] THEN "deleted" ELSE "live"
    BY DEF StatusFor
  <1>3. /\ a.write = (IF Ev[id].size > MaxRecord THEN "invalid" ELSE IF h[id] = NoRid THEN "open"
                      ELSE IF c[id] THEN "deleted" ELSE "duplicate")
        /\ a.delete = (IF h[id] = NoRid \/ c[id] THEN "not_found" ELSE "ok")
        /\ a.get = (IF h[id] = NoRid \/ c[id] THEN "not_found" ELSE "ok")
    BY DEF AnswersFor
  <1> HIDE DEF s, a
  <1>4. CASE h[id] = NoRid
    <2>1. s = "absent" /\ a.write \in {"open", "invalid"} /\ a.delete = "not_found" /\ a.get = "not_found"
      BY <1>2, <1>3, <1>4
    <2>2. QED BY <2>1 DEF AbstractStore!Promised, s, a
  <1>5. CASE h[id] # NoRid /\ c[id]
    <2>1. s = "deleted" /\ a.write = "deleted" /\ a.delete = "not_found" /\ a.get = "not_found"
      BY <1>2, <1>3, <1>5
    <2>2. QED BY <2>1 DEF AbstractStore!Promised, s, a
  <1>6. CASE h[id] # NoRid /\ ~c[id]
    <2>1. s = "live" /\ a.write = "duplicate" /\ a.delete = "ok" /\ a.get = "ok"
      BY <1>2, <1>3, <1>6
    <2>2. QED BY <2>1 DEF AbstractStore!Promised, s, a
  <1>7. QED BY <1>4, <1>5, <1>6

\* While nothing has stopped half-way, status and answers follow from where
\* the events are and their flags.
LEMMA Said ==
  ASSUME StoreInv, ~broken, NEW c, NEW q, Held(pages, home, c, q)
  PROVE  status = StatusFor(home, c) /\ answers = AnswersFor(home, c)
  BY AnswersHeld DEF StoreInv

LEMMA SaidNext ==
  ASSUME StoreInv', ~broken', NEW c, NEW q, Held(pages', home', c, q)
  PROVE  /\ status' = StatusFor(home', c) /\ answers' = AnswersFor(home', c)
         /\ \A id \in Ids : AbstractStore!Promised(status'[id], answers'[id])
  <1>1. status' = StatusFor(home', c) /\ answers' = AnswersFor(home', c)
    <2>1. /\ status' = StatusOf(pages', idIndex') /\ answers' = AnswersOf(pages', idIndex')
          /\ idIndex' = home'
      BY DEF StoreInv
    <2>2. QED BY <2>1, AnswersHeld
  <1>2. \A id \in Ids : home'[id] # NoRid => ~(Ev[id].size > MaxRecord) BY DEF StoreInv
  <1>3. c \in [Ids -> BOOLEAN] BY DEF Held
  <1>4. QED BY <1>1, <1>2, <1>3, AnswersPromised

\* What a step that does not stop half-way does to what is said.
SaysTheSame == ~broken /\ UNCHANGED <<status, answers, broken>>
Becomes(id, old, new) ==
  /\ ~broken /\ UNCHANGED broken
  /\ status[id] = old /\ status' = [status EXCEPT ![id] = new]
  /\ \A o \in Ids : AbstractStore!Promised(status'[o], answers'[o])

LEMMA WriteFullSaid ==
  ASSUME StoreInv, StoreInv', ~broken', NEW id \in Ids, WriteFull(id)
  PROVE  SaysTheSame
  <1>1. PICK c, q : Held(pages, home, c, q) BY DEF StoreInv, RecordsHeld
  <1>2. Held(pages', home', c, q) BY <1>1, WriteFullStep
  <1>3. home' = home /\ broken' = broken BY DEF WriteFull
  <1>4. status' = StatusFor(home, c) /\ answers' = AnswersFor(home, c) BY <1>2, <1>3, SaidNext
  <1>5. status = StatusFor(home, c) /\ answers = AnswersFor(home, c) BY <1>1, <1>3, Said
  <1>6. QED BY <1>3, <1>4, <1>5 DEF SaysTheSame

LEMMA WriteFailsSaid ==
  ASSUME StoreInv, StoreInv', ~broken', NEW id \in Ids, WriteFails(id)
  PROVE  SaysTheSame
  <1>1. PICK c, q : Held(pages, home, c, q) BY DEF StoreInv, RecordsHeld
  <1>2. c \in [Ids -> BOOLEAN] BY <1>1 DEF Held
  <1>3. UndoneAt(c, id) BY <1>1, WriteFailsStep
  <1>4. home[id] = NoRid /\ home' = home /\ ~broken BY <1>3 DEF UndoneAt
  <1> DEFINE d == [c EXCEPT ![id] = FALSE]
  <1>5. PICK q2 : Held(pages', home', d, q2) BY <1>3 DEF UndoneAt
  <1>6. status' = StatusFor(home, d) /\ answers' = AnswersFor(home, d) BY <1>4, <1>5, SaidNext
  <1>7. status = StatusFor(home, c) /\ answers = AnswersFor(home, c) BY <1>1, <1>4, Said
  <1>8. \A o \in Ids : home[o] # NoRid => d[o] = c[o] BY <1>2, <1>4
  <1> HIDE DEF d
  <1>9. StatusFor(home, d) = StatusFor(home, c) BY <1>8 DEF StatusFor
  <1>10. AnswersFor(home, d) = AnswersFor(home, c)
    <2>1. \A o \in Ids :
            /\ (IF Ev[o].size > MaxRecord THEN "invalid" ELSE IF home[o] = NoRid THEN "open"
                ELSE IF d[o] THEN "deleted" ELSE "duplicate")
               = (IF Ev[o].size > MaxRecord THEN "invalid" ELSE IF home[o] = NoRid THEN "open"
                  ELSE IF c[o] THEN "deleted" ELSE "duplicate")
            /\ (IF home[o] = NoRid \/ d[o] THEN "not_found" ELSE "ok")
               = (IF home[o] = NoRid \/ c[o] THEN "not_found" ELSE "ok")
      BY <1>8
    <2>2. QED BY <2>1 DEF AnswersFor
  <1>11. broken' = broken BY <1>4 DEF StoreInv
  <1>12. QED BY <1>4, <1>6, <1>7, <1>9, <1>10, <1>11 DEF SaysTheSame

LEMMA WrittenSaid ==
  ASSUME StoreInv, StoreInv', ~broken', NEW id \in Ids, Written(id)
  PROVE  Becomes(id, "absent", "live") /\ answers[id].write = "open"
  <1>1. PICK c, q : Held(pages, home, c, q) BY DEF StoreInv, RecordsHeld
  <1>2. c \in [Ids -> BOOLEAN] /\ home \in [Ids -> Rid \cup {NoRid}] BY <1>1 DEF Held
  <1>3. PICK rid : WrittenTo(c, id, rid) BY <1>1, WrittenStep
  <1>4. /\ rid \in Rid /\ home[id] = NoRid /\ home' = [home EXCEPT ![id] = rid]
        /\ ~(Ev[id].size > MaxRecord)
    BY <1>3 DEF WrittenTo
  <1> DEFINE d == [c EXCEPT ![id] = FALSE]
  <1>5. PICK q2 : Held(pages', home', d, q2) BY <1>3 DEF WrittenTo
  <1>6. broken' = broken BY DEF Written
  <1>7. status = StatusFor(home, c) /\ answers = AnswersFor(home, c) BY <1>1, <1>6, Said
  <1>8. /\ status' = StatusFor(home', d)
        /\ \A o \in Ids : AbstractStore!Promised(status'[o], answers'[o])
    BY <1>5, SaidNext
  <1>9. answers[id].write = "open" /\ status[id] = "absent" BY <1>4, <1>7 DEF AnswersFor, StatusFor
  <1>10. status' = [status EXCEPT ![id] = "live"]
    <2>1. rid # NoRid BY <1>4, RidFacts
    <2>2. \A o \in Ids : (IF home'[o] = NoRid THEN "absent" ELSE IF d[o] THEN "deleted" ELSE "live")
            = IF o = id THEN "live"
              ELSE IF home[o] = NoRid THEN "absent" ELSE IF c[o] THEN "deleted" ELSE "live"
      BY <1>2, <1>4, <2>1
    <2>3. QED BY <1>7, <1>8, <2>2 DEF StatusFor
  <1>11. QED BY <1>6, <1>8, <1>9, <1>10 DEF Becomes

LEMMA DeletedSaid ==
  ASSUME StoreInv, StoreInv', ~broken', NEW id \in Ids, Deleted(id)
  PROVE  /\ Becomes(id, "live", "deleted") /\ answers[id].delete = "ok"
         /\ home' = home /\ home[id] \in Rid
         /\ dup' = index_manager_delete_event(dup, id, home[id])
  <1>1. PICK c, q : Held(pages, home, c, q) BY DEF StoreInv, RecordsHeld
  <1>2. home \in [Ids -> Rid \cup {NoRid}] BY <1>1 DEF Held
  <1>3. PICK ev : DeletedAt(c, id, ev) BY <1>1, DeletedStep
  <1>4. /\ ev \in Ids /\ home[ev] \in Rid /\ c[ev] = FALSE /\ (~broken => ev = id)
        /\ home' \in [Ids -> Rid \cup {NoRid}] /\ \A o \in Ids : o # ev => home'[o] = home[o]
        /\ broken' = (broken \/ home'[ev] # home[ev])
        /\ dup' = index_manager_delete_event(dup, ev, home[ev])
    BY <1>3 DEF DeletedAt
  <1>5. ~broken /\ ev = id /\ home'[ev] = home[ev] BY <1>4
  <1>6. home[id] # NoRid BY <1>4, <1>5, RidFacts
  <1>7. PICK d, q2 : /\ Held(pages', home', d, q2)
                     /\ \A o \in Ids : o # ev => d[o] = c[o]
                     /\ home'[ev] # NoRid => d[ev] = TRUE
    BY <1>3 DEF DeletedAt
  <1>8. status = StatusFor(home, c) /\ answers = AnswersFor(home, c) BY <1>1, <1>5, Said
  <1>9. /\ status' = StatusFor(home', d)
        /\ \A o \in Ids : AbstractStore!Promised(status'[o], answers'[o])
    BY <1>7, SaidNext
  <1>10. answers[id].delete = "ok" /\ status[id] = "live"
    BY <1>4, <1>5, <1>6, <1>8 DEF AnswersFor, StatusFor
  <1>11. status' = [status EXCEPT ![id] = "deleted"]
    <2>1. \A o \in Ids : (IF home'[o] = NoRid THEN "absent" ELSE IF d[o] THEN "deleted" ELSE "live")
            = IF o = id THEN "deleted"
              ELSE IF home[o] = NoRid THEN "absent" ELSE IF c[o] THEN "deleted" ELSE "live"
      BY <1>4, <1>5, <1>6, <1>7
    <2>2. QED BY <1>8, <1>9, <2>1 DEF StatusFor
  <1>12. broken' = broken BY <1>5 DEF StoreInv
  <1>13. home' = home BY <1>2, <1>4, <1>5
  <1>14. QED BY <1>4, <1>5, <1>9, <1>10, <1>11, <1>12, <1>13 DEF Becomes

LEMMA StoreStep ==
  ASSUME StoreInv, StoreInv', [StoreNext]_storeVars
  PROVE  [AbstractStore!ArchiveNext]_(AbstractStore!archiveVars)
  <1>1. CASE broken'
    <2>1. broken' = TRUE BY <1>1 DEF StoreInv
    <2>2. QED BY <2>1 DEF AbstractStore!ArchiveNext
  <1>2. CASE UNCHANGED storeVars BY <1>2 DEF storeVars, AbstractStore!archiveVars
  <1>3. ASSUME NEW id \in Ids, ~broken', Refused(id) PROVE UNCHANGED storeVars BY <1>3 DEF Refused
  <1>4. ASSUME NEW id \in Ids, ~broken', WriteFull(id) \/ WriteFails(id)
        PROVE  UNCHANGED AbstractStore!archiveVars
    BY <1>4, WriteFullSaid, WriteFailsSaid DEF SaysTheSame, AbstractStore!archiveVars
  <1>5. ASSUME NEW id \in Ids, ~broken', Written(id) PROVE AbstractStore!ArchiveNext
    <2>1. Becomes(id, "absent", "live") /\ answers[id].write = "open" BY <1>5, WrittenSaid
    <2>2. QED BY <2>1 DEF Becomes, AbstractStore!ArchiveNext, AbstractStore!Store
  <1>6. ASSUME NEW id \in Ids, ~broken', Deleted(id) PROVE AbstractStore!ArchiveNext
    <2>1. Becomes(id, "live", "deleted") /\ answers[id].delete = "ok" BY <1>6, DeletedSaid
    <2>2. QED BY <2>1 DEF Becomes, AbstractStore!ArchiveNext, AbstractStore!Delete
  <1>7. QED BY <1>1, <1>2, <1>3, <1>4, <1>5, <1>6 DEF StoreNext

\* Until an operation has stopped half-way, the event store is an archive:
\* nostr_db_write_event, nostr_db_delete_event and nostr_db_get_event_by_id
\* change and report the status of events as module Archive says, although
\* records move, slots are reused and insertions fail in between.
THEOREM ArchiveTheorem == StoreSpec => ImplementsArchive
  <1>1. StoreInit => AbstractStore!ArchiveInit
    <2> SUFFICES ASSUME StoreInit PROVE AbstractStore!ArchiveInit OBVIOUS
    <2>1. StoreInv BY StoreInitInv
    <2>2. PICK c, q : Held(pages, home, c, q) BY <2>1 DEF StoreInv, RecordsHeld
    <2>3. broken = FALSE /\ status = [id \in Ids |-> "absent"] BY DEF StoreInit
    <2>4. status = StatusFor(home, c) /\ answers = AnswersFor(home, c) BY <2>1, <2>2, <2>3, Said
    <2>5. c \in [Ids -> BOOLEAN] BY <2>2 DEF Held
    <2>6. \A id \in Ids : AbstractStore!Promised(status[id], answers[id])
      BY <2>1, <2>4, <2>5, AnswersPromised DEF StoreInv
    <2>7. \A id \in Ids : AbstractStore!Promised("absent", answers[id]) BY <2>3, <2>6
    <2>8. QED BY <2>3, <2>7 DEF AbstractStore!ArchiveInit
  <1>2. StoreInv /\ StoreInv' /\ [StoreNext]_storeVars
          => [AbstractStore!ArchiveNext]_(AbstractStore!archiveVars)
    BY StoreStep
  <1>3. QED
    BY <1>1, <1>2, StoreInvariant, PTL DEF StoreSpec, ImplementsArchive, AbstractStore!ArchiveSpec

-----------------------------------------------------------------------------
(* Entries of the indexes.                                                 *)
Places(s, x) == {i \in 1 .. Len(s) : s[i] = x}

LEMMA CopiesFacts ==
  ASSUME NEW S, NEW s \in Seq(S), NEW x
  PROVE  /\ Copies(s, x) = Cardinality(Places(s, x)) /\ IsFiniteSet(Places(s, x))
         /\ Copies(s, x) \in Nat /\ (Copies(s, x) = 0 <=> x \notin ToSet(s))
  <1>1. Len(s) \in Nat /\ ToSet(s) = {s[i] : i \in 1 .. Len(s)} BY SeqElement, ToSetFacts
  <1>2. Copies(s, x) = Cardinality(Places(s, x)) BY DEF Copies, Places
  <1>3. IsFiniteSet(1 .. Len(s)) BY <1>1, FS_Interval
  <1>4. IsFiniteSet(Places(s, x)) BY <1>3, FS_Subset DEF Places
  <1>5. Cardinality(Places(s, x)) \in Nat BY <1>4, FS_CardinalityType
  <1>6. Cardinality(Places(s, x)) = 0 <=> Places(s, x) = {} BY <1>4, FS_EmptySet
  <1>7. Places(s, x) = {} <=> x \notin ToSet(s) BY <1>1 DEF Places
  <1>8. QED BY <1>2, <1>4, <1>5, <1>6, <1>7

\* Entries of one record behind the others.
Grown(s, t, y, n) ==
  /\ t \in Seq(Rid) /\ ToSet(t) \subseteq ToSet(s) \cup {y}
  /\ \A x : Copies(t, x) = Copies(s, x) + IF x = y THEN n ELSE 0

LEMMA CopiesAdded ==
  ASSUME NEW s \in Seq(Rid), NEW n \in Nat, NEW y \in Rid
  PROVE  Grown(s, s \o [k \in 1 .. n |-> y], y, n)
  <1> DEFINE e == [k \in 1 .. n |-> y]
             L == Len(s)
             t == s \o e
  <1>1. e \in [1 .. n -> Rid] /\ \A k \in 1 .. n : e[k] = y OBVIOUS
  <1> HIDE DEF e
  <1>3. e \in Seq(Rid) /\ Len(e) = n BY <1>1, FunctionSeq
  <1>4. L \in Nat BY SeqElement
  <1>5. /\ t \in Seq(Rid) /\ Len(t) = L + n
        /\ \A i \in 1 .. L + n : t[i] = IF i <= L THEN s[i] ELSE e[i - L]
    BY <1>3, ConcatProperties
  <1> HIDE DEF t
  <1>6. \A i \in 1 .. L + n : t[i] = IF i <= L THEN s[i] ELSE y
    <2>1. \A i \in 1 .. L + n : ~(i <= L) => i - L \in 1 .. n BY <1>4
    <2>2. QED BY <1>1, <1>5, <2>1
  <1> HIDE DEF L
  <1>7. ToSet(t) \subseteq ToSet(s) \cup {y}
    <2> DEFINE T == {t[i] : i \in 1 .. Len(t)}
    <2>0. ToSet(t) = T BY <1>5, ToSetFacts
    <2>1. ToSet(t) = {t[i] : i \in 1 .. L + n} BY <1>5, <2>0
    <2>2. ToSet(s) = {s[i] : i \in 1 .. L} BY ToSetFacts DEF L
    <2>3. \A i \in 1 .. L + n : i <= L => i \in 1 .. L BY <1>4
    <2>4. QED BY <1>6, <2>1, <2>2, <2>3
  <1>8. ASSUME NEW x PROVE Copies(t, x) = Copies(s, x) + IF x = y THEN n ELSE 0
    <2> DEFINE A == Places(s, x)
               B == Places(t, x)
               V == (L + 1) .. (L + n)
    <2>1. /\ Copies(s, x) = Cardinality(A) /\ IsFiniteSet(A) /\ Cardinality(A) \in Nat
          /\ Copies(t, x) = Cardinality(B)
      <3>1. /\ Copies(s, x) = Cardinality(A) /\ IsFiniteSet(A) /\ Copies(s, x) \in Nat BY CopiesFacts
      <3>2. Copies(t, x) = Cardinality(B) BY <1>5, CopiesFacts
      <3>3. QED BY <3>1, <3>2
    <2>2. A \subseteq 1 .. L BY DEF Places, L
    <2>3. \A i \in 1 .. L : i \in A <=> s[i] = x BY DEF Places, L
    <2>4. B = {i \in 1 .. L + n : t[i] = x} BY <1>5 DEF Places
    <2> HIDE DEF A, B
    <2>5. CASE x # y
      <3>1. B = A
        <4>1. ASSUME NEW i \in B PROVE i \in A
          <5>1. i \in 1 .. L + n /\ t[i] = x BY <2>4, <4>1
          <5>2. i <= L BY <1>6, <2>5, <5>1
          <5>3. i \in 1 .. L BY <1>4, <5>1, <5>2
          <5>4. s[i] = x BY <1>6, <5>1, <5>2
          <5>5. QED BY <2>3, <5>3, <5>4
        <4>2. ASSUME NEW i \in A PROVE i \in B
          <5>1. i \in 1 .. L /\ s[i] = x BY <2>2, <2>3, <4>2
          <5>2. i \in 1 .. L + n /\ i <= L BY <1>4, <5>1
          <5>3. QED BY <1>6, <2>4, <5>1, <5>2
        <4>3. QED BY <4>1, <4>2
      <3>2. QED BY <2>1, <2>5, <3>1
    <2>6. CASE x = y
      <3>1. B = A \cup V
        <4>1. ASSUME NEW i \in B PROVE i \in A \cup V
          <5>1. i \in 1 .. L + n /\ t[i] = x BY <2>4, <4>1
          <5>2. CASE i <= L
            <6>1. i \in 1 .. L BY <1>4, <5>1, <5>2
            <6>2. s[i] = x BY <1>6, <5>1, <5>2
            <6>3. QED BY <2>3, <6>1, <6>2
          <5>3. CASE ~(i <= L) BY <1>4, <5>1, <5>3
          <5>4. QED BY <5>2, <5>3
        <4>2. ASSUME NEW i \in A PROVE i \in B
          <5>1. i \in 1 .. L /\ s[i] = x BY <2>2, <2>3, <4>2
          <5>2. i \in 1 .. L + n /\ i <= L BY <1>4, <5>1
          <5>3. QED BY <1>6, <2>4, <5>1, <5>2
        <4>3. ASSUME NEW i \in V PROVE i \in B
          <5>1. i \in 1 .. L + n /\ ~(i <= L) BY <1>4
          <5>2. QED BY <1>6, <2>4, <2>6, <5>1
        <4>4. QED BY <4>1, <4>2, <4>3
      <3>2. A \cap V = {} BY <1>4, <2>2
      <3>3. IsFiniteSet(V) /\ Cardinality(V) = n
        <4>1. L + 1 \in Int /\ L + n \in Int BY <1>4
        <4>2. IsFiniteSet(V) /\ Cardinality(V) = IF L + 1 > L + n THEN 0 ELSE (L + n) - (L + 1) + 1
          BY <4>1, FS_Interval
        <4>3. QED BY <1>4, <4>2
      <3> HIDE DEF V
      <3>4. Cardinality(A \cup V) = Cardinality(A) + Cardinality(V) - Cardinality(A \cap V)
        BY <2>1, <3>3, FS_Union
      <3>5. Cardinality(A \cap V) = 0 BY <3>2, FS_EmptySet
      <3>6. QED BY <2>1, <2>6, <3>1, <3>3, <3>4, <3>5
    <2>7. QED BY <2>5, <2>6
  <1>9. QED BY <1>5, <1>7, <1>8 DEF Grown, t, e

\* The last entry takes the place of the one removed: one copy less of it,
\* as many of every other.
LEMMA OneRemoved ==
  ASSUME NEW S, NEW s \in Seq(S), NEW i \in 1 .. Len(s)
  PROVE  LET t == Front([s EXCEPT ![i] = Last(s)])
         IN  /\ t \in Seq(S) /\ ToSet(t) \subseteq ToSet(s)
             /\ Copies(t, s[i]) = Copies(s, s[i]) - 1
             /\ \A x : x # s[i] => Copies(t, x) = Copies(s, x)
  <1> DEFINE t == Front([s EXCEPT ![i] = Last(s)])
             L == Len(s)
             r == [s EXCEPT ![i] = s[L]]
  <1>1. L \in Nat /\ L >= 1 /\ i \in 1 .. L /\ L \in 1 .. L /\ L - 1 \in Nat BY SeqElement
  <1>2. s[L] \in S BY <1>1, SeqElement
  <1>3. r \in Seq(S) /\ Len(r) = L /\ \A j \in 1 .. L : r[j] = IF j = i THEN s[L] ELSE s[j]
    BY <1>2, ExceptSeq
  <1>4. t = SubSeq(r, 1, L - 1) BY <1>3 DEF Front, Last
  <1> HIDE DEF L, r, t
  <1>5. /\ t \in Seq(S) /\ Len(t) = L - 1
        /\ \A j \in 1 .. (L - 1) : t[j] = IF j = i THEN s[L] ELSE s[j]
    <2>1. \A j \in 1 .. (L - 1) : j \in 1 .. L BY <1>1
    <2>2. \A j \in 1 .. (L - 1) : r[j] \in S BY <1>3, <2>1, SeqElement
    <2> DEFINE M == L - 1
               u == SubSeq(r, 1, M)
    <2>3. 1 \in Int /\ M \in Int /\ t = u /\ \A j \in 1 .. M : r[j] \in S
      <3>1. M \in Int BY <1>1
      <3>2. t = u BY <1>4
      <3>3. \A j \in 1 .. M : r[j] \in S BY <2>2
      <3>4. QED BY <3>1, <3>2, <3>3
    <2> HIDE DEF M
    <2>4. /\ u \in Seq(S) /\ Len(u) = IF 1 <= M THEN M - 1 + 1 ELSE 0
          /\ \A j \in 1 .. M - 1 + 1 : u[j] = r[1 + j - 1]
      BY <2>3, SubSeqProperties
    <2> HIDE DEF u
    <2>5. M - 1 + 1 = L - 1 /\ M = L - 1 /\ \A j \in 1 .. (L - 1) : 1 + j - 1 = j BY <1>1 DEF M
    <2>6. Len(t) = L - 1 BY <1>1, <2>3, <2>4, <2>5
    <2>7. \A j \in 1 .. (L - 1) : t[j] = r[j] BY <2>3, <2>4, <2>5
    <2>8. QED BY <1>3, <2>1, <2>3, <2>4, <2>6, <2>7
  <1>6. ToSet(t) \subseteq ToSet(s)
    <2>1. ToSet(s) = {s[j] : j \in 1 .. L} BY ToSetFacts DEF L
    <2> DEFINE T == {t[j] : j \in 1 .. Len(t)}
    <2>0. ToSet(t) = T BY <1>5, ToSetFacts
    <2>2. ToSet(t) = {t[j] : j \in 1 .. (L - 1)} BY <1>5, <2>0
    <2>3. \A j \in 1 .. (L - 1) : j \in 1 .. L BY <1>1
    <2>4. QED BY <1>1, <1>5, <2>1, <2>2, <2>3
  <1> DEFINE A(x) == Places(s, x)
             B(x) == Places(t, x)
  <1>7. \A x : /\ Copies(s, x) = Cardinality(A(x)) /\ IsFiniteSet(A(x)) /\ Copies(s, x) \in Nat
               /\ Copies(t, x) = Cardinality(B(x))
    BY <1>5, CopiesFacts
  <1>8. \A x, j : /\ j \in A(x) <=> j \in 1 .. L /\ s[j] = x
                  /\ j \in B(x) <=> j \in 1 .. (L - 1) /\ t[j] = x
    BY <1>5 DEF Places, L
  <1>9. \A j : j \in 1 .. L <=> j \in 1 .. (L - 1) \/ j = L BY <1>1
  <1>10. L \notin 1 .. (L - 1) BY <1>1
  <1> HIDE DEF A, B
  <1>11. Copies(t, s[i]) = Copies(s, s[i]) - 1
    <2> DEFINE x == s[i]
               out == IF s[L] = x THEN L ELSE i
    <2>1. out \in A(x) BY <1>1, <1>8
    <2>2. B(x) = A(x) \ {out}
      <3>1. ASSUME NEW j \in B(x) PROVE j \in A(x) /\ j # out
        <4>1. j \in 1 .. (L - 1) /\ t[j] = x BY <1>8, <3>1
        <4>2. j \in 1 .. L /\ j # L BY <1>9, <1>10, <4>1
        <4>3. CASE j = i BY <1>1, <1>5, <1>8, <4>1, <4>2, <4>3
        <4>4. CASE j # i BY <1>5, <1>8, <4>1, <4>2, <4>4
        <4>5. QED BY <4>3, <4>4
      <3>2. ASSUME NEW j \in A(x), j # out PROVE j \in B(x)
        <4>1. j \in 1 .. L /\ s[j] = x BY <1>8, <3>2
        <4>2. j # L BY <3>2, <4>1
        <4>3. j \in 1 .. (L - 1) BY <1>9, <4>1, <4>2
        <4>4. t[j] = x BY <1>5, <3>2, <4>1, <4>3
        <4>5. QED BY <1>8, <4>3, <4>4
      <3>3. QED BY <3>1, <3>2
    <2> HIDE DEF out, x
    <2>3. IsFiniteSet(A(x)) BY <1>7
    <2>4. Cardinality(A(x) \ {out}) = Cardinality(A(x)) - 1 BY <2>1, <2>3, FS_RemoveElement
    <2>5. Copies(t, x) = Copies(s, x) - 1 BY <1>7, <2>2, <2>4
    <2>6. QED BY <2>5 DEF x
  <1>12. ASSUME NEW x, x # s[i] PROVE Copies(t, x) = Copies(s, x)
    <2>1. i \notin A(x) BY <1>8, <1>12
    <2>2. CASE s[L] # x
      <3>1. B(x) = A(x)
        <4>1. ASSUME NEW j \in B(x) PROVE j \in A(x)
          <5>1. j \in 1 .. (L - 1) /\ t[j] = x /\ j \in 1 .. L BY <1>8, <1>9, <4>1
          <5>2. j # i BY <1>5, <2>2, <5>1
          <5>3. QED BY <1>5, <1>8, <5>1, <5>2
        <4>2. ASSUME NEW j \in A(x) PROVE j \in B(x)
          <5>1. j \in 1 .. L /\ s[j] = x /\ j # i BY <1>8, <2>1, <4>2
          <5>2. j \in 1 .. (L - 1) BY <1>9, <2>2, <5>1
          <5>3. QED BY <1>5, <1>8, <5>1, <5>2
        <4>3. QED BY <4>1, <4>2
      <3>2. QED BY <1>7, <3>1
    <2>3. CASE s[L] = x
      <3>1. i # L /\ i \in 1 .. (L - 1) BY <1>1, <1>9, <1>12, <2>3
      <3>2. L \in A(x) BY <1>1, <1>8, <2>3
      <3>3. B(x) = (A(x) \ {L}) \cup {i}
        <4>1. ASSUME NEW j \in B(x) PROVE j \in (A(x) \ {L}) \cup {i}
          <5>1. j \in 1 .. (L - 1) /\ t[j] = x /\ j \in 1 .. L /\ j # L BY <1>8, <1>9, <1>10, <4>1
          <5>2. QED BY <1>5, <1>8, <5>1
        <4>2. ASSUME NEW j \in A(x) \ {L} PROVE j \in B(x)
          <5>1. j \in 1 .. L /\ s[j] = x /\ j # i /\ j # L BY <1>8, <2>1, <4>2
          <5>2. j \in 1 .. (L - 1) BY <1>9, <5>1
          <5>3. QED BY <1>5, <1>8, <5>1, <5>2
        <4>3. i \in B(x) BY <1>5, <1>8, <2>3, <3>1
        <4>4. QED BY <4>1, <4>2, <4>3
      <3>4. IsFiniteSet(A(x)) /\ Cardinality(A(x)) \in Nat BY <1>7
      <3> DEFINE C == A(x) \ {L}
      <3>5. IsFiniteSet(C) /\ Cardinality(C) = Cardinality(A(x)) - 1
        BY <3>2, <3>4, FS_RemoveElement
      <3>6. i \notin C BY <2>1
      <3> HIDE DEF C
      <3>7. Cardinality(C \cup {i}) = Cardinality(C) + 1 BY <3>5, <3>6, FS_AddElement
      <3>8. Cardinality(B(x)) = Cardinality(A(x)) BY <3>3, <3>4, <3>5, <3>7 DEF C
      <3>9. QED BY <1>7, <3>8
    <2>4. QED BY <2>2, <2>3
  <1>13. QED BY <1>5, <1>6, <1>11, <1>12 DEF t

-----------------------------------------------------------------------------
(* The keys of an event.                                                   *)
TagStep(tags, i, s) ==
  IF tags[i].name = "" \/ tags[i].values = <<>> THEN s
  ELSE Append(s, TagKey(tags[i].name, IndexValue(tags[i].values[1])))

\* The tags that are indexed, and their keys.
Indexed(id) ==
  {i \in 1 .. Len(StoredTags(id)) : StoredTags(id)[i].name # "" /\ StoredTags(id)[i].values # <<>>}
TagKeyAt(id, i) == TagKey(StoredTags(id)[i].name, IndexValue(StoredTags(id)[i].values[1]))
TagKeys(id) == {TagKeyAt(id, i) : i \in Indexed(id)}

LEMMA StoredTagsType ==
  ASSUME NEW id \in Ids
  PROVE  StoredTags(id) \in Seq(ToSet(Ev[id].tags)) /\ Len(StoredTags(id)) \in Nat
  <1>1. Ev[id].tags \in Seq(ToSet(Ev[id].tags)) BY EventConstants
  <1>2. StoredTags(id) \in Seq(ToSet(Ev[id].tags)) BY <1>1, EmptySeq DEF StoredTags
  <1>3. QED BY <1>2, LenProperties

LEMMA TagKeysType ==
  ASSUME NEW id \in Ids
  PROVE  process_tags(id) \in Seq(TagKeys(id)) /\ TagKeys(id) \subseteq ToSet(process_tags(id))
  <1> DEFINE tags == StoredTags(id)
  <1> DEFINE N == Len(tags)
             X == Seq(TagKeys(id))
             b == <<>>
             G == [i \in 1 .. N |-> [p \in X |-> TagStep(tags, i, p)]]
             Law(g) == g = [i \in 0 .. N |-> IF i = 0 THEN b ELSE TagStep(tags, i, g[i - 1])]
             u == CHOOSE g : Law(g)
  <1>1. N \in Nat BY StoredTagsType
  <1>2. b \in X BY EmptySeq
  <1>3. ASSUME NEW i \in 1 .. N, NEW p \in X PROVE TagStep(tags, i, p) \in X
    <2>1. CASE tags[i].name = "" \/ tags[i].values = <<>> BY <2>1 DEF TagStep
    <2>2. CASE ~(tags[i].name = "" \/ tags[i].values = <<>>)
      <3>1. TagKeyAt(id, i) \in TagKeys(id) BY <2>2 DEF TagKeys, Indexed
      <3>2. Append(p, TagKeyAt(id, i)) \in Seq(TagKeys(id)) BY <3>1, AppendProperties
      <3>3. QED BY <2>2, <3>2 DEF TagStep, TagKeyAt
    <2>3. QED BY <2>1, <2>2
  <1>4. process_tags(id) = u[N] BY DEF process_tags, TagStep
  <1> DEFINE R == [p \in X |-> ToSet(p)]
             C == [i \in 1 .. N |-> {k \in {TagKeyAt(id, i)} : i \in Indexed(id)}]
  <1>5. ASSUME NEW i \in 1 .. N, NEW p \in X
        PROVE  R[p] \subseteq R[TagStep(tags, i, p)] /\ C[i] \subseteq R[TagStep(tags, i, p)]
    <2> DEFINE t == TagStep(tags, i, p)
    <2>1. t \in X BY <1>3
    <2>2. R[p] = ToSet(p) /\ R[t] = ToSet(t) BY <2>1
    <2>3. C[i] = {k \in {TagKeyAt(id, i)} : i \in Indexed(id)} OBVIOUS
    <2>4. CASE tags[i].name = "" \/ tags[i].values = <<>>
      <3>1. t = p /\ i \notin Indexed(id) BY <2>4 DEF TagStep, Indexed
      <3> HIDE DEF t, R, C
      <3>2. QED BY <2>2, <2>3, <3>1 DEF t
    <2>5. CASE ~(tags[i].name = "" \/ tags[i].values = <<>>)
      <3> DEFINE k == TagKeyAt(id, i)
      <3>1. t = Append(p, k) BY <2>5 DEF TagStep, TagKeyAt
      <3>2. k \in TagKeys(id) BY <2>5 DEF TagKeys, Indexed
      <3> HIDE DEF t, k, R, C
      <3>3. Len(p) \in Nat /\ ToSet(p) = {p[x] : x \in 1 .. Len(p)} BY ToSetFacts, SeqElement
      <3>4. ToSet(t) = {t[x] : x \in 1 .. Len(t)} BY <2>1, ToSetFacts
      <3>5. Len(t) = Len(p) + 1 /\ t[Len(p) + 1] = k /\ \A x \in 1 .. Len(p) : t[x] = p[x]
        BY <3>1, <3>2, AppendProperties
      <3>6. Len(p) + 1 \in 1 .. Len(t) /\ \A x \in 1 .. Len(p) : x \in 1 .. Len(t) BY <3>3, <3>5
      <3>7. ToSet(p) \subseteq ToSet(t) /\ k \in ToSet(t) BY <3>3, <3>4, <3>5, <3>6
      <3>8. QED BY <2>2, <2>3, <3>7 DEF t, k
    <2>6. QED BY <2>4, <2>5
  <1> HIDE DEF N, X, b, tags
  <1>6. G \in [1 .. N -> [X -> X]] BY <1>3
  <1>7. PICK f : Recursion(N, X, b, G, f)
    <2> HIDE DEF G
    <2>1. QED BY <1>1, <1>2, <1>6, RecursionExists
  <1>8. Law(f)
    <2>1. f \in [0 .. N -> X] /\ f[0] = b BY <1>7 DEF Recursion
    <2>2. ASSUME NEW i \in 1 .. N PROVE f[i] = TagStep(tags, i, f[i - 1])
      <3>1. i - 1 \in 0 .. N BY <1>1
      <3>2. f[i - 1] \in X BY <2>1, <3>1
      <3>3. f[i] = G[i][f[i - 1]]
        <4> HIDE DEF G
        <4>1. QED BY <1>7 DEF Recursion
      <3>4. QED BY <3>2, <3>3
    <2>3. \A i \in 0 .. N : f[i] = IF i = 0 THEN b ELSE TagStep(tags, i, f[i - 1])
      BY <1>1, <2>1, <2>2
    <2>4. QED BY <2>1, <2>3
  <1>9. Law(u)
    <2> HIDE DEF Law
    <2>1. QED BY <1>8
  <1> HIDE DEF u
  <1>10. u[0] = b /\ \A i \in 1 .. N : u[i] = TagStep(tags, i, u[i - 1])
    <2>1. \A i \in 0 .. N : u[i] = IF i = 0 THEN b ELSE TagStep(tags, i, u[i - 1]) BY <1>9
    <2>2. QED BY <1>1, <2>1
  <1>11. \A i \in 0 .. N : u[i] \in X
    <2>1. Follows(N, X, b, G, u) BY <1>10 DEF Follows
    <2> HIDE DEF G
    <2>2. QED BY <1>1, <1>2, <1>6, <2>1, RecursionIn
  <1>12. Runs(N, X, b, G, u)
    <2>1. ASSUME NEW i \in 1 .. N PROVE u[i] = G[i][u[i - 1]]
      <3>1. i - 1 \in 0 .. N BY <1>1
      <3>2. QED BY <1>10, <1>11, <3>1
    <2> HIDE DEF G
    <2>2. QED BY <1>10, <1>11, <2>1 DEF Runs
  <1>13. Gathers(N, X, G, R, C)
    <2>1. ASSUME NEW i \in 1 .. N, NEW p \in X PROVE G[i][p] = TagStep(tags, i, p) OBVIOUS
    <2> HIDE DEF G, R, C
    <2>2. QED BY <1>3, <1>5, <2>1 DEF Gathers
  <1>14. ASSUME NEW k \in TagKeys(id) PROVE k \in ToSet(u[N])
    <2>1. PICK i \in Indexed(id) : k = TagKeyAt(id, i) BY DEF TagKeys
    <2>2. i \in 1 .. N BY DEF Indexed, N, tags
    <2>3. k \in C[i] BY <2>1, <2>2
    <2>4. u[N] \in X /\ C[i] \subseteq R[u[N]]
      <3> HIDE DEF G, R, C
      <3>1. QED BY <1>1, <1>2, <1>12, <1>13, <2>2, RunGathers
    <2>5. QED BY <2>3, <2>4
  <1>15. QED BY <1>1, <1>4, <1>11, <1>14 DEF X

LEMMA IndexKeysType == ASSUME NEW id \in Ids PROVE IndexKeys(id) \in Seq(DupKeys)
  <1> DEFINE T == TagKeys(id)
  <1>1. process_tags(id) \in Seq(T) BY TagKeysType
  <1> HIDE DEF T
  <1> DEFINE a == TimeKey(Ev[id].time)
             b == AuthorKey(Ev[id].author)
             k == KindKey(Ev[id].kind)
             m == AuthorKindKey(Ev[id].author, Ev[id].kind)
             S == {a, b, k, m} \cup T
             keys == IndexKeys(id)
  <1>2. keys = <<a, b, k, m>> \o process_tags(id) BY DEF IndexKeys
  <1> HIDE DEF a, b, k, m, keys
  <1>3. <<a, b, k, m>> \in Seq(S) OBVIOUS
  <1>4. process_tags(id) \in Seq(S)
    <2>1. T \subseteq S OBVIOUS
    <2> HIDE DEF S
    <2>2. QED BY <1>1, <2>1, SeqMonotonic
  <1> HIDE DEF S
  <1>5. keys \in Seq(S) BY <1>2, <1>3, <1>4, ConcatProperties
  <1>6. Len(keys) \in Nat /\ keys \in [1 .. Len(keys) -> S] BY <1>5, LenProperties
  <1>7. ToSet(keys) \subseteq DupKeys BY DEF DupKeys, keys
  <1>8. ToSet(keys) = {keys[i] : i \in 1 .. Len(keys)} BY <1>5, ToSetFacts
  <1>9. \A i \in 1 .. Len(keys) : keys[i] \in DupKeys BY <1>7, <1>8
  <1>10. keys \in [1 .. Len(keys) -> DupKeys] BY <1>6, <1>9
  <1>11. keys \in Seq(DupKeys) BY <1>6, <1>10, FunctionSeq
  <1>12. QED BY <1>11 DEF keys

-----------------------------------------------------------------------------
(* Removing the entries of an event.                                       *)
DupMap == [DupKeys -> Seq(Rid)]

\* d2 is d with one entry less of rid under key.
OneLess(d, d2, key, rid) ==
  /\ d2 \in DupMap
  /\ \A k \in DupKeys : k # key => d2[k] = d[k]
  /\ Copies(d2[key], rid) = Copies(d[key], rid) - 1
  /\ \A x : x # rid => Copies(d2[key], x) = Copies(d[key], x)
  /\ ToSet(d2[key]) \subseteq ToSet(d[key])

LEMMA DupDeleteFacts ==
  ASSUME NEW d \in DupMap, NEW key \in DupKeys, NEW rid
  PROVE  /\ rid \in ToSet(d[key]) => OneLess(d, DupDelete(d, key, rid), key, rid)
         /\ DupDelete(d, key, rid) \in DupMap
  <1> DEFINE s == d[key]
             ns == {n \in 1 .. Len(s) : s[n] = rid} \cup {Len(s) + 1}
             i == Min(ns)
             d2 == DupDelete(d, key, rid)
             t == Front([s EXCEPT ![i] = Last(s)])
  <1>1. s \in Seq(Rid) BY DEF DupMap
  <1>2. d2 = IF i > Len(s) THEN d ELSE [d EXCEPT ![key] = t] BY DEF DupDelete
  <1> HIDE DEF d2
  <1>3. Len(s) \in Nat /\ ToSet(s) = {s[n] : n \in 1 .. Len(s)}
    <2> HIDE DEF s
    <2>1. QED BY <1>1, SeqElement, ToSetFacts
  <1>4. i \in ns /\ i \in Nat /\ \A n \in ns : i <= n
    <2>1. ns \subseteq Nat /\ ns # {} BY <1>3
    <2> HIDE DEF ns
    <2>2. QED BY <2>1, MinFacts
  <1>5. CASE i > Len(s)
    <2>1. rid \notin ToSet(s)
      <3>1. ASSUME rid \in ToSet(s) PROVE FALSE
        <4>1. PICK n \in 1 .. Len(s) : s[n] = rid BY <1>3, <3>1
        <4>2. n \in ns BY <4>1
        <4>3. i <= n /\ n <= Len(s) BY <1>4, <4>2
        <4>4. QED BY <1>3, <1>4, <1>5, <4>3
      <3>2. QED BY <3>1
    <2>2. d2 = d BY <1>2, <1>5
    <2>3. rid \notin ToSet(d[key]) BY <2>1
    <2>4. QED BY <2>2, <2>3 DEF d2
  <1>6. CASE ~(i > Len(s))
    <2>1. i \in 1 .. Len(s) /\ s[i] = rid
      <3>1. i # Len(s) + 1 BY <1>3, <1>4, <1>6
      <3>2. i \in {n \in 1 .. Len(s) : s[n] = rid} BY <1>4, <3>1
      <3> HIDE DEF i
      <3>3. QED BY <3>2
    <2>2. d2 = [d EXCEPT ![key] = t] BY <1>2, <1>6
    <2> HIDE DEF s, i
    <2>3. /\ t \in Seq(Rid) /\ ToSet(t) \subseteq ToSet(s) /\ Copies(t, rid) = Copies(s, rid) - 1
          /\ \A x : x # rid => Copies(t, x) = Copies(s, x)
      <3>1. /\ t \in Seq(Rid) /\ ToSet(t) \subseteq ToSet(s) /\ Copies(t, s[i]) = Copies(s, s[i]) - 1
            /\ \A x : x # s[i] => Copies(t, x) = Copies(s, x)
        BY <1>1, <2>1, OneRemoved
      <3> HIDE DEF t
      <3>2. QED BY <2>1, <3>1
    <2> HIDE DEF t
    <2>4. d2 \in DupMap /\ d2[key] = t /\ \A k \in DupKeys : k # key => d2[k] = d[k]
      BY <2>2, <2>3 DEF DupMap
    <2>5. OneLess(d, d2, key, rid) BY <2>3, <2>4 DEF OneLess, s
    <2>6. QED BY <2>4, <2>5 DEF d2
  <1>7. QED BY <1>5, <1>6 DEF d2

\* How often key is still to come after i of the keys.
Left(keys, i, key) == Cardinality({j \in (i + 1) .. Len(keys) : keys[j] = key})

LeftStep(keys, i, key) ==
  /\ Left(keys, i + 1, key) \in Nat
  /\ Left(keys, i, key) = Left(keys, i + 1, key) + IF keys[i + 1] = key THEN 1 ELSE 0

LEMMA LeftFacts ==
  ASSUME NEW keys \in Seq(DupKeys), NEW key
  PROVE  /\ Left(keys, 0, key) = Copies(keys, key) /\ Left(keys, Len(keys), key) = 0
         /\ \A i \in Nat : i + 1 <= Len(keys) => LeftStep(keys, i, key)
  <1> DEFINE N == Len(keys)
             A(i) == {j \in (i + 1) .. N : keys[j] = key}
  <1>1. N \in Nat BY SeqElement
  <1>2. Left(keys, 0, key) = Copies(keys, key)
    <2>1. 0 + 1 = 1 OBVIOUS
    <2>2. QED BY <2>1 DEF Left, Copies
  <1>3. Left(keys, N, key) = 0
    <2>1. A(N) = {} BY <1>1
    <2>2. QED BY <2>1, FS_EmptySet DEF Left
  <1>4. ASSUME NEW i \in Nat, i + 1 <= N PROVE LeftStep(keys, i, key)
    <2> SUFFICES /\ Left(keys, i + 1, key) \in Nat
                 /\ Left(keys, i, key) = Left(keys, i + 1, key) + IF keys[i + 1] = key THEN 1 ELSE 0
      BY DEF LeftStep
    <2>1. Left(keys, i + 1, key) = Cardinality(A(i + 1)) /\ Left(keys, i, key) = Cardinality(A(i))
      BY DEF Left
    <2>2. IsFiniteSet(A(i + 1)) /\ Cardinality(A(i + 1)) \in Nat
      <3>1. IsFiniteSet((i + 1 + 1) .. N) BY <1>1, FS_Interval
      <3>2. A(i + 1) \subseteq (i + 1 + 1) .. N OBVIOUS
      <3> HIDE DEF A
      <3>3. QED BY <3>1, <3>2, FS_Subset, FS_CardinalityType
    <2>3. A(i) = IF keys[i + 1] = key THEN A(i + 1) \cup {i + 1} ELSE A(i + 1)
      <3>1. \A j : j \in (i + 1) .. N <=> j \in (i + 1 + 1) .. N \/ j = i + 1 BY <1>1, <1>4
      <3> DEFINE I == (i + 1) .. N
                 J == (i + 1 + 1) .. N
      <3>2. A(i) = {j \in I : keys[j] = key} /\ A(i + 1) = {j \in J : keys[j] = key} OBVIOUS
      <3>3. I = J \cup {i + 1} BY <3>1
      <3> HIDE DEF A, I, J
      <3>4. QED BY <3>2, <3>3
    <2>4. i + 1 \notin A(i + 1) OBVIOUS
    <2> HIDE DEF A
    <2>5. CASE keys[i + 1] = key
      <3>1. Cardinality(A(i + 1) \cup {i + 1}) = Cardinality(A(i + 1)) + 1
        BY <2>2, <2>4, FS_AddElement
      <3>2. QED BY <2>1, <2>2, <2>3, <2>5, <3>1
    <2>6. CASE keys[i + 1] # key BY <2>1, <2>2, <2>3, <2>6
    <2>7. QED BY <2>5, <2>6
  <1>5. QED BY <1>2, <1>3, <1>4

DropState == [d : DupMap, stop : BOOLEAN]

DropStep(keys, rid, i, p) ==
  IF i > 4 /\ (p.stop \/ rid \notin ToSet(p.d[keys[i]])) THEN [p EXCEPT !.stop = TRUE]
  ELSE [p EXCEPT !.d = DupDelete(@, keys[i], rid)]

\* After i keys no tag was missed, and what is left of the entries of rid is
\* what the other keys call for.
DropOK(d, keys, rid, i, p) ==
  /\ p \in DropState /\ p.stop = FALSE
  /\ \A key \in DupKeys :
       /\ Copies(p.d[key], rid) = Left(keys, i, key)
       /\ \A x : x # rid => Copies(p.d[key], x) = Copies(d[key], x)
       /\ ToSet(p.d[key]) \subseteq ToSet(d[key])

LEMMA DropStepType ==
  ASSUME NEW keys \in Seq(DupKeys), NEW rid, NEW i \in 1 .. Len(keys), NEW p \in DropState
  PROVE  DropStep(keys, rid, i, p) \in DropState
  <1>1. keys[i] \in DupKeys BY SeqElement
  <1>2. p.d \in DupMap BY DEF DropState
  <1>3. DupDelete(p.d, keys[i], rid) \in DupMap BY <1>1, <1>2, DupDeleteFacts
  <1>4. QED BY <1>3 DEF DropStep, DropState

LEMMA DropNext ==
  ASSUME NEW d \in DupMap, NEW keys \in Seq(DupKeys), NEW rid, NEW i \in Nat, i + 1 <= Len(keys),
         NEW p, DropOK(d, keys, rid, i, p)
  PROVE  DropOK(d, keys, rid, i + 1, DropStep(keys, rid, i + 1, p))
  <1> DEFINE k == keys[i + 1]
             p2 == DropStep(keys, rid, i + 1, p)
             e == DupDelete(p.d, k, rid)
  <1>1. Len(keys) \in Nat /\ i + 1 \in 1 .. Len(keys) /\ k \in DupKeys BY SeqElement
  <1>2. p \in DropState /\ p.stop = FALSE /\ p.d \in DupMap BY DEF DropOK, DropState
  <1>3. \A key \in DupKeys :
          /\ Left(keys, i + 1, key) \in Nat
          /\ Left(keys, i, key) = Left(keys, i + 1, key) + IF k = key THEN 1 ELSE 0
    <2> SUFFICES ASSUME NEW key \in DupKeys
                 PROVE  /\ Left(keys, i + 1, key) \in Nat
                        /\ Left(keys, i, key) = Left(keys, i + 1, key) + IF k = key THEN 1 ELSE 0
      OBVIOUS
    <2>1. LeftStep(keys, i, key) BY LeftFacts
    <2>2. QED BY <2>1 DEF LeftStep
  <1>4. rid \in ToSet(p.d[k])
    <2>1. Copies(p.d[k], rid) = Left(keys, i, k) BY <1>1 DEF DropOK
    <2>2. Left(keys, i, k) # 0 BY <1>1, <1>3
    <2>3. p.d[k] \in Seq(Rid) BY <1>1, <1>2 DEF DupMap
    <2>4. Copies(p.d[k], rid) = 0 <=> rid \notin ToSet(p.d[k]) BY <2>3, CopiesFacts
    <2>5. QED BY <2>1, <2>2, <2>4
  <1>5. p2 = [p EXCEPT !.d = e] BY <1>2, <1>4 DEF DropStep
  <1>6. OneLess(p.d, e, k, rid) BY <1>1, <1>2, <1>4, DupDeleteFacts
  <1> HIDE DEF e, p2
  <1>7. p2.d = e /\ p2.stop = FALSE /\ p2 \in DropState
    BY <1>2, <1>5, <1>6 DEF OneLess, DropState
  <1>8. ASSUME NEW key \in DupKeys
        PROVE  /\ Copies(e[key], rid) = Left(keys, i + 1, key)
               /\ \A x : x # rid => Copies(e[key], x) = Copies(d[key], x)
               /\ ToSet(e[key]) \subseteq ToSet(d[key])
    <2>1. /\ Copies(p.d[key], rid) = Left(keys, i, key)
          /\ \A x : x # rid => Copies(p.d[key], x) = Copies(d[key], x)
          /\ ToSet(p.d[key]) \subseteq ToSet(d[key])
      BY DEF DropOK
    <2>2. /\ Left(keys, i + 1, key) \in Nat
          /\ Left(keys, i, key) = Left(keys, i + 1, key) + IF k = key THEN 1 ELSE 0
      BY <1>3
    <2> HIDE DEF k
    <2>3. CASE key = k
      <3>1. /\ Copies(e[k], rid) = Copies(p.d[k], rid) - 1
            /\ \A x : x # rid => Copies(e[k], x) = Copies(p.d[k], x)
            /\ ToSet(e[k]) \subseteq ToSet(p.d[k])
        BY <1>6 DEF OneLess
      <3>2. Left(keys, i, key) = Left(keys, i + 1, key) + 1 BY <2>2, <2>3
      <3>3. Copies(e[key], rid) = Left(keys, i + 1, key) BY <2>1, <2>2, <2>3, <3>1, <3>2
      <3>4. \A x : x # rid => Copies(e[key], x) = Copies(d[key], x) BY <2>1, <2>3, <3>1
      <3>5. QED BY <2>1, <2>3, <3>1, <3>3, <3>4
    <2>4. CASE key # k
      <3>1. e[key] = p.d[key] BY <1>6, <2>4 DEF OneLess
      <3>2. Left(keys, i, key) = Left(keys, i + 1, key) BY <2>2, <2>4
      <3>3. QED BY <2>1, <3>1, <3>2
    <2>5. QED BY <2>3, <2>4
  <1>9. QED BY <1>7, <1>8 DEF DropOK, p2

\* index_manager_delete_event removes exactly the entries of the record, when
\* all of them are there.
\* The states of a deletion, one after each key.
DropRun(d, id, rid, u) ==
  /\ u[0] = [d |-> d, stop |-> FALSE]
  /\ \A i \in 1 .. Len(IndexKeys(id)) : u[i] = DropStep(IndexKeys(id), rid, i, u[i - 1])
  /\ \A i \in 0 .. Len(IndexKeys(id)) : u[i] \in DropState
  /\ index_manager_delete_event(d, id, rid) = u[Len(IndexKeys(id))].d

LEMMA DropSteps ==
  ASSUME NEW d \in DupMap, NEW id \in Ids, NEW rid
  PROVE  \E u : DropRun(d, id, rid, u)
  <1> DEFINE keys == IndexKeys(id)
  <1>0. keys \in Seq(DupKeys) BY IndexKeysType
  <1> DEFINE N == Len(keys)
             X == DropState
             b == [d |-> d, stop |-> FALSE]
             G == [i \in 1 .. N |-> [p \in X |-> DropStep(keys, rid, i, p)]]
             Law(g) == g = [i \in 0 .. N |-> IF i = 0 THEN b ELSE DropStep(keys, rid, i, g[i - 1])]
             u == CHOOSE g : Law(g)
  <1>1. N \in Nat BY <1>0, SeqElement
  <1>2. b \in X BY DEF DropState
  <1>3. ASSUME NEW i \in 1 .. N, NEW p \in X PROVE DropStep(keys, rid, i, p) \in X
    <2> HIDE DEF keys
    <2>1. QED BY <1>0, DropStepType
  <1>4. index_manager_delete_event(d, id, rid) = u[N].d BY DEF index_manager_delete_event, DropStep
  <1> HIDE DEF N, X, b, keys
  <1>5. G \in [1 .. N -> [X -> X]] BY <1>3
  <1>6. PICK f : Recursion(N, X, b, G, f)
    <2> HIDE DEF G
    <2>1. QED BY <1>1, <1>2, <1>5, RecursionExists
  <1>7. Law(f)
    <2>1. f \in [0 .. N -> X] /\ f[0] = b BY <1>6 DEF Recursion
    <2>2. ASSUME NEW i \in 1 .. N PROVE f[i] = DropStep(keys, rid, i, f[i - 1])
      <3>1. i - 1 \in 0 .. N BY <1>1
      <3>2. f[i - 1] \in X BY <2>1, <3>1
      <3>3. f[i] = G[i][f[i - 1]]
        <4> HIDE DEF G
        <4>1. QED BY <1>6 DEF Recursion
      <3>4. QED BY <3>2, <3>3
    <2>3. \A i \in 0 .. N : f[i] = IF i = 0 THEN b ELSE DropStep(keys, rid, i, f[i - 1])
      BY <1>1, <2>1, <2>2
    <2>4. QED BY <2>1, <2>3
  <1>8. Law(u)
    <2> HIDE DEF Law
    <2>1. QED BY <1>7
  <1> HIDE DEF u
  <1>9. u[0] = b /\ \A i \in 1 .. N : u[i] = DropStep(keys, rid, i, u[i - 1])
    <2>1. \A i \in 0 .. N : u[i] = IF i = 0 THEN b ELSE DropStep(keys, rid, i, u[i - 1]) BY <1>8
    <2>2. QED BY <1>1, <2>1
  <1>10. \A i \in 0 .. N : u[i] \in X
    <2>1. Follows(N, X, b, G, u) BY <1>9 DEF Follows
    <2> HIDE DEF G
    <2>2. QED BY <1>1, <1>2, <1>5, <2>1, RecursionIn
  <1>11. DropRun(d, id, rid, u) BY <1>4, <1>9, <1>10 DEF DropRun, N, X, b, keys
  <1>12. QED BY <1>11

\* Whatever entries there are, what is left are entries.
LEMMA DropType ==
  ASSUME NEW d \in DupMap, NEW id \in Ids, NEW rid
  PROVE  index_manager_delete_event(d, id, rid) \in DupMap
  <1>1. PICK u : DropRun(d, id, rid, u) BY DropSteps
  <1>2. Len(IndexKeys(id)) \in Nat BY IndexKeysType, SeqElement
  <1> DEFINE n == Len(IndexKeys(id))
  <1>3. n \in 0 .. n BY <1>2
  <1>4. u[n] \in DropState /\ index_manager_delete_event(d, id, rid) = u[n].d BY <1>1, <1>3 DEF DropRun
  <1>5. QED BY <1>4 DEF DropState

LEMMA DropAll ==
  ASSUME NEW d \in DupMap, NEW id \in Ids, NEW rid,
         \A key \in DupKeys : Copies(d[key], rid) = Copies(IndexKeys(id), key)
  PROVE  LET e == index_manager_delete_event(d, id, rid)
         IN  /\ e \in DupMap
             /\ \A key \in DupKeys :
                  /\ Copies(e[key], rid) = 0
                  /\ \A x : x # rid => Copies(e[key], x) = Copies(d[key], x)
                  /\ ToSet(e[key]) \subseteq ToSet(d[key])
  <1> DEFINE keys == IndexKeys(id)
             N == Len(keys)
             b == [d |-> d, stop |-> FALSE]
  <1>1. keys \in Seq(DupKeys) BY IndexKeysType
  <1>2. N \in Nat BY <1>1, SeqElement
  <1>3. b \in DropState BY DEF DropState
  <1>4. DropOK(d, keys, rid, 0, b)
    <2>1. b.d = d /\ b.stop = FALSE OBVIOUS
    <2>2. \A key \in DupKeys : Left(keys, 0, key) = Copies(keys, key) BY <1>1, LeftFacts
    <2>3. \A key \in DupKeys : Copies(d[key], rid) = Copies(keys, key) OBVIOUS
    <2> HIDE DEF keys, b
    <2>4. QED BY <1>3, <2>1, <2>2, <2>3 DEF DropOK
  <1>5. PICK u : DropRun(d, id, rid, u) BY DropSteps
  <1>10. index_manager_delete_event(d, id, rid) = u[N].d BY <1>5 DEF DropRun
  <1>11. u[0] = b /\ \A i \in 1 .. N : u[i] = DropStep(keys, rid, i, u[i - 1]) BY <1>5 DEF DropRun
  <1> DEFINE P == {i \in Nat : i <= N => DropOK(d, keys, rid, i, u[i])}
  <1>12. 0 \in P BY <1>4, <1>11
  <1>13. ASSUME NEW i \in Nat, i \in P PROVE i + 1 \in P
    <2> SUFFICES ASSUME i + 1 <= N PROVE DropOK(d, keys, rid, i + 1, u[i + 1]) OBVIOUS
    <2>1. DropOK(d, keys, rid, i, u[i]) BY <1>2, <1>13
    <2>2. u[i + 1] = DropStep(keys, rid, i + 1, u[i])
      <3>1. i + 1 \in 1 .. N /\ (i + 1) - 1 = i BY <1>2
      <3>2. QED BY <1>11, <3>1
    <2> HIDE DEF keys
    <2>3. DropOK(d, keys, rid, i + 1, DropStep(keys, rid, i + 1, u[i])) BY <1>1, <2>1, DropNext
    <2>4. QED BY <2>2, <2>3
  <1>14. Nat \subseteq P
    <2> HIDE DEF P
    <2>1. QED BY <1>12, <1>13, SetInduction
  <1>15. DropOK(d, keys, rid, N, u[N]) BY <1>2, <1>14
  <1>16. \A key \in DupKeys : Left(keys, N, key) = 0 BY <1>1, LeftFacts
  <1> DEFINE e == u[N].d
  <1>17. e \in DupMap BY <1>15 DEF DropOK, DropState
  <1>18. \A key \in DupKeys :
           /\ Copies(e[key], rid) = 0
           /\ \A x : x # rid => Copies(e[key], x) = Copies(d[key], x)
           /\ ToSet(e[key]) \subseteq ToSet(d[key])
    <2> HIDE DEF N, keys
    <2>1. QED BY <1>15, <1>16 DEF DropOK
  <1> HIDE DEF e
  <1>19. index_manager_delete_event(d, id, rid) = e BY <1>10 DEF e
  <1>20. QED BY <1>17, <1>18, <1>19

-----------------------------------------------------------------------------
(* The invariant of the indexes: until an operation stops half-way, a      *)
(* record has an entry under a key exactly as often as its live event has  *)
(* the key, no entry names anything else, and the counters agree.          *)
IndexEntries(d, h, st) ==
  /\ d \in DupMap
  /\ \A key \in DupKeys, id \in Ids :
       h[id] # NoRid => Copies(d[key], h[id]) = IF st[id] = "live" THEN Copies(IndexKeys(id), key) ELSE 0
  /\ \A key \in DupKeys : ToSet(d[key]) \subseteq {h[id] : id \in Ids}

With(st, S) == {id \in Ids : st[id] \in S}
Number(st, S) == Cardinality(With(st, S))

IndexInv ==
  ~broken => /\ IndexEntries(dup, home, status)
             /\ event_count = Number(status, {"live", "deleted"})
             /\ deleted_count = Number(status, {"deleted"})

LEMMA NumberGrows ==
  ASSUME NEW st, NEW st2, NEW S, NEW id, id \notin With(st, S), With(st2, S) = With(st, S) \cup {id}
  PROVE  Number(st2, S) = Number(st, S) + 1
  <1>1. IsFiniteSet(With(st, S)) BY EventConstants, FS_Subset DEF With
  <1>2. QED BY <1>1, FS_AddElement DEF Number

LEMMA EntriesAdded ==
  ASSUME NEW d, NEW h \in [Ids -> Rid \cup {NoRid}], NEW st, DOMAIN st = Ids, IndexEntries(d, h, st),
         NEW id \in Ids, NEW rid \in Rid, h[id] = NoRid, \A o \in Ids : h[o] # rid
  PROVE  IndexEntries(DupInsert(d, IndexKeys(id), rid), [h EXCEPT ![id] = rid], [st EXCEPT ![id] = "live"])
  <1> DEFINE e == DupInsert(d, IndexKeys(id), rid)
             h2 == [h EXCEPT ![id] = rid]
             st2 == [st EXCEPT ![id] = "live"]
  <1>1. d \in DupMap /\ IndexKeys(id) \in Seq(DupKeys) BY IndexKeysType DEF IndexEntries
  <1>2. /\ \A o \in Ids : h2[o] = IF o = id THEN rid ELSE h[o]
        /\ \A o \in Ids : st2[o] = IF o = id THEN "live" ELSE st[o]
    OBVIOUS
  <1> HIDE DEF h2, st2
  <1>3. e = [key \in DupKeys |-> d[key] \o [n \in 1 .. Copies(IndexKeys(id), key) |-> rid]]
    BY DEF DupInsert
  <1>4. ASSUME NEW key \in DupKeys
        PROVE  /\ e[key] \in Seq(Rid) /\ ToSet(e[key]) \subseteq ToSet(d[key]) \cup {rid}
               /\ \A x : Copies(e[key], x)
                           = Copies(d[key], x) + IF x = rid THEN Copies(IndexKeys(id), key) ELSE 0
    <2> DEFINE n == Copies(IndexKeys(id), key)
               s == d[key]
    <2>1. n \in Nat BY <1>1, CopiesFacts
    <2>2. s \in Seq(Rid) BY <1>1 DEF DupMap
    <2>3. e[key] = s \o [k \in 1 .. n |-> rid] BY <1>3
    <2> HIDE DEF n, s, e
    <2> DEFINE t == s \o [k \in 1 .. n |-> rid]
    <2>4. Grown(s, t, rid, n) BY <2>1, <2>2, CopiesAdded
    <2> HIDE DEF t
    <2>5. e[key] = t BY <2>3 DEF t
    <2>6. QED BY <2>4, <2>5 DEF Grown, n, s
  <1>5. e \in DupMap
    <2>1. \A key \in DupKeys : e[key] \in Seq(Rid) BY <1>4
    <2>2. e = [key \in DupKeys |-> e[key]] BY <1>3
    <2> HIDE DEF e
    <2>3. QED BY <2>1, <2>2 DEF DupMap
  <1> HIDE DEF e
  <1>6. ASSUME NEW key \in DupKeys
        PROVE  /\ ToSet(d[key]) \subseteq {h[o] : o \in Ids} /\ ToSet(d[key]) \subseteq Rid
               /\ \A x : Copies(d[key], x) \in Nat /\ (Copies(d[key], x) = 0 <=> x \notin ToSet(d[key]))
    <2>1. d[key] \in Seq(Rid) BY <1>1 DEF DupMap
    <2>2. ToSet(d[key]) = {d[key][i] : i \in 1 .. Len(d[key])} BY <2>1, ToSetFacts
    <2>3. \A i \in 1 .. Len(d[key]) : d[key][i] \in Rid BY <2>1, SeqElement
    <2>4. \A x : Copies(d[key], x) \in Nat /\ (Copies(d[key], x) = 0 <=> x \notin ToSet(d[key]))
      BY <2>1, CopiesFacts
    <2>5. ToSet(d[key]) \subseteq {h[o] : o \in Ids} BY DEF IndexEntries
    <2>6. ToSet(d[key]) \subseteq Rid BY <2>2, <2>3
    <2>7. QED BY <2>4, <2>5, <2>6
  <1>7. ASSUME NEW key \in DupKeys, NEW o \in Ids, h2[o] # NoRid
        PROVE  Copies(e[key], h2[o]) = IF st2[o] = "live" THEN Copies(IndexKeys(o), key) ELSE 0
    <2>1. CASE o = id
      <3>1. h2[o] = rid /\ st2[o] = "live" BY <1>2, <2>1
      <3>2. Copies(d[key], rid) = 0 BY <1>6
      <3>3. Copies(e[key], rid) = Copies(d[key], rid) + Copies(IndexKeys(id), key) BY <1>4
      <3>4. Copies(IndexKeys(id), key) \in Nat BY <1>1, CopiesFacts
      <3>5. QED BY <2>1, <3>1, <3>2, <3>3, <3>4
    <2>2. CASE o # id
      <3>1. h2[o] = h[o] /\ st2[o] = st[o] /\ h[o] # rid /\ h[o] # NoRid BY <1>2, <1>7, <2>2
      <3>2. Copies(e[key], h[o]) = Copies(d[key], h[o]) + 0 /\ Copies(d[key], h[o]) \in Nat
        BY <1>4, <1>6, <3>1
      <3>3. Copies(d[key], h[o]) = IF st[o] = "live" THEN Copies(IndexKeys(o), key) ELSE 0
        BY <3>1 DEF IndexEntries
      <3>4. Copies(e[key], h[o]) = Copies(d[key], h[o]) BY <3>2
      <3>5. QED BY <3>1, <3>3, <3>4
    <2>3. QED BY <2>1, <2>2
  <1>8. ASSUME NEW key \in DupKeys PROVE ToSet(e[key]) \subseteq {h2[o] : o \in Ids}
    <2> SUFFICES ASSUME NEW x \in ToSet(e[key]) PROVE \E o \in Ids : x = h2[o] OBVIOUS
    <2>1. x \in ToSet(d[key]) \/ x = rid BY <1>4
    <2>2. CASE x = rid BY <1>2, <2>2
    <2>3. CASE x \in ToSet(d[key])
      <3>1. PICK o \in Ids : x = h[o] BY <1>6, <2>3
      <3>2. x \in Rid BY <1>6, <2>3
      <3>3. o # id BY <3>1, <3>2, RidFacts
      <3>4. QED BY <1>2, <3>1, <3>3
    <2>4. QED BY <2>1, <2>2, <2>3
  <1>9. IndexEntries(e, h2, st2) BY <1>5, <1>7, <1>8 DEF IndexEntries
  <1>10. QED BY <1>9 DEF e, h2, st2

LEMMA EntriesDropped ==
  ASSUME NEW d, NEW h, NEW st, DOMAIN st = Ids, IndexEntries(d, h, st),
         NEW id \in Ids, h[id] # NoRid, st[id] = "live", \A o \in Ids : o # id => h[o] # h[id]
  PROVE  IndexEntries(index_manager_delete_event(d, id, h[id]), h, [st EXCEPT ![id] = "deleted"])
  <1> DEFINE rid == h[id]
             e == index_manager_delete_event(d, id, rid)
             st2 == [st EXCEPT ![id] = "deleted"]
  <1>1. d \in DupMap /\ \A key \in DupKeys : Copies(d[key], rid) = Copies(IndexKeys(id), key)
    BY DEF IndexEntries
  <1>2. \A o \in Ids : st2[o] = IF o = id THEN "deleted" ELSE st[o] OBVIOUS
  <1> HIDE DEF st2
  <1>3. /\ e \in DupMap
        /\ \A key \in DupKeys :
             /\ Copies(e[key], rid) = 0
             /\ \A x : x # rid => Copies(e[key], x) = Copies(d[key], x)
             /\ ToSet(e[key]) \subseteq ToSet(d[key])
    <2> HIDE DEF rid
    <2>1. QED BY <1>1, DropAll
  <1> HIDE DEF e
  <1>4. ASSUME NEW key \in DupKeys, NEW o \in Ids, h[o] # NoRid
        PROVE  Copies(e[key], h[o]) = IF st2[o] = "live" THEN Copies(IndexKeys(o), key) ELSE 0
    <2>1. CASE o = id
      <3>1. st2[o] = "deleted" BY <1>2, <2>1
      <3>2. Copies(e[key], h[o]) = 0 BY <1>3, <2>1
      <3>3. QED BY <3>1, <3>2
    <2>2. CASE o # id
      <3>1. h[o] # rid BY <2>2
      <3>2. Copies(e[key], h[o]) = Copies(d[key], h[o])
        <4> HIDE DEF rid
        <4>1. QED BY <1>3, <3>1
      <3>3. Copies(d[key], h[o]) = IF st[o] = "live" THEN Copies(IndexKeys(o), key) ELSE 0
        BY <1>4 DEF IndexEntries
      <3>4. st2[o] = st[o] BY <1>2, <2>2
      <3>5. QED BY <3>2, <3>3, <3>4
    <2>3. QED BY <2>1, <2>2
  <1>5. \A key \in DupKeys : ToSet(e[key]) \subseteq {h[o] : o \in Ids}
    <2>1. \A key \in DupKeys : ToSet(d[key]) \subseteq {h[o] : o \in Ids} BY DEF IndexEntries
    <2>2. QED BY <1>3, <2>1
  <1>6. IndexEntries(e, h, st2) BY <1>3, <1>4, <1>5 DEF IndexEntries
  <1>7. QED BY <1>6 DEF e, rid, st2

\* Two events are never at the same place.
LEMMA HomesDiffer ==
  ASSUME NEW pg, NEW h, NEW c, NEW q, Held(pg, h, c, q), NEW a \in Ids, h[a] # NoRid,
         NEW b \in Ids, b # a
  PROVE  h[a] # h[b]
  <1>1. DOMAIN h = Ids BY DEF Held
  <1>2. QED BY <1>1 DEF Held, Owned

\* The invariant in the next state, from its parts.
LEMMA IndexNow ==
  ASSUME IndexEntries(dup', home', status'), event_count' = Number(status', {"live", "deleted"}),
         deleted_count' = Number(status', {"deleted"})
  PROVE  IndexInv'
  BY DEF IndexInv, IndexEntries, DupMap, DupKeys, Number, With

\* An insertion that fails at the id index makes no entry.
LEMMA NoEntries ==
  ASSUME NEW d \in DupMap, NEW id \in Ids, NEW rid
  PROVE  DupInsert(d, SubSeq(IndexKeys(id), 1, 0 - 1), rid) = d
  <1> DEFINE keys == SubSeq(IndexKeys(id), 1, 0 - 1)
             z == [n \in 1 .. 0 |-> rid]
  <1>1. keys = <<>>
    <2>1. IndexKeys(id) \in Seq(DupKeys) BY IndexKeysType
    <2> DEFINE s == IndexKeys(id)
    <2> HIDE DEF s
    <2>2. 1 \in Int /\ 0 - 1 \in Int /\ 1 > 0 - 1 OBVIOUS
    <2>3. SubSeq(s, 1, 0 - 1) = <<>> BY <2>2, SubSeqEmpty
    <2>4. QED BY <2>3 DEF s
  <1> HIDE DEF keys
  <1>2. \A key \in DupKeys : Copies(keys, key) = 0
    <2>1. <<>> \in Seq(DupKeys) /\ Len(<<>>) = 0 BY EmptySeq
    <2>2. ToSet(<<>>) = {}
      <3>1. ToSet(<<>>) = {<<>>[i] : i \in 1 .. Len(<<>>)} BY <2>1, ToSetFacts
      <3>2. QED BY <2>1, <3>1
    <2>3. QED BY <1>1, <2>1, <2>2, CopiesFacts
  <1>3. z = <<>>
    <2>1. z \in [1 .. 0 -> {rid}] OBVIOUS
    <2> HIDE DEF z
    <2>2. z \in Seq({rid}) /\ Len(z) = 0 BY <2>1, FunctionSeq
    <2>3. QED BY <2>2, EmptySeq
  <1>4. DupInsert(d, keys, rid) = [key \in DupKeys |-> d[key] \o z]
    BY <1>2 DEF DupInsert
  <1>5. \A key \in DupKeys : d[key] \o z = d[key] BY <1>3, ConcatEmptySeq DEF DupMap
  <1> HIDE DEF z
  <1>6. [key \in DupKeys |-> d[key] \o z] = d BY <1>5 DEF DupMap
  <1>7. QED BY <1>4, <1>6 DEF keys

LEMMA StatusDomain == ASSUME StoreInv PROVE DOMAIN status = Ids
  BY DEF StoreInv, StatusOf

LEMMA SameIndexes ==
  ASSUME IndexInv, ~broken, UNCHANGED <<dup, home, status, event_count, deleted_count>>
  PROVE  IndexInv'
  <1>1. /\ IndexEntries(dup', home', status') /\ event_count' = Number(status', {"live", "deleted"})
        /\ deleted_count' = Number(status', {"deleted"})
    BY DEF IndexInv
  <1>2. QED BY <1>1, IndexNow

LEMMA IndexNextInv == IndexInv /\ StoreInv /\ StoreInv' /\ [StoreNext]_storeVars => IndexInv'
  <1> SUFFICES ASSUME IndexInv, StoreInv, StoreInv', [StoreNext]_storeVars, ~broken' PROVE IndexInv'
    BY DEF IndexInv
  <1>1. CASE UNCHANGED storeVars BY <1>1, SameIndexes DEF storeVars
  <1>2. ASSUME NEW id \in Ids, Refused(id) PROVE IndexInv'
    BY <1>2, SameIndexes DEF Refused, storeVars
  <1>3. ASSUME NEW id \in Ids, WriteFull(id) PROVE IndexInv'
    <2>1. ~broken /\ status' = status BY <1>3, WriteFullSaid DEF SaysTheSame
    <2>2. QED BY <1>3, <2>1, SameIndexes DEF WriteFull
  <1>4. ASSUME NEW id \in Ids, WriteFails(id) PROVE IndexInv'
    <2>1. ~broken /\ status' = status BY <1>4, WriteFailsSaid DEF SaysTheSame
    <2>2. PICK c, q : Held(pages, home, c, q) BY DEF StoreInv, RecordsHeld
    <2>3. UndoneAt(c, id) BY <1>4, <2>2, WriteFailsStep
    <2>4. PICK rid : dup' = DupInsert(dup, SubSeq(IndexKeys(id), 1, 0 - 1), rid)
      BY <2>3 DEF UndoneAt
    <2>5. dup \in DupMap BY <2>1 DEF IndexInv, IndexEntries
    <2>6. dup' = dup BY <2>4, <2>5, NoEntries
    <2>7. QED BY <1>4, <2>1, <2>6, SameIndexes DEF WriteFails
  <1>5. ASSUME NEW id \in Ids, Written(id) PROVE IndexInv'
    <2>1. Becomes(id, "absent", "live") BY <1>5, WrittenSaid
    <2>2. ~broken /\ status[id] = "absent" /\ status' = [status EXCEPT ![id] = "live"]
      BY <2>1 DEF Becomes
    <2>3. PICK c, q : Held(pages, home, c, q) BY DEF StoreInv, RecordsHeld
    <2>4. PICK rid : WrittenTo(c, id, rid) BY <1>5, <2>3, WrittenStep
    <2>5. /\ rid \in Rid /\ home[id] = NoRid /\ home' = [home EXCEPT ![id] = rid]
          /\ dup' = DupInsert(dup, IndexKeys(id), rid)
      BY <2>4 DEF WrittenTo
    <2>6. PICK q2 : Held(pages', home', [c EXCEPT ![id] = FALSE], q2) BY <2>4 DEF WrittenTo
    <2>7. home \in [Ids -> Rid \cup {NoRid}] BY <2>3 DEF Held
    <2>8. rid # NoRid BY <2>5, RidFacts
    <2>9. ASSUME NEW o \in Ids PROVE home[o] # rid
      <3>1. CASE o = id BY <2>5, <2>8, <3>1
      <3>2. CASE o # id
        <4>1. home'[id] = rid /\ home'[o] = home[o] BY <2>5, <2>7, <3>2
        <4>2. home'[id] # home'[o] BY <2>6, <2>7, <2>8, <3>2, <4>1, HomesDiffer
        <4>3. QED BY <4>1, <4>2
      <3>3. QED BY <3>1, <3>2
    <2>10. DOMAIN status = Ids BY StatusDomain
    <2>11. IndexEntries(dup', home', status')
      <3>1. IndexEntries(dup, home, status) BY <2>2 DEF IndexInv
      <3>2. QED BY <2>2, <2>5, <2>7, <2>9, <2>10, <3>1, EntriesAdded
    <2>12. event_count' = Number(status', {"live", "deleted"})
      <3> DEFINE S == {"live", "deleted"}
      <3>1. id \notin With(status, S) /\ With(status', S) = With(status, S) \cup {id}
        BY <2>2, <2>10 DEF With
      <3> HIDE DEF S
      <3>2. Number(status', S) = Number(status, S) + 1 BY <3>1, NumberGrows
      <3>3. QED BY <1>5, <2>2, <3>2 DEF Written, IndexInv, S
    <2>13. deleted_count' = Number(status', {"deleted"})
      <3>1. With(status', {"deleted"}) = With(status, {"deleted"}) BY <2>2, <2>10 DEF With
      <3>2. QED BY <1>5, <2>2, <3>1 DEF Written, IndexInv, Number
    <2>14. QED BY <2>11, <2>12, <2>13, IndexNow
  <1>6. ASSUME NEW id \in Ids, Deleted(id) PROVE IndexInv'
    <2>1. /\ Becomes(id, "live", "deleted") /\ home' = home /\ home[id] \in Rid
          /\ dup' = index_manager_delete_event(dup, id, home[id])
      BY <1>6, DeletedSaid
    <2>2. ~broken /\ status[id] = "live" /\ status' = [status EXCEPT ![id] = "deleted"]
      BY <2>1 DEF Becomes
    <2>3. PICK c, q : Held(pages, home, c, q) BY DEF StoreInv, RecordsHeld
    <2>4. home[id] # NoRid BY <2>1, RidFacts
    <2>5. \A o \in Ids : o # id => home[o] # home[id] BY <2>3, <2>4, HomesDiffer
    <2>6. DOMAIN status = Ids BY StatusDomain
    <2>7. IndexEntries(dup', home', status')
      <3>1. IndexEntries(dup, home, status) BY <2>2 DEF IndexInv
      <3>2. QED BY <2>1, <2>2, <2>4, <2>5, <2>6, <3>1, EntriesDropped
    <2>8. event_count' = Number(status', {"live", "deleted"})
      <3>1. With(status', {"live", "deleted"}) = With(status, {"live", "deleted"})
        BY <2>2, <2>6 DEF With
      <3>2. QED BY <1>6, <2>2, <3>1 DEF Deleted, IndexInv, Number
    <2>9. deleted_count' = Number(status', {"deleted"})
      <3> DEFINE S == {"deleted"}
      <3>1. id \notin With(status, S) /\ With(status', S) = With(status, S) \cup {id}
        BY <2>2, <2>6 DEF With
      <3> HIDE DEF S
      <3>2. Number(status', S) = Number(status, S) + 1 BY <3>1, NumberGrows
      <3>3. QED BY <1>6, <2>2, <3>2 DEF Deleted, IndexInv, S
    <2>10. QED BY <2>7, <2>8, <2>9, IndexNow
  <1>7. QED BY <1>1, <1>2, <1>3, <1>4, <1>5, <1>6 DEF StoreNext

LEMMA IndexInitInv == StoreInit => IndexInv
  <1> SUFFICES ASSUME StoreInit PROVE IndexInv OBVIOUS
  <1>1. /\ dup = [key \in DupKeys |-> <<>>] /\ home = [id \in Ids |-> NoRid]
        /\ status = [id \in Ids |-> "absent"] /\ event_count = 0 /\ deleted_count = 0
    BY DEF StoreInit
  <1>2. <<>> \in Seq(Rid) /\ ToSet(<<>>) = {}
    <2>1. <<>> \in Seq(Rid) /\ Len(<<>>) = 0 BY EmptySeq
    <2>2. ToSet(<<>>) = {<<>>[i] : i \in 1 .. Len(<<>>)} BY <2>1, ToSetFacts
    <2>3. QED BY <2>1, <2>2
  <1>3. IndexEntries(dup, home, status)
    <2>1. dup \in DupMap BY <1>1, <1>2 DEF DupMap
    <2>2. \A id \in Ids : home[id] = NoRid BY <1>1
    <2>3. \A key \in DupKeys : ToSet(dup[key]) = {} BY <1>1, <1>2
    <2>4. QED BY <2>1, <2>2, <2>3 DEF IndexEntries
  <1>4. Number(status, {"live", "deleted"}) = 0 /\ Number(status, {"deleted"}) = 0
    <2>1. With(status, {"live", "deleted"}) = {} /\ With(status, {"deleted"}) = {} BY <1>1 DEF With
    <2>2. QED BY <2>1, FS_EmptySet DEF Number
  <1>5. QED BY <1>1, <1>3, <1>4 DEF IndexInv

\* Until an operation has stopped half-way, the six indexes say what the
\* records say (index_manager_insert_event, index_manager_delete_event): the
\* id index finds every event where its record is, a record is found under a
\* key of another index exactly as often as its live event has the key, a
\* deleted event under none, no entry dangles, and event_count and
\* deleted_count count the events.
THEOREM IndexesTheorem == StoreSpec => []IndexesAgree
  <1>1. StoreInit => IndexInv BY IndexInitInv
  <1>2. IndexInv /\ StoreInv /\ StoreInv' /\ [StoreNext]_storeVars => IndexInv' BY IndexNextInv
  <1>3. IndexInv /\ StoreInv => IndexesAgree
    <2> SUFFICES ASSUME IndexInv, StoreInv, ~broken
                 PROVE  /\ idIndex = home
                        /\ \A key \in DupKeys, id \in Ids :
                             home[id] # NoRid =>
                               Copies(dup[key], home[id])
                                 = IF status[id] = "live" THEN Copies(IndexKeys(id), key) ELSE 0
                        /\ \A key \in DupKeys : ToSet(dup[key]) \subseteq {home[id] : id \in Ids}
                        /\ event_count = Cardinality({id \in Ids : status[id] \in {"live", "deleted"}})
                        /\ deleted_count = Cardinality({id \in Ids : status[id] = "deleted"})
      BY DEF IndexesAgree
    <2>1. idIndex = home BY DEF StoreInv
    <2>2. IndexEntries(dup, home, status) BY DEF IndexInv
    <2>3. event_count = Cardinality({id \in Ids : status[id] \in {"live", "deleted"}})
      BY DEF IndexInv, Number, With
    <2>4. deleted_count = Cardinality({id \in Ids : status[id] = "deleted"})
      <3>1. With(status, {"deleted"}) = {id \in Ids : status[id] = "deleted"} BY DEF With
      <3>2. QED BY <3>1 DEF IndexInv, Number
    <2>5. QED BY <2>1, <2>2, <2>3, <2>4 DEF IndexEntries
  <1>4. QED BY <1>1, <1>2, <1>3, StoreInvariant, PTL DEF StoreSpec

=============================================================================
