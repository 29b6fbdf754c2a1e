-------------------------- MODULE BufferPoolProofs --------------------------
(***************************************************************************)
(* The disk manager and the buffer pool on it.  For every file size, every *)
(* extension step and every content of the pages the free list is sound    *)
(* and the disk manager implements PageAllocator.  For every number of     *)
(* frames and pages a pinned page stays where it is, page table and frames *)
(* agree, and the pool implements PageStore.                               *)
(*                                                                         *)
(* The pin count of a page is a uint8_t that nothing guards, so the        *)
(* theorems about the pool suppose that clients hold at most PinLimit pins *)
(* on a page.                                                              *)
(***************************************************************************)
EXTENDS BufferPool, NatFacts, SequenceTheorems

-----------------------------------------------------------------------------
(* The disk manager.                                                       *)
\* Dropping the last element of a non-empty sequence shortens it by one and
\* keeps the rest.
LEMMA DropLastFacts ==
  ASSUME NEW S, NEW s \in Seq(S), s # <<>>
  PROVE  /\ DropLast(s) \in Seq(S)
         /\ Len(DropLast(s)) = Len(s) - 1
         /\ \A i \in 1 .. (Len(s) - 1) : DropLast(s)[i] = s[i]
  <1>1. Len(s) \in Nat /\ Len(s) # 0 /\ \A i \in 1 .. (Len(s) - 1) : s[i] \in S
    BY LenProperties, EmptySeq
  <1>2. QED BY <1>1 DEF DropLast

\* What disk_extend pushes: ExtendPages new pages in descending order.
LEMMA ExtendedStackFacts ==
  ASSUME DiskTypeOK, CanExtend
  PROVE  /\ ExtendedStack \in Seq(PageId)
         /\ Len(ExtendedStack) = Len(stack) + ExtendPages
         /\ \A i \in 1 .. Len(stack) : ExtendedStack[i] = stack[i]
         /\ \A i \in 1 .. ExtendPages :
              ExtendedStack[Len(stack) + i] = NewTotal - i
         /\ ExtendedStack # <<>>
  <1> DEFINE fresh == [i \in 1 .. ExtendPages |-> NewTotal - i]
  <1>1. fresh \in Seq(PageId) /\ Len(fresh) = ExtendPages
    <2>1. \A i \in 1 .. ExtendPages : NewTotal - i \in PageId
      BY DiskConstants DEF DiskTypeOK, CanExtend, NewTotal, PageId
    <2>2. QED BY <2>1, DiskConstants
  <1>2. stack \in Seq(PageId) BY DEF DiskTypeOK
  <1> HIDE DEF fresh
  <1>3. /\ stack \o fresh \in Seq(PageId)
        /\ Len(stack \o fresh) = Len(stack) + ExtendPages
        /\ \A i \in 1 .. Len(stack) : (stack \o fresh)[i] = stack[i]
        /\ \A i \in 1 .. ExtendPages : (stack \o fresh)[Len(stack) + i] = fresh[i]
    BY <1>1, <1>2, DiskConstants
  <1>4. stack \o fresh # <<>> BY <1>1, <1>2, <1>3, DiskConstants
  <1>5. QED BY <1>3, <1>4 DEF ExtendedStack, fresh

-----------------------------------------------------------------------------
(* How each operation changes the set of free pages.                      *)

\* disk_alloc_page from a non-empty list takes exactly its head off the free
\* pages.
LEMMA PopFreeSet ==
  ASSUME DiskInv, PopFields
  PROVE  /\ stack # <<>>
         /\ free_list_head = stack[Len(stack)]
         /\ free_list_head \in FreeSet
         /\ FreeSet' = FreeSet \ {free_list_head}
  <1> USE DEF DiskInv, FreeListSound
  <1>1. stack # <<>> BY DEF PopFields, ChainIntact, PAGE_ID_NULL
  <1>2. free_list_head = stack[Len(stack)] BY <1>1 DEF ChainIntact
  <1>3. stack \in Seq(PageId) BY DEF DiskTypeOK
  <1>4. Len(stack) \in Nat \ {0} BY <1>1, <1>3, EmptySeq, LenProperties
  <1>5. /\ Len(stack') = Len(stack) - 1
        /\ \A i \in 1 .. (Len(stack) - 1) : stack'[i] = stack[i]
    BY <1>1, <1>3, DropLastFacts DEF PopFields
  <1>6. free_list_head \in FreeSet BY <1>2, <1>4 DEF FreeSet
  <1>7. ASSUME NEW p PROVE p \in FreeSet' <=> p \in FreeSet /\ p # free_list_head
    <2>1. ASSUME p \in FreeSet' PROVE p \in FreeSet /\ p # free_list_head
      <3>1. PICK i \in 1 .. Len(stack') : p = stack'[i] BY <2>1 DEF FreeSet
      <3>2. i \in 1 .. (Len(stack) - 1) /\ p = stack[i] BY <1>4, <1>5, <3>1
      <3>3. i \in 1 .. Len(stack) /\ Len(stack) \in 1 .. Len(stack) /\ i # Len(stack)
        BY <1>4, <3>2
      <3>4. QED BY <1>2, <3>2, <3>3 DEF ChainAcyclic, FreeSet
    <2>2. ASSUME p \in FreeSet, p # free_list_head PROVE p \in FreeSet'
      <3>1. PICK i \in 1 .. Len(stack) : p = stack[i] BY <2>2 DEF FreeSet
      <3>2. i \in 1 .. (Len(stack) - 1) BY <1>2, <1>4, <2>2, <3>1
      <3>3. i \in 1 .. Len(stack') /\ p = stack'[i] BY <1>4, <1>5, <3>1, <3>2
      <3>4. QED BY <3>3 DEF FreeSet
    <2>3. QED BY <2>1, <2>2
  <1>8. QED BY <1>1, <1>2, <1>6, <1>7

\* disk_extend adds exactly the new pages to the free ones.
LEMMA ExtendFreeSet ==
  ASSUME DiskInv, disk_extend
  PROVE  FreeSet' = FreeSet \cup NewPages
  <1> USE DEF DiskInv
  <1>1. CanExtend /\ stack' = ExtendedStack BY DEF disk_extend
  <1>2. /\ Len(stack') = Len(stack) + ExtendPages
        /\ \A i \in 1 .. Len(stack) : stack'[i] = stack[i]
        /\ \A i \in 1 .. ExtendPages : stack'[Len(stack) + i] = NewTotal - i
    BY <1>1, ExtendedStackFacts
  <1>3. Len(stack) \in Nat BY LenProperties DEF DiskTypeOK
  <1>4. total_pages \in Nat BY DEF DiskTypeOK
  <1>5. ASSUME NEW p PROVE p \in FreeSet' <=> p \in FreeSet \cup NewPages
    <2>1. ASSUME p \in FreeSet' PROVE p \in FreeSet \cup NewPages
      <3>1. PICK i \in 1 .. Len(stack') : p = stack'[i] BY <2>1 DEF FreeSet
      <3>2. CASE i <= Len(stack)
        BY <1>2, <1>3, <3>1, <3>2 DEF FreeSet
      <3>3. CASE i > Len(stack)
        <4>1. i - Len(stack) \in 1 .. ExtendPages /\ i = Len(stack) + (i - Len(stack))
          BY <1>2, <1>3, <3>1, <3>3, DiskConstants
        <4>2. p = NewTotal - (i - Len(stack)) BY <1>2, <3>1, <4>1
        <4>3. QED BY <1>4, <4>1, <4>2, DiskConstants DEF NewPages, NewTotal
      <3>4. QED BY <1>2, <1>3, <3>1, <3>2, <3>3, DiskConstants
    <2>2. ASSUME p \in FreeSet PROVE p \in FreeSet'
      <3>1. PICK i \in 1 .. Len(stack) : p = stack[i] BY <2>2 DEF FreeSet
      <3>2. i \in 1 .. Len(stack') /\ p = stack'[i]
        BY <1>2, <1>3, <3>1, DiskConstants
      <3>3. QED BY <3>2 DEF FreeSet
    <2>3. ASSUME p \in NewPages PROVE p \in FreeSet'
      <3>1. NewTotal - p \in 1 .. ExtendPages /\ p = NewTotal - (NewTotal - p)
        BY <1>4, <2>3, DiskConstants DEF NewPages, NewTotal
      <3>2. /\ Len(stack) + (NewTotal - p) \in 1 .. Len(stack')
            /\ p = stack'[Len(stack) + (NewTotal - p)]
        BY <1>2, <1>3, <3>1, DiskConstants
      <3>3. QED BY <3>2 DEF FreeSet
    <2>4. QED BY <2>1, <2>2, <2>3
  <1>6. QED BY <1>5

\* disk_free_page adds exactly the released page to the free ones.
LEMMA FreePageFreeSet ==
  ASSUME DiskInv, NEW p \in PageId, disk_free_page(p)
  PROVE  FreeSet' = FreeSet \cup {p}
  <1> USE DEF DiskInv
  <1>1. /\ Len(stack') = Len(stack) + 1
        /\ \A i \in 1 .. Len(stack) : stack'[i] = stack[i]
        /\ stack'[Len(stack) + 1] = p
    BY AppendProperties DEF DiskTypeOK, disk_free_page, FreePage
  <1>2. Len(stack) \in Nat BY LenProperties DEF DiskTypeOK
  <1>3. ASSUME NEW q PROVE q \in FreeSet' <=> q \in FreeSet \cup {p}
    <2>1. ASSUME q \in FreeSet' PROVE q \in FreeSet \cup {p}
      <3>1. PICK i \in 1 .. Len(stack') : q = stack'[i] BY <2>1 DEF FreeSet
      <3>2. i \in 1 .. Len(stack) \/ i = Len(stack) + 1 BY <1>1, <1>2, <3>1
      <3>3. QED BY <1>1, <3>1, <3>2 DEF FreeSet
    <2>2. ASSUME q \in FreeSet PROVE q \in FreeSet'
      <3>1. PICK i \in 1 .. Len(stack) : q = stack[i] BY <2>2 DEF FreeSet
      <3>2. i \in 1 .. Len(stack') /\ q = stack'[i] BY <1>1, <1>2, <3>1
      <3>3. QED BY <3>2 DEF FreeSet
    <2>3. p \in FreeSet'
      <3>1. Len(stack) + 1 \in 1 .. Len(stack') BY <1>1, <1>2
      <3>2. QED BY <1>1, <3>1 DEF FreeSet
    <2>4. QED BY <2>1, <2>2, <2>3
  <1>4. QED BY <1>3

\* When the free list is empty, ExtendPopFields leaves the new pages but the
\* first free.
LEMMA ExtendPopFreeSet ==
  ASSUME DiskInv, ExtendPopFields
  PROVE  /\ stack = <<>>
         /\ FreeSet = {}
         /\ total_pages \in NewPages
         /\ Len(stack') = ExtendPages - 1
         /\ stack' \in Seq(PageId)
         /\ \A i \in 1 .. (ExtendPages - 1) : stack'[i] = NewTotal - i
         /\ FreeSet' = NewPages \ {total_pages}
  <1> USE DEF DiskInv, FreeListSound
  <1>1. stack \in Seq(PageId) /\ total_pages \in Nat \ {0} BY DEF DiskTypeOK
  <1>2. stack = <<>>
    <2>1. SUFFICES ASSUME stack # <<>> PROVE FALSE OBVIOUS
    <2>2. Len(stack) \in Nat \ {0} BY <1>1, <2>1, EmptySeq, LenProperties
    <2>3. stack[Len(stack)] \in PageId BY <1>1, <2>2, ElementOfSeq
    <2>4. QED
      BY <2>1, <2>3 DEF ChainIntact, ExtendPopFields, PAGE_ID_NULL, PageId
  <1>3. Len(stack) = 0 /\ FreeSet = {} BY <1>2 DEF FreeSet
  <1>4. CanExtend /\ stack' = DropLast(ExtendedStack)
    BY DEF ExtendPopFields
  <1>5. /\ ExtendedStack \in Seq(PageId)
        /\ ExtendedStack # <<>>
        /\ Len(ExtendedStack) = ExtendPages
        /\ \A i \in 1 .. ExtendPages : ExtendedStack[i] = NewTotal - i
    BY <1>3, <1>4, ExtendedStackFacts, DiskConstants
  <1>6. /\ stack' \in Seq(PageId)
        /\ Len(stack') = ExtendPages - 1
        /\ \A i \in 1 .. (ExtendPages - 1) : stack'[i] = ExtendedStack[i]
    BY <1>4, <1>5, DropLastFacts
  <1>7. \A i \in 1 .. (ExtendPages - 1) : stack'[i] = NewTotal - i
    BY <1>5, <1>6, DiskConstants
  <1>8. ASSUME NEW p PROVE p \in FreeSet' <=> p \in NewPages /\ p # total_pages
    <2>1. ASSUME p \in FreeSet' PROVE p \in NewPages /\ p # total_pages
      <3>1. PICK i \in 1 .. (ExtendPages - 1) : p = NewTotal - i
        BY <1>6, <1>7, <2>1 DEF FreeSet
      <3>2. QED BY <1>1, <3>1, DiskConstants DEF NewPages, NewTotal
    <2>2. ASSUME p \in NewPages, p # total_pages PROVE p \in FreeSet'
      <3>1. NewTotal - p \in 1 .. (ExtendPages - 1) /\ p = NewTotal - (NewTotal - p)
        BY <1>1, <2>2, DiskConstants DEF NewPages, NewTotal
      <3>2. NewTotal - p \in 1 .. Len(stack') /\ p = stack'[NewTotal - p]
        BY <1>6, <1>7, <3>1
      <3>3. QED BY <3>2 DEF FreeSet
    <2>3. QED BY <2>1, <2>2
  <1>9. total_pages \in NewPages BY <1>1, DiskConstants DEF NewPages, NewTotal
  <1>10. QED BY <1>2, <1>3, <1>6, <1>7, <1>8, <1>9

-----------------------------------------------------------------------------
(* Every operation preserves the invariant.                               *)

\* disk_manager_create chains every page but the header.
LEMMA InitFreeSet == DiskInit => FreeSet = 1 .. (InitialPages - 1)
  <1> SUFFICES ASSUME DiskInit PROVE FreeSet = 1 .. (InitialPages - 1) OBVIOUS
  <1> USE DiskConstants
  <1>1. /\ Len(stack) = InitialPages - 1
        /\ \A i \in 1 .. (InitialPages - 1) : stack[i] = InitialPages - i
    BY DEF DiskInit
  <1>2. ASSUME NEW p \in 1 .. (InitialPages - 1) PROVE p \in FreeSet
    <2>1. InitialPages - p \in 1 .. Len(stack) /\ stack[InitialPages - p] = p
      BY <1>1
    <2>2. QED BY <2>1 DEF FreeSet
  <1>3. ASSUME NEW p \in FreeSet PROVE p \in 1 .. (InitialPages - 1)
    BY <1>1 DEF FreeSet
  <1>4. QED BY <1>2, <1>3

\* A newly created file satisfies the invariant.
LEMMA InitInv == DiskInit => DiskInv
  <1> SUFFICES ASSUME DiskInit PROVE DiskInv OBVIOUS
  <1> USE DiskConstants
  <1>1. /\ stack \in Seq(PageId)
        /\ Len(stack) = InitialPages - 1
        /\ \A i \in 1 .. (InitialPages - 1) : stack[i] = InitialPages - i
    <2>1. \A i \in 1 .. (InitialPages - 1) : InitialPages - i \in PageId
      BY DEF PageId
    <2>2. QED BY <2>1 DEF DiskInit
  <1>2. DiskTypeOK BY <1>1 DEF DiskTypeOK, DiskInit, PageId, Header, PAGE_ID_NULL
  <1>3. ChainIntact
    <2>1. stack # <<>> /\ stack[Len(stack)] = 1 BY <1>1
    <2>2. ASSUME NEW i \in 1 .. Len(stack)
          PROVE  disk[stack[i]] = IF i = 1 THEN PAGE_ID_NULL ELSE stack[i - 1]
      <3>1. stack[i] = InitialPages - i /\ InitialPages - i \in PageId
        BY <1>1 DEF PageId
      <3>2. i # 1 => stack[i - 1] = InitialPages - (i - 1) BY <1>1
      <3>3. QED BY <1>1, <3>1, <3>2 DEF DiskInit
    <2>3. QED BY <1>1, <2>1, <2>2 DEF ChainIntact, DiskInit
  <1>4. ChainAcyclic BY <1>1 DEF ChainAcyclic
  <1>5. FreeSet = 1 .. (InitialPages - 1) BY InitFreeSet
  <1>6. Partition BY <1>5 DEF Partition, DiskInit
  <1>7. HeaderCurrent BY DEF HeaderCurrent, DiskInit
  <1>8. QED BY <1>2, <1>3, <1>4, <1>6, <1>7 DEF DiskInv, FreeListSound

\* Popping the head keeps the invariant, whatever happens to the pages that
\* are not free.
LEMMA PopInv ==
  ASSUME DiskInv, PopFields, disk' \in [PageId -> Nat],
         \A p \in FreeSet' : disk'[p] = disk[p]
  PROVE  DiskInv'
  <1> USE DEF DiskInv, FreeListSound
  <1>1. /\ stack # <<>>
        /\ free_list_head = stack[Len(stack)]
        /\ free_list_head \in FreeSet
        /\ FreeSet' = FreeSet \ {free_list_head}
    BY PopFreeSet
  <1>2. stack \in Seq(PageId) BY DEF DiskTypeOK
  <1>3. Len(stack) \in Nat \ {0} BY <1>1, <1>2, EmptySeq, LenProperties
  <1>4. /\ stack' \in Seq(PageId)
        /\ Len(stack') = Len(stack) - 1
        /\ \A i \in 1 .. (Len(stack) - 1) : stack'[i] = stack[i]
    BY <1>1, <1>2, DropLastFacts DEF PopFields
  <1>5. free_list_head \in PageId BY <1>1, <1>2, <1>3, ElementOfSeq
  <1>6. disk[free_list_head] =
          IF Len(stack) = 1 THEN PAGE_ID_NULL ELSE stack[Len(stack) - 1]
    BY <1>1, <1>3 DEF ChainIntact
  <1>7. DiskTypeOK'
    <2>1. live' \subseteq PageId
      BY <1>5 DEF DiskTypeOK, PopFields
    <2>2. disk' \in [PageId -> Nat] /\ free_list_head' \in Nat
      BY <1>5 DEF DiskTypeOK, PopFields
    <2>3. free_page_count' \in Nat
      BY <1>3, DiskConstants DEF ChainIntact, Decrement, PopFields
    <2>4. QED BY <1>4, <2>1, <2>2, <2>3 DEF DiskTypeOK, PopFields
  <1>8. ChainIntact'
    <2>1. free_page_count' = Len(stack')
      BY <1>3, <1>4 DEF ChainIntact, Decrement, PopFields
    <2>2. free_list_head' = IF stack' = <<>> THEN PAGE_ID_NULL ELSE stack'[Len(stack')]
      <3>1. CASE Len(stack) = 1
        <4>1. stack' = <<>> BY <1>4, <3>1, EmptySeq
        <4>2. QED BY <1>6, <3>1, <4>1 DEF PopFields
      <3>2. CASE Len(stack) # 1
        <4>1. Len(stack') # 0 /\ Len(stack') \in 1 .. (Len(stack) - 1)
          BY <1>3, <1>4, <3>2
        <4>2. stack' # <<>> BY <1>4, <4>1, EmptySeq
        <4>3. stack'[Len(stack')] = stack[Len(stack) - 1]
          <5>1. Len(stack') = Len(stack) - 1 BY <1>4
          <5>2. stack'[Len(stack')] = stack[Len(stack')] BY <1>4, <4>1
          <5>3. QED BY <5>1, <5>2
        <4>4. QED BY <1>6, <3>2, <4>2, <4>3 DEF PopFields
      <3>3. QED BY <3>1, <3>2
    <2>3. ASSUME NEW i \in 1 .. Len(stack')
          PROVE  disk'[stack'[i]] = IF i = 1 THEN PAGE_ID_NULL ELSE stack'[i - 1]
      <3>1. i \in 1 .. Len(stack) /\ i # Len(stack) /\ stack'[i] = stack[i]
        BY <1>3, <1>4
      <3>2. stack[i] \in FreeSet' BY <3>1 DEF FreeSet
      <3>3. disk'[stack[i]] = disk[stack[i]] BY <3>2
      <3>4. ASSUME i # 1 PROVE stack'[i - 1] = stack[i - 1]
        <4>1. i - 1 \in 1 .. (Len(stack) - 1) BY <1>3, <1>4, <3>4
        <4>2. QED BY <1>4, <4>1
      <3>5. QED BY <3>1, <3>3, <3>4 DEF ChainIntact
    <2>4. QED BY <2>1, <2>2, <2>3 DEF ChainIntact
  <1>9. ChainAcyclic' BY <1>3, <1>4 DEF ChainAcyclic
  <1>10. Partition' BY <1>1 DEF Partition, PopFields
  <1>11. HeaderCurrent' BY DEF HeaderCurrent, PopFields
  <1>12. QED BY <1>7, <1>8, <1>9, <1>10, <1>11

\* disk_alloc_page from a non-empty list keeps the invariant.
LEMMA AllocPopInv == DiskInv /\ AllocPop => DiskInv'
  <1> SUFFICES ASSUME DiskInv, AllocPop PROVE DiskInv' OBVIOUS
  <1>1. PopFields /\ disk' = PoppedDisk BY DEF AllocPop
  <1>2. free_list_head \in FreeSet /\ FreeSet' = FreeSet \ {free_list_head}
    BY <1>1, PopFreeSet
  <1>3. FreeSet \subseteq PageId /\ disk \in [PageId -> Nat]
    BY DiskConstants DEF DiskInv, DiskTypeOK, FreeListSound, Partition, PageId
  <1>4. disk' \in [PageId -> Nat] /\ \A p \in FreeSet' : disk'[p] = disk[p]
    BY <1>1, <1>2, <1>3 DEF PoppedDisk
  <1>5. QED BY <1>1, <1>4, PopInv

\* The pages after an extension and a pop have their types.
LEMMA ExtendPoppedDiskType == DiskTypeOK => ExtendPoppedDisk \in [PageId -> Nat]
  <1> SUFFICES ASSUME DiskTypeOK PROVE ExtendPoppedDisk \in [PageId -> Nat] OBVIOUS
  <1>1. \A p \in PageId : ExtendLink(p) \in Nat
    BY DiskConstants DEF ExtendLink, PageId, DiskTypeOK, NewTotal
  <1>2. QED BY <1>1 DEF ExtendPoppedDisk, ExtendedDisk, DiskTypeOK

\* Extending the file and popping the first new page keeps the invariant,
\* whatever happens to the pages that are not free.
LEMMA ExtendPopInv ==
  ASSUME DiskInv, ExtendPopFields, disk' \in [PageId -> Nat],
         \A p \in FreeSet' : disk'[p] = ExtendPoppedDisk[p]
  PROVE  DiskInv'
  <1> USE DiskConstants DEF DiskInv, FreeListSound
  <1>1. /\ FreeSet = {}
        /\ total_pages \in NewPages
        /\ Len(stack') = ExtendPages - 1
        /\ stack' \in Seq(PageId)
        /\ \A i \in 1 .. (ExtendPages - 1) : stack'[i] = NewTotal - i
        /\ FreeSet' = NewPages \ {total_pages}
    BY ExtendPopFreeSet
  <1>2. /\ total_pages \in Nat \ {0} /\ NewTotal = total_pages + ExtendPages
        /\ NewTotal <= MaxPages /\ free_page_count = 0
    <2>1. stack = <<>> BY ExtendPopFreeSet
    <2>2. QED
      BY <2>1 DEF DiskTypeOK, ExtendPopFields, CanExtend, NewTotal, ChainIntact
  <1>3. NewPages \subseteq PageId BY <1>2 DEF NewPages, PageId
  <1>4. \A p \in NewPages \ {total_pages} :
          disk'[p] = IF p + 1 < NewTotal THEN p + 1 ELSE PAGE_ID_NULL
    BY <1>1, <1>3 DEF ExtendPopFields, ExtendPoppedDisk, ExtendedDisk, ExtendLink, DiskTypeOK
  <1>5. free_list_head' = IF ExtendPages = 1 THEN PAGE_ID_NULL ELSE total_pages + 1
    BY <1>2 DEF ExtendPopFields, ExtendLink
  <1>6. DiskTypeOK'
    <2>3. free_page_count' \in Nat /\ free_list_head' \in Nat
      BY <1>2, <1>5 DEF ExtendPopFields, Decrement, PAGE_ID_NULL
    <2>4. live' \subseteq PageId
      BY <1>1, <1>3 DEF ExtendPopFields, DiskTypeOK
    <2>5. QED
      BY <1>1, <1>2, <2>3, <2>4 DEF ExtendPopFields, DiskTypeOK
  <1>7. ChainIntact'
    <2>1. free_page_count' = Len(stack')
      BY <1>1, <1>2 DEF ExtendPopFields, Decrement
    <2>2. free_list_head' = IF stack' = <<>> THEN PAGE_ID_NULL ELSE stack'[Len(stack')]
      <3>1. CASE ExtendPages = 1 BY <1>1, <1>5, <3>1, EmptySeq
      <3>2. CASE ExtendPages # 1
        <4>1. stack' # <<>> /\ Len(stack') \in 1 .. (ExtendPages - 1)
          BY <1>1, <3>2
        <4>2. stack'[Len(stack')] = total_pages + 1 BY <1>1, <1>2, <4>1
        <4>3. QED BY <1>5, <3>2, <4>1, <4>2
      <3>3. QED BY <3>1, <3>2
    <2>3. ASSUME NEW i \in 1 .. Len(stack')
          PROVE  disk'[stack'[i]] = IF i = 1 THEN PAGE_ID_NULL ELSE stack'[i - 1]
      <3>1. stack'[i] = NewTotal - i /\ NewTotal - i \in NewPages \ {total_pages}
        BY <1>1, <1>2 DEF NewPages
      <3>2. i # 1 => stack'[i - 1] = NewTotal - (i - 1) BY <1>1
      <3>3. QED BY <1>1, <1>2, <1>4, <3>1, <3>2
    <2>4. QED BY <2>1, <2>2, <2>3 DEF ChainIntact
  <1>8. ChainAcyclic' BY <1>1, <1>2 DEF ChainAcyclic
  <1>9. Partition'
    <2>1. live = 1 .. (total_pages - 1) BY <1>1 DEF Partition
    <2>2. live' = live \cup {total_pages} /\ total_pages' = NewTotal
      BY DEF ExtendPopFields
    <2>3. QED BY <1>1, <1>2, <2>1, <2>2 DEF Partition, NewPages
  <1>10. HeaderCurrent' BY DEF HeaderCurrent, ExtendPopFields, CanExtend
  <1>11. QED BY <1>6, <1>7, <1>8, <1>9, <1>10

\* disk_alloc_page that has to extend the file first keeps the invariant.
LEMMA AllocExtendInv == DiskInv /\ AllocExtend => DiskInv'
  <1> SUFFICES ASSUME DiskInv, AllocExtend PROVE DiskInv' OBVIOUS
  <1>1. ExtendPopFields /\ disk' = ExtendPoppedDisk BY DEF AllocExtend
  <1>2. ExtendPoppedDisk \in [PageId -> Nat] BY ExtendPoppedDiskType DEF DiskInv
  <1>3. QED BY <1>1, <1>2, ExtendPopInv

\* disk_extend keeps the invariant.
LEMMA ExtendInv == DiskInv /\ disk_extend => DiskInv'
  <1> SUFFICES ASSUME DiskInv, disk_extend PROVE DiskInv' OBVIOUS
  <1> USE DiskConstants DEF DiskInv, FreeListSound
  <1>1. FreeSet' = FreeSet \cup NewPages BY ExtendFreeSet
  <1>2. /\ stack' \in Seq(PageId)
        /\ Len(stack') = Len(stack) + ExtendPages
        /\ \A i \in 1 .. Len(stack) : stack'[i] = stack[i]
        /\ \A i \in 1 .. ExtendPages : stack'[Len(stack) + i] = NewTotal - i
        /\ stack' # <<>>
    BY ExtendedStackFacts DEF disk_extend
  <1>3. /\ total_pages \in Nat \ {0} /\ NewTotal = total_pages + ExtendPages
        /\ NewTotal <= MaxPages /\ Len(stack) \in Nat
    BY LenProperties DEF DiskTypeOK, disk_extend, CanExtend, NewTotal
  <1>4. NewPages \subseteq PageId BY <1>3 DEF NewPages, PageId
  <1>5. \A i \in 1 .. Len(stack) : stack[i] \in PageId /\ stack[i] < total_pages
    <2>1. ASSUME NEW i \in 1 .. Len(stack)
          PROVE  stack[i] \in PageId /\ stack[i] < total_pages
      <3>1. stack[i] \in FreeSet BY DEF FreeSet
      <3>2. stack[i] \in 1 .. (total_pages - 1) BY <3>1 DEF Partition
      <3>3. QED BY <1>3, <3>2 DEF PageId
    <2>2. QED BY <2>1
  <1>6. DiskTypeOK'
    <2>1. \A p \in PageId : ExtendLink(p) \in Nat
      BY <1>3 DEF ExtendLink, PageId, DiskTypeOK
    <2>2. disk' \in [PageId -> Nat]
      BY <2>1 DEF disk_extend, ExtendedDisk, DiskTypeOK
    <2>3. QED BY <1>2, <1>3, <2>2 DEF disk_extend, DiskTypeOK
  <1>7. ChainIntact'
    <2>1. free_page_count' = Len(stack') BY <1>2 DEF disk_extend, ChainIntact
    <2>2. free_list_head' = stack'[Len(stack')]
      <3>1. stack'[Len(stack) + ExtendPages] = NewTotal - ExtendPages BY <1>2
      <3>2. QED BY <1>2, <1>3, <3>1 DEF disk_extend
    <2>3. ASSUME NEW i \in 1 .. Len(stack')
          PROVE  disk'[stack'[i]] = IF i = 1 THEN PAGE_ID_NULL ELSE stack'[i - 1]
      <3>1. CASE i <= Len(stack)
        <4>1. i \in 1 .. Len(stack) /\ stack'[i] = stack[i] BY <1>2, <1>3, <3>1
        <4>2. i # 1 => stack'[i - 1] = stack[i - 1] BY <1>2, <1>3, <4>1
        <4>3. stack[i] \in PageId /\ stack[i] \notin NewPages /\ stack[i] < NewTotal
          BY <1>3, <1>5, <4>1 DEF NewPages, PageId
        <4>4. disk'[stack[i]] = disk[stack[i]]
          BY <4>3 DEF disk_extend, ExtendedDisk
        <4>5. QED BY <4>1, <4>2, <4>4 DEF ChainIntact
      <3>2. CASE i > Len(stack)
        <4>1. PICK j \in 1 .. ExtendPages : i = Len(stack) + j
          <5>1. i - Len(stack) \in 1 .. ExtendPages BY <1>2, <1>3, <3>2
          <5>2. QED BY <1>3, <5>1
        <4>2. stack'[i] = NewTotal - j /\ NewTotal - j \in NewPages
          BY <1>2, <1>3, <4>1 DEF NewPages
        <4>3. disk'[stack'[i]] = ExtendLink(NewTotal - j)
          BY <1>4, <4>2 DEF disk_extend, ExtendedDisk
        <4>4. CASE j = 1
          <5>1. disk'[stack'[i]] = free_list_head
            BY <1>3, <4>3, <4>4 DEF ExtendLink
          <5>2. CASE Len(stack) = 0
            BY <1>3, <4>1, <4>4, <5>1, <5>2, EmptySeq DEF ChainIntact, DiskTypeOK
          <5>3. CASE Len(stack) # 0
            <6>1. i # 1 /\ i - 1 = Len(stack) /\ Len(stack) \in 1 .. Len(stack)
              BY <1>3, <4>1, <4>4, <5>3
            <6>2. stack'[i - 1] = stack[Len(stack)] BY <1>2, <6>1
            <6>3. stack # <<>> BY <5>3
            <6>4. QED BY <5>1, <6>1, <6>2, <6>3 DEF ChainIntact
          <5>4. QED BY <5>2, <5>3
        <4>5. CASE j # 1
          <5>1. disk'[stack'[i]] = NewTotal - j + 1
            <6>1. NewTotal \in Nat /\ NewTotal - j + 1 < NewTotal BY <1>3, <4>5
            <6>2. ExtendLink(NewTotal - j) = NewTotal - j + 1
              BY <6>1 DEF ExtendLink
            <6>3. QED BY <4>3, <6>2
          <5>2. j - 1 \in 1 .. ExtendPages /\ i - 1 = Len(stack) + (j - 1) /\ i # 1
            BY <1>3, <4>1, <4>5
          <5>3. stack'[i - 1] = NewTotal - (j - 1) BY <1>2, <5>2
          <5>4. QED BY <1>3, <5>1, <5>2, <5>3
        <4>6. QED BY <4>4, <4>5
      <3>3. QED BY <1>2, <1>3, <3>1, <3>2
    <2>4. QED BY <1>2, <2>1, <2>2, <2>3 DEF ChainIntact
  <1>8. ChainAcyclic'
    <2>1. SUFFICES ASSUME NEW i \in 1 .. Len(stack'), NEW j \in 1 .. Len(stack'),
                          stack'[i] = stack'[j], i < j
                   PROVE  FALSE
      BY <1>2, <1>3 DEF ChainAcyclic
    <2>2. CASE j <= Len(stack) BY <1>2, <1>3, <2>1, <2>2 DEF ChainAcyclic
    <2>3. CASE j > Len(stack)
      <3>1. j - Len(stack) \in 1 .. ExtendPages /\ j = Len(stack) + (j - Len(stack))
        BY <1>2, <1>3, <2>3
      <3>2. stack'[j] = NewTotal - (j - Len(stack)) BY <1>2, <3>1
      <3>3. CASE i <= Len(stack)
        <4>1. stack'[i] \in PageId /\ stack'[i] < total_pages
          BY <1>2, <1>3, <1>5, <3>3
        <4>2. QED BY <1>3, <2>1, <3>1, <3>2, <4>1 DEF PageId
      <3>4. CASE i > Len(stack)
        <4>1. i - Len(stack) \in 1 .. ExtendPages /\ i = Len(stack) + (i - Len(stack))
          BY <1>2, <1>3, <3>4
        <4>2. stack'[i] = NewTotal - (i - Len(stack)) BY <1>2, <4>1
        <4>3. QED BY <1>3, <2>1, <3>1, <3>2, <4>1, <4>2
      <3>5. QED BY <1>3, <3>3, <3>4
    <2>4. QED BY <1>2, <1>3, <2>2, <2>3
  <1>9. Partition'
    <2>1. live' = live /\ total_pages' = NewTotal BY DEF disk_extend
    <2>2. live \cap FreeSet = {} /\ live \cup FreeSet = 1 .. (total_pages - 1)
      BY DEF Partition
    <2>3. NewPages = total_pages .. (NewTotal - 1) BY DEF NewPages
    <2>4. QED BY <1>1, <1>3, <2>1, <2>2, <2>3 DEF Partition
  <1>10. HeaderCurrent' BY DEF HeaderCurrent, disk_extend, CanExtend
  <1>11. QED BY <1>6, <1>7, <1>8, <1>9, <1>10

\* disk_extend that fails at any of its links keeps the invariant: it wrote
\* only to pages beyond total_pages.
LEMMA ExtendFailInv ==
  ASSUME DiskInv, NEW q \in PageId, disk_extend_fail(q)
  PROVE  DiskInv'
  <1> USE DiskConstants DEF DiskInv, FreeListSound
  <1>1. UNCHANGED <<fd, total_pages, free_list_head, free_page_count, header,
                    live, stack>>
    BY DEF disk_extend_fail
  <1>2. /\ total_pages \in Nat \ {0} /\ NewTotal = total_pages + ExtendPages
        /\ NewTotal <= MaxPages
    BY DEF DiskTypeOK, disk_extend_fail, CanExtend, NewTotal
  <1>3. DiskTypeOK'
    <2>1. \A p \in PageId : ExtendLink(p) \in Nat
      BY <1>2 DEF ExtendLink, PageId, DiskTypeOK
    <2>2. disk' \in [PageId -> Nat]
      BY <2>1 DEF disk_extend_fail, ExtendedDisk, DiskTypeOK
    <2>3. file_pages' \in 2 .. MaxPages
      BY <1>2 DEF disk_extend_fail, DiskTypeOK
    <2>4. QED BY <1>1, <2>2, <2>3 DEF DiskTypeOK
  <1>4. \A p \in FreeSet : disk'[p] = disk[p]
    <2>1. SUFFICES ASSUME NEW p \in FreeSet PROVE disk'[p] = disk[p] OBVIOUS
    <2>2. p \in 1 .. (total_pages - 1) BY DEF Partition
    <2>3. p \in PageId /\ p \notin total_pages .. (q - 1) /\ p < NewTotal
      BY <1>2, <2>2 DEF PageId
    <2>4. QED BY <2>3 DEF disk_extend_fail, ExtendedDisk
  <1>5. ChainIntact' BY <1>1, <1>4 DEF ChainIntact, FreeSet
  <1>6. ChainAcyclic' /\ Partition' /\ HeaderCurrent'
    BY <1>1 DEF ChainAcyclic, Partition, HeaderCurrent, FreeSet, FlushedHeader
  <1>7. QED BY <1>3, <1>5, <1>6

\* disk_free_page of a page in use keeps the invariant.
LEMMA FreePageInv ==
  ASSUME DiskInv, NEW p \in PageId, disk_free_page(p)
  PROVE  DiskInv'
  <1> USE DEF DiskInv, FreeListSound
  <1>1. FreeSet' = FreeSet \cup {p} BY FreePageFreeSet
  <1>2. /\ stack' \in Seq(PageId)
        /\ Len(stack') = Len(stack) + 1
        /\ \A i \in 1 .. Len(stack) : stack'[i] = stack[i]
        /\ stack'[Len(stack) + 1] = p
    BY AppendProperties DEF DiskTypeOK, disk_free_page, FreePage
  <1>3. Len(stack) \in Nat BY LenProperties DEF DiskTypeOK
  <1>4. p \in live /\ p \notin FreeSet BY DEF disk_free_page, Partition
  <1>5. DiskTypeOK'
    <2>1. p \in Nat /\ free_list_head \in Nat BY DEF PageId, DiskTypeOK
    <2>2. disk' \in [PageId -> Nat] BY <2>1 DEF DiskTypeOK, disk_free_page, FreePage
    <2>3. free_list_head' \in Nat /\ free_page_count' \in Nat
      BY <2>1 DEF DiskTypeOK, disk_free_page, FreePage
    <2>4. QED BY <1>2, <2>2, <2>3 DEF DiskTypeOK, disk_free_page, FreePage
  <1>6. ChainIntact'
    <2>1. free_page_count' = Len(stack')
      BY <1>2 DEF ChainIntact, disk_free_page, FreePage
    <2>2. stack' # <<>> /\ free_list_head' = stack'[Len(stack')]
      BY <1>2, <1>3 DEF disk_free_page, FreePage
    <2>3. ASSUME NEW i \in 1 .. Len(stack')
          PROVE  disk'[stack'[i]] = IF i = 1 THEN PAGE_ID_NULL ELSE stack'[i - 1]
      <3>1. CASE i \in 1 .. Len(stack)
        <4>1. stack'[i] = stack[i] /\ (i # 1 => stack'[i - 1] = stack[i - 1])
          BY <1>2, <1>3, <3>1
        <4>2. stack[i] # p BY <1>4, <3>1 DEF FreeSet
        <4>3. disk'[stack[i]] = disk[stack[i]]
          BY <4>2 DEF disk_free_page, FreePage, DiskTypeOK
        <4>4. QED BY <3>1, <4>1, <4>3 DEF ChainIntact
      <3>2. CASE i = Len(stack) + 1
        <4>1. stack'[i] = p /\ disk'[p] = free_list_head
          BY <1>2, <3>2 DEF disk_free_page, FreePage, DiskTypeOK
        <4>2. CASE Len(stack) = 0
          BY <3>2, <4>1, <4>2, EmptySeq DEF ChainIntact, DiskTypeOK
        <4>3. CASE Len(stack) # 0
          <5>1. i # 1 /\ i - 1 = Len(stack) /\ Len(stack) \in 1 .. Len(stack)
            BY <1>3, <3>2, <4>3
          <5>2. stack'[i - 1] = stack[Len(stack)] /\ stack # <<>>
            BY <1>2, <4>3, <5>1
          <5>3. QED BY <4>1, <5>1, <5>2 DEF ChainIntact
        <4>4. QED BY <4>2, <4>3
      <3>3. QED BY <1>2, <1>3, <3>1, <3>2
    <2>4. QED BY <2>1, <2>2, <2>3 DEF ChainIntact
  <1>7. ChainAcyclic'
    <2>1. SUFFICES ASSUME NEW i \in 1 .. Len(stack'), NEW j \in 1 .. Len(stack'),
                          stack'[i] = stack'[j], i < j
                   PROVE  FALSE
      BY <1>2, <1>3 DEF ChainAcyclic
    <2>2. CASE j \in 1 .. Len(stack) BY <1>2, <1>3, <2>1, <2>2 DEF ChainAcyclic
    <2>3. CASE j = Len(stack) + 1
      <3>1. i \in 1 .. Len(stack) BY <1>3, <2>1, <2>3
      <3>2. stack'[i] \in FreeSet BY <1>2, <3>1 DEF FreeSet
      <3>3. QED BY <1>2, <1>4, <2>1, <2>3, <3>2
    <2>4. QED BY <1>2, <1>3, <2>2, <2>3
  <1>8. Partition' BY <1>1, <1>4 DEF Partition, disk_free_page, FreePage
  <1>9. HeaderCurrent' BY DEF HeaderCurrent, disk_free_page, FreePage
  <1>10. QED BY <1>5, <1>6, <1>7, <1>8, <1>9

\* disk_write_page to a page in use keeps the invariant: the page is not on
\* the chain.
LEMMA WriteInv ==
  ASSUME DiskInv, NEW p \in PageId, NEW w \in Words, disk_write_page(p, w)
  PROVE  DiskInv'
  <1> USE DEF DiskInv, FreeListSound, disk_write_page
  <1>1. DiskTypeOK' BY DiskConstants DEF DiskTypeOK
  <1>2. \A q \in FreeSet : disk'[q] = disk[q] BY DEF DiskTypeOK, Partition
  <1>3. ChainIntact' BY <1>2 DEF ChainIntact, FreeSet
  <1>4. ChainAcyclic' /\ Partition' /\ HeaderCurrent'
    BY DEF ChainAcyclic, Partition, HeaderCurrent, FreeSet, FlushedHeader
  <1>5. QED BY <1>1, <1>3, <1>4

\* A clean close and the open after it keep the invariant.
LEMMA CloseOpenInv == DiskInv /\ (disk_manager_close \/ disk_manager_open) => DiskInv'
  <1> USE DEF DiskInv, FreeListSound, FlushedHeader, HeaderCurrent
  <1>1. CASE DiskInv /\ disk_manager_close
    <2>1. header' \in Header
      BY <1>1, DiskConstants DEF disk_manager_close, DiskTypeOK, Header
    <2>2. DiskTypeOK' BY <1>1, <2>1 DEF disk_manager_close, DiskTypeOK
    <2>3. QED
      BY <1>1, <2>2
      DEF disk_manager_close, ChainIntact, ChainAcyclic, Partition, FreeSet
  <1>2. CASE DiskInv /\ disk_manager_open
    <2>1. UNCHANGED <<total_pages, free_list_head, free_page_count>>
      BY <1>2 DEF disk_manager_open
    <2>2. QED
      BY <1>2, <2>1
      DEF disk_manager_open, DiskTypeOK, ChainIntact, ChainAcyclic, Partition, FreeSet
  <1>3. QED BY <1>1, <1>2

\* Every step of the disk manager keeps the invariant.
LEMMA NextInv == DiskInv /\ [DiskNext]_diskVars => DiskInv'
  <1> SUFFICES ASSUME DiskInv, [DiskNext]_diskVars PROVE DiskInv' OBVIOUS
  <1>1. CASE disk_alloc_page
    BY <1>1, AllocPopInv, AllocExtendInv DEF disk_alloc_page
  <1>2. CASE disk_extend BY <1>2, ExtendInv
  <1>3. CASE \E q \in PageId : disk_extend_fail(q) BY <1>3, ExtendFailInv
  <1>4. CASE \E p \in PageId : disk_free_page(p) BY <1>4, FreePageInv
  <1>5. CASE \E p \in PageId, w \in Words : disk_write_page(p, w) BY <1>5, WriteInv
  <1>6. CASE disk_manager_close \/ disk_manager_open BY <1>6, CloseOpenInv
  <1>7. CASE UNCHANGED diskVars
    BY <1>7 DEF diskVars, DiskInv, DiskTypeOK, FreeListSound, ChainIntact, ChainAcyclic,
                Partition, HeaderCurrent, FreeSet, FlushedHeader
  <1>8. QED BY <1>1, <1>2, <1>3, <1>4, <1>5, <1>6, <1>7 DEF DiskNext

\* The disk manager keeps its types, a sound free list and an up-to-date
\* header, whatever the sizes and whatever its callers write.
THEOREM DiskInvariant == DiskSpec => []DiskInv
  BY InitInv, NextInv, PTL DEF DiskSpec

\* No page is on the free list twice, none is both free and in use, none is
\* lost: disk_alloc_page never hands out a page that is in use.
THEOREM FreeListTheorem == DiskSpec => []FreeListSound
  <1>1. DiskInv => FreeListSound BY DEF DiskInv
  <1>2. QED BY <1>1, DiskInvariant, PTL

\* Head, count and total of the disk manager keep their types: the count
\* does not wrap below zero and the file does not outgrow DB_MAX_PAGES.
THEOREM DiskTypes == DiskSpec => []DiskTypeOK
  <1>1. DiskInv => DiskTypeOK BY DEF DiskInv
  <1>2. QED BY <1>1, DiskInvariant, PTL

-----------------------------------------------------------------------------
(* Every step of the disk manager is a step of the page allocator, or     *)
(* leaves the allocator's state alone.                                    *)

\* Every operation allocates, releases or grows in the sense of
\* PageAllocator, or leaves free and owned pages as they are.
LEMMA StepRefines ==
  ASSUME DiskInv, [DiskNext]_diskVars
  PROVE  [Alloc!AllocNext]_(Alloc!allocVars)
  <1> USE DEF DiskInv, FreeListSound, Partition, Alloc!allocVars, Alloc!Page
  <1>0. /\ total_pages \in Nat \ {0} /\ total_pages <= MaxPages /\ MaxPages \in Nat
        /\ live \subseteq PageId
    BY DiskConstants DEF DiskTypeOK
  <1>1. CASE AllocPop
    <2>1. /\ free_list_head \in FreeSet
          /\ FreeSet' = FreeSet \ {free_list_head}
          /\ live' = live \cup {free_list_head}
      BY <1>1, PopFreeSet DEF AllocPop, PopFields
    <2>2. free_list_head \in 1 .. (MaxPages - 1) BY <1>0, <2>1
    <2>3. Alloc!Grown({}) BY DEF Alloc!Grown
    <2>4. Alloc!Allocate(free_list_head)
      BY <2>1, <2>3, Zenon DEF Alloc!Allocate
    <2>5. QED BY <2>2, <2>4 DEF Alloc!AllocNext
  <1>2. CASE AllocExtend
    <2>1. /\ FreeSet = {}
          /\ total_pages \in NewPages
          /\ FreeSet' = NewPages \ {total_pages}
          /\ live' = live \cup {total_pages}
      BY <1>2, ExtendPopFreeSet DEF AllocExtend, ExtendPopFields
    <2>2. NewPages \subseteq 1 .. (MaxPages - 1) /\ NewPages \cap live = {}
      BY <1>0, <1>2, DiskConstants DEF NewPages, NewTotal, AllocExtend, ExtendPopFields, CanExtend
    <2>3. Alloc!Grown(NewPages) BY <2>1, <2>2 DEF Alloc!Grown
    <2>4. Alloc!Allocate(total_pages) BY <2>1, <2>2, <2>3 DEF Alloc!Allocate
    <2>5. QED BY <2>1, <2>2, <2>4 DEF Alloc!AllocNext
  <1>3. CASE disk_extend
    <2>1. FreeSet' = FreeSet \cup NewPages /\ live' = live
      BY <1>3, ExtendFreeSet DEF disk_extend
    <2>2. /\ NewPages \subseteq 1 .. (MaxPages - 1)
          /\ NewPages \cap (FreeSet \cup live) = {}
      BY <1>0, <1>3, DiskConstants DEF NewPages, NewTotal, disk_extend, CanExtend
    <2>3. Alloc!Grown(NewPages) BY <2>2 DEF Alloc!Grown
    <2>4. Alloc!Grow BY <2>1, <2>2, <2>3 DEF Alloc!Grow
    <2>5. QED BY <2>4 DEF Alloc!AllocNext
  <1>4. CASE \E p \in PageId : disk_free_page(p)
    <2>1. PICK p \in PageId : disk_free_page(p) BY <1>4
    <2>2. FreeSet' = FreeSet \cup {p} /\ live' = live \ {p} /\ p \in live
      BY <2>1, FreePageFreeSet DEF disk_free_page, FreePage
    <2>3. Alloc!Release(p) BY <2>2 DEF Alloc!Release
    <2>4. QED BY <2>3 DEF Alloc!AllocNext, PageId
  <1>5. CASE \/ \E q \in PageId : disk_extend_fail(q)
             \/ \E p \in PageId, w \in Words : disk_write_page(p, w)
             \/ disk_manager_close
             \/ disk_manager_open
             \/ UNCHANGED diskVars
    <2>1. stack' = stack /\ live' = live
      BY <1>5 DEF disk_extend_fail, disk_write_page, disk_manager_close,
                  disk_manager_open, diskVars
    <2>2. QED BY <2>1 DEF FreeSet
  <1>6. QED BY <1>1, <1>2, <1>3, <1>4, <1>5 DEF DiskNext, disk_alloc_page

\* Page ownership: the disk manager implements PageAllocator, for every file
\* size and extension step.
THEOREM OwnershipTheorem == DiskSpec => ImplementsAllocator
  <1>1. DiskInit => Alloc!AllocInit
    BY InitFreeSet DEF Alloc!AllocInit, DiskInit
  <1>2. DiskInv /\ [DiskNext]_diskVars => [Alloc!AllocNext]_(Alloc!allocVars)
    BY StepRefines
  <1>3. QED
    BY <1>1, <1>2, DiskInvariant, PTL DEF DiskSpec, ImplementsAllocator, Alloc!AllocSpec

-----------------------------------------------------------------------------
(* Pages in use keep their content.                                       *)

\* A step that changes the content of a page in use is its owner's
\* disk_write_page.
LEMMA StepKeepsLive ==
  ASSUME DiskInv, DiskNext, NEW p \in live \cap live', disk'[p] # disk[p]
  PROVE  \E w \in Words : disk_write_page(p, w)
  <1> USE DEF DiskInv, FreeListSound, Partition
  <1>0. /\ total_pages \in Nat \ {0} /\ p \in 1 .. (total_pages - 1) /\ p \in PageId
        /\ p \notin FreeSet /\ disk \in [PageId -> Nat]
    BY DEF DiskTypeOK
  <1>1. ASSUME AllocPop PROVE FALSE
    <2>1. free_list_head \in FreeSet BY <1>1, PopFreeSet DEF AllocPop
    <2>2. QED BY <1>0, <1>1, <2>1 DEF AllocPop, PopFields, PoppedDisk
  <1>2. \A done : CanExtend /\ done \subseteq NewPages => ExtendedDisk(done)[p] = disk[p]
    BY <1>0, DiskConstants DEF ExtendedDisk, NewPages, NewTotal
  <1>3. ASSUME AllocExtend PROVE FALSE
    <2>1. p # total_pages BY <1>0
    <2>2. CanExtend BY <1>3 DEF AllocExtend, ExtendPopFields
    <2>3. disk'[p] = ExtendedDisk(NewPages)[p]
      BY <1>0, <1>3, <2>1 DEF AllocExtend, ExtendPopFields, ExtendPoppedDisk, ExtendedDisk
    <2>4. QED BY <1>2, <2>2, <2>3
  <1>4. ~disk_extend BY <1>2 DEF disk_extend
  <1>5. ASSUME NEW q \in PageId PROVE ~disk_extend_fail(q)
    <2>1. SUFFICES ASSUME disk_extend_fail(q) PROVE FALSE OBVIOUS
    <2>2. total_pages .. (q - 1) \subseteq NewPages
      BY <1>0, <2>1, DiskConstants DEF disk_extend_fail, NewPages, NewTotal, PageId
    <2>3. QED BY <1>2, <2>1, <2>2 DEF disk_extend_fail
  <1>6. ASSUME NEW q \in PageId PROVE ~disk_free_page(q)
    BY <1>0 DEF disk_free_page, FreePage
  <1>7. ~disk_manager_close /\ ~disk_manager_open
    BY DEF disk_manager_close, disk_manager_open
  <1>8. PICK q \in PageId, w \in Words : disk_write_page(q, w)
    BY <1>1, <1>3, <1>4, <1>5, <1>6, <1>7 DEF DiskNext, disk_alloc_page
  <1>9. q = p BY <1>0, <1>8 DEF disk_write_page
  <1>10. QED BY <1>8, <1>9

\* Only its owner's disk_write_page changes a page in use.
THEOREM LiveDataTheorem == DiskSpec => LiveDataKept
  <1>1. DiskInv /\ [DiskNext]_diskVars =>
          [\A p \in live \cap live' :
             disk'[p] # disk[p] => \E w \in Words : disk_write_page(p, w)]_diskVars
    BY StepKeepsLive
  <1>2. QED BY <1>1, DiskInvariant, PTL DEF DiskSpec, LiveDataKept

-----------------------------------------------------------------------------
(* The buffer pool.                                                        *)
\* The pins held on a frame are pins of the page in it, and its pin count is
\* their number.
PinsExact ==
  /\ \A f \in Frame, p \in PageId : holds[f][p] > 0 => page_ids[f] = p
  /\ \A f \in Frame : page_ids[f] # PAGE_ID_NULL => pin_counts[f] = holds[f][page_ids[f]]

\* Only pages in use are cached: what the pool writes back cannot hit the
\* free list.
CachedLive == \A f \in Frame : page_ids[f] # PAGE_ID_NULL => page_ids[f] \in live

\* A clean frame holds what is on disk.
CleanSame ==
  \A f \in Frame : page_ids[f] # PAGE_ID_NULL /\ ~dirty_flags[f] => pages[f] = disk[page_ids[f]]

\* The inductive invariant of the pool.
PoolInv == DiskInv /\ PoolTypeOK /\ OneCopy /\ PinsExact /\ CachedLive /\ CleanSame

-----------------------------------------------------------------------------
(* The frame that is chosen.                                               *)

\* The hand meets some frame of a non-empty set first.
LEMMA FirstMetFacts ==
  ASSUME NEW S, S \subseteq Frame, S # {}, NEW hand \in Frame
  PROVE  FirstMet(S, hand) \in S
  <1> DEFINE D == {Distance(f, hand) : f \in S}
  <1>1. \A f \in S : Distance(f, hand) \in Nat
    <2> SUFFICES ASSUME NEW f \in S PROVE Distance(f, hand) \in Nat OBVIOUS
    <2>1. f + PoolSize - hand \in Nat BY ClockConstants DEF Frame
    <2>2. QED BY <2>1, ClockConstants, ModFacts DEF Distance
  <1>2. D \subseteq Nat /\ D # {} BY <1>1
  <1>3. Min(D) \in D /\ \A d \in D : Min(D) <= d BY <1>2, MinFacts
  <1>4. PICK f \in S : Min(D) = Distance(f, hand) BY <1>3
  <1>5. \A g \in S : Distance(f, hand) <= Distance(g, hand) BY <1>3, <1>4
  <1>6. QED BY <1>5 DEF FirstMet

\* clock_evict finds an unpinned frame when there is one.
LEMMA VictimFacts ==
  ASSUME PoolTypeOK, Unpinned # {}
  PROVE  Victim \in Frame /\ pin_counts[Victim] = 0
  <1>1. clock_hand \in Frame BY DEF PoolTypeOK
  <1>2. /\ UnpinnedFrames(pin_counts) \subseteq Frame
        /\ ColdFrames(pin_counts, ref_bits) \subseteq UnpinnedFrames(pin_counts)
        /\ UnpinnedFrames(pin_counts) # {}
    BY DEF UnpinnedFrames, ColdFrames, Unpinned
  <1>3. Victim \in UnpinnedFrames(pin_counts)
    <2>1. CASE ColdFrames(pin_counts, ref_bits) # {}
      <3>1. Victim = FirstMet(ColdFrames(pin_counts, ref_bits), clock_hand)
        BY <2>1 DEF Victim, ClockVictim
      <3>2. QED BY <1>1, <1>2, <2>1, <3>1, FirstMetFacts
    <2>2. CASE ColdFrames(pin_counts, ref_bits) = {}
      <3>1. Victim = FirstMet(UnpinnedFrames(pin_counts), clock_hand)
        BY <2>2 DEF Victim, ClockVictim
      <3>2. QED BY <1>1, <1>2, <3>1, FirstMetFacts
    <2>3. QED BY <2>1, <2>2
  <1>4. QED BY <1>3 DEF UnpinnedFrames

\* The frame for a new page: a victim that nobody has pinned, whose page is
\* in use, or an empty frame.
LEMMA ChosenFacts ==
  ASSUME PoolInv, FrameFound
  PROVE  /\ Chosen \in Frame
         /\ \A p \in PageId : holds[Chosen][p] = 0
         /\ MustEvict => /\ Chosen = Victim
                         /\ page_ids[Chosen] \in PageId /\ page_ids[Chosen] \in live
                         /\ hash[page_ids[Chosen]] = Chosen
         /\ ~MustEvict => page_ids[Chosen] = PAGE_ID_NULL
  <1> USE DEF PoolInv
  <1>1. CASE MustEvict
    <2>1. Chosen = Victim /\ Victim \in Frame /\ pin_counts[Victim] = 0
      BY <1>1, VictimFacts DEF Chosen, FrameFound, MustEvict
    <2>2. page_ids[Victim] # PAGE_ID_NULL BY <1>1, <2>1 DEF MustEvict, Empty
    <2>3. page_ids[Victim] \in PageId BY <2>1, <2>2 DEF PoolTypeOK
    <2>4. page_ids[Victim] \in live /\ hash[page_ids[Victim]] = Victim
      BY <2>1, <2>2 DEF CachedLive, OneCopy
    <2>5. ASSUME NEW p \in PageId PROVE holds[Victim][p] = 0
      <3>1. holds[Victim][p] \in Nat BY <2>1, PoolConstants DEF PoolTypeOK
      <3>2. holds[Victim][p] > 0 => holds[Victim][p] = pin_counts[Victim]
        BY <2>1, <2>2 DEF PinsExact
      <3>3. QED BY <2>1, <3>1, <3>2
    <2>6. QED BY <1>1, <2>1, <2>3, <2>4, <2>5
  <1>2. CASE ~MustEvict
    <2>1. Empty # {} /\ Empty \subseteq Nat /\ Empty \subseteq Frame
      BY <1>2, ClockConstants DEF MustEvict, Empty, Frame
    <2>2. Chosen \in Empty BY <1>2, <2>1, MinFacts DEF Chosen
    <2>3. Chosen \in Frame /\ page_ids[Chosen] = PAGE_ID_NULL BY <2>1, <2>2 DEF Empty
    <2>4. ASSUME NEW p \in PageId PROVE holds[Chosen][p] = 0
      <3>1. holds[Chosen][p] \in Nat BY <2>3, PoolConstants DEF PoolTypeOK
      <3>2. p # PAGE_ID_NULL BY DEF PageId, PAGE_ID_NULL
      <3>3. QED BY <2>3, <3>1, <3>2 DEF PinsExact
    <2>5. QED BY <1>2, <2>3, <2>4
  <1>3. QED BY <1>1, <1>2

\* Writing back frames writes what they hold to their own pages, once,
\* since a page has one frame.
LEMMA FlushedFacts ==
  ASSUME PoolInv, NEW d \in [PageId -> Nat], NEW F, F \subseteq Frame
  PROVE  /\ Flushed(d, F) \in [PageId -> Nat]
         /\ \A p \in PageId : hash[p] \notin F => Flushed(d, F)[p] = d[p]
         /\ \A p \in PageId : hash[p] \in F =>
              Flushed(d, F)[p] = IF dirty_flags[hash[p]] THEN pages[hash[p]] ELSE d[p]
  <1> DEFINE writers(p) == {f \in F : dirty_flags[f] /\ page_ids[f] = p}
  <1>1. ASSUME NEW p \in PageId
        PROVE  /\ hash[p] \notin F => writers(p) = {}
               /\ hash[p] \in F =>
                    writers(p) = IF dirty_flags[hash[p]] THEN {hash[p]} ELSE {}
    <2>1. p # PAGE_ID_NULL BY DEF PageId, PAGE_ID_NULL
    <2>2. \A f \in F : page_ids[f] = p => hash[p] = f BY <2>1 DEF PoolInv, OneCopy
    <2>3. hash[p] \in F => page_ids[hash[p]] = p
      <3>1. hash[p] \in F => hash[p] # NoFrame BY ClockConstants DEF NoFrame, Frame
      <3>2. QED BY <3>1 DEF PoolInv, OneCopy
    <2>4. QED BY <2>2, <2>3
  <1>2. \A f \in Frame : Max({f}) = f BY DEF Max
  <1>3. ASSUME NEW p \in PageId
        PROVE  Flushed(d, F)[p] = IF writers(p) = {} THEN d[p] ELSE pages[Max(writers(p))]
    BY DEF Flushed
  <1>4. ASSUME NEW p \in PageId
        PROVE  Flushed(d, F)[p] = IF hash[p] \in F /\ dirty_flags[hash[p]]
                                  THEN pages[hash[p]] ELSE d[p]
    <2>1. CASE hash[p] \in F /\ dirty_flags[hash[p]]
      <3>1. writers(p) = {hash[p]} /\ hash[p] \in Frame BY <1>1, <2>1
      <3>2. QED BY <1>2, <1>3, <2>1, <3>1
    <2>2. CASE ~(hash[p] \in F /\ dirty_flags[hash[p]])
      <3>1. writers(p) = {} BY <1>1, <2>2
      <3>2. QED BY <1>3, <2>2, <3>1
    <2>3. QED BY <2>1, <2>2
  <1> HIDE DEF writers
  <1>5. \A p \in PageId : Flushed(d, F)[p] \in Nat
    BY <1>4 DEF PoolInv, PoolTypeOK
  <1>6. Flushed(d, F) = [p \in PageId |-> Flushed(d, F)[p]] BY DEF Flushed
  <1>7. Flushed(d, F) \in [PageId -> Nat] BY <1>5, <1>6
  <1>8. QED BY <1>4, <1>7

\* Evicting writes back the victim and nothing else.
LEMMA EvictedFacts ==
  ASSUME PoolInv, FrameFound, NEW d \in [PageId -> Nat]
  PROVE  /\ Evicted(d) \in [PageId -> Nat]
         /\ \A p \in PageId : p # page_ids[Chosen] => Evicted(d)[p] = d[p]
         /\ page_ids[Chosen] \in PageId /\ d[page_ids[Chosen]] = disk[page_ids[Chosen]] =>
              Evicted(d)[page_ids[Chosen]] = pages[Chosen]
  <1>1. CASE MustEvict
    <2>1. /\ Chosen = Victim /\ Victim \in Frame /\ page_ids[Victim] \in PageId
          /\ hash[page_ids[Victim]] = Victim
      BY <1>1, ChosenFacts
    <2>2. Evicted(d) = Flushed(d, {Victim}) BY <1>1 DEF Evicted
    <2>3. \A p \in PageId : p # page_ids[Victim] => hash[p] # Victim
      <3> SUFFICES ASSUME NEW p \in PageId, hash[p] = Victim PROVE p = page_ids[Victim]
        OBVIOUS
      <3>1. hash[p] # NoFrame BY <2>1, ClockConstants DEF NoFrame, Frame
      <3>2. QED BY <3>1 DEF PoolInv, OneCopy
    <2>4. /\ Flushed(d, {Victim}) \in [PageId -> Nat]
          /\ \A p \in PageId : hash[p] # Victim => Flushed(d, {Victim})[p] = d[p]
          /\ Flushed(d, {Victim})[page_ids[Victim]] =
               IF dirty_flags[Victim] THEN pages[Victim] ELSE d[page_ids[Victim]]
      BY <2>1, FlushedFacts
    <2>5. ~dirty_flags[Victim] => pages[Victim] = disk[page_ids[Victim]]
      <3>1. page_ids[Victim] # PAGE_ID_NULL BY <2>1 DEF PageId, PAGE_ID_NULL
      <3>2. QED BY <2>1, <3>1 DEF PoolInv, CleanSame
    <2>6. QED BY <2>1, <2>2, <2>3, <2>4, <2>5
  <1>2. CASE ~MustEvict
    <2>1. page_ids[Chosen] = PAGE_ID_NULL BY <1>2, ChosenFacts
    <2>2. page_ids[Chosen] \notin PageId BY <2>1 DEF PageId, PAGE_ID_NULL
    <2>3. Evicted(d) = d BY <1>2 DEF Evicted
    <2>4. QED BY <2>2, <2>3
  <1>3. QED BY <1>1, <1>2

\* The reference bits and the hand after the search have their types.
LEMMA SweepTypes ==
  ASSUME PoolTypeOK, FrameFound
  PROVE  SweptBits \in [Frame -> BOOLEAN] /\ MovedHand \in Frame
  <1>1. SweptBits \in [Frame -> BOOLEAN]
    <2>1. ClockRefBits(pin_counts, ref_bits, clock_hand) \in [Frame -> BOOLEAN]
      BY DEF ClockRefBits
    <2>2. QED BY <2>1 DEF SweptBits, PoolTypeOK
  <1>2. MovedHand \in Frame
    <2>1. CASE MustEvict
      <3>1. Victim \in Frame BY <2>1, VictimFacts DEF FrameFound, MustEvict
      <3>2. Victim + 1 \in Nat BY <3>1, ClockConstants DEF Frame
      <3>3. QED BY <2>1, <3>2, ClockConstants, ModFacts DEF MovedHand, Frame
    <2>2. QED BY <2>1 DEF MovedHand, PoolTypeOK
  <1>3. QED BY <1>1, <1>2

-----------------------------------------------------------------------------
(* One step per operation.                                                 *)

\* The page table after a page got the chosen frame: the victim's page is
\* out, the new one in.
LEMMA InstallHash ==
  ASSUME PoolInv, FrameFound, NEW p \in PageId, NEW w, NEW dirty, Install(p, w, dirty)
  PROVE  \A q \in PageId :
           hash'[q] = IF q = p THEN Chosen ELSE IF q = page_ids[Chosen] THEN NoFrame ELSE hash[q]
  <1> USE DEF PoolInv
  <1>1. PAGE_ID_NULL \notin PageId BY DEF PageId, PAGE_ID_NULL
  <1>2. \A q \in PageId : Unmapped[q] = IF q = page_ids[Chosen] THEN NoFrame ELSE hash[q]
    <2>1. CASE MustEvict
      <3>1. Unmapped = [hash EXCEPT ![page_ids[Chosen]] = NoFrame]
        BY <2>1 DEF Unmapped, Chosen
      <3>2. QED BY <3>1 DEF PoolTypeOK
    <2>2. CASE ~MustEvict
      <3>1. Unmapped = hash /\ page_ids[Chosen] \notin PageId
        BY <1>1, <2>2, ChosenFacts DEF Unmapped
      <3>2. QED BY <3>1
    <2>3. QED BY <2>1, <2>2
  <1>3. DOMAIN Unmapped = PageId BY DEF Unmapped, PoolTypeOK
  <1>4. QED BY <1>2, <1>3 DEF Install

\* A page that is not cached gets the chosen frame.
LEMMA InstallInv ==
  ASSUME PoolInv, FrameFound, NEW p \in PageId, hash[p] = NoFrame, NEW w \in Nat,
         NEW dirty \in BOOLEAN, Install(p, w, dirty), DiskInv',
         p \in live', live \subseteq live',
         \A q \in live : q # page_ids[Chosen] => disk'[q] = disk[q],
         ~dirty => w = disk'[p]
  PROVE  PoolInv'
  <1> USE DEF PoolInv
  <1> DEFINE c == Chosen
  <1>1. /\ c \in Frame /\ \A q \in PageId : holds[c][q] = 0
        /\ page_ids[c] # PAGE_ID_NULL => page_ids[c] \in PageId /\ hash[page_ids[c]] = c
    BY ChosenFacts
  <1>2. PAGE_ID_NULL \notin PageId /\ NoFrame \notin Frame
    BY ClockConstants DEF PageId, PAGE_ID_NULL, NoFrame, Frame
  <1>3. \A q \in PageId :
          hash'[q] = IF q = p THEN c ELSE IF q = page_ids[c] THEN NoFrame ELSE hash[q]
    BY InstallHash
  <1>4. /\ \A f \in Frame : page_ids'[f] = IF f = c THEN p ELSE page_ids[f]
        /\ \A f \in Frame : pin_counts'[f] = IF f = c THEN 1 ELSE pin_counts[f]
        /\ \A f \in Frame : dirty_flags'[f] = IF f = c THEN dirty ELSE dirty_flags[f]
        /\ \A f \in Frame : pages'[f] = IF f = c THEN w ELSE pages[f]
    BY <1>1 DEF Install, PoolTypeOK
  <1>5. \A f \in Frame, q \in PageId :
          holds'[f][q] = IF f = c /\ q = p THEN 1 ELSE holds[f][q]
    BY <1>1 DEF Install, PoolTypeOK
  <1>6. PoolTypeOK'
    <2>1. DiskTypeOK' BY DEF DiskInv
    <2>2. page_ids' \in [Frame -> {PAGE_ID_NULL} \cup PageId] BY DEF Install, PoolTypeOK
    <2>3. pin_counts' \in [Frame -> 0 .. PinLimit]
      <3>1. 1 \in 0 .. PinLimit BY PoolConstants
      <3>2. QED BY <3>1 DEF Install, PoolTypeOK
    <2>4. dirty_flags' \in [Frame -> BOOLEAN] BY DEF Install, PoolTypeOK
    <2>5. ref_bits' \in [Frame -> BOOLEAN] /\ clock_hand' \in Frame
      BY SweepTypes DEF Install
    <2>6. pages' \in [Frame -> Nat] BY DEF Install, PoolTypeOK
    <2>7. hash' \in [PageId -> Frame \cup {NoFrame}]
      <3>1. hash' = [q \in PageId |-> hash'[q]] BY DEF Install, Unmapped, PoolTypeOK
      <3>2. \A q \in PageId : hash'[q] \in Frame \cup {NoFrame}
        BY <1>1, <1>3 DEF PoolTypeOK
      <3>3. QED BY <3>1, <3>2
    <2>8. holds' \in [Frame -> [PageId -> 0 .. MaxHolds]]
      <3>1. holds[c][p] + 1 \in 0 .. MaxHolds BY <1>1, PoolConstants
      <3>2. holds' = [holds EXCEPT ![c] = [holds[c] EXCEPT ![p] = holds[c][p] + 1]]
        BY DEF Install
      <3>3. QED BY <1>1, <3>1, <3>2 DEF PoolTypeOK
    <2>9. lost' \subseteq live' BY DEF Install, PoolTypeOK
    <2>10. QED BY <2>1, <2>2, <2>3, <2>4, <2>5, <2>6, <2>7, <2>8, <2>9 DEF PoolTypeOK
  <1>7. \A f \in Frame : f # c /\ page_ids[f] # PAGE_ID_NULL =>
          page_ids[f] \in PageId /\ page_ids[f] # p /\ page_ids[f] # page_ids[c]
    BY <1>1, <1>2 DEF OneCopy, PoolTypeOK
  <1>8. OneCopy'
    <2>1. ASSUME NEW q \in PageId, hash'[q] # NoFrame PROVE page_ids'[hash'[q]] = q
      <3>1. CASE q = p BY <1>1, <1>3, <1>4, <3>1
      <3>2. CASE q # p
        <4>1. q # page_ids[c] /\ hash'[q] = hash[q] BY <1>3, <2>1, <3>2
        <4>2. hash[q] \in Frame /\ page_ids[hash[q]] = q
          BY <2>1, <4>1 DEF OneCopy, PoolTypeOK
        <4>3. QED BY <1>4, <4>1, <4>2
      <3>3. QED BY <3>1, <3>2
    <2>2. ASSUME NEW f \in Frame, page_ids'[f] # PAGE_ID_NULL PROVE hash'[page_ids'[f]] = f
      <3>1. CASE f = c BY <1>3, <1>4, <3>1
      <3>2. CASE f # c BY <1>3, <1>4, <1>7, <2>2, <3>2 DEF OneCopy
      <3>3. QED BY <3>1, <3>2
    <2>3. QED BY <2>1, <2>2 DEF OneCopy
  <1>9. PinsExact'
    <2>1. ASSUME NEW f \in Frame, NEW q \in PageId, holds'[f][q] > 0 PROVE page_ids'[f] = q
      <3>1. CASE f = c BY <1>1, <1>4, <1>5, <2>1, <3>1
      <3>2. CASE f # c BY <1>4, <1>5, <2>1, <3>2 DEF PinsExact
      <3>3. QED BY <3>1, <3>2
    <2>2. ASSUME NEW f \in Frame, page_ids'[f] # PAGE_ID_NULL
          PROVE  pin_counts'[f] = holds'[f][page_ids'[f]]
      <3>1. CASE f = c BY <1>4, <1>5, <3>1
      <3>2. CASE f # c BY <1>4, <1>5, <1>7, <2>2, <3>2 DEF PinsExact
      <3>3. QED BY <3>1, <3>2
    <2>3. QED BY <2>1, <2>2 DEF PinsExact
  <1>10. CachedLive' BY <1>4 DEF CachedLive
  <1>11. CleanSame' BY <1>4, <1>7 DEF CleanSame, CachedLive
  <1>12. QED BY <1>6, <1>8, <1>9, <1>10, <1>11

\* The disk manager's invariant in a step that leaves its variables alone.
LEMMA DiskKept == DiskInv /\ UNCHANGED diskVars => DiskInv'
  BY DEF diskVars, DiskInv, DiskTypeOK, FreeListSound, HeaderCurrent, FlushedHeader,
         ChainIntact, ChainAcyclic, Partition, FreeSet

\* Writing pages in use keeps the disk manager's invariant, also when the
\* file is closed on the way.
LEMMA WriteBackInv ==
  ASSUME DiskInv, disk' \in [PageId -> Nat], \A q \in PageId \ live : disk'[q] = disk[q],
         UNCHANGED <<total_pages, free_list_head, free_page_count, file_pages, live, stack>>,
         fd' \in BOOLEAN, header' \in Header, HeaderCurrent'
  PROVE  DiskInv'
  <1>1. DiskTypeOK' BY DEF DiskInv, DiskTypeOK
  <1>2. FreeSet' = FreeSet /\ FreeSet \subseteq PageId \ live
    BY DEF FreeSet, DiskInv, DiskTypeOK, FreeListSound, Partition
  <1>3. \A i \in 1 .. Len(stack) : disk'[stack[i]] = disk[stack[i]] BY <1>2 DEF FreeSet
  <1>4. FreeListSound'
    BY <1>2, <1>3 DEF DiskInv, FreeListSound, ChainIntact, ChainAcyclic, Partition
  <1>5. QED BY <1>1, <1>4 DEF DiskInv

\* A step that leaves pages in use and frames alone, but for reference bits
\* and hand, keeps the invariant.
LEMMA FramesKeptInv ==
  ASSUME PoolInv, DiskInv', live \subseteq live', \A q \in live : disk'[q] = disk[q],
         UNCHANGED <<page_ids, pin_counts, dirty_flags, pages, hash, holds, lost>>,
         ref_bits' \in [Frame -> BOOLEAN], clock_hand' \in Frame
  PROVE  PoolInv'
  <1> USE DEF PoolInv
  <1>1. PoolTypeOK' BY DEF PoolTypeOK, DiskInv
  <1>2. OneCopy' BY DEF OneCopy
  <1>3. PinsExact' BY DEF PinsExact
  <1>4. CachedLive' BY DEF CachedLive
  <1>5. CleanSame' BY DEF CleanSame, CachedLive
  <1>6. QED BY <1>1, <1>2, <1>3, <1>4, <1>5

\* A frame a client holds is the cached copy of its page.
LEMMA HeldFacts ==
  ASSUME PoolInv, NEW f \in Frame, NEW p \in PageId, holds[f][p] > 0
  PROVE  page_ids[f] = p /\ hash[p] = f /\ pin_counts[f] = holds[f][p] /\ p \in live
  <1>1. page_ids[f] = p /\ p # PAGE_ID_NULL
    BY DEF PoolInv, PinsExact, PageId, PAGE_ID_NULL
  <1>2. QED BY <1>1 DEF PoolInv, PinsExact, OneCopy, CachedLive

LEMMA CachedFacts ==
  ASSUME PoolInv, NEW p \in PageId, hash[p] # NoFrame
  PROVE  hash[p] \in Frame /\ page_ids[hash[p]] = p /\ p \in live
  <1>1. hash[p] \in Frame /\ page_ids[hash[p]] = p BY DEF PoolInv, PoolTypeOK, OneCopy
  <1>2. p # PAGE_ID_NULL BY DEF PageId, PAGE_ID_NULL
  <1>3. QED BY <1>1, <1>2 DEF PoolInv, CachedLive

\* buffer_pool_pin of a cached page.
LEMMA PinHitInv ==
  ASSUME PoolInv, MaxHolds <= PinLimit, NEW p \in PageId, PinHit(p)
  PROVE  PoolInv'
  <1> USE DEF PoolInv
  <1> DEFINE f == hash[p]
  <1>1. f \in Frame /\ page_ids[f] = p BY CachedFacts DEF PinHit
  <1>2. PAGE_ID_NULL \notin PageId BY DEF PageId, PAGE_ID_NULL
  <1>3. pin_counts[f] = holds[f][p] BY <1>1, <1>2 DEF PinsExact
  <1>4. holds[f][p] \in 0 .. MaxHolds /\ holds[f][p] < MaxHolds
    BY <1>1 DEF PinHit, PoolTypeOK
  <1>5. (pin_counts[f] + 1) % (PinLimit + 1) = pin_counts[f] + 1
    <2>1. pin_counts[f] + 1 \in Nat /\ PinLimit + 1 \in Nat /\ PinLimit + 1 > 0
          /\ pin_counts[f] + 1 < PinLimit + 1
      BY <1>3, <1>4, PoolConstants
    <2>2. QED BY <2>1, ModFacts
  <1>6. pin_counts' = [pin_counts EXCEPT ![f] = pin_counts[f] + 1]
    BY <1>5 DEF PinHit
  <1>7. \A g \in Frame : pin_counts'[g] = IF g = f THEN pin_counts[f] + 1 ELSE pin_counts[g]
    BY <1>1, <1>6 DEF PoolTypeOK
  <1>8. \A g \in Frame, q \in PageId :
          holds'[g][q] = IF g = f /\ q = p THEN holds[f][p] + 1 ELSE holds[g][q]
    BY <1>1 DEF PinHit, PoolTypeOK
  <1>9. PoolTypeOK'
    <2>1. pin_counts[f] + 1 \in 0 .. PinLimit BY <1>3, <1>4, PoolConstants
    <2>2. pin_counts' \in [Frame -> 0 .. PinLimit] BY <1>1, <1>6, <2>1 DEF PoolTypeOK
    <2>3. holds' \in [Frame -> [PageId -> 0 .. MaxHolds]]
      <3>1. holds[f][p] + 1 \in 0 .. MaxHolds BY <1>4, PoolConstants
      <3>2. holds' = [holds EXCEPT ![f] = [holds[f] EXCEPT ![p] = holds[f][p] + 1]]
        BY DEF PinHit
      <3>3. QED BY <1>1, <3>1, <3>2 DEF PoolTypeOK
    <2>4. ref_bits' \in [Frame -> BOOLEAN] BY DEF PinHit, PoolTypeOK
    <2>5. QED BY <2>2, <2>3, <2>4 DEF PinHit, PoolTypeOK, DiskTypeOK, diskVars
  <1>10. UNCHANGED <<diskVars, page_ids, dirty_flags, pages, clock_hand, hash>>
    BY DEF PinHit
  <1> HIDE DEF f
  <1>11. OneCopy' BY <1>10 DEF OneCopy
  <1>12. PinsExact'
    <2>1. ASSUME NEW g \in Frame, NEW q \in PageId, holds'[g][q] > 0 PROVE page_ids'[g] = q
      BY <1>1, <1>8, <1>10, <2>1 DEF PinsExact
    <2>2. ASSUME NEW g \in Frame, page_ids'[g] # PAGE_ID_NULL
          PROVE  pin_counts'[g] = holds'[g][page_ids'[g]]
      <3>1. page_ids'[g] = page_ids[g] /\ page_ids[g] \in PageId
        BY <1>10, <2>2 DEF PoolTypeOK
      <3>2. QED BY <1>1, <1>3, <1>7, <1>8, <2>2, <3>1 DEF PinsExact
    <2>3. QED BY <2>1, <2>2 DEF PinsExact
  <1>13. CachedLive' /\ CleanSame' BY <1>10 DEF CachedLive, CleanSame, diskVars
  <1>14. DiskInv' BY <1>10, DiskKept
  <1>15. QED BY <1>9, <1>11, <1>12, <1>13, <1>14

\* buffer_pool_pin of a page that is not cached: what reaches the disk.
LEMMA PinMissFacts ==
  ASSUME PoolInv, NEW p \in PageId, p \in live, PinMiss(p)
  PROVE  /\ FrameFound /\ hash[p] = NoFrame /\ live' = live
         /\ disk'[p] \in Nat /\ Install(p, disk'[p], FALSE)
         /\ DiskInv'
         /\ \A q \in live : q # page_ids[Chosen] => disk'[q] = disk[q]
         /\ page_ids[Chosen] \in PageId => disk'[page_ids[Chosen]] = pages[Chosen]
  <1>1. FrameFound /\ hash[p] = NoFrame /\ Install(p, disk'[p], FALSE) BY DEF PinMiss
  <1>2. disk \in [PageId -> Nat] /\ live \subseteq PageId BY DEF PoolInv, DiskInv, DiskTypeOK
  <1>3. /\ disk' \in [PageId -> Nat]
        /\ \A q \in PageId : q # page_ids[Chosen] => disk'[q] = disk[q]
        /\ page_ids[Chosen] \in PageId => disk'[page_ids[Chosen]] = pages[Chosen]
    BY <1>1, <1>2, EvictedFacts DEF PinMiss
  <1>4. page_ids[Chosen] \in PageId => page_ids[Chosen] \in live
    BY <1>1, ChosenFacts DEF PageId, PAGE_ID_NULL
  <1>5. DiskInv'
    <2>1. \A q \in PageId \ live : disk'[q] = disk[q] BY <1>3, <1>4
    <2>2. UNCHANGED <<fd, total_pages, free_list_head, free_page_count, header,
                      file_pages, live, stack>>
      BY DEF PinMiss
    <2>3. HeaderCurrent' /\ fd' \in BOOLEAN /\ header' \in Header
      BY <2>2 DEF PoolInv, DiskInv, DiskTypeOK, HeaderCurrent, FlushedHeader
    <2>4. QED BY <1>3, <2>1, <2>2, <2>3, WriteBackInv DEF PoolInv
  <1>6. live' = live BY DEF PinMiss
  <1>7. QED BY <1>1, <1>2, <1>3, <1>5, <1>6

LEMMA PinMissInv ==
  ASSUME PoolInv, NEW p \in PageId, p \in live, PinMiss(p)
  PROVE  PoolInv'
  BY PinMissFacts, InstallInv

\* A victim that cannot be written: only the sweep has happened.
LEMMA EvictFailInv ==
  ASSUME PoolInv, EvictFail, DiskInv', live \subseteq live', \A q \in live : disk'[q] = disk[q]
  PROVE  PoolInv'
  <1>1. SweptBits \in [Frame -> BOOLEAN] /\ MovedHand \in Frame
    BY SweepTypes DEF PoolInv, EvictFail, FrameFound
  <1>2. QED BY <1>1, FramesKeptInv DEF EvictFail

\* The page disk_alloc_page returns is in no frame, and writing the victim
\* back misses the free list.
LEMMA AllocPageFacts ==
  ASSUME PoolInv, AllocPage
  PROVE  /\ FrameFound
         /\ \E p \in PageId :
              /\ p \notin live /\ live' = live \cup {p}
              /\ hash[p] = NoFrame /\ Install(p, 0, TRUE)
         /\ DiskInv'
         /\ \A q \in live : q # page_ids[Chosen] => disk'[q] = disk[q]
         /\ page_ids[Chosen] \in PageId => disk'[page_ids[Chosen]] = pages[Chosen]
  <1> USE DEF PoolInv
  <1>1. FrameFound BY DEF AllocPage
  <1>2. page_ids[Chosen] \in PageId => page_ids[Chosen] \in live
    BY <1>1, ChosenFacts DEF PageId, PAGE_ID_NULL
  <1>3. live \subseteq PageId /\ disk \in [PageId -> Nat]
    BY DEF DiskInv, DiskTypeOK
  <1>4. live \cap FreeSet = {} /\ live \cup FreeSet = 1 .. (total_pages - 1)
    BY DEF DiskInv, FreeListSound, Partition
  <1>5. CASE PopFields /\ disk' = Evicted(PoppedDisk) /\ Install(free_list_head, 0, TRUE)
    <2> DEFINE p == free_list_head
    <2>1. p \in FreeSet /\ FreeSet' = FreeSet \ {p} BY <1>5, PopFreeSet
    <2>2. p \in PageId /\ p \notin live
      BY <1>4, <2>1, DiskConstants DEF DiskInv, DiskTypeOK, PageId
    <2>3. PoppedDisk \in [PageId -> Nat] /\ \A q \in PageId \ {p} : PoppedDisk[q] = disk[q]
      BY <1>3 DEF PoppedDisk
    <2>4. /\ disk' \in [PageId -> Nat]
          /\ \A q \in PageId : q # page_ids[Chosen] => disk'[q] = PoppedDisk[q]
          /\ page_ids[Chosen] \in PageId => disk'[page_ids[Chosen]] = pages[Chosen]
      BY <1>1, <1>2, <1>5, <2>2, <2>3, EvictedFacts
    <2>5. \A q \in FreeSet' : disk'[q] = disk[q]
      <3>1. FreeSet \subseteq PageId
        BY <1>4, DiskConstants DEF DiskInv, DiskTypeOK, PageId
      <3>2. QED BY <1>2, <1>4, <2>1, <2>3, <2>4, <3>1
    <2>6. DiskInv' BY <1>5, <2>4, <2>5, PopInv
    <2>7. hash[p] = NoFrame BY <2>2, CachedFacts
    <2>8. live' = live \cup {p} BY <1>5 DEF PopFields
    <2>9. \A q \in live : q # page_ids[Chosen] => disk'[q] = disk[q]
      BY <1>3, <2>2, <2>3, <2>4
    <2> HIDE DEF p
    <2>10. Install(p, 0, TRUE) BY <1>5 DEF p
    <2>11. QED BY <1>1, <2>2, <2>4, <2>6, <2>7, <2>8, <2>9, <2>10
  <1>6. CASE ExtendPopFields /\ disk' = Evicted(ExtendPoppedDisk) /\ Install(total_pages, 0, TRUE)
    <2> DEFINE p == total_pages
    <2>1. FreeSet' = NewPages \ {p} /\ p \in NewPages BY <1>6, ExtendPopFreeSet
    <2>2. total_pages \in Nat /\ NewTotal \in Nat /\ NewTotal <= MaxPages /\ 2 <= total_pages
      BY <1>6, DiskConstants
      DEF DiskInv, DiskTypeOK, ExtendPopFields, CanExtend, NewTotal
    <2>3. p \in PageId /\ p \notin live /\ NewPages \subseteq PageId
      BY <1>4, <2>1, <2>2, DiskConstants DEF PageId, NewPages
    <2>4. \A q \in live : q \notin NewPages /\ q < NewTotal /\ q # p
      BY <1>4, <2>2, DiskConstants DEF NewPages, NewTotal
    <2>5. ExtendPoppedDisk \in [PageId -> Nat]
      BY ExtendPoppedDiskType DEF DiskInv
    <2>6. \A q \in live : ExtendPoppedDisk[q] = disk[q]
      BY <1>3, <2>4 DEF ExtendPoppedDisk, ExtendedDisk
    <2>7. /\ disk' \in [PageId -> Nat]
          /\ \A q \in PageId : q # page_ids[Chosen] => disk'[q] = ExtendPoppedDisk[q]
          /\ page_ids[Chosen] \in PageId => disk'[page_ids[Chosen]] = pages[Chosen]
      BY <1>1, <1>2, <1>6, <2>5, <2>6, EvictedFacts
    <2>8. \A q \in FreeSet' : disk'[q] = ExtendPoppedDisk[q]
      BY <1>2, <2>1, <2>3, <2>4, <2>7
    <2>9. DiskInv' BY <1>6, <2>7, <2>8, ExtendPopInv
    <2>10. hash[p] = NoFrame BY <2>3, CachedFacts
    <2>11. live' = live \cup {p} BY <1>6 DEF ExtendPopFields
    <2>12. \A q \in live : q # page_ids[Chosen] => disk'[q] = disk[q]
      BY <1>3, <2>6, <2>7
    <2> HIDE DEF p
    <2>13. Install(p, 0, TRUE) BY <1>6 DEF p
    <2>14. QED BY <1>1, <2>3, <2>7, <2>9, <2>10, <2>11, <2>12, <2>13
  <1>7. QED BY <1>5, <1>6 DEF AllocPage

LEMMA AllocPageInv ==
  ASSUME PoolInv, AllocPage
  PROVE  PoolInv'
  <1>1. PICK p \in PageId : live' = live \cup {p} /\ hash[p] = NoFrame /\ Install(p, 0, TRUE)
    BY AllocPageFacts
  <1>2. p \in live' /\ live \subseteq live' BY <1>1
  <1>3. QED BY <1>1, <1>2, AllocPageFacts, InstallInv

\* disk_extend leaves pages in use alone.
LEMMA ExtendKeepsLive ==
  ASSUME DiskInv, disk_extend
  PROVE  live' = live /\ \A q \in live : disk'[q] = disk[q]
  <1>1. live \cup FreeSet = 1 .. (total_pages - 1) /\ live \subseteq PageId
    BY DEF DiskInv, DiskTypeOK, FreeListSound, Partition
  <1>2. \A q \in live : q \notin NewPages /\ q < NewTotal
    BY <1>1, DiskConstants DEF DiskInv, DiskTypeOK, NewPages, NewTotal
  <1>3. QED BY <1>1, <1>2 DEF disk_extend, ExtendedDisk

\* A buffer_pool_alloc_page that fails.
LEMMA AllocPageFailInv ==
  ASSUME PoolInv, AllocPageFail
  PROVE  PoolInv'
  <1>1. DiskInv' /\ live' = live /\ \A q \in live : disk'[q] = disk[q]
    <2>1. CASE UNCHANGED diskVars BY <2>1, DiskKept DEF PoolInv, diskVars
    <2>2. CASE disk_extend BY <2>2, ExtendInv, ExtendKeepsLive DEF PoolInv
    <2>3. QED BY <2>1, <2>2 DEF AllocPageFail
  <1>2. CASE UNCHANGED poolVars
    BY <1>1, <1>2, FramesKeptInv DEF poolVars, PoolInv, PoolTypeOK
  <1>3. CASE EvictFail BY <1>1, <1>3, EvictFailInv
  <1>4. QED BY <1>2, <1>3 DEF AllocPageFail

\* A client's write reaches the frame that holds its page, and marks it.
LEMMA WriteAndMarkDirtyInv ==
  ASSUME PoolInv, NEW f \in Frame, NEW p \in PageId, NEW w \in Words,
         WriteAndMarkDirty(f, p, w)
  PROVE  PoolInv'
  <1> USE DEF PoolInv
  <1>1. hash[p] = f /\ f # NoFrame
    BY HeldFacts, ClockConstants DEF WriteAndMarkDirty, NoFrame, Frame
  <1>2. /\ dirty_flags' = [dirty_flags EXCEPT ![f] = TRUE]
        /\ pages' = [pages EXCEPT ![f] = w]
        /\ UNCHANGED <<diskVars, page_ids, pin_counts, ref_bits, clock_hand, hash, holds, lost>>
    BY <1>1 DEF WriteAndMarkDirty
  <1>3. DiskInv' BY <1>2, DiskKept
  <1>4. w \in Nat BY DiskConstants
  <1>5. PoolTypeOK'
    <2>1. DiskTypeOK' BY <1>3 DEF DiskInv
    <2>2. QED BY <1>2, <1>4, <2>1 DEF PoolTypeOK, diskVars
  <1>6. OneCopy' /\ PinsExact' BY <1>2 DEF OneCopy, PinsExact
  <1>7. CachedLive' BY <1>2 DEF CachedLive, diskVars
  <1>8. CleanSame' BY <1>2 DEF CleanSame, PoolTypeOK, diskVars
  <1>9. QED BY <1>3, <1>5, <1>6, <1>7, <1>8

\* buffer_pool_unpin gives back the caller's pin, not another one.
LEMMA UnpinInv ==
  ASSUME PoolInv, NEW f \in Frame, NEW p \in PageId, Unpin(f, p)
  PROVE  PoolInv'
  <1> USE DEF PoolInv
  <1>1. /\ hash[p] = f /\ page_ids[f] = p /\ f # NoFrame
        /\ pin_counts[f] = holds[f][p] /\ holds[f][p] > 0
    BY HeldFacts, ClockConstants DEF Unpin, NoFrame, Frame
  <1>2. holds[f][p] \in 1 .. MaxHolds /\ pin_counts[f] \in 1 .. PinLimit
    BY <1>1, PoolConstants DEF PoolTypeOK
  <1>3. /\ pin_counts' = [pin_counts EXCEPT ![f] = pin_counts[f] - 1]
        /\ holds' = [holds EXCEPT ![f] = [holds[f] EXCEPT ![p] = holds[f][p] - 1]]
        /\ UNCHANGED <<diskVars, page_ids, dirty_flags, ref_bits, pages, clock_hand, hash, lost>>
    BY <1>1, <1>2 DEF Unpin
  <1>4. DiskInv' BY <1>3, DiskKept
  <1>5. PoolTypeOK'
    <2>1. DiskTypeOK' BY <1>4 DEF DiskInv
    <2>2. pin_counts[f] - 1 \in 0 .. PinLimit BY <1>2, PoolConstants
    <2>3. pin_counts' \in [Frame -> 0 .. PinLimit] BY <1>3, <2>2 DEF PoolTypeOK
    <2>4. holds[f][p] - 1 \in 0 .. MaxHolds BY <1>2, PoolConstants
    <2>5. holds' \in [Frame -> [PageId -> 0 .. MaxHolds]] BY <1>3, <2>4 DEF PoolTypeOK
    <2>6. QED BY <1>3, <2>1, <2>3, <2>5 DEF PoolTypeOK, diskVars
  <1>6. OneCopy' BY <1>3 DEF OneCopy
  <1>7. PinsExact'
    <2>1. \A g \in Frame : pin_counts'[g] = IF g = f THEN pin_counts[f] - 1 ELSE pin_counts[g]
      BY <1>3 DEF PoolTypeOK
    <2>2. \A g \in Frame, q \in PageId :
            holds'[g][q] = IF g = f /\ q = p THEN holds[f][p] - 1 ELSE holds[g][q]
      BY <1>3 DEF PoolTypeOK
    <2>3. ASSUME NEW g \in Frame, NEW q \in PageId, holds'[g][q] > 0 PROVE page_ids'[g] = q
      BY <1>1, <1>3, <2>2, <2>3 DEF PinsExact
    <2>4. ASSUME NEW g \in Frame, page_ids'[g] # PAGE_ID_NULL
          PROVE  pin_counts'[g] = holds'[g][page_ids'[g]]
      <3>1. page_ids'[g] = page_ids[g] /\ page_ids[g] \in PageId
        BY <1>3, <2>4 DEF PoolTypeOK
      <3>2. QED BY <1>1, <2>1, <2>2, <2>4, <3>1 DEF PinsExact
    <2>5. QED BY <2>3, <2>4 DEF PinsExact
  <1>8. CachedLive' /\ CleanSame' BY <1>3 DEF CachedLive, CleanSame, diskVars
  <1>9. QED BY <1>4, <1>5, <1>6, <1>7, <1>8

\* buffer_pool_flush and buffer_pool_flush_all.
LEMMA FlushFramesInv ==
  ASSUME PoolInv, NEW F, F \subseteq Frame, FlushFrames(F)
  PROVE  PoolInv'
  <1> USE DEF PoolInv
  <1>1. UNCHANGED <<page_ids, pin_counts, ref_bits, pages, clock_hand, hash, holds, lost, fd,
                    total_pages, free_list_head, free_page_count, header, file_pages,
                    live, stack>>
    BY DEF FlushFrames
  <1>2. \A f \in Frame :
          dirty_flags'[f] = (dirty_flags[f] /\ (f \notin F \/ page_ids[f] = PAGE_ID_NULL))
    BY DEF FlushFrames
  <1>3. disk \in [PageId -> Nat] BY DEF DiskInv, DiskTypeOK
  <1>4. /\ disk' \in [PageId -> Nat]
        /\ \A q \in PageId : hash[q] \notin F => disk'[q] = disk[q]
        /\ \A q \in PageId : hash[q] \in F =>
             disk'[q] = IF dirty_flags[hash[q]] THEN pages[hash[q]] ELSE disk[q]
    BY <1>3, FlushedFacts DEF FlushFrames
  <1>5. \A q \in PageId \ live : hash[q] \notin F
    BY CachedFacts, ClockConstants DEF NoFrame, Frame
  <1>6. DiskInv'
    <2>1. \A q \in PageId \ live : disk'[q] = disk[q] BY <1>4, <1>5
    <2>2. HeaderCurrent' /\ fd' \in BOOLEAN /\ header' \in Header
      BY <1>1 DEF DiskInv, DiskTypeOK, HeaderCurrent, FlushedHeader
    <2>3. QED BY <1>1, <1>4, <2>1, <2>2, WriteBackInv
  <1>7. PoolTypeOK'
    <2>1. DiskTypeOK' BY <1>6 DEF DiskInv
    <2>2. dirty_flags' \in [Frame -> BOOLEAN] BY DEF FlushFrames
    <2>3. QED BY <1>1, <2>1, <2>2 DEF PoolTypeOK
  <1>8. OneCopy' /\ PinsExact' /\ CachedLive' BY <1>1 DEF OneCopy, PinsExact, CachedLive
  <1>9. CleanSame'
    <2> SUFFICES ASSUME NEW f \in Frame, page_ids[f] # PAGE_ID_NULL, ~dirty_flags'[f]
                 PROVE  pages[f] = disk'[page_ids[f]]
      BY <1>1 DEF CleanSame
    <2>1. page_ids[f] \in PageId /\ hash[page_ids[f]] = f BY DEF PoolTypeOK, OneCopy
    <2>2. CASE f \in F BY <1>4, <2>1, <2>2 DEF CleanSame
    <2>3. CASE f \notin F BY <1>2, <1>4, <2>1, <2>3 DEF CleanSame
    <2>4. QED BY <2>2, <2>3
  <1>10. QED BY <1>6, <1>7, <1>8, <1>9

\* An empty pool.
PoolEmpty ==
  /\ page_ids = AllZero /\ pin_counts = AllZero
  /\ dirty_flags = AllFalse /\ ref_bits = AllFalse
  /\ pages = AllZero /\ clock_hand = 0 /\ hash = NoMapping
  /\ holds = NoPins
  /\ lost \subseteq live

LEMMA EmptyPoolInv == DiskInv /\ PoolEmpty => PoolInv
  <1> SUFFICES ASSUME DiskInv, PoolEmpty PROVE PoolInv OBVIOUS
  <1> USE DEF PoolEmpty
  <1>1. PoolTypeOK
    <2>1. 0 \in Frame /\ 0 \in 0 .. PinLimit /\ 0 \in 0 .. MaxHolds
      BY ClockConstants, PoolConstants DEF Frame
    <2>2. QED BY <2>1 DEF PoolTypeOK, AllZero, AllFalse, NoMapping, NoPins, DiskInv, PAGE_ID_NULL
  <1>2. \A f \in Frame : page_ids[f] = PAGE_ID_NULL BY DEF AllZero, PAGE_ID_NULL
  <1>3. \A p \in PageId : hash[p] = NoFrame BY DEF NoMapping
  <1>4. \A f \in Frame, p \in PageId : holds[f][p] = 0 BY DEF NoPins
  <1>5. QED BY <1>1, <1>2, <1>3, <1>4 DEF PoolInv, OneCopy, PinsExact, CachedLive, CleanSame

\* What nostr_db_shutdown leaves on disk, and the pages it loses.
LEMMA ShutdownFacts ==
  ASSUME PoolInv, Shutdown
  PROVE  \E F \in SUBSET Frame, L \in SUBSET live :
           /\ lost' = lost \cup L
           /\ disk' \in [PageId -> Nat]
           /\ \A q \in PageId : hash[q] \notin Frame \ F => disk'[q] = disk[q]
           /\ \A q \in PageId : hash[q] \in Frame \ F =>
                disk'[q] = IF dirty_flags[hash[q]] THEN pages[hash[q]] ELSE disk[q]
           /\ \A q \in PageId : hash[q] \in F => q \in L
  <1>1. disk \in [PageId -> Nat] BY DEF PoolInv, DiskInv, DiskTypeOK
  <1>2. PICK F \in SUBSET {f \in Frame : dirty_flags[f] /\ page_ids[f] # PAGE_ID_NULL} :
          disk' = Flushed(disk, Frame \ F) /\ lost' = lost \cup {page_ids[f] : f \in F}
    BY DEF Shutdown
  <1> DEFINE L == {page_ids[f] : f \in F}
  <1>3. /\ disk' \in [PageId -> Nat]
        /\ \A q \in PageId : hash[q] \notin Frame \ F => disk'[q] = disk[q]
        /\ \A q \in PageId : hash[q] \in Frame \ F =>
             disk'[q] = IF dirty_flags[hash[q]] THEN pages[hash[q]] ELSE disk[q]
    <2>1. Frame \ F \subseteq Frame OBVIOUS
    <2>2. QED BY <1>1, <1>2, <2>1, FlushedFacts
  <1>4. L \in SUBSET live BY DEF PoolInv, CachedLive
  <1>5. \A q \in PageId : hash[q] \in F => q \in L
    BY CachedFacts, ClockConstants DEF NoFrame, Frame
  <1> HIDE DEF L
  <1>6. lost' = lost \cup L BY <1>2 DEF L
  <1>7. F \in SUBSET Frame OBVIOUS
  <1>8. QED BY <1>3, <1>4, <1>5, <1>6, <1>7

\* nostr_db_shutdown: every dirty frame is on disk or lost.
LEMMA ShutdownInv ==
  ASSUME PoolInv, Shutdown
  PROVE  PoolInv'
  <1>1. /\ disk' \in [PageId -> Nat]
        /\ \A q \in PageId : hash[q] \notin Frame => disk'[q] = disk[q]
        /\ lost' \subseteq live
    BY ShutdownFacts DEF PoolInv, PoolTypeOK
  <1>2. live' = live BY DEF Shutdown
  <1>3. \A q \in PageId \ live : hash[q] \notin Frame
    BY CachedFacts, ClockConstants DEF NoFrame, Frame
  <1>4. header' = FlushedHeader /\ header' \in Header /\ HeaderCurrent'
    BY DiskConstants
    DEF Shutdown, FlushedHeader, Header, HeaderCurrent, PoolInv, DiskInv, DiskTypeOK
  <1>5. DiskInv' BY <1>1, <1>3, <1>4, WriteBackInv DEF Shutdown, PoolInv
  <1>6. PoolEmpty' BY <1>1, <1>2 DEF Shutdown, PoolEmpty
  <1>7. QED BY <1>5, <1>6, EmptyPoolInv, PTL

\* The inductive step.
LEMMA PoolNextInv ==
  ASSUME PoolInv, MaxHolds <= PinLimit, [PoolNext]_vars
  PROVE  PoolInv'
  <1>1. CASE \E p \in live : PinHit(p) \/ PinMiss(p) \/ PinFlushFail(p)
    <2>1. PICK p \in live : PinHit(p) \/ PinMiss(p) \/ PinFlushFail(p) BY <1>1
    <2>2. p \in PageId BY DEF PoolInv, DiskInv, DiskTypeOK
    <2>3. CASE PinHit(p) BY <2>2, <2>3, PinHitInv
    <2>4. CASE PinMiss(p) BY <2>2, <2>4, PinMissInv
    <2>5. CASE PinFlushFail(p)
      <3>1. DiskInv' BY <2>5, DiskKept DEF PinFlushFail, PoolInv
      <3>2. QED BY <2>5, <3>1, EvictFailInv DEF PinFlushFail, diskVars
    <2>6. QED BY <2>1, <2>3, <2>4, <2>5
  <1>2. ASSUME NEW p \in PageId, buffer_pool_flush(p) PROVE PoolInv'
    <2>1. {hash[p]} \subseteq Frame BY <1>2 DEF buffer_pool_flush, PoolInv, PoolTypeOK
    <2>2. QED BY <1>2, <2>1, FlushFramesInv DEF buffer_pool_flush
  <1>3. CASE AllocPage BY <1>3, AllocPageInv
  <1>4. CASE AllocPageFail BY <1>4, AllocPageFailInv
  <1>5. ASSUME NEW f \in Frame, NEW p \in PageId, NEW w \in Words, WriteAndMarkDirty(f, p, w)
        PROVE  PoolInv'
    BY <1>5, WriteAndMarkDirtyInv
  <1>6. ASSUME NEW f \in Frame, NEW p \in PageId, Unpin(f, p) PROVE PoolInv'
    BY <1>6, UnpinInv
  <1>7. CASE buffer_pool_flush_all
    <2>1. PICK n \in Frame : FlushFrames(0 .. n) BY <1>7 DEF buffer_pool_flush_all
    <2>2. 0 .. n \subseteq Frame BY ClockConstants DEF Frame
    <2>3. QED BY <2>1, <2>2, FlushFramesInv
  <1>8. CASE Shutdown BY <1>8, ShutdownInv
  <1>9. CASE Restart
    <2>1. DiskInv' BY <1>9, CloseOpenInv DEF Restart, PoolInv
    <2>2. QED
      BY <1>9, <2>1, FramesKeptInv DEF Restart, disk_manager_open, poolVars, PoolInv, PoolTypeOK
  <1>10. CASE UNCHANGED vars
    <2>1. DiskInv' BY <1>10, DiskKept DEF vars, PoolInv
    <2>2. QED
      BY <1>10, <2>1, FramesKeptInv DEF vars, diskVars, poolVars, PoolInv, PoolTypeOK
  <1>11. QED
    BY <1>1, <1>2, <1>3, <1>4, <1>5, <1>6, <1>7, <1>8, <1>9, <1>10 DEF PoolNext

LEMMA PoolInitInv == PoolInit => PoolInv
  BY InitInv, EmptyPoolInv DEF PoolInit, PoolEmpty

\* The pool's inductive invariant.
THEOREM PoolInvariant ==
  ASSUME MaxHolds <= PinLimit
  PROVE  PoolSpec => []PoolInv
  <1>1. PoolInv /\ [PoolNext]_vars => PoolInv' BY PoolNextInv
  <1>2. QED BY <1>1, PoolInitInv, PTL DEF PoolSpec

\* While clients hold at most PinLimit pins on a page, every variable of the
\* pool keeps its type: no count wraps and the hand stays in the pool.
THEOREM PoolTypes ==
  ASSUME MaxHolds <= PinLimit
  PROVE  PoolSpec => []PoolTypeOK
  <1>1. PoolInv => PoolTypeOK BY DEF PoolInv
  <1>2. QED BY <1>1, PoolInvariant, PTL

\* buffer_pool_pin's pointer stays good until the matching
\* buffer_pool_unpin, whatever is pinned, evicted and allocated meanwhile.
THEOREM PinTheorem ==
  ASSUME MaxHolds <= PinLimit
  PROVE  PoolSpec => []PinnedStays
  <1>1. PoolInv => PinnedStays BY HeldFacts DEF PinnedStays
  <1>2. QED BY <1>1, PoolInvariant, PTL

\* Page table and frames agree: a page never has two frames.
THEOREM OneCopyTheorem ==
  ASSUME MaxHolds <= PinLimit
  PROVE  PoolSpec => []OneCopy
  <1>1. PoolInv => OneCopy BY DEF PoolInv
  <1>2. QED BY <1>1, PoolInvariant, PTL

\* Used through the pool, the file's free list stays sound: writing back
\* evicted frames never hits a free page.
THEOREM PoolFreeList ==
  ASSUME MaxHolds <= PinLimit
  PROVE  PoolSpec => []FreeListSound
  <1>1. PoolInv => FreeListSound BY DEF PoolInv, DiskInv
  <1>2. QED BY <1>1, PoolInvariant, PTL

-----------------------------------------------------------------------------
(* What clients read: the pool implements PageStore.                       *)

\* Giving page p the chosen frame changes what page p reads, nothing else:
\* the victim's page reads from disk what it read from its frame.
LEMMA InstallContent ==
  ASSUME PoolInv, FrameFound, NEW p \in PageId, hash[p] = NoFrame, NEW w, NEW dirty,
         Install(p, w, dirty), live' = live \cup {p},
         \A q \in live : q # page_ids[Chosen] => disk'[q] = disk[q],
         page_ids[Chosen] \in PageId => disk'[page_ids[Chosen]] = pages[Chosen]
  PROVE  \A q \in PageId : ContentOf(q)' = IF q = p THEN w ELSE ContentOf(q)
  <1> USE DEF PoolInv
  <1>1. /\ Chosen \in Frame
        /\ page_ids[Chosen] \in PageId => hash[page_ids[Chosen]] = Chosen
    BY ChosenFacts DEF PageId, PAGE_ID_NULL
  <1>2. NoFrame \notin Frame BY ClockConstants DEF NoFrame, Frame
  <1>3. \A q \in PageId :
          hash'[q] = IF q = p THEN Chosen ELSE IF q = page_ids[Chosen] THEN NoFrame ELSE hash[q]
    BY InstallHash
  <1>4. \A f \in Frame : pages'[f] = IF f = Chosen THEN w ELSE pages[f]
    BY DEF Install, PoolTypeOK
  <1>5. TAKE q \in PageId
  <1>6. ContentOf(q)' = IF q \notin live' THEN 0
                        ELSE IF hash'[q] # NoFrame THEN pages'[hash'[q]] ELSE disk'[q]
    BY DEF ContentOf
  <1>7. CASE q = p BY <1>1, <1>2, <1>3, <1>4, <1>6, <1>7
  <1>8. CASE q # p /\ q = page_ids[Chosen]
    <2>1. ContentOf(q) = IF q \notin live THEN 0 ELSE pages[Chosen]
      BY <1>1, <1>2, <1>8 DEF ContentOf
    <2>2. ContentOf(q)' = IF q \notin live THEN 0 ELSE pages[Chosen]
      BY <1>3, <1>6, <1>8
    <2>3. QED BY <1>8, <2>1, <2>2
  <1>9. CASE q # p /\ q # page_ids[Chosen]
    <2>1. hash'[q] = hash[q] BY <1>3, <1>9
    <2>2. hash[q] # NoFrame => hash[q] \in Frame /\ hash[q] # Chosen
      BY <1>9, CachedFacts
    <2>3. q \in live' <=> q \in live BY <1>9
    <2>4. QED BY <1>4, <1>6, <1>9, <2>1, <2>2, <2>3 DEF ContentOf
  <1>10. QED BY <1>7, <1>8, <1>9

\* A step that leaves the contents of pages in use, on disk and in frames,
\* and the page table alone changes nothing clients see.
LEMMA ContentKept ==
  ASSUME PoolInv, live' = live, hash' = hash, pages' = pages,
         \A q \in live : hash[q] = NoFrame => disk'[q] = disk[q]
  PROVE  \A q \in PageId : ContentOf(q)' = ContentOf(q)
  BY DEF ContentOf

\* Every step of the pool is New, Put, or invisible.
LEMMA StepStores ==
  ASSUME PoolInv, [PoolNext]_vars
  PROVE  [Store!StoreNext]_(Store!storeVars)
  <1> DEFINE Same == /\ live' = live /\ lost' = lost
                     /\ \A q \in PageId : ContentOf(q)' = ContentOf(q)
  <1>1. live \subseteq PageId /\ lost \subseteq live /\ NoFrame \notin Frame
    BY ClockConstants DEF PoolInv, PoolTypeOK, DiskInv, DiskTypeOK, NoFrame, Frame
  <1>2. ASSUME NEW F, F \subseteq Frame, FlushFrames(F) PROVE Same
    <2>1. disk \in [PageId -> Nat] BY DEF PoolInv, DiskInv, DiskTypeOK
    <2>2. \A q \in PageId : hash[q] \notin F => disk'[q] = disk[q]
      BY <1>2, <2>1, FlushedFacts DEF FlushFrames
    <2>3. \A q \in live : hash[q] = NoFrame => disk'[q] = disk[q] BY <1>1, <1>2, <2>2
    <2>4. live' = live /\ lost' = lost /\ hash' = hash /\ pages' = pages
      BY <1>2 DEF FlushFrames
    <2>5. QED BY <2>3, <2>4, ContentKept
  <1>3. ASSUME \E p \in live : PinHit(p) PROVE Same
    BY <1>3, ContentKept DEF PinHit, diskVars
  <1>4. ASSUME \E p \in live : PinMiss(p) PROVE Same
    <2>1. PICK p \in live : PinMiss(p) BY <1>4
    <2>2. p \in PageId BY <1>1
    <2>3. /\ FrameFound /\ hash[p] = NoFrame /\ live' = live /\ lost' = lost
          /\ Install(p, disk'[p], FALSE)
          /\ \A q \in live : q # page_ids[Chosen] => disk'[q] = disk[q]
          /\ page_ids[Chosen] \in PageId => disk'[page_ids[Chosen]] = pages[Chosen]
      BY <2>1, <2>2, PinMissFacts DEF Install
    <2>4. live' = live \cup {p} BY <2>3
    <2>5. \A q \in PageId : ContentOf(q)' = IF q = p THEN disk'[p] ELSE ContentOf(q)
      BY <2>2, <2>3, <2>4, InstallContent
    <2>6. disk'[p] = disk[p]
      <3>1. p # page_ids[Chosen]
        <4>1. page_ids[Chosen] \in PageId => hash[page_ids[Chosen]] \in Frame
          BY <2>3, ChosenFacts DEF PageId, PAGE_ID_NULL
        <4>2. QED BY <1>1, <2>2, <2>3, <4>1
      <3>2. QED BY <2>3, <3>1
    <2>7. ContentOf(p) = disk[p] BY <2>3 DEF ContentOf
    <2>8. QED BY <2>3, <2>5, <2>6, <2>7
  <1>5. ASSUME EvictFail /\ (UNCHANGED diskVars \/ disk_extend) PROVE Same
    <2>1. live' = live /\ \A q \in live : disk'[q] = disk[q]
      BY <1>5, ExtendKeepsLive DEF PoolInv, diskVars
    <2>2. QED BY <1>5, <2>1, ContentKept DEF EvictFail
  <1>6. ASSUME UNCHANGED poolVars, UNCHANGED diskVars \/ disk_extend \/ disk_manager_open
        PROVE  Same
    <2>1. live' = live /\ \A q \in live : disk'[q] = disk[q]
      BY <1>6, ExtendKeepsLive DEF PoolInv, diskVars, disk_manager_open
    <2>2. QED BY <1>6, <2>1, ContentKept DEF poolVars
  <1>7. ASSUME NEW f \in Frame, NEW p \in PageId, Unpin(f, p) PROVE Same
    BY <1>7, ContentKept DEF Unpin, diskVars
  <1>8. ASSUME Shutdown PROVE \E L \in SUBSET live : Store!Close(L)
    <2>1. PICK F \in SUBSET Frame, L \in SUBSET live :
            /\ lost' = lost \cup L
            /\ \A q \in PageId : hash[q] \notin Frame \ F => disk'[q] = disk[q]
            /\ \A q \in PageId : hash[q] \in Frame \ F =>
                 disk'[q] = IF dirty_flags[hash[q]] THEN pages[hash[q]] ELSE disk[q]
            /\ \A q \in PageId : hash[q] \in F => q \in L
      BY <1>8, ShutdownFacts
    <2>2. live' = live /\ \A q \in PageId : hash'[q] = NoFrame
      BY <1>8 DEF Shutdown, NoMapping
    <2>3. ASSUME NEW q \in PageId, q \notin L PROVE ContentOf(q)' = ContentOf(q)
      <3>1. ContentOf(q)' = IF q \notin live THEN 0 ELSE disk'[q] BY <2>2 DEF ContentOf
      <3>2. CASE hash[q] = NoFrame BY <1>1, <2>1, <3>1, <3>2 DEF ContentOf
      <3>3. CASE hash[q] # NoFrame
        <4>1. hash[q] \in Frame \ F /\ page_ids[hash[q]] = q
          BY <2>1, <2>3, <3>3, CachedFacts
        <4>2. q # PAGE_ID_NULL BY DEF PageId, PAGE_ID_NULL
        <4>3. ~dirty_flags[hash[q]] => pages[hash[q]] = disk[q]
          BY <4>1, <4>2 DEF PoolInv, CleanSame
        <4>4. QED BY <2>1, <3>1, <3>3, <4>1, <4>3 DEF ContentOf
      <3>4. QED BY <3>2, <3>3
    <2>4. Store!Close(L) BY <2>1, <2>2, <2>3 DEF Store!Close
    <2>5. QED BY <2>4
  <1>9. CASE AllocPage
    <2>1. PICK p \in PageId : /\ p \notin live /\ live' = live \cup {p}
                              /\ hash[p] = NoFrame /\ Install(p, 0, TRUE)
      BY <1>9, AllocPageFacts
    <2>2. \A q \in PageId : ContentOf(q)' = IF q = p THEN 0 ELSE ContentOf(q)
      BY <1>9, <2>1, AllocPageFacts, InstallContent
    <2>3. lost' = lost /\ p \notin lost BY <1>1, <2>1 DEF Install
    <2>4. Store!New(p) BY <2>1, <2>2, <2>3 DEF Store!New
    <2>5. QED BY <2>4 DEF Store!StoreNext
  <1>10. ASSUME NEW f \in Frame, NEW p \in PageId, NEW w \in Words, WriteAndMarkDirty(f, p, w)
         PROVE  Store!Put(p, w) \/ UNCHANGED Store!storeVars
    <2>1. hash[p] = f /\ p \in live BY <1>10, HeldFacts DEF WriteAndMarkDirty
    <2>2. /\ live' = live /\ lost' = lost /\ hash' = hash /\ disk' = disk
          /\ pages' = [pages EXCEPT ![f] = w]
      BY <1>10 DEF WriteAndMarkDirty, diskVars
    <2>3. ASSUME NEW q \in PageId PROVE ContentOf(q)' = IF q = p THEN w ELSE ContentOf(q)
      <3>1. ContentOf(q)' = IF q \notin live THEN 0
                            ELSE IF hash[q] # NoFrame THEN pages'[hash[q]] ELSE disk[q]
        BY <2>2 DEF ContentOf
      <3>2. CASE q = p BY <1>1, <2>1, <2>2, <3>1, <3>2 DEF PoolInv, PoolTypeOK
      <3>3. CASE q # p
        <4>1. hash[q] # NoFrame => hash[q] \in Frame /\ hash[q] # f
          BY <1>1, <2>1, <3>3, CachedFacts
        <4>2. QED BY <2>2, <3>1, <3>3, <4>1 DEF ContentOf, PoolInv, PoolTypeOK
      <3>4. QED BY <3>2, <3>3
    <2>4. CASE p \in lost BY <2>2, <2>3, <2>4 DEF Store!storeVars
    <2>5. CASE p \notin lost
      <3>1. Store!Put(p, w) BY <2>1, <2>2, <2>3, <2>5 DEF Store!Put
      <3>2. QED BY <3>1
    <2>6. QED BY <2>4, <2>5
  <1>11. Same => UNCHANGED Store!storeVars BY DEF Store!storeVars
  <1> HIDE DEF Same
  <1>12. ASSUME NEW p \in PageId, buffer_pool_flush(p) PROVE Same
    <2>1. {hash[p]} \subseteq Frame BY <1>12 DEF buffer_pool_flush, PoolInv, PoolTypeOK
    <2>2. QED BY <1>2, <1>12, <2>1 DEF buffer_pool_flush
  <1>13. ASSUME buffer_pool_flush_all PROVE Same
    <2>1. PICK n \in Frame : FlushFrames(0 .. n) BY <1>13 DEF buffer_pool_flush_all
    <2>2. 0 .. n \subseteq Frame BY ClockConstants DEF Frame
    <2>3. QED BY <1>2, <2>1, <2>2
  <1>14. Same \/ AllocPage \/ Shutdown \/ \E f \in Frame, p \in PageId, w \in Words : WriteAndMarkDirty(f, p, w)
    BY <1>3, <1>4, <1>5, <1>6, <1>7, <1>12, <1>13
    DEF PoolNext, PinFlushFail, AllocPageFail, Restart, vars
  <1>15. QED BY <1>8, <1>9, <1>10, <1>11, <1>14 DEF Store!StoreNext

\* Caching, eviction, failed write-backs, flushes and restarts are invisible:
\* the pool behaves as an array of those pages that no shutdown has lost.
THEOREM TransparencyTheorem ==
  ASSUME MaxHolds <= PinLimit
  PROVE  PoolSpec => ImplementsStore
  <1>1. PoolInit => Store!StoreInit
    BY DEF PoolInit, DiskInit, Store!StoreInit, ContentOf
  <1>2. PoolInv /\ [PoolNext]_vars => [Store!StoreNext]_(Store!storeVars)
    BY StepStores
  <1>3. QED
    BY <1>1, <1>2, PoolInvariant, PTL DEF PoolSpec, ImplementsStore, Store!StoreSpec
=============================================================================
