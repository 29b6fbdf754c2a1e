---------------------------- MODULE DiskManager ----------------------------
(***************************************************************************)
(* The disk layer (src/nostr/db/disk): one file of pages, page 0 holding   *)
(* the header, the free pages chained through their first four bytes.     *)
(*                                                                         *)
(* A page's content is abstracted to its first word, the four bytes that  *)
(* FreePageEntry.next_free aliases: that word is all the layer itself ever *)
(* interprets.  A zeroed page has word 0, a free page the id of the next  *)
(* free page, a page in use whatever its owner wrote there.               *)
(***************************************************************************)
EXTENDS Naturals, Sequences

CONSTANTS
  InitialPages,  \* DB_INITIAL_PAGES
  ExtendPages,   \* DB_EXTEND_PAGES
  MaxPages,      \* DB_MAX_PAGES
  Words,         \* the first words owners write into their pages
  UIntMax        \* largest value of free_page_count (2^32 - 1)

ASSUME DiskConstants ==
  /\ InitialPages \in Nat /\ ExtendPages \in Nat /\ MaxPages \in Nat
  /\ UIntMax \in Nat
  /\ 2 <= InitialPages /\ InitialPages <= MaxPages /\ MaxPages <= UIntMax
  /\ 1 <= ExtendPages
  /\ Words \subseteq Nat

VARIABLES
  fd,               \* is the file open (dm->fd >= 0)?
  total_pages,      \* the three fields the DiskManager caches ...
  free_list_head,
  free_page_count,
  header,           \* ... and the copy of them in page 0
  file_pages,       \* length of the file, in pages
  disk,             \* first word of every page, as the kernel holds it
  live,             \* history: pages handed out and not released since
  stack             \* history: the free list from its tail to its head

diskVars == <<fd, total_pages, free_list_head, free_page_count, header,
              file_pages, disk, live, stack>>

PAGE_ID_NULL == 0
PageId == 1 .. (MaxPages - 1)
Header == [total : Nat, head : Nat, count : Nat]

DiskTypeOK ==
  /\ fd \in BOOLEAN
  /\ total_pages \in 2 .. MaxPages
  /\ free_list_head \in Nat
  /\ free_page_count \in Nat
  /\ header \in Header
  /\ file_pages \in 2 .. MaxPages
  /\ disk \in [PageId -> Nat]
  /\ live \subseteq PageId
  /\ stack \in Seq(PageId)

-----------------------------------------------------------------------------
(* disk_manager_create, when every system call succeeds: all pages but the *)
(* header form the chain 1 -> 2 -> ... -> 0.                               *)
DiskInit ==
  /\ fd = TRUE
  /\ total_pages = InitialPages
  /\ free_list_head = 1
  /\ free_page_count = InitialPages - 1
  /\ header = [total |-> InitialPages, head |-> 1, count |-> InitialPages - 1]
  /\ file_pages = InitialPages
  /\ disk = [p \in PageId |-> IF p + 1 < InitialPages THEN p + 1 ELSE PAGE_ID_NULL]
  /\ live = {}
  /\ stack = [i \in 1 .. (InitialPages - 1) |-> InitialPages - i]

-----------------------------------------------------------------------------
(* disk_extend: ftruncate sets the length of the file, the new pages      *)
(* chain to each other and the last one to the old head.                  *)
NewTotal == total_pages + ExtendPages

\* Mutation: the chain starts one page too early.
NewPages_Early == (total_pages - 1) .. (NewTotal - 1)

NewPages == total_pages .. (NewTotal - 1)

\* Mutation: DB_MAX_PAGES is not checked.
CanExtend_NoLimit == fd

CanExtend == fd /\ NewTotal <= MaxPages

\* Mutation: the last new page ends the chain, the old free list is lost.
ExtendLink_Cut(p) == IF p + 1 < NewTotal THEN p + 1 ELSE PAGE_ID_NULL

ExtendLink(p) == IF p + 1 < NewTotal THEN p + 1 ELSE free_list_head

\* The pages once the links of the pages in done have been written; what
\* lies past the new end of the file is gone.
ExtendedDisk(done) ==
  [p \in PageId |-> IF p \in done THEN ExtendLink(p)
                    ELSE IF p < NewTotal THEN disk[p] ELSE 0]

ExtendedStack == stack \o [i \in 1 .. ExtendPages |-> NewTotal - i]

\* Called by a client, or by disk_alloc_page when the page popped next can
\* then not be read or not be zeroed: the page is put back, the extension
\* stays.
disk_extend ==
  /\ CanExtend
  /\ file_pages' = NewTotal
  /\ disk' = ExtendedDisk(NewPages)
  /\ free_list_head' = total_pages
  /\ free_page_count' = free_page_count + ExtendPages
  /\ total_pages' = NewTotal
  /\ stack' = ExtendedStack
  /\ UNCHANGED <<fd, header, live>>

\* The write of q's link fails: the file has grown, the cached fields stay.
disk_extend_fail(q) ==
  /\ CanExtend
  /\ q \in NewPages
  /\ file_pages' = NewTotal
  /\ disk' = ExtendedDisk(total_pages .. (q - 1))
  /\ UNCHANGED <<fd, total_pages, free_list_head, free_page_count, header,
                 live, stack>>

-----------------------------------------------------------------------------
(* disk_alloc_page.  The count is unsigned and wraps below zero.          *)
Decrement(n) == IF n = 0 THEN UIntMax ELSE n - 1

DropLast(s) == [i \in 1 .. (Len(s) - 1) |-> s[i]]

\* Mutation: the head is not moved on.
PopFields_KeepHead ==
  /\ fd
  /\ free_list_head \in 1 .. (file_pages - 1)
  /\ free_page_count' = Decrement(free_page_count)
  /\ live' = live \cup {free_list_head}
  /\ stack' = DropLast(stack)
  /\ UNCHANGED <<fd, total_pages, free_list_head, header, file_pages>>

\* The free list holds a page: pop it, zero it.  A head past the end of the
\* file cannot be read, and the call fails without a change.
PopFields ==
  /\ fd
  /\ free_list_head \in 1 .. (file_pages - 1)
  /\ free_list_head' = disk[free_list_head]
  /\ free_page_count' = Decrement(free_page_count)
  /\ live' = live \cup {free_list_head}
  /\ stack' = DropLast(stack)
  /\ UNCHANGED <<fd, total_pages, header, file_pages>>

PoppedDisk == [disk EXCEPT ![free_list_head] = 0]

AllocPop == PopFields /\ disk' = PoppedDisk

\* The free list is empty: extend the file, then pop the first new page.
ExtendPopFields ==
  /\ CanExtend
  /\ free_list_head = PAGE_ID_NULL
  /\ file_pages' = NewTotal
  /\ total_pages' = NewTotal
  /\ free_list_head' = ExtendLink(total_pages)
  /\ free_page_count' = Decrement(free_page_count + ExtendPages)
  /\ live' = live \cup {total_pages}
  /\ stack' = DropLast(ExtendedStack)
  /\ UNCHANGED <<fd, header>>

ExtendPoppedDisk == [ExtendedDisk(NewPages) EXCEPT ![total_pages] = 0]

AllocExtend == ExtendPopFields /\ disk' = ExtendPoppedDisk

disk_alloc_page == AllocPop \/ AllocExtend

-----------------------------------------------------------------------------
(* disk_free_page: the page becomes the head of the free list.  The code  *)
(* checks the range of the id only; that the page is live is what its     *)
(* callers owe it.                                                        *)
FreePage(p) ==
  /\ fd
  /\ 0 < p /\ p < total_pages
  /\ disk' = [disk EXCEPT ![p] = free_list_head]
  /\ free_list_head' = p
  /\ free_page_count' = free_page_count + 1
  /\ live' = live \ {p}
  /\ stack' = Append(stack, p)
  /\ UNCHANGED <<fd, total_pages, header, file_pages>>

disk_free_page(p) == p \in live /\ FreePage(p)

-----------------------------------------------------------------------------
(* disk_write_page, by the owner of the page.  disk_read_page and         *)
(* disk_sync leave this state alone.                                      *)
disk_write_page(p, w) ==
  /\ fd
  /\ p \in live
  /\ p < total_pages
  /\ disk' = [disk EXCEPT ![p] = w]
  /\ UNCHANGED <<fd, total_pages, free_list_head, free_page_count, header,
                 file_pages, live, stack>>

-----------------------------------------------------------------------------
(* disk_flush_header, as disk_manager_close calls it: the only place that *)
(* brings page 0 up to date.                                              *)
FlushedHeader ==
  [total |-> total_pages, head |-> free_list_head, count |-> free_page_count]

disk_manager_close ==
  /\ fd
  /\ fd' = FALSE
  /\ header' = FlushedHeader
  /\ UNCHANGED <<total_pages, free_list_head, free_page_count, file_pages, disk,
                 live, stack>>

(* disk_manager_open / load_header.                                       *)
disk_manager_open ==
  /\ ~fd
  /\ fd' = TRUE
  /\ total_pages' = header.total
  /\ free_list_head' = header.head
  /\ free_page_count' = header.count
  /\ UNCHANGED <<header, file_pages, disk, live, stack>>

\* The process ends without disk_manager_close (or the header write of
\* disk_manager_close fails, an error the code drops): what was written
\* with pwrite stays in the file.
Crash ==
  /\ fd
  /\ fd' = FALSE
  /\ UNCHANGED <<total_pages, free_list_head, free_page_count, header, file_pages,
                 disk, live, stack>>

-----------------------------------------------------------------------------
DiskNext ==
  \/ disk_alloc_page
  \/ disk_extend
  \/ \E q \in PageId : disk_extend_fail(q)
  \/ \E p \in PageId : disk_free_page(p)
  \/ \E p \in PageId, w \in Words : disk_write_page(p, w)
  \/ disk_manager_close
  \/ disk_manager_open

DiskSpec == DiskInit /\ [][DiskNext]_diskVars

\* The same with unclean ends of the process.
CrashSpec == DiskInit /\ [][DiskNext \/ Crash]_diskVars

-----------------------------------------------------------------------------
FreeSet == {stack[i] : i \in 1 .. Len(stack)}

\* The chain that starts at the cached head and runs through the pages on
\* disk has free_page_count pages and ends.
ChainIntact ==
  /\ Len(stack) = free_page_count
  /\ free_list_head = IF stack = <<>> THEN PAGE_ID_NULL ELSE stack[Len(stack)]
  /\ \A i \in 1 .. Len(stack) :
       disk[stack[i]] = IF i = 1 THEN PAGE_ID_NULL ELSE stack[i - 1]

\* No page is on the chain twice.
ChainAcyclic ==
  \A i, j \in 1 .. Len(stack) : stack[i] = stack[j] => i = j

\* Every page of the file but the header is either on the chain or in use,
\* never both: none is handed out twice, none is leaked.
Partition ==
  /\ live \cap FreeSet = {}
  /\ live \cup FreeSet = 1 .. (total_pages - 1)

\* FREE LIST.  Through any sequence of disk_alloc_page, disk_free_page,
\* disk_extend (also failing half way), page writes and clean close/open,
\* the chain on disk is exactly the set of pages not in use.
FreeListSound == ChainIntact /\ ChainAcyclic /\ Partition

\* A closed file's header describes it: the part of the inductive invariant
\* that a clean close and open need.
HeaderCurrent == ~fd => header = FlushedHeader

\* The inductive invariant behind the free list theorem.
DiskInv == DiskTypeOK /\ FreeListSound /\ HeaderCurrent

\* LIVE DATA.  No step but disk_write_page by the owner changes a page in
\* use: allocating, extending (also failing half way), releasing other
\* pages and reopening leave it alone.
LiveDataKept ==
  [][\A p \in live \cap live' :
       disk'[p] # disk[p] => \E w \in Words : disk_write_page(p, w)]_diskVars

\* A page handed out by disk_alloc_page is not one that is already in use.
HeadNotInUse == fd => free_list_head \notin live

\* OWNERSHIP.  The disk manager implements the abstract page allocator.
Alloc == INSTANCE PageAllocator WITH free <- FreeSet, owned <- live

ImplementsAllocator == Alloc!AllocSpec
=============================================================================
