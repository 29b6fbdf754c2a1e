------------------------------- MODULE BTree -------------------------------
(***************************************************************************)
(* The B+tree of src/nostr/db/btree: search, range scan, insertion with    *)
(* leaf and inner splits, deletion without merging, and the chains of      *)
(* record ids that the indexes with duplicate keys hang below their        *)
(* leaves.  Pages come from and go back to the page allocator; a failing   *)
(* call of the buffer pool stops an operation where the code returns.      *)
(*                                                                         *)
(* Keys are integers in the order of the comparator.  A leaf's arrays are  *)
(* sequences.  An inner node is its memory: MaxInner keys, MaxInner + 1    *)
(* children and one spare cell, a key being as wide as a child, as in the  *)
(* kind index.                                                             *)
(***************************************************************************)
EXTENDS Integers, SequencesExt, FiniteSetsExt

CONSTANTS
  UniqueKeys, DupKeys,   \* keys used in a tree of either mode
  Rids,                  \* record ids, none of them 0
  Pages,                 \* pages the allocator can hand out, none of them 0
  MaxLeaf, MaxInner,     \* BTREE_LEAF_MAX_KEYS, BTREE_INNER_MAX_KEYS
  MaxEntries,            \* BTREE_OVERFLOW_MAX_ENTRIES
  MaxCopies,             \* bound: record ids in a tree with duplicates
  MaxLeaked              \* bound: insertions go on while no more pages are lost

ASSUME BTreeConstants ==
  /\ UniqueKeys \cup DupKeys \cup Rids \cup Pages \subseteq Nat \ {0}
  /\ {MaxLeaf, MaxInner, MaxEntries, MaxCopies} \subseteq Nat \ {0} /\ MaxLeaked \in Nat
  /\ MaxLeaf >= 2

VARIABLES
  mode,        \* "unique": btree_insert, btree_delete; "dup": the _dup forms
  pages,       \* contents of the pages
  meta,        \* BTree.meta, the cached metadata
  saved,       \* the metadata page
  damaged,     \* history: an operation returned with its work half done
  leaked,      \* history: chain pages allocated for a key that was refused
  view,        \* derived: what searches report, View(pages, meta) unless damaged
  reply        \* history: the last operation and what it returned

treeVars == <<mode, pages, meta, saved, damaged, leaked, view, reply>>

Keys == UniqueKeys \cup DupKeys
ModeKeys == IF mode = "unique" THEN UniqueKeys ELSE DupKeys

-----------------------------------------------------------------------------
(* Pages.                                                                  *)
NoPage == 0
Free == [kind |-> "free"]
Leaf(keys, vals, right) == [kind |-> "leaf", keys |-> keys, vals |-> vals, right |-> right]
Inner(n, cells) == [kind |-> "inner", n |-> n, cells |-> cells]
Chain(next, entries) == [kind |-> "chain", next |-> next, entries |-> entries]

CellIndex == 0 .. (2 * MaxInner + 1)

FreePages(pg) == {p \in Pages : pg[p].kind = "free"}
NewPage(pg) == Min(FreePages(pg))
IsKind(pg, p, kind) == p \in Pages /\ pg[p].kind = kind

Count(node) == IF node.kind = "leaf" THEN Len(node.keys) ELSE node.n
btree_node_key_at(node, i) == IF node.kind = "leaf" THEN node.keys[i + 1] ELSE node.cells[i]
btree_node_child_at(node, i) == node.cells[MaxInner + i]

compare(a, b) == IF a < b THEN -1 ELSE IF a > b THEN 1 ELSE 0

\* The binary search: the first position whose key is not less than key.
btree_node_search_key(node, key) ==
  LET n == Count(node)
      within[lo, hi \in 0 .. n] ==
        IF lo >= hi THEN lo
        ELSE LET mid == lo + (hi - lo) \div 2
             IN  IF compare(btree_node_key_at(node, mid), key) < 0
                 THEN within[mid + 1, hi]
                 ELSE within[lo, mid]
  IN  within[0, n]

FoundAt(node, pos, key) == pos < Count(node) /\ btree_node_key_at(node, pos) = key

\* Mutation: an exact match stays left.
ChildFor_Left(node, key) == btree_node_child_at(node, btree_node_search_key(node, key))

\* The child to follow for key: right of an exact match.
ChildFor(node, key) ==
  LET pos == btree_node_search_key(node, key)
  IN  btree_node_child_at(node, IF FoundAt(node, pos, key) THEN pos + 1 ELSE pos)

-----------------------------------------------------------------------------
(* Searching.  A child that is not an inner node where one is expected     *)
(* (only in a tree whose children are overwritten) leads nowhere here.     *)
PathTo(pg, m, key) ==
  LET down[level \in 0 .. (m.height - 1)] ==
        IF level = 0 THEN m.root_page
        ELSE LET p == down[level - 1]
             IN  IF IsKind(pg, p, "inner") THEN ChildFor(pg[p], key) ELSE NoPage
  IN  down

find_leaf(pg, m, key) ==
  IF m.root_page = NoPage THEN NoPage ELSE PathTo(pg, m, key)[m.height - 1]

find_leftmost_leaf(pg, m) ==
  LET down[level \in 0 .. (m.height - 1)] ==
        IF level = 0 THEN m.root_page ELSE btree_node_child_at(pg[down[level - 1]], 0)
  IN  IF m.root_page = NoPage THEN NoPage ELSE down[m.height - 1]

\* The value stored under key, 0 when there is none.
btree_search(pg, m, key) ==
  LET leaf == find_leaf(pg, m, key)
  IN  IF ~IsKind(pg, leaf, "leaf") THEN 0
      ELSE LET pos == btree_node_search_key(pg[leaf], key)
           IN  IF FoundAt(pg[leaf], pos, key) THEN pg[leaf].vals[pos + 1] ELSE 0

\* The pages of a list, from first on.
Linked(pg, first, next(_)) ==
  LET upTo[n \in 0 .. Cardinality(Pages)] ==
        IF n = 0 THEN <<first>>
        ELSE LET list == upTo[n - 1]
             IN  IF Last(list) = NoPage THEN list ELSE Append(list, next(pg[Last(list)]))
  IN  SelectSeq(upTo[Cardinality(Pages)], LAMBDA p : p # NoPage)

RightOf(node) == node.right
LeafList(pg, m) == Linked(pg, find_leftmost_leaf(pg, m), RightOf)
NextOf(page) == page.next
ChainList(pg, head) == Linked(pg, head, NextOf)

\* Keys a scan from lo reports, up to the first one beyond hi: the first
\* leaf from the position of lo, the leaves to its right from their start.
\* 0 stands for a missing bound.
btree_range_scan(pg, m, lo, hi) ==
  LET first == IF lo = 0 THEN find_leftmost_leaf(pg, m) ELSE find_leaf(pg, m, lo)
      leaves == Linked(pg, first, RightOf)
      start == IF lo = 0 THEN 0 ELSE btree_node_search_key(pg[first], lo)
      fromLeaf(i) == IF i = 1 THEN SubSeq(pg[first].keys, start + 1, Len(pg[first].keys))
                     ELSE pg[leaves[i]].keys
      met == FlattenSeq([i \in 1 .. Len(leaves) |-> fromLeaf(i)])
      beyond == {i \in 1 .. Len(met) : hi # 0 /\ compare(met[i], hi) > 0}
  IN  IF beyond = {} THEN met ELSE SubSeq(met, 1, Min(beyond) - 1)

\* The record ids under a key of a tree with duplicates.
btree_scan_key(pg, m, key) ==
  LET list == ChainList(pg, btree_search(pg, m, key))
  IN  FlattenSeq([i \in 1 .. Len(list) |-> pg[list[i]].entries])

-----------------------------------------------------------------------------
(* Results.  An operation gives the new pages and metadata, whether the    *)
(* metadata page was written, its return value and whether it left its     *)
(* work half done.  fail names the call that fails, if any.                *)
SearchSite == {"none", "read", "flush"}
InsertSite == SearchSite \cup {"first_leaf", "split_leaf", "pin_right", "pin_parent",
                               "split_inner", "new_root"}
ChainSite == {"search", "pin_chain", "chain_page"}

Outcome(pg, m, flushed, ret, half) ==
  [pages |-> pg, meta |-> m, flushed |-> flushed, ret |-> ret, half |-> half]
Refused(pg, m, ret) == Outcome(pg, m, FALSE, ret, FALSE)
HalfDone(pg, m, ret) == Outcome(pg, m, FALSE, ret, TRUE)
NoFlush(pg, m) == Outcome(pg, m, FALSE, "ok", FALSE)

btree_flush_meta(pg, m, fail) ==
  IF fail = "flush" THEN HalfDone(pg, m, "not_found") ELSE Outcome(pg, m, TRUE, "ok", FALSE)

CanAlloc(pg, site, fail) == FreePages(pg) # {} /\ fail # site

-----------------------------------------------------------------------------
(* Changing a node.                                                        *)
btree_node_insert_key_value(leaf, pos, key, val) ==
  [leaf EXCEPT !.keys = InsertAt(@, pos + 1, key), !.vals = InsertAt(@, pos + 1, val)]

btree_node_delete_key_value(leaf, pos) ==
  [leaf EXCEPT !.keys = RemoveAt(@, pos + 1), !.vals = RemoveAt(@, pos + 1)]

\* Mutation: one entry too many.
HasRoom_OneMore(leaf) == Len(leaf.keys) <= MaxLeaf

HasRoom(leaf) == Len(leaf.keys) < MaxLeaf

InsertInLeaf(leaf, key, val) ==
  btree_node_insert_key_value(leaf, btree_node_search_key(leaf, key), key, val)

\* The keys move first, so that in a full node the last one lands on
\* children[0]; then the children behind pos.
btree_node_insert_key_child(node, pos, key, child) ==
  LET keysMoved == [i \in CellIndex |->
                      IF i = pos THEN key
                      ELSE IF i \in (pos + 1) .. node.n THEN node.cells[i - 1]
                      ELSE node.cells[i]]
      here == MaxInner + pos + 1
  IN  Inner(node.n + 1,
            [i \in CellIndex |->
               IF i = here THEN child
               ELSE IF i \in (here + 1) .. (MaxInner + node.n + 1) THEN keysMoved[i - 1]
               ELSE keysMoved[i]])

-----------------------------------------------------------------------------
(* Splitting.                                                              *)
\* Mutation: the new leaf is not linked to the one behind it.
split_leaf_Unlinked(pg, p, right) ==
  LET left == pg[p]
      mid == Len(left.keys) \div 2
      upper(s) == SubSeq(s, mid + 1, Len(s))
  IN  [pg EXCEPT ![right] = Leaf(upper(left.keys), upper(left.vals), NoPage),
                 ![p] = Leaf(SubSeq(left.keys, 1, mid), SubSeq(left.vals, 1, mid), right)]

\* Mutation: the left half loses one key too many.
split_leaf_Short(pg, p, right) ==
  LET left == pg[p]
      mid == Len(left.keys) \div 2
      upper(s) == SubSeq(s, mid + 1, Len(s))
      lower(s) == SubSeq(s, 1, mid - 1)
  IN  [pg EXCEPT ![right] = Leaf(upper(left.keys), upper(left.vals), left.right),
                 ![p] = Leaf(lower(left.keys), lower(left.vals), right)]

\* The upper half of leaf p moves to the new page right.
split_leaf(pg, p, right) ==
  LET left == pg[p]
      mid == Len(left.keys) \div 2
      upper(s) == SubSeq(s, mid + 1, Len(s))
  IN  [pg EXCEPT ![right] = Leaf(upper(left.keys), upper(left.vals), left.right),
                 ![p] = Leaf(SubSeq(left.keys, 1, mid), SubSeq(left.vals, 1, mid), right)]

\* The keys above the middle one and their children move to the new page;
\* the middle key, still in its cell, goes up.
split_inner(pg, p, right) ==
  LET left == pg[p]
      mid == left.n \div 2
      moved == left.n - mid - 1
  IN  [pg EXCEPT
         ![right] = Inner(moved,
                      [i \in CellIndex |->
                         IF i < moved \/ i \in MaxInner .. (MaxInner + moved)
                         THEN left.cells[mid + 1 + i] ELSE 0]),
         ![p].n = mid]

Counted(m) == [m EXCEPT !.entry_count = @ + 1]

\* The loop that hands the split key and the new child to the ancestors:
\* the state after d of them have been visited.
Climb(pg, m, path, key, child, fail) ==
  LET visit(s, parent) ==
        LET node == s.pages[parent]
            pos == btree_node_search_key(node, s.key)
            with == [s.pages EXCEPT ![parent] =
                       btree_node_insert_key_child(node, pos, s.key, s.child)]
        IN  IF fail = "pin_parent" THEN [s EXCEPT !.out = "not_found"]
            ELSE IF node.n < MaxInner THEN [s EXCEPT !.pages = with, !.out = "ok"]
            ELSE IF ~CanAlloc(with, "split_inner", fail)
                 THEN [s EXCEPT !.pages = with, !.out = "full"]
            ELSE [s EXCEPT !.pages = split_inner(with, parent, NewPage(with)),
                           !.meta.inner_count = @ + 1,
                           !.key = btree_node_key_at(with[parent], with[parent].n \div 2),
                           !.child = NewPage(with)]
      up[d \in 0 .. (m.height - 1)] ==
        IF d = 0 THEN [pages |-> pg, meta |-> m, key |-> key, child |-> child, out |-> "going"]
        ELSE LET s == up[d - 1]
             IN  IF s.out = "going" THEN visit(s, path[m.height - 1 - d]) ELSE s
  IN  up[m.height - 1]

\* [old_root] [promote_key] [new_child]
NewRoot(s, fail) ==
  IF ~CanAlloc(s.pages, "new_root", fail) THEN HalfDone(s.pages, s.meta, "full")
  ELSE LET root == NewPage(s.pages)
           cells == [i \in CellIndex |-> IF i = 0 THEN s.key
                                         ELSE IF i = MaxInner THEN s.meta.root_page
                                         ELSE IF i = MaxInner + 1 THEN s.child
                                         ELSE 0]
       IN  btree_flush_meta([s.pages EXCEPT ![root] = Inner(1, cells)],
                            Counted([s.meta EXCEPT !.root_page = root,
                                                   !.height = @ + 1,
                                                   !.inner_count = @ + 1]), fail)

\* A full leaf: split it, insert into the proper half, tell the ancestors.
SplitAndInsert(pg, m, path, key, val, fail) ==
  LET p == path[m.height - 1]
      right == NewPage(pg)
      halves == split_leaf(pg, p, right)
      splitKey == halves[right].keys[1]
      side == IF compare(key, splitKey) < 0 THEN p ELSE right
      grown == [m EXCEPT !.leaf_count = @ + 1]
      done == [halves EXCEPT ![side] = InsertInLeaf(@, key, val)]
      s == Climb(done, grown, path, splitKey, right, fail)
  IN  IF side = right /\ fail = "pin_right" THEN HalfDone(halves, grown, "not_found")
      ELSE IF s.out = "ok" THEN btree_flush_meta(s.pages, Counted(s.meta), fail)
      ELSE IF s.out = "going" THEN NewRoot(s, fail)
      ELSE HalfDone(s.pages, s.meta, s.out)

FirstLeaf(pg, m, key, val, fail) ==
  IF ~CanAlloc(pg, "first_leaf", fail) THEN Refused(pg, m, "full")
  ELSE LET p == NewPage(pg)
       IN  btree_flush_meta([pg EXCEPT ![p] = Leaf(<<key>>, <<val>>, NoPage)],
                            [m EXCEPT !.root_page = p, !.height = 1,
                                      !.entry_count = 1, !.leaf_count = 1], fail)

btree_insert(pg, m, key, val, fail) ==
  IF m.root_page = NoPage THEN FirstLeaf(pg, m, key, val, fail)
  ELSE IF fail = "read" \/ ~IsKind(pg, find_leaf(pg, m, key), "leaf")
       THEN Refused(pg, m, "not_found")
  ELSE LET path == PathTo(pg, m, key)
           p == path[m.height - 1]
           leaf == pg[p]
           pos == btree_node_search_key(leaf, key)
       IN  IF FoundAt(leaf, pos, key) THEN Refused(pg, m, "duplicate")
           ELSE IF HasRoom(leaf)
                THEN btree_flush_meta([pg EXCEPT ![p] = InsertInLeaf(@, key, val)],
                                      Counted(m), fail)
           ELSE IF ~CanAlloc(pg, "split_leaf", fail) THEN Refused(pg, m, "full")
           ELSE SplitAndInsert(pg, m, path, key, val, fail)

btree_delete(pg, m, key, fail) ==
  LET p == find_leaf(pg, m, key)
      pos == btree_node_search_key(pg[p], key)
  IN  IF fail = "read" \/ ~IsKind(pg, p, "leaf") THEN Refused(pg, m, "not_found")
      ELSE IF ~FoundAt(pg[p], pos, key) THEN Refused(pg, m, "not_found")
      ELSE btree_flush_meta([pg EXCEPT ![p] = btree_node_delete_key_value(@, pos)],
                            [m EXCEPT !.entry_count = @ - 1], fail)

-----------------------------------------------------------------------------
(* Duplicate keys: the leaf holds the head of a chain of record ids.       *)
AppendToChain(pg, m, head, rid, fail) ==
  LET list == ChainList(pg, head)
      roomy == {i \in 1 .. Len(list) : Len(pg[list[i]].entries) < MaxEntries}
      p == NewPage(pg)
  IN  IF fail = "pin_chain" THEN Refused(pg, m, "not_found")
      ELSE IF roomy # {}
      THEN NoFlush([pg EXCEPT ![list[Min(roomy)]].entries = Append(@, rid)], m)
      ELSE IF ~CanAlloc(pg, "chain_page", fail) THEN Refused(pg, m, "full")
      ELSE NoFlush([pg EXCEPT ![p] = Chain(NoPage, <<rid>>), ![Last(list)].next = p], m)

\* A search that fails for want of a page counts as a key not found.
btree_insert_dup(pg, m, key, rid, fail) ==
  LET head == IF fail = "search" THEN NoPage ELSE btree_search(pg, m, key)
      p == NewPage(pg)
  IN  IF head # NoPage THEN AppendToChain(pg, m, head, rid, fail)
      ELSE IF ~CanAlloc(pg, "chain_page", fail) THEN Refused(pg, m, "full")
      ELSE btree_insert([pg EXCEPT ![p] = Chain(NoPage, <<rid>>)], m, key, p, fail)

\* Mutation: the entry is overwritten by the one behind it, not by the last.
WithoutEntry_Shift(entries, i) == SubSeq(entries, 1, Len(entries) - 1)

\* The last entry takes the place of the one removed.
WithoutEntry(entries, i) == Front([entries EXCEPT ![i] = Last(entries)])

\* Mutation: the head page is dropped from the chain, but not given back.
DropChainPage_Kept(pg, m, key, list, i, fail) ==
  IF Len(list) = 1 THEN btree_delete(pg, m, key, fail)
  ELSE NoFlush(pg, m)

\* The empty page goes back to the allocator and out of its chain: the key
\* goes with the only page, the leaf gets the new head, the page before it
\* gets the rest.
DropChainPage(pg, m, key, list, i, fail) ==
  LET p == list[i]
      freed == [pg EXCEPT ![p] = Free]
      leaf == find_leaf(pg, m, key)
      pos == btree_node_search_key(pg[leaf], key)
  IN  IF Len(list) = 1
      THEN LET r == btree_delete(freed, m, key, fail)
           IN  [r EXCEPT !.half = @ \/ r.ret # "ok"]
      ELSE IF i = 1
      THEN IF fail = "unlink" THEN HalfDone(freed, m, "not_found")
           ELSE NoFlush([freed EXCEPT ![leaf].vals[pos + 1] = pg[p].next], m)
      ELSE IF fail = "unlink" THEN HalfDone(freed, m, "ok")
           ELSE NoFlush([freed EXCEPT ![list[i - 1]].next = pg[p].next], m)

btree_delete_dup(pg, m, key, rid, fail) ==
  LET head == IF fail = "search" THEN NoPage ELSE btree_search(pg, m, key)
      list == ChainList(pg, head)
      at == {<<i, j>> \in (1 .. Len(list)) \X (1 .. MaxEntries) :
               j <= Len(pg[list[i]].entries) /\ pg[list[i]].entries[j] = rid}
      i == Min({x[1] : x \in at})
      j == Min({x[2] : x \in {y \in at : y[1] = i}})
      less == [pg EXCEPT ![list[i]].entries = WithoutEntry(@, j)]
  IN  IF head = NoPage \/ fail = "pin_chain" \/ at = {} THEN Refused(pg, m, "not_found")
      ELSE IF less[list[i]].entries # <<>> THEN NoFlush(less, m)
      ELSE DropChainPage(pg, m, key, list, i, fail)

-----------------------------------------------------------------------------
(* The state machine: the calls of the index manager.                      *)
Occurrences(s, x) == Cardinality({i \in DOMAIN s : s[i] = x})

\* Copies of each record id that a search for a key, and the scan of its
\* chain, report.
View(pg, m) ==
  [k \in Keys |-> [r \in Rids |->
     IF mode = "unique" THEN IF btree_search(pg, m, k) = r THEN 1 ELSE 0
     ELSE Occurrences(btree_scan_key(pg, m, k), r)]]

Abstract == INSTANCE Index WITH table <- view, broken <- damaged

NoMeta == [root_page |-> NoPage, height |-> 0, entry_count |-> 0, leaf_count |-> 0,
           inner_count |-> 0]

TreeInit ==
  /\ mode \in {"unique", "dup"}
  /\ pages = [p \in Pages |-> Free]
  /\ meta = NoMeta
  /\ saved = NoMeta
  /\ damaged = FALSE
  /\ leaked = {}
  /\ view = Abstract!NoEntry
  /\ reply = Abstract!Reply("none", <<>>, "ok", FALSE)

Apply(op, entry, fail, r) ==
  /\ pages' = r.pages
  /\ meta' = r.meta
  /\ saved' = IF r.flushed THEN r.meta ELSE saved
  /\ damaged' = r.half
  /\ view' = IF r.half THEN view ELSE View(r.pages, r.meta)
  /\ leaked' = leaked \cup
       (IF op = "insert" /\ r.ret # "ok" /\ ~r.half
        THEN {p \in FreePages(pages) : r.pages[p].kind = "chain"} ELSE {})
  /\ reply' = Abstract!Reply(op, entry, r.ret, fail # "none")
  /\ UNCHANGED mode

RidCount == FoldSet(LAMBDA p, n : n + Len(pages[p].entries), 0,
                    {p \in Pages : pages[p].kind = "chain"})

\* Bound: what an operation that stopped half-way leads to is not followed.
Sound == ~damaged

InsertEntry(key, rid) ==
  /\ Sound
  /\ Cardinality(leaked) <= MaxLeaked
  /\ mode = "dup" => RidCount < MaxCopies
  /\ \E fail \in InsertSite \cup (IF mode = "dup" THEN ChainSite ELSE {}) :
       Apply("insert", <<key, rid>>, fail,
             IF mode = "unique" THEN btree_insert(pages, meta, key, rid, fail)
             ELSE btree_insert_dup(pages, meta, key, rid, fail))

\* The id index deletes by key; rid is what it held, for the history.
DeleteEntry(key, rid) ==
  /\ Sound
  /\ mode = "unique" => btree_search(pages, meta, key) \in {0, rid}
  /\ \E fail \in SearchSite \cup (IF mode = "dup" THEN {"search", "pin_chain", "unlink"} ELSE {}) :
       Apply("delete", <<key, rid>>, fail,
             IF mode = "unique" THEN btree_delete(pages, meta, key, fail)
             ELSE btree_delete_dup(pages, meta, key, rid, fail))

\* btree_open, after the pages were written back.
OpenTree ==
  /\ Sound
  /\ meta' = saved
  /\ view' = View(pages, saved)
  /\ UNCHANGED <<mode, pages, saved, damaged, leaked, reply>>

\* Bound: without duplicates a key always comes with the same record id.
RidsFor(key) == IF mode = "dup" THEN Rids ELSE {r \in Rids : (r - key) % Cardinality(Rids) = 0}

TreeNext ==
  \/ \E key \in ModeKeys : \E rid \in RidsFor(key) :
       InsertEntry(key, rid) \/ DeleteEntry(key, rid)
  \/ OpenTree

TreeSpec == TreeInit /\ [][TreeNext]_treeVars

-----------------------------------------------------------------------------
TreeTypeOK ==
  /\ mode \in {"unique", "dup"}
  /\ \A p \in Pages :
       LET page == pages[p] IN
         \/ page = Free
         \/ /\ page.kind = "leaf" /\ page.right \in Pages \cup {NoPage}
            /\ page.keys \in SeqOf(Keys, MaxLeaf) /\ Len(page.vals) = Len(page.keys)
         \/ /\ page.kind = "inner" /\ page.n \in 0 .. (MaxInner + 1)
            /\ page.cells \in [CellIndex -> Nat]
         \/ /\ page.kind = "chain" /\ page.next \in Pages \cup {NoPage}
            /\ page.entries \in SeqOf(Rids, MaxEntries)
  /\ {meta, saved} \subseteq
       [root_page : Pages \cup {NoPage}, height : Nat, entry_count : Nat, leaf_count : Nat,
        inner_count : Nat]
  /\ damaged \in BOOLEAN /\ leaked \subseteq Pages

\* ABSTRACTION.  Through splits, deletions that leave empty leaves behind,
\* chains that lose their head or middle and calls that fail, the tree is a
\* table: every operation happens completely, or is refused and changes
\* nothing a search can see, or is one of those that stop half-way.
ImplementsIndex == Abstract!IndexSpec

\* SCAN.  btree_range_scan reports exactly the keys that btree_search finds
\* between its bounds, in ascending order: the list of leaves agrees with
\* the paths from the root.
ScanInOrder ==
  ~damaged =>
    \A lo, hi \in {0} \cup ModeKeys :
      LET met == btree_range_scan(pages, meta, lo, hi) IN
        /\ \A i \in 1 .. (Len(met) - 1) : met[i] < met[i + 1]
        /\ ToSet(met) = {k \in ModeKeys : /\ btree_search(pages, meta, k) # 0
                                          /\ k >= lo /\ (hi # 0 => k <= hi)}

\* COVER.  In an inner node children[i] covers the keys below keys[i] and the
\* last child those from the last key on (btree_types.h): every child is a
\* node whose keys lie between its neighbours.
ChildrenCover ==
  ~damaged =>
    \A p \in Pages : pages[p].kind = "inner" =>
      \A i \in 0 .. pages[p].n :
        LET node == pages[p]
            c == btree_node_child_at(node, i)
        IN  /\ IsKind(pages, c, "leaf") \/ IsKind(pages, c, "inner")
            /\ \A j \in 0 .. (Count(pages[c]) - 1) :
                 LET k == btree_node_key_at(pages[c], j) IN
                   /\ i < node.n => k < btree_node_key_at(node, i)
                   /\ i > 0 => k >= btree_node_key_at(node, i - 1)

\* PAGES.  Every page in use is reached exactly once, from the leaves, the
\* inner nodes or the chains, or was leaked by btree_insert_dup; a page that
\* was given back is reached from nowhere.
Heads == IF mode = "unique" THEN {} ELSE {k \in ModeKeys : btree_search(pages, meta, k) # 0}
PagesOwned ==
  ~damaged =>
    LET leaves == LeafList(pages, meta)
        chains == FoldSet(LAMBDA k, s : s \o ChainList(pages, btree_search(pages, meta, k)),
                          <<>>, Heads)
        inners == {p \in Pages : pages[p].kind = "inner"}
    IN  /\ IsInjective(leaves \o chains)
        /\ ToSet(leaves \o chains) \cup inners \cup leaked = Pages \ FreePages(pages)
        /\ leaked \cap ToSet(chains) = {}
        /\ \A p \in inners : p = meta.root_page

\* NOTHING LOST.  An insertion, also one that fails between two splits,
\* leaves every key it found in the list of leaves.
LeafKeys(pg, m) == UNION {ToSet(pg[p].keys) : p \in ToSet(LeafList(pg, m))}
NothingLost ==
  [][reply'.op = "insert" => LeafKeys(pages, meta) \subseteq LeafKeys(pages', meta')]_treeVars
=============================================================================
