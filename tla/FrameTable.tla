----------------------------- MODULE FrameTable -----------------------------
(***************************************************************************)
(* The page table of the buffer pool as the code stores it: an open        *)
(* addressing table of frame numbers with linear probing, whose keys are   *)
(* looked up in page_ids, and which deletes by shifting entries back.      *)
(* BufferPool uses it as a function from pages to frames; here it is shown *)
(* to be one.                                                              *)
(***************************************************************************)
EXTENDS Clock, FiniteSetsExt

CONSTANT Pages         \* page ids in use, all different from 0

ASSUME TableConstants == Pages \subseteq Nat \ {0}

VARIABLES
  home,         \* hash_page_id, an arbitrary function fixed at the start
  hash_table,
  page_ids,
  mapping       \* history: the function the table stands for

tableVars == <<home, hash_table, page_ids, mapping>>

-----------------------------------------------------------------------------
(* next_prime: the least odd number from n on without an odd divisor.      *)
NoOddDivisor(n) == \A d \in {k \in 3 .. n : k % 2 = 1} : d * d <= n => n % d # 0
next_prime(n) ==
  IF n <= 2 THEN 2
  ELSE Min({k \in n .. (2 * n) : k % 2 = 1 /\ NoOddDivisor(k)})

\* Mutation: as many slots as frames.
HashSize_Tight == next_prime(PoolSize)

HashSize == next_prime(PoolSize * 2)

Slot == 0 .. (HashSize - 1)
NoFrame == PoolSize           \* BUFFER_FRAME_INVALID

-----------------------------------------------------------------------------
\* The n-th slot probed for page p, and the first probe that meets an empty
\* slot or p's entry, in table t with keys ids.
Probe(p, n) == (home[p] + n) % HashSize
Stops(t, ids, p) ==
  {n \in Slot : LET f == t[Probe(p, n)] IN IF f = NoFrame THEN TRUE ELSE ids[f] = p}
FirstStop(t, ids, p) == Probe(p, Min(Stops(t, ids, p)))

hash_lookup(t, ids, p) ==
  IF Stops(t, ids, p) = {} THEN NoFrame ELSE t[FirstStop(t, ids, p)]

hash_insert(t, ids, p, f) == [t EXCEPT ![FirstStop(t, ids, p)] = f]

\* Mutation: the range is taken not to wrap around.
should_move_NoWrap(gap, j, k) == k <= gap \/ k > j

\* Is slot k outside the cyclic range (gap, j]?
should_move(gap, j, k) ==
  IF j >= gap THEN k <= gap \/ k > j ELSE k <= gap /\ k > j

\* The n-th slot after idx is considered: its entry moves back into the gap,
\* or stays.
ShiftBack(ids, idx, n, prev) ==
  LET j == (idx + n) % HashSize
  IN  IF should_move(prev.gap, j, home[ids[prev.table[j]]])
      THEN [table |-> [prev.table EXCEPT ![prev.gap] = prev.table[j]], gap |-> j]
      ELSE prev

\* Table and gap after the n slots that follow idx have been considered.
Shifted(t, ids, idx) ==
  LET shift[n \in 0 .. HashSize] ==
        IF n = 0 THEN [table |-> t, gap |-> idx]
        ELSE ShiftBack(ids, idx, n, shift[n - 1])
  IN  shift

\* The shift runs up to the next empty slot; the last gap is emptied.
hash_remove(t, ids, p) ==
  IF hash_lookup(t, ids, p) = NoFrame THEN t
  ELSE LET idx == FirstStop(t, ids, p)
           run == Min({n \in 1 .. HashSize : t[(idx + n) % HashSize] = NoFrame})
           last == Shifted(t, ids, idx)[run - 1]
       IN  [last.table EXCEPT ![last.gap] = NoFrame]

-----------------------------------------------------------------------------
TableInit ==
  /\ home \in [Pages -> Slot]
  /\ hash_table = [i \in Slot |-> NoFrame]
  /\ page_ids = [f \in Frame |-> 0]
  /\ mapping = [p \in Pages |-> NoFrame]

\* What buffer_pool_pin and buffer_pool_alloc_page do to the table: the page
\* is not found, an empty frame takes it ...
Fill(p, f) ==
  /\ hash_lookup(hash_table, page_ids, p) = NoFrame
  /\ page_ids[f] = 0
  /\ page_ids' = [page_ids EXCEPT ![f] = p]
  /\ hash_table' = hash_insert(hash_table, page_ids', p, f)
  /\ mapping' = [mapping EXCEPT ![p] = f]
  /\ UNCHANGED home

\* ... or a victim gives up its entry first.
Replace(p, f) ==
  /\ hash_lookup(hash_table, page_ids, p) = NoFrame
  /\ page_ids[f] # 0
  /\ \A g \in Frame : page_ids[g] # 0
  /\ page_ids' = [page_ids EXCEPT ![f] = p]
  /\ hash_table' =
       hash_insert(hash_remove(hash_table, page_ids, page_ids[f]), page_ids', p, f)
  /\ mapping' = [mapping EXCEPT ![page_ids[f]] = NoFrame, ![p] = f]
  /\ UNCHANGED home

TableNext == \E p \in Pages, f \in Frame : Fill(p, f) \/ Replace(p, f)

TableSpec == TableInit /\ [][TableNext]_tableVars

-----------------------------------------------------------------------------
\* EXACT.  Whatever the hash function and the history of insertions and
\* shifting deletions, hash_lookup finds exactly the pages that are cached.
LookupExact ==
  \A p \in Pages : hash_lookup(hash_table, page_ids, p) = mapping[p]

\* TERMINATION.  The table keeps an empty slot, without which the loops of
\* hash_insert and of the backward shift would not end.
SlotLeft == \E i \in Slot : hash_table[i] = NoFrame
=============================================================================
