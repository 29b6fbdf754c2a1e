---------------------------- MODULE QueryProofs ----------------------------
(***************************************************************************)
(* Answers of the query engine are sound in every reachable state of the   *)
(* event store, and complete as long as no operation has stopped half-way, *)
(* for any set of filters.                                                 *)
(*                                                                         *)
(* ResultsOf(M) are results in M without duplicate record ids; each loop   *)
(* that collects, checks, sorts or cuts results has lemmas that say what   *)
(* they come to and what is not lost.                                      *)
(***************************************************************************)
EXTENDS Query, EventStoreProofs

-----------------------------------------------------------------------------
(* What an index entry may point at, whatever has failed.                  *)
LEMMA InsertType ==
  ASSUME NEW d \in DupMap, NEW S, NEW keys \in Seq(S), NEW rid \in Rid
  PROVE  DupInsert(d, keys, rid) \in DupMap
  <1>1. ASSUME NEW key \in DupKeys PROVE d[key] \o [n \in 1 .. Copies(keys, key) |-> rid] \in Seq(Rid)
    <2> DEFINE z == [n \in 1 .. Copies(keys, key) |-> rid]
    <2>1. Copies(keys, key) \in Nat BY CopiesFacts
    <2>2. z \in [1 .. Copies(keys, key) -> Rid] OBVIOUS
    <2> HIDE DEF z
    <2>3. z \in Seq(Rid) BY <2>1, <2>2, FunctionSeq
    <2>4. d[key] \in Seq(Rid) BY DEF DupMap
    <2>5. d[key] \o z \in Seq(Rid) BY <2>3, <2>4, ConcatProperties
    <2>6. QED BY <2>5 DEF z
  <1>2. QED BY <1>1 DEF DupInsert, DupMap

DupTyped == dup \in DupMap

LEMMA DupTypedNext == DupTyped /\ StoreInv /\ [StoreNext]_storeVars => DupTyped'
  <1> SUFFICES ASSUME DupTyped, StoreInv, [StoreNext]_storeVars PROVE dup' \in DupMap
    BY DEF DupTyped, DupMap, DupKeys
  <1>0. dup \in DupMap BY DEF DupTyped
  <1>1. PICK c, q : Held(pages, home, c, q) BY DEF StoreInv, RecordsHeld
  <1>2. CASE UNCHANGED storeVars BY <1>0, <1>2 DEF storeVars
  <1>3. ASSUME NEW id \in Ids, Refused(id) PROVE dup' \in DupMap BY <1>0, <1>3 DEF Refused, storeVars
  <1>4. ASSUME NEW id \in Ids, WriteFull(id) PROVE dup' \in DupMap BY <1>0, <1>4 DEF WriteFull
  <1>5. ASSUME NEW id \in Ids, Written(id) PROVE dup' \in DupMap
    <2>1. PICK rid : WrittenTo(c, id, rid) BY <1>1, <1>5, WrittenStep
    <2>2. rid \in Rid /\ dup' = DupInsert(dup, IndexKeys(id), rid) BY <2>1 DEF WrittenTo
    <2>3. QED BY <1>0, <2>2, IndexKeysType, InsertType
  <1>6. ASSUME NEW id \in Ids, WriteFails(id) PROVE dup' \in DupMap
    <2>1. PICK target \in Targets(pages, Ev[id].size), k \in FailAt \cap (0 .. Len(IndexKeys(id))) :
            /\ record_insert(pages, event_serialize(id), target).rid # NoRid
            /\ dup' = DupInsert(dup, SubSeq(IndexKeys(id), 1, k - 1),
                                record_insert(pages, event_serialize(id), target).rid)
      BY <1>6 DEF WriteFails
    <2> DEFINE r == record_insert(pages, event_serialize(id), target)
               keys == IndexKeys(id)
    <2>2. Fresh(id) BY <1>6 DEF WriteFails
    <2>3. InsertOK(home, c, q, id, FALSE, r) BY <1>1, <2>2, FreshInserted
    <2>4. r.rid # NoRid /\ dup' = DupInsert(dup, SubSeq(keys, 1, k - 1), r.rid) BY <2>1
    <2>5. keys \in Seq(DupKeys) BY IndexKeysType
    <2> HIDE DEF r, keys
    <2>6. r.rid \in Rid BY <2>3, <2>4 DEF InsertOK
    <2>7. Len(keys) \in Nat /\ \A i \in 1 .. Len(keys) : keys[i] \in DupKeys BY <2>5, SeqElement
    <2>8. k \in 0 .. Len(keys) BY DEF keys
    <2>9. k - 1 \in Int /\ \A i \in 1 .. (k - 1) : keys[i] \in DupKeys BY <2>7, <2>8
    <2>10. SubSeq(keys, 1, k - 1) \in Seq(DupKeys) BY <2>9, SubSeqProperties
    <2>11. QED BY <1>0, <2>4, <2>6, <2>10, InsertType
  <1>7. ASSUME NEW id \in Ids, Deleted(id) PROVE dup' \in DupMap
    <2>1. PICK ev : DeletedAt(c, id, ev) BY <1>1, <1>7, DeletedStep
    <2>2. ev \in Ids /\ dup' = index_manager_delete_event(dup, ev, home[ev]) BY <2>1 DEF DeletedAt
    <2>3. QED BY <1>0, <2>2, DropType
  <1>8. QED BY <1>2, <1>3, <1>4, <1>5, <1>6, <1>7 DEF StoreNext

LEMMA DupTypedInit == StoreInit => DupTyped
  <1>1. <<>> \in Seq(Rid) BY EmptySeq
  <1>2. QED BY <1>1 DEF StoreInit, DupTyped, DupMap

\* What is read at any place: the event that is there, or nothing.
LEMMA RecordAt ==
  ASSUME NEW pg, NEW h, NEW c, NEW q, Held(pg, h, c, q), NEW rid \in Rid
  PROVE  \/ RecordEvent(pg, rid) = 0 /\ \A id \in Ids : h[id] # rid
         \/ \E id \in Ids : /\ h[id] = rid /\ RecordEvent(pg, rid) = id /\ id # 0
                            /\ Flagged(pg, rid) = c[id]
  <1>1. rid # NoRid BY RidFacts
  <1>2. CASE \A id \in Ids : h[id] # rid BY <1>2, FirstUnitNone
  <1>3. CASE \E id \in Ids : h[id] = rid
    <2>1. PICK id \in Ids : h[id] = rid BY <1>3
    <2>2. RecordEvent(pg, h[id]) = id /\ Flagged(pg, h[id]) = c[id] /\ id # 0
      BY <1>1, <2>1, FirstUnitHeld
    <2>3. QED BY <2>1, <2>2
  <1>4. QED BY <1>2, <1>3

\* The time that is read there: of an event that is not large its own.
LEMMA TimeAt ==
  ASSUME NEW pg, NEW h, NEW c, NEW q, Held(pg, h, c, q), NEW rid \in Rid
  PROVE  /\ read_created_at(pg, rid) \in Int
         /\ \A id \in Ids : h[id] = rid =>
              /\ Spanned(pg, rid) <=> Large(id)
              /\ ~Large(id) => read_created_at(pg, rid) = Ev[id].time
  <1> DEFINE page == pg[rid[1]]
             s == page.slots[rid[2] + 1]
  <1>1. /\ rid[1] \in RecPages /\ rid[2] \in Nat /\ rid = <<rid[1], rid[2]>>
        /\ rid # NoRid /\ (rid[2] + 1) - 1 = rid[2]
    BY RidFacts
  <1>2. ASSUME NEW id \in Ids, h[id] = rid
        PROVE  /\ Spanned(pg, rid) <=> Large(id)
               /\ read_created_at(pg, rid) = IF Large(id) THEN Ev[id].sigTime ELSE Ev[id].time
    <2>1. h[id] # NoRid BY <1>1, <1>2
    <2>2. Whole(pg, rid, Units(id, c[id]), q[id]) /\ c[id] \in BOOLEAN BY <1>2, <2>1, HomeFacts
    <2>3. Units(id, c[id]) \in Seq(Unit) /\ Len(Units(id, c[id])) = Ev[id].size
      BY <2>2, UnitsFacts
    <2>4. /\ HasSlot(page, rid[2]) /\ s.offset \in Nat
          /\ overflow_is_spanned(page, rid[2]) <=> Large(id)
      BY <2>2, <2>3, SpannedIs DEF Large
    <2>5. s.offset # 0
      <3>1. Layout(page) /\ rid[2] + 1 \in LiveSlots(page) BY <2>2 DEF Whole
      <3>2. page.end <= s.offset /\ Start(page) <= page.end /\ page \in RecordPage
        BY <3>1 DEF Layout, SlotSound
      <3>3. Len(page.slots) \in Nat /\ page.end \in Nat BY <3>2, PageTypes
      <3>4. Start(page) >= 1
        <4>1. HeaderSize \in Nat /\ HeaderSize >= 1 /\ EntrySize \in Nat BY RecordConstants
        <4>2. EntrySize * Len(page.slots) \in Nat BY <3>3, <4>1
        <4> DEFINE m == EntrySize * Len(page.slots)
        <4>3. Start(page) = HeaderSize + m BY DEF Start
        <4> HIDE DEF m
        <4>4. QED BY <4>1, <4>2, <4>3 DEF m
      <3>5. Start(page) \in Int
        <4>1. HeaderSize \in Nat /\ EntrySize \in Nat BY RecordConstants
        <4>2. QED BY <3>3, <4>1 DEF Start
      <3>6. QED BY <2>4, <3>2, <3>3, <3>4, <3>5
    <2>6. RecordEvent(pg, rid) = id BY <1>2, <2>1, FirstUnitHeld
    <2>7. Spanned(pg, rid) <=> Large(id) BY <2>4 DEF Spanned
    <2>8. QED BY <2>4, <2>5, <2>6, <2>7 DEF read_created_at
  <1>3. read_created_at(pg, rid) \in Int
    <2>1. CASE \E id \in Ids : h[id] = rid
      <3>1. PICK id \in Ids : h[id] = rid BY <2>1
      <3>2. Ev[id].time \in Int /\ Ev[id].sigTime \in Int BY EventConstants
      <3>3. QED BY <1>2, <3>1, <3>2
    <2>2. CASE \A id \in Ids : h[id] # rid
      <3>1. ASSUME HasSlot(page, rid[2]), s.offset # 0 PROVE FALSE
        <4>1. page.kind = "record" /\ rid[2] < Len(page.slots) BY <3>1 DEF HasSlot
        <4>2. page \in RecordPage /\ DOMAIN h = Ids BY <1>1, <4>1 DEF Held, PagesOK, Layout
        <4>3. rid[2] + 1 \in 1 .. Len(page.slots) BY <1>1, <4>1, <4>2, PageTypes
        <4>4. s # DeletedSlot BY <3>1 DEF DeletedSlot
        <4>5. rid[2] + 1 \in LiveSlots(page) BY <4>3, <4>4 DEF LiveSlots
        <4>6. \E id \in Ids : h[id] = <<rid[1], (rid[2] + 1) - 1>>
          BY <1>1, <4>1, <4>2, <4>5 DEF Held, Owned
        <4>7. QED BY <1>1, <2>2, <4>6
      <3>2. read_created_at(pg, rid) = 0 BY <3>1 DEF read_created_at
      <3>3. QED BY <3>2
    <2>3. QED BY <2>1, <2>2
  <1>4. QED BY <1>2, <1>3

-----------------------------------------------------------------------------
(* Collecting results: no record twice, each of them one that was meant.   *)
ResultsOf(M) ==
  {rs \in Seq(M) : \A i, j \in 1 .. Len(rs) : rs[i].rid = rs[j].rid => i = j}

LEMMA NoResults == ASSUME NEW M PROVE <<>> \in ResultsOf(M)
  BY EmptySeq DEF ResultsOf

LEMMA ResultsType ==
  ASSUME NEW M, NEW rs \in ResultsOf(M)
  PROVE  /\ rs \in Seq(M) /\ Len(rs) \in Nat /\ DOMAIN rs = 1 .. Len(rs)
         /\ \A i \in 1 .. Len(rs) : rs[i] \in M
         /\ \A i, j \in 1 .. Len(rs) : rs[i].rid = rs[j].rid => i = j
  <1>1. rs \in Seq(M) BY DEF ResultsOf
  <1>2. QED BY <1>1, LenProperties, ElementOfSeq DEF ResultsOf

LEMMA AddResult ==
  ASSUME NEW M, NEW rs \in ResultsOf(M), NEW rid, NEW ts, [rid |-> rid, ts |-> ts] \in M
  PROVE  query_result_add(rs, rid, ts) \in ResultsOf(M)
  <1> DEFINE r == [rid |-> rid, ts |-> ts]
             n == Len(rs)
             t == Append(rs, r)
  <1>1. rs \in Seq(M) /\ n \in Nat /\ DOMAIN rs = 1 .. n BY ResultsType
  <1>2. CASE \E i \in DOMAIN rs : rs[i].rid = rid BY <1>2 DEF query_result_add
  <1>3. CASE ~\E i \in DOMAIN rs : rs[i].rid = rid
    <2>1. query_result_add(rs, rid, ts) = t BY <1>3 DEF query_result_add
    <2>2. r.rid = rid /\ r \in M OBVIOUS
    <2> HIDE DEF r
    <2>3. t \in Seq(M) /\ Len(t) = n + 1 /\ t[n + 1] = r /\ \A i \in 1 .. n : t[i] = rs[i]
      BY <1>1, <2>2, AppendProperties
    <2> HIDE DEF t, n
    <2>4. ASSUME NEW i \in 1 .. (n + 1), NEW j \in 1 .. (n + 1), t[i].rid = t[j].rid PROVE i = j
      <3>1. \A k \in 1 .. n : t[k].rid = rs[k].rid /\ rs[k].rid # rid BY <1>1, <1>3, <2>3
      <3>2. \A k \in 1 .. (n + 1) : k \in 1 .. n \/ k = n + 1 BY <1>1
      <3>3. CASE i \in 1 .. n /\ j \in 1 .. n BY <2>4, <3>1, <3>3, ResultsType DEF n
      <3>4. CASE i = n + 1 \/ j = n + 1 BY <2>2, <2>3, <2>4, <3>1, <3>2, <3>4
      <3>5. QED BY <3>2, <3>3, <3>4
    <2>5. t \in ResultsOf(M) BY <2>3, <2>4 DEF ResultsOf
    <2>6. QED BY <2>1, <2>5
  <1>4. QED BY <1>2, <1>3

LEMMA EntriesType == ASSUME NEW db, db.dup \in DupMap, NEW key PROVE Entries(db, key) \in Seq(Rid)
  BY EmptySeq DEF DupMap, Entries

\* The results that entries of a key come to in a scan are in M.
MayScan(db, key, M) ==
  \A rid \in ToSet(Entries(db, key)) : [rid |-> rid, ts |-> read_created_at(db.pages, rid)] \in M

ScanState(M) == [rs : ResultsOf(M), stop : BOOLEAN]

LEMMA ScanStep ==
  ASSUME NEW db, NEW M, NEW f, NEW limit, NEW p \in ScanState(M), NEW rid,
         [rid |-> rid, ts |-> read_created_at(db.pages, rid)] \in M
  PROVE  scan_collect_cb(db, f, limit, p, rid) \in ScanState(M)
  <1> DEFINE ts == read_created_at(db.pages, rid)
             more == IF InTime(f, ts) THEN query_result_add(p.rs, rid, ts) ELSE p.rs
             Next1 == scan_collect_cb(db, f, limit, p, rid)
  <1>1. p.rs \in ResultsOf(M) BY DEF ScanState
  <1>2. query_result_add(p.rs, rid, ts) \in ResultsOf(M) BY <1>1, AddResult
  <1>3. more \in ResultsOf(M) BY <1>1, <1>2
  <1>4. Next1 = [p EXCEPT !.stop = TRUE] \/ Next1 = [rs |-> more, stop |-> Len(more) >= limit]
    BY DEF scan_collect_cb
  <1> HIDE DEF more, Next1
  <1>5. [p EXCEPT !.stop = TRUE] \in ScanState(M) BY DEF ScanState
  <1>6. (Len(more) >= limit) \in BOOLEAN OBVIOUS
  <1>7. ASSUME NEW d \in BOOLEAN PROVE [rs |-> more, stop |-> d] \in ScanState(M) BY <1>3 DEF ScanState
  <1>8. Next1 \in ScanState(M) BY <1>4, <1>5, <1>6, <1>7
  <1>9. QED BY <1>8 DEF Next1

ScanSteps(db, f, limit, s, X) ==
  [i \in 1 .. Len(s) |-> [p \in X |-> scan_collect_cb(db, f, limit, p, s[i])]]

LEMMA ScanKeyRuns ==
  ASSUME NEW db, db.dup \in DupMap, NEW M, NEW f, NEW key, MayScan(db, key, M), NEW limit, NEW rs \in ResultsOf(M)
  PROVE  /\ ScanKey(db, f, key, limit, rs) \in ResultsOf(M)
         /\ \E u : /\ Runs(Len(Entries(db, key)), ScanState(M), [rs |-> rs, stop |-> FALSE],
                          ScanSteps(db, f, limit, Entries(db, key), ScanState(M)), u)
                  /\ ScanKey(db, f, key, limit, rs) = u[Len(Entries(db, key))].rs
  <1> DEFINE s == Entries(db, key)
  <1>0. s \in Seq(Rid) /\ Len(s) \in Nat /\ \A i \in 1 .. Len(s) : s[i] \in ToSet(s)
    <2>1. s \in Seq(Rid) BY EntriesType
    <2> HIDE DEF s
    <2>2. ToSet(s) = {s[i] : i \in 1 .. Len(s)} BY <2>1, ToSetFacts
    <2>3. QED BY <2>1, <2>2, SeqElement
  <1> DEFINE N == Len(s)
             X == ScanState(M)
             b == [rs |-> rs, stop |-> FALSE]
             G == [i \in 1 .. N |-> [p \in X |-> scan_collect_cb(db, f, limit, p, s[i])]]
             Law(g) == g = [i \in 0 .. N |-> IF i = 0 THEN b ELSE scan_collect_cb(db, f, limit, g[i - 1], s[i])]
             u == CHOOSE g : Law(g)
  <1>1. N \in Nat BY <1>0
  <1>2. b \in X BY DEF ScanState
  <1>3. ASSUME NEW i \in 1 .. N, NEW p \in X PROVE scan_collect_cb(db, f, limit, p, s[i]) \in X
    <2>1. s[i] \in ToSet(s) BY <1>0
    <2>2. [rid |-> s[i], ts |-> read_created_at(db.pages, s[i])] \in M BY <2>1 DEF MayScan
    <2>3. QED BY <2>2, ScanStep
  <1>4. ScanKey(db, f, key, limit, rs) = u[N].rs BY DEF ScanKey
  <1> HIDE DEF N, X, b, s
  <1>5. G \in [1 .. N -> [X -> X]] BY <1>3
  <1>6. PICK w : Recursion(N, X, b, G, w)
    <2> HIDE DEF G
    <2>1. QED BY <1>1, <1>2, <1>5, RecursionExists
  <1>7. Law(w)
    <2>1. w \in [0 .. N -> X] /\ w[0] = b BY <1>6 DEF Recursion
    <2>2. ASSUME NEW i \in 1 .. N PROVE w[i] = scan_collect_cb(db, f, limit, w[i - 1], s[i])
      <3>1. i - 1 \in 0 .. N BY <1>1
      <3>2. w[i - 1] \in X BY <2>1, <3>1
      <3>3. w[i] = G[i][w[i - 1]]
        <4> HIDE DEF G
        <4>1. QED BY <1>6 DEF Recursion
      <3>4. QED BY <3>2, <3>3
    <2>3. \A i \in 0 .. N : w[i] = IF i = 0 THEN b ELSE scan_collect_cb(db, f, limit, w[i - 1], s[i])
      BY <1>1, <2>1, <2>2
    <2>4. QED BY <2>1, <2>3
  <1>8. Law(u)
    <2> HIDE DEF Law
    <2>1. QED BY <1>7
  <1> HIDE DEF u
  <1>9. u[0] = b /\ \A i \in 1 .. N : u[i] = scan_collect_cb(db, f, limit, u[i - 1], s[i])
    <2>1. \A i \in 0 .. N : u[i] = IF i = 0 THEN b ELSE scan_collect_cb(db, f, limit, u[i - 1], s[i]) BY <1>8
    <2>2. QED BY <1>1, <2>1
  <1>10. \A i \in 0 .. N : u[i] \in X
    <2>1. Follows(N, X, b, G, u) BY <1>9 DEF Follows
    <2> HIDE DEF G
    <2>2. QED BY <1>1, <1>2, <1>5, <2>1, RecursionIn
  <1>11. Runs(N, X, b, G, u)
    <2>1. ASSUME NEW i \in 1 .. N PROVE u[i] = G[i][u[i - 1]]
      <3>1. i - 1 \in 0 .. N BY <1>1
      <3>2. QED BY <1>9, <1>10, <3>1
    <2> HIDE DEF G
    <2>2. QED BY <1>9, <1>10, <2>1 DEF Runs
  <1>12. G = ScanSteps(db, f, limit, s, X) BY DEF ScanSteps, N
  <1>13. ScanKey(db, f, key, limit, rs) \in ResultsOf(M)
    <2>1. u[N] \in ScanState(M) BY <1>1, <1>10 DEF X
    <2>2. QED BY <1>4, <2>1 DEF ScanState
  <1> HIDE DEF G
  <1>14. QED BY <1>4, <1>11, <1>12, <1>13 DEF N, X, b, s

ScanNext(db, f, key, limit, p) ==
  IF Len(p) >= limit THEN p ELSE ScanKey(db, f, key, limit - Len(p), p)

KeySteps(db, f, keys, limit, X) ==
  [i \in 1 .. Len(keys) |-> [p \in X |-> ScanNext(db, f, keys[i], limit, p)]]

LEMMA ScanKeysRuns ==
  ASSUME NEW db, db.dup \in DupMap, NEW M, NEW f, NEW keys, Len(keys) \in Nat,
         \A i \in 1 .. Len(keys) : MayScan(db, keys[i], M), NEW limit, NEW rs \in ResultsOf(M)
  PROVE  /\ ScanKeys(db, f, keys, limit, rs) \in ResultsOf(M)
         /\ \E u : /\ Runs(Len(keys), ResultsOf(M), rs, KeySteps(db, f, keys, limit, ResultsOf(M)), u)
                  /\ ScanKeys(db, f, keys, limit, rs) = u[Len(keys)]
  <1> DEFINE N == Len(keys)
             X == ResultsOf(M)
             b == rs
             G == [i \in 1 .. N |-> [p \in X |-> ScanNext(db, f, keys[i], limit, p)]]
             Law(g) == g = [i \in 0 .. N |-> IF i = 0 THEN b ELSE ScanNext(db, f, keys[i], limit, g[i - 1])]
             u == CHOOSE g : Law(g)
  <1>1. N \in Nat OBVIOUS
  <1>2. b \in X OBVIOUS
  <1>3. ASSUME NEW i \in 1 .. N, NEW p \in X PROVE ScanNext(db, f, keys[i], limit, p) \in X
    BY ScanKeyRuns DEF ScanNext
  <1>4. ScanKeys(db, f, keys, limit, rs) = u[N] BY DEF ScanKeys, ScanNext
  <1> HIDE DEF N, X, b
  <1>5. G \in [1 .. N -> [X -> X]] BY <1>3
  <1>6. PICK w : Recursion(N, X, b, G, w)
    <2> HIDE DEF G
    <2>1. QED BY <1>1, <1>2, <1>5, RecursionExists
  <1>7. Law(w)
    <2>1. w \in [0 .. N -> X] /\ w[0] = b BY <1>6 DEF Recursion
    <2>2. ASSUME NEW i \in 1 .. N PROVE w[i] = ScanNext(db, f, keys[i], limit, w[i - 1])
      <3>1. i - 1 \in 0 .. N BY <1>1
      <3>2. w[i - 1] \in X BY <2>1, <3>1
      <3>3. w[i] = G[i][w[i - 1]]
        <4> HIDE DEF G
        <4>1. QED BY <1>6 DEF Recursion
      <3>4. QED BY <3>2, <3>3
    <2>3. \A i \in 0 .. N : w[i] = IF i = 0 THEN b ELSE ScanNext(db, f, keys[i], limit, w[i - 1])
      BY <1>1, <2>1, <2>2
    <2>4. QED BY <2>1, <2>3
  <1>8. Law(u)
    <2> HIDE DEF Law
    <2>1. QED BY <1>7
  <1> HIDE DEF u
  <1>9. u[0] = b /\ \A i \in 1 .. N : u[i] = ScanNext(db, f, keys[i], limit, u[i - 1])
    <2>1. \A i \in 0 .. N : u[i] = IF i = 0 THEN b ELSE ScanNext(db, f, keys[i], limit, u[i - 1]) BY <1>8
    <2>2. QED BY <1>1, <2>1
  <1>10. \A i \in 0 .. N : u[i] \in X
    <2>1. Follows(N, X, b, G, u) BY <1>9 DEF Follows
    <2> HIDE DEF G
    <2>2. QED BY <1>1, <1>2, <1>5, <2>1, RecursionIn
  <1>11. Runs(N, X, b, G, u)
    <2>1. ASSUME NEW i \in 1 .. N PROVE u[i] = G[i][u[i - 1]]
      <3>1. i - 1 \in 0 .. N BY <1>1
      <3>2. QED BY <1>9, <1>10, <3>1
    <2> HIDE DEF G
    <2>2. QED BY <1>9, <1>10, <2>1 DEF Runs
  <1>12. G = KeySteps(db, f, keys, limit, X) BY DEF KeySteps, N
  <1>13. u[N] \in X BY <1>1, <1>10
  <1> HIDE DEF G
  <1>14. QED BY <1>4, <1>11, <1>12, <1>13 DEF N, X, b

\* What a query reads, and a filter it may be given.
ReadableDB(db) ==
  /\ db.dup \in DupMap /\ db.id_index \in [Ids -> Rid \cup {NoRid}]
  /\ \A rid \in Rid : read_created_at(db.pages, rid) \in Int

FilterTag(tag) ==
  /\ IsSeq(tag.values) /\ tag.name # ""
  /\ \A v \in ToSet(tag.values) :
       IF Binary(tag.name) THEN v[1] = "binary" ELSE v[1] \in {"text", "cut", "hexcut"}

FilterOK(f) ==
  /\ f = [ids |-> f.ids, authors |-> f.authors, kinds |-> f.kinds, tags |-> f.tags,
          since |-> f.since, until |-> f.until, limit |-> f.limit]
  /\ f.limit \in Nat /\ f.since \in Nat /\ f.until \in Nat
  /\ IsSeq(f.ids) /\ IsSeq(f.authors) /\ IsSeq(f.kinds) /\ IsSeq(f.tags)
  /\ \A x \in ToSet(f.ids) \cup ToSet(f.authors) : x = [v |-> x.v, form |-> x.form]
  /\ \A tag \in ToSet(f.tags) : FilterTag(tag) /\ tag.values # <<>>

\* The results that each way to collect them may come to.
ReadAt(db) == {[rid |-> rid, ts |-> read_created_at(db.pages, rid)] : rid \in Rid}
UnderTag(db, tag, rid) ==
  \E j \in 1 .. Len(tag.values) : rid \in ToSet(Entries(db, TagKey(tag.name, tag.values[j])))
UnderTags(db, f) == {r \in ReadAt(db) : \E i \in 1 .. Len(f.tags) : UnderTag(db, f.tags[i], r.rid)}
AtTimes(db) == {r \in [rid : Rid, ts : Nat] : r.rid \in ToSet(Entries(db, TimeKey(r.ts)))}
Meant(db, f) ==
  CASE select_strategy(f) = "by_tag" -> UnderTags(db, f)
    [] select_strategy(f) = "timeline_scan" -> AtTimes(db)
    [] OTHER -> ReadAt(db)

LEMMA IsSeqFacts ==
  ASSUME NEW s, IsSeq(s)
  PROVE  Len(s) \in Nat /\ DOMAIN s = 1 .. Len(s) /\ ToSet(s) = {s[i] : i \in 1 .. Len(s)}
  <1>1. s \in Seq(ToSet(s)) BY DEF IsSeq
  <1>2. QED BY <1>1, LenProperties, ToSetFacts

LEMMA EntriesFacts ==
  ASSUME NEW db, ReadableDB(db), NEW key
  PROVE  /\ Len(Entries(db, key)) \in Nat
         /\ ToSet(Entries(db, key)) \subseteq Rid
         /\ \A i \in 1 .. Len(Entries(db, key)) : Entries(db, key)[i] \in ToSet(Entries(db, key))
  <1> DEFINE s == Entries(db, key)
  <1>1. s \in Seq(Rid) BY EntriesType DEF ReadableDB
  <1> HIDE DEF s
  <1>2. ToSet(s) = {s[i] : i \in 1 .. Len(s)} /\ ToSet(s) \subseteq Rid /\ Len(s) \in Nat
    BY <1>1, ToSetFacts, SeqElement
  <1>3. Len(s) \in Nat /\ ToSet(s) \subseteq Rid /\ \A i \in 1 .. Len(s) : s[i] \in ToSet(s) BY <1>2
  <1>4. QED BY <1>3 DEF s

\* Whatever the indexes hold comes to results in M.
FitsAll(db, M) ==
  /\ \A key : MayScan(db, key, M)
  /\ \A id \in Ids : LET rid == db.id_index[id]
                     IN  rid # NoRid => [rid |-> rid, ts |-> read_created_at(db.pages, rid)] \in M

LEMMA AnyFits ==
  ASSUME NEW db, ReadableDB(db)
  PROVE  FitsAll(db, ReadAt(db))
  <1>1. \A key : MayScan(db, key, ReadAt(db)) BY EntriesFacts DEF MayScan, ReadAt
  <1>2. \A id \in Ids : db.id_index[id] \in Rid \cup {NoRid} BY DEF ReadableDB
  <1>3. QED BY <1>1, <1>2 DEF FitsAll, ReadAt

IdsNext(db, f, x, p) ==
  LET rid == index_id_lookup(db, x)
      ts == read_created_at(db.pages, rid)
  IN  IF Len(p) >= f.limit \/ rid = NoRid THEN p
      ELSE IF InTime(f, ts) THEN query_result_add(p, rid, ts) ELSE p

IdSteps(db, f, X) == [i \in 1 .. Len(f.ids) |-> [p \in X |-> IdsNext(db, f, f.ids[i], p)]]

LEMMA ByIdsRuns ==
  ASSUME NEW db, ReadableDB(db), NEW M, FitsAll(db, M), NEW f, Len(f.ids) \in Nat
  PROVE  /\ query_by_ids(db, f) \in ResultsOf(M)
         /\ \E u : /\ Runs(Len(f.ids), ResultsOf(M), <<>>, IdSteps(db, f, ResultsOf(M)), u)
                  /\ query_by_ids(db, f) = u[Len(f.ids)]
  <1> DEFINE N == Len(f.ids)
             X == ResultsOf(M)
             b == <<>>
             G == [i \in 1 .. N |-> [p \in X |-> IdsNext(db, f, f.ids[i], p)]]
             Law(g) == g = [i \in 0 .. N |-> IF i = 0 THEN b ELSE IdsNext(db, f, f.ids[i], g[i - 1])]
             u == CHOOSE g : Law(g)
  <1>1. N \in Nat OBVIOUS
  <1>2. b \in X BY NoResults
  <1>3. ASSUME NEW i \in 1 .. N, NEW p \in X PROVE IdsNext(db, f, f.ids[i], p) \in X
    <2> DEFINE rid == index_id_lookup(db, f.ids[i])
    <2>1. rid \in Rid \cup {NoRid} BY DEF index_id_lookup, ReadableDB
    <2> HIDE DEF rid
    <2>2. CASE rid = NoRid BY <2>2 DEF IdsNext, rid
    <2>3. CASE rid \in Rid
      <3>1. CASE f.ids[i].form = "whole" /\ f.ids[i].v \in Ids
        <4>1. rid = db.id_index[f.ids[i].v] BY <3>1 DEF rid, index_id_lookup
        <4>2. rid # NoRid => [rid |-> rid, ts |-> read_created_at(db.pages, rid)] \in M
          BY <3>1, <4>1 DEF FitsAll
        <4>3. rid # NoRid => query_result_add(p, rid, read_created_at(db.pages, rid)) \in ResultsOf(M)
          BY <4>2, AddResult
        <4>4. QED BY <4>3 DEF IdsNext, rid
      <3>2. CASE ~(f.ids[i].form = "whole" /\ f.ids[i].v \in Ids)
        BY <3>2 DEF IdsNext, index_id_lookup
      <3>3. QED BY <3>1, <3>2
    <2>4. QED BY <2>1, <2>2, <2>3
  <1>4. query_by_ids(db, f) = u[N] BY DEF query_by_ids, IdsNext
  <1> HIDE DEF N, X, b
  <1>5. G \in [1 .. N -> [X -> X]] BY <1>3
  <1>6. PICK w : Recursion(N, X, b, G, w)
    <2> HIDE DEF G
    <2>1. QED BY <1>1, <1>2, <1>5, RecursionExists
  <1>7. Law(w)
    <2>1. w \in [0 .. N -> X] /\ w[0] = b BY <1>6 DEF Recursion
    <2>2. ASSUME NEW i \in 1 .. N PROVE w[i] = IdsNext(db, f, f.ids[i], w[i - 1])
      <3>1. i - 1 \in 0 .. N BY <1>1
      <3>2. w[i - 1] \in X BY <2>1, <3>1
      <3>3. w[i] = G[i][w[i - 1]]
        <4> HIDE DEF G
        <4>1. QED BY <1>6 DEF Recursion
      <3>4. QED BY <3>2, <3>3
    <2>3. \A i \in 0 .. N : w[i] = IF i = 0 THEN b ELSE IdsNext(db, f, f.ids[i], w[i - 1])
      BY <1>1, <2>1, <2>2
    <2>4. QED BY <2>1, <2>3
  <1>8. Law(u)
    <2> HIDE DEF Law
    <2>1. QED BY <1>7
  <1> HIDE DEF u
  <1>9. u[0] = b /\ \A i \in 1 .. N : u[i] = IdsNext(db, f, f.ids[i], u[i - 1])
    <2>1. \A i \in 0 .. N : u[i] = IF i = 0 THEN b ELSE IdsNext(db, f, f.ids[i], u[i - 1]) BY <1>8
    <2>2. QED BY <1>1, <2>1
  <1>10. \A i \in 0 .. N : u[i] \in X
    <2>1. Follows(N, X, b, G, u) BY <1>9 DEF Follows
    <2> HIDE DEF G
    <2>2. QED BY <1>1, <1>2, <1>5, <2>1, RecursionIn
  <1>11. Runs(N, X, b, G, u)
    <2>1. ASSUME NEW i \in 1 .. N PROVE u[i] = G[i][u[i - 1]]
      <3>1. i - 1 \in 0 .. N BY <1>1
      <3>2. QED BY <1>9, <1>10, <3>1
    <2> HIDE DEF G
    <2>2. QED BY <1>9, <1>10, <2>1 DEF Runs
  <1>12. G = IdSteps(db, f, X) BY DEF IdSteps, N
  <1>13. u[N] \in X BY <1>1, <1>10
  <1> HIDE DEF G
  <1>14. QED BY <1>4, <1>11, <1>12, <1>13 DEF N, X, b

LEMMA KeysScanned ==
  ASSUME NEW db, ReadableDB(db), NEW f, NEW n \in Nat, NEW S, NEW keys \in [1 .. n -> S],
         NEW M, \A i \in 1 .. n : MayScan(db, keys[i], M), NEW limit, NEW rs \in ResultsOf(M)
  PROVE  ScanKeys(db, f, keys, limit, rs) \in ResultsOf(M)
  <1>1. Len(keys) = n BY FunctionSeq
  <1>2. QED BY <1>1, ScanKeysRuns DEF ReadableDB

LEMMA ByKeyType ==
  ASSUME NEW db, ReadableDB(db), NEW R, FitsAll(db, R), NEW f, Len(f.authors) \in Nat, Len(f.kinds) \in Nat
  PROVE  /\ query_by_pubkey(db, f) \in ResultsOf(R)
         /\ query_by_kind(db, f) \in ResultsOf(R)
  <1> DEFINE a == [i \in 1 .. Len(f.authors) |-> AuthorKey(AuthorOf(f.authors[i]))]
             k == [i \in 1 .. Len(f.kinds) |-> KindKey(f.kinds[i])]
             S == {a[i] : i \in 1 .. Len(f.authors)}
             T == {k[i] : i \in 1 .. Len(f.kinds)}
  <1>1. a \in [1 .. Len(f.authors) -> S] OBVIOUS
  <1>2. k \in [1 .. Len(f.kinds) -> T] OBVIOUS
  <1>3. query_by_pubkey(db, f) = ScanKeys(db, f, a, f.limit, <<>>) BY DEF query_by_pubkey
  <1>4. query_by_kind(db, f) = ScanKeys(db, f, k, f.limit, <<>>) BY DEF query_by_kind
  <1> HIDE DEF a, k, S, T
  <1>5. \A key : MayScan(db, key, R) BY DEF FitsAll
  <1>6. <<>> \in ResultsOf(R) BY NoResults
  <1>7. ScanKeys(db, f, a, f.limit, <<>>) \in ResultsOf(R) BY <1>1, <1>5, <1>6, KeysScanned
  <1>8. ScanKeys(db, f, k, f.limit, <<>>) \in ResultsOf(R) BY <1>2, <1>5, <1>6, KeysScanned
  <1>9. QED BY <1>3, <1>4, <1>7, <1>8

PairNext(db, f, i, p) ==
  ScanKeys(db, f, [j \in 1 .. Len(f.kinds) |-> AuthorKindKey(AuthorOf(f.authors[i]), f.kinds[j])],
           f.limit, p)

PairSteps(db, f, X) == [i \in 1 .. Len(f.authors) |-> [p \in X |-> PairNext(db, f, i, p)]]

LEMMA ByPairRuns ==
  ASSUME NEW db, ReadableDB(db), NEW M, FitsAll(db, M), NEW f, Len(f.authors) \in Nat, Len(f.kinds) \in Nat
  PROVE  /\ query_by_pubkey_kind(db, f) \in ResultsOf(M)
         /\ \E u : /\ Runs(Len(f.authors), ResultsOf(M), <<>>, PairSteps(db, f, ResultsOf(M)), u)
                  /\ query_by_pubkey_kind(db, f) = u[Len(f.authors)]
  <1> DEFINE N == Len(f.authors)
             X == ResultsOf(M)
             b == <<>>
             G == [i \in 1 .. N |-> [p \in X |-> PairNext(db, f, i, p)]]
             Law(g) == g = [i \in 0 .. N |-> IF i = 0 THEN b ELSE PairNext(db, f, i, g[i - 1])]
             u == CHOOSE g : Law(g)
  <1>1. N \in Nat OBVIOUS
  <1>2. b \in X BY NoResults
  <1>3. ASSUME NEW i \in 1 .. N, NEW p \in X PROVE PairNext(db, f, i, p) \in X
    <2> DEFINE k == [j \in 1 .. Len(f.kinds) |-> AuthorKindKey(AuthorOf(f.authors[i]), f.kinds[j])]
               T == {k[j] : j \in 1 .. Len(f.kinds)}
    <2>1. k \in [1 .. Len(f.kinds) -> T] OBVIOUS
    <2>2. PairNext(db, f, i, p) = ScanKeys(db, f, k, f.limit, p) BY DEF PairNext
    <2> HIDE DEF k, T
    <2>3. \A key : MayScan(db, key, M) BY DEF FitsAll
    <2>4. ScanKeys(db, f, k, f.limit, p) \in ResultsOf(M) BY <2>1, <2>3, KeysScanned
    <2>5. QED BY <2>2, <2>4
  <1>4. query_by_pubkey_kind(db, f) = u[N] BY DEF query_by_pubkey_kind, PairNext
  <1> HIDE DEF N, X, b
  <1>5. G \in [1 .. N -> [X -> X]] BY <1>3
  <1>6. PICK w : Recursion(N, X, b, G, w)
    <2> HIDE DEF G
    <2>1. QED BY <1>1, <1>2, <1>5, RecursionExists
  <1>7. Law(w)
    <2>1. w \in [0 .. N -> X] /\ w[0] = b BY <1>6 DEF Recursion
    <2>2. ASSUME NEW i \in 1 .. N PROVE w[i] = PairNext(db, f, i, w[i - 1])
      <3>1. i - 1 \in 0 .. N BY <1>1
      <3>2. w[i - 1] \in X BY <2>1, <3>1
      <3>3. w[i] = G[i][w[i - 1]]
        <4> HIDE DEF G
        <4>1. QED BY <1>6 DEF Recursion
      <3>4. QED BY <3>2, <3>3
    <2>3. \A i \in 0 .. N : w[i] = IF i = 0 THEN b ELSE PairNext(db, f, i, w[i - 1])
      BY <1>1, <2>1, <2>2
    <2>4. QED BY <2>1, <2>3
  <1>8. Law(u)
    <2> HIDE DEF Law
    <2>1. QED BY <1>7
  <1> HIDE DEF u
  <1>9. u[0] = b /\ \A i \in 1 .. N : u[i] = PairNext(db, f, i, u[i - 1])
    <2>1. \A i \in 0 .. N : u[i] = IF i = 0 THEN b ELSE PairNext(db, f, i, u[i - 1]) BY <1>8
    <2>2. QED BY <1>1, <2>1
  <1>10. \A i \in 0 .. N : u[i] \in X
    <2>1. Follows(N, X, b, G, u) BY <1>9 DEF Follows
    <2> HIDE DEF G
    <2>2. QED BY <1>1, <1>2, <1>5, <2>1, RecursionIn
  <1>11. Runs(N, X, b, G, u)
    <2>1. ASSUME NEW i \in 1 .. N PROVE u[i] = G[i][u[i - 1]]
      <3>1. i - 1 \in 0 .. N BY <1>1
      <3>2. QED BY <1>9, <1>10, <3>1
    <2> HIDE DEF G
    <2>2. QED BY <1>9, <1>10, <2>1 DEF Runs
  <1>12. G = PairSteps(db, f, X) BY DEF PairSteps, N
  <1>13. u[N] \in X BY <1>1, <1>10
  <1> HIDE DEF G
  <1>14. QED BY <1>4, <1>11, <1>12, <1>13 DEF N, X, b

TagNext(db, f, tag, p) ==
  ScanKeys(db, f, [j \in 1 .. Len(tag.values) |-> TagKey(tag.name, tag.values[j])], CollectLimit(f), p)

TagSteps(db, f, X) == [i \in 1 .. Len(f.tags) |-> [p \in X |-> TagNext(db, f, f.tags[i], p)]]
MayScanTag(db, tag, M) == \A j \in 1 .. Len(tag.values) : MayScan(db, TagKey(tag.name, tag.values[j]), M)

LEMMA TagLengths ==
  ASSUME NEW f, FilterOK(f)
  PROVE  Len(f.tags) \in Nat /\ \A i \in 1 .. Len(f.tags) : Len(f.tags[i].values) \in Nat
  <1>1. Len(f.tags) \in Nat /\ ToSet(f.tags) = {f.tags[i] : i \in 1 .. Len(f.tags)}
    BY IsSeqFacts DEF FilterOK
  <1>2. \A i \in 1 .. Len(f.tags) : f.tags[i] \in ToSet(f.tags) BY <1>1
  <1>3. \A i \in 1 .. Len(f.tags) : IsSeq(f.tags[i].values) BY <1>2 DEF FilterOK, FilterTag
  <1>4. QED BY <1>1, <1>3, IsSeqFacts

LEMMA ByTagRuns ==
  ASSUME NEW db, ReadableDB(db), NEW f, FilterOK(f), NEW M, \A i \in 1 .. Len(f.tags) : MayScanTag(db, f.tags[i], M)
  PROVE  /\ query_by_tag(db, f) \in ResultsOf(M)
         /\ \E u : /\ Runs(Len(f.tags), ResultsOf(M), <<>>, TagSteps(db, f, ResultsOf(M)), u)
                  /\ query_by_tag(db, f) = u[Len(f.tags)]
  <1>0. /\ Len(f.tags) \in Nat /\ \A i \in 1 .. Len(f.tags) : Len(f.tags[i].values) \in Nat BY TagLengths
  <1> DEFINE N == Len(f.tags)
             X == ResultsOf(M)
             b == <<>>
             G == [i \in 1 .. N |-> [p \in X |-> TagNext(db, f, f.tags[i], p)]]
             Law(g) == g = [i \in 0 .. N |-> IF i = 0 THEN b ELSE TagNext(db, f, f.tags[i], g[i - 1])]
             u == CHOOSE g : Law(g)
  <1>1. N \in Nat BY <1>0
  <1>2. b \in X BY NoResults
  <1>3. ASSUME NEW i \in 1 .. N, NEW p \in X PROVE TagNext(db, f, f.tags[i], p) \in X
    <2> DEFINE tag == f.tags[i]
               k == [j \in 1 .. Len(tag.values) |-> TagKey(tag.name, tag.values[j])]
               T == {k[j] : j \in 1 .. Len(tag.values)}
    <2>1. k \in [1 .. Len(tag.values) -> T] OBVIOUS
    <2>2. TagNext(db, f, tag, p) = ScanKeys(db, f, k, CollectLimit(f), p) BY DEF TagNext
    <2>3. \A j \in 1 .. Len(tag.values) : MayScan(db, k[j], M) BY DEF MayScanTag
    <2>4. Len(tag.values) \in Nat BY <1>0
    <2> HIDE DEF k, T, tag
    <2>5. ScanKeys(db, f, k, CollectLimit(f), p) \in ResultsOf(M) BY <2>1, <2>3, <2>4, KeysScanned
    <2>6. QED BY <2>2, <2>5 DEF tag
  <1>4. query_by_tag(db, f) = u[N] BY DEF query_by_tag, TagNext
  <1> HIDE DEF N, X, b
  <1>5. G \in [1 .. N -> [X -> X]] BY <1>3
  <1>6. PICK w : Recursion(N, X, b, G, w)
    <2> HIDE DEF G
    <2>1. QED BY <1>1, <1>2, <1>5, RecursionExists
  <1>7. Law(w)
    <2>1. w \in [0 .. N -> X] /\ w[0] = b BY <1>6 DEF Recursion
    <2>2. ASSUME NEW i \in 1 .. N PROVE w[i] = TagNext(db, f, f.tags[i], w[i - 1])
      <3>1. i - 1 \in 0 .. N BY <1>1
      <3>2. w[i - 1] \in X BY <2>1, <3>1
      <3>3. w[i] = G[i][w[i - 1]]
        <4> HIDE DEF G
        <4>1. QED BY <1>6 DEF Recursion
      <3>4. QED BY <3>2, <3>3
    <2>3. \A i \in 0 .. N : w[i] = IF i = 0 THEN b ELSE TagNext(db, f, f.tags[i], w[i - 1])
      BY <1>1, <2>1, <2>2
    <2>4. QED BY <2>1, <2>3
  <1>8. Law(u)
    <2> HIDE DEF Law
    <2>1. QED BY <1>7
  <1> HIDE DEF u
  <1>9. u[0] = b /\ \A i \in 1 .. N : u[i] = TagNext(db, f, f.tags[i], u[i - 1])
    <2>1. \A i \in 0 .. N : u[i] = IF i = 0 THEN b ELSE TagNext(db, f, f.tags[i], u[i - 1]) BY <1>8
    <2>2. QED BY <1>1, <2>1
  <1>10. \A i \in 0 .. N : u[i] \in X
    <2>1. Follows(N, X, b, G, u) BY <1>9 DEF Follows
    <2> HIDE DEF G
    <2>2. QED BY <1>1, <1>2, <1>5, <2>1, RecursionIn
  <1>11. Runs(N, X, b, G, u)
    <2>1. ASSUME NEW i \in 1 .. N PROVE u[i] = G[i][u[i - 1]]
      <3>1. i - 1 \in 0 .. N BY <1>1
      <3>2. QED BY <1>9, <1>10, <3>1
    <2> HIDE DEF G
    <2>2. QED BY <1>9, <1>10, <2>1 DEF Runs
  <1>12. G = TagSteps(db, f, X) BY DEF TagSteps, N
  <1>13. u[N] \in X BY <1>1, <1>10
  <1> HIDE DEF G
  <1>14. QED BY <1>4, <1>11, <1>12, <1>13 DEF N, X, b

TimeNext(f, rid, t, p) == IF Len(p) >= f.limit THEN p ELSE query_result_add(p, rid, t)

TimeSteps(f, s, t, X) == [i \in 1 .. Len(s) |-> [p \in X |-> TimeNext(f, s[i], t, p)]]

LEMMA AtTimeRuns ==
  ASSUME NEW db, ReadableDB(db), NEW f, NEW t \in Nat, NEW rs \in ResultsOf(AtTimes(db))
  PROVE  /\ timeline_range_cb(db, f, t, rs) \in ResultsOf(AtTimes(db))
         /\ \E u : /\ Runs(Len(Entries(db, TimeKey(t))), ResultsOf(AtTimes(db)), rs,
                          TimeSteps(f, Entries(db, TimeKey(t)), t, ResultsOf(AtTimes(db))), u)
                  /\ timeline_range_cb(db, f, t, rs) = u[Len(Entries(db, TimeKey(t)))]
  <1> DEFINE s == Entries(db, TimeKey(t))
  <1>0. Len(s) \in Nat /\ ToSet(s) \subseteq Rid /\ \A i \in 1 .. Len(s) : s[i] \in ToSet(s)
    BY EntriesFacts
  <1> DEFINE N == Len(s)
             X == ResultsOf(AtTimes(db))
             b == rs
             G == [i \in 1 .. N |-> [p \in X |-> TimeNext(f, s[i], t, p)]]
             Law(g) == g = [i \in 0 .. N |-> IF i = 0 THEN b ELSE TimeNext(f, s[i], t, g[i - 1])]
             u == CHOOSE g : Law(g)
  <1>1. N \in Nat BY <1>0
  <1>2. b \in X OBVIOUS
  <1>3. ASSUME NEW i \in 1 .. N, NEW p \in X PROVE TimeNext(f, s[i], t, p) \in X
    <2> DEFINE r == [rid |-> s[i], ts |-> t]
    <2>1. s[i] \in ToSet(s) /\ s[i] \in Rid BY <1>0
    <2>2. r \in AtTimes(db) BY <2>1 DEF AtTimes
    <2>3. query_result_add(p, s[i], t) \in ResultsOf(AtTimes(db)) BY <2>2, AddResult
    <2>4. QED BY <2>3 DEF TimeNext
  <1>4. timeline_range_cb(db, f, t, rs) = u[N] BY DEF timeline_range_cb, TimeNext
  <1> HIDE DEF N, X, b, s
  <1>5. G \in [1 .. N -> [X -> X]] BY <1>3
  <1>6. PICK w : Recursion(N, X, b, G, w)
    <2> HIDE DEF G
    <2>1. QED BY <1>1, <1>2, <1>5, RecursionExists
  <1>7. Law(w)
    <2>1. w \in [0 .. N -> X] /\ w[0] = b BY <1>6 DEF Recursion
    <2>2. ASSUME NEW i \in 1 .. N PROVE w[i] = TimeNext(f, s[i], t, w[i - 1])
      <3>1. i - 1 \in 0 .. N BY <1>1
      <3>2. w[i - 1] \in X BY <2>1, <3>1
      <3>3. w[i] = G[i][w[i - 1]]
        <4> HIDE DEF G
        <4>1. QED BY <1>6 DEF Recursion
      <3>4. QED BY <3>2, <3>3
    <2>3. \A i \in 0 .. N : w[i] = IF i = 0 THEN b ELSE TimeNext(f, s[i], t, w[i - 1])
      BY <1>1, <2>1, <2>2
    <2>4. QED BY <2>1, <2>3
  <1>8. Law(u)
    <2> HIDE DEF Law
    <2>1. QED BY <1>7
  <1> HIDE DEF u
  <1>9. u[0] = b /\ \A i \in 1 .. N : u[i] = TimeNext(f, s[i], t, u[i - 1])
    <2>1. \A i \in 0 .. N : u[i] = IF i = 0 THEN b ELSE TimeNext(f, s[i], t, u[i - 1]) BY <1>8
    <2>2. QED BY <1>1, <2>1
  <1>10. \A i \in 0 .. N : u[i] \in X
    <2>1. Follows(N, X, b, G, u) BY <1>9 DEF Follows
    <2> HIDE DEF G
    <2>2. QED BY <1>1, <1>2, <1>5, <2>1, RecursionIn
  <1>11. Runs(N, X, b, G, u)
    <2>1. ASSUME NEW i \in 1 .. N PROVE u[i] = G[i][u[i - 1]]
      <3>1. i - 1 \in 0 .. N BY <1>1
      <3>2. QED BY <1>9, <1>10, <3>1
    <2> HIDE DEF G
    <2>2. QED BY <1>9, <1>10, <2>1 DEF Runs
  <1>12. G = TimeSteps(f, s, t, X) BY DEF TimeSteps, N
  <1>13. u[N] \in X BY <1>1, <1>10
  <1> HIDE DEF G
  <1>14. QED BY <1>4, <1>11, <1>12, <1>13 DEF N, X, b, s

\* There is a newest time.
NewestTime == Max({0} \cup {Ev[id].time : id \in Ids})

LEMMA NewestIs == NewestTime \in Nat /\ \A id \in Ids : Ev[id].time <= NewestTime
  <1> DEFINE n == Cardinality(Ids)
             S == {0} \cup {Ev[id].time : id \in Ids}
  <1>1. n \in Nat /\ ExistsBijection(1 .. n, Ids) BY EventConstants, FS_CardinalityType
  <1>2. PICK g \in [1 .. n -> Ids] : \A id \in Ids : \E i \in 1 .. n : g[i] = id
    BY <1>1 DEF ExistsBijection, Bijection, Surjection
  <1> HIDE DEF n
  <1> DEFINE times == [i \in 1 .. n |-> Ev[g[i]].time]
  <1>3. times \in [1 .. n -> Nat] BY <1>2, EventConstants
  <1>4. PICK m \in Nat : \A i \in 1 .. n : times[i] <= m
    <2> HIDE DEF times
    <2>1. QED BY <1>1, <1>3, ValuesBounded
  <1>5. \A id \in Ids : Ev[id].time \in Nat /\ Ev[id].time <= m BY <1>2, <1>4, EventConstants
  <1>6. S \subseteq Nat /\ S # {} /\ \A x \in S : x <= m BY <1>5
  <1>7. Max(S) \in S /\ \A x \in S : x <= Max(S)
    <2> HIDE DEF S
    <2>1. QED BY <1>6, MaxFacts
  <1>8. QED BY <1>6, <1>7 DEF NewestTime

DayNext(db, f, t, p) == IF InTime(f, t) THEN timeline_range_cb(db, f, t, p) ELSE p

DaySteps(db, f, X) ==
  [i \in 1 .. (NewestTime + 1) |-> [p \in X |-> DayNext(db, f, NewestTime + 1 - i, p)]]

LEMMA TimelineRuns ==
  ASSUME NEW db, ReadableDB(db), NEW f
  PROVE  /\ query_timeline_scan(db, f) \in ResultsOf(AtTimes(db))
         /\ \E u : /\ Runs(NewestTime + 1, ResultsOf(AtTimes(db)), <<>>, DaySteps(db, f, ResultsOf(AtTimes(db))), u)
                  /\ query_timeline_scan(db, f) = u[NewestTime + 1]
  <1> DEFINE newest == NewestTime
  <1>0. newest \in Nat BY NewestIs
  <1> DEFINE N == newest + 1
             X == ResultsOf(AtTimes(db))
             b == <<>>
             G == [i \in 1 .. N |-> [p \in X |-> DayNext(db, f, newest + 1 - i, p)]]
             Law(g) == g = [i \in 0 .. N |-> IF i = 0 THEN b ELSE DayNext(db, f, newest + 1 - i, g[i - 1])]
             u == CHOOSE g : Law(g)
  <1>1. N \in Nat BY <1>0
  <1>2. b \in X BY NoResults
  <1>3. ASSUME NEW i \in 1 .. N, NEW p \in X PROVE DayNext(db, f, newest + 1 - i, p) \in X
    <2>1. newest + 1 - i \in Nat BY <1>0
    <2>2. timeline_range_cb(db, f, newest + 1 - i, p) \in ResultsOf(AtTimes(db)) BY <2>1, AtTimeRuns
    <2>3. QED BY <2>2 DEF DayNext
  <1>4. query_timeline_scan(db, f) = u[N] BY DEF query_timeline_scan, DayNext, NewestTime
  <1> HIDE DEF N, X, b, newest
  <1>5. G \in [1 .. N -> [X -> X]] BY <1>3
  <1>6. PICK w : Recursion(N, X, b, G, w)
    <2> HIDE DEF G
    <2>1. QED BY <1>1, <1>2, <1>5, RecursionExists
  <1>7. Law(w)
    <2>1. w \in [0 .. N -> X] /\ w[0] = b BY <1>6 DEF Recursion
    <2>2. ASSUME NEW i \in 1 .. N PROVE w[i] = DayNext(db, f, newest + 1 - i, w[i - 1])
      <3>1. i - 1 \in 0 .. N BY <1>1
      <3>2. w[i - 1] \in X BY <2>1, <3>1
      <3>3. w[i] = G[i][w[i - 1]]
        <4> HIDE DEF G
        <4>1. QED BY <1>6 DEF Recursion
      <3>4. QED BY <3>2, <3>3
    <2>3. \A i \in 0 .. N : w[i] = IF i = 0 THEN b ELSE DayNext(db, f, newest + 1 - i, w[i - 1])
      BY <1>1, <2>1, <2>2
    <2>4. QED BY <2>1, <2>3
  <1>8. Law(u)
    <2> HIDE DEF Law
    <2>1. QED BY <1>7
  <1> HIDE DEF u
  <1>9. u[0] = b /\ \A i \in 1 .. N : u[i] = DayNext(db, f, newest + 1 - i, u[i - 1])
    <2>1. \A i \in 0 .. N : u[i] = IF i = 0 THEN b ELSE DayNext(db, f, newest + 1 - i, u[i - 1]) BY <1>8
    <2>2. QED BY <1>1, <2>1
  <1>10. \A i \in 0 .. N : u[i] \in X
    <2>1. Follows(N, X, b, G, u) BY <1>9 DEF Follows
    <2> HIDE DEF G
    <2>2. QED BY <1>1, <1>2, <1>5, <2>1, RecursionIn
  <1>11. Runs(N, X, b, G, u)
    <2>1. ASSUME NEW i \in 1 .. N PROVE u[i] = G[i][u[i - 1]]
      <3>1. i - 1 \in 0 .. N BY <1>1
      <3>2. QED BY <1>9, <1>10, <3>1
    <2> HIDE DEF G
    <2>2. QED BY <1>9, <1>10, <2>1 DEF Runs
  <1>12. G = DaySteps(db, f, X) BY DEF DaySteps, N, newest
  <1>13. u[N] \in X BY <1>1, <1>10
  <1> HIDE DEF G
  <1>14. QED BY <1>4, <1>11, <1>12, <1>13 DEF N, X, b, newest

LEMMA TagFits ==
  ASSUME NEW db, ReadableDB(db), NEW f, NEW i \in 1 .. Len(f.tags)
  PROVE  MayScanTag(db, f.tags[i], UnderTags(db, f))
  <1> DEFINE tag == f.tags[i]
  <1>1. ASSUME NEW j \in 1 .. Len(tag.values), NEW rid \in ToSet(Entries(db, TagKey(tag.name, tag.values[j])))
        PROVE  [rid |-> rid, ts |-> read_created_at(db.pages, rid)] \in UnderTags(db, f)
    <2>1. rid \in Rid BY EntriesFacts
    <2>2. [rid |-> rid, ts |-> read_created_at(db.pages, rid)] \in ReadAt(db) BY <2>1 DEF ReadAt
    <2>3. UnderTag(db, tag, rid) BY DEF UnderTag
    <2>4. QED BY <2>2, <2>3 DEF UnderTags
  <1>2. QED BY <1>1 DEF MayScanTag, MayScan

LEMMA CollectedType ==
  ASSUME NEW db, ReadableDB(db), NEW f, FilterOK(f)
  PROVE  Collected(db, f) \in ResultsOf(Meant(db, f))
  <1>1. Len(f.ids) \in Nat /\ Len(f.authors) \in Nat /\ Len(f.kinds) \in Nat BY IsSeqFacts DEF FilterOK
  <1> DEFINE by == select_strategy(f)
             R == ReadAt(db)
             T == UnderTags(db, f)
             A == AtTimes(db)
  <1>2. /\ query_by_ids(db, f) \in ResultsOf(R) /\ query_by_pubkey_kind(db, f) \in ResultsOf(R)
        /\ query_by_pubkey(db, f) \in ResultsOf(R) /\ query_by_kind(db, f) \in ResultsOf(R)
        /\ query_by_tag(db, f) \in ResultsOf(T) /\ query_timeline_scan(db, f) \in ResultsOf(A)
    <2>1. FitsAll(db, R) BY AnyFits
    <2>2. \A i \in 1 .. Len(f.tags) : MayScanTag(db, f.tags[i], T) BY TagFits
    <2> HIDE DEF R, T
    <2>3. /\ query_by_ids(db, f) \in ResultsOf(R) /\ query_by_pubkey_kind(db, f) \in ResultsOf(R)
          /\ query_by_pubkey(db, f) \in ResultsOf(R) /\ query_by_kind(db, f) \in ResultsOf(R)
      BY <1>1, <2>1, ByIdsRuns, ByKeyType, ByPairRuns
    <2>4. query_by_tag(db, f) \in ResultsOf(T) BY <2>2, ByTagRuns
    <2>5. QED BY <2>3, <2>4, TimelineRuns
  <1>3. by \in {"by_id", "by_tag", "by_pubkey_kind", "by_pubkey", "by_kind", "timeline_scan"}
    BY DEF select_strategy
  <1>4. Meant(db, f) = CASE by = "by_tag" -> T [] by = "timeline_scan" -> A [] OTHER -> R BY DEF Meant
  <1> HIDE DEF by, R, T, A
  <1>5. CASE by = "by_tag" BY <1>2, <1>4, <1>5 DEF Collected, by
  <1>6. CASE by = "timeline_scan" BY <1>2, <1>4, <1>6 DEF Collected, by
  <1>7. CASE by \in {"by_id", "by_pubkey_kind", "by_pubkey", "by_kind"} BY <1>2, <1>4, <1>7 DEF Collected, by
  <1>8. QED BY <1>3, <1>5, <1>6, <1>7

-----------------------------------------------------------------------------
(* Filters that were received.                                             *)
LEMMA SeqIs == ASSUME NEW S, NEW s \in Seq(S) PROVE IsSeq(s)
  <1>1. ToSet(s) = {s[i] : i \in 1 .. Len(s)} /\ Len(s) \in Nat /\ s \in [1 .. Len(s) -> S]
    BY ToSetFacts, LenProperties
  <1>2. s \in [1 .. Len(s) -> ToSet(s)] BY <1>1
  <1>3. s \in Seq(ToSet(s)) BY <1>1, <1>2, FunctionSeq
  <1>4. QED BY <1>3 DEF IsSeq

LEMMA OnlyIs ==
  ASSUME NEW s, IsSeq(s), NEW T
  PROVE  Only(s, T) \in Seq(ToSet(s)) /\ IsSeq(Only(s, T)) /\ \A x \in ToSet(Only(s, T)) : x \in T
  <1>1. s \in Seq(ToSet(s)) BY DEF IsSeq
  <1>2. Only(s, T) \in Seq(ToSet(s)) /\ \A i \in 1 .. Len(Only(s, T)) : Only(s, T)[i] \in T
    BY <1>1, OnlyKeeps
  <1>3. ToSet(Only(s, T)) = {Only(s, T)[i] : i \in 1 .. Len(Only(s, T))} BY <1>2, ToSetFacts
  <1>4. QED BY <1>2, <1>3, SeqIs

LEMMA ListIs ==
  ASSUME NEW n \in Nat, NEW S, NEW s \in [1 .. n -> S]
  PROVE  IsSeq(s) /\ Len(s) = n /\ ToSet(s) = {s[i] : i \in 1 .. n}
  <1>1. s \in Seq(S) /\ Len(s) = n BY FunctionSeq
  <1>2. QED BY <1>1, SeqIs, ToSetFacts

LEMMA TagReceived ==
  ASSUME NEW tag, IsSeq(tag.values), tag.name # ""
  PROVE  FilterTag(extract_nostr_filter_tag(tag))
  <1> DEFINE values == IF Binary(tag.name)
                       THEN Only(tag.values, {value \in ToSet(tag.values) : value.form = "hex"})
                       ELSE tag.values
             kind(value) == IF Binary(tag.name) THEN "binary"
                            ELSE CASE value.form = "text" -> "text" [] value.form = "long" -> "cut"
                                   [] OTHER -> "hexcut"
             s == [i \in 1 .. Len(values) |-> <<kind(values[i]), values[i].v>>]
             S == {s[i] : i \in 1 .. Len(values)}
             e == extract_nostr_filter_tag(tag)
  <1>1. e.name = tag.name /\ e.values = s BY DEF extract_nostr_filter_tag
  <1>2. IsSeq(values) BY OnlyIs
  <1>3. ASSUME NEW i \in 1 .. Len(values)
        PROVE  IF Binary(tag.name) THEN s[i][1] = "binary" ELSE s[i][1] \in {"text", "cut", "hexcut"}
    <2>1. s[i][1] = kind(values[i]) OBVIOUS
    <2> HIDE DEF s, values
    <2>2. CASE Binary(tag.name) BY <2>1, <2>2
    <2>3. CASE ~Binary(tag.name)
      <3>1. kind(values[i]) \in {"text", "cut", "hexcut"} BY <2>3
      <3>2. QED BY <2>1, <2>3, <3>1
    <2>4. QED BY <2>2, <2>3
  <1> HIDE DEF values, kind
  <1>4. Len(values) \in Nat BY <1>2, IsSeqFacts
  <1>5. s \in [1 .. Len(values) -> S] OBVIOUS
  <1> HIDE DEF s, S
  <1>6. IsSeq(s) /\ ToSet(s) = {s[i] : i \in 1 .. Len(values)} BY <1>4, <1>5, ListIs
  <1>7. \A v \in ToSet(s) : IF Binary(tag.name) THEN v[1] = "binary" ELSE v[1] \in {"text", "cut", "hexcut"}
    BY <1>3, <1>6
  <1> HIDE DEF e
  <1>8. QED BY <1>1, <1>6, <1>7 DEF FilterTag, e

LEMMA FilterReceived ==
  ASSUME NEW r \in Queries
  PROVE  FilterOK(convert_filter_to_db_filter(nostr_filter_parse(r)))
  <1> DEFINE tags == [i \in 1 .. Len(r.tags) |-> extract_nostr_filter_tag(r.tags[i])]
             S == {tags[i] : i \in 1 .. Len(r.tags)}
             n == extract_nostr_filter_limit(r.limit)
             f == convert_filter_to_db_filter(nostr_filter_parse(r))
  <1>1. /\ IsSeq(r.ids) /\ IsSeq(r.authors) /\ IsSeq(r.kinds) /\ IsSeq(r.tags)
        /\ {r.since, r.until, r.limit} \cup ToSet(r.kinds) \subseteq Nat \cup {Unusable}
        /\ \A x \in ToSet(r.ids) \cup ToSet(r.authors) : x = [v |-> x.v, form |-> x.form]
        /\ \A tag \in ToSet(r.tags) : IsSeq(tag.values) /\ tag.name # ""
    BY QueryConstants
  <1>2. /\ f.ids = extract_nostr_filter_ids(r.ids) /\ f.authors = extract_nostr_filter_authors(r.authors)
        /\ f.kinds = extract_nostr_filter_kinds(r.kinds)
        /\ f.since = extract_nostr_filter_since(r.since) /\ f.until = extract_nostr_filter_until(r.until)
        /\ f.tags = Only(tags, {tag \in ToSet(tags) : tag.values # <<>>})
        /\ f.limit = IF n = Unusable THEN DefaultLimit ELSE n
    BY DEF nostr_filter_parse, convert_filter_to_db_filter
  <1>3. f.limit \in Nat
    <2>1. r.limit \in Nat \cup {Unusable} /\ DefaultLimit \in Nat BY <1>1, QueryConstants
    <2>2. Word32 \in Nat \ {0} BY QueryConstants
    <2>3. \A x \in Nat : x % Word32 \in Nat BY <2>2, ModFacts
    <2>4. QED BY <1>2, <2>1, <2>3 DEF extract_nostr_filter_limit
  <1>4. f.since \in Nat /\ f.until \in Nat
    <2>1. r.since \in Nat \cup {Unusable} /\ r.until \in Nat \cup {Unusable} BY <1>1
    <2> HIDE DEF f
    <2>2. QED BY <1>2, <2>1 DEF extract_nostr_filter_since, extract_nostr_filter_until
  <1>5. /\ IsSeq(f.ids) /\ IsSeq(f.authors)
        /\ \A x \in ToSet(f.ids) \cup ToSet(f.authors) : x = [v |-> x.v, form |-> x.form]
    <2> DEFINE A == {x \in ToSet(r.ids) : x.form # "none"}
               B == {x \in ToSet(r.authors) : x.form # "none"}
    <2>1. f.ids = Only(r.ids, A) /\ f.authors = Only(r.authors, B)
      BY <1>2 DEF extract_nostr_filter_ids, extract_nostr_filter_authors
    <2>2. \A x \in A \cup B : x = [v |-> x.v, form |-> x.form] BY <1>1
    <2> HIDE DEF A, B, f
    <2>3. /\ IsSeq(f.ids) /\ \A x \in ToSet(f.ids) : x \in A
          /\ IsSeq(f.authors) /\ \A x \in ToSet(f.authors) : x \in B
      BY <1>1, <2>1, OnlyIs
    <2>4. QED BY <2>2, <2>3
  <1>6. IsSeq(f.kinds)
    <2> DEFINE usable == Only(r.kinds, ToSet(r.kinds) \ {Unusable})
               s == [i \in 1 .. Len(usable) |-> usable[i] % Word32]
               T == {s[i] : i \in 1 .. Len(usable)}
    <2>1. IsSeq(usable) BY <1>1, OnlyIs
    <2>2. f.kinds = s BY <1>2 DEF extract_nostr_filter_kinds
    <2> HIDE DEF usable, f
    <2>3. Len(usable) \in Nat BY <2>1, IsSeqFacts
    <2>4. s \in [1 .. Len(usable) -> T] OBVIOUS
    <2> HIDE DEF s, T
    <2>5. QED BY <2>2, <2>3, <2>4, ListIs
  <1>7. IsSeq(f.tags) /\ \A tag \in ToSet(f.tags) : FilterTag(tag) /\ tag.values # <<>>
    <2>1. Len(r.tags) \in Nat /\ ToSet(r.tags) = {r.tags[i] : i \in 1 .. Len(r.tags)} BY <1>1, IsSeqFacts
    <2>2. \A i \in 1 .. Len(r.tags) : FilterTag(tags[i])
      <3>1. ASSUME NEW i \in 1 .. Len(r.tags) PROVE FilterTag(extract_nostr_filter_tag(r.tags[i]))
        <4>1. r.tags[i] \in ToSet(r.tags) BY <2>1
        <4>2. QED BY <1>1, <4>1, TagReceived
      <3>2. QED BY <3>1
    <2>3. tags \in [1 .. Len(r.tags) -> S] OBVIOUS
    <2>4. \A tag \in S : FilterTag(tag) BY <2>2
    <2> HIDE DEF tags, S, f
    <2>5. IsSeq(tags) /\ ToSet(tags) \subseteq S BY <2>1, <2>3, ListIs, FunctionSeq, ToSetFacts
    <2> DEFINE T == {tag \in ToSet(tags) : tag.values # <<>>}
    <2>6. T \subseteq S /\ \A tag \in T : tag.values # <<>> BY <2>5
    <2>7. f.tags = Only(tags, T) BY <1>2
    <2> HIDE DEF T
    <2>8. IsSeq(f.tags) /\ \A tag \in ToSet(f.tags) : tag \in T BY <2>5, <2>7, OnlyIs
    <2>9. QED BY <2>4, <2>6, <2>8
  <1>8. f = [ids |-> f.ids, authors |-> f.authors, kinds |-> f.kinds, tags |-> f.tags,
             since |-> f.since, until |-> f.until, limit |-> f.limit]
    <2> DEFINE A == extract_nostr_filter_ids(r.ids)
               B == extract_nostr_filter_authors(r.authors)
               C == extract_nostr_filter_kinds(r.kinds)
               D == Only(tags, {tag \in ToSet(tags) : tag.values # <<>>})
               E == extract_nostr_filter_since(r.since)
               F == extract_nostr_filter_until(r.until)
               p == [ids |-> A, authors |-> B, kinds |-> C, tags |-> D, since |-> E, until |-> F, limit |-> n]
    <2>1. f = [p EXCEPT !.limit = IF @ = Unusable THEN DefaultLimit ELSE @]
      BY DEF nostr_filter_parse, convert_filter_to_db_filter
    <2> HIDE DEF A, B, C, D, E, F, n, f
    <2>2. QED BY <2>1
  <1> HIDE DEF f
  <1>9. FilterOK(f) BY <1>3, <1>4, <1>5, <1>6, <1>7, <1>8 DEF FilterOK
  <1>10. QED BY <1>9 DEF f

-----------------------------------------------------------------------------
(* Checking, sorting and cutting the results.                              *)
LEMMA Filtered ==
  ASSUME NEW M, NEW db, NEW f, NEW stack, NEW rs \in ResultsOf(M)
  PROVE  query_post_filter(db, rs, f, stack) \in ResultsOf({r \in M : Keeps(db, f, r.rid, stack)})
  <1> DEFINE T == {r \in ToSet(rs) : Keeps(db, f, r.rid, stack)}
             K == {r \in M : Keeps(db, f, r.rid, stack)}
             t == query_post_filter(db, rs, f, stack)
  <1>1. rs \in Seq(M) /\ \A i, j \in 1 .. Len(rs) : rs[i].rid = rs[j].rid => i = j BY ResultsType
  <1>2. t = Only(rs, T) BY DEF query_post_filter
  <1>3. T \subseteq K BY <1>1, ToSetFacts
  <1> HIDE DEF T, K, t
  <1>4. t \in Seq(M) /\ \A i \in 1 .. Len(t) : t[i] \in T BY <1>1, <1>2, OnlyKeeps
  <1>5. PICK e : Picks(rs, t, e) BY <1>1, <1>2, OnlyKeeps
  <1>6. Len(t) \in Nat /\ Len(rs) \in Nat /\ t \in [1 .. Len(t) -> M] BY <1>1, <1>4, LenProperties
  <1>7. t \in Seq(K)
    <2>1. t \in [1 .. Len(t) -> K] BY <1>3, <1>4, <1>6
    <2>2. QED BY <1>6, <2>1, FunctionSeq
  <1>8. ASSUME NEW i \in 1 .. Len(t), NEW j \in 1 .. Len(t), t[i].rid = t[j].rid PROVE i = j
    <2>1. t[i] = rs[e[i]] /\ t[j] = rs[e[j]] /\ e[i] \in 1 .. Len(rs) /\ e[j] \in 1 .. Len(rs)
      BY <1>5 DEF Picks
    <2>2. e[i] = e[j] BY <1>1, <1>8, <2>1
    <2>3. ~(i < j) /\ ~(j < i) BY <1>5, <1>6, <2>1, <2>2 DEF Picks
    <2>4. QED BY <1>6, <2>3
  <1>9. t \in ResultsOf(K) BY <1>7, <1>8 DEF ResultsOf
  <1>10. QED BY <1>9 DEF t, K

Descending(s) == \A i, j \in 1 .. Len(s) : i < j => s[i].ts >= s[j].ts
Timed(M) == \A r \in M : r.ts \in Int

\* The result r is put in at place k of p.
Spliced(p, k, r, t) ==
  /\ Len(t) = Len(p) + 1
  /\ \A j \in 1 .. (k - 1) : t[j] = p[j]
  /\ t[k] = r
  /\ \A j \in (k + 1) .. (Len(p) + 1) : t[j] = p[j - 1]

LEMMA InsertIs ==
  ASSUME NEW M, NEW p \in Seq(M), NEW r \in M, NEW k \in 1 .. (Len(p) + 1)
  PROVE  InsertAt(p, k, r) \in Seq(M) /\ Spliced(p, k, r, InsertAt(p, k, r))
  <1> DEFINE n == Len(p)
             x == SubSeq(p, 1, k - 1)
             y == SubSeq(p, k, n)
             t == InsertAt(p, k, r)
  <1>1. n \in Nat /\ \A i \in 1 .. n : p[i] \in M BY SeqElement
  <1>2. k \in 1 .. (n + 1) BY <1>1
  <1>3. t = (x \o <<r>>) \o y BY DEF InsertAt
  <1> HIDE DEF n, t
  <1>4. x \in Seq(M) /\ Len(x) = k - 1 /\ \A i \in 1 .. (k - 1) : x[i] = p[i]
    <2>1. 1 \in Int /\ k - 1 \in Int /\ \A i \in 1 .. (k - 1) : p[i] \in M BY <1>1, <1>2
    <2>2. /\ x \in Seq(M) /\ Len(x) = IF 1 <= k - 1 THEN (k - 1) - 1 + 1 ELSE 0
          /\ \A i \in 1 .. (k - 1) - 1 + 1 : x[i] = p[1 + i - 1]
      <3>1. QED BY <2>1, SubSeqProperties
    <2> HIDE DEF x
    <2>3. (k - 1) - 1 + 1 = k - 1 /\ \A i \in 1 .. (k - 1) : 1 + i - 1 = i BY <1>2
    <2>4. QED BY <1>2, <2>2, <2>3
  <1>5. y \in Seq(M) /\ Len(y) = n - k + 1 /\ \A i \in 1 .. (n - k + 1) : y[i] = p[k + i - 1]
    <2>1. k \in Int /\ n \in Int /\ \A i \in k .. n : p[i] \in M BY <1>1, <1>2
    <2>2. /\ y \in Seq(M) /\ Len(y) = IF k <= n THEN n - k + 1 ELSE 0
          /\ \A i \in 1 .. n - k + 1 : y[i] = p[k + i - 1]
      BY <2>1, SubSeqProperties
    <2> HIDE DEF y
    <2>3. QED BY <1>1, <1>2, <2>2
  <1> HIDE DEF x, y
  <1> DEFINE z == x \o <<r>>
  <1>6. z \in Seq(M) /\ Len(z) = k /\ z[k] = r /\ \A i \in 1 .. (k - 1) : z[i] = x[i]
    <2>1. <<r>> \in Seq(M) /\ Len(<<r>>) = 1 /\ <<r>>[1] = r OBVIOUS
    <2>2. z \in Seq(M) /\ Len(z) = Len(x) + 1 /\ \A i \in 1 .. Len(x) + 1 : z[i] = IF i <= Len(x) THEN x[i] ELSE <<r>>[i - Len(x)]
      BY <1>4, <2>1, ConcatProperties
    <2>3. k - 1 + 1 = k /\ k - (k - 1) = 1 /\ ~(k <= k - 1) BY <1>2
    <2>4. z[k] = r BY <1>2, <1>4, <2>1, <2>2, <2>3
    <2> HIDE DEF z
    <2>5. QED BY <1>2, <1>4, <2>2, <2>3, <2>4
  <1>7. t = z \o y BY <1>3
  <1> HIDE DEF z
  <1>8. t \in Seq(M) /\ Len(t) = n + 1 /\ \A i \in 1 .. (n + 1) : t[i] = IF i <= k THEN z[i] ELSE y[i - k]
    <2>1. /\ t \in Seq(M) /\ Len(t) = Len(z) + Len(y)
          /\ \A i \in 1 .. Len(z) + Len(y) : t[i] = IF i <= Len(z) THEN z[i] ELSE y[i - Len(z)]
      BY <1>5, <1>6, <1>7, ConcatProperties
    <2>2. Len(z) = k /\ Len(z) + Len(y) = n + 1 BY <1>1, <1>2, <1>5, <1>6
    <2>3. QED BY <2>1, <2>2
  <1>9. \A j \in 1 .. (k - 1) : t[j] = p[j] BY <1>1, <1>2, <1>4, <1>6, <1>8
  <1>10. t[k] = r BY <1>1, <1>2, <1>6, <1>8
  <1>11. ASSUME NEW j \in (k + 1) .. (n + 1) PROVE t[j] = p[j - 1]
    <2>1. j - k \in 1 .. (n - k + 1) /\ k + (j - k) - 1 = j - 1 /\ j \in 1 .. (n + 1) /\ ~(j <= k)
      BY <1>1, <1>2
    <2>2. y[j - k] = p[j - 1] BY <1>5, <2>1
    <2>3. QED BY <1>8, <2>1, <2>2
  <1>12. t \in Seq(M) /\ Spliced(p, k, r, t) BY <1>8, <1>9, <1>10, <1>11 DEF Spliced, n
  <1>13. QED BY <1>12 DEF t

LEMMA PlaceIs ==
  ASSUME NEW M, Timed(M), NEW p \in Seq(M), NEW r \in M
  PROVE  /\ Place(p, r) \in 1 .. (Len(p) + 1)
         /\ Place(p, r) > 1 => p[Place(p, r) - 1].ts >= r.ts
         /\ \A i \in Place(p, r) .. Len(p) : p[i].ts < r.ts
  <1> DEFINE n == Len(p)
             S == {i \in 1 .. n : p[i].ts >= r.ts}
             m == Max({0} \cup S)
             k == Place(p, r)
  <1>1. n \in Nat /\ \A i \in 1 .. n : p[i].ts \in Int BY SeqElement DEF Timed
  <1>2. k = 1 + m BY DEF Place
  <1>3. {0} \cup S \subseteq Nat /\ {0} \cup S # {} /\ \A x \in {0} \cup S : x <= n BY <1>1
  <1>4. m \in {0} \cup S /\ \A x \in {0} \cup S : x <= m
    <2> DEFINE T == {0} \cup S
    <2>1. T \subseteq Nat /\ T # {} /\ \A x \in T : x <= n BY <1>3
    <2> HIDE DEF T
    <2>2. Max(T) \in T /\ \A x \in T : x <= Max(T) BY <1>1, <2>1, MaxFacts
    <2>3. QED BY <2>2 DEF T
  <1>5. m \in 0 .. n /\ (m # 0 => p[m].ts >= r.ts) BY <1>1, <1>4
  <1>6. \A i \in (m + 1) .. n : i \notin S BY <1>1, <1>4, <1>5
  <1>7. \A i \in (m + 1) .. n : ~(p[i].ts >= r.ts) BY <1>1, <1>5, <1>6
  <1>8. r.ts \in Int BY DEF Timed
  <1> HIDE DEF m, k
  <1>9. \A i \in (m + 1) .. n : p[i].ts < r.ts
    <2>1. \A i \in (m + 1) .. n : i \in 1 .. n BY <1>1, <1>5
    <2>2. QED BY <1>1, <1>7, <1>8, <2>1
  <1>10. k \in 1 .. (n + 1) /\ k - 1 = m /\ k = m + 1 BY <1>1, <1>2, <1>5
  <1>11. k \in 1 .. (n + 1) /\ (k > 1 => p[k - 1].ts >= r.ts) /\ \A i \in k .. n : p[i].ts < r.ts
    BY <1>5, <1>9, <1>10
  <1>12. QED BY <1>11 DEF k

LEMMA InsertSorted ==
  ASSUME NEW M, Timed(M), NEW p \in ResultsOf(M), Descending(p), NEW r \in M,
         \A i \in 1 .. Len(p) : p[i].rid # r.rid
  PROVE  /\ InsertAt(p, Place(p, r), r) \in ResultsOf(M)
         /\ Descending(InsertAt(p, Place(p, r), r))
         /\ \A i \in 1 .. Len(InsertAt(p, Place(p, r), r)) :
              \/ InsertAt(p, Place(p, r), r)[i] = r
              \/ \E j \in 1 .. Len(p) : InsertAt(p, Place(p, r), r)[i] = p[j]
         /\ \E i \in 1 .. Len(InsertAt(p, Place(p, r), r)) : InsertAt(p, Place(p, r), r)[i] = r
         /\ \A j \in 1 .. Len(p) :
              \E i \in 1 .. Len(InsertAt(p, Place(p, r), r)) : InsertAt(p, Place(p, r), r)[i] = p[j]
  <1> DEFINE n == Len(p)
             k == Place(p, r)
             t == InsertAt(p, k, r)
             at(i) == IF i < k THEN i ELSE i - 1
  <1>1. p \in Seq(M) /\ n \in Nat /\ \A i \in 1 .. n : p[i].ts \in Int BY ResultsType DEF Timed
  <1>2. r.ts \in Int BY DEF Timed
  <1>3. \A i, j \in 1 .. n : p[i].rid = p[j].rid => i = j BY ResultsType
  <1>4. k \in 1 .. (n + 1) /\ (k > 1 => p[k - 1].ts >= r.ts) /\ \A i \in k .. n : p[i].ts < r.ts
    BY <1>1, PlaceIs
  <1>5. t \in Seq(M) /\ Spliced(p, k, r, t) BY <1>1, <1>4, InsertIs
  <1> HIDE DEF k, t
  <1>6. Len(t) = n + 1 /\ t[k] = r BY <1>5 DEF Spliced
  <1>7. ASSUME NEW i \in 1 .. (n + 1), i # k PROVE at(i) \in 1 .. n /\ t[i] = p[at(i)]
    <2>1. CASE i < k BY <1>1, <1>4, <1>5, <2>1 DEF Spliced
    <2>2. CASE i > k BY <1>1, <1>4, <1>5, <2>2 DEF Spliced
    <2>3. QED BY <1>4, <1>7, <2>1, <2>2
  <1>8. \A i \in 1 .. k - 1 : p[i].ts >= r.ts
    <2> SUFFICES ASSUME NEW i \in 1 .. k - 1 PROVE p[i].ts >= r.ts OBVIOUS
    <2>1. i \in 1 .. n /\ k - 1 \in 1 .. n /\ (i < k - 1 \/ i = k - 1) BY <1>1, <1>4
    <2>2. p[k - 1].ts >= r.ts BY <1>1, <1>4, <2>1
    <2>3. p[i].ts >= p[k - 1].ts BY <1>1, <2>1 DEF Descending
    <2> DEFINE a == p[i].ts
               b == p[k - 1].ts
               d == r.ts
    <2>4. a \in Int /\ b \in Int /\ d \in Int BY <1>1, <1>2, <2>1
    <2> HIDE DEF a, b, d
    <2>5. a >= d BY <2>2, <2>3, <2>4 DEF a, b, d
    <2>6. QED BY <2>5 DEF a, d
  <1>9. ASSUME NEW i \in 1 .. (n + 1), NEW j \in 1 .. (n + 1), i < j PROVE t[i].ts >= t[j].ts
    <2>1. CASE i # k /\ j # k
      <3>1. at(i) < at(j) BY <1>1, <1>4, <1>9, <2>1
      <3>2. at(i) \in 1 .. n /\ at(j) \in 1 .. n /\ t[i] = p[at(i)] /\ t[j] = p[at(j)] BY <1>7, <2>1
      <3> HIDE DEF at
      <3>3. QED BY <3>1, <3>2 DEF Descending
    <2>2. CASE j = k
      <3>1. i \in 1 .. k - 1 /\ at(i) = i BY <1>1, <1>4, <1>9, <2>2
      <3>2. t[i] = p[i] BY <1>5, <3>1 DEF Spliced
      <3>3. QED BY <1>6, <1>8, <2>2, <3>1, <3>2
    <2>3. CASE i = k
      <3>1. j - 1 \in k .. n /\ j \in (k + 1) .. (n + 1) /\ j - 1 \in 1 .. n BY <1>1, <1>4, <1>9, <2>3
      <3>2. t[j] = p[j - 1] BY <1>5, <3>1 DEF Spliced
      <3>3. p[j - 1].ts < r.ts /\ p[j - 1].ts \in Int BY <1>1, <1>4, <3>1
      <3>4. QED BY <1>2, <1>6, <2>3, <3>2, <3>3
    <2>4. QED BY <2>1, <2>2, <2>3
  <1>10. ASSUME NEW i \in 1 .. (n + 1), NEW j \in 1 .. (n + 1), t[i].rid = t[j].rid PROVE i = j
    <2>1. CASE i # k /\ j # k
      <3>1. at(i) \in 1 .. n /\ at(j) \in 1 .. n /\ t[i] = p[at(i)] /\ t[j] = p[at(j)] BY <1>7, <2>1
      <3>2. at(i) = at(j)
        <4> HIDE DEF at
        <4>1. QED BY <1>3, <1>10, <3>1
      <3>3. QED BY <1>1, <1>4, <2>1, <3>2
    <2>2. CASE (i = k /\ j # k) \/ (i # k /\ j = k)
      <3>1. \A a \in 1 .. n : p[a].rid # r.rid OBVIOUS
      <3>2. \A a \in 1 .. (n + 1) : a # k => at(a) \in 1 .. n /\ t[a] = p[at(a)] BY <1>7
      <3> HIDE DEF at, n
      <3>3. \A a \in 1 .. (n + 1) : a # k => t[a].rid # r.rid BY <3>1, <3>2
      <3>4. QED BY <1>6, <1>10, <2>2, <3>3
    <2>3. QED BY <2>1, <2>2
  <1> HIDE DEF at
  <1>11. Descending(t) BY <1>6, <1>9 DEF Descending
  <1>12. t \in ResultsOf(M) BY <1>5, <1>6, <1>10 DEF ResultsOf
  <1>13. \A i \in 1 .. Len(t) : t[i] = r \/ \E j \in 1 .. n : t[i] = p[j] BY <1>6, <1>7
  <1>14. \E i \in 1 .. Len(t) : t[i] = r BY <1>4, <1>6
  <1>15. ASSUME NEW j \in 1 .. n PROVE \E i \in 1 .. Len(t) : t[i] = p[j]
    <2>1. CASE j < k
      <3>1. j \in 1 .. (k - 1) /\ j \in 1 .. (n + 1) BY <1>1, <1>4, <2>1
      <3>2. t[j] = p[j] BY <1>5, <3>1 DEF Spliced
      <3>3. QED BY <1>6, <3>1, <3>2
    <2>2. CASE ~(j < k)
      <3>1. j + 1 \in (k + 1) .. (n + 1) /\ j + 1 \in 1 .. (n + 1) /\ (j + 1) - 1 = j BY <1>1, <1>4, <2>2
      <3>2. t[j + 1] = p[j] BY <1>5, <3>1 DEF Spliced
      <3>3. QED BY <1>6, <3>1, <3>2
    <2>3. QED BY <2>1, <2>2
  <1>16. \A j \in 1 .. n : \E i \in 1 .. Len(t) : t[i] = p[j] BY <1>15
  <1>17. QED BY <1>11, <1>12, <1>13, <1>14, <1>16 DEF t, k

SortStep(r, p) == InsertAt(p, Place(p, r), r)
\* What the first i results are sorted to.
SortedUpTo(M, rs, i, p) ==
  /\ p \in ResultsOf(M) /\ Descending(p)
  /\ \A a \in 1 .. Len(p) : \E j \in 1 .. i : p[a] = rs[j]
  /\ \A j \in 1 .. i : \E a \in 1 .. Len(p) : p[a] = rs[j]

LEMMA SortNext ==
  ASSUME NEW M, Timed(M), NEW rs \in ResultsOf(M), NEW i \in Nat, i + 1 <= Len(rs),
         NEW p, SortedUpTo(M, rs, i, p)
  PROVE  SortedUpTo(M, rs, i + 1, SortStep(rs[i + 1], p))
  <1> DEFINE r == rs[i + 1]
             t == SortStep(r, p)
  <1>1. Len(rs) \in Nat /\ \A j \in 1 .. Len(rs) : rs[j] \in M BY ResultsType
  <1>2. \A a, j \in 1 .. Len(rs) : rs[a].rid = rs[j].rid => a = j BY ResultsType
  <1>3. i + 1 \in 1 .. Len(rs) /\ \A j \in 1 .. i : j \in 1 .. Len(rs) /\ j # i + 1 BY <1>1
  <1>4. r \in M /\ p \in ResultsOf(M) /\ Descending(p) BY <1>1, <1>3 DEF SortedUpTo
  <1>5. \A a \in 1 .. Len(p) : p[a].rid # r.rid BY <1>2, <1>3 DEF SortedUpTo
  <1>6. t \in ResultsOf(M) /\ Descending(t)
    BY <1>4, <1>5, InsertSorted DEF SortStep
  <1>7. /\ \A a \in 1 .. Len(t) : t[a] = r \/ \E j \in 1 .. Len(p) : t[a] = p[j]
        /\ \E a \in 1 .. Len(t) : t[a] = r
        /\ \A j \in 1 .. Len(p) : \E a \in 1 .. Len(t) : t[a] = p[j]
    BY <1>4, <1>5, InsertSorted DEF SortStep
  <1> HIDE DEF t
  <1>8. \A a \in 1 .. Len(t) : \E j \in 1 .. (i + 1) : t[a] = rs[j]
    <2>1. i + 1 \in 1 .. (i + 1) /\ \A j \in 1 .. i : j \in 1 .. (i + 1) OBVIOUS
    <2>2. \A a \in 1 .. Len(p) : \E j \in 1 .. (i + 1) : p[a] = rs[j] BY <2>1 DEF SortedUpTo
    <2> SUFFICES ASSUME NEW a \in 1 .. Len(t) PROVE \E j \in 1 .. (i + 1) : t[a] = rs[j] OBVIOUS
    <2>3. CASE t[a] = r BY <2>1, <2>3
    <2>4. CASE t[a] # r
      <3>1. PICK k \in 1 .. Len(p) : t[a] = p[k] BY <1>7, <2>4
      <3>2. QED BY <2>2, <3>1
    <2>5. QED BY <2>3, <2>4
  <1>9. \A j \in 1 .. (i + 1) : \E a \in 1 .. Len(t) : t[a] = rs[j]
    <2>1. \A j \in 1 .. (i + 1) : j = i + 1 \/ j \in 1 .. i OBVIOUS
    <2>2. \A j \in 1 .. i : \E a \in 1 .. Len(p) : p[a] = rs[j] BY DEF SortedUpTo
    <2>3. ASSUME NEW j \in 1 .. i PROVE \E a \in 1 .. Len(t) : t[a] = rs[j]
      <3>1. PICK k \in 1 .. Len(p) : p[k] = rs[j] BY <2>2
      <3>2. PICK a \in 1 .. Len(t) : t[a] = p[k] BY <1>7
      <3>3. QED BY <3>1, <3>2
    <2>4. \E a \in 1 .. Len(t) : t[a] = rs[i + 1] BY <1>7
    <2>5. QED BY <2>1, <2>3, <2>4
  <1>10. SortedUpTo(M, rs, i + 1, t) BY <1>6, <1>8, <1>9 DEF SortedUpTo
  <1>11. QED BY <1>10 DEF t

LEMMA Sorted ==
  ASSUME NEW M, Timed(M), NEW rs \in ResultsOf(M)
  PROVE  SortedUpTo(M, rs, Len(rs), query_result_sort(rs))
  <1> DEFINE N == Len(rs)
             X == Seq(M)
             b == <<>>
             G == [i \in 1 .. N |-> [p \in X |-> SortStep(rs[i], p)]]
             Law(g) == g = [i \in 0 .. N |-> IF i = 0 THEN b ELSE SortStep(rs[i], g[i - 1])]
             u == CHOOSE g : Law(g)
  <1>1. N \in Nat BY ResultsType
  <1>2. b \in X BY EmptySeq
  <1>3. ASSUME NEW i \in 1 .. N, NEW p \in X PROVE SortStep(rs[i], p) \in X
    <2>1. Place(p, rs[i]) \in 1 .. (Len(p) + 1) /\ rs[i] \in M BY PlaceIs, ResultsType
    <2>2. QED BY <2>1, InsertIs DEF SortStep
  <1>4. query_result_sort(rs) = u[N] BY DEF query_result_sort, SortStep
  <1> HIDE DEF N, X, b
  <1>5. G \in [1 .. N -> [X -> X]] BY <1>3
  <1>6. PICK w : Recursion(N, X, b, G, w)
    <2> HIDE DEF G
    <2>1. QED BY <1>1, <1>2, <1>5, RecursionExists
  <1>7. Law(w)
    <2>1. w \in [0 .. N -> X] /\ w[0] = b BY <1>6 DEF Recursion
    <2>2. ASSUME NEW i \in 1 .. N PROVE w[i] = SortStep(rs[i], w[i - 1])
      <3>1. i - 1 \in 0 .. N BY <1>1
      <3>2. w[i - 1] \in X BY <2>1, <3>1
      <3>3. w[i] = G[i][w[i - 1]]
        <4> HIDE DEF G
        <4>1. QED BY <1>6 DEF Recursion
      <3>4. QED BY <3>2, <3>3
    <2>3. \A i \in 0 .. N : w[i] = IF i = 0 THEN b ELSE SortStep(rs[i], w[i - 1])
      BY <1>1, <2>1, <2>2
    <2>4. QED BY <2>1, <2>3
  <1>8. Law(u)
    <2> HIDE DEF Law
    <2>1. QED BY <1>7
  <1> HIDE DEF u
  <1>9. u[0] = b /\ \A i \in 1 .. N : u[i] = SortStep(rs[i], u[i - 1])
    <2>1. \A i \in 0 .. N : u[i] = IF i = 0 THEN b ELSE SortStep(rs[i], u[i - 1]) BY <1>8
    <2>2. QED BY <1>1, <2>1
  <1>10. \A i \in 0 .. N : u[i] \in X
    <2>1. Follows(N, X, b, G, u) BY <1>9 DEF Follows
    <2> HIDE DEF G
    <2>2. QED BY <1>1, <1>2, <1>5, <2>1, RecursionIn
  <1> DEFINE P == {i \in Nat : i <= N => SortedUpTo(M, rs, i, u[i])}
  <1>11. 0 \in P
    <2>1. <<>> \in ResultsOf(M) /\ Len(<<>>) = 0 BY NoResults
    <2>2. SortedUpTo(M, rs, 0, <<>>) BY <2>1 DEF SortedUpTo, Descending
    <2>3. QED BY <1>9, <2>2 DEF b
  <1>12. ASSUME NEW i \in Nat, i \in P PROVE i + 1 \in P
    <2> SUFFICES ASSUME i + 1 <= N PROVE SortedUpTo(M, rs, i + 1, u[i + 1]) OBVIOUS
    <2>1. SortedUpTo(M, rs, i, u[i]) BY <1>1, <1>12
    <2>2. i + 1 \in 1 .. N /\ (i + 1) - 1 = i BY <1>1
    <2>3. u[i + 1] = SortStep(rs[i + 1], u[i]) BY <1>9, <2>2
    <2>4. i + 1 <= Len(rs) BY DEF N
    <2>5. QED BY <2>1, <2>3, <2>4, SortNext
  <1>13. N \in P
    <2> HIDE DEF P
    <2>1. QED BY <1>1, <1>11, <1>12, SetInduction
  <1>14. SortedUpTo(M, rs, N, u[N]) BY <1>1, <1>13
  <1>15. QED BY <1>4, <1>14 DEF N

LEMMA Cut ==
  ASSUME NEW M, NEW rs \in ResultsOf(M), Descending(rs), NEW limit \in Nat
  PROVE  /\ query_result_apply_limit(rs, limit) \in ResultsOf(M)
         /\ Descending(query_result_apply_limit(rs, limit))
         /\ Len(query_result_apply_limit(rs, limit)) <= limit
         /\ Len(rs) <= limit => query_result_apply_limit(rs, limit) = rs
  <1> DEFINE n == Len(rs)
             m == Min({limit, n})
             t == query_result_apply_limit(rs, limit)
  <1>1. rs \in Seq(M) /\ n \in Nat /\ \A i \in 1 .. n : rs[i] \in M BY ResultsType
  <1>2. m \in 0 .. n /\ m <= limit BY <1>1, MinOfTwo
  <1>3. t = SubSeq(rs, 1, m) BY DEF query_result_apply_limit
  <1> HIDE DEF m, t
  <1>4. m \in Int /\ \A i \in 1 .. m : rs[i] \in M BY <1>1, <1>2
  <1>5. t \in Seq(M) /\ Len(t) = m /\ \A i \in 1 .. m : t[i] = rs[i]
    <2>1. t = [i \in 1 .. m |-> rs[i]] BY <1>1, <1>2, <1>3
    <2>2. t \in [1 .. m -> M] BY <1>4, <2>1
    <2>3. QED BY <1>2, <2>1, <2>2, FunctionSeq
  <1>6. \A i, j \in 1 .. n : rs[i].rid = rs[j].rid => i = j BY ResultsType
  <1>7. \A i \in 1 .. m : i \in 1 .. n BY <1>1, <1>2
  <1>8. Descending(t) BY <1>5, <1>7 DEF Descending
  <1>9. t \in ResultsOf(M) BY <1>5, <1>6, <1>7 DEF ResultsOf
  <1>10. ASSUME n <= limit PROVE t = rs
    <2>1. m = n BY <1>1, <1>10, MinOfTwo DEF m
    <2>2. rs = [i \in 1 .. n |-> rs[i]] BY <1>1
    <2>3. QED BY <1>1, <1>2, <1>3, <2>1, <2>2
  <1>11. QED BY <1>2, <1>5, <1>8, <1>9, <1>10 DEF t

-----------------------------------------------------------------------------
(* What is answered: the events of the results, in their order.            *)
LEMMA MeantType ==
  ASSUME NEW db, ReadableDB(db), NEW f, NEW r \in Meant(db, f)
  PROVE  /\ r.rid \in Rid /\ r.ts \in Int
         /\ select_strategy(f) = "by_tag" => r \in UnderTags(db, f)
         /\ select_strategy(f) = "timeline_scan" => r \in AtTimes(db)
         /\ select_strategy(f) # "timeline_scan" => r.ts = read_created_at(db.pages, r.rid)
  <1>1. ASSUME r \in ReadAt(db)
        PROVE  r.rid \in Rid /\ r.ts \in Int /\ r.ts = read_created_at(db.pages, r.rid)
    BY <1>1 DEF ReadAt, ReadableDB
  <1>2. r \in UnderTags(db, f) => r \in ReadAt(db) BY DEF UnderTags
  <1>3. r \in AtTimes(db) => r.rid \in Rid /\ r.ts \in Int BY DEF AtTimes
  <1>4. CASE select_strategy(f) = "by_tag" BY <1>1, <1>2, <1>4 DEF Meant
  <1>5. CASE select_strategy(f) = "timeline_scan" BY <1>3, <1>5 DEF Meant
  <1>6. CASE select_strategy(f) \notin {"by_tag", "timeline_scan"} BY <1>1, <1>6 DEF Meant
  <1>7. QED BY <1>4, <1>5, <1>6

MeantKept(db, f, stack) == {r \in Meant(db, f) : Keeps(db, f, r.rid, stack)}

LEMMA Executed ==
  ASSUME NEW db, ReadableDB(db), NEW f, FilterOK(f), NEW stack
  PROVE  /\ query_execute(db, f, stack) \in ResultsOf(MeantKept(db, f, stack))
         /\ Descending(query_execute(db, f, stack))
         /\ Len(query_execute(db, f, stack)) <= f.limit
  <1> DEFINE K == MeantKept(db, f, stack)
             a == query_post_filter(db, Collected(db, f), f, stack)
             s == query_result_sort(a)
             t == query_execute(db, f, stack)
  <1>0. f.limit \in Nat BY DEF FilterOK
  <1>1. Timed(K) BY MeantType DEF Timed, MeantKept
  <1>2. a \in ResultsOf(K) BY CollectedType, Filtered DEF MeantKept
  <1>3. t = <<>> \/ t = query_result_apply_limit(s, f.limit) BY DEF query_execute
  <1> HIDE DEF K, a, t
  <1>4. s \in ResultsOf(K) /\ Descending(s) BY <1>1, <1>2, Sorted DEF SortedUpTo
  <1> HIDE DEF s
  <1>5. CASE t = <<>>
    <2>1. <<>> \in ResultsOf(K) /\ Len(<<>>) = 0 BY NoResults
    <2>2. Descending(<<>>) BY <2>1 DEF Descending
    <2>3. QED BY <1>0, <1>5, <2>1, <2>2 DEF t, K
  <1>6. CASE t = query_result_apply_limit(s, f.limit)
    <2>1. t \in ResultsOf(K) /\ Descending(t) /\ Len(t) <= f.limit BY <1>0, <1>4, <1>6, Cut
    <2>2. QED BY <2>1 DEF t, K
  <1>7. QED BY <1>3, <1>5, <1>6

\* The first i offsets.
OffsetsUpTo(rs, i, p) == Len(p) = i /\ \A j \in 1 .. i : p[j] = [rid |-> rs[j].rid]
OffsetType == [rid : Rid]

LEMMA OffsetNext ==
  ASSUME NEW M, NEW rs \in ResultsOf(M), \A r \in M : r.rid \in Rid, NEW i \in Nat, i + 1 <= Len(rs),
         NEW p \in Seq(OffsetType), OffsetsUpTo(rs, i, p)
  PROVE  OffsetsUpTo(rs, i + 1, nostr_db_result_add(p, rs[i + 1].rid))
  <1> DEFINE o == [rid |-> rs[i + 1].rid]
             t == nostr_db_result_add(p, rs[i + 1].rid)
  <1>1. /\ Len(rs) \in Nat /\ \A j \in 1 .. Len(rs) : rs[j] \in M
        /\ \A j, k \in 1 .. Len(rs) : rs[j].rid = rs[k].rid => j = k
    BY ResultsType
  <1>2. i + 1 \in 1 .. Len(rs) /\ \A j \in 1 .. i : j \in 1 .. Len(rs) /\ j # i + 1 BY <1>1
  <1>3. Len(p) = i /\ \A j \in 1 .. i : p[j] = [rid |-> rs[j].rid] BY DEF OffsetsUpTo
  <1>4. DOMAIN p = 1 .. i BY <1>3, LenProperties
  <1>5. \A j \in 1 .. i : p[j].rid # rs[i + 1].rid BY <1>1, <1>2, <1>3
  <1>6. t = Append(p, o) BY <1>4, <1>5 DEF nostr_db_result_add
  <1>7. o \in OffsetType BY <1>1, <1>2 DEF OffsetType
  <1> HIDE DEF t, o
  <1>8. Len(t) = i + 1 /\ t[i + 1] = o /\ \A j \in 1 .. i : t[j] = p[j]
    BY <1>3, <1>6, <1>7, AppendProperties
  <1>9. \A j \in 1 .. (i + 1) : j \in 1 .. i \/ j = i + 1 OBVIOUS
  <1>10. \A j \in 1 .. (i + 1) : t[j] = [rid |-> rs[j].rid] BY <1>3, <1>8, <1>9 DEF o
  <1>11. OffsetsUpTo(rs, i + 1, t) BY <1>8, <1>10 DEF OffsetsUpTo
  <1>12. QED BY <1>11 DEF t

LEMMA OffsetsAre ==
  ASSUME NEW M, NEW rs \in ResultsOf(M), \A r \in M : r.rid \in Rid
  PROVE  OffsetsUpTo(rs, Len(rs), nostr_db_query_execute(rs))
  <1>0. Len(rs) \in Nat /\ \A i \in 1 .. Len(rs) : rs[i] \in M BY ResultsType
  <1> DEFINE N == Len(rs)
             X == Seq(OffsetType)
             b == <<>>
             G == [i \in 1 .. N |-> [p \in X |-> nostr_db_result_add(p, rs[i].rid)]]
             Law(g) == g = [i \in 0 .. N |-> IF i = 0 THEN b ELSE nostr_db_result_add(g[i - 1], rs[i].rid)]
             u == CHOOSE g : Law(g)
  <1>1. N \in Nat BY <1>0
  <1>2. b \in X BY EmptySeq
  <1>3. ASSUME NEW i \in 1 .. N, NEW p \in X PROVE nostr_db_result_add(p, rs[i].rid) \in X
    <2> DEFINE o == [rid |-> rs[i].rid]
    <2>1. o \in OffsetType BY <1>0 DEF OffsetType
    <2> HIDE DEF o
    <2>2. Append(p, o) \in Seq(OffsetType) BY <2>1, AppendProperties
    <2>3. QED BY <2>2 DEF nostr_db_result_add, o
  <1>4. nostr_db_query_execute(rs) = u[N] BY DEF nostr_db_query_execute
  <1> HIDE DEF N, X, b
  <1>5. G \in [1 .. N -> [X -> X]] BY <1>3
  <1>6. PICK w : Recursion(N, X, b, G, w)
    <2> HIDE DEF G
    <2>1. QED BY <1>1, <1>2, <1>5, RecursionExists
  <1>7. Law(w)
    <2>1. w \in [0 .. N -> X] /\ w[0] = b BY <1>6 DEF Recursion
    <2>2. ASSUME NEW i \in 1 .. N PROVE w[i] = nostr_db_result_add(w[i - 1], rs[i].rid)
      <3>1. i - 1 \in 0 .. N BY <1>1
      <3>2. w[i - 1] \in X BY <2>1, <3>1
      <3>3. w[i] = G[i][w[i - 1]]
        <4> HIDE DEF G
        <4>1. QED BY <1>6 DEF Recursion
      <3>4. QED BY <3>2, <3>3
    <2>3. \A i \in 0 .. N : w[i] = IF i = 0 THEN b ELSE nostr_db_result_add(w[i - 1], rs[i].rid)
      BY <1>1, <2>1, <2>2
    <2>4. QED BY <2>1, <2>3
  <1>8. Law(u)
    <2> HIDE DEF Law
    <2>1. QED BY <1>7
  <1> HIDE DEF u
  <1>9. u[0] = b /\ \A i \in 1 .. N : u[i] = nostr_db_result_add(u[i - 1], rs[i].rid)
    <2>1. \A i \in 0 .. N : u[i] = IF i = 0 THEN b ELSE nostr_db_result_add(u[i - 1], rs[i].rid) BY <1>8
    <2>2. QED BY <1>1, <2>1
  <1>10. \A i \in 0 .. N : u[i] \in X
    <2>1. Follows(N, X, b, G, u) BY <1>9 DEF Follows
    <2> HIDE DEF G
    <2>2. QED BY <1>1, <1>2, <1>5, <2>1, RecursionIn
  <1> DEFINE P == {i \in Nat : i <= N => OffsetsUpTo(rs, i, u[i])}
  <1>11. 0 \in P
    <2>1. Len(<<>>) = 0 OBVIOUS
    <2>2. OffsetsUpTo(rs, 0, <<>>) BY <2>1 DEF OffsetsUpTo
    <2>3. QED BY <1>9, <2>2 DEF b
  <1>12. ASSUME NEW i \in Nat, i \in P PROVE i + 1 \in P
    <2> SUFFICES ASSUME i + 1 <= N PROVE OffsetsUpTo(rs, i + 1, u[i + 1]) OBVIOUS
    <2>1. OffsetsUpTo(rs, i, u[i]) BY <1>1, <1>12
    <2>2. i + 1 \in 1 .. N /\ (i + 1) - 1 = i /\ i \in 0 .. N BY <1>1
    <2>3. u[i + 1] = nostr_db_result_add(u[i], rs[i + 1].rid) BY <1>9, <2>2
    <2>4. i + 1 <= Len(rs) BY DEF N
    <2>5. u[i] \in Seq(OffsetType) BY <1>10, <2>2 DEF X
    <2>6. QED BY <2>1, <2>3, <2>4, <2>5, OffsetNext
  <1>13. N \in P
    <2> HIDE DEF P
    <2>1. QED BY <1>1, <1>11, <1>12, SetInduction
  <1>14. OffsetsUpTo(rs, Len(rs), u[N]) BY <1>1, <1>13 DEF N
  <1>15. QED BY <1>4, <1>14

\* The answer has the events of the results.
LEMMA AnswerIs ==
  ASSUME NEW db, NEW M, NEW rs \in ResultsOf(M),
         \A r \in M : r.rid \in Rid /\ RecordEvent(db.pages, r.rid) # 0 /\ ~Flagged(db.pages, r.rid)
  PROVE  Answer(db, rs) = [i \in 1 .. Len(rs) |-> RecordEvent(db.pages, rs[i].rid)]
  <1> DEFINE o == nostr_db_query_execute(rs)
             a == [i \in 1 .. Len(rs) |-> RecordEvent(db.pages, rs[i].rid)]
             S == {a[i] : i \in 1 .. Len(rs)}
  <1>1. Len(rs) \in Nat /\ \A i \in 1 .. Len(rs) : rs[i] \in M BY ResultsType
  <1>2. OffsetsUpTo(rs, Len(rs), o) BY OffsetsAre
  <1>3. Answer(db, rs) = Only(EventsAt(db, o), ToSet(EventsAt(db, o)) \ {0}) BY DEF Answer
  <1> HIDE DEF o
  <1>4. \A i \in 1 .. Len(rs) : RecordEvent(db.pages, rs[i].rid) # 0 /\ ~Flagged(db.pages, rs[i].rid)
    BY <1>1
  <1>5. Len(o) = Len(rs) /\ \A i \in 1 .. Len(rs) : o[i].rid = rs[i].rid
    <2>1. Len(o) = Len(rs) BY <1>2 DEF OffsetsUpTo
    <2>2. ASSUME NEW i \in 1 .. Len(rs) PROVE o[i].rid = rs[i].rid
      <3>1. o[i] = [rid |-> rs[i].rid] BY <1>2 DEF OffsetsUpTo
      <3>2. QED BY <3>1
    <2>3. QED BY <2>1, <2>2
  <1>6. EventsAt(db, o) = a BY <1>4, <1>5 DEF EventsAt, nostr_db_get_event_at_offset
  <1>7. \A i \in 1 .. Len(rs) : a[i] # 0 BY <1>4
  <1>8. a \in [1 .. Len(rs) -> S] OBVIOUS
  <1> HIDE DEF a, S
  <1>9. a \in Seq(S) /\ Len(a) = Len(rs) BY <1>1, <1>8, FunctionSeq
  <1>10. ToSet(a) = {a[i] : i \in 1 .. Len(rs)} BY <1>9, ToSetFacts
  <1> DEFINE T == ToSet(a) \ {0}
  <1>11. \A i \in 1 .. Len(a) : a[i] \in T BY <1>7, <1>9, <1>10
  <1> HIDE DEF T
  <1>12. Only(a, T) = a BY <1>9, <1>11, OnlyAll
  <1>13. Answer(db, rs) = a BY <1>3, <1>6, <1>12 DEF T
  <1>14. QED BY <1>13 DEF a

-----------------------------------------------------------------------------
(* What the entries of the indexes say of an event.                        *)
LEMMA KeysAre ==
  ASSUME NEW id \in Ids
  PROVE  ToSet(IndexKeys(id)) \subseteq
           {TimeKey(Ev[id].time), AuthorKey(Ev[id].author), KindKey(Ev[id].kind),
            AuthorKindKey(Ev[id].author, Ev[id].kind)} \cup TagKeys(id)
  <1> DEFINE T == TagKeys(id)
             a == TimeKey(Ev[id].time)
             b == AuthorKey(Ev[id].author)
             k == KindKey(Ev[id].kind)
             m == AuthorKindKey(Ev[id].author, Ev[id].kind)
             S == {a, b, k, m} \cup T
             keys == IndexKeys(id)
  <1>1. process_tags(id) \in Seq(T) BY TagKeysType
  <1>2. keys = <<a, b, k, m>> \o process_tags(id) BY DEF IndexKeys
  <1> HIDE DEF T, a, b, k, m, keys
  <1>3. <<a, b, k, m>> \in Seq(S) OBVIOUS
  <1>4. process_tags(id) \in Seq(S)
    <2>1. T \subseteq S OBVIOUS
    <2> HIDE DEF S
    <2>2. QED BY <1>1, <2>1, SeqMonotonic
  <1> HIDE DEF S
  <1>5. keys \in Seq(S) BY <1>2, <1>3, <1>4, ConcatProperties
  <1>6. ToSet(keys) \subseteq S BY <1>5, ToSetFacts
  <1>7. QED BY <1>6 DEF S, T, a, b, k, m, keys

LEMMA TimeOfKey ==
  ASSUME NEW id \in Ids, NEW t, TimeKey(t) \in ToSet(IndexKeys(id))
  PROVE  t = Ev[id].time
  <1>1. TimeKey(t) \in {TimeKey(Ev[id].time), AuthorKey(Ev[id].author), KindKey(Ev[id].kind),
                        AuthorKindKey(Ev[id].author, Ev[id].kind)} \cup TagKeys(id)
    BY KeysAre
  <1>2. TimeKey(t) \notin TagKeys(id)
    <2>1. \A i \in Indexed(id) : TagKeyAt(id, i)[1] = "tag" BY DEF TagKeyAt, TagKey
    <2>2. TimeKey(t)[1] = "timeline" BY DEF TimeKey
    <2>3. QED BY <2>1, <2>2 DEF TagKeys
  <1>3. /\ TimeKey(t)[1] = "timeline" /\ AuthorKey(Ev[id].author)[1] = "pubkey"
        /\ KindKey(Ev[id].kind)[1] = "kind"
        /\ AuthorKindKey(Ev[id].author, Ev[id].kind)[1] = "pubkey_kind"
    BY DEF TimeKey, AuthorKey, KindKey, AuthorKindKey
  <1>4. TimeKey(t) = TimeKey(Ev[id].time) BY <1>1, <1>2, <1>3
  <1>5. TimeKey(t)[2] = t /\ TimeKey(Ev[id].time)[2] = Ev[id].time BY DEF TimeKey
  <1>6. QED BY <1>4, <1>5

LEMMA TagOfKey ==
  ASSUME NEW id \in Ids, NEW name, NEW v, TagKey(name, v) \in ToSet(IndexKeys(id))
  PROVE  \E i \in Indexed(id) : StoredTags(id)[i].name = name /\ IndexValue(StoredTags(id)[i].values[1]) = v
  <1>1. TagKey(name, v) \in {TimeKey(Ev[id].time), AuthorKey(Ev[id].author), KindKey(Ev[id].kind),
                             AuthorKindKey(Ev[id].author, Ev[id].kind)} \cup TagKeys(id)
    BY KeysAre
  <1>2. /\ TagKey(name, v)[1] = "tag" /\ TimeKey(Ev[id].time)[1] = "timeline"
        /\ AuthorKey(Ev[id].author)[1] = "pubkey" /\ KindKey(Ev[id].kind)[1] = "kind"
        /\ AuthorKindKey(Ev[id].author, Ev[id].kind)[1] = "pubkey_kind"
    BY DEF TagKey, TimeKey, AuthorKey, KindKey, AuthorKindKey
  <1>3. TagKey(name, v) \in TagKeys(id) BY <1>1, <1>2
  <1>4. PICK i \in Indexed(id) : TagKey(name, v) = TagKeyAt(id, i) BY <1>3 DEF TagKeys
  <1>5. TagKey(name, v)[2] = name /\ TagKey(name, v)[3] = v BY DEF TagKey
  <1>6. TagKeyAt(id, i)[2] = StoredTags(id)[i].name /\ TagKeyAt(id, i)[3] = IndexValue(StoredTags(id)[i].values[1])
    BY DEF TagKeyAt, TagKey
  <1>7. QED BY <1>4, <1>5, <1>6

LEMMA KeyOfEntry ==
  ASSUME NEW db, NEW h, NEW st, IndexEntries(db.dup, h, st), NEW id \in Ids, h[id] # NoRid, NEW key,
         h[id] \in ToSet(Entries(db, key))
  PROVE  key \in ToSet(IndexKeys(id))
  <1>1. db.dup \in DupMap BY DEF IndexEntries
  <1>2. key \in DupKeys /\ h[id] \in ToSet(db.dup[key]) /\ db.dup[key] \in Seq(Rid)
    <2>1. ToSet(<<>>) = {}
      <3>1. <<>> \in Seq(Rid) /\ Len(<<>>) = 0 BY EmptySeq
      <3>2. ToSet(<<>>) = {<<>>[i] : i \in 1 .. Len(<<>>)} BY <3>1, ToSetFacts
      <3>3. QED BY <3>1, <3>2
    <2>2. DOMAIN db.dup = DupKeys BY <1>1 DEF DupMap
    <2>3. key \in DupKeys /\ Entries(db, key) = db.dup[key] BY <2>1, <2>2 DEF Entries
    <2>4. QED BY <1>1, <2>3 DEF DupMap
  <1>3. Copies(db.dup[key], h[id]) # 0 BY <1>2, CopiesFacts
  <1>4. Copies(IndexKeys(id), key) # 0 BY <1>2, <1>3 DEF IndexEntries
  <1>5. IndexKeys(id) \in Seq(DupKeys) BY IndexKeysType
  <1>6. QED BY <1>4, <1>5, CopiesFacts

-----------------------------------------------------------------------------
(* Answers are sound.                                                      *)
\* An event has one of the values of every tag of a filter.
TagMatches(tag, e) ==
  \E j \in DOMAIN e.tags : e.tags[j].name = tag.name /\ \E v \in ToSet(e.tags[j].values) : SameValue(tag, v)

\* The tags of a filter that an answer is promised to match.
TagsPromised(f, id) ==
  ~(\/ Len(f.tags) = 1 /\ (broken \/ f.ids # <<>> \/ ~WholeValues(f))
    \/ Len(f.tags) > 1 /\ Large(id))

LEMMA DBReadable ==
  ASSUME StoreInv, DupTyped
  PROVE  ReadableDB(DB) /\ DB.pages = pages /\ DB.dup = dup
  <1>1. DB.pages = pages /\ DB.dup = dup /\ DB.id_index = idIndex BY DEF DB
  <1>2. PICK c, q : Held(pages, home, c, q) BY DEF StoreInv, RecordsHeld
  <1>3. \A rid \in Rid : read_created_at(pages, rid) \in Int BY <1>2, TimeAt
  <1>4. dup \in DupMap /\ idIndex \in [Ids -> Rid \cup {NoRid}] BY DEF DupTyped, StoreInv
  <1>5. QED BY <1>1, <1>3, <1>4 DEF ReadableDB

LEMMA FirstValue ==
  ASSUME NEW id \in Ids, NEW i \in 1 .. Len(StoredTags(id)), StoredTags(id)[i].values # <<>>
  PROVE  /\ StoredTags(id)[i].values[1] \in ToSet(StoredTags(id)[i].values)
         /\ StoredTags(id)[i].values[1].form \in {"hex", "text", "long"}
         /\ i \in DOMAIN StoredTags(id)
  <1> DEFINE s == StoredTags(id)[i].values
  <1>1. StoredTags(id) \in Seq(ToSet(Ev[id].tags)) BY StoredTagsType
  <1>2. StoredTags(id)[i] \in ToSet(Ev[id].tags) BY <1>1, SeqElement
  <1>3. s \in Seq(ToSet(s)) /\ \A v \in ToSet(s) : v.form \in {"hex", "text", "long"} BY <1>2, EventConstants
  <1> HIDE DEF s
  <1>4. Len(s) \in Nat /\ ToSet(s) = {s[k] : k \in 1 .. Len(s)} BY <1>3, ToSetFacts, SeqElement
  <1>5. s # <<>> BY DEF s
  <1>6. 1 \in 1 .. Len(s) BY <1>3, <1>4, <1>5, EmptySeq
  <1>7. s[1] \in ToSet(s) BY <1>4, <1>6
  <1>8. DOMAIN StoredTags(id) = 1 .. Len(StoredTags(id)) BY <1>1, LenProperties
  <1>9. QED BY <1>3, <1>7, <1>8 DEF s

\* A value a query compares equal is one the live match selects too.
LEMMA StoredIsSame ==
  ASSUME NEW tag, NEW value, StoredValue(tag, value)
  PROVE  SameValue(tag, value)
  <1>1. CASE Binary(tag.name) BY <1>1 DEF SameValue
  <1>2. CASE ~Binary(tag.name)
    <2> DEFINE y == <<"text", value.v>>
    <2>1. value.form = "text" /\ y \in ToSet(tag.values) BY <1>2 DEF StoredValue
    <2>2. y[1] = "text" /\ Fold[y[2]] = Fold[value.v] OBVIOUS
    <2> HIDE DEF y
    <2>3. QED BY <1>2, <2>1, <2>2 DEF SameValue
  <1>3. QED BY <1>1, <1>2

\* The tags of an event that has some are read as they are stored.
LEMMA TagsRead ==
  ASSUME NEW id, NEW i \in DOMAIN StoredTags(id), NEW held
  PROVE  event_deserialize(id, held).tags = StoredTags(id)
  <1>1. StoredTags(id) # <<>>
    <2>1. DOMAIN <<>> = {} OBVIOUS
    <2> DEFINE s == StoredTags(id)
    <2>2. i \in DOMAIN s OBVIOUS
    <2> HIDE DEF s
    <2>3. s # <<>> BY <2>1, <2>2
    <2>4. QED BY <2>3 DEF s
  <1>2. QED BY <1>1 DEF event_deserialize

\* One tag: a value the index keeps whole is a value of the event.
LEMMA OneTagMatches ==
  ASSUME NEW id \in Ids, NEW tag, FilterTag(tag), NEW v \in ToSet(tag.values), v[1] # "cut",
         TagKey(tag.name, v) \in ToSet(IndexKeys(id)), NEW held
  PROVE  TagMatches(tag, event_deserialize(id, held))
  <1>1. PICK i \in Indexed(id) : StoredTags(id)[i].name = tag.name /\ IndexValue(StoredTags(id)[i].values[1]) = v
    BY TagOfKey
  <1> DEFINE x == StoredTags(id)[i].values[1]
  <1>2. i \in 1 .. Len(StoredTags(id)) /\ StoredTags(id)[i].values # <<>> BY <1>1 DEF Indexed
  <1>3. x \in ToSet(StoredTags(id)[i].values) /\ x.form \in {"hex", "text", "long"} /\ i \in DOMAIN StoredTags(id)
    BY <1>2, FirstValue
  <1>4. IndexValue(x) = v BY <1>1
  <1>5. event_deserialize(id, held).tags = StoredTags(id) BY <1>3, TagsRead
  <1> HIDE DEF x
  <1>6. /\ v = <<v[1], x.v>>
        /\ v[1] = CASE x.form = "hex" -> "binary" [] x.form = "long" -> "cut" [] OTHER -> "text"
    BY <1>4 DEF IndexValue
  <1>7. SameValue(tag, x)
    <2> SUFFICES StoredValue(tag, x) BY StoredIsSame
    <2>1. CASE Binary(tag.name)
      <3>1. v[1] = "binary" BY <2>1 DEF FilterTag
      <3>2. x.form = "hex" BY <1>3, <1>6, <3>1
      <3>3. <<"binary", x.v>> \in ToSet(tag.values) BY <1>6, <3>1
      <3>4. QED BY <2>1, <3>2, <3>3 DEF StoredValue
    <2>2. CASE ~Binary(tag.name)
      <3>1. v[1] \in {"text", "hexcut"} BY <2>2 DEF FilterTag
      <3>2. x.form = "text" /\ v[1] = "text" BY <1>3, <1>6, <3>1
      <3>3. <<"text", x.v>> \in ToSet(tag.values) BY <1>6, <3>2
      <3>4. QED BY <2>2, <3>2, <3>3 DEF StoredValue
    <2>3. QED BY <2>1, <2>2
  <1>8. QED BY <1>1, <1>3, <1>5, <1>7 DEF TagMatches

\* Several tags: they are looked for in the record.
LEMMA TagInRecord ==
  ASSUME NEW id \in Ids, NEW tag, tags_match_filter_tag(id, tag), NEW held
  PROVE  TagMatches(tag, event_deserialize(id, held))
  <1>1. DOMAIN StoredTags(id) = 1 .. Len(StoredTags(id)) BY StoredTagsType, LenProperties
  <1>2. PICK i \in DOMAIN StoredTags(id) :
          /\ StoredTags(id)[i].name = tag.name /\ StoredTags(id)[i].values # <<>>
          /\ StoredValue(tag, StoredTags(id)[i].values[1])
    BY DEF tags_match_filter_tag
  <1>3. StoredTags(id)[i].values[1] \in ToSet(StoredTags(id)[i].values) BY <1>1, <1>2, FirstValue
  <1>4. event_deserialize(id, held).tags = StoredTags(id) BY <1>2, TagsRead
  <1>5. SameValue(tag, StoredTags(id)[i].values[1]) BY <1>2, StoredIsSame
  <1>6. QED BY <1>2, <1>3, <1>4, <1>5 DEF TagMatches

\* A result that is kept, and the event it is answered with.
LEMMA ResultEvent ==
  ASSUME StoreInv, DupTyped, NEW f, NEW stack, NEW r \in MeantKept(DB, f, stack)
  PROVE  /\ RecordEvent(pages, r.rid) \in Ids /\ RecordEvent(pages, r.rid) # 0
         /\ home[RecordEvent(pages, r.rid)] = r.rid /\ r.rid \in Rid /\ r.rid # NoRid
         /\ ~Flagged(pages, r.rid)
  <1>1. PICK c, q : Held(pages, home, c, q) BY DEF StoreInv, RecordsHeld
  <1>2. ReadableDB(DB) /\ DB.pages = pages BY DBReadable
  <1>3. r \in Meant(DB, f) /\ Keeps(DB, f, r.rid, stack) BY DEF MeantKept
  <1>4. r.rid \in Rid BY <1>2, <1>3, MeantType
  <1>5. RecordEvent(pages, r.rid) # 0 /\ ~Flagged(pages, r.rid) BY <1>2, <1>3 DEF Keeps
  <1>6. r.rid # NoRid BY <1>4, RidFacts
  <1>7. QED BY <1>1, <1>4, <1>5, <1>6, RecordAt

\* The time it is sorted by.
LEMMA ResultTime ==
  ASSUME StoreInv, DupTyped, IndexInv, NEW f, NEW stack, NEW r \in MeantKept(DB, f, stack),
         IF select_strategy(f) = "timeline_scan" THEN ~broken ELSE ~Large(RecordEvent(pages, r.rid))
  PROVE  r.ts = Ev[RecordEvent(pages, r.rid)].time
  <1> DEFINE id == RecordEvent(pages, r.rid)
  <1>1. PICK c, q : Held(pages, home, c, q) BY DEF StoreInv, RecordsHeld
  <1>2. ReadableDB(DB) /\ DB.pages = pages /\ DB.dup = dup BY DBReadable
  <1>3. r \in Meant(DB, f) BY DEF MeantKept
  <1>4. id \in Ids /\ home[id] = r.rid /\ r.rid \in Rid /\ home[id] # NoRid BY ResultEvent
  <1>5. CASE select_strategy(f) = "timeline_scan"
    <2>1. r \in AtTimes(DB) BY <1>2, <1>3, <1>5, MeantType
    <2>2. r.rid \in ToSet(Entries(DB, TimeKey(r.ts))) BY <2>1 DEF AtTimes
    <2>3. IndexEntries(DB.dup, home, status) BY <1>2, <1>5 DEF IndexInv
    <2> HIDE DEF id
    <2>4. TimeKey(r.ts) \in ToSet(IndexKeys(id)) BY <1>4, <2>2, <2>3, KeyOfEntry
    <2>5. r.ts = Ev[id].time BY <1>4, <2>4, TimeOfKey
    <2>6. QED BY <2>5 DEF id
  <1>6. CASE select_strategy(f) # "timeline_scan"
    <2>1. r.ts = read_created_at(pages, r.rid) BY <1>2, <1>3, <1>6, MeantType
    <2>2. ~Large(id) BY <1>6
    <2> HIDE DEF id
    <2>3. read_created_at(pages, r.rid) = Ev[id].time BY <1>1, <1>4, <2>2, TimeAt
    <2>4. QED BY <2>1, <2>3 DEF id
  <1>7. QED BY <1>5, <1>6

\* The tags it is promised to have.
LEMMA ResultTags ==
  ASSUME StoreInv, DupTyped, IndexInv, NEW f, FilterOK(f), NEW stack, NEW r \in MeantKept(DB, f, stack),
         TagsPromised(f, RecordEvent(pages, r.rid)), NEW i \in 1 .. Len(f.tags), NEW held
  PROVE  TagMatches(f.tags[i], event_deserialize(RecordEvent(pages, r.rid), held))
  <1> DEFINE id == RecordEvent(pages, r.rid)
  <1>1. PICK c, q : Held(pages, home, c, q) BY DEF StoreInv, RecordsHeld
  <1>2. ReadableDB(DB) /\ DB.pages = pages /\ DB.dup = dup BY DBReadable
  <1>3. r \in Meant(DB, f) /\ Keeps(DB, f, r.rid, stack) BY DEF MeantKept
  <1>4. id \in Ids /\ home[id] = r.rid /\ r.rid \in Rid /\ home[id] # NoRid BY ResultEvent
  <1>5. /\ Len(f.tags) \in Nat /\ DOMAIN f.tags = 1 .. Len(f.tags)
        /\ ToSet(f.tags) = {f.tags[k] : k \in 1 .. Len(f.tags)}
    BY IsSeqFacts DEF FilterOK
  <1>6. CASE Len(f.tags) = 1
    <2>1. ~broken /\ f.ids = <<>> /\ WholeValues(f) BY <1>6 DEF TagsPromised
    <2>2. f.tags # <<>>
      <3>1. ASSUME f.tags = <<>> PROVE Len(f.tags) = 0 BY <3>1
      <3>2. QED BY <1>6, <3>1
    <2>3. select_strategy(f) = "by_tag" BY <2>1, <2>2 DEF select_strategy
    <2>4. r \in UnderTags(DB, f) BY <1>2, <1>3, <2>3, MeantType
    <2>5. PICK k \in 1 .. Len(f.tags) : UnderTag(DB, f.tags[k], r.rid) BY <2>4 DEF UnderTags
    <2>6. k = i BY <1>6
    <2> DEFINE tag == f.tags[i]
    <2>7. PICK j \in 1 .. Len(tag.values) : r.rid \in ToSet(Entries(DB, TagKey(tag.name, tag.values[j])))
      BY <2>5, <2>6 DEF UnderTag
    <2>8. FilterTag(tag) BY <1>5 DEF FilterOK
    <2>9. ToSet(tag.values) = {tag.values[x] : x \in 1 .. Len(tag.values)} BY <2>8, IsSeqFacts DEF FilterTag
    <2>10. tag.values[j] \in ToSet(tag.values) BY <2>9
    <2>11. tag.values[j][1] # "cut" BY <1>5, <2>1, <2>10 DEF WholeValues
    <2>12. IndexEntries(DB.dup, home, status) BY <1>2, <2>1 DEF IndexInv
    <2> HIDE DEF id, tag
    <2>13. TagKey(tag.name, tag.values[j]) \in ToSet(IndexKeys(id)) BY <1>4, <2>7, <2>12, KeyOfEntry
    <2>14. TagMatches(tag, event_deserialize(id, held)) BY <1>4, <2>8, <2>10, <2>11, <2>13, OneTagMatches
    <2>15. QED BY <2>14 DEF tag, id
  <1>7. CASE Len(f.tags) # 1
    <2>1. Len(f.tags) > 1
      <3> DEFINE n == Len(f.tags)
      <3>1. n \in Nat /\ n # 1 /\ i \in 1 .. n BY <1>5, <1>7
      <3> HIDE DEF n
      <3>2. n > 1 BY <3>1
      <3>3. QED BY <3>2 DEF n
    <2>2. ~Large(id) BY <2>1 DEF TagsPromised
    <2>3. ~Spanned(pages, r.rid)
      <3> HIDE DEF id
      <3>1. QED BY <1>1, <1>4, <2>2, TimeAt
    <2>4. tags_match_filter_tag(id, f.tags[i]) BY <1>2, <1>3, <1>5, <2>1, <2>3 DEF Keeps
    <2> HIDE DEF id
    <2>5. TagMatches(f.tags[i], event_deserialize(id, held)) BY <1>4, <2>4, TagInRecord
    <2>6. QED BY <2>5 DEF id
  <1>8. QED BY <1>6, <1>7

LEMMA ResultMatches ==
  ASSUME StoreInv, DupTyped, IndexInv, NEW f, FilterOK(f), NEW stack, NEW r \in MeantKept(DB, f, stack), NEW held
  PROVE  nostr_filter_matches(
           [f EXCEPT !.tags = IF TagsPromised(f, RecordEvent(pages, r.rid)) THEN @ ELSE <<>>],
           RecordEvent(pages, r.rid), event_deserialize(RecordEvent(pages, r.rid), held))
  <1> DEFINE id == RecordEvent(pages, r.rid)
             e == event_deserialize(id, held)
             g == [f EXCEPT !.tags = IF TagsPromised(f, id) THEN @ ELSE <<>>]
  <1>1. f = [ids |-> f.ids, authors |-> f.authors, kinds |-> f.kinds, tags |-> f.tags,
             since |-> f.since, until |-> f.until, limit |-> f.limit]
    BY DEF FilterOK
  <1>2. /\ g.ids = f.ids /\ g.authors = f.authors /\ g.kinds = f.kinds /\ g.since = f.since /\ g.until = f.until
        /\ g.tags = IF TagsPromised(f, id) THEN f.tags ELSE <<>>
    BY <1>1
  <1>3. ReadableDB(DB) /\ DB.pages = pages BY DBReadable
  <1>4. Keeps(DB, f, r.rid, stack) BY DEF MeantKept
  <1>5. /\ InTime(f, Ev[id].time) /\ Among(f.kinds, Ev[id].kind)
        /\ AmongWhole(f.authors, Ev[id].author) /\ AmongWhole(f.ids, id)
    BY <1>3, <1>4 DEF Keeps
  <1>6. e.author = Ev[id].author /\ e.kind = Ev[id].kind /\ e.time = Ev[id].time BY DEF event_deserialize
  <1>7. ASSUME NEW s, IsSeq(s), NEW x, AmongWhole(s, x) PROVE AmongPrefixes(s, x)
    <2>1. CASE s = <<>> BY <2>1 DEF AmongPrefixes
    <2>2. CASE s # <<>>
      <3> DEFINE w == [v |-> x, form |-> "whole"]
      <3>1. w \in ToSet(s) /\ w.v = x BY <1>7, <2>2 DEF AmongWhole
      <3> HIDE DEF w
      <3>2. ToSet(s) = {s[k] : k \in 1 .. Len(s)} /\ DOMAIN s = 1 .. Len(s) BY <1>7, IsSeqFacts
      <3>3. PICK k \in DOMAIN s : s[k] = w BY <3>1, <3>2
      <3>4. s[k].v = x BY <3>1, <3>3
      <3>5. QED BY <3>4 DEF AmongPrefixes
    <2>3. QED BY <2>1, <2>2
  <1>8. AmongPrefixes(f.ids, id) /\ AmongPrefixes(f.authors, Ev[id].author) BY <1>5, <1>7 DEF FilterOK
  <1>9. \A i \in DOMAIN g.tags : TagMatches(g.tags[i], e)
    <2>1. CASE TagsPromised(f, id)
      <3>1. g.tags = f.tags BY <1>2, <2>1
      <3>2. DOMAIN f.tags = 1 .. Len(f.tags) BY IsSeqFacts DEF FilterOK
      <3>3. \A i \in 1 .. Len(f.tags) : TagMatches(f.tags[i], event_deserialize(id, held)) BY <2>1, ResultTags
      <3> HIDE DEF g, id
      <3>4. QED BY <3>1, <3>2, <3>3
    <2>2. CASE ~TagsPromised(f, id)
      <3>1. g.tags = <<>> BY <1>2, <2>2
      <3>2. DOMAIN <<>> = {} OBVIOUS
      <3> HIDE DEF g
      <3>3. QED BY <3>1, <3>2
    <2>3. QED BY <2>1, <2>2
  <1> HIDE DEF g, e, id
  <1>10. nostr_filter_matches(g, id, e)
    <2>1. AmongPrefixes(g.ids, id) /\ AmongPrefixes(g.authors, e.author) /\ Among(g.kinds, e.kind)
      BY <1>2, <1>5, <1>6, <1>8
    <2>2. InTime(g, e.time) BY <1>2, <1>5, <1>6 DEF InTime
    <2>3. QED BY <1>9, <2>1, <2>2 DEF nostr_filter_matches, TagMatches
  <1>11. QED BY <1>10 DEF g, e, id

\* What is sent: the event, with its tags or with those of one before it.
LEMMA SentIs ==
  ASSUME NEW a, NEW i \in DOMAIN a
  PROVE  \E held : Sent(a, i) = event_deserialize(a[i], held)
  BY DEF Sent

LEMMA SoundNow ==
  ASSUME StoreInv, DupTyped, IndexInv, NEW f, FilterOK(f), NEW stack
  PROVE  SoundAnswer(f, Answer(DB, query_execute(DB, f, stack)))
  <1> DEFINE K == MeantKept(DB, f, stack)
             rs == query_execute(DB, f, stack)
             n == Len(rs)
             a == Answer(DB, rs)
  <1>1. ReadableDB(DB) /\ DB.pages = pages BY DBReadable
  <1>2. rs \in ResultsOf(K) /\ Descending(rs) /\ n <= f.limit BY <1>1, Executed
  <1>3. \A r \in K : /\ RecordEvent(pages, r.rid) \in Ids /\ RecordEvent(pages, r.rid) # 0
                     /\ home[RecordEvent(pages, r.rid)] = r.rid /\ r.rid \in Rid /\ r.rid # NoRid
                     /\ ~Flagged(pages, r.rid)
    BY ResultEvent
  <1>4. a = [i \in 1 .. n |-> RecordEvent(pages, rs[i].rid)]
    <2>1. \A r \in K : r.rid \in Rid /\ RecordEvent(DB.pages, r.rid) # 0 /\ ~Flagged(DB.pages, r.rid)
      BY <1>1, <1>3
    <2> HIDE DEF K
    <2>2. QED BY <1>1, <1>2, <2>1, AnswerIs
  <1>5. ASSUME NEW r \in K, NEW held
        PROVE  nostr_filter_matches(
                 [f EXCEPT !.tags = IF TagsPromised(f, RecordEvent(pages, r.rid)) THEN @ ELSE <<>>],
                 RecordEvent(pages, r.rid), event_deserialize(RecordEvent(pages, r.rid), held))
    BY ResultMatches
  <1>6. \A r \in K :
          (IF select_strategy(f) = "timeline_scan" THEN ~broken ELSE ~Large(RecordEvent(pages, r.rid)))
            => r.ts = Ev[RecordEvent(pages, r.rid)].time
    BY ResultTime
  <1> HIDE DEF K, rs, a
  <1>7. n \in Nat /\ (\A i \in 1 .. n : rs[i] \in K) /\ \A i, j \in 1 .. n : rs[i].rid = rs[j].rid => i = j
    BY <1>2, ResultsType
  <1> HIDE DEF n
  <1>8. DOMAIN a = 1 .. n /\ Len(a) = n
    <2> DEFINE S == {a[i] : i \in 1 .. n}
    <2>1. a \in [1 .. n -> S] BY <1>4
    <2> HIDE DEF S
    <2>2. QED BY <1>7, <2>1, FunctionSeq
  <1>9. ASSUME NEW i \in 1 .. n
        PROVE  a[i] = RecordEvent(pages, rs[i].rid) /\ rs[i] \in K /\ home[a[i]] = rs[i].rid
    BY <1>3, <1>4, <1>7
  <1>10. IsInjective(a) BY <1>7, <1>8, <1>9 DEF IsInjective
  <1>11. \A i \in DOMAIN a : home[a[i]] # NoRid /\ ~Flagged(pages, home[a[i]]) BY <1>3, <1>8, <1>9
  <1>12. ASSUME NEW i \in DOMAIN a
         PROVE  nostr_filter_matches(
                  [f EXCEPT !.tags = IF \/ Len(@) = 1 /\ (broken \/ f.ids # <<>> \/ ~WholeValues(f))
                                        \/ Len(@) > 1 /\ Large(a[i]) THEN <<>> ELSE @],
                  a[i], Sent(a, i))
    <2>1. nostr_filter_matches([f EXCEPT !.tags = IF TagsPromised(f, a[i]) THEN @ ELSE <<>>],
                               a[i], Sent(a, i))
      <3>1. PICK held : Sent(a, i) = event_deserialize(a[i], held) BY SentIs
      <3>2. rs[i] \in K /\ a[i] = RecordEvent(pages, rs[i].rid) BY <1>8, <1>9
      <3>3. nostr_filter_matches(
              [f EXCEPT !.tags = IF TagsPromised(f, RecordEvent(pages, rs[i].rid)) THEN @ ELSE <<>>],
              RecordEvent(pages, rs[i].rid), event_deserialize(RecordEvent(pages, rs[i].rid), held))
        BY <1>5, <3>2
      <3>4. QED BY <3>1, <3>2, <3>3
    <2>2. QED BY <2>1 DEF TagsPromised
  <1>13. ASSUME NEW i \in DOMAIN a, NEW j \in DOMAIN a, i < j,
                IF select_strategy(f) = "timeline_scan" THEN ~broken ELSE ~(Large(a[i]) \/ Large(a[j]))
         PROVE  Ev[a[i]].time >= Ev[a[j]].time
    <2>1. rs[i].ts >= rs[j].ts BY <1>2, <1>8, <1>13 DEF Descending, n
    <2>2. rs[i].ts = Ev[a[i]].time /\ rs[j].ts = Ev[a[j]].time BY <1>6, <1>8, <1>9, <1>13
    <2>3. QED BY <2>1, <2>2
  <1>14. Len(a) <= f.limit BY <1>2, <1>8
  <1>15. SoundAnswer(f, a) BY <1>10, <1>11, <1>12, <1>13, <1>14 DEF SoundAnswer
  <1>16. QED BY <1>15 DEF a, rs

\* A query (query_engine.c) returns sound answers in every reachable state,
\* whatever has failed: stored events that are not deleted, none twice, not
\* more than asked for, each one that nostr_filter_matches selects as far as
\* the engine can check it, and sorted by time where the times are those of
\* the records.
THEOREM AnswersTheorem == StoreSpec => []AnswersSound
  <1>1. StoreInit => DupTyped /\ IndexInv BY DupTypedInit, IndexInitInv
  <1>2. DupTyped /\ IndexInv /\ StoreInv /\ StoreInv' /\ [StoreNext]_storeVars => DupTyped' /\ IndexInv'
    BY DupTypedNext, IndexNextInv
  <1>3. DupTyped /\ IndexInv /\ StoreInv => AnswersSound
    <2> SUFFICES ASSUME DupTyped, IndexInv, StoreInv, NEW f \in Filters, NEW stack
                 PROVE  SoundAnswer(f, Answer(DB, query_execute(DB, f, stack)))
      BY DEF AnswersSound
    <2>1. PICK r \in Queries : f = convert_filter_to_db_filter(nostr_filter_parse(r)) BY DEF Filters
    <2>2. FilterOK(f) BY <2>1, FilterReceived
    <2>3. QED BY <2>2, SoundNow
  <1>4. QED BY <1>1, <1>2, <1>3, StoreInvariant, PTL DEF StoreSpec

-----------------------------------------------------------------------------
(* Collecting results loses nothing: what a scan leaves out it leaves out  *)
(* because as many records as there are have been found.                   *)
\* The records that results name.
Rids(rs) == {rs[i].rid : i \in 1 .. Len(rs)}

LEMMA InjectionCount ==
  ASSUME NEW n \in Nat, NEW g, \A i, j \in 1 .. n : g[i] = g[j] => i = j
  PROVE  IsFiniteSet({g[i] : i \in 1 .. n}) /\ Cardinality({g[i] : i \in 1 .. n}) = n
  <1> DEFINE T == {g[i] : i \in 1 .. n}
             e == [i \in 1 .. n |-> g[i]]
  <1>1. e \in [1 .. n -> T] /\ (\A i \in 1 .. n : e[i] = g[i]) /\ \A y \in T : \E i \in 1 .. n : e[i] = y
    OBVIOUS
  <1>2. e \in Injection(1 .. n, T) /\ e \in Surjection(1 .. n, T)
    <2> HIDE DEF e
    <2>1. \A i, j \in 1 .. n : e[i] = e[j] => i = j BY <1>1
    <2> HIDE DEF T
    <2>2. e \in Injection(1 .. n, T) BY <1>1, <2>1 DEF Injection, IsInjective
    <2>3. e \in Surjection(1 .. n, T) BY <1>1 DEF Surjection
    <2>4. QED BY <2>2, <2>3
  <1> HIDE DEF e, T
  <1>3. ExistsBijection(1 .. n, T) BY <1>2 DEF ExistsBijection, Bijection
  <1>4. IsFiniteSet(1 .. n) /\ Cardinality(1 .. n) = n BY FS_Interval
  <1>5. IsFiniteSet(T) /\ Cardinality(T) = n BY <1>3, <1>4, FS_Bijection
  <1>6. QED BY <1>5 DEF T

LEMMA RidsCount ==
  ASSUME NEW M, NEW rs \in ResultsOf(M)
  PROVE  IsFiniteSet(Rids(rs)) /\ Cardinality(Rids(rs)) = Len(rs)
  <1> DEFINE n == Len(rs)
             g == [i \in 1 .. n |-> rs[i].rid]
  <1>1. n \in Nat /\ \A i, j \in 1 .. n : rs[i].rid = rs[j].rid => i = j BY ResultsType
  <1>2. \A i \in 1 .. n : g[i] = rs[i].rid OBVIOUS
  <1> HIDE DEF g, n
  <1>3. \A i, j \in 1 .. n : g[i] = g[j] => i = j BY <1>1, <1>2
  <1>4. IsFiniteSet({g[i] : i \in 1 .. n}) /\ Cardinality({g[i] : i \in 1 .. n}) = n
    BY <1>1, <1>3, InjectionCount
  <1>5. Rids(rs) = {g[i] : i \in 1 .. n} BY <1>2 DEF Rids, n
  <1>6. QED BY <1>4, <1>5 DEF n

\* The results in M name at most m records, those in H.
Few(M, H, m) ==
  m \in Nat /\ IsFiniteSet(H) /\ Cardinality(H) <= m /\ \A r \in M : r.rid \in H

LEMMA Crowded ==
  ASSUME NEW M, NEW H, NEW m, Few(M, H, m), NEW rs \in ResultsOf(M)
  PROVE  Rids(rs) \subseteq H /\ Len(rs) <= m /\ (Len(rs) >= m => Rids(rs) = H)
  <1>1. Len(rs) \in Nat /\ \A i \in 1 .. Len(rs) : rs[i] \in M BY ResultsType
  <1>2. Rids(rs) \subseteq H BY <1>1 DEF Rids, Few
  <1>3. IsFiniteSet(Rids(rs)) /\ Cardinality(Rids(rs)) = Len(rs) BY RidsCount
  <1>4. Cardinality(Rids(rs)) <= Cardinality(H) /\ (Cardinality(H) = Cardinality(Rids(rs)) => H = Rids(rs))
    BY <1>2, FS_Subset DEF Few
  <1>5. Cardinality(H) \in Nat /\ Cardinality(H) <= m /\ m \in Nat BY FS_CardinalityType DEF Few
  <1>6. QED BY <1>1, <1>2, <1>3, <1>4, <1>5

LEMMA AddRids ==
  ASSUME NEW M, NEW rs \in ResultsOf(M), NEW rid, NEW ts, [rid |-> rid, ts |-> ts] \in M
  PROVE  Rids(query_result_add(rs, rid, ts)) = Rids(rs) \cup {rid}
  <1> DEFINE r == [rid |-> rid, ts |-> ts]
             n == Len(rs)
             t == Append(rs, r)
  <1>1. rs \in Seq(M) /\ n \in Nat /\ DOMAIN rs = 1 .. n BY ResultsType
  <1>2. CASE \E i \in DOMAIN rs : rs[i].rid = rid
    <2>1. query_result_add(rs, rid, ts) = rs BY <1>2 DEF query_result_add
    <2>2. rid \in Rids(rs) BY <1>1, <1>2 DEF Rids
    <2>3. QED BY <2>1, <2>2
  <1>3. CASE ~\E i \in DOMAIN rs : rs[i].rid = rid
    <2>1. query_result_add(rs, rid, ts) = t BY <1>3 DEF query_result_add
    <2>2. r.rid = rid /\ r \in M OBVIOUS
    <2> HIDE DEF r
    <2>3. Len(t) = n + 1 /\ t[n + 1] = r /\ \A i \in 1 .. n : t[i] = rs[i]
      BY <1>1, <2>2, AppendProperties
    <2> HIDE DEF t, n
    <2>4. \A k \in 1 .. (n + 1) : k \in 1 .. n \/ k = n + 1 BY <1>1
    <2>5. n + 1 \in 1 .. (n + 1) /\ \A k \in 1 .. n : k \in 1 .. (n + 1) BY <1>1
    <2>6. Rids(rs) = {rs[i].rid : i \in 1 .. n} /\ Rids(t) = {t[i].rid : i \in 1 .. (n + 1)}
      BY <2>3 DEF Rids, n
    <2>7. Rids(t) \subseteq Rids(rs) \cup {rid} BY <2>2, <2>3, <2>4, <2>6
    <2>8. Rids(rs) \subseteq Rids(t) /\ rid \in Rids(t) BY <2>2, <2>3, <2>5, <2>6
    <2>9. QED BY <2>1, <2>7, <2>8
  <1>4. QED BY <1>2, <1>3

\* The entries of a key that a filter's bounds of time admit.
Due(db, f, key) == {rid \in ToSet(Entries(db, key)) : InTime(f, read_created_at(db.pages, rid))}

LEMMA ScanGathers ==
  ASSUME NEW db, NEW M, NEW H, NEW m, Few(M, H, m), NEW f, NEW limit \in Nat, limit >= m,
         NEW p \in ScanState(M), p.stop => Len(p.rs) >= limit, NEW rid,
         [rid |-> rid, ts |-> read_created_at(db.pages, rid)] \in M
  PROVE  LET t == scan_collect_cb(db, f, limit, p, rid)
         IN  /\ t.stop => Len(t.rs) >= limit
             /\ Rids(p.rs) \subseteq Rids(t.rs)
             /\ InTime(f, read_created_at(db.pages, rid)) => rid \in Rids(t.rs)
  <1> DEFINE ts == read_created_at(db.pages, rid)
             more == IF InTime(f, ts) THEN query_result_add(p.rs, rid, ts) ELSE p.rs
             t == scan_collect_cb(db, f, limit, p, rid)
  <1>1. p.rs \in ResultsOf(M) BY DEF ScanState
  <1>2. Len(p.rs) \in Nat /\ m \in Nat BY <1>1, ResultsType DEF Few
  <1>3. CASE p.stop \/ Len(p.rs) >= limit
    <2>1. t = [p EXCEPT !.stop = TRUE] BY <1>3 DEF scan_collect_cb
    <2>2. t.rs = p.rs
      <3>1. p = [rs |-> p.rs, stop |-> p.stop] BY DEF ScanState
      <3> HIDE DEF t
      <3>2. QED BY <2>1, <3>1
    <2>3. Len(p.rs) >= limit /\ Len(p.rs) >= m BY <1>2, <1>3
    <2>4. Rids(p.rs) = H BY <1>1, <2>3, Crowded
    <2>5. rid \in H
      <3> DEFINE r == [rid |-> rid, ts |-> ts]
      <3>1. r \in M /\ r.rid = rid OBVIOUS
      <3> HIDE DEF r
      <3>2. QED BY <3>1 DEF Few
    <2> HIDE DEF t
    <2>6. QED BY <2>2, <2>3, <2>4, <2>5 DEF t
  <1>4. CASE ~(p.stop \/ Len(p.rs) >= limit)
    <2>1. t = [rs |-> more, stop |-> Len(more) >= limit] BY <1>4 DEF scan_collect_cb
    <2>2. Rids(query_result_add(p.rs, rid, ts)) = Rids(p.rs) \cup {rid} BY <1>1, AddRids
    <2>3. Rids(p.rs) \subseteq Rids(more) /\ (InTime(f, ts) => rid \in Rids(more)) BY <2>2
    <2> HIDE DEF t, more
    <2>4. t.rs = more /\ (t.stop => Len(more) >= limit) BY <2>1
    <2>5. QED BY <2>3, <2>4 DEF t
  <1>5. QED BY <1>3, <1>4

LEMMA ScanKeyGathers ==
  ASSUME NEW db, db.dup \in DupMap, NEW M, NEW H, NEW m, Few(M, H, m), NEW f, NEW key,
         MayScan(db, key, M), NEW limit \in Nat, limit >= m, NEW rs \in ResultsOf(M)
  PROVE  /\ Rids(rs) \subseteq Rids(ScanKey(db, f, key, limit, rs))
         /\ Due(db, f, key) \subseteq Rids(ScanKey(db, f, key, limit, rs))
  <1> DEFINE s == Entries(db, key)
             n == Len(s)
             A == ScanState(M)
             start == [rs |-> rs, stop |-> FALSE]
             steps == ScanSteps(db, f, limit, s, A)
             Y == {p \in A : p.stop => Len(p.rs) >= limit}
             R == [p \in A |-> Rids(p.rs)]
             C == [i \in 1 .. n |-> {rid \in {s[i]} : InTime(f, read_created_at(db.pages, rid))}]
  <1>1. n \in Nat /\ ToSet(s) = {s[i] : i \in 1 .. n}
    <2>1. s \in Seq(Rid) BY EntriesType
    <2> HIDE DEF s
    <2>2. QED BY <2>1, ToSetFacts, SeqElement
  <1>2. PICK u : Runs(n, A, start, steps, u) /\ ScanKey(db, f, key, limit, rs) = u[n].rs BY ScanKeyRuns
  <1>3. start \in Y /\ R[start] = Rids(rs)
    <2>1. start \in A /\ ~start.stop /\ start.rs = rs BY DEF ScanState
    <2> HIDE DEF start, A
    <2>2. QED BY <2>1
  <1>4. ASSUME NEW i \in 1 .. n, NEW p \in Y
        PROVE  /\ steps[i][p] \in Y /\ R[p] \subseteq R[steps[i][p]] /\ C[i] \subseteq R[steps[i][p]]
    <2> DEFINE t == scan_collect_cb(db, f, limit, p, s[i])
    <2>1. s[i] \in ToSet(s) BY <1>1
    <2>2. [rid |-> s[i], ts |-> read_created_at(db.pages, s[i])] \in M BY <2>1 DEF MayScan
    <2>3. steps[i][p] = t BY DEF ScanSteps
    <2>4. t \in A BY <2>2, ScanStep
    <2>5. /\ t.stop => Len(t.rs) >= limit
          /\ Rids(p.rs) \subseteq Rids(t.rs)
          /\ InTime(f, read_created_at(db.pages, s[i])) => s[i] \in Rids(t.rs)
      BY <2>2, ScanGathers
    <2> HIDE DEF t, steps, A, s
    <2>6. QED BY <2>3, <2>4, <2>5
  <1> HIDE DEF n, A, start, steps, Y, R, C
  <1>5. u[n] \in Y /\ R[start] \subseteq R[u[n]] /\ \A i \in 1 .. n : C[i] \subseteq R[u[n]]
    <2>1. Gathers(n, Y, steps, R, C) BY <1>4 DEF Gathers
    <2>2. n \in Nat /\ Runs(n, A, start, steps, u) /\ start \in Y BY <1>1, <1>2, <1>3
    <2>3. QED BY <2>1, <2>2, RunGathers
  <1>6. R[u[n]] = Rids(u[n].rs) BY <1>5 DEF R, Y
  <1>7. ASSUME NEW rid \in Due(db, f, key) PROVE rid \in R[u[n]]
    <2>1. rid \in ToSet(s) /\ InTime(f, read_created_at(db.pages, rid)) BY DEF Due
    <2>2. PICK i \in 1 .. n : rid = s[i] BY <1>1, <2>1
    <2>3. rid \in C[i] BY <2>1, <2>2 DEF C
    <2>4. QED BY <1>5, <2>3
  <1>8. QED BY <1>2, <1>3, <1>5, <1>6, <1>7

\* One key after the other.
LEMMA ScanKeysGathers ==
  ASSUME NEW db, db.dup \in DupMap, NEW M, NEW H, NEW m, Few(M, H, m), NEW f,
         NEW n \in Nat, NEW S, NEW keys \in [1 .. n -> S], \A i \in 1 .. n : MayScan(db, keys[i], M),
         NEW limit \in Nat, limit >= 2 * m, NEW rs \in ResultsOf(M)
  PROVE  /\ ScanKeys(db, f, keys, limit, rs) \in ResultsOf(M)
         /\ Rids(rs) \subseteq Rids(ScanKeys(db, f, keys, limit, rs))
         /\ \A i \in 1 .. n : Due(db, f, keys[i]) \subseteq Rids(ScanKeys(db, f, keys, limit, rs))
  <1> DEFINE A == ResultsOf(M)
             steps == KeySteps(db, f, keys, limit, A)
             R == [p \in A |-> Rids(p)]
             C == [i \in 1 .. n |-> Due(db, f, keys[i])]
  <1>1. Len(keys) = n BY FunctionSeq
  <1>2. PICK u : Runs(n, A, rs, steps, u) /\ ScanKeys(db, f, keys, limit, rs) = u[n] BY <1>1, ScanKeysRuns
  <1>3. m \in Nat BY DEF Few
  <1>4. ASSUME NEW i \in 1 .. n, NEW p \in A
        PROVE  /\ steps[i][p] \in A /\ R[p] \subseteq R[steps[i][p]] /\ C[i] \subseteq R[steps[i][p]]
    <2> DEFINE t == ScanNext(db, f, keys[i], limit, p)
    <2>1. steps[i][p] = t BY <1>1 DEF KeySteps
    <2>2. t \in A BY ScanKeyRuns DEF ScanNext
    <2>3. Len(p) \in Nat /\ Len(p) <= m BY Crowded, ResultsType
    <2>4. Rids(p) \subseteq Rids(t) /\ Due(db, f, keys[i]) \subseteq Rids(t)
      <3>1. CASE Len(p) >= limit
        <4>1. t = p BY <3>1 DEF ScanNext
        <4>2. Len(p) >= m BY <1>3, <2>3, <3>1
        <4>3. Rids(p) = H BY <4>2, Crowded
        <4>4. ASSUME NEW rid \in Due(db, f, keys[i]) PROVE rid \in H
          <5> DEFINE r == [rid |-> rid, ts |-> read_created_at(db.pages, rid)]
          <5>1. r \in M /\ r.rid = rid BY DEF Due, MayScan
          <5> HIDE DEF r
          <5>2. QED BY <5>1 DEF Few
        <4>5. QED BY <4>1, <4>3, <4>4
      <3>2. CASE ~(Len(p) >= limit)
        <4>1. t = ScanKey(db, f, keys[i], limit - Len(p), p) BY <3>2 DEF ScanNext
        <4>2. limit - Len(p) \in Nat /\ limit - Len(p) >= m BY <1>3, <2>3, <3>2
        <4> HIDE DEF t
        <4>3. QED BY <4>1, <4>2, ScanKeyGathers
      <3>3. QED BY <3>1, <3>2
    <2> HIDE DEF t, steps, A
    <2>5. QED BY <2>1, <2>2, <2>4 DEF A
  <1> HIDE DEF A, steps, R, C
  <1>5. u[n] \in A /\ R[rs] \subseteq R[u[n]] /\ \A i \in 1 .. n : C[i] \subseteq R[u[n]]
    <2>1. Gathers(n, A, steps, R, C) BY <1>4 DEF Gathers
    <2>2. rs \in A BY DEF A
    <2>3. QED BY <1>2, <2>1, <2>2, RunGathers
  <1>6. R[u[n]] = Rids(u[n]) /\ R[rs] = Rids(rs) /\ \A i \in 1 .. n : C[i] = Due(db, f, keys[i])
    BY <1>5 DEF R, A, C
  <1>7. QED BY <1>2, <1>5, <1>6 DEF A

\* What stands behind a query that collects everything: a limit of twice the
\* number of records.
Ample(db, f, M, H, m, limit) ==
  ReadableDB(db) /\ FilterOK(f) /\ FitsAll(db, M) /\ Few(M, H, m) /\ limit \in Nat /\ limit >= 2 * m

LEMMA ByKeyGathers ==
  ASSUME NEW db, NEW f, NEW M, NEW H, NEW m, Ample(db, f, M, H, m, f.limit)
  PROVE  /\ \A i \in 1 .. Len(f.authors) :
              Due(db, f, AuthorKey(AuthorOf(f.authors[i]))) \subseteq Rids(query_by_pubkey(db, f))
         /\ \A i \in 1 .. Len(f.kinds) : Due(db, f, KindKey(f.kinds[i])) \subseteq Rids(query_by_kind(db, f))
  <1> DEFINE a == [i \in 1 .. Len(f.authors) |-> AuthorKey(AuthorOf(f.authors[i]))]
             k == [i \in 1 .. Len(f.kinds) |-> KindKey(f.kinds[i])]
             S == {a[i] : i \in 1 .. Len(f.authors)}
             T == {k[i] : i \in 1 .. Len(f.kinds)}
  <1>1. /\ a \in [1 .. Len(f.authors) -> S]
        /\ \A i \in 1 .. Len(f.authors) : a[i] = AuthorKey(AuthorOf(f.authors[i]))
    OBVIOUS
  <1>2. k \in [1 .. Len(f.kinds) -> T] /\ \A i \in 1 .. Len(f.kinds) : k[i] = KindKey(f.kinds[i]) OBVIOUS
  <1>3. query_by_pubkey(db, f) = ScanKeys(db, f, a, f.limit, <<>>) BY DEF query_by_pubkey
  <1>4. query_by_kind(db, f) = ScanKeys(db, f, k, f.limit, <<>>) BY DEF query_by_kind
  <1> HIDE DEF a, k, S, T
  <1>5. /\ db.dup \in DupMap /\ Few(M, H, m) /\ f.limit \in Nat /\ f.limit >= 2 * m
        /\ \A key : MayScan(db, key, M)
    BY DEF Ample, ReadableDB, FitsAll
  <1>6. Len(f.authors) \in Nat /\ Len(f.kinds) \in Nat BY IsSeqFacts DEF Ample, FilterOK
  <1>7. <<>> \in ResultsOf(M) BY NoResults
  <1>8. \A i \in 1 .. Len(f.authors) : Due(db, f, a[i]) \subseteq Rids(ScanKeys(db, f, a, f.limit, <<>>))
    BY <1>1, <1>5, <1>6, <1>7, ScanKeysGathers
  <1>9. \A i \in 1 .. Len(f.kinds) : Due(db, f, k[i]) \subseteq Rids(ScanKeys(db, f, k, f.limit, <<>>))
    BY <1>2, <1>5, <1>6, <1>7, ScanKeysGathers
  <1>10. QED BY <1>1, <1>2, <1>3, <1>4, <1>8, <1>9

LEMMA ByPairGathers ==
  ASSUME NEW db, NEW f, NEW M, NEW H, NEW m, Ample(db, f, M, H, m, f.limit),
         NEW i \in 1 .. Len(f.authors), NEW j \in 1 .. Len(f.kinds)
  PROVE  Due(db, f, AuthorKindKey(AuthorOf(f.authors[i]), f.kinds[j])) \subseteq Rids(query_by_pubkey_kind(db, f))
  <1> DEFINE A == ResultsOf(M)
             n == Len(f.authors)
             l == Len(f.kinds)
             keys(x) == [y \in 1 .. l |-> AuthorKindKey(AuthorOf(f.authors[x]), f.kinds[y])]
             steps == PairSteps(db, f, A)
             R == [p \in A |-> Rids(p)]
             C == [x \in 1 .. n |-> UNION {Due(db, f, keys(x)[y]) : y \in 1 .. l}]
  <1>1. /\ ReadableDB(db) /\ db.dup \in DupMap /\ FitsAll(db, M) /\ Few(M, H, m)
        /\ f.limit \in Nat /\ f.limit >= 2 * m /\ \A key : MayScan(db, key, M)
    BY DEF Ample, ReadableDB, FitsAll
  <1>2. n \in Nat /\ l \in Nat BY IsSeqFacts DEF Ample, FilterOK
  <1>3. PICK u : Runs(n, A, <<>>, steps, u) /\ query_by_pubkey_kind(db, f) = u[n] BY <1>1, <1>2, ByPairRuns
  <1>4. ASSUME NEW x \in 1 .. n, NEW p \in A
        PROVE  /\ steps[x][p] \in A /\ R[p] \subseteq R[steps[x][p]] /\ C[x] \subseteq R[steps[x][p]]
    <2> DEFINE k == keys(x)
               S == {k[y] : y \in 1 .. l}
               t == ScanKeys(db, f, k, f.limit, p)
    <2>1. steps[x][p] = t BY DEF PairSteps, PairNext
    <2>2. k \in [1 .. l -> S] OBVIOUS
    <2>3. C[x] = UNION {Due(db, f, k[y]) : y \in 1 .. l} OBVIOUS
    <2> HIDE DEF k, S, C, keys, steps
    <2>4. /\ t \in ResultsOf(M) /\ Rids(p) \subseteq Rids(t)
          /\ \A y \in 1 .. l : Due(db, f, k[y]) \subseteq Rids(t)
      BY <1>1, <1>2, <2>2, ScanKeysGathers
    <2> HIDE DEF t
    <2>5. QED BY <2>1, <2>3, <2>4
  <1>5. Due(db, f, AuthorKindKey(AuthorOf(f.authors[i]), f.kinds[j])) \subseteq C[i] OBVIOUS
  <1>6. <<>> \in A BY NoResults
  <1> HIDE DEF A, steps, R, C, n, keys
  <1>7. u[n] \in A /\ \A x \in 1 .. n : C[x] \subseteq R[u[n]]
    <2>1. Gathers(n, A, steps, R, C) BY <1>4 DEF Gathers
    <2>2. QED BY <1>2, <1>3, <1>6, <2>1, RunGathers
  <1>8. R[u[n]] = Rids(u[n]) BY <1>7 DEF R
  <1>9. QED BY <1>3, <1>5, <1>7, <1>8 DEF n

LEMMA ByTagGathers ==
  ASSUME NEW db, NEW f, NEW M, NEW H, NEW m, Ample(db, f, M, H, m, CollectLimit(f)),
         NEW i \in 1 .. Len(f.tags), NEW j \in 1 .. Len(f.tags[i].values)
  PROVE  Due(db, f, TagKey(f.tags[i].name, f.tags[i].values[j])) \subseteq Rids(query_by_tag(db, f))
  <1> DEFINE A == ResultsOf(M)
             n == Len(f.tags)
             keys(tag) == [y \in 1 .. Len(tag.values) |-> TagKey(tag.name, tag.values[y])]
             steps == TagSteps(db, f, A)
             R == [p \in A |-> Rids(p)]
             C == [x \in 1 .. n |-> UNION {Due(db, f, keys(f.tags[x])[y]) : y \in 1 .. Len(f.tags[x].values)}]
  <1>1. /\ ReadableDB(db) /\ db.dup \in DupMap /\ FilterOK(f) /\ Few(M, H, m)
        /\ CollectLimit(f) \in Nat /\ CollectLimit(f) >= 2 * m /\ \A key : MayScan(db, key, M)
    BY DEF Ample, ReadableDB, FitsAll
  <1>2. n \in Nat /\ \A x \in 1 .. n : Len(f.tags[x].values) \in Nat BY <1>1, TagLengths
  <1>3. PICK u : Runs(n, A, <<>>, steps, u) /\ query_by_tag(db, f) = u[n]
    <2>1. \A x \in 1 .. n : MayScanTag(db, f.tags[x], M) BY <1>1 DEF MayScanTag
    <2>2. QED BY <1>1, <2>1, ByTagRuns
  <1>4. ASSUME NEW x \in 1 .. n, NEW p \in A
        PROVE  /\ steps[x][p] \in A /\ R[p] \subseteq R[steps[x][p]] /\ C[x] \subseteq R[steps[x][p]]
    <2> DEFINE l == Len(f.tags[x].values)
               k == keys(f.tags[x])
               S == {k[y] : y \in 1 .. l}
               t == ScanKeys(db, f, k, CollectLimit(f), p)
    <2>1. steps[x][p] = t BY DEF TagSteps, TagNext
    <2>2. k \in [1 .. l -> S] /\ l \in Nat BY <1>2
    <2>3. C[x] = UNION {Due(db, f, k[y]) : y \in 1 .. l} OBVIOUS
    <2> HIDE DEF k, S, C, keys, steps, l
    <2>4. /\ t \in ResultsOf(M) /\ Rids(p) \subseteq Rids(t)
          /\ \A y \in 1 .. l : Due(db, f, k[y]) \subseteq Rids(t)
      BY <1>1, <2>2, ScanKeysGathers
    <2> HIDE DEF t
    <2>5. QED BY <2>1, <2>3, <2>4
  <1>5. Due(db, f, TagKey(f.tags[i].name, f.tags[i].values[j])) \subseteq C[i] OBVIOUS
  <1>6. <<>> \in A BY NoResults
  <1> HIDE DEF A, steps, R, C, n, keys
  <1>7. u[n] \in A /\ \A x \in 1 .. n : C[x] \subseteq R[u[n]]
    <2>1. Gathers(n, A, steps, R, C) BY <1>4 DEF Gathers
    <2>2. QED BY <1>2, <1>3, <1>6, <2>1, RunGathers
  <1>8. R[u[n]] = Rids(u[n]) BY <1>7 DEF R
  <1>9. QED BY <1>3, <1>5, <1>7, <1>8 DEF n

LEMMA ByIdsGathers ==
  ASSUME NEW db, NEW f, NEW M, NEW H, NEW m, Ample(db, f, M, H, m, f.limit),
         NEW i \in 1 .. Len(f.ids), index_id_lookup(db, f.ids[i]) # NoRid,
         InTime(f, read_created_at(db.pages, index_id_lookup(db, f.ids[i])))
  PROVE  index_id_lookup(db, f.ids[i]) \in Rids(query_by_ids(db, f))
  <1> DEFINE A == ResultsOf(M)
             n == Len(f.ids)
             at(x) == index_id_lookup(db, f.ids[x])
             admits(rid) == rid # NoRid /\ InTime(f, read_created_at(db.pages, rid))
             steps == IdSteps(db, f, A)
             R == [p \in A |-> Rids(p)]
             C == [x \in 1 .. n |-> {rid \in {at(x)} : admits(rid)}]
  <1>1. ReadableDB(db) /\ FitsAll(db, M) /\ Few(M, H, m) /\ f.limit \in Nat /\ f.limit >= 2 * m
    BY DEF Ample
  <1>2. n \in Nat /\ m \in Nat BY IsSeqFacts DEF Ample, FilterOK, Few
  <1>3. PICK u : Runs(n, A, <<>>, steps, u) /\ query_by_ids(db, f) = u[n] BY <1>1, <1>2, ByIdsRuns
  <1>4. ASSUME NEW x \in 1 .. n, NEW p \in A
        PROVE  /\ steps[x][p] \in A /\ R[p] \subseteq R[steps[x][p]] /\ C[x] \subseteq R[steps[x][p]]
    <2> DEFINE rid == at(x)
               ts == read_created_at(db.pages, rid)
               r == [rid |-> rid, ts |-> ts]
               t == IdsNext(db, f, f.ids[x], p)
    <2>1. steps[x][p] = t BY DEF IdSteps
    <2>2. t = IF Len(p) >= f.limit \/ rid = NoRid THEN p
              ELSE IF InTime(f, ts) THEN query_result_add(p, rid, ts) ELSE p
      BY DEF IdsNext
    <2>3. rid # NoRid => r \in M BY <1>1 DEF index_id_lookup, FitsAll
    <2>4. rid # NoRid => rid \in H
      <3>1. r.rid = rid OBVIOUS
      <3> HIDE DEF r
      <3>2. QED BY <1>1, <2>3, <3>1 DEF Few
    <2>5. rid # NoRid => /\ query_result_add(p, rid, ts) \in A
                         /\ Rids(query_result_add(p, rid, ts)) = Rids(p) \cup {rid}
      BY <2>3, AddResult, AddRids
    <2>6. C[x] = {y \in {rid} : admits(y)} OBVIOUS
    <2>7. Len(p) \in Nat /\ (Len(p) >= f.limit => Rids(p) = H)
      <3>1. Len(p) \in Nat BY ResultsType
      <3>2. Len(p) >= f.limit => Len(p) >= m BY <1>1, <1>2, <3>1
      <3>3. QED BY <1>1, <3>1, <3>2, Crowded
    <2> HIDE DEF t, rid, ts, r, steps, C, A
    <2>8. t \in A BY <2>2, <2>5 DEF A
    <2>9. Rids(p) \subseteq Rids(t) BY <2>2, <2>5
    <2>10. admits(rid) /\ ts = read_created_at(db.pages, rid) => rid \in Rids(t) BY <2>2, <2>4, <2>5, <2>7
    <2>11. C[x] \subseteq Rids(t) BY <2>6, <2>10 DEF ts
    <2>12. QED BY <2>1, <2>8, <2>9, <2>11
  <1>5. at(i) \in C[i] OBVIOUS
  <1>6. <<>> \in A BY NoResults
  <1> HIDE DEF A, steps, R, C, n
  <1>7. u[n] \in A /\ \A x \in 1 .. n : C[x] \subseteq R[u[n]]
    <2>1. Gathers(n, A, steps, R, C) BY <1>4 DEF Gathers
    <2>2. QED BY <1>2, <1>3, <1>6, <2>1, RunGathers
  <1>8. R[u[n]] = Rids(u[n]) BY <1>7 DEF R
  <1>9. QED BY <1>3, <1>5, <1>7, <1>8 DEF n

-----------------------------------------------------------------------------
(* The scan by time, newest first: what it leaves out is not newer than    *)
(* what it has.  T is the time of each record.                             *)
\* Results of the times from t on, not more than asked for.
Newer(db, f, t) ==
  {p \in ResultsOf(AtTimes(db)) :
     Len(p) <= f.limit /\ \A i \in 1 .. Len(p) : p[i].ts >= t /\ InTime(f, p[i].ts)}

\* The records that are among the results, or rightly left out.
Settled(f, T, p) ==
  {rid \in Rid : rid \in Rids(p) \/ (Len(p) >= f.limit /\ \A i \in 1 .. Len(p) : p[i].ts >= T[rid])}

LEMMA AddedIs ==
  ASSUME NEW M, NEW rs \in ResultsOf(M), NEW rid, NEW ts, [rid |-> rid, ts |-> ts] \in M,
         NEW t, t = query_result_add(rs, rid, ts)
  PROVE  /\ t = rs \/ Len(t) = Len(rs) + 1
         /\ \A i \in 1 .. Len(t) : t[i].ts = ts \/ \E j \in 1 .. Len(rs) : t[i] = rs[j]
  <1> DEFINE r == [rid |-> rid, ts |-> ts]
             n == Len(rs)
  <1>1. rs \in Seq(M) /\ n \in Nat BY ResultsType
  <1>2. r \in M /\ r.ts = ts OBVIOUS
  <1>3. t = rs \/ t = Append(rs, r) BY DEF query_result_add
  <1> HIDE DEF r
  <1>4. CASE t = rs BY <1>4
  <1>5. CASE t = Append(rs, r)
    <2>1. Len(t) = n + 1 /\ t[n + 1] = r /\ \A i \in 1 .. n : t[i] = rs[i]
      BY <1>1, <1>2, <1>5, AppendProperties
    <2> HIDE DEF n
    <2>2. \A k \in 1 .. (n + 1) : k \in 1 .. n \/ k = n + 1 BY <1>1
    <2>3. QED BY <1>2, <2>1, <2>2 DEF n
  <1>6. QED BY <1>3, <1>4, <1>5

LEMMA TimeGathers ==
  ASSUME NEW db, ReadableDB(db), NEW f, f.limit \in Nat, NEW t \in Nat, InTime(f, t), NEW T,
         NEW p \in Newer(db, f, t), NEW rid \in ToSet(Entries(db, TimeKey(t))), T[rid] = t
  PROVE  /\ TimeNext(f, rid, t, p) \in Newer(db, f, t)
         /\ Settled(f, T, p) \subseteq Settled(f, T, TimeNext(f, rid, t, p))
         /\ rid \in Settled(f, T, TimeNext(f, rid, t, p))
  <1> DEFINE A == AtTimes(db)
             n == Len(p)
             q == TimeNext(f, rid, t, p)
             r == [rid |-> rid, ts |-> t]
  <1>1. p \in ResultsOf(A) /\ n <= f.limit /\ \A i \in 1 .. n : p[i].ts >= t /\ InTime(f, p[i].ts)
    BY DEF Newer
  <1>2. n \in Nat /\ \A i \in 1 .. n : p[i] \in A BY <1>1, ResultsType
  <1>3. rid \in Rid BY EntriesFacts
  <1>4. CASE n >= f.limit
    <2>1. q = p BY <1>4 DEF TimeNext
    <2>2. rid \in Settled(f, T, p) BY <1>1, <1>3, <1>4 DEF Settled
    <2> HIDE DEF q
    <2>3. QED BY <2>1, <2>2 DEF q
  <1>5. CASE ~(n >= f.limit)
    <2>1. q = query_result_add(p, rid, t) BY <1>5 DEF TimeNext
    <2>2. r \in A BY <1>3 DEF AtTimes
    <2>3. q \in ResultsOf(A) /\ Rids(q) = Rids(p) \cup {rid} BY <1>1, <2>1, <2>2, AddResult, AddRids
    <2> HIDE DEF q, A
    <2>4. /\ q = p \/ Len(q) = n + 1
          /\ \A i \in 1 .. Len(q) : q[i].ts = t \/ \E j \in 1 .. n : q[i] = p[j]
      BY <1>1, <2>1, <2>2, AddedIs
    <2>5. Len(q) <= f.limit BY <1>2, <1>5, <2>4
    <2>6. \A i \in 1 .. Len(q) : q[i].ts >= t /\ InTime(f, q[i].ts)
      <3>1. t >= t OBVIOUS
      <3>2. QED BY <1>1, <2>4, <3>1
    <2>7. q \in Newer(db, f, t) BY <2>3, <2>5, <2>6 DEF Newer, A
    <2>8. Settled(f, T, p) \subseteq Rids(p) BY <1>5 DEF Settled
    <2>9. ASSUME NEW x \in Rid, x \in Rids(q) PROVE x \in Settled(f, T, q) BY <2>9 DEF Settled
    <2>10. Settled(f, T, p) \subseteq Rid BY DEF Settled
    <2>11. Settled(f, T, p) \subseteq Settled(f, T, q) /\ rid \in Settled(f, T, q)
      BY <1>3, <2>3, <2>8, <2>9, <2>10
    <2>12. QED BY <2>7, <2>11 DEF q
  <1>6. QED BY <1>4, <1>5

LEMMA AtTimeGathers ==
  ASSUME NEW db, ReadableDB(db), NEW f, f.limit \in Nat, NEW t \in Nat, InTime(f, t), NEW T,
         \A rid \in ToSet(Entries(db, TimeKey(t))) : T[rid] = t, NEW rs \in Newer(db, f, t)
  PROVE  /\ timeline_range_cb(db, f, t, rs) \in Newer(db, f, t)
         /\ Settled(f, T, rs) \subseteq Settled(f, T, timeline_range_cb(db, f, t, rs))
         /\ ToSet(Entries(db, TimeKey(t))) \subseteq Settled(f, T, timeline_range_cb(db, f, t, rs))
  <1> DEFINE s == Entries(db, TimeKey(t))
             n == Len(s)
             A == ResultsOf(AtTimes(db))
             steps == TimeSteps(f, s, t, A)
             Y == Newer(db, f, t)
             R == [p \in A |-> Settled(f, T, p)]
             C == [i \in 1 .. n |-> {s[i]}]
  <1>1. n \in Nat /\ ToSet(s) = {s[i] : i \in 1 .. n}
    <2>1. s \in Seq(Rid) BY EntriesType DEF ReadableDB
    <2> HIDE DEF s
    <2>2. QED BY <2>1, ToSetFacts, SeqElement
  <1>2. Y \subseteq A BY DEF Newer
  <1>3. rs \in A BY <1>2
  <1>4. PICK u : Runs(n, A, rs, steps, u) /\ timeline_range_cb(db, f, t, rs) = u[n] BY <1>3, AtTimeRuns
  <1>5. ASSUME NEW i \in 1 .. n, NEW p \in Y
        PROVE  /\ steps[i][p] \in Y /\ R[p] \subseteq R[steps[i][p]] /\ C[i] \subseteq R[steps[i][p]]
    <2> DEFINE q == TimeNext(f, s[i], t, p)
    <2>1. s[i] \in ToSet(s) BY <1>1
    <2>2. p \in A BY <1>2
    <2>3. steps[i][p] = q BY <2>2 DEF TimeSteps
    <2>4. q \in Y /\ Settled(f, T, p) \subseteq Settled(f, T, q) /\ s[i] \in Settled(f, T, q)
      BY <2>1, TimeGathers
    <2> HIDE DEF q, steps, s, A, Y
    <2>5. q \in A BY <1>2, <2>4
    <2>6. QED BY <2>2, <2>3, <2>4, <2>5
  <1> HIDE DEF n, A, steps, Y, R, C
  <1>6. u[n] \in Y /\ R[rs] \subseteq R[u[n]] /\ \A i \in 1 .. n : C[i] \subseteq R[u[n]]
    <2>1. Gathers(n, Y, steps, R, C) BY <1>5 DEF Gathers
    <2>2. rs \in Y BY DEF Y
    <2>3. QED BY <1>1, <1>4, <2>1, <2>2, RunGathers
  <1>7. R[u[n]] = Settled(f, T, u[n]) /\ R[rs] = Settled(f, T, rs) BY <1>2, <1>3, <1>6 DEF R
  <1>8. \A i \in 1 .. n : s[i] \in C[i] BY DEF C
  <1>9. QED BY <1>1, <1>4, <1>6, <1>7, <1>8 DEF Y

\* The results up to time t, from the newest time on.
DoneDownTo(db, f, T, t, p) ==
  /\ p \in Newer(db, f, t)
  /\ \A x \in t .. NewestTime : InTime(f, x) => ToSet(Entries(db, TimeKey(x))) \subseteq Settled(f, T, p)

LEMMA TimelineGathers ==
  ASSUME NEW db, ReadableDB(db), NEW f, f.limit \in Nat, NEW T,
         \A t \in Nat : \A rid \in ToSet(Entries(db, TimeKey(t))) : T[rid] = t
  PROVE  DoneDownTo(db, f, T, 0, query_timeline_scan(db, f))
  <1> DEFINE n == NewestTime + 1
             A == ResultsOf(AtTimes(db))
             steps == DaySteps(db, f, A)
  <1>1. NewestTime \in Nat /\ n \in Nat /\ n - n = 0 BY NewestIs
  <1>2. PICK u : Runs(n, A, <<>>, steps, u) /\ query_timeline_scan(db, f) = u[n] BY TimelineRuns
  <1>3. /\ (\A k \in 0 .. n : u[k] \in A) /\ u[0] = <<>>
        /\ \A k \in 1 .. n : u[k] = DayNext(db, f, n - k, u[k - 1])
    <2>1. (\A k \in 0 .. n : u[k] \in A) /\ u[0] = <<>> /\ \A k \in 1 .. n : u[k] = steps[k][u[k - 1]]
      <3> HIDE DEF n, A, steps
      <3>1. QED BY <1>2 DEF Runs
    <2>2. ASSUME NEW k \in 1 .. n PROVE u[k] = DayNext(db, f, n - k, u[k - 1])
      <3>1. k - 1 \in 0 .. n BY <1>1
      <3>2. u[k - 1] \in A BY <2>1, <3>1
      <3>3. steps[k][u[k - 1]] = DayNext(db, f, n - k, u[k - 1])
        <4> DEFINE g == [x \in A |-> DayNext(db, f, n - k, x)]
        <4>1. steps[k] = g
          <5> HIDE DEF A
          <5>1. steps = [i \in 1 .. (NewestTime + 1) |-> [p \in A |-> DayNext(db, f, NewestTime + 1 - i, p)]]
            BY DEF DaySteps
          <5>2. k \in 1 .. (NewestTime + 1) OBVIOUS
          <5>3. NewestTime + 1 - k = n - k BY <1>1
          <5> HIDE DEF steps, n
          <5>4. steps[k] = [p \in A |-> DayNext(db, f, NewestTime + 1 - k, p)] BY <5>1, <5>2
          <5>5. QED BY <5>3, <5>4
        <4> HIDE DEF A, steps
        <4>2. QED BY <3>2, <4>1
      <3>4. QED BY <2>1, <3>3
    <2>3. QED BY <2>1, <2>2
  <1> DEFINE P == {k \in Nat : k <= n => DoneDownTo(db, f, T, n - k, u[k])}
  <1>4. 0 \in P
    <2>1. <<>> \in A /\ Len(<<>>) = 0 BY NoResults
    <2>2. <<>> \in Newer(db, f, n) BY <2>1 DEF Newer
    <2>3. n .. NewestTime = {} /\ n - 0 = n BY <1>1
    <2>4. DoneDownTo(db, f, T, n - 0, <<>>) BY <2>2, <2>3 DEF DoneDownTo
    <2>5. QED BY <1>3, <2>4
  <1>5. ASSUME NEW k \in Nat, k \in P PROVE k + 1 \in P
    <2> SUFFICES ASSUME k + 1 <= n PROVE DoneDownTo(db, f, T, n - (k + 1), u[k + 1]) OBVIOUS
    <2> DEFINE t == n - (k + 1)
               p == u[k]
               q == u[k + 1]
    <2>1. DoneDownTo(db, f, T, n - k, p) BY <1>1, <1>5
    <2>2. t \in Nat /\ n - k = t + 1 /\ k + 1 \in 1 .. n /\ (k + 1) - 1 = k BY <1>1
    <2>3. q = DayNext(db, f, t, p) BY <1>3, <2>2
    <2>4. p \in Newer(db, f, t + 1) BY <2>1, <2>2 DEF DoneDownTo
    <2> HIDE DEF t, p, q, P, n, steps
    <2>5. p \in Newer(db, f, t)
      <3>1. p \in A /\ Len(p) <= f.limit /\ \A i \in 1 .. Len(p) : p[i].ts >= t + 1 /\ InTime(f, p[i].ts)
        BY <2>4 DEF Newer
      <3>2. \A i \in 1 .. Len(p) : p[i].ts \in Int
        <4>1. \A i \in 1 .. Len(p) : p[i] \in AtTimes(db) BY <3>1, ResultsType
        <4>2. QED BY <4>1 DEF AtTimes
      <3>3. \A i \in 1 .. Len(p) : p[i].ts >= t BY <2>2, <3>1, <3>2
      <3>4. QED BY <3>1, <3>3 DEF Newer
    <2>6. \A x \in (t + 1) .. NewestTime : InTime(f, x) => ToSet(Entries(db, TimeKey(x))) \subseteq Settled(f, T, p)
      BY <2>1, <2>2 DEF DoneDownTo
    <2>7. \A x \in t .. NewestTime : x = t \/ x \in (t + 1) .. NewestTime BY <1>1, <2>2
    <2>8. CASE InTime(f, t)
      <3>1. q = timeline_range_cb(db, f, t, p) BY <2>3, <2>8 DEF DayNext
      <3>2. /\ q \in Newer(db, f, t) /\ Settled(f, T, p) \subseteq Settled(f, T, q)
            /\ ToSet(Entries(db, TimeKey(t))) \subseteq Settled(f, T, q)
        BY <2>2, <2>5, <2>8, <3>1, AtTimeGathers
      <3>3. DoneDownTo(db, f, T, t, q) BY <2>6, <2>7, <3>2 DEF DoneDownTo
      <3>4. QED BY <3>3 DEF t, q
    <2>9. CASE ~InTime(f, t)
      <3>1. q = p BY <2>3, <2>9 DEF DayNext
      <3>2. DoneDownTo(db, f, T, t, q) BY <2>5, <2>6, <2>7, <2>9, <3>1 DEF DoneDownTo
      <3>3. QED BY <3>2 DEF t, q
    <2>10. QED BY <2>8, <2>9
  <1>6. n \in P
    <2> HIDE DEF P, n
    <2>1. QED BY <1>1, <1>4, <1>5, SetInduction
  <1>7. DoneDownTo(db, f, T, 0, u[n])
    <2>1. n <= n BY <1>1
    <2>2. DoneDownTo(db, f, T, n - n, u[n]) BY <1>6, <2>1
    <2>3. QED BY <1>1, <2>2
  <1>8. QED BY <1>2, <1>7

-----------------------------------------------------------------------------
(* Checking, sorting and cutting lose no result that is to be kept.        *)
LEMMA FilteredRids ==
  ASSUME NEW M, NEW db, NEW f, NEW stack, NEW rs \in ResultsOf(M)
  PROVE  Rids(query_post_filter(db, rs, f, stack)) = {rid \in Rids(rs) : Keeps(db, f, rid, stack)}
  <1> DEFINE T == {r \in ToSet(rs) : Keeps(db, f, r.rid, stack)}
             t == query_post_filter(db, rs, f, stack)
  <1>1. rs \in Seq(M) /\ Len(rs) \in Nat BY ResultsType
  <1>2. t = Only(rs, T) BY DEF query_post_filter
  <1>3. ToSet(rs) = {rs[i] : i \in 1 .. Len(rs)} BY <1>1, ToSetFacts
  <1> HIDE DEF T, t
  <1>4. /\ \A i \in 1 .. Len(t) : t[i] \in T
        /\ \A i \in 1 .. Len(rs) : rs[i] \in T => \E j \in 1 .. Len(t) : t[j] = rs[i]
    BY <1>1, <1>2, OnlyKeeps
  <1>5. ASSUME NEW rid \in Rids(t) PROVE rid \in Rids(rs) /\ Keeps(db, f, rid, stack)
    <2>1. PICK i \in 1 .. Len(t) : rid = t[i].rid BY DEF Rids
    <2>2. t[i] \in ToSet(rs) /\ Keeps(db, f, t[i].rid, stack) BY <1>4 DEF T
    <2>3. PICK j \in 1 .. Len(rs) : t[i] = rs[j] BY <1>3, <2>2
    <2>4. QED BY <2>1, <2>2, <2>3 DEF Rids
  <1>6. ASSUME NEW rid \in Rids(rs), Keeps(db, f, rid, stack) PROVE rid \in Rids(t)
    <2>1. PICK i \in 1 .. Len(rs) : rid = rs[i].rid BY DEF Rids
    <2>2. rs[i] \in T BY <1>3, <1>6, <2>1 DEF T
    <2>3. PICK j \in 1 .. Len(t) : t[j] = rs[i] BY <1>4, <2>2
    <2>4. QED BY <2>1, <2>3 DEF Rids
  <1>7. QED BY <1>5, <1>6 DEF t

LEMMA SortedRids ==
  ASSUME NEW M, Timed(M), NEW rs \in ResultsOf(M)
  PROVE  Rids(query_result_sort(rs)) = Rids(rs) /\ query_result_sort(rs) \in ResultsOf(M)
  <1> DEFINE s == query_result_sort(rs)
  <1>1. SortedUpTo(M, rs, Len(rs), s) BY Sorted
  <1> HIDE DEF s
  <1>2. /\ s \in ResultsOf(M)
        /\ \A a \in 1 .. Len(s) : \E j \in 1 .. Len(rs) : s[a] = rs[j]
        /\ \A j \in 1 .. Len(rs) : \E a \in 1 .. Len(s) : s[a] = rs[j]
    BY <1>1 DEF SortedUpTo
  <1>3. Rids(s) \subseteq Rids(rs)
    <2>1. ASSUME NEW a \in 1 .. Len(s) PROVE s[a].rid \in Rids(rs)
      <3>1. PICK j \in 1 .. Len(rs) : s[a] = rs[j] BY <1>2
      <3>2. QED BY <3>1 DEF Rids
    <2>2. QED BY <2>1 DEF Rids
  <1>4. Rids(rs) \subseteq Rids(s)
    <2>1. ASSUME NEW j \in 1 .. Len(rs) PROVE rs[j].rid \in Rids(s)
      <3>1. PICK a \in 1 .. Len(s) : s[a] = rs[j] BY <1>2
      <3>2. QED BY <3>1 DEF Rids
    <2>2. QED BY <2>1 DEF Rids
  <1>5. QED BY <1>2, <1>3, <1>4 DEF s

\* If not more is to be kept than asked for, a query returns all of it.
LEMMA ExecutedRids ==
  ASSUME NEW db, ReadableDB(db), NEW f, FilterOK(f), filter_validate(f), f.limit # 0, NEW stack,
         Len(query_post_filter(db, Collected(db, f), f, stack)) <= f.limit
  PROVE  Rids(query_execute(db, f, stack)) = {rid \in Rids(Collected(db, f)) : Keeps(db, f, rid, stack)}
  <1> DEFINE K == MeantKept(db, f, stack)
             c == Collected(db, f)
             a == query_post_filter(db, c, f, stack)
             s == query_result_sort(a)
             t == query_execute(db, f, stack)
  <1>1. f.limit \in Nat BY DEF FilterOK
  <1>2. Timed(K) BY MeantType DEF Timed, MeantKept
  <1>3. c \in ResultsOf(Meant(db, f)) BY CollectedType
  <1>4. a \in ResultsOf(K) BY <1>3, Filtered DEF MeantKept
  <1>5. t = query_result_apply_limit(s, f.limit) BY DEF query_execute
  <1> HIDE DEF K, t, c
  <1>6. Rids(a) = {rid \in Rids(c) : Keeps(db, f, rid, stack)} BY <1>3, FilteredRids
  <1>7. Len(a) <= f.limit BY DEF c
  <1> HIDE DEF a
  <1>8. Rids(s) = Rids(a) /\ s \in ResultsOf(K) /\ Descending(s) BY <1>2, <1>4, Sorted, SortedRids DEF SortedUpTo
  <1> HIDE DEF s
  <1>9. Len(s) = Len(a) BY <1>4, <1>8, RidsCount
  <1>10. t = s BY <1>1, <1>5, <1>7, <1>8, <1>9, Cut
  <1>11. QED BY <1>6, <1>8, <1>10 DEF t, c

-----------------------------------------------------------------------------
(* Where the indexes have the live events.                                 *)
\* The places of the events that were stored.
Homes == {home[id] : id \in Ids}

LEMMA HomesCount == IsFiniteSet(Homes) /\ Cardinality(Homes) <= Cardinality(Ids) /\ Cardinality(Ids) \in Nat
  <1> DEFINE g == [id \in Ids |-> home[id]]
  <1>1. g \in [Ids -> Homes] /\ \A y \in Homes : \E id \in Ids : g[id] = y BY DEF Homes
  <1> HIDE DEF g
  <1>2. g \in Surjection(Ids, Homes) BY <1>1 DEF Surjection
  <1>3. IsFiniteSet(Ids) BY EventConstants
  <1>4. QED BY <1>2, <1>3, FS_Surjection, FS_CardinalityType

\* What the records of stored events come to.
Stored == {r \in ReadAt(DB) : r.rid \in Homes}

LEMMA DBFits ==
  ASSUME StoreInv, DupTyped, IndexInv, ~broken
  PROVE  FitsAll(DB, Stored) /\ Few(Stored, Homes, Cardinality(Ids))
  <1>1. ReadableDB(DB) /\ DB.pages = pages /\ DB.dup = dup /\ DB.id_index = idIndex BY DBReadable DEF DB
  <1>2. IndexEntries(dup, home, status) /\ idIndex = home BY DEF IndexInv, StoreInv
  <1>3. ASSUME NEW rid \in Rid, rid \in Homes
        PROVE  [rid |-> rid, ts |-> read_created_at(DB.pages, rid)] \in Stored
    <2> DEFINE r == [rid |-> rid, ts |-> read_created_at(DB.pages, rid)]
    <2>1. r \in ReadAt(DB) /\ r.rid = rid BY DEF ReadAt
    <2> HIDE DEF r
    <2>2. r \in Stored BY <1>3, <2>1 DEF Stored
    <2>3. QED BY <2>2 DEF r
  <1>4. ASSUME NEW key PROVE MayScan(DB, key, Stored)
    <2>1. ToSet(Entries(DB, key)) \subseteq Rid BY <1>1, EntriesFacts
    <2>2. ToSet(Entries(DB, key)) \subseteq Homes
      <3>1. CASE key \in DOMAIN dup
        <4>1. Entries(DB, key) = dup[key] BY <1>1, <3>1 DEF Entries
        <4>2. key \in DupKeys BY <1>2, <3>1 DEF IndexEntries, DupMap
        <4>3. QED BY <1>2, <4>1, <4>2 DEF IndexEntries, Homes
      <3>2. CASE key \notin DOMAIN dup
        <4>1. Entries(DB, key) = <<>> BY <1>1, <3>2 DEF Entries
        <4>2. ToSet(<<>>) = {<<>>[i] : i \in 1 .. Len(<<>>)} /\ Len(<<>>) = 0
          <5>1. <<>> \in Seq(Rid) BY EmptySeq
          <5>2. QED BY <5>1, ToSetFacts
        <4>3. QED BY <4>1, <4>2
      <3>3. QED BY <3>1, <3>2
    <2>3. QED BY <1>3, <2>1, <2>2 DEF MayScan
  <1>5. ASSUME NEW id \in Ids, DB.id_index[id] # NoRid
        PROVE  [rid |-> DB.id_index[id], ts |-> read_created_at(DB.pages, DB.id_index[id])] \in Stored
    <2>1. DB.id_index[id] = home[id] /\ home[id] \in Homes BY <1>1, <1>2 DEF Homes
    <2>2. DB.id_index[id] \in Rid BY <1>1, <1>5 DEF ReadableDB
    <2>3. QED BY <1>3, <2>1, <2>2
  <1>6. FitsAll(DB, Stored) BY <1>4, <1>5 DEF FitsAll
  <1>7. Few(Stored, Homes, Cardinality(Ids)) BY HomesCount DEF Few, Stored
  <1>8. QED BY <1>6, <1>7

\* A live event is stored.
LEMMA LiveFacts ==
  ASSUME StoreInv, ~broken, NEW id \in Ids
  PROVE  status[id] = "live" <=> home[id] # NoRid /\ ~Flagged(pages, home[id])
  <1>1. PICK c, q : Held(pages, home, c, q) BY DEF StoreInv, RecordsHeld
  <1>2. status = StatusFor(home, c) BY <1>1, AnswersHeld DEF StoreInv
  <1>3. status[id] = IF home[id] = NoRid THEN "absent" ELSE IF c[id] THEN "deleted" ELSE "live"
    BY <1>2 DEF StatusFor
  <1>4. CASE home[id] = NoRid BY <1>3, <1>4
  <1>5. CASE home[id] # NoRid
    <2>1. Flagged(pages, home[id]) = c[id] BY <1>1, <1>5, FirstUnitHeld
    <2>2. QED BY <1>3, <1>5, <2>1
  <1>6. QED BY <1>4, <1>5

LEMMA LivePlace ==
  ASSUME StoreInv, ~broken, NEW id \in Ids, status[id] = "live"
  PROVE  home[id] \in Rid /\ home[id] # NoRid /\ RecordEvent(pages, home[id]) = id /\ id # 0
  <1>1. PICK c, q : Held(pages, home, c, q) BY DEF StoreInv, RecordsHeld
  <1>2. home[id] # NoRid BY LiveFacts
  <1>3. home[id] \in Rid \cup {NoRid} BY <1>1 DEF Held
  <1>4. QED BY <1>1, <1>2, <1>3, FirstUnitHeld

LEMMA EntryOfKey ==
  ASSUME NEW db, NEW h, NEW st, IndexEntries(db.dup, h, st), NEW id \in Ids, h[id] # NoRid, st[id] = "live",
         NEW key \in ToSet(IndexKeys(id))
  PROVE  h[id] \in ToSet(Entries(db, key))
  <1>1. db.dup \in DupMap BY DEF IndexEntries
  <1>2. IndexKeys(id) \in Seq(DupKeys) BY IndexKeysType
  <1>3. key \in DupKeys BY <1>2, ToSetFacts
  <1>4. Copies(IndexKeys(id), key) # 0 BY <1>2, CopiesFacts
  <1>5. Copies(db.dup[key], h[id]) # 0 BY <1>3, <1>4 DEF IndexEntries
  <1>6. db.dup[key] \in Seq(Rid) /\ Entries(db, key) = db.dup[key] BY <1>1, <1>3 DEF DupMap, Entries
  <1>7. QED BY <1>5, <1>6, CopiesFacts

LEMMA KeysIncluded ==
  ASSUME NEW id \in Ids
  PROVE  {TimeKey(Ev[id].time), AuthorKey(Ev[id].author), KindKey(Ev[id].kind),
          AuthorKindKey(Ev[id].author, Ev[id].kind)} \cup TagKeys(id) \subseteq ToSet(IndexKeys(id))
  <1> DEFINE T == TagKeys(id)
             a == TimeKey(Ev[id].time)
             d == AuthorKey(Ev[id].author)
             k == KindKey(Ev[id].kind)
             m == AuthorKindKey(Ev[id].author, Ev[id].kind)
             S == {a, d, k, m} \cup T
             s == <<a, d, k, m>>
             t == process_tags(id)
             keys == IndexKeys(id)
  <1>1. t \in Seq(T) /\ T \subseteq ToSet(t) BY TagKeysType
  <1>2. keys = s \o t BY DEF IndexKeys
  <1> HIDE DEF T, a, d, k, m, keys, t
  <1>3. s \in Seq(S) /\ Len(s) = 4 /\ s[1] = a /\ s[2] = d /\ s[3] = k /\ s[4] = m OBVIOUS
  <1>4. t \in Seq(S) /\ Len(t) \in Nat
    <2>1. T \subseteq S OBVIOUS
    <2> HIDE DEF S
    <2>2. t \in Seq(S) BY <1>1, <2>1, SeqMonotonic
    <2>3. QED BY <2>2, LenProperties
  <1> HIDE DEF S, s
  <1>5. keys \in Seq(S) /\ Len(keys) = 4 + Len(t) /\ \A i \in 1 .. 4 + Len(t) : keys[i] = IF i <= 4 THEN s[i] ELSE t[i - 4]
    <2>1. /\ keys \in Seq(S) /\ Len(keys) = Len(s) + Len(t)
          /\ \A i \in 1 .. Len(s) + Len(t) : keys[i] = IF i <= Len(s) THEN s[i] ELSE t[i - Len(s)]
      BY <1>2, <1>3, <1>4, ConcatProperties
    <2>2. QED BY <1>3, <2>1
  <1>6. ToSet(keys) = {keys[i] : i \in 1 .. 4 + Len(t)} /\ ToSet(t) = {t[i] : i \in 1 .. Len(t)}
    BY <1>4, <1>5, ToSetFacts
  <1>7. 1 \in 1 .. 4 + Len(t) /\ 2 \in 1 .. 4 + Len(t) /\ 3 \in 1 .. 4 + Len(t) /\ 4 \in 1 .. 4 + Len(t) BY <1>4
  <1>8. keys[1] = a /\ keys[2] = d /\ keys[3] = k /\ keys[4] = m BY <1>3, <1>5, <1>7
  <1>9. {a, d, k, m} \subseteq ToSet(keys) BY <1>6, <1>7, <1>8
  <1>10. ASSUME NEW i \in 1 .. Len(t) PROVE t[i] \in ToSet(keys)
    <2>1. i + 4 \in 1 .. 4 + Len(t) /\ ~(i + 4 <= 4) /\ (i + 4) - 4 = i BY <1>4
    <2>2. keys[i + 4] = t[i] BY <1>5, <2>1
    <2>3. QED BY <1>6, <2>1, <2>2
  <1>11. T \subseteq ToSet(keys) BY <1>1, <1>6, <1>10
  <1>12. QED BY <1>9, <1>11 DEF T, a, d, k, m, keys

-----------------------------------------------------------------------------
(* Answers are complete.                                                   *)
LEMMA SelectedFacts ==
  ASSUME NEW f, FilterOK(f), NEW id \in Selected(f)
  PROVE  /\ id \in Ids /\ status[id] = "live"
         /\ AmongPrefixes(f.ids, id) /\ AmongPrefixes(f.authors, Ev[id].author) /\ Among(f.kinds, Ev[id].kind)
         /\ InTime(f, Ev[id].time)
         /\ \A i \in 1 .. Len(f.tags) : TagMatches(f.tags[i], Ev[id])
  <1>1. id \in Ids /\ status[id] = "live" /\ nostr_filter_matches(f, id, Ev[id]) BY DEF Selected
  <1>2. DOMAIN f.tags = 1 .. Len(f.tags) BY IsSeqFacts DEF FilterOK
  <1>3. QED BY <1>1, <1>2 DEF nostr_filter_matches, TagMatches

\* Whole ids and authors: one that starts with a condition is it.
LEMMA WholeAmong ==
  ASSUME NEW s, IsSeq(s), NEW x, s # <<>>, AmongPrefixes(s, x),
         \A y \in ToSet(s) : y = [v |-> y.v, form |-> y.form] /\ y.form = "whole"
  PROVE  \E i \in 1 .. Len(s) : s[i] = [v |-> x, form |-> "whole"] /\ s[i] \in ToSet(s)
  <1>1. DOMAIN s = 1 .. Len(s) /\ ToSet(s) = {s[i] : i \in 1 .. Len(s)} BY IsSeqFacts
  <1>2. PICK i \in 1 .. Len(s) : s[i].v = x BY <1>1 DEF AmongPrefixes
  <1> DEFINE y == s[i]
  <1>3. y \in ToSet(s) /\ y.v = x BY <1>1, <1>2
  <1> HIDE DEF y
  <1>4. y = [v |-> y.v, form |-> y.form] /\ y.form = "whole" BY <1>3
  <1>5. y = [v |-> x, form |-> "whole"] BY <1>3, <1>4
  <1>6. QED BY <1>3, <1>5 DEF y

\* A stored tag that has the value of a filter's tag: the value is the first
\* of it, and its key is one of the event's.
LEMMA TagFound ==
  ASSUME NEW id \in Ids, Ev[id].tagsFit, NEW tag, FilterTag(tag), TagMatches(tag, Ev[id]),
         \A t \in ToSet(Ev[id].tags) : FindableBy(tag, t)
  PROVE  /\ tags_match_filter_tag(id, tag)
         /\ \E j \in 1 .. Len(tag.values) : TagKey(tag.name, tag.values[j]) \in TagKeys(id)
  <1>1. StoredTags(id) = Ev[id].tags BY DEF StoredTags
  <1>2. StoredTags(id) \in Seq(ToSet(Ev[id].tags)) BY StoredTagsType
  <1>3. DOMAIN StoredTags(id) = 1 .. Len(StoredTags(id)) BY <1>2, LenProperties
  <1>4. PICK k \in 1 .. Len(StoredTags(id)) :
          /\ StoredTags(id)[k].name = tag.name
          /\ \E v \in ToSet(StoredTags(id)[k].values) : SameValue(tag, v)
    BY <1>1, <1>3 DEF TagMatches
  <1> DEFINE t == StoredTags(id)[k]
             s == t.values
             x == s[1]
  <1>5. t \in ToSet(Ev[id].tags) BY <1>2, SeqElement
  <1>6. Len(s) = 1 /\ s \in Seq(ToSet(s)) BY <1>5, EventConstants DEF FindableBy
  <1>7. s # <<>>
    <2>1. Len(s) = 1 BY <1>6
    <2> HIDE DEF s
    <2>2. ASSUME s = <<>> PROVE FALSE
      <3>1. Len(s) = 0 BY <2>2
      <3>2. QED BY <2>1, <3>1
    <2>3. QED BY <2>2
  <1>8. StoredValue(tag, x)
    <2>1. PICK v \in ToSet(s) : SameValue(tag, v) BY <1>4
    <2> HIDE DEF s
    <2>2. ToSet(s) = {s[i] : i \in 1 .. Len(s)} BY <1>6, ToSetFacts
    <2>3. PICK i \in 1 .. Len(s) : v = s[i] BY <2>1, <2>2
    <2>4. i = 1 BY <1>6
    <2>5. SameValue(tag, s[1]) BY <2>1, <2>3, <2>4
    <2>6. QED BY <1>5, <2>5 DEF FindableBy, s
  <1>9. tags_match_filter_tag(id, tag) BY <1>3, <1>4, <1>7, <1>8 DEF tags_match_filter_tag
  <1>10. k \in Indexed(id) BY <1>4, <1>7 DEF Indexed, FilterTag
  <1>11. IndexValue(x) \in ToSet(tag.values)
    <2> HIDE DEF x
    <2>1. CASE Binary(tag.name)
      <3>1. x.form = "hex" /\ <<"binary", x.v>> \in ToSet(tag.values) BY <1>8, <2>1 DEF StoredValue
      <3>2. IndexValue(x) = <<"binary", x.v>> BY <3>1 DEF IndexValue
      <3>3. QED BY <3>1, <3>2
    <2>2. CASE ~Binary(tag.name)
      <3>1. x.form = "text" /\ <<"text", x.v>> \in ToSet(tag.values) BY <1>8, <2>2 DEF StoredValue
      <3>2. IndexValue(x) = <<"text", x.v>> BY <3>1 DEF IndexValue
      <3>3. QED BY <3>1, <3>2
    <2>3. QED BY <2>1, <2>2
  <1>12. ToSet(tag.values) = {tag.values[j] : j \in 1 .. Len(tag.values)} BY IsSeqFacts DEF FilterTag
  <1>13. PICK j \in 1 .. Len(tag.values) : IndexValue(x) = tag.values[j] BY <1>11, <1>12
  <1>14. TagKeyAt(id, k) = TagKey(tag.name, tag.values[j]) BY <1>4, <1>13 DEF TagKeyAt
  <1>15. TagKey(tag.name, tag.values[j]) \in TagKeys(id) BY <1>10, <1>14 DEF TagKeys
  <1>16. QED BY <1>9, <1>15

\* The state an answer is complete in, and an event it must have.
Calm == StoreInv /\ DupTyped /\ IndexInv /\ ~broken

LEMMA FindableKept ==
  ASSUME Calm, NEW f, FilterOK(f), NEW id \in Selected(f), Findable(f, id)
  PROVE  Keeps(DB, f, home[id], FALSE)
  <1>1. /\ id \in Ids /\ status[id] = "live" /\ AmongPrefixes(f.ids, id)
        /\ AmongPrefixes(f.authors, Ev[id].author) /\ Among(f.kinds, Ev[id].kind) /\ InTime(f, Ev[id].time)
        /\ \A i \in 1 .. Len(f.tags) : TagMatches(f.tags[i], Ev[id])
    BY SelectedFacts
  <1>2. DB.pages = pages BY DBReadable DEF Calm
  <1>3. home[id] \in Rid /\ home[id] # NoRid /\ RecordEvent(pages, home[id]) = id /\ id # 0 BY <1>1, LivePlace DEF Calm
  <1>4. ~Flagged(pages, home[id]) BY <1>1, LiveFacts DEF Calm
  <1>5. ASSUME NEW s, IsSeq(s), NEW x, AmongPrefixes(s, x), ToSet(s) \subseteq ToSet(f.ids) \cup ToSet(f.authors)
        PROVE  AmongWhole(s, x)
    <2>1. CASE s = <<>> BY <2>1 DEF AmongWhole
    <2>2. CASE s # <<>>
      <3>1. \A y \in ToSet(s) : y = [v |-> y.v, form |-> y.form] /\ y.form = "whole" BY <1>5 DEF FilterOK, Findable
      <3>2. \E i \in 1 .. Len(s) : s[i] = [v |-> x, form |-> "whole"] /\ s[i] \in ToSet(s)
        BY <1>5, <2>2, <3>1, WholeAmong
      <3>3. QED BY <3>2 DEF AmongWhole
    <2>3. QED BY <2>1, <2>2
  <1>6. AmongWhole(f.ids, id) /\ AmongWhole(f.authors, Ev[id].author) BY <1>1, <1>5 DEF FilterOK
  <1>7. ASSUME Len(f.tags) > 1, NEW i \in DOMAIN f.tags
        PROVE  ~Spanned(pages, home[id]) /\ tags_match_filter_tag(id, f.tags[i])
    <2>1. /\ Len(f.tags) \in Nat /\ DOMAIN f.tags = 1 .. Len(f.tags)
          /\ ToSet(f.tags) = {f.tags[k] : k \in 1 .. Len(f.tags)}
      BY IsSeqFacts DEF FilterOK
    <2>2. f.tags # <<>>
      <3>1. ASSUME f.tags = <<>> PROVE Len(f.tags) = 0 BY <3>1
      <3>2. QED BY <1>7, <2>1, <3>1
    <2>3. ~Large(id)
      <3>1. ~(Len(f.tags) < 2) BY <1>7, <2>1
      <3>2. QED BY <3>1 DEF Findable
    <2>4. ~Spanned(pages, home[id])
      <3>1. PICK c, q : Held(pages, home, c, q) BY DEF Calm, StoreInv, RecordsHeld
      <3>2. QED BY <1>1, <1>3, <2>3, <3>1, TimeAt
    <2>5. FilterTag(f.tags[i]) BY <2>1 DEF FilterOK
    <2>6. Ev[id].tagsFit /\ \A t \in ToSet(Ev[id].tags) : FindableBy(f.tags[i], t) BY <2>1 DEF Findable
    <2>7. tags_match_filter_tag(id, f.tags[i]) BY <1>1, <2>1, <2>5, <2>6, TagFound
    <2>8. QED BY <2>4, <2>7
  <1>8. QED BY <1>1, <1>2, <1>3, <1>4, <1>6, <1>7 DEF Keeps

\* The limit of a scan of the tag index is that of the filter or more.
LEMMA CollectLimitIs ==
  ASSUME NEW f, FilterOK(f), select_strategy(f) = "by_tag", CollectsEnough(f)
  PROVE  CollectLimit(f) \in Nat /\ CollectLimit(f) >= f.limit
  <1> DEFINE l == f.limit
             n == Len(f.tags[1].values)
             a == (l * n) % Word32
             S == {a, DefaultLimit}
  <1>1. l \in Nat /\ Len(f.tags) \in Nat /\ ToSet(f.tags) = {f.tags[i] : i \in 1 .. Len(f.tags)}
    BY IsSeqFacts DEF FilterOK
  <1>2. f.tags # <<>> BY DEF select_strategy
  <1>3. 1 \in 1 .. Len(f.tags)
    <2>1. f.tags \in Seq(ToSet(f.tags)) BY DEF FilterOK, IsSeq
    <2>2. Len(f.tags) # 0 BY <1>2, <2>1, EmptySeq
    <2>3. QED BY <1>1, <2>2
  <1>4. IsSeq(f.tags[1].values) /\ f.tags[1].values # <<>> BY <1>1, <1>3 DEF FilterOK, FilterTag
  <1>5. n \in Nat /\ n >= 1
    <2> DEFINE s == f.tags[1].values
    <2>1. s \in Seq(ToSet(s)) /\ s # <<>> BY <1>4 DEF IsSeq
    <2> HIDE DEF s
    <2>2. Len(s) \in Nat /\ Len(s) # 0 BY <2>1, EmptySeq, LenProperties
    <2>3. QED BY <2>2 DEF s
  <1>6. l * n < Word32 BY DEF CollectsEnough
  <1>7. CollectLimit(f) = Max(S) BY DEF CollectLimit
  <1> HIDE DEF l, n
  <1>8. Word32 \in Nat \ {0} /\ DefaultLimit \in Nat BY QueryConstants
  <1>9. l * n \in Nat /\ l * n >= l
    <2>1. PICK d \in Nat : n = 1 + d
      <3>1. n - 1 \in Nat /\ n = 1 + (n - 1) BY <1>5
      <3>2. QED BY <3>1
    <2>2. l * (1 + d) = l + l * d /\ l * d \in Nat BY <1>1, <2>1 DEF l
    <2>3. l \in Nat BY <1>1 DEF l
    <2>4. QED BY <2>1, <2>2, <2>3
  <1>10. a = l * n
    <2> DEFINE x == l * n
    <2>1. x \in 0 .. (Word32 - 1) BY <1>6, <1>8, <1>9
    <2> HIDE DEF x
    <2>2. x % Word32 = x BY <1>8, <2>1, ModFacts
    <2>3. QED BY <2>2 DEF x
  <1> HIDE DEF a
  <1>11. a \in Nat /\ a >= l BY <1>9, <1>10
  <1>12. Max(S) \in S /\ a <= Max(S)
    <2>1. S \subseteq Nat /\ S # {} /\ a + DefaultLimit \in Nat /\ \A x \in S : x <= a + DefaultLimit
      BY <1>8, <1>11
    <2>2. a \in S OBVIOUS
    <2> HIDE DEF S
    <2>3. QED BY <2>1, <2>2, MaxFacts
  <1>13. Max(S) \in Nat BY <1>8, <1>11, <1>12
  <1> HIDE DEF S
  <1>14. QED BY <1>1, <1>7, <1>11, <1>12, <1>13 DEF l

\* Its record is found by the scan that the filter selects.
LEMMA FindableTime ==
  ASSUME Calm, NEW f, FilterOK(f), NEW id \in Selected(f), Findable(f, id), select_strategy(f) # "timeline_scan"
  PROVE  InTime(f, read_created_at(DB.pages, home[id]))
  <1>1. id \in Ids /\ status[id] = "live" /\ InTime(f, Ev[id].time) BY SelectedFacts
  <1>2. DB.pages = pages BY DBReadable DEF Calm
  <1>3. home[id] \in Rid BY <1>1, LivePlace DEF Calm
  <1>4. CASE Large(id)
    <2>1. f.since + f.until = 0 /\ f.since \in Nat /\ f.until \in Nat BY <1>4 DEF Findable, FilterOK
    <2>2. ~(f.since > 0) /\ ~(f.until > 0) BY <2>1
    <2>3. QED BY <2>2 DEF InTime
  <1>5. CASE ~Large(id)
    <2>1. PICK c, q : Held(pages, home, c, q) BY DEF Calm, StoreInv, RecordsHeld
    <2>2. read_created_at(pages, home[id]) = Ev[id].time BY <1>1, <1>3, <1>5, <2>1, TimeAt
    <2>3. QED BY <1>1, <1>2, <2>2
  <1>6. QED BY <1>4, <1>5

LEMMA FindableDue ==
  ASSUME Calm, NEW f, FilterOK(f), NEW id \in Selected(f), Findable(f, id), select_strategy(f) # "timeline_scan",
         NEW key \in ToSet(IndexKeys(id))
  PROVE  home[id] \in Due(DB, f, key)
  <1>1. id \in Ids /\ status[id] = "live" BY SelectedFacts
  <1>2. home[id] # NoRid BY <1>1, LivePlace DEF Calm
  <1>3. IndexEntries(DB.dup, home, status) BY DBReadable DEF Calm, IndexInv
  <1>4. home[id] \in ToSet(Entries(DB, key)) BY <1>1, <1>2, <1>3, EntryOfKey
  <1>5. QED BY <1>4, FindableTime DEF Due

LEMMA FindableCollected ==
  ASSUME Calm, NEW f, FilterOK(f), f.limit >= 2 * Cardinality(Ids), CollectsEnough(f),
         NEW id \in Selected(f), Findable(f, id), select_strategy(f) # "timeline_scan"
  PROVE  home[id] \in Rids(Collected(DB, f))
  <1> DEFINE by == select_strategy(f)
             rid == home[id]
             n == Cardinality(Ids)
  <1>1. /\ id \in Ids /\ status[id] = "live" /\ AmongPrefixes(f.ids, id)
        /\ AmongPrefixes(f.authors, Ev[id].author) /\ Among(f.kinds, Ev[id].kind)
        /\ \A i \in 1 .. Len(f.tags) : TagMatches(f.tags[i], Ev[id])
    BY SelectedFacts
  <1>2. ReadableDB(DB) /\ DB.pages = pages /\ DB.id_index = home
    BY DBReadable DEF Calm, DB, StoreInv
  <1>3. FitsAll(DB, Stored) /\ Few(Stored, Homes, n) BY DBFits DEF Calm
  <1>4. Ample(DB, f, Stored, Homes, n, f.limit) BY <1>2, <1>3 DEF Ample, FilterOK
  <1>5. rid # NoRid /\ rid \in Rid BY <1>1, LivePlace DEF Calm
  <1>6. /\ IsSeq(f.ids) /\ IsSeq(f.authors) /\ IsSeq(f.kinds) /\ IsSeq(f.tags)
        /\ \A y \in ToSet(f.ids) \cup ToSet(f.authors) : y = [v |-> y.v, form |-> y.form] /\ y.form = "whole"
    BY DEF FilterOK, Findable
  <1>7. /\ AuthorKey(Ev[id].author) \in ToSet(IndexKeys(id)) /\ KindKey(Ev[id].kind) \in ToSet(IndexKeys(id))
        /\ AuthorKindKey(Ev[id].author, Ev[id].kind) \in ToSet(IndexKeys(id))
        /\ TagKeys(id) \subseteq ToSet(IndexKeys(id))
    BY <1>1, KeysIncluded
  <1>8. f.authors # <<>> => \E i \in 1 .. Len(f.authors) : AuthorOf(f.authors[i]) = Ev[id].author
    <2> SUFFICES ASSUME f.authors # <<>>
                 PROVE  \E i \in 1 .. Len(f.authors) : AuthorOf(f.authors[i]) = Ev[id].author
      OBVIOUS
    <2>1. PICK i \in 1 .. Len(f.authors) : f.authors[i] = [v |-> Ev[id].author, form |-> "whole"]
      BY <1>1, <1>6, WholeAmong
    <2>2. QED BY <2>1 DEF AuthorOf
  <1>9. f.kinds # <<>> => \E i \in 1 .. Len(f.kinds) : f.kinds[i] = Ev[id].kind
    <2>1. ToSet(f.kinds) = {f.kinds[i] : i \in 1 .. Len(f.kinds)} BY <1>6, IsSeqFacts
    <2>2. QED BY <1>1, <2>1 DEF Among
  <1>10. by \in {"by_id", "by_tag", "by_pubkey_kind", "by_pubkey", "by_kind"} BY DEF select_strategy
  <1> HIDE DEF rid, n
  <1>11. CASE by = "by_id"
    <2>1. Collected(DB, f) = query_by_ids(DB, f) /\ f.ids # <<>> BY <1>11 DEF Collected, select_strategy
    <2>2. PICK i \in 1 .. Len(f.ids) : f.ids[i] = [v |-> id, form |-> "whole"]
      BY <1>1, <1>6, <2>1, WholeAmong
    <2>3. index_id_lookup(DB, f.ids[i]) = rid BY <1>1, <1>2, <2>2 DEF index_id_lookup, rid
    <2>4. InTime(f, read_created_at(DB.pages, rid)) BY FindableTime DEF rid
    <2>5. rid \in Rids(query_by_ids(DB, f)) BY <1>4, <1>5, <2>3, <2>4, ByIdsGathers
    <2>6. QED BY <2>1, <2>5 DEF rid
  <1>12. CASE by = "by_pubkey_kind"
    <2>1. Collected(DB, f) = query_by_pubkey_kind(DB, f) /\ f.authors # <<>> /\ f.kinds # <<>>
      BY <1>12 DEF Collected, select_strategy
    <2>2. PICK i \in 1 .. Len(f.authors) : AuthorOf(f.authors[i]) = Ev[id].author BY <1>8, <2>1
    <2>3. PICK j \in 1 .. Len(f.kinds) : f.kinds[j] = Ev[id].kind BY <1>9, <2>1
    <2>4. rid \in Due(DB, f, AuthorKindKey(AuthorOf(f.authors[i]), f.kinds[j]))
      BY <1>7, <2>2, <2>3, FindableDue DEF rid
    <2>5. rid \in Rids(query_by_pubkey_kind(DB, f)) BY <1>4, <2>4, ByPairGathers
    <2>6. QED BY <2>1, <2>5 DEF rid
  <1>13. CASE by = "by_pubkey"
    <2>1. Collected(DB, f) = query_by_pubkey(DB, f) /\ f.authors # <<>> BY <1>13 DEF Collected, select_strategy
    <2>2. PICK i \in 1 .. Len(f.authors) : AuthorOf(f.authors[i]) = Ev[id].author BY <1>8, <2>1
    <2>3. rid \in Due(DB, f, AuthorKey(AuthorOf(f.authors[i]))) BY <1>7, <2>2, FindableDue DEF rid
    <2>4. rid \in Rids(query_by_pubkey(DB, f)) BY <1>4, <2>3, ByKeyGathers
    <2>5. QED BY <2>1, <2>4 DEF rid
  <1>14. CASE by = "by_kind"
    <2>1. Collected(DB, f) = query_by_kind(DB, f) /\ f.kinds # <<>> BY <1>14 DEF Collected, select_strategy
    <2>2. PICK i \in 1 .. Len(f.kinds) : f.kinds[i] = Ev[id].kind BY <1>9, <2>1
    <2>3. rid \in Due(DB, f, KindKey(f.kinds[i])) BY <1>7, <2>2, FindableDue DEF rid
    <2>4. rid \in Rids(query_by_kind(DB, f)) BY <1>4, <2>3, ByKeyGathers
    <2>5. QED BY <2>1, <2>4 DEF rid
  <1>15. CASE by = "by_tag"
    <2>1. Collected(DB, f) = query_by_tag(DB, f) /\ f.tags # <<>> BY <1>15 DEF Collected, select_strategy
    <2>2. CollectLimit(f) \in Nat /\ CollectLimit(f) >= f.limit BY <1>15, CollectLimitIs
    <2>3. Ample(DB, f, Stored, Homes, n, CollectLimit(f))
      <3>1. f.limit \in Nat /\ n \in Nat /\ f.limit >= 2 * n BY <1>3 DEF FilterOK, Few, n
      <3>2. CollectLimit(f) >= 2 * n BY <2>2, <3>1
      <3>3. QED BY <1>2, <1>3, <2>2, <3>2 DEF Ample
    <2>4. 1 \in 1 .. Len(f.tags) /\ f.tags[1] \in ToSet(f.tags)
      <3>1. f.tags \in Seq(ToSet(f.tags)) BY <1>6 DEF IsSeq
      <3>2. Len(f.tags) # 0 BY <2>1, <3>1, EmptySeq
      <3>3. Len(f.tags) \in Nat /\ ToSet(f.tags) = {f.tags[i] : i \in 1 .. Len(f.tags)} BY <1>6, IsSeqFacts
      <3>4. 1 \in 1 .. Len(f.tags) BY <3>2, <3>3
      <3>5. QED BY <3>3, <3>4
    <2>5. FilterTag(f.tags[1]) BY <2>4 DEF FilterOK
    <2>6. Ev[id].tagsFit /\ \A t \in ToSet(Ev[id].tags) : FindableBy(f.tags[1], t) BY <2>4 DEF Findable
    <2>7. TagMatches(f.tags[1], Ev[id]) BY <1>1, <2>4
    <2>8. PICK j \in 1 .. Len(f.tags[1].values) : TagKey(f.tags[1].name, f.tags[1].values[j]) \in TagKeys(id)
      BY <1>1, <2>5, <2>6, <2>7, TagFound
    <2>9. rid \in Due(DB, f, TagKey(f.tags[1].name, f.tags[1].values[j])) BY <1>7, <2>8, FindableDue DEF rid
    <2>10. rid \in Rids(query_by_tag(DB, f)) BY <2>3, <2>4, <2>9, ByTagGathers
    <2>11. QED BY <2>1, <2>10 DEF rid
  <1>16. QED BY <1>10, <1>11, <1>12, <1>13, <1>14, <1>15

\* The events of an answer are those of the results.
LEMMA AnswerEvents ==
  ASSUME Calm, NEW f, FilterOK(f), NEW stack
  PROVE  LET rs == query_execute(DB, f, stack)
             a == ToSet(Answer(DB, rs))
         IN  /\ \A id \in a : id \in Ids /\ home[id] \in Rids(rs) /\ status[id] = "live"
             /\ \A id \in Ids : home[id] # NoRid /\ home[id] \in Rids(rs) => id \in a
             /\ IsFiniteSet(a) /\ Cardinality(a) = Len(rs)
  <1> DEFINE K == MeantKept(DB, f, stack)
             rs == query_execute(DB, f, stack)
             n == Len(rs)
             s == Answer(DB, rs)
             a == ToSet(s)
  <1>1. ReadableDB(DB) /\ DB.pages = pages BY DBReadable DEF Calm
  <1>2. rs \in ResultsOf(K) BY <1>1, Executed
  <1>3. \A r \in K : /\ RecordEvent(pages, r.rid) \in Ids /\ RecordEvent(pages, r.rid) # 0
                     /\ home[RecordEvent(pages, r.rid)] = r.rid /\ r.rid \in Rid /\ r.rid # NoRid
                     /\ ~Flagged(pages, r.rid)
    BY ResultEvent DEF Calm
  <1>4. s = [i \in 1 .. n |-> RecordEvent(pages, rs[i].rid)]
    <2>1. \A r \in K : r.rid \in Rid /\ RecordEvent(DB.pages, r.rid) # 0 /\ ~Flagged(DB.pages, r.rid)
      BY <1>1, <1>3
    <2> HIDE DEF K
    <2>2. QED BY <1>1, <1>2, <2>1, AnswerIs
  <1> HIDE DEF K, rs, s
  <1>5. n \in Nat /\ (\A i \in 1 .. n : rs[i] \in K) /\ \A i, j \in 1 .. n : rs[i].rid = rs[j].rid => i = j
    BY <1>2, ResultsType
  <1>6. Rids(rs) = {rs[i].rid : i \in 1 .. n} BY DEF Rids
  <1> HIDE DEF n
  <1>7. ASSUME NEW i \in 1 .. n
        PROVE  /\ s[i] = RecordEvent(pages, rs[i].rid) /\ s[i] \in Ids /\ home[s[i]] = rs[i].rid
               /\ home[s[i]] # NoRid /\ ~Flagged(pages, home[s[i]])
    BY <1>3, <1>4, <1>5
  <1>8. a = {s[i] : i \in 1 .. n}
    <2> DEFINE S == {s[i] : i \in 1 .. n}
    <2>1. s \in [1 .. n -> S] BY <1>4
    <2> HIDE DEF S
    <2>2. s \in Seq(S) /\ Len(s) = n BY <1>5, <2>1, FunctionSeq
    <2>3. QED BY <2>2, ToSetFacts
  <1>9. \A i, j \in 1 .. n : s[i] = s[j] => i = j BY <1>5, <1>7
  <1>10. IsFiniteSet(a) /\ Cardinality(a) = n
    <2> HIDE DEF a
    <2>1. \A g : (\A i, j \in 1 .. n : g[i] = g[j] => i = j) =>
                IsFiniteSet({g[i] : i \in 1 .. n}) /\ Cardinality({g[i] : i \in 1 .. n}) = n
      BY <1>5, InjectionCount
    <2>2. IsFiniteSet({s[i] : i \in 1 .. n}) /\ Cardinality({s[i] : i \in 1 .. n}) = n BY <1>9, <2>1
    <2>3. QED BY <1>8, <2>2
  <1>11. ASSUME NEW id \in a PROVE id \in Ids /\ home[id] \in Rids(rs) /\ status[id] = "live"
    <2>1. PICK i \in 1 .. n : id = s[i] BY <1>8
    <2>2. id \in Ids /\ home[id] = rs[i].rid /\ home[id] # NoRid /\ ~Flagged(pages, home[id]) BY <1>7, <2>1
    <2>3. status[id] = "live" BY <2>2, LiveFacts DEF Calm
    <2>4. QED BY <1>6, <2>2, <2>3
  <1>12. ASSUME NEW id \in Ids, home[id] # NoRid, home[id] \in Rids(rs) PROVE id \in a
    <2>1. PICK i \in 1 .. n : home[id] = rs[i].rid BY <1>6, <1>12
    <2>2. PICK c, q : Held(pages, home, c, q) BY DEF Calm, StoreInv, RecordsHeld
    <2>3. RecordEvent(pages, home[id]) = id BY <1>12, <2>2, FirstUnitHeld
    <2>4. s[i] = id BY <1>7, <2>1, <2>3
    <2>5. QED BY <1>8, <2>4
  <1>13. QED BY <1>10, <1>11, <1>12 DEF n, a, s, rs

-----------------------------------------------------------------------------
(* With room for every record twice, the scan of an index and the checks   *)
(* behind it lose nothing that can be found.                               *)
LEMMA KeptFew ==
  ASSUME Calm, NEW f, NEW stack
  PROVE  Few(MeantKept(DB, f, stack), Homes, Cardinality(Ids))
  <1>1. \A r \in MeantKept(DB, f, stack) :
          RecordEvent(pages, r.rid) \in Ids /\ home[RecordEvent(pages, r.rid)] = r.rid
    BY ResultEvent DEF Calm
  <1>2. \A r \in MeantKept(DB, f, stack) : r.rid \in Homes BY <1>1 DEF Homes
  <1>3. QED BY <1>2, HomesCount DEF Few

LEMMA AmpleAnswer ==
  ASSUME Calm, NEW f, FilterOK(f), filter_validate(f), f.limit >= 2 * Cardinality(Ids), CollectsEnough(f),
         select_strategy(f) # "timeline_scan", NEW id \in Selected(f), Findable(f, id)
  PROVE  id \in ToSet(Answer(DB, query_execute(DB, f, FALSE)))
  <1> DEFINE stack == FALSE
             n == Cardinality(Ids)
             K == MeantKept(DB, f, stack)
             c == Collected(DB, f)
             t == query_post_filter(DB, c, f, stack)
  <1> HIDE DEF stack
  <1>1. ReadableDB(DB) BY DBReadable DEF Calm
  <1>2. f.limit \in Nat /\ n \in Nat /\ f.limit >= 2 * n BY HomesCount DEF FilterOK
  <1>3. t \in ResultsOf(K)
    <2>1. c \in ResultsOf(Meant(DB, f)) BY <1>1, CollectedType
    <2> HIDE DEF c
    <2>2. QED BY <2>1, Filtered DEF MeantKept
  <1>4. Few(K, Homes, n) BY KeptFew
  <1>5. home[id] \in Rids(c) BY FindableCollected
  <1>6. Keeps(DB, f, home[id], stack) BY FindableKept DEF stack
  <1> HIDE DEF K, n
  <1>7. Len(t) <= f.limit
    <2> HIDE DEF t
    <2>1. Len(t) \in Nat BY <1>3, ResultsType
    <2>2. Len(t) <= n BY <1>3, <1>4, Crowded
    <2>3. QED BY <1>2, <2>1, <2>2
  <1>8. id \in Ids /\ home[id] # NoRid /\ n # 0
    <2>1. id \in Ids /\ status[id] = "live" BY SelectedFacts
    <2>2. home[id] # NoRid BY <2>1, LivePlace DEF Calm
    <2>3. IsFiniteSet(Ids) /\ Ids # {} BY <2>1, EventConstants
    <2>4. n # 0 BY <2>3, FS_EmptySet DEF n
    <2>5. QED BY <2>1, <2>2, <2>4
  <1>9. f.limit # 0 BY <1>2, <1>8
  <1>10. home[id] \in Rids(query_execute(DB, f, stack))
    <2>1. Rids(query_execute(DB, f, stack)) = {rid \in Rids(c) : Keeps(DB, f, rid, stack)}
      BY <1>1, <1>7, <1>9, ExecutedRids
    <2>2. QED BY <1>5, <1>6, <2>1
  <1>11. id \in ToSet(Answer(DB, query_execute(DB, f, stack))) BY <1>8, <1>10, AnswerEvents
  <1>12. QED BY <1>11 DEF stack

-----------------------------------------------------------------------------
(* The scan by time answers with the newest events, whatever the limit is. *)
LEMMA EntryNames ==
  ASSUME NEW db, NEW h, NEW st, IndexEntries(db.dup, h, st), NEW key, NEW rid \in ToSet(Entries(db, key)), rid # NoRid
  PROVE  \E id \in Ids : h[id] = rid /\ st[id] = "live" /\ key \in ToSet(IndexKeys(id))
  <1>1. db.dup \in DupMap BY DEF IndexEntries
  <1>2. key \in DupKeys /\ Entries(db, key) = db.dup[key]
    <2>1. ToSet(<<>>) = {}
      <3>1. <<>> \in Seq(Rid) /\ Len(<<>>) = 0 BY EmptySeq
      <3>2. ToSet(<<>>) = {<<>>[i] : i \in 1 .. Len(<<>>)} BY <3>1, ToSetFacts
      <3>3. QED BY <3>1, <3>2
    <2>2. DOMAIN db.dup = DupKeys BY <1>1 DEF DupMap
    <2>3. QED BY <2>1, <2>2 DEF Entries
  <1>3. db.dup[key] \in Seq(Rid) BY <1>1, <1>2 DEF DupMap
  <1>4. PICK id \in Ids : h[id] = rid BY <1>2 DEF IndexEntries
  <1>5. Copies(db.dup[key], rid) # 0 BY <1>2, <1>3, CopiesFacts
  <1>6. st[id] = "live" BY <1>2, <1>4, <1>5 DEF IndexEntries
  <1>7. key \in ToSet(IndexKeys(id)) BY <1>4, KeyOfEntry
  <1>8. QED BY <1>4, <1>6, <1>7

\* What the scan collects are live events of their times, all of them kept.
LEMMA TimelineKept ==
  ASSUME Calm, NEW f, FilterOK(f), select_strategy(f) = "timeline_scan", NEW t \in Nat, InTime(f, t),
         NEW rid \in ToSet(Entries(DB, TimeKey(t)))
  PROVE  /\ \E id \in Ids : home[id] = rid /\ status[id] = "live" /\ Ev[id].time = t /\ RecordEvent(pages, rid) = id
         /\ Keeps(DB, f, rid, FALSE)
  <1>1. ReadableDB(DB) /\ DB.pages = pages BY DBReadable DEF Calm
  <1>2. IndexEntries(DB.dup, home, status) BY DBReadable DEF Calm, IndexInv
  <1>3. rid \in Rid /\ rid # NoRid BY <1>1, EntriesFacts, RidFacts
  <1>4. PICK id \in Ids : home[id] = rid /\ status[id] = "live" /\ TimeKey(t) \in ToSet(IndexKeys(id))
    BY <1>2, <1>3, EntryNames
  <1>5. Ev[id].time = t BY <1>4, TimeOfKey
  <1>6. RecordEvent(pages, rid) = id /\ id # 0 /\ ~Flagged(pages, rid) BY <1>4, LivePlace, LiveFacts DEF Calm
  <1>7. f.ids = <<>> /\ f.tags = <<>> /\ f.authors = <<>> /\ f.kinds = <<>> BY DEF select_strategy
  <1>8. Keeps(DB, f, rid, FALSE)
    <2>1. ~(Len(f.tags) > 1)
      <3>1. Len(<<>>) = 0 BY EmptySeq
      <3>2. QED BY <1>7, <3>1
    <2>2. QED BY <1>1, <1>5, <1>6, <1>7, <2>1 DEF Keeps, Among, AmongWhole
  <1>9. QED BY <1>4, <1>5, <1>6, <1>8

\* What the events of a result of the scan are, and what is left out.
LEMMA TimelineCollected ==
  ASSUME Calm, NEW f, FilterOK(f), select_strategy(f) = "timeline_scan"
  PROVE  LET c == query_timeline_scan(DB, f)
         IN  /\ c \in ResultsOf(AtTimes(DB)) /\ Len(c) <= f.limit
             /\ \A i \in 1 .. Len(c) : /\ c[i].ts \in Nat /\ InTime(f, c[i].ts) /\ Keeps(DB, f, c[i].rid, FALSE)
                                       /\ \A id \in Ids : home[id] = c[i].rid => Ev[id].time = c[i].ts
             /\ \A id \in Selected(f) : \/ home[id] \in Rids(c)
                                        \/ Len(c) >= f.limit /\ \A i \in 1 .. Len(c) : c[i].ts >= Ev[id].time
  <1> DEFINE c == query_timeline_scan(DB, f)
             T == [rid \in Rid |-> Ev[RecordEvent(pages, rid)].time]
  <1>1. ReadableDB(DB) /\ DB.pages = pages BY DBReadable DEF Calm
  <1>2. IndexEntries(DB.dup, home, status) BY DBReadable DEF Calm, IndexInv
  <1>3. ASSUME NEW t \in Nat, NEW rid \in ToSet(Entries(DB, TimeKey(t)))
        PROVE  T[rid] = t
    <2>1. rid \in Rid /\ rid # NoRid BY <1>1, EntriesFacts, RidFacts
    <2>2. PICK id \in Ids : home[id] = rid /\ status[id] = "live" /\ TimeKey(t) \in ToSet(IndexKeys(id))
      BY <1>2, <2>1, EntryNames
    <2>3. RecordEvent(pages, rid) = id BY <2>2, LivePlace DEF Calm
    <2>4. Ev[id].time = t BY <2>2, TimeOfKey
    <2>5. QED BY <2>1, <2>3, <2>4
  <1>4. f.limit \in Nat BY DEF FilterOK
  <1> HIDE DEF T, c
  <1>5. DoneDownTo(DB, f, T, 0, c) BY <1>1, <1>3, <1>4, TimelineGathers DEF c
  <1>6. /\ c \in ResultsOf(AtTimes(DB)) /\ Len(c) <= f.limit
        /\ \A i \in 1 .. Len(c) : InTime(f, c[i].ts)
    BY <1>5 DEF DoneDownTo, Newer
  <1>7. ASSUME NEW i \in 1 .. Len(c)
        PROVE  /\ c[i].ts \in Nat /\ InTime(f, c[i].ts) /\ Keeps(DB, f, c[i].rid, FALSE)
               /\ \A id \in Ids : home[id] = c[i].rid => Ev[id].time = c[i].ts
    <2>1. c[i] \in AtTimes(DB) BY <1>6, ResultsType
    <2>2. c[i].ts \in Nat /\ c[i].rid \in ToSet(Entries(DB, TimeKey(c[i].ts))) BY <2>1 DEF AtTimes
    <2>3. /\ \E id \in Ids : home[id] = c[i].rid /\ Ev[id].time = c[i].ts /\ RecordEvent(pages, c[i].rid) = id
          /\ Keeps(DB, f, c[i].rid, FALSE)
      <3> DEFINE t == c[i].ts
                 rid == c[i].rid
      <3>1. t \in Nat /\ InTime(f, t) /\ rid \in ToSet(Entries(DB, TimeKey(t))) BY <1>6, <2>2
      <3> HIDE DEF t, rid
      <3>2. /\ \E id \in Ids :
                   home[id] = rid /\ status[id] = "live" /\ Ev[id].time = t /\ RecordEvent(pages, rid) = id
            /\ Keeps(DB, f, rid, FALSE)
        BY <3>1, TimelineKept
      <3>3. QED BY <3>2 DEF t, rid
    <2>4. ASSUME NEW id \in Ids, home[id] = c[i].rid PROVE Ev[id].time = c[i].ts
      <3>1. PICK e, q : Held(pages, home, e, q) BY DEF Calm, StoreInv, RecordsHeld
      <3>2. home[id] # NoRid BY <1>1, <2>2, <2>4, EntriesFacts, RidFacts
      <3>3. RecordEvent(pages, home[id]) = id BY <3>1, <3>2, FirstUnitHeld
      <3>4. QED BY <2>3, <2>4, <3>3
    <2>5. QED BY <1>6, <2>2, <2>3, <2>4
  <1>8. ASSUME NEW id \in Selected(f)
        PROVE  \/ home[id] \in Rids(c)
               \/ Len(c) >= f.limit /\ \A i \in 1 .. Len(c) : c[i].ts >= Ev[id].time
    <2>1. id \in Ids /\ status[id] = "live" /\ InTime(f, Ev[id].time) BY SelectedFacts
    <2>2. home[id] \in Rid /\ home[id] # NoRid /\ RecordEvent(pages, home[id]) = id BY <2>1, LivePlace DEF Calm
    <2>3. TimeKey(Ev[id].time) \in ToSet(IndexKeys(id)) BY <2>1, KeysIncluded
    <2>4. home[id] \in ToSet(Entries(DB, TimeKey(Ev[id].time))) BY <1>2, <2>1, <2>2, <2>3, EntryOfKey
    <2>5. Ev[id].time \in 0 .. NewestTime BY <2>1, NewestIs, EventConstants
    <2>6. home[id] \in Settled(f, T, c) BY <1>5, <2>1, <2>4, <2>5 DEF DoneDownTo
    <2>7. T[home[id]] = Ev[id].time BY <2>2 DEF T
    <2>8. QED BY <2>6, <2>7 DEF Settled
  <1>9. QED BY <1>6, <1>7, <1>8 DEF c

\* The results of a scan by time are all that it collects.
LEMMA TimelineResults ==
  ASSUME Calm, NEW f, FilterOK(f), filter_validate(f), f.limit # 0, select_strategy(f) = "timeline_scan",
         NEW stack, stack = FALSE
  PROVE  /\ Rids(query_execute(DB, f, stack)) = Rids(query_timeline_scan(DB, f))
         /\ Len(query_execute(DB, f, stack)) = Len(query_timeline_scan(DB, f))
  <1> DEFINE c == query_timeline_scan(DB, f)
             k == query_post_filter(DB, c, f, stack)
             rs == query_execute(DB, f, stack)
             A == AtTimes(DB)
             K == MeantKept(DB, f, stack)
  <1>1. ReadableDB(DB) /\ Collected(DB, f) = c BY DBReadable DEF Calm, Collected
  <1>2. /\ c \in ResultsOf(A) /\ Len(c) <= f.limit
        /\ \A i \in 1 .. Len(c) : Keeps(DB, f, c[i].rid, stack)
    BY TimelineCollected
  <1>3. rs \in ResultsOf(K) BY <1>1, Executed
  <1> HIDE DEF c, A
  <1>4. \A rid \in Rids(c) : Keeps(DB, f, rid, stack) BY <1>2 DEF Rids
  <1>5. Rids(k) = Rids(c)
    <2>1. Rids(k) = {rid \in Rids(c) : Keeps(DB, f, rid, stack)} BY <1>2, FilteredRids
    <2> HIDE DEF k
    <2>2. QED BY <1>4, <2>1
  <1>6. k \in ResultsOf({r \in A : Keeps(DB, f, r.rid, stack)}) BY <1>2, Filtered
  <1> HIDE DEF k, K, rs
  <1>7. Len(k) = Len(c) BY <1>2, <1>5, <1>6, RidsCount
  <1>8. Rids(rs) = Rids(c)
    <2>1. Len(query_post_filter(DB, Collected(DB, f), f, stack)) <= f.limit BY <1>1, <1>2, <1>7 DEF k
    <2>2. Rids(rs) = {rid \in Rids(Collected(DB, f)) : Keeps(DB, f, rid, stack)}
      BY <1>1, <2>1, ExecutedRids DEF rs
    <2>3. QED BY <1>1, <1>4, <2>2
  <1>9. Len(rs) = Len(c) BY <1>2, <1>3, <1>8, RidsCount
  <1>10. QED BY <1>8, <1>9 DEF rs, c

\* A query by time alone is answered with the newest live events of its times.
LEMMA TimelineAnswer ==
  ASSUME Calm, NEW f, FilterOK(f), filter_validate(f), f.limit # 0, select_strategy(f) = "timeline_scan",
         NEW stack, stack = FALSE, NEW a, a = ToSet(Answer(DB, query_execute(DB, f, stack)))
  PROVE  /\ a \subseteq Selected(f) /\ IsFiniteSet(Selected(f)) /\ Cardinality(a) <= f.limit
         /\ a = Selected(f) \/ Cardinality(a) = f.limit
         /\ \A x \in a, y \in Selected(f) \ a : Ev[x].time >= Ev[y].time
  <1> DEFINE c == query_timeline_scan(DB, f)
             rs == query_execute(DB, f, stack)
             m == Len(c)
             W == Selected(f)
  <1>1. Rids(rs) = Rids(c) /\ Len(rs) = m BY TimelineResults
  <1>2. /\ \A id \in a : id \in Ids /\ home[id] \in Rids(rs) /\ status[id] = "live"
        /\ \A id \in Ids : home[id] # NoRid /\ home[id] \in Rids(rs) => id \in a
        /\ IsFiniteSet(a) /\ Cardinality(a) = Len(rs)
    BY AnswerEvents
  <1>3. /\ c \in ResultsOf(AtTimes(DB)) /\ m <= f.limit
        /\ \A i \in 1 .. m : /\ c[i].ts \in Nat /\ InTime(f, c[i].ts)
                             /\ \A id \in Ids : home[id] = c[i].rid => Ev[id].time = c[i].ts
        /\ \A id \in W : \/ home[id] \in Rids(c)
                         \/ m >= f.limit /\ \A i \in 1 .. m : c[i].ts >= Ev[id].time
    BY TimelineCollected
  <1> HIDE DEF c, rs
  <1>4. m \in Nat /\ f.limit \in Nat BY <1>3, ResultsType DEF FilterOK
  <1>5. Rids(c) = {c[i].rid : i \in 1 .. m} BY DEF Rids
  <1> HIDE DEF m, W
  <1>6. ASSUME NEW x \in a PROVE \E i \in 1 .. m : Ev[x].time = c[i].ts /\ InTime(f, Ev[x].time)
    <2>1. x \in Ids /\ home[x] \in Rids(c) BY <1>1, <1>2
    <2>2. PICK i \in 1 .. m : home[x] = c[i].rid BY <1>5, <2>1
    <2>3. QED BY <1>3, <2>1, <2>2
  <1>7. a \subseteq W
    <2> SUFFICES ASSUME NEW x \in a PROVE x \in W OBVIOUS
    <2>1. x \in Ids /\ status[x] = "live" /\ InTime(f, Ev[x].time) BY <1>2, <1>6
    <2>2. f.ids = <<>> /\ f.tags = <<>> /\ f.authors = <<>> /\ f.kinds = <<>> BY DEF select_strategy
    <2>3. DOMAIN f.tags = {} BY <2>2
    <2>4. nostr_filter_matches(f, x, Ev[x]) BY <2>1, <2>2, <2>3 DEF nostr_filter_matches, AmongPrefixes, Among
    <2>5. QED BY <2>1, <2>4 DEF W, Selected
  <1>8. IsFiniteSet(W) BY EventConstants, FS_Subset DEF W, Selected
  <1>9. ASSUME NEW y \in W, y \notin a
        PROVE  m >= f.limit /\ \A i \in 1 .. m : c[i].ts >= Ev[y].time
    <2>1. y \in Ids /\ status[y] = "live" BY SelectedFacts DEF W
    <2>2. home[y] # NoRid BY <2>1, LivePlace DEF Calm
    <2>3. home[y] \notin Rids(c) BY <1>1, <1>2, <1>9, <2>1, <2>2
    <2>4. QED BY <1>3, <2>3
  <1>10. a = W \/ Cardinality(a) = f.limit
    <2> SUFFICES ASSUME a # W PROVE Cardinality(a) = f.limit OBVIOUS
    <2>1. PICK y \in W : y \notin a BY <1>7
    <2>2. m >= f.limit BY <1>9, <2>1
    <2>3. m = f.limit BY <1>3, <1>4, <2>2
    <2>4. QED BY <1>1, <1>2, <2>3
  <1>11. \A x \in a, y \in W \ a : Ev[x].time >= Ev[y].time
    <2> SUFFICES ASSUME NEW x \in a, NEW y \in W \ a PROVE Ev[x].time >= Ev[y].time OBVIOUS
    <2>1. PICK i \in 1 .. m : Ev[x].time = c[i].ts BY <1>6
    <2>2. c[i].ts >= Ev[y].time BY <1>9
    <2>3. QED BY <2>1, <2>2
  <1>12. Cardinality(a) <= f.limit BY <1>1, <1>2, <1>3
  <1>13. QED BY <1>7, <1>8, <1>10, <1>11, <1>12 DEF W

-----------------------------------------------------------------------------
\* Without a limit above zero nothing is answered.
LEMMA NothingAsked ==
  ASSUME Calm, NEW f, FilterOK(f), f.limit = 0, NEW stack
  PROVE  ToSet(Answer(DB, query_execute(DB, f, stack))) = {}
  <1> DEFINE a == ToSet(Answer(DB, query_execute(DB, f, stack)))
  <1>1. query_execute(DB, f, stack) = <<>> BY DEF query_execute
  <1>2. Len(<<>>) = 0 BY EmptySeq
  <1>3. IsFiniteSet(a) /\ Cardinality(a) = 0 BY <1>1, <1>2, AnswerEvents
  <1> HIDE DEF a
  <1>4. a = {} BY <1>3, FS_EmptySet
  <1>5. QED BY <1>4 DEF a

LEMMA CompleteNow ==
  ASSUME Calm, NEW f, FilterOK(f), filter_validate(f), NEW a, a = ToSet(Answer(DB, query_execute(DB, f, FALSE)))
  PROVE  CompleteAnswer(f, a, Selected(f))
  <1> DEFINE stack == FALSE
             W == Selected(f)
             n == Cardinality(Ids)
  <1> HIDE DEF stack
  <1>1. a = ToSet(Answer(DB, query_execute(DB, f, stack))) BY DEF stack
  <1>2. f.limit \in Nat /\ n \in Nat BY HomesCount DEF FilterOK
  <1>3. W \subseteq Ids /\ IsFiniteSet(W) /\ Cardinality(W) \in Nat /\ Cardinality(W) <= n
    <2>1. W \subseteq Ids /\ IsFiniteSet(Ids) BY EventConstants DEF Selected
    <2>2. QED BY <2>1, FS_Subset, FS_CardinalityType
  <1>4. CASE select_strategy(f) # "timeline_scan"
    <2>1. ASSUME f.limit >= 2 * n, CollectsEnough(f), NEW id \in W, Findable(f, id) PROVE id \in a
      BY <1>4, <2>1, AmpleAnswer
    <2> HIDE DEF W
    <2>2. QED BY <1>4, <2>1 DEF CompleteAnswer, W
  <1>5. CASE select_strategy(f) = "timeline_scan" /\ f.limit # 0
    <2> HIDE DEF W, n
    <2>1. /\ a \subseteq W /\ Cardinality(a) <= f.limit /\ (a = W \/ Cardinality(a) = f.limit)
          /\ \A x \in a, y \in W \ a : Ev[x].time >= Ev[y].time
      BY <1>1, <1>5, TimelineAnswer DEF stack, W
    <2>2. IsFiniteSet(a) /\ Cardinality(a) <= Cardinality(W) /\ (Cardinality(a) = Cardinality(W) => a = W)
      BY <1>3, <2>1, FS_Subset
    <2>3. Cardinality(a) \in Nat BY <2>2, FS_CardinalityType
    <2>4. Cardinality(a) = Min({f.limit, Cardinality(W)})
      <3> DEFINE l == f.limit
                 h == Cardinality(W)
                 S == {l, h}
      <3>1. S \subseteq Nat /\ S # {} BY <1>2, <1>3
      <3>2. Min(S) \in {l, h} /\ Min(S) <= l /\ Min(S) <= h
        <4>1. l \in S /\ h \in S OBVIOUS
        <4> HIDE DEF S
        <4>2. Min(S) \in S /\ Min(S) <= l /\ Min(S) <= h BY <3>1, <4>1, MinFacts
        <4>3. QED BY <4>2 DEF S
      <3>3. Cardinality(a) = l \/ Cardinality(a) = h BY <2>1
      <3>4. Cardinality(a) <= l /\ Cardinality(a) <= h /\ l \in Nat /\ h \in Nat BY <1>2, <1>3, <2>1, <2>2
      <3> DEFINE m == Min(S)
                 k == Cardinality(a)
      <3>5. /\ k \in Nat /\ l \in Nat /\ h \in Nat /\ k <= l /\ k <= h /\ (k = l \/ k = h)
            /\ m \in {l, h} /\ m <= l /\ m <= h
        <4> HIDE DEF S, l, h
        <4>1. QED BY <2>3, <3>2, <3>3, <3>4
      <3> HIDE DEF m, k, S, l, h
      <3>6. k = m BY <3>5
      <3>7. QED BY <3>6 DEF k, m, S, l, h
    <2>5. ASSUME f.limit >= 2 * n PROVE a = W
      <3>1. CASE Cardinality(a) = f.limit
        <4> DEFINE k == Cardinality(a)
                   h == Cardinality(W)
        <4>1. k \in Nat /\ h \in Nat /\ k >= 2 * n /\ h <= n /\ k <= h BY <1>3, <2>2, <2>3, <2>5, <3>1
        <4> HIDE DEF k, h
        <4>2. k = h BY <1>2, <4>1
        <4>3. QED BY <2>2, <4>2 DEF k, h
      <3>2. QED BY <2>1, <3>1
    <2>6. QED BY <2>1, <2>4, <2>5 DEF CompleteAnswer, W, n
  <1>6. CASE select_strategy(f) = "timeline_scan" /\ f.limit = 0
    <2>1. a = {} BY <1>1, <1>6, NothingAsked
    <2>2. Cardinality(a) = 0 BY <2>1, FS_EmptySet
    <2>3. Cardinality(a) = Min({f.limit, Cardinality(W)})
      <3> DEFINE h == Cardinality(W)
                 S == {0, h}
      <3>1. h \in Nat /\ S \subseteq Nat /\ S # {} /\ 0 \in S BY <1>3
      <3> HIDE DEF S, h
      <3>2. Min(S) \in S /\ Min(S) <= 0 BY <3>1, MinFacts
      <3>3. Min(S) = 0
        <4> DEFINE m == Min(S)
        <4>1. m \in Nat /\ m <= 0 BY <3>1, <3>2
        <4> HIDE DEF m
        <4>2. m = 0 BY <4>1
        <4>3. QED BY <4>2 DEF m
      <3>4. QED BY <1>6, <2>2, <3>3 DEF S, h
    <2>4. f.limit >= 2 * n => W = {}
      <3> SUFFICES ASSUME f.limit >= 2 * n PROVE W = {} OBVIOUS
      <3>1. n = 0 BY <1>2, <1>6
      <3>2. Cardinality(W) = 0 BY <1>3, <3>1
      <3> HIDE DEF W
      <3>3. QED BY <1>3, <3>2, FS_EmptySet
    <2> HIDE DEF W, n
    <2>5. QED BY <2>1, <2>3, <2>4 DEF CompleteAnswer, W, n
  <1>7. QED BY <1>4, <1>5, <1>6

\* Until an operation has stopped half-way, a query (query_engine.c) whose
\* limit leaves room for every event twice finds each live event that
\* nostr_filter_matches selects and that is findable: the indexes hold it
\* under the key that is scanned, no scan stops before it, and no check
\* behind the scan drops it.  A scan by time returns the newest for any limit.
THEOREM CompleteTheorem == StoreSpec => []AnswersComplete
  <1>1. StoreInit => DupTyped /\ IndexInv BY DupTypedInit, IndexInitInv
  <1>2. DupTyped /\ IndexInv /\ StoreInv /\ StoreInv' /\ [StoreNext]_storeVars => DupTyped' /\ IndexInv'
    BY DupTypedNext, IndexNextInv
  <1>3. DupTyped /\ IndexInv /\ StoreInv => AnswersComplete
    <2> SUFFICES ASSUME DupTyped, IndexInv, StoreInv, ~broken, NEW f \in Filters, filter_validate(f)
                 PROVE  CompleteAnswer(f, ToSet(Answer(DB, query_execute(DB, f, FALSE))), Selected(f))
      BY DEF AnswersComplete
    <2>1. PICK r \in Queries : f = convert_filter_to_db_filter(nostr_filter_parse(r)) BY DEF Filters
    <2>2. FilterOK(f) BY <2>1, FilterReceived
    <2>3. Calm BY DEF Calm
    <2>4. QED BY <2>2, <2>3, CompleteNow
  <1>4. QED BY <1>1, <1>2, <1>3, StoreInvariant, PTL DEF StoreSpec
=============================================================================
