-------------------------------- MODULE Wal --------------------------------
(***************************************************************************)
(* The write-ahead log (src/nostr/db/wal): records are collected in a      *)
(* buffer, flushed to the log file on commit or when the buffer is full,   *)
(* cut off at a checkpoint, and replayed by wal_recover after a crash.     *)
(*                                                                         *)
(* A page is one value: before- and after-images are values of the page.   *)
(* The pool's eviction policy is left open, any page may be written back   *)
(* at any time.  The clients run transactions that lock the pages they     *)
(* change until they end.  The code does not look at what else the log     *)
(* needs of its surroundings; the history variable kept records which of   *)
(* these needs every step so far has met:                                  *)
(*   "log_first"     the pool writes back a page only once the records of  *)
(*                   its changes are in the log file;                      *)
(*   "quiet"         no transaction is active during a checkpoint;         *)
(*   "no_ghosts"     no page is changed while the log still holds a change *)
(*                   of it by a transaction that ended without COMMIT.     *)
(* WalSpec takes for granted that a crash leaves whole records in the log  *)
(* file and that wal_recover meets no error; TornSpec and                  *)
(* RecoveryErrorSpec do not.                                               *)
(***************************************************************************)
EXTENDS Naturals, Sequences, FiniteSetsExt

CONSTANTS
  Page,           \* pages the transactions change
  Value,          \* contents of a page; 0 is the initial one
  BufferRecords,  \* records that fit into the buffer (WAL_BUFFER_SIZE)
  MaxActive,      \* entries of active_tx (64)
  OldPages,       \* pages the disk manager knows of after a crash
  MaxTx, MaxLsn, MaxCrashes   \* bounds of the exploration

ASSUME WalConstants ==
  /\ 0 \in Value
  /\ BufferRecords \in Nat \ {0} /\ MaxActive \in Nat \ {0}
  /\ MaxTx \in Nat /\ MaxLsn \in Nat /\ MaxCrashes \in Nat
  /\ OldPages \subseteq Page

VARIABLES
  up,             \* is the process running?
  wal_file,       \* records in the log file up to file_offset
  buffer,
  spilled,        \* buffered records a failed flush left past file_offset
  next_lsn, next_tx_id, flushed_lsn,
  active_tx, active_tx_lsn,   \* parallel arrays
  pool,           \* pages as the clients see them
  page_lsn,       \* record of the last change of a page that is dirty, or 0
  disk,           \* pages in the database file
  owner,          \* transaction that has locked the page, or 0
  versions,       \* history: the database at the last commit that returned
                  \* success and after each COMMIT record since
  crashes,        \* history
  kept            \* history: the needs that every step so far has met

logVars == <<wal_file, buffer, spilled, next_lsn, flushed_lsn>>
txVars == <<next_tx_id, active_tx, active_tx_lsn>>
historyVars == <<versions, crashes, kept>>
walVars == <<up, logVars, txVars, pool, page_lsn, disk, owner, historyVars>>

LSN_NULL == 0
NoPage == 0
Needs == {"log_first", "quiet", "no_ghosts"}
Types == {"begin", "commit", "abort", "update", "alloc_free", "checkpoint", "torn"}
Record == [lsn : Nat, prev : Nat, tx : Nat, type : Types, page : Page \cup {NoPage},
           old : Value, new : Value]

-----------------------------------------------------------------------------
(* wal_init on a new database.                                            *)
Clean == [p \in Page |-> 0]

WalInit ==
  /\ up = TRUE
  /\ wal_file = <<>> /\ buffer = <<>> /\ spilled = 0
  /\ next_lsn = 1 /\ next_tx_id = 1 /\ flushed_lsn = LSN_NULL
  /\ active_tx = <<>> /\ active_tx_lsn = <<>>
  /\ pool = Clean /\ disk = Clean /\ page_lsn = Clean /\ owner = Clean
  /\ versions = <<Clean>> /\ crashes = 0 /\ kept = Needs

\* A step that a need of the log is about, and whether it meets it.
KeepsNeed(need, met) == kept' = IF met THEN kept ELSE kept \ {need}

-----------------------------------------------------------------------------
(* Records and the buffer.                                                *)
ActiveIdx(t) == {i \in 1 .. Len(active_tx) : active_tx[i] = t}     \* find_active_tx
IsActive(t) == ActiveIdx(t) # {}

PrevLsn(t) == IF IsActive(t) THEN active_tx_lsn[Min(ActiveIdx(t))] ELSE LSN_NULL

Rec(t, ty, p, a, b) ==
  [lsn |-> next_lsn, prev |-> PrevLsn(t), tx |-> t, type |-> ty, page |-> p,
   old |-> a, new |-> b]
SimpleRec(t, ty) == Rec(t, ty, NoPage, 0, 0)

\* The entry of active_tx_lsn moves on to the new record.
LsnMoved(t) ==
  [i \in 1 .. Len(active_tx_lsn) |->
     IF active_tx[i] = t THEN next_lsn ELSE active_tx_lsn[i]]

\* remove_active_tx, on either array.
Without(s, t) ==
  LET gone == Min(ActiveIdx(t))
  IN  [i \in 1 .. (Len(s) - 1) |-> IF i < gone THEN s[i] ELSE s[i + 1]]

HighestLsn(s, low) == Max({low} \cup {s[i].lsn : i \in 1 .. Len(s)})

\* ensure_buffer_space, then the record goes into the buffer.
Full == Len(buffer) = BufferRecords

Buffered(r) ==
  /\ next_lsn <= MaxLsn
  /\ next_lsn' = next_lsn + 1
  /\ buffer' = IF Full THEN <<r>> ELSE Append(buffer, r)
  /\ wal_file' = IF Full THEN wal_file \o buffer ELSE wal_file
  /\ flushed_lsn' = IF Full THEN HighestLsn(buffer, flushed_lsn) ELSE flushed_lsn

StillSpilled == IF Full THEN 0 ELSE spilled

LogAppend(r) == Buffered(r) /\ spilled' = StillSpilled

\* The record goes into the buffer and the buffer to the file.
LogAppendFlush(r) ==
  /\ next_lsn <= MaxLsn
  /\ next_lsn' = next_lsn + 1
  /\ wal_file' = Append(wal_file \o buffer, r)
  /\ flushed_lsn' = HighestLsn(Append(buffer, r), flushed_lsn)
  /\ buffer' = <<>>
  /\ spilled' = 0

\* The record goes into the buffer, then the flush fails: some of what is
\* now buffered has reached the file, to be written again there.
LogAppendFlushFail(r) ==
  Buffered(r) /\ \E n \in StillSpilled .. Len(buffer') : spilled' = n

-----------------------------------------------------------------------------
(* wal_flush.  It fails for a client, or inside a wal_log_* call that      *)
(* finds the buffer full and then does nothing else.                       *)
wal_flush ==
  /\ up
  /\ buffer # <<>>
  /\ wal_file' = wal_file \o buffer
  /\ flushed_lsn' = HighestLsn(buffer, flushed_lsn)
  /\ buffer' = <<>> /\ spilled' = 0
  /\ UNCHANGED <<up, next_lsn, txVars, pool, page_lsn, disk, owner, historyVars>>

wal_flush_fail ==
  /\ up
  /\ \E n \in (spilled + 1) .. Len(buffer) : spilled' = n
  /\ UNCHANGED <<up, wal_file, buffer, next_lsn, flushed_lsn, txVars, pool, page_lsn,
                 disk, owner, historyVars>>

-----------------------------------------------------------------------------
(* Transactions.                                                           *)
wal_log_begin ==
  /\ up
  /\ Len(active_tx) < MaxActive
  /\ next_tx_id <= MaxTx
  /\ LogAppend([SimpleRec(next_tx_id, "begin") EXCEPT !.prev = LSN_NULL])
  /\ next_tx_id' = next_tx_id + 1
  /\ active_tx' = Append(active_tx, next_tx_id)
  /\ active_tx_lsn' = Append(active_tx_lsn, next_lsn)
  /\ UNCHANGED <<up, pool, page_lsn, disk, owner, historyVars>>

\* The buffer is full and cannot be flushed: the id is used up.
wal_log_begin_fail ==
  /\ up
  /\ Len(active_tx) < MaxActive
  /\ next_tx_id <= MaxTx
  /\ Full
  /\ next_tx_id' = next_tx_id + 1
  /\ \E n \in spilled .. Len(buffer) : spilled' = n
  /\ UNCHANGED <<up, wal_file, buffer, next_lsn, flushed_lsn, active_tx,
                 active_tx_lsn, pool, page_lsn, disk, owner, historyVars>>

\* Does s hold a COMMIT of t (tx_committed)?
Committed(s, t) == \E i \in 1 .. Len(s) : s[i].type = "commit" /\ s[i].tx = t

\* Changes of p by transactions that ended without COMMIT.
Ghosts(p) ==
  LET log == wal_file \o buffer
  IN  {i \in 1 .. Len(log) : /\ log[i].type = "update" /\ log[i].page = p
                             /\ ~IsActive(log[i].tx) /\ ~Committed(log, log[i].tx)}

\* wal_log_update, and the change of the page by the client that got an lsn.
wal_log_update(t, p, v) ==
  /\ up
  /\ IsActive(t)
  /\ owner[p] \in {0, t}
  /\ LogAppend(Rec(t, "update", p, pool[p], v))
  /\ active_tx_lsn' = LsnMoved(t)
  /\ pool' = [pool EXCEPT ![p] = v]
  /\ page_lsn' = [page_lsn EXCEPT ![p] = next_lsn]
  /\ owner' = [owner EXCEPT ![p] = t]
  /\ KeepsNeed("no_ghosts", Ghosts(p) = {})
  /\ UNCHANGED <<up, next_tx_id, active_tx, disk, versions, crashes>>

\* wal_log_alloc_page and wal_log_free_page: recovery ignores the records.
wal_log_page(t) ==
  /\ up
  /\ IsActive(t)
  /\ LogAppend(SimpleRec(t, "alloc_free"))
  /\ active_tx_lsn' = LsnMoved(t)
  /\ UNCHANGED <<up, next_tx_id, active_tx, pool, page_lsn, disk, owner, historyVars>>

\* Mutation: the parallel array of lsns is not shifted.
TxEnds_Unshifted(t) ==
  /\ active_tx' = Without(active_tx, t)
  /\ active_tx_lsn' = SubSeq(active_tx_lsn, 1, Len(active_tx_lsn) - 1)
  /\ owner' = [p \in Page |-> IF owner[p] = t THEN 0 ELSE owner[p]]
  /\ UNCHANGED next_tx_id

\* The transaction leaves active_tx and its locks are released.
TxEnds(t) ==
  /\ active_tx' = Without(active_tx, t)
  /\ active_tx_lsn' = Without(active_tx_lsn, t)
  /\ owner' = [p \in Page |-> IF owner[p] = t THEN 0 ELSE owner[p]]
  /\ UNCHANGED next_tx_id

\* The database with t's changes made permanent.
Overlay(t) == [p \in Page |-> IF owner[p] = t THEN pool[p] ELSE versions[Len(versions)][p]]

wal_log_commit(t) ==
  /\ up
  /\ IsActive(t)
  /\ LogAppendFlush(SimpleRec(t, "commit"))
  /\ TxEnds(t)
  /\ versions' = <<Overlay(t)>>
  /\ UNCHANGED <<up, pool, page_lsn, disk, crashes, kept>>

\* The flush fails: an error for the client, but the transaction is over
\* and its COMMIT record stays in the buffer.
wal_log_commit_fail(t) ==
  /\ up
  /\ IsActive(t)
  /\ LogAppendFlushFail(SimpleRec(t, "commit"))
  /\ TxEnds(t)
  /\ versions' = Append(versions, Overlay(t))
  /\ UNCHANGED <<up, pool, page_lsn, disk, crashes, kept>>

\* The log does not undo anything: the client puts the old contents back.
wal_log_abort(t) ==
  /\ up
  /\ IsActive(t)
  /\ LogAppend(SimpleRec(t, "abort"))
  /\ TxEnds(t)
  /\ pool' = [p \in Page |-> IF owner[p] = t THEN versions[Len(versions)][p] ELSE pool[p]]
  /\ UNCHANGED <<up, page_lsn, disk, historyVars>>

-----------------------------------------------------------------------------
(* The pool writes back page p (flush_frame), whatever the log holds.      *)
Logged(p) == page_lsn[p] <= flushed_lsn

flush_frame(p) ==
  /\ up
  /\ pool[p] # disk[p] \/ page_lsn[p] # 0
  /\ disk' = [disk EXCEPT ![p] = pool[p]]
  /\ page_lsn' = [page_lsn EXCEPT ![p] = 0]
  /\ KeepsNeed("log_first", Logged(p))
  /\ UNCHANGED <<up, logVars, txVars, pool, owner, versions, crashes>>

(* wal_checkpoint: buffer_pool_flush_all, the CHECKPOINT record, wal_flush,*)
(* ftruncate.  A failure of the first is a number of flush_frame steps.    *)
CheckpointRec == SimpleRec(0, "checkpoint")

\* A page that is not logged is dirty, so it is among those written.
FlushAll ==
  /\ up
  /\ disk' = pool
  /\ page_lsn' = Clean
  /\ kept' = {n \in kept : /\ n = "quiet" => active_tx = <<>>
                           /\ n = "log_first" => \A p \in Page : Logged(p)}

wal_checkpoint ==
  /\ FlushAll
  /\ next_lsn <= MaxLsn
  /\ next_lsn' = next_lsn + 1
  /\ flushed_lsn' = HighestLsn(Append(buffer, CheckpointRec), flushed_lsn)
  /\ wal_file' = <<>> /\ buffer' = <<>> /\ spilled' = 0
  /\ UNCHANGED <<up, txVars, pool, owner, versions, crashes>>

\* ftruncate fails, or the process ends before it.
wal_checkpoint_keep ==
  /\ FlushAll
  /\ LogAppendFlush(CheckpointRec)
  /\ UNCHANGED <<up, txVars, pool, owner, versions, crashes>>

\* wal_flush fails.
wal_checkpoint_fail ==
  /\ FlushAll
  /\ LogAppendFlushFail(CheckpointRec)
  /\ UNCHANGED <<up, txVars, pool, owner, versions, crashes>>

-----------------------------------------------------------------------------
(* wal_recover.  Reading stops making sense at a torn record: the records  *)
(* appended behind it are lost.                                            *)
TornRec == [SimpleRec(0, "torn") EXCEPT !.lsn = 0]
Torn(s) == {i \in 1 .. Len(s) : s[i].type = "torn"}
Readable(s) == IF Torn(s) = {} THEN s ELSE SubSeq(s, 1, Min(Torn(s)) - 1)

Checkpoints(s) == {i \in 1 .. Len(s) : s[i].type = "checkpoint"}
Start(s) == IF Checkpoints(s) = {} THEN 1 ELSE Max(Checkpoints(s))

Winners(s, p, I) ==
  {i \in I : s[i].type = "update" /\ s[i].page = p /\ Committed(s, s[i].tx)}
Losers(s, p, I) ==
  {i \in I : s[i].type = "update" /\ s[i].page = p /\ ~Committed(s, s[i].tx)}

\* redo_phase, forwards from the start up to record n: the last winner of a
\* page decides.  Pages the disk manager does not know are skipped.
redo_phase(d, s, n) ==
  [p \in Page |->
     LET W == Winners(s, p, Start(s) .. n)
     IN  IF W = {} \/ p \notin OldPages THEN d[p] ELSE s[Max(W)].new]

\* Mutation: the losers are undone oldest first.
undo_phase_Forward(d, s, n) ==
  [p \in Page |->
     LET L == Losers(s, p, n .. Len(s)) IN IF L = {} THEN d[p] ELSE s[Max(L)].old]

\* undo_phase, backwards from the end down to record n: the first loser of
\* a page decides.
undo_phase(d, s, n) ==
  [p \in Page |->
     LET L == Losers(s, p, n .. Len(s)) IN IF L = {} THEN d[p] ELSE s[Min(L)].old]

\* undo_phase ends with an error at a page the disk manager does not know.
UndoStops(s) ==
  {i \in Start(s) .. Len(s) : \E p \in Page \ OldPages : Losers(s, p, {i}) # {}}
UndoFrom(s) == IF UndoStops(s) = {} THEN Start(s) ELSE Max(UndoStops(s)) + 1

Recovered(d, f) ==
  LET s == Readable(f) IN undo_phase(redo_phase(d, s, Len(s)), s, UndoFrom(s))

HighestTx(s) == Max({0} \cup {s[i].tx : i \in 1 .. Len(s)})

\* What the file holds when the process dies now.
CrashedFile == wal_file \o SubSeq(buffer, 1, spilled)

\* The process ends and leaves the log file f.
Ends(f) ==
  /\ up
  /\ up' = FALSE
  /\ wal_file' = f
  /\ buffer' = <<>> /\ spilled' = 0
  /\ active_tx' = <<>> /\ active_tx_lsn' = <<>>
  /\ next_lsn' = 1 /\ next_tx_id' = 1 /\ flushed_lsn' = LSN_NULL
  /\ pool' = Clean /\ page_lsn' = Clean /\ owner' = Clean
  /\ UNCHANGED <<versions, kept>>

\* wal_shutdown flushes the buffer and buffer_pool_shutdown the pages.
wal_shutdown == Ends(wal_file \o buffer) /\ disk' = pool /\ UNCHANGED crashes

Dies(f) ==
  /\ crashes < MaxCrashes
  /\ crashes' = crashes + 1
  /\ Ends(f)
  /\ UNCHANGED disk

Crash == Dies(CrashedFile)

\* It dies while the kernel writes a record of the buffer.
CrashTorn == spilled < Len(buffer) /\ Dies(Append(CrashedFile, TornRec))

\* wal_init and a wal_recover that succeeds (on an empty file it leaves the
\* counters at one); the clients go on from the recovered pages.
wal_recover ==
  /\ ~up
  /\ LET s == Readable(wal_file) IN
       /\ UndoStops(s) = {}
       /\ next_lsn' = HighestLsn(s, 0) + 1
       /\ next_tx_id' = HighestTx(s) + 1
       /\ flushed_lsn' = HighestLsn(s, 0)
  /\ disk' = Recovered(disk, wal_file)
  /\ pool' = disk'
  /\ versions' = <<disk'>>
  /\ up' = TRUE
  /\ UNCHANGED <<wal_file, buffer, spilled, active_tx, active_tx_lsn, page_lsn,
                 owner, crashes, kept>>

\* Pages after a recovery that got as far as record n of either phase.
PartlyRecovered(d, f, n) ==
  LET s == Readable(f)
  IN  {redo_phase(d, s, n), undo_phase(redo_phase(d, s, Len(s)), s, n)}

\* The process dies again during recovery: the next one starts over.
CrashInRecovery ==
  /\ ~up
  /\ crashes < MaxCrashes
  /\ crashes' = crashes + 1
  /\ \E n \in Start(Readable(wal_file)) .. Len(Readable(wal_file)) :
       disk' \in PartlyRecovered(disk, wal_file, n)
  /\ UNCHANGED <<up, logVars, txVars, pool, page_lsn, owner, versions, kept>>

\* An error ends wal_recover (the log cannot be read, a page not be read or
\* written): nostr_db_init goes on, the counters stay as wal_init set them.
wal_recover_fail ==
  /\ ~up
  /\ \/ disk' = disk
     \/ \E n \in Start(Readable(wal_file)) .. Len(Readable(wal_file)) :
          disk' \in PartlyRecovered(disk, wal_file, n)
  /\ pool' = disk'
  /\ up' = TRUE
  /\ UNCHANGED <<logVars, txVars, page_lsn, owner, historyVars>>

-----------------------------------------------------------------------------
WalNext ==
  \/ wal_flush \/ wal_flush_fail
  \/ wal_log_begin \/ wal_log_begin_fail
  \/ \E t \in 1 .. MaxTx :
       \/ \E p \in Page, v \in Value : wal_log_update(t, p, v)
       \/ wal_log_page(t)
       \/ wal_log_commit(t) \/ wal_log_commit_fail(t)
       \/ wal_log_abort(t)
  \/ \E p \in Page : flush_frame(p)
  \/ wal_checkpoint \/ wal_checkpoint_keep \/ wal_checkpoint_fail
  \/ wal_shutdown \/ Crash \/ CrashInRecovery
  \/ wal_recover

WalSpec == WalInit /\ [][WalNext]_walVars

TornSpec == WalInit /\ [][WalNext \/ CrashTorn]_walVars

RecoveryErrorSpec == WalInit /\ [][WalNext \/ wal_recover_fail]_walVars

-----------------------------------------------------------------------------
\* What recovery would restore if the process died now.
IfCrashedNow == Recovered(disk, CrashedFile)

\* The database as it was after some COMMIT record, and none older than the
\* last wal_log_commit that returned success: no transaction is restored in
\* part or without its COMMIT, no acknowledged one is lost.
RestoresCommitted == IfCrashedNow \in {versions[k] : k \in 1 .. Len(versions)}

\* CRASH SAFETY.  As long as every step has met the needs of the log,
\* wal_recover restores a committed state wherever the process dies, also
\* while it recovers.  Nothing in the code sees to the needs: what happens
\* without them is what the next two properties are about.
CrashSafe == kept = Needs => RestoresCommitted

\* WRITE AHEAD.  A dirty page is written back only once the records of its
\* changes are in the log file.  flush_frame does not look at the log.
WriteAhead ==
  [][up' => \A p \in Page : page_lsn[p] # 0 /\ page_lsn'[p] = 0 => Logged(p)]_walVars

\* CHECKPOINTS.  With a pool that does, and no ghosts, recovery also needs
\* nothing of the log before a checkpoint, which wal_checkpoint cuts off.
\* It does not look at the transactions that are still active.
CheckpointSuffices == Needs \ {"quiet"} \subseteq kept => RestoresCommitted

\* The same for the leftovers of ended transactions, which undo_phase undoes
\* again over what later transactions committed.
GhostsHarmless == Needs \ {"no_ghosts"} \subseteq kept => RestoresCommitted

\* LOG ORDER.  File and buffer together number their records without gaps,
\* each record names the one before it of its transaction (the parallel
\* arrays active_tx and active_tx_lsn stay in step), no transaction id is
\* issued that the log already uses, the buffer never holds more than it has
\* room for, and flushed_lsn tells what is in the file.
LogOrder ==
  up =>
    LET log == wal_file \o buffer
        earlier(i) == {j \in 1 .. (i - 1) : log[j].tx = log[i].tx}
    IN  /\ \A i \in 1 .. Len(log) :
             /\ log[i] \in Record
             /\ log[i].lsn = next_lsn - 1 - (Len(log) - i)
             /\ log[i].tx < next_tx_id
             /\ (earlier(i) # {} /\ log[i].tx # 0) => log[i].prev = log[Max(earlier(i))].lsn
        /\ Len(buffer) <= BufferRecords
        /\ flushed_lsn = next_lsn - 1 - Len(buffer)
=============================================================================
