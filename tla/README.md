# Verification of the relay

TLA+ models of libelay, a Nostr relay written in C without libc: its message
server loop, its message handlers, its subscription table and the storage engine
beneath it. TLC checks
the models on small instances; TLAPS proves most of the safety properties for
every size.

Paths below are relative to the repository root (`src/main.c` is
`src/src/main.c` in `PROJECT.json`, which counts from one level higher).

## The system

One thread runs everything. An epoll loop accepts clients, reads one chunk from
a ready socket, decodes WebSocket frames and calls `websocket_receive_callback`
for each text frame; the handler runs to its end before the loop looks at the
next socket. There is no concurrency inside the process. What makes the code
hard is the *order* in which clients' messages arrive, *failures* of one call in
the middle of a handler, *limits* that are reached, and *ends of the process*
between two writes.

| Component | State | Operations | Correct when |
|---|---|---|---|
| disk manager (`src/nostr/db/disk`) | file of 4 KB pages; cached header (size, head and length of the free list); the list itself, chained through the free pages | create, open, close, alloc, free, extend, read, write | a page is either free or owned once; owned pages keep their content; a clean restart resumes exactly |
| buffer pool (`src/nostr/db/buffer`) | frames with page id, pin count, dirty and reference bit; clock hand; open addressing page table | pin, unpin, alloc, mark dirty, flush, flush all, shutdown | a pinned page stays where it is; one frame per page; caching is invisible |
| write-ahead log (`src/nostr/db/wal`) | log file, buffer, LSNs, active transactions | begin, update, alloc, free, commit, abort, flush, checkpoint, recover, shutdown | a crash anywhere loses no acknowledged commit and keeps nothing else |
| records (`src/nostr/db/record`) | slotted pages, overflow chains | insert, read, update, delete | a record id stays valid; space is neither lost nor shared |
| B+tree (`src/nostr/db/btree`) | node pages, duplicate chains | insert, search, scan, delete | what was inserted is found, in order |
| indexes (`src/nostr/db/index`) | six trees | insert event, delete event | all six agree with the records |
| event store (`db_event.c`, `db_init.c`) | records and indexes, counters | write, get, delete, init, shutdown | an id is stored once; deleted stays deleted |
| query engine and filters (`src/nostr/db/query`, `nostr_filter*.c`) | none | parse a filter, choose an index, scan, post-filter, sort, limit; match a new event | stored events are selected as new ones are, each once, newest first |
| subscriptions (`src/nostr/subscription`) | 256 slots shared by all clients, count | add, remove, remove client, find matching | one slot per client and id; none survives its client |
| relay handlers (`src/main.c`) | database handle, connected clients | EVENT, REQ, CLOSE, connect, disconnect | one current version of a replaceable event; only authors remove events; subscribers miss nothing |
| server loop (`src/websocket`) | epoll set, buffers, signal flag | accept, handshake, receive, send, close, stop | clients are served; frames are handled in order; a signal ends it |
| text (`src/json`, `src/crypto`, parsing of messages, responses) | none | parse, format, hash | not modelled |

Interactions: handlers call the subscription manager and the event store
directly; the event store calls records and indexes, both work on pages pinned
in the buffer pool, which reads and writes through the disk manager. The log is
opened, recovered, checkpointed and closed by `nostr_db_init` and
`nostr_db_shutdown`; no writer calls `wal_log_*` yet, so the log is modelled as
the component it is written to be. Some callers reach around a layer:
`overflow_free` and `btree_delete_dup` release a page at the disk manager while
the pool still caches it.

`PROJECT.json` lists every component, and under `hazards` each place where
something can go wrong that a test would hardly reach.

## Modules

| Module | Models | Role |
|---|---|---|
| `PageAllocator` | – | abstract: what the disk manager promises about ownership |
| `DiskManager` | `disk/*.c` | the file, the cached header, the on-disk free list |
| `Clock` | `clock_evict` | its outcome, as operators |
| `ClockLoop` | `clock_evict` | the loop, one step per iteration, against `Clock` |
| `FrameTable` | `hash_*`, `next_prime` | open addressing with backward shift deletion |
| `PageCacheProofs` | | theorems about `ClockLoop` and `FrameTable` |
| `PageStore` | – | abstract: an array of pages |
| `BufferPool` | `buffer_pool.c` | extends `DiskManager` and `Clock`; implements `PageStore` |
| `BufferPoolProofs` | | theorems about `DiskManager` and `BufferPool` |
| `Wal` | `wal/*.c` | log, transactions, checkpoint, recovery, crashes |
| `WalProofs` | | theorems about `Wal` |
| `Index` | – | abstract: a table from keys to record ids |
| `BTree` | `btree/*.c` | nodes, splits, duplicate chains; implements `Index` |
| `Archive` | – | abstract: what the event store promises to the relay |
| `Records` | `record/slot_page.c`, `overflow.c`, `record_manager.c` | pages and records, as operators |
| `EventStore` | `db_event.c`, `index/*.c`, `event_serializer.c` | extends `Records`; implements `Archive` |
| `Subsequences` | – | `Only`, a `SelectSeq` that can be proved about |
| `Query` | `query/*.c`, `db_query_v2.c`, `nostr_filter*.c` | extends `EventStore`; queries against `nostr_filter_matches` |
| `EventStoreProofs` | | theorems about `Records` and `EventStore` |
| `QueryProofs` | | theorems about `Query`, on those about the event store |
| `Subscriptions` | `nostr_subscription.c`, `nostr_filter_matches` | slot table |
| `Relay` | `main.c`, what `db_event.c` promises | extends `Subscriptions` |
| `RelayProofs` | | theorems about `Relay` and `Subscriptions` |
| `Handshake` | `http.c`, `server/handshake/*.c` | which requests are accepted, as operators |
| `Frames` | `parser/*.c` | lengths of frames, as operators |
| `Server` | `server/*`, `socket/*.c`, `signal.c`, callbacks of `main.c` | extends `Handshake` and `Frames`; the loop, its clients, a signal |
| `ServerProofs` | | theorems about `Server` |
| `NatFacts` | – | lemmas that the proofs share: minima, induction, remainders, functions defined by recursion, `Only` |
| `MC*` | | instances for TLC |

Definitions carry the names of the functions they model; the ones called
`X_Something` next to an `X` are mutations: bugs that `X` could plausibly have,
used to show that a property notices them.

### DiskManager

`fd`, `total_pages`, `free_list_head`, `free_page_count` are the fields of the C
structure; `header` is page 0 as written to the file, `disk` the first word of
every other page: the link in a free page, anything (`Words`, which include
words that look like page ids) in a page in use. `live` and `stack` are history:
the pages handed out, and the free list from its end to its head. The free list
exists only as words spread over the file, so `FreeListSound` relates the words
to `stack`: following the links from the cached head visits exactly
`free_page_count` distinct pages, and these are the pages not in use.
`disk_extend_fail(q)` is an extension that fails at the link of page `q`, after
the file has grown and some links are written. `Crash` (only in `CrashSpec`) ends
the process without `disk_manager_close`.

### BufferPool, Clock, ClockLoop, FrameTable

The pool's page table is a function; `FrameTable` shows, for every hash function
from pages to slots, that the open addressing table behaves as one. `clock_evict`
is used by its outcome (`ClockVictim`, `ClockRefBits`); `ClockLoop` shows from
every combination of pins, bits and hand that the loop ends with it. `holds`
is history: the pins clients have not given back, by frame and page. `PinFlushFail` and
`AllocPageFail` are the error paths of a write-back; `PinReadFail` (only in
`PoolReadErrorSpec`) a failing read after the victim was unmapped;
`FreeBehindPool` (only in `PoolFreeSpec`) a release at the disk manager of a page
that is cached. `buffer_pool_shutdown` ignores the results of its flushes:
`Shutdown` may leave any of the dirty frames unwritten, `lost` remembers their
pages, and `PageStore` promises nothing of a lost page but everything of the
others.

### Wal

A page is one value, records carry before- and after-images of it. Clients run
interleaved transactions that lock the pages they change until they end. The
pool may write back any page at any time. `Crash` may happen anywhere,
`CrashInRecovery` after any prefix of redo and undo. `versions` is history: the
database as of the last commit that returned success and after each COMMIT record
since; `RestoresCommitted` says that recovery, if the process died now, restores
one of them. The code checks none of the things that this depends on; they are no
guards of the actions, and the history variable `kept` records which of them every
step so far has met:

- `log_first`: a page is written back only after the records of its changes.
  `flush_frame` does not look at the log.
- `quiet`: no transaction is active at a checkpoint. `wal_checkpoint` does not
  look at `active_tx`.
- `no_ghosts`: a page is not changed while the log holds a change of it by a
  transaction that ended without COMMIT. `undo_phase` undoes those again at every
  recovery, and `wal_recover` does not truncate the log.

`CrashSafe` is `RestoresCommitted` as long as all three are met. It says what the
log is worth to callers who see to them, not that this code does: `WriteAhead`
and `CheckpointSuffices` are what a document and a comment say of it, and both are
false. `GhostsHarmless`, the same for the third, fails with
`MaxLsn = 6` (see *Known deviations*). `WalSpec` further takes for granted that a crash leaves whole
records (`TornSpec` does not), that recovery meets no error (`RecoveryErrorSpec`)
and that the file header covers all pages (`OldPages`); `CrashSafe` fails with
either of these specifications in `MCWal.cfg`, or with `OldPages = {p1}`.

### BTree

A leaf is a pair of sequences, an inner node its memory: `MaxInner` keys followed
by `MaxInner + 1` children and one cell behind them, because insertion into a full
node writes there. Every operation is computed as in the code, page by page, with
one call that may fail (`fail`): no page to allocate, a page that cannot be
pinned. What an operation leaves when it stops half-way is kept; `damaged` says
that one did, `leaked` which chain pages were allocated for a key that was then
refused. `view` is what searches report; under it the tree implements `Index`,
which promises nothing any more once an operation has stopped half-way. The list
of leaves is compared with the paths from the root (`ScanInOrder`,
`ChildrenCover`), pages are owned by one node or chain (`PagesOwned`), and
`NothingLost` says that an insertion, whichever of its calls fails, drops no key.

### Records, EventStore, Query

`Records` counts in units instead of bytes; a page holds its slot directory and
its units, a large record its prefix, its marker and a chain. 16-bit counters wrap
at `Word`. `EventStore` runs `nostr_db_write_event` and `nostr_db_delete_event` on
these pages and on six indexes, each the table `Index` promises (so that a tree
is not built within a tree), with a failure at any of an event's index
insertions. Which page a record goes to depends on what the pool holds
(`InsertTargets`). `status` and `answers` are what the indexes and records say of
each event, `home` where it was stored last. `broken` marks that an operation has
stopped half-way: an index insertion that failed after others, or a deletion that
moved a record. Until then the store implements `Archive`, which is the store
`Relay` assumes, and the indexes agree with the records; `SpaceSound`, `ReadBack`
and `AnswersSound` hold even after.

`Query` translates a filter as it is received (32-bit numbers, prefixes, values of
tags) and computes its answer from the state of the store. The reference is
`nostr_filter_matches`, which selects new events for subscribers: a filter should
select the same events stored and live. A new event is compared without case
(`SameValue`, `Fold`), a stored one byte by byte (`StoredValue`). `Sent` is what the
client gets: all events of an answer are read into one struct, so that one without
tags has those of the one before. The conditions in `AnswersSound`,
`Findable` and `CompleteAnswer` are the differences the code really has; they are
listed under *Known deviations*. Loops are recursive functions on `0 .. n` that
carry what the loop has computed; what they read is handed to them (`db`).

### Server

One action per step of the loop between two points where a client or a signal can
interfere: taking a batch, accepting, registering, reading the request, reading
frames, handling one frame, each send. The kernel is external: a ready list on
which a descriptor appears once, a queue of connections, descriptors that are
given out again lowest first. A connection's input is a number of bytes, cut by
its writes (`pieces`) at places that are not the ends of frames. The handlers are
reduced to the messages they send. `handled`, `cut`, `left` and `stranded` are
history: the frames handled, connections of which a read ended inside a frame or
left input, and connections that no event is left for: each that arrived while the
listening socket was ready, and one for each event on which accept failed
(`AcceptFails`: no descriptor left, or any other error but a signal; also a
connection lost before it is watched). In some of these cases `connect_callback` is
called with an error code for a descriptor; it only logs.
`Only` and `FrameStarts` are recursive functions where the library has `SelectSeq`
and folds, because the prover can reason about the former; so are the loops of
`Records`, `EventStore` and `Query`.

### Subscriptions and Relay

A slot is inactive or has a client, an id and filters. Ids are compared without
case (`Fold`). A filter selects by kind and author; the other fields are in
`Query`. The store maps an event to `absent`, `live` or `deleted`,
which is what `nostr_db_write_event` and `nostr_db_delete_event` make of an id:
the flag stays and the id stays in its index. Event ids are hashes, so an id
stands for its event; ids are numbers in the order of their hex text. Every read
may fail and every query is cut at its limit: `Results` is any part of the
matches up to the limit, and the handlers go on with it as the code does. A write
may fail (`error`), a deleted record that cannot be read counts as a duplicate.
`handle_event_message` is one action per branch: kind 5, replaceable,
addressable, anything else, and a relay that runs without a database.
The author of an event is the one it names: the relay checks no signatures.

`handle_addressable_check` and `process_deletion_event` read one stored event after
the other into one struct, and `event_deserialize` leaves its tags alone when a
record has none. So a query is modelled with the order in which its results are
read (`Readings`), and the d tag of the i-th is that of the last one up to it that
has tags, or what the struct held before (`HeldD`). The loop over the tags of a
deletion is a fold with the store, the struct and the invalid references as its
state (`AfterTags`); each deletion in it may fail. `Shown(x)` is the set of the d
tags with which `x` may be read.
`known`, `complete`, `gap` and `last` are history: what was sent for a slot,
whether its REQ was answered in full, whether a replacement ever worked on
incomplete results, and the last EVENT with its answer.

## Runs

| Run | Bounds | Shows |
|---|---|---|
| `disk_manager` | files of 2 to 6 pages, extensions of 2 | free list, data in use, refinement of `PageAllocator` |
| `page_cache` | 3 frames (7 slots), 4 pages, every hash function, every state of the frames | the clock ends in two rounds with the outcome `Clock` defines; lookups are exact; an empty slot is left |
| `buffer_pool` | 2 frames, 3 pages, 2 pins on a frame | pins, one copy, refinement of `PageStore` |
| `wal` | 2 pages, 2 transactions, 5 records, 2 crashes, buffer of 2, at most one need not met | order of the log; crash safety while every need is met |
| `btree` | 4 keys or 3 keys with 3 copies, leaves of 2, 6 pages | order, coverage, ownership of pages, refinement of `Index` |
| `btree_inner` | 6 keys, inner nodes of 2 | *violated*: splitting an inner node overwrites a child |
| `event_store` | 5 events, 5 record pages, 1 failing index insertion, 18 queries | records, indexes, refinement of `Archive`, answers |
| `deleted_large` | the same, without failures | *violated*: a deleted event on overflow pages is not refused as deleted |
| `relay` | 8 events of 2 authors, limit 2 | replaceable, addressable and deleted events |
| `delivery` | 2 clients, 3 ids, 2 slots, 2 events | subscriptions and what subscribers get |
| `relay_resend` | as `relay` | *violated*: a replaceable event sent twice is gone |
| `server` | 2 connections, 6 writes, 1 client that stops reading, 1 signal | order of frames, descriptors, connections that wait; liveness |

Why the bounds are enough. A free list of length 0, 1 and more, an extension that
fails at its first and later links, and a second extension all occur in six pages.
Two frames and three pages make every pin of an uncached page an eviction, with
one frame pinned or both. Seven slots are what `buffer_pool_init` chooses for three
frames (the next prime above twice their number), so probes collide, wrap around and
shift across the end. Two transactions with five records overflow a buffer of two in
the middle of a transaction; the second crash falls into the recovery from the
first. Behind a need that was not met `CrashSafe` promises nothing; `LogOrder` is
explored there until a second one is not met (`OneNeedBroken`), and proved
without that bound. The two pages are interchangeable. Eight
events hold a tie, two addresses under one kind, an edit, an event without tags,
and a deletion that names its author's event, an address and another's event; with
a limit of two one event is read into a struct that holds another's tags, and the
query for the four addressable events is incomplete. Two slots for two clients with two distinct
ids fill the table, and a third spelling meets an existing one.

Leaves of two keys split, and with four keys twice, so that a root over three
leaves arises; a chain page of two entries is filled, extended and emptied. Five
record pages hold one record that spans three of them beside pages with several
records; sizes 1 and 2 on pages of six units leave gaps that only compaction
joins. The queries use every strategy, limits that cut and ones that do not, and
numbers beyond 32 bits (`Word32` is 32). In `server` one client's frames are
longer than one read and its request comes in two pieces, the other's request
turns into another one when it is read whole; closing frees a descriptor while
the other connection waits for it.

`wal`, `page_cache`, `btree`, `event_store` and `server` do not check deadlock: the
bounds stop the log, the tables and the connections, the clock loop ends, and
so does the server. All other systems can always take a step. The two clients of
`delivery` are interchangeable and its properties are invariants, so symmetry is
sound there.

Fairness. `server` is the only run with liveness properties. It assumes weak
fairness of the loop as a whole, `WF_serverVars(ServerStep)`: one thread polls
`epoll_wait` with timeout 0 and goes on whenever there is something to do. Nothing
is assumed of clients, of the signal or of the kernel's order; a waiting send is
no step of the loop that is enabled. `SignalStops` is therefore stated for clients
that read in the end (`AllRead`), and `Served` also for connections that send
their request or end: without these conditions both are false, as
the hazards at `send.c:12` and `accept_handle.h:44` say. Its accept half promises
nothing once a connection is stranded (`accept.c:33`, `accept_handle.h:27`). That `clock_evict` ends
is checked through the count of its iterations.

### Findings

- `relay_resend`: `handle_replaceable_check` deletes every version it finds, also
  the event it is checking; the write that should report a duplicate then reports
  a deleted event. The same happens to addressable events.
- `btree_inner`: `btree_insert` inserts into a full inner node before it splits
  it. The key arrays have no room for one more, the last key lands on the first
  child.
- `deleted_large`: `record_update` moves a record that lies on overflow pages, and
  `nostr_db_delete_event` ignores where to. The entry of the id that is kept to
  refuse the event names an empty slot; when another event takes the slot, calls
  for the deleted id work on that one.

### Known deviations

Each of these can be reproduced by the change named; the passing runs exclude
them by the conditions stated in their properties.

- Unclean end: only `disk_manager_close` writes the header; after a kill before
  the first clean close page 1, the metadata page, is handed out again.
  (`MCDiskManager.cfg` with `CrashSpec` and `HeadNotInUse`.)
- Failed read: `buffer_pool_pin` unmaps its victim before the read and leaves the
  page id in the frame; later the same page is unmapped while it is pinned in
  another. (`MCBufferPool.cfg` with `PoolReadErrorSpec` and `PinnedStays`.)
- Pages released behind the pool: a dirty frame of a released page is written over
  the free list. (`MCBufferPool.cfg` with `PoolFreeSpec` and
  `FreeListSound`.)
- Written ahead of the log: `flush_frame` writes a dirty page without a look at the
  log (buffer_pool.c:211-229), though `database_implement.md:260` lists the comparison
  with the flushed lsn as done. After a crash the file has a change that no record
  can undo. (`MCWal.cfg` with the action property `WriteAhead`.)
- Checkpoint in a transaction: `wal_checkpoint` truncates the log also while a
  transaction is active; "all prior records are no longer needed for recovery" says
  wal_checkpoint.c:49. After a crash the change made so far stays for good.
  (`MCWal.cfg` with `CheckpointSuffices`.)
- Undone again: changes of transactions without COMMIT are undone at every
  recovery, over later commits. (`MCWal.cfg` with `MaxLsn = 6` and
  `GhostsHarmless`.)
- Half-way writes: an index insertion that fails leaves the entries made before;
  the id then counts as a duplicate though its record is gone.
- Limits: for every key after the first, what is left of the limit is compared
  with all results so far, so fewer events than asked for come back; `limit: 0`
  returns nothing. For a filter with tags the limit is multiplied by the number of
  values in 32 bits, and a product that wraps ends the scan early.
- One tag with ids: `query_post_filter` checks tags only if there are several, because
  the scan of the tag index has handled a single one (query_engine.c:464). With ids
  in the filter the id index is used instead, and the tag is ignored.
  (`MCEventStore.cfg` with `OneTagHandled`.)
- Tags of another event: `event_deserialize` sets the tags only when the record has
  some (event_serializer.c:185) and asks its caller to zero the struct (146-147); the
  handlers do not between two events. An addressable event without tags is taken for
  a version with the d tag of the event read before it, and deleted; or the other way
  round, two versions with an empty d tag stay live. So `OneCurrent` leaves
  addressable events without tags out, and `RemovalsJustified` allows for every event
  the d tags in `Shown`. In an answer to a REQ such an event is sent with the tags of
  the one before it, and no longer fits its id and signature; `AnswersSound` speaks of
  events as they are sent. (`MCRelay.cfg` with the action property `RemovedByDTag`;
  `MCEventStore.cfg` with `SentAsStored`.)
- Large records: the time that a scan by key reads is part of the signature, so
  `since`, `until` and the order are wrong for them, and with several tags the
  check reads beyond its buffer of 4096 bytes.
- Stored and live differ: prefixes of ids and authors match new events only; only
  the first value of a tag is indexed, new events match by any; the texts of tags
  match new events in any case, stored ones only as they are written; values of 64 hex
  digits under names other than `e` and `p`, and texts longer than 32 bytes, are
  cut differently; more than 8192 bytes of tags are dropped; a tag without usable
  values drops the condition.
- Server: a silent connection in its handshake stops everyone; connections that
  arrive together wait for the next one, and so does one whose accept failed, for
  lack of descriptors for example; a read that ends inside a frame loses
  the frame; what a client sends behind its request is dropped; a request cut
  between two headers and one without `Upgrade` is accepted; a message of 65533
  bytes or more is not sent and nobody is told; `SIGPIPE` is not handled
  (`BrokenPipe`) and ends the process without a clean close.

## Proofs

Every theorem holds for all values of the constants that the assumptions of the
modules allow; TLC evaluates these assumptions in the runs. Hypotheses beyond them
are named with each component.

| Component | Theorems | Property of a run |
|---|---|---|
| disk manager | `DiskTypes`, `FreeListTheorem` | `DiskTypeOK`, `FreeListSound` |
| | `LiveDataTheorem`, `OwnershipTheorem` | `LiveDataKept`, refinement of `PageAllocator` |
| clock | `ClockTheorem` | `OutcomeAsDefined` |
| page table | `LookupTheorem`, `SlotTheorem` | `LookupExact`, `SlotLeft` |
| buffer pool | `PoolTypes`, `PinTheorem`, `OneCopyTheorem` | `PoolTypeOK`, `PinnedStays`, `OneCopy` |
| | `TransparencyTheorem` | refinement of `PageStore` |
| log | `LogOrderTheorem`, `CrashSafeTheorem` | `LogOrder`, `CrashSafe` |
| records | `StoreInvariant`, `SpaceTheorem`, `ReadBackTheorem` | `SpaceSound`, `ReadBack` |
| event store, indexes | `ArchiveTheorem`, `IndexesTheorem` | refinement of `Archive`, `IndexesAgree` |
| query engine, filters | `AnswersTheorem`, `CompleteTheorem` | `AnswersSound`, `AnswersComplete` |
| relay | `TypeCorrect`, `CurrentUnique`, `SlotsAreSound`, `SubscriptionsDieWithClient`, `SubscribersMissNothing` | `RelayTypeOK`, `OneCurrent`, `SlotsSound`, `NoOrphans`, `NothingMissed` |
| | `DeletedForGood`, `RemovedByItsAuthor` | `Tombstones`, `RemovalsJustified` |
| server loop | `ServerTypes`, `DescriptorTheorem`, `AcceptDebtTheorem`, `InOrderTheorem` | `ServerTypeOK`, `DescriptorsCurrent`, `AcceptDebt`, `InOrder` |

### Disk manager

The chain lives in the pages, and a reachability predicate over links is not
something an operation changes simply: popping, pushing and extending rewrite
words that other links run through. The history variable `stack` names the chain
as a sequence, `ChainIntact` ties each link to it, and every operation then is a
change at one end. `FreeListSound` alone is not inductive: opening a file needs
`HeaderCurrent` (a closed file's header holds the fields), and every step needs
the types, so `DiskInv` is their conjunction. The `FreeSet` lemmas say how each
operation changes the set of free pages, one lemma per action carries the
invariant over it, and `NextInv` combines them.

### Clock and page table

`ClockTheorem` follows from `LoopInv`: after `scan` frames the hand stands `scan`
places after its start, less whole turns, and the reference bits are cleared of
exactly the unpinned frames that it has passed. Whether the frame under the hand
is the victim then depends on its distance from the start alone.

`LookupTheorem` and `SlotTheorem` suppose `PrimeExists`: the search of
`next_prime` finds a prime between twice and four times the number of frames.
That is Bertrand's postulate, which a proof here would have to take from number
theory. It makes the table larger than the pool (`Roomy`), so that a probe always
ends. `LookupExact` needs `TableOK`: no page twice (`KeysApart`), and no empty
slot between an entry and the slot its hash names (`PathsFull`). Deletion breaks
the latter until the loop of `hash_remove` is over. Its invariant `ShiftInv`
counts places from the slot after the next empty one, so that nothing wraps
around: the only gap on a path is the one being carried along, and no entry
before the loop's place has the gap on its path. `ShiftBack` is that loop as a
recursive function; `MoveIff` shows that `should_move` asks precisely whether the
gap is on the path of an entry.

### Buffer pool

The pin count is a `uint8_t` that nothing guards, so the theorems suppose
`MaxHolds <= PinLimit`: clients hold at most 255 pins on a page. `PinnedStays` is
not inductive; `PoolInv` adds that a frame's count is the number of pins held on
it and all of them are of the page in it (`PinsExact`), that cached pages are in
use (`CachedLive`) and that clean frames agree with the file (`CleanSame`), and it
includes `DiskInv`, because allocation and write-back go through the disk
manager. `CachedLive` is what keeps a write-back off the free list
(`PoolFreeList`); `CleanSame` makes eviction without a write invisible, the step
of the refinement (`TransparencyTheorem`) that is not a matter of bookkeeping, and
with it a shutdown loses no more than the pages it could not write. The theorems
are about `PoolSpec`: write-backs fail in it, reads do not, and with
`PoolReadErrorSpec` `PinnedStays` is false (see *Known deviations*).

### Log

`LogOrderTheorem` needs no hypothesis: whatever the surroundings do, records are
numbered without gaps and each points to the one before it of its transaction.

`CrashSafeTheorem` supposes a header that covers all pages (`OldPages = Page`). Its
invariant `WalSafe` says of any state that `kept` and the log are in order, and of
a state in which every need has been met so far that `WalInv` holds: a step that
meets its need starts from such a state, because `kept` only shrinks
(`KeptShrinks`). For each of the needs TLC shows a loss when it is not met.
The invariant compares three things for *every* prefix of the buffer that may
reach the file before a crash: what the whole log says about a page (`Restored`:
its last change with a COMMIT, else its content before its first change), what
is on disk, and the history of versions. `Tidy` holds the laws of a log: changes
of a page are serial, start from each other's results, do not run across a
checkpoint, and come before their COMMIT. From it `RecoveryRestores` shows that
redo and undo, which look at the records since the last checkpoint only, produce
`Restored` for every page. `DiskOK` covers the pages that recovery does not
touch, `DirtyOK` the pages whose records are still in the buffer.

### Records and event store

No hypothesis beyond `RecordConstants` and `EventConstants`: any finite set of events
of any sizes, any page size that holds a header and a record, failures anywhere.
`SpaceSound` and `ReadBack` look at one record or one page at a time, and neither is
inductive: an insertion that compacts a page keeps *other* records readable only if
their slots do not overlap, and a chain that is released must not contain pages of
another record. `StoreInv` therefore says where everything is. `Held(pages, home, c,
q)` holds when each event is whole at `home[id]` with the flag `c[id]` and the
overflow pages `q[id]` (`Whole`), no two events share a place or an overflow page, and
every used slot and every overflow page belongs to one of them (`Owned`); `Layout`
is what a page needs within: slots below the units, apart from each other, none
before `end`, and fragments counted. The flags and chains are witnesses of the
invariant, not variables. On this rest

- the laws of a page: `slot_page_compact`, insertion into a reused or a new slot,
  deletion and growth in place keep `Layout` and the units of every other slot;
- the laws of a chain: `overflow_insert` builds it from the last page to the first
  (`BuildNext`, one induction over the pages), `overflow_read` returns the units that
  were cut (`FlattenChunks`), `overflow_free` releases exactly its pages;
- one lemma per operation of `record_manager.c` (`HeldRecordInsert`, `HeldDeleted`,
  `HeldUpdated`) and one per action of the store (`WrittenStep`, `WriteFailsStep`,
  `DeletedStep`).

`AnswersHeld` then reads the answers of all calls off `home` and `c` alone, and
`ArchiveTheorem` needs only that each action changes one event from `absent` to `live`
or from `live` to `deleted`, or sets `broken`.

`IndexesAgree` counts, because an event that repeats a tag is entered twice.
`EntriesAdded` and `DropAll` say what writing and deleting do to the number of copies
under every key; `DropAll` is an induction over the keys of the event whose hypothesis
is how many copies are still to go (`Left`): `index_manager_delete_event` stops at the
first tag it does not find, and that this never happens before the end is the heart
of it.

### Queries

`AnswersTheorem` speaks of events as they are sent, whatever tags the struct held
before (`held` in `ResultMatches`): an event found by its tags has some. It holds for
any set of filters that satisfies `QueryConstants`
(sequences and numbers, no bound on either), in every reachable state, after failures
as well. Each way to collect results is a loop over record ids; `ResultsOf(M)` says of
what it has collected that no record id occurs twice and every result is *meant*
(`Meant`): with the time that is read at its place, or for a scan by time with the time
of the key it was found under, or, for tags, found under one of the keys. The post
filter keeps a part of this in its order (`Picks`), insertion sort permutes it and puts
it in order (`InsertSorted`), cutting takes a prefix. From `StoreInv` a result that is
kept is the place of one event (`RecordAt`), so results without duplicates are events
without duplicates, and the time that is read is the event's unless it is large
(`TimeAt`). Only the promises about one tag and about the order of a scan by time lean
on index entries, and there `IndexInv` is used: they hold until an operation stops
half-way. Otherwise an entry may name anything; it only has to be a record id
(`DupTyped`).

`CompleteTheorem` goes the other way, in the states without a half-way operation
(`Calm`). Under a key that is scanned there is an entry of the event (`EntryOfKey`).
A scan loses nothing because of a count: the records it may meet are the places of
events (`Few`), results have no record twice, so a loop that stops at a limit of at
least `Cardinality(Ids)` has stopped with all of them (`Crowded`); the keys after the
first have what is left of the limit, hence the factor two in the property. Each
loop only ever adds (`RunGathers` in `NatFacts`, applied once per loop by the lemmas
named `...Gathers`). Behind it the checks keep what is findable (`FindableKept`), and
the cut takes nothing, by the same count (`KeptFew`). For the scan by time the limit
may be small: `DoneDownTo` says that each event of the times that were passed is
among the results, or the results are full and none is older (`Settled`), and that
all that was collected is kept (`TimelineKept`), so the cut does nothing there either.

### Relay

The argument has two halves that meet in `RelayInv`. For the slots, `AddStep` and
`EmptyStep` say which slots an operation touches and that `count` follows the
cardinality of `Active`; `FirstIn` shows that the scan for the first slot finds
one.
For the store, every way through `handle_event_message` is reduced to one shape,
`EventEffect(e, S)`: a set `S` of events is deleted, each of which `e` may remove,
and at most `e` becomes live, then sent to every matching slot and, unless `gap`
is set, without a live rival (`Clear`). `HandlerEffect` proves the shape once per
kind of message; the invariant and both action properties follow from the shape
alone. Which events may be removed depends on what the handlers find in their
struct: `HeldIs` says that its d tag is none or that of a live event, and the event's
own if it has tags, for every order of reading; `LoopIn` carries that through the
loop over the tags of a deletion. `NothingMissed` needs the types only, but `OneCurrent` holds just because
`gap` remembers incomplete checks: dropping it makes the invariant false, as the
limit of 100 can hide a rival.

### Server loop

`ServerInv` says for each place of the loop what the other parts may contain.
`DescriptorsCurrent` is not inductive: when a connection is closed and its
descriptor is given to the next one, nothing may still name it. So the batch has
at most one event of each connection (`BatchOK`, from a ready list without
duplicates, `ReadyOK`), the event under way is the one of the connection that may
be closed, and a connection that has just been accepted is in no subscription and
no event (`PlaceOK`). `AcceptDebt` needs that the listening socket has at most one
event in the batch, and it is what makes `websocket_accept` find a connection;
that it finds a descriptor is the pigeon-hole principle. `InOrder` needs where
reads stand: unless a read was cut they end where a frame ends (`ReadOK`), and
the frames handled lie before the ones to do, all of them within what has been
read (`HandledOK`). One lemma carries the invariant over every way to close a
connection (`DisconnectedInv`, `RejectedInv`), one over each other action.

### How data is reasoned about

Induction is used on sets of numbers (`SetInduction` in `NatFacts`, from the
well-foundedness of strict inclusion), so that no operator has to be a parameter.
A recursive function first has to be shown to exist: `RecursionExists` builds one
argument by argument from a step that stays within a set, `RecursionIn` says that
its values are in the set, and every loop of the model has a lemma that applies them.
(`StartDefined` and the lemma about `ShiftLaw` do this for their functions alone.)

### Only model-checked

The tree (`TreeTypeOK`, `ScanInOrder`, `ChildrenCover`, `PagesOwned`, refinement of
`Index`): one call descends, splits a chain of nodes and relinks leaves, and the
model says so with folds, `SelectSeq` and operators that take an operator, about
which the provers know nothing; each would first have to be replaced by a recursive
function with laws of its own, as was done for the records. The liveness properties
`SignalStops` and `Served`: the prover has no rules for fairness and `ENABLED`. The
violations of the runs that expect one.

## Not modelled

Short page writes (a page write happens or not) and errors of reads above the
buffer pool, except in `BTree`; creation of a database file interrupted half-way;
the metadata page beyond the counters; text: JSON, the parsing of EVENT, REQ and
CLOSE messages, responses, NIP-11, hashing, masking of frames, logging. These keep
no state and order nothing; a test per format serves them better. The mapping
helper `db_mmap.c` is not used any more. The NOTICE that follows a handler that
returned false, and the label of the messages of a subscription that was updated
under another spelling.

## Plan

1. `BTree` with recursive functions in place of folds and `SelectSeq`, then its
   invariants under the condition that no inner node is split.
2. Errors of page reads in `EventStore` and `Query`.
