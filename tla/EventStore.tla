----------------------------- MODULE EventStore -----------------------------
(***************************************************************************)
(* The event store (src/nostr/db/db_event.c) on records and six indexes:   *)
(* writing an event inserts its record, then its entries one index after   *)
(* the other; deleting one removes the entries, enters the id again and    *)
(* sets the deleted flag in the record.  No step is undone but the         *)
(* insertion of the record.                                                *)
(*                                                                         *)
(* The id index is the unique table and the five others the duplicate      *)
(* table of module Index, entries of a key in the order of its chain page. *)
(***************************************************************************)
EXTENDS Records

CONSTANTS
  Ev,             \* the events: [author, kind, time, tags, tagsFit, sigTime, size]
  MaxRecord,      \* units of the buffer an event is serialised into
  FailAt,         \* bound: the index insertions of an event that may fail, 0 the first
  MaxFailures     \* bound: index insertions that fail

VARIABLES
  pages,          \* what each page for records holds
  idIndex,        \* record id of each event, NoRid: no entry
  dup,            \* record ids under each key of the other indexes
  event_count, deleted_count,
  failures,       \* index insertions that have failed
  status,         \* derived: what the id index and the records say of each event
  answers,        \* derived: what a call for each event returns
  home,           \* history: where each event was stored last
  broken          \* history: an operation has stopped half-way

storeVars == <<pages, idIndex, dup, event_count, deleted_count, failures, status, answers, home,
               broken>>

Ids == DOMAIN Ev

ASSUME EventConstants ==
  /\ MaxRecord \in 1 .. (Word - 1) /\ MaxFailures \in Nat /\ FailAt \subseteq Nat
  /\ IsFiniteSet(Ids)
  /\ \A id \in Ids : /\ id \in Nat \ {0} /\ Ev[id].size \in Nat \ {0}
                     /\ Ev[id].time \in Nat /\ Ev[id].sigTime \in Int
                     /\ Ev[id].tags \in Seq(ToSet(Ev[id].tags))
                     /\ \A t \in ToSet(Ev[id].tags) :
                          /\ t.values \in Seq(ToSet(t.values))
                          /\ \A v \in ToSet(t.values) : v.form \in {"hex", "text", "long"}

-----------------------------------------------------------------------------
(* Events as they are stored.  A tag is [name, values], the name empty     *)
(* where it has more than one character; a value is [form, v]: "hex" for   *)
(* 64 hex digits, "text" for less than 32 bytes, "long" for a text of more *)
(* than 32 bytes that starts with v.                                       *)

\* Tags that do not fit into their buffer are left out.
StoredTags(id) == IF Ev[id].tagsFit THEN Ev[id].tags ELSE <<>>

event_serialize(id) ==
  IF Ev[id].size > MaxRecord THEN <<>> ELSE RecordUnits(id, Ev[id].size, FALSE)

\* The event that is read back, into a struct that holds these tags: they
\* stay where the record has none.
event_deserialize(id, held) ==
  [author |-> Ev[id].author, kind |-> Ev[id].kind, time |-> Ev[id].time,
   tags |-> IF StoredTags(id) = <<>> THEN held ELSE StoredTags(id)]

\* The 32 bytes of a tag value in the tag index: hex digits become binary,
\* any other text is cut or padded.
IndexValue(value) ==
  <<CASE value.form = "hex" -> "binary" [] value.form = "long" -> "cut" [] OTHER -> "text", value.v>>

TimeKey(t) == <<"timeline", t>>
AuthorKey(a) == <<"pubkey", a>>
KindKey(k) == <<"kind", k>>
AuthorKindKey(a, k) == <<"pubkey_kind", a, k>>
TagKey(name, v) == <<"tag", name, v>>

\* The keys of the tag index: the first value of each tag whose name has one
\* character.
process_tags(id) ==
  LET tags == StoredTags(id)
      upTo[i \in 0 .. Len(tags)] ==
        IF i = 0 THEN <<>>
        ELSE IF tags[i].name = "" \/ tags[i].values = <<>> THEN upTo[i - 1]
        ELSE Append(upTo[i - 1], TagKey(tags[i].name, IndexValue(tags[i].values[1])))
  IN  upTo[Len(tags)]

\* The keys under which index_manager_insert_event enters the record, after
\* the id, in its order.
IndexKeys(id) ==
  <<TimeKey(Ev[id].time), AuthorKey(Ev[id].author), KindKey(Ev[id].kind),
    AuthorKindKey(Ev[id].author, Ev[id].kind)>> \o process_tags(id)

DupKeys == UNION {ToSet(IndexKeys(id)) : id \in Ids}

-----------------------------------------------------------------------------
(* Index operations on the duplicate table.                                *)
Copies(s, x) == Cardinality({i \in 1 .. Len(s) : s[i] = x})

\* Under each of the keys a new entry goes behind the others, as often as the
\* key is among them.
DupInsert(d, keys, rid) ==
  [key \in DupKeys |-> d[key] \o [n \in 1 .. Copies(keys, key) |-> rid]]

\* The last entry takes the place of the one removed.
DupDelete(d, key, rid) ==
  LET s == d[key]
      i == Min({n \in 1 .. Len(s) : s[n] = rid} \cup {Len(s) + 1})
  IN  IF i > Len(s) THEN d
      ELSE [d EXCEPT ![key] = Front([s EXCEPT ![i] = Last(s)])]

\* Mutation: the entries of the tags are left.
index_manager_delete_event_NoTags(d, id, rid) ==
  FoldLeft(LAMBDA acc, key : DupDelete(acc, key, rid), d, SubSeq(IndexKeys(id), 1, 4))

\* Entries that are not found are passed over, but the first tag that is not
\* found ends the pass over the tags.
index_manager_delete_event(d, id, rid) ==
  LET keys == IndexKeys(id)
      upTo[i \in 0 .. Len(keys)] ==
        IF i = 0 THEN [d |-> d, stop |-> FALSE]
        ELSE LET p == upTo[i - 1]
             IN  IF i > 4 /\ (p.stop \/ rid \notin ToSet(p.d[keys[i]])) THEN [p EXCEPT !.stop = TRUE]
                 ELSE [p EXCEPT !.d = DupDelete(@, keys[i], rid)]
  IN  upTo[Len(keys)].d

-----------------------------------------------------------------------------
(* What a record says.                                                     *)
\* The event whose record is at rid, 0 when there is none.
FirstUnit(units) == IF units = <<>> THEN NoUnit ELSE units[1]
RecordEvent(pg, rid) == FirstUnit(record_read(pg, rid)).ev
Flagged(pg, rid) == FirstUnit(record_read(pg, rid)).del

\* What reading an event by its id comes to.
StatusOf(pg, index) ==
  [id \in Ids |-> IF index[id] = NoRid THEN "absent"
                  ELSE IF RecordEvent(pg, index[id]) # id THEN "lost"
                  ELSE IF Flagged(pg, index[id]) THEN "deleted" ELSE "live"]

-----------------------------------------------------------------------------
(* What a call returns before it changes anything; "open" and "ok" for one *)
(* that goes on.  The flag decides whatever event the record is of.        *)
\* Mutation: a flagged entry is taken for none.
WriteAnswer_Again(pg, index, id) ==
  IF event_serialize(id) = <<>> THEN "invalid"
  ELSE IF index[id] = NoRid \/ Flagged(pg, index[id]) THEN "open" ELSE "duplicate"

WriteAnswer(pg, index, id) ==
  IF event_serialize(id) = <<>> THEN "invalid"
  ELSE IF index[id] = NoRid THEN "open"
  ELSE IF Flagged(pg, index[id]) THEN "deleted" ELSE "duplicate"

nostr_db_get_event_by_id(pg, index, id) ==
  IF index[id] = NoRid THEN "not_found"
  ELSE IF RecordEvent(pg, index[id]) = 0 THEN "error"
  ELSE IF Flagged(pg, index[id]) THEN "not_found" ELSE "ok"

DeleteAnswer(pg, index, id) ==
  IF index[id] = NoRid THEN "not_found"
  ELSE IF RecordEvent(pg, index[id]) = 0 THEN "error"
  ELSE IF Flagged(pg, index[id]) THEN "not_found" ELSE "ok"

AnswersOf(pg, index) ==
  [id \in Ids |-> [write |-> WriteAnswer(pg, index, id), delete |-> DeleteAnswer(pg, index, id),
                   get |-> nostr_db_get_event_by_id(pg, index, id)]]

Derived == status' = StatusOf(pages', idIndex') /\ answers' = AnswersOf(pages', idIndex')

\* nostr_db_init on a new file: the metadata page and six empty indexes.
StoreInit ==
  /\ pages = [p \in RecPages |-> FreePage]
  /\ idIndex = [id \in Ids |-> NoRid]
  /\ dup = [key \in DupKeys |-> <<>>]
  /\ event_count = 0 /\ deleted_count = 0 /\ failures = 0
  /\ status = [id \in Ids |-> "absent"]
  /\ home = [id \in Ids |-> NoRid]
  /\ answers = AnswersOf(pages, idIndex)
  /\ broken = FALSE

-----------------------------------------------------------------------------
(* nostr_db_write_event.                                                   *)
\* A write or a deletion of id that goes no further.
Refused(id) ==
  /\ answers[id].write # "open" \/ answers[id].delete # "ok"
  /\ UNCHANGED storeVars

\* Where a record of this size may go.
Targets(pg, size) == IF size > MAX_INLINE_RECORD_SIZE THEN {NoPage} ELSE InsertTargets(pg, size)

Fresh(id) == WriteAnswer(pages, idIndex, id) = "open"

WriteFull(id) ==
  /\ Fresh(id)
  /\ \E target \in Targets(pages, Ev[id].size) :
       LET r == record_insert(pages, event_serialize(id), target)
       IN  r.rid = NoRid /\ pages' = r.pages
  /\ UNCHANGED <<idIndex, dup, event_count, deleted_count, failures, home, broken>>
  /\ Derived

Written(id) ==
  /\ Fresh(id)
  /\ \E target \in Targets(pages, Ev[id].size) :
       LET r == record_insert(pages, event_serialize(id), target)
       IN  /\ r.rid # NoRid
           /\ pages' = r.pages
           /\ idIndex' = [idIndex EXCEPT ![id] = r.rid]
           /\ dup' = DupInsert(dup, IndexKeys(id), r.rid)
           /\ home' = [home EXCEPT ![id] = r.rid]
  /\ Derived
  /\ event_count' = event_count + 1
  /\ UNCHANGED <<deleted_count, failures, broken>>

\* Insertion number k into an index fails, 0 the one into the id index: the
\* record is deleted, the entries made before are not.
WriteFails(id) ==
  /\ Fresh(id) /\ failures < MaxFailures
  /\ \E target \in Targets(pages, Ev[id].size), k \in FailAt \cap (0 .. Len(IndexKeys(id))) :
       LET r == record_insert(pages, event_serialize(id), target)
       IN  /\ r.rid # NoRid
           /\ pages' = record_delete(r.pages, r.rid)
           /\ idIndex' = IF k = 0 THEN idIndex ELSE [idIndex EXCEPT ![id] = r.rid]
           /\ dup' = DupInsert(dup, SubSeq(IndexKeys(id), 1, k - 1), r.rid)
           /\ broken' = (broken \/ k > 0)
  /\ failures' = failures + 1
  /\ Derived
  /\ UNCHANGED <<event_count, deleted_count, home>>

-----------------------------------------------------------------------------
(* nostr_db_delete_event.                                                  *)
\* Everything is done to the event that is read, at the record id of id's
\* entry; where record_update puts the record, and whether it could, is not
\* asked.  A large record is deleted and inserted again, at another place.
Deleted(id) ==
  /\ DeleteAnswer(pages, idIndex, id) = "ok"
  /\ LET rid == idIndex[id]
         ev == RecordEvent(pages, rid)
     IN  /\ dup' = index_manager_delete_event(dup, ev, rid)
         /\ idIndex' = [idIndex EXCEPT ![ev] = rid]
         /\ LET r == record_update(pages, rid, RecordUnits(ev, Ev[ev].size, TRUE), NoPage)
            IN  /\ pages' = r.pages
                /\ home' = [home EXCEPT ![ev] = r.rid]
                /\ broken' = (broken \/ r.rid # rid)
  /\ Derived
  /\ deleted_count' = deleted_count + 1
  /\ UNCHANGED <<event_count, failures>>

StoreNext ==
  \E id \in Ids : Refused(id) \/ WriteFull(id) \/ Written(id) \/ WriteFails(id) \/ Deleted(id)

StoreSpec == StoreInit /\ [][StoreNext]_storeVars

-----------------------------------------------------------------------------
\* Record pages stay well formed through deletion, reuse of slots,
\* compaction and the marker of large records, and every overflow page
\* belongs to one record (slot_page.c, overflow.c), whatever fails.
SpaceSound == (\A p \in RecPages : PageSound(pages[p])) /\ ChainsSound(pages)

\* A record that was inserted is read back unit by unit as it was written,
\* the deleted flag aside, wherever other records went and whatever failed.
ReadBack ==
  \A id \in Ids : home[id] # NoRid =>
    record_read(pages, home[id]) \in {RecordUnits(id, Ev[id].size, del) : del \in BOOLEAN}

\* Until an operation has stopped half-way, the id index finds every stored
\* event, and a record is found under a key exactly as often as a live event
\* has the key; the counters count the events.
IndexesAgree ==
  ~broken =>
    /\ idIndex = home
    /\ \A key \in DupKeys, id \in Ids :
         home[id] # NoRid =>
           Copies(dup[key], home[id]) = IF status[id] = "live" THEN Copies(IndexKeys(id), key) ELSE 0
    /\ \A key \in DupKeys : ToSet(dup[key]) \subseteq {home[id] : id \in Ids}
    /\ event_count = Cardinality({id \in Ids : status[id] \in {"live", "deleted"}})
    /\ deleted_count = Cardinality({id \in Ids : status[id] = "deleted"})

AbstractStore == INSTANCE Archive
\* Until an operation has stopped half-way the store is an archive: events
\* only go from absent to live to deleted, and every call is answered so.
ImplementsArchive == AbstractStore!ArchiveSpec

\* An event that was deleted is refused as deleted when it is submitted
\* again (the comment of db_event.c on the entry of the id that it keeps).
DeletedRejected ==
  \A id \in Ids : home[id] # NoRid =>
    (Flagged(pages, home[id]) => WriteAnswer(pages, idIndex, id) = "deleted")
=============================================================================
