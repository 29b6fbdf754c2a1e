------------------------------- MODULE Query -------------------------------
(***************************************************************************)
(* The query engine (src/nostr/db/query): a filter selects one index, the  *)
(* record ids under its keys are collected up to the limit, the records    *)
(* are read and checked against the filter, sorted by time and cut.  The   *)
(* same filter is matched against new events by nostr_filter_matches,      *)
(* which is the reference the answers are compared with.                   *)
(*                                                                         *)
(* A filter is [ids, authors, kinds, tags, since, until, limit]; the first *)
(* four are sequences, empty for no condition, 0 is no bound of time.  An  *)
(* id or author is [v, form]: the "whole" of v's hex digits, a "prefix"    *)
(* that v alone starts with, or "none", no hex.  Queries read pages        *)
(* without errors.                                                         *)
(***************************************************************************)
EXTENDS EventStore, Subsequences

CONSTANTS
  Queries,         \* the filters of REQ messages
  Fold,            \* texts of tag values without regard to case
  DefaultLimit,    \* NOSTR_DB_QUERY_DEFAULT_LIMIT
  Word32           \* number of values of a uint32_t

Unusable == -1     \* what is no number
IsSeq(s) == s \in Seq(ToSet(s))

ASSUME QueryConstants ==
  /\ DefaultLimit \in Nat \ {0} /\ Word32 \in Nat \ {0}
  /\ \A q \in Queries :
       /\ {q.since, q.until, q.limit} \cup ToSet(q.kinds) \subseteq Nat \cup {Unusable}
       /\ IsSeq(q.ids) /\ IsSeq(q.authors) /\ IsSeq(q.kinds) /\ IsSeq(q.tags)
       /\ \A x \in ToSet(q.ids) \cup ToSet(q.authors) : x = [v |-> x.v, form |-> x.form]
       /\ \A tag \in ToSet(q.tags) : IsSeq(tag.values) /\ tag.name # ""

-----------------------------------------------------------------------------
(* Filters as they are received.                                           *)
\* Digits are added up in 32 bits.
extract_nostr_filter_kinds(s) ==
  LET usable == Only(s, ToSet(s) \ {Unusable})
  IN  [i \in 1 .. Len(usable) |-> usable[i] % Word32]

extract_nostr_filter_limit(n) == IF n = Unusable THEN n ELSE n % Word32

extract_nostr_filter_since(t) == IF t = Unusable THEN 0 ELSE t
extract_nostr_filter_until(t) == IF t = Unusable THEN 0 ELSE t

\* What is no hex is left out, what is too short is kept as a prefix.
extract_nostr_filter_ids(s) == Only(s, {x \in ToSet(s) : x.form # "none"})
extract_nostr_filter_authors(s) == Only(s, {x \in ToSet(s) : x.form # "none"})

Binary(name) == name \in {"e", "p"}

\* The 32 bytes of a value: under e and p binary and hex only, else the text
\* cut to 32 bytes, hex digits too.
extract_nostr_filter_tag(tag) ==
  LET values == IF Binary(tag.name)
                THEN Only(tag.values, {value \in ToSet(tag.values) : value.form = "hex"})
                ELSE tag.values
      kind(value) == IF Binary(tag.name) THEN "binary"
                     ELSE CASE value.form = "text" -> "text" [] value.form = "long" -> "cut"
                            [] OTHER -> "hexcut"
  IN  [name |-> tag.name,
       values |-> [i \in 1 .. Len(values) |-> <<kind(values[i]), values[i].v>>]]

\* A tag without a usable value is no condition.
nostr_filter_parse(q) ==
  LET tags == [i \in 1 .. Len(q.tags) |-> extract_nostr_filter_tag(q.tags[i])]
  IN  [ids |-> extract_nostr_filter_ids(q.ids), authors |-> extract_nostr_filter_authors(q.authors),
       kinds |-> extract_nostr_filter_kinds(q.kinds),
       tags |-> Only(tags, {tag \in ToSet(tags) : tag.values # <<>>}),
       since |-> extract_nostr_filter_since(q.since), until |-> extract_nostr_filter_until(q.until),
       limit |-> extract_nostr_filter_limit(q.limit)]

\* No limit is the default one.
convert_filter_to_db_filter(f) == [f EXCEPT !.limit = IF @ = Unusable THEN DefaultLimit ELSE @]

Filters == {convert_filter_to_db_filter(nostr_filter_parse(q)) : q \in Queries}

InTime(f, t) == (f.since > 0 => t >= f.since) /\ (f.until > 0 => t <= f.until)
Among(s, x) == s = <<>> \/ x \in ToSet(s)
AmongPrefixes(s, x) == s = <<>> \/ \E i \in DOMAIN s : s[i].v = x
AmongWhole(s, x) == s = <<>> \/ [v |-> x, form |-> "whole"] \in ToSet(s)

\* One value of an event against one tag of the filter: a value that was cut
\* is as long as no value of an event.
StoredValue(tag, value) ==
  IF Binary(tag.name) THEN value.form = "hex" /\ <<"binary", value.v>> \in ToSet(tag.values)
  ELSE value.form = "text" /\ <<"text", value.v>> \in ToSet(tag.values)

\* The same of a new event: strncmp passes over the case of letters.
SameValue(tag, value) ==
  IF Binary(tag.name) THEN StoredValue(tag, value)
  ELSE /\ value.form = "text"
       /\ \E w \in ToSet(tag.values) : w[1] = "text" /\ Fold[w[2]] = Fold[value.v]

\* Event e of this id against a filter: a prefix is enough, and any value of
\* a tag counts.
nostr_filter_matches(f, id, e) ==
  /\ AmongPrefixes(f.ids, id) /\ AmongPrefixes(f.authors, e.author) /\ Among(f.kinds, e.kind)
  /\ InTime(f, e.time)
  /\ \A i \in DOMAIN f.tags : \E j \in DOMAIN e.tags :
       /\ e.tags[j].name = f.tags[i].name
       /\ \E v \in ToSet(e.tags[j].values) : SameValue(f.tags[i], v)

-----------------------------------------------------------------------------
(* Collecting record ids.  A result is [rid, ts], db is what is read.      *)
DB == [pages |-> pages, id_index |-> idIndex, dup |-> dup]
Spanned(pg, rid) == overflow_is_spanned(pg[rid[1]], rid[2])

\* The time at its place in a record of one page; for a large record the
\* prefix shifts what is read there into the signature.
read_created_at(pg, rid) ==
  LET page == pg[rid[1]]
      s == page.slots[rid[2] + 1]
  IN  IF ~HasSlot(page, rid[2]) THEN 0
      ELSE IF s.offset = 0 THEN 0
      ELSE IF Spanned(pg, rid) THEN Ev[RecordEvent(pg, rid)].sigTime
      ELSE Ev[RecordEvent(pg, rid)].time

query_result_add(rs, rid, ts) ==
  IF \E i \in DOMAIN rs : rs[i].rid = rid THEN rs ELSE Append(rs, [rid |-> rid, ts |-> ts])

\* Mutation: the newest time is left out.
scan_collect_cb_Before(db, f, limit, acc, rid) ==
  LET ts == read_created_at(db.pages, rid)
      rs == IF InTime([f EXCEPT !.until = IF @ = 0 THEN 0 ELSE @ - 1], ts)
            THEN query_result_add(acc.rs, rid, ts) ELSE acc.rs
  IN  IF acc.stop \/ Len(acc.rs) >= limit THEN [acc EXCEPT !.stop = TRUE]
      ELSE [rs |-> rs, stop |-> Len(rs) >= limit]

\* One record id of a scan: [rs, stop].
scan_collect_cb(db, f, limit, acc, rid) ==
  LET ts == read_created_at(db.pages, rid)
      rs == IF InTime(f, ts) THEN query_result_add(acc.rs, rid, ts) ELSE acc.rs
  IN  IF acc.stop \/ Len(acc.rs) >= limit THEN [acc EXCEPT !.stop = TRUE]
      ELSE [rs |-> rs, stop |-> Len(rs) >= limit]

Entries(db, key) == IF key \in DOMAIN db.dup THEN db.dup[key] ELSE <<>>

\* The entries of one key, until the callback stops the scan.
ScanKey(db, f, key, limit, rs) ==
  LET s == Entries(db, key)
      upTo[i \in 0 .. Len(s)] ==
        IF i = 0 THEN [rs |-> rs, stop |-> FALSE] ELSE scan_collect_cb(db, f, limit, upTo[i - 1], s[i])
  IN  upTo[Len(s)].rs

\* The keys one after the other, behind the results rs.  What is left of the
\* limit is what the callback compares with all the results so far.
ScanKeys(db, f, keys, limit, rs) ==
  LET upTo[i \in 0 .. Len(keys)] ==
        IF i = 0 THEN rs
        ELSE LET p == upTo[i - 1]
             IN  IF Len(p) >= limit THEN p ELSE ScanKey(db, f, keys[i], limit - Len(p), p)
  IN  upTo[Len(keys)]

\* A prefix, filled up with zeros, is no id and no author.
index_id_lookup(db, x) == IF x.form = "whole" /\ x.v \in Ids THEN db.id_index[x.v] ELSE NoRid
AuthorOf(x) == IF x.form = "whole" THEN x.v ELSE "prefix"

query_by_ids(db, f) ==
  LET upTo[i \in 0 .. Len(f.ids)] ==
        IF i = 0 THEN <<>>
        ELSE LET p == upTo[i - 1]
                 rid == index_id_lookup(db, f.ids[i])
                 ts == read_created_at(db.pages, rid)
             IN  IF Len(p) >= f.limit \/ rid = NoRid THEN p
                 ELSE IF InTime(f, ts) THEN query_result_add(p, rid, ts) ELSE p
  IN  upTo[Len(f.ids)]

query_by_pubkey(db, f) ==
  ScanKeys(db, f, [i \in 1 .. Len(f.authors) |-> AuthorKey(AuthorOf(f.authors[i]))], f.limit, <<>>)
query_by_kind(db, f) == ScanKeys(db, f, [i \in 1 .. Len(f.kinds) |-> KindKey(f.kinds[i])], f.limit, <<>>)

query_by_pubkey_kind(db, f) ==
  LET keys(i) == [j \in 1 .. Len(f.kinds) |-> AuthorKindKey(AuthorOf(f.authors[i]), f.kinds[j])]
      upTo[i \in 0 .. Len(f.authors)] ==
        IF i = 0 THEN <<>> ELSE ScanKeys(db, f, keys(i), f.limit, upTo[i - 1])
  IN  upTo[Len(f.authors)]

\* For every value of the first tag as many as asked for, counted in 32 bits.
CollectLimit(f) == Max({(f.limit * Len(f.tags[1].values)) % Word32, DefaultLimit})

query_by_tag(db, f) ==
  LET keys(tag) == [j \in 1 .. Len(tag.values) |-> TagKey(tag.name, tag.values[j])]
      upTo[i \in 0 .. Len(f.tags)] ==
        IF i = 0 THEN <<>> ELSE ScanKeys(db, f, keys(f.tags[i]), CollectLimit(f), upTo[i - 1])
  IN  upTo[Len(f.tags)]

\* The entries of a time, with the time of the key.
timeline_range_cb(db, f, t, rs) ==
  LET s == Entries(db, TimeKey(t))
      upTo[i \in 0 .. Len(s)] ==
        IF i = 0 THEN rs
        ELSE LET p == upTo[i - 1]
             IN  IF Len(p) >= f.limit THEN p ELSE query_result_add(p, s[i], t)
  IN  upTo[Len(s)]

\* The times within the bounds, newest first.
query_timeline_scan(db, f) ==
  LET newest == Max({0} \cup {Ev[id].time : id \in Ids})
      upTo[n \in 0 .. (newest + 1)] ==
        IF n = 0 THEN <<>>
        ELSE LET t == newest + 1 - n
             IN  IF InTime(f, t) THEN timeline_range_cb(db, f, t, upTo[n - 1]) ELSE upTo[n - 1]
  IN  upTo[newest + 1]

-----------------------------------------------------------------------------
(* Checking, sorting, cutting.                                             *)
\* The first value of each tag.  What of a large record lies beyond the
\* buffer is whatever the stack holds there.
tags_match_filter_tag(id, tag) ==
  \E i \in DOMAIN StoredTags(id) :
    LET t == StoredTags(id)[i]
    IN  t.name = tag.name /\ t.values # <<>> /\ StoredValue(tag, t.values[1])

\* Mutation: one of several tags is enough.
Keeps_AnyTag(db, f, rid, stack) ==
  LET id == RecordEvent(db.pages, rid)
  IN  /\ id # 0 /\ ~Flagged(db.pages, rid)
      /\ InTime(f, Ev[id].time) /\ Among(f.kinds, Ev[id].kind)
      /\ AmongWhole(f.authors, Ev[id].author) /\ AmongWhole(f.ids, id)
      /\ Len(f.tags) > 1 => \E i \in DOMAIN f.tags :
           IF Spanned(db.pages, rid) THEN stack ELSE tags_match_filter_tag(id, f.tags[i])

\* One tag is not checked again.
Keeps(db, f, rid, stack) ==
  LET id == RecordEvent(db.pages, rid)
  IN  /\ id # 0 /\ ~Flagged(db.pages, rid)
      /\ InTime(f, Ev[id].time) /\ Among(f.kinds, Ev[id].kind)
      /\ AmongWhole(f.authors, Ev[id].author) /\ AmongWhole(f.ids, id)
      /\ Len(f.tags) > 1 => \A i \in DOMAIN f.tags :
           IF Spanned(db.pages, rid) THEN stack ELSE tags_match_filter_tag(id, f.tags[i])

query_post_filter(db, rs, f, stack) == Only(rs, {r \in ToSet(rs) : Keeps(db, f, r.rid, stack)})

\* Insertion sort, newest first: a result goes behind the last one that is
\* not older.
Place(s, r) == 1 + Max({0} \cup {i \in 1 .. Len(s) : s[i].ts >= r.ts})
query_result_sort(rs) ==
  LET upTo[i \in 0 .. Len(rs)] ==
        IF i = 0 THEN <<>>
        ELSE LET p == upTo[i - 1] IN InsertAt(p, Place(p, rs[i]), rs[i])
  IN  upTo[Len(rs)]

query_result_apply_limit(rs, limit) == SubSeq(rs, 1, Min({limit, Len(rs)}))

filter_validate(f) == ~(f.since > 0 /\ f.until > 0 /\ f.since > f.until)

select_strategy(f) ==
  CASE f.ids # <<>> -> "by_id"
    [] f.ids = <<>> /\ f.tags # <<>> -> "by_tag"
    [] f.ids = <<>> /\ f.tags = <<>> /\ f.authors # <<>> /\ f.kinds # <<>> -> "by_pubkey_kind"
    [] f.ids = <<>> /\ f.tags = <<>> /\ f.authors # <<>> /\ f.kinds = <<>> -> "by_pubkey"
    [] f.ids = <<>> /\ f.tags = <<>> /\ f.authors = <<>> /\ f.kinds # <<>> -> "by_kind"
    [] OTHER -> "timeline_scan"

Collected(db, f) ==
  LET by == select_strategy(f)
  IN  CASE by = "by_id" -> query_by_ids(db, f)
        [] by = "by_tag" -> query_by_tag(db, f)
        [] by = "by_pubkey_kind" -> query_by_pubkey_kind(db, f)
        [] by = "by_pubkey" -> query_by_pubkey(db, f)
        [] by = "by_kind" -> query_by_kind(db, f)
        [] OTHER -> query_timeline_scan(db, f)

\* The results for a filter, none for one that is not valid.
query_execute(db, f, stack) ==
  IF ~filter_validate(f) \/ f.limit = 0 THEN <<>>
  ELSE query_result_apply_limit(
         query_result_sort(query_post_filter(db, Collected(db, f), f, stack)), f.limit)

\* The results rs of query_execute are packed into offsets, which are
\* distinct, in their order.
nostr_db_result_add(offsets, rid) ==
  IF \E i \in DOMAIN offsets : offsets[i].rid = rid THEN offsets ELSE Append(offsets, [rid |-> rid])
nostr_db_query_execute(rs) ==
  LET upTo[i \in 0 .. Len(rs)] ==
        IF i = 0 THEN <<>> ELSE nostr_db_result_add(upTo[i - 1], rs[i].rid)
  IN  upTo[Len(rs)]

\* The events the relay then reads and sends, 0 for one it does not find.
nostr_db_get_event_at_offset(db, rid) ==
  IF Flagged(db.pages, rid) THEN 0 ELSE RecordEvent(db.pages, rid)

EventsAt(db, offsets) ==
  [i \in 1 .. Len(offsets) |-> nostr_db_get_event_at_offset(db, offsets[i].rid)]
Answer(db, rs) ==
  LET events == EventsAt(db, nostr_db_query_execute(rs))
  IN  Only(events, ToSet(events) \ {0})

\* What is sent for the i-th of them: all are read into one struct, which is
\* empty before the first and keeps its tags where a record has none.
Sent(a, i) ==
  LET tagged == {j \in 1 .. (i - 1) : StoredTags(a[j]) # <<>>}
  IN  event_deserialize(a[i], IF tagged = {} THEN <<>> ELSE StoredTags(a[Max(tagged)]))

-----------------------------------------------------------------------------
Large(id) == Ev[id].size > MAX_INLINE_RECORD_SIZE

\* Tag values that are kept whole: a longer text meets every text with the
\* same first 32 bytes.
WholeValues(f) == \A i \in DOMAIN f.tags : \A v \in ToSet(f.tags[i].values) : v[1] # "cut"

SoundAnswer(f, a) ==
  /\ Len(a) <= f.limit
  /\ IsInjective(a)
  /\ \A i \in DOMAIN a : home[a[i]] # NoRid /\ ~Flagged(pages, home[a[i]])
  /\ \A i \in DOMAIN a :
       nostr_filter_matches(
         [f EXCEPT !.tags = IF \/ Len(@) = 1 /\ (broken \/ f.ids # <<>> \/ ~WholeValues(f))
                               \/ Len(@) > 1 /\ Large(a[i]) THEN <<>> ELSE @],
         a[i], Sent(a, i))
  /\ \A i, j \in DOMAIN a :
       i < j /\ (IF select_strategy(f) = "timeline_scan" THEN ~broken
                 ELSE ~(Large(a[i]) \/ Large(a[j])))
         => Ev[a[i]].time >= Ev[a[j]].time

\* Whatever has failed, a query returns stored events that are not deleted,
\* none twice and not more than asked for, each as it is sent one that
\* nostr_filter_matches selects: with one tag and no ids as long as no
\* operation has stopped half-way, with several tags as far as those of large
\* records can be read; newest first, unless a scan by time met an entry left
\* half-way or another one the time of a large record.
AnswersSound ==
  \A f \in Filters : \A stack \in IF Len(f.tags) > 1 THEN BOOLEAN ELSE {FALSE} :
    \E rs \in {query_execute(DB, f, stack)} : \E a \in {Answer(DB, rs)} : SoundAnswer(f, a)

\* What a filter and a stored event must look like for the event to be found
\* if it was selected when it was new: ids and authors are whole, its tags
\* were stored and have one value each, in the case in which it is asked for,
\* and it is not large or neither its time nor several tags are asked for.
FindableBy(tag, t) ==
  Len(t.values) = 1 /\ (SameValue(tag, t.values[1]) => StoredValue(tag, t.values[1]))

Findable(f, id) ==
  /\ \A x \in ToSet(f.ids) \cup ToSet(f.authors) : x.form = "whole"
  /\ \A tag \in ToSet(f.tags) :
       Ev[id].tagsFit /\ \A t \in ToSet(Ev[id].tags) : FindableBy(tag, t)
  /\ Large(id) => Len(f.tags) < 2 /\ (select_strategy(f) = "timeline_scan" \/ f.since + f.until = 0)

Selected(f) == {id \in Ids : status[id] = "live" /\ nostr_filter_matches(f, id, Ev[id])}

\* The product of the limit and the values of a tag fits into 32 bits.
CollectsEnough(f) ==
  select_strategy(f) = "by_tag" => f.limit * Len(f.tags[1].values) < Word32

CompleteAnswer(f, a, wanted) ==
  /\ f.limit >= 2 * Cardinality(Ids) /\ CollectsEnough(f) =>
       {id \in wanted : Findable(f, id)} \subseteq a
  /\ select_strategy(f) = "timeline_scan" =>
       /\ Cardinality(a) = Min({f.limit, Cardinality(wanted)})
       /\ \A x \in a, y \in wanted \ a : Ev[x].time >= Ev[y].time

\* Until an operation has stopped half-way, a query whose limit is twice the
\* number of events or more (the keys after the first have only what is left
\* of it), and does not overflow, returns every live event that
\* nostr_filter_matches selects and that is findable; a scan by time returns
\* the newest ones for any limit.
AnswersComplete ==
  ~broken => \A f \in {g \in Filters : filter_validate(g)} :
    \E rs \in {query_execute(DB, f, FALSE)} : \E a \in {ToSet(Answer(DB, rs))} :
      CompleteAnswer(f, a, Selected(f))

\* A comment of query_post_filter says that the scan of the tag index already
\* handles one tag: as long as no operation has stopped half-way, an event
\* that answers a filter with one tag, whose values are kept whole, has the
\* tag.
OneTagHandled ==
  ~broken => \A f \in {g \in Filters : Len(g.tags) = 1 /\ WholeValues(g)} :
    \E rs \in {query_execute(DB, f, FALSE)} :
      \A id \in ToSet(Answer(DB, rs)) : nostr_filter_matches(f, id, event_deserialize(id, <<>>))

\* "Deserialize to NostrEventEntity" (db_event.c): an event is sent as its
\* record holds it.
SentAsStored ==
  \A f \in Filters : \E rs \in {query_execute(DB, f, FALSE)} : \E a \in {Answer(DB, rs)} :
    \A i \in DOMAIN a : Sent(a, i) = event_deserialize(a[i], <<>>)
=============================================================================
