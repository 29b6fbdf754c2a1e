-------------------------------- MODULE Relay --------------------------------
(***************************************************************************)
(* The relay's message handlers (src/main.c) over the subscription manager *)
(* and an abstract event store.                                            *)
(*                                                                         *)
(* The store keeps of every event id whether it was never stored, is live  *)
(* or carries the deleted flag: what db_event.c promises of the records    *)
(* and indexes beneath it.  An id is the hash of the event, so it stands   *)
(* for the whole event; ids are numbers, in the order of their hex text.   *)
(* Reads of the store may fail (no memory, an unreadable record): a query  *)
(* then returns fewer events, and the handlers go on with what they got.   *)
(*                                                                         *)
(* The loop runs one handler at a time to its end, so a handler is one     *)
(* step.  What is sent to a client is recorded in known and last; the      *)
(* wording of the messages, and the NOTICE that follows a handler that     *)
(* returned false, are left out.                                           *)
(***************************************************************************)
EXTENDS Subscriptions, SequencesExt

CONSTANTS
  Events,        \* the events clients send
  QueryLimit     \* limit of the handlers' own queries, 100

(* An event: id and created_at are numbers; tagged says whether it has any *)
(* tags, d is its first d tag, "" without one; refs are its e and a tags   *)
(* in their order, each naming an event by id or an address (references    *)
(* that do not parse are skipped and left out).                            *)
ASSUME RelayConstants ==
  /\ QueryLimit \in Nat \ {0}
  /\ IsFiniteSet(Events)
  /\ \A e \in Events :
       /\ e.id \in Nat /\ e.kind \in Nat /\ e.created_at \in Nat
       /\ e.tagged \in BOOLEAN /\ e.refs \in Seq(Range(e.refs))
       /\ \A i \in DOMAIN e.refs : e.refs[i].tag \in {"e", "a"}
       /\ ~e.tagged => e.d = "" /\ e.refs = <<>>
  /\ \A x, y \in Events : x.id = y.id => x = y

VARIABLES
  g_db_initialized,
  store,         \* state of each event: absent, live or deleted
  connected,     \* client sockets the loop serves
  known,         \* history: events sent for a slot since its last REQ, and
                 \* those its client published itself
  complete,      \* history: that REQ was answered with all it asked for
  gap,           \* history: a replacement worked on incomplete results
  last           \* history: the EVENT message just handled and its answer

relayVars == <<g_db_initialized, store, connected, known, complete, gap, last>>
vars == <<subVars, relayVars>>

Status == {"absent", "live", "deleted"}
Reply == {"ok", "duplicate", "deleted", "error", "newer", "blocked", "none"}
NoEvent == [reply |-> "none"]

RelayTypeOK ==
  /\ SubTypeOK
  /\ g_db_initialized \in BOOLEAN
  /\ store \in [Events -> Status]
  /\ connected \subseteq Clients
  /\ known \in [Slot -> SUBSET Events]
  /\ complete \in [Slot -> BOOLEAN]
  /\ gap \in BOOLEAN
  /\ last \in {NoEvent} \cup
       [event : Events, stored : BOOLEAN, reply : Reply]

(* main: the subscription manager, then the database, which may fail to    *)
(* initialize; the relay then runs without it.                             *)
RelayInit ==
  /\ SubInit
  /\ g_db_initialized \in BOOLEAN
  /\ store = [e \in Events |-> "absent"]
  /\ connected = {}
  /\ known = [i \in Slot |-> {}]
  /\ complete = [i \in Slot |-> TRUE]
  /\ gap = FALSE
  /\ last = NoEvent

-----------------------------------------------------------------------------
(* The store, from db_event.c.                                            *)
Live(st) == {e \in Events : st[e] = "live"}

\* nostr_db_delete_event: sets the flag and keeps the id in its index.
Deleted(st, S) == [e \in Events |-> IF e \in S THEN "deleted" ELSE st[e]]

\* A mutant that looks for a live event only.
nostr_db_write_event_Live(st, e) ==
  IF st[e] = "live" THEN {"duplicate"} ELSE {"ok", "error"}

(* nostr_db_write_event: what it may return.  A deleted event whose record *)
(* cannot be read counts as a duplicate.                                   *)
nostr_db_write_event(st, e) ==
  IF st[e] = "absent" THEN {"ok", "error"}
  ELSE IF st[e] = "deleted" THEN {"deleted", "duplicate"}
  ELSE {"duplicate"}

(* The events of S that a query with this limit and the reads after it may *)
(* deliver: the limit cuts them in the order of the index, any of them may *)
(* be unreadable.                                                          *)
Results(S, limit) == {R \in SUBSET S : Cardinality(R) <= limit}

\* The orders in which a handler may read the results of its own query:
\* newest first, but the query misreads the times of large events.
Readings(S) == UNION {SetToSeqs(R) : R \in Results(S, QueryLimit)}

\* A mutant in which tags read later do not replace those read before.
HeldD_First(held, s, i) ==
  LET tagged == {j \in 1 .. i : s[j].tagged}
  IN  IF tagged = {} THEN held ELSE s[Min(tagged)].d

(* The d tag that get_d_tag_value finds after the i-th reading of s.       *)
(* event_deserialize sets tag_count only when there are tags, and the      *)
(* handlers read into one struct: an event without tags shows those of the *)
(* last one that had some, or what the struct held before.                 *)
HeldD(held, s, i) ==
  LET tagged == {j \in 1 .. i : s[j].tagged}
  IN  IF tagged = {} THEN held ELSE s[Max(tagged)].d

-----------------------------------------------------------------------------
(* Which event of an author and kind is current.                          *)
is_replaceable_kind(kind) == kind \in {0, 3} \cup 10000 .. 19999
is_addressable_kind(kind) == kind \in 30000 .. 39999
is_deletion_kind(kind) == kind = 5

SameAuthorKind(e, x) == x.pubkey = e.pubkey /\ x.kind = e.kind

\* x is kept against e: it is newer, or as old and has the lower id.
Newer(x, e) ==
  \/ x.created_at > e.created_at
  \/ x.created_at = e.created_at /\ x.id < e.id

(* store_and_broadcast, on the store st the checks before it left: writes  *)
(* the event, answers, and sends the event to the matching subscriptions.  *)
(* Those of its source are passed over: that client has the event.         *)
Broadcast(e) ==
  [i \in Slot |-> IF i \in Matching(e) THEN known[i] \cup {e} ELSE known[i]]

store_and_broadcast(e, st) ==
  \E r \in nostr_db_write_event(st, e) :
    /\ store' = IF r = "ok" THEN [st EXCEPT ![e] = "live"] ELSE st
    /\ known' = IF r = "ok" THEN Broadcast(e) ELSE known
    /\ last' = [event |-> e, stored |-> store[e] = "live", reply |-> r]

Rejected(e, reply) ==
  /\ UNCHANGED known
  /\ last' = [event |-> e, stored |-> store[e] = "live", reply |-> reply]
-----------------------------------------------------------------------------
(* EVENT, kind 5: process_deletion_event goes through the tags.  Its loop  *)
(* has the store, the d tag in the struct it reads targets into and        *)
(* whether a reference was invalid; results of deletions are ignored.      *)
\* A mutant that does not compare authors.
Owns_Anyone(e, x) == TRUE

Owns(e, x) == x.pubkey = e.pubkey

\* An e tag.  An event that is not found or cannot be read is skipped.
EventTag(e, ref, loop) ==
  {loop} \cup
  UNION {LET read == [loop EXCEPT !.held = HeldD(@, <<x>>, 1)]
         IN  IF Owns(e, x) THEN {[read EXCEPT !.store = Deleted(@, {x})], read}
             ELSE {[read EXCEPT !.invalid = TRUE]} :
           x \in {y \in Live(loop.store) : y.id = ref.id}}

\* Which of the events s, read one after the other, go with an address.
AtAddress(e, ref, held, s) ==
  {s[i] : i \in {j \in DOMAIN s : HeldD(held, s, j) = ref.d
                                /\ s[j].created_at <= e.created_at}}

\* An a tag: a query for the author and the kind.
AddressTag(e, ref, loop) ==
  IF ~Owns(e, ref) THEN {[loop EXCEPT !.invalid = TRUE]}
  ELSE UNION {
    {[loop EXCEPT !.store = Deleted(@, gone), !.held = HeldD(@, s, Len(s))] :
       gone \in SUBSET AtAddress(e, ref, loop.held, s)} :
    s \in Readings({x \in Live(loop.store) : SameAuthorKind(ref, x)})}

AfterTag(e, ref, loop) ==
  IF ref.tag = "e" THEN EventTag(e, ref, loop) ELSE AddressTag(e, ref, loop)

\* The states the loop may end in.
AfterTags(e) ==
  LET after[n \in 0 .. Len(e.refs)] ==
        IF n = 0 THEN {[store |-> store, held |-> "", invalid |-> FALSE]}
        ELSE UNION {AfterTag(e, e.refs[n], loop) : loop \in after[n - 1]}
  IN  after[Len(e.refs)]

(* The deletions are made before an invalid reference rejects the message. *)
(* Without memory for a target nothing is done and nothing is answered.    *)
process_deletion_event(e) ==
  \/ /\ Rejected(e, "none")
     /\ UNCHANGED store
  \/ \E loop \in AfterTags(e) :
       IF loop.invalid
       THEN Rejected(e, "blocked") /\ store' = loop.store
       ELSE store_and_broadcast(e, loop.store)

HandleDeletion(e) ==
  /\ is_deletion_kind(e.kind)
  /\ process_deletion_event(e)
  /\ UNCHANGED gap

(* EVENT, replaceable: handle_replaceable_check.  One pass looks for a     *)
(* newer event, a second deletes everything found.                         *)
SameKind(e) == {x \in Live(store) : SameAuthorKind(e, x)}

HandleReplaceable(e) ==
  /\ is_replaceable_kind(e.kind)
  /\ \E found \in Results(SameKind(e), QueryLimit) :
       IF \E x \in found : Newer(x, e)
       THEN Rejected(e, "newer") /\ UNCHANGED <<store, gap>>
       ELSE \E gone \in SUBSET found :
              /\ store_and_broadcast(e, Deleted(store, gone))
              /\ gap' = (gap \/ gone # SameKind(e))

(* EVENT, addressable: handle_addressable_check.  One pass deletes what    *)
(* has the d tag of e, until it meets a newer one.                         *)
Matched(e, s) == {i \in DOMAIN s : HeldD("", s, i) = e.d}
Stops(e, s) == {i \in Matched(e, s) : Newer(s[i], e)}
Passed(e, s) == {s[i] : i \in {j \in Matched(e, s) : \A k \in Stops(e, s) : j < k}}

HandleAddressable(e) ==
  /\ is_addressable_kind(e.kind)
  /\ \E s \in Readings(SameKind(e)) : \E gone \in SUBSET Passed(e, s) :
       IF Stops(e, s) # {}
       THEN Rejected(e, "newer") /\ store' = Deleted(store, gone) /\ UNCHANGED gap
       ELSE /\ store_and_broadcast(e, Deleted(store, gone))
            /\ gap' = (gap \/ Range(s) # SameKind(e) \/ gone # Passed(e, s))

HandleRegular(e) ==
  /\ ~is_deletion_kind(e.kind)
  /\ ~is_replaceable_kind(e.kind)
  /\ ~is_addressable_kind(e.kind)
  /\ store_and_broadcast(e, store)
  /\ UNCHANGED gap

HandleWithoutDb(e) ==
  /\ Rejected(e, "error")
  /\ UNCHANGED <<store, gap>>

handle_event_message(c, e) ==
  /\ c \in connected
  /\ IF g_db_initialized
     THEN \/ HandleDeletion(e)
          \/ HandleReplaceable(e)
          \/ HandleAddressable(e)
          \/ HandleRegular(e)
     ELSE HandleWithoutDb(e)
  /\ UNCHANGED <<subVars, g_db_initialized, connected, complete>>

-----------------------------------------------------------------------------
(* REQ: adds or updates the subscription, then sends what each filter      *)
(* finds, at most its limit.  Without a free slot it answers CLOSED.       *)
Wanted(f) == {x \in Live(store) : Matches(f, x)}

Answers(filters) ==
  {UNION {answer[f] : f \in filters} :
     answer \in {a \in [filters -> SUBSET Live(store)] :
                   \A f \in filters : a[f] \in Results(Wanted(f), f.limit)}}

handle_req_message(c, id, filters) ==
  LET i == SlotFor(c, id) IN
  /\ c \in connected
  /\ nostr_subscription_add(c, id, filters)
  /\ IF i = 0 THEN UNCHANGED <<known, complete>>
     ELSE \E R \in IF g_db_initialized THEN Answers(filters) ELSE {{}} :
            /\ known' = [known EXCEPT ![i] = R]
            /\ complete' = [complete EXCEPT
                 ![i] = g_db_initialized => R = UNION {Wanted(f) : f \in filters}]
  /\ last' = NoEvent
  /\ UNCHANGED <<g_db_initialized, store, connected, gap>>

\* The history of a slot ends with its subscription.
ForgetRemoved ==
  /\ known' = [i \in Slot |-> IF subscriptions'[i].active THEN known[i] ELSE {}]
  /\ complete' =
       [i \in Slot |-> subscriptions'[i].active => complete[i]]
  /\ last' = NoEvent

handle_close_message(c, id) ==
  /\ c \in connected
  /\ nostr_subscription_remove(c, id)
  /\ ForgetRemoved
  /\ UNCHANGED <<g_db_initialized, store, connected, gap>>

-----------------------------------------------------------------------------
websocket_connect_callback(c) ==
  /\ c \notin connected
  /\ connected' = connected \cup {c}
  /\ last' = NoEvent
  /\ UNCHANGED <<subVars, g_db_initialized, store, known, complete, gap>>

websocket_disconnect_callback(c) ==
  /\ c \in connected
  /\ connected' = connected \ {c}
  /\ nostr_subscription_remove_client(c)
  /\ ForgetRemoved
  /\ UNCHANGED <<g_db_initialized, store, gap>>

(* A signal ends the loop: main shuts the database down and drops the      *)
(* subscriptions.  The relay is then started again on the same files.      *)
Restart ==
  /\ subscriptions' = [i \in Slot |-> Inactive]
  /\ count' = 0
  /\ connected' = {}
  /\ g_db_initialized' \in BOOLEAN
  /\ ForgetRemoved
  /\ UNCHANGED <<store, gap>>

RelayNext ==
  \/ \E c \in Clients :
       \/ websocket_connect_callback(c)
       \/ websocket_disconnect_callback(c)
       \/ \E e \in Events : handle_event_message(c, e)
       \/ \E id \in SubIds :
            \/ \E filters \in Requests : handle_req_message(c, id, filters)
            \/ handle_close_message(c, id)
  \/ Restart

RelaySpec == RelayInit /\ [][RelayNext]_vars

-----------------------------------------------------------------------------
(* Two events of which a relay keeps one at most (NIP-01), and which of    *)
(* them: the newer, of two as old the one with the lower id.               *)
Replaced(kind) == kind \in {0, 3} \/ kind \in 10000 .. 19999
Addressed(kind) == kind \in 30000 .. 39999

Rivals(x, y) ==
  /\ x.pubkey = y.pubkey /\ x.kind = y.kind
  /\ Replaced(x.kind) \/ (Addressed(x.kind) /\ x.d = y.d)

Keeps(x, y) == x.created_at > y.created_at
               \/ (x.created_at = y.created_at /\ x.id <= y.id)

(* One version of a replaceable or addressable event is live at a time, as *)
(* long as no check missed an event: because it could not be read, could   *)
(* not be deleted or, for addressable events, because the author has more  *)
(* than QueryLimit events of the kind.  Addressable events without tags    *)
(* are excepted: they are read with the d tag of another event.            *)
OneCurrent ==
  ~gap => \A x, y \in Live(store) :
            Rivals(x, y) /\ (Addressed(x.kind) => x.tagged /\ y.tagged) => x = y

(* The d tags an event may be read with: its own and, without tags of its   *)
(* own, those of the events read before it.                                *)
Shown(x) ==
  {x.d} \cup {y.d : y \in {z \in Live(store) : z.tagged /\ ~x.tagged}}

(* What may remove an event that has the d tag d: a deletion that names it *)
(* or its address, or a version that replaces it, of its own author.       *)
Names(m, x, d) ==
  /\ m.kind = 5
  /\ \E i \in DOMAIN m.refs :
       LET ref == m.refs[i]
       IN  \/ ref.tag = "e" /\ ref.id = x.id
           \/ /\ ref.tag = "a" /\ ref.kind = x.kind
              /\ ref.pubkey = x.pubkey /\ ref.d = d
              /\ x.created_at <= m.created_at

Replaces(m, x, d) ==
  /\ m.kind = x.kind /\ Keeps(m, x)
  /\ Replaced(x.kind) \/ (Addressed(x.kind) /\ m.d = d)

Justified(m, x, d) == m.pubkey = x.pubkey /\ (Names(m, x, d) \/ Replaces(m, x, d))

(* An event disappears only through a message of its own author: a         *)
(* deletion that names it, or a version that may replace it.  An event     *)
(* without tags may be taken for one at the address of another event.      *)
RemovalsJustified ==
  [][\A x \in Events : store[x] = "live" /\ store'[x] # "live" =>
       \E d \in Shown(x) : Justified(last'.event, x, d)]_vars

(* "check for existing with same d-tag" (main.c): whatever its tags, an    *)
(* event disappears through a message that names or replaces it.           *)
RemovedByDTag ==
  [][\A x \in Events : store[x] = "live" /\ store'[x] # "live" =>
       Justified(last'.event, x, x.d)]_vars

(* What was deleted or replaced never comes back, whatever is sent again   *)
(* and across restarts: write_event finds the flag of the old record.      *)
Tombstones ==
  [][\A x \in Events : store[x] = "deleted" => store'[x] = "deleted"]_vars

(* A client that subscribed misses nothing: every live event its filters   *)
(* select was sent for the subscription or published by the client itself, *)
(* unless the answer to its REQ was cut short by a limit or a failed read. *)
NothingMissed ==
  \A i \in Active :
    complete[i] /\ g_db_initialized =>
      \A e \in Live(store) :
        (\E f \in subscriptions[i].filters :
           /\ f.kinds = {} \/ e.kind \in f.kinds
           /\ f.authors = {} \/ e.pubkey \in f.authors)
        => e \in known[i]

(* A client has one slot per subscription id, and count is the number of   *)
(* slots in use, through updates, closes, disconnects and restarts.        *)
SlotsSound ==
  /\ count = Cardinality(Active)
  /\ \A i, j \in Active :
       /\ subscriptions[i].client_fd = subscriptions[j].client_fd
       /\ Fold[subscriptions[i].subscription_id]
            = Fold[subscriptions[j].subscription_id]
       => i = j

(* No subscription outlives its connection: a new client that gets the     *)
(* same socket number receives nothing its predecessor asked for.          *)
NoOrphans == \A i \in Active : subscriptions[i].client_fd \in connected

(* "IDs are equal - same event, treat as duplicate (will be caught by      *)
(* write)" (main.c): a replaceable event sent again while it is live is    *)
(* answered as a duplicate.                                                *)
ResendIsDuplicate ==
  last # NoEvent /\ last.stored /\ g_db_initialized
    /\ is_replaceable_kind(last.event.kind) => last.reply = "duplicate"
=============================================================================
