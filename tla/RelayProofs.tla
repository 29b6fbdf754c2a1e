---------------------------- MODULE RelayProofs ----------------------------
(***************************************************************************)
(* What the relay's handlers guarantee for every number of clients, slots, *)
(* events and filters, and every limit.                                    *)
(***************************************************************************)
EXTENDS Relay, NatFacts

-----------------------------------------------------------------------------
(* The slots.                                                              *)

\* The scans from slot 0 upwards stop at a slot of the set they look for.
LEMMA FirstIn ==
  ASSUME NEW S, S \subseteq Slot, S # {}
  PROVE  First(S) \in S
  <1>1. S \subseteq Nat BY SubscriptionConstants DEF Slot
  <1>2. Min(S) \in S /\ \A x \in S : Min(S) <= x BY <1>1, MinFacts
  <1>3. QED BY <1>2 DEF First

\* There are finitely many slots, and no more in use than there are.
LEMMA SlotsFinite ==
  /\ IsFiniteSet(Active)
  /\ Cardinality(Active) \in 0 .. MaxSubs
  <1>1. IsFiniteSet(Slot) /\ Cardinality(Slot) = MaxSubs
    BY FS_Interval, SubscriptionConstants DEF Slot
  <1>2. Active \in SUBSET Slot BY DEF Active
  <1>3. IsFiniteSet(Active) /\ Cardinality(Active) <= MaxSubs
    BY <1>1, <1>2, FS_Subset
  <1>4. Cardinality(Active) \in Nat BY <1>3, FS_CardinalityType
  <1>5. QED BY <1>3, <1>4, SubscriptionConstants

\* A slot in use holds a whole subscription.
LEMMA ActiveSlot ==
  ASSUME SubTypeOK, NEW i \in Active
  PROVE  i \in Slot /\ subscriptions[i] \in Subscription
  <1>1. i \in Slot /\ subscriptions[i].active BY DEF Active
  <1>2. subscriptions[i] \in Subscription \cup {Inactive} BY <1>1 DEF SubTypeOK
  <1>3. ~ Inactive.active BY DEF Inactive
  <1>4. QED BY <1>1, <1>2, <1>3

\* What nostr_subscription_add does to the slots: it updates the filters of a
\* slot that holds the subscription, fills one that was free, or does nothing.
LEMMA AddFacts ==
  ASSUME SubTypeOK, NEW c \in Clients, NEW id \in SubIds,
         NEW filters \in Requests, nostr_subscription_add(c, id, filters)
  PROVE  \/ SlotFor(c, id) = 0 /\ UNCHANGED subVars
         \/ /\ SlotFor(c, id) \in Holding(c, id)
            /\ subscriptions' = [subscriptions EXCEPT
                                   ![SlotFor(c, id)].filters = filters]
            /\ UNCHANGED count
         \/ /\ SlotFor(c, id) \in Slot \ Active
            /\ Holding(c, id) = {}
            /\ subscriptions' =
                 [subscriptions EXCEPT ![SlotFor(c, id)] =
                    [active |-> TRUE, client_fd |-> c, subscription_id |-> id,
                     filters |-> filters]]
            /\ count' = count + 1
  <1>1. Holding(c, id) \subseteq Active /\ Active \subseteq Slot
    BY DEF Holding, SlotsOf, Active
  <1>2. CASE Holding(c, id) # {}
    <2>1. SlotFor(c, id) = First(Holding(c, id)) BY <1>2 DEF SlotFor
    <2>2. First(Holding(c, id)) \in Holding(c, id) BY <1>1, <1>2, FirstIn
    <2>3. SlotFor(c, id) \in Active /\ SlotFor(c, id) # 0
      BY <1>1, <2>1, <2>2, SubscriptionConstants DEF Slot
    <2>4. QED BY <2>1, <2>2, <2>3 DEF nostr_subscription_add
  <1>3. CASE Holding(c, id) = {} /\ Active # Slot
    <2>1. SlotFor(c, id) = First(Slot \ Active) BY <1>3 DEF SlotFor
    <2>2. Slot \ Active # {} BY <1>1, <1>3
    <2>3. First(Slot \ Active) \in Slot \ Active BY <2>2, FirstIn
    <2>4. SlotFor(c, id) \notin Active /\ SlotFor(c, id) # 0
      BY <2>1, <2>3, SubscriptionConstants DEF Slot
    <2>5. QED BY <1>3, <2>1, <2>3, <2>4 DEF nostr_subscription_add
  <1>4. CASE Holding(c, id) = {} /\ Active = Slot
    BY <1>4 DEF SlotFor, nostr_subscription_add
  <1>5. QED BY <1>2, <1>3, <1>4

\* Adding or updating a subscription keeps one slot per client and id and
\* counts the slots in use; the other slots stay as they are.
LEMMA AddStep ==
  ASSUME SubTypeOK, SlotsSound, NEW c \in Clients, NEW id \in SubIds,
         NEW filters \in Requests, nostr_subscription_add(c, id, filters)
  PROVE  /\ SubTypeOK' /\ SlotsSound'
         /\ \A j \in Active' : j # SlotFor(c, id) =>
              j \in Active /\ subscriptions'[j] = subscriptions[j]
         /\ SlotFor(c, id) # 0 =>
              /\ SlotFor(c, id) \in Active'
              /\ subscriptions'[SlotFor(c, id)].filters = filters
              /\ subscriptions'[SlotFor(c, id)].client_fd = c
  <1> DEFINE i == SlotFor(c, id)
  <1>1. CASE i = 0 /\ UNCHANGED subVars
    <2>1. Active' = Active BY <1>1 DEF Active, subVars
    <2>2. SubTypeOK' /\ SlotsSound' BY <1>1, <2>1 DEF SubTypeOK, SlotsSound, subVars
    <2>3. QED BY <1>1, <2>1, <2>2 DEF subVars
  <1>2. CASE /\ i \in Holding(c, id)
             /\ subscriptions' = [subscriptions EXCEPT ![i].filters = filters]
             /\ UNCHANGED count
    <2>1. i \in Active /\ subscriptions[i].client_fd = c
      BY <1>2 DEF Holding, SlotsOf
    <2>2. i \in Slot /\ subscriptions[i] \in Subscription BY <2>1, ActiveSlot
    <2>3. subscriptions'[i] = [subscriptions[i] EXCEPT !.filters = filters]
      BY <1>2, <2>2 DEF SubTypeOK
    <2> HIDE DEF i
    <2>4. /\ subscriptions'[i] \in Subscription
          /\ subscriptions'[i].client_fd = subscriptions[i].client_fd
          /\ subscriptions'[i].subscription_id = subscriptions[i].subscription_id
          /\ subscriptions'[i].filters = filters
          /\ subscriptions'[i].active
      BY <2>2, <2>3 DEF Subscription
    <2>5. \A j \in Slot : j # i => subscriptions'[j] = subscriptions[j]
      BY <1>2, <2>2 DEF SubTypeOK
    <2>6. Active' = Active BY <2>1, <2>2, <2>4, <2>5 DEF Active
    <2>7. subscriptions' \in [Slot -> Subscription \cup {Inactive}]
      <3>1. \A j \in Slot : subscriptions'[j] \in Subscription \cup {Inactive}
        BY <2>4, <2>5 DEF SubTypeOK
      <3>2. subscriptions' = [j \in Slot |-> subscriptions'[j]]
        BY <1>2 DEF SubTypeOK
      <3>3. QED BY <3>1, <3>2
    <2>8. SubTypeOK' BY <1>2, <2>7 DEF SubTypeOK
    <2>9. \A j \in Active :
            /\ subscriptions'[j].client_fd = subscriptions[j].client_fd
            /\ subscriptions'[j].subscription_id = subscriptions[j].subscription_id
      BY <2>4, <2>5 DEF Active
    <2>10. SlotsSound' BY <1>2, <2>6, <2>9 DEF SlotsSound
    <2>11. \A j \in Active' : j # i =>
              j \in Active /\ subscriptions'[j] = subscriptions[j]
      BY <2>5, <2>6 DEF Active
    <2>12. QED BY <2>1, <2>4, <2>6, <2>8, <2>10, <2>11 DEF i
  <1>3. CASE /\ i \in Slot \ Active
             /\ Holding(c, id) = {}
             /\ subscriptions' =
                  [subscriptions EXCEPT ![i] =
                     [active |-> TRUE, client_fd |-> c, subscription_id |-> id,
                      filters |-> filters]]
             /\ count' = count + 1
    <2> HIDE DEF i
    <2>1. /\ subscriptions'[i] \in Subscription
          /\ subscriptions'[i].client_fd = c
          /\ subscriptions'[i].subscription_id = id
          /\ subscriptions'[i].filters = filters
          /\ subscriptions'[i].active
      BY <1>3 DEF SubTypeOK, Subscription
    <2>2. \A j \in Slot : j # i => subscriptions'[j] = subscriptions[j]
      BY <1>3 DEF SubTypeOK
    <2>3. Active' = Active \cup {i} BY <1>3, <2>1, <2>2 DEF Active
    <2>4. subscriptions' \in [Slot -> Subscription \cup {Inactive}]
      <3>1. \A j \in Slot : subscriptions'[j] \in Subscription \cup {Inactive}
        BY <2>1, <2>2 DEF SubTypeOK
      <3>2. subscriptions' = [j \in Slot |-> subscriptions'[j]]
        BY <1>3 DEF SubTypeOK
      <3>3. QED BY <3>1, <3>2
    <2>5. count' = Cardinality(Active)'
      <3>1. Cardinality(Active \cup {i}) = Cardinality(Active) + 1
        BY <1>3, SlotsFinite, FS_AddElement
      <3>2. QED BY <1>3, <2>3, <3>1 DEF SlotsSound
    <2>6. Cardinality(Active)' \in 0 .. MaxSubs
      <3>1. IsFiniteSet(Slot) /\ Cardinality(Slot) = MaxSubs
        BY FS_Interval, SubscriptionConstants DEF Slot
      <3>2. Active' \in SUBSET Slot BY DEF Active
      <3>3. IsFiniteSet(Active') /\ Cardinality(Active') <= MaxSubs
        BY <3>1, <3>2, FS_Subset
      <3>4. Cardinality(Active') \in Nat BY <3>3, FS_CardinalityType
      <3>5. QED BY <3>3, <3>4, SubscriptionConstants
    <2>7. SubTypeOK' BY <2>4, <2>5, <2>6 DEF SubTypeOK
    <2>8. \A j \in Active : ~ /\ subscriptions[j].client_fd = c
                              /\ Fold[subscriptions[j].subscription_id] = Fold[id]
      BY <1>3 DEF Holding, SlotsOf
    <2>9. \A j \in Active : j # i /\ subscriptions'[j] = subscriptions[j]
      BY <1>3, <2>2 DEF Active
    <2>10. SlotsSound' BY <2>1, <2>3, <2>5, <2>8, <2>9 DEF SlotsSound
    <2>11. \A j \in Active' : j # i =>
              j \in Active /\ subscriptions'[j] = subscriptions[j]
      BY <2>3, <2>9
    <2>12. QED BY <2>1, <2>3, <2>7, <2>10, <2>11 DEF i
  <1>4. QED BY <1>1, <1>2, <1>3, AddFacts

\* Emptying slots in use keeps the slots sound when they are counted off.
LEMMA EmptyStep ==
  ASSUME SubTypeOK, SlotsSound, NEW S, S \subseteq Active,
         subscriptions' = Emptied(S), count' = count - Cardinality(S)
  PROVE  /\ SubTypeOK' /\ SlotsSound'
         /\ Active' = Active \ S
         /\ \A j \in Active' : subscriptions'[j] = subscriptions[j]
  <1>1. S \subseteq Slot BY DEF Active
  <1>2. /\ \A j \in S : subscriptions'[j] = Inactive
        /\ \A j \in Slot \ S : subscriptions'[j] = subscriptions[j]
    BY <1>1 DEF Emptied
  <1>3. Active' = Active \ S BY <1>2 DEF Active, Inactive
  <1>4. subscriptions' \in [Slot -> Subscription \cup {Inactive}]
    BY DEF Emptied, SubTypeOK
  <1>5. count' = Cardinality(Active)'
    <2>1. Cardinality(Active \ S) = Cardinality(Active) - Cardinality(Active \cap S)
      BY SlotsFinite, FS_Difference
    <2>2. Active \cap S = S OBVIOUS
    <2>3. QED BY <1>3, <2>1, <2>2 DEF SlotsSound
  <1>6. Cardinality(Active)' \in 0 .. MaxSubs
    <2>1. Active \ S \in SUBSET Active OBVIOUS
    <2>2. /\ IsFiniteSet(Active \ S)
          /\ Cardinality(Active \ S) <= Cardinality(Active)
      BY <2>1, SlotsFinite, FS_Subset
    <2>3. Cardinality(Active \ S) \in Nat BY <2>2, FS_CardinalityType
    <2>4. QED BY <1>3, <2>2, <2>3, SlotsFinite, SubscriptionConstants
  <1>7. SubTypeOK' BY <1>4, <1>5, <1>6 DEF SubTypeOK
  <1>8. \A j \in Active' : j \in Active /\ subscriptions'[j] = subscriptions[j]
    BY <1>2, <1>3 DEF Active
  <1>9. SlotsSound' BY <1>5, <1>8 DEF SlotsSound
  <1>10. QED BY <1>3, <1>7, <1>8, <1>9

\* nostr_subscription_remove and nostr_subscription_remove_client empty slots
\* of the client and count them off.
LEMMA RemoveStep ==
  ASSUME SubTypeOK, SlotsSound, NEW c \in Clients, NEW id \in SubIds,
         nostr_subscription_remove(c, id)
  PROVE  /\ SubTypeOK' /\ SlotsSound'
         /\ \A j \in Active' : j \in Active /\ subscriptions'[j] = subscriptions[j]
  <1>1. CASE Holding(c, id) = {}
    <2>1. UNCHANGED subVars BY <1>1 DEF nostr_subscription_remove
    <2>2. Active' = Active BY <2>1 DEF Active, subVars
    <2>3. QED BY <2>1, <2>2 DEF SubTypeOK, SlotsSound, subVars
  <1>2. CASE Holding(c, id) # {}
    <2>1. Holding(c, id) \subseteq Active /\ Active \subseteq Slot
      BY DEF Holding, SlotsOf, Active
    <2>2. First(Holding(c, id)) \in Active BY <1>2, <2>1, FirstIn
    <2>3. Cardinality({First(Holding(c, id))}) = 1 BY FS_Singleton
    <2>4. /\ subscriptions' = Emptied({First(Holding(c, id))})
          /\ count' = count - 1
      BY <1>2 DEF nostr_subscription_remove
    <2>5. {First(Holding(c, id))} \subseteq Active BY <2>2
    <2> HIDE DEF Holding
    <2>6. QED BY <2>3, <2>4, <2>5, EmptyStep
  <1>3. QED BY <1>1, <1>2

-----------------------------------------------------------------------------
(* The store.  EventEffect is what a handled EVENT may do: it removes a    *)
(* set S of live events, all of which it may remove, and at most adds e,   *)
(* which is then sent to every matching subscription and has no rival      *)
(* left unless some check missed one.                                      *)
MayRemove(e, x) == \E d \in Shown(x) : Justified(e, x, d)

Outcome(e, S) ==
  /\ store' \in [Events -> Status]
  /\ known' \in [Slot -> SUBSET Events]
  /\ last' \in [event : Events, stored : BOOLEAN, reply : Reply]
  /\ last'.event = e
  /\ \A x \in Events : store[x] = "deleted" => store'[x] = "deleted"
  /\ \A x \in Events : store[x] = "live" /\ x \notin S => store'[x] = "live"
  /\ \/ /\ known' = known
        /\ \A x \in Events : store'[x] = "live" => store[x] = "live" /\ x \notin S
     \/ /\ known' = Broadcast(e)
        /\ \A x \in Events :
             store'[x] = "live" => (store[x] = "live" /\ x \notin S) \/ x = e

\* nostr_db_write_event after the events in S were deleted: none of them comes
\* back, even if e is one of them, and only e can be new.
LEMMA StoreAndBroadcast ==
  ASSUME RelayTypeOK, NEW e \in Events, NEW S,
         store_and_broadcast(e, Deleted(store, S))
  PROVE  Outcome(e, S)
  <1> DEFINE st == Deleted(store, S)
  <1>1. /\ store \in [Events -> Status] /\ known \in [Slot -> SUBSET Events]
    BY DEF RelayTypeOK
  <1>2. PICK r \in nostr_db_write_event(st, e) :
          /\ store' = IF r = "ok" THEN [st EXCEPT ![e] = "live"] ELSE st
          /\ known' = IF r = "ok" THEN Broadcast(e) ELSE known
          /\ last' = [event |-> e, stored |-> store[e] = "live", reply |-> r]
    BY DEF store_and_broadcast
  <1>3. /\ st \in [Events -> Status]
        /\ \A x \in Events : st[x] = IF x \in S THEN "deleted" ELSE store[x]
    BY <1>1 DEF Deleted, Status
  <1> HIDE DEF st
  <1>4. r \in Reply /\ (r = "ok" => st[e] = "absent")
    BY <1>2 DEF nostr_db_write_event, Reply
  <1>5. last' \in [event : Events, stored : BOOLEAN, reply : Reply] /\ last'.event = e
    BY <1>2, <1>4
  <1>6. Broadcast(e) \in [Slot -> SUBSET Events]
    BY <1>1 DEF Broadcast
  <1>7. CASE r = "ok"
    <2>1. store' = [st EXCEPT ![e] = "live"] /\ known' = Broadcast(e)
      BY <1>2, <1>7
    <2>2. /\ store' \in [Events -> Status]
          /\ \A x \in Events : store'[x] = IF x = e THEN "live" ELSE st[x]
      BY <1>3, <2>1 DEF Status
    <2>3. QED BY <1>3, <1>4, <1>5, <1>6, <1>7, <2>1, <2>2 DEF Outcome
  <1>8. CASE r # "ok"
    <2>1. store' = st /\ known' = known BY <1>2, <1>8
    <2>2. QED BY <1>1, <1>3, <1>5, <2>1 DEF Outcome
  <1>9. QED BY <1>7, <1>8

\* A message that is rejected after the events in S were deleted.
LEMMA RejectedOutcome ==
  ASSUME RelayTypeOK, NEW e \in Events, NEW S, NEW reply \in Reply,
         Rejected(e, reply), store' = Deleted(store, S)
  PROVE  Outcome(e, S)
  <1>1. /\ store \in [Events -> Status] /\ known \in [Slot -> SUBSET Events]
    BY DEF RelayTypeOK
  <1>2. /\ store' \in [Events -> Status]
        /\ \A x \in Events : store'[x] = IF x \in S THEN "deleted" ELSE store[x]
    BY <1>1 DEF Deleted, Status
  <1>3. last' \in [event : Events, stored : BOOLEAN, reply : Reply] /\ last'.event = e
    BY DEF Rejected
  <1>4. known' = known BY DEF Rejected
  <1>5. QED BY <1>1, <1>2, <1>3, <1>4 DEF Outcome

\* A sequence has a length, and the places up to it.
LEMMA SeqIs ==
  ASSUME NEW T, NEW s \in Seq(T)
  PROVE  Len(s) \in Nat /\ DOMAIN s = 1 .. Len(s)
  OBVIOUS

\* What is known of an event.
LEMMA EventNumbers ==
  ASSUME NEW e \in Events
  PROVE  e.id \in Nat /\ e.kind \in Nat /\ e.created_at \in Nat
  BY RelayConstants, Zenon

LEMMA EventTags ==
  ASSUME NEW e \in Events
  PROVE  /\ ~e.tagged => e.d = ""
         /\ Len(e.refs) \in Nat /\ DOMAIN e.refs = 1 .. Len(e.refs)
         /\ \A i \in 1 .. Len(e.refs) : e.refs[i].tag = "e" \/ e.refs[i].tag = "a"
  <1>1. /\ ~e.tagged => e.d = ""
        /\ e.refs \in Seq(Range(e.refs))
        /\ \A i \in DOMAIN e.refs : e.refs[i].tag \in {"e", "a"}
    BY RelayConstants, Zenon
  <1>2. Len(e.refs) \in Nat /\ DOMAIN e.refs = 1 .. Len(e.refs) BY <1>1, SeqIs
  <1>3. QED BY <1>1, <1>2

\* Deleting nothing leaves the store as it is.
LEMMA DeletedNone ==
  ASSUME RelayTypeOK
  PROVE  store = Deleted(store, {})
  BY DEF RelayTypeOK, Deleted

\* The kinds main.c tests for are those of NIP-01.
LEMMA Kinds ==
  ASSUME NEW k \in Int
  PROVE  /\ is_replaceable_kind(k) <=> Replaced(k)
         /\ is_addressable_kind(k) <=> Addressed(k)
  BY SMT DEF is_replaceable_kind, is_addressable_kind, Replaced, Addressed

\* Where the addressable range begins.
LEMMA AddressedBounds ==
  ASSUME NEW k \in Int, Addressed(k)
  PROVE  30000 <= k
  BY SMT DEF Addressed

\* Where the replaceable kinds end.
LEMMA ReplacedBounds ==
  ASSUME NEW k \in Int, Replaced(k)
  PROVE  k <= 19999 /\ k # 5
  BY SMT DEF Replaced

\* No addressable kind is replaceable, and a deletion is neither.
LEMMA KindsDisjoint ==
  ASSUME NEW k \in Int, Addressed(k)
  PROVE  ~ Replaced(k) /\ k # 5
  <1>1. 30000 <= k BY AddressedBounds
  <1>2. ~ (k <= 19999) /\ k # 5 BY ONLY k \in Int, <1>1, SMT
  <1>3. QED BY ONLY k \in Int, <1>2, ReplacedBounds, SMT

\* EventEffect: see above.  Clear says that no rival of e is left, but for
\* addressable events without tags.
Clear(e, S) ==
  \A x \in Live(store) :
    Rivals(e, x) /\ (Addressed(e.kind) => e.tagged /\ x.tagged) => x \in S

EventEffect(e, S) ==
  /\ \A x \in S : store[x] = "live" => MayRemove(e, x)
  /\ Outcome(e, S)
  /\ gap' \in BOOLEAN
  /\ ~gap' => /\ ~gap
              /\ \/ \A x \in Events : store'[x] = "live" => store[x] = "live"
                 \/ Clear(e, S)

-----------------------------------------------------------------------------
(* What a handler finds in its struct.                                     *)

\* The d tag the struct may hold: none, or that of a live event with tags.
Holdable == {""} \cup {y.d : y \in {z \in Live(store) : z.tagged}}

\* The results of a query, as they are read.
LEMMA ReadingIs ==
  ASSUME NEW S, S \subseteq Events, NEW s \in Readings(S)
  PROVE  \E n \in Nat : s \in [1 .. n -> S] /\ Range(s) \subseteq S
  <1>1. PICK R \in Results(S, QueryLimit) : s \in SetToSeqs(R) BY DEF Readings
  <1>2. R \subseteq S /\ s \in [1 .. Cardinality(R) -> R]
    BY <1>1 DEF Results, SetToSeqs
  <1>3. Cardinality(R) \in Nat
    BY <1>2, RelayConstants, FS_Subset, FS_CardinalityType
  <1>4. s \in [1 .. Cardinality(R) -> S] /\ Range(s) \subseteq S
    BY <1>2 DEF Range
  <1>5. QED BY <1>3, <1>4

\* An event with tags is read with its own d tag, one without tags with that
\* of the last event that had some, or with what the struct held before.
LEMMA HeldIs ==
  ASSUME NEW S, S \subseteq Live(store), NEW n \in Nat, NEW s \in [1 .. n -> S],
         NEW held \in Holdable, NEW i \in 0 .. n
  PROVE  /\ HeldD(held, s, i) \in Holdable
         /\ i # 0 => HeldD(held, s, i) \in {s[i].d} \/ ~s[i].tagged
  <1> DEFINE T == {j \in 1 .. i : s[j].tagged}
  <1>1. CASE T = {} BY <1>1 DEF HeldD
  <1>2. CASE T # {}
    <2>1. T \subseteq Nat /\ i \in Nat /\ \A j \in T : j <= i OBVIOUS
    <2>2. Max(T) \in T BY <1>2, <2>1, MaxFacts
    <2>3. HeldD(held, s, i) = s[Max(T)].d BY <1>2 DEF HeldD
    <2>4. i \in T => Max(T) = i BY <2>1, MaxIs
    <2>5. i # 0 /\ s[i].tagged => i \in T OBVIOUS
    <2> HIDE DEF T
    <2>6. Max(T) \in 1 .. n /\ s[Max(T)].tagged BY <2>2 DEF T
    <2>7. s[Max(T)] \in Live(store) BY <2>6
    <2>8. s[Max(T)].d \in Holdable BY <2>6, <2>7 DEF Holdable
    <2>9. QED BY <2>3, <2>4, <2>5, <2>8
  <1>3. QED BY <1>1, <1>2

\* So the d tag an event is read with is one of those it may be read with.
LEMMA HeldShown ==
  ASSUME NEW S, S \subseteq Live(store), NEW n \in Nat, NEW s \in [1 .. n -> S],
         NEW held \in Holdable, NEW i \in 1 .. n
  PROVE  HeldD(held, s, i) \in Shown(s[i])
  <1>1. s[i] \in Events BY DEF Live
  <1>2. /\ HeldD(held, s, i) \in Holdable
        /\ HeldD(held, s, i) = s[i].d \/ ~s[i].tagged
    BY HeldIs
  <1>3. ~s[i].tagged => s[i].d = "" BY <1>1, EventTags
  <1>4. QED BY <1>2, <1>3 DEF Holdable, Shown

-----------------------------------------------------------------------------
(* The loop over the tags of a deletion: whatever it does, only events     *)
(* that the deletion may remove are gone.                                  *)
Removable(e) == {x \in Live(store) : MayRemove(e, x)}

Loops(e) ==
  [store : {Deleted(store, S) : S \in SUBSET Removable(e)}, held : Holdable,
   invalid : BOOLEAN]

\* Deleting more of them.
LEMMA DeleteMore ==
  ASSUME NEW e, NEW st \in {Deleted(store, S) : S \in SUBSET Removable(e)},
         NEW T, T \subseteq Removable(e)
  PROVE  Deleted(st, T) \in {Deleted(store, S) : S \in SUBSET Removable(e)}
  <1>1. PICK S \in SUBSET Removable(e) : st = Deleted(store, S) OBVIOUS
  <1>2. S \cup T \in SUBSET Removable(e) BY <1>1
  <1>3. Deleted(st, T) = Deleted(store, S \cup T) BY <1>1 DEF Deleted
  <1>4. QED BY <1>2, <1>3

\* What is live in the loop was live before.
LEMMA LoopLive ==
  ASSUME NEW e, NEW st \in {Deleted(store, S) : S \in SUBSET Removable(e)}
  PROVE  Live(st) \subseteq Live(store)
  <1>1. PICK S \in SUBSET Removable(e) : st = Deleted(store, S) OBVIOUS
  <1>2. QED BY <1>1 DEF Deleted, Live

\* An e tag.
LEMMA EventTagIn ==
  ASSUME NEW e \in Events, e.kind = 5, NEW i \in DOMAIN e.refs, e.refs[i].tag = "e",
         NEW loop \in Loops(e)
  PROVE  EventTag(e, e.refs[i], loop) \subseteq Loops(e)
  <1>1. ASSUME NEW x \in Live(loop.store), x.id = e.refs[i].id
        PROVE  /\ [loop EXCEPT !.held = HeldD(@, <<x>>, 1)] \in Loops(e)
               /\ Owns(e, x) =>
                    [[loop EXCEPT !.held = HeldD(@, <<x>>, 1)]
                       EXCEPT !.store = Deleted(@, {x})] \in Loops(e)
               /\ [[loop EXCEPT !.held = HeldD(@, <<x>>, 1)]
                      EXCEPT !.invalid = TRUE] \in Loops(e)
    <2>1. x \in Live(store) BY <1>1, LoopLive DEF Loops
    <2>2. HeldD(loop.held, <<x>>, 1) \in Holdable
      <3>1. <<x>> \in [1 .. 1 -> {x}] /\ {x} \subseteq Live(store) BY <2>1
      <3>2. 1 \in 0 .. 1 /\ 1 \in Nat /\ loop.held \in Holdable BY DEF Loops
      <3>3. QED BY <3>1, <3>2, HeldIs
    <2>3. Owns(e, x) => MayRemove(e, x)
      BY <1>1 DEF Owns, MayRemove, Justified, Names, Shown
    <2>4. Owns(e, x) =>
            Deleted(loop.store, {x}) \in {Deleted(store, S) : S \in SUBSET Removable(e)}
      <3>1. Owns(e, x) => {x} \subseteq Removable(e) BY <2>1, <2>3 DEF Removable
      <3>2. QED BY <3>1, DeleteMore DEF Loops
    <2> HIDE DEF Holdable, Removable, Deleted, HeldD
    <2>5. QED BY <2>2, <2>4 DEF Loops
  <1>2. QED BY <1>1 DEF EventTag

\* An a tag.
LEMMA AddressTagIn ==
  ASSUME NEW e \in Events, e.kind = 5, NEW i \in DOMAIN e.refs, e.refs[i].tag = "a",
         NEW loop \in Loops(e)
  PROVE  AddressTag(e, e.refs[i], loop) \subseteq Loops(e)
  <1> DEFINE ref == e.refs[i]
  <1>1. [loop EXCEPT !.invalid = TRUE] \in Loops(e) BY DEF Loops
  <1>2. ASSUME Owns(e, ref),
               NEW s \in Readings({x \in Live(loop.store) : SameAuthorKind(ref, x)}),
               NEW gone, gone \subseteq AtAddress(e, ref, loop.held, s)
        PROVE  [loop EXCEPT !.store = Deleted(@, gone), !.held = HeldD(@, s, Len(s))]
                 \in Loops(e)
    <2> DEFINE S == {x \in Live(loop.store) : SameAuthorKind(ref, x)}
    <2>1. S \subseteq Live(store) BY LoopLive DEF Loops
    <2>2. PICK n \in Nat : s \in [1 .. n -> S] BY ReadingIs DEF Live
    <2>3. loop.held \in Holdable BY DEF Loops
    <2>4. HeldD(loop.held, s, Len(s)) \in Holdable
      <3>1. Len(s) = n /\ n \in 0 .. n BY <2>2
      <3> HIDE DEF S
      <3>2. QED BY <2>1, <2>2, <2>3, <3>1, HeldIs
    <2>5. ASSUME NEW j \in 1 .. n, HeldD(loop.held, s, j) = ref.d,
                 s[j].created_at <= e.created_at
          PROVE  s[j] \in Removable(e)
      <3>1. s[j] \in S BY <2>2
      <3>2. s[j] \in Live(store) /\ s[j].kind = ref.kind /\ s[j].pubkey = ref.pubkey
        BY <2>1, <3>1 DEF SameAuthorKind
      <3>3. ref.d \in Shown(s[j])
        <4> HIDE DEF S
        <4>1. QED BY <2>1, <2>2, <2>3, <2>5, HeldShown
      <3>4. Names(e, s[j], ref.d) BY <2>5, <3>2 DEF Names
      <3>5. Justified(e, s[j], ref.d) BY <1>2, <3>2, <3>4 DEF Justified, Owns
      <3>6. QED BY <3>2, <3>3, <3>5 DEF Removable, MayRemove
    <2>6. gone \subseteq Removable(e)
      <3>1. DOMAIN s = 1 .. n BY <2>2
      <3>2. QED BY <1>2, <2>5, <3>1 DEF AtAddress
    <2>7. Deleted(loop.store, gone) \in {Deleted(store, T) : T \in SUBSET Removable(e)}
      BY <2>6, DeleteMore DEF Loops
    <2> HIDE DEF Holdable, Removable, Deleted, HeldD
    <2>8. QED BY <2>4, <2>7 DEF Loops
  <1>3. CASE ~Owns(e, ref) BY <1>1, <1>3 DEF AddressTag
  <1>4. CASE Owns(e, ref)
    <2>1. SUFFICES ASSUME NEW l \in AddressTag(e, ref, loop) PROVE l \in Loops(e)
      OBVIOUS
    <2>2. PICK s \in Readings({x \in Live(loop.store) : SameAuthorKind(ref, x)}) :
            \E gone \in SUBSET AtAddress(e, ref, loop.held, s) :
              l = [loop EXCEPT !.store = Deleted(@, gone), !.held = HeldD(@, s, Len(s))]
      BY <1>4, <2>1 DEF AddressTag
    <2>3. PICK gone \in SUBSET AtAddress(e, ref, loop.held, s) :
            l = [loop EXCEPT !.store = Deleted(@, gone), !.held = HeldD(@, s, Len(s))]
      BY <2>2
    <2>4. [loop EXCEPT !.store = Deleted(@, gone), !.held = HeldD(@, s, Len(s))]
            \in Loops(e)
      BY <1>2, <1>4
    <2>5. QED BY <2>3, <2>4
  <1>5. QED BY <1>3, <1>4

\* The whole loop.
LEMMA LoopIn ==
  ASSUME RelayTypeOK, NEW e \in Events, e.kind = 5
  PROVE  AfterTags(e) \subseteq Loops(e)
  <1> DEFINE N == Len(e.refs)
             X == SUBSET Loops(e)
             b == {[store |-> store, held |-> "", invalid |-> FALSE]}
             Step(n, L) == UNION {AfterTag(e, e.refs[n], loop) : loop \in L}
             G == [n \in 1 .. N |-> [L \in X |-> Step(n, L)]]
             Law(g) == g = [n \in 0 .. N |-> IF n = 0 THEN b ELSE Step(n, g[n - 1])]
             u == CHOOSE g : Law(g)
  <1>1. N \in Nat /\ DOMAIN e.refs = 1 .. N BY EventTags
  <1>2. b \in X
    <2>1. store = Deleted(store, {}) BY DeletedNone
    <2>2. store \in {Deleted(store, S) : S \in SUBSET Removable(e)} BY <2>1
    <2>3. "" \in Holdable BY DEF Holdable
    <2> HIDE DEF Holdable, Removable, Deleted
    <2>4. [store |-> store, held |-> "", invalid |-> FALSE] \in Loops(e)
      BY <2>2, <2>3 DEF Loops
    <2>5. QED BY <2>4
  <1>3. ASSUME NEW n \in 1 .. N, NEW L \in X PROVE Step(n, L) \in X
    <2>1. ASSUME NEW loop \in L PROVE AfterTag(e, e.refs[n], loop) \subseteq Loops(e)
      <3>1. loop \in Loops(e) /\ n \in DOMAIN e.refs BY <1>1
      <3>2. e.refs[n].tag = "e" \/ e.refs[n].tag = "a" BY <1>1, EventTags
      <3>3. QED BY <3>1, <3>2, EventTagIn, AddressTagIn DEF AfterTag
    <2>2. QED BY <2>1
  <1> HIDE DEF X, b, Step
  <1>4. G \in [1 .. N -> [X -> X]] BY <1>3
  <1>5. PICK f : Recursion(N, X, b, G, f)
    <2> HIDE DEF N, G
    <2>1. QED BY <1>1, <1>2, <1>4, RecursionExists
  <1>6. Law(f)
    <2>1. f \in [0 .. N -> X] /\ f[0] = b BY <1>5 DEF Recursion
    <2>2. ASSUME NEW n \in 1 .. N PROVE f[n] = Step(n, f[n - 1])
      <3>1. n - 1 \in 0 .. N BY <1>1
      <3>2. f[n - 1] \in X BY <2>1, <3>1
      <3>3. f[n] = G[n][f[n - 1]]
        <4> HIDE DEF G
        <4>1. QED BY <1>5 DEF Recursion
      <3>4. QED BY <3>2, <3>3
    <2> HIDE DEF N, G
    <2>3. \A n \in 0 .. N : f[n] = IF n = 0 THEN b ELSE Step(n, f[n - 1])
      BY <1>1, <2>1, <2>2
    <2>4. QED BY <2>1, <2>3
  <1>7. Law(u)
    <2> HIDE DEF Law
    <2>1. QED BY <1>6
  <1>8. AfterTags(e) = u[N] BY DEF AfterTags, b, Step
  <1> HIDE DEF u
  <1>9. u[0] = b /\ \A n \in 1 .. N : u[n] = Step(n, u[n - 1])
    <2> HIDE DEF N
    <2>1. \A n \in 0 .. N : u[n] = IF n = 0 THEN b ELSE Step(n, u[n - 1]) BY <1>7
    <2>2. QED BY <1>1, <2>1
  <1>10. \A n \in 0 .. N : u[n] \in X
    <2>1. Follows(N, X, b, G, u) BY <1>9 DEF Follows
    <2> HIDE DEF N, G
    <2>2. QED BY <1>1, <1>2, <1>4, <2>1, RecursionIn
  <1>11. QED BY <1>1, <1>8, <1>10 DEF X

\* A deletion removes what it may; it is not of a kind that has rivals.
LEMMA DeletionEffect ==
  ASSUME RelayTypeOK, NEW e \in Events, HandleDeletion(e)
  PROVE  \E S \in SUBSET Events : EventEffect(e, S)
  <1>1. e.kind = 5 BY DEF HandleDeletion, is_deletion_kind
  <1>2. gap' = gap /\ gap \in BOOLEAN BY DEF HandleDeletion, RelayTypeOK
  <1>3. \A S : Clear(e, S)
    <2>1. ~ Replaced(e.kind) /\ ~ Addressed(e.kind)
      BY <1>1, ReplacedBounds, KindsDisjoint
    <2>2. QED BY <2>1 DEF Clear, Rivals
  <1>4. CASE Rejected(e, "none") /\ UNCHANGED store
    <2>1. store' = Deleted(store, {}) BY <1>4, DeletedNone
    <2>2. Outcome(e, {}) BY <1>4, <2>1, RejectedOutcome DEF Reply
    <2>3. EventEffect(e, {}) BY <1>2, <1>3, <2>2 DEF EventEffect
    <2>4. QED BY <2>3
  <1>5. ASSUME NEW loop \in AfterTags(e),
               IF loop.invalid THEN Rejected(e, "blocked") /\ store' = loop.store
               ELSE store_and_broadcast(e, loop.store)
        PROVE  \E S \in SUBSET Events : EventEffect(e, S)
    <2>1. loop \in Loops(e) BY <1>1, LoopIn
    <2>2. PICK S \in SUBSET Removable(e) : loop.store = Deleted(store, S)
      BY <2>1 DEF Loops
    <2>3. \A x \in S : x \in Events /\ MayRemove(e, x) BY DEF Removable, Live
    <2>4. Outcome(e, S)
      <3>1. CASE Rejected(e, "blocked") /\ store' = Deleted(store, S)
        BY <3>1, RejectedOutcome DEF Reply
      <3>2. CASE store_and_broadcast(e, Deleted(store, S))
        BY <3>2, StoreAndBroadcast
      <3>3. QED BY <1>5, <2>2, <3>1, <3>2
    <2>5. EventEffect(e, S) BY <1>2, <1>3, <2>3, <2>4 DEF EventEffect
    <2>6. QED BY <2>3, <2>5
  <1>6. QED BY <1>4, <1>5 DEF HandleDeletion, process_deletion_event

\* A replaceable event removes rivals it may replace, and stores itself when
\* none is left or a gap is on record.
LEMMA ReplaceableEffect ==
  ASSUME RelayTypeOK, NEW e \in Events, HandleReplaceable(e)
  PROVE  \E S \in SUBSET Events : EventEffect(e, S)
  <1>1. is_replaceable_kind(e.kind) BY DEF HandleReplaceable
  <1>2. gap \in BOOLEAN BY DEF RelayTypeOK
  <1>3. PICK found \in Results(SameKind(e), QueryLimit) :
          IF \E x \in found : Newer(x, e)
          THEN Rejected(e, "newer") /\ UNCHANGED <<store, gap>>
          ELSE \E gone \in SUBSET found :
                 /\ store_and_broadcast(e, Deleted(store, gone))
                 /\ gap' = (gap \/ gone # SameKind(e))
    BY DEF HandleReplaceable
  <1>4. \A x \in found : x \in Events /\ SameAuthorKind(e, x)
    BY DEF Results, SameKind, Live
  <1>5. CASE \E x \in found : Newer(x, e)
    <2>1. Rejected(e, "newer") /\ UNCHANGED <<store, gap>> BY <1>3, <1>5
    <2>2. Outcome(e, {}) BY <2>1, DeletedNone, RejectedOutcome DEF Reply
    <2>3. EventEffect(e, {}) BY <1>2, <2>1, <2>2 DEF EventEffect
    <2>4. QED BY <2>3
  <1>6. CASE ~ \E x \in found : Newer(x, e)
    <2>1. PICK S \in SUBSET found :
            /\ store_and_broadcast(e, Deleted(store, S))
            /\ gap' = (gap \/ S # SameKind(e))
      BY <1>3, <1>6
    <2>2. Outcome(e, S) BY <2>1, StoreAndBroadcast
    <2>3. \A x \in S : MayRemove(e, x)
      <3>1. SUFFICES ASSUME NEW x \in S PROVE MayRemove(e, x) OBVIOUS
      <3>2. x \in Events /\ x.pubkey = e.pubkey /\ x.kind = e.kind
        BY <1>4 DEF SameAuthorKind
      <3>3. Replaced(x.kind) BY <1>1, <3>2, Kinds, EventNumbers
      <3>4. Keeps(e, x) BY <1>6, <3>2, EventNumbers DEF Newer, Keeps
      <3>5. Justified(e, x, x.d) BY <3>2, <3>3, <3>4 DEF Justified, Replaces
      <3>6. QED BY <3>5 DEF MayRemove, Shown
    <2>4. gap' \in BOOLEAN /\ (~gap' => ~gap /\ S = SameKind(e)) BY <1>2, <2>1
    <2>5. Clear(e, SameKind(e)) BY DEF Clear, SameKind, SameAuthorKind, Rivals
    <2>6. EventEffect(e, S) BY <2>2, <2>3, <2>4, <2>5 DEF EventEffect
    <2>7. QED BY <1>4, <2>6
  <1>7. QED BY <1>5, <1>6

\* An addressable event does so for what it takes for its rivals; it may
\* remove some of them and then be rejected.
LEMMA AddressableEffect ==
  ASSUME RelayTypeOK, NEW e \in Events, HandleAddressable(e)
  PROVE  \E S \in SUBSET Events : EventEffect(e, S)
  <1>1. is_addressable_kind(e.kind) BY DEF HandleAddressable
  <1>2. gap \in BOOLEAN BY DEF RelayTypeOK
  <1>a. PICK s \in Readings(SameKind(e)) : \E S \in SUBSET Passed(e, s) :
          IF Stops(e, s) # {}
          THEN Rejected(e, "newer") /\ store' = Deleted(store, S) /\ UNCHANGED gap
          ELSE /\ store_and_broadcast(e, Deleted(store, S))
               /\ gap' = (gap \/ Range(s) # SameKind(e) \/ S # Passed(e, s))
    BY DEF HandleAddressable
  <1>3. PICK S \in SUBSET Passed(e, s) :
          IF Stops(e, s) # {}
          THEN Rejected(e, "newer") /\ store' = Deleted(store, S) /\ UNCHANGED gap
          ELSE /\ store_and_broadcast(e, Deleted(store, S))
               /\ gap' = (gap \/ Range(s) # SameKind(e) \/ S # Passed(e, s))
    BY <1>a
  <1>4. SameKind(e) \subseteq Live(store) /\ SameKind(e) \subseteq Events
    BY DEF SameKind, Live
  <1>5. PICK n \in Nat : s \in [1 .. n -> SameKind(e)] BY <1>4, ReadingIs
  <1>6. DOMAIN s = 1 .. n /\ "" \in Holdable BY <1>5 DEF Holdable
  <1>7. ASSUME NEW i \in Matched(e, s), ~Newer(s[i], e)
        PROVE  s[i] \in Events /\ MayRemove(e, s[i])
    <2>1. i \in 1 .. n /\ HeldD("", s, i) = e.d BY <1>6 DEF Matched
    <2>2. s[i] \in Events /\ s[i].pubkey = e.pubkey /\ s[i].kind = e.kind
      BY <1>5, <2>1 DEF SameKind, SameAuthorKind, Live
    <2>3. e.d \in Shown(s[i]) BY <1>4, <1>5, <1>6, <2>1, HeldShown
    <2>4. Addressed(s[i].kind) BY <1>1, <2>2, Kinds, EventNumbers
    <2>5. Keeps(e, s[i]) BY <1>7, <2>2, EventNumbers DEF Newer, Keeps
    <2>6. Justified(e, s[i], e.d) BY <2>2, <2>4, <2>5 DEF Justified, Replaces
    <2>7. QED BY <2>2, <2>3, <2>6 DEF MayRemove
  <1>8. \A x \in S : x \in Events /\ MayRemove(e, x)
    <2>1. SUFFICES ASSUME NEW i \in Matched(e, s), \A k \in Stops(e, s) : i < k
                   PROVE  s[i] \in Events /\ MayRemove(e, s[i])
      BY DEF Passed
    <2>2. i \in Nat
      <3>1. i \in DOMAIN s BY DEF Matched
      <3>2. i \in 1 .. n BY <1>6, <3>1, Zenon
      <3>3. QED BY <3>2
    <2>3. i \notin Stops(e, s) BY <2>1, <2>2
    <2>4. QED BY <1>7, <2>3 DEF Stops
  <1>9. CASE Stops(e, s) # {}
    <2>1. Rejected(e, "newer") /\ store' = Deleted(store, S) /\ UNCHANGED gap
      BY <1>3, <1>9
    <2>2. Outcome(e, S) BY <2>1, RejectedOutcome DEF Reply
    <2>3. \A x \in Events : store'[x] = "live" => store[x] = "live"
      BY <2>1 DEF Deleted
    <2>4. EventEffect(e, S) BY <1>2, <1>8, <2>1, <2>2, <2>3 DEF EventEffect
    <2>5. QED BY <1>8, <2>4
  <1>10. CASE Stops(e, s) = {}
    <2>1. /\ store_and_broadcast(e, Deleted(store, S))
          /\ gap' = (gap \/ Range(s) # SameKind(e) \/ S # Passed(e, s))
      BY <1>3, <1>10
    <2>2. Outcome(e, S) BY <2>1, StoreAndBroadcast
    <2>3. /\ gap' \in BOOLEAN
          /\ ~gap' => ~gap /\ Range(s) = SameKind(e) /\ S = Passed(e, s)
      BY <1>2, <2>1
    <2>4. ASSUME Range(s) = SameKind(e), S = Passed(e, s) PROVE Clear(e, S)
      <3>1. SUFFICES ASSUME NEW x \in Live(store), Rivals(e, x), x.tagged
                     PROVE  x \in S
        BY <1>1, Kinds, EventNumbers DEF Clear
      <3>2. x.pubkey = e.pubkey /\ x.kind = e.kind /\ x.d = e.d
        <4>1. e.kind \in Int BY EventNumbers
        <4>2. ~ Replaced(e.kind) BY <1>1, <4>1, Kinds, KindsDisjoint
        <4>3. QED BY <3>1, <4>2 DEF Rivals
      <3>3. x \in Range(s) BY <2>4, <3>1, <3>2 DEF SameKind, SameAuthorKind
      <3>4. PICK i \in 1 .. n : s[i] = x BY <1>6, <3>3 DEF Range
      <3>5. HeldD("", s, i) = e.d
        <4>1. i \in 0 .. n /\ i # 0 BY <3>4
        <4>2. HeldD("", s, i) \in {s[i].d} \/ ~s[i].tagged
          BY <1>4, <1>5, <1>6, <4>1, HeldIs
        <4>3. QED BY <3>1, <3>2, <3>4, <4>2
      <3>6. i \in Matched(e, s) BY <1>6, <3>5 DEF Matched
      <3>7. QED BY <1>10, <2>4, <3>4, <3>6 DEF Passed
    <2>5. EventEffect(e, S) BY <1>8, <2>2, <2>3, <2>4 DEF EventEffect
    <2>6. QED BY <1>8, <2>5
  <1>11. QED BY <1>9, <1>10

\* Every EVENT message, whatever its kind and with or without a database,
\* has an effect of this form.
LEMMA HandlerEffect ==
  ASSUME RelayTypeOK, NEW c \in Clients, NEW e \in Events,
         handle_event_message(c, e)
  PROVE  \E S \in SUBSET Events : EventEffect(e, S)
  <1>1. gap \in BOOLEAN BY DEF RelayTypeOK
  <1>2. CASE HandleRegular(e)
    <2>1. store_and_broadcast(e, Deleted(store, {})) /\ gap' = gap
      BY <1>2, DeletedNone DEF HandleRegular
    <2>2. Outcome(e, {}) BY <2>1, StoreAndBroadcast
    <2>3. ~ Replaced(e.kind) /\ ~ Addressed(e.kind)
      BY <1>2, Kinds, EventNumbers DEF HandleRegular
    <2>4. Clear(e, {}) BY <2>3 DEF Clear, Rivals
    <2>5. EventEffect(e, {}) BY <1>1, <2>1, <2>2, <2>4 DEF EventEffect
    <2>6. QED BY <2>5
  <1>3. CASE HandleWithoutDb(e)
    <2>1. Rejected(e, "error") /\ store' = Deleted(store, {}) /\ store' = store
          /\ gap' = gap
      BY <1>3, DeletedNone DEF HandleWithoutDb
    <2>2. Outcome(e, {}) BY <2>1, RejectedOutcome DEF Reply
    <2>3. EventEffect(e, {}) BY <1>1, <2>1, <2>2 DEF EventEffect
    <2>4. QED BY <2>3
  <1>4. QED
    BY <1>2, <1>3, DeletionEffect, ReplaceableEffect, AddressableEffect
       DEF handle_event_message

-----------------------------------------------------------------------------
(* The invariant.  NothingMissed and OneCurrent are inductive together     *)
(* with the types; NoOrphans and SlotsSound describe the slots.            *)
RelayInv ==
  /\ RelayTypeOK
  /\ SlotsSound
  /\ NoOrphans
  /\ OneCurrent
  /\ NothingMissed

\* What a REQ may be answered with is stored.
LEMMA AnswersStored ==
  ASSUME NEW filters, NEW R \in Answers(filters)
  PROVE  R \subseteq Events
  BY DEF Answers, Live

\* The relay starts in the invariant.
LEMMA InitInv ==
  ASSUME RelayInit
  PROVE  RelayInv
  <1>1. Active = {} BY DEF RelayInit, SubInit, Active, Inactive
  <1>2. count = 0 /\ Cardinality({}) = 0 BY FS_EmptySet DEF RelayInit, SubInit
  <1>3. SubTypeOK
    BY SubscriptionConstants DEF RelayInit, SubInit, SubTypeOK
  <1>4. RelayTypeOK BY <1>3 DEF RelayInit, RelayTypeOK, Status, NoEvent
  <1>5. SlotsSound BY <1>1, <1>2 DEF SlotsSound
  <1>6. NoOrphans /\ NothingMissed BY <1>1 DEF NoOrphans, NothingMissed
  <1>7. Live(store) = {} BY DEF RelayInit, Live
  <1>8. OneCurrent BY <1>7 DEF OneCurrent
  <1>9. QED BY <1>4, <1>5, <1>6, <1>8 DEF RelayInv

\* EVENT.
LEMMA EventInv ==
  ASSUME RelayInv, NEW c \in Clients, NEW e \in Events,
         handle_event_message(c, e)
  PROVE  RelayInv'
  <1> USE DEF RelayInv
  <1>1. PICK S \in SUBSET Events : EventEffect(e, S) BY HandlerEffect
  <1>2. UNCHANGED <<subscriptions, count, g_db_initialized, connected, complete>>
    BY DEF handle_event_message, subVars
  <1>3. Active' = Active BY <1>2 DEF Active
  <1>4. Outcome(e, S) BY <1>1 DEF EventEffect
  <1>5. RelayTypeOK'
    BY <1>1, <1>2, <1>4 DEF RelayTypeOK, SubTypeOK, EventEffect, Outcome
  <1>6. SlotsSound' /\ NoOrphans' BY <1>2, <1>3 DEF SlotsSound, NoOrphans
  <1>7. OneCurrent'
    <2>1. SUFFICES ASSUME ~gap', NEW x \in Events, NEW y \in Events,
                          store'[x] = "live", store'[y] = "live", Rivals(x, y),
                          Addressed(x.kind) => x.tagged /\ y.tagged
                   PROVE  x = y
      BY DEF OneCurrent, Live
    <2>2. ~gap BY <1>1, <2>1 DEF EventEffect
    <2>3. \A v, w \in Events :
            /\ store[v] = "live" /\ store[w] = "live" /\ Rivals(v, w)
            /\ Addressed(v.kind) => v.tagged /\ w.tagged
            => v = w
      BY <2>2 DEF OneCurrent, Live
    <2>4. CASE \A v \in Events : store'[v] = "live" => store[v] = "live"
      BY <2>1, <2>3, <2>4
    <2>5. CASE Clear(e, S)
      <3>1. \A v \in Events : store'[v] = "live" =>
              (store[v] = "live" /\ v \notin S) \/ v = e
        BY <1>4 DEF Outcome
      <3>2. Rivals(y, x) BY <2>1 DEF Rivals
      <3>3. \A v \in Events :
              /\ store[v] = "live" /\ Rivals(e, v)
              /\ Addressed(e.kind) => e.tagged /\ v.tagged
              => v \in S
        BY <2>5 DEF Clear, Live
      <3>4. x.kind = y.kind BY <2>1 DEF Rivals
      <3>5. QED BY <2>1, <2>3, <3>1, <3>2, <3>3, <3>4
    <2>6. QED BY <1>1, <2>1, <2>4, <2>5 DEF EventEffect
  <1>8. NothingMissed'
    <2>1. SUFFICES ASSUME NEW i \in Active, complete[i], g_db_initialized,
                          NEW x \in Events, store'[x] = "live",
                          NEW f \in subscriptions[i].filters,
                          f.kinds = {} \/ x.kind \in f.kinds,
                          f.authors = {} \/ x.pubkey \in f.authors
                   PROVE  x \in known'[i]
      BY <1>2, <1>3 DEF NothingMissed, Live
    <2>2. i \in Slot BY DEF Active
    <2>3. store[x] = "live" => x \in known[i] BY <2>1 DEF NothingMissed, Live
    <2>4. CASE store[x] = "live"
      <3>1. known[i] \subseteq known'[i]
        BY <1>4, <2>2 DEF Outcome, Broadcast
      <3>2. QED BY <2>3, <2>4, <3>1
    <2>5. CASE store[x] # "live"
      <3>1. x = e /\ known' = Broadcast(e) BY <1>4, <2>1, <2>5 DEF Outcome
      <3>2. i \in Matching(e)
        BY <2>1, <3>1 DEF Matching, MatchesAny, Matches
      <3>3. QED BY <2>2, <3>1, <3>2 DEF Broadcast
    <2>6. QED BY <2>4, <2>5
  <1>9. QED BY <1>5, <1>6, <1>7, <1>8

\* REQ.
LEMMA ReqInv ==
  ASSUME RelayInv, NEW c \in Clients, NEW id \in SubIds, NEW filters \in Requests,
         handle_req_message(c, id, filters)
  PROVE  RelayInv'
  <1> USE DEF RelayInv
  <1> DEFINE i == SlotFor(c, id)
  <1>1. SubTypeOK BY DEF RelayTypeOK
  <1>2. c \in connected /\ nostr_subscription_add(c, id, filters)
    BY DEF handle_req_message
  <1>3. UNCHANGED <<g_db_initialized, store, connected, gap>> /\ last' = NoEvent
    BY DEF handle_req_message
  <1>4. /\ SubTypeOK' /\ SlotsSound'
        /\ \A j \in Active' : j # i =>
             j \in Active /\ subscriptions'[j] = subscriptions[j]
        /\ i # 0 => /\ i \in Active'
                    /\ subscriptions'[i].filters = filters
                    /\ subscriptions'[i].client_fd = c
    BY <1>1, <1>2, AddStep
  <1>5. IF i = 0 THEN UNCHANGED <<known, complete>>
        ELSE \E R \in IF g_db_initialized THEN Answers(filters) ELSE {{}} :
               /\ known' = [known EXCEPT ![i] = R]
               /\ complete' = [complete EXCEPT
                    ![i] = g_db_initialized => R = UNION {Wanted(f) : f \in filters}]
    BY DEF handle_req_message
  <1> HIDE DEF i
  <1>6. \A j \in Active' : j \in Slot /\ j # 0
    BY SubscriptionConstants DEF Active, Slot
  <1>7. NoOrphans' BY <1>2, <1>3, <1>4, <1>6 DEF NoOrphans
  <1>8. OneCurrent' BY <1>3 DEF OneCurrent, Live
  <1>9. CASE i = 0
    <2>1. known' = known /\ complete' = complete BY <1>5, <1>9
    <2>2. RelayTypeOK' BY <1>3, <1>4, <2>1 DEF RelayTypeOK, NoEvent
    <2>3. \A j \in Active' : j \in Active /\ subscriptions'[j] = subscriptions[j]
      BY <1>4, <1>6, <1>9
    <2>4. NothingMissed' BY <1>3, <2>1, <2>3 DEF NothingMissed, Live
    <2>5. QED BY <1>4, <1>7, <1>8, <2>2, <2>4
  <1>10. CASE i # 0
    <2>1. PICK R \in IF g_db_initialized THEN Answers(filters) ELSE {{}} :
            /\ known' = [known EXCEPT ![i] = R]
            /\ complete' = [complete EXCEPT
                 ![i] = g_db_initialized => R = UNION {Wanted(f) : f \in filters}]
      BY <1>5, <1>10
    <2>2. R \subseteq Events BY <2>1, AnswersStored
    <2>3. i \in Slot BY <1>4, <1>6, <1>10
    <2>4. /\ known' \in [Slot -> SUBSET Events]
          /\ complete' \in [Slot -> BOOLEAN]
      BY <2>1, <2>2 DEF RelayTypeOK
    <2>5. RelayTypeOK' BY <1>3, <1>4, <2>4 DEF RelayTypeOK, NoEvent
    <2>6. known'[i] = R BY <2>1, <2>3 DEF RelayTypeOK
    <2>7. complete'[i] /\ g_db_initialized => R = UNION {Wanted(f) : f \in filters}
      BY <2>1, <2>3 DEF RelayTypeOK
    <2>8. NothingMissed'
      <3>1. SUFFICES ASSUME NEW j \in Active', complete'[j], g_db_initialized,
                            NEW x \in Live(store),
                            NEW f \in subscriptions'[j].filters,
                            f.kinds = {} \/ x.kind \in f.kinds,
                            f.authors = {} \/ x.pubkey \in f.authors
                     PROVE  x \in known'[j]
        BY <1>3 DEF NothingMissed, Live
      <3>2. CASE j = i
        <4>1. f \in filters /\ x \in Wanted(f)
          BY <1>4, <1>10, <3>1, <3>2 DEF Wanted, Matches
        <4>2. R = UNION {Wanted(g) : g \in filters} BY <2>7, <3>1, <3>2
        <4>3. QED BY <2>6, <3>2, <4>1, <4>2
      <3>3. CASE j # i
        <4>1. j \in Active /\ subscriptions'[j] = subscriptions[j] BY <1>4, <3>3
        <4>2. j \in Slot BY <4>1 DEF Active
        <4>3. known'[j] = known[j] /\ complete'[j] = complete[j]
          BY <2>1, <3>3, <4>2 DEF RelayTypeOK
        <4>4. QED BY <3>1, <4>1, <4>3 DEF NothingMissed
      <3>4. QED BY <3>2, <3>3
    <2>9. QED BY <1>4, <1>7, <1>8, <2>5, <2>8
  <1>11. QED BY <1>9, <1>10

\* Dropping subscriptions: CLOSE, a disconnect and a restart.
LEMMA DropInv ==
  ASSUME RelayInv, SubTypeOK', SlotsSound', NoOrphans',
         \A j \in Active' : j \in Active /\ subscriptions'[j] = subscriptions[j],
         Active' = {} \/ g_db_initialized' = g_db_initialized,
         g_db_initialized' \in BOOLEAN, connected' \subseteq Clients,
         ForgetRemoved, UNCHANGED <<store, gap>>
  PROVE  RelayInv'
  <1> USE DEF RelayInv
  <1>1. \A j \in Slot : subscriptions'[j].active <=> j \in Active'
    BY DEF Active
  <1>2. /\ known' = [j \in Slot |-> IF subscriptions'[j].active THEN known[j] ELSE {}]
        /\ complete' = [j \in Slot |-> subscriptions'[j].active => complete[j]]
        /\ last' = NoEvent
    BY DEF ForgetRemoved
  <1>3. known' \in [Slot -> SUBSET Events] /\ complete' \in [Slot -> BOOLEAN]
    BY <1>2 DEF RelayTypeOK
  <1>4. RelayTypeOK' BY <1>2, <1>3 DEF RelayTypeOK, NoEvent
  <1>5. OneCurrent' BY DEF OneCurrent, Live
  <1>6. \A j \in Active' : known'[j] = known[j] /\ (complete'[j] => complete[j])
    BY <1>1, <1>2 DEF Active
  <1>7. NothingMissed'
    <2>1. SUFFICES ASSUME NEW j \in Active', complete'[j], g_db_initialized',
                          NEW x \in Live(store),
                          NEW f \in subscriptions'[j].filters,
                          f.kinds = {} \/ x.kind \in f.kinds,
                          f.authors = {} \/ x.pubkey \in f.authors
                   PROVE  x \in known'[j]
      BY DEF NothingMissed, Live
    <2>2. g_db_initialized BY <2>1
    <2>3. QED BY <1>6, <2>1, <2>2 DEF NothingMissed
  <1>8. QED BY <1>4, <1>5, <1>7

\* CLOSE.
LEMMA CloseInv ==
  ASSUME RelayInv, NEW c \in Clients, NEW id \in SubIds,
         handle_close_message(c, id)
  PROVE  RelayInv'
  <1>1. SubTypeOK /\ SlotsSound /\ NoOrphans /\ g_db_initialized \in BOOLEAN
        /\ connected \subseteq Clients
    BY DEF RelayInv, RelayTypeOK
  <1>2. /\ nostr_subscription_remove(c, id) /\ ForgetRemoved
        /\ UNCHANGED <<g_db_initialized, store, connected, gap>>
    BY DEF handle_close_message
  <1>3. /\ SubTypeOK' /\ SlotsSound'
        /\ \A j \in Active' : j \in Active /\ subscriptions'[j] = subscriptions[j]
    BY <1>1, <1>2, RemoveStep
  <1>4. NoOrphans' BY <1>1, <1>2, <1>3 DEF NoOrphans
  <1>5. QED BY <1>1, <1>2, <1>3, <1>4, DropInv

\* A client goes away.
LEMMA DisconnectInv ==
  ASSUME RelayInv, NEW c \in Clients, websocket_disconnect_callback(c)
  PROVE  RelayInv'
  <1>1. SubTypeOK /\ SlotsSound /\ NoOrphans /\ g_db_initialized \in BOOLEAN
        /\ connected \subseteq Clients
    BY DEF RelayInv, RelayTypeOK
  <1>2. /\ subscriptions' = Emptied(SlotsOf(c))
        /\ count' = count - Cardinality(SlotsOf(c))
        /\ connected' = connected \ {c}
        /\ ForgetRemoved
        /\ UNCHANGED <<g_db_initialized, store, gap>>
    BY DEF websocket_disconnect_callback, nostr_subscription_remove_client
  <1>3. SlotsOf(c) \subseteq Active BY DEF SlotsOf
  <1>4. /\ SubTypeOK' /\ SlotsSound'
        /\ Active' = Active \ SlotsOf(c)
        /\ \A j \in Active' : subscriptions'[j] = subscriptions[j]
    BY <1>1, <1>2, <1>3, EmptyStep
  <1>5. \A j \in Active' : j \in Active /\ subscriptions'[j] = subscriptions[j]
    BY <1>4
  <1>6. NoOrphans'
    <2>1. \A j \in Active' : subscriptions[j].client_fd # c
      BY <1>4 DEF SlotsOf
    <2>2. QED BY <1>1, <1>2, <1>5, <2>1 DEF NoOrphans
  <1>7. QED BY <1>1, <1>2, <1>4, <1>5, <1>6, DropInv

\* The process is stopped and started again.
LEMMA RestartInv ==
  ASSUME RelayInv, Restart
  PROVE  RelayInv'
  <1>1. Active' = {} BY DEF Restart, Active, Inactive
  <1>2. count' = 0 /\ Cardinality({}) = 0 BY FS_EmptySet DEF Restart
  <1>3. SubTypeOK' BY <1>2, SubscriptionConstants DEF Restart, SubTypeOK
  <1>4. SlotsSound' /\ NoOrphans' BY <1>1, <1>2 DEF SlotsSound, NoOrphans
  <1>5. /\ g_db_initialized' \in BOOLEAN /\ connected' \subseteq Clients
        /\ ForgetRemoved /\ UNCHANGED <<store, gap>>
    BY DEF Restart
  <1>6. QED BY <1>1, <1>3, <1>4, <1>5, DropInv

\* A client arrives, or nothing happens.
LEMMA ConnectInv ==
  ASSUME RelayInv,
         (\E c \in Clients : websocket_connect_callback(c)) \/ UNCHANGED vars
  PROVE  RelayInv'
  <1>1. /\ UNCHANGED <<subscriptions, count, g_db_initialized, store, known,
                       complete, gap>>
        /\ connected \subseteq connected' /\ connected' \subseteq Clients
        /\ last' = last \/ last' = NoEvent
    BY DEF websocket_connect_callback, vars, subVars, relayVars, RelayInv,
           RelayTypeOK
  <1>2. Active' = Active BY <1>1 DEF Active
  <1>3. RelayTypeOK' BY <1>1 DEF RelayInv, RelayTypeOK, SubTypeOK, NoEvent
  <1>4. SlotsSound' BY <1>1, <1>2 DEF RelayInv, SlotsSound
  <1>5. NoOrphans' BY <1>1, <1>2 DEF RelayInv, NoOrphans
  <1>6. OneCurrent' BY <1>1 DEF RelayInv, OneCurrent, Live
  <1>7. NothingMissed' BY <1>1, <1>2 DEF RelayInv, NothingMissed, Live
  <1>8. QED BY <1>3, <1>4, <1>5, <1>6, <1>7 DEF RelayInv

\* The invariant holds of every run of the relay.
LEMMA Invariance == RelaySpec => []RelayInv
  <1>1. RelayInit => RelayInv BY InitInv
  <1>2. RelayInv /\ [RelayNext]_vars => RelayInv'
    BY ConnectInv, EventInv, ReqInv, CloseInv, DisconnectInv, RestartInv
       DEF RelayNext
  <1>3. QED BY <1>1, <1>2, PTL DEF RelaySpec

-----------------------------------------------------------------------------
(* The theorems.                                                           *)

\* The handlers keep the types of the relay's state.
THEOREM TypeCorrect == RelaySpec => []RelayTypeOK
  <1>1. RelayInv => RelayTypeOK BY DEF RelayInv
  <1>2. QED BY <1>1, Invariance, PTL

\* One version of a replaceable or addressable event is live, unless a check
\* of the handlers worked on incomplete results.
THEOREM CurrentUnique == RelaySpec => []OneCurrent
  <1>1. RelayInv => OneCurrent BY DEF RelayInv
  <1>2. QED BY <1>1, Invariance, PTL

\* A subscriber is sent, or has published, every live event it asked for,
\* whatever arrived before, between and after its REQ.
THEOREM SubscribersMissNothing == RelaySpec => []NothingMissed
  <1>1. RelayInv => NothingMissed BY DEF RelayInv
  <1>2. QED BY <1>1, Invariance, PTL

\* The subscription count is exact and a client has one slot per id.
THEOREM SlotsAreSound == RelaySpec => []SlotsSound
  <1>1. RelayInv => SlotsSound BY DEF RelayInv
  <1>2. QED BY <1>1, Invariance, PTL

\* No subscription outlives the connection it was made on.
THEOREM SubscriptionsDieWithClient == RelaySpec => []NoOrphans
  <1>1. RelayInv => NoOrphans BY DEF RelayInv
  <1>2. QED BY <1>1, Invariance, PTL

\* No step but an EVENT message touches the store.
LEMMA OnlyEventsTouchStore ==
  ASSUME [RelayNext]_vars
  PROVE  \/ store' = store
         \/ \E c \in Clients, e \in Events : handle_event_message(c, e)
  BY DEF RelayNext, vars, relayVars, websocket_connect_callback,
         websocket_disconnect_callback, handle_req_message,
         handle_close_message, Restart

\* A deleted or replaced event never becomes live again.
THEOREM DeletedForGood == RelaySpec => Tombstones
  <1>1. ASSUME RelayInv, [RelayNext]_vars
        PROVE  \A x \in Events : store[x] = "deleted" => store'[x] = "deleted"
    <2>1. CASE store' = store BY <2>1
    <2>2. CASE \E c \in Clients, e \in Events : handle_event_message(c, e)
      BY <1>1, <2>2, HandlerEffect DEF RelayInv, EventEffect, Outcome
    <2>3. QED BY <1>1, <2>1, <2>2, OnlyEventsTouchStore
  <1>2. QED BY <1>1, Invariance, PTL DEF RelaySpec, Tombstones

\* An event is removed only by its author, through a deletion that names it
\* or a version that may replace it, with a d tag it may be read with.
THEOREM RemovedByItsAuthor == RelaySpec => RemovalsJustified
  <1>1. ASSUME RelayInv, [RelayNext]_vars
        PROVE  \A x \in Events :
                 store[x] = "live" /\ store'[x] # "live" =>
                   \E d \in Shown(x) : Justified(last'.event, x, d)
    <2> SUFFICES ASSUME NEW x \in Events, store[x] = "live", store'[x] # "live"
                 PROVE  \E d \in Shown(x) : Justified(last'.event, x, d)
      OBVIOUS
    <2>1. PICK c \in Clients, e \in Events : handle_event_message(c, e)
      BY <1>1, OnlyEventsTouchStore
    <2>2. PICK S \in SUBSET Events : EventEffect(e, S)
      BY <1>1, <2>1, HandlerEffect DEF RelayInv
    <2>3. x \in S /\ last'.event = e BY <1>1, <2>2 DEF EventEffect, Outcome
    <2>4. MayRemove(e, x) BY <1>1, <2>2, <2>3 DEF EventEffect
    <2>5. QED BY <2>3, <2>4 DEF MayRemove
  <1>2. QED BY <1>1, Invariance, PTL DEF RelaySpec, RemovalsJustified
=============================================================================
