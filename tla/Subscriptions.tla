--------------------------- MODULE Subscriptions ---------------------------
(***************************************************************************)
(* The subscription manager (src/nostr/subscription/nostr_subscription.c): *)
(* a fixed array of slots shared by all clients, and a count of the slots  *)
(* in use.  A slot belongs to a client socket and a subscription id; ids   *)
(* are compared by a strncmp that ignores case, which Fold stands for.     *)
(*                                                                         *)
(* A filter selects events by kind and author, an empty set for any; what  *)
(* a filter does with ids, times, tags and prefixes is left out.           *)
(***************************************************************************)
EXTENDS Integers, FiniteSets

CONSTANTS
  Clients,       \* client sockets: a number is used again once it is closed
  SubIds,        \* subscription ids
  Fold,          \* the id with its case ignored
  MaxSubs,       \* NOSTR_SUBSCRIPTION_MAX_COUNT, 256
  Requests       \* the filters REQ messages carry: sets of filters

ASSUME SubscriptionConstants ==
  /\ Fold \in [SubIds -> SubIds]
  /\ MaxSubs \in Nat \ {0}

VARIABLES
  subscriptions, \* the slots
  count          \* manager->count

subVars == <<subscriptions, count>>

Slot == 1 .. MaxSubs

\* A slot of zeroes: what mmap and memset leave.
Inactive == [active |-> FALSE]
Subscription ==
  [active : {TRUE}, client_fd : Clients, subscription_id : SubIds,
   filters : Requests]

SubTypeOK ==
  /\ subscriptions \in [Slot -> Subscription \cup {Inactive}]
  /\ count \in 0 .. MaxSubs

\* nostr_subscription_manager_init
SubInit ==
  /\ subscriptions = [i \in Slot |-> Inactive]
  /\ count = 0

-----------------------------------------------------------------------------
Active == {i \in Slot : subscriptions[i].active}
SlotsOf(c) == {i \in Active : subscriptions[i].client_fd = c}

\* A mutant that compares ids as they are written.
Holding_Exact(c, id) ==
  {i \in SlotsOf(c) : subscriptions[i].subscription_id = id}

\* The slots of client c that hold subscription id, ignoring case.
Holding(c, id) ==
  {i \in SlotsOf(c) : Fold[subscriptions[i].subscription_id] = Fold[id]}

First(S) == CHOOSE i \in S : \A j \in S : i <= j

(* nostr_subscription_add: the slot it returns, 0 for none.  An existing   *)
(* subscription is updated and keeps the id it was made with; a new one    *)
(* takes the first inactive slot.                                          *)
SlotFor(c, id) ==
  IF Holding(c, id) # {} THEN First(Holding(c, id))
  ELSE IF Active # Slot THEN First(Slot \ Active)
  ELSE 0

nostr_subscription_add(c, id, filters) ==
  LET i == SlotFor(c, id) IN
  IF i = 0 THEN UNCHANGED subVars
  ELSE IF i \in Active
  THEN /\ subscriptions' = [subscriptions EXCEPT ![i].filters = filters]
       /\ UNCHANGED count
  ELSE /\ subscriptions' =
            [subscriptions EXCEPT ![i] =
               [active |-> TRUE, client_fd |-> c, subscription_id |-> id,
                filters |-> filters]]
       /\ count' = count + 1

Emptied(S) ==
  [i \in Slot |-> IF i \in S THEN Inactive ELSE subscriptions[i]]

\* A mutant that counts down whether or not it found the subscription.
nostr_subscription_remove_Always(c, id) ==
  /\ subscriptions' =
       IF Holding(c, id) = {} THEN subscriptions
       ELSE Emptied({First(Holding(c, id))})
  /\ count' = count - 1

\* nostr_subscription_remove: the first slot that holds the subscription.
nostr_subscription_remove(c, id) ==
  IF Holding(c, id) = {} THEN UNCHANGED subVars
  ELSE /\ subscriptions' = Emptied({First(Holding(c, id))})
       /\ count' = count - 1

\* A mutant that stops after the first slot, as nostr_subscription_remove does.
nostr_subscription_remove_client_First(c) ==
  IF SlotsOf(c) = {} THEN UNCHANGED subVars
  ELSE /\ subscriptions' = Emptied({First(SlotsOf(c))})
       /\ count' = count - 1

\* nostr_subscription_remove_client: every slot of the client.
nostr_subscription_remove_client(c) ==
  /\ subscriptions' = Emptied(SlotsOf(c))
  /\ count' = count - Cardinality(SlotsOf(c))

-----------------------------------------------------------------------------
\* nostr_filter_matches and nostr_subscription_matches_event
Matches(f, e) ==
  /\ f.kinds = {} \/ e.kind \in f.kinds
  /\ f.authors = {} \/ e.pubkey \in f.authors

\* A mutant in which every filter of the subscription must match.
MatchesAny_All(filters, e) == \A f \in filters : Matches(f, e)

MatchesAny(filters, e) == \E f \in filters : Matches(f, e)

\* nostr_subscription_find_matching
Matching(e) == {i \in Active : MatchesAny(subscriptions[i].filters, e)}
=============================================================================
