------------------------------- MODULE MCRelay -------------------------------
(* Relay with events that tie, that share a kind but not an address, that  *)
(* have no tags, and that delete the author's own events and name          *)
(* another's.                                                              *)
EXTENDS Relay, TLC

Symmetry == Permutations(Clients)

CaseFold == [id \in SubIds |-> IF id = "A" THEN "a" ELSE id]

Event(id, kind, pubkey, tagged, d, time, refs) ==
  [id |-> id, kind |-> kind, pubkey |-> pubkey, tagged |-> tagged, d |-> d,
   created_at |-> time, refs |-> refs]
EventRef(id) == [tag |-> "e", id |-> id]
AddressRef(kind, pubkey, d) == [tag |-> "a", kind |-> kind, pubkey |-> pubkey, d |-> d]

Profile == Event(1, 0, "p", FALSE, "", 2, <<>>)
Tied    == Event(2, 0, "p", TRUE, "", 2, <<>>)
Article == Event(3, 30000, "p", TRUE, "x", 1, <<>>)
Edited  == Event(4, 30000, "p", TRUE, "x", 2, <<>>)
Other   == Event(5, 30000, "p", TRUE, "y", 1, <<>>)
Delete  == Event(6, 5, "p", TRUE, "", 1,
                 <<EventRef(2), AddressRef(30000, "p", "x"), EventRef(7)>>)
Note    == Event(7, 1, "q", FALSE, "", 1, <<>>)
Untagged == Event(8, 30000, "p", FALSE, "", 1, <<>>)

\* For what is stored: one client, no subscriptions ...
StoredEvents == {Profile, Tied, Article, Edited, Other, Delete, Note, Untagged}

\* ... and for what is delivered: few events, two clients.
SentEvents == {Profile, Tied}

Filter(kinds, authors, limit) ==
  [kinds |-> kinds, authors |-> authors, limit |-> limit]

SentRequests == {{Filter({0}, {}, 9), Filter({}, {"q"}, 9)},
                 {Filter({}, {"p"}, 0)}}
=============================================================================
