--------------------------- MODULE PageAllocator ---------------------------
(***************************************************************************)
(* What the disk layer promises its callers about page ownership: a page  *)
(* is either free or owned by exactly one caller, an allocation hands out *)
(* a page that nobody owns, a released page becomes free again, and the   *)
(* file only grows, by pages that are free.                               *)
(***************************************************************************)
EXTENDS Naturals

CONSTANTS
  InitialPages,  \* pages of a freshly created file, page 0 (the header) included
  MaxPages       \* no page id reaches this bound

VARIABLES
  free,          \* set of pages that may be handed out
  owned          \* set of pages handed out and not yet released

allocVars == <<free, owned>>

Page == 1 .. (MaxPages - 1)

AllocInit ==
  /\ free = 1 .. (InitialPages - 1)
  /\ owned = {}

\* Pages enter the file all free; growing may be a by-product of Allocate.
Grown(fresh) == fresh \subseteq Page \ (free \cup owned)

Allocate(p) ==
  \E fresh \in SUBSET Page :
    /\ Grown(fresh)
    /\ p \in free \cup fresh
    /\ free' = (free \cup fresh) \ {p}
    /\ owned' = owned \cup {p}

Release(p) ==
  /\ p \in owned
  /\ free' = free \cup {p}
  /\ owned' = owned \ {p}

Grow ==
  \E fresh \in SUBSET Page :
    /\ Grown(fresh)
    /\ free' = free \cup fresh
    /\ UNCHANGED owned

AllocNext ==
  \/ \E p \in Page : Allocate(p) \/ Release(p)
  \/ Grow

AllocSpec == AllocInit /\ [][AllocNext]_allocVars
=============================================================================
