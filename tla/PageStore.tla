----------------------------- MODULE PageStore -----------------------------
(***************************************************************************)
(* What the buffer pool promises the record and index layers: an array of  *)
(* pages.  A new page is zeroed, a page keeps what was last written to it; *)
(* caching, eviction, flushing and restarts are invisible, but for pages   *)
(* that a shutdown could not write: these are lost, and nothing is         *)
(* promised of them any more.                                              *)
(***************************************************************************)
EXTENDS Naturals

CONSTANTS
  PageId,    \* ids a page may have
  Words      \* what may be written to a page

VARIABLES
  inUse,     \* pages that exist
  content,   \* what each of them holds that is not lost; 0 for the others
  lost       \* pages that were lost

storeVars == <<inUse, content, lost>>

StoreInit ==
  /\ inUse = {}
  /\ content = [p \in PageId |-> 0]
  /\ lost = {}

New(p) ==
  /\ p \notin inUse
  /\ inUse' = inUse \cup {p}
  /\ content' = [content EXCEPT ![p] = 0]
  /\ UNCHANGED lost

Put(p, w) ==
  /\ p \in inUse \ lost
  /\ content' = [content EXCEPT ![p] = w]
  /\ UNCHANGED <<inUse, lost>>

\* A shutdown during which the writes of the pages in L fail.
Close(L) ==
  /\ lost' = lost \cup L
  /\ content' = [p \in PageId |-> IF p \in L THEN 0 ELSE content[p]]
  /\ UNCHANGED inUse

StoreNext ==
  \/ \E p \in PageId : New(p) \/ \E w \in Words : Put(p, w)
  \/ \E L \in SUBSET inUse : Close(L)

StoreSpec == StoreInit /\ [][StoreNext]_storeVars
=============================================================================
