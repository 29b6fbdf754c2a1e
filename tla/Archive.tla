------------------------------ MODULE Archive ------------------------------
(***************************************************************************)
(* What the event store promises to the relay: an event is absent, live    *)
(* or deleted; writing makes an absent one live, deleting a live one       *)
(* deleted, for good; and every call is answered by that.  Nothing is      *)
(* promised once an operation has stopped half-way.                        *)
(***************************************************************************)
CONSTANT Ids

VARIABLES
  status,      \* of each event: absent, live or deleted
  answers,     \* to a write, a deletion and a read of each event
  broken       \* an operation has stopped half-way

archiveVars == <<status, answers, broken>>

\* The answers a status calls for.  Whether an absent event can be stored is
\* left open.
Promised(s, a) ==
  /\ a.write \in CASE s = "absent" -> {"open", "invalid"} [] s = "live" -> {"duplicate"}
                   [] s = "deleted" -> {"deleted"}
  /\ a.delete = IF s = "live" THEN "ok" ELSE "not_found"
  /\ a.get = IF s = "live" THEN "ok" ELSE "not_found"

ArchiveInit ==
  /\ status = [id \in Ids |-> "absent"]
  /\ \A id \in Ids : Promised("absent", answers[id])
  /\ broken = FALSE

Store(id) ==
  /\ answers[id].write = "open"
  /\ status' = [status EXCEPT ![id] = "live"]

Delete(id) ==
  /\ answers[id].delete = "ok"
  /\ status' = [status EXCEPT ![id] = "deleted"]

ArchiveNext ==
  \/ /\ ~broken /\ UNCHANGED broken
     /\ \E id \in Ids : Store(id) \/ Delete(id)
     /\ \A id \in Ids : Promised(status'[id], answers'[id])
  \/ broken' = TRUE       \* an operation stops half-way

ArchiveSpec == ArchiveInit /\ [][ArchiveNext]_archiveVars
=============================================================================
