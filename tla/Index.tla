------------------------------- MODULE Index -------------------------------
(***************************************************************************)
(* What an index promises to the index manager: a table from keys to       *)
(* record ids whose operations happen completely or not at all.  A unique  *)
(* index (the id index) keeps one record id for a key, the others keep as  *)
(* many as were entered, the same one several times if an event repeats a  *)
(* tag.  Nothing is promised once an operation has stopped half-way.       *)
(***************************************************************************)
EXTENDS Naturals

CONSTANTS Keys, Rids

VARIABLES
  mode,        \* "unique" or "dup"
  table,       \* copies of each record id under each key
  broken,      \* an operation has stopped half-way
  reply        \* the last operation, what it returned and whether a call it made may have failed

indexVars == <<mode, table, broken, reply>>

NoEntry == [k \in Keys |-> [r \in Rids |-> 0]]
\* What was to be entered or deleted is part of the reply.
Reply(op, entry, ret, fault) == [op |-> op, entry |-> entry, ret |-> ret, fault |-> fault]

IndexInit ==
  /\ mode \in {"unique", "dup"}
  /\ table = NoEntry
  /\ broken = FALSE
  /\ reply = Reply("none", <<>>, "ok", FALSE)

\* One copy of r more under k, where a unique index had nothing.
Enter(k, r) ==
  /\ mode = "unique" => \A x \in Rids : table[k][x] = 0
  /\ table' = [table EXCEPT ![k][r] = @ + 1]
  /\ reply'.op = "insert" /\ reply'.entry = <<k, r>> /\ reply'.ret = "ok"

Remove(k, r) ==
  /\ table[k][r] > 0
  /\ table' = [table EXCEPT ![k][r] = @ - 1]
  /\ reply'.op = "delete" /\ reply'.entry = <<k, r>> /\ reply'.ret = "ok"

\* A refusal changes nothing.  Only a key that is there is a duplicate, and
\* where duplicates are kept only after a failed read; an entry that is
\* there is found unless a read failed.
Refuse(k, r) ==
  /\ UNCHANGED table
  /\ \/ /\ reply'.op = "insert" /\ reply'.entry = <<k, r>>
        /\ \/ reply'.ret = "full"
           \/ reply'.ret = "not_found" /\ reply'.fault
           \/ /\ reply'.ret = "duplicate" /\ (mode = "dup" => reply'.fault)
              /\ \E x \in Rids : table[k][x] > 0
     \/ /\ reply'.op = "delete" /\ reply'.entry = <<k, r>>
        /\ reply'.ret = "not_found" /\ (table[k][r] = 0 \/ reply'.fault)

Reopen == UNCHANGED <<table, reply>>

IndexNext ==
  \/ /\ ~broken /\ UNCHANGED <<mode, broken>>
     /\ \/ \E k \in Keys, r \in Rids : Enter(k, r) \/ Remove(k, r) \/ Refuse(k, r)
        \/ Reopen
  \/ broken' = TRUE       \* an operation stops half-way

IndexSpec == IndexInit /\ [][IndexNext]_indexVars
=============================================================================
