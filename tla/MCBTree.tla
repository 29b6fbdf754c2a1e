------------------------------ MODULE MCBTree ------------------------------
(* BTree with small nodes: five keys under one root without duplicates,    *)
(* or three keys whose record ids fill several chain pages each.           *)
EXTENDS BTree
=============================================================================
