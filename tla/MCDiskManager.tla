--------------------------- MODULE MCDiskManager ---------------------------
(* DiskManager on files of at most MaxPages pages; the words an owner     *)
(* writes include ones that look like page ids.                            *)
EXTENDS DiskManager
=============================================================================
