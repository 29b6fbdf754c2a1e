---------------------------- MODULE MCBufferPool ----------------------------
(* BufferPool with fewer frames than pages, so that every miss but the     *)
(* first ones evicts.                                                      *)
EXTENDS BufferPool
=============================================================================
