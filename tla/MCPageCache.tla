---------------------------- MODULE MCPageCache ----------------------------
(* The two data structures of the buffer pool on their own: the loop of    *)
(* clock_evict from every state of the frames, and the page table with     *)
(* every hash function.                                                    *)
EXTENDS ClockLoop, FrameTable

VARIABLE part     \* the one that is exercised: "clock" or "table"

cacheVars == <<loopVars, tableVars, part>>

ClockAtRest ==
  /\ pinned = [f \in Frame |-> 0] /\ ref_bits = [f \in Frame |-> FALSE] /\ clock_hand = 0
  /\ scan = 0 /\ result = <<"looping", 0>> /\ before = <<ref_bits, clock_hand>>

TableAtRest ==
  /\ home = [p \in Pages |-> 0]
  /\ hash_table = [i \in Slot |-> NoFrame]
  /\ page_ids = [f \in Frame |-> 0]
  /\ mapping = [p \in Pages |-> NoFrame]

CacheInit ==
  \/ part = "clock" /\ LoopInit /\ TableAtRest
  \/ part = "table" /\ TableInit /\ ClockAtRest

CacheNext ==
  /\ UNCHANGED part
  /\ \/ part = "clock" /\ LoopNext /\ UNCHANGED tableVars
     \/ part = "table" /\ TableNext /\ UNCHANGED loopVars

CacheSpec == CacheInit /\ [][CacheNext]_cacheVars
=============================================================================
