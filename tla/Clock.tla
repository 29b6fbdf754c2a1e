------------------------------- MODULE Clock -------------------------------
(***************************************************************************)
(* The outcome of clock_evict (src/nostr/db/buffer/buffer_pool.c): the     *)
(* hand goes at most twice around the frames, skips the pinned ones,       *)
(* clears the reference bits it meets set and stops at the first unpinned  *)
(* frame whose bit is clear.  ClockLoop checks these definitions against   *)
(* the loop itself.                                                        *)
(***************************************************************************)
EXTENDS Naturals

CONSTANT PoolSize    \* number of frames

ASSUME ClockConstants == PoolSize \in Nat \ {0}

Frame == 0 .. (PoolSize - 1)

\* Mutation: pinned frames are not skipped.
UnpinnedFrames_All(pins) == Frame

UnpinnedFrames(pins) == {f \in Frame : pins[f] = 0}
ColdFrames(pins, refs) == {f \in UnpinnedFrames(pins) : ~refs[f]}

\* How far the hand has to go to reach f, and the frame of S it meets first.
Distance(f, hand) == (f + PoolSize - hand) % PoolSize
FirstMet(S, hand) == CHOOSE f \in S : \A g \in S : Distance(f, hand) <= Distance(g, hand)

\* Meaningful when some frame is unpinned.
ClockVictim(pins, refs, hand) ==
  IF ColdFrames(pins, refs) # {}
  THEN FirstMet(ColdFrames(pins, refs), hand)
  ELSE FirstMet(UnpinnedFrames(pins), hand)

\* The reference bits the hand leaves behind.
ClockRefBits(pins, refs, hand) ==
  LET v == ClockVictim(pins, refs, hand)
      passed == {f \in UnpinnedFrames(pins) :
                   ColdFrames(pins, refs) = {} \/ Distance(f, hand) < Distance(v, hand)}
  IN  [f \in Frame |-> refs[f] /\ f \notin passed]
=============================================================================
