----------------------------- MODULE ClockLoop -----------------------------
(***************************************************************************)
(* The loop of clock_evict, one step per iteration, from any pin counts,   *)
(* reference bits and position of the hand.                                *)
(***************************************************************************)
EXTENDS Clock

VARIABLES
  pinned,        \* pin_counts, reduced to zero or one
  ref_bits,
  clock_hand,
  scan,          \* iterations done
  result,        \* "looping", "none" or the victim
  before         \* history: reference bits and hand at the call

loopVars == <<pinned, ref_bits, clock_hand, scan, result, before>>

\* Mutation: one round only.
MaxScan_OneRound == PoolSize

MaxScan == PoolSize * 2

Advance(hand) == (hand + 1) % PoolSize

LoopInit ==
  /\ pinned \in [Frame -> {0, 1}]
  /\ ref_bits \in [Frame -> BOOLEAN]
  /\ clock_hand \in Frame
  /\ scan = 0
  /\ result = <<"looping", 0>>
  /\ before = <<ref_bits, clock_hand>>

\* One iteration of the for loop at the frame under the hand.
Iterate ==
  /\ result[1] = "looping"
  /\ scan < MaxScan
  /\ scan' = scan + 1
  /\ clock_hand' = Advance(clock_hand)
  /\ LET frame == clock_hand IN
       \/ /\ pinned[frame] > 0
          /\ UNCHANGED <<ref_bits, result>>
       \/ /\ pinned[frame] = 0 /\ ref_bits[frame]
          /\ ref_bits' = [ref_bits EXCEPT ![frame] = FALSE]
          /\ UNCHANGED result
       \/ /\ pinned[frame] = 0 /\ ~ref_bits[frame]
          /\ result' = <<"victim", frame>>
          /\ UNCHANGED ref_bits
  /\ UNCHANGED <<pinned, before>>

AllPinned ==
  /\ result[1] = "looping"
  /\ scan = MaxScan
  /\ result' = <<"none", 0>>
  /\ UNCHANGED <<pinned, ref_bits, clock_hand, scan, before>>

LoopNext == Iterate \/ AllPinned

LoopSpec == LoopInit /\ [][LoopNext]_loopVars

-----------------------------------------------------------------------------
\* OUTCOME.  The loop ends with the victim, bits and hand that Clock gives,
\* and reports that every frame is pinned exactly when that is so: two
\* rounds are enough.
OutcomeAsDefined ==
  /\ result[1] = "none" =>
       UnpinnedFrames(pinned) = {} /\ <<ref_bits, clock_hand>> = before
  /\ result[1] = "victim" =>
       /\ UnpinnedFrames(pinned) # {}
       /\ result[2] = ClockVictim(pinned, before[1], before[2])
       /\ ref_bits = ClockRefBits(pinned, before[1], before[2])
       /\ clock_hand = (result[2] + 1) % PoolSize

=============================================================================
