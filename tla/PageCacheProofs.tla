-------------------------- MODULE PageCacheProofs --------------------------
(***************************************************************************)
(* The buffer pool's clock and page table, for any number of frames, any   *)
(* set of pages and any hash function: the loop of clock_evict has the     *)
(* outcome Clock defines, and the open addressing table with its shifting  *)
(* deletion is the function from pages to frames that BufferPool uses.     *)
(***************************************************************************)
EXTENDS ClockLoop, FrameTable, NatFacts

-----------------------------------------------------------------------------
(* clock_evict.                                                            *)

StartBits == before[1]
StartHand == before[2]

\* How far the hand had to go to f when the loop began.
Far(f) == Distance(f, StartHand)

LoopTypeOK ==
  /\ pinned \in [Frame -> {0, 1}] /\ ref_bits \in [Frame -> BOOLEAN] /\ clock_hand \in Frame
  /\ scan \in 0 .. MaxScan
  /\ result \in {<<"looping", 0>>, <<"none", 0>>} \cup {<<"victim", f>> : f \in Frame}
  /\ before = <<StartBits, StartHand>> /\ StartBits \in [Frame -> BOOLEAN] /\ StartHand \in Frame

\* The hand is scan frames further on, once or twice around.
HandMoved == \E turns \in {0, 1, 2} : clock_hand + turns * PoolSize = StartHand + scan

\* While the loop goes on: an unpinned frame it met had its bit set and has it
\* cleared, and the frames it met twice are pinned.
Cleared ==
  /\ \A f \in Frame : ref_bits[f] = (StartBits[f] /\ ~(pinned[f] = 0 /\ Far(f) < scan))
  /\ \A f \in Frame : pinned[f] = 0 /\ Far(f) < scan => StartBits[f]
  /\ \A f \in Frame : Far(f) + PoolSize < scan => pinned[f] # 0

LoopInv ==
  /\ LoopTypeOK /\ HandMoved
  /\ result[1] = "looping" => Cleared
  /\ OutcomeAsDefined

\* The distance without remainders.
LEMMA DistanceFacts ==
  ASSUME NEW f \in Frame, NEW h \in Frame
  PROVE  /\ Distance(f, h) = IF f >= h THEN f - h ELSE f + PoolSize - h
         /\ Distance(f, h) \in 0 .. (PoolSize - 1)
  <1>1. PoolSize \in Nat \ {0} /\ f \in 0 .. (PoolSize - 1) /\ h \in 0 .. (PoolSize - 1)
    BY ClockConstants DEF Frame
  <1>2. CASE f >= h
    <2>1. f + PoolSize - h \in PoolSize .. (2 * PoolSize - 1) BY <1>1, <1>2
    <2> DEFINE x == f + PoolSize - h
    <2>2. x % PoolSize = x - PoolSize
      <3> HIDE DEF x
      <3>1. \A y \in PoolSize .. (2 * PoolSize - 1) : y % PoolSize = y - PoolSize BY <1>1, ModFacts
      <3>2. x \in PoolSize .. (2 * PoolSize - 1) BY <2>1 DEF x
      <3>3. QED BY <3>1, <3>2
    <2>3. QED BY <1>1, <1>2, <2>2 DEF Distance
  <1>3. CASE ~(f >= h)
    <2>1. f + PoolSize - h \in 0 .. (PoolSize - 1) BY <1>1, <1>3
    <2>2. (f + PoolSize - h) % PoolSize = f + PoolSize - h BY <1>1, <2>1, ModFacts
    <2>3. QED BY <1>1, <1>3, <2>2 DEF Distance
  <1>4. QED BY <1>2, <1>3

\* Different frames are at different distances.
LEMMA DistanceApart ==
  ASSUME NEW h \in Frame
  PROVE  \A f, g \in Frame : Distance(f, h) = Distance(g, h) => f = g
  <1> SUFFICES ASSUME NEW f \in Frame, NEW g \in Frame, f # g PROVE Distance(f, h) # Distance(g, h)
    OBVIOUS
  <1>1. /\ PoolSize \in Nat \ {0} /\ f \in 0 .. (PoolSize - 1) /\ g \in 0 .. (PoolSize - 1)
        /\ h \in 0 .. (PoolSize - 1)
    BY ClockConstants DEF Frame
  <1>2. /\ Distance(f, h) = IF f >= h THEN f - h ELSE f + PoolSize - h
        /\ Distance(g, h) = IF g >= h THEN g - h ELSE g + PoolSize - h
    BY DistanceFacts
  <1>3. QED BY <1>1, <1>2

LEMMA AdvanceFacts ==
  ASSUME NEW h \in Frame
  PROVE  /\ Advance(h) \in Frame
         /\ Advance(h) = IF h = PoolSize - 1 THEN 0 ELSE h + 1
  <1>1. PoolSize \in Nat \ {0} /\ h \in 0 .. (PoolSize - 1) BY ClockConstants DEF Frame
  <1>2. CASE h = PoolSize - 1
    <2>1. h + 1 \in PoolSize .. (2 * PoolSize - 1) BY <1>1, <1>2
    <2> DEFINE x == h + 1
    <2>2. x % PoolSize = x - PoolSize
      <3> HIDE DEF x
      <3>1. \A y \in PoolSize .. (2 * PoolSize - 1) : y % PoolSize = y - PoolSize BY <1>1, ModFacts
      <3>2. x \in PoolSize .. (2 * PoolSize - 1) BY <2>1 DEF x
      <3>3. QED BY <3>1, <3>2
    <2>3. QED BY <1>1, <1>2, <2>2 DEF Advance, Frame
  <1>3. CASE h # PoolSize - 1
    <2>1. h + 1 \in 0 .. (PoolSize - 1) BY <1>1, <1>3
    <2>2. (h + 1) % PoolSize = h + 1 BY <1>1, <2>1, ModFacts
    <2>3. QED BY <1>1, <1>3, <2>1, <2>2 DEF Advance, Frame
  <1>4. QED BY <1>2, <1>3

\* The frame of S that is nearest is the one met first.
LEMMA FirstMetIs ==
  ASSUME NEW S \in SUBSET Frame, NEW h \in Frame, NEW f \in S,
         \A g \in S : Distance(f, h) <= Distance(g, h)
  PROVE  FirstMet(S, h) = f
  <1>1. FirstMet(S, h) \in S /\ \A g \in S : Distance(FirstMet(S, h), h) <= Distance(g, h)
    BY DEF FirstMet
  <1> DEFINE m == FirstMet(S, h)
  <1>2. Distance(m, h) <= Distance(f, h) /\ Distance(f, h) <= Distance(m, h) /\ m \in Frame
    BY <1>1
  <1> HIDE DEF m
  <1>3. PoolSize \in Nat /\ f \in 0 .. (PoolSize - 1) /\ m \in 0 .. (PoolSize - 1) /\ h \in 0 .. (PoolSize - 1)
    BY <1>2, ClockConstants DEF Frame
  <1>4. /\ Distance(f, h) = IF f >= h THEN f - h ELSE f + PoolSize - h
        /\ Distance(m, h) = IF m >= h THEN m - h ELSE m + PoolSize - h
    BY <1>2, DistanceFacts
  <1>5. m = f BY <1>2, <1>3, <1>4
  <1>6. QED BY <1>5 DEF m

\* Where the hand is, seen from the start.
LEMMA HandFacts ==
  ASSUME LoopTypeOK, HandMoved, scan < MaxScan
  PROVE  Far(clock_hand) = IF scan < PoolSize THEN scan ELSE scan - PoolSize
  <1>1. /\ PoolSize \in Nat \ {0} /\ clock_hand \in 0 .. (PoolSize - 1)
        /\ StartHand \in 0 .. (PoolSize - 1) /\ scan \in 0 .. (2 * PoolSize)
    BY ClockConstants DEF LoopTypeOK, Frame, MaxScan
  <1>2. Far(clock_hand) = IF clock_hand >= StartHand THEN clock_hand - StartHand
                          ELSE clock_hand + PoolSize - StartHand
    BY DistanceFacts DEF LoopTypeOK, Far
  <1>3. \/ clock_hand = StartHand + scan
        \/ clock_hand + PoolSize = StartHand + scan
        \/ clock_hand + 2 * PoolSize = StartHand + scan
    BY <1>1 DEF HandMoved
  <1>4. scan < 2 * PoolSize BY <1>1 DEF MaxScan
  <1>5. QED BY <1>1, <1>2, <1>3, <1>4

\* The victim.
LEMMA VictimOutcome ==
  ASSUME LoopTypeOK, HandMoved, Cleared, scan < MaxScan,
         pinned[clock_hand] = 0, ~ref_bits[clock_hand]
  PROVE  /\ UnpinnedFrames(pinned) # {}
         /\ clock_hand = ClockVictim(pinned, StartBits, StartHand)
         /\ ref_bits = ClockRefBits(pinned, StartBits, StartHand)
  <1> DEFINE v == clock_hand
             U == UnpinnedFrames(pinned)
             C == ColdFrames(pinned, StartBits)
  <1>1. /\ v \in U /\ U \subseteq Frame /\ C \subseteq Frame /\ v \in Frame /\ StartHand \in Frame
        /\ \A f : f \in U <=> f \in Frame /\ pinned[f] = 0
        /\ \A f : f \in C <=> f \in U /\ ~StartBits[f]
    BY DEF UnpinnedFrames, ColdFrames, LoopTypeOK
  <1>2. \A f \in Frame : Far(f) \in 0 .. (PoolSize - 1) BY <1>1, DistanceFacts DEF Far
  <1>3. PoolSize \in Nat \ {0} /\ scan \in Nat /\ scan < 2 * PoolSize
    BY ClockConstants DEF LoopTypeOK, MaxScan
  <1>4. Far(v) = IF scan < PoolSize THEN scan ELSE scan - PoolSize BY HandFacts
  <1>5. ref_bits \in [Frame -> BOOLEAN] /\ StartBits \in [Frame -> BOOLEAN] BY DEF LoopTypeOK
  <1>6. ref_bits = [f \in Frame |-> ref_bits[f]] BY <1>5
  <1> HIDE DEF v, U, C
  <1>7. CASE scan < PoolSize
    <2>1. Far(v) = scan BY <1>4, <1>7
    <2>2. v \in C
      <3>1. ref_bits[v] = (StartBits[v] /\ ~(pinned[v] = 0 /\ Far(v) < scan)) BY <1>1 DEF Cleared
      <3>2. ~(Far(v) < scan) BY <1>3, <2>1
      <3>3. ~StartBits[v] BY <1>1, <1>5, <3>1, <3>2 DEF v
      <3>4. QED BY <1>1, <3>3
    <2>3. \A g \in C : Far(v) <= Far(g)
      <3> SUFFICES ASSUME NEW g \in C, ~(Far(v) <= Far(g)) PROVE FALSE OBVIOUS
      <3>1. g \in Frame /\ pinned[g] = 0 /\ ~StartBits[g] BY <1>1
      <3>2. Far(g) < scan BY <1>2, <1>3, <2>1, <3>1
      <3>3. QED BY <3>1, <3>2 DEF Cleared
    <2>4. FirstMet(C, StartHand) = v BY <1>1, <2>2, <2>3, FirstMetIs DEF Far
    <2>5. ClockVictim(pinned, StartBits, StartHand) = v BY <2>2, <2>4 DEF ClockVictim, C
    <2>6. ClockRefBits(pinned, StartBits, StartHand)
            = [f \in Frame |-> StartBits[f] /\ f \notin {g \in U : C = {} \/ Far(g) < Far(v)}]
      BY <2>5 DEF ClockRefBits, U, C, Far
    <2>7. \A f \in Frame : ref_bits[f] = (StartBits[f] /\ f \notin {g \in U : C = {} \/ Far(g) < Far(v)})
      BY <1>1, <2>1, <2>2 DEF Cleared
    <2>8. ref_bits = ClockRefBits(pinned, StartBits, StartHand) BY <1>6, <2>6, <2>7
    <2>9. QED BY <1>1, <2>5, <2>8 DEF v, U
  <1>8. CASE ~(scan < PoolSize)
    <2>1. Far(v) = scan - PoolSize BY <1>4, <1>8
    <2>2. \A f \in Frame : Far(f) < scan BY <1>2, <1>3, <1>8
    <2>3. C = {} BY <1>1, <2>2 DEF Cleared
    <2>4. \A g \in U : Far(v) <= Far(g)
      <3> SUFFICES ASSUME NEW g \in U, ~(Far(v) <= Far(g)) PROVE FALSE OBVIOUS
      <3>1. g \in Frame /\ pinned[g] = 0 BY <1>1
      <3>2. Far(g) + PoolSize < scan BY <1>2, <1>3, <2>1, <3>1
      <3>3. QED BY <3>1, <3>2 DEF Cleared
    <2>5. FirstMet(U, StartHand) = v BY <1>1, <2>4, FirstMetIs DEF Far
    <2>6. ClockVictim(pinned, StartBits, StartHand) = v BY <2>3, <2>5 DEF ClockVictim, C, U
    <2>7. ClockRefBits(pinned, StartBits, StartHand) = [f \in Frame |-> StartBits[f] /\ f \notin U]
      BY <2>3 DEF ClockRefBits, U, C
    <2>8. \A f \in Frame : ref_bits[f] = (StartBits[f] /\ f \notin U)
      BY <1>1, <2>2 DEF Cleared
    <2>9. ref_bits = ClockRefBits(pinned, StartBits, StartHand) BY <1>6, <2>7, <2>8
    <2>10. QED BY <1>1, <2>6, <2>9 DEF v, U
  <1>9. QED BY <1>7, <1>8

LEMMA LoopInitInv == LoopInit => LoopInv
  <1> SUFFICES ASSUME LoopInit PROVE LoopInv OBVIOUS
  <1>1. StartBits = ref_bits /\ StartHand = clock_hand /\ scan = 0 /\ result = <<"looping", 0>>
    BY DEF LoopInit, StartBits, StartHand
  <1>2. PoolSize \in Nat \ {0} /\ MaxScan \in Nat BY ClockConstants DEF MaxScan
  <1>3. LoopTypeOK BY <1>1, <1>2 DEF LoopInit, LoopTypeOK
  <1>4. clock_hand \in Nat BY DEF LoopInit, Frame
  <1>5. HandMoved BY <1>1, <1>2, <1>4 DEF HandMoved
  <1>6. Cleared
    <2>1. \A f \in Frame : Far(f) \in 0 .. (PoolSize - 1) BY <1>1, <1>3, DistanceFacts DEF Far, LoopTypeOK
    <2>2. \A f \in Frame : ~(Far(f) < scan) /\ ~(Far(f) + PoolSize < scan) BY <1>1, <1>2, <2>1
    <2>3. QED BY <1>1, <1>3, <2>2 DEF Cleared, LoopTypeOK
  <1>7. OutcomeAsDefined BY <1>1 DEF OutcomeAsDefined
  <1>8. QED BY <1>3, <1>5, <1>6, <1>7 DEF LoopInv

\* One iteration.
LEMMA IterateInv == ASSUME LoopInv, Iterate PROVE LoopInv'
  <1> DEFINE v == clock_hand
  <1>1. /\ LoopTypeOK /\ HandMoved /\ Cleared /\ scan < MaxScan /\ scan' = scan + 1
        /\ clock_hand' = Advance(v) /\ pinned' = pinned /\ before' = before /\ result[1] = "looping"
    BY DEF LoopInv, Iterate
  <1>2. StartBits' = StartBits /\ StartHand' = StartHand BY <1>1 DEF StartBits, StartHand
  <1>3. \A f : Far(f)' = Far(f) BY <1>2 DEF Far
  <1>4. /\ PoolSize \in Nat \ {0} /\ v \in Frame /\ StartHand \in Frame /\ scan \in Nat
        /\ scan < 2 * PoolSize /\ MaxScan \in Nat /\ pinned \in [Frame -> {0, 1}]
        /\ ref_bits \in [Frame -> BOOLEAN] /\ StartBits \in [Frame -> BOOLEAN]
    BY <1>1, ClockConstants DEF LoopTypeOK, MaxScan
  <1>5. v \in 0 .. (PoolSize - 1) /\ StartHand \in 0 .. (PoolSize - 1) BY <1>4 DEF Frame
  <1>6. Advance(v) \in Frame /\ Advance(v) = IF v = PoolSize - 1 THEN 0 ELSE v + 1
    BY <1>4, AdvanceFacts
  <1>7. Far(v) = IF scan < PoolSize THEN scan ELSE scan - PoolSize BY <1>1, HandFacts
  <1>8. \A f \in Frame : Far(f) \in 0 .. (PoolSize - 1) BY <1>4, DistanceFacts DEF Far
  <1>9. \A f \in Frame : Far(f) = Far(v) => f = v BY <1>4, DistanceApart DEF Far
  <1>10. HandMoved'
    <2>1. \/ v = StartHand + scan \/ v + PoolSize = StartHand + scan
          \/ v + 2 * PoolSize = StartHand + scan
      BY <1>1, <1>4, <1>5 DEF HandMoved
    <2>2. \/ Advance(v) = StartHand + (scan + 1)
          \/ Advance(v) + PoolSize = StartHand + (scan + 1)
          \/ Advance(v) + 2 * PoolSize = StartHand + (scan + 1)
      BY <1>4, <1>5, <1>6, <2>1
    <2>3. QED BY <1>1, <1>2, <1>4, <1>5, <1>6, <2>2 DEF HandMoved
  <1>11. scan' \in 0 .. MaxScan BY <1>1, <1>4
  <1>12. MaxScan' = MaxScan BY DEF MaxScan
  <1>13. ASSUME NEW f \in Frame PROVE /\ Far(f) < scan + 1 <=> (Far(f) < scan \/ f = v)
                                      /\ Far(f) + PoolSize < scan + 1 =>
                                           (Far(f) + PoolSize < scan \/ (f = v /\ scan >= PoolSize))
    BY <1>4, <1>7, <1>8, <1>9
  <1> HIDE DEF v
  <1>14. CASE pinned[v] > 0 /\ UNCHANGED <<ref_bits, result>>
    <2>1. pinned[v] # 0 BY <1>4, <1>14
    <2>2. Cleared'
      <3>1. \A f \in Frame : ref_bits[f] = (StartBits[f] /\ ~(pinned[f] = 0 /\ Far(f) < scan + 1))
        BY <1>1, <1>13, <2>1 DEF Cleared
      <3>2. \A f \in Frame : pinned[f] = 0 /\ Far(f) < scan + 1 => StartBits[f]
        BY <1>1, <1>13, <2>1 DEF Cleared
      <3>3. \A f \in Frame : Far(f) + PoolSize < scan + 1 => pinned[f] # 0
        BY <1>1, <1>13, <2>1 DEF Cleared
      <3>4. QED BY <1>1, <1>2, <1>3, <1>14, <3>1, <3>2, <3>3 DEF Cleared
    <2>3. LoopTypeOK' BY <1>1, <1>2, <1>4, <1>6, <1>11, <1>12, <1>14 DEF LoopTypeOK
    <2>4. OutcomeAsDefined' BY <1>1, <1>14 DEF OutcomeAsDefined
    <2>5. QED BY <1>10, <2>2, <2>3, <2>4 DEF LoopInv
  <1>15. CASE /\ pinned[v] = 0 /\ ref_bits[v]
              /\ ref_bits' = [ref_bits EXCEPT ![v] = FALSE] /\ UNCHANGED result
    <2>1. StartBits[v] /\ ~(Far(v) < scan)
      BY <1>1, <1>4, <1>15 DEF Cleared
    <2>2. scan < PoolSize BY <1>4, <1>7, <2>1
    <2>3. Cleared'
      <3>1. \A f \in Frame : ref_bits'[f] = (StartBits[f] /\ ~(pinned[f] = 0 /\ Far(f) < scan + 1))
        BY <1>1, <1>4, <1>13, <1>15 DEF Cleared
      <3>2. \A f \in Frame : pinned[f] = 0 /\ Far(f) < scan + 1 => StartBits[f]
        BY <1>1, <1>13, <2>1 DEF Cleared
      <3>3. \A f \in Frame : Far(f) + PoolSize < scan + 1 => pinned[f] # 0
        BY <1>4, <1>8, <2>2
      <3>4. QED BY <1>1, <1>2, <1>3, <3>1, <3>2, <3>3 DEF Cleared
    <2>4. LoopTypeOK' BY <1>1, <1>2, <1>4, <1>6, <1>11, <1>12, <1>15 DEF LoopTypeOK
    <2>5. OutcomeAsDefined' BY <1>1, <1>15 DEF OutcomeAsDefined
    <2>6. QED BY <1>10, <2>3, <2>4, <2>5 DEF LoopInv
  <1>16. CASE /\ pinned[v] = 0 /\ ~ref_bits[v]
              /\ result' = <<"victim", v>> /\ UNCHANGED ref_bits
    <2>1. /\ UnpinnedFrames(pinned) # {}
          /\ v = ClockVictim(pinned, StartBits, StartHand)
          /\ ref_bits = ClockRefBits(pinned, StartBits, StartHand)
      BY <1>1, <1>16, VictimOutcome DEF v
    <2>2. OutcomeAsDefined'
      BY <1>1, <1>16, <2>1 DEF OutcomeAsDefined, StartBits, StartHand, Advance
    <2>3. LoopTypeOK' BY <1>1, <1>2, <1>4, <1>6, <1>11, <1>12, <1>16 DEF LoopTypeOK
    <2>4. QED BY <1>10, <1>16, <2>2, <2>3 DEF LoopInv
  <1>17. QED BY <1>14, <1>15, <1>16 DEF Iterate, v

\* After two rounds without a victim every frame is pinned and nothing has
\* changed.
LEMMA AllPinnedInv == ASSUME LoopInv, AllPinned PROVE LoopInv'
  <1>1. /\ LoopTypeOK /\ HandMoved /\ Cleared /\ scan = MaxScan /\ result' = <<"none", 0>>
        /\ UNCHANGED <<pinned, ref_bits, clock_hand, scan, before>>
    BY DEF LoopInv, AllPinned
  <1>2. StartBits' = StartBits /\ StartHand' = StartHand /\ MaxScan' = MaxScan
    BY <1>1 DEF StartBits, StartHand, MaxScan
  <1>3. /\ PoolSize \in Nat \ {0} /\ StartHand \in 0 .. (PoolSize - 1)
        /\ clock_hand \in 0 .. (PoolSize - 1) /\ scan = 2 * PoolSize
    BY <1>1, ClockConstants DEF LoopTypeOK, MaxScan, Frame
  <1>4. \A f \in Frame : Far(f) \in 0 .. (PoolSize - 1) BY <1>1, DistanceFacts DEF Far, LoopTypeOK
  <1>5. \A f \in Frame : Far(f) + PoolSize < scan BY <1>3, <1>4
  <1>6. \A f \in Frame : pinned[f] # 0 BY <1>1, <1>5 DEF Cleared
  <1>7. UnpinnedFrames(pinned) = {} BY <1>6 DEF UnpinnedFrames
  <1>8. clock_hand = StartHand
    <2>1. \/ clock_hand = StartHand + scan \/ clock_hand + PoolSize = StartHand + scan
          \/ clock_hand + 2 * PoolSize = StartHand + scan
      BY <1>1, <1>3 DEF HandMoved
    <2>2. QED BY <1>3, <2>1
  <1>9. ref_bits = StartBits
    <2>1. \A f \in Frame : ref_bits[f] = StartBits[f] BY <1>1, <1>6 DEF Cleared, LoopTypeOK
    <2>2. QED BY <1>1, <2>1 DEF LoopTypeOK
  <1>10. OutcomeAsDefined'
    BY <1>1, <1>7, <1>8, <1>9 DEF OutcomeAsDefined, LoopTypeOK
  <1>11. LoopTypeOK' /\ HandMoved' BY <1>1, <1>2 DEF LoopTypeOK, HandMoved
  <1>12. QED BY <1>1, <1>10, <1>11 DEF LoopInv

\* CLOCK.  For any number of frames, from any pin counts, reference bits and
\* position of the hand: clock_evict ends with the victim, the reference bits
\* and the hand that Clock defines, and it gives up after its two rounds
\* exactly when every frame is pinned.
THEOREM ClockTheorem == LoopSpec => []OutcomeAsDefined
  <1>1. ASSUME LoopInv, [LoopNext]_loopVars PROVE LoopInv'
    <2>1. CASE Iterate BY <1>1, <2>1, IterateInv
    <2>2. CASE AllPinned BY <1>1, <2>2, AllPinnedInv
    <2>3. CASE UNCHANGED loopVars
      BY <1>1, <2>3 DEF loopVars, LoopInv, LoopTypeOK, HandMoved, Cleared, OutcomeAsDefined,
         StartBits, StartHand, Far, MaxScan
    <2>4. QED BY <1>1, <2>1, <2>2, <2>3 DEF LoopNext
  <1>2. LoopInv => OutcomeAsDefined BY DEF LoopInv
  <1>3. QED BY <1>1, <1>2, LoopInitInv, PTL DEF LoopSpec

-----------------------------------------------------------------------------
(* The page table: places.  Off(x, b) is how many slots after b slot x     *)
(* comes.                                                                  *)

\* next_prime finds a prime: there is one between a number and its double
\* (Bertrand), which is taken as a hypothesis about the number of slots.
PrimeExists ==
  PoolSize = 1 \/ \E k \in (2 * PoolSize) .. (4 * PoolSize) : k % 2 = 1 /\ NoOddDivisor(k)

\* What follows from it: there are more slots than frames.
Roomy == HashSize \in Nat /\ PoolSize < HashSize

Off(x, b) == IF x >= b THEN x - b ELSE x - b + HashSize

LEMMA HashSizeFacts == ASSUME PrimeExists PROVE Roomy
  <1>1. PoolSize \in Nat \ {0} BY ClockConstants
  <1>2. CASE PoolSize = 1 BY <1>2 DEF Roomy, HashSize, next_prime
  <1>3. CASE PoolSize # 1
    <2> DEFINE n == PoolSize * 2
               S == {k \in n .. (2 * n) : k % 2 = 1 /\ NoOddDivisor(k)}
    <2>1. n \in Nat /\ n > 2 /\ n > PoolSize /\ 2 * PoolSize = n /\ 4 * PoolSize = 2 * n BY <1>1, <1>3
    <2>2. PICK k \in (2 * PoolSize) .. (4 * PoolSize) : k % 2 = 1 /\ NoOddDivisor(k)
      BY <1>3 DEF PrimeExists
    <2>3. k \in n .. (2 * n) BY <2>1, <2>2
    <2>4. k \in S BY <2>2, <2>3
    <2>5. S \subseteq Nat /\ S \subseteq n .. (2 * n) BY <2>1
    <2>6. Min(S) \in S BY <2>4, <2>5, MinFacts
    <2>7. HashSize = Min(S)
      <3>1. ~(n <= 2) BY <2>1
      <3>2. QED BY <3>1 DEF HashSize, next_prime
    <2> HIDE DEF n, S
    <2>8. Min(S) \in n .. (2 * n) BY <2>5, <2>6
    <2>9. QED BY <1>1, <2>1, <2>7, <2>8 DEF Roomy
  <1>4. QED BY <1>2, <1>3

\* Offsets are slot numbers, and the slot at an offset has that offset.
LEMMA OffFacts ==
  ASSUME Roomy, NEW b \in Slot
  PROVE  /\ \A x \in Slot : Off(x, b) \in Slot /\ Off(x, b) \in 0 .. (HashSize - 1)
         /\ \A x, y \in Slot : Off(x, b) = Off(y, b) => x = y
         /\ \A x \in Slot : (b + Off(x, b)) % HashSize = x
         /\ \A n \in Slot : (b + n) % HashSize \in Slot /\ Off((b + n) % HashSize, b) = n
  <1>1. HashSize \in Nat \ {0} /\ b \in 0 .. (HashSize - 1) BY ClockConstants DEF Roomy, Slot
  <1>2. ASSUME NEW x \in Slot PROVE Off(x, b) \in 0 .. (HashSize - 1)
    BY <1>1, x \in 0 .. (HashSize - 1) DEF Off, Slot
  <1>3. ASSUME NEW x \in Slot, NEW y \in Slot, x # y PROVE Off(x, b) # Off(y, b)
    <2>1. x \in 0 .. (HashSize - 1) /\ y \in 0 .. (HashSize - 1) BY DEF Slot
    <2>2. /\ Off(x, b) = IF x >= b THEN x - b ELSE x - b + HashSize
          /\ Off(y, b) = IF y >= b THEN y - b ELSE y - b + HashSize
      BY DEF Off
    <2>3. QED BY <1>1, <1>3, <2>1, <2>2
  <1>4. ASSUME NEW s \in 0 .. (2 * HashSize - 1)
        PROVE  s % HashSize = IF s < HashSize THEN s ELSE s - HashSize
    <2>1. s \in 0 .. (HashSize - 1) \/ s \in HashSize .. (2 * HashSize - 1) BY <1>1
    <2>2. /\ \A y \in 0 .. (HashSize - 1) : y % HashSize = y
          /\ \A y \in HashSize .. (2 * HashSize - 1) : y % HashSize = y - HashSize
      BY <1>1, ModFacts
    <2>3. CASE s \in 0 .. (HashSize - 1) BY <1>1, <2>2, <2>3
    <2>4. CASE s \in HashSize .. (2 * HashSize - 1) BY <1>1, <2>2, <2>4
    <2>5. QED BY <2>1, <2>3, <2>4
  <1>5. ASSUME NEW n \in 0 .. (HashSize - 1)
        PROVE  (b + n) % HashSize = IF b + n < HashSize THEN b + n ELSE (b + n) - HashSize
    <2> DEFINE s == b + n
    <2>1. s \in 0 .. (2 * HashSize - 1) BY <1>1
    <2>2. s % HashSize = IF s < HashSize THEN s ELSE s - HashSize
      <3> HIDE DEF s
      <3>1. QED BY <1>4, <2>1
    <2>3. QED BY <2>2
  <1>6. ASSUME NEW x \in Slot PROVE (b + Off(x, b)) % HashSize = x
    <2>1. Off(x, b) \in 0 .. (HashSize - 1) /\ x \in 0 .. (HashSize - 1) BY <1>2 DEF Slot
    <2>2. (b + Off(x, b)) % HashSize
            = IF b + Off(x, b) < HashSize THEN b + Off(x, b) ELSE (b + Off(x, b)) - HashSize
      BY <1>5, <2>1
    <2>3. QED BY <1>1, <2>1, <2>2 DEF Off
  <1>7. ASSUME NEW n \in Slot
        PROVE  (b + n) % HashSize \in Slot /\ Off((b + n) % HashSize, b) = n
    <2>1. n \in 0 .. (HashSize - 1) BY DEF Slot
    <2> DEFINE w == (b + n) % HashSize
    <2>2. w = IF b + n < HashSize THEN b + n ELSE (b + n) - HashSize BY <1>5, <2>1
    <2> HIDE DEF w
    <2>3. QED BY <1>1, <2>1, <2>2 DEF Off, Slot, w
  <1>8. QED BY <1>2, <1>3, <1>6, <1>7 DEF Slot

\* Offsets from k, seen from b.
LEMMA OffShift ==
  ASSUME Roomy, NEW b \in Slot, NEW k \in Slot, NEW x \in Slot
  PROVE  Off(x, k) = IF Off(x, b) >= Off(k, b) THEN Off(x, b) - Off(k, b)
                     ELSE Off(x, b) - Off(k, b) + HashSize
  <1>1. HashSize \in Nat \ {0} /\ b \in 0 .. (HashSize - 1) /\ k \in 0 .. (HashSize - 1)
        /\ x \in 0 .. (HashSize - 1)
    BY ClockConstants DEF Roomy, Slot
  <1>2. QED BY <1>1 DEF Off

-----------------------------------------------------------------------------
(* The page table: lookup and insertion.                                   *)

Held(t, i) == t[i] # NoFrame

\* No two entries have the same key, and an entry can be reached: no slot
\* between the home of its key and itself is empty.
KeysApart(t, ids) ==
  \A i, j \in Slot : Held(t, i) /\ Held(t, j) /\ ids[t[i]] = ids[t[j]] => i = j
PathsFull(t, ids) ==
  \A i \in Slot : Held(t, i) =>
    \A q \in Slot : Off(q, home[ids[t[i]]]) <= Off(i, home[ids[t[i]]]) => Held(t, q)

TableOK(t, ids) ==
  /\ t \in [Slot -> Frame \cup {NoFrame}]
  /\ \A i \in Slot : Held(t, i) => ids[t[i]] \in Pages
  /\ KeysApart(t, ids)
  /\ PathsFull(t, ids)

\* The slot where p's entry is.
HasKey(t, ids, p, i) == i \in Slot /\ Held(t, i) /\ ids[t[i]] = p

LEMMA NoFrameApart == NoFrame \notin Frame
  BY ClockConstants DEF NoFrame, Frame

\* A page that has an entry is found at it.
LEMMA FoundAt ==
  ASSUME Roomy, home \in [Pages -> Slot], NEW t, NEW ids, TableOK(t, ids),
         NEW p \in Pages, NEW i, HasKey(t, ids, p, i)
  PROVE  FirstStop(t, ids, p) = i /\ hash_lookup(t, ids, p) = t[i]
  <1> DEFINE a == home[p]
             m == Off(i, a)
  <1>1. i \in Slot /\ Held(t, i) /\ ids[t[i]] = p /\ a \in Slot BY DEF HasKey
  <1>2. m \in Slot /\ (a + m) % HashSize = i BY <1>1, OffFacts
  <1>3. \A n \in Slot : (a + n) % HashSize \in Slot /\ Off((a + n) % HashSize, a) = n
    BY <1>1, OffFacts
  <1> HIDE DEF m
  <1>4. Slot \subseteq Nat BY DEF Slot
  <1>5. m \in Stops(t, ids, p)
    BY <1>1, <1>2 DEF Stops, Probe
  <1>6. ASSUME NEW n \in Stops(t, ids, p), ~(m <= n) PROVE FALSE
    <2> DEFINE s == (a + n) % HashSize
    <2>1. n \in Slot /\ s \in Slot /\ Off(s, a) = n BY <1>3 DEF Stops
    <2>2. Off(s, a) <= Off(i, a)
      <3>1. m \in Nat /\ n \in Nat BY <1>2, <1>4, <2>1
      <3>2. n <= m BY <1>6, <3>1
      <3>3. QED BY <2>1, <3>2 DEF m
    <2>3. Held(t, s) BY <1>1, <2>1, <2>2 DEF TableOK, PathsFull
    <2>4. ids[t[s]] = p BY <2>3 DEF Stops, Probe, Held
    <2>5. s = i BY <1>1, <2>1, <2>3, <2>4 DEF TableOK, KeysApart
    <2>6. n = m BY <2>1, <2>5 DEF m
    <2>7. QED BY <1>2, <1>4, <1>6, <2>6
  <1>7. Stops(t, ids, p) \subseteq Nat BY <1>4 DEF Stops
  <1>8. Min(Stops(t, ids, p)) = m BY <1>5, <1>6, <1>7, MinIs
  <1>9. FirstStop(t, ids, p) = i BY <1>2, <1>8 DEF FirstStop, Probe
  <1>10. QED BY <1>5, <1>9 DEF hash_lookup

\* A page that has none ends at an empty slot, the first after its home.
LEMMA NotFound ==
  ASSUME Roomy, home \in [Pages -> Slot], NEW t, NEW ids, TableOK(t, ids),
         NEW p \in Pages, \A i \in Slot : ~HasKey(t, ids, p, i),
         NEW e \in Slot, ~Held(t, e)
  PROVE  LET s == FirstStop(t, ids, p) IN
         /\ s \in Slot /\ ~Held(t, s) /\ hash_lookup(t, ids, p) = NoFrame
         /\ \A q \in Slot : Off(q, home[p]) < Off(s, home[p]) => Held(t, q)
  <1> DEFINE a == home[p]
             S == Stops(t, ids, p)
             m == Min(S)
             s == FirstStop(t, ids, p)
  <1>1. a \in Slot /\ Slot \subseteq Nat BY DEF Slot
  <1>2. \A n \in Slot : (a + n) % HashSize \in Slot /\ Off((a + n) % HashSize, a) = n
    BY <1>1, OffFacts
  <1>3. \A q \in Slot : Off(q, a) \in Slot /\ (a + Off(q, a)) % HashSize = q
    BY <1>1, OffFacts
  <1>4. \A n : n \in S <=> n \in Slot /\ ~Held(t, (a + n) % HashSize)
    BY <1>2 DEF Stops, Probe, HasKey, Held
  <1>5. Off(e, a) \in S BY <1>3, <1>4
  <1>6. m \in S /\ \A n \in S : m <= n BY <1>1, <1>4, <1>5, MinFacts
  <1>7. s = (a + m) % HashSize BY DEF FirstStop, Probe
  <1> HIDE DEF a, S, m, s
  <1>8. s \in Slot /\ ~Held(t, s) /\ Off(s, a) = m BY <1>2, <1>4, <1>6, <1>7
  <1>9. ASSUME NEW q \in Slot, Off(q, a) < m PROVE Held(t, q)
    <2>1. Off(q, a) \in Slot /\ (a + Off(q, a)) % HashSize = q BY <1>3
    <2>2. m \in Nat /\ Off(q, a) \in Nat BY <1>1, <1>4, <1>6, <2>1
    <2>3. ~(m <= Off(q, a)) BY <1>9, <2>2
    <2>4. Off(q, a) \notin S BY <1>6, <2>3
    <2>5. QED BY <1>4, <2>1, <2>4
  <1>10. hash_lookup(t, ids, p) = NoFrame
    <2>1. t[s] = NoFrame BY <1>8 DEF Held
    <2>2. QED BY <1>5, <2>1 DEF hash_lookup, S, s
  <1>11. QED BY <1>8, <1>9, <1>10 DEF s, a

\* Inserting a frame for such a page.
LEMMA InsertFacts ==
  ASSUME Roomy, home \in [Pages -> Slot], NEW t, NEW ids, TableOK(t, ids),
         NEW p \in Pages, NEW f \in Frame, ids[f] = p,
         \A i \in Slot : ~HasKey(t, ids, p, i),
         NEW e \in Slot, ~Held(t, e)
  PROVE  /\ TableOK(hash_insert(t, ids, p, f), ids)
         /\ \E s \in Slot : ~Held(t, s) /\ hash_insert(t, ids, p, f) = [t EXCEPT ![s] = f]
  <1> DEFINE a == home[p]
             s == FirstStop(t, ids, p)
             u == hash_insert(t, ids, p, f)
  <1>1. /\ s \in Slot /\ ~Held(t, s)
        /\ \A q \in Slot : Off(q, a) < Off(s, a) => Held(t, q)
    BY NotFound
  <1>2. u = [t EXCEPT ![s] = f] BY DEF hash_insert
  <1>3. /\ t \in [Slot -> Frame \cup {NoFrame}] /\ a \in Slot
        /\ \A i \in Slot : Held(t, i) => ids[t[i]] \in Pages
        /\ KeysApart(t, ids) /\ PathsFull(t, ids)
    BY DEF TableOK
  <1> HIDE DEF s, u, a
  <1>4. u \in [Slot -> Frame \cup {NoFrame}] BY <1>1, <1>2, <1>3
  <1>5. u[s] = f /\ Held(u, s) /\ \A i \in Slot : i # s => u[i] = t[i]
    BY <1>1, <1>2, <1>3, NoFrameApart DEF Held
  <1>6. \A i \in Slot : Held(u, i) <=> i = s \/ Held(t, i) BY <1>5 DEF Held
  <1>7. \A i \in Slot : i # s /\ Held(u, i) => Held(t, i) /\ ids[u[i]] = ids[t[i]] /\ ids[t[i]] # p
    BY <1>5, <1>6 DEF HasKey
  <1>8. \A i \in Slot : Held(u, i) => ids[u[i]] \in Pages BY <1>3, <1>5, <1>7
  <1>9. KeysApart(u, ids) BY <1>3, <1>5, <1>7 DEF KeysApart
  <1>10. PathsFull(u, ids)
    <2> SUFFICES ASSUME NEW i \in Slot, Held(u, i), NEW q \in Slot,
                        Off(q, home[ids[u[i]]]) <= Off(i, home[ids[u[i]]])
                 PROVE  Held(u, q)
      BY DEF PathsFull
    <2>1. CASE i = s
      <3>1. Off(q, a) <= Off(s, a) BY <1>5, <2>1 DEF a
      <3>2. Off(q, a) \in 0 .. (HashSize - 1) /\ Off(s, a) \in 0 .. (HashSize - 1)
        BY <1>1, <1>3, OffFacts
      <3>3. HashSize \in Nat BY DEF Roomy
      <3>4. Off(q, a) < Off(s, a) \/ Off(q, a) = Off(s, a) BY <3>1, <3>2, <3>3
      <3>5. Off(q, a) = Off(s, a) => q = s BY <1>1, <1>3, OffFacts
      <3>6. QED BY <1>1, <1>6, <3>4, <3>5
    <2>2. CASE i # s
      <3>1. Held(t, i) /\ u[i] = t[i] BY <1>5, <1>7, <2>2
      <3>2. Held(t, q) BY <1>3, <3>1 DEF PathsFull
      <3>3. QED BY <1>6, <3>2
    <2>3. QED BY <2>1, <2>2
  <1>11. TableOK(u, ids) BY <1>4, <1>8, <1>9, <1>10 DEF TableOK
  <1>12. QED BY <1>1, <1>2, <1>11 DEF u

\* More slots than frames: one is empty.
LEMMA SomeSlotEmpty ==
  ASSUME Roomy, NEW t, NEW ids, TableOK(t, ids)
  PROVE  \E e \in Slot : ~Held(t, e)
  <1> SUFFICES ASSUME \A i \in Slot : Held(t, i) PROVE FALSE OBVIOUS
  <1>1. t \in [Slot -> Frame] BY DEF TableOK, Held
  <1>2. PoolSize \in Nat \ {0} /\ HashSize \in Nat /\ PoolSize < HashSize
    BY ClockConstants DEF Roomy
  <1>3. IsFiniteSet(Frame) /\ Cardinality(Frame) = PoolSize
    <2>1. 0 \in Int /\ PoolSize - 1 \in Int /\ ~(0 > PoolSize - 1) /\ (PoolSize - 1) - 0 + 1 = PoolSize
      BY <1>2
    <2>2. QED BY <2>1, FS_Interval DEF Frame
  <1>4. IsFiniteSet(Slot) /\ Cardinality(Slot) = HashSize
    <2>1. 0 \in Int /\ HashSize - 1 \in Int /\ ~(0 > HashSize - 1) /\ (HashSize - 1) - 0 + 1 = HashSize
      BY <1>2
    <2>2. QED BY <2>1, FS_Interval DEF Slot
  <1>5. Cardinality(Frame) < Cardinality(Slot) BY <1>2, <1>3, <1>4
  <1>6. PICK i, j \in Slot : i # j /\ t[i] = t[j] BY <1>1, <1>3, <1>4, <1>5, FS_PigeonHole
  <1>7. QED BY <1>6 DEF TableOK, KeysApart

-----------------------------------------------------------------------------
(* The page table: the deletion that shifts entries back.                  *)

ShiftLaw(t, ids, idx, k, g) ==
  g = [n \in 0 .. k |-> IF n = 0 THEN [table |-> t, gap |-> idx]
                        ELSE ShiftBack(ids, idx, n, g[n - 1])]

\* The recursion defines a function.
LEMMA ShiftDefined ==
  ASSUME Roomy, NEW t, NEW ids, NEW idx
  PROVE  /\ Shifted(t, ids, idx)[0] = [table |-> t, gap |-> idx]
         /\ \A n \in 1 .. HashSize :
              Shifted(t, ids, idx)[n] = ShiftBack(ids, idx, n, Shifted(t, ids, idx)[n - 1])
  <1> DEFINE P == {k \in Nat : \E g : ShiftLaw(t, ids, idx, k, g)}
             first == [table |-> t, gap |-> idx]
  <1>1. 0 \in P
    <2> DEFINE g == [n \in 0 .. 0 |-> first]
    <2>1. g = [n \in 0 .. 0 |-> IF n = 0 THEN first ELSE ShiftBack(ids, idx, n, g[n - 1])]
      OBVIOUS
    <2>2. ShiftLaw(t, ids, idx, 0, g) BY <2>1 DEF ShiftLaw
    <2>3. QED BY <2>2
  <1>2. ASSUME NEW k \in Nat, k \in P PROVE k + 1 \in P
    <2>1. PICK g : ShiftLaw(t, ids, idx, k, g) BY <1>2
    <2>2. g = [n \in 0 .. k |-> IF n = 0 THEN first ELSE ShiftBack(ids, idx, n, g[n - 1])]
      BY <2>1 DEF ShiftLaw
    <2>3. \A n \in 0 .. k : g[n] = IF n = 0 THEN first ELSE ShiftBack(ids, idx, n, g[n - 1])
      BY <2>2, Zenon
    <2> DEFINE h == [n \in 0 .. (k + 1) |-> IF n <= k THEN g[n] ELSE ShiftBack(ids, idx, n, g[k])]
               rhs == [n \in 0 .. (k + 1) |-> IF n = 0 THEN first ELSE ShiftBack(ids, idx, n, h[n - 1])]
    <2>4. ASSUME NEW n \in 0 .. (k + 1)
          PROVE  h[n] = IF n = 0 THEN first ELSE ShiftBack(ids, idx, n, h[n - 1])
      <3>1. h[n] = IF n <= k THEN g[n] ELSE ShiftBack(ids, idx, n, g[k]) OBVIOUS
      <3>2. CASE n = 0 BY <2>3, <3>1, <3>2
      <3>3. CASE n # 0 /\ n <= k
        <4>1. n \in 0 .. k /\ n - 1 \in 0 .. (k + 1) /\ n - 1 <= k BY <3>3
        <4>2. h[n - 1] = g[n - 1] BY <4>1
        <4>3. h[n] = g[n] BY <3>1, <3>3
        <4>4. g[n] = ShiftBack(ids, idx, n, g[n - 1]) BY <2>3, <3>3, <4>1
        <4> HIDE DEF h
        <4>5. QED BY <3>3, <4>2, <4>3, <4>4
      <3>4. CASE ~(n <= k)
        <4>1. n = k + 1 /\ n - 1 = k /\ k \in 0 .. (k + 1) /\ k <= k /\ n # 0 BY <3>4
        <4>2. h[n - 1] = g[k] BY <4>1
        <4>3. h[n] = ShiftBack(ids, idx, n, g[k]) BY <3>1, <3>4
        <4> HIDE DEF h
        <4>4. QED BY <4>1, <4>2, <4>3
      <3>5. QED BY <3>2, <3>3, <3>4
    <2>5. h = rhs
      <3>1. \A n \in 0 .. (k + 1) : rhs[n] = IF n = 0 THEN first ELSE ShiftBack(ids, idx, n, h[n - 1])
        BY Zenon
      <3>2. \A n \in 0 .. (k + 1) : h[n] = rhs[n] BY <2>4, <3>1, Zenon
      <3>3. h \in [0 .. (k + 1) -> {h[n] : n \in 0 .. (k + 1)}] OBVIOUS
      <3>4. rhs \in [0 .. (k + 1) -> {rhs[n] : n \in 0 .. (k + 1)}]
        <4> HIDE DEF h
        <4>1. QED OBVIOUS
      <3> HIDE DEF h, rhs
      <3>5. QED BY <3>2, <3>3, <3>4
    <2>6. ShiftLaw(t, ids, idx, k + 1, h) BY <2>5, Zenon DEF ShiftLaw
    <2> HIDE DEF h
    <2>7. QED BY <2>6
  <1>3. Nat \subseteq P
    <2> HIDE DEF P
    <2>1. QED BY <1>1, <1>2, SetInduction
  <1>4. \E g : ShiftLaw(t, ids, idx, HashSize, g) BY <1>3 DEF Roomy
  <1> DEFINE S == Shifted(t, ids, idx)
  <1>5. S = CHOOSE g : ShiftLaw(t, ids, idx, HashSize, g) BY Zenon DEF Shifted, ShiftLaw
  <1>6. ShiftLaw(t, ids, idx, HashSize, S) BY <1>4, <1>5, Zenon
  <1> HIDE DEF S
  <1>7. \A n \in 0 .. HashSize : S[n] = IF n = 0 THEN first ELSE ShiftBack(ids, idx, n, S[n - 1])
    BY <1>6, Zenon DEF ShiftLaw
  <1>8. HashSize \in Nat BY DEF Roomy
  <1>9. S[0] = first
    <2>1. 0 \in 0 .. HashSize BY <1>8
    <2>2. QED BY <1>7, <2>1
  <1>10. ASSUME NEW n \in 1 .. HashSize PROVE S[n] = ShiftBack(ids, idx, n, S[n - 1])
    <2>1. n \in 0 .. HashSize /\ n # 0 BY <1>8
    <2>2. QED BY <1>7, <2>1
  <1>11. QED BY <1>9, <1>10 DEF S

\* The shift starts at the entry of idx and ends at the next empty slot.
\* Places are counted from the slot b after that one, so that the empty slot
\* has the last place and no path of an entry wraps around.
RunOf(t, ids, idx, b) ==
  /\ Roomy /\ home \in [Pages -> Slot] /\ TableOK(t, ids)
  /\ idx \in Slot /\ b \in Slot
  /\ \A s \in Slot : Off(s, b) >= Off(idx, b) /\ Off(s, b) < HashSize - 1 => Held(t, s)
  /\ \A s \in Slot : Off(s, b) = HashSize - 1 => ~Held(t, s)
  /\ Off(idx, b) < HashSize - 1

\* The entry at slot s of w: its path goes over slots that t uses.
PathIn(t, w, ids, b, s) ==
  LET k == home[ids[w[s]]] IN
  /\ ids[w[s]] \in Pages
  /\ Off(k, b) <= Off(s, b)
  /\ \A q \in Slot : Off(k, b) <= Off(q, b) /\ Off(q, b) <= Off(s, b) => Held(t, q)

\* After n slots, with w the table whose gap g counts as empty: w has the
\* entries of t but one, in the slots t uses but the gap; the entries already
\* considered do not need the gap, and the others are where they were.
ShiftInv(t, ids, idx, b, n, w, g) ==
  /\ w \in [Slot -> Frame \cup {NoFrame}] /\ g \in Slot
  /\ Off(g, b) >= Off(idx, b) /\ Off(g, b) <= Off(idx, b) + n
  /\ \A s \in Slot : Off(s, b) > Off(idx, b) + n => w[s] = t[s]
  /\ \A s \in Slot : Held(w, s) <=> Held(t, s) /\ s # g
  /\ \A f \in Frame : (\E s \in Slot : w[s] = f) <=> (\E s \in Slot : t[s] = f) /\ f # t[idx]
  /\ KeysApart(w, ids)
  /\ \A s \in Slot : Held(w, s) => PathIn(t, w, ids, b, s)
  /\ \A s \in Slot : Held(w, s) /\ Off(s, b) <= Off(idx, b) + n =>
       ~(Off(home[ids[w[s]]], b) <= Off(g, b) /\ Off(g, b) <= Off(s, b))

\* should_move asks whether the gap is on the path of the entry at j.
LEMMA MoveIff ==
  ASSUME Roomy, NEW b \in Slot, NEW gap \in Slot, NEW j \in Slot, NEW k \in Slot,
         Off(gap, b) < Off(j, b), Off(k, b) <= Off(j, b)
  PROVE  should_move(gap, j, k) <=> Off(k, b) <= Off(gap, b)
  <1>1. /\ HashSize \in Nat \ {0} /\ b \in 0 .. (HashSize - 1) /\ k \in 0 .. (HashSize - 1)
        /\ gap \in 0 .. (HashSize - 1) /\ j \in 0 .. (HashSize - 1)
    BY ClockConstants DEF Roomy, Slot
  <1>2. QED BY <1>1 DEF Off, should_move

LEMMA OffNat == ASSUME Roomy, NEW b \in Slot, NEW x \in Slot PROVE Off(x, b) \in 0 .. (HashSize - 1)
  BY OffFacts

\* Paths do not go over the empty slot at the last place ...
LEMMA PathsLinear ==
  ASSUME NEW t, NEW ids, NEW idx, NEW b, RunOf(t, ids, idx, b),
         NEW s \in Slot, Held(t, s)
  PROVE  PathIn(t, t, ids, b, s)
  <1> DEFINE k == home[ids[t[s]]]
  <1>1. Roomy /\ b \in Slot /\ HashSize \in Nat \ {0} BY ClockConstants DEF RunOf, Roomy
  <1>2. ids[t[s]] \in Pages /\ k \in Slot BY DEF RunOf, TableOK
  <1>3. \A q \in Slot : Off(q, k) <= Off(s, k) => Held(t, q) BY <1>2 DEF RunOf, TableOK, PathsFull
  <1> HIDE DEF k
  <1>4. Off(k, b) \in 0 .. (HashSize - 1) /\ Off(s, b) \in 0 .. (HashSize - 1) BY <1>1, <1>2, OffNat
  <1>5. \A q \in Slot : Off(q, k) = IF Off(q, b) >= Off(k, b) THEN Off(q, b) - Off(k, b)
                                    ELSE Off(q, b) - Off(k, b) + HashSize
    BY <1>1, <1>2, OffShift
  <1>6. Off(k, b) <= Off(s, b)
    <2> SUFFICES ASSUME ~(Off(k, b) <= Off(s, b)) PROVE FALSE OBVIOUS
    <2> DEFINE z == (b + (HashSize - 1)) % HashSize
    <2>1. HashSize - 1 \in Slot BY <1>1 DEF Slot
    <2>2. z \in Slot /\ Off(z, b) = HashSize - 1 BY <1>1, <2>1, OffFacts
    <2> HIDE DEF z
    <2>3. Off(z, k) <= Off(s, k) BY <1>1, <1>4, <1>5, <2>2
    <2>4. QED BY <1>3, <2>2, <2>3 DEF RunOf
  <1>7. ASSUME NEW q \in Slot, Off(k, b) <= Off(q, b), Off(q, b) <= Off(s, b) PROVE Held(t, q)
    <2>1. Off(q, b) \in 0 .. (HashSize - 1) BY <1>1, OffNat
    <2>2. Off(q, k) <= Off(s, k) BY <1>1, <1>4, <1>5, <1>7, <2>1
    <2>3. QED BY <1>3, <2>2
  <1>8. QED BY <1>2, <1>6, <1>7 DEF PathIn, k

\* ... and one that does not is a path.
LEMMA LinearIsPath ==
  ASSUME Roomy, NEW b \in Slot, NEW k \in Slot, NEW s \in Slot, NEW q \in Slot,
         Off(k, b) <= Off(s, b), Off(q, k) <= Off(s, k)
  PROVE  Off(k, b) <= Off(q, b) /\ Off(q, b) <= Off(s, b)
  <1>1. /\ HashSize \in Nat /\ Off(k, b) \in 0 .. (HashSize - 1)
        /\ Off(s, b) \in 0 .. (HashSize - 1) /\ Off(q, b) \in 0 .. (HashSize - 1)
    BY OffNat DEF Roomy
  <1>2. /\ Off(q, k) = IF Off(q, b) >= Off(k, b) THEN Off(q, b) - Off(k, b)
                       ELSE Off(q, b) - Off(k, b) + HashSize
        /\ Off(s, k) = IF Off(s, b) >= Off(k, b) THEN Off(s, b) - Off(k, b)
                       ELSE Off(s, b) - Off(k, b) + HashSize
    BY OffShift
  <1>3. QED BY <1>1, <1>2

\* The entry to remove becomes the gap.
LEMMA ShiftStart ==
  ASSUME NEW t, NEW ids, NEW idx, NEW b, RunOf(t, ids, idx, b)
  PROVE  ShiftInv(t, ids, idx, b, 0, [t EXCEPT ![idx] = NoFrame], idx)
  <1> DEFINE w == [t EXCEPT ![idx] = NoFrame]
  <1>1. /\ Roomy /\ idx \in Slot /\ b \in Slot /\ HashSize \in Nat
        /\ t \in [Slot -> Frame \cup {NoFrame}] /\ KeysApart(t, ids)
    BY DEF RunOf, TableOK, Roomy
  <1>2. w[idx] = NoFrame /\ \A s \in Slot : s # idx => w[s] = t[s] BY <1>1
  <1>3. w \in [Slot -> Frame \cup {NoFrame}] BY <1>1
  <1> HIDE DEF w
  <1>4. \A s \in Slot : Off(s, b) \in 0 .. (HashSize - 1) BY <1>1, OffNat
  <1>5. \A s \in Slot : Held(w, s) <=> Held(t, s) /\ s # idx BY <1>2 DEF Held
  <1>6. Off(idx, b) <= Off(idx, b) /\ Off(idx, b) + 0 = Off(idx, b) BY <1>1, <1>4
  <1>7. \A s \in Slot : Off(s, b) > Off(idx, b) => w[s] = t[s]
    <2> SUFFICES ASSUME NEW s \in Slot, Off(s, b) > Off(idx, b) PROVE s # idx BY <1>2
    <2>1. QED BY <1>1, <1>4
  <1>8. ASSUME NEW f \in Frame
        PROVE  (\E s \in Slot : w[s] = f) <=> (\E s \in Slot : t[s] = f) /\ f # t[idx]
    <2>1. f # NoFrame BY NoFrameApart
    <2>2. ASSUME NEW s \in Slot, w[s] = f PROVE t[s] = f /\ f # t[idx]
      <3>1. s # idx /\ t[s] = f BY <1>2, <2>1, <2>2
      <3>2. QED BY <1>1, <2>1, <3>1 DEF KeysApart, Held
    <2>3. ASSUME NEW s \in Slot, t[s] = f, f # t[idx] PROVE w[s] = f BY <1>2, <2>3
    <2>4. QED BY <2>2, <2>3
  <1>9. KeysApart(w, ids) BY <1>1, <1>2, <1>5 DEF KeysApart
  <1>10. \A s \in Slot : Held(w, s) => PathIn(t, w, ids, b, s)
    <2> SUFFICES ASSUME NEW s \in Slot, Held(w, s) PROVE PathIn(t, w, ids, b, s) OBVIOUS
    <2>1. Held(t, s) /\ w[s] = t[s] BY <1>2, <1>5
    <2>2. PathIn(t, t, ids, b, s) BY <2>1, PathsLinear
    <2>3. QED BY <2>1, <2>2 DEF PathIn
  <1>11. ASSUME NEW s \in Slot, Held(w, s), Off(s, b) <= Off(idx, b)
         PROVE  ~(Off(idx, b) <= Off(s, b))
    <2>1. s # idx BY <1>5, <1>11
    <2>2. Off(s, b) # Off(idx, b) BY <1>1, <2>1, OffFacts
    <2>3. QED BY <1>1, <1>4, <1>11, <2>2
  <1>12. ShiftInv(t, ids, idx, b, 0, w, idx)
    BY <1>1, <1>3, <1>4, <1>5, <1>6, <1>7, <1>8, <1>9, <1>10, <1>11 DEF ShiftInv
  <1>13. QED BY <1>12 DEF w

\* The entry at j needs the gap: it moves there and leaves a gap at j.
LEMMA ShiftMove ==
  ASSUME NEW t, NEW ids, NEW idx, NEW b, RunOf(t, ids, idx, b),
         NEW n \in Nat, NEW w, NEW g, ShiftInv(t, ids, idx, b, n, w, g),
         NEW j \in Slot, Off(j, b) = Off(idx, b) + (n + 1), Off(j, b) < HashSize - 1,
         Off(home[ids[t[j]]], b) <= Off(g, b)
  PROVE  ShiftInv(t, ids, idx, b, n + 1, [w EXCEPT ![g] = t[j], ![j] = NoFrame], j)
  <1> DEFINE w2 == [w EXCEPT ![g] = t[j], ![j] = NoFrame]
             c == Off(idx, b)
  <1>1. /\ Roomy /\ idx \in Slot /\ b \in Slot /\ HashSize \in Nat /\ g \in Slot
        /\ t \in [Slot -> Frame \cup {NoFrame}] /\ w \in [Slot -> Frame \cup {NoFrame}]
    BY DEF RunOf, TableOK, Roomy, ShiftInv
  <1>2. \A s \in Slot : Off(s, b) \in 0 .. (HashSize - 1) BY <1>1, OffNat
  <1>3. Off(g, b) >= c /\ Off(g, b) <= c + n BY DEF ShiftInv
  <1>4. c \in Nat /\ Off(g, b) \in Nat /\ Off(j, b) \in Nat BY <1>1, <1>2
  <1>5. Off(j, b) = c + n + 1 /\ Off(j, b) < HashSize - 1 BY <1>4
  <1> HIDE DEF c
  <1>6. j # g /\ Off(g, b) < Off(j, b) BY <1>3, <1>4, <1>5
  <1>7. w[j] = t[j]
    <2>1. Off(j, b) > c + n BY <1>4, <1>5
    <2>2. QED BY <2>1 DEF ShiftInv, c
  <1>8. Held(t, j) /\ Held(t, g)
    <2>1. Off(j, b) >= c /\ Off(g, b) < HashSize - 1 BY <1>1, <1>3, <1>4, <1>5
    <2>2. QED BY <1>1, <1>3, <1>5, <2>1 DEF RunOf, c
  <1>9. Held(w, j) /\ ~Held(w, g) BY <1>1, <1>6, <1>8 DEF ShiftInv
  <1>10. w2[g] = t[j] /\ w2[j] = NoFrame /\ \A s \in Slot : s # g /\ s # j => w2[s] = w[s]
    BY <1>1, <1>6
  <1>11. w2 \in [Slot -> Frame \cup {NoFrame}] BY <1>1
  <1> HIDE DEF w2
  <1>12. \A s \in Slot : Held(w2, s) <=> Held(t, s) /\ s # j
    <2>1. \A s \in Slot : Held(w, s) <=> Held(t, s) /\ s # g BY DEF ShiftInv
    <2>2. QED BY <1>6, <1>8, <1>10, <2>1 DEF Held
  <1>13. \A s \in Slot : Off(s, b) > c + (n + 1) => w2[s] = t[s]
    <2> SUFFICES ASSUME NEW s \in Slot, Off(s, b) > c + (n + 1) PROVE w2[s] = t[s] OBVIOUS
    <2>1. Off(s, b) \in Nat BY <1>1, <1>2
    <2>2. s # g /\ s # j /\ Off(s, b) > c + n BY <1>3, <1>4, <1>5, <2>1
    <2>3. w[s] = t[s] BY <2>2 DEF ShiftInv, c
    <2>4. QED BY <1>10, <2>2, <2>3
  <1>14. ASSUME NEW f \in Frame
         PROVE  (\E s \in Slot : w2[s] = f) <=> (\E s \in Slot : t[s] = f) /\ f # t[idx]
    <2>1. f # NoFrame BY NoFrameApart
    <2>2. (\E s \in Slot : w2[s] = f) <=> (\E s \in Slot : w[s] = f)
      BY <1>1, <1>7, <1>9, <1>10, <2>1 DEF Held
    <2>3. QED BY <2>2 DEF ShiftInv
  <1>15. KeysApart(w2, ids)
    <2> SUFFICES ASSUME NEW s \in Slot, NEW r \in Slot, Held(w2, s), Held(w2, r),
                        ids[w2[s]] = ids[w2[r]]
                 PROVE  s = r
      BY DEF KeysApart
    <2>1. KeysApart(w, ids) BY DEF ShiftInv
    <2>2. s # j /\ r # j BY <1>12
    <2>3. CASE s = g /\ r # g BY <1>6, <1>7, <1>9, <1>10, <2>1, <2>2, <2>3 DEF KeysApart, Held
    <2>4. CASE s # g /\ r = g BY <1>6, <1>7, <1>9, <1>10, <2>1, <2>2, <2>4 DEF KeysApart, Held
    <2>5. CASE s # g /\ r # g BY <1>10, <2>1, <2>2, <2>5 DEF KeysApart, Held
    <2>6. QED BY <2>3, <2>4, <2>5
  <1>16. PathIn(t, t, ids, b, j) BY <1>8, PathsLinear
  <1>17. ASSUME NEW s \in Slot, Held(w2, s) PROVE PathIn(t, w2, ids, b, s)
    <2>1. CASE s = g
      <3>1. w2[s] = t[j] BY <1>10, <2>1
      <3> DEFINE k == home[ids[t[j]]]
      <3>2. ids[t[j]] \in Pages /\ k \in Slot BY <1>16 DEF PathIn, RunOf
      <3>3. Off(k, b) \in Nat BY <1>1, <1>2, <3>2
      <3>4. \A q \in Slot : Off(k, b) <= Off(q, b) /\ Off(q, b) <= Off(j, b) => Held(t, q)
        BY <1>16 DEF PathIn
      <3>5. Off(k, b) <= Off(g, b) OBVIOUS
      <3> HIDE DEF k
      <3>6. \A q \in Slot : Off(k, b) <= Off(q, b) /\ Off(q, b) <= Off(g, b) => Held(t, q)
        <4> SUFFICES ASSUME NEW q \in Slot, Off(k, b) <= Off(q, b), Off(q, b) <= Off(g, b)
                     PROVE  Off(q, b) <= Off(j, b)
          BY <3>4
        <4>1. Off(q, b) \in Nat BY <1>1, <1>2
        <4>2. QED BY <1>4, <1>6, <4>1
      <3>7. QED BY <2>1, <3>1, <3>2, <3>5, <3>6 DEF PathIn, k
    <2>2. CASE s # g
      <3>1. w2[s] = w[s] /\ Held(w, s) BY <1>10, <1>12, <1>17, <2>2 DEF Held
      <3>2. PathIn(t, w, ids, b, s) BY <3>1 DEF ShiftInv
      <3>3. QED BY <3>1, <3>2 DEF PathIn
    <2>3. QED BY <2>1, <2>2
  <1>18. ASSUME NEW s \in Slot, Held(w2, s), Off(s, b) <= c + (n + 1)
         PROVE  ~(Off(j, b) <= Off(s, b))
    <2>1. s # j BY <1>12, <1>18
    <2>2. Off(s, b) # Off(j, b) BY <1>1, <2>1, OffFacts
    <2>3. Off(s, b) \in Nat BY <1>1, <1>2
    <2>4. QED BY <1>4, <1>5, <1>18, <2>2, <2>3
  <1>19. Off(j, b) >= c /\ Off(j, b) <= c + (n + 1) BY <1>4, <1>5
  <1>20. ShiftInv(t, ids, idx, b, n + 1, w2, j)
    BY <1>11, <1>12, <1>13, <1>14, <1>15, <1>17, <1>18, <1>19 DEF ShiftInv, c
  <1>21. QED BY <1>20 DEF w2

\* The entry at j does not need the gap.
LEMMA ShiftStay ==
  ASSUME NEW t, NEW ids, NEW idx, NEW b, RunOf(t, ids, idx, b),
         NEW n \in Nat, NEW w, NEW g, ShiftInv(t, ids, idx, b, n, w, g),
         NEW j \in Slot, Off(j, b) = Off(idx, b) + (n + 1),
         ~(Off(home[ids[t[j]]], b) <= Off(g, b))
  PROVE  ShiftInv(t, ids, idx, b, n + 1, w, g)
  <1> DEFINE c == Off(idx, b)
  <1>1. Roomy /\ idx \in Slot /\ b \in Slot /\ HashSize \in Nat /\ g \in Slot
    BY DEF RunOf, Roomy, ShiftInv
  <1>2. \A s \in Slot : Off(s, b) \in 0 .. (HashSize - 1) BY <1>1, OffNat
  <1>3. c \in Nat /\ Off(g, b) \in Nat /\ Off(j, b) \in Nat BY <1>1, <1>2
  <1>4. Off(j, b) = c + n + 1 /\ Off(g, b) <= c + n BY <1>3 DEF ShiftInv
  <1> HIDE DEF c
  <1>5. w[j] = t[j]
    <2>1. Off(j, b) > c + n BY <1>3, <1>4
    <2>2. QED BY <2>1 DEF ShiftInv, c
  <1>6. Off(g, b) <= c + (n + 1) BY <1>3, <1>4
  <1>7. ASSUME NEW s \in Slot, Off(s, b) > c + (n + 1) PROVE w[s] = t[s]
    <2>1. Off(s, b) \in Nat BY <1>1, <1>2
    <2>2. Off(s, b) > c + n BY <1>3, <1>7, <2>1
    <2>3. QED BY <2>2 DEF ShiftInv, c
  <1>8. ASSUME NEW s \in Slot, Held(w, s), Off(s, b) <= c + (n + 1)
        PROVE  ~(Off(home[ids[w[s]]], b) <= Off(g, b) /\ Off(g, b) <= Off(s, b))
    <2>1. CASE s = j BY <1>5, <2>1
    <2>2. CASE s # j
      <3>1. Off(s, b) # Off(j, b) BY <1>1, <2>2, OffFacts
      <3>2. Off(s, b) \in Nat BY <1>1, <1>2
      <3>3. Off(s, b) <= c + n BY <1>3, <1>4, <1>8, <3>1, <3>2
      <3>4. QED BY <1>8, <3>3 DEF ShiftInv, c
    <2>3. QED BY <2>1, <2>2
  <1>9. QED BY <1>6, <1>7, <1>8 DEF ShiftInv, c

\* When the slots up to the empty one have been considered, w is a table.
LEMMA ShiftEnd ==
  ASSUME NEW t, NEW ids, NEW idx, NEW b, RunOf(t, ids, idx, b),
         NEW n \in Nat, NEW w, NEW g, ShiftInv(t, ids, idx, b, n, w, g),
         Off(idx, b) + n = HashSize - 2
  PROVE  TableOK(w, ids)
  <1>1. Roomy /\ idx \in Slot /\ b \in Slot /\ HashSize \in Nat /\ g \in Slot
    BY DEF RunOf, Roomy, ShiftInv
  <1>2. \A s \in Slot : Off(s, b) \in 0 .. (HashSize - 1) BY <1>1, OffNat
  <1>3. \A s \in Slot : Held(w, s) <=> Held(t, s) /\ s # g BY DEF ShiftInv
  <1>4. ASSUME NEW s \in Slot, Held(w, s) PROVE Off(s, b) <= Off(idx, b) + n
    <2>1. Held(t, s) BY <1>3, <1>4
    <2>2. Off(s, b) # HashSize - 1 BY <2>1 DEF RunOf
    <2>3. QED BY <1>1, <1>2, <2>2
  <1>5. PathsFull(w, ids)
    <2> SUFFICES ASSUME NEW s \in Slot, Held(w, s), NEW q \in Slot,
                        Off(q, home[ids[w[s]]]) <= Off(s, home[ids[w[s]]])
                 PROVE  Held(w, q)
      BY DEF PathsFull
    <2> DEFINE k == home[ids[w[s]]]
    <2>1. PathIn(t, w, ids, b, s) BY DEF ShiftInv
    <2>2. k \in Slot /\ Off(k, b) <= Off(s, b) BY <2>1 DEF PathIn, RunOf
    <2>3. Off(k, b) <= Off(q, b) /\ Off(q, b) <= Off(s, b) BY <1>1, <2>2, LinearIsPath
    <2>4. Held(t, q) BY <2>1, <2>3 DEF PathIn
    <2>5. ~(Off(k, b) <= Off(g, b) /\ Off(g, b) <= Off(s, b)) BY <1>4 DEF ShiftInv
    <2>6. q # g BY <2>3, <2>5
    <2>7. QED BY <1>3, <2>4, <2>6
  <1>6. \A s \in Slot : Held(w, s) => ids[w[s]] \in Pages BY DEF ShiftInv, PathIn
  <1>7. QED BY <1>5, <1>6 DEF TableOK, ShiftInv

\* The gap of a step of the shift counts as empty.
Gapped(r) == [r.table EXCEPT ![r.gap] = NoFrame]

ShiftStepOK(t, ids, idx, b, n, r) ==
  /\ r.table \in [Slot -> Frame \cup {NoFrame}] /\ r.gap \in Slot
  /\ ShiftInv(t, ids, idx, b, n, Gapped(r), r.gap)

LEMMA ShiftNext ==
  ASSUME NEW t, NEW ids, NEW idx, NEW b, RunOf(t, ids, idx, b),
         NEW n \in Nat, Off(idx, b) + (n + 1) < HashSize - 1,
         NEW r, ShiftStepOK(t, ids, idx, b, n, r)
  PROVE  ShiftStepOK(t, ids, idx, b, n + 1, ShiftBack(ids, idx, n + 1, r))
  <1> DEFINE j == (idx + (n + 1)) % HashSize
             u == r.table
             g == r.gap
             w == Gapped(r)
             k == home[ids[t[j]]]
  <1>1. /\ Roomy /\ idx \in Slot /\ b \in Slot /\ HashSize \in Nat \ {0} /\ g \in Slot
        /\ u \in [Slot -> Frame \cup {NoFrame}] /\ t \in [Slot -> Frame \cup {NoFrame}]
        /\ ShiftInv(t, ids, idx, b, n, w, g)
    BY ClockConstants DEF RunOf, Roomy, ShiftStepOK, TableOK
  <1>2. Off(idx, b) \in 0 .. (HashSize - 1) /\ Off(g, b) \in 0 .. (HashSize - 1) BY <1>1, OffNat
  <1>3. j \in Slot /\ Off(j, idx) = n + 1
    <2>1. n + 1 \in Slot BY <1>1, <1>2 DEF Slot
    <2>2. QED BY <1>1, <2>1, OffFacts
  <1> HIDE DEF j
  <1>4. Off(j, b) = Off(idx, b) + (n + 1)
    <2>1. Off(j, b) \in 0 .. (HashSize - 1) BY <1>1, <1>3, OffNat
    <2>2. Off(j, idx) = IF Off(j, b) >= Off(idx, b) THEN Off(j, b) - Off(idx, b)
                        ELSE Off(j, b) - Off(idx, b) + HashSize
      BY <1>1, <1>3, OffShift
    <2>3. QED BY <1>1, <1>2, <1>3, <2>1, <2>2
  <1>5. Off(j, b) < HashSize - 1 BY <1>4
  <1>6. Off(g, b) <= Off(idx, b) + n BY <1>1 DEF ShiftInv
  <1>7. Off(g, b) < Off(j, b) /\ Off(j, b) > Off(idx, b) + n BY <1>1, <1>2, <1>4, <1>6
  <1>8. j # g BY <1>1, <1>2, <1>3, <1>7
  <1>9. u[j] = t[j]
    <2>1. w[j] = t[j] BY <1>1, <1>3, <1>7 DEF ShiftInv
    <2>2. w[j] = u[j] BY <1>1, <1>3, <1>8 DEF Gapped
    <2>3. QED BY <2>1, <2>2
  <1>10. Held(t, j)
    <2>1. Off(j, b) >= Off(idx, b) BY <1>1, <1>2, <1>4
    <2>2. QED BY <1>3, <1>5, <2>1 DEF RunOf
  <1>11. k \in Slot /\ Off(k, b) <= Off(j, b)
    BY <1>3, <1>10, PathsLinear DEF PathIn, RunOf
  <1>12. should_move(g, j, k) <=> Off(k, b) <= Off(g, b) BY <1>1, <1>3, <1>7, <1>11, MoveIff
  <1>13. ShiftBack(ids, idx, n + 1, r)
           = IF should_move(g, j, k) THEN [table |-> [u EXCEPT ![g] = t[j]], gap |-> j] ELSE r
    BY <1>9 DEF ShiftBack, j
  <1>14. CASE should_move(g, j, k)
    <2> DEFINE u2 == [u EXCEPT ![g] = t[j]]
               r2 == [table |-> u2, gap |-> j]
               w2 == [w EXCEPT ![g] = t[j], ![j] = NoFrame]
    <2>1. ShiftInv(t, ids, idx, b, n + 1, w2, j)
      BY <1>1, <1>3, <1>4, <1>5, <1>12, <1>14, ShiftMove
    <2>2. u2 \in [Slot -> Frame \cup {NoFrame}] BY <1>1, <1>3
    <2>3. w2 = Gapped(r2)
      <3>1. Gapped(r2) = [u2 EXCEPT ![j] = NoFrame] BY DEF Gapped
      <3>2. w2 = [[w EXCEPT ![g] = t[j]] EXCEPT ![j] = NoFrame] OBVIOUS
      <3>3. [w EXCEPT ![g] = t[j]] = u2 BY <1>1 DEF Gapped
      <3>4. QED BY <3>1, <3>2, <3>3
    <2>4. r2.table = u2 /\ r2.gap = j OBVIOUS
    <2>5. ShiftBack(ids, idx, n + 1, r) = r2 BY <1>13, <1>14
    <2> HIDE DEF r2, u2, w2
    <2>6. ShiftStepOK(t, ids, idx, b, n + 1, r2) BY <1>3, <2>1, <2>2, <2>3, <2>4 DEF ShiftStepOK
    <2>7. QED BY <2>5, <2>6
  <1>15. CASE ~should_move(g, j, k)
    <2>1. ShiftInv(t, ids, idx, b, n + 1, w, g) BY <1>1, <1>3, <1>4, <1>12, <1>15, ShiftStay
    <2>2. QED BY <1>1, <1>13, <1>15, <2>1 DEF ShiftStepOK
  <1>16. QED BY <1>14, <1>15

\* Removing the entry of page p at slot i.
LEMMA RemoveFacts ==
  ASSUME Roomy, home \in [Pages -> Slot], NEW t, NEW ids, TableOK(t, ids),
         NEW p \in Pages, NEW i, HasKey(t, ids, p, i)
  PROVE  /\ TableOK(hash_remove(t, ids, p), ids)
         /\ \A f \in Frame : (\E s \in Slot : hash_remove(t, ids, p)[s] = f)
                               <=> (\E s \in Slot : t[s] = f) /\ f # t[i]
  <1> DEFINE R == {n \in 1 .. HashSize : t[(i + n) % HashSize] = NoFrame}
             run == Min(R)
             S == Shifted(t, ids, i)
  <1>1. /\ i \in Slot /\ Held(t, i) /\ HashSize \in Nat \ {0} /\ Slot = 0 .. (HashSize - 1)
        /\ t \in [Slot -> Frame \cup {NoFrame}]
    BY ClockConstants DEF HasKey, Roomy, Slot, TableOK
  <1>2. FirstStop(t, ids, p) = i /\ hash_lookup(t, ids, p) # NoFrame BY FoundAt, <1>1 DEF Held
  <1>3. hash_remove(t, ids, p) = Gapped(S[run - 1]) BY <1>2 DEF hash_remove, Gapped
  <1>4. PICK e \in Slot : ~Held(t, e) BY SomeSlotEmpty
  <1>5. Off(i, i) = 0 BY <1>1 DEF Off
  <1>6. /\ Off(e, i) \in 0 .. (HashSize - 1) /\ (i + Off(e, i)) % HashSize = e /\ Off(e, i) # 0
    <2>1. e # i BY <1>1, <1>4
    <2>2. QED BY <1>1, <1>4, <1>5, <2>1, OffFacts
  <1>7. Off(e, i) \in R BY <1>1, <1>4, <1>6 DEF Held
  <1>8. run \in R /\ \A n \in R : run <= n
    <2>1. R \subseteq Nat BY <1>1
    <2>2. QED BY <1>7, <2>1, MinFacts
  <1>9. run \in 1 .. (HashSize - 1)
    <2>1. run \in 1 .. HashSize BY <1>8
    <2>2. run <= Off(e, i) BY <1>7, <1>8
    <2> HIDE DEF run
    <2>3. QED BY <1>1, <1>6, <2>1, <2>2
  <1> HIDE DEF run
  <1> DEFINE z == (i + run) % HashSize
             b == IF z = HashSize - 1 THEN 0 ELSE z + 1
  <1>10. z \in Slot /\ Off(z, i) = run
    <2>1. run \in Slot BY <1>1, <1>9
    <2>2. QED BY <1>1, <2>1, OffFacts
  <1>11. ~Held(t, z) BY <1>8 DEF Held
  <1> HIDE DEF z, R
  <1>12. b \in Slot /\ Off(z, b) = HashSize - 1 BY <1>1, <1>10 DEF Off
  <1> HIDE DEF b
  <1>13. \A s \in Slot : Off(s, b) \in 0 .. (HashSize - 1) BY <1>12, OffNat
  <1>14. Off(i, b) = HashSize - 1 - run /\ Off(i, b) \in 0 .. (HashSize - 1)
    <2>1. Off(z, i) = IF Off(z, b) >= Off(i, b) THEN Off(z, b) - Off(i, b)
                      ELSE Off(z, b) - Off(i, b) + HashSize
      BY <1>1, <1>10, <1>12, OffShift
    <2>2. QED BY <1>1, <1>9, <1>10, <1>12, <1>13, <2>1
  <1>15. RunOf(t, ids, i, b)
    <2>1. ASSUME NEW s \in Slot, Off(s, b) >= Off(i, b), Off(s, b) < HashSize - 1
          PROVE  Held(t, s)
      <3>1. Off(s, i) = IF Off(s, b) >= Off(i, b) THEN Off(s, b) - Off(i, b)
                        ELSE Off(s, b) - Off(i, b) + HashSize
        BY <1>1, <1>12, OffShift
      <3>2. Off(s, i) \in 0 .. (run - 1)
        <4>1. Off(s, i) = Off(s, b) - Off(i, b) BY <2>1, <3>1
        <4>2. Off(s, b) \in 0 .. (HashSize - 1) BY <1>13
        <4>3. Off(s, b) - Off(i, b) \in 0 .. (run - 1) BY <1>1, <1>9, <1>14, <2>1, <4>2
        <4>4. QED BY <4>1, <4>3
      <3>3. CASE Off(s, i) = 0
        <4>1. s = i BY <1>1, <1>5, <3>3, OffFacts
        <4>2. QED BY <1>1, <4>1
      <3>4. CASE Off(s, i) # 0
        <4>1. Off(s, i) \in 1 .. HashSize /\ ~(run <= Off(s, i)) BY <1>1, <1>9, <3>2, <3>4
        <4>2. Off(s, i) \notin R BY <1>8, <4>1
        <4>3. (i + Off(s, i)) % HashSize = s BY <1>1, OffFacts
        <4>4. QED BY <4>1, <4>2, <4>3 DEF R, Held
      <3>5. QED BY <3>3, <3>4
    <2>2. ASSUME NEW s \in Slot, Off(s, b) = HashSize - 1 PROVE ~Held(t, s)
      <3>1. s = z BY <1>10, <1>12, <2>2, OffFacts
      <3>2. QED BY <1>11, <3>1
    <2>3. Off(i, b) < HashSize - 1 BY <1>1, <1>9, <1>14
    <2>4. QED BY <1>1, <1>12, <2>1, <2>2, <2>3 DEF RunOf
  <1> DEFINE Q == {n \in Nat : n <= run - 1 => ShiftStepOK(t, ids, i, b, n, S[n])}
  <1>16. 0 \in Q
    <2>1. S[0] = [table |-> t, gap |-> i] BY ShiftDefined
    <2>2. S[0].table = t /\ S[0].gap = i BY <2>1
    <2>3. Gapped(S[0]) = [t EXCEPT ![i] = NoFrame] BY <2>2 DEF Gapped
    <2>4. ShiftInv(t, ids, i, b, 0, Gapped(S[0]), S[0].gap) BY <1>15, <2>2, <2>3, ShiftStart
    <2> HIDE DEF S
    <2>5. ShiftStepOK(t, ids, i, b, 0, S[0]) BY <1>1, <2>2, <2>4 DEF ShiftStepOK
    <2>6. QED BY <2>5
  <1>17. ASSUME NEW n \in Nat, n \in Q PROVE n + 1 \in Q
    <2> SUFFICES ASSUME n + 1 <= run - 1 PROVE ShiftStepOK(t, ids, i, b, n + 1, S[n + 1]) OBVIOUS
    <2>1. n <= run - 1 /\ n + 1 \in 1 .. HashSize /\ (n + 1) - 1 = n BY <1>1, <1>9
    <2>2. ShiftStepOK(t, ids, i, b, n, S[n]) BY <1>17, <2>1
    <2>3. Off(i, b) + (n + 1) < HashSize - 1 BY <1>1, <1>9, <1>14
    <2>4. S[n + 1] = ShiftBack(ids, i, n + 1, S[n])
      <3>1. /\ S[0] = [table |-> t, gap |-> i]
            /\ \A m \in 1 .. HashSize : S[m] = ShiftBack(ids, i, m, S[m - 1])
        BY ShiftDefined
      <3> HIDE DEF S
      <3>2. S[n + 1] = ShiftBack(ids, i, n + 1, S[(n + 1) - 1]) BY <2>1, <3>1
      <3>3. QED BY <2>1, <3>2
    <2> HIDE DEF S
    <2>5. QED BY <1>15, <2>1, <2>2, <2>3, <2>4, ShiftNext
  <1>18. Nat \subseteq Q
    <2> HIDE DEF Q
    <2>1. QED BY <1>16, <1>17, SetInduction
  <1> HIDE DEF S
  <1>19. ShiftStepOK(t, ids, i, b, run - 1, S[run - 1])
    <2>1. run - 1 \in Nat /\ run - 1 <= run - 1 BY <1>9
    <2>2. QED BY <1>18, <2>1
  <1> DEFINE w == Gapped(S[run - 1])
  <1>20. ShiftInv(t, ids, i, b, run - 1, w, S[run - 1].gap) BY <1>19 DEF ShiftStepOK
  <1> HIDE DEF w
  <1>21. run - 1 \in Nat /\ Off(i, b) + (run - 1) = HashSize - 2 BY <1>1, <1>9, <1>14
  <1>22. TableOK(w, ids) BY <1>15, <1>20, <1>21, ShiftEnd
  <1>23. \A f \in Frame : (\E s \in Slot : w[s] = f) <=> (\E s \in Slot : t[s] = f) /\ f # t[i]
    BY <1>20 DEF ShiftInv
  <1>24. QED BY <1>3, <1>22, <1>23 DEF w

-----------------------------------------------------------------------------
(* The page table: the invariant of its use by the buffer pool.            *)

\* Every frame with a page is in the table.
Entered(t, ids) == \A g \in Frame : ids[g] # 0 => \E i \in Slot : t[i] = g

TableInv ==
  /\ home \in [Pages -> Slot] /\ page_ids \in [Frame -> Pages \cup {0}]
  /\ mapping \in [Pages -> Frame \cup {NoFrame}]
  /\ TableOK(hash_table, page_ids)
  /\ Entered(hash_table, page_ids)
  /\ \A p \in Pages, f \in Frame : page_ids[f] = p <=> mapping[p] = f

\* Only the keys of the frames that are in the table matter.
LEMMA SameKeys ==
  ASSUME NEW t, NEW ids, NEW ids2, TableOK(t, ids),
         \A i \in Slot : Held(t, i) => ids2[t[i]] = ids[t[i]]
  PROVE  TableOK(t, ids2)
  BY DEF TableOK, KeysApart, PathsFull

\* Frame f is not in the table, the other frames with a page are, and page p
\* is not.
CanTake(t, ids, p, f) ==
  /\ TableOK(t, ids) /\ ids \in [Frame -> Pages \cup {0}]
  /\ \A i \in Slot : t[i] # f
  /\ \A g \in Frame : g # f => ids[g] # p
  /\ \A g \in Frame : g # f /\ ids[g] # 0 => \E i \in Slot : t[i] = g

\* Then f can take p.
LEMMA TakeFrame ==
  ASSUME Roomy, home \in [Pages -> Slot], NEW t, NEW ids, NEW p \in Pages, NEW f \in Frame,
         CanTake(t, ids, p, f)
  PROVE  /\ TableOK(hash_insert(t, [ids EXCEPT ![f] = p], p, f), [ids EXCEPT ![f] = p])
         /\ Entered(hash_insert(t, [ids EXCEPT ![f] = p], p, f), [ids EXCEPT ![f] = p])
  <1> USE DEF CanTake
  <1> DEFINE ids2 == [ids EXCEPT ![f] = p]
             t2 == hash_insert(t, ids2, p, f)
  <1>1. ids2[f] = p /\ \A g \in Frame : g # f => ids2[g] = ids[g] OBVIOUS
  <1>2. t \in [Slot -> Frame \cup {NoFrame}] BY DEF TableOK
  <1>3. \A i \in Slot : Held(t, i) => t[i] \in Frame /\ t[i] # f BY <1>2 DEF Held
  <1> HIDE DEF ids2, t2
  <1>4. TableOK(t, ids2) BY <1>1, <1>3, SameKeys
  <1>5. \A i \in Slot : ~HasKey(t, ids2, p, i) BY <1>1, <1>3 DEF HasKey
  <1>6. PICK e \in Slot : ~Held(t, e) BY SomeSlotEmpty
  <1>7. /\ TableOK(t2, ids2)
        /\ \E s \in Slot : ~Held(t, s) /\ t2 = [t EXCEPT ![s] = f]
    BY <1>1, <1>4, <1>5, <1>6, InsertFacts DEF t2
  <1>8. PICK s \in Slot : ~Held(t, s) /\ t2 = [t EXCEPT ![s] = f] BY <1>7
  <1>9. t2[s] = f /\ \A i \in Slot : i # s => t2[i] = t[i] BY <1>2, <1>8
  <1>10. ASSUME NEW g \in Frame, ids2[g] # 0 PROVE \E i \in Slot : t2[i] = g
    <2>1. CASE g = f BY <1>9, <2>1
    <2>2. CASE g # f
      <3>1. PICK i \in Slot : t[i] = g BY <1>1, <1>10, <2>2
      <3>2. i # s BY <1>8, <3>1, NoFrameApart DEF Held
      <3>3. QED BY <1>9, <3>1, <3>2
    <2>3. QED BY <2>1, <2>2
  <1>11. QED BY <1>7, <1>10 DEF ids2, t2, Entered

LEMMA LookupFromInv == ASSUME Roomy, TableInv PROVE LookupExact
  <1> SUFFICES ASSUME NEW p \in Pages PROVE hash_lookup(hash_table, page_ids, p) = mapping[p]
    BY DEF LookupExact
  <1>1. /\ home \in [Pages -> Slot] /\ TableOK(hash_table, page_ids)
        /\ mapping[p] \in Frame \cup {NoFrame} /\ hash_table \in [Slot -> Frame \cup {NoFrame}]
    BY DEF TableInv, TableOK
  <1>2. p # 0 BY TableConstants
  <1>3. CASE mapping[p] \in Frame
    <2>1. page_ids[mapping[p]] = p BY <1>3 DEF TableInv
    <2>2. PICK i \in Slot : hash_table[i] = mapping[p] BY <1>2, <1>3, <2>1 DEF TableInv, Entered
    <2>3. HasKey(hash_table, page_ids, p, i) BY <1>3, <2>1, <2>2, NoFrameApart DEF HasKey, Held
    <2>4. QED BY <1>1, <2>2, <2>3, FoundAt
  <1>4. CASE mapping[p] = NoFrame
    <2>1. \A f \in Frame : page_ids[f] # p BY <1>4, NoFrameApart DEF TableInv
    <2>2. \A i \in Slot : ~HasKey(hash_table, page_ids, p, i) BY <1>1, <2>1 DEF HasKey, Held
    <2>3. PICK e \in Slot : ~Held(hash_table, e) BY <1>1, SomeSlotEmpty
    <2>4. QED BY <1>1, <1>4, <2>2, <2>3, NotFound
  <1>5. QED BY <1>1, <1>3, <1>4

LEMMA TableInitInv == TableInit => TableInv
  <1> SUFFICES ASSUME TableInit PROVE TableInv OBVIOUS
  <1>1. hash_table \in [Slot -> Frame \cup {NoFrame}] /\ \A i \in Slot : ~Held(hash_table, i)
    BY DEF TableInit, Held
  <1>2. TableOK(hash_table, page_ids) BY <1>1 DEF TableOK, KeysApart, PathsFull
  <1>3. \A f \in Frame : page_ids[f] = 0 BY DEF TableInit
  <1>4. \A p \in Pages, f \in Frame : ~(page_ids[f] = p) /\ ~(mapping[p] = f)
    BY <1>3, NoFrameApart, TableConstants DEF TableInit
  <1>5. /\ home \in [Pages -> Slot] /\ page_ids \in [Frame -> Pages \cup {0}]
        /\ mapping \in [Pages -> Frame \cup {NoFrame}]
    BY DEF TableInit
  <1>6. QED BY <1>2, <1>3, <1>4, <1>5 DEF TableInv, Entered

\* What the two steps have in common.
Taken(t, p, f) ==
  /\ home' = home /\ page_ids' = [page_ids EXCEPT ![f] = p]
  /\ hash_table' = hash_insert(t, [page_ids EXCEPT ![f] = p], p, f)
  /\ mapping' \in [Pages -> Frame \cup {NoFrame}]
  /\ \A q \in Pages : mapping'[q] = IF q = p THEN f ELSE IF q = page_ids[f] THEN NoFrame
                                    ELSE mapping[q]

LEMMA TakeInv ==
  ASSUME Roomy, TableInv, NEW t, NEW p \in Pages, NEW f \in Frame,
         CanTake(t, page_ids, p, f), Taken(t, p, f)
  PROVE  TableInv'
  <1> USE DEF Taken
  <1>1. /\ home \in [Pages -> Slot] /\ page_ids \in [Frame -> Pages \cup {0}]
        /\ \A q \in Pages, g \in Frame : page_ids[g] = q <=> mapping[q] = g
    BY DEF TableInv
  <1>2. \A g \in Frame : g # f => page_ids[g] # p BY DEF CanTake
  <1>3. TableOK(hash_table', page_ids') /\ Entered(hash_table', page_ids')
    BY <1>1, TakeFrame
  <1>4. page_ids' \in [Frame -> Pages \cup {0}] BY <1>1
  <1>5. page_ids'[f] = p /\ \A g \in Frame : g # f => page_ids'[g] = page_ids[g] BY <1>1
  <1>6. \A q \in Pages, g \in Frame : page_ids'[g] = q <=> mapping'[q] = g
    <2> SUFFICES ASSUME NEW q \in Pages, NEW g \in Frame
                 PROVE  page_ids'[g] = q <=> mapping'[q] = g
      OBVIOUS
    <2>1. g # NoFrame BY NoFrameApart
    <2>2. CASE q = p BY <1>2, <1>5, <2>2
    <2>3. CASE q # p /\ q = page_ids[f]
      <3>1. mapping[q] = f BY <1>1, <2>3
      <3>2. mapping'[q] = NoFrame BY <2>3
      <3>3. g # f => page_ids[g] # q BY <1>1, <3>1
      <3>4. QED BY <1>5, <2>1, <2>3, <3>2, <3>3
    <2>4. CASE q # p /\ q # page_ids[f]
      <3>1. mapping'[q] = mapping[q] BY <2>4
      <3>2. mapping[q] # f BY <1>1, <2>4
      <3>3. QED BY <1>1, <1>5, <2>4, <3>1, <3>2
    <2>5. QED BY <2>2, <2>3, <2>4
  <1>7. (TableOK(hash_table, page_ids))'
    BY <1>3 DEF TableOK, KeysApart, PathsFull, Held
  <1>8. QED BY <1>1, <1>3, <1>4, <1>6, <1>7 DEF TableInv, Entered

LEMMA FillInv ==
  ASSUME Roomy, TableInv, NEW p \in Pages, NEW f \in Frame, Fill(p, f) PROVE TableInv'
  <1>1. mapping[p] = NoFrame BY LookupFromInv DEF Fill, LookupExact
  <1>2. /\ TableOK(hash_table, page_ids) /\ hash_table \in [Slot -> Frame \cup {NoFrame}]
        /\ mapping \in [Pages -> Frame \cup {NoFrame}]
    BY DEF TableInv, TableOK
  <1>3. page_ids[f] = 0 /\ \A q \in Pages : q # 0 BY TableConstants DEF Fill
  <1>4. \A i \in Slot : hash_table[i] # f BY <1>2, <1>3, NoFrameApart DEF TableOK, Held
  <1>5. \A g \in Frame : g # f /\ page_ids[g] # 0 => \E i \in Slot : hash_table[i] = g
    BY DEF TableInv, Entered
  <1>6. /\ home' = home /\ page_ids' = [page_ids EXCEPT ![f] = p]
        /\ hash_table' = hash_insert(hash_table, [page_ids EXCEPT ![f] = p], p, f)
        /\ mapping' = [mapping EXCEPT ![p] = f]
    BY DEF Fill
  <1>7. mapping' \in [Pages -> Frame \cup {NoFrame}] BY <1>2, <1>6
  <1>8. \A q \in Pages : mapping'[q] = IF q = p THEN f ELSE IF q = page_ids[f] THEN NoFrame
                                       ELSE mapping[q]
    BY <1>2, <1>3, <1>6
  <1>9. \A g \in Frame : page_ids[g] # p BY <1>1, NoFrameApart DEF TableInv
  <1>10. CanTake(hash_table, page_ids, p, f) BY <1>2, <1>4, <1>5, <1>9 DEF CanTake, TableInv
  <1>11. Taken(hash_table, p, f) BY <1>6, <1>7, <1>8 DEF Taken
  <1>12. QED BY <1>10, <1>11, TakeInv

LEMMA ReplaceInv ==
  ASSUME Roomy, TableInv, NEW p \in Pages, NEW f \in Frame, Replace(p, f) PROVE TableInv'
  <1> DEFINE old == page_ids[f]
             t == hash_remove(hash_table, page_ids, old)
  <1>1. mapping[p] = NoFrame BY LookupFromInv DEF Replace, LookupExact
  <1>2. /\ TableOK(hash_table, page_ids) /\ hash_table \in [Slot -> Frame \cup {NoFrame}]
        /\ mapping \in [Pages -> Frame \cup {NoFrame}] /\ home \in [Pages -> Slot]
    BY DEF TableInv, TableOK
  <1>3. old \in Pages BY DEF Replace, TableInv
  <1>4. PICK i \in Slot : hash_table[i] = f BY DEF Replace, TableInv, Entered
  <1>5. HasKey(hash_table, page_ids, old, i) BY <1>4, NoFrameApart DEF HasKey, Held
  <1>6. /\ TableOK(t, page_ids)
        /\ \A g \in Frame : (\E s \in Slot : t[s] = g)
                              <=> (\E s \in Slot : hash_table[s] = g) /\ g # hash_table[i]
    BY <1>2, <1>3, <1>5, RemoveFacts
  <1>7. \A s \in Slot : t[s] # f BY <1>4, <1>6
  <1>8. \A g \in Frame : g # f /\ page_ids[g] # 0 => \E s \in Slot : t[s] = g
    BY <1>4, <1>6 DEF TableInv, Entered
  <1>9. /\ home' = home /\ page_ids' = [page_ids EXCEPT ![f] = p]
        /\ hash_table' = hash_insert(t, [page_ids EXCEPT ![f] = p], p, f)
        /\ mapping' = [mapping EXCEPT ![old] = NoFrame, ![p] = f]
    BY DEF Replace
  <1> HIDE DEF t
  <1>10. mapping' \in [Pages -> Frame \cup {NoFrame}] BY <1>2, <1>9
  <1>11. \A q \in Pages : mapping'[q] = IF q = p THEN f ELSE IF q = page_ids[f] THEN NoFrame
                                        ELSE mapping[q]
    BY <1>2, <1>3, <1>9
  <1>12. \A g \in Frame : page_ids[g] # p BY <1>1, NoFrameApart DEF TableInv
  <1>13. CanTake(t, page_ids, p, f) BY <1>6, <1>7, <1>8, <1>12 DEF CanTake, TableInv
  <1>14. Taken(t, p, f) BY <1>9, <1>10, <1>11 DEF Taken
  <1>15. QED BY <1>13, <1>14, TakeInv

LEMMA TableInvariant == ASSUME Roomy PROVE TableSpec => []TableInv
  <1>1. ASSUME TableInv, [TableNext]_tableVars PROVE TableInv'
    <2>1. ASSUME NEW p \in Pages, NEW f \in Frame, Fill(p, f) PROVE TableInv'
      BY <1>1, <2>1, FillInv
    <2>2. ASSUME NEW p \in Pages, NEW f \in Frame, Replace(p, f) PROVE TableInv'
      BY <1>1, <2>2, ReplaceInv
    <2>3. CASE UNCHANGED tableVars
      BY <1>1, <2>3 DEF tableVars, TableInv, TableOK, KeysApart, PathsFull, Held, Entered
    <2>4. QED BY <1>1, <2>1, <2>2, <2>3 DEF TableNext
  <1>2. QED BY <1>1, TableInitInv, PTL DEF TableSpec

\* EXACT.  For any number of frames, any pages and any hash function: after
\* every sequence of insertions and shifting deletions, hash_lookup finds
\* exactly the pages that are cached, each in its frame.  BufferPool may use
\* a function for the table.
THEOREM LookupTheorem == ASSUME PrimeExists PROVE TableSpec => []LookupExact
  <1>1. Roomy BY HashSizeFacts
  <1>2. TableInv => LookupExact BY <1>1, LookupFromInv
  <1>3. TableSpec => []TableInv BY <1>1, TableInvariant
  <1>4. QED BY <1>2, <1>3, PTL

\* TERMINATION.  The table always keeps an empty slot, which ends the loops
\* of hash_insert and of the backward shift in hash_remove.
THEOREM SlotTheorem == ASSUME PrimeExists PROVE TableSpec => []SlotLeft
  <1>1. Roomy BY HashSizeFacts
  <1>2. TableInv => SlotLeft
    <2> SUFFICES ASSUME TableInv PROVE SlotLeft OBVIOUS
    <2>1. TableOK(hash_table, page_ids) BY DEF TableInv
    <2>2. \E e \in Slot : ~Held(hash_table, e) BY <1>1, <2>1, SomeSlotEmpty
    <2>3. QED BY <2>2 DEF SlotLeft, Held
  <1>3. TableSpec => []TableInv BY <1>1, TableInvariant
  <1>4. QED BY <1>2, <1>3, PTL

=============================================================================
