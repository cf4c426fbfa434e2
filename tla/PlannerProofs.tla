--------------------------- MODULE PlannerProofs ---------------------------
(***************************************************************************)
(* For every ring size, every set of motions and every set of overrides:   *)
(* the planner's pointers stay in order and no junction is planned faster  *)
(* than its maximum, through streaming, overrides, holds and resets; and,  *)
(* until an override hits it, the plan can be executed.                    *)
(***************************************************************************)
EXTENDS Planner, TLAPS

\* A block that is being executed is in the queue.
ExecutingQueued == loaded => tail # head

\* The junctions the reverse pass has yet to visit may still have an entry speed
\* from before an override; all others respect their maximum.
Unvisited(p) == pc = "reverse" /\ Offset(planned) < Offset(p) /\ Offset(p) < Offset(current)
EntriesBounded ==
    \A p \in Slot : Queued(p) /\ p # tail /\ ~Unvisited(p) => blocks[p].entry <= blocks[p].max

\* The inductive invariant.
IInv == TypeOK /\ PlannedInQueue /\ ExecutingQueued /\ EntriesBounded

-----------------------------------------------------------------------------

\* Stepping through the ring stays in the ring, and next undoes prev.
LEMMA SlotSteps ==
    ASSUME NEW p \in Slot
    PROVE  /\ Next_(p) \in Slot /\ Prev(p) \in Slot
           /\ Next_(Prev(p)) = p /\ Prev(Next_(p)) = p
BY SizeAssumption DEF Slot, Next_, Prev

\* Nominal speeds and maximum entry speeds are natural numbers.
LEMMA SpeedTypes ==
    ASSUME NEW b \in Block, NEW f \in Overrides, NEW r \in Overrides, NEW prev \in Nat
    PROVE  /\ NominalSpeed(b, f, r) \in Nat
           /\ MaxEntry(b, NominalSpeed(b, f, r), prev) \in Nat
<1>1. \A x \in Nat, y \in Nat : (x * y) \div 100 \in Nat /\ x * y \in Nat
  <2>. TAKE x \in Nat, y \in Nat
  <2>1. x * y \in Nat
    OBVIOUS
  <2>2. \A z \in Nat : z \div 100 \in Nat
    OBVIOUS
  <2>. QED
    BY <2>1, <2>2
<1>2. f \in Nat /\ r \in Nat /\ RapidRate \in Nat /\ b.rate \in Nat /\ b.junction \in Nat
  BY OverridesAssumption, RapidRateAssumption DEF Block
<1>3. NominalSpeed(b, f, r) \in Nat
  <2>1. Min2(b.rate, RapidRate) \in Nat
    BY <1>2 DEF Min2
  <2>2. (RapidRate * r) \div 100 \in Nat /\ (Min2(b.rate, RapidRate) * f) \div 100 \in Nat
    BY <1>1, <1>2, <2>1
  <2>3. Min2((Min2(b.rate, RapidRate) * f) \div 100, RapidRate) \in Nat
    BY <2>2, <1>2 DEF Min2
  <2>. QED
    BY <2>2, <2>3 DEF NominalSpeed
<1>4. MaxEntry(b, NominalSpeed(b, f, r), prev) \in Nat
  <2>. DEFINE m == Min2(NominalSpeed(b, f, r), prev)
  <2>1. m \in Nat
    BY <1>3 DEF Min2
  <2>2. m * m \in Nat
    BY <2>1, <1>1
  <2>. QED
    BY <1>2, <2>2 DEF MaxEntry, Min2
<1>. QED
  BY <1>3, <1>4

\* The effect of planner_recalculate's entry on the types.
LEMMA RecalculateTypes ==
    ASSUME TypeOK, NEW bs \in [Slot -> Block], NEW h \in Slot, NEW q \in Slot,
           NEW x \in BOOLEAN, Recalculate(bs, h, q, x)
    PROVE  /\ blocks' \in [Slot -> Block]
           /\ loaded' \in BOOLEAN
           /\ pc' \in {"idle", "reverse", "forward"} /\ current' \in Slot
<1>. DEFINE last == Prev(h)
            planLast == [bs EXCEPT ![last].entry = Min2(bs[last].max, bs[last].dist)]
            y == x /\ Prev(last) = q /\ q = tail
<1>1. last \in Slot
  BY SlotSteps
<1>2. planLast \in [Slot -> Block]
  <2>1. Min2(bs[last].max, bs[last].dist) \in Nat
    BY <1>1 DEF Block, Min2
  <2>. QED
    BY <1>1, <2>1 DEF Block
<1>3. Restarted(planLast, y, speed) \in [Slot -> Block]
  BY <1>2, SMTT(30) DEF Restarted, TypeOK, Block
<1>. QED
  BY <1>1, <1>2, <1>3 DEF Recalculate, TypeOK

\* Every action keeps the types of the ring, its pointers and the stepper state.
LEMMA TypeStep == TypeOK /\ [Next]_vars => TypeOK'
<1>. SUFFICES ASSUME TypeOK, [Next]_vars PROVE TypeOK'
  OBVIOUS
<1>. USE DEF ring, stepper
<1>0. \A p \in Slot : Next_(p) \in Slot /\ Prev(p) \in Slot
  BY SlotSteps
<1>1. CASE ReverseStep
  <2>. DEFINE p == Prev(current)
              bs == [blocks EXCEPT ![p].entry = ReverseEntry(p)]
  <2>1. p \in Slot /\ Next_(p) \in Slot /\ Prev(p) \in Slot
    BY <1>0 DEF TypeOK
  <2>2. ReverseEntry(p) \in Nat
    BY <2>1 DEF ReverseEntry, Min2, TypeOK, Block
  <2>3. bs \in [Slot -> Block]
    BY <2>1, <2>2 DEF TypeOK, Block
  <2>4. \A y : Restarted(bs, y, speed) \in [Slot -> Block]
    BY <2>3 DEF Restarted, TypeOK, Block
  <2>5. blocks' \in [Slot -> Block]
    BY <1>1, <2>4 DEF ReverseStep
  <2>6. pc' \in {"idle", "reverse", "forward"} /\ current' \in Slot /\ loaded' \in BOOLEAN
    BY <1>1, <2>1 DEF ReverseStep, TypeOK
  <2>. QED
    BY <1>1, <2>5, <2>6 DEF ReverseStep, TypeOK
<1>2. CASE ForwardStep
  <2>. DEFINE next == Next_(current)
              v == blocks[current].entry + blocks[current].dist
              entry == IF v < blocks[next].entry THEN v ELSE blocks[next].entry
  <2>0. 0 \in Slot
    BY SizeAssumption DEF Slot
  <2>1. next \in Slot
    BY <1>0 DEF TypeOK
  <2>2. entry \in Nat
    BY <2>1 DEF TypeOK, Block
  <2>3. [blocks EXCEPT ![next].entry = entry] \in [Slot -> Block]
    BY <2>1, <2>2 DEF TypeOK, Block
  <2>4. blocks' \in [Slot -> Block]
    BY <1>2, <2>3 DEF ForwardStep, TypeOK
  <2>5. planned' \in Slot /\ current' \in Slot /\ pc' \in {"idle", "reverse", "forward"}
    BY <1>2, <2>0, <2>1 DEF ForwardStep, TypeOK
  <2>. QED
    BY <1>2, <2>4, <2>5 DEF ForwardStep, TypeOK
<1>3. ASSUME NEW m \in Moves, plan_buffer_line(m) PROVE TypeOK'
  <2>. DEFINE b == [dist |-> m.dist, rate |-> m.rate, rapid |-> m.rapid,
                    junction |-> IF head = tail THEN 0 ELSE m.junction, max |-> 0, entry |-> 0]
              n == NominalSpeed(b, feed, rapid)
              mx == MaxEntry(b, n, previous_nominal)
              bs == [blocks EXCEPT ![head] = [b EXCEPT !.max = mx]]
  <2>1. b \in Block
    BY <1>3, MovesAssumption DEF Block
  <2>2. n \in Nat /\ mx \in Nat
    BY <2>1, SpeedTypes DEF TypeOK
  <2>3. [b EXCEPT !.max = mx] \in Block
    BY <2>1, <2>2 DEF Block
  <2>4. bs \in [Slot -> Block]
    BY <2>3 DEF TypeOK
  <2>5. Next_(head) \in Slot /\ loaded \in BOOLEAN /\ planned \in Slot
    BY <1>0 DEF TypeOK
  <2>6. Recalculate(bs, Next_(head), planned, loaded)
    BY <1>3 DEF plan_buffer_line
  <2>. HIDE DEF bs
  <2>7. /\ blocks' \in [Slot -> Block] /\ loaded' \in BOOLEAN
        /\ pc' \in {"idle", "reverse", "forward"} /\ current' \in Slot
    BY <2>4, <2>5, <2>6, RecalculateTypes
  <2>8. moves' \in Nat /\ previous_nominal' \in Nat /\ head' \in Slot
    BY <1>3, <2>2, <2>5 DEF plan_buffer_line, TypeOK
  <2>9. overridden' \in BOOLEAN
    BY <1>3 DEF plan_buffer_line, TypeOK
  <2>. QED
    BY <1>3, <2>7, <2>8, <2>9 DEF plan_buffer_line, TypeOK
<1>4. ASSUME NEW bs \in [Slot -> Block], NEW v \in Nat, Reinitialize(bs, v)
      PROVE  /\ blocks' \in [Slot -> Block] /\ loaded' \in BOOLEAN /\ planned' \in Slot
             /\ pc' \in {"idle", "reverse", "forward"} /\ current' \in Slot
  <2>1. Restarted(bs, loaded, v) \in [Slot -> Block]
    BY DEF Restarted, TypeOK, Block
  <2>2. CASE tail # head /\ Recalculate(Restarted(bs, loaded, v), head, tail, FALSE)
    <3>1. head \in Slot /\ tail \in Slot
      BY DEF TypeOK
    <3>. QED
      BY <1>4, <2>1, <2>2, <3>1, RecalculateTypes DEF Reinitialize
  <2>3. CASE tail = head /\ blocks' = bs /\ loaded' = FALSE /\ UNCHANGED << pc, current >>
    BY <1>4, <2>3 DEF Reinitialize, TypeOK
  <2>. QED
    BY <1>4, <2>2, <2>3 DEF Reinitialize
<1>5. ASSUME NEW f \in Overrides, NEW r \in Overrides, plan_feed_override(f, r) PROVE TypeOK'
  <2>. DEFINE nom(p) == NominalSpeed(blocks[p], f, r)
              prev(p) == IF p = tail THEN Large ELSE nom(Prev(p))
              bs == [p \in Slot |->
                       IF Queued(p)
                       THEN [blocks[p] EXCEPT !.max = MaxEntry(blocks[p], nom(p), prev(p))]
                       ELSE blocks[p]]
  <2>1. \A p \in Slot : nom(p) \in Nat
    BY SpeedTypes DEF TypeOK
  <2>2. \A p \in Slot : prev(p) \in Nat
    BY <2>1, <1>0 DEF Large
  <2>3. \A p \in Slot : MaxEntry(blocks[p], nom(p), prev(p)) \in Nat
    BY <2>2, SpeedTypes DEF TypeOK
  <2>4. bs \in [Slot -> Block]
    BY <2>3 DEF TypeOK, Block
  <2>5. CASE tail # head
    <3>1. Reinitialize(bs, speed) /\ previous_nominal' = nom(Prev(head)) /\ overridden' = TRUE
      BY <1>5, <2>5 DEF plan_feed_override
    <3>2. /\ blocks' \in [Slot -> Block] /\ loaded' \in BOOLEAN /\ planned' \in Slot
          /\ pc' \in {"idle", "reverse", "forward"} /\ current' \in Slot
      BY <3>1, <2>4, <1>4 DEF TypeOK
    <3>3. previous_nominal' \in Nat
      BY <3>1, <2>1, <1>0 DEF TypeOK
    <3>. QED
      BY <1>5, <3>1, <3>2, <3>3 DEF plan_feed_override, TypeOK
  <2>6. CASE tail = head
    BY <1>5, <2>6 DEF plan_feed_override, TypeOK
  <2>. QED
    BY <2>5, <2>6
<1>6. CASE plan_reset
  <2>1. NoBlock \in Block /\ 0 \in Slot
    BY SizeAssumption DEF NoBlock, Block, Slot
  <2>. QED
    BY <1>6, <2>1 DEF plan_reset, TypeOK
<1>7. CASE Load
  <2>1. speed' \in Nat
    BY <1>7 DEF Load, TypeOK, Block
  <2>2. blocks' \in [Slot -> Block]
    BY <1>7, <2>1 DEF Load, TypeOK, Block
  <2>. QED
    BY <1>7, <2>1, <2>2 DEF Load, TypeOK
<1>8. CASE Progress
  <2>. PICK p \in 1 .. blocks[tail].dist - 1 :
               /\ blocks' = [blocks EXCEPT ![tail].dist = blocks[tail].dist - p]
               /\ speed' = Profile(p)
    BY <1>8 DEF Progress
  <2>1. blocks[tail].dist \in Nat /\ blocks[tail].dist - p \in Nat /\ p \in Nat
    BY DEF TypeOK, Block
  <2>2. blocks' \in [Slot -> Block]
    BY <2>1 DEF TypeOK, Block
  <2>3. ExitSpeed \in Nat
    BY <1>0 DEF ExitSpeed, TypeOK, Block
  <2>4. NominalSpeed(blocks[tail], feed, rapid) \in Nat
    BY SpeedTypes DEF TypeOK
  <2>. DEFINE n == NominalSpeed(blocks[tail], feed, rapid)
  <2>5. n * n \in Nat
    BY <2>4
  <2>6. \A nn \in Nat : Min2(Min2(speed + p, nn), ExitSpeed + blocks[tail].dist - p) \in Nat
    BY <2>1, <2>3 DEF Min2, TypeOK
  <2>7. Profile(p) \in Nat
    <3>. DEFINE t == Min2(Min2(speed + p, n * n), ExitSpeed + blocks[tail].dist - p)
    <3>1. t \in Nat
      BY <2>5, <2>6
    <3>2. Profile(p) = IF speed - p > t THEN speed - p ELSE t
      BY DEF Profile
    <3>. QED
      BY <3>1, <3>2, <2>1 DEF TypeOK
  <2>. QED
    BY <1>8, <2>2, <2>7 DEF Progress, TypeOK
<1>9. ASSUME Discard PROVE blocks' \in [Slot -> Block] /\ tail' \in Slot /\ planned' \in Slot
  <2>1. NoBlock \in Block
    BY DEF NoBlock, Block
  <2>. QED
    BY <1>9, <1>0, <2>1 DEF Discard, TypeOK
<1>10. CASE Complete
  <2>. DEFINE n == NominalSpeed(blocks[tail], feed, rapid)
              nn == n * n
  <2>1. nn \in Nat
    BY SpeedTypes DEF TypeOK
  <2>2. blocks[tail].dist \in Nat
    BY DEF TypeOK, Block
  <2>3. carry' = IF speed - blocks[tail].dist >= nn THEN speed - blocks[tail].dist ELSE -1
    BY <1>10 DEF Complete
  <2>. HIDE DEF nn
  <2>4. carry' \in Nat \cup {-1}
    BY <2>1, <2>2, <2>3 DEF TypeOK
  <2>. QED
    BY <1>9, <1>10, <2>4 DEF Complete, TypeOK
<1>11. CASE HoldBegin
  BY <1>11 DEF HoldBegin, TypeOK
<1>12. CASE HoldThroughBlock
  <2>1. carry' \in Nat
    BY <1>12 DEF HoldThroughBlock, TypeOK, Block
  <2>. QED
    BY <1>9, <1>12, <2>1 DEF HoldThroughBlock, TypeOK
<1>13. CASE HoldEnd
  <2>1. CASE loaded /\ speed < blocks[tail].dist
               /\ Reinitialize([blocks EXCEPT ![tail].dist = blocks[tail].dist - speed], 0)
    <3>1. [blocks EXCEPT ![tail].dist = blocks[tail].dist - speed] \in [Slot -> Block]
      BY <2>1 DEF TypeOK, Block
    <3>. QED
      BY <1>4, <1>13, <2>1, <3>1 DEF HoldEnd, TypeOK
  <2>2. CASE tail = head /\ Reinitialize(blocks, 0)
    BY <1>4, <1>13, <2>2 DEF HoldEnd, TypeOK
  <2>. QED
    BY <1>13, <2>1, <2>2 DEF HoldEnd
<1>14. CASE UNCHANGED vars
  BY <1>14 DEF vars, TypeOK
<1>. QED
  BY <1>1, <1>2, <1>3, <1>5, <1>6, <1>7, <1>8, <1>10, <1>11, <1>12, <1>13, <1>14 DEF Next

-----------------------------------------------------------------------------
(* Positions in the ring, counted from the tail.                           *)

\* Positions are numbers up to Size, zero at the tail only.
LEMMA OffsetRange ==
    ASSUME TypeOK, NEW p \in Slot
    PROVE  Offset(p) \in 0 .. Size /\ (Offset(p) = 0 <=> p = tail)
<1>1. tail \in Slot
  BY DEF TypeOK
<1>. QED
  BY <1>1, SizeAssumption DEF Slot, Offset

\* Two slots at the same position are the same.
LEMMA OffsetInjective ==
    ASSUME TypeOK, NEW p \in Slot, NEW q \in Slot, Offset(p) = Offset(q)
    PROVE  p = q
<1>1. tail \in Slot
  BY DEF TypeOK
<1>. QED
  BY <1>1, SizeAssumption DEF Slot, Offset

\* The next slot is one position further, unless it is the tail.
LEMMA OffsetNext ==
    ASSUME TypeOK, NEW p \in Slot, Next_(p) # tail
    PROVE  Offset(Next_(p)) = Offset(p) + 1
<1>1. tail \in Slot
  BY DEF TypeOK
<1>. QED
  BY <1>1, SizeAssumption DEF Slot, Offset, Next_

\* The previous slot is one position nearer, except for the tail's.
LEMMA OffsetPrev ==
    ASSUME TypeOK, NEW p \in Slot, p # tail
    PROVE  Offset(Prev(p)) = Offset(p) - 1
<1>1. tail \in Slot
  BY DEF TypeOK
<1>. QED
  BY <1>1, SizeAssumption DEF Slot, Offset, Prev

\* When the tail block is discarded every other slot comes one position nearer.
LEMMA OffsetDiscard ==
    ASSUME TypeOK, tail' = Next_(tail), NEW p \in Slot, p # tail
    PROVE  Offset(p)' = Offset(p) - 1
<1>1. tail \in Slot
  BY DEF TypeOK
<1>. QED
  BY <1>1, SizeAssumption DEF Slot, Offset, Next_

\* planner_recalculate starts its passes inside the queue, and leaves only the
\* junctions of the reverse pass to come unbounded.
LEMMA RecalculateStep ==
    ASSUME TypeOK, NEW bs \in [Slot -> Block], NEW h \in Slot, NEW q \in Slot,
           NEW x \in BOOLEAN, Recalculate(bs, h, q, x),
           tail' = tail, head' = h, planned' = q, Offset(q) < Offset(h),
           \A p \in Slot : Offset(p) <= Offset(q) /\ p # tail => bs[p].entry <= bs[p].max
    PROVE  PlannedInQueue' /\ EntriesBounded'
<1>. DEFINE last == Prev(h)
            planLast == [bs EXCEPT ![last].entry = Min2(bs[last].max, bs[last].dist)]
<1>0. \A p \in Slot : Offset(p) \in Nat /\ Offset(p)' = Offset(p)
  BY OffsetRange, SizeAssumption DEF Offset
<1>1. last \in Slot
  BY SlotSteps
<1>2. h # tail
  BY OffsetRange, <1>0
<1>3. Offset(last) = Offset(h) - 1
  BY OffsetPrev, <1>2
<1>4. Offset(head)' = Offset(h) /\ Offset(planned)' = Offset(q)
  BY DEF Offset
<1>5. CASE last = q /\ blocks' = bs /\ pc' = "idle"
  <2>1. PlannedInQueue'
    BY <1>0, <1>4, <1>5 DEF PlannedInQueue
  <2>2. ASSUME NEW p \in Slot, Queued(p)', (p # tail)'
        PROVE  (blocks[p].entry <= blocks[p].max)'
    <3>1. Offset(p) < Offset(h)
      BY <2>2, <1>0, <1>4 DEF Queued
    <3>2. Offset(p) <= Offset(q)
      BY <3>1, <1>0, <1>3, <1>5
    <3>. QED
      BY <2>2, <3>2, <1>5
  <2>3. EntriesBounded'
    BY <2>2 DEF EntriesBounded
  <2>. QED
    BY <2>1, <2>3
<1>6. CASE /\ last # q
           /\ blocks' = Restarted(planLast, x /\ Prev(last) = q /\ q = tail, speed)
           /\ IF Prev(last) = q THEN pc' = "forward" /\ current' = q
                                ELSE pc' = "reverse" /\ current' = last
  <2>1. Offset(q) < Offset(last)
    <3>1. Offset(q) # Offset(last)
      BY <1>1, <1>6, OffsetInjective
    <3>. QED
      BY <3>1, <1>0, <1>1, <1>3
  <2>2. last # tail /\ Prev(last) \in Slot /\ Offset(Prev(last)) = Offset(last) - 1
    <3>1. last # tail
      BY <2>1, <1>0, <1>1, OffsetRange
    <3>. QED
      BY <3>1, <1>1, OffsetPrev, SlotSteps
  <2>3. Prev(last) # q => Offset(q) + 1 < Offset(last)
    <3>1. Prev(last) # q => Offset(Prev(last)) # Offset(q)
      BY <2>2, OffsetInjective
    <3>. QED
      BY <3>1, <2>1, <2>2, <1>0, <1>1
  <2>4. Offset(last)' = Offset(last) /\ Offset(q)' = Offset(q)
    BY <1>0, <1>1
  <2>5. PlannedInQueue'
    <3>1. CASE Prev(last) = q
      <4>1. pc' = "forward" /\ current' = q /\ Offset(current)' = Offset(q)
        BY <1>6, <3>1 DEF Offset
      <4>. QED
        BY <4>1, <1>0, <1>4 DEF PlannedInQueue, Queued
    <3>2. CASE Prev(last) # q
      <4>1. pc' = "reverse" /\ current' = last /\ Offset(current)' = Offset(last)
        BY <1>6, <3>2, <2>4 DEF Offset
      <4>. QED
        BY <3>2, <4>1, <2>3, <1>0, <1>1, <1>3, <1>4 DEF PlannedInQueue, Queued
    <3>. QED
      BY <3>1, <3>2
  <2>6. ASSUME NEW p \in Slot, Queued(p)', (p # tail)', ~Unvisited(p)'
        PROVE  (blocks[p].entry <= blocks[p].max)'
    <3>1. Offset(p) < Offset(h) /\ p # tail
      BY <2>6, <1>0, <1>4 DEF Queued
    <3>2. blocks'[p] = planLast[p]
      BY <1>6, <3>1 DEF Restarted
    <3>3. CASE p = last
      <4>1. bs[last].max \in Nat /\ bs[last].dist \in Nat /\ bs[last] \in Block
        BY <1>1 DEF Block
      <4>2. planLast[last] = [bs[last] EXCEPT !.entry = Min2(bs[last].max, bs[last].dist)]
        BY <1>1
      <4>. QED
        BY <3>2, <3>3, <4>1, <4>2 DEF Min2, Block
    <3>4. CASE p # last
      <4>1. blocks'[p] = bs[p]
        BY <3>2, <3>4
      <4>2. Offset(p) < Offset(last)
        <5>1. Offset(p) # Offset(last)
          BY <3>4, <1>1, OffsetInjective
        <5>. QED
          BY <5>1, <3>1, <1>0, <1>1, <1>3
      <4>3. Offset(p) <= Offset(q)
        <5>1. CASE Prev(last) = q
          BY <5>1, <4>2, <2>2, <1>0, <1>1
        <5>2. CASE Prev(last) # q
          <6>1. pc' = "reverse" /\ Offset(current)' = Offset(last)
            BY <1>6, <5>2, <2>4 DEF Offset
          <6>. QED
            BY <6>1, <2>6, <4>2, <1>0, <1>1, <1>4 DEF Unvisited
        <5>. QED
          BY <5>1, <5>2
      <4>. QED
        BY <3>1, <4>1, <4>3
    <3>. QED
      BY <3>3, <3>4
  <2>7. EntriesBounded'
    BY <2>6 DEF EntriesBounded
  <2>. QED
    BY <2>5, <2>7
<1>. QED
  BY <1>5, <1>6 DEF Recalculate

-----------------------------------------------------------------------------
(* The inductive step, one action at a time.                               *)

\* Adding a motion.
LEMMA BufferLineStep ==
    ASSUME IInv, NEW m \in Moves, plan_buffer_line(m), TypeOK'
    PROVE  PlannedInQueue' /\ ExecutingQueued' /\ EntriesBounded'
<1>. DEFINE b == [dist |-> m.dist, rate |-> m.rate, rapid |-> m.rapid,
                  junction |-> IF head = tail THEN 0 ELSE m.junction, max |-> 0, entry |-> 0]
            mx == MaxEntry(b, NominalSpeed(b, feed, rapid), previous_nominal)
            bs == [blocks EXCEPT ![head] = [b EXCEPT !.max = mx]]
<1>1. b \in Block /\ mx \in Nat /\ TypeOK
  <2>1. b \in Block
    BY MovesAssumption DEF Block
  <2>. QED
    BY <2>1, SpeedTypes DEF IInv, TypeOK
<1>2. [b EXCEPT !.max = mx] \in Block /\ b.entry = 0
  BY <1>1 DEF Block
<1>3. bs \in [Slot -> Block]
  BY <1>2, <1>1 DEF TypeOK
<1>4. head \in Slot /\ planned \in Slot /\ Next_(head) \in Slot /\ loaded \in BOOLEAN
  BY <1>1, SlotSteps DEF TypeOK
<1>5. /\ Recalculate(bs, Next_(head), planned, loaded)
      /\ pc = "idle" /\ Next_(head) # tail
      /\ head' = Next_(head) /\ tail' = tail /\ planned' = planned
  BY DEF plan_buffer_line
<1>6. \A p \in Slot : Offset(p) \in Nat
  BY <1>1, OffsetRange, SizeAssumption
<1>7. Offset(Next_(head)) = Offset(head) + 1
  BY <1>1, <1>4, <1>5, OffsetNext
<1>8. Offset(planned) < Offset(Next_(head))
  BY <1>4, <1>6, <1>7 DEF IInv, PlannedInQueue
<1>9. ASSUME NEW p \in Slot, Offset(p) <= Offset(planned), p # tail
      PROVE  bs[p].entry <= bs[p].max
  <2>1. CASE p = head
    <3>1. bs[p] = [b EXCEPT !.max = mx]
      BY <2>1, <1>1 DEF TypeOK
    <3>2. bs[p].entry = 0 /\ bs[p].max = mx
      BY <3>1
    <3>. HIDE DEF bs, mx
    <3>. QED
      BY <3>2, <1>1
  <2>2. CASE p # head
    <3>1. bs[p] = blocks[p]
      BY <2>2
    <3>2. Offset(p) # Offset(head)
      BY <2>2, <1>1, <1>4, OffsetInjective
    <3>3. Offset(p) < Offset(head)
      BY <3>2, <1>4, <1>6, <1>9 DEF IInv, PlannedInQueue
    <3>4. Queued(p) /\ ~Unvisited(p)
      BY <3>3, <1>5 DEF Queued, Unvisited
    <3>. QED
      BY <3>1, <3>4, <1>9 DEF IInv, EntriesBounded
  <2>. QED
    BY <2>1, <2>2
<1>10. ExecutingQueued'
  BY <1>5 DEF ExecutingQueued
<1>. HIDE DEF bs
<1>11. PlannedInQueue' /\ EntriesBounded'
  BY <1>1, <1>3, <1>4, <1>5, <1>8, <1>9, RecalculateStep
<1>. QED
  BY <1>10, <1>11

\* Re-planning from the tail, after an override or a hold.
LEMMA ReinitializeStep ==
    ASSUME IInv, pc = "idle", TypeOK', NEW bs \in [Slot -> Block], NEW v \in Nat,
           Reinitialize(bs, v), tail' = tail, head' = head
    PROVE  PlannedInQueue' /\ ExecutingQueued' /\ EntriesBounded'
<1>. DEFINE r == Restarted(bs, loaded, v)
<1>1. TypeOK /\ tail \in Slot /\ head \in Slot
  BY DEF IInv, TypeOK
<1>2. r \in [Slot -> Block]
  BY <1>1 DEF Restarted, Block
<1>3. planned' = tail
  BY DEF Reinitialize
<1>4. Offset(tail) = 0 /\ \A p \in Slot : Offset(p) \in Nat
  BY <1>1, OffsetRange, SizeAssumption
<1>5. CASE tail # head /\ Recalculate(r, head, tail, FALSE)
  <2>1. Offset(tail) < Offset(head)
    BY <1>1, <1>4, <1>5, OffsetRange
  <2>2. \A p \in Slot : Offset(p) <= Offset(tail) /\ p # tail => r[p].entry <= r[p].max
    BY <1>1, <1>4, OffsetRange
  <2>3. ExecutingQueued'
    BY <1>5 DEF ExecutingQueued
  <2>. HIDE DEF r
  <2>. QED
    BY <1>1, <1>2, <1>3, <1>5, <2>1, <2>2, <2>3, RecalculateStep
<1>6. CASE tail = head /\ blocks' = bs /\ loaded' = FALSE /\ UNCHANGED << pc, current >>
  <2>1. Offset(head)' = 0 /\ Offset(planned)' = 0
    BY <1>1, <1>3, <1>4, <1>6 DEF Offset
  <2>2. \A p \in Slot : Offset(p)' = Offset(p)
    BY DEF Offset
  <2>3. \A p \in Slot : ~Queued(p)'
    BY <2>1, <2>2, <1>4 DEF Queued
  <2>. QED
    BY <1>6, <2>1, <2>3 DEF PlannedInQueue, ExecutingQueued, EntriesBounded
<1>. QED
  BY <1>5, <1>6 DEF Reinitialize

\* Discarding the tail block.
LEMMA DiscardStep ==
    ASSUME IInv, pc = "idle", loaded, TypeOK', Discard, head' = head, pc' = pc, loaded' = FALSE
    PROVE  PlannedInQueue' /\ ExecutingQueued' /\ EntriesBounded'
<1>1. /\ TypeOK /\ tail \in Slot /\ head \in Slot /\ planned \in Slot /\ tail # head
      /\ Next_(tail) \in Slot /\ tail' = Next_(tail)
  BY SlotSteps DEF IInv, TypeOK, ExecutingQueued, Discard
<1>2. \A p \in Slot : Offset(p) \in Nat /\ (Offset(p) = 0 <=> p = tail)
  BY <1>1, OffsetRange, SizeAssumption
<1>3. \A p \in Slot : p # tail => Offset(p)' = Offset(p) - 1
  BY <1>1, OffsetDiscard
<1>5. Offset(head)' = Offset(head) - 1
  BY <1>1, <1>3 DEF Offset
<1>6. PlannedInQueue'
  <2>1. CASE planned = tail
    <3>1. planned' = tail' /\ tail' \in Slot
      BY <1>1, <2>1 DEF Discard
    <3>2. tail' \in Int
      BY <3>1, SizeAssumption DEF Slot
    <3>4. \A t \in Int : (IF t >= t THEN t - t ELSE t - t + Size + 1) = 0
      OBVIOUS
    <3>5. Offset(planned)' = 0
      BY <3>1, <3>2, <3>4 DEF Offset
    <3>3. Offset(head) > 0
      BY <1>1, <1>2
    <3>. QED
      BY <1>5, <1>1, <1>2, <3>5, <3>3 DEF PlannedInQueue
  <2>2. CASE planned # tail
    <3>1. Offset(planned)' = Offset(planned) - 1
      BY <1>1, <1>3, <2>2 DEF Discard, Offset
    <3>. QED
      BY <1>1, <1>2, <1>5, <3>1 DEF PlannedInQueue, IInv
  <2>. QED
    BY <2>1, <2>2
<1>7. ASSUME NEW p \in Slot, Queued(p)', (p # tail)'
      PROVE  (blocks[p].entry <= blocks[p].max)'
  <2>1. p # tail
    <3>1. CASE p = tail
      <4>1. Offset(p)' = Size
        BY <1>1, <3>1, SizeAssumption DEF Offset, Next_, Slot
      <4>2. Offset(head) <= Size
        BY <1>1, OffsetRange
      <4>. QED
        BY <1>7, <4>1, <4>2, <1>1, <1>2, <1>5, SizeAssumption DEF Queued
    <3>. QED
      BY <3>1
  <2>2. blocks'[p] = blocks[p]
    BY <1>1, <2>1 DEF Discard, TypeOK
  <2>3. Queued(p) /\ ~Unvisited(p)
    BY <1>1, <1>2, <1>3, <1>5, <1>7, <2>1 DEF Queued, Unvisited
  <2>. QED
    BY <2>1, <2>2, <2>3 DEF IInv, EntriesBounded
<1>. QED
  BY <1>6, <1>7 DEF ExecutingQueued, EntriesBounded

\* One iteration of the reverse pass.
LEMMA ReverseStepInductive ==
    ASSUME IInv, ReverseStep, TypeOK'
    PROVE  PlannedInQueue' /\ ExecutingQueued' /\ EntriesBounded'
<1>. DEFINE p == Prev(current)
            bs == [blocks EXCEPT ![p].entry = ReverseEntry(p)]
<1>1. /\ TypeOK /\ current \in Slot /\ planned \in Slot /\ head \in Slot /\ tail \in Slot
      /\ p \in Slot /\ Prev(p) \in Slot /\ Next_(p) \in Slot
  BY SlotSteps DEF IInv, TypeOK
<1>2. /\ pc = "reverse" /\ Offset(planned) + 1 < Offset(current) /\ Offset(current) < Offset(head)
  BY DEF ReverseStep, IInv, PlannedInQueue, Queued
<1>3. \A s \in Slot : Offset(s) \in Nat /\ Offset(s)' = Offset(s) /\ (Offset(s) = 0 <=> s = tail)
  BY <1>1, OffsetRange, SizeAssumption DEF ReverseStep, Offset
<1>4. current # tail /\ Offset(p) = Offset(current) - 1 /\ p # tail
  <2>1. current # tail
    BY <1>1, <1>2, <1>3
  <2>2. Offset(p) = Offset(current) - 1
    BY <1>1, <2>1, OffsetPrev
  <2>. QED
    BY <1>1, <1>2, <1>3, <2>1, <2>2
<1>5. Offset(Prev(p)) = Offset(p) - 1
  BY <1>1, <1>4, OffsetPrev
<1>6. Offset(planned)' = Offset(planned) /\ Offset(head)' = Offset(head)
  BY DEF ReverseStep, Offset
<1>7. IF Prev(p) = planned THEN pc' = "forward" /\ current' = planned
                           ELSE pc' = "reverse" /\ current' = p
  BY DEF ReverseStep
<1>8. Prev(p) # planned => Offset(planned) + 1 < Offset(p)
  <2>1. Prev(p) # planned => Offset(Prev(p)) # Offset(planned)
    BY <1>1, OffsetInjective
  <2>. QED
    BY <2>1, <1>1, <1>2, <1>3, <1>4, <1>5
<1>9. PlannedInQueue'
  <2>1. CASE Prev(p) = planned
    <3>1. pc' = "forward" /\ Offset(current)' = Offset(planned)
      BY <1>7, <2>1, <1>1, <1>3 DEF Offset, ReverseStep
    <3>. QED
      BY <3>1, <1>1, <1>2, <1>3, <1>6 DEF PlannedInQueue, Queued
  <2>2. CASE Prev(p) # planned
    <3>1. pc' = "reverse" /\ Offset(current)' = Offset(p)
      BY <1>7, <2>2 DEF Offset, ReverseStep
    <3>. QED
      BY <3>1, <2>2, <1>1, <1>2, <1>3, <1>4, <1>6, <1>8 DEF PlannedInQueue, Queued
  <2>. QED
    BY <2>1, <2>2
<1>10. ExecutingQueued'
  <2>1. head # tail
    BY <1>1, <1>2, <1>3
  <2>. QED
    BY <2>1 DEF ExecutingQueued, ReverseStep
<1>11. ASSUME NEW s \in Slot, Queued(s)', (s # tail)', ~Unvisited(s)'
       PROVE  (blocks[s].entry <= blocks[s].max)'
  <2>1. Offset(s) < Offset(head) /\ s # tail
    BY <1>11, <1>3, <1>6 DEF Queued, ReverseStep
  <2>2. blocks'[s] = bs[s]
    <3>1. \A y : Restarted(bs, y, speed)[s] = bs[s]
      BY <1>1, <2>1 DEF Restarted, TypeOK
    <3>2. blocks' = Restarted(bs, loaded /\ Prev(p) = tail, speed)
      BY DEF ReverseStep
    <3>. QED
      BY <3>1, <3>2
  <2>3. CASE s = p
    <3>1. bs[p] = [blocks[p] EXCEPT !.entry = ReverseEntry(p)]
      BY <1>1 DEF TypeOK
    <3>2. /\ blocks[p] \in Block /\ blocks[p].entry \in Nat /\ blocks[p].max \in Nat
          /\ blocks[p].dist \in Nat /\ blocks[Next_(p)].entry \in Nat
      BY <1>1 DEF TypeOK, Block
    <3>3. ReverseEntry(p) <= blocks[p].max
      BY <3>2 DEF ReverseEntry, Min2
    <3>4. bs[p].entry = ReverseEntry(p) /\ bs[p].max = blocks[p].max
      BY <3>1, <3>2 DEF Block
    <3>. QED
      BY <2>2, <2>3, <3>3, <3>4
  <2>4. CASE s # p
    <3>1. bs[s] = blocks[s]
      BY <2>4
    <3>2. Offset(s) # Offset(p)
      BY <2>4, <1>1, OffsetInjective
    <3>3. ~(Offset(planned) < Offset(s) /\ Offset(s) < Offset(current))
      <4>1. CASE Prev(p) = planned
        BY <4>1, <3>2, <1>1, <1>3, <1>4, <1>5
      <4>2. CASE Prev(p) # planned
        <5>1. pc' = "reverse" /\ Offset(current)' = Offset(p)
          BY <1>7, <4>2 DEF Offset, ReverseStep
        <5>. QED
          BY <5>1, <1>11, <3>2, <1>1, <1>3, <1>4, <1>6 DEF Unvisited
      <4>. QED
        BY <4>1, <4>2
    <3>4. Queued(s) /\ ~Unvisited(s)
      BY <2>1, <3>3 DEF Queued, Unvisited
    <3>. QED
      BY <2>1, <2>2, <3>1, <3>4 DEF IInv, EntriesBounded
  <2>. QED
    BY <2>3, <2>4
<1>. QED
  BY <1>9, <1>10, <1>11 DEF EntriesBounded

\* One iteration of the forward pass.
LEMMA ForwardStepInductive ==
    ASSUME IInv, ForwardStep, TypeOK'
    PROVE  PlannedInQueue' /\ ExecutingQueued' /\ EntriesBounded'
<1>. DEFINE next == Next_(current)
            v == blocks[current].entry + blocks[current].dist
            entry == IF v < blocks[next].entry THEN v ELSE blocks[next].entry
<1>1. /\ TypeOK /\ current \in Slot /\ planned \in Slot /\ head \in Slot /\ next \in Slot
  BY SlotSteps DEF IInv, TypeOK
<1>2. /\ pc = "forward" /\ Offset(planned) <= Offset(current) /\ Offset(current) < Offset(head)
      /\ tail' = tail /\ head' = head /\ loaded' = loaded
  BY DEF ForwardStep, IInv, PlannedInQueue, Queued, stepper
<1>3. \A s \in Slot : Offset(s) \in Nat /\ Offset(s)' = Offset(s) /\ (Offset(s) = 0 <=> s = tail)
  BY <1>1, <1>2, OffsetRange, SizeAssumption DEF Offset
<1>4. Offset(head)' = Offset(head)
  BY <1>2 DEF Offset
<1>5. ExecutingQueued'
  BY <1>2 DEF ExecutingQueued, IInv
<1>6. CASE next = head /\ pc' = "idle" /\ blocks' = blocks /\ planned' = planned
  <2>1. Offset(planned)' = Offset(planned)
    BY <1>2, <1>6 DEF Offset
  <2>2. PlannedInQueue'
    BY <2>1, <1>1, <1>2, <1>3, <1>4, <1>6 DEF PlannedInQueue
  <2>3. ASSUME NEW s \in Slot, Queued(s)', (s # tail)' PROVE (blocks[s].entry <= blocks[s].max)'
    <3>1. Queued(s) /\ ~Unvisited(s) /\ s # tail
      BY <2>3, <1>2, <1>3, <1>4 DEF Queued, Unvisited
    <3>. QED
      BY <3>1, <1>6 DEF IInv, EntriesBounded
  <2>. QED
    BY <1>5, <2>2, <2>3 DEF EntriesBounded
<1>7. CASE /\ next # head /\ pc' = pc /\ current' = next
           /\ blocks' = [blocks EXCEPT ![next].entry = entry]
           /\ planned' = next \/ planned' = planned
  <2>0. next # tail /\ Offset(next) = Offset(current) + 1
    <3>1. next # tail
      <4>1. ASSUME next = tail PROVE Offset(current) = Size
        <5>1. tail \in Slot /\ current \in Slot
          BY <1>1 DEF TypeOK
        <5>. QED
          BY <4>1, <5>1, SizeAssumption DEF Next_, Offset, Slot
      <4>2. Offset(head) <= Size
        BY <1>1, OffsetRange
      <4>. QED
        BY <4>1, <4>2, <1>1, <1>2, <1>3, SizeAssumption
    <3>. QED
      BY <3>1, <1>1, OffsetNext
  <2>1. Offset(next) < Offset(head)
    <3>1. Offset(next) # Offset(head)
      BY <1>1, <1>7, OffsetInjective
    <3>. QED
      BY <3>1, <2>0, <1>1, <1>2, <1>3
  <2>2. Offset(current)' = Offset(next)
    BY <1>2, <1>7 DEF Offset
  <2>3. Offset(planned)' = Offset(next) \/ Offset(planned)' = Offset(planned)
    BY <1>2, <1>7 DEF Offset
  <2>4. PlannedInQueue'
    BY <2>0, <2>1, <2>2, <2>3, <1>1, <1>2, <1>3, <1>4, <1>7 DEF PlannedInQueue, Queued
  <2>5. ASSUME NEW s \in Slot, Queued(s)', (s # tail)' PROVE (blocks[s].entry <= blocks[s].max)'
    <3>1. Queued(s) /\ ~Unvisited(s) /\ s # tail
      BY <2>5, <1>2, <1>3, <1>4 DEF Queued, Unvisited
    <3>2. blocks[s].entry <= blocks[s].max
      BY <3>1 DEF IInv, EntriesBounded
    <3>3. CASE s = next
      <4>1. /\ blocks[s] \in Block /\ blocks[s].entry \in Nat /\ blocks[s].max \in Nat
            /\ v \in Nat
        BY <1>1 DEF TypeOK, Block
      <4>2. blocks'[s] = [blocks[s] EXCEPT !.entry = entry]
        BY <1>1, <1>7, <3>3 DEF TypeOK
      <4>3. blocks'[s].entry = entry /\ blocks'[s].max = blocks[s].max
        BY <4>1, <4>2 DEF Block
      <4>4. entry <= blocks[s].entry /\ entry \in Nat
        BY <4>1, <3>3
      <4>. HIDE DEF entry
      <4>. QED
        BY <3>2, <4>1, <4>3, <4>4
    <3>4. CASE s # next
      BY <1>7, <3>2, <3>4
    <3>. QED
      BY <3>3, <3>4
  <2>. QED
    BY <1>5, <2>4, <2>5 DEF EntriesBounded
<1>. QED
  BY <1>6, <1>7 DEF ForwardStep

\* Steps that leave the ring's pointers and the other blocks' speeds alone.
LEMMA TailOnlyStep ==
    ASSUME IInv, TypeOK', pc' = pc, tail' = tail, head' = head, planned' = planned,
           current' = current, loaded' => loaded \/ tail # head,
           \A p \in Slot : p # tail => blocks'[p] = blocks[p]
    PROVE  PlannedInQueue' /\ ExecutingQueued' /\ EntriesBounded'
<1>1. \A p \in Slot : Offset(p)' = Offset(p) /\ Queued(p)' = Queued(p)
                       /\ Unvisited(p)' = Unvisited(p)
  BY DEF Offset, Queued, Unvisited
<1>2. PlannedInQueue'
  BY DEF IInv, PlannedInQueue, Queued, Offset
<1>3. ExecutingQueued'
  BY DEF IInv, ExecutingQueued
<1>4. EntriesBounded'
  BY <1>1 DEF IInv, EntriesBounded
<1>. QED
  BY <1>2, <1>3, <1>4

\* Every action keeps the inductive invariant.
LEMMA InductiveStep == IInv /\ [Next]_vars => IInv'
<1>. SUFFICES ASSUME IInv, [Next]_vars
              PROVE  IInv'
  OBVIOUS
<1>. USE DEF ring, stepper
<1>1. TypeOK /\ TypeOK'
  BY TypeStep DEF IInv
<1>. SUFFICES PlannedInQueue' /\ ExecutingQueued' /\ EntriesBounded'
  BY <1>1 DEF IInv
<1>2. CASE ReverseStep
  BY <1>1, <1>2, ReverseStepInductive
<1>3. CASE ForwardStep
  BY <1>1, <1>3, ForwardStepInductive
<1>4. CASE \E m \in Moves : plan_buffer_line(m)
  BY <1>1, <1>4, BufferLineStep
<1>5. ASSUME NEW f \in Overrides, NEW r \in Overrides, plan_feed_override(f, r)
      PROVE  PlannedInQueue' /\ ExecutingQueued' /\ EntriesBounded'
  <2>. DEFINE nom(p) == NominalSpeed(blocks[p], f, r)
              prev(p) == IF p = tail THEN Large ELSE nom(Prev(p))
              bs == [p \in Slot |->
                       IF Queued(p)
                       THEN [blocks[p] EXCEPT !.max = MaxEntry(blocks[p], nom(p), prev(p))]
                       ELSE blocks[p]]
  <2>1. \A p \in Slot : nom(p) \in Nat
    BY <1>1, SpeedTypes DEF TypeOK
  <2>2. \A p \in Slot : prev(p) \in Nat
    BY <2>1, SlotSteps DEF Large
  <2>3. \A p \in Slot : MaxEntry(blocks[p], nom(p), prev(p)) \in Nat
    BY <1>1, <2>2, SpeedTypes DEF TypeOK
  <2>4. bs \in [Slot -> Block]
    BY <1>1, <2>3 DEF TypeOK, Block
  <2>5. pc = "idle" /\ tail' = tail /\ head' = head
    BY <1>5 DEF plan_feed_override
  <2>6. CASE tail # head
    <3>1. Reinitialize(bs, speed)
      BY <1>5, <2>6 DEF plan_feed_override
    <3>2. speed \in Nat
      BY <1>1 DEF TypeOK
    <3>. HIDE DEF bs
    <3>. QED
      BY <1>1, <2>4, <2>5, <3>1, <3>2, ReinitializeStep
  <2>7. CASE tail = head
    <3>1. UNCHANGED << blocks, planned, pc, current, loaded >>
      BY <1>5, <2>7 DEF plan_feed_override
    <3>. QED
      BY <1>1, <2>5, <3>1, TailOnlyStep
  <2>. QED
    BY <2>6, <2>7
<1>6. CASE plan_reset
  <2>1. Offset(head)' = 0 /\ Offset(planned)' = 0 /\ pc' = "idle" /\ loaded' = FALSE
    BY <1>6 DEF plan_reset, Offset
  <2>2. \A p \in Slot : Offset(p)' \in Nat
    BY <1>6, SizeAssumption DEF plan_reset, Offset, Slot
  <2>3. \A p \in Slot : ~Queued(p)'
    BY <2>1, <2>2 DEF Queued
  <2>. QED
    BY <2>1, <2>3 DEF PlannedInQueue, ExecutingQueued, EntriesBounded
<1>7. CASE Load
  <2>1. \A p \in Slot : p # tail => blocks'[p] = blocks[p]
    BY <1>1, <1>7 DEF Load, TypeOK
  <2>. QED
    BY <1>1, <1>7, <2>1, TailOnlyStep DEF Load
<1>8. CASE Progress
  <2>1. \A p \in Slot : p # tail => blocks'[p] = blocks[p]
    BY <1>1, <1>8 DEF Progress, TypeOK
  <2>. QED
    BY <1>1, <1>8, <2>1, TailOnlyStep DEF Progress
<1>9. CASE Complete
  BY <1>1, <1>9, DiscardStep DEF Complete
<1>10. CASE HoldBegin
  BY <1>1, <1>10, TailOnlyStep DEF HoldBegin
<1>11. CASE HoldThroughBlock
  BY <1>1, <1>11, DiscardStep DEF HoldThroughBlock
<1>12. CASE HoldEnd
  <2>. DEFINE bs == [blocks EXCEPT ![tail].dist = blocks[tail].dist - speed]
  <2>1. CASE loaded /\ speed < blocks[tail].dist /\ Reinitialize(bs, 0)
    <3>1. bs \in [Slot -> Block]
      BY <1>1, <2>1, SMTT(30) DEF TypeOK, Block
    <3>2. pc = "idle" /\ tail' = tail /\ head' = head
      BY <1>12 DEF HoldEnd
    <3>. HIDE DEF bs
    <3>. QED
      BY <1>1, <2>1, <3>1, <3>2, ReinitializeStep
  <2>2. CASE tail = head /\ Reinitialize(blocks, 0)
    BY <1>1, <1>12, <2>2, ReinitializeStep DEF HoldEnd, TypeOK
  <2>. QED
    BY <1>12, <2>1, <2>2 DEF HoldEnd
<1>13. CASE UNCHANGED vars
  BY <1>1, <1>13, TailOnlyStep DEF vars
<1>. QED
  BY <1>2, <1>3, <1>4, <1>5, <1>6, <1>7, <1>8, <1>9, <1>10, <1>11, <1>12, <1>13 DEF Next

\* The empty ring satisfies the inductive invariant.
LEMMA InitInductive == Init => IInv
<1>. SUFFICES ASSUME Init PROVE IInv
  OBVIOUS
<1>1. NoBlock \in Block /\ 0 \in Slot
  BY SizeAssumption DEF NoBlock, Block, Slot
<1>2. TypeOK
  BY <1>1, OverridesAssumption DEF Init, TypeOK
<1>3. Offset(head) = 0 /\ Offset(planned) = 0
  BY DEF Init, Offset
<1>4. \A p \in Slot : ~Queued(p)
  BY <1>2, <1>3, OffsetRange DEF Queued
<1>. QED
  BY <1>2, <1>3, <1>4 DEF IInv, Init, PlannedInQueue, ExecutingQueued, EntriesBounded

\* The inductive invariant holds in every reachable state.
LEMMA Invariance == Spec => []IInv
BY InitInductive, InductiveStep, PTL DEF Spec

-----------------------------------------------------------------------------

\* The planner's pointers and blocks stay well typed, whatever the ring size, the
\* motions and the overrides.
THEOREM TypeCorrect == Spec => []TypeOK
<1>1. IInv => TypeOK
  BY DEF IInv
<1>. QED
  BY <1>1, Invariance, PTL

\* The planned pointer of planner.c never falls behind the tail, which the segment
\* generator moves, nor passes the head, and both passes stay between them.
THEOREM PointersOrdered == Spec => []PlannedInQueue
<1>1. IInv => PlannedInQueue
  BY DEF IInv
<1>. QED
  BY <1>1, Invariance, PTL

\* No junction waiting in the queue is planned faster than its maximum entry speed,
\* across overrides that lower the maximum, holds and resets.
THEOREM EntriesWithinMaximum == Spec => []EntryWithinMax
<1>1. IInv => EntryWithinMax
  BY DEF IInv, EntriesBounded, EntryWithinMax, Unvisited
<1>. QED
  BY <1>1, Invariance, PTL

-----------------------------------------------------------------------------
(* Feasibility.  The passes work on a ring bs with head h before it is     *)
(* stored, so the parts of the invariant are stated for any such ring; x   *)
(* says whether the tail block is being executed.                          *)

In(h, p) == Offset(p) < Offset(h)
EntryIn(bs, x, p) == IF p = tail /\ x THEN speed ELSE bs[p].entry
ExitIn(bs, h, p) == IF Next_(p) = h THEN 0 ELSE bs[Next_(p)].entry

\* A block can brake from its entry to its exit speed, and accelerate to it.
Slows(bs, h, x, p) == EntryIn(bs, x, p) <= ExitIn(bs, h, p) + bs[p].dist
Speeds(bs, h, x, p) == ExitIn(bs, h, p) <= EntryIn(bs, x, p) + bs[p].dist

\* A junction's maximum respects the nominal speed of the block before it.
Square(n) == n * n
Nominal(bs, p) == NominalSpeed(bs[p], feed, rapid)
Capped(bs, h) ==
    \A p \in Slot : In(h, p) /\ p # tail =>
        /\ bs[p].entry <= bs[p].max
        /\ bs[p].max <= Square(Nominal(bs, Prev(p)))

\* From every junction, and from the speed c carried over, the machine can stop
\* within the blocks that remain, whose lengths R adds up.
Reaches(bs, h, x, c) ==
    \E R \in [Slot -> Nat] :
        /\ R[h] = 0 /\ c <= R[tail]
        /\ \A p \in Slot : In(h, p) => /\ R[p] = bs[p].dist + R[Next_(p)]
                                       /\ EntryIn(bs, x, p) <= R[p]

\* What a pass has settled: everything when it is over.
Settled(p) == /\ pc = "reverse" => Offset(p) < Offset(planned)
              /\ pc = "forward" => Offset(p) < Offset(current)

Stoppable == Reaches(blocks, head, loaded, carry)
Capping ==
    ~overridden => /\ Capped(blocks, head)
                   /\ tail # head => previous_nominal = Nominal(blocks, Prev(head))
Slowing ==
    ~overridden =>
        /\ \A p \in Slot : Queued(p) /\ (p # tail \/ ~hold) => Slows(blocks, head, loaded, p)
        /\ hold => pc = "idle"
Speeding ==
    ~overridden /\ ~hold =>
        \A p \in Slot : Queued(p) /\ Settled(p) => Speeds(blocks, head, loaded, p)

\* Without an override, what a block that was too short carries over is the entry
\* speed of the next one.
Carrying ==
    /\ loaded => carry = -1
    /\ ~hold => carry # 0
    /\ ~overridden /\ ~hold /\ carry # -1 => tail # head /\ carry = blocks[tail].entry

\* The forward pass never starts from a block whose stored entry speed is stale.
Released == pc = "forward" /\ loaded => current # tail

\* The inductive invariant of feasibility, on top of IInv.
FInv == Stoppable /\ Capping /\ Slowing /\ Speeding /\ Carrying /\ Released

\* Two rings with the same motions, whatever their entry speeds.
SameMoves(bs, cs) ==
    \A p \in Slot : /\ cs[p].dist = bs[p].dist /\ cs[p].max = bs[p].max
                    /\ cs[p].rate = bs[p].rate /\ cs[p].rapid = bs[p].rapid

\* Squaring is monotonic.
LEMMA SquareMonotonic ==
    ASSUME NEW a \in Nat, NEW b \in Nat, a <= b
    PROVE  Square(a) \in Nat /\ Square(a) <= Square(b)
<1>1. PICK d \in Nat : b = a + d
  <2>1. b - a \in Nat /\ b = a + (b - a)
    OBVIOUS
  <2>. QED
    BY <2>1
<1>2. (a + d) * (a + d) = a * a + (2 * (a * d) + d * d)
  OBVIOUS
<1>3. a * a \in Nat /\ a * d \in Nat /\ d * d \in Nat
  OBVIOUS
<1>. QED
  BY <1>1, <1>2, <1>3 DEF Square

\* The fields of a block.
LEMMA Fields ==
    ASSUME NEW bs \in [Slot -> Block], NEW p \in Slot
    PROVE  /\ bs[p] \in Block /\ bs[p].dist \in Nat /\ bs[p].entry \in Nat
           /\ bs[p].max \in Nat /\ bs[p].rate \in Nat /\ bs[p].rapid \in BOOLEAN
BY DEF Block

\* A nominal speed is at least the minimum, and depends on the motion only.
LEMMA NominalPositive ==
    ASSUME NEW b \in Block, NEW f \in Overrides, NEW r \in Overrides
    PROVE  NominalSpeed(b, f, r) \in Nat /\ NominalSpeed(b, f, r) >= 1
<1>1. NominalSpeed(b, f, r) \in Nat
  BY SpeedTypes
<1>. DEFINE n == IF b.rapid THEN (RapidRate * r) \div 100
                 ELSE Min2((Min2(b.rate, RapidRate) * f) \div 100, RapidRate)
<1>2. NominalSpeed(b, f, r) = IF n > 1 THEN n ELSE 1
  BY DEF NominalSpeed
<1>3. n > 1 => n \in Nat
  BY <1>1, <1>2
<1>. HIDE DEF n
<1>. QED
  BY <1>1, <1>2, <1>3

LEMMA NominalOf ==
    ASSUME NEW b, NEW c, b.rate = c.rate, b.rapid = c.rapid, NEW f, NEW r
    PROVE  NominalSpeed(b, f, r) = NominalSpeed(c, f, r)
BY DEF NominalSpeed

LEMMA SameNominal ==
    ASSUME NEW bs, NEW cs, SameMoves(bs, cs), NEW p \in Slot
    PROVE  Nominal(cs, p) = Nominal(bs, p)
BY NominalOf DEF SameMoves, Nominal

\* The slot after a queued block is the head or queued, and never the tail.
LEMMA QueueNext ==
    ASSUME TypeOK, NEW h \in Slot, NEW p \in Slot, In(h, p)
    PROVE  /\ Next_(p) \in Slot /\ Next_(p) # tail /\ Next_(p) # p
           /\ Offset(Next_(p)) = Offset(p) + 1
           /\ Next_(p) # h => In(h, Next_(p))
           /\ Offset(p) \in Nat /\ Offset(h) \in Nat
<1>1. Next_(p) \in Slot /\ tail \in Slot
  BY SlotSteps DEF TypeOK
<1>2. Offset(p) \in 0 .. Size /\ Offset(h) \in 0 .. Size /\ Size \in Nat
  BY OffsetRange, SizeAssumption
<1>3. Next_(p) # tail
  <2>1. ASSUME Next_(p) = tail PROVE Offset(p) = Size
    BY <1>1, <2>1, SizeAssumption DEF Next_, Offset, Slot
  <2>. QED
    BY <2>1, <1>2 DEF In
<1>4. Offset(Next_(p)) = Offset(p) + 1
  BY <1>3, OffsetNext
<1>5. Next_(p) # h => Offset(Next_(p)) # Offset(h)
  BY <1>1, OffsetInjective
<1>. QED
  BY <1>1, <1>2, <1>3, <1>4, <1>5 DEF In

-----------------------------------------------------------------------------
(* A step of a pass changes one entry speed, that of junction s.           *)

\* What the other blocks see of it.
LEMMA OthersKept ==
    ASSUME TypeOK, NEW bs, NEW cs, NEW h \in Slot, NEW x \in BOOLEAN, NEW y \in BOOLEAN,
           NEW s \in Slot,
           \A p \in Slot : p # s => EntryIn(cs, y, p) = EntryIn(bs, x, p),
           NEW p \in Slot, In(h, p), Next_(p) # s
    PROVE  ExitIn(cs, h, p) = ExitIn(bs, h, p)
<1>1. Next_(p) \in Slot /\ Next_(p) # tail
  BY QueueNext
<1>2. EntryIn(cs, y, Next_(p)) = EntryIn(bs, x, Next_(p))
  BY <1>1
<1>. QED
  BY <1>1, <1>2 DEF EntryIn, ExitIn

\* Braking stays possible if the new speed can be braked from, and the block
\* before can still brake down to it.
LEMMA SlowsKept ==
    ASSUME TypeOK, NEW bs \in [Slot -> Block], NEW cs \in [Slot -> Block], NEW h \in Slot,
           NEW x \in BOOLEAN, NEW y \in BOOLEAN, NEW s \in Slot, s # tail, In(h, s),
           SameMoves(bs, cs),
           \A p \in Slot : p # s => EntryIn(cs, y, p) = EntryIn(bs, x, p),
           \A p \in Slot : In(h, p) => Slows(bs, h, x, p),
           cs[s].entry <= ExitIn(bs, h, s) + bs[s].dist,
           \/ bs[s].entry <= cs[s].entry
           \/ EntryIn(bs, x, Prev(s)) <= cs[s].entry + bs[Prev(s)].dist
    PROVE  \A p \in Slot : In(h, p) => Slows(cs, h, y, p)
<1>. TAKE p \in Slot
<1>. HAVE In(h, p)
<1>0. cs[p].dist = bs[p].dist /\ Slows(bs, h, x, p)
  BY DEF SameMoves
<1>1. CASE Next_(p) # s
  <2>1. ExitIn(cs, h, p) = ExitIn(bs, h, p)
    BY <1>1, OthersKept
  <2>2. CASE p = s
    BY <1>0, <2>1, <2>2 DEF Slows, EntryIn
  <2>3. CASE p # s
    BY <1>0, <2>1, <2>3 DEF Slows
  <2>. QED
    BY <2>2, <2>3
<1>2. CASE Next_(p) = s
  <2>1. p # s /\ p = Prev(s) /\ s # h
    BY <1>2, QueueNext, SlotSteps, OffsetRange, SizeAssumption DEF In
  <2>2. ExitIn(cs, h, p) = cs[s].entry /\ ExitIn(bs, h, p) = bs[s].entry
    BY <1>2, <2>1 DEF ExitIn
  <2>3. EntryIn(cs, y, p) = EntryIn(bs, x, p) /\ EntryIn(bs, x, p) \in Nat
    BY <2>1, Fields DEF EntryIn, TypeOK
  <2>4. cs[s].entry \in Nat /\ bs[s].entry \in Nat /\ bs[p].dist \in Nat
    BY Fields
  <2>. QED
    BY <1>0, <2>1, <2>2, <2>3, <2>4 DEF Slows
<1>. QED
  BY <1>1, <1>2

\* The caps are kept if the new speed respects the junction's own.
LEMMA CappedKept ==
    ASSUME TypeOK, NEW bs, NEW cs, NEW h \in Slot,
           NEW x \in BOOLEAN, NEW y \in BOOLEAN, NEW s \in Slot,
           SameMoves(bs, cs),
           \A p \in Slot : p # s => EntryIn(cs, y, p) = EntryIn(bs, x, p),
           Capped(bs, h), cs[s].entry <= bs[s].max
    PROVE  Capped(cs, h)
<1>. SUFFICES ASSUME NEW p \in Slot, In(h, p), p # tail
              PROVE  cs[p].entry <= cs[p].max /\ cs[p].max <= Square(Nominal(cs, Prev(p)))
  BY DEF Capped
<1>1. cs[p].max = bs[p].max /\ Nominal(cs, Prev(p)) = Nominal(bs, Prev(p))
  BY SameNominal, SlotSteps DEF SameMoves
<1>2. bs[p].entry <= bs[p].max /\ bs[p].max <= Square(Nominal(bs, Prev(p)))
  BY DEF Capped
<1>3. p # s => cs[p].entry = bs[p].entry
  BY DEF EntryIn
<1>. QED
  BY <1>1, <1>2, <1>3

\* The machine can still stop if the speed was lowered, or can be braked from.
LEMMA ReachesKept ==
    ASSUME TypeOK, NEW bs \in [Slot -> Block], NEW cs \in [Slot -> Block], NEW h \in Slot,
           NEW x \in BOOLEAN, NEW y \in BOOLEAN, NEW s \in Slot, s # tail, In(h, s),
           SameMoves(bs, cs), NEW c,
           \A p \in Slot : p # s => EntryIn(cs, y, p) = EntryIn(bs, x, p),
           Reaches(bs, h, x, c),
           cs[s].entry <= bs[s].entry \/ cs[s].entry <= ExitIn(bs, h, s) + bs[s].dist
    PROVE  Reaches(cs, h, y, c)
<1>1. PICK R \in [Slot -> Nat] :
        /\ R[h] = 0 /\ c <= R[tail]
        /\ \A p \in Slot : In(h, p) => /\ R[p] = bs[p].dist + R[Next_(p)]
                                       /\ EntryIn(bs, x, p) <= R[p]
  BY DEF Reaches
<1>2. ASSUME NEW p \in Slot, In(h, p)
      PROVE  R[p] = cs[p].dist + R[Next_(p)] /\ EntryIn(cs, y, p) <= R[p]
  <2>1. R[p] = cs[p].dist + R[Next_(p)]
    BY <1>1, <1>2 DEF SameMoves
  <2>2. CASE p # s
    BY <1>1, <1>2, <2>1, <2>2
  <2>3. CASE p = s
    <3>1. EntryIn(cs, y, p) = cs[s].entry /\ EntryIn(bs, x, p) = bs[s].entry
      BY <2>3 DEF EntryIn
    <3>2. ExitIn(bs, h, s) <= R[Next_(s)] /\ ExitIn(bs, h, s) \in Nat
      <4>1. CASE Next_(s) = h
        BY <1>1, <4>1 DEF ExitIn
      <4>2. CASE Next_(s) # h
        <5>1. Next_(s) \in Slot /\ In(h, Next_(s)) /\ Next_(s) # tail
          BY <4>2, QueueNext
        <5>2. EntryIn(bs, x, Next_(s)) = bs[Next_(s)].entry
          BY <5>1 DEF EntryIn
        <5>. QED
          BY <1>1, <4>2, <5>1, <5>2, Fields DEF ExitIn
      <4>. QED
        BY <4>1, <4>2
    <3>3. /\ R[s] \in Nat /\ R[Next_(s)] \in Nat /\ cs[s].entry \in Nat
          /\ bs[s].entry \in Nat /\ bs[s].dist \in Nat
      BY Fields, SlotSteps
    <3>4. R[s] = bs[s].dist + R[Next_(s)] /\ bs[s].entry <= R[s]
      BY <1>1, <3>1, <2>3
    <3>. QED
      BY <2>1, <2>3, <3>1, <3>2, <3>3, <3>4
  <2>. QED
    BY <2>2, <2>3, <2>1
<1>. QED
  BY <1>1, <1>2 DEF Reaches

\* The parts of the invariant after a step that leaves the tail alone.
LEMMA NextParts ==
    ASSUME tail' = tail, loaded' => speed' = speed, NEW p \in Slot
    PROVE  /\ Offset(p)' = Offset(p) /\ In(head, p)' = In(head', p)
           /\ Queued(p)' = In(head', p)
           /\ EntryIn(blocks, loaded, p)' = EntryIn(blocks', loaded', p)
           /\ ExitIn(blocks, head, p)' = ExitIn(blocks', head', p)
           /\ Slows(blocks, head, loaded, p)' = Slows(blocks', head', loaded', p)
           /\ Speeds(blocks, head, loaded, p)' = Speeds(blocks', head', loaded', p)
<1>1. EntryIn(blocks, loaded, p)' = EntryIn(blocks', loaded', p)
  BY DEF EntryIn
<1>. QED
  BY <1>1 DEF Offset, In, Queued, ExitIn, Slows, Speeds

LEMMA NextReaches ==
    ASSUME tail' = tail, loaded' => speed' = speed, Reaches(blocks', head', loaded', carry')
    PROVE  Stoppable'
<1>1. PICK R \in [Slot -> Nat] :
        /\ R[head'] = 0 /\ carry' <= R[tail]
        /\ \A p \in Slot : In(head', p) => /\ R[p] = blocks'[p].dist + R[Next_(p)]
                                           /\ EntryIn(blocks', loaded', p) <= R[p]
  BY DEF Reaches
<1>2. /\ R[head'] = 0 /\ carry' <= R[tail']
      /\ \A p \in Slot : In(head, p)' => /\ R[p] = blocks'[p].dist + R[Next_(p)]
                                         /\ EntryIn(blocks, loaded, p)' <= R[p]
  BY <1>1, NextParts
<1>. QED
  BY <1>2 DEF Stoppable, Reaches

LEMMA NextCapped ==
    ASSUME tail' = tail, loaded' => speed' = speed, feed' = feed, rapid' = rapid,
           Capped(blocks', head')
    PROVE  Capped(blocks, head)'
<1>1. \A p \in Slot : Nominal(blocks, Prev(p))' = Nominal(blocks', Prev(p))
  BY DEF Nominal
<1>. QED
  BY <1>1, NextParts DEF Capped

\* What planner_recalculate does first keeps the plan feasible, as far as it was.
LEMMA RecalculateFeasible ==
    ASSUME TypeOK, NEW bs \in [Slot -> Block], NEW h \in Slot, NEW q \in Slot,
           NEW x \in BOOLEAN, Recalculate(bs, h, q, x), blocks' \in [Slot -> Block],
           tail' = tail, head' = h, planned' = q, Offset(q) < Offset(h),
           loaded' => speed' = speed,
           Reaches(bs, h, x, carry'),
           ~overridden' =>
               /\ ~hold' /\ feed' = feed /\ rapid' = rapid /\ Capped(bs, h)
               /\ \A p \in Slot : In(h, p) => Slows(bs, h, x, p)
               /\ \A p \in Slot : In(h, p) /\ (Offset(p) < Offset(q) \/ Prev(h) = q)
                                    => Speeds(bs, h, x, p)
               /\ carry' # -1 => ~x /\ carry' = bs[tail].entry
    PROVE  /\ Stoppable' /\ Slowing' /\ Speeding' /\ Released'
           /\ SameMoves(bs, blocks') /\ tail' # head' /\ (loaded' => x)
           /\ ~overridden' => /\ Capped(blocks, head)'
                              /\ carry' # -1 => carry' = blocks'[tail].entry
<1>. DEFINE last == Prev(h)
            top == Min2(bs[last].max, bs[last].dist)
            planLast == [bs EXCEPT ![last].entry = top]
<1>0. /\ \A p \in Slot : Offset(p) \in Nat /\ Offset(p)' = Offset(p)
      /\ tail \in Slot
  BY OffsetRange, SizeAssumption DEF Offset, TypeOK
<1>1. last \in Slot /\ Next_(last) = h /\ h # tail /\ Offset(last) = Offset(h) - 1 /\ In(h, last)
  <2>1. h # tail
    BY OffsetRange, <1>0
  <2>. QED
    BY <2>1, <1>0, SlotSteps, OffsetPrev DEF In
<1>2. CASE last = q /\ blocks' = bs /\ loaded' = x /\ pc' = "idle"
  <2>1. SameMoves(bs, blocks')
    BY <1>2 DEF SameMoves
  <2>2. Stoppable'
    BY <1>2, NextReaches
  <2>3. Slowing' /\ Speeding' /\ Released'
    BY <1>2, NextParts DEF Slowing, Speeding, Released
  <2>4. ~overridden' => Capped(blocks, head)'
    BY <1>2, NextCapped
  <2>. QED
    BY <1>1, <1>2, <2>1, <2>2, <2>3, <2>4
<1>3. CASE /\ last # q
           /\ blocks' = Restarted(planLast, x /\ Prev(last) = q /\ q = tail, speed)
           /\ loaded' = (x /\ ~(Prev(last) = q /\ q = tail))
           /\ IF Prev(last) = q THEN pc' = "forward" /\ current' = q
                                ELSE pc' = "reverse" /\ current' = last
  <2>1. Offset(q) < Offset(last) /\ last # tail
    <3>1. Offset(q) # Offset(last)
      BY <1>1, <1>3, OffsetInjective
    <3>2. Offset(q) < Offset(last)
      BY <3>1, <1>0, <1>1
    <3>. QED
      BY <3>2, <1>0, <1>1, OffsetRange
  <2>2. loaded' \in BOOLEAN
    BY <1>3
  <2>3. top \in Nat /\ top <= bs[last].max /\ top <= bs[last].dist
        /\ bs[last].max \in Nat /\ bs[last].dist \in Nat /\ bs[last].entry \in Nat
    BY <1>1, Fields DEF Min2
  <2>4. /\ planLast[last] = [bs[last] EXCEPT !.entry = top]
        /\ \A p \in Slot : p # last => planLast[p] = bs[p]
        /\ planLast \in [Slot -> Block]
    BY <1>1, <2>3 DEF Block
  <2>. HIDE DEF planLast, top
  <2>5. /\ \A p \in Slot : p # tail => blocks'[p] = planLast[p]
        /\ blocks'[tail] = IF x /\ ~loaded' THEN [planLast[tail] EXCEPT !.entry = speed]
                           ELSE planLast[tail]
    BY <1>0, <1>3, <2>4 DEF Restarted
  <2>6. blocks'[last].entry = top
    BY <1>1, <2>1, <2>3, <2>4, <2>5, Fields DEF Block
  <2>7. SameMoves(bs, blocks')
    <3>1. SameMoves(bs, planLast)
      BY <1>1, <2>3, <2>4, Fields DEF SameMoves, Block
    <3>2. SameMoves(planLast, blocks')
      BY <1>0, <2>4, <2>5, Fields DEF SameMoves, Block
    <3>. QED
      BY <3>1, <3>2 DEF SameMoves
  <2>8. \A p \in Slot : p # last => EntryIn(blocks', loaded', p) = EntryIn(bs, x, p)
    <3>. TAKE p \in Slot
    <3>. HAVE p # last
    <3>1. CASE p # tail
      BY <3>1, <2>4, <2>5 DEF EntryIn
    <3>2. CASE p = tail
      <4>1. CASE x /\ ~loaded'
        <5>1. blocks'[tail].entry = speed
          BY <1>0, <2>4, <2>5, <4>1, Fields DEF TypeOK, Block
        <5>. QED
          BY <3>2, <4>1, <5>1 DEF EntryIn
      <4>2. CASE loaded' = x
        BY <3>2, <4>2, <2>4, <2>5 DEF EntryIn
      <4>. QED
        BY <4>1, <4>2, <1>3
    <3>. QED
      BY <3>1, <3>2
  <2>9. ExitIn(bs, h, last) = 0
    BY <1>1 DEF ExitIn
  <2>10. Stoppable'
    <3>1. Reaches(blocks', h, loaded', carry')
      BY <1>1, <2>1, <2>2, <2>3, <2>6, <2>7, <2>8, <2>9, ReachesKept
    <3>. QED
      BY <3>1, NextReaches
  <2>11. Slowing'
    <3>. SUFFICES ASSUME ~overridden' PROVE Slowing'
      BY DEF Slowing
    <3>1. bs[last].entry <= top
      <4>1. bs[last].entry <= bs[last].max
        BY <1>1, <2>1 DEF Capped
      <4>2. bs[last].entry <= 0 + bs[last].dist
        BY <1>1, <2>1, <2>9 DEF Slows, EntryIn
      <4>. QED
        BY <4>1, <4>2, <2>3 DEF top, Min2
    <3>2. \A p \in Slot : In(h, p) => Slows(blocks', h, loaded', p)
      BY <1>1, <2>1, <2>2, <2>3, <2>6, <2>7, <2>8, <2>9, <3>1, SlowsKept
    <3>. QED
      BY <3>2, NextParts DEF Slowing
  <2>12. Speeding'
    <3>. SUFFICES ASSUME ~overridden', NEW p \in Slot, Queued(p)', Settled(p)'
                  PROVE  Speeds(blocks, head, loaded, p)'
      BY DEF Speeding
    <3>1. In(h, p) /\ Offset(p) < Offset(q)
      <4>1. Offset(planned)' = Offset(q) /\ (pc' = "forward" => Offset(current)' = Offset(q))
        BY <1>3 DEF Offset
      <4>. QED
        BY <4>1, <1>0, <1>3, NextParts DEF Settled
    <3>2. Next_(p) # last /\ p # last /\ Offset(Next_(p)) = Offset(p) + 1
      BY <3>1, <2>1, <1>0, <1>1, QueueNext
    <3>3. ExitIn(blocks', h, p) = ExitIn(bs, h, p)
      BY <1>1, <2>2, <2>8, <3>1, <3>2, OthersKept
    <3>4. Speeds(blocks', h, loaded', p)
      <4>1. Speeds(bs, h, x, p) /\ blocks'[p].dist = bs[p].dist
        BY <3>1, <2>7 DEF SameMoves
      <4>. QED
        BY <4>1, <2>8, <3>2, <3>3 DEF Speeds
    <3>. QED
      BY <3>4, NextParts
  <2>13. Released'
    BY <1>3 DEF Released
  <2>14. ~overridden' => Capped(blocks, head)'
    <3>. SUFFICES ASSUME ~overridden' PROVE Capped(blocks, head)'
      OBVIOUS
    <3>1. Capped(blocks', h)
      BY <1>1, <2>2, <2>3, <2>6, <2>7, <2>8, CappedKept
    <3>. QED
      BY <3>1, NextCapped
  <2>15. ~overridden' /\ carry' # -1 => carry' = blocks'[tail].entry
    <3>. SUFFICES ASSUME ~overridden', carry' # -1 PROVE carry' = blocks'[tail].entry
      OBVIOUS
    <3>1. ~x /\ ~loaded' /\ carry' = bs[tail].entry
      BY <1>1, <1>3
    <3>. QED
      BY <3>1, <2>1, <2>8, <1>0 DEF EntryIn
  <2>. QED
    BY <1>1, <1>3, <2>7, <2>10, <2>11, <2>12, <2>13, <2>14, <2>15
<1>. QED
  BY <1>2, <1>3 DEF Recalculate

\* One iteration of the reverse pass raises an entry speed, never beyond what can be
\* braked from.
LEMMA ReverseFeasible ==
    ASSUME IInv, FInv, ReverseStep, TypeOK'
    PROVE  FInv'
<1>. DEFINE p == Prev(current)
            bs == [blocks EXCEPT ![p].entry = ReverseEntry(p)]
<1>1. /\ TypeOK /\ current \in Slot /\ planned \in Slot /\ head \in Slot /\ tail \in Slot
      /\ p \in Slot /\ Prev(p) \in Slot /\ Next_(p) = current /\ blocks \in [Slot -> Block]
      /\ blocks' \in [Slot -> Block] /\ loaded \in BOOLEAN /\ loaded' \in BOOLEAN
  BY SlotSteps DEF IInv, TypeOK
<1>2. /\ pc = "reverse" /\ Offset(planned) + 1 < Offset(current) /\ Offset(current) < Offset(head)
  BY DEF ReverseStep, IInv, PlannedInQueue, Queued
<1>3. \A s \in Slot : Offset(s) \in Nat /\ Offset(s)' = Offset(s) /\ (Offset(s) = 0 <=> s = tail)
  BY <1>1, OffsetRange, SizeAssumption DEF ReverseStep, Offset
<1>4. Offset(p) = Offset(current) - 1 /\ p # tail /\ In(head, p) /\ current # head
  <2>1. current # tail
    BY <1>1, <1>2, <1>3
  <2>2. Offset(p) = Offset(current) - 1
    BY <1>1, <2>1, OffsetPrev
  <2>. QED
    BY <1>1, <1>2, <1>3, <2>2 DEF In
<1>5. /\ tail' = tail /\ head' = head /\ planned' = planned /\ speed' = speed /\ carry' = carry
      /\ hold' = hold /\ feed' = feed /\ rapid' = rapid /\ overridden' = overridden
      /\ previous_nominal' = previous_nominal
      /\ blocks' = Restarted(bs, loaded /\ Prev(p) = tail, speed)
      /\ loaded' = (loaded /\ ~(Prev(p) = tail))
      /\ IF Prev(p) = planned THEN pc' = "forward" /\ current' = planned
                              ELSE pc' = "reverse" /\ current' = p
  BY DEF ReverseStep
<1>. DEFINE e == ReverseEntry(p)
            v == blocks[current].entry + blocks[p].dist
<1>6. /\ blocks[p].entry \in Nat /\ blocks[p].max \in Nat /\ blocks[p].dist \in Nat
      /\ blocks[current].entry \in Nat /\ blocks[p] \in Block
  BY <1>1, Fields
<1>7. /\ e \in Nat /\ (blocks[p].entry <= blocks[p].max => e <= blocks[p].max)
      /\ e <= blocks[p].entry \/ e <= v
      /\ blocks[p].entry <= v => e <= v
      /\ blocks[p].entry <= v /\ blocks[p].entry <= blocks[p].max => blocks[p].entry <= e
  BY <1>1, <1>6 DEF ReverseEntry, Min2
<1>8. ExitIn(blocks, head, p) = blocks[current].entry
  BY <1>1, <1>4 DEF ExitIn
<1>. HIDE DEF e
<1>9. /\ bs[p] = [blocks[p] EXCEPT !.entry = e]
      /\ \A s \in Slot : s # p => bs[s] = blocks[s]
      /\ bs \in [Slot -> Block]
  BY <1>1, <1>6, <1>7 DEF Block, e
<1>. HIDE DEF bs
<1>10. /\ \A s \in Slot : s # tail => blocks'[s] = bs[s]
       /\ blocks'[tail] = IF loaded /\ ~loaded' THEN [bs[tail] EXCEPT !.entry = speed]
                          ELSE bs[tail]
  BY <1>1, <1>5, <1>9 DEF Restarted
<1>11. blocks'[p].entry = e
  BY <1>1, <1>4, <1>6, <1>7, <1>9, <1>10 DEF Block
<1>12. SameMoves(blocks, blocks')
  <2>1. SameMoves(blocks, bs)
    BY <1>1, <1>7, <1>9, Fields DEF SameMoves, Block
  <2>2. SameMoves(bs, blocks')
    BY <1>1, <1>9, <1>10, Fields, SMTT(30) DEF SameMoves, Block
  <2>. QED
    BY <2>1, <2>2 DEF SameMoves
<1>13. \A s \in Slot : s # p => EntryIn(blocks', loaded', s) = EntryIn(blocks, loaded, s)
  <2>. TAKE s \in Slot
  <2>. HAVE s # p
  <2>1. CASE s # tail
    BY <2>1, <1>9, <1>10 DEF EntryIn
  <2>2. CASE s = tail /\ loaded /\ ~loaded'
    <3>1. blocks'[tail].entry = speed
      BY <1>1, <1>9, <1>10, <2>2, Fields DEF TypeOK, Block
    <3>. QED
      BY <2>2, <3>1 DEF EntryIn
  <2>3. CASE s = tail /\ loaded' = loaded
    BY <2>3, <1>1, <1>4, <1>9, <1>10 DEF EntryIn
  <2>. QED
    BY <2>1, <2>2, <2>3, <1>1, <1>5
<1>14. Stoppable'
  <2>1. Reaches(blocks, head, loaded, carry)
    BY DEF FInv, Stoppable
  <2>2. Reaches(blocks', head, loaded', carry)
    BY <2>1, <1>1, <1>4, <1>6, <1>7, <1>8, <1>11, <1>12, <1>13, ReachesKept
  <2>. QED
    BY <2>2, <1>5, NextReaches
<1>15. ASSUME ~overridden
       PROVE  /\ ~hold /\ Capped(blocks, head) /\ \A s \in Slot : In(head, s) => Slows(blocks, head, loaded, s)
              /\ blocks[p].entry <= blocks[p].max /\ blocks[p].entry <= v
  <2>1. ~hold /\ Capped(blocks, head)
    BY <1>2, <1>15 DEF FInv, Capping, Slowing
  <2>2. \A s \in Slot : In(head, s) => Slows(blocks, head, loaded, s)
    BY <1>15, <2>1 DEF FInv, Slowing, Queued, In
  <2>3. blocks[p].entry <= blocks[p].max
    BY <1>1, <1>4, <2>1 DEF Capped
  <2>4. blocks[p].entry <= v
    BY <1>1, <1>4, <1>8, <2>2 DEF Slows, EntryIn
  <2>. QED
    BY <2>1, <2>2, <2>3, <2>4
<1>16. Slowing'
  <2>. SUFFICES ASSUME ~overridden PROVE Slowing'
    BY <1>5 DEF Slowing
  <2>1. \A s \in Slot : In(head, s) => Slows(blocks', head, loaded', s)
    BY <1>1, <1>4, <1>6, <1>7, <1>8, <1>11, <1>12, <1>13, <1>15, SlowsKept, SMTT(30)
  <2>. QED
    BY <2>1, <1>5, <1>15, NextParts DEF Slowing
<1>17. Capping'
  <2>. SUFFICES ASSUME ~overridden PROVE Capping'
    BY <1>5 DEF Capping
  <2>1. Capped(blocks', head)
    BY <1>1, <1>7, <1>11, <1>12, <1>13, <1>15, CappedKept
  <2>2. Capped(blocks, head)'
    BY <2>1, <1>5, NextCapped
  <2>3. tail # head => previous_nominal = Nominal(blocks, Prev(head))
    BY DEF FInv, Capping
  <2>4. Nominal(blocks, Prev(head))' = Nominal(blocks, Prev(head))
    BY <1>1, <1>5, <1>12, SameNominal, SlotSteps DEF Nominal
  <2>. QED
    BY <2>2, <2>3, <2>4, <1>5 DEF Capping
<1>18. Speeding'
  <2>. SUFFICES ASSUME ~overridden, ~hold, NEW s \in Slot, Queued(s)', Settled(s)'
                PROVE  Speeds(blocks, head, loaded, s)'
    BY <1>5 DEF Speeding
  <2>1. In(head, s) /\ Offset(s) < Offset(planned)
    <3>1. Offset(planned)' = Offset(planned) /\ (pc' = "forward" => Offset(current)' = Offset(planned))
      BY <1>5 DEF Offset
    <3>. QED
      BY <3>1, <1>3, <1>5, NextParts DEF Settled
  <2>2. Next_(s) # p /\ s # p
    BY <2>1, <1>1, <1>2, <1>3, <1>4, QueueNext
  <2>3. ExitIn(blocks', head, s) = ExitIn(blocks, head, s)
    BY <1>1, <1>13, <2>1, <2>2, OthersKept
  <2>4. Speeds(blocks, head, loaded, s) /\ blocks'[s].dist = blocks[s].dist
    BY <2>1, <1>2, <1>12 DEF FInv, Speeding, SameMoves, Queued, In, Settled
  <2>5. Speeds(blocks', head, loaded', s)
    BY <2>2, <2>3, <2>4, <1>13 DEF Speeds
  <2>. QED
    BY <2>5, <1>5, NextParts
<1>19. Carrying'
  <2>1. ~loaded => ~loaded' /\ blocks'[tail].entry = blocks[tail].entry
    BY <1>1, <1>4, <1>5, <1>13 DEF EntryIn
  <2>. QED
    BY <2>1, <1>5 DEF FInv, Carrying
<1>20. Released'
  BY <1>5 DEF Released
<1>. QED
  BY <1>14, <1>16, <1>17, <1>18, <1>19, <1>20 DEF FInv

\* One iteration of the forward pass lowers an entry speed to what can be reached.
LEMMA ForwardFeasible ==
    ASSUME IInv, FInv, ForwardStep, TypeOK'
    PROVE  FInv'
<1>. DEFINE next == Next_(current)
            v == blocks[current].entry + blocks[current].dist
            e == IF v < blocks[next].entry THEN v ELSE blocks[next].entry
<1>1. /\ TypeOK /\ current \in Slot /\ planned \in Slot /\ head \in Slot /\ tail \in Slot
      /\ blocks \in [Slot -> Block] /\ blocks' \in [Slot -> Block]
      /\ loaded \in BOOLEAN /\ loaded' \in BOOLEAN
  BY DEF IInv, TypeOK
<1>2. pc = "forward" /\ In(head, current)
  BY DEF ForwardStep, IInv, PlannedInQueue, Queued, In
<1>3. \A s \in Slot : Offset(s) \in Nat /\ Offset(s)' = Offset(s) /\ (Offset(s) = 0 <=> s = tail)
  BY <1>1, OffsetRange, SizeAssumption DEF ForwardStep, Offset
<1>4. /\ next \in Slot /\ next # tail /\ next # current /\ Offset(next) = Offset(current) + 1
      /\ next # head => In(head, next)
      /\ Prev(next) = current
  BY <1>1, <1>2, QueueNext, SlotSteps
<1>5. /\ tail' = tail /\ head' = head /\ speed' = speed /\ carry' = carry /\ loaded' = loaded
      /\ hold' = hold /\ feed' = feed /\ rapid' = rapid /\ overridden' = overridden
      /\ previous_nominal' = previous_nominal
  BY DEF ForwardStep, stepper
<1>6. /\ blocks[next].entry \in Nat /\ v \in Nat /\ e \in Nat /\ blocks[current].entry \in Nat
      /\ blocks[current].dist \in Nat /\ e <= blocks[next].entry /\ e <= v
      /\ e = v \/ e = blocks[next].entry
  BY <1>1, <1>4, Fields
<1>7. EntryIn(blocks, loaded, current) = blocks[current].entry
  BY <1>2 DEF FInv, Released, EntryIn
<1>8. \A s \in Slot : In(head, s) /\ Offset(s) < Offset(current) /\ ~overridden /\ ~hold
                        => Speeds(blocks, head, loaded, s)
  BY <1>2 DEF FInv, Speeding, Settled, Queued, In
<1>9. CASE next = head /\ pc' = "idle" /\ blocks' = blocks
  <2>1. Stoppable'
    BY <1>5, <1>9, NextReaches DEF FInv, Stoppable
  <2>2. Capping'
    <3>1. Capped(blocks, head)' = Capped(blocks, head)
      BY <1>5, <1>9 DEF Capped, In, Offset, Nominal
    <3>. QED
      BY <3>1, <1>5, <1>9 DEF FInv, Capping, Nominal
  <2>3. Slowing'
    BY <1>5, <1>9, NextParts DEF FInv, Slowing, Queued, In
  <2>4. Speeding'
    <3>. SUFFICES ASSUME ~overridden, ~hold, NEW s \in Slot, Queued(s)'
                  PROVE  Speeds(blocks, head, loaded, s)'
      BY <1>5 DEF Speeding
    <3>1. In(head, s)
      BY <1>5, NextParts
    <3>2. Offset(s) < Offset(current) \/ s = current
      <4>1. s # current => Offset(s) # Offset(current)
        BY <1>1, OffsetInjective
      <4>. QED
        BY <4>1, <3>1, <1>1, <1>3, <1>4, <1>9 DEF In
    <3>3. Speeds(blocks, head, loaded, current)
      BY <1>6, <1>7, <1>9 DEF Speeds, ExitIn
    <3>4. Speeds(blocks, head, loaded, s)
      BY <3>1, <3>2, <3>3, <1>8
    <3>. QED
      BY <3>4, <1>5, <1>9, NextParts
  <2>5. Carrying' /\ Released'
    BY <1>5, <1>9 DEF FInv, Carrying, Released
  <2>. QED
    BY <2>1, <2>2, <2>3, <2>4, <2>5 DEF FInv
<1>10. CASE /\ next # head /\ pc' = pc /\ current' = next
            /\ blocks' = [blocks EXCEPT ![next].entry = e]
  <2>1. /\ blocks'[next] = [blocks[next] EXCEPT !.entry = e]
        /\ \A s \in Slot : s # next => blocks'[s] = blocks[s]
    BY <1>1, <1>4, <1>10
  <2>. HIDE DEF e
  <2>2. blocks'[next].entry = e /\ SameMoves(blocks, blocks')
    BY <1>1, <1>4, <1>6, <2>1, Fields DEF Block, SameMoves
  <2>3. \A s \in Slot : s # next => EntryIn(blocks', loaded', s) = EntryIn(blocks, loaded, s)
    BY <1>5, <2>1 DEF EntryIn
  <2>4. Stoppable'
    <3>1. Reaches(blocks, head, loaded, carry)
      BY DEF FInv, Stoppable
    <3>2. In(head, next) /\ blocks'[next].entry <= blocks[next].entry
      BY <1>4, <1>6, <1>10, <2>2
    <3>. HIDE DEF next
    <3>3. Reaches(blocks', head, loaded', carry)
      BY <3>1, <3>2, <1>1, <1>4, <2>2, <2>3, ReachesKept
    <3>. QED
      BY <3>3, <1>5, NextReaches
  <2>5. ASSUME ~overridden
        PROVE  /\ ~hold /\ Capped(blocks, head)
               /\ \A s \in Slot : In(head, s) => Slows(blocks, head, loaded, s)
    <3>1. ~hold /\ Capped(blocks, head)
      BY <1>2, <2>5 DEF FInv, Capping, Slowing
    <3>. QED
      BY <2>5, <3>1 DEF FInv, Slowing, Queued, In
  <2>6. Slowing'
    <3>. SUFFICES ASSUME ~overridden PROVE Slowing'
      BY <1>5 DEF Slowing
    <3>1. e <= ExitIn(blocks, head, next) + blocks[next].dist
      <4>1. blocks[next].entry <= ExitIn(blocks, head, next) + blocks[next].dist
        BY <1>4, <1>10, <2>5 DEF Slows, EntryIn
      <4>2. ExitIn(blocks, head, next) \in Nat /\ blocks[next].dist \in Nat
        BY <1>1, <1>4, Fields, SlotSteps DEF ExitIn
      <4>. QED
        BY <4>1, <4>2, <1>6
    <3>2. \/ blocks[next].entry <= e
          \/ EntryIn(blocks, loaded, Prev(next)) <= e + blocks[Prev(next)].dist
      BY <1>4, <1>6, <1>7
    <3>4. In(head, next) /\ blocks'[next].entry = e
      BY <1>4, <1>10, <2>2
    <3>. HIDE DEF next
    <3>3. \A s \in Slot : In(head, s) => Slows(blocks', head, loaded', s)
      BY <1>1, <1>4, <2>2, <2>3, <2>5, <3>1, <3>2, <3>4, SlowsKept, SMTT(30)
    <3>. QED
      BY <3>3, <1>5, <2>5, NextParts DEF Slowing
  <2>7. Capping'
    <3>. SUFFICES ASSUME ~overridden PROVE Capping'
      BY <1>5 DEF Capping
    <3>1. e <= blocks[next].max
      <4>1. blocks[next].entry <= blocks[next].max /\ blocks[next].max \in Nat
        BY <1>1, <1>4, <1>10, <2>5, Fields DEF Capped
      <4>. QED
        BY <4>1, <1>6
    <3>2. Capped(blocks', head)
      BY <1>1, <1>4, <2>2, <2>3, <2>5, <3>1, CappedKept
    <3>3. Capped(blocks, head)'
      BY <3>2, <1>5, NextCapped
    <3>4. tail # head => previous_nominal = Nominal(blocks, Prev(head))
      BY DEF FInv, Capping
    <3>5. Nominal(blocks, Prev(head))' = Nominal(blocks, Prev(head))
      BY <1>1, <1>5, <2>2, SameNominal, SlotSteps DEF Nominal
    <3>. QED
      BY <3>3, <3>4, <3>5, <1>5 DEF Capping
  <2>8. Speeding'
    <3>. SUFFICES ASSUME ~overridden, ~hold, NEW s \in Slot, Queued(s)', Settled(s)'
                  PROVE  Speeds(blocks, head, loaded, s)'
      BY <1>5 DEF Speeding
    <3>1. In(head, s) /\ Offset(s) < Offset(next)
      <4>1. Offset(current)' = Offset(next)
        BY <1>5, <1>10 DEF Offset
      <4>. QED
        BY <4>1, <1>2, <1>3, <1>5, <1>10, NextParts DEF Settled
    <3>2. s # next
      BY <3>1, <1>3, <1>4
    <3>3. CASE s = current
      <4>1. ExitIn(blocks', head, s) = e
        BY <3>3, <1>10, <2>2 DEF ExitIn
      <4>2. EntryIn(blocks', loaded', s) = blocks[current].entry /\ blocks'[s].dist = blocks[current].dist
        BY <3>2, <3>3, <1>7, <2>2, <2>3 DEF SameMoves
      <4>3. Speeds(blocks', head, loaded', s)
        BY <4>1, <4>2, <1>6 DEF Speeds
      <4>. QED
        BY <4>3, <1>5, NextParts
    <3>4. CASE s # current
      <4>1. Offset(s) < Offset(current)
        <5>1. Offset(s) # Offset(current)
          BY <3>4, <1>1, OffsetInjective
        <5>. QED
          BY <5>1, <3>1, <1>1, <1>3, <1>4
      <4>2. Next_(s) # next
        BY <3>1, <4>1, <1>1, <1>3, <1>4, QueueNext
      <4>3. ExitIn(blocks', head, s) = ExitIn(blocks, head, s)
        BY <1>1, <1>4, <2>3, <3>1, <4>2, OthersKept
      <4>4. Speeds(blocks, head, loaded, s) /\ blocks'[s].dist = blocks[s].dist
        BY <3>1, <4>1, <1>8, <2>2 DEF SameMoves
      <4>5. Speeds(blocks', head, loaded', s)
        BY <3>2, <4>3, <4>4, <2>3 DEF Speeds
      <4>. QED
        BY <4>5, <1>5, NextParts
    <3>. QED
      BY <3>3, <3>4
  <2>9. Carrying'
    BY <1>1, <1>4, <1>5, <2>1 DEF FInv, Carrying
  <2>10. Released'
    BY <1>4, <1>5, <1>10 DEF Released
  <2>. QED
    BY <2>4, <2>6, <2>7, <2>8, <2>9, <2>10 DEF FInv
<1>. QED
  BY <1>9, <1>10 DEF ForwardStep

\* An empty queue is feasible.
LEMMA EmptyFeasible ==
    ASSUME TypeOK', tail' = head', pc' = "idle", loaded' = FALSE, carry' <= 0,
           ~hold' => carry' # 0
    PROVE  FInv'
<1>1. tail' \in Slot /\ Size \in Nat /\ carry' \in Nat \cup {-1} /\ tail' \in Int
  BY SizeAssumption DEF TypeOK, Slot
<1>0. \A t \in Slot, p \in Slot :
        LET o == IF p >= t THEN p - t ELSE p - t + Size + 1
        IN  o \in Nat /\ (p = t => o = 0)
  BY <1>1 DEF Slot
<1>2. \A p \in Slot : Offset(p)' \in Nat
  BY <1>0, <1>1 DEF Offset
<1>3. Offset(head)' = 0
  BY <1>0, <1>1 DEF Offset
<1>4. \A p \in Slot : ~In(head, p)' /\ ~Queued(p)'
  BY <1>2, <1>3 DEF In, Queued
<1>5. Stoppable'
  <2>. DEFINE R == [p \in Slot |-> 0]
  <2>1. R \in [Slot -> Nat] /\ R[head'] = 0 /\ carry' <= R[tail']
    BY <1>1
  <2>. HIDE DEF R
  <2>. QED
    BY <2>1, <1>4 DEF Stoppable, Reaches
<1>6. Capped(blocks, head)'
  BY <1>4 DEF Capped
<1>7. ~hold' => carry' = -1
  BY <1>1
<1>. QED
  BY <1>4, <1>5, <1>6, <1>7 DEF FInv, Capping, Slowing, Speeding, Carrying, Released

\* With an empty queue nothing is carried over, unless a hold has just used it up.
LEMMA EmptyCarry ==
    ASSUME IInv, FInv, tail = head
    PROVE  carry <= 0 /\ (~hold => carry = -1) /\ ~loaded
<1>1. carry \in Nat \cup {-1} /\ ~loaded
  BY DEF IInv, TypeOK, ExecutingQueued
<1>2. carry <= 0
  BY DEF FInv, Stoppable, Reaches
<1>. QED
  BY <1>1, <1>2 DEF FInv, Carrying

\* Adding a motion.
LEMMA BufferLineFeasible ==
    ASSUME IInv, FInv, NEW m \in Moves, plan_buffer_line(m), TypeOK'
    PROVE  FInv'
<1>. DEFINE b == [dist |-> m.dist, rate |-> m.rate, rapid |-> m.rapid,
                  junction |-> IF head = tail THEN 0 ELSE m.junction, max |-> 0, entry |-> 0]
            n == NominalSpeed(b, feed, rapid)
            mx == MaxEntry(b, n, previous_nominal)
            nb == [b EXCEPT !.max = mx]
            bs == [blocks EXCEPT ![head] = nb]
            h == Next_(head)
<1>1. b \in Block /\ mx \in Nat /\ n \in Nat /\ TypeOK /\ m.dist \in Nat /\ previous_nominal \in Nat
  <2>1. b \in Block
    BY MovesAssumption DEF Block
  <2>. QED
    BY <2>1, SpeedTypes, MovesAssumption DEF IInv, TypeOK
<1>2. /\ nb \in Block /\ nb.entry = 0 /\ nb.dist = m.dist /\ nb.max = mx
      /\ nb.rate = b.rate /\ nb.rapid = b.rapid
  BY <1>1 DEF Block
<1>3. /\ head \in Slot /\ planned \in Slot /\ h \in Slot /\ loaded \in BOOLEAN /\ tail \in Slot
      /\ blocks \in [Slot -> Block] /\ blocks' \in [Slot -> Block] /\ Prev(h) = head
      /\ Prev(head) \in Slot /\ carry \in Nat \cup {-1}
  BY <1>1, SlotSteps DEF TypeOK
<1>4. /\ Recalculate(bs, h, planned, loaded) /\ previous_nominal' = n
      /\ pc = "idle" /\ h # tail /\ ~hold /\ hold' = hold /\ speed' = speed /\ carry' = carry
      /\ head' = h /\ tail' = tail /\ planned' = planned /\ feed' = feed /\ rapid' = rapid
      /\ overridden' = (overridden /\ head # tail)
  BY DEF plan_buffer_line
<1>5. bs \in [Slot -> Block] /\ bs[head] = nb /\ \A p \in Slot : p # head => bs[p] = blocks[p]
  BY <1>2, <1>3
<1>. HIDE DEF n, nb, bs
<1>6. \A p \in Slot : Offset(p) \in Nat
  BY <1>1, OffsetRange, SizeAssumption
<1>7. Offset(h) = Offset(head) + 1
  BY <1>1, <1>3, <1>4, OffsetNext
<1>8. \A p \in Slot : In(h, p) <=> In(head, p) \/ p = head
  <2>1. \A p \in Slot : p # head => Offset(p) # Offset(head)
    BY <1>1, <1>3, OffsetInjective
  <2>. QED
    BY <2>1, <1>3, <1>6, <1>7 DEF In
<1>. HIDE DEF h
<1>9. ASSUME NEW p \in Slot, In(head, p)
      PROVE  /\ p # head /\ p # h /\ bs[p] = blocks[p] /\ Next_(p) # h
             /\ EntryIn(bs, loaded, p) = EntryIn(blocks, loaded, p)
             /\ ExitIn(bs, h, p) = ExitIn(blocks, head, p)
  <2>1. p # head /\ p # h /\ bs[p] = blocks[p]
    BY <1>3, <1>5, <1>6, <1>7, <1>9 DEF In
  <2>2. Next_(p) \in Slot /\ Offset(Next_(p)) = Offset(p) + 1
    BY <1>1, <1>3, <1>9, QueueNext
  <2>3. Next_(p) # h
    BY <2>2, <1>3, <1>6, <1>7, <1>9 DEF In
  <2>. QED
    BY <2>1, <2>2, <2>3, <1>2, <1>5 DEF EntryIn, ExitIn
<1>10. EntryIn(bs, loaded, head) = 0 /\ ExitIn(bs, h, head) = 0
  BY <1>2, <1>5 DEF IInv, ExecutingQueued, EntryIn, ExitIn, h
<1>11. Reaches(bs, h, loaded, carry)
  <2>1. PICK R \in [Slot -> Nat] :
          /\ R[head] = 0 /\ carry <= R[tail]
          /\ \A p \in Slot : In(head, p) => /\ R[p] = blocks[p].dist + R[Next_(p)]
                                            /\ EntryIn(blocks, loaded, p) <= R[p]
    BY DEF FInv, Stoppable, Reaches
  <2>. DEFINE Q == [p \in Slot |-> IF p = h THEN 0 ELSE IF p = head THEN m.dist
                                   ELSE R[p] + m.dist]
  <2>2. h # head
    BY <1>3, <1>6, <1>7
  <2>3. Q \in [Slot -> Nat] /\ Q[h] = 0 /\ Q[head] = m.dist
        /\ \A p \in Slot : p # h /\ p # head => Q[p] = R[p] + m.dist
    BY <1>1, <1>3, <2>2
  <2>. HIDE DEF Q
  <2>4. carry <= Q[tail]
    BY <1>1, <1>3, <1>4, <2>1, <2>3
  <2>5. ASSUME NEW p \in Slot, In(h, p)
        PROVE  Q[p] = bs[p].dist + Q[Next_(p)] /\ EntryIn(bs, loaded, p) <= Q[p]
    <3>1. CASE p = head
      BY <3>1, <1>1, <1>2, <1>5, <1>10, <2>3 DEF h
    <3>2. CASE In(head, p)
      <4>1. /\ p # head /\ p # h /\ bs[p] = blocks[p] /\ Next_(p) # h
            /\ EntryIn(bs, loaded, p) = EntryIn(blocks, loaded, p) /\ Next_(p) \in Slot
        BY <1>9, <3>2, SlotSteps
      <4>2. /\ R[p] = blocks[p].dist + R[Next_(p)] /\ EntryIn(blocks, loaded, p) <= R[p]
            /\ R[p] \in Nat /\ R[Next_(p)] \in Nat /\ blocks[p].dist \in Nat
        BY <2>1, <3>2, <4>1, <1>3, Fields
      <4>3. Q[p] = R[p] + m.dist /\ Q[Next_(p)] = R[Next_(p)] + m.dist
        BY <1>1, <1>3, <2>1, <2>3, <4>1
      <4>4. EntryIn(blocks, loaded, p) \in Nat
        BY <1>1, <1>3, Fields DEF EntryIn, TypeOK
      <4>. QED
        BY <4>1, <4>2, <4>3, <4>4, <1>1
    <3>. QED
      BY <3>1, <3>2, <2>5, <1>8
  <2>. QED
    BY <2>3, <2>4, <2>5 DEF Reaches
<1>12. ASSUME ~overridden', NEW p \in Slot, In(head, p)
       PROVE  ~overridden /\ head # tail
  <2>1. head # tail
    BY <1>1, <1>3, <1>6, <1>12, OffsetRange DEF In
  <2>. QED
    BY <2>1, <1>4, <1>12
<1>13. ASSUME ~overridden' PROVE Capped(bs, h)
  <2>. SUFFICES ASSUME NEW p \in Slot, In(h, p), p # tail
                PROVE  bs[p].entry <= bs[p].max /\ bs[p].max <= Square(Nominal(bs, Prev(p)))
    BY DEF Capped
  <2>1. CASE In(head, p)
    <3>1. blocks[p].entry <= blocks[p].max /\ blocks[p].max <= Square(Nominal(blocks, Prev(p)))
      BY <1>12, <1>13, <2>1 DEF FInv, Capping, Capped
    <3>2. Prev(p) \in Slot /\ Offset(Prev(p)) = Offset(p) - 1
      BY <1>1, OffsetPrev, SlotSteps
    <3>3. bs[Prev(p)] = blocks[Prev(p)]
      BY <3>2, <2>1, <1>3, <1>5, <1>6 DEF In
    <3>. QED
      BY <3>1, <3>3, <1>9, <2>1 DEF Nominal
  <2>2. CASE p = head
    <3>1. ~overridden
      BY <1>4, <1>13, <2>2
    <3>2. previous_nominal = Nominal(blocks, Prev(head))
      BY <2>2, <3>1 DEF FInv, Capping
    <3>3. Prev(head) # head
      BY <1>3, SizeAssumption DEF Prev, Slot
    <3>4. Nominal(bs, Prev(head)) = previous_nominal
      BY <3>2, <3>3, <1>3, <1>5 DEF Nominal
    <3>. DEFINE k == Min2(n, previous_nominal)
    <3>5. k \in Nat /\ k <= previous_nominal
      BY <1>1 DEF Min2
    <3>6. Square(k) \in Nat /\ Square(k) <= Square(previous_nominal) /\ Square(previous_nominal) \in Nat
      BY <3>5, <1>1, SquareMonotonic
    <3>7. mx = Min2(Square(k), b.junction) /\ b.junction \in Nat
      BY <1>1 DEF MaxEntry, Square, Block
    <3>. HIDE DEF k
    <3>8. mx <= Square(previous_nominal)
      BY <3>6, <3>7, <1>1 DEF Min2
    <3>9. bs[p].entry = 0 /\ bs[p].max = mx
      BY <1>2, <1>5, <2>2
    <3>. HIDE DEF mx
    <3>. QED
      BY <1>1, <2>2, <3>4, <3>8, <3>9
  <2>. QED
    BY <2>1, <2>2, <1>8
<1>14. ASSUME ~overridden', NEW p \in Slot, In(h, p)
       PROVE  Slows(bs, h, loaded, p) /\ Speeds(bs, h, loaded, p)
  <2>1. CASE In(head, p)
    <3>1. Slows(blocks, head, loaded, p) /\ Speeds(blocks, head, loaded, p)
      BY <1>4, <1>12, <1>14, <2>1 DEF FInv, Slowing, Speeding, Settled, Queued, In
    <3>. QED
      BY <3>1, <1>9, <2>1 DEF Slows, Speeds
  <2>2. CASE p = head
    BY <1>1, <1>2, <1>5, <1>10, <2>2 DEF Slows, Speeds
  <2>. QED
    BY <2>1, <2>2, <1>8, <1>14
<1>15. ASSUME ~overridden', carry' # -1 PROVE ~loaded /\ carry' = bs[tail].entry
  <2>1. head # tail
    BY <1>4, <1>15, EmptyCarry
  <2>2. ~overridden /\ bs[tail] = blocks[tail]
    BY <2>1, <1>3, <1>4, <1>5, <1>15
  <2>. QED
    BY <2>2, <1>4, <1>15 DEF FInv, Carrying
<1>16. Offset(planned) < Offset(h)
  BY <1>3, <1>6, <1>7 DEF IInv, PlannedInQueue
<1>17. /\ Stoppable' /\ Slowing' /\ Speeding' /\ Released'
       /\ SameMoves(bs, blocks') /\ tail' # head' /\ (loaded' => loaded)
       /\ ~overridden' => /\ Capped(blocks, head)'
                          /\ carry' # -1 => carry' = blocks'[tail].entry
  BY <1>1, <1>3, <1>4, <1>5, <1>11, <1>13, <1>14, <1>15, <1>16, RecalculateFeasible
<1>18. Nominal(blocks, Prev(head))' = n
  <2>1. blocks'[head].rate = b.rate /\ blocks'[head].rapid = b.rapid
    BY <1>2, <1>3, <1>5, <1>17 DEF SameMoves
  <2>2. NominalSpeed(blocks'[head], feed, rapid) = n
    BY <2>1, NominalOf DEF n
  <2>. QED
    BY <2>2, <1>3, <1>4 DEF Nominal
<1>19. Capping'
  BY <1>4, <1>17, <1>18 DEF Capping
<1>20. Carrying'
  BY <1>4, <1>17 DEF FInv, Carrying
<1>. QED
  BY <1>17, <1>19, <1>20 DEF FInv

\* A hold ends in a standstill inside the tail block, and the plan starts from there.
LEMMA HoldEndFeasible ==
    ASSUME IInv, FInv, HoldEnd, TypeOK'
    PROVE  FInv'
<1>. DEFINE bs == [blocks EXCEPT ![tail].dist = blocks[tail].dist - speed]
            r == [bs EXCEPT ![tail].entry = 0]
<1>1. /\ TypeOK /\ tail \in Slot /\ head \in Slot /\ loaded \in BOOLEAN /\ speed \in Nat
      /\ blocks \in [Slot -> Block] /\ blocks' \in [Slot -> Block] /\ Prev(head) \in Slot
  BY SlotSteps DEF IInv, TypeOK
<1>2. /\ pc = "idle" /\ hold /\ ~hold' /\ speed' = 0 /\ carry' = -1 /\ tail' = tail /\ head' = head
      /\ feed' = feed /\ rapid' = rapid /\ overridden' = overridden
      /\ previous_nominal' = previous_nominal
  BY DEF HoldEnd
<1>3. CASE loaded /\ speed < blocks[tail].dist /\ Reinitialize(bs, 0)
  <2>1. tail # head /\ planned' = tail /\ Recalculate(r, head, tail, FALSE)
    BY <1>3 DEF IInv, ExecutingQueued, Reinitialize, Restarted
  <2>2. blocks[tail].dist \in Nat /\ blocks[tail].dist - speed \in Nat /\ blocks[tail] \in Block
    BY <1>1, <1>3, Fields
  <2>3. /\ r \in [Slot -> Block] /\ \A p \in Slot : p # tail => r[p] = blocks[p]
        /\ r[tail].entry = 0 /\ r[tail].dist = blocks[tail].dist - speed
        /\ r[tail].rate = blocks[tail].rate /\ r[tail].rapid = blocks[tail].rapid
    <3>1. bs \in [Slot -> Block] /\ bs[tail] = [blocks[tail] EXCEPT !.dist = blocks[tail].dist - speed]
      BY <1>1, <2>2 DEF Block
    <3>2. r[tail] = [bs[tail] EXCEPT !.entry = 0] /\ \A p \in Slot : p # tail => r[p] = blocks[p]
      BY <1>1
    <3>3. r \in [Slot -> Block]
      BY <1>1, <3>1 DEF Block
    <3>. HIDE DEF r, bs
    <3>. QED
      BY <1>1, <2>2, <3>1, <3>2, <3>3, Fields DEF Block
  <2>. HIDE DEF r
  <2>4. \A p \in Slot : Offset(p) \in Nat /\ (Offset(p) = 0 <=> p = tail)
    BY <1>1, OffsetRange, SizeAssumption
  <2>5. In(head, tail) /\ Offset(tail) < Offset(head)
    BY <1>1, <2>1, <2>4 DEF In
  <2>6. ASSUME NEW p \in Slot, In(head, p)
        PROVE  /\ Next_(p) \in Slot /\ Next_(p) # tail
               /\ ExitIn(r, head, p) = ExitIn(blocks, head, p) /\ ExitIn(r, head, p) \in Nat
               /\ p # tail => EntryIn(r, FALSE, p) = EntryIn(blocks, loaded, p)
    <3>1. Next_(p) \in Slot /\ Next_(p) # tail
      BY <1>1, <2>6, QueueNext
    <3>. QED
      BY <3>1, <1>1, <2>3, Fields DEF ExitIn, EntryIn
  <2>7. Reaches(r, head, FALSE, carry')
    <3>1. PICK R \in [Slot -> Nat] :
            /\ R[head] = 0 /\ carry <= R[tail]
            /\ \A p \in Slot : In(head, p) => /\ R[p] = blocks[p].dist + R[Next_(p)]
                                              /\ EntryIn(blocks, loaded, p) <= R[p]
      BY DEF FInv, Stoppable, Reaches
    <3>. DEFINE k == r[tail].dist + R[Next_(tail)]
                Q == [p \in Slot |-> IF p = tail THEN k ELSE R[p]]
    <3>0. k \in Nat
      BY <1>1, <2>2, <2>3, SlotSteps
    <3>2. /\ Q \in [Slot -> Nat] /\ Q[tail] = r[tail].dist + R[Next_(tail)] /\ Q[head] = 0
          /\ \A p \in Slot : p # tail => Q[p] = R[p]
          /\ Q[tail] \in Nat
      BY <1>1, <2>1, <3>0, <3>1
    <3>. HIDE DEF Q
    <3>3. carry' <= Q[tail]
      BY <1>2, <3>2
    <3>4. ASSUME NEW p \in Slot, In(head, p)
          PROVE  Q[p] = r[p].dist + Q[Next_(p)] /\ EntryIn(r, FALSE, p) <= Q[p]
      <4>1. Q[Next_(p)] = R[Next_(p)]
        BY <2>6, <3>2, <3>4
      <4>2. CASE p = tail
        BY <4>1, <4>2, <2>3, <3>2 DEF EntryIn
      <4>3. CASE p # tail
        BY <4>1, <4>3, <2>3, <2>6, <3>1, <3>2, <3>4
      <4>. QED
        BY <4>2, <4>3
    <3>. QED
      BY <3>2, <3>3, <3>4 DEF Reaches
  <2>8. \A p \in Slot : Nominal(r, p) = Nominal(blocks, p)
    BY <2>3, NominalOf DEF Nominal
  <2>9. ASSUME ~overridden PROVE Capped(r, head)
    BY <2>3, <2>8, <2>9, SlotSteps DEF FInv, Capping, Capped
  <2>10. ASSUME ~overridden, NEW p \in Slot, In(head, p) PROVE Slows(r, head, FALSE, p)
    <3>1. CASE p = tail
      BY <2>2, <2>3, <2>6, <2>10, <3>1 DEF Slows, EntryIn
    <3>2. CASE p # tail
      <4>1. Slows(blocks, head, loaded, p)
        BY <2>10, <3>2 DEF FInv, Slowing, Queued, In
      <4>. QED
        BY <4>1, <3>2, <2>3, <2>6, <2>10 DEF Slows
    <3>. QED
      BY <3>1, <3>2
  <2>11. ASSUME NEW p \in Slot, In(head, p), Offset(p) < Offset(tail) \/ Prev(head) = tail
         PROVE  Speeds(r, head, FALSE, p)
    <3>1. Prev(head) = tail
      BY <1>1, <2>4, <2>11
    <3>2. Offset(tail) = Offset(head) - 1 /\ Next_(tail) = head
      BY <3>1, <1>1, <2>1, OffsetPrev, SlotSteps
    <3>3. p = tail
      BY <3>2, <1>1, <2>4, <2>11 DEF In
    <3>. QED
      BY <3>2, <3>3, <2>2, <2>3 DEF Speeds, ExitIn, EntryIn
  <2>12. loaded' => speed' = speed
    BY <2>1 DEF Recalculate
  <2>13. /\ Stoppable' /\ Slowing' /\ Speeding' /\ Released'
         /\ SameMoves(r, blocks') /\ (loaded' => FALSE)
         /\ ~overridden' => Capped(blocks, head)'
    BY <1>1, <1>2, <2>1, <2>3, <2>5, <2>7, <2>9, <2>10, <2>11, <2>12, RecalculateFeasible
  <2>14. Nominal(blocks, Prev(head))' = Nominal(blocks, Prev(head))
    BY <1>1, <1>2, <2>8, <2>13, SameNominal DEF Nominal
  <2>15. Capping'
    BY <1>2, <2>13, <2>14 DEF FInv, Capping
  <2>16. Carrying'
    BY <1>2, <2>13 DEF Carrying
  <2>. QED
    BY <2>13, <2>15, <2>16 DEF FInv
<1>4. CASE tail = head /\ Reinitialize(blocks, 0)
  <2>1. pc' = "idle" /\ loaded' = FALSE
    BY <1>2, <1>4 DEF Reinitialize
  <2>2. tail' = head' /\ carry' <= 0 /\ carry' # 0
    BY <1>2, <1>4
  <2>. QED
    BY <2>1, <2>2, EmptyFeasible
<1>. QED
  BY <1>3, <1>4 DEF HoldEnd

\* An override keeps every speed, so what could be stopped from still can.
LEMMA OverrideFeasible ==
    ASSUME IInv, FInv, NEW f \in Overrides, NEW g \in Overrides, plan_feed_override(f, g), TypeOK'
    PROVE  FInv'
<1>. DEFINE nom(p) == NominalSpeed(blocks[p], f, g)
            prev(p) == IF p = tail THEN Large ELSE nom(Prev(p))
            bs == [p \in Slot |->
                     IF Queued(p)
                     THEN [blocks[p] EXCEPT !.max = MaxEntry(blocks[p], nom(p), prev(p))]
                     ELSE blocks[p]]
            r == Restarted(bs, loaded, speed)
<1>1. /\ TypeOK /\ tail \in Slot /\ head \in Slot /\ loaded \in BOOLEAN /\ speed \in Nat
      /\ blocks \in [Slot -> Block] /\ blocks' \in [Slot -> Block]
  BY DEF IInv, TypeOK
<1>2. /\ pc = "idle" /\ hold' = hold /\ speed' = speed /\ carry' = carry
      /\ tail' = tail /\ head' = head
  BY DEF plan_feed_override
<1>3. CASE tail # head
  <2>1. planned' = tail /\ Recalculate(r, head, tail, FALSE) /\ overridden'
    BY <1>3 DEF plan_feed_override, Reinitialize
  <2>2. \A p \in Slot : MaxEntry(blocks[p], nom(p), prev(p)) \in Nat
    <3>1. \A p \in Slot : nom(p) \in Nat
      BY <1>1, SpeedTypes DEF TypeOK
    <3>2. \A p \in Slot : prev(p) \in Nat
      BY <3>1, SlotSteps DEF Large
    <3>. QED
      BY <1>1, <3>2, SpeedTypes DEF TypeOK
  <2>3. /\ bs \in [Slot -> Block]
        /\ \A p \in Slot : bs[p].dist = blocks[p].dist /\ bs[p].entry = blocks[p].entry
    BY <1>1, <2>2, Fields DEF Block
  <2>. HIDE DEF bs
  <2>4. /\ r \in [Slot -> Block]
        /\ \A p \in Slot : r[p].dist = blocks[p].dist
        /\ \A p \in Slot : EntryIn(r, FALSE, p) = EntryIn(blocks, loaded, p)
    <3>1. CASE loaded
      <4>1. r = [bs EXCEPT ![tail].entry = speed]
        BY <3>1 DEF Restarted
      <4>2. r \in [Slot -> Block] /\ r[tail] = [bs[tail] EXCEPT !.entry = speed]
            /\ \A p \in Slot : p # tail => r[p] = bs[p]
        BY <4>1, <1>1, <2>3 DEF Block
      <4>3. r[tail].entry = speed /\ r[tail].dist = bs[tail].dist
        BY <4>2, <1>1, <2>3, Fields DEF Block
      <4>. HIDE DEF r
      <4>. QED
        BY <3>1, <4>2, <4>3, <1>1, <2>3 DEF EntryIn
    <3>2. CASE ~loaded
      BY <3>2, <2>3 DEF Restarted, EntryIn
    <3>. QED
      BY <3>1, <3>2
  <2>. HIDE DEF r
  <2>5. Reaches(r, head, FALSE, carry')
    BY <1>2, <2>4 DEF FInv, Stoppable, Reaches
  <2>6. Offset(tail) < Offset(head)
    BY <1>1, <1>3, OffsetRange
  <2>7. Stoppable' /\ Slowing' /\ Speeding' /\ Released' /\ (loaded' => FALSE)
    BY <1>1, <1>2, <2>1, <2>4, <2>5, <2>6, RecalculateFeasible
  <2>8. Capping' /\ Carrying'
    BY <1>2, <2>1, <2>7 DEF FInv, Capping, Carrying
  <2>. QED
    BY <2>7, <2>8 DEF FInv
<1>4. CASE tail = head
  <2>1. pc' = "idle" /\ loaded' = loaded /\ loaded = FALSE
    BY <1>1, <1>2, <1>4, EmptyCarry DEF plan_feed_override
  <2>2. tail' = head' /\ carry' <= 0 /\ (~hold' => carry' # 0)
    BY <1>2, <1>4, EmptyCarry
  <2>. QED
    BY <2>1, <2>2, EmptyFeasible
<1>. QED
  BY <1>3, <1>4

\* Steps of the segment generator that change the tail block only: k of it is done,
\* and it now has a speed that can be braked from.
LEMMA TailReaches ==
    ASSUME IInv, FInv, TypeOK', tail' = tail, head' = head, tail # head, loaded', carry' = -1,
           \A p \in Slot : p # tail => blocks'[p] = blocks[p],
           NEW k \in Nat, blocks'[tail].dist = blocks[tail].dist - k,
           \/ speed' <= EntryIn(blocks, loaded, tail) - k
           \/ speed' <= carry - k
           \/ speed' <= ExitIn(blocks, head, tail) + blocks'[tail].dist
    PROVE  Stoppable'
<1>1. /\ TypeOK /\ tail \in Slot /\ head \in Slot /\ blocks \in [Slot -> Block]
      /\ blocks' \in [Slot -> Block] /\ speed' \in Nat /\ carry \in Nat \cup {-1}
  BY DEF IInv, TypeOK
<1>2. PICK R \in [Slot -> Nat] :
        /\ R[head] = 0 /\ carry <= R[tail]
        /\ \A p \in Slot : In(head, p) => /\ R[p] = blocks[p].dist + R[Next_(p)]
                                          /\ EntryIn(blocks, loaded, p) <= R[p]
  BY DEF FInv, Stoppable, Reaches
<1>3. In(head, tail)
  BY <1>1, OffsetRange DEF In
<1>4. /\ Next_(tail) \in Slot /\ Next_(tail) # tail /\ (Next_(tail) # head => In(head, Next_(tail)))
  BY <1>1, <1>3, QueueNext
<1>5. /\ blocks[tail].dist \in Nat /\ blocks'[tail].dist \in Nat /\ R[Next_(tail)] \in Nat
      /\ R[tail] \in Nat
  BY <1>1, <1>4, Fields
<1>6. ExitIn(blocks, head, tail) <= R[Next_(tail)] /\ ExitIn(blocks, head, tail) \in Nat
  <2>1. CASE Next_(tail) = head
    BY <2>1, <1>2 DEF ExitIn
  <2>2. CASE Next_(tail) # head
    BY <2>2, <1>1, <1>2, <1>4, Fields DEF ExitIn, EntryIn
  <2>. QED
    BY <2>1, <2>2
<1>7. R[tail] = blocks[tail].dist + R[Next_(tail)] /\ EntryIn(blocks, loaded, tail) <= R[tail]
      /\ EntryIn(blocks, loaded, tail) \in Nat
  BY <1>1, <1>2, <1>3, Fields DEF EntryIn, TypeOK
<1>. DEFINE d == blocks'[tail].dist + R[Next_(tail)]
            Q == [p \in Slot |-> IF p = tail THEN d ELSE R[p]]
<1>8. d \in Nat /\ speed' <= d /\ carry' <= d
  BY <1>1, <1>2, <1>5, <1>6, <1>7
<1>9. Q \in [Slot -> Nat] /\ Q[head] = 0 /\ Q[tail] = d /\ \A p \in Slot : p # tail => Q[p] = R[p]
  BY <1>1, <1>2, <1>8
<1>. HIDE DEF Q
<1>10. ASSUME NEW p \in Slot, In(head, p)'
       PROVE  Q[p] = blocks'[p].dist + Q[Next_(p)] /\ EntryIn(blocks, loaded, p)' <= Q[p]
  <2>1. In(head, p)
    BY <1>10 DEF In, Offset
  <2>2. Next_(p) \in Slot /\ Next_(p) # tail
    BY <1>1, <2>1, QueueNext
  <2>3. CASE p = tail
    BY <2>2, <2>3, <1>8, <1>9 DEF EntryIn
  <2>4. CASE p # tail
    <3>1. EntryIn(blocks, loaded, p)' = EntryIn(blocks, loaded, p)
      BY <2>4 DEF EntryIn
    <3>. QED
      BY <3>1, <2>1, <2>2, <2>4, <1>2, <1>9
  <2>. QED
    BY <2>3, <2>4
<1>. QED
  BY <1>8, <1>9, <1>10 DEF Stoppable, Reaches

\* The same steps leave the other blocks as they are.
LEMMA TailOthers ==
    ASSUME IInv, FInv, TypeOK', tail' = tail, head' = head, hold' = hold, pc = "idle", pc' = pc,
           overridden' = overridden, feed' = feed, rapid' = rapid,
           previous_nominal' = previous_nominal,
           \A p \in Slot : p # tail => blocks'[p] = blocks[p],
           blocks'[tail].rate = blocks[tail].rate, blocks'[tail].rapid = blocks[tail].rapid
    PROVE  /\ Capping' /\ Released'
           /\ \A p \in Slot : Queued(p)' <=> In(head, p)
           /\ \A p \in Slot : In(head, p) => ExitIn(blocks, head, p)' = ExitIn(blocks, head, p)
           /\ \A p \in Slot : In(head, p) /\ p # tail =>
                  /\ ~overridden => Slows(blocks, head, loaded, p)'
                  /\ ~overridden /\ ~hold => Speeds(blocks, head, loaded, p)'
<1>1. /\ TypeOK /\ tail \in Slot /\ head \in Slot
  BY DEF IInv, TypeOK
<1>2. \A p \in Slot : Nominal(blocks, p)' = Nominal(blocks, p)
  BY NominalOf DEF Nominal
<1>3. \A p \in Slot : /\ In(head, p)' <=> In(head, p)
                      /\ Queued(p)' <=> In(head, p)
                      /\ Queued(p) <=> In(head, p)
  BY DEF In, Queued, Offset
<1>4. Capping'
  <2>. SUFFICES ASSUME ~overridden PROVE Capping'
    BY DEF Capping
  <2>1. Capped(blocks, head) /\ (tail # head => previous_nominal = Nominal(blocks, Prev(head)))
    BY DEF FInv, Capping
  <2>2. Capped(blocks, head)'
    BY <2>1, <1>2, <1>3, SlotSteps DEF Capped
  <2>3. Nominal(blocks, Prev(head))' = Nominal(blocks, Prev(head))
    BY <1>1, <1>2, SlotSteps DEF Nominal
  <2>. QED
    BY <2>1, <2>2, <2>3 DEF Capping
<1>5. ASSUME NEW p \in Slot, In(head, p)
      PROVE  ExitIn(blocks, head, p)' = ExitIn(blocks, head, p)
  <2>1. Next_(p) \in Slot /\ Next_(p) # tail
    BY <1>1, <1>5, QueueNext
  <2>. QED
    BY <2>1 DEF ExitIn
<1>6. ASSUME NEW p \in Slot, In(head, p), p # tail
      PROVE  /\ ~overridden => Slows(blocks, head, loaded, p)'
             /\ ~overridden /\ ~hold => Speeds(blocks, head, loaded, p)'
  <2>1. EntryIn(blocks, loaded, p)' = EntryIn(blocks, loaded, p) /\ blocks'[p] = blocks[p]
    BY <1>6 DEF EntryIn
  <2>2. /\ ~overridden => Slows(blocks, head, loaded, p)
        /\ ~overridden /\ ~hold => Speeds(blocks, head, loaded, p)
    BY <1>3, <1>6 DEF FInv, Slowing, Speeding, Settled
  <2>. QED
    BY <2>1, <2>2, <1>5, <1>6 DEF Slows, Speeds
<1>7. Released'
  BY DEF Released
<1>. QED
  BY <1>3, <1>4, <1>5, <1>6, <1>7

\* Taking the tail block up: without an override its speed is the one planned.
LEMMA LoadFeasible ==
    ASSUME IInv, FInv, Load, TypeOK'
    PROVE  FInv'
<1>1. /\ TypeOK /\ tail \in Slot /\ head \in Slot /\ blocks \in [Slot -> Block]
      /\ carry \in Nat \cup {-1} /\ speed' \in Nat /\ blocks[tail] \in Block
  BY Fields DEF IInv, TypeOK
<1>2. /\ pc = "idle" /\ ~loaded /\ tail # head /\ loaded' /\ carry' = -1
      /\ speed' = IF carry >= 0 THEN carry ELSE blocks[tail].entry
      /\ blocks' = [blocks EXCEPT ![tail].entry = speed']
      /\ tail' = tail /\ head' = head /\ hold' = hold /\ pc' = pc
      /\ overridden' = overridden /\ feed' = feed /\ rapid' = rapid
      /\ previous_nominal' = previous_nominal
  BY DEF Load
<1>3. /\ \A p \in Slot : p # tail => blocks'[p] = blocks[p]
      /\ blocks'[tail] = [blocks[tail] EXCEPT !.entry = speed']
  BY <1>1, <1>2
<1>4. /\ blocks'[tail].rate = blocks[tail].rate /\ blocks'[tail].rapid = blocks[tail].rapid
      /\ blocks'[tail].dist = blocks[tail].dist /\ blocks[tail].dist \in Nat
      /\ blocks[tail].entry \in Nat
  BY <1>1, <1>3 DEF Block
<1>5. Stoppable'
  <2>1. speed' <= EntryIn(blocks, loaded, tail) - 0 \/ speed' <= carry - 0
    BY <1>1, <1>2, <1>4 DEF EntryIn
  <2>2. blocks'[tail].dist = blocks[tail].dist - 0
    BY <1>4
  <2>. QED
    BY <1>2, <1>3, <2>1, <2>2, TailReaches
<1>6. /\ Capping' /\ Released'
      /\ \A p \in Slot : Queued(p)' <=> In(head, p)
      /\ \A p \in Slot : In(head, p) => ExitIn(blocks, head, p)' = ExitIn(blocks, head, p)
      /\ \A p \in Slot : In(head, p) /\ p # tail =>
             /\ ~overridden => Slows(blocks, head, loaded, p)'
             /\ ~overridden /\ ~hold => Speeds(blocks, head, loaded, p)'
  BY <1>2, <1>3, <1>4, TailOthers
<1>7. In(head, tail) /\ Queued(tail)
  BY <1>1, <1>2, OffsetRange DEF In, Queued
<1>8. ASSUME ~overridden, ~hold
      PROVE  Slows(blocks, head, loaded, tail)' /\ Speeds(blocks, head, loaded, tail)'
  <2>1. speed' = blocks[tail].entry
    BY <1>1, <1>2, <1>8 DEF FInv, Carrying
  <2>2. EntryIn(blocks, loaded, tail)' = EntryIn(blocks, loaded, tail)
    BY <2>1, <1>2 DEF EntryIn
  <2>3. Slows(blocks, head, loaded, tail) /\ Speeds(blocks, head, loaded, tail)
    BY <1>1, <1>2, <1>7, <1>8 DEF FInv, Slowing, Speeding, Settled
  <2>4. /\ ExitIn(blocks, head, tail)' = ExitIn(blocks, head, tail)
        /\ blocks'[tail'].dist = blocks[tail].dist
    BY <1>1, <1>2, <1>4, <1>6, <1>7 DEF ExitIn
  <2>. QED
    BY <2>2, <2>3, <2>4 DEF Slows, Speeds
<1>9. Slowing' /\ Speeding'
  <2>2. ASSUME NEW p \in Slot, ~overridden, Queued(p)', p # tail \/ ~hold
        PROVE  /\ Slows(blocks, head, loaded, p)'
               /\ ~hold => Speeds(blocks, head, loaded, p)'
    <3>1. CASE p = tail
      BY <3>1, <2>2, <1>2, <1>8 DEF Slows, Speeds, EntryIn, ExitIn
    <3>2. CASE p # tail
      BY <3>2, <2>2, <1>6
    <3>. QED
      BY <3>1, <3>2
  <2>. QED
    BY <2>2, <1>2 DEF Slowing, Speeding
<1>10. Carrying'
  BY <1>2 DEF Carrying
<1>. QED
  BY <1>5, <1>6, <1>9, <1>10 DEF FInv

\* Executing part of the tail block: the profile of st_prep_buffer leaves a speed from
\* which the rest of the block still leads to its exit speed.
LEMMA ProgressFeasible ==
    ASSUME IInv, FInv, Progress, TypeOK'
    PROVE  FInv'
<1>0. PICK k \in 1 .. blocks[tail].dist - 1 :
             /\ blocks' = [blocks EXCEPT ![tail].dist = blocks[tail].dist - k]
             /\ speed' = Profile(k)
  BY DEF Progress
<1>. DEFINE n == NominalSpeed(blocks[tail], feed, rapid)
            x == ExitIn(blocks, head, tail)
            d == blocks[tail].dist
<1>1. /\ TypeOK /\ tail \in Slot /\ head \in Slot /\ blocks \in [Slot -> Block]
      /\ speed \in Nat /\ speed' \in Nat /\ blocks[tail] \in Block /\ d \in Nat /\ k \in Nat
      /\ d - k \in Nat
  BY Fields DEF IInv, TypeOK
<1>2. /\ pc = "idle" /\ loaded /\ ~hold /\ loaded' = loaded /\ carry' = carry
      /\ tail' = tail /\ head' = head /\ hold' = hold /\ pc' = pc
      /\ overridden' = overridden /\ feed' = feed /\ rapid' = rapid
      /\ previous_nominal' = previous_nominal
  BY DEF Progress
<1>3. tail # head /\ carry = -1
  BY <1>2 DEF IInv, ExecutingQueued, FInv, Carrying
<1>4. /\ \A p \in Slot : p # tail => blocks'[p] = blocks[p]
      /\ blocks'[tail] = [blocks[tail] EXCEPT !.dist = d - k]
  BY <1>0, <1>1
<1>5. /\ blocks'[tail].rate = blocks[tail].rate /\ blocks'[tail].rapid = blocks[tail].rapid
      /\ blocks'[tail].dist = d - k
  BY <1>1, <1>4 DEF Block
<1>6. In(head, tail) /\ Queued(tail)
  BY <1>1, <1>3, OffsetRange DEF In, Queued
<1>7. /\ Next_(tail) \in Slot /\ Next_(tail) # tail /\ Prev(Next_(tail)) = tail
      /\ Next_(tail) # head => In(head, Next_(tail))
  BY <1>1, <1>6, QueueNext, SlotSteps
<1>8. x \in Nat /\ x = ExitSpeed
  BY <1>1, <1>7, Fields DEF ExitIn, ExitSpeed
<1>9. n \in Nat /\ Square(n) \in Nat
  <2>1. n \in Nat
    BY <1>1, SpeedTypes DEF TypeOK
  <2>. QED
    BY <2>1, SquareMonotonic
<1>10. LET t == Min2(Min2(speed + k, Square(n)), x + d - k)
       IN  speed' = IF speed - k > t THEN speed - k ELSE t
  BY <1>0, <1>8 DEF Profile, Square
<1>. HIDE DEF n, x
<1>11. speed' <= speed - k \/ speed' <= x + (d - k)
  BY <1>1, <1>8, <1>9, <1>10 DEF Min2
<1>12. speed <= x + d => speed' <= x + (d - k)
  BY <1>1, <1>8, <1>9, <1>10 DEF Min2
<1>13. x <= speed + d /\ x <= Square(n) => x <= speed' + (d - k)
  BY <1>1, <1>8, <1>9, <1>10 DEF Min2
<1>14. Stoppable'
  <2>1. EntryIn(blocks, loaded, tail) = speed
    BY <1>2 DEF EntryIn
  <2>2. \/ speed' <= EntryIn(blocks, loaded, tail) - k
        \/ speed' <= ExitIn(blocks, head, tail) + blocks'[tail].dist
    BY <2>1, <1>5, <1>11 DEF x
  <2>. QED
    BY <1>1, <1>2, <1>3, <1>4, <1>5, <2>2, TailReaches
<1>15. /\ Capping' /\ Released'
       /\ \A p \in Slot : Queued(p)' <=> In(head, p)
       /\ \A p \in Slot : In(head, p) => ExitIn(blocks, head, p)' = ExitIn(blocks, head, p)
       /\ \A p \in Slot : In(head, p) /\ p # tail =>
              /\ ~overridden => Slows(blocks, head, loaded, p)'
              /\ ~overridden /\ ~hold => Speeds(blocks, head, loaded, p)'
  BY <1>2, <1>4, <1>5, TailOthers
<1>16. ASSUME ~overridden, NEW p \in Slot, p = tail
       PROVE  Slows(blocks, head, loaded, p)' /\ Speeds(blocks, head, loaded, p)'
  <2>1. Slows(blocks, head, loaded, tail) /\ Speeds(blocks, head, loaded, tail)
    BY <1>1, <1>2, <1>6, <1>16 DEF FInv, Slowing, Speeding, Settled
  <2>2. speed <= x + d /\ x <= speed + d
    BY <2>1, <1>2 DEF Slows, Speeds, EntryIn, x
  <2>3. x <= Square(n)
    <3>1. CASE Next_(tail) = head
      BY <3>1, <1>9 DEF x, ExitIn
    <3>2. CASE Next_(tail) # head
      <4>1. /\ blocks[Next_(tail)].entry <= blocks[Next_(tail)].max
            /\ blocks[Next_(tail)].max <= Square(n)
        BY <3>2, <1>7, <1>16 DEF FInv, Capping, Capped, Nominal, n
      <4>2. /\ blocks[Next_(tail)].entry \in Nat /\ blocks[Next_(tail)].max \in Nat
            /\ x = blocks[Next_(tail)].entry
        BY <3>2, <1>1, <1>7, Fields DEF x, ExitIn
      <4>. QED
        BY <4>1, <4>2, <1>9
    <3>. QED
      BY <3>1, <3>2
  <2>4. /\ EntryIn(blocks, loaded, p)' = speed' /\ ExitIn(blocks, head, p)' = x
        /\ blocks'[p].dist = d - k
    BY <1>2, <1>5, <1>6, <1>15, <1>16 DEF EntryIn, x
  <2>5. speed' <= x + (d - k) /\ x <= speed' + (d - k)
    BY <2>2, <2>3, <1>12, <1>13
  <2>. QED
    BY <2>4, <2>5 DEF Slows, Speeds
<1>17. Slowing' /\ Speeding'
  <2>1. ASSUME NEW p \in Slot, ~overridden, Queued(p)'
        PROVE  Slows(blocks, head, loaded, p)' /\ Speeds(blocks, head, loaded, p)'
    BY <2>1, <1>2, <1>15, <1>16
  <2>. QED
    BY <2>1, <1>2 DEF Slowing, Speeding
<1>18. Carrying'
  BY <1>2, <1>3 DEF Carrying
<1>. QED
  BY <1>14, <1>15, <1>17, <1>18 DEF FInv

\* Discarding the tail block: the speed carried over is at most what was left of it.
LEMMA DiscardFeasible ==
    ASSUME IInv, FInv, TypeOK', Discard, pc = "idle", loaded, head' = head, pc' = pc,
           loaded' = FALSE, hold' = hold, overridden' = overridden, feed' = feed, rapid' = rapid,
           previous_nominal' = previous_nominal,
           carry' = -1 \/ carry' = speed - blocks[tail].dist,
           ~hold => carry' # 0,
           ~overridden /\ ~hold /\ carry' # -1 =>
               Next_(tail) # head /\ carry' = blocks[Next_(tail)].entry
    PROVE  FInv'
<1>1. /\ TypeOK /\ tail \in Slot /\ head \in Slot /\ tail # head /\ Next_(tail) \in Slot
      /\ tail' = Next_(tail) /\ blocks \in [Slot -> Block] /\ speed \in Nat
      /\ Next_(tail) # tail /\ carry' \in Nat \cup {-1}
      /\ \A p \in Slot : p # tail => blocks'[p] = blocks[p]
  <2>1. /\ TypeOK /\ tail \in Slot /\ head \in Slot /\ tail # head /\ tail' = Next_(tail)
        /\ blocks \in [Slot -> Block] /\ speed \in Nat /\ carry' \in Nat \cup {-1}
        /\ \A p \in Slot : p # tail => blocks'[p] = blocks[p]
    BY DEF IInv, TypeOK, ExecutingQueued, Discard
  <2>2. Next_(tail) \in Slot /\ Next_(tail) # tail
    BY <2>1, SizeAssumption DEF Slot, Next_
  <2>. QED
    BY <2>1, <2>2
<1>2. \A p \in Slot : Offset(p) \in 0 .. Size /\ (Offset(p) = 0 <=> p = tail)
  BY <1>1, OffsetRange
<1>3. \A p \in Slot : p # tail => Offset(p)' = Offset(p) - 1
  BY <1>1, OffsetDiscard
<1>4. Offset(head)' = Offset(head) - 1
  BY <1>1, <1>3 DEF Offset
<1>5. Offset(tail) = 0 /\ In(head, tail)
  BY <1>1, <1>2 DEF In
<1>6. ASSUME NEW p \in Slot, In(head, p)' PROVE p # tail /\ In(head, p)
  <2>1. p # tail
    <3>1. ASSUME p = tail PROVE FALSE
      <4>1. (IF p >= tail' THEN p - tail' ELSE p - tail' + Size + 1) = Size
        BY <1>1, <3>1, SizeAssumption DEF Next_, Slot
      <4>2. Offset(p)' = Size
        BY <4>1 DEF Offset
      <4>. QED
        BY <4>2, <1>1, <1>2, <1>4, <1>6, SizeAssumption DEF In
    <3>. QED
      BY <3>1
  <2>. QED
    BY <2>1, <1>1, <1>2, <1>3, <1>4, <1>6 DEF In
<1>7. ASSUME NEW p \in Slot, In(head, p)'
      PROVE  /\ EntryIn(blocks, loaded, p)' = EntryIn(blocks, loaded, p)
             /\ ExitIn(blocks, head, p)' = ExitIn(blocks, head, p)
             /\ blocks'[p] = blocks[p]
  <2>1. Next_(p) \in Slot /\ Next_(p) # tail
    BY <1>1, <1>6, <1>7, QueueNext
  <2>. QED
    BY <2>1, <1>1, <1>6, <1>7 DEF EntryIn, ExitIn
<1>8. Stoppable'
  <2>1. PICK R \in [Slot -> Nat] :
          /\ R[head] = 0 /\ carry <= R[tail]
          /\ \A p \in Slot : In(head, p) => /\ R[p] = blocks[p].dist + R[Next_(p)]
                                            /\ EntryIn(blocks, loaded, p) <= R[p]
    BY DEF FInv, Stoppable, Reaches
  <2>2. speed <= blocks[tail].dist + R[Next_(tail)] /\ R[Next_(tail)] \in Nat
        /\ blocks[tail].dist \in Nat
    BY <2>1, <1>1, <1>5, Fields DEF EntryIn
  <2>3. carry' <= R[tail']
    BY <2>2, <1>1
  <2>4. \A p \in Slot : In(head, p)' => /\ R[p] = blocks'[p].dist + R[Next_(p)]
                                        /\ EntryIn(blocks, loaded, p)' <= R[p]
    BY <2>1, <1>6, <1>7
  <2>. QED
    BY <2>1, <2>3, <2>4 DEF Stoppable, Reaches
<1>9. Slowing' /\ Speeding'
  <2>1. \A p \in Slot : /\ In(head, p) <=> Queued(p)
                        /\ In(head, p)' <=> Queued(p)'
    BY DEF In, Queued
  <2>2. ASSUME NEW p \in Slot, In(head, p)'
        PROVE  /\ ~overridden => Slows(blocks, head, loaded, p)'
               /\ ~overridden /\ ~hold => Speeds(blocks, head, loaded, p)'
    <3>1. /\ ~overridden => Slows(blocks, head, loaded, p)
          /\ ~overridden /\ ~hold => Speeds(blocks, head, loaded, p)
      BY <2>1, <2>2, <1>6 DEF FInv, Slowing, Speeding, Settled
    <3>. QED
      BY <3>1, <2>2, <1>7 DEF Slows, Speeds
  <2>. QED
    BY <2>1, <2>2 DEF Slowing, Speeding
<1>10. Capping'
  <2>. SUFFICES ASSUME ~overridden PROVE Capping'
    BY DEF Capping
  <2>1. Capped(blocks, head) /\ previous_nominal = Nominal(blocks, Prev(head))
    BY <1>1 DEF FInv, Capping
  <2>2. ASSUME NEW p \in Slot, In(head, p)', p # tail'
        PROVE  Prev(p) \in Slot /\ Prev(p) # tail
    BY <1>1, <2>2, SlotSteps
  <2>3. Capped(blocks, head)'
    <3>. SUFFICES ASSUME NEW p \in Slot, In(head, p)', p # tail'
                  PROVE  /\ blocks'[p].entry <= blocks'[p].max
                         /\ blocks'[p].max <= Square(Nominal(blocks, Prev(p))')
      BY DEF Capped
    <3>1. Nominal(blocks, Prev(p))' = Nominal(blocks, Prev(p))
      BY <1>1, <2>2 DEF Nominal
    <3>. QED
      BY <3>1, <2>1, <1>6, <1>7 DEF Capped
  <2>4. tail' # head' => Nominal(blocks, Prev(head))' = Nominal(blocks, Prev(head))
    <3>. SUFFICES ASSUME tail' # head' PROVE Nominal(blocks, Prev(head))' = Nominal(blocks, Prev(head))
      OBVIOUS
    <3>1. Prev(head) \in Slot /\ Prev(head) # tail
      BY <1>1, SlotSteps
    <3>. QED
      BY <3>1, <1>1 DEF Nominal
  <2>. QED
    BY <2>1, <2>3, <2>4 DEF Capping
<1>11. Carrying' /\ Released'
  BY <1>1 DEF Carrying, Released
<1>. QED
  BY <1>8, <1>9, <1>10, <1>11 DEF FInv

\* A block too short for its speed hands on exactly the entry speed of the next.
LEMMA CompleteFeasible ==
    ASSUME IInv, FInv, Complete, TypeOK'
    PROVE  FInv'
<1>. DEFINE n == NominalSpeed(blocks[tail], feed, rapid)
            d == blocks[tail].dist
<1>1. /\ TypeOK /\ tail \in Slot /\ head \in Slot /\ blocks \in [Slot -> Block] /\ speed \in Nat
      /\ d \in Nat /\ blocks[tail] \in Block
  BY Fields DEF IInv, TypeOK
<1>2. /\ pc = "idle" /\ loaded /\ ~hold /\ Discard /\ loaded' = FALSE /\ hold' = hold
      /\ head' = head /\ pc' = pc /\ overridden' = overridden /\ feed' = feed /\ rapid' = rapid
      /\ previous_nominal' = previous_nominal
      /\ carry' = IF speed - d >= Square(n) THEN speed - d ELSE -1
  BY DEF Complete, Square
<1>3. Square(n) \in Nat /\ Square(n) >= 1
  <2>1. n \in Nat /\ n >= 1
    BY <1>1, NominalPositive DEF TypeOK
  <2>2. Square(1) <= Square(n) /\ Square(n) \in Nat
    BY <2>1, SquareMonotonic
  <2>. QED
    BY <2>2 DEF Square
<1>. HIDE DEF n
<1>4. /\ carry' = -1 \/ carry' = speed - blocks[tail].dist
      /\ carry' # 0
      /\ carry' # -1 => speed - d >= Square(n) /\ carry' = speed - d
  BY <1>1, <1>2, <1>3
<1>5. ASSUME ~overridden, carry' # -1
      PROVE  Next_(tail) # head /\ carry' = blocks[Next_(tail)].entry
  <2>1. tail # head
    BY <1>2 DEF IInv, ExecutingQueued
  <2>2. In(head, tail) /\ Queued(tail)
    BY <1>1, <2>1, OffsetRange DEF In, Queued
  <2>3. speed <= ExitIn(blocks, head, tail) + d
    BY <1>1, <1>2, <1>5, <2>2 DEF FInv, Slowing, Slows, EntryIn
  <2>4. Next_(tail) # head
    BY <2>3, <1>1, <1>3, <1>4, <1>5 DEF ExitIn
  <2>5. /\ Next_(tail) \in Slot /\ Next_(tail) # tail /\ Prev(Next_(tail)) = tail
        /\ In(head, Next_(tail))
    BY <1>1, <2>2, <2>4, QueueNext, SlotSteps
  <2>6. /\ blocks[Next_(tail)].entry <= blocks[Next_(tail)].max
        /\ blocks[Next_(tail)].max <= Square(n)
    BY <1>5, <2>5 DEF FInv, Capping, Capped, Nominal, n
  <2>7. /\ blocks[Next_(tail)].entry \in Nat /\ blocks[Next_(tail)].max \in Nat
        /\ ExitIn(blocks, head, tail) = blocks[Next_(tail)].entry
    BY <1>1, <2>4, <2>5, Fields DEF ExitIn
  <2>8. carry' = blocks[Next_(tail)].entry
    BY <2>3, <2>6, <2>7, <1>1, <1>3, <1>4, <1>5
  <2>. QED
    BY <2>4, <2>8
<1>. QED
  BY <1>2, <1>4, <1>5, DiscardFeasible

\* Every action keeps the plan feasible.
LEMMA FeasibleStep == IInv /\ FInv /\ [Next]_vars => FInv'
<1>. SUFFICES ASSUME IInv, FInv, [Next]_vars
              PROVE  FInv'
  OBVIOUS
<1>1. TypeOK /\ TypeOK'
  BY TypeStep DEF IInv
<1>2. CASE ReverseStep
  BY <1>1, <1>2, ReverseFeasible
<1>3. CASE ForwardStep
  BY <1>1, <1>3, ForwardFeasible
<1>4. CASE \E m \in Moves : plan_buffer_line(m)
  BY <1>1, <1>4, BufferLineFeasible
<1>5. CASE \E f, r \in Overrides : plan_feed_override(f, r)
  BY <1>1, <1>5, OverrideFeasible
<1>6. CASE plan_reset
  <2>1. /\ tail' = head' /\ pc' = "idle" /\ loaded' = FALSE /\ carry' <= 0 /\ carry' # 0
    BY <1>6 DEF plan_reset
  <2>. QED
    BY <1>1, <2>1, EmptyFeasible
<1>7. CASE Load
  BY <1>1, <1>7, LoadFeasible
<1>8. CASE Progress
  BY <1>1, <1>8, ProgressFeasible
<1>9. CASE Complete
  BY <1>1, <1>9, CompleteFeasible
<1>10. CASE HoldBegin
  <2>1. Stoppable' <=> Stoppable
    BY <1>10 DEF HoldBegin, ring, Stoppable, Reaches, In, Offset, EntryIn
  <2>2. \A p \in Slot : /\ Slows(blocks, head, loaded, p)' = Slows(blocks, head, loaded, p)
                        /\ Queued(p)' = Queued(p)
    BY <1>10 DEF HoldBegin, ring, Slows, EntryIn, ExitIn, Queued, Offset
  <2>3. Capping' <=> Capping
    BY <1>10 DEF HoldBegin, ring, Capping, Capped, Nominal, In, Offset
  <2>. QED
    BY <1>10, <2>1, <2>2, <2>3 DEF HoldBegin, ring, FInv, Slowing, Speeding, Carrying, Released
<1>11. CASE HoldThroughBlock
  BY <1>1, <1>11, DiscardFeasible DEF HoldThroughBlock
<1>12. CASE HoldEnd
  BY <1>1, <1>12, HoldEndFeasible
<1>13. CASE UNCHANGED vars
  BY <1>13 DEF vars, ring, stepper, FInv, Stoppable, Capping, Slowing, Speeding, Carrying,
               Released, Reaches, Capped, Slows, Speeds, EntryIn, ExitIn, Nominal, In, Queued,
               Offset, Settled
<1>. QED
  BY <1>2, <1>3, <1>4, <1>5, <1>6, <1>7, <1>8, <1>9, <1>10, <1>11, <1>12, <1>13 DEF Next

\* The empty ring is feasible.
LEMMA InitFeasible == Init => FInv
<1>. SUFFICES ASSUME Init PROVE FInv
  OBVIOUS
<1>1. TypeOK /\ 0 \in Slot
  BY InitInductive, SizeAssumption DEF IInv, Slot
<1>2. tail = 0 /\ head = 0 /\ carry = -1 /\ loaded = FALSE /\ pc = "idle"
  BY DEF Init
<1>3. \A p \in Slot : ~In(head, p) /\ ~Queued(p)
  BY <1>1, <1>2, OffsetRange DEF In, Queued
<1>4. Stoppable
  <2>. DEFINE R == [p \in Slot |-> 0]
  <2>1. R \in [Slot -> Nat] /\ R[head] = 0 /\ carry <= R[tail]
    BY <1>1, <1>2
  <2>. HIDE DEF R
  <2>. QED
    BY <2>1, <1>3 DEF Stoppable, Reaches
<1>5. Capped(blocks, head)
  BY <1>3 DEF Capped
<1>. QED
  BY <1>2, <1>3, <1>4, <1>5 DEF FInv, Capping, Slowing, Speeding, Carrying, Released

\* Every queued block can get from its entry to its exit speed within its length, at
\* any moment of its execution, for every ring size and every stream of motions, holds
\* included, as long as no override has hit the plan: the incremental re-planning from
\* the planned pointer never leaves a junction that cannot be met.
THEOREM PlanIsFeasible == Spec => []PlanFeasible
<1>1. IInv /\ FInv => PlanFeasible
  <2>. SUFFICES ASSUME IInv, FInv, pc = "idle", ~hold, ~overridden, NEW p \in Slot, Queued(p)
                PROVE  BlockFeasible(p)
    BY DEF PlanFeasible
  <2>1. Slows(blocks, head, loaded, p) /\ Speeds(blocks, head, loaded, p)
    BY DEF FInv, Slowing, Speeding, Settled
  <2>. QED
    BY <2>1 DEF BlockFeasible, Slows, Speeds, EntryIn, ExitIn, EntryOf, ExitOf
<1>. QED
  BY <1>1, Invariance, InitFeasible, FeasibleStep, PTL DEF Spec

=============================================================================
