-------------------------- MODULE BresenhamProofs --------------------------
(***************************************************************************)
(* For every set of axes, every motion and every way of cutting it into    *)
(* segments with any smoothing levels, the tracer lands exactly on the     *)
(* planner's position and is never more than half a step off the line, as  *)
(* long as no motion stops on the way; every stop within a motion adds at  *)
(* most another half step.                                                 *)
(***************************************************************************)
EXTENDS Bresenham, TLAPS

\* What a tick is worth on the scale of the highest level.
Unit == Scale \div Shl(level)

\* The ticks done, the ticks left in the segment and the steps not yet in a segment
\* make up the block.
Budget == done + step_count * Unit + Scale * remaining = event_count

\* What the counters of axis a and the line disagree by.
Off(a) == 2 * (Taken(a) * event_count + counter[a]) - event_count - 2 * (steps[a] * done)

\* A counter holds the distance of its axis to the line, but for what the stops have
\* forgotten, and never more than one step's worth; the dominant axis bounds the
\* steps of all.
Tracing ==
    \A a \in Axes : /\ Off(a) <= stops * event_count /\ -(stops * event_count) <= Off(a)
                    /\ counter[a] <= event_count
                    /\ Scale * steps[a] <= event_count

\* Half of the events is a whole number: the highest level leaves room for it.
Halves == 2 * (event_count \div 2) = event_count

\* Ticks add what the level says.
Increments == step_count > 0 => \A a \in Axes : increment[a] = steps[a] * Unit

\* The block leads from where it began to the planner's position, unless an earlier
\* stop has moved its beginning; without a block the machine is where it began.
Heading ==
    \A a \in Axes : /\ stops = 0 =>
                          pl_position[a] = start[a] + (IF dir[a] = -1 THEN -steps[a] ELSE steps[a])
                    /\ event_count = 0 => position[a] = start[a]

\* The inductive invariant.
IInv == TraceTypeOK /\ Budget /\ Tracing /\ Halves /\ Increments /\ Heading

-----------------------------------------------------------------------------

\* The levels and what they scale by.
LEMMA Levels8 ==
    /\ Scale = 8
    /\ \A l \in Levels : /\ Shl(l) \in {1, 2, 4, 8} /\ Scale \div Shl(l) \in {1, 2, 4, 8}
                         /\ Shl(l) * (Scale \div Shl(l)) = 8
                         /\ \A n \in Nat : (n * Scale) \div Shl(l) = n * (Scale \div Shl(l))
<1>1. Scale = 8
  BY DEF Scale, Shl, MAX_AMASS_LEVEL
<1>2. ASSUME NEW l \in Levels
      PROVE  /\ Shl(l) \in {1, 2, 4, 8} /\ Scale \div Shl(l) \in {1, 2, 4, 8}
             /\ Shl(l) * (Scale \div Shl(l)) = 8
             /\ \A n \in Nat : (n * Scale) \div Shl(l) = n * (Scale \div Shl(l))
  <2>1. l \in {0, 1, 2, 3}
    BY DEF Levels, MAX_AMASS_LEVEL
  <2>2. CASE l = 0
    BY <1>1, <2>2 DEF Shl
  <2>3. CASE l = 1
    BY <1>1, <2>3 DEF Shl
  <2>4. CASE l = 2
    BY <1>1, <2>4 DEF Shl
  <2>5. CASE l = 3
    BY <1>1, <2>5 DEF Shl
  <2>. QED
    BY <2>1, <2>2, <2>3, <2>4, <2>5
<1>. QED
  BY <1>1, <1>2

\* Arithmetic on products.
LEMMA Products ==
    /\ \A x \in Int, y \in Int : x * y \in Int /\ (x + 1) * y = x * y + y
                                 /\ (x - 1) * y = x * y - y
    /\ \A x \in Nat, y \in Nat : x * y \in Nat
    /\ \A x \in Int, y \in Int, z \in Int : x * (y + z) = x * y + x * z
                                            /\ (x - y) * z = x * z - y * z
                                            /\ (x * y) * z = x * (y * z)
OBVIOUS

\* A multiple of e that is at most half of e is zero.
LEMMA SmallMultiple ==
    ASSUME NEW x \in Int, NEW e \in Nat, e > 0, 2 * (x * e) <= e, 2 * (x * e) >= -e
    PROVE  x = 0
<1>1. CASE x >= 1
  <2>1. x * e >= e
    BY <1>1
  <2>. QED
    BY <2>1
<1>2. CASE x <= -1
  <2>1. x * e <= -e
    BY <1>2
  <2>. QED
    BY <2>1
<1>. QED
  BY <1>1, <1>2

\* A finished block has landed, and every tick is near the line.
LEMMA InvariantConsequences == IInv => LandsOnTarget /\ NearLine
<1>. SUFFICES ASSUME IInv PROVE LandsOnTarget /\ NearLine
  OBVIOUS
<1>1. /\ event_count \in Nat /\ done \in Nat /\ Scale = 8 /\ TraceTypeOK /\ stops \in Nat
      /\ \A a \in Axes : /\ Taken(a) \in Int /\ steps[a] \in Nat /\ counter[a] \in Nat
                         /\ position[a] \in Int /\ start[a] \in Int /\ pl_position[a] \in Int
  BY Levels8, MaxStopsAssumption DEF IInv, TraceTypeOK, Taken
<1>2. NearLine
  <2>1. ASSUME NEW a \in Axes
        PROVE  2 * Abs(Taken(a) * event_count - steps[a] * done) <= (stops + 1) * event_count
    <3>. DEFINE t == Taken(a) * event_count
                s == steps[a] * done
                e == stops * event_count
    <3>1. t \in Int /\ s \in Int /\ e \in Nat /\ (stops + 1) * event_count = e + event_count
      BY <1>1, Products
    <3>2. /\ 2 * (t + counter[a]) - event_count - 2 * s <= e
          /\ -e <= 2 * (t + counter[a]) - event_count - 2 * s
          /\ counter[a] <= event_count
      BY DEF IInv, Tracing, Off
    <3>3. counter[a] \in Nat
      BY <1>1
    <3>. HIDE DEF t, s, e
    <3>4. 2 * Abs(t - s) <= e + event_count
      BY <3>1, <3>2, <3>3, <1>1 DEF Abs
    <3>. QED
      BY <3>1, <3>4 DEF t, s
  <2>. QED
    BY <2>1 DEF NearLine
<1>3. ASSUME remaining = 0, step_count = 0, stops = 0, NEW a \in Axes
      PROVE  position[a] = pl_position[a]
  <2>1. Unit \in Nat
    BY Levels8, <1>1 DEF Unit, TraceTypeOK
  <2>2. done = event_count
    BY <1>3, <2>1, <1>1 DEF IInv, Budget
  <2>3. CASE event_count = 0
    <3>1. steps[a] = 0
      BY <1>1, <2>3 DEF IInv, Tracing
    <3>. QED
      BY <3>1, <2>3, <1>1, <1>3 DEF IInv, Heading
  <2>4. CASE event_count > 0
    <3>. DEFINE x == Taken(a) - steps[a]
                xe == x * event_count
                t == Taken(a) * event_count
                s == steps[a] * event_count
    <3>1. x \in Int /\ xe \in Int /\ t \in Int /\ s \in Int /\ xe = t - s
      BY <1>1, Products
    <3>2. 2 * (t + counter[a]) = event_count + 2 * s /\ counter[a] <= event_count
      <4>1. stops * event_count = 0
        BY <1>1, <1>3
      <4>. DEFINE off == 2 * (t + counter[a]) - event_count - 2 * s
      <4>2. off <= 0 /\ 0 <= off /\ counter[a] <= event_count
        BY <2>2, <4>1 DEF IInv, Tracing, Off
      <4>3. counter[a] \in Nat /\ event_count \in Nat
        BY <1>1
      <4>. HIDE DEF t, s, x, xe
      <4>. QED
        BY <3>1, <4>2, <4>3
    <3>. HIDE DEF t, s, xe
    <3>3. 2 * xe <= event_count /\ 2 * xe >= -event_count
      BY <3>1, <3>2, <1>1
    <3>4. x = 0
      <4>. HIDE DEF x
      <4>. QED
        BY <3>1, <3>3, <2>4, <1>1, SmallMultiple DEF xe
    <3>5. Taken(a) = steps[a]
      BY <3>4, <1>1
    <3>6. pl_position[a] = start[a] + (IF dir[a] = -1 THEN -steps[a] ELSE steps[a])
      BY <1>3 DEF IInv, Heading
    <3>. QED
      BY <3>5, <3>6, <1>1 DEF Taken
  <2>. QED
    BY <2>3, <2>4, <1>1
<1>4. LandsOnTarget
  <2>1. position \in [Axes -> Int] /\ pl_position \in [Axes -> Int]
    BY <1>1 DEF TraceTypeOK
  <2>. QED
    BY <1>3, <2>1 DEF LandsOnTarget, Finished
<1>. QED
  BY <1>2, <1>4

\* A new block starts from the planner's position, which is the machine's.
LEMMA NewBlockStep ==
    ASSUME IInv, NEW t \in Targets, NewBlock(t)
    PROVE  IInv'
<1>. DEFINE n == [a \in Axes |-> Abs(t[a] - pl_position[a])]
<1>1. /\ TraceTypeOK /\ Scale = 8 /\ Unit \in Nat /\ t \in [Axes -> Int]
      /\ \A a \in Axes : t[a] \in Int /\ pl_position[a] \in Int /\ position[a] \in Int
  BY Levels8, TargetsAssumption DEF IInv, TraceTypeOK, Unit
<1>2. /\ stops = 0 => position = pl_position
      /\ remaining = 0 /\ step_count = 0
  BY InvariantConsequences DEF NewBlock, LandsOnTarget, Finished
<1>3. n \in [Axes -> Nat]
  BY <1>1 DEF Abs
<1>4. PICK d \in Axes : /\ \A a \in Axes : n[a] <= n[d]
                        /\ steps' = n
                        /\ event_count' = n[d] * Scale
                        /\ counter' = Counters(n[d] * Scale)
                        /\ remaining' = n[d]
  BY DEF NewBlock
<1>5. /\ pl_position' = t /\ start' = position /\ done' = 0 /\ position' = position
      /\ increment' = increment /\ level' = level /\ step_count' = step_count
      /\ stops' = stops
      /\ dir' = [a \in Axes |-> CASE t[a] = pl_position[a] -> dir[a]
                                [] t[a] < pl_position[a] -> -1
                                [] t[a] > pl_position[a] -> 1]
  BY DEF NewBlock
<1>. HIDE DEF n
<1>6. n[d] \in Nat
  BY <1>3
<1>7. event_count' = 8 * n[d] /\ event_count' \in Nat
  BY <1>1, <1>4, <1>6
<1>8. \A a \in Axes : counter'[a] = 4 * n[d]
  BY <1>1, <1>4, <1>6 DEF Counters
<1>9. counter' \in [Axes -> Nat]
  <2>1. (n[d] * Scale) \div 2 \in Nat
    BY <1>1, <1>6
  <2>. QED
    BY <1>4, <2>1 DEF Counters
<1>10. dir' \in [Axes -> {-1, 1}]
  BY <1>5, <1>1 DEF TraceTypeOK
<1>11. TraceTypeOK'
  BY <1>1, <1>3, <1>4, <1>5, <1>6, <1>7, <1>9, <1>10 DEF TraceTypeOK
<1>12. Budget'
  <2>1. Unit' = Unit
    BY <1>5 DEF Unit
  <2>. QED
    BY <1>1, <1>2, <1>4, <1>5, <1>6, <1>7, <2>1 DEF Budget
<1>13. Tracing'
  <2>1. ASSUME NEW a \in Axes
        PROVE  /\ Taken(a)' = 0 /\ steps'[a] \in Nat /\ steps'[a] <= n[d]
               /\ counter'[a] = 4 * n[d] /\ n[d] \in Nat
    <3>1. Taken(a)' = 0
      BY <1>1, <1>5 DEF Taken
    <3>. QED
      BY <3>1, <1>3, <1>4, <1>6, <1>8
  <2>3. stops' * event_count' \in Nat
    <3>1. stops' \in Nat
      BY <1>11, MaxStopsAssumption DEF TraceTypeOK
    <3>. QED
      BY <3>1, <1>7, Products
  <2>2. ASSUME NEW a \in Axes
        PROVE  /\ Off(a)' = 0
               /\ counter'[a] <= event_count' /\ Scale * steps'[a] <= event_count'
    <3>1. done' = 0 /\ event_count' = 8 * n[d] /\ Scale = 8
      BY <1>1, <1>5, <1>7
    <3>2. Taken(a)' * event_count' = 0 /\ steps'[a] * done' = 0
      BY <2>1, <3>1
    <3>3. Off(a)' = 2 * (Taken(a)' * event_count' + counter'[a]) - event_count'
                      - 2 * (steps'[a] * done')
      BY DEF Off
    <3>4. /\ n[d] \in Nat /\ counter'[a] = 4 * n[d]
          /\ steps'[a] \in Nat /\ steps'[a] <= n[d]
      BY <2>1
    <3>5. Off(a)' = 2 * (0 + 4 * n[d]) - 8 * n[d] - 2 * 0
      BY <3>1, <3>2, <3>3, <3>4
    <3>6. Off(a)' = 0
      BY <3>4, <3>5
    <3>7. counter'[a] <= event_count'
      BY <3>1, <3>4
    <3>8. 8 * steps'[a] <= event_count'
      BY <3>1, <3>4
    <3>. QED
      BY <3>1, <3>6, <3>7, <3>8
  <2>. QED
    BY <2>2, <2>3 DEF Tracing, Scale, Shl, MAX_AMASS_LEVEL
<1>14. Increments'
  BY <1>2, <1>5 DEF Increments
<1>15. Heading'
  <2>1. ASSUME stops = 0, NEW a \in Axes
        PROVE  t[a] = position[a] + (IF dir'[a] = -1 THEN -n[a] ELSE n[a])
    <3>1. n[a] = Abs(t[a] - pl_position[a])
      BY DEF n
    <3>3. CASE t[a] = pl_position[a]
      BY <3>1, <3>3, <1>1, <1>2, <2>1 DEF Abs
    <3>4. CASE t[a] < pl_position[a]
      <4>1. dir'[a] = -1
        BY <3>4, <1>1, <1>5
      <4>2. n[a] = pl_position[a] - t[a]
        BY <3>1, <3>4, <1>1 DEF Abs
      <4>. QED
        BY <4>1, <4>2, <1>1, <1>2, <2>1
    <3>5. CASE t[a] > pl_position[a]
      <4>1. dir'[a] = 1
        BY <3>5, <1>1, <1>5
      <4>2. n[a] = t[a] - pl_position[a]
        BY <3>1, <3>5, <1>1 DEF Abs
      <4>. QED
        BY <4>1, <4>2, <1>1, <1>2, <2>1
    <3>. QED
      BY <3>3, <3>4, <3>5, <1>1
  <2>. QED
    BY <2>1, <1>1, <1>4, <1>5 DEF Heading
<1>16. Halves'
  BY <1>6, <1>7 DEF Halves
<1>. QED
  BY <1>11, <1>12, <1>13, <1>14, <1>15, <1>16 DEF IInv

\* A segment takes its steps out of the remaining ones.
LEMMA NewSegmentStep ==
    ASSUME IInv, NEW n \in 1 .. remaining, NEW l \in Levels, NewSegment(n, l)
    PROVE  IInv'
<1>. USE DEF block
<1>. DEFINE u == Scale \div Shl(l)
<1>1. /\ TraceTypeOK /\ Scale = 8 /\ Shl(l) \in Nat /\ u \in Nat /\ Shl(l) * u = 8
      /\ remaining \in Nat /\ n \in Nat /\ step_count = 0 /\ Unit \in Nat
  <2>1. TraceTypeOK /\ remaining \in Nat /\ level \in Levels
    BY DEF IInv, TraceTypeOK
  <2>2. n \in Nat /\ step_count = 0
    BY <2>1 DEF NewSegment
  <2>3. /\ Scale = 8 /\ Shl(l) \in {1, 2, 4, 8} /\ Scale \div Shl(l) \in {1, 2, 4, 8}
        /\ Shl(l) * (Scale \div Shl(l)) = 8 /\ Scale \div Shl(level) \in {1, 2, 4, 8}
    BY <2>1, Levels8
  <2>4. Unit \in {1, 2, 4, 8}
    BY <2>3 DEF Unit
  <2>. HIDE DEF u
  <2>5. u \in {1, 2, 4, 8} /\ Shl(l) * u = 8
    BY <2>3 DEF u
  <2>6. Shl(l) \in Nat /\ u \in Nat /\ Unit \in Nat
    <3>1. \A x \in {1, 2, 4, 8} : x \in Nat
      OBVIOUS
    <3>. QED
      BY <3>1, <2>3, <2>4, <2>5
  <2>. QED
    BY <2>1, <2>2, <2>3, <2>5, <2>6
<1>2. /\ level' = l /\ step_count' = n * Shl(l) /\ remaining' = remaining - n
      /\ increment' = [a \in Axes |-> (steps[a] * Scale) \div Shl(l)]
      /\ UNCHANGED << pl_position, steps, dir, event_count, start, position, counter, done,
                      stops >>
  BY DEF NewSegment
<1>3. Unit' = u
  BY <1>2 DEF Unit
<1>4. \A a \in Axes : increment'[a] = steps[a] * u /\ steps[a] * u \in Nat
  <2>1. \A a \in Axes : steps[a] \in Nat
    BY <1>1 DEF TraceTypeOK
  <2>. QED
    BY <1>1, <1>2, <2>1, Levels8, Products
<1>5. TraceTypeOK'
  <2>1. increment' \in [Axes -> Nat]
    BY <1>2, <1>4
  <2>2. step_count' \in Nat /\ remaining' \in Nat
    BY <1>1, <1>2, Products
  <2>. QED
    BY <1>1, <1>2, <2>1, <2>2 DEF TraceTypeOK
<1>6. Budget'
  <2>1. (n * Shl(l)) * u = 8 * n
    BY <1>1, Products
  <2>3. done \in Nat /\ event_count \in Nat
    BY <1>1 DEF TraceTypeOK
  <2>2. done + 8 * remaining = event_count
    <3>1. done + step_count * Unit + Scale * remaining = event_count
      BY DEF IInv, Budget
    <3>2. step_count * Unit = 0
      BY <1>1
    <3>. QED
      BY <1>1, <2>3, <3>1, <3>2
  <2>4. step_count' * Unit' = 8 * n
    BY <1>2, <1>3, <2>1
  <2>. HIDE DEF u
  <2>. QED
    BY <1>1, <1>2, <2>2, <2>3, <2>4 DEF Budget
<1>7. Tracing' /\ Heading' /\ Halves'
  BY <1>2 DEF IInv, Tracing, Off, Heading, Halves, Taken
<1>8. Increments'
  BY <1>2, <1>3, <1>4 DEF Increments
<1>. QED
  BY <1>5, <1>6, <1>7, <1>8 DEF IInv

\* A tick moves every axis along the line.
LEMMA TickStep ==
    ASSUME IInv, Tick
    PROVE  IInv'
<1>. USE DEF block
<1>1. /\ TraceTypeOK /\ Scale = 8 /\ Unit \in {1, 2, 4, 8} /\ event_count \in Nat /\ done \in Nat
      /\ step_count \in Nat /\ remaining \in Nat /\ step_count > 0
  BY Levels8 DEF IInv, TraceTypeOK, Unit, Tick
<1>2. \A a \in Axes : /\ steps[a] \in Nat /\ counter[a] \in Nat /\ position[a] \in Int
                       /\ start[a] \in Int /\ dir[a] \in {-1, 1} /\ increment[a] \in Nat
  BY <1>1 DEF TraceTypeOK
<1>3. /\ step_count' = step_count - 1 /\ done' = done + Unit
      /\ UNCHANGED << pl_position, steps, dir, event_count, start, increment, level, remaining,
                      stops >>
  BY DEF Tick, Unit
<1>4. /\ counter' = [a \in Axes |-> IF Steps(a) THEN counter[a] + increment[a] - event_count
                                                 ELSE counter[a] + increment[a]]
      /\ position' = [a \in Axes |-> IF Steps(a) THEN position[a] + dir[a] ELSE position[a]]
  BY DEF Tick
<1>5. Unit' = Unit
  BY <1>3 DEF Unit
<1>6. ASSUME NEW a \in Axes
      PROVE  /\ Steps(a) => counter'[a] = counter[a] + increment[a] - event_count
                            /\ Taken(a)' = Taken(a) + 1
             /\ ~Steps(a) => counter'[a] = counter[a] + increment[a] /\ Taken(a)' = Taken(a)
             /\ Taken(a) \in Int
  BY <1>2, <1>3, <1>4 DEF Taken
<1>7. TraceTypeOK'
  <2>1. counter' \in [Axes -> Nat]
    BY <1>1, <1>2, <1>4 DEF Steps
  <2>2. position' \in [Axes -> Int]
    BY <1>1, <1>2, <1>4
  <2>3. step_count' \in Nat /\ done' \in Nat
    BY <1>1, <1>3
  <2>. QED
    BY <1>1, <1>3, <2>1, <2>2, <2>3 DEF TraceTypeOK
<1>8. Budget'
  <2>. DEFINE su == step_count * Unit
  <2>1. step_count' * Unit' = su - Unit /\ su \in Int
    BY <1>1, <1>3, <1>5, Products
  <2>2. done + su + 8 * remaining = event_count
    BY <1>1 DEF IInv, Budget
  <2>. HIDE DEF su
  <2>. QED
    BY <1>1, <1>3, <2>1, <2>2 DEF Budget
<1>9. ASSUME NEW a \in Axes
      PROVE  /\ Off(a)' = Off(a)
             /\ counter'[a] <= event_count' /\ Scale * steps'[a] <= event_count'
  <2>. DEFINE t == Taken(a) * event_count
              s == steps[a] * done
              i == steps[a] * Unit
              tt == Taken(a)' * event_count'
              ss == steps'[a] * done'
  <2>1. /\ t \in Int /\ s \in Int /\ i \in Nat /\ ss = s + i
        /\ (Taken(a) + 1) * event_count = t + event_count
    <3>1. t \in Int /\ (Taken(a) + 1) * event_count = t + event_count
      BY <1>1, <1>6, Products
    <3>2. Unit \in Nat /\ steps[a] \in Nat /\ done \in Nat
      BY <1>1, <1>2
    <3>3. s \in Int /\ i \in Nat /\ steps[a] * (done + Unit) = s + i
      BY <3>2, Products
    <3>. QED
      BY <3>1, <3>3, <1>3
  <2>2. increment[a] = i
    BY <1>1 DEF IInv, Increments
  <2>3. i <= event_count
    <3>1. 8 * steps[a] <= event_count
      BY <1>1 DEF IInv, Tracing
    <3>2. i <= 8 * steps[a]
      BY <1>1, <1>2
    <3>. HIDE DEF i
    <3>. QED
      BY <3>1, <3>2, <2>1, <1>1, <1>2
  <2>4. /\ Off(a) = 2 * (t + counter[a]) - event_count - 2 * s /\ counter[a] <= event_count
        /\ Scale * steps[a] <= event_count
    BY DEF IInv, Tracing, Off
  <2>5. CASE Steps(a)
    <3>1. tt = t + event_count
      BY <1>3, <1>6, <2>1, <2>5
    <3>2. counter'[a] = counter[a] + i - event_count
      BY <1>6, <2>2, <2>5
    <3>. HIDE DEF t, s, i, tt, ss
    <3>0. counter[a] \in Nat /\ event_count \in Nat /\ event_count' = event_count
      BY <1>1, <1>2, <1>3
    <3>4. counter'[a] <= event_count
      BY <2>1, <2>3, <2>4, <3>0, <3>2
    <3>5. tt + counter'[a] = t + counter[a] + i
      BY <2>1, <3>0, <3>1, <3>2
    <3>6. 2 * (tt + counter'[a]) - event_count - 2 * ss = Off(a)
      BY <2>1, <2>4, <3>0, <3>5
    <3>3. 2 * (tt + counter'[a]) - event_count' - 2 * ss = Off(a) /\ counter'[a] <= event_count'
      BY <3>0, <3>4, <3>6
    <3>. QED
      BY <1>3, <2>4, <3>3 DEF tt, ss, Off
  <2>6. CASE ~Steps(a)
    <3>1. tt = t
      BY <1>3, <1>6, <2>6
    <3>2. counter'[a] = counter[a] + i /\ counter[a] + i <= event_count
      BY <1>1, <1>2, <1>6, <2>2, <2>6 DEF Steps
    <3>. HIDE DEF t, s, i, tt, ss
    <3>3. 2 * (tt + counter'[a]) - event_count' - 2 * ss = Off(a) /\ counter'[a] <= event_count'
      BY <1>1, <1>2, <1>3, <2>1, <2>4, <3>1, <3>2
    <3>. QED
      BY <1>3, <2>4, <3>3 DEF tt, ss, Off
  <2>. QED
    BY <2>5, <2>6
<1>10. Tracing' /\ Halves'
  BY <1>3, <1>9 DEF IInv, Tracing, Halves, Scale, Shl, MAX_AMASS_LEVEL
<1>11. Increments'
  BY <1>1, <1>3, <1>5 DEF IInv, Increments
<1>12. event_count' > 0
  <2>1. Unit \in Nat /\ step_count * Unit \in Nat /\ step_count * Unit > 0
    BY <1>1
  <2>. DEFINE su == step_count * Unit
  <2>2. done + su + 8 * remaining = event_count
    BY <1>1 DEF IInv, Budget
  <2>. HIDE DEF su
  <2>. QED
    BY <2>1, <2>2, <1>1, <1>3 DEF su
<1>13. Heading'
  BY <1>1, <1>3, <1>12 DEF IInv, Heading
<1>. QED
  BY <1>7, <1>8, <1>10, <1>11, <1>13 DEF IInv

\* A stop forgets the counters, which were at most one step's worth.
LEMMA StopStep ==
    ASSUME IInv, Stop
    PROVE  IInv'
<1>. USE DEF block
<1>1. /\ TraceTypeOK /\ event_count \in Nat /\ stops \in Nat /\ Halves
      /\ event_count \div 2 \in Nat
  BY MaxStopsAssumption DEF IInv, TraceTypeOK
<1>2. /\ counter' = [a \in Axes |-> event_count \div 2] /\ stops' = stops + 1
      /\ stops < MaxStops
      /\ UNCHANGED << pl_position, steps, dir, event_count, start, position, increment, level,
                      step_count, remaining, done >>
  BY DEF Stop, Counters
<1>3. TraceTypeOK'
  <2>1. stops' \in 0 .. MaxStops
    BY <1>1, <1>2, MaxStopsAssumption
  <2>2. counter' \in [Axes -> Nat]
    BY <1>1, <1>2
  <2>. QED
    BY <1>1, <1>2, <2>1, <2>2 DEF TraceTypeOK
<1>4. Budget' /\ Halves' /\ Increments'
  BY <1>2 DEF IInv, Budget, Halves, Increments, Unit
<1>5. ASSUME NEW a \in Axes
      PROVE  /\ Off(a)' <= stops' * event_count' /\ -(stops' * event_count') <= Off(a)'
             /\ counter'[a] <= event_count' /\ Scale * steps'[a] <= event_count'
  <2>. DEFINE t == Taken(a) * event_count
              s == steps[a] * done
              e == stops * event_count
  <2>1. /\ t \in Int /\ s \in Int /\ e \in Nat /\ stops' * event_count' = e + event_count
        /\ counter[a] \in Nat
    <3>1. steps[a] \in Nat /\ done \in Nat /\ Taken(a) \in Int /\ counter[a] \in Nat
      BY <1>1 DEF TraceTypeOK, Taken
    <3>. QED
      BY <1>1, <1>2, <3>1, Products
  <2>2. /\ 2 * (t + counter[a]) - event_count - 2 * s <= e
        /\ -e <= 2 * (t + counter[a]) - event_count - 2 * s
        /\ counter[a] <= event_count /\ Scale * steps[a] <= event_count
    BY DEF IInv, Tracing, Off
  <2>3. counter'[a] = event_count \div 2 /\ 2 * counter'[a] = event_count
    BY <1>1, <1>2 DEF Halves
  <2>4. Off(a)' = 2 * (t + counter'[a]) - event_count - 2 * s
    BY <1>2 DEF Off, Taken
  <2>5. /\ counter'[a] \in Nat /\ event_count' = event_count
        /\ Scale * steps'[a] <= event_count'
    BY <1>1, <1>2, <2>2, <2>3
  <2>. HIDE DEF t, s, e
  <2>6. Off(a)' <= e + event_count /\ -(e + event_count) <= Off(a)'
    BY <1>1, <2>1, <2>2, <2>3, <2>4, <2>5
  <2>7. counter'[a] <= event_count'
    BY <1>1, <2>3, <2>5
  <2>. QED
    BY <2>1, <2>5, <2>6, <2>7
<1>6. Tracing'
  BY <1>5 DEF Tracing, Scale, Shl, MAX_AMASS_LEVEL
<1>7. Heading'
  BY <1>1, <1>2 DEF IInv, Heading
<1>. QED
  BY <1>3, <1>4, <1>6, <1>7 DEF IInv

\* A cancelled motion leaves no block, and the planner where the machine is.
LEMMA CancelStep ==
    ASSUME IInv, Cancel
    PROVE  IInv'
<1>1. TraceTypeOK /\ position \in [Axes -> Int] /\ Scale = 8
  BY Levels8 DEF IInv, TraceTypeOK
<1>2. /\ remaining' = 0 /\ step_count' = 0 /\ pl_position' = position /\ event_count' = 0
      /\ counter' = [a \in Axes |-> 0] /\ increment' = [a \in Axes |-> 0] /\ level' = 0
      /\ steps' = [a \in Axes |-> 0] /\ start' = position /\ done' = 0
      /\ position' = position /\ dir' = dir /\ stops' = 0
  BY DEF Cancel
<1>3. TraceTypeOK'
  BY <1>1, <1>2, MaxStopsAssumption DEF TraceTypeOK, Levels, MAX_AMASS_LEVEL
<1>4. Budget'
  <2>1. Unit' = 8
    BY <1>2 DEF Unit, Scale, Shl, MAX_AMASS_LEVEL
  <2>. QED
    BY <1>1, <1>2, <2>1 DEF Budget
<1>5. Tracing'
  <2>1. \A a \in Axes : Taken(a)' = 0 /\ counter'[a] = 0 /\ steps'[a] = 0
    BY <1>1, <1>2 DEF Taken
  <2>2. Scale' = 8
    BY <1>1 DEF Scale, Shl, MAX_AMASS_LEVEL
  <2>. QED
    BY <1>2, <2>1, <2>2 DEF Tracing, Off
<1>6. Increments' /\ Heading' /\ Halves'
  BY <1>1, <1>2 DEF Increments, Heading, Halves
<1>. QED
  BY <1>3, <1>4, <1>5, <1>6 DEF IInv

\* The machine at rest satisfies the inductive invariant.
LEMMA InitInductive == TraceInit => IInv
<1>. SUFFICES ASSUME TraceInit PROVE IInv
  OBVIOUS
<1>1. position \in [Axes -> Int] /\ Scale = 8
  BY TargetsAssumption, Levels8 DEF TraceInit
<1>2. TraceTypeOK
  BY <1>1, MaxStopsAssumption DEF TraceInit, TraceTypeOK, Levels, MAX_AMASS_LEVEL
<1>3. Budget
  <2>1. Unit = 8
    BY DEF TraceInit, Unit, Scale, Shl, MAX_AMASS_LEVEL
  <2>. QED
    BY <1>1, <2>1 DEF TraceInit, Budget
<1>4. Tracing
  <2>1. ASSUME NEW a \in Axes PROVE Taken(a) = 0 /\ counter[a] = 0 /\ steps[a] = 0
    <3>1. start[a] = position[a] /\ position[a] \in Int
      BY <1>1 DEF TraceInit
    <3>. QED
      BY <3>1 DEF TraceInit, Taken
  <2>2. event_count = 0 /\ done = 0 /\ stops = 0
    BY DEF TraceInit
  <2>3. ASSUME NEW a \in Axes
        PROVE  /\ Off(a) <= stops * event_count /\ -(stops * event_count) <= Off(a)
               /\ counter[a] <= event_count /\ Scale * steps[a] <= event_count
    BY <1>1, <2>1, <2>2 DEF Off
  <2>. QED
    BY <2>3 DEF Tracing
<1>5. Increments /\ Heading /\ Halves
  BY <1>1 DEF TraceInit, Increments, Heading, Halves
<1>. QED
  BY <1>2, <1>3, <1>4, <1>5 DEF IInv

\* Every action keeps the inductive invariant.
LEMMA InductiveStep == IInv /\ [TraceNext]_tracevars => IInv'
<1>. SUFFICES ASSUME IInv, [TraceNext]_tracevars PROVE IInv'
  OBVIOUS
<1>1. CASE \E t \in Targets : NewBlock(t)
  BY <1>1, NewBlockStep
<1>2. CASE \E n \in 1 .. remaining, l \in Levels : NewSegment(n, l)
  BY <1>2, NewSegmentStep
<1>3. CASE Tick
  BY <1>3, TickStep
<1>4. CASE Cancel
  BY <1>4, CancelStep
<1>5. CASE Stop
  BY <1>5, StopStep
<1>6. CASE UNCHANGED tracevars
  BY <1>6 DEF tracevars, block, IInv, TraceTypeOK, Budget, Tracing, Off, Halves, Increments, Heading, Taken,
              Unit
<1>. QED
  BY <1>1, <1>2, <1>3, <1>4, <1>5, <1>6 DEF TraceNext

-----------------------------------------------------------------------------

\* The tracer's registers keep their types, for every set of axes and targets.
THEOREM TypeCorrect == TraceSpec => []TraceTypeOK
<1>1. IInv => TraceTypeOK
  BY DEF IInv
<1>. QED
  BY <1>1, InitInductive, InductiveStep, PTL DEF TraceSpec

\* Step smoothing loses no step: each completed motion ends exactly at the position
\* the planner computed, whatever its segments and their levels, if no motion since
\* the last synchronisation stopped on the way.
THEOREM StepsExact == TraceSpec => []LandsOnTarget
BY InvariantConsequences, InitInductive, InductiveStep, PTL DEF TraceSpec

\* At every tick of the step interrupt each axis is within half a step of the
\* straight line of the block, plus half a step for every stop within a motion.
THEOREM HalfStepAccuracy == TraceSpec => []NearLine
BY InvariantConsequences, InitInductive, InductiveStep, PTL DEF TraceSpec
=============================================================================
