------------------------------- MODULE Planner -------------------------------
(***************************************************************************)
(* The look-ahead planner of grbl/planner.c: a ring of motion blocks, the  *)
(* incremental re-planning of junction speeds, feed and rapid overrides,   *)
(* re-planning after a feed hold, and the way the segment generator of     *)
(* grbl/stepper.c consumes the tail block.                                 *)
(*                                                                         *)
(* Speeds are kept squared, as in the code, and a block's length is the    *)
(* change of squared speed it allows, 2 * acceleration * millimeters; both *)
(* are integers here.  The two passes of planner_recalculate take one step *)
(* per loop iteration, and nothing else runs while they do: the planner    *)
(* and the segment generator are both called from the foreground.          *)
(***************************************************************************)
EXTENDS Integers

CONSTANTS Size,       \* block_buffer.size: slots in the ring minus one
          Moves,      \* the motions offered: [dist, rate, rapid, junction]
          Overrides,  \* the percentages an override may be set to
          RapidRate,  \* the machine's rapid rate along every move
          MaxMoves    \* bound on the motions planned between resets

ASSUME SizeAssumption == Size \in Nat /\ Size > 1
ASSUME MovesAssumption ==
    Moves \subseteq [dist : Nat \ {0}, rate : Nat \ {0}, rapid : BOOLEAN, junction : Nat]
ASSUME OverridesAssumption == Overrides \subseteq Nat \ {0} /\ 100 \in Overrides
ASSUME RapidRateAssumption == RapidRate \in Nat \ {0}
ASSUME MaxMovesAssumption == MaxMoves \in Nat

VARIABLES
    blocks,              \* the ring of planner blocks
    tail, head, planned, \* block_buffer
    previous_nominal,    \* pl.previous_nominal_speed
    feed, rapid,         \* pl.override
    pc, current,         \* where planner_recalculate is, and its current block
    loaded, speed,       \* stepper: pl_block # NULL, and prep.current_speed squared
    hold,                \* sys.step_control.execute_hold
    carry,               \* prep.exit_speed squared carried into the next block, -1 if not
    moves,               \* motions planned so far
    overridden           \* HISTORY: an override changed a plan still being executed

ring == << blocks, tail, head, planned >>
stepper == << loaded, speed, hold, carry >>
vars == << ring, previous_nominal, feed, rapid, pc, current, stepper, moves, overridden >>

Slot == 0 .. Size

\* Mutant: the ring is not closed.
Next_Open(p) == p + 1

Next_(p) == IF p = Size THEN 0 ELSE p + 1
Prev(p) == IF p = 0 THEN Size ELSE p - 1
Min2(a, b) == IF a < b THEN a ELSE b
Large == 1000000     \* SOME_LARGE_VALUE

\* Position of slot p counted from the tail, and whether it holds a block.
Offset(p) == IF p >= tail THEN p - tail ELSE p - tail + Size + 1
Queued(p) == Offset(p) < Offset(head)

Block == [dist : Nat, rate : Nat, rapid : BOOLEAN, junction : Nat, max : Nat, entry : Nat]
NoBlock == [dist |-> 0, rate |-> 0, rapid |-> FALSE, junction |-> 0, max |-> 0, entry |-> 0]

Init ==
    /\ blocks = [p \in Slot |-> NoBlock]
    /\ tail = 0 /\ head = 0 /\ planned = 0
    /\ previous_nominal = 0 /\ feed = 100 /\ rapid = 100
    /\ pc = "idle" /\ current = 0
    /\ loaded = FALSE /\ speed = 0 /\ hold = FALSE /\ carry = -1
    /\ moves = 0 /\ overridden = FALSE

-----------------------------------------------------------------------------

\* plan_compute_profile_nominal_speed under given overrides; speeds below the
\* minimum feed rate, 1 here, are raised to it.
NominalSpeed(b, f, r) ==
    LET n == IF b.rapid THEN (RapidRate * r) \div 100
             ELSE Min2((Min2(b.rate, RapidRate) * f) \div 100, RapidRate)
    IN  IF n > 1 THEN n ELSE 1

\* plan_compute_profile_parameters: the maximum entry speed of a block whose
\* nominal speed is n, after a block whose nominal speed was prev.
MaxEntry(b, n, prev) == Min2(Min2(n, prev) * Min2(n, prev), b.junction)

\* Mutant: the executing block is not updated.
Restarted_Stale(bs, executing, v) == bs

\* st_update_plan_block_parameters(false): if the tail block is being executed it
\* restarts from the speed v it has now.
Restarted(bs, executing, v) ==
    IF executing THEN [bs EXCEPT ![tail].entry = v] ELSE bs

\* The entry of planner_recalculate on ring bs with head h and planned pointer q:
\* the last block is planned to end in a stop.
Recalculate(bs, h, q, executing) ==
    LET last == Prev(h)
        planLast == [bs EXCEPT ![last].entry = Min2(bs[last].max, bs[last].dist)]
        reachesTail == Prev(last) = q /\ q = tail
    IN  \/ /\ last = q
           /\ blocks' = bs /\ loaded' = executing
           /\ pc' = "idle" /\ UNCHANGED current
        \/ /\ last # q
           /\ blocks' = Restarted(planLast, executing /\ reachesTail, speed)
           /\ loaded' = (executing /\ ~reachesTail)
           /\ IF Prev(last) = q THEN pc' = "forward" /\ current' = q
                                ELSE pc' = "reverse" /\ current' = last

\* One iteration of the reverse pass.
ReverseEntry(p) ==
    LET b == blocks[p]
        v == blocks[Next_(p)].entry + b.dist
    IN  IF b.entry # b.max THEN Min2(v, b.max) ELSE b.entry

ReverseStep ==
    /\ pc = "reverse"
    /\ LET p == Prev(current)
           bs == [blocks EXCEPT ![p].entry = ReverseEntry(p)]
           atTail == Prev(p) = tail
       IN  /\ blocks' = Restarted(bs, loaded /\ atTail, speed)
           /\ loaded' = (loaded /\ ~atTail)
           /\ IF Prev(p) = planned THEN pc' = "forward" /\ current' = planned
                                   ELSE pc' = "reverse" /\ current' = p
    /\ UNCHANGED << tail, head, planned, previous_nominal, feed, rapid, speed, hold, carry,
                    moves, overridden >>

\* Mutant: any acceleration moves the planned pointer.
ForwardStep_Eager ==
    /\ pc = "forward"
    /\ LET next == Next_(current)
           v == blocks[current].entry + blocks[current].dist
           entry == Min2(v, blocks[next].entry)
       IN  IF next = head
           THEN pc' = "idle" /\ current' = 0 /\ UNCHANGED << blocks, planned >>
           ELSE /\ blocks' = [blocks EXCEPT ![next].entry = entry]
                /\ planned' = IF blocks[current].entry < entry THEN next ELSE planned
                /\ current' = next
                /\ UNCHANGED pc
    /\ UNCHANGED << tail, head, previous_nominal, feed, rapid, stepper, moves, overridden >>

\* One iteration of the forward pass.
ForwardStep ==
    /\ pc = "forward"
    /\ LET next == Next_(current)
           v == blocks[current].entry + blocks[current].dist
           limited == v < blocks[next].entry
           entry == IF limited THEN v ELSE blocks[next].entry
       IN  IF next = head
           THEN pc' = "idle" /\ current' = 0 /\ UNCHANGED << blocks, planned >>
           ELSE /\ blocks' = [blocks EXCEPT ![next].entry = entry]
                /\ planned' = IF limited \/ entry = blocks[next].max THEN next ELSE planned
                /\ current' = next
                /\ UNCHANGED pc
    /\ UNCHANGED << tail, head, previous_nominal, feed, rapid, stepper, moves, overridden >>

-----------------------------------------------------------------------------

\* plan_buffer_line: a motion is added at the head and the plan recalculated.
\* The caller has waited for the ring not to be full.
plan_buffer_line(m) ==
    /\ pc = "idle" /\ ~hold /\ moves < MaxMoves
    /\ Next_(head) # tail
    /\ LET b == [dist |-> m.dist, rate |-> m.rate, rapid |-> m.rapid,
                 junction |-> IF head = tail THEN 0 ELSE m.junction, max |-> 0, entry |-> 0]
           n == NominalSpeed(b, feed, rapid)
           bs == [blocks EXCEPT ![head] = [b EXCEPT !.max = MaxEntry(b, n, previous_nominal)]]
       IN  /\ previous_nominal' = n
           /\ Recalculate(bs, Next_(head), planned, loaded)
    /\ head' = Next_(head)
    /\ moves' = moves + 1
    /\ overridden' = (overridden /\ head # tail)
    /\ UNCHANGED << tail, planned, feed, rapid, speed, hold, carry >>

\* Mutant: the planned pointer is not pushed forward.
Discard_KeepPlanned ==
    /\ blocks' = [blocks EXCEPT ![tail] = NoBlock]
    /\ tail' = Next_(tail)
    /\ UNCHANGED planned

\* plan_discard_current_block.  Nothing reads a slot outside the queue.
Discard ==
    /\ blocks' = [blocks EXCEPT ![tail] = NoBlock]
    /\ tail' = Next_(tail)
    /\ planned' = IF planned = tail THEN Next_(tail) ELSE planned

\* Mutant: the planned pointer is not moved back to the tail.
Reinitialize_KeepPlanned(bs, v) ==
    /\ UNCHANGED planned
    /\ \/ tail # head /\ Recalculate(Restarted(bs, loaded, v), head, planned, FALSE)
       \/ tail = head /\ blocks' = bs /\ loaded' = FALSE /\ UNCHANGED << pc, current >>

\* plan_cycle_reinitialize on ring bs, the executing block having speed v.
Reinitialize(bs, v) ==
    /\ planned' = tail
    /\ \/ tail # head /\ Recalculate(Restarted(bs, loaded, v), head, tail, FALSE)
       \/ tail = head /\ blocks' = bs /\ loaded' = FALSE /\ UNCHANGED << pc, current >>

\* plan_feed_override: the maximum entry speeds of every queued block follow the
\* new nominal speeds, and the plan is recalculated.
plan_feed_override(f, r) ==
    /\ pc = "idle"
    /\ << f, r >> # << feed, rapid >>
    /\ feed' = f /\ rapid' = r
    /\ IF tail # head
       THEN LET nom(p) == NominalSpeed(blocks[p], f, r)
                prev(p) == IF p = tail THEN Large ELSE nom(Prev(p))
            IN  /\ Reinitialize([p \in Slot |->
                       IF Queued(p)
                       THEN [blocks[p] EXCEPT !.max = MaxEntry(blocks[p], nom(p), prev(p))]
                       ELSE blocks[p]], speed)
                /\ previous_nominal' = nom(Prev(head))
                /\ overridden' = TRUE
       ELSE UNCHANGED << blocks, planned, pc, current, loaded, previous_nominal, overridden >>
    /\ UNCHANGED << tail, head, speed, hold, carry, moves >>

\* plan_reset.
plan_reset ==
    /\ pc = "idle"
    /\ tail' = 0 /\ head' = 0 /\ planned' = 0
    /\ previous_nominal' = 0
    /\ loaded' = FALSE /\ speed' = 0 /\ hold' = FALSE /\ carry' = -1
    /\ moves' = 0 /\ overridden' = FALSE
    /\ blocks' = [p \in Slot |-> NoBlock]   \* slots outside the queue are never read
    /\ UNCHANGED << feed, rapid, pc, current >>

-----------------------------------------------------------------------------
(* The segment generator, as the planner sees it.                          *)

ExitSpeed == IF Next_(tail) = head THEN 0 ELSE blocks[Next_(tail)].entry

\* st_prep_buffer takes the tail block up; after a forced deceleration through
\* the whole of the last block this one starts from the speed left over.
Load ==
    /\ pc = "idle" /\ ~loaded /\ tail # head
    /\ loaded' = TRUE
    /\ speed' = IF carry >= 0 THEN carry ELSE blocks[tail].entry
    /\ blocks' = [blocks EXCEPT ![tail].entry = speed']
    /\ carry' = -1
    /\ UNCHANGED << tail, head, planned, previous_nominal, feed, rapid, pc, current, hold,
                    moves, overridden >>

\* The speed a normal profile has after p of the remaining distance: accelerate,
\* cruise at the nominal speed, decelerate to the exit speed.
Profile(p) ==
    LET b == blocks[tail]
        n == NominalSpeed(b, feed, rapid)
        target == Min2(Min2(speed + p, n * n), ExitSpeed + b.dist - p)
    IN  IF speed - p > target THEN speed - p ELSE target

\* Part of the block has been turned into segments.
Progress ==
    /\ pc = "idle" /\ loaded /\ ~hold
    /\ \E p \in 1 .. blocks[tail].dist - 1 :
           /\ blocks' = [blocks EXCEPT ![tail].dist = blocks[tail].dist - p]
           /\ speed' = Profile(p)
    /\ UNCHANGED << tail, head, planned, previous_nominal, feed, rapid, pc, current, loaded,
                    hold, carry, moves, overridden >>

\* All of the block has been turned into segments.  Too fast for its nominal
\* speed to be reached in it, it hands the excess on to the next block.
Complete ==
    /\ pc = "idle" /\ loaded /\ ~hold
    /\ LET b == blocks[tail]
           n == NominalSpeed(b, feed, rapid)
       IN  carry' = IF speed - b.dist >= n * n THEN speed - b.dist ELSE -1
    /\ Discard
    /\ loaded' = FALSE /\ speed' = 0
    /\ UNCHANGED << head, previous_nominal, feed, rapid, pc, current, hold, moves,
                    overridden >>

\* A feed hold: the executing block, or the one about to be taken up, decelerates
\* at once, on into the following blocks if it is too short to stop in.
HoldBegin ==
    /\ pc = "idle" /\ tail # head /\ ~hold
    /\ hold' = TRUE
    /\ UNCHANGED << ring, previous_nominal, feed, rapid, pc, current, loaded, speed, carry,
                    moves, overridden >>

HoldThroughBlock ==
    /\ pc = "idle" /\ loaded /\ hold /\ speed >= blocks[tail].dist
    /\ carry' = speed - blocks[tail].dist
    /\ Discard
    /\ loaded' = FALSE /\ speed' = 0
    /\ UNCHANGED << head, previous_nominal, feed, rapid, pc, current, hold, moves,
                    overridden >>

\* The hold ends inside a block, or with the last block; the state machine then
\* re-plans from standstill.
HoldEnd ==
    /\ pc = "idle" /\ hold
    /\ \/ /\ loaded /\ speed < blocks[tail].dist
          /\ Reinitialize([blocks EXCEPT ![tail].dist = blocks[tail].dist - speed], 0)
       \/ tail = head /\ Reinitialize(blocks, 0)
    /\ speed' = 0 /\ hold' = FALSE /\ carry' = -1
    /\ UNCHANGED << tail, head, previous_nominal, feed, rapid, moves, overridden >>

Next ==
    \/ ReverseStep \/ ForwardStep
    \/ \E m \in Moves : plan_buffer_line(m)
    \/ \E f, r \in Overrides : plan_feed_override(f, r)
    \/ plan_reset
    \/ Load \/ Progress \/ Complete
    \/ HoldBegin \/ HoldThroughBlock \/ HoldEnd

Spec == Init /\ [][Next]_vars

-----------------------------------------------------------------------------

\* Types of the ring, its pointers and the executing block.
TypeOK ==
    /\ blocks \in [Slot -> Block]
    /\ tail \in Slot /\ head \in Slot /\ planned \in Slot /\ current \in Slot
    /\ previous_nominal \in Nat /\ feed \in Overrides /\ rapid \in Overrides
    /\ pc \in {"idle", "reverse", "forward"}
    /\ loaded \in BOOLEAN /\ hold \in BOOLEAN /\ overridden \in BOOLEAN
    /\ speed \in Nat /\ carry \in Nat \cup {-1} /\ moves \in Nat

\* The planned pointer is never behind the tail nor past the head ("this block
\* can never be less than block_buffer.tail", planner.c), and a pass in progress
\* stays between the planned pointer and the head.
PlannedInQueue ==
    /\ Offset(planned) <= Offset(head)
    /\ pc = "reverse" => Offset(planned) + 1 < Offset(current) /\ Queued(current)
    /\ pc = "forward" => Offset(planned) <= Offset(current) /\ Queued(current)

\* No junction speed exceeds the maximum of its junction or the nominal speeds
\* of its neighbours (guideline 1a), overrides and holds included; the executing
\* block has whatever speed it has.
EntryWithinMax ==
    pc = "idle" => \A p \in Slot : Queued(p) /\ p # tail => blocks[p].entry <= blocks[p].max

\* The speed with which block p is entered, and left.
EntryOf(p) == IF p = tail /\ loaded THEN speed ELSE blocks[p].entry
ExitOf(p) == IF Next_(p) = head THEN 0 ELSE blocks[Next_(p)].entry

\* Every queued block can get from its entry to its exit speed within its length
\* (guidelines 1b and 2a), at any moment of its execution and after feed holds,
\* as long as no override has hit the plan.
BlockFeasible(p) == /\ EntryOf(p) <= ExitOf(p) + blocks[p].dist
                    /\ ExitOf(p) <= EntryOf(p) + blocks[p].dist
PlanFeasible ==
    pc = "idle" /\ ~hold /\ ~overridden => \A p \in Slot : Queued(p) => BlockFeasible(p)

\* VIOLATED: "A block entry speed cannot exceed one reverse-computed from its exit
\* speed" (planner.c, guideline 1b), for the blocks not yet being executed, also
\* after an override.
DecelerationFeasible ==
    pc = "idle" /\ ~hold =>
        \A p \in Slot : Queued(p) /\ p # tail => blocks[p].entry <= ExitOf(p) + blocks[p].dist
=============================================================================
