------------------------------ MODULE Bresenham ------------------------------
(***************************************************************************)
(* The line tracer of grbl/stepper.c: a planned motion is cut into segments *)
(* of whole steps, each with its own level of step smoothing (AMASS), and   *)
(* the step interrupt traces it tick by tick with one integer counter for   *)
(* each axis.  A motion may stop between two segments and resume (a feed    *)
(* hold, or an interrupt that found the segment buffer empty), and it may   *)
(* be cancelled at any tick; the next one is then planned from where the    *)
(* machine is.                                                              *)
(***************************************************************************)
EXTENDS Integers

CONSTANTS Axes,     \* the axes of the machine
          Targets,  \* the positions, in steps, that motions may be sent to
          MaxStops  \* bound on the stops within motions between two cancellations

ASSUME MaxStopsAssumption == MaxStops \in Nat
ASSUME TargetsAssumption == Targets \subseteq [Axes -> Int]

VARIABLES
    pl_position,   \* pl.position: where the planner believes the motion will end
    position,      \* sys.position
    steps, dir,    \* the block: steps of each axis, and its direction, 1 or -1
    event_count,   \* st.step_event_count, scaled by the highest smoothing level
    counter,       \* st.counter
    increment,     \* st.steps: what a tick adds to the counter
    level,         \* st.amass_level
    step_count,    \* st.step_count: ticks left in the segment
    remaining,     \* prep.steps_remaining: steps not yet in a segment
    start, done,   \* HISTORY: where the block began; ticks done, at the highest level
    stops          \* HISTORY: stops within a motion since the planner's position was set

block == << pl_position, steps, dir, event_count, start >>
tracevars == << block, position, counter, increment, level, step_count, remaining, done, stops >>

MAX_AMASS_LEVEL == 3
Levels == 0 .. MAX_AMASS_LEVEL

\* 1 << level.
Shl(l) == CASE l = 0 -> 1 [] l = 1 -> 2 [] l = 2 -> 4 [] l = 3 -> 8
Scale == Shl(MAX_AMASS_LEVEL)

Abs(x) == IF x < 0 THEN -x ELSE x

TraceInit ==
    /\ position \in Targets /\ pl_position = position /\ start = position
    /\ steps = [a \in Axes |-> 0] /\ dir = [a \in Axes |-> 1]
    /\ event_count = 0 /\ counter = [a \in Axes |-> 0] /\ increment = [a \in Axes |-> 0]
    /\ level = 0 /\ step_count = 0 /\ remaining = 0 /\ done = 0 /\ stops = 0

-----------------------------------------------------------------------------

\* Mutant: the counters start at zero.
Counters_Zero(events) == [a \in Axes |-> 0]

\* Every axis starts half way to its first step.
Counters(events) == [a \in Axes |-> events \div 2]

\* plan_buffer_line turns a target into step counts and directions, and
\* st_prep_buffer and the interrupt take the block up.  An empty motion is refused.
NewBlock(t) ==
    /\ remaining = 0 /\ step_count = 0
    /\ t # pl_position
    /\ LET n == [a \in Axes |-> Abs(t[a] - pl_position[a])]
       IN  \E dominant \in Axes :
             /\ \A a \in Axes : n[a] <= n[dominant]
             /\ steps' = n
             /\ event_count' = n[dominant] * Scale
             /\ counter' = Counters(n[dominant] * Scale)
             /\ remaining' = n[dominant]
    /\ dir' = [a \in Axes |-> CASE t[a] = pl_position[a] -> dir[a]
                              [] t[a] < pl_position[a] -> -1
                              [] t[a] > pl_position[a] -> 1]
    /\ pl_position' = t
    /\ start' = position /\ done' = 0
    /\ UNCHANGED << position, increment, level, step_count, stops >>

\* Mutant: the number of ticks is not scaled with the level.
NewSegment_Unscaled(n, l) ==
    /\ step_count = 0 /\ remaining > 0
    /\ level' = l
    /\ step_count' = n
    /\ increment' = [a \in Axes |-> (steps[a] * Scale) \div Shl(l)]
    /\ remaining' = remaining - n
    /\ UNCHANGED << block, position, counter, done, stops >>

\* st_prep_buffer makes a segment of n whole steps with smoothing level l, and the
\* interrupt takes it up.
NewSegment(n, l) ==
    /\ step_count = 0 /\ remaining > 0
    /\ level' = l
    /\ step_count' = n * Shl(l)
    /\ increment' = [a \in Axes |-> (steps[a] * Scale) \div Shl(l)]
    /\ remaining' = remaining - n
    /\ UNCHANGED << block, position, counter, done, stops >>

\* The axes that step in this tick.
Steps(a) == counter[a] + increment[a] > event_count

\* One tick of the step interrupt.
Tick ==
    /\ step_count > 0
    /\ counter' = [a \in Axes |-> IF Steps(a) THEN counter[a] + increment[a] - event_count
                                              ELSE counter[a] + increment[a]]
    /\ position' = [a \in Axes |-> IF Steps(a) THEN position[a] + dir[a] ELSE position[a]]
    /\ step_count' = step_count - 1
    /\ done' = done + Scale \div Shl(level)
    /\ UNCHANGED << block, increment, level, remaining, stops >>

\* The interrupt finds no segment after the last one: a feed hold ended here, or
\* st_prep_buffer was late.  It forgets the block it was executing, so that the
\* next segment is taken for a new block's and the counters start again.
Stop ==
    /\ step_count = 0 /\ remaining > 0 /\ done > 0
    /\ stops < MaxStops
    /\ counter' = Counters(event_count)
    /\ stops' = stops + 1
    /\ UNCHANGED << block, position, increment, level, step_count, remaining, done >>

\* The motion is cancelled: segments and planned blocks are dropped (st_reset,
\* plan_reset) and plan_sync_position takes over the machine's position.
Cancel ==
    /\ remaining > 0 \/ step_count > 0
    /\ remaining' = 0 /\ step_count' = 0
    /\ pl_position' = position
    /\ event_count' = 0 /\ counter' = [a \in Axes |-> 0] /\ increment' = [a \in Axes |-> 0]
    /\ level' = 0 /\ steps' = [a \in Axes |-> 0] /\ start' = position /\ done' = 0
    /\ stops' = 0
    /\ UNCHANGED << position, dir >>

TraceNext ==
    \/ \E t \in Targets : NewBlock(t)
    \/ \E n \in 1 .. remaining, l \in Levels : NewSegment(n, l)
    \/ Tick
    \/ Stop
    \/ Cancel

TraceSpec == TraceInit /\ [][TraceNext]_tracevars

-----------------------------------------------------------------------------

\* Types of the tracer's registers.
TraceTypeOK ==
    /\ pl_position \in [Axes -> Int] /\ position \in [Axes -> Int] /\ start \in [Axes -> Int]
    /\ steps \in [Axes -> Nat] /\ dir \in [Axes -> {-1, 1}]
    /\ event_count \in Nat /\ counter \in [Axes -> Nat] /\ increment \in [Axes -> Nat]
    /\ level \in Levels /\ step_count \in Nat /\ remaining \in Nat /\ done \in Nat
    /\ stops \in 0 .. MaxStops

\* The motion is done.
Finished == remaining = 0 /\ step_count = 0

\* "AMASS retains the Bresenham algorithm exactness" (stepper.c): however the motion
\* is cut into segments and whatever their levels, when its last tick is done the
\* machine is exactly where the planner believes it is, on every axis, as long as
\* no motion has stopped on the way.
LandsOnTarget == Finished /\ stops = 0 => position = pl_position

\* The steps axis a has taken in the current block.
Taken(a) == IF dir[a] = -1 THEN start[a] - position[a] ELSE position[a] - start[a]

\* At every tick every axis is within half a step of the straight line, and every
\* stop costs at most another half: on this scale the line is at
\* steps[a] * done / event_count.
NearLine ==
    \A a \in Axes : 2 * Abs(Taken(a) * event_count - steps[a] * done)
                       <= (stops + 1) * event_count
=============================================================================
