------------------------------ MODULE MCMotion ------------------------------
EXTENDS MCPlanner, Bresenham

\* Two axes, every pair of positions in a square: one axis, both, equal and
\* unequal numbers of steps, forwards and backwards.
MCTargets == [Axes -> 0 .. 3]

\* How fast a motion is and where its steps go are two models that share nothing, so
\* that for the properties of one the other can stay as it began.
TracerRests == pl_position = [a \in Axes |-> 0] /\ TraceInit /\ UNCHANGED tracevars
PlannerRests == moves = 0 /\ Init /\ UNCHANGED vars

MotionInit == Init /\ TraceInit

\* Planner!Next and Bresenham!TraceNext, the other at rest.
MotionNext ==
    \/ TracerRests /\ ReverseStep
    \/ TracerRests /\ ForwardStep
    \/ \E m \in Moves : TracerRests /\ plan_buffer_line(m)
    \/ \E f, r \in Overrides : TracerRests /\ plan_feed_override(f, r)
    \/ TracerRests /\ plan_reset
    \/ TracerRests /\ Load
    \/ TracerRests /\ Progress
    \/ TracerRests /\ Complete
    \/ TracerRests /\ HoldBegin
    \/ TracerRests /\ HoldThroughBlock
    \/ TracerRests /\ HoldEnd
    \/ \E t \in Targets : PlannerRests /\ NewBlock(t)
    \/ \E n \in 1 .. remaining, l \in Levels : PlannerRests /\ NewSegment(n, l)
    \/ PlannerRests /\ Tick
    \/ PlannerRests /\ Stop
    \/ PlannerRests /\ Cancel

MotionSpec == MotionInit /\ [][MotionNext]_<< vars, tracevars >>
=============================================================================
