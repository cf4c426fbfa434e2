----------------------------- MODULE MCPlanner -----------------------------
EXTENDS Planner, FiniteSetsExt

\* Short and long moves, slow and fast, feed and rapid, sharp and straight
\* junctions.  Speeds and lengths are chosen so that caps, accelerations and
\* decelerations all bind somewhere.
MCMoves == {[dist |-> 2, rate |-> 2, rapid |-> FALSE, junction |-> Large],
            [dist |-> 5, rate |-> 3, rapid |-> FALSE, junction |-> 3],
            [dist |-> 4, rate |-> 3, rapid |-> FALSE, junction |-> Large],
            [dist |-> 4, rate |-> 1, rapid |-> TRUE, junction |-> Large]}

\* Bound on the search: a plan an override has hit takes fewer moves.
FewWhenOverridden == overridden => moves < MaxMoves

\* The reference plan, in closed form: the entry speed of p is limited by every
\* cap in the queue (the entry speed of the tail, the junction maxima, the stop at
\* the end) plus the change of speed the blocks in between allow.
Between(p, q) ==
    MapThenSumSet(LAMBDA r : blocks[r].dist,
                  {r \in Slot : Offset(p) <= Offset(r) /\ Offset(r) < Offset(q)})
Reference(p) ==
    Min({Between(p, head), EntryOf(tail) + Between(tail, p)}
        \cup {blocks[q].max + Between(p, q) + Between(q, p)
              : q \in {q \in Slot : Queued(q) /\ q # tail}})

\* Re-planning only from the planned pointer loses nothing: every junction speed
\* equals the one of a plan computed afresh ("the plan is optimal and no further
\* speed improvements are possible", planner.c), as long as no override has hit
\* the plan.
PlanOptimal ==
    pc = "idle" /\ ~hold /\ ~overridden =>
        \A p \in Slot : Queued(p) /\ p # tail => blocks[p].entry = Reference(p)
=============================================================================
