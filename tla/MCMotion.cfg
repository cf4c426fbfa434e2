CONSTANTS
    Size = 4
    Moves <- MCMoves
    Overrides = {50, 100}
    RapidRate = 2
    MaxMoves = 5
    Axes = {x, y}
    Targets <- MCTargets
    MaxStops = 2
SPECIFICATION MotionSpec
CONSTRAINT FewWhenOverridden
INVARIANTS
    TypeOK
    PlannedInQueue
    PlanFeasible
    PlanOptimal
    EntryWithinMax
    LandsOnTarget
    NearLine
