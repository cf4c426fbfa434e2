CONSTANTS
    Size = 3
    Moves <- MCMoves
    Overrides = {50, 100}
    RapidRate = 2
    MaxMoves = 4
SPECIFICATION Spec
INVARIANTS
    DecelerationFeasible
