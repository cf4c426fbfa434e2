CONSTANTS
    MaxBlocks = 1
    MaxSegments = 2
    MaxDelays = 1
    Parking = TRUE
    IgnoreWhenIdle = FALSE
    Inputs = {"hold", "start", "door", "stop", "reset", "jog", "sleep"}

SPECIFICATION FairSpec

CONSTRAINT NoRace

INVARIANTS
    TypeOK
    HoldStops
    WaitsForMotion
    TrueToState

PROPERTIES
    NoCycleAtOpenDoor
    ResetHonoured
    WaitEnds
