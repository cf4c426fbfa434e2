CONSTANTS
    MaxBlocks = 1
    MaxSegments = 2
    MaxDelays = 0
    Parking = FALSE
    IgnoreWhenIdle = FALSE
    Inputs = {"hold", "door"}

SPECIFICATION Spec

INVARIANT HoldStopsAtDoor
