CONSTANTS
    MaxBlocks = 1
    MaxSegments = 2
    MaxDelays = 1
    Parking = TRUE
    IgnoreWhenIdle = FALSE
    Inputs = {"start", "door"}

SPECIFICATION Spec

PROPERTY ReturnsAsPromised
