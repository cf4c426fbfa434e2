CONSTANTS
    RxSize = 4
    MaxStamp = 3
SPECIFICATION Spec
CONSTRAINT AtMostOneRace
CHECK_DEADLOCK FALSE
INVARIANT FlushedStaysFlushed
