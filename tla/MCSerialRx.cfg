CONSTANTS
    RxSize = 4
    MaxStamp = 4
SPECIFICATION Spec
CONSTRAINT Bounded
CHECK_DEADLOCK FALSE
INVARIANTS
    TypeOK
    AccountedOnce
    InOrder
    PortRestored
    ResetForgets
