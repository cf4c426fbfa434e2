CONSTANTS
    TxSize = 4
    MaxPut = 9
SPECIFICATION TxFairSpec
CHECK_DEADLOCK FALSE
INVARIANTS
    TxTypeOK
    SentInOrder
    NoLostWakeup
PROPERTY EventuallySent
