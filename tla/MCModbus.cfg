CONSTANTS
    MODBUS_QUEUE_LENGTH = 2
    Retries = 1
    MaxSends = 3
    MaxResets = 1
    Checked = {1, 3}
SPECIFICATION FairSpec
CONSTRAINT NoRace
INVARIANTS
    TypeOK
    OwnOutcome
PROPERTY
    EverySendEnds
CHECK_DEADLOCK FALSE
