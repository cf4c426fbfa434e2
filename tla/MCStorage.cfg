CONSTANTS
    N_STARTUP_LINE = 1
    N_CoordinateSystems = 1
    MaxWrites = 1
    MaxFaults = 2
SPECIFICATION FairSpec
CONSTRAINT NoRace
INVARIANTS
    TypeOK
    Durable
    KeptMarked
PROPERTY
    Stored
