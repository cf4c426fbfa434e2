CONSTANTS
    PoolSize = 3
    Once = {"h"}
    Timed = {"f", "g"}
    Delays = {0, 1}
    TimeMod = 8
    StartTick = 7
    MaxAdds = 3
    MaxTick = 2
    MaxDepth = 2
SPECIFICATION FairSpec
CONSTRAINT NoRace
CHECK_DEADLOCK FALSE
INVARIANTS
    TypeOK
    PoolPartitioned
PROPERTIES
    Scheduled
    EventuallyRun
