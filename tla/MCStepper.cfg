CONSTANTS
    S = 5
    Lines = 3
    Steps = 2
    Pullout = 2
    Target = 3
    MaxDoors = 2
SPECIFICATION FairSpec
INVARIANTS
    TypeOK
    TracesOwnMotion
    NeverStartsEmpty
    StepsConserved
    ParkingApart
PROPERTY
    RunsOut
CONSTRAINT NoRace
CHECK_DEADLOCK FALSE
