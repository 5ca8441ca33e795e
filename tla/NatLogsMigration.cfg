\* Stops and failed statements anywhere but between the two renames.
SPECIFICATION FairSpec
CONSTANTS
    r1 = r1 r2 = r2 r3 = r3
    Rows <- ThreeRows
    StopsInSwap = FALSE
    MaxFaults = 4
INVARIANTS ServesEveryRow NothingIsDestroyed
PROPERTY IsServed
CHECK_DEADLOCK FALSE
