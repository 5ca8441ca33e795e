\* The server stops between the two renames.
SPECIFICATION Spec
CONSTANTS
    r1 = r1 r2 = r2 r3 = r3
    Rows <- ThreeRows
    StopsInSwap = TRUE
    MaxFaults = 1
INVARIANT ServesEveryRow
CHECK_DEADLOCK FALSE
