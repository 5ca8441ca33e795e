\* A rebuild that stops after dropping partitions.
SPECIFICATION Spec
CONSTANTS
    Files <- MCFiles
    Contents <- ReadableContents
    NumTables = 2
    Requests = {"rebuild"}
    Legacy = FALSE
    MaxFaults = 1
    MaxAttempts = 2
    MaxTick = 1
INVARIANT DoneIsIntact
CHECK_DEADLOCK FALSE
