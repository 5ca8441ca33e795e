\* The automatic scan, archives that appear, and any single fault.
SPECIFICATION FairSpec
CONSTANTS
    Files <- MCFiles
    Contents <- MixedContents
    NumTables = 2
    Requests = {}
    Legacy = TRUE
    MaxFaults = 1
    MaxAttempts = 3
    MaxTick = 3
PROPERTIES LedgerSpec Recovers
CHECK_DEADLOCK FALSE
