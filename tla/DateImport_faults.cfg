\* Syncs, rebuilds and several faults: what an import leaves behind.
SPECIFICATION Spec
CONSTANTS
    Files <- MCFiles
    Contents <- FewContents
    NumTables = 2
    Requests = {"rebuild"}
    Legacy = TRUE
    MaxFaults = 2
    MaxAttempts = 3
    MaxTick = 2
INVARIANTS TerminalWins CleanImportIsExact
CHECK_DEADLOCK FALSE
