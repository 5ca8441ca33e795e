SPECIFICATION FairSpec
CONSTANTS
    Lines = {1, 2}
    MaxDay = 3
    Retention = 1
    MaxFaults = 1
INVARIANTS
    PromptLinesSurvive
    CopiesCostFaults
PROPERTIES
    PromptLinesAreImported
CHECK_DEADLOCK FALSE
