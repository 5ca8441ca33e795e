\* One source and later perhaps two, with one request or edit, a failure
\* and a restart.
SPECIFICATION FairSpec
CONSTANTS
    c1 = c1 c2 = c2
    a = a b = b
    Calls <- TwoCalls
    Names <- TwoNames
    Configured <- OneConfigured
    MaxSources = 1
    MaxSlot = 2
    Limit <- RecordLimit
PROPERTIES RecordIsEarned EverySlotIsRecorded
CHECK_DEADLOCK FALSE
