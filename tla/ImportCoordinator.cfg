\* Two calls for two sources with one source slot; a worker has two writers, which
\* share one write slot.
SPECIFICATION FairSpec
CONSTANTS
    c1 = c1 c2 = c2
    a = a b = b
    w1 = w1 w2 = w2
    Calls <- TwoCalls
    Sources <- TwoSources
    Writers <- TwoWriters
    MaxSources = 1
    MaxWrites = 1
    MaxBatches = 2
INVARIANTS OneImportPerSource SlotsAreAccounted
PROPERTIES BoardSpec EveryCallReports EverySourceIsFreed
CHECK_DEADLOCK FALSE
