\* Checked on 2 savers, 2 messages or connections at a time.  The system may stop:
\* a save and a message can block each other for ever (SaveTakesEffect).
CONSTANTS
    a = a
    b = b
    s1 = s1
    s2 = s2
    d1 = d1
    d2 = d2
    None = None
    Clients = {a, b}
    Configs <- MCConfigs
    Savers = {t1, t2}
    Workers = {w1, w2}
    Listeners = {l1, l2, l3, l4}
    Slots = 2
    MaxSaves = 2
    MaxMessages = 2
    MaxFaults = 1
SPECIFICATION Spec
INVARIANTS OneConfiguration ClosedLetsGo QuietSaveIsApplied
PROPERTY FiledByItsRoute
SYMMETRY Threads
CHECK_DEADLOCK FALSE
