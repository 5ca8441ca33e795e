\* One saver and one message or connection: the save waits for the message's read
\* lock of the routes, the message for Manager.mu.
CONSTANTS
    a = a
    b = b
    s1 = s1
    s2 = s2
    d1 = d1
    d2 = d2
    None = None
    Clients = {a, b}
    Configs <- MCConfigs
    Savers = {t1}
    Workers = {w1}
    Listeners = {l1, l2, l3, l4}
    Slots = 2
    MaxSaves = 2
    MaxMessages = 2
    MaxFaults = 0
SPECIFICATION Spec
PROPERTY SaveTakesEffect
CHECK_DEADLOCK FALSE
