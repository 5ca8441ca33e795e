\* The bound on requests stops the system.
CONSTANTS
    None = None
    Requests = {r1, r2}
    Passwords = {p1, p2}
    CodesPerSet = 2
    MaxRequests = 6
    MaxSets = 3
    MaxFaults = 1
SPECIFICATION Spec
INVARIANTS OneUsePerStart OneAdmissionPerPassword OneSetup QuietAccountIsSaved
PROPERTY RejectedStaysRejected
SYMMETRY Interchangeable
CHECK_DEADLOCK FALSE
