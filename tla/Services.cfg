\* A behaviour is one of one service; each may stop at its bounds.
SPECIFICATION Spec
CONSTANTS
    None = None
    r1 = r1 r2 = r2 c1 = c1 c2 = c2
    l1 = l1 l2 = l2 u1 = u1 u2 = u2 k1 = k1

    Logins <- MCLogins
    Origins = {c1, c2}
    MaxFailures = 2
    Slots = 2
    Cooldown = 2

    CacheRequests = {r1, r2}
    CacheKeys = {k1}
    Reloads = {l1, l2}
    Ttl = 1
    Retry = 1
    MaxTime = 1
    MaxEngines = 1

    Callers = {c1, c2}
    Updates = {u1, u2}
    Kinds <- MCKinds
    MaxKeys = 2
    MaxResults = 1
    ThreatFaults = 1

    Jobs = {u1, u2}
    Releases <- MCReleases
    Listings <- MCListings
    Versions <- MCVersions
    UpgradeFaults = 1

    Clients = {c1}
    Rows <- MCRows
    Queries <- MCQueries
    DayLength = 2
    UnfilteredSpan = 1
    FilteredSpan = 3
    PageSize = 1
    QuerySlots = 1
    MaxImports = 1

    DaySeconds = 6
    MinuteSeconds = 2
    DefaultInterval = 3
    Schedules <- MCSchedules
    LastSecond = 17

    YearDays = 5
    LeapDay = 2
    HalfYear = 3
    LeapYears = {1}
    Years = {0, 1, 2}
INVARIANTS
    TypeOK FailuresAreBounded SingleFlight CacheIsOfThisEngine
    SavedCredentialsAreReadable PreviousIsLatest RunningIsReal NewestIsOffered
    NoRowTwice StandingRowsAreReturned PlanIsKept YearIsNear
PROPERTIES EveryCallerIsAnswered TotalIsWhole
CHECK_DEADLOCK FALSE
