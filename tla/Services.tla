------------------------------ MODULE Services ------------------------------
(***************************************************************************)
(* The services that share no state: a behaviour is one of one of them,    *)
(* and the others stay as they start.                                      *)
(***************************************************************************)
EXTENDS Naturals, FiniteSets

CONSTANTS
    None,
    Logins, Origins, MaxFailures, Slots, Cooldown,                 \* LoginLimiter
    CacheRequests, CacheKeys, Reloads, Ttl, Retry, MaxTime, MaxEngines, \* ResponseCache
    Callers, Updates, Kinds, MaxKeys, MaxResults, ThreatFaults,    \* ThreatAnalysis
    Jobs, Releases, Listings, Versions, UpgradeFaults,             \* Upgrade
    Clients, Rows, Queries, DayLength, UnfilteredSpan, FilteredSpan,
    PageSize, QuerySlots, MaxImports,                              \* NatLogQuery
    DaySeconds, MinuteSeconds, DefaultInterval, Schedules, LastSecond,\* ScanPlan
    YearDays, LeapDay, HalfYear, LeapYears, Years                  \* LineParser

VARIABLES
    part,                                                          \* the service that moves
    failures, age, loginSem, at, from,                             \* LoginLimiter
    staleOnError, now, engine, engines, entries, request, reload,  \* ResponseCache
    keyFile, keys, lostKey, update, settings, memory, flight, caller, asked, latest,
    faultCount,                                                    \* ThreatAnalysis
    tools, preferred, current, status, job, listing, faults,   \* Upgrade
    stored, dateStatus, importer, imports, querySem, client,       \* NatLogQuery
    schedule, second, lastScan, announced, announcedAt,            \* ScanPlan
    line, fileDate, row                                            \* LineParser

lv == <<failures, age, loginSem, at, from>>
cv == <<staleOnError, now, engine, engines, entries, request, reload>>
tv == <<keyFile, keys, lostKey, update, settings, memory, flight, caller, asked, latest, faultCount>>
uv == <<tools, preferred, current, status, job, listing, faults>>
qv == <<stored, dateStatus, importer, imports, querySem, client>>
pv == <<schedule, second, lastScan, announced, announcedAt>>
xv == <<line, fileDate, row>>
vars == <<part, lv, cv, tv, uv, qv, pv, xv>>

-----------------------------------------------------------------------------
Login     == INSTANCE LoginLimiter
Cache     == INSTANCE ResponseCache WITH Requests <- CacheRequests, Keys <- CacheKeys
Threat    == INSTANCE ThreatAnalysis WITH MaxFaults <- ThreatFaults
Upgrading == INSTANCE Upgrade WITH MaxFaults <- UpgradeFaults
Logs      == INSTANCE NatLogQuery WITH Requests <- Queries
Plan      == INSTANCE ScanPlan
Lines     == INSTANCE LineParser

ASSUME ServicesAssumption ==
    /\ Login!LimiterAssumption /\ Cache!CacheAssumption /\ Threat!ThreatAssumption
    /\ Upgrading!UpgradeAssumption /\ Logs!QueryAssumption /\ Plan!PlanAssumption
    /\ Lines!CalendarAssumption

-----------------------------------------------------------------------------
\* The initial choices of a service matter only where it moves.
First(S) == CHOOSE x \in S : TRUE

Init ==
    /\ part \in {"login", "cache", "threat", "upgrade", "query", "plan", "lines"}
    /\ Login!Init
    /\ part = "login" \/ from = First([Logins -> Origins])
    /\ Cache!CacheInit
    /\ part = "cache" \/ ~staleOnError
    /\ Threat!ThreatInit
    /\ Upgrading!UpgradeInit
    /\ part = "upgrade" \/ (tools = {} /\ preferred = {} /\ current = First(Versions))
    /\ Logs!QueryInit
    /\ part = "query" \/ stored = {}
    /\ Plan!PlanInit
    /\ part = "plan" \/ (second = 0 /\ schedule = First(Schedules))
    /\ Lines!ParserInit
    /\ part = "lines" \/ fileDate = First({d \in [year : Years, day : Lines!DaysOfYear] :
                                               Lines!Exists(d.year, d.day)})

LoginMoves == part = "login" /\ UNCHANGED <<part, cv, tv, uv, qv, pv, xv>>
CacheMoves == part = "cache" /\ UNCHANGED <<part, lv, tv, uv, qv, pv, xv>>
ThreatMoves == part = "threat" /\ UNCHANGED <<part, lv, cv, uv, qv, pv, xv>>
UpgradeMoves == part = "upgrade" /\ UNCHANGED <<part, lv, cv, tv, qv, pv, xv>>
QueryMoves == part = "query" /\ UNCHANGED <<part, lv, cv, tv, uv, pv, xv>>
PlanMoves == part = "plan" /\ UNCHANGED <<part, lv, cv, tv, uv, qv, xv>>
LinesMove == part = "lines" /\ UNCHANGED <<part, lv, cv, tv, uv, qv, pv>>

Next ==
    \/ LoginMoves /\ Login!Tick
    \/ \E l \in Logins :
         \/ LoginMoves /\ \E o \in Origins : Login!Admit(l, o)
         \/ LoginMoves /\ Login!Check(l)
         \/ LoginMoves /\ Login!Wrong(l)
         \/ LoginMoves /\ Login!Right(l)
         \/ LoginMoves /\ Login!Undecided(l)
         \/ LoginMoves /\ Login!Leave(l)
    \/ CacheMoves /\ Cache!PassTime
    \/ \E r \in CacheRequests :
         \/ CacheMoves /\ \E k \in CacheKeys : Cache!Look(r, k)
         \/ CacheMoves /\ Cache!Wait(r)
         \/ CacheMoves /\ Cache!Serve(r)
         \/ CacheMoves /\ Cache!BeginLoad(r)
         \/ CacheMoves /\ Cache!TakeEngine(r)
         \/ CacheMoves /\ Cache!StoreValue(r)
         \/ CacheMoves /\ Cache!StoreError(r)
         \/ CacheMoves /\ Cache!GiveUp(r)
    \/ \E l \in Reloads :
         \/ CacheMoves /\ Cache!BeginReload(l)
         \/ CacheMoves /\ Cache!Built(l)
         \/ CacheMoves /\ Cache!NotBuilt(l)
         \/ CacheMoves /\ Cache!Clear(l)
    \/ ThreatMoves /\ Threat!Restart
    \/ \E u \in Updates :
         \/ ThreatMoves /\ \E kind \in Kinds : Threat!Update(u, kind)
         \/ ThreatMoves /\ Threat!ReadKey(u)
         \/ ThreatMoves /\ Threat!CreateKey(u)
         \/ ThreatMoves /\ Threat!WriteKey(u)
         \/ ThreatMoves /\ Threat!RemoveKey(u)
         \/ ThreatMoves /\ Threat!CloseKey(u)
         \/ ThreatMoves /\ Threat!WaitForKey(u)
         \/ ThreatMoves /\ Threat!SaveUpdate(u)
         \/ ThreatMoves /\ Threat!ApplyUpdate(u)
    \/ \E c \in Callers :
         \/ ThreatMoves /\ Threat!Analyze(c)
         \/ ThreatMoves /\ Threat!ReadPrevious(c)
         \/ ThreatMoves /\ Threat!ReadConfig(c)
         \/ ThreatMoves /\ Threat!Answered(c)
         \/ ThreatMoves /\ Threat!SaveResult(c)
         \/ ThreatMoves /\ Threat!FlightFails(c)
    \/ UpgradeMoves /\ Upgrading!Restart
    \/ \E j \in Jobs :
         \/ UpgradeMoves /\ Upgrading!Run(j)
         \/ UpgradeMoves /\ Upgrading!Fail(j)
         \/ UpgradeMoves /\ Upgrading!Backup(j)
         \/ UpgradeMoves /\ \E list \in Listings : Upgrading!Choose(j, list)
         \/ UpgradeMoves /\ Upgrading!Select(j)
         \/ UpgradeMoves /\ \E yes, database \in BOOLEAN : Upgrading!Download(j, yes, database)
         \/ UpgradeMoves /\ Upgrading!Verify(j)
         \/ UpgradeMoves /\ Upgrading!Validate(j)
         \/ UpgradeMoves /\ Upgrading!Install(j)
         \/ UpgradeMoves /\ \E f \in Upgrading!Formats, database \in BOOLEAN : Upgrading!Upload(j, f, database)
         \/ UpgradeMoves /\ Upgrading!RefuseUpload(j)
         \/ UpgradeMoves /\ Upgrading!StartUpload(j)
         \/ UpgradeMoves /\ Upgrading!Panic(j)
         \/ UpgradeMoves /\ Upgrading!UnitEnds(j)
    \/ \E d \in Logs!Dates :
         \/ QueryMoves /\ Logs!Drop(d)
         \/ QueryMoves /\ Logs!Importing(d)
         \/ QueryMoves /\ \E r \in Rows : Logs!Load(d, r)
         \/ QueryMoves /\ Logs!Finish(d)
    \/ \E c \in Clients :
         \/ QueryMoves /\ \E q \in Queries : Logs!Ask(c, q)
         \/ QueryMoves /\ Logs!ListDateStates(c)
         \/ QueryMoves /\ Logs!CountNATLogs(c)
         \/ QueryMoves /\ Logs!NothingQueried(c)
         \/ QueryMoves /\ Logs!QueryNATLogs(c)
         \/ QueryMoves /\ Logs!RequestFails(c)
         \/ QueryMoves /\ Logs!Stop(c)
    \/ PlanMoves /\ Plan!Announce
    \/ PlanMoves /\ Plan!Scan
    \/ PlanMoves /\ Plan!NextSecond
    \/ LinesMove /\ Lines!ParserNext

Spec == Init /\ [][Next]_vars /\ Threat!ThreatFairness

-----------------------------------------------------------------------------
\* The variables of the service that moves have their types.
TypeOK ==
    CASE part = "login"   -> Login!TypeOK
      [] part = "cache"   -> Cache!CacheTypeOK
      [] part = "threat"  -> Threat!ThreatTypeOK
      [] part = "upgrade" -> Upgrading!UpgradeTypeOK
      [] part = "query"   -> Logs!QueryTypeOK
      [] part = "plan"    -> Plan!PlanTypeOK
      [] part = "lines"   -> Lines!ParserTypeOK

\* A source is never counted more failures than the limit and the logins that may pass
\* the check beside the one that reaches it (loginLimiter.check, recordFailure).
FailuresAreBounded == part = "login" => Login!FailuresAreBounded

\* An entry of the cache is loaded by one request at most, and nobody waits for a load
\* that no request is busy with (responseCache.Get, Clear).
SingleFlight == part = "cache" => Cache!SingleFlight

\* The cache answers with values of the engine in use once a reload has cleared it
\* (App.reloadIPDataFromSettings, responseCache.Clear).
CacheIsOfThisEngine == part = "cache" => Cache!CacheIsOfThisEngine

\* A saved credential can be decrypted with the key in the file
\* (CredentialCipher.loadOrCreateKey).
SavedCredentialsAreReadable == part = "threat" => Threat!SavedCredentialsAreReadable

\* The previous result of an analysis stays the newest until it saves its own
\* (Service.Analyze).
PreviousIsLatest == part = "threat" => Threat!PreviousIsLatest

\* Everyone who joins an analysis is answered (Service.Analyze).
EveryCallerIsAnswered == Threat!EveryCallerIsAnswered

\* The status says running exactly while one task of this process goes on
\* (App.startUpgrade, startUploadedUpgrade).
RunningIsReal == part = "upgrade" => Upgrading!RunningIsReal

\* A test build is offered an eligible release whose version no eligible one of the list
\* exceeds, whatever the order of the list (fetchLatestUpgradeRelease, releaseVersionIsNewer).
NewestIsOffered == part = "upgrade" => Upgrading!NewestIsOffered

\* Paging returns no row twice (BuildQuerySQL, nextCursor).
NoRowTwice == part = "query" => Logs!NoRowTwice

\* Paging leaves out no row that every page might have returned (BuildQuerySQL).
StandingRowsAreReturned == part = "query" => Logs!StandingRowsAreReturned

\* Without skipped dates the total is that of the whole range (BuildVisibleRanges).
TotalIsWhole == Logs!TotalIsWhole

\* On a regular schedule the scheduler scans when it was announced, or at the midnight
\* before if the interval does not divide the day (BuildAutoScanPlan, DueAutoScanTime).
PlanIsKept == part = "plan" => Plan!PlanIsKept

\* A row without a year in its line is within half a year of its archive
\* (parseSyslogTimestamp).
YearIsNear == part = "lines" => Lines!YearIsNear
=============================================================================
