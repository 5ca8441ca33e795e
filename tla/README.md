# Verification of fwlog

fwlog receives NAT logs of firewalls, archives them per day, imports the
archives into ClickHouse, and answers queries and dashboards about them.  This
directory holds TLA+ models of the parts of the server whose correctness
depends on the order of steps, on failures and on restarts; TLC checks them on
small instances, and TLAPS proves the safety properties that they check for every
value of the constants.

1. [The system](#the-system)
2. [Modules and runs](#modules-and-runs)
3. [The models and the code](#the-models-and-the-code)
4. [Proofs](#proofs)
5. [Findings](#findings)
6. [Limits](#limits)
7. [Plan](#plan)

## The system

The server is one Go process (`cmd/fwlog/main.go`, `internal/server`), beside
one ClickHouse server and a web front end.

| Component | State it keeps | Operations | Correct when |
|---|---|---|---|
| Date import: `importer/importer.go` `ImportDate`, `importFile` | partitions of one (source, date) in `nat_logs` and the aggregates, rows of `ingest_dates` and `ingest_files` | drop partitions, load batches, write progress and outcome | an outcome shown is the newest row and matches the data; a date broken off is imported again |
| Ingest states: `storage/clickhouse/ingest_state_store.go` | append-only state rows, the newest decides | write, read, start-up repairs | repairs never turn an incomplete date into a complete one |
| Import coordinator: `importer/coordinator.go` | set of running sources, two semaphores | `Start`, `WithWriteSlot` | one import per source, no slot lost, every call reported once |
| Automatic scan: `server/auto_scan_scheduler.go`, `importer/auto_scan_plan.go`, `importer/auto_scan_scheduler.go` | `last_auto_scan_at` in memory and in `app_settings` | tick, record | a scheduled time is recorded only after all of its imports succeeded, and every one of the day is scanned |
| Import requests: `server/import_controller.go` | none of its own | background imports, rebuilds, completed-date skip | storage ids are not imported twice at once |
| Schema migration: `storage/clickhouse/migrations.go`, `store.go` | tables of the database | DDL, copy, validate, swap | no row is lost and none is hidden when the service runs |
| Receiver: `receiver/rsyslog.go`, `routing.go` | listeners, routes, statuses, spool writers | apply sources, route a message, close | a line of a configured client reaches the spool file of its source, once |
| Archiver and retention: `receiver/archive.go`, `server/rsyslog_archive_scheduler.go` | spool files, archives | compress closed days, remove expired archives | no line lost or archived twice; nothing removed before it is imported |
| Response cache: `server/dashboard_cache.go` with `dashboard_adapter.go`, `access_trend_adapter.go` | entries with a value, a time and a load in flight | get, clear | one load at a time per key, no waiter forgotten, the answer is of the question |
| Settings: `server/settings_controller.go`, `storage/clickhouse/settings_store.go` | map in memory, rows of `app_settings` | normalise, save, apply | memory, store and receiver agree |
| Upgrade: `server/upgrade_service.go`, `upgrade_upload.go` | status | check, run, upload | one runner; nothing is installed unchecked |
| Sessions and MFA: `server/session_auth.go`, `setup_controller.go`, `mfa_controller.go`, `security/` | password hash, second factor, recovery codes, pending secret, challenges, token version | setup, login, second factor, change, disable, logout | a code or challenge is used once, invalidated tokens stay invalid, what is in memory is saved |
| Login limiter: `server/session_auth.go` | failures per network source, slots for logins | check, record, reset | a source gets a bounded number of guesses |
| Threat intelligence: `threatintel/`, `server/threat_intelligence_*.go` | saved results, one flight per address | analyse, test, configure | one call per flight, its result saved once |
| Queries: `query/service.go`, `server/query_adapter.go`, `storage/clickhouse/store.go` | slots for queries; a cursor with the client | list states, count, read a page | pages neither repeat nor leave out rows while dates are imported |
| Scan plan: `importer/auto_scan_plan.go` | none | announce the next scan, find one due | the two agree |
| Log parser: `importer/log_parser.go` | none | a row of a line | a row is near the date of its archive |
| Dashboards, trend, IP data, health, configuration, MCP, routing, TLS | none that changes together | sums, conversions and lookups | - |
| Web front end, browser extension, packaging, scripts | - | - | - |

How they interact: HTTP handlers and two tickers (30 s for the automatic scan,
60 s for the archiver) run concurrently in the process.  Both the ticker and
the handlers start imports through the coordinator, whose workers run
`importArchivedDatesBefore` or one request's dates, up to two dates of a source
in parallel, each an `ImportDate`; batches are written inside `WithWriteSlot`.
The receiver appends lines to spool files, which the archiver compresses into
the directory the importer scans; retention asks the date states before it
removes an archive.  Settings decide sources, schedule and receiver, and are
read from a map under `App.mu`; a save writes the database, then the map, and
then has the receiver apply the sources that the map holds at that moment,
without anything that keeps two saves apart.  Saved address data replace the
engine of the lookups and clear the response cache.  The account, the threat
settings and the status of upgrades are used by their own handlers only.  The
process is run by systemd with `Restart=on-failure`, `RestartSec=5`
(`packaging/systemd/fwlog.service:31-34`), and at every start `EnsureTables`
repairs and migrates the database before anything else.

What is hard: statements that fail with or without effect, contexts that
expire in the middle of an import, crashes between two statements that belong
together, rows written within the same second, names and storage ids that part
ways, goroutines that must return slots and report on every path, and values
checked under a lock and used after it: routes, codes, credentials, entries of
the cache, states of dates between two pages.
`PROJECT.json` lists these hazards one by one with the line where each bites.

## Modules and runs

| Module | Models | Theorems in |
|---|---|---|
| `IngestStates` | state rows, which row a reader sees, the three start-up repairs | |
| `DateImport` (extends `IngestStates`) | `ImportDate` of one date against a faulty database, crash and restart | `DateImportProofs` |
| `DateLedger` | abstract: what readers of a date's state are promised | `DateImportProofs` |
| `ImportCoordinator` | `ImportCoordinator` with calls, worker goroutines, writers | `ImportCoordinatorProofs` |
| `ImportBoard` | abstract: atomic claims, one outcome each, one report per call | `ImportCoordinatorProofs` |
| `AutoScan` (instantiates `ImportCoordinator`) | scheduler, recorder goroutines, requests, renames, crash | `AutoScanProofs` |
| `NatLogsMigration` | `EnsureTables`' handling of `nat_logs` | `NatLogsMigrationProofs` |
| `SpoolArchive` | receiver's spool writer, archiver, retention and imports of one source, over days | `SpoolArchiveProofs` |
| `SpoolReceiver` | saves of sources, `ApplySources` and `Close`, listeners, connections and messages, with the locks | `SpoolReceiverProofs` |
| `Accounts` | setup, password, second factor, recovery codes, challenges, tokens, and their saves | `AccountsProofs` |
| `LoginLimiter` | slots and failures of logins | `ServicesProofs` |
| `ResponseCache` | the cache of rankings and trends, with reloads of the address data | `ServicesProofs` |
| `ThreatAnalysis` | analyses that share a flight, settings and the key file | `ServicesProofs` |
| `Upgrade` | runs and uploads, order of versions, choice of release and package | `ServicesProofs` |
| `NatLogQuery` | a query by cursor beside imports | `ServicesProofs` |
| `ScanPlan` | the announced and the due time of a scan | `ServicesProofs` |
| `LineParser` | the time of a row | `ServicesProofs` |
| `Services` | one behaviour per service: composes the seven modules from `LoginLimiter` on | `ServicesProofs` |
| other `MC*` | values for the constants | |

| Run | Asks | Bounds | Result |
|---|---|---|---|
| `date_import_faults` | are outcomes the newest rows, and clean imports exact, whatever happened before? | two archives, two tables, two faults, three attempts | holds |
| `date_import_ledger` | do syncs implement the abstract ledger, and is every readable date completed? | two archives of any kind (none, blank, noise, one or two batches), one fault, fair | holds |
| `date_import_rebuild_loss` | is a complete date's data intact under rebuilds? | one fault | violated: finding 1 |
| `coordinator` | exclusion, slots, reports, implements `ImportBoard` | two calls, two sources, two writers, one slot of each kind, two batches | holds |
| `auto_scan` | is a scheduled time recorded only when earned, and is every time of the day recorded? | one or two names, two calls, two scheduled times, one request or edit, one failure, one crash, fair | holds |
| `migration` | every row served, nothing destroyed, the service comes up | three rows, four faults anywhere but inside the swap, fair | holds |
| `migration_half_swap` | the same with a stop inside the swap | one fault | violated: finding 2 |
| `spool_archive` | is a line written in time never lost, multiplied only by faults, and imported in the end? | two lines, three days, one day of retention, one fault or crash, fair | holds |
| `receiver` | are the routes those of one configuration, and do lines, connections and saves keep to them? | two savers, two messages or connections, four configurations of three endpoints, two saves, two messages, one fault | holds |
| `receiver_deadlock` | does a save end? | one saver, one message, fair | violated: finding 3 |
| `accounts` | single use of codes and challenges, one setup, rejected tokens, saves | six requests, two at a time, three secrets and sets of two codes, one failed save or restart | holds |
| `services` | what each of seven services promises (below) | small, per service (below) | holds |

The properties of `services`: a source gets no more failures than the limit and
the logins that pass the check together (`FailuresAreBounded`); one load per
entry of the cache, and nobody waits for a load that nobody does
(`SingleFlight`); a cleared cache never answers with the old address data
(`CacheIsOfThisEngine`); a saved credential can be decrypted
(`SavedCredentialsAreReadable`); an analysis compares itself with the newest
one before it (`PreviousIsLatest`), and everyone who joins is answered
(`EveryCallerIsAnswered`); the status says running exactly while one upgrade of
this process is (`RunningIsReal`), and a test build is offered a release that no
eligible one exceeds (`NewestIsOffered`, by a comparison said apart from the
code's); pages repeat no
row (`NoRowTwice`), leave out none that stood still
(`StandingRowsAreReturned`), and their total has no gap between days
(`TotalIsWhole`); on a schedule that both computations read alike a scan is due
when it was announced and none before, where an interval that does not divide the
day begins anew at midnight (`PlanIsKept`); a line without a year is within half a year of its archive (`YearIsNear`).

### Why the bounds are enough

*DateImport.*  Two archives give a file that succeeds and one that fails or
has nothing, in both orders; two tables stand for "the logs" and "an
aggregate", so that partial drops and partial inserts exist; two batches give
an import that stops between batches of one file.  Two faults and three
attempts give an import that breaks off, a second that breaks off on top of
it, and one that must repair both.  `MaxTick` bounds only the clock's own
steps: rows of one second (the interesting case) need none, and rows of
different seconds one.

*ImportCoordinator.*  Two calls for two sources and one slot give every kind
of competition: for a source, for the source slot, and, with two writers, for
the write slot.  A task with more writers repeats what two do.

*AutoScan.*  Two scheduled times are the least for which a record of an older
one can meet a newer one.  Deadlock is not checked in the runs that bound
faults, requests or times, since those systems rest when nothing is left to
do.

*NatLogsMigration.*  A subset of three rows is enough for copies that are
empty, partial and complete, with an import in between; faults may fall on
every statement of two consecutive starts.

*SpoolArchive.*  Two lines give a line in time and a late one of the same or
of another day.  With one day of retention, day 1 is archived on day 2 and
expires on day 3, where the archive of day 2 is made; one fault puts the
archive of a day under two names.

*SpoolReceiver.*  Two savers are two saves that overtake each other, with a
third state of the world before them.  The four configurations have between
them an endpoint that is kept, one that is new, one that goes, one that shares
its port with one that goes, two rules for one client, and two rules that a
start refuses.  Two workers are a connection that is accepted while another
reads, or a message beside one.

*Accounts.*  Two requests at a time, of any kind, with a save in the
background; six requests are a setup, an enable, a login in two parts, and a
change between them.  Three secrets and sets are one in use, one pending and
one made anew.  Requests and passwords are symmetric.

*services.*  Three logins of two sources for two slots: one over the limit
beside one that reaches it, and a source that is not concerned.  Two requests
for one key and two reloads: one loads, one waits, and a clear falls between
any two steps.  Two analyses and two updates: one starts and one joins, two
first credentials race for the key file, with one failure or restart anywhere.
Two upgrade jobs, and listings in which the newest release is first or last, is
smaller in a later number, a draft is newer still, or the assets are not complete.
Four rows: two of one second in
one file, two of one second in two sources, two of two days; a page of one row
puts a cursor on each.  Schedules over three days of six seconds, the least
interval the scheduler takes being two: no interval, one below the least, ones
that divide the day (2, 3, 6) and that do not (4, 5), one longer than the day, and
clocks at midnight, in the last second, one given twice and one list out of
order.  Three years of five days, one a leap year: every stamp in
every archive.

### Fairness

Weak fairness only.  `WF(ImportStep)`, `WF(Import)`, `WF(Proceed)`, `WF(Report)`,
`WF(Record)` and the like: a goroutine that can take a step takes it, which is
what Go's scheduler gives; what a goroutine waits for in the code is a channel
operation that the model disables.  It is enough for the semaphores because the
models have finitely many tasks and batches, so that a slot that is taken over
and over is free for good in the end; that a real queue of senders is served in
order is not used.  `WF(Sync)` and `WF(Tick)` are the tickers.  `WF(StartUp)`
and `WF(Start)` are the start of the service and its restart by systemd; the
models bound the number of crashes, as the unit's start limit does.  In
`SpoolReceiver` what is under way goes on, of saves and of messages, also after
a wait for a lock.  In `ThreatAnalysis` a flight goes on
(`WF(FlightStep)`): its calls to the database and to the provider are under a
context with a time limit, so each ends.  No fairness is assumed for requests,
edits, faults, the clock, clients, or the appearance of archives.

## The models and the code

**DateImport.**  `pc` is the next statement of `ImportDate`: `drop` (one per
table, then the one-second sleep), `start` (the importing row), and per file
`progress`, `file`, `load`, `fileDone`, `fileProgress`; then `finish`, or on
an error `failFile` / `failUnrecognized` and `failDate`.  `Statement` is one
statement against the database: it takes effect and succeeds, fails with or
without effect, or is refused because the context is done - the failure rows
use the same context and are refused too (`importer.go:234-239`).  `job` holds
the locals with the code's meaning: `at` is `dateUpdatedAt`, `fileAt`
`fileUpdatedAt`, `noise` `unrecognized`.  A crash loses `job` and leaves the
rest; restart goes through the three repairs, which are statements as well.
Data is counted in batches per archive and table.  The content of an archive is
a number of batches and whether it is blank: this is all `ImportDate` learns
from the parser.

**IngestStates.**  A reader takes the row that is maximal under
(updated_at, priority of status) (`Newer`, `IsLatest`); two rows that tie may
both be returned, so the operators that depend on one are sets or relations
(`FinishedFull`, `MayClearFile`).

**ImportCoordinator.**  A task is a pair of a call and a source; `step` is
where its goroutine is (`waiting`, `working`, then the three deferred steps
in the code's order: result sent, slot freed, source released).  `writing` is
the state of each writer's `WithWriteSlot`.  `Report` is the collector.

**AutoScan.**  Uses the coordinator without writers.  `last` is
`last_auto_scan_at` in memory, `saved` in the store; the recorder goroutine
compares, sets, reads back and saves in separate steps
(`auto_scan_scheduler.go:57-84`).  `sources` maps names to storage ids, which
survive a rename (`inheritStorageSourceIDs`).

**NatLogsMigration.**  One action per statement; a table is a schema and a
set of rows.  A fault is an error, which ends the process (`server.go`), or a
stop; both restart at the DDL.  The rename of two tables is two steps, since
the database executes it so; `StopsInSwap` says whether the server may stop
between them, so that one run shows what happens then and the other that
nothing else goes wrong.

**SpoolArchive.**  `Receive` is the `time.Now()` of `appendSpoolMessage`,
`Append` the writer under its lock; between the two a message is `waiting`.
`file` is the open file: an unlinked one takes lines and loses them, as on the
production system.  A run has its time (`Tick`) before it has the lock
(`Begin`), and then goes through `list`, and for each closed day `day` (the
target exists: `Discard`; it does not: `Copy`), `publish`, `remove`; then
`expire` and `delete`.  A fault of any step ends that day's work, and the next
day goes on, as in the code.  `Receive` takes the lines in the order of their
numbers, which loses nothing since lines differ in nothing else.  The import of
a day is reduced to what `DateImport` shows of it: it drops, loads, and is done
or failed; rebuilds are left out here (finding 1 says what they can do, and
retention would make the loss permanent).  `Midnight` waits for messages and
runs of the day before: neither takes longer than a day.

**SpoolReceiver.**  A saver is a request that saves settings: `Store` writes the
database, `ApplyInMemory` the map, `CurrentLogSources` reads the map, and the
rest is `Manager.ApplySources` with what was read.  It holds `Manager.mu`
(`mgr`) from `Open`, where sockets are bound, over `RequestRoutes` and
`UpdateRoutes`, one kept listener at a time, to `Swap`, where listeners and
statuses are exchanged; `CloseListener`, `Reconcile` and `Serve` follow without
it.  Sections that only look something up are one step.  A worker is a message
of a UDP loop or a TCP connection.  It reads its route under the read lock of
the listener's routes and holds it until the line is recorded
(`rsyslog.go:327-341`), for which it takes `Manager.mu`; as with Go's RWMutex,
a writer that waits keeps new readers out (`Wanted`).  `Open` takes unused
listeners for the endpoints that have none (`NewListeners`); a model has enough
of them, as memory has.  Two endpoints of one
port cannot be bound at once unless their addresses are apart (`Taken`).
Routes are sets of rules, of which the most specific decides (`Match`, `Rank`).

**Accounts.**  `db` and `mem` are the two copies of password, factor and codes;
`pending` the secret that `MfaSetup` shows, `challenges` the checks of a
password that wait for the second factor, with whether they are still in time.
A request goes from `Begin` to `End`; between the steps it holds no lock,
except `setupMu`.  The steps of a change are the code's: save, apply in memory,
clear the pending secret, invalidate.  `VerifyCode` takes a code out of the
memory under the lock and leaves the save to a goroutine, which may be late,
overtake another or fail (`PersistRecoveryHashes`).  A token is its process and
version; a process accepts tokens of others only if the key is kept in a file
(`keyKept`).  `overlap` and `undone` note that two saves met, or that one
failed, since the start: what memory and database then are is not promised.
Settings are saved key by key in no fixed order (`settings_store.go:43-50`), so
a save that fails or that a stop cuts off may have written any of its keys
(`PartlyChanged`).

**LoginLimiter.**  `Admit` takes a slot, `Check` asks the limiter, and `Wrong`,
`Right` and `Undecided` tell it, after the hash.  `RecordFailure` also sweeps
entries whose time is over.

**ResponseCache.**  `Look` finds or makes the entry, then the request serves a
value that is fresh, waits for the load under way, or loads.  `TakeEngine` is
the loader's read of the engine; `StoreValue` and `StoreError` put the result
into the entry the request holds, which is in the cache or was cleared meanwhile
(`cached`).  A failed load keeps an older value in use for a second where stale
answers are allowed (`staleOnError`: rankings, not trends).  `Clear` is the end
of a reload, after the engine was replaced.

**ThreatAnalysis.**  `Analyze` starts a flight or joins one; the flight reads
the previous result and the settings, calls the provider, and saves.  An update
encrypts under a key that `ReadKey` and `CreateKey` find or make
(`O_EXCL`); a file that is shorter than a key is waited for, for a second
(`WaitForKey`), and a failed write removes it.  A save of settings that fails, or
that a restart cuts off, may have written any of its keys (`PartlyUpdated`).

**Upgrade.**  A job is a request and the task it becomes.  `status` alone keeps
two tasks apart; a panic of a run sets it to failed, a restart forgets it.  The
package manager runs in a unit of systemd and may outlive the process
(`Outlived`, `UnitEnds`); the next process does not see it.  `Newer`, `Latest`, `SelectedFormat` and `Missing` are the functions of the same
purpose, over versions as sequences of numbers.

**NatLogQuery.**  One client per query; each request reads states, count and
page in three statements, between which imports drop, load and finish dates.
`Before` is the order of the pages and `After` the condition of the cursor; a
page is a set, the first `PageSize` of the rows that are `Left`, and there is a
cursor only if more than a page is left, as the row read beyond it tells.
`standing` are the rows that every page so far could have returned: the
property asks for these only, since others came or went meanwhile.

**ScanPlan** and **LineParser** are algorithms: `NextAt` and `DueTime`, and
`RowTime`, computed over a calendar whose lengths are constants.  A schedule is a
sequence of clocks in the order of their texts, which is how the code sorts them,
or else an interval, any number of seconds, with 0 for a setting that is no
positive number.  `DaySlots` are the times of the day at hand that the scheduler
looks at.  `Regular` are the schedules that both computations read alike: clocks
whose texts are in the order of the times, an interval of a minute or more.

## Proofs

Every safety property and every refinement that a passing run checks is also
stated by a theorem (`PROJECT.json` lists them); each is about the specification
that the run checks, and assumes only what its module assumes of the constants
unless the theorem says more.

`DateImportProofs`, first part: `TypeCorrectness` and `OutcomeIsNewest`
(`Spec => []TerminalWins`).  Assumptions are those on the constants in
`DateImport`: finite archives, contents that agree with themselves, at least
one table, natural bounds - the bounds may be any number, so the theorem
covers any number of faults and attempts.  `TerminalWins` speaks of a moment
(ImportDate just returned) and is not inductive; the invariant adds
`Ordered` (every set of rows of a date and file has a newest row),
`Pending` (while archives are imported some are left), `Quiet` (no import, no
locals), and the heart of it, `JobIsNewest`: while an import runs no row of the
date is later than `job.at`.  Each statement either raises `job.at` with the
row it writes or writes one that is older, so the terminal row, taken one
second past `job.at`, is the newest (`terminalStateTimestamp`).

Second part: `CleanImports` (`Spec => []CleanImportIsExact`), for every set of
archives.  The invariant `CleanInv` follows the import from the first partition
dropped: what is dropped is empty (`Dropped`), and as long as no statement has
failed each table holds of each archive what this import has sent, and in all
what its counter says (`Loaded`), and the newest state of each archive done
reports its rows (`Filed`).  `NothingAside` is needed for the archives that no
import has read: their states report nothing.  "In all" is a sum over the
archives, a recursive function on sets.  That the function exists, that a batch
adds one to the sum, and that a table of empty archives sums to nothing
(`SumsExist`, `TotalAdds`, `TotalOfNothing`, `TotalOfOneMore`) are proved
through a minimal counterexample: a set of archives for which the claim fails,
none smaller of which does, exists by `WFMin` on finite sets.

Third part: `LedgerIsKept` (`Spec => LedgerSpec`, step by step) and
`DoneStaysIntact`, which both assume `MaxFaults <= 1` and no rebuild.  Neither
may be left out: a rebuild gives finding 1, and two faults the disagreement
named below.  What makes the start-up repairs harmless is that the full
importing row that `RepairFull` completes can only be of an import that was
done with every archive (`Own`).  So the invariant `LedgerInv` says, as long as
nothing has failed, that the newest row is an outcome (`Rested`) or of the
import under way (`UntilFault`); of what the one fault leaves, that the repair
of dates finds intact ones only (`Repairable`), and that of files none whose
clearing is seen (`NothingToClear`); and that syncs start only on dates that
are not complete, later than every row of theirs (`Incomplete`,
`StartsLater`).

`ImportCoordinatorProofs`: `TypeCorrectness`, `Exclusion`, `Accounting` and
`Implementation`, for every set of sources, calls and writers and every
capacity.  The inductive invariant conjoins the properties themselves with
`TasksAreAccepted` (a goroutine exists only for an accepted source) and
`WritersAreInside` (a writer that is not idle belongs to a worker at work).
Slots are counted by cardinality: every step adds to or removes from `InSlot`
one task, or leaves it.  `Implementation` maps `held` to the unreleased tasks,
`lost` to the results heard or to be heard as failures, and `report` to the
collector; steps on slots and writers stutter.

`AutoScanProofs`: `OnlyEarnedTimes` (`Spec => RecordIsEarned`), an action
property.  The invariant says that a call reported a success has the result of
every source that it accepted (`SuccessIsWhole`), and that a recorder belongs
to a call that was started and accepted no more than it was asked for
(`ScansAreCalls`); the recorder compares the two before it records.
`NamesAreImportedOnce` proves of the composition what `Exclusion` and
`Accounting` prove of the coordinator alone: calls are used again once they are
over (`Forget`), which needs that a call is reported only when its collector
has heard all of it, and a crash leaves no task under way.  It is about names;
of storage ids the known disagreement on renames says what can happen.
`TypeCorrectness` adds that no scan, record or saved value is of a time to
come.

`NatLogsMigrationProofs`: `NothingLost` holds even for stops inside the swap;
`ServiceHasAllRows` assumes `~StopsInSwap`, which finding 2 shows to be needed.
The invariant says which tables each statement finds (`Expected`); for the
second theorem it adds where all the rows are, and in which schema, while
nothing has stopped between the renames (`Whole`).

`SpoolArchiveProofs`: `PromptLinesAreKept`.  A line is safe in three ways, in
turn: in its spool file, in an archive, in the database.  The step between the
first two is the hard one, since a run removes the spool file after it has
published an archive or found one of the same name.  `ArchivesKeepUp` says that
an archive has every prompt line that is still in the spool file of its day,
since none is written after the day (`Times`); `Kept` that a prompt line that
left its spool file is in the first archive of its day, or in one beside which
none will be made.  `Oldest`, `Importing` and `Imported` carry it past
retention, which removes only archives of days that are imported: an import
reads, of the archives of a day, one with the line.

`CopiesCost` (`Spec => []CopiesCostFaults`) counts: a line has at most as
many archives as there were faults while its spool file is still to be
archived, and at most one more once it is not (`Copies`); while a day is loaded, the rows of a line and the
archives with it that are left to read are together no more than that
(`Loaded`).  A line that waits for its writer is nowhere yet, and what a run has
copied is in the spool (`Unwritten`), so that no step adds a copy for free.

`SpoolReceiverProofs`: `ListenersOfOneConfiguration`, `ClosedListenersLetGo`,
`QuietSavesAreApplied` and `LinesAreFiledByTheirRoutes` (an action property),
for every number of savers, messages, connections, listeners and
configurations.  The invariant has the saver that holds `Manager.mu`
(`LockInv`); listeners in the map open and no others about to be closed
(`ListenersInv`); and, under the lock, a configuration of which a part is
applied: what was opened has its routes (`FreshInv`), and so has what is not
left to update (`UpdatedInv`), so that the swap leaves the listeners of this
configuration (`RoutedInv`).  `QuietInv` carries the configuration of a save
that has met no other from the database to the memory and the receiver, and
`WorkInv` is about messages and connections at a listener: the one with the
read lock has the source that the routes give, and of a closed listener there
are only connections that are closed or not tracked yet (`Orderly`).

`AccountsProofs`: `CodesWorkOnce`, `ChecksWorkOnce`, `SetupWorksOnce`,
`SavedWhenQuiet` and `RejectionIsFinal`, for every number of requests, sets of
codes, failures and restarts.  `FreshCodes` says that codes about to come into
force are unused and of a set of their own, and that a used code is not in
memory; `Checks` that a challenge, a request on its way in and an admission of
one check of the password exclude each other; `Setups` that one setup at most
is past the lock, and only without a password; `Together` relates the two
copies through the save under way.

`ServicesProofs`: the properties of the run `services`, of the same
composition.  Each service has an invariant of its own; the lemmas about steps
say that only one service moves, so that the others keep theirs.

- `LimitHolds`, by counting: the failures of a source within the cooldown and
  the logins of it that are past the check are together at most the limit and
  one less than the slots (`RoomIsLeft`); slots in use are the logins under way
  (`SlotsAreCounted`).
- `OneLoadAtATime` and `CacheFollowsEngine`: an entry that is being loaded names
  the request that loads it (`LoadersAreReal`), and unless a reload is between
  its engine and its clearing, what is computed for an entry of the cache is
  computed with the engine in use (`LoadsAreOfThisEngine`).
- `CredentialsStayReadable` and `PreviousStaysLatest`: one update at a time
  makes a key, in the file that it has created (`OneMaker`), and unless a
  complete key was removed the keys in hand are that of the file
  (`HeldKeysAreOfTheFile`); one flight at a time.
- `StatusIsOfTheTask` and `OffersTheNewest`: the status is running exactly if
  there is one task of the process that goes on (`OneTask`).  That the choice of a release is
  the newest of any list is an induction over the list, from the order of
  versions being transitive and agreeing, for eligible releases, with `Exceeds`,
  which looks for the first number that differs.
- `PagesShareNoRow`, `PagesLeaveOutNoRow` and `TotalsAreWhole` (an action
  property): the rows returned are those up to the cursor, those that stood
  still among them (`PagesFit`), by the order of rows being total; a page has a
  last row since it is finite.
- `AnnouncementIsKept`: what was announced is what the computation gives for a
  second that has been (`TurnOf`); the slots due at a later second before it were
  there when it was announced, and at it the last slot due is the announced one.
  No interval is excluded but those that the scheduler clamps or ignores; of one
  that does not divide the day it is shown up to midnight and of the scan at
  midnight, where the two computations part (known disagreements).
- `RowsAreNear`, for every calendar with at most one leap day a year: the first
  days of neighbouring years are apart by `YearDays` or one more.

Inductions over numbers and lists use that a set of naturals has a least
member (`LeastExists`, `LeastMember`), which `WFMin` gives; the induction
theorems of the library take an operator as their parameter and cannot be
applied here.

The type invariants of modules with a proof, `RunningIsExact` and
`WritesAreInside` of the coordinator, and `DoneIsIntact` without rebuilds are
proved and not checked in the passing runs again.

Model-checked only: liveness, which needs fairness and `ENABLED` and is out of
the prover's reach (`Recovers`, `EveryCallReports`, `EverySourceIsFreed`,
`EverySlotIsRecorded`, `IsServed`, `PromptLinesAreImported`,
`EveryCallerIsAnswered`), and the three violations of the findings.

## Findings

1. *A rebuild that stops after a dropped partition keeps the old ready state*
   (`importer.go:158`).  Only a failed DROP marks the date failed; a crash, an
   expired context or a failed importing row does not.  The date is shown
   complete over missing data, and syncs skip it.  Run
   `date_import_rebuild_loss`.
2. *A stop inside the swap is not detected* (`migrations.go:50`).  The next
   start creates an empty dual-stack `nat_logs` and takes it for migrated.  Run
   `migration_half_swap`.
3. *A save and a message can block each other for ever* (`rsyslog.go:133`).
   `ApplySources` updates the routes of a kept listener under `Manager.mu`, and
   waits for its readers; a message holds the read lock and waits for
   `Manager.mu` to be recorded.  The receiver stands still from then on.  Run
   `receiver_deadlock`.

Known disagreements without a run of their own:

- *A stop before the failure rows turns noise into an empty day*
  (`importer.go:292`; `release-notes/v2.1.0.md:10` says that it is shown as
  failed).  The last progress row says 100 %, and the start-up repair completes
  it.  `date_import_ledger` has the crash, and its ledger allows a date of
  noise to be shown complete after one.
- *A renamed source can be imported twice at once* (`import_controller.go:364`).
  The busy check goes by name, the data by storage id.  `AutoScan` has the
  rename; no property of a run excludes the second import.
- *Retention looks at a date on one day only*
  (`rsyslog_archive_scheduler.go:57`).  States are loaded from the day before
  the retention on, and only older archives are removed: an archive imported
  later, or whose day of removal the service missed, stays for ever.
- *With two faults the ledger is violated even without rebuilds*: an older
  import leaves a full importing row, a later one breaks off while dropping,
  and the start-up repair completes the older row over partly dropped tables.
  `date_import_ledger` therefore allows one fault.
- *Late lines* - stamped before midnight, written after the archiver has copied
  the file - are lost in `SpoolArchive` in two ways: written to the unlinked
  file, or to a new one that the next run of the day takes for a duplicate of
  the archive (`archive.go:104`).  `PromptLinesSurvive` is therefore stated for
  lines written while their day lasts; the window is the time between
  `time.Now()` and the writer's lock.
- *Saves that overlap* may leave memory, database and receiver apart until the
  next save: of sources (`settings_controller.go:56`), of codes and of the
  second factor.  `QuietSaveIsApplied` and `QuietAccountIsSaved` leave them out.
- *An interval that does not divide the day is not announced as it comes.*  The
  announcement counts on past midnight (`auto_scan_plan.go:75-81`), the scheduler
  begins anew there (`auto_scan_scheduler.go:55-61`): at 23:00 an interval of
  seven hours is announced for 04:00, but 00:00 is found due, and 04:00 is not.
  `PlanIsKept` therefore goes up to that midnight and has the scan there.
- *Schedules the two computations read apart*: clocks are sorted as texts, so
  that "9:00" comes after "10:00" and the announced clock need not be the next;
  the scheduler takes no interval below a minute, the announcement does
  (`auto_scan_scheduler.go:52`); and an interval that is no positive number is
  announced with a default but never due (`auto_scan_plan.go:71`,
  `auto_scan_scheduler.go:48`).  `ScanPlan` has these schedules; `Regular` keeps
  them out of the property.
- *A package manager that outlives its process* (`upgrade_service.go:302-319`)
  may still run when the next process, whose status is idle, begins another
  upgrade.  `Upgrade` has it; `RunningIsReal` is about tasks of one process.
- *A loader of the cache that panics* leaves its entry loading
  (`dashboard_cache.go:98`); a panic during the installation of an *uploaded*
  package is not recovered and ends the process; a process that dies while it
  writes the key file leaves a short one that nothing removes
  (`credentials.go:106`).

## Limits

*Import.*  Merges of `ReplacingMergeTree` enter only through `Decisive`: rows
are read with FINAL or argMax.  Legacy rows are those of one earlier version.
Retry counters and error texts are left out.  A statement whose client is gone
ends with it: ClickHouse may in truth go on with a copy for a while.  The scan
of archives returns what is there and idle; the idle rule and name patterns are
not modelled.

*Receiver.*  The texts of a status, and the results of archive runs in it, are
left out; a `Close` counts as a save, and a save that fails leaves the stored
sources as they were: they are one key, and nothing is promised after a failure.
Spool files are in `SpoolArchive` only.

*Accounts.*  Left out are the lifetime of a token, the tokens of the MCP scope,
cookies, and hashing; whether a code is right is decided by the request.

*Cache.*  The key of a ranking is one value; that it holds the range as the
request wrote it while the start may come from another parameter
(`dashboard_adapter.go:67`) is not modelled.

*Threat analyses.*  One address, one provider.  A statement that fails takes
effect at once or never: no key is written after the error was reported.
`TestProvider` and `RecordTest` are left out.

*Upgrade.*  A run does not check again that its release is newer, nor that it
fits the system; the handler that reports a newer release does, and it, with
the manifest it reads, is not modelled.

*Queries.*  Paging by number, filters other than source and address, and the
display of records are left out.  No import writes `max_visible_timestamp`, so
a date that is being imported shows nothing.  Rows whose timestamp is outside
the day of their archive are never shown; `TotalIsWhole` leaves them out.

*Scan plan.*  All days have one length: time zones and their changes are left
out, and so are texts that are no clock, which both computations skip, and
intervals so long that nanoseconds overflow.  A change of the schedule after the
announcement is not modelled.

*Parser.*  Only the time of a row; the extraction of addresses, ports and
protocols is not modelled.

Not modelled: dashboard aggregates and the access trend store, which sum rows
without a state of their own; the threat providers, which decode four external
formats; the MCP controller, health, configuration, routing and TLS, which
translate or read; the web front end and the packaging.

## Plan

Done, in this order: `DateImport` with `IngestStates` and `DateLedger`;
`ImportCoordinator` with `ImportBoard`; `AutoScan`, which composes the
coordinator with scheduler and settings; `NatLogsMigration`; `SpoolArchive`;
`SpoolReceiver`; `Accounts`; the seven services; and the proofs of the safety
properties and of the two refinements.

Left, in order of what is at stake:

1. What the ledger promises after a second fault, and with rebuilds: weaker
   than `DateLedger`, but proved for any number of faults.
2. What the busy check does guarantee of storage ids: one import of each as
   long as no source is renamed.
3. Paging by number, and `TestProvider`.
