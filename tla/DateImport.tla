---------------------------- MODULE DateImport ----------------------------
(***************************************************************************)
(* Importing one log date of one storage source: Importer.ImportDate and   *)
(* its callers' skip of completed dates, against a database whose          *)
(* statements may fail (with or without having taken effect), a context    *)
(* that may expire, and a process that may crash and be restarted, with    *)
(* the start-up repairs of EnsureTables.                                   *)
(*                                                                         *)
(* One import of the date runs at a time (the import coordinator is a      *)
(* module of its own).  Rows are counted in batches: content[f].rows is    *)
(* the number of batches of recognised rows in archive f, and              *)
(* content[f].blank says that f has no non-empty line.                     *)
(***************************************************************************)
EXTENDS IngestStates, FiniteSetsExt

CONSTANTS
    Files,        \* archives of the date, as numbers in scan order
    Contents,     \* the contents the archives may have
    NumTables,    \* number of tables that hold a partition of the date
    Requests,     \* requests for this date an operator may make
    Legacy,       \* whether an earlier version may have left rows
    MaxFaults,    \* bound on failed statements, expired contexts and crashes
    MaxAttempts,  \* bound on imports of the date
    MaxTick       \* bound on the clock outside of the importer's sleep

ASSUME FilesAssumption == Files # {} /\ Files \subseteq Nat /\ IsFiniteSet(Files)
ASSUME ContentsAssumption ==
    /\ Contents \subseteq [Files -> [rows : Nat, blank : BOOLEAN]]
    /\ \A c \in Contents, f \in Files : c[f].blank => c[f].rows = 0
ASSUME TablesAssumption == NumTables \in Nat \ {0}
ASSUME RequestsAssumption == Requests \subseteq {"sync", "rebuild"}
ASSUME LegacyAssumption == Legacy \in BOOLEAN
ASSUME BoundsAssumption ==
    MaxFaults \in Nat /\ MaxAttempts \in Nat /\ MaxTick \in Nat

VARIABLES
    clock,      \* seconds
    content,    \* what each archive holds
    archives,   \* archives a scan returns: in the directory, idle for 5 min
    tables,     \* batches of each archive in the partition of each table
    dateRows,   \* rows of ingest_dates for the date
    fileRows,   \* rows of ingest_files per archive
    pc,         \* next step of ImportDate, of the process, or of start-up
    job,        \* locals of the running ImportDate
    expired,    \* the import's context is done
    result,     \* what the last ImportDate returned
    faults, attempts

store == <<tables, dateRows, fileRows>>
world == <<clock, content, archives>>
vars  == <<world, store, pc, job, expired, result, faults, attempts>>

\* In the order in which the importer drops their partitions.
Tables == 1..NumTables

RepairSteps == {"repairFull", "repairEmpty", "repairFiles"}
ImportSteps == {"drop", "start", "progress", "file", "load", "fileDone",
                "fileProgress", "finish", "failFile", "failUnrecognized",
                "failDate"}

\* at: now, later dateUpdatedAt; fileAt: fileUpdatedAt; target: the scanned
\* files; done: filesDone, as the files themselves; rows: totalRows;
\* noise: unrecognized; loaded: batches of the current file sent so far;
\* table: the next partition to drop.
Job == [at : Nat, fileAt : Nat, target : SUBSET Files, done : SUBSET Files,
        rows : Nat, noise : SUBSET [file : Files, at : Nat],
        loaded : Nat, table : Tables]

NoJob == [at |-> 0, fileAt |-> 0, target |-> {}, done |-> {}, rows |-> 0,
          noise |-> {}, loaded |-> 0, table |-> 1]

\* Rows of a version that wrote ready for archives without a row.
LegacyDate == [status |-> "ready", total |-> Cardinality(Files),
               done |-> Cardinality(Files), rows |-> 0, at |-> 0]
LegacyFile == [status |-> "ready", rows |-> 0, at |-> 0]

Init ==
    /\ clock = 1
    /\ content \in Contents
    /\ archives \in SUBSET Files
    /\ tables = [t \in Tables |-> [f \in Files |-> 0]]
    /\ \/ dateRows = {} /\ fileRows = [f \in Files |-> {}]
       \/ /\ Legacy
          /\ dateRows = {LegacyDate}
          /\ fileRows = [f \in Files |-> {LegacyFile}]
    /\ pc = "repairFull"
    /\ job = NoJob
    /\ expired = FALSE
    /\ result = "none"
    /\ faults = 0
    /\ attempts = 0

-----------------------------------------------------------------------------
(* Statements against the database. *)

Current == Min(job.target \ job.done)
Importing == pc \in ImportSteps

Fault == faults < MaxFaults /\ faults' = faults + 1

\* ImportDate returns.
Return(r) ==
    /\ pc' = "idle"
    /\ result' = r
    /\ job' = NoJob
    /\ expired' = FALSE

Goto(step, newJob) ==
    /\ pc' = step
    /\ job' = newJob
    /\ UNCHANGED <<expired, result>>

\* A statement with the given effect on the store: it succeeds, or it fails
\* after or before taking effect, or it is refused since the context is done.
Statement(effect, onSuccess, onError) ==
    \/ ~expired /\ effect /\ onSuccess /\ UNCHANGED faults
    \/ ~expired /\ Fault /\ (effect \/ UNCHANGED store) /\ onError
    \/ expired /\ UNCHANGED <<store, faults>> /\ onError

PutDate(row) ==
    dateRows' = dateRows \union {row} /\ UNCHANGED <<tables, fileRows>>

PutFile(f, row) ==
    /\ fileRows' = [fileRows EXCEPT ![f] = @ \union {row}]
    /\ UNCHANGED <<tables, dateRows>>

\* Mutant: the partitions of the aggregates stay.
DropPartitionOfLogsOnly(t) ==
    /\ tables' = IF t = 1 THEN [tables EXCEPT ![t] = [f \in Files |-> 0]] ELSE tables
    /\ UNCHANGED <<dateRows, fileRows>>

DropPartition(t) ==
    /\ tables' = [tables EXCEPT ![t] = [f \in Files |-> 0]]
    /\ UNCHANGED <<dateRows, fileRows>>

\* A batch inserted into nat_logs reaches the aggregates through their
\* materialized views; one that fails may have reached some of the tables.
AddBatch(f, reached) ==
    /\ tables' = [t \in Tables |->
                    IF t \in reached THEN [tables[t] EXCEPT ![f] = @ + 1]
                                     ELSE tables[t]]
    /\ UNCHANGED <<dateRows, fileRows>>

ImportingRow(j, at) ==
    [status |-> "importing", total |-> Cardinality(j.target),
     done |-> Cardinality(j.done), rows |-> j.rows, at |-> at]

-----------------------------------------------------------------------------
(* ImportDate. *)

\* Mutant: a date left importing is taken for one that is being imported.
SkippedWhenImporting(rebuild) ==
    ~rebuild /\ HasStatus(dateRows, Done \union {"importing"})

\* The callers skip a completed date unless they rebuild.
Skipped(rebuild) == ~rebuild /\ HasStatus(dateRows, Done)

\* ImportDate takes its start time past the row it sees and scans the archives.
Begin(rebuild) ==
    /\ pc = "idle"
    /\ attempts < MaxAttempts
    /\ ~Skipped(rebuild)
    /\ attempts' = attempts + 1
    /\ result' = "none"
    /\ job' = [NoJob EXCEPT !.at = AfterLatest(dateRows, clock), !.target = archives]
    /\ pc' = IF archives = {} THEN "failDate" ELSE "drop"
    /\ UNCHANGED <<world, store, expired, faults>>

\* importArchivedDatesBefore takes the dates from a scan of the archives;
\* importSourceDate takes the date of the request.
Sync    == archives # {} /\ Begin(FALSE)
Request == \E request \in Requests : Begin(request = "rebuild")

MorePartitions == job.table + 1 \in Tables

\* DROP PARTITION of one table; after the last one the importer sleeps for a
\* second.
Drop ==
    /\ pc = "drop"
    /\ Statement(
         DropPartition(job.table),
         IF MorePartitions
         THEN Goto("drop", [job EXCEPT !.table = @ + 1]) /\ UNCHANGED clock
         ELSE Goto("start", job) /\ clock' = clock + 1,
         Goto("failDate", job) /\ UNCHANGED clock)
    /\ UNCHANGED <<content, archives, attempts>>

Start ==
    /\ pc = "start"
    /\ Statement(PutDate(ImportingRow(job, job.at)),
                 Goto("progress", job), Return("error"))
    /\ UNCHANGED <<world, attempts>>

\* The two progress rows of a file carry the bare clock; the job remembers
\* the latest time it wrote.
Progress(step, next) ==
    /\ pc = step
    /\ Statement(PutDate(ImportingRow(job, clock)),
                 Goto(next, [job EXCEPT !.at = IF clock > @ THEN clock ELSE @]),
                 Return("error"))
    /\ UNCHANGED <<world, attempts>>

FileBegin ==
    LET at == AfterLatest(fileRows[Current], clock)
    IN  /\ pc = "file"
        /\ Statement(
             PutFile(Current, [status |-> "importing", rows |-> 0, at |-> at]),
             Goto("load", [job EXCEPT !.fileAt = at, !.loaded = 0]),
             Return("error"))
        /\ UNCHANGED <<world, attempts>>

\* importFile sends the next batch.
LoadBatch ==
    /\ pc = "load"
    /\ ~expired
    /\ job.loaded < content[Current].rows
    /\ AddBatch(Current, Tables)
    /\ Goto("load", [job EXCEPT !.loaded = @ + 1])
    /\ UNCHANGED <<world, faults, attempts>>

\* importFile returns an error: the archive cannot be read, the context is
\* done, or the batch was not (wholly) inserted.
LoadError ==
    /\ pc = "load"
    /\ \/ expired /\ UNCHANGED <<store, faults>>
       \/ ~expired /\ Fault /\ UNCHANGED store
       \/ /\ ~expired /\ Fault /\ job.loaded < content[Current].rows
          /\ \E reached \in SUBSET Tables : AddBatch(Current, reached)
    /\ Goto("failFile", job)
    /\ UNCHANGED <<world, attempts>>

LoadEnd ==
    /\ pc = "load"
    /\ job.loaded = content[Current].rows
    /\ Goto("fileDone", job)
    /\ UNCHANGED <<world, store, faults, attempts>>

\* The file's terminal row.
FileDone ==
    LET at    == After(job.fileAt, clock)
        rows  == job.loaded
        noisy == rows = 0 /\ ~content[Current].blank
    IN  /\ pc = "fileDone"
        /\ Statement(
             PutFile(Current, [status |-> IF rows = 0 THEN "no_data" ELSE "ready",
                               rows |-> rows, at |-> at]),
             Goto("fileProgress",
                  [job EXCEPT !.done = @ \union {Current},
                              !.rows = @ + rows,
                              !.noise = IF noisy
                                        THEN @ \union {[file |-> Current, at |-> at]}
                                        ELSE @]),
             Return("error"))
        /\ UNCHANGED <<world, attempts>>

\* The final row: ready or no_data.
Finish ==
    /\ pc = "finish"
    /\ ~(job.rows = 0 /\ job.noise # {})
    /\ Statement(
         PutDate([status |-> IF job.rows = 0 THEN "no_data" ELSE "ready",
                  total |-> Cardinality(job.target),
                  done |-> Cardinality(job.done),
                  rows |-> job.rows, at |-> After(job.at, clock)]),
         Return("ok"), Return("error"))
    /\ UNCHANGED <<world, attempts>>

\* Nothing was recognised in the archives that are not blank: they fail, in
\* order, and then the date.
FinishNoise ==
    /\ pc = "finish"
    /\ job.rows = 0 /\ job.noise # {}
    /\ Goto("failUnrecognized", job)
    /\ UNCHANGED <<world, store, faults, attempts>>

\* markFileFailed of f: one second after the newest row of this import.
PutFailedFile(f, previous) ==
    PutFile(f, [status |-> "failed", rows |-> 0, at |-> After(previous, clock)])

FailFile ==
    /\ pc = "failFile"
    /\ Statement(PutFailedFile(Current, job.fileAt),
                 Goto("failDate", job), Return("error"))
    /\ UNCHANGED <<world, attempts>>

\* The unrecognised archive that is first in scan order.
FirstNoise == CHOOSE u \in job.noise : \A v \in job.noise : u.file <= v.file

FailUnrecognized ==
    LET u    == FirstNoise
        rest == job.noise \ {u}
    IN  /\ pc = "failUnrecognized"
        /\ Statement(
             PutFailedFile(u.file, u.at),
             Goto(IF rest = {} THEN "failDate" ELSE "failUnrecognized",
                  [job EXCEPT !.noise = rest]),
             Return("error"))
        /\ UNCHANGED <<world, attempts>>

\* markDateFailed.
FailDate ==
    /\ pc = "failDate"
    /\ Statement(
         PutDate([status |-> "failed", total |-> 0, done |-> Cardinality(job.done),
                  rows |-> 0, at |-> After(job.at, clock)]),
         Return("failed"), Return("error"))
    /\ UNCHANGED <<world, attempts>>

-----------------------------------------------------------------------------
(* The environment, crashes, and start-up. *)

Tick ==
    /\ clock < MaxTick
    /\ clock' = clock + 1
    /\ UNCHANGED <<content, archives, store, pc, job, expired, result, faults, attempts>>

ArchiveAppears ==
    /\ \E f \in Files \ archives : archives' = archives \union {f}
    /\ UNCHANGED <<clock, content, store, pc, job, expired, result, faults, attempts>>

\* The two-hour limit of an import.
Expire ==
    /\ Importing /\ ~expired
    /\ Fault
    /\ expired' = TRUE
    /\ UNCHANGED <<world, store, pc, job, result, attempts>>

Crash ==
    /\ pc # "down"
    /\ Fault
    /\ pc' = "down"
    /\ job' = NoJob
    /\ expired' = FALSE
    /\ result' = "none"
    /\ UNCHANGED <<world, store, attempts>>

Restart ==
    /\ pc = "down"
    /\ pc' = "repairFull"
    /\ UNCHANGED <<world, store, job, expired, result, faults, attempts>>

\* One statement of IngestStateMigrationSQL; start-up fails with it.
Repair(step, effect, next) ==
    /\ pc = step
    /\ Statement(effect, pc' = next, pc' = "down")
    /\ UNCHANGED <<world, job, expired, result, attempts>>

RepairFull ==
    Repair("repairFull",
           dateRows' \in FinishedFull(dateRows, clock) /\ UNCHANGED <<tables, fileRows>>,
           "repairEmpty")

RepairEmpty ==
    Repair("repairEmpty",
           dateRows' = ClearEmpty(dateRows) /\ UNCHANGED <<tables, fileRows>>,
           "repairFiles")

RepairFiles ==
    Repair("repairFiles",
           /\ \E cleared \in SUBSET Files :
                /\ \A f \in Files : IF f \in cleared THEN MayClearFile(fileRows[f])
                                                     ELSE MayKeepFile(fileRows[f])
                /\ fileRows' = [f \in Files |-> IF f \in cleared
                                                THEN ClearFile(fileRows[f])
                                                ELSE fileRows[f]]
           /\ UNCHANGED <<tables, dateRows>>,
           "idle")

-----------------------------------------------------------------------------

ImportStep ==
    \/ Drop \/ Start
    \/ Progress("progress", "file")
    \/ FileBegin \/ LoadBatch \/ LoadError \/ LoadEnd \/ FileDone
    \/ Progress("fileProgress",
                IF job.target \subseteq job.done THEN "finish" ELSE "progress")
    \/ Finish \/ FinishNoise \/ FailFile \/ FailUnrecognized \/ FailDate

StartUp == Restart \/ RepairFull \/ RepairEmpty \/ RepairFiles

Next == Sync \/ Request \/ ImportStep \/ StartUp
        \/ Tick \/ ArchiveAppears \/ Expire \/ Crash

Spec == Init /\ [][Next]_vars

\* The automatic scan keeps returning, a running import keeps taking steps,
\* and the service manager restarts a dead process.
FairSpec == Spec /\ WF_vars(Sync) /\ WF_vars(ImportStep) /\ WF_vars(StartUp)

-----------------------------------------------------------------------------
(* Properties. *)

\* Every variable has its type.
TypeOK ==
    /\ clock \in Nat
    /\ content \in Contents
    /\ archives \in SUBSET Files
    /\ tables \in [Tables -> [Files -> Nat]]
    /\ dateRows \in SUBSET DateRow
    /\ fileRows \in [Files -> SUBSET FileRow]
    /\ pc \in ImportSteps \union RepairSteps \union {"idle", "down"}
    /\ job \in Job
    /\ expired \in BOOLEAN
    /\ result \in {"none", "ok", "failed", "error"}
    /\ faults \in 0..MaxFaults
    /\ attempts \in 0..MaxAttempts

\* When ImportDate returns with its outcome written, that row is strictly
\* newer than every other row of the date, so a reader sees the outcome and a
\* merge of ReplacingMergeTree keeps it, whatever second the rows of this and
\* of earlier imports fell into and however often earlier ones broke off
\* (terminalStateTimestamp, dateStateTimestampAfterLatest, dateUpdatedAt).
TerminalWins ==
    pc = "idle" /\ result \in {"ok", "failed"} =>
        \E m \in dateRows :
            /\ m.status \in IF result = "ok" THEN Done ELSE {"failed"}
            /\ \A r \in dateRows \ {m} : r.at < m.at

\* The rows of f that the newest state of f reports.
Reported(f) == IF fileRows[f] = {} THEN 0 ELSE Latest(fileRows[f]).rows

InTable(t) == MapThenSumSet(LAMBDA f : tables[t][f], Files)

\* Every table holds each archive wholly or not at all, as the newest state of
\* the archive says.
Intact ==
    \A t \in Tables, f \in Files :
        tables[t][f] = Reported(f) /\ tables[t][f] \in {0, content[f].rows}

\* An import that returns without an error leaves the partitions of all four
\* tables intact and holding as many rows as the date's state says, though
\* earlier imports of the date failed, crashed, or were cut short between any
\* two statements (the drop of the partitions that starts ImportDate makes it
\* repeatable).
CleanImportIsExact ==
    pc = "idle" /\ result = "ok" =>
        Intact /\ \A t \in Tables : InTable(t) = Latest(dateRows).rows

\* When no import is under way, a date that syncs skip as complete has intact
\* partitions: an import that broke off after dropping them is not taken for
\* a completed one, neither by the state it found nor by the start-up repairs.
DoneIsIntact == pc = "idle" /\ HasStatus(dateRows, Done) => Intact

Shown == IF dateRows = {} THEN "none" ELSE Latest(dateRows).status

\* What a date's import promises to a reader of its state.
Ledger == INSTANCE DateLedger WITH shown <- Shown, intact <- dateRows = {} \/ Intact
LedgerSpec == Ledger!Spec

Readable == \A f \in Files : content[f].blank \/ content[f].rows > 0

\* Once an archive of the date is there, and if all can be read, syncs complete
\* the date for good, whatever finite number of statements fails, contexts
\* expire and processes crash.
Recovers == Readable /\ archives # {} ~> [](HasStatus(dateRows, Done))
=============================================================================
