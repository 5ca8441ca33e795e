---------------------------- MODULE SpoolArchive ----------------------------
(***************************************************************************)
(* The way of a received line of one rsyslog source: the receiver appends  *)
(* it to the spool file of its day, the archiver compresses the files of   *)
(* closed days and removes them, imports read the archives, and retention  *)
(* removes archives of imported days.  Receiver, archiver and importer run *)
(* concurrently; operations on files and statements may fail, and the      *)
(* process may be killed and started again.                                *)
(*                                                                         *)
(* Days are numbered.  A spool file or an archive is the set of its lines; *)
(* the name of an archive has its log day and the day of the run that made *)
(* it.  The import of a day, with the order of its statements, is a module *)
(* of its own (DateImport): here it drops, loads archive by archive, and   *)
(* ends.  The copy into a temporary file and the lines read by it count    *)
(* from the moment the copy meets the end of the spool file.               *)
(***************************************************************************)
EXTENDS Integers, FiniteSets, FiniteSetsExt, Functions

CONSTANTS
    Lines,      \* messages that clients of the source may send, as numbers
    MaxDay,     \* the last day
    Retention,  \* archive_retention_days; 0 keeps archives forever
    MaxFaults   \* bound on failed operations and crashes

ASSUME LinesAssumption == Lines \subseteq Nat /\ IsFiniteSet(Lines)
ASSUME DaysAssumption == MaxDay \in Nat \ {0} /\ Retention \in Nat
ASSUME FaultsAssumption == MaxFaults \in Nat

VARIABLES
    today,
    stamp,      \* day of the time.Now() a message was given, 0 before that
    waiting,    \* messages between that and the writer's lock
    prompt,     \* lines whose Append returned while their day lasted
    file,       \* the file that the spool writer holds open
    spool,      \* the files of the spool directory
    archives,   \* the files of the archive directory
    ticks,      \* days of runs that have a time but not yet the lock
    step, run,  \* the archiver
    import,     \* the importer
    states,     \* what ingest_dates says of each day
    db,         \* copies of each line in nat_logs
    faults

received == <<stamp, waiting, prompt, file>>
archiver == <<archives, ticks, step, run>>
imported == <<import, states, db>>
vars == <<today, received, spool, archiver, imported, faults>>

Days  == 1..MaxDay
Names == [day : Days, on : Days]

NoFile == [day |-> 0, linked |-> FALSE]

\* at: the run's now; ready: days the run takes for imported; days: closed
\* days to archive; copied: lines copied of the first; expired: archives to
\* remove.
Run   == [at : 0..MaxDay, ready : SUBSET Days, days : SUBSET Days,
          copied : SUBSET Lines, expired : SUBSET Names]
NoRun == [at |-> 0, ready |-> {}, days |-> {}, copied |-> {}, expired |-> {}]

NoImport == [step |-> "none", day |-> 0, target |-> {}]

Init ==
    /\ today = 1
    /\ stamp = [l \in Lines |-> 0]
    /\ waiting = {} /\ prompt = {} /\ file = NoFile
    /\ spool = [d \in {} |-> {}]
    /\ archives = [a \in {} |-> {}]
    /\ ticks = {} /\ step = "idle" /\ run = NoRun
    /\ import = NoImport
    /\ states = [d \in Days |-> "none"]
    /\ db = [l \in Lines |-> 0]
    /\ faults = 0

Fault == faults < MaxFaults /\ faults' = faults + 1

With(f, x, value)  == [y \in DOMAIN f \union {x} |-> IF y = x THEN value ELSE f[y]]
Without(f, x)      == Restrict(f, DOMAIN f \ {x})

-----------------------------------------------------------------------------
(* The receiver. *)

\* The next message is given its time.
Receive ==
    LET left == {l \in Lines : stamp[l] = 0}
    IN  /\ left # {}
        /\ stamp' = [stamp EXCEPT ![Min(left)] = today]
        /\ waiting' = waiting \union {Min(left)}
        /\ UNCHANGED <<today, prompt, file, spool, archiver, imported, faults>>

\* The writer holds the file of that day; the file may be removed already.
Holds(d) == file.day = d

Created(d) == IF d \in DOMAIN spool THEN spool ELSE With(spool, d, {})

\* Append: the line goes to the open file, or to one opened for its day.
Write(l) ==
    LET d      == stamp[l]
        opened == IF Holds(d) THEN file ELSE [day |-> d, linked |-> TRUE]
        files  == IF Holds(d) THEN spool ELSE Created(d)
    IN  /\ file' = opened
        /\ \/ /\ spool' = IF opened.linked
                          THEN [files EXCEPT ![d] = @ \union {l}] ELSE files
              /\ prompt' = IF today = d THEN prompt \union {l} ELSE prompt
              /\ UNCHANGED faults
           \/ Fault /\ spool' = files /\ UNCHANGED prompt

\* The old file cannot be closed, or the new one not opened.
Refuse(l) ==
    ~Holds(stamp[l]) /\ Fault /\ file' = NoFile /\ UNCHANGED <<spool, prompt>>

Append ==
    \E l \in waiting :
        /\ waiting' = waiting \ {l}
        /\ (Write(l) \/ Refuse(l))
        /\ UNCHANGED <<today, stamp, archiver, imported>>

\* reconcileSpoolWriters: new settings take the source away for a while.
CloseWriter ==
    /\ file # NoFile
    /\ file' = NoFile
    /\ UNCHANGED <<today, stamp, waiting, prompt, spool, archiver, imported, faults>>

-----------------------------------------------------------------------------
(* The archiver. *)

\* The ticker, or new settings: a run has its time, and waits for the lock.
Tick ==
    /\ today \notin ticks
    /\ ticks' = ticks \union {today}
    /\ UNCHANGED <<today, received, spool, archives, step, run, imported, faults>>

\* Mutant: a day is closed a day late.
ClosedForADay(d, at) == d < at - 1

Closed(d, at)  == d < at
Expired(d, at) == Retention > 0 /\ d < at - Retention

\* Mutant: every day that has a state is ready.
ReadyOrImporting(at) == {d \in Days : d >= at - Retention - 1 /\ states[d] # "none"}

\* Days whose state is loaded and complete.
Ready(at) == {d \in Days : d >= at - Retention - 1 /\ states[d] = "done"}

Goto(next, newRun) == step' = next /\ run' = newRun

\* runRSyslogArchive takes the lock and loads the ready days, if retention
\* needs them; without them nothing is removed.
Begin ==
    /\ step = "idle"
    /\ \E at \in ticks :
         /\ ticks' = ticks \ {at}
         /\ \/ /\ Goto("list", [NoRun EXCEPT !.at = at,
                                  !.ready = IF Retention > 0 THEN Ready(at) ELSE {}])
               /\ UNCHANGED faults
            \/ Retention > 0 /\ Fault /\ Goto("list", [NoRun EXCEPT !.at = at])
    /\ UNCHANGED <<today, received, spool, archives, imported>>

\* After the day at hand comes the next one, or retention.
Proceed == Goto(IF run.days \subseteq {Min(run.days)} THEN "expire" ELSE "day",
                [run EXCEPT !.days = @ \ {Min(run.days)}, !.copied = {}])

List ==
    LET closed == {d \in DOMAIN spool : Closed(d, run.at)}
    IN  /\ step = "list"
        /\ \/ /\ Goto(IF closed = {} THEN "expire" ELSE "day",
                      [run EXCEPT !.days = closed])
              /\ UNCHANGED faults
           \/ Fault /\ Goto("expire", run)
        /\ UNCHANGED <<today, received, spool, archives, ticks, imported>>

Day    == Min(run.days)
Target == [day |-> Day, on |-> run.at]

\* Mutant: the spool file stays.
UnlinkNothing == UNCHANGED <<spool, file>>

\* os.Remove of the spool file; the writer keeps an open file.
Unlink ==
    /\ spool' = Without(spool, Day)
    /\ file' = IF Holds(Day) THEN [file EXCEPT !.linked = FALSE] ELSE file

RemoveSource ==
    /\ \/ Unlink /\ UNCHANGED faults
       \/ Fault /\ UNCHANGED <<spool, file>>
    /\ Proceed
    /\ UNCHANGED <<today, stamp, waiting, prompt, archives, ticks, imported>>

\* The target is there: the spool file is taken for a duplicate.
Discard == step = "day" /\ Target \in DOMAIN archives /\ RemoveSource

\* Compress into a temporary file, which goes away on an error.
Copy ==
    /\ step = "day"
    /\ Target \notin DOMAIN archives
    /\ \/ Goto("publish", [run EXCEPT !.copied = spool[Day]]) /\ UNCHANGED faults
       \/ Fault /\ Proceed
    /\ UNCHANGED <<today, received, spool, archives, ticks, imported>>

\* Rename the temporary file.
Publish ==
    /\ step = "publish"
    /\ \/ /\ archives' = With(archives, Target, run.copied)
          /\ Goto("remove", run)
          /\ UNCHANGED faults
       \/ Fault /\ Proceed /\ UNCHANGED archives
    /\ UNCHANGED <<today, received, spool, ticks, imported>>

Remove == step = "remove" /\ RemoveSource

\* removeExpiredArchives lists the archives to remove ...
Expire ==
    LET expired == {a \in DOMAIN archives :
                      Expired(a.day, run.at) /\ a.day \in run.ready}
    IN  /\ step = "expire"
        /\ \/ /\ UNCHANGED faults
              /\ IF expired = {} THEN Goto("idle", NoRun)
                                 ELSE Goto("delete", [run EXCEPT !.expired = expired])
           \/ Retention > 0 /\ Fault /\ Goto("idle", NoRun)
        /\ UNCHANGED <<today, received, spool, archives, ticks, imported>>

\* ... and removes one after the other.
Delete ==
    /\ step = "delete"
    /\ \E a \in run.expired :
         /\ \/ archives' = Without(archives, a) /\ UNCHANGED faults
            \/ Fault /\ UNCHANGED archives
         /\ IF run.expired = {a} THEN Goto("idle", NoRun)
                                 ELSE Goto("delete", [run EXCEPT !.expired = @ \ {a}])
    /\ UNCHANGED <<today, received, spool, ticks, imported>>

-----------------------------------------------------------------------------
(* The importer. *)

\* The sync of a day that is over and not complete scans the archives that
\* have been idle for long enough; newer ones of the day may be left out.
ImportBegin ==
    /\ import = NoImport
    /\ \E d \in Days, newest \in Days :
         LET target == {a \in DOMAIN archives : a.day = d /\ a.on <= newest}
         IN  /\ d < today
             /\ states[d] # "done"
             /\ target # {}
             /\ import' = [step |-> "drop", day |-> d, target |-> target]
    /\ UNCHANGED <<today, received, spool, archiver, states, db, faults>>

DropRows(d) == db' = [l \in Lines |-> IF stamp[l] = d THEN 0 ELSE db[l]]

ImportDrop ==
    /\ import.step = "drop"
    /\ DropRows(import.day)
    /\ import' = [import EXCEPT !.step = "load"]
    /\ states' = [states EXCEPT ![import.day] = "importing"]
    /\ UNCHANGED <<today, received, spool, archiver, faults>>

ImportLoad ==
    /\ import.step = "load"
    /\ \E a \in import.target \intersect DOMAIN archives :
         /\ db' = [l \in Lines |-> IF l \in archives[a] THEN db[l] + 1 ELSE db[l]]
         /\ import' = [import EXCEPT !.target = @ \ {a}]
    /\ UNCHANGED <<today, received, spool, archiver, states, faults>>

ImportDone ==
    /\ import.step = "load"
    /\ import.target = {}
    /\ states' = [states EXCEPT ![import.day] = "done"]
    /\ import' = NoImport
    /\ UNCHANGED <<today, received, spool, archiver, db, faults>>

\* A statement fails, or an archive is gone.
ImportFail ==
    /\ import # NoImport
    /\ \/ Fault
       \/ import.target \ DOMAIN archives # {} /\ UNCHANGED faults
    /\ states' \in {states, [states EXCEPT ![import.day] = "failed"]}
    /\ import' = NoImport
    /\ UNCHANGED <<today, received, spool, archiver, db>>

-----------------------------------------------------------------------------

\* No message waits for the writer's lock, and no run for its turn or its end,
\* through two midnights.
Midnight ==
    /\ today < MaxDay
    /\ \A l \in waiting : stamp[l] = today
    /\ ticks \subseteq {today}
    /\ run.at \in {0, today}
    /\ today' = today + 1
    /\ UNCHANGED <<received, spool, archiver, imported, faults>>

\* Killed and started again: files and database stay.
Crash ==
    /\ Fault
    /\ waiting' = {} /\ file' = NoFile
    /\ ticks' = {} /\ step' = "idle" /\ run' = NoRun
    /\ import' = NoImport
    /\ UNCHANGED <<today, stamp, prompt, spool, archives, states, db>>

ArchiveStep == Begin \/ List \/ Discard \/ Copy \/ Publish \/ Remove \/ Expire \/ Delete
ImportStep  == ImportBegin \/ ImportDrop \/ ImportLoad \/ ImportDone \/ ImportFail

Next == Receive \/ Append \/ CloseWriter \/ Tick \/ ArchiveStep \/ ImportStep
        \/ Midnight \/ Crash

Spec == Init /\ [][Next]_vars

\* The tickers keep ticking, and what has begun goes on.
FairSpec == Spec /\ WF_vars(Tick) /\ WF_vars(ArchiveStep) /\ WF_vars(ImportStep)

-----------------------------------------------------------------------------
(* Properties. *)

\* Every variable has its type.
TypeOK ==
    /\ today \in Days
    /\ stamp \in [Lines -> 0..MaxDay]
    /\ waiting \subseteq Lines /\ prompt \subseteq Lines
    /\ file \in [day : 0..MaxDay, linked : BOOLEAN]
    /\ DOMAIN spool \subseteq Days /\ \A d \in DOMAIN spool : spool[d] \subseteq Lines
    /\ DOMAIN archives \subseteq Names
    /\ \A a \in DOMAIN archives : a.day < a.on /\ archives[a] \subseteq Lines
    /\ ticks \subseteq Days
    /\ step \in {"idle", "list", "day", "publish", "remove", "expire", "delete"}
    /\ run \in Run
    /\ import \in [step : {"none", "drop", "load"}, day : 0..MaxDay,
                   target : SUBSET Names]
    /\ states \in [Days -> {"none", "importing", "done", "failed"}]
    /\ db \in [Lines -> Nat]
    /\ faults \in 0..MaxFaults

Archived(l) == {a \in DOMAIN archives : l \in archives[a]}

\* A line that was written before its day was over is in its spool file, in an
\* archive, or in the database under a complete day: neither a removal that
\* failed or came too often, nor a run with an old time, nor retention with
\* the states it loaded before, loses it.
PromptLinesSurvive ==
    \A l \in prompt :
        \/ stamp[l] \in DOMAIN spool /\ l \in spool[stamp[l]]
        \/ Archived(l) # {}
        \/ states[stamp[l]] = "done" /\ db[l] > 0

\* A line is archived, and imported, more than once only through a failure:
\* each further copy has cost a fault.  (The name of an archive has the day of
\* its run, and a spool file that could not be removed is archived once more
\* on the next day.)
CopiesCostFaults ==
    \A l \in Lines : Cardinality(Archived(l)) <= 1 + faults /\ db[l] <= 1 + faults

\* A line written before its day was over gets into the database, and stays.
PromptLinesAreImported ==
    \A l \in Lines : l \in prompt /\ stamp[l] < today ~> [](db[l] > 0)
=============================================================================
