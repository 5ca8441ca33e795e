------------------------------ MODULE AutoScan ------------------------------
(***************************************************************************)
(* AutoScan: every tick the scheduler starts the imports of all configured *)
(* sources if a scheduled time has passed that is later than               *)
(* last_auto_scan_at, and a goroutine per scan records that time once the  *)
(* scan is reported a success.  Requests of users start imports through    *)
(* the same coordinator, and the settings are edited meanwhile: a source   *)
(* keeps its storage id when it gets another name.                         *)
(*                                                                         *)
(* Scheduled times are numbered 1, 2, ...; 0 is none.  The coordinator is  *)
(* ImportCoordinator without its writers.                                  *)
(***************************************************************************)
EXTENDS Naturals, FiniteSets, Functions

CONSTANTS
    Names,        \* names, and storage ids, of sources
    Configured,   \* the names that are configured first
    Calls,        \* calls of Start, used again when they are over
    MaxSources,   \* capacity of the coordinator's sourceSem
    MaxSlot,      \* bound on the scheduled times
    Limit         \* bounds on what users and the machine do: see Kinds

Kinds == {"user", "failure", "crash"}

ASSUME NamesAssumption == IsFiniteSet(Names) /\ Configured \subseteq Names
ASSUME CoordinatorAssumption == IsFiniteSet(Calls) /\ MaxSources \in Nat \ {0}
ASSUME LimitAssumption == MaxSlot \in Nat /\ Limit \in [Kinds -> Nat]

VARIABLES
    sources,    \* log_sources: the configured names, with their storage ids
    passed,     \* the newest scheduled time that has passed
    today,      \* whether it is one of the current day
    last,       \* last_auto_scan_at
    saved,      \* its row in app_settings
    scan,       \* the scheduled time a call is the scan of
    asked,      \* the sources the scan of a call was to import
    recorder,   \* where the goroutine that records the scan of a call is
    noted,      \* the value it is saving
    using,      \* storage id a task imports under
    spent       \* of Limit

VARIABLES running, sourceSem, accepted, step, won, heard, verdict

Imports == INSTANCE ImportCoordinator WITH
              Sources <- Names, Writers <- {}, MaxWrites <- 1, MaxBatches <- 0,
              writeSem <- 0,
              writing <- [t \in Calls \X Names |-> <<>>],
              batches <- 0

scanVars == <<scan, asked, recorder, noted>>
importVars == <<running, sourceSem, accepted, step, won, heard, verdict>>
vars == <<sources, passed, today, last, saved, scanVars, using, spent, importVars>>

Init ==
    /\ sources = [n \in Configured |-> n]
    /\ passed = 0
    /\ today = FALSE
    /\ last = 0
    /\ saved = 0
    /\ scan = [c \in Calls |-> 0]
    /\ asked = [c \in Calls |-> {}]
    /\ recorder = [c \in Calls |-> "none"]
    /\ noted = [c \in Calls |-> 0]
    /\ using = [t \in Calls \X Names |-> t[2]]
    /\ spent = [k \in Kinds |-> 0]
    /\ Imports!Init

Spend(kind) ==
    /\ spent[kind] < Limit[kind]
    /\ spent' = [spent EXCEPT ![kind] = @ + 1]

-----------------------------------------------------------------------------
(* Imports. *)

\* startBackgroundImportSources: a task works on the source as it is now, under
\* its storage id.
StartImports(c, names) ==
    /\ Imports!Start(c, names)
    /\ using' = [t \in DOMAIN using |->
                    IF t[1] = c /\ t[2] \in accepted'[c] THEN sources[t[2]] ELSE using[t]]
    /\ UNCHANGED <<sources, passed, today, last, saved, noted>>

\* Mutant: the scan is due only in the slot after the one recorded.
NextIsDue == today /\ passed = last + 1

\* The newest scheduled time of the day, if it is later than the recorded one.
\* Times of earlier days are not looked at.
IsDue == today /\ last < passed

\* runDueAutoScan; it leaves no trace when every source is being imported.
Tick(c) ==
    /\ IsDue
    /\ Imports!Idle(DOMAIN sources) # {}
    /\ StartImports(c, DOMAIN sources)
    /\ scan' = [scan EXCEPT ![c] = passed]
    /\ asked' = [asked EXCEPT ![c] = DOMAIN sources]
    /\ recorder' = [recorder EXCEPT ![c] = "waiting"]
    /\ UNCHANGED spent

\* A user has sources imported or rebuilt.
Request(c, names) ==
    /\ Spend("user")
    /\ StartImports(c, names)
    /\ UNCHANGED <<scan, asked, recorder>>

importFrame == <<sources, passed, today, last, saved, scanVars, using>>

\* The goroutines of the coordinator.
Import ==
    /\ \/ \E t \in Imports!Tasks : \/ Imports!Acquire(t) \/ Imports!Return(t, TRUE)
                                   \/ Imports!FreeSlot(t) \/ Imports!Release(t)
                                   \/ Imports!Hear(t)
       \/ \E c \in Calls : Imports!Report(c)
    /\ UNCHANGED <<importFrame, spent>>

Fail ==
    /\ \E t \in Imports!Tasks : Imports!Return(t, FALSE)
    /\ Spend("failure")
    /\ UNCHANGED importFrame

-----------------------------------------------------------------------------
(* recordCompletedAutoScan, in a goroutine per scan. *)

recordFrame == <<sources, passed, today, scan, asked, using, importVars>>

\* Mutant: a scan that was refused some sources counts.
SucceededAtAll(c) == verdict[c] = "succeeded"

IsComplete(c) ==
    /\ verdict[c] = "succeeded"
    /\ Cardinality(accepted[c]) = Cardinality(asked[c])

ScheduledAt(c) == scan[c]

Record(c) ==
    /\ recorder[c] = "waiting"
    /\ verdict[c] \in {"succeeded", "failed"}
    /\ IF IsComplete(c)
       THEN /\ last' = ScheduledAt(c)
            /\ recorder' = [recorder EXCEPT ![c] = "recorded"]
       ELSE /\ recorder' = [recorder EXCEPT ![c] = "none"]
            /\ UNCHANGED last
    /\ UNCHANGED <<recordFrame, saved, noted, spent>>

\* saveSettings reads the value back from the settings.
ReadBack(c) ==
    /\ recorder[c] = "recorded"
    /\ noted' = [noted EXCEPT ![c] = last]
    /\ recorder' = [recorder EXCEPT ![c] = "saving"]
    /\ UNCHANGED <<recordFrame, last, saved, spent>>

\* The row is written, or refused.
Save(c) ==
    /\ recorder[c] = "saving"
    /\ recorder' = [recorder EXCEPT ![c] = "none"]
    /\ \/ saved' = noted[c] /\ UNCHANGED spent
       \/ Spend("failure") /\ UNCHANGED saved
    /\ UNCHANGED <<recordFrame, last, noted>>

-----------------------------------------------------------------------------
(* Settings, time and the process. *)

editFrame == <<passed, today, last, saved, scanVars, using, importVars>>

\* A source gets another name; it is recognised by its directories and inherits
\* its storage id.
Rename(old, new) ==
    /\ Spend("user")
    /\ new \notin DOMAIN sources
    /\ sources' = [n \in (DOMAIN sources \ {old}) \union {new} |->
                      IF n = new THEN sources[old] ELSE sources[n]]
    /\ UNCHANGED editFrame

\* A source is added under its own name, unless that is the storage id of
\* another one, or removed.
Edit(n) ==
    /\ Spend("user")
    /\ \/ /\ n \notin DOMAIN sources \union Range(sources)
          /\ sources' = [m \in DOMAIN sources \union {n} |->
                            IF m = n THEN n ELSE sources[m]]
       \/ /\ n \in DOMAIN sources
          /\ sources' = Restrict(sources, DOMAIN sources \ {n})
    /\ UNCHANGED editFrame

Pass ==
    /\ passed < MaxSlot
    /\ passed' = passed + 1
    /\ today' = TRUE
    /\ UNCHANGED <<sources, last, saved, scanVars, using, spent, importVars>>

Midnight ==
    /\ today
    /\ today' = FALSE
    /\ UNCHANGED <<sources, passed, last, saved, scanVars, using, spent, importVars>>

\* Nothing refers to a call any more that is over.
Forget(c) ==
    /\ verdict[c] \in {"succeeded", "failed"}
    /\ recorder[c] = "none"
    /\ accepted' = [accepted EXCEPT ![c] = {}]
    /\ heard' = [heard EXCEPT ![c] = {}]
    /\ verdict' = [verdict EXCEPT ![c] = "none"]
    /\ won' = {t \in won : t[1] # c}
    /\ step' = [t \in DOMAIN step |-> IF t[1] = c THEN "none" ELSE step[t]]
    /\ using' = [t \in DOMAIN using |-> IF t[1] = c THEN t[2] ELSE using[t]]
    /\ scan' = [scan EXCEPT ![c] = 0]
    /\ asked' = [asked EXCEPT ![c] = {}]
    /\ noted' = [noted EXCEPT ![c] = 0]
    /\ UNCHANGED <<sources, passed, today, last, saved, recorder, spent,
                   running, sourceSem>>

\* The process stops and starts again with the saved settings.
Crash ==
    /\ Spend("crash")
    /\ last' = saved
    /\ running' = {}
    /\ sourceSem' = 0
    /\ won' = {}
    /\ accepted' = [c \in Calls |-> {}]
    /\ heard' = [c \in Calls |-> {}]
    /\ verdict' = [c \in Calls |-> "none"]
    /\ step' = [t \in DOMAIN step |-> "none"]
    /\ using' = [t \in DOMAIN using |-> t[2]]
    /\ scan' = [c \in Calls |-> 0]
    /\ asked' = [c \in Calls |-> {}]
    /\ recorder' = [c \in Calls |-> "none"]
    /\ noted' = [c \in Calls |-> 0]
    /\ UNCHANGED <<sources, passed, today, saved>>

-----------------------------------------------------------------------------

Next ==
    \/ \E c \in Calls : Tick(c)
    \/ \E c \in Calls, names \in SUBSET DOMAIN sources \ {{}} : Request(c, names)
    \/ Import
    \/ Fail
    \/ \E c \in Calls : Record(c) \/ ReadBack(c) \/ Save(c) \/ Forget(c)
    \/ \E old \in DOMAIN sources, new \in Names : Rename(old, new)
    \/ \E n \in Names : Edit(n)
    \/ Pass
    \/ Midnight
    \/ Crash

Spec == Init /\ [][Next]_vars

\* The ticker fires every 30 seconds and Go runs every goroutine that can run.
FairSpec ==
    /\ Spec
    /\ WF_vars(\E c \in Calls : Tick(c))
    /\ WF_vars(Import)
    /\ \A c \in Calls : /\ WF_vars(Record(c)) /\ WF_vars(ReadBack(c)) /\ WF_vars(Save(c))
                        /\ WF_vars(Forget(c))

-----------------------------------------------------------------------------
(* Properties. *)

\* Every variable has its type, and no scan is of a time to come.
TypeOK ==
    /\ DOMAIN sources \subseteq Names /\ Range(sources) \subseteq Names
    /\ passed \in 0..MaxSlot /\ today \in BOOLEAN
    /\ last \in 0..passed /\ saved \in 0..passed
    /\ scan \in [Calls -> 0..passed] /\ noted \in [Calls -> 0..passed]
    /\ asked \in [Calls -> SUBSET Names]
    /\ recorder \in [Calls -> {"none", "waiting", "recorded", "saving"}]
    /\ using \in [Calls \X Names -> Names]
    /\ Imports!TypeOK

\* A scheduled time is recorded only when one scan of that time imported, without
\* error, every source that was configured when it began; a restart only goes back
\* to a time recorded before.
RecordIsEarned ==
    [][last' # last =>
         \/ last' = saved
         \/ \E c \in Calls : scan[c] = last' /\ {c} \X asked[c] \subseteq won]_vars

\* As long as a single source is configured, a scheduled time of the day is
\* recorded in the end, unless the day ends or a later time passes first: a
\* failed, refused, interrupted or unsaved scan is tried again.
EverySlotIsRecorded ==
    \A s \in 1..MaxSlot :
        passed = s /\ today ~>
            last >= s \/ passed > s \/ ~today \/ Cardinality(DOMAIN sources) # 1
=============================================================================
