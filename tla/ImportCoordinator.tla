------------------------- MODULE ImportCoordinator -------------------------
(***************************************************************************)
(* ImportCoordinator: calls of Start accept the sources that are not being *)
(* imported, one goroutine per accepted source waits for a source slot,    *)
(* runs its worker and gives everything back, and a collector per call     *)
(* reports whether every worker succeeded.  The goroutines of a worker,    *)
(* one per date being imported, take a write slot for each batch.          *)
(*                                                                         *)
(* A goroutine's deferred calls run one by one, each a step of its own:    *)
(* the slot, the recover, the entry in running, and then its result.       *)
(***************************************************************************)
EXTENDS Naturals, FiniteSets

CONSTANTS
    Sources,      \* source ids
    Calls,        \* calls of Start
    Writers,      \* goroutines of a worker that write batches
    MaxSources,   \* capacity of sourceSem
    MaxWrites,    \* capacity of writeSem
    MaxBatches    \* bound on the batches of all workers

ASSUME SourcesAssumption ==
    IsFiniteSet(Sources) /\ IsFiniteSet(Calls) /\ IsFiniteSet(Writers)
ASSUME CapacityAssumption ==
    MaxSources \in Nat \ {0} /\ MaxWrites \in Nat \ {0} /\ MaxBatches \in Nat

VARIABLES
    running,      \* the map of the sources being imported
    sourceSem,    \* slots taken of sourceSem
    writeSem,     \* slots taken of writeSem
    accepted,     \* what each call accepted
    step,         \* where the goroutine of a call and source is
    won,          \* tasks whose worker returned without error
    writing,      \* state of each writer of a task
    batches,      \* batches a slot was asked for so far
    heard,        \* results the collector of a call has received
    verdict       \* what the collector reported

taskVars == <<step, won, writing, batches>>
vars == <<running, sourceSem, writeSem, accepted, taskVars, heard, verdict>>

Tasks == Calls \X Sources
Steps == {"none", "queued", "working", "leaving", "freed", "released"}
Verdicts == {"none", "pending", "succeeded", "failed"}

Init ==
    /\ running = {}
    /\ sourceSem = 0
    /\ writeSem = 0
    /\ accepted = [c \in Calls |-> {}]
    /\ step = [t \in Tasks |-> "none"]
    /\ won = {}
    /\ writing = [t \in Tasks |-> [w \in Writers |-> "idle"]]
    /\ batches = 0
    /\ heard = [c \in Calls |-> {}]
    /\ verdict = [c \in Calls |-> "none"]

-----------------------------------------------------------------------------

\* Mutant: a source is accepted though it is being imported.
AnySource(wanted) == wanted

\* The sources of a call that are not being imported.
Idle(wanted) == wanted \ running

\* Start, up to the unlock of mu; the goroutines follow.
Start(c, wanted) ==
    LET taken == Idle(wanted)
    IN  /\ verdict[c] = "none"
        /\ accepted' = [accepted EXCEPT ![c] = taken]
        /\ running' = running \union taken
        /\ step' = [t \in Tasks |-> IF t[1] = c /\ t[2] \in taken THEN "queued"
                                                                  ELSE step[t]]
        /\ verdict' = [verdict EXCEPT ![c] = "pending"]
        /\ UNCHANGED <<sourceSem, writeSem, won, writing, batches, heard>>

Move(t, from, to) ==
    step[t] = from /\ step' = [step EXCEPT ![t] = to]

SourceSlot == sourceSem < MaxSources

\* The goroutine gets a source slot.  Its other choice, a context that is
\* done, is not there: Start is given the background context.
Acquire(t) ==
    /\ Move(t, "queued", "working")
    /\ SourceSlot
    /\ sourceSem' = sourceSem + 1
    /\ UNCHANGED <<running, writeSem, accepted, won, writing, batches,
                   heard, verdict>>

WritersDone(t) == \A w \in Writers : writing[t][w] = "idle"

\* The worker returns, with or without an error, once its writers are done
\* (wg.Wait), or panics, which is recovered.
Return(t, ok) ==
    /\ Move(t, "working", "leaving")
    /\ WritersDone(t)
    /\ won' = IF ok THEN won \union {t} ELSE won
    /\ UNCHANGED <<running, sourceSem, writeSem, accepted, writing,
                   batches, heard, verdict>>

\* Mutant: the slot is not given back.
KeepSlot(t) ==
    /\ Move(t, "leaving", "freed")
    /\ UNCHANGED <<running, sourceSem, writeSem, accepted, won, writing, batches,
                   heard, verdict>>

\* The deferred receive gives the slot back.
FreeSlot(t) ==
    /\ Move(t, "leaving", "freed")
    /\ sourceSem' = sourceSem - 1
    /\ UNCHANGED <<running, writeSem, accepted, won, writing, batches,
                   heard, verdict>>

Release(t) ==
    /\ Move(t, "freed", "released")
    /\ running' = running \ {t[2]}
    /\ UNCHANGED <<sourceSem, writeSem, accepted, won, writing, batches,
                   heard, verdict>>

\* Mutant: only a success is sent.
HearSuccess(t) ==
    /\ step[t] = "released"
    /\ t \in won
    /\ t[2] \notin heard[t[1]]
    /\ heard' = [heard EXCEPT ![t[1]] = @ \union {t[2]}]
    /\ UNCHANGED <<running, sourceSem, writeSem, accepted, taskVars, verdict>>

\* The result passes through the channel of the call to its collector.
Hear(t) ==
    /\ step[t] = "released"
    /\ t[2] \notin heard[t[1]]
    /\ heard' = [heard EXCEPT ![t[1]] = @ \union {t[2]}]
    /\ UNCHANGED <<running, sourceSem, writeSem, accepted, taskVars, verdict>>

\* Mutant: the last result decides.
AnySucceeded(c) == accepted[c] = {} \/ \E s \in accepted[c] : <<c, s>> \in won

AllSucceeded(c) == \A s \in accepted[c] : <<c, s>> \in won

\* With every result, the collector reports and closes Done.
Report(c) ==
    /\ verdict[c] = "pending"
    /\ heard[c] = accepted[c]
    /\ verdict' = [verdict EXCEPT ![c] = IF AllSucceeded(c) THEN "succeeded" ELSE "failed"]
    /\ UNCHANGED <<running, sourceSem, writeSem, accepted, taskVars, heard>>

-----------------------------------------------------------------------------
(* WithWriteSlot, called by a writer of a working task. *)

Write(t, w, from, to) ==
    /\ step[t] = "working"
    /\ writing[t][w] = from
    /\ writing' = [writing EXCEPT ![t][w] = to]
    /\ UNCHANGED <<running, sourceSem, accepted, step, won, heard, verdict>>

AskWrite(t, w) ==
    /\ Write(t, w, "idle", "waiting")
    /\ batches < MaxBatches
    /\ batches' = batches + 1
    /\ UNCHANGED writeSem

BeginWrite(t, w) ==
    /\ Write(t, w, "waiting", "writing")
    /\ writeSem < MaxWrites
    /\ writeSem' = writeSem + 1
    /\ UNCHANGED batches

\* Mutant: a slot that was never taken is given back.
GiveUpSlot(t, w) ==
    /\ Write(t, w, "waiting", "idle")
    /\ writeSem' = writeSem - 1
    /\ UNCHANGED batches

\* The writer gives up: the two hours of the worker may be over at any time.
GiveUpWrite(t, w) ==
    /\ Write(t, w, "waiting", "idle")
    /\ UNCHANGED <<writeSem, batches>>

EndWrite(t, w) ==
    /\ Write(t, w, "writing", "idle")
    /\ writeSem' = writeSem - 1
    /\ UNCHANGED batches

-----------------------------------------------------------------------------

\* What a goroutine does for its task, as far as it is up to it.
Proceed(t) ==
    \/ Acquire(t) \/ FreeSlot(t) \/ Release(t) \/ Hear(t)
    \/ \E ok \in BOOLEAN : Return(t, ok)

Service ==
    \/ \E t \in Tasks :
         \/ Proceed(t)
         \/ \E w \in Writers : \/ AskWrite(t, w) \/ BeginWrite(t, w)
                               \/ GiveUpWrite(t, w) \/ EndWrite(t, w)
    \/ \E c \in Calls : Report(c)

Next ==
    \/ \E c \in Calls, wanted \in SUBSET Sources \ {{}} : Start(c, wanted)
    \/ Service

Spec == Init /\ [][Next]_vars

\* Go runs every goroutine that can run; batches end, and the dates of a worker
\* end (at the latest with the two hours of its context).
ServiceFairness ==
    /\ \A t \in Tasks :
         /\ WF_vars(Proceed(t))
         /\ \A w \in Writers : WF_vars(BeginWrite(t, w)) /\ WF_vars(EndWrite(t, w))
    /\ \A c \in Calls : WF_vars(Report(c))

FairSpec == Spec /\ ServiceFairness

-----------------------------------------------------------------------------
(* Properties. *)

\* Every variable has its type.
TypeOK ==
    /\ running \in SUBSET Sources
    /\ sourceSem \in 0..MaxSources
    /\ writeSem \in 0..MaxWrites
    /\ accepted \in [Calls -> SUBSET Sources]
    /\ step \in [Tasks -> Steps]
    /\ won \in SUBSET Tasks
    /\ writing \in [Tasks -> [Writers -> {"idle", "waiting", "writing"}]]
    /\ batches \in 0..MaxBatches
    /\ heard \in [Calls -> SUBSET Sources]
    /\ verdict \in [Calls -> Verdicts]

\* Tasks that have been accepted and not released.
Held == {t \in Tasks : step[t] \in {"queued", "working", "leaving", "freed"}}

\* A source is never imported twice at once, however the starts, returns and
\* deferred steps of different calls interleave.
OneImportPerSource == \A t, u \in Held : t[2] = u[2] => t = u

\* running names exactly the sources with such a task: a source that is
\* refused as busy is being imported, and a worker that failed, panicked or
\* ran out of time leaves its source free for the next call.
RunningIsExact == running = {t[2] : t \in Held}

InSlot == {t \in Tasks : step[t] \in {"working", "leaving"}}
InWrite == {p \in Tasks \X Writers : writing[p[1]][p[2]] = "writing"}

\* Each semaphore counts the goroutines inside it: no path through runSource
\* or WithWriteSlot keeps a slot or gives one back twice.
SlotsAreAccounted ==
    sourceSem = Cardinality(InSlot) /\ writeSem = Cardinality(InWrite)

\* A writer in a write slot belongs to a worker that is in a source slot.
WritesAreInside == \A p \in InWrite : step[p[1]] = "working"

\* Released tasks that did not succeed.
Lost == {t \in Tasks : step[t] = "released" /\ t \notin won}

\* What a caller is promised, and the coordinator as an implementation of it.
Board == INSTANCE ImportBoard WITH
            held <- Held,
            lost <- Lost,
            report <- verdict
BoardSpec == Board!Spec

\* Every call that has been accepted is reported on, so whoever waits for its
\* result, as the automatic scan does, goes on.
EveryCallReports == \A c \in Calls : verdict[c] = "pending" ~> verdict[c] # "pending"

\* A source that is being imported becomes free.
EverySourceIsFreed == \A s \in Sources : s \in running ~> s \notin running
=============================================================================
