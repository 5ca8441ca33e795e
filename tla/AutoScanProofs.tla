--------------------------- MODULE AutoScanProofs ---------------------------
(***************************************************************************)
(* Proofs about AutoScan: a scheduled time is recorded only when a scan of *)
(* it has imported all that it was asked to; a name is imported by one     *)
(* call at a time, whatever is edited, forgotten or lost in a crash; and   *)
(* every variable keeps its type.                                          *)
(***************************************************************************)
EXTENDS AutoScan, FiniteSetTheorems, TLAPS

\* As much of the types as the argument needs.
Typed ==
    /\ DOMAIN sources \in SUBSET Names
    /\ asked \in [Calls -> SUBSET Names]
    /\ accepted \in [Calls -> SUBSET Names]
    /\ verdict \in [Calls -> Imports!Verdicts]
    /\ recorder \in [Calls -> {"none", "waiting", "recorded", "saving"}]

\* A call with a recorder has been started, and has accepted some of what it was asked.
ScansAreCalls ==
    \A c \in Calls :
        /\ recorder[c] # "none" => verdict[c] # "none"
        /\ recorder[c] = "waiting" => accepted[c] \subseteq asked[c]

\* A call that is said to have succeeded has imported all that it accepted.
SuccessIsWhole == \A c \in Calls : verdict[c] = "succeeded" => {c} \X accepted[c] \subseteq won

IInv == Typed /\ ScansAreCalls /\ SuccessIsWhole

-----------------------------------------------------------------------------
LEMMA InitIsTyped == Init => IInv
BY NamesAssumption DEF Init, Imports!Init, IInv, Typed, ScansAreCalls, SuccessIsWhole, Imports!Verdicts

\* A call starts for some of its names.
LEMMA StartKeeps ==
    ASSUME IInv, NEW c \in Calls, NEW names \in SUBSET Names, Imports!Start(c, names)
    PROVE  /\ recorder[c] = "none"
           /\ accepted' \in [Calls -> SUBSET Names] /\ verdict' \in [Calls -> Imports!Verdicts]
           /\ accepted'[c] \subseteq names /\ verdict'[c] = "pending"
           /\ \A d \in Calls \ {c} : accepted'[d] = accepted[d] /\ verdict'[d] = verdict[d]
           /\ won' = won
<1> USE DEF IInv, Typed, ScansAreCalls, Imports!Start, Imports!Idle, Imports!Verdicts
<1>1. recorder[c] = "none"
  OBVIOUS
<1>2. won' = won
  OBVIOUS
<1>3. /\ accepted' = [accepted EXCEPT ![c] = names \ running]
      /\ verdict' = [verdict EXCEPT ![c] = "pending"]
  OBVIOUS
<1> QED
  BY <1>1, <1>2, <1>3

LEMMA TickKeeps == ASSUME IInv, NEW c \in Calls, Tick(c) PROVE IInv'
<1>1. Imports!Start(c, DOMAIN sources) /\ UNCHANGED sources
  BY DEF Tick, StartImports
<1>2. DOMAIN sources \in SUBSET Names
  BY DEF IInv, Typed
<1>3. /\ accepted' \in [Calls -> SUBSET Names] /\ verdict' \in [Calls -> Imports!Verdicts]
      /\ accepted'[c] \subseteq DOMAIN sources /\ verdict'[c] = "pending"
      /\ \A d \in Calls \ {c} : accepted'[d] = accepted[d] /\ verdict'[d] = verdict[d]
      /\ won' = won
  BY <1>1, <1>2, StartKeeps
<1>4. /\ asked' = [asked EXCEPT ![c] = DOMAIN sources]
      /\ recorder' = [recorder EXCEPT ![c] = "waiting"]
  BY DEF Tick
<1> QED
  BY <1>1, <1>3, <1>4 DEF IInv, Typed, ScansAreCalls, SuccessIsWhole

LEMMA RequestKeeps ==
    ASSUME IInv, NEW c \in Calls, NEW names \in SUBSET DOMAIN sources, Request(c, names)
    PROVE  IInv'
<1>1. Imports!Start(c, names) /\ UNCHANGED <<sources, asked, recorder>>
  BY DEF Request, StartImports
<1>2. names \in SUBSET Names
  BY DEF IInv, Typed
<1>3. /\ recorder[c] = "none"
      /\ accepted' \in [Calls -> SUBSET Names] /\ verdict' \in [Calls -> Imports!Verdicts]
      /\ verdict'[c] = "pending"
      /\ \A d \in Calls \ {c} : accepted'[d] = accepted[d] /\ verdict'[d] = verdict[d]
      /\ won' = won
  BY <1>1, <1>2, StartKeeps
<1> QED
  BY <1>1, <1>3 DEF IInv, Typed, ScansAreCalls, SuccessIsWhole

\* The goroutines of the coordinator end tasks, and report a call when all have ended.
LEMMA TaskKeeps ==
    ASSUME IInv, NEW t \in Imports!Tasks, NEW ok \in BOOLEAN,
           \/ Imports!Acquire(t) \/ Imports!Return(t, ok) \/ Imports!FreeSlot(t)
           \/ Imports!Release(t) \/ Imports!Hear(t),
           UNCHANGED <<sources, asked, recorder>>
    PROVE  IInv'
<1>1. UNCHANGED <<accepted, verdict>> /\ won \subseteq won'
  BY DEF Imports!Acquire, Imports!Return, Imports!FreeSlot, Imports!Release, Imports!Hear,
         Imports!taskVars
<1> QED
  BY <1>1 DEF IInv, Typed, ScansAreCalls, SuccessIsWhole

LEMMA ReportKeeps ==
    ASSUME IInv, NEW c \in Calls, Imports!Report(c), UNCHANGED <<sources, asked, recorder>>
    PROVE  IInv'
<1>1. /\ UNCHANGED <<accepted, won>>
      /\ verdict' = [verdict EXCEPT ![c] = IF Imports!AllSucceeded(c) THEN "succeeded" ELSE "failed"]
  BY DEF Imports!Report, Imports!taskVars
<1>2. Imports!AllSucceeded(c) => {c} \X accepted[c] \subseteq won
  BY DEF Imports!AllSucceeded
<1> QED
  BY <1>1, <1>2 DEF IInv, Typed, ScansAreCalls, SuccessIsWhole, Imports!Verdicts

LEMMA RecorderKeeps ==
    ASSUME IInv, NEW c \in Calls, Record(c) \/ ReadBack(c) \/ Save(c)
    PROVE  IInv'
<1>1. UNCHANGED <<sources, asked, accepted, verdict, won>>
  BY DEF Record, ReadBack, Save, recordFrame, importVars
<1>2. \E place \in {"none", "recorded", "saving"} :
         recorder[c] # "none" /\ recorder' = [recorder EXCEPT ![c] = place]
  BY DEF Record, ReadBack, Save
<1> QED
  BY <1>1, <1>2 DEF IInv, Typed, ScansAreCalls, SuccessIsWhole

LEMMA ForgetKeeps == ASSUME IInv, NEW c \in Calls, Forget(c) PROVE IInv'
<1>1. /\ UNCHANGED <<sources, recorder>> /\ recorder[c] = "none"
      /\ asked' = [asked EXCEPT ![c] = {}] /\ accepted' = [accepted EXCEPT ![c] = {}]
      /\ verdict' = [verdict EXCEPT ![c] = "none"] /\ won' = {t \in won : t[1] # c}
  BY DEF Forget
<1>2. ASSUME NEW d \in Calls, verdict'[d] = "succeeded"
      PROVE  {d} \X accepted'[d] \subseteq won'
  <2>1. d # c /\ verdict[d] = "succeeded" /\ accepted'[d] = accepted[d]
    BY <1>1, <1>2 DEF IInv, Typed
  <2>2. {d} \X accepted[d] \subseteq won
    BY <2>1 DEF IInv, SuccessIsWhole
  <2>3. \A t \in {d} \X accepted[d] : t[1] = d
    OBVIOUS
  <2> QED
    BY <1>1, <2>1, <2>2, <2>3
<1> QED
  BY <1>1, <1>2 DEF IInv, Typed, ScansAreCalls, SuccessIsWhole, Imports!Verdicts

LEMMA EditKeeps ==
    ASSUME IInv,
           \/ \E old \in DOMAIN sources, new \in Names : Rename(old, new)
           \/ \E n \in Names : Edit(n)
    PROVE  IInv'
<1>1. UNCHANGED <<asked, accepted, verdict, recorder, won>>
  BY DEF Rename, Edit, editFrame, scanVars, importVars
<1>2. DOMAIN sources' \in SUBSET Names
  <2>1. CASE \E old \in DOMAIN sources, new \in Names : Rename(old, new)
    BY <2>1 DEF Rename, IInv, Typed
  <2>2. CASE \E n \in Names : Edit(n)
    BY <2>2 DEF Edit, Restrict, IInv, Typed
  <2> QED
    BY <2>1, <2>2
<1> QED
  BY <1>1, <1>2 DEF IInv, Typed, ScansAreCalls, SuccessIsWhole

LEMMA NextKeeps == IInv /\ [Next]_vars => IInv'
<1> SUFFICES ASSUME IInv, [Next]_vars PROVE IInv'
  OBVIOUS
<1>1. CASE \E c \in Calls : Tick(c)
  BY <1>1, TickKeeps
<1>2. CASE \E c \in Calls, names \in SUBSET DOMAIN sources \ {{}} : Request(c, names)
  BY <1>2, RequestKeeps
<1>3. CASE Import
  <2>1. UNCHANGED <<sources, asked, recorder>>
    BY <1>3 DEF Import, importFrame, scanVars
  <2> QED
    BY <1>3, <2>1, TaskKeeps, ReportKeeps DEF Import
<1>4. CASE Fail
  <2>1. UNCHANGED <<sources, asked, recorder>>
    BY <1>4 DEF Fail, importFrame, scanVars
  <2> QED
    BY <1>4, <2>1, TaskKeeps DEF Fail
<1>5. CASE \E c \in Calls : Record(c) \/ ReadBack(c) \/ Save(c)
  BY <1>5, RecorderKeeps
<1>6. CASE \E c \in Calls : Forget(c)
  BY <1>6, ForgetKeeps
<1>7. CASE \/ \E old \in DOMAIN sources, new \in Names : Rename(old, new)
           \/ \E n \in Names : Edit(n)
  BY <1>7, EditKeeps
<1>8. CASE Crash
  BY <1>8 DEF Crash, IInv, Typed, ScansAreCalls, SuccessIsWhole, Imports!Verdicts
<1>9. CASE Pass \/ Midnight \/ UNCHANGED vars
  BY <1>9 DEF Pass, Midnight, vars, scanVars, importVars, IInv, Typed, ScansAreCalls, SuccessIsWhole
<1> QED
  BY <1>1, <1>2, <1>3, <1>4, <1>5, <1>6, <1>7, <1>8, <1>9 DEF Next

-----------------------------------------------------------------------------
\* A scan whose call accepted as many sources as it was asked accepted these.
LEMMA CompleteIsAll ==
    ASSUME IInv, NEW c \in Calls, recorder[c] = "waiting", IsComplete(c)
    PROVE  {c} \X asked[c] \subseteq won
<1>1. accepted[c] \in SUBSET asked[c] /\ asked[c] \in SUBSET Names
  BY DEF IInv, Typed, ScansAreCalls
<1>2. IsFiniteSet(asked[c])
  BY <1>1, NamesAssumption, FS_Subset
<1>3. accepted[c] = asked[c]
  BY <1>1, <1>2, FS_Subset DEF IsComplete
<1> QED
  BY <1>3 DEF IsComplete, IInv, SuccessIsWhole

\* For any sources, calls and edits, and wherever the process stops: the recorded time
\* changes only to one of which a single scan imported, without error, every source
\* that was configured when it began, or at a restart to the one saved.
THEOREM OnlyEarnedTimes == Spec => RecordIsEarned
<1>1. IInv /\ [Next]_vars =>
        [last' # last => \/ last' = saved
                         \/ \E c \in Calls : scan[c] = last' /\ {c} \X asked[c] \subseteq won]_vars
  <2> SUFFICES ASSUME IInv, Next, last' # last
               PROVE  \/ last' = saved
                      \/ \E c \in Calls : scan[c] = last' /\ {c} \X asked[c] \subseteq won
    BY DEF vars
  <2>1. CASE \E c \in Calls : Record(c)
    <3>1. PICK c \in Calls : Record(c)
      BY <2>1
    <3>2. IsComplete(c) /\ recorder[c] = "waiting" /\ last' = scan[c]
      BY <3>1 DEF Record, ScheduledAt
    <3> QED
      BY <3>2, CompleteIsAll
  <2>2. CASE Crash
    BY <2>2 DEF Crash
  <2>3. ~(\E c \in Calls : Record(c)) /\ ~Crash => last' = last
    BY DEF Next, Tick, Request, StartImports, Import, Fail, importFrame, ReadBack, Save, recordFrame,
           Forget, Rename, Edit, editFrame, Pass, Midnight
  <2> QED
    BY <2>1, <2>2, <2>3
<1> QED
  BY <1>1, InitIsTyped, NextKeeps, PTL DEF Spec, RecordIsEarned
-----------------------------------------------------------------------------
(* The coordinator under scans, requests, edits and crashes. *)

Tasks == Imports!Tasks
Steps == Imports!Steps

\* The types of the coordinator's variables; the capacity is a matter of counting.
Coordinated ==
    /\ running \in SUBSET Names /\ sourceSem \in Nat
    /\ accepted \in [Calls -> SUBSET Names] /\ heard \in [Calls -> SUBSET Names]
    /\ step \in [Tasks -> Steps] /\ won \in SUBSET Tasks
    /\ verdict \in [Calls -> Imports!Verdicts]

\* A task has begun exactly when its call accepted its name; a call that was not made
\* accepted nothing; what a collector heard was accepted and is released, and a call
\* that was reported was heard in full.
TasksAreAccepted ==
    /\ \A t \in Tasks : step[t] # "none" <=> t[2] \in accepted[t[1]]
    /\ \A c \in Calls : verdict[c] = "none" => accepted[c] = {}
    /\ \A c \in Calls : heard[c] \subseteq accepted[c]
    /\ \A t \in Tasks : t[2] \in heard[t[1]] => step[t] = "released"
    /\ \A c \in Calls : verdict[c] \in {"succeeded", "failed"} => heard[c] = accepted[c]

InSlot == {t \in Tasks : step[t] \in {"working", "leaving"}}
SlotsAreCounted == sourceSem = Cardinality(InSlot) /\ sourceSem <= MaxSources

CoordInv == /\ Coordinated /\ TasksAreAccepted /\ SlotsAreCounted
            /\ Imports!OneImportPerSource /\ Imports!RunningIsExact

\* Numbers of scheduled times are of times that have passed.
ScansInTime ==
    /\ passed \in 0 .. MaxSlot /\ today \in BOOLEAN
    /\ last \in 0 .. passed /\ saved \in 0 .. passed
    /\ scan \in [Calls -> 0 .. passed] /\ noted \in [Calls -> 0 .. passed]

\* Names and storage ids are of the names.
NamesAreKnown ==
    /\ Range(sources) \subseteq Names
    /\ using \in [Calls \X Names -> Names]

LEMMA TaskPairs ==
    \A t \in Tasks : t = <<t[1], t[2]>> /\ t[1] \in Calls /\ t[2] \in Names
BY DEF Tasks, Imports!Tasks

LEMMA SlotsAreFinite == IsFiniteSet(InSlot) /\ Cardinality(InSlot) \in Nat
<1>1. IsFiniteSet(Calls \X Names)
  BY NamesAssumption, CoordinatorAssumption, FS_Product
<1>2. InSlot \in SUBSET (Calls \X Names)
  BY DEF InSlot, Tasks, Imports!Tasks
<1> QED
  BY <1>1, <1>2, FS_Subset, FS_CardinalityType

\* A step of a task from one place to the next.
LEMMA MoveStep ==
    ASSUME Coordinated, NEW t \in Tasks, NEW from \in Steps, NEW to \in Steps,
           Imports!Move(t, from, to)
    PROVE  /\ step[t] = from /\ step'[t] = to /\ step' \in [Tasks -> Steps]
           /\ \A u \in Tasks : u # t => step'[u] = step[u]
BY DEF Coordinated, Imports!Move

\* A task that moves into the slots, within them, or out of them.
LEMMA MoveSlots ==
    ASSUME Coordinated, NEW t \in Tasks, NEW from \in Steps, NEW to \in Steps,
           Imports!Move(t, from, to)
    PROVE  LET in == to \in {"working", "leaving"}
               was == from \in {"working", "leaving"}
           IN  /\ in <=> was => Cardinality(InSlot') = Cardinality(InSlot)
               /\ in /\ ~was => Cardinality(InSlot') = Cardinality(InSlot) + 1
               /\ was /\ ~in => /\ Cardinality(InSlot') = Cardinality(InSlot) - 1
                                /\ Cardinality(InSlot) # 0
<1>1. /\ step[t] = from /\ step'[t] = to
      /\ \A u \in Tasks : u # t => step'[u] = step[u]
  BY MoveStep
<1>2. /\ t \in InSlot <=> from \in {"working", "leaving"}
      /\ InSlot' = IF to \in {"working", "leaving"} THEN InSlot \union {t} ELSE InSlot \ {t}
  BY <1>1 DEF InSlot
<1>3. Cardinality(InSlot \union {t})
         = IF t \in InSlot THEN Cardinality(InSlot) ELSE Cardinality(InSlot) + 1
  BY SlotsAreFinite, FS_AddElement
<1>4. Cardinality(InSlot \ {t})
         = IF t \in InSlot THEN Cardinality(InSlot) - 1 ELSE Cardinality(InSlot)
  BY SlotsAreFinite, FS_RemoveElement
<1>5. t \in InSlot => Cardinality(InSlot) # 0
  BY SlotsAreFinite, FS_EmptySet
<1>6. CASE to \in {"working", "leaving"}
  BY <1>2, <1>3, <1>6
<1>7. CASE to \notin {"working", "leaving"}
  BY <1>2, <1>4, <1>5, <1>7
<1> QED
  BY <1>6, <1>7

\* What the deferred steps of a goroutine have in common.
LEMMA MoveCoordinates ==
    ASSUME CoordInv, NEW t \in Tasks,
           NEW from \in {"queued", "working", "leaving", "freed"},
           NEW to \in {"working", "leaving", "freed", "released"},
           Imports!Move(t, from, to),
           sourceSem' \in Nat, sourceSem' <= MaxSources, sourceSem' = Cardinality(InSlot'),
           running' = IF to = "released" THEN running \ {t[2]} ELSE running,
           won' \in SUBSET Tasks, UNCHANGED <<accepted, heard, verdict>>
    PROVE  CoordInv'
<1>0. /\ Coordinated /\ TasksAreAccepted
      /\ Imports!OneImportPerSource /\ Imports!RunningIsExact
  BY DEF CoordInv
<1>1. from \in Steps /\ to \in Steps
  BY DEF Steps, Imports!Steps
<1>2. /\ step[t] = from /\ step'[t] = to /\ step' \in [Tasks -> Steps]
      /\ \A u \in Tasks : u # t => step'[u] = step[u]
  BY <1>0, <1>1, MoveStep
<1>3. Coordinated'
  BY <1>0, <1>2 DEF Coordinated
<1>4. TasksAreAccepted'
  <2>1. \A u \in Tasks : step'[u] # "none" <=> u[2] \in accepted[u[1]]
    BY <1>0, <1>2 DEF TasksAreAccepted
  <2>2. \A u \in Tasks : u[2] \in heard[u[1]] => step'[u] = "released"
    BY <1>0, <1>2 DEF TasksAreAccepted
  <2> QED
    BY <1>0, <2>1, <2>2 DEF TasksAreAccepted
<1>5. t \in Imports!Held /\ Imports!Held' = IF to = "released" THEN Imports!Held \ {t} ELSE Imports!Held
  BY <1>2 DEF Imports!Held, Tasks
<1>6. Imports!OneImportPerSource'
  BY <1>0, <1>5 DEF Imports!OneImportPerSource
<1>7. Imports!RunningIsExact'
  <2>1. running = {u[2] : u \in Imports!Held}
    BY <1>0 DEF Imports!RunningIsExact
  <2>2. \A u \in Imports!Held \ {t} : u[2] # t[2]
    BY <1>0, <1>5 DEF Imports!OneImportPerSource
  <2>3. running' = {u[2] : u \in Imports!Held'}
    BY <1>5, <2>1, <2>2
  <2> QED
    BY <2>3 DEF Imports!RunningIsExact
<1> QED
  BY <1>3, <1>4, <1>6, <1>7 DEF CoordInv, SlotsAreCounted

LEMMA TaskCoordinates ==
    ASSUME CoordInv, NEW t \in Tasks, NEW ok \in BOOLEAN,
           \/ Imports!Acquire(t) \/ Imports!Return(t, ok) \/ Imports!FreeSlot(t)
           \/ Imports!Release(t)
    PROVE  CoordInv'
<1>0. Coordinated /\ SlotsAreCounted /\ won \in SUBSET Tasks /\ sourceSem \in Nat /\ MaxSources \in Nat
  BY CoordinatorAssumption DEF CoordInv, Coordinated
<1>1. \A s \in {"queued", "working", "leaving", "freed", "released"} : s \in Steps
  BY DEF Steps, Imports!Steps
<1>2. CASE Imports!Acquire(t)
  <2>1. /\ Imports!Move(t, "queued", "working") /\ sourceSem < MaxSources
        /\ sourceSem' = sourceSem + 1 /\ UNCHANGED <<running, accepted, won, heard, verdict>>
    BY <1>2 DEF Imports!Acquire, Imports!SourceSlot
  <2>2. Cardinality(InSlot') = Cardinality(InSlot) + 1
    BY <1>0, <1>1, <2>1, MoveSlots
  <2>3. sourceSem' = Cardinality(InSlot') /\ sourceSem' \in Nat /\ sourceSem' <= MaxSources
    BY <1>0, <2>1, <2>2 DEF SlotsAreCounted
  <2> QED
    BY <1>0, <2>1, <2>3, MoveCoordinates
<1>3. CASE Imports!Return(t, ok)
  <2>1. /\ Imports!Move(t, "working", "leaving") /\ won' \in {won, won \union {t}}
        /\ UNCHANGED <<running, sourceSem, accepted, heard, verdict>>
    BY <1>3 DEF Imports!Return
  <2>2. Cardinality(InSlot') = Cardinality(InSlot)
    BY <1>0, <1>1, <2>1, MoveSlots
  <2>3. sourceSem' = Cardinality(InSlot') /\ sourceSem' \in Nat /\ sourceSem' <= MaxSources
    BY <1>0, <2>1, <2>2 DEF SlotsAreCounted
  <2>4. won' \in SUBSET Tasks
    BY <1>0, <2>1
  <2> QED
    BY <2>1, <2>3, <2>4, MoveCoordinates
<1>4. CASE Imports!FreeSlot(t)
  <2>1. /\ Imports!Move(t, "leaving", "freed") /\ sourceSem' = sourceSem - 1
        /\ UNCHANGED <<running, accepted, won, heard, verdict>>
    BY <1>4 DEF Imports!FreeSlot
  <2>2. Cardinality(InSlot') = Cardinality(InSlot) - 1 /\ Cardinality(InSlot) # 0
    BY <1>0, <1>1, <2>1, MoveSlots
  <2>3. sourceSem' = Cardinality(InSlot') /\ sourceSem' \in Nat /\ sourceSem' <= MaxSources
    BY <1>0, <2>1, <2>2 DEF SlotsAreCounted
  <2> QED
    BY <1>0, <2>1, <2>3, MoveCoordinates
<1>5. CASE Imports!Release(t)
  <2>1. /\ Imports!Move(t, "freed", "released") /\ running' = running \ {t[2]}
        /\ UNCHANGED <<sourceSem, accepted, won, heard, verdict>>
    BY <1>5 DEF Imports!Release
  <2>2. Cardinality(InSlot') = Cardinality(InSlot)
    BY <1>0, <1>1, <2>1, MoveSlots
  <2>3. sourceSem' = Cardinality(InSlot') /\ sourceSem' \in Nat /\ sourceSem' <= MaxSources
    BY <1>0, <2>1, <2>2 DEF SlotsAreCounted
  <2> QED
    BY <1>0, <2>1, <2>3, MoveCoordinates
<1> QED
  BY <1>2, <1>3, <1>4, <1>5
\* The collector of a call hears a result, and reports when it has heard all.
LEMMA HearCoordinates ==
    ASSUME CoordInv, NEW t \in Tasks, Imports!Hear(t)
    PROVE  CoordInv'
<1>0. /\ Coordinated /\ TasksAreAccepted /\ SlotsAreCounted
      /\ Imports!OneImportPerSource /\ Imports!RunningIsExact
  BY DEF CoordInv
<1>1. /\ step[t] = "released" /\ t[2] \notin heard[t[1]]
      /\ heard' = [heard EXCEPT ![t[1]] = @ \union {t[2]}]
      /\ UNCHANGED <<running, sourceSem, accepted, step, won, verdict>>
  BY DEF Imports!Hear, Imports!taskVars
<1>2. t[1] \in Calls /\ t[2] \in Names /\ t = <<t[1], t[2]>>
  BY TaskPairs
<1>3. t[2] \in accepted[t[1]] /\ verdict[t[1]] \notin {"succeeded", "failed"}
  BY <1>0, <1>1, <1>2 DEF TasksAreAccepted
<1>4. Coordinated'
  BY <1>0, <1>1, <1>2 DEF Coordinated
<1>5. \A c \in Calls : heard'[c] = IF c = t[1] THEN heard[c] \union {t[2]} ELSE heard[c]
  BY <1>0, <1>1, <1>2 DEF Coordinated
<1>6. TasksAreAccepted'
  <2>1. ASSUME NEW c \in Calls
        PROVE  heard'[c] \subseteq accepted[c]
    <3>1. heard[c] \subseteq accepted[c]
      BY <1>0 DEF TasksAreAccepted
    <3>2. CASE c = t[1]
      BY <1>2, <1>3, <1>5, <3>1, <3>2
    <3>3. CASE c # t[1]
      BY <1>5, <3>1, <3>3
    <3> QED
      BY <3>2, <3>3
  <2>2. ASSUME NEW u \in Tasks, u[2] \in heard'[u[1]]
        PROVE  step[u] = "released"
    <3>1. u = <<u[1], u[2]>> /\ u[1] \in Calls
      BY TaskPairs
    <3>2. u[2] \in heard[u[1]] \/ u = t
      BY <1>2, <1>5, <2>2, <3>1
    <3> QED
      BY <1>0, <1>1, <3>2 DEF TasksAreAccepted
  <2>3. \A c \in Calls : verdict[c] \in {"succeeded", "failed"} => heard'[c] = accepted[c]
    BY <1>0, <1>3, <1>5 DEF TasksAreAccepted
  <2> QED
    BY <1>0, <1>1, <2>1, <2>2, <2>3 DEF TasksAreAccepted
<1>7. Imports!OneImportPerSource' /\ Imports!RunningIsExact' /\ SlotsAreCounted'
  BY <1>0, <1>1 DEF Imports!OneImportPerSource, Imports!RunningIsExact, Imports!Held,
                    SlotsAreCounted, InSlot
<1> QED
  BY <1>4, <1>6, <1>7 DEF CoordInv

LEMMA ReportCoordinates ==
    ASSUME CoordInv, NEW c \in Calls, Imports!Report(c)
    PROVE  CoordInv'
<1>0. /\ Coordinated /\ TasksAreAccepted /\ SlotsAreCounted
      /\ Imports!OneImportPerSource /\ Imports!RunningIsExact
  BY DEF CoordInv
<1>1. /\ verdict[c] = "pending" /\ heard[c] = accepted[c]
      /\ verdict' = [verdict EXCEPT ![c] = IF Imports!AllSucceeded(c) THEN "succeeded" ELSE "failed"]
      /\ UNCHANGED <<running, sourceSem, accepted, step, won, heard>>
  BY DEF Imports!Report, Imports!taskVars
<1>2. Coordinated'
  BY <1>0, <1>1 DEF Coordinated, Imports!Verdicts
<1>3. \A d \in Calls : d # c => verdict'[d] = verdict[d]
  BY <1>0, <1>1 DEF Coordinated
<1>4. verdict'[c] # "none"
  BY <1>0, <1>1 DEF Coordinated
<1>5. TasksAreAccepted'
  BY <1>0, <1>1, <1>3, <1>4 DEF TasksAreAccepted
<1>6. Imports!OneImportPerSource' /\ Imports!RunningIsExact' /\ SlotsAreCounted'
  BY <1>0, <1>1 DEF Imports!OneImportPerSource, Imports!RunningIsExact, Imports!Held,
                    SlotsAreCounted, InSlot
<1> QED
  BY <1>2, <1>5, <1>6 DEF CoordInv

\* A call claims the names that are free.
LEMMA StartCoordinates ==
    ASSUME CoordInv, NEW c \in Calls, NEW names \in SUBSET Names, Imports!Start(c, names)
    PROVE  CoordInv'
<1> DEFINE taken == names \ running
<1>0. /\ Coordinated /\ TasksAreAccepted /\ SlotsAreCounted
      /\ Imports!OneImportPerSource /\ Imports!RunningIsExact
  BY DEF CoordInv
<1>1. /\ taken \in SUBSET Names /\ taken \cap running = {}
      /\ verdict[c] = "none" /\ accepted[c] = {}
      /\ accepted' = [accepted EXCEPT ![c] = taken]
      /\ running' = running \union taken
      /\ step' = [t \in Tasks |-> IF t[1] = c /\ t[2] \in taken THEN "queued" ELSE step[t]]
      /\ verdict' = [verdict EXCEPT ![c] = "pending"]
      /\ UNCHANGED <<sourceSem, won, heard>>
  BY <1>0 DEF Imports!Start, Imports!Idle, TasksAreAccepted, Tasks
<1> HIDE DEF taken
<1>2. \A t \in Tasks : t[1] = c => step[t] = "none"
  BY <1>0, <1>1 DEF TasksAreAccepted
<1>3. /\ \A d \in Calls : accepted'[d] = IF d = c THEN taken ELSE accepted[d]
      /\ \A d \in Calls : verdict'[d] = IF d = c THEN "pending" ELSE verdict[d]
  BY <1>0, <1>1 DEF Coordinated
<1>4. Coordinated'
  BY <1>0, <1>1 DEF Coordinated, Steps, Imports!Steps, Imports!Verdicts
<1>5. TasksAreAccepted'
  <2>1. ASSUME NEW t \in Tasks
        PROVE  step'[t] # "none" <=> t[2] \in accepted'[t[1]]
    BY <1>0, <1>1, <1>2, <1>3, TaskPairs DEF TasksAreAccepted
  <2>2. heard[c] = {}
    BY <1>0, <1>1 DEF TasksAreAccepted
  <2>3. \A d \in Calls : /\ verdict'[d] = "none" => accepted'[d] = {}
                         /\ heard[d] \subseteq accepted'[d]
                         /\ verdict'[d] \in {"succeeded", "failed"} => heard[d] = accepted'[d]
    BY <1>0, <1>3, <2>2 DEF TasksAreAccepted
  <2>4. \A t \in Tasks : t[2] \in heard[t[1]] => step'[t] = "released"
    BY <1>0, <1>1, <2>2 DEF TasksAreAccepted
  <2> QED
    BY <1>1, <2>1, <2>3, <2>4 DEF TasksAreAccepted
<1>6. Imports!Held' = Imports!Held \union ({c} \X taken)
  <2>1. \A t \in Tasks : t \in {c} \X taken <=> t[1] = c /\ t[2] \in taken
    BY TaskPairs
  <2>2. {c} \X taken \subseteq Tasks
    BY <1>1 DEF Tasks, Imports!Tasks
  <2> QED
    BY <1>1, <2>1, <2>2 DEF Imports!Held, Tasks
<1>7. Imports!OneImportPerSource' /\ Imports!RunningIsExact'
  <2>1. Imports!OneImportPerSource /\ running = {t[2] : t \in Imports!Held}
    BY <1>0 DEF Imports!RunningIsExact
  <2>2. \A t \in Imports!Held : t[2] \notin taken
    BY <2>1, <1>1
  <2>3. \A t \in {c} \X taken : t[1] = c /\ t[2] \in taken /\ t = <<t[1], t[2]>>
    OBVIOUS
  <2>4. Imports!OneImportPerSource'
    BY <1>6, <2>1, <2>2, <2>3 DEF Imports!OneImportPerSource
  <2>5. {t[2] : t \in {c} \X taken} = taken
    <3>1. \A s \in taken : <<c, s>> \in {c} \X taken /\ <<c, s>>[2] = s
      OBVIOUS
    <3> QED
      BY <2>3, <3>1
  <2>6. Imports!RunningIsExact'
    BY <1>1, <1>6, <2>1, <2>5 DEF Imports!RunningIsExact
  <2> QED
    BY <2>4, <2>6
<1>8. SlotsAreCounted'
  <2>1. InSlot' = InSlot
    BY <1>1, <1>2 DEF InSlot
  <2> QED
    BY <1>0, <1>1, <2>1 DEF SlotsAreCounted
<1> QED
  BY <1>4, <1>5, <1>7, <1>8 DEF CoordInv

\* A call that is over leaves nothing behind: its tasks are all released.
LEMMA ForgetCoordinates ==
    ASSUME CoordInv, NEW c \in Calls, Forget(c)
    PROVE  CoordInv'
<1>0. /\ Coordinated /\ TasksAreAccepted /\ SlotsAreCounted
      /\ Imports!OneImportPerSource /\ Imports!RunningIsExact
  BY DEF CoordInv
<1>1. /\ verdict[c] \in {"succeeded", "failed"}
      /\ accepted' = [accepted EXCEPT ![c] = {}] /\ heard' = [heard EXCEPT ![c] = {}]
      /\ verdict' = [verdict EXCEPT ![c] = "none"] /\ won' = {t \in won : t[1] # c}
      /\ step' = [t \in DOMAIN step |-> IF t[1] = c THEN "none" ELSE step[t]]
      /\ UNCHANGED <<running, sourceSem>>
  BY DEF Forget
<1>2. \A t \in Tasks : t[1] = c => step[t] \in {"none", "released"}
  BY <1>0, <1>1 DEF TasksAreAccepted
<1>3. \A d \in Calls : /\ accepted'[d] = IF d = c THEN {} ELSE accepted[d]
                       /\ heard'[d] = IF d = c THEN {} ELSE heard[d]
                       /\ verdict'[d] = IF d = c THEN "none" ELSE verdict[d]
  BY <1>0, <1>1 DEF Coordinated
<1>4. \A t \in Tasks : step'[t] = IF t[1] = c THEN "none" ELSE step[t]
  BY <1>0, <1>1 DEF Coordinated
<1>5. Coordinated'
  BY <1>0, <1>1 DEF Coordinated, Steps, Imports!Steps, Imports!Verdicts
<1>6. TasksAreAccepted'
  <2>1. ASSUME NEW t \in Tasks
        PROVE  /\ step'[t] # "none" <=> t[2] \in accepted'[t[1]]
               /\ t[2] \in heard'[t[1]] => step'[t] = "released"
    BY <1>0, <1>3, <1>4, TaskPairs DEF TasksAreAccepted
  <2>2. \A d \in Calls : /\ verdict'[d] = "none" => accepted'[d] = {}
                         /\ heard'[d] \subseteq accepted'[d]
                         /\ verdict'[d] \in {"succeeded", "failed"} => heard'[d] = accepted'[d]
    BY <1>0, <1>3 DEF TasksAreAccepted
  <2> QED
    BY <2>1, <2>2 DEF TasksAreAccepted
<1>7. Imports!Held' = Imports!Held /\ InSlot' = InSlot
  BY <1>2, <1>4 DEF Imports!Held, InSlot, Tasks
<1>8. Imports!OneImportPerSource' /\ Imports!RunningIsExact' /\ SlotsAreCounted'
  BY <1>0, <1>1, <1>7 DEF Imports!OneImportPerSource, Imports!RunningIsExact, SlotsAreCounted
<1> QED
  BY <1>5, <1>6, <1>8 DEF CoordInv

\* At the start, and after a crash, no task is under way.
NoCall ==
    /\ running = {} /\ sourceSem = 0 /\ won = {}
    /\ accepted = [c \in Calls |-> {}] /\ heard = [c \in Calls |-> {}]
    /\ verdict = [c \in Calls |-> "none"] /\ step = [t \in Tasks |-> "none"]

LEMMA NoCallCoordinates == NoCall => CoordInv
<1> SUFFICES ASSUME NoCall PROVE CoordInv
  OBVIOUS
<1> USE DEF NoCall
<1>1. Coordinated
  BY DEF Coordinated, Steps, Imports!Steps, Imports!Verdicts
<1>2. TasksAreAccepted
  BY TaskPairs DEF TasksAreAccepted
<1>3. Imports!Held = {} /\ InSlot = {}
  BY DEF Imports!Held, InSlot, Tasks
<1>4. Imports!OneImportPerSource /\ Imports!RunningIsExact
  BY <1>3 DEF Imports!OneImportPerSource, Imports!RunningIsExact
<1>5. SlotsAreCounted
  BY <1>3, FS_EmptySet, CoordinatorAssumption DEF SlotsAreCounted
<1> QED
  BY <1>1, <1>2, <1>4, <1>5 DEF CoordInv
LEMMA NoCallLater == NoCall' => CoordInv'
BY NoCallCoordinates, PTL

coordVars == <<running, sourceSem, accepted, heard, step, won, verdict>>

LEMMA StillCoordinates == ASSUME CoordInv, UNCHANGED coordVars PROVE CoordInv'
BY DEF coordVars, CoordInv, Coordinated, TasksAreAccepted, SlotsAreCounted, InSlot,
       Imports!OneImportPerSource, Imports!RunningIsExact, Imports!Held

LEMMA InitCoordinates == Init => CoordInv
<1> SUFFICES ASSUME Init PROVE CoordInv
  OBVIOUS
<1>1. NoCall
  BY DEF Init, Imports!Init, NoCall, Tasks
<1> QED
  BY <1>1, NoCallCoordinates

LEMMA NextCoordinates == IInv /\ CoordInv /\ [Next]_vars => CoordInv'
<1> SUFFICES ASSUME IInv, CoordInv, [Next]_vars PROVE CoordInv'
  OBVIOUS
<1>1. DOMAIN sources \in SUBSET Names
  BY DEF IInv, Typed
<1>2. CASE \E c \in Calls : Tick(c)
  BY <1>1, <1>2, StartCoordinates DEF Tick, StartImports
<1>3. CASE \E c \in Calls, names \in SUBSET DOMAIN sources \ {{}} : Request(c, names)
  BY <1>1, <1>3, StartCoordinates DEF Request, StartImports
<1>4. CASE Import \/ Fail
  BY <1>4, TaskCoordinates, HearCoordinates, ReportCoordinates DEF Import, Fail, Tasks
<1>5. CASE \E c \in Calls : Forget(c)
  BY <1>5, ForgetCoordinates
<1>6. CASE Crash
  <2>1. DOMAIN step = Tasks
    BY DEF CoordInv, Coordinated
  <2>2. NoCall'
    BY <1>6, <2>1 DEF Crash, NoCall, Tasks, Imports!Tasks
  <2> QED
    BY <2>2, NoCallLater
<1>7. CASE \/ \E c \in Calls : Record(c) \/ ReadBack(c) \/ Save(c)
           \/ \E old \in DOMAIN sources, new \in Names : Rename(old, new)
           \/ \E n \in Names : Edit(n)
           \/ Pass \/ Midnight \/ UNCHANGED vars
  <2>1. UNCHANGED coordVars
    BY <1>7 DEF Record, ReadBack, Save, recordFrame, Rename, Edit, editFrame, Pass, Midnight,
                vars, importVars, coordVars
  <2> QED
    BY <2>1, StillCoordinates
<1> QED
  BY <1>2, <1>3, <1>4, <1>5, <1>6, <1>7 DEF Next

LEMMA CoordInvariance == Spec => []CoordInv
BY InitIsTyped, NextKeeps, InitCoordinates, NextCoordinates, PTL DEF Spec

\* However scans, requests, renames and crashes meet: a name is imported by one call at
\* a time, running holds exactly the names that are being imported, so that a scan is
\* refused no other, and the slots taken are those of the workers.
THEOREM NamesAreImportedOnce ==
    Spec => [](/\ Imports!OneImportPerSource /\ Imports!RunningIsExact
               /\ Imports!SlotsAreAccounted)
<1>1. CoordInv => Imports!SlotsAreAccounted
  <2> SUFFICES ASSUME CoordInv PROVE Imports!SlotsAreAccounted
    OBVIOUS
  <2>1. Imports!InSlot = InSlot /\ Imports!InWrite = {}
    BY DEF Imports!InSlot, InSlot, Tasks, Imports!InWrite
  <2>2. Imports!Cardinality(InSlot) = Cardinality(InSlot) /\ Imports!Cardinality({}) = 0
    BY FS_EmptySet DEF Imports!Cardinality, Cardinality
  <2> QED
    BY <2>1, <2>2 DEF Imports!SlotsAreAccounted, CoordInv, SlotsAreCounted
<1>2. CoordInv => Imports!OneImportPerSource /\ Imports!RunningIsExact
  BY DEF CoordInv
<1> QED
  BY <1>1, <1>2, CoordInvariance, PTL
-----------------------------------------------------------------------------
(* Types. *)

\* Names and storage ids are of the names; the goroutines use one or the other.
LEMMA NamesStayKnown ==
    ASSUME IInv, NamesAreKnown, [Next]_vars
    PROVE  NamesAreKnown'
<1>0. /\ DOMAIN sources \in SUBSET Names /\ \A n \in DOMAIN sources : sources[n] \in Names
      /\ using \in [Calls \X Names -> Names]
  BY DEF IInv, Typed, NamesAreKnown, Range
<1>1. ASSUME NEW c \in Calls, NEW names \in SUBSET DOMAIN sources, StartImports(c, names)
      PROVE  NamesAreKnown'
  <2>1. accepted' = [accepted EXCEPT ![c] = names \ running] /\ UNCHANGED sources
    BY <1>1 DEF StartImports, Imports!Start, Imports!Idle
  <2>2. accepted'[c] \subseteq DOMAIN sources
    BY <2>1 DEF IInv, Typed
  <2>3. using' = [t \in DOMAIN using |-> IF t[1] = c /\ t[2] \in accepted'[c] THEN sources[t[2]] ELSE using[t]]
    BY <1>1 DEF StartImports
  <2>4. using' \in [Calls \X Names -> Names]
    BY <1>0, <2>2, <2>3
  <2> QED
    BY <2>1, <2>4 DEF NamesAreKnown, Range
<1>2. CASE \E c \in Calls : Tick(c)
  BY <1>1, <1>2 DEF Tick
<1>3. CASE \E c \in Calls, names \in SUBSET DOMAIN sources \ {{}} : Request(c, names)
  BY <1>1, <1>3 DEF Request
<1>4. CASE (\E c \in Calls : Forget(c)) \/ Crash
  <2>1. UNCHANGED sources
    BY <1>4 DEF Forget, Crash
  <2>2. using' \in [Calls \X Names -> Names]
    BY <1>0, <1>4 DEF Forget, Crash
  <2> QED
    BY <2>1, <2>2 DEF NamesAreKnown, Range
<1>5. CASE \E old \in DOMAIN sources, new \in Names : Rename(old, new)
  <2>1. PICK old \in DOMAIN sources, new \in Names : Rename(old, new)
    BY <1>5
  <2>2. /\ sources' = [n \in (DOMAIN sources \ {old}) \union {new} |->
                          IF n = new THEN sources[old] ELSE sources[n]]
        /\ UNCHANGED using
    BY <2>1 DEF Rename, editFrame
  <2>3. \A n \in DOMAIN sources' : sources'[n] \in Names
    BY <1>0, <2>2
  <2> QED
    BY <1>0, <2>2, <2>3 DEF NamesAreKnown, Range
<1>6. CASE \E n \in Names : Edit(n)
  <2>1. PICK n \in Names : Edit(n)
    BY <1>6
  <2>2. UNCHANGED using
    BY <2>1 DEF Edit, editFrame
  <2>3. \A m \in DOMAIN sources' : sources'[m] \in Names
    BY <1>0, <2>1 DEF Edit, Restrict
  <2> QED
    BY <1>0, <2>2, <2>3 DEF NamesAreKnown, Range
<1>7. CASE \/ Import \/ Fail \/ Pass \/ Midnight \/ UNCHANGED vars
           \/ \E c \in Calls : Record(c) \/ ReadBack(c) \/ Save(c)
  <2>1. UNCHANGED <<sources, using>>
    BY <1>7 DEF Import, Fail, importFrame, Pass, Midnight, vars, Record, ReadBack, Save, recordFrame
  <2> QED
    BY <2>1 DEF NamesAreKnown, Range
<1> QED
  BY <1>2, <1>3, <1>4, <1>5, <1>6, <1>7 DEF Next

\* No number is that of a time to come.
LEMMA ScansStayInTime ==
    ASSUME ScansInTime, [Next]_vars
    PROVE  ScansInTime'
<1>0. MaxSlot \in Nat /\ passed \in Nat /\ \A n \in 0 .. passed : n \in 0 .. (passed + 1)
  BY LimitAssumption DEF ScansInTime
<1>1. CASE \E c \in Calls : Tick(c)
  BY <1>0, <1>1 DEF Tick, StartImports, ScansInTime
<1>2. CASE \E c \in Calls, names \in SUBSET DOMAIN sources \ {{}} : Request(c, names)
  BY <1>2 DEF Request, StartImports, ScansInTime
<1>3. CASE Pass
  <2>1. passed' = passed + 1 /\ passed < MaxSlot /\ today' /\ UNCHANGED <<last, saved, scanVars>>
    BY <1>3 DEF Pass
  <2>2. passed' \in 0 .. MaxSlot /\ last' \in 0 .. passed' /\ saved' \in 0 .. passed'
    BY <1>0, <2>1 DEF ScansInTime
  <2>3. scan' \in [Calls -> 0 .. passed'] /\ noted' \in [Calls -> 0 .. passed']
    BY <1>0, <2>1 DEF ScansInTime, scanVars
  <2>4. today' \in BOOLEAN
    BY <1>3 DEF Pass
  <2> QED
    BY <2>2, <2>3, <2>4 DEF ScansInTime
<1>4. CASE \E c \in Calls : Record(c) \/ ReadBack(c) \/ Save(c)
  BY <1>4 DEF Record, ScheduledAt, ReadBack, Save, recordFrame, ScansInTime
<1>5. CASE (\E c \in Calls : Forget(c)) \/ Crash
  BY <1>0, <1>5 DEF Forget, Crash, ScansInTime
<1>6. CASE \/ Import \/ Fail \/ Midnight \/ UNCHANGED vars
           \/ \E old \in DOMAIN sources, new \in Names : Rename(old, new)
           \/ \E n \in Names : Edit(n)
  <2>1. UNCHANGED <<passed, last, saved, scan, noted>>
    BY <1>6 DEF Import, Fail, importFrame, Midnight, vars, Rename, Edit, editFrame, scanVars
  <2>2. today' = today \/ today' = FALSE
    BY <1>6 DEF Import, Fail, importFrame, Midnight, vars, Rename, Edit, editFrame, scanVars
  <2> QED
    BY <2>1, <2>2 DEF ScansInTime
<1> QED
  BY <1>1, <1>2, <1>3, <1>4, <1>5, <1>6 DEF Next

\* Every variable keeps its type; no scan, record or saved value is of a time to come, and
\* the coordinator's slots stay within their number.
THEOREM TypeCorrectness == Spec => []TypeOK
<1>1. Init => ScansInTime
  <2> SUFFICES ASSUME Init PROVE ScansInTime
    OBVIOUS
  <2>1. passed = 0 /\ last = 0 /\ saved = 0 /\ 0 \in 0 .. MaxSlot /\ 0 \in 0 .. 0
    BY LimitAssumption DEF Init
  <2>2. scan \in [Calls -> 0 .. passed] /\ noted \in [Calls -> 0 .. passed]
    BY <2>1 DEF Init
  <2>3. today \in BOOLEAN
    BY DEF Init
  <2> QED
    BY <2>1, <2>2, <2>3 DEF ScansInTime
<1>2. Init => NamesAreKnown
  <2> SUFFICES ASSUME Init PROVE NamesAreKnown
    OBVIOUS
  <2>1. Range(sources) \subseteq Names
    BY NamesAssumption DEF Init, Range
  <2>2. using \in [Calls \X Names -> Names]
    BY DEF Init
  <2> QED
    BY <2>1, <2>2 DEF NamesAreKnown
<1>3. IInv /\ NamesAreKnown /\ [Next]_vars => NamesAreKnown'
  BY NamesStayKnown
<1>4. ScansInTime /\ [Next]_vars => ScansInTime'
  BY ScansStayInTime
<1>5. IInv /\ CoordInv /\ ScansInTime /\ NamesAreKnown => TypeOK
  <2> SUFFICES ASSUME IInv, CoordInv, ScansInTime, NamesAreKnown PROVE TypeOK
    OBVIOUS
  <2>1. Imports!TypeOK
    <3>1. sourceSem \in 0 .. MaxSources
      BY CoordinatorAssumption DEF CoordInv, Coordinated, SlotsAreCounted
    <3>2. <<>> \in [{} -> {"idle", "waiting", "writing"}]
      OBVIOUS
    <3> QED
      BY <3>1, <3>2 DEF CoordInv, Coordinated, Imports!TypeOK, Tasks, Steps, Imports!Tasks
  <2> QED
    BY <2>1 DEF IInv, Typed, ScansInTime, NamesAreKnown, TypeOK
<1> QED
  BY <1>1, <1>2, <1>3, <1>4, <1>5, InitIsTyped, NextKeeps, CoordInvariance, PTL DEF Spec
=============================================================================
