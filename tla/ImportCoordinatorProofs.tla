---------------------- MODULE ImportCoordinatorProofs ----------------------
(***************************************************************************)
(* Proofs about ImportCoordinator: its type invariant, the exactness of    *)
(* running and of the semaphores, and that it implements ImportBoard, for  *)
(* every number of sources, calls, writers and slots.                      *)
(***************************************************************************)
EXTENDS ImportCoordinator, FiniteSetTheorems, TLAPS

-----------------------------------------------------------------------------
(* The inductive invariant. *)

\* A task has begun exactly when its call accepted its source; a call that was not
\* made accepted nothing; what a collector heard was accepted and is released; and
\* a task has won only after its worker returned.
TasksAreAccepted ==
    /\ \A c \in Calls, s \in Sources : step[<<c, s>>] # "none" <=> s \in accepted[c]
    /\ \A c \in Calls : verdict[c] = "none" => accepted[c] = {}
    /\ \A c \in Calls : \A s \in heard[c] : s \in accepted[c] /\ step[<<c, s>>] = "released"
    /\ \A t \in won : step[t] \in {"leaving", "freed", "released"}

\* The writers of a task are at work only while its worker is.
WritersAreInside ==
    \A t \in Tasks : step[t] # "working" => \A w \in Writers : writing[t][w] = "idle"

IInv ==
    /\ TypeOK
    /\ TasksAreAccepted
    /\ OneImportPerSource
    /\ RunningIsExact
    /\ SlotsAreAccounted
    /\ WritersAreInside

-----------------------------------------------------------------------------
(* Tasks and slots. *)

LEMMA TaskPairs ==
    \A t \in Tasks : t = <<t[1], t[2]>> /\ t[1] \in Calls /\ t[2] \in Sources
BY DEF Tasks

LEMMA FiniteSlots ==
    /\ IsFiniteSet(InSlot) /\ Cardinality(InSlot) \in Nat
    /\ IsFiniteSet(InWrite) /\ Cardinality(InWrite) \in Nat
<1>1. IsFiniteSet(Tasks)
  BY SourcesAssumption, FS_Product DEF Tasks
<1>2. IsFiniteSet(Tasks \X Writers)
  BY <1>1, SourcesAssumption, FS_Product
<1>3. InSlot \in SUBSET Tasks /\ InWrite \in SUBSET (Tasks \X Writers)
  BY DEF InSlot, InWrite
<1>4. IsFiniteSet(InSlot) /\ IsFiniteSet(InWrite)
  BY <1>1, <1>2, <1>3, FS_Subset
<1> QED
  BY <1>4, FS_CardinalityType

\* A move changes the step of one task.
LEMMA MoveStep ==
    ASSUME TypeOK, NEW t \in Tasks, NEW from \in Steps, NEW to \in Steps, Move(t, from, to)
    PROVE  /\ step[t] = from /\ step'[t] = to
           /\ step' \in [Tasks -> Steps]
           /\ \A u \in Tasks : u # t => step'[u] = step[u]
BY DEF TypeOK, Move

\* A write changes the state of one writer.
LEMMA WriteStep ==
    ASSUME TypeOK, NEW t \in Tasks, NEW w \in Writers,
           NEW from \in {"idle", "waiting", "writing"},
           NEW to \in {"idle", "waiting", "writing"}, Write(t, w, from, to)
    PROVE  /\ step[t] = "working" /\ writing[t][w] = from /\ writing'[t][w] = to
           /\ writing' \in [Tasks -> [Writers -> {"idle", "waiting", "writing"}]]
           /\ \A u \in Tasks, v \in Writers :
                 u # t \/ v # w => writing'[u][v] = writing[u][v]
           /\ UNCHANGED <<running, sourceSem, accepted, step, won, heard, verdict>>
<1>1. writing \in [Tasks -> [Writers -> {"idle", "waiting", "writing"}]]
  BY DEF TypeOK
<1>2. writing' = [writing EXCEPT ![t][w] = to]
  BY DEF Write
<1>3. writing' \in [Tasks -> [Writers -> {"idle", "waiting", "writing"}]]
  BY <1>1, <1>2
<1>4. writing'[t][w] = to /\ \A u \in Tasks, v \in Writers :
         u # t \/ v # w => writing'[u][v] = writing[u][v]
  BY <1>1, <1>2
<1> QED
  BY <1>3, <1>4 DEF Write

\* Begin and end of a write, and what they do to the slots.
LEMMA WriteSlots ==
    ASSUME IInv, NEW t \in Tasks, NEW w \in Writers,
           NEW from \in {"idle", "waiting", "writing"},
           NEW to \in {"idle", "waiting", "writing"}, Write(t, w, from, to)
    PROVE  Cardinality(InWrite') = Cardinality(InWrite)
              + (IF to = "writing" /\ from # "writing" THEN 1 ELSE 0)
              - (IF from = "writing" /\ to # "writing" THEN 1 ELSE 0)
<1> DEFINE p == <<t, w>>
<1>1. TypeOK
  BY DEF IInv
<1>2. /\ writing[t][w] = from /\ writing'[t][w] = to
      /\ \A u \in Tasks, v \in Writers :
            u # t \/ v # w => writing'[u][v] = writing[u][v]
  BY <1>1, WriteStep
<1>3. /\ p \in InWrite <=> from = "writing"
      /\ p \in InWrite' <=> to = "writing"
      /\ InWrite' \ {p} = InWrite \ {p}
  BY <1>2 DEF InWrite
<1> HIDE DEF p
<1>4. CASE to = "writing"
  <2>1. InWrite' = InWrite \union {p}
    BY <1>3, <1>4
  <2>2. Cardinality(InWrite \union {p})
           = IF p \in InWrite THEN Cardinality(InWrite) ELSE Cardinality(InWrite) + 1
    BY FiniteSlots, FS_AddElement
  <2> QED
    BY <2>1, <2>2, <1>3, <1>4, FiniteSlots
<1>5. CASE to # "writing"
  <2>1. InWrite' = InWrite \ {p}
    BY <1>3, <1>5
  <2>2. Cardinality(InWrite \ {p})
           = IF p \in InWrite THEN Cardinality(InWrite) - 1 ELSE Cardinality(InWrite)
    BY FiniteSlots, FS_RemoveElement
  <2> QED
    BY <2>1, <2>2, <1>3, <1>5, FiniteSlots
<1> QED
  BY <1>4, <1>5

\* A move to another step, and what it does to the source slots.
LEMMA MoveSlots ==
    ASSUME TypeOK, NEW t \in Tasks, NEW from \in Steps, NEW to \in Steps, Move(t, from, to)
    PROVE  Cardinality(InSlot') = Cardinality(InSlot)
              + (IF to \in {"working", "leaving"} /\ from \notin {"working", "leaving"}
                 THEN 1 ELSE 0)
              - (IF from \in {"working", "leaving"} /\ to \notin {"working", "leaving"}
                 THEN 1 ELSE 0)
<1>1. /\ step[t] = from /\ step'[t] = to
      /\ \A u \in Tasks : u # t => step'[u] = step[u]
  BY MoveStep
<1>2. /\ t \in InSlot <=> from \in {"working", "leaving"}
      /\ InSlot' = IF to \in {"working", "leaving"} THEN InSlot \union {t} ELSE InSlot \ {t}
  BY <1>1 DEF InSlot
<1>3. Cardinality(InSlot \union {t})
         = IF t \in InSlot THEN Cardinality(InSlot) ELSE Cardinality(InSlot) + 1
  BY FiniteSlots, FS_AddElement
<1>4. Cardinality(InSlot \ {t})
         = IF t \in InSlot THEN Cardinality(InSlot) - 1 ELSE Cardinality(InSlot)
  BY FiniteSlots, FS_RemoveElement
<1>5. CASE to \in {"working", "leaving"}
  BY <1>2, <1>3, <1>5, FiniteSlots
<1>6. CASE to \notin {"working", "leaving"}
  BY <1>2, <1>4, <1>6, FiniteSlots
<1> QED
  BY <1>5, <1>6

\* The tasks held after a move.
LEMMA MoveHeld ==
    ASSUME TypeOK, NEW t \in Tasks, NEW from \in Steps \ {"none"}, NEW to \in Steps \ {"none"},
           from # "released", Move(t, from, to)
    PROVE  /\ t \in Held
           /\ Held' = IF to = "released" THEN Held \ {t} ELSE Held
BY MoveStep DEF Held, Steps

-----------------------------------------------------------------------------
(* The invariant holds initially. *)

LEMMA InitIInv == Init => IInv
<1> SUFFICES ASSUME Init PROVE IInv
  OBVIOUS
<1>1. TypeOK
  BY CapacityAssumption DEF Init, TypeOK, Steps, Verdicts
<1>2. TasksAreAccepted
  BY DEF Init, TasksAreAccepted, Tasks
<1>3. Held = {} /\ InSlot = {} /\ InWrite = {}
  BY DEF Init, Held, InSlot, InWrite
<1>4. OneImportPerSource /\ RunningIsExact
  BY <1>3 DEF OneImportPerSource, RunningIsExact, Init
<1>5. SlotsAreAccounted
  BY <1>3, FS_EmptySet DEF SlotsAreAccounted, Init
<1>6. WritersAreInside
  BY DEF WritersAreInside, Init
<1> QED
  BY <1>1, <1>2, <1>4, <1>5, <1>6 DEF IInv

-----------------------------------------------------------------------------
(* Every action preserves it. *)

LEMMA StartPreserves ==
    ASSUME IInv, NEW c \in Calls, NEW wanted \in SUBSET Sources, Start(c, wanted)
    PROVE  IInv'
<1> DEFINE taken == Idle(wanted)
<1>0. TypeOK /\ TasksAreAccepted
  BY DEF IInv
<1>1. /\ taken \in SUBSET Sources /\ taken \cap running = {}
      /\ verdict[c] = "none" /\ accepted[c] = {}
      /\ accepted' = [accepted EXCEPT ![c] = taken]
      /\ running' = running \union taken
      /\ step' = [t \in Tasks |-> IF t[1] = c /\ t[2] \in taken THEN "queued" ELSE step[t]]
      /\ verdict' = [verdict EXCEPT ![c] = "pending"]
      /\ UNCHANGED <<sourceSem, writeSem, won, writing, batches, heard>>
  BY <1>0 DEF Start, Idle, TasksAreAccepted
<1>2. \A t \in Tasks : t[1] = c => step[t] = "none"
  BY <1>0, <1>1, TaskPairs DEF TasksAreAccepted
<1> HIDE DEF taken
<1>3. TypeOK'
  BY <1>0, <1>1 DEF TypeOK, Steps, Verdicts
<1>4. TasksAreAccepted'
  <2>0. \A d \in Calls, s \in Sources : step'[<<d, s>>] =
           IF d = c /\ s \in taken THEN "queued" ELSE step[<<d, s>>]
    <3>1. \A d \in Calls, s \in Sources :
             <<d, s>> \in Tasks /\ <<d, s>>[1] = d /\ <<d, s>>[2] = s
      BY DEF Tasks
    <3> QED
      BY <1>1, <3>1
  <2>1. \A d \in Calls, s \in Sources : step'[<<d, s>>] # "none" <=> s \in accepted'[d]
    <3> TAKE d \in Calls, s \in Sources
    <3>1. step[<<d, s>>] # "none" <=> s \in accepted[d]
      BY <1>0 DEF TasksAreAccepted
    <3>2. accepted'[d] = IF d = c THEN taken ELSE accepted[d]
      BY <1>0, <1>1 DEF TypeOK
    <3>3. step'[<<d, s>>] = IF d = c /\ s \in taken THEN "queued" ELSE step[<<d, s>>]
      BY <2>0
    <3> QED
      BY <3>1, <3>2, <3>3, <1>1
  <2>2. \A d \in Calls : verdict'[d] = "none" => accepted'[d] = {}
    BY <1>0, <1>1 DEF TasksAreAccepted, TypeOK
  <2>3. \A d \in Calls : \A s \in heard'[d] :
           s \in accepted'[d] /\ step'[<<d, s>>] = "released"
    <3> TAKE d \in Calls
    <3> TAKE s \in heard'[d]
    <3>1. s \in Sources /\ s \in accepted[d] /\ step[<<d, s>>] = "released"
      BY <1>0, <1>1 DEF TypeOK, TasksAreAccepted
    <3>2. d # c
      BY <3>1, <1>1
    <3> QED
      BY <2>0, <3>1, <3>2, <1>0, <1>1 DEF TypeOK
  <2>4. \A t \in won' : step'[t] \in {"leaving", "freed", "released"}
    BY <1>0, <1>1, <1>2 DEF TasksAreAccepted, TypeOK
  <2> QED
    BY <2>1, <2>2, <2>3, <2>4 DEF TasksAreAccepted
<1>5. Held' = Held \union ({c} \X taken)
  <2>1. \A t \in Tasks : t \in {c} \X taken <=> t[1] = c /\ t[2] \in taken
    BY TaskPairs
  <2>2. {c} \X taken \subseteq Tasks
    BY <1>1 DEF Tasks
  <2> QED
    BY <1>1, <2>1, <2>2 DEF Held
<1>6. OneImportPerSource' /\ RunningIsExact'
  <2>1. OneImportPerSource /\ running = {t[2] : t \in Held}
    BY DEF IInv, RunningIsExact
  <2>2. \A t \in Held : t[2] \notin taken
    BY <2>1, <1>1
  <2>3. \A t \in {c} \X taken : t[1] = c /\ t[2] \in taken /\ t = <<t[1], t[2]>>
    OBVIOUS
  <2>4. OneImportPerSource'
    BY <1>5, <2>1, <2>2, <2>3 DEF OneImportPerSource
  <2>5. {t[2] : t \in {c} \X taken} = taken
    <3>1. \A s \in taken : <<c, s>> \in {c} \X taken /\ <<c, s>>[2] = s
      OBVIOUS
    <3> QED
      BY <2>3, <3>1
  <2>6. RunningIsExact'
    BY <1>1, <1>5, <2>1, <2>5 DEF RunningIsExact
  <2> QED
    BY <2>4, <2>6
<1>7. SlotsAreAccounted'
  <2>1. InSlot' = InSlot /\ InWrite' = InWrite
    BY <1>1, <1>2 DEF InSlot, InWrite
  <2> QED
    BY <1>1, <2>1 DEF SlotsAreAccounted, IInv
<1>8. WritersAreInside'
  BY <1>1, <1>2 DEF WritersAreInside, IInv
<1> QED
  BY <1>3, <1>4, <1>6, <1>7, <1>8 DEF IInv

\* What the steps of a goroutine have in common: a task in one step moves to a later
\* one, and neither acceptances nor reports change.
LEMMA MovePreserves ==
    ASSUME IInv, NEW t \in Tasks, NEW from \in Steps \ {"none", "released"},
           NEW to \in Steps \ {"none"}, Move(t, from, to),
           won' = won \/ (won' = won \union {t} /\ to = "leaving"),
           t \in won => to \in {"leaving", "freed", "released"},
           UNCHANGED <<accepted, heard, verdict>>
    PROVE  TasksAreAccepted'
<1>0. TypeOK /\ TasksAreAccepted
  BY DEF IInv
<1>1. /\ step[t] = from /\ step'[t] = to
      /\ \A u \in Tasks : u # t => step'[u] = step[u]
  BY <1>0, MoveStep
<1>2. \A c \in Calls, s \in Sources : <<c, s>> \in Tasks
  BY DEF Tasks
<1>3. \A c \in Calls, s \in Sources : step'[<<c, s>>] # "none" <=> s \in accepted'[c]
  <2> TAKE c \in Calls, s \in Sources
  <2>1. <<c, s>> \in Tasks /\ accepted'[c] = accepted[c]
    BY <1>2
  <2>2. step[<<c, s>>] # "none" <=> s \in accepted[c]
    BY <1>0 DEF TasksAreAccepted
  <2>3. step'[<<c, s>>] # "none" <=> step[<<c, s>>] # "none"
    BY <2>1, <1>1
  <2> QED
    BY <2>1, <2>2, <2>3
<1>4. \A c \in Calls : verdict'[c] = "none" => accepted'[c] = {}
  BY <1>0 DEF TasksAreAccepted
<1>5. \A c \in Calls : \A s \in heard'[c] :
         s \in accepted'[c] /\ step'[<<c, s>>] = "released"
  <2> TAKE c \in Calls
  <2> TAKE s \in heard'[c]
  <2>1. s \in Sources /\ s \in accepted[c] /\ step[<<c, s>>] = "released"
    BY <1>0 DEF TypeOK, TasksAreAccepted
  <2> QED
    BY <2>1, <1>1, <1>2
<1>6. \A u \in won' : step'[u] \in {"leaving", "freed", "released"}
  <2>1. won \subseteq Tasks
    BY <1>0 DEF TypeOK
  <2> QED
    BY <2>1, <1>0, <1>1 DEF TasksAreAccepted
<1> QED
  BY <1>3, <1>4, <1>5, <1>6 DEF TasksAreAccepted

LEMMA AcquirePreserves ==
    ASSUME IInv, NEW t \in Tasks, Acquire(t)
    PROVE  IInv'
<1>0. /\ TypeOK /\ SlotsAreAccounted /\ OneImportPerSource /\ RunningIsExact
      /\ WritersAreInside /\ TasksAreAccepted
  BY DEF IInv
<1>1. /\ Move(t, "queued", "working") /\ sourceSem < MaxSources
      /\ sourceSem' = sourceSem + 1
      /\ UNCHANGED <<running, writeSem, accepted, won, writing, batches, heard, verdict>>
  BY DEF Acquire, SourceSlot
<1>2. "queued" \in Steps \ {"none", "released"} /\ "working" \in Steps \ {"none"}
  BY DEF Steps
<1>3. /\ step[t] = "queued" /\ step'[t] = "working" /\ step' \in [Tasks -> Steps]
      /\ \A u \in Tasks : u # t => step'[u] = step[u]
  BY <1>0, <1>1, <1>2, MoveStep
<1>4. TypeOK'
  <2>1. sourceSem' \in 0..MaxSources
    BY <1>0, <1>1, CapacityAssumption DEF TypeOK
  <2> QED
    BY <1>0, <1>1, <1>3, <2>1 DEF TypeOK
<1>5. TasksAreAccepted'
  <2>1. t \notin won
    BY <1>0, <1>3 DEF TasksAreAccepted
  <2> QED
    BY <2>1, <1>1, <1>2, MovePreserves
<1>6. OneImportPerSource' /\ RunningIsExact'
  <2>1. Held' = Held
    BY <1>0, <1>1, <1>2, MoveHeld
  <2> QED
    BY <2>1, <1>0, <1>1 DEF OneImportPerSource, RunningIsExact
<1>7. SlotsAreAccounted'
  <2>1. Cardinality(InSlot') = Cardinality(InSlot) + 1
    BY <1>0, <1>1, <1>2, MoveSlots, FiniteSlots
  <2>2. InWrite' = InWrite
    BY <1>1 DEF InWrite
  <2> QED
    BY <2>1, <2>2, <1>0, <1>1 DEF SlotsAreAccounted
<1>8. WritersAreInside'
  BY <1>0, <1>1, <1>3 DEF WritersAreInside
<1> QED
  BY <1>4, <1>5, <1>6, <1>7, <1>8 DEF IInv

LEMMA ReturnPreserves ==
    ASSUME IInv, NEW t \in Tasks, NEW ok \in BOOLEAN, Return(t, ok)
    PROVE  IInv'
<1>0. /\ TypeOK /\ SlotsAreAccounted /\ OneImportPerSource /\ RunningIsExact
      /\ WritersAreInside /\ TasksAreAccepted
  BY DEF IInv
<1>1. /\ Move(t, "working", "leaving")
      /\ \A w \in Writers : writing[t][w] = "idle"
      /\ won' = won \/ won' = won \union {t}
      /\ UNCHANGED <<running, sourceSem, writeSem, accepted, writing, batches, heard, verdict>>
  BY DEF Return, WritersDone
<1>2. "working" \in Steps \ {"none", "released"} /\ "leaving" \in Steps \ {"none"}
  BY DEF Steps
<1>3. /\ step[t] = "working" /\ step'[t] = "leaving" /\ step' \in [Tasks -> Steps]
      /\ \A u \in Tasks : u # t => step'[u] = step[u]
  BY <1>0, <1>1, <1>2, MoveStep
<1>4. TypeOK'
  BY <1>0, <1>1, <1>3 DEF TypeOK
<1>5. TasksAreAccepted'
  BY <1>1, <1>2, MovePreserves
<1>6. OneImportPerSource' /\ RunningIsExact'
  <2>1. Held' = Held
    BY <1>0, <1>1, <1>2, MoveHeld
  <2> QED
    BY <2>1, <1>0, <1>1 DEF OneImportPerSource, RunningIsExact
<1>7. SlotsAreAccounted'
  <2>1. Cardinality(InSlot') = Cardinality(InSlot)
    BY <1>0, <1>1, <1>2, MoveSlots, FiniteSlots
  <2>2. InWrite' = InWrite
    BY <1>1 DEF InWrite
  <2> QED
    BY <2>1, <2>2, <1>0, <1>1 DEF SlotsAreAccounted
<1>8. WritersAreInside'
  BY <1>0, <1>1, <1>3 DEF WritersAreInside
<1> QED
  BY <1>4, <1>5, <1>6, <1>7, <1>8 DEF IInv

LEMMA FreeSlotPreserves ==
    ASSUME IInv, NEW t \in Tasks, FreeSlot(t)
    PROVE  IInv'
<1>0. /\ TypeOK /\ SlotsAreAccounted /\ OneImportPerSource /\ RunningIsExact
      /\ WritersAreInside /\ TasksAreAccepted
  BY DEF IInv
<1>1. /\ Move(t, "leaving", "freed") /\ sourceSem' = sourceSem - 1
      /\ UNCHANGED <<running, writeSem, accepted, won, writing, batches, heard, verdict>>
  BY DEF FreeSlot
<1>2. "leaving" \in Steps \ {"none", "released"} /\ "freed" \in Steps \ {"none"}
  BY DEF Steps
<1>3. /\ step[t] = "leaving" /\ step'[t] = "freed" /\ step' \in [Tasks -> Steps]
      /\ \A u \in Tasks : u # t => step'[u] = step[u]
  BY <1>0, <1>1, <1>2, MoveStep
<1>4. Cardinality(InSlot') = Cardinality(InSlot) - 1
  BY <1>0, <1>1, <1>2, MoveSlots, FiniteSlots
<1>5. TypeOK'
  <2>1. Cardinality(InSlot) # 0
    <3>1. t \in InSlot
      BY <1>3 DEF InSlot
    <3> QED
      BY <3>1, FiniteSlots, FS_EmptySet
  <2>2. sourceSem' \in 0..MaxSources
    <3>1. sourceSem \in 0..MaxSources /\ sourceSem # 0
      BY <2>1, <1>0 DEF TypeOK, SlotsAreAccounted
    <3> QED
      BY <3>1, <1>1, CapacityAssumption
  <2> QED
    BY <1>0, <1>1, <1>3, <2>2 DEF TypeOK
<1>6. TasksAreAccepted'
  BY <1>1, <1>2, MovePreserves
<1>7. OneImportPerSource' /\ RunningIsExact'
  <2>1. Held' = Held
    BY <1>0, <1>1, <1>2, MoveHeld
  <2> QED
    BY <2>1, <1>0, <1>1 DEF OneImportPerSource, RunningIsExact
<1>8. SlotsAreAccounted'
  <2>1. InWrite' = InWrite
    BY <1>1 DEF InWrite
  <2> QED
    BY <2>1, <1>4, <1>0, <1>1 DEF SlotsAreAccounted
<1>9. WritersAreInside'
  BY <1>0, <1>1, <1>3 DEF WritersAreInside
<1> QED
  BY <1>5, <1>6, <1>7, <1>8, <1>9 DEF IInv

LEMMA ReleasePreserves ==
    ASSUME IInv, NEW t \in Tasks, Release(t)
    PROVE  IInv'
<1>0. /\ TypeOK /\ SlotsAreAccounted /\ OneImportPerSource /\ RunningIsExact
      /\ WritersAreInside /\ TasksAreAccepted
  BY DEF IInv
<1>1. /\ Move(t, "freed", "released") /\ running' = running \ {t[2]}
      /\ UNCHANGED <<sourceSem, writeSem, accepted, won, writing, batches, heard, verdict>>
  BY DEF Release
<1>2. "freed" \in Steps \ {"none", "released"} /\ "released" \in Steps \ {"none"}
  BY DEF Steps
<1>3. /\ step[t] = "freed" /\ step'[t] = "released" /\ step' \in [Tasks -> Steps]
      /\ \A u \in Tasks : u # t => step'[u] = step[u]
  BY <1>0, <1>1, <1>2, MoveStep
<1>4. TypeOK'
  BY <1>0, <1>1, <1>3 DEF TypeOK
<1>5. TasksAreAccepted'
  BY <1>1, <1>2, MovePreserves
<1>6. OneImportPerSource' /\ RunningIsExact'
  <2>1. t \in Held /\ Held' = Held \ {t}
    BY <1>0, <1>1, <1>2, MoveHeld
  <2>2. \A u \in Held \ {t} : u[2] # t[2]
    BY <2>1, <1>0 DEF OneImportPerSource
  <2>3. OneImportPerSource'
    BY <2>1, <1>0 DEF OneImportPerSource
  <2>4. running' = {u[2] : u \in Held'}
    <3>1. running = {u[2] : u \in Held}
      BY <1>0 DEF RunningIsExact
    <3> QED
      BY <3>1, <2>1, <2>2, <1>1
  <2> QED
    BY <2>3, <2>4 DEF RunningIsExact
<1>7. SlotsAreAccounted'
  <2>1. Cardinality(InSlot') = Cardinality(InSlot)
    BY <1>0, <1>1, <1>2, MoveSlots, FiniteSlots
  <2>2. InWrite' = InWrite
    BY <1>1 DEF InWrite
  <2> QED
    BY <2>1, <2>2, <1>0, <1>1 DEF SlotsAreAccounted
<1>8. WritersAreInside'
  BY <1>0, <1>1, <1>3 DEF WritersAreInside
<1> QED
  BY <1>4, <1>5, <1>6, <1>7, <1>8 DEF IInv

LEMMA HearPreserves ==
    ASSUME IInv, NEW t \in Tasks, Hear(t)
    PROVE  IInv'
<1>0. TypeOK /\ TasksAreAccepted
  BY DEF IInv
<1>1. /\ step[t] = "released"
      /\ heard' = [heard EXCEPT ![t[1]] = @ \union {t[2]}]
      /\ UNCHANGED <<running, sourceSem, writeSem, accepted, step, won, writing, batches,
                     verdict>>
  BY DEF Hear, taskVars
<1>2. t = <<t[1], t[2]>> /\ t[1] \in Calls /\ t[2] \in Sources
  BY TaskPairs
<1>3. TypeOK'
  BY <1>0, <1>1, <1>2 DEF TypeOK
<1>4. TasksAreAccepted'
  <2>1. t[2] \in accepted[t[1]] /\ step[<<t[1], t[2]>>] = "released"
    <3>1. step[<<t[1], t[2]>>] = "released"
      BY <1>1, <1>2
    <3> QED
      BY <3>1, <1>0, <1>2 DEF TasksAreAccepted
  <2>2. \A c \in Calls : \A s \in heard'[c] : s \in heard[c] \/ (c = t[1] /\ s = t[2])
    <3>1. \A c \in Calls :
             heard'[c] = IF c = t[1] THEN heard[c] \union {t[2]} ELSE heard[c]
      BY <1>0, <1>1, <1>2 DEF TypeOK
    <3> QED
      BY <3>1
  <2>3. \A c \in Calls : \A s \in heard'[c] :
           s \in accepted'[c] /\ step'[<<c, s>>] = "released"
    <3> TAKE c \in Calls
    <3> TAKE s \in heard'[c]
    <3>1. CASE s \in heard[c]
      BY <3>1, <1>0, <1>1 DEF TasksAreAccepted
    <3>2. CASE c = t[1] /\ s = t[2]
      BY <3>2, <2>1, <1>1
    <3> QED
      BY <2>2, <3>1, <3>2
  <2> QED
    BY <2>3, <1>0, <1>1 DEF TasksAreAccepted
<1>5. /\ OneImportPerSource' /\ RunningIsExact' /\ SlotsAreAccounted' /\ WritersAreInside'
  BY <1>1 DEF IInv, OneImportPerSource, RunningIsExact, SlotsAreAccounted,
              WritersAreInside, Held, InSlot, InWrite
<1> QED
  BY <1>3, <1>4, <1>5 DEF IInv

LEMMA ReportPreserves ==
    ASSUME IInv, NEW c \in Calls, Report(c)
    PROVE  IInv'
<1>0. TypeOK /\ TasksAreAccepted
  BY DEF IInv
<1>1. /\ verdict[c] = "pending"
      /\ verdict' = [verdict EXCEPT ![c] = IF AllSucceeded(c) THEN "succeeded" ELSE "failed"]
      /\ UNCHANGED <<running, sourceSem, writeSem, accepted, step, won, writing, batches,
                     heard>>
  BY DEF Report, taskVars
<1>2. TypeOK'
  BY <1>0, <1>1 DEF TypeOK, Verdicts
<1>3. TasksAreAccepted'
  <2>1. \A d \in Calls : verdict'[d] = "none" => verdict[d] = "none"
    BY <1>0, <1>1 DEF TypeOK
  <2> QED
    BY <2>1, <1>0, <1>1 DEF TasksAreAccepted
<1>4. /\ OneImportPerSource' /\ RunningIsExact' /\ SlotsAreAccounted' /\ WritersAreInside'
  BY <1>1 DEF IInv, OneImportPerSource, RunningIsExact, SlotsAreAccounted,
              WritersAreInside, Held, InSlot, InWrite
<1> QED
  BY <1>2, <1>3, <1>4 DEF IInv

\* What the steps of a writer have in common: only the slots and batches may change
\* besides the writer.
LEMMA WritePreserves ==
    ASSUME IInv, NEW t \in Tasks, NEW w \in Writers,
           NEW from \in {"idle", "waiting", "writing"},
           NEW to \in {"idle", "waiting", "writing"}, Write(t, w, from, to),
           writeSem' \in 0..MaxWrites, batches' \in 0..MaxBatches,
           writeSem' = writeSem + (IF to = "writing" /\ from # "writing" THEN 1 ELSE 0)
                                - (IF from = "writing" /\ to # "writing" THEN 1 ELSE 0)
    PROVE  IInv'
<1>0. /\ TypeOK /\ SlotsAreAccounted /\ OneImportPerSource /\ RunningIsExact
      /\ WritersAreInside /\ TasksAreAccepted
  BY DEF IInv
<1>1. /\ step[t] = "working"
      /\ writing' \in [Tasks -> [Writers -> {"idle", "waiting", "writing"}]]
      /\ \A u \in Tasks, v \in Writers :
            u # t \/ v # w => writing'[u][v] = writing[u][v]
      /\ UNCHANGED <<running, sourceSem, accepted, step, won, heard, verdict>>
  BY <1>0, WriteStep
<1>2. TypeOK'
  BY <1>0, <1>1 DEF TypeOK
<1>3. TasksAreAccepted' /\ OneImportPerSource' /\ RunningIsExact'
  BY <1>0, <1>1 DEF TasksAreAccepted, OneImportPerSource, RunningIsExact, Held
<1>4. SlotsAreAccounted'
  <2>1. InSlot' = InSlot
    BY <1>1 DEF InSlot
  <2>2. writeSem = Cardinality(InWrite) /\ sourceSem = Cardinality(InSlot)
    BY <1>0 DEF SlotsAreAccounted
  <2>3. Cardinality(InWrite') = writeSem'
    BY <2>2, WriteSlots
  <2> QED
    BY <2>1, <2>2, <2>3, <1>1 DEF SlotsAreAccounted
<1>5. WritersAreInside'
  <2>1. \A u \in Tasks : step'[u] # "working" => u # t
    BY <1>1
  <2> QED
    BY <2>1, <1>0, <1>1 DEF WritersAreInside
<1> QED
  BY <1>2, <1>3, <1>4, <1>5 DEF IInv

LEMMA WritersPreserve ==
    ASSUME IInv, NEW t \in Tasks, NEW w \in Writers,
           AskWrite(t, w) \/ BeginWrite(t, w) \/ GiveUpWrite(t, w) \/ EndWrite(t, w)
    PROVE  IInv'
<1>0. writeSem \in 0..MaxWrites /\ batches \in 0..MaxBatches
  BY DEF IInv, TypeOK
<1>1. CASE AskWrite(t, w)
  <2>1. /\ Write(t, w, "idle", "waiting")
        /\ writeSem' = writeSem /\ batches' \in 0..MaxBatches
    BY <1>0, <1>1, CapacityAssumption DEF AskWrite
  <2> QED
    BY <2>1, <1>0, WritePreserves
<1>2. CASE BeginWrite(t, w)
  <2>1. /\ Write(t, w, "waiting", "writing")
        /\ writeSem' = writeSem + 1 /\ writeSem' \in 0..MaxWrites /\ batches' = batches
    BY <1>0, <1>2, CapacityAssumption DEF BeginWrite
  <2> QED
    BY <2>1, <1>0, WritePreserves
<1>3. CASE GiveUpWrite(t, w)
  <2>1. /\ Write(t, w, "waiting", "idle")
        /\ writeSem' = writeSem /\ batches' = batches
    BY <1>3 DEF GiveUpWrite
  <2> QED
    BY <2>1, <1>0, WritePreserves
<1>4. CASE EndWrite(t, w)
  <2>1. /\ Write(t, w, "writing", "idle")
        /\ writeSem' = writeSem - 1 /\ batches' = batches
    BY <1>4 DEF EndWrite
  <2>2. Cardinality(InWrite) # 0
    <3>1. <<t, w>> \in InWrite
      BY <2>1 DEF Write, InWrite
    <3> QED
      BY <3>1, FiniteSlots, FS_EmptySet
  <2>3. writeSem' \in 0..MaxWrites
    BY <2>1, <2>2, <1>0, FiniteSlots, CapacityAssumption DEF IInv, SlotsAreAccounted
  <2> QED
    BY <2>1, <2>3, <1>0, WritePreserves
<1> QED
  BY <1>1, <1>2, <1>3, <1>4

LEMMA NextPreserves == IInv /\ [Next]_vars => IInv'
<1> SUFFICES ASSUME IInv, [Next]_vars PROVE IInv'
  OBVIOUS
<1>1. CASE \E c \in Calls, wanted \in SUBSET Sources \ {{}} : Start(c, wanted)
  BY <1>1, StartPreserves
<1>2. CASE \E t \in Tasks : Proceed(t)
  BY <1>2, AcquirePreserves, ReturnPreserves, FreeSlotPreserves, ReleasePreserves,
     HearPreserves DEF Proceed
<1>3. CASE \E t \in Tasks : \E w \in Writers :
              AskWrite(t, w) \/ BeginWrite(t, w) \/ GiveUpWrite(t, w) \/ EndWrite(t, w)
  BY <1>3, WritersPreserve
<1>4. CASE \E c \in Calls : Report(c)
  BY <1>4, ReportPreserves
<1>5. CASE UNCHANGED vars
  BY <1>5 DEF vars, taskVars, IInv, TypeOK, TasksAreAccepted, OneImportPerSource,
     RunningIsExact, SlotsAreAccounted, WritersAreInside, Held, InSlot, InWrite
<1> QED
  BY <1>1, <1>2, <1>3, <1>4, <1>5 DEF Next, Service

-----------------------------------------------------------------------------
(* Theorems. *)

LEMMA Invariance == Spec => []IInv
BY InitIInv, NextPreserves, PTL DEF Spec

\* Every reachable state is well typed; in particular neither semaphore ever counts
\* below zero or above its capacity.
THEOREM TypeCorrectness == Spec => []TypeOK
<1>1. IInv => TypeOK
  BY DEF IInv
<1> QED
  BY <1>1, Invariance, PTL

\* A source is imported by one call at a time, and running names exactly the sources
\* being imported.
THEOREM Exclusion == Spec => [](OneImportPerSource /\ RunningIsExact)
<1>1. IInv => OneImportPerSource /\ RunningIsExact
  BY DEF IInv
<1> QED
  BY <1>1, Invariance, PTL

\* Each semaphore counts the goroutines inside it, and a writer in a write slot
\* belongs to a worker in a source slot.
THEOREM Accounting == Spec => [](SlotsAreAccounted /\ WritesAreInside)
<1>1. IInv => SlotsAreAccounted /\ WritesAreInside
  BY DEF IInv, WritersAreInside, WritesAreInside, InWrite
<1> QED
  BY <1>1, Invariance, PTL

-----------------------------------------------------------------------------
(* The coordinator implements the board. *)

boardVars == <<Held, Lost, verdict>>

LEMMA StartClaims ==
    ASSUME IInv, NEW c \in Calls, NEW wanted \in SUBSET Sources, Start(c, wanted)
    PROVE  Board!Claim(c, Idle(wanted))
<1> DEFINE taken == Idle(wanted)
<1>0. TypeOK /\ TasksAreAccepted
  BY DEF IInv
<1>1. /\ taken \in SUBSET Sources /\ taken \cap running = {}
      /\ verdict[c] = "none" /\ accepted[c] = {}
      /\ step' = [t \in Tasks |-> IF t[1] = c /\ t[2] \in taken THEN "queued" ELSE step[t]]
      /\ verdict' = [verdict EXCEPT ![c] = "pending"]
      /\ won' = won
  BY <1>0 DEF Start, Idle, TasksAreAccepted
<1>2. \A t \in Tasks : t[1] = c => step[t] = "none"
  BY <1>0, <1>1, TaskPairs DEF TasksAreAccepted
<1> HIDE DEF taken
<1>3. Held' = Held \union ({c} \X taken)
  <2>1. \A t \in Tasks : t \in {c} \X taken <=> t[1] = c /\ t[2] \in taken
    BY TaskPairs
  <2>2. {c} \X taken \subseteq Tasks
    BY <1>1 DEF Tasks
  <2> QED
    BY <1>1, <2>1, <2>2 DEF Held
<1>4. Lost' = Lost
  BY <1>1, <1>2 DEF Lost
<1>5. \A p \in Held : p[2] \notin taken
  BY <1>1 DEF IInv, RunningIsExact
<1> QED
  BY <1>1, <1>3, <1>4, <1>5 DEF Board!Claim, taken

\* The steps of a goroutine end its task, when it is released, or stutter.
LEMMA MovesEnd ==
    ASSUME IInv, NEW t \in Tasks, Proceed(t)
    PROVE  Board!End(t) \/ UNCHANGED boardVars
<1>0. TypeOK /\ TasksAreAccepted
  BY DEF IInv
<1>1. CASE Acquire(t) \/ FreeSlot(t)
  <2>1. /\ Move(t, "queued", "working") \/ Move(t, "leaving", "freed")
        /\ UNCHANGED <<won, verdict>>
    BY <1>1 DEF Acquire, FreeSlot
  <2>2. Held' = Held /\ Lost' = Lost
    BY <2>1, <1>0, MoveStep DEF Steps, Held, Lost
  <2> QED
    BY <2>1, <2>2 DEF boardVars
<1>2. CASE \E ok \in BOOLEAN : Return(t, ok)
  <2>1. /\ Move(t, "working", "leaving")
        /\ won' = won \/ won' = won \union {t}
        /\ verdict' = verdict
    BY <1>2 DEF Return
  <2>2. Held' = Held /\ Lost' = Lost
    BY <2>1, <1>0, MoveStep DEF Steps, Held, Lost
  <2> QED
    BY <2>1, <2>2 DEF boardVars
<1>3. CASE Release(t)
  <2>1. Move(t, "freed", "released") /\ UNCHANGED <<won, verdict>>
    BY <1>3 DEF Release
  <2>2. t \in Held /\ Held' = Held \ {t}
    BY <2>1, <1>0, MoveHeld DEF Steps
  <2>3. Lost' = Lost \/ Lost' = Lost \union {t}
    BY <2>1, <1>0, MoveStep DEF Steps, Lost
  <2> QED
    BY <2>1, <2>2, <2>3 DEF Board!End
<1>4. CASE Hear(t)
  BY <1>4 DEF Hear, taskVars, boardVars, Held, Lost
<1> QED
  BY <1>1, <1>2, <1>3, <1>4 DEF Proceed

\* The collector has heard of every accepted source, so none is held, and a source
\* whose worker did not succeed is a lost one.
LEMMA ReportReports ==
    ASSUME IInv, NEW c \in Calls, Report(c)
    PROVE  Board!Report(c)
<1>0. TypeOK /\ TasksAreAccepted
  BY DEF IInv
<1>1. /\ verdict[c] = "pending" /\ heard[c] = accepted[c]
      /\ verdict' = [verdict EXCEPT ![c] = IF AllSucceeded(c) THEN "succeeded" ELSE "failed"]
      /\ UNCHANGED <<step, won>>
  BY DEF Report, taskVars
<1>2. \A s \in accepted[c] : s \in Sources /\ step[<<c, s>>] = "released"
  BY <1>0, <1>1 DEF TasksAreAccepted, TypeOK
<1>3. \A t \in Tasks : t[1] = c /\ step[t] # "none" =>
         t[2] \in accepted[c] /\ step[t] = "released" /\ t = <<c, t[2]>>
  BY <1>0, <1>2, TaskPairs DEF TasksAreAccepted
<1>4. \A p \in Held : p[1] # c
  BY <1>3 DEF Held
<1>5. AllSucceeded(c) <=> ~(\E p \in Lost : p[1] = c)
  <2>1. ASSUME AllSucceeded(c), NEW p \in Lost, p[1] = c PROVE FALSE
    BY <2>1, <1>3 DEF AllSucceeded, Lost
  <2>2. ASSUME ~AllSucceeded(c) PROVE \E p \in Lost : p[1] = c
    <3>1. PICK s \in accepted[c] : <<c, s>> \notin won
      BY <2>2 DEF AllSucceeded
    <3>2. <<c, s>> \in Lost /\ <<c, s>>[1] = c
      BY <3>1, <1>2 DEF Lost, Tasks
    <3> QED
      BY <3>2
  <2> QED
    BY <2>1, <2>2
<1>6. Held' = Held /\ Lost' = Lost
  BY <1>1 DEF Held, Lost
<1> QED
  BY <1>1, <1>4, <1>5, <1>6 DEF Board!Report

\* The coordinator keeps its promise to callers: it implements the abstract board of
\* claims and reports, whatever the number of calls, sources and slots.
THEOREM Implementation == Spec => BoardSpec
<1>1. Init => Board!Init
  BY DEF Init, Board!Init, Held, Lost
<1>2. IInv /\ [Next]_vars => [Board!Next]_boardVars
  <2> SUFFICES ASSUME IInv, [Next]_vars PROVE Board!Next \/ UNCHANGED boardVars
    OBVIOUS
  <2>1. CASE \E c \in Calls, wanted \in SUBSET Sources \ {{}} : Start(c, wanted)
    <3>1. PICK c \in Calls, wanted \in SUBSET Sources \ {{}} : Start(c, wanted)
      BY <2>1
    <3>2. Board!Claim(c, Idle(wanted)) /\ Idle(wanted) \in SUBSET Sources
      BY <3>1, StartClaims DEF Idle
    <3> QED
      BY <3>2 DEF Board!Next
  <2>2. CASE \E t \in Tasks : Proceed(t)
    <3>1. PICK t \in Tasks : Board!End(t) \/ UNCHANGED boardVars
      BY <2>2, MovesEnd
    <3> QED
      BY <3>1 DEF Board!Next, Tasks
  <2>3. CASE \E t \in Tasks : \E w \in Writers :
                AskWrite(t, w) \/ BeginWrite(t, w) \/ GiveUpWrite(t, w) \/ EndWrite(t, w)
    BY <2>3 DEF AskWrite, BeginWrite, GiveUpWrite, EndWrite, Write, boardVars, Held, Lost
  <2>4. CASE \E c \in Calls : Report(c)
    BY <2>4, ReportReports DEF Board!Next
  <2>5. CASE UNCHANGED vars
    BY <2>5 DEF vars, taskVars, boardVars, Held, Lost
  <2> QED
    BY <2>1, <2>2, <2>3, <2>4, <2>5 DEF Next, Service
<1> QED
  BY <1>1, <1>2, Invariance, PTL DEF Spec, BoardSpec, Board!Spec, boardVars
=============================================================================
