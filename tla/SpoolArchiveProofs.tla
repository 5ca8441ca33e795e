-------------------------- MODULE SpoolArchiveProofs --------------------------
(***************************************************************************)
(* Proofs about SpoolArchive: its type invariant, that a line written      *)
(* before its day is over is never lost, and that each copy of a line in   *)
(* the archives or the database beyond the first has cost a failure.       *)
(***************************************************************************)
EXTENDS SpoolArchive, FiniteSetTheorems, TLAPS

\* Messages, runs and archives belong to today and the day before.
Times ==
    /\ \A l \in Lines : stamp[l] <= today
    /\ \A l \in waiting : stamp[l] >= 1 /\ today <= stamp[l] + 1
    /\ \A l \in prompt : stamp[l] >= 1
    /\ waiting \intersect prompt = {}
    /\ \A at \in ticks : at <= today
    /\ run.at <= today
    /\ \A a \in DOMAIN archives : a.on <= today
    /\ \A d \in Days : states[d] = "done" => d < today

\* Lines are in files of their day, and the writer's file is lost only after its day.
Files ==
    /\ file.linked => file.day \in DOMAIN spool
    /\ file.linked \/ file.day < today
    /\ \A d \in DOMAIN spool : \A l \in spool[d] : stamp[l] = d
    /\ \A a \in DOMAIN archives : \A l \in archives[a] : stamp[l] = a.day

\* The prompt lines of a day.
Prompt(d) == {l \in prompt : stamp[l] = d}

\* What a run of the archiver has looked at is still so.
Running ==
    /\ step # "idle" => run.at \in Days
    /\ step \in {"day", "publish", "remove"} =>
         /\ run.days # {} /\ run.days \subseteq DOMAIN spool
         /\ \A d \in run.days : d < run.at
    /\ step = "publish" =>
         /\ Target \notin DOMAIN archives
         /\ \A l \in run.copied : stamp[l] = Day
         /\ Prompt(Day) \intersect spool[Day] \subseteq run.copied
    /\ step = "remove" => Target \in DOMAIN archives
    /\ \A d \in run.ready : states[d] = "done"
    /\ \A a \in run.expired : a.day \in run.ready

\* An archive has every prompt line that is still in the spool file of its day.
ArchivesKeepUp ==
    \A a \in DOMAIN archives : \A l \in Prompt(a.day) :
        a.day \in DOMAIN spool /\ l \in spool[a.day] => l \in archives[a]

InSpool(l) == stamp[l] \in DOMAIN spool /\ l \in spool[stamp[l]]

\* A prompt line that has left the spool file of a day not yet imported is in its first
\* archive, or in one beside which no other will be made.
Kept ==
    \A l \in prompt :
        \/ states[stamp[l]] = "done"
        \/ InSpool(l)
        \/ \E b \in DOMAIN archives :
             /\ b.day = stamp[l] /\ l \in archives[b]
             /\ b.on = stamp[l] + 1 \/ (stamp[l] + 2 <= today /\ stamp[l] \notin DOMAIN spool)

\* Of the archives of a day not yet imported, none is older than all with a prompt line.
Oldest ==
    \A a \in DOMAIN archives : \A l \in Prompt(a.day) :
        states[a.day] = "done" \/
        \E b \in DOMAIN archives : b.day = a.day /\ b.on <= a.on /\ l \in archives[b]

\* What is done is in the database.
Imported == \A l \in prompt : states[stamp[l]] = "done" => db[l] > 0

\* An import reads archives that stay, and misses no prompt line.
Importing ==
    import # NoImport =>
        /\ import.step \in {"drop", "load"}
        /\ import.day \in Days /\ import.day < today /\ states[import.day] # "done"
        /\ import.target \subseteq {a \in DOMAIN archives : a.day = import.day}
        /\ \A l \in Prompt(import.day) :
             \/ \E b \in import.target : l \in archives[b]
             \/ import.step = "load" /\ db[l] > 0

IInv == TypeOK /\ Times /\ Files /\ Running /\ ArchivesKeepUp /\ Kept /\ Oldest
        /\ Imported /\ Importing

-----------------------------------------------------------------------------
LEMMA InitIsKept == Init => IInv
<1> SUFFICES ASSUME Init PROVE IInv
  OBVIOUS
<1> USE LinesAssumption, DaysAssumption, FaultsAssumption
<1>1. TypeOK
  BY DEF Init, TypeOK, Days, Names, NoFile, NoRun, Run, NoImport
<1>2. Times /\ Files
  BY DEF Init, Times, Files, NoFile, NoRun, Days
<1>3. Running /\ Importing
  BY DEF Init, Running, Importing, NoRun
<1>4. ArchivesKeepUp /\ Kept /\ Oldest /\ Imported
  BY DEF Init, ArchivesKeepUp, Kept, Oldest, Imported, Prompt
<1> QED
  BY <1>1, <1>2, <1>3, <1>4 DEF IInv

\* A set of naturals has a least member: of the initial segments 0..n that it
\* spans, one is minimal for inclusion.
LEMMA LeastMember ==
    ASSUME NEW S \in SUBSET Nat, S # {}
    PROVE  \E x \in S : \A y \in S : x <= y
<1> DEFINE Initial == {0..n : n \in S}
           Order == StrictSubsetOrdering(Nat)
<1>1. PICK I \in Initial : \A J \in Initial : ~(<<J, I>> \in Order)
  <2>1. IsWellFoundedOn(Order, FiniteSubsetsOf(Nat))
    BY FS_StrictSubsetOrderingWellFounded
  <2>2. \A n \in S : IsFiniteSet(0..n) /\ 0..n \in SUBSET Nat
    <3> TAKE n \in S
    <3>1. IsFiniteSet(0..n)
      BY FS_Interval
    <3> QED
      BY <3>1
  <2>3. Initial # {} /\ Initial \subseteq FiniteSubsetsOf(Nat)
    BY <2>2 DEF FiniteSubsetsOf
  <2> HIDE DEF Initial, Order
  <2> QED
    BY <2>1, <2>3, WFMin
<1>2. PICK x \in S : I = 0..x
  OBVIOUS
<1>3. ASSUME NEW y \in S
      PROVE  x <= y
  <2>1. <<0..y, 0..x>> \notin Order
    BY <1>1, <1>2
  <2>2. 0..y \in SUBSET Nat /\ 0..x \in SUBSET Nat
    OBVIOUS
  <2>3. CASE y < x
    <3>1. 0..y \subseteq 0..x /\ x \notin 0..y /\ x \in 0..x
      BY <2>3
    <3>2. 0..y # 0..x
      BY <3>1
    <3> HIDE DEF Order
    <3> QED
      BY <2>1, <2>2, <3>1, <3>2, Zenon DEF Order, StrictSubsetOrdering
  <2> QED
    BY <2>3
<1> QED
  BY <1>3

LEMMA MinIsMember ==
    ASSUME NEW S \in SUBSET Nat, S # {}
    PROVE  Min(S) \in S
BY LeastMember DEF Min

\* The day at hand is one of the listed days.
LEMMA DayIsListed ==
    ASSUME TypeOK, Running, step \in {"day", "publish", "remove"}
    PROVE  Day \in run.days /\ Day \in Days /\ Day \in DOMAIN spool /\ Day < run.at
<1>1. run.days # {} /\ run.days \subseteq Days /\ run.days \subseteq Nat
  BY DEF TypeOK, Running, Run, Days
<1>2. Day \in run.days
  BY <1>1, MinIsMember DEF Day
<1> QED
  BY <1>1, <1>2 DEF Running

-----------------------------------------------------------------------------
(* The receiver. *)

LEMMA ReceiveKeeps == IInv /\ Receive => IInv'
<1> SUFFICES ASSUME IInv, Receive PROVE IInv'
  OBVIOUS
<1> USE DEF IInv
<1>1. PICK m \in Lines : stamp[m] = 0 /\ stamp' = [stamp EXCEPT ![m] = today]
                         /\ waiting' = waiting \union {m}
  <2> DEFINE left == {l \in Lines : stamp[l] = 0}
  <2>1. left # {} /\ left \subseteq Nat
    BY LinesAssumption DEF Receive
  <2>2. Min(left) \in left
    BY <2>1, MinIsMember
  <2> QED
    BY <2>2 DEF Receive
<1>2. UNCHANGED <<today, prompt, file, spool, archiver, imported, faults>>
  BY DEF Receive
<1> USE DEF archiver, imported
<1>3. today \in Nat /\ today >= 1 /\ today <= MaxDay /\ MaxDay \in Nat /\ stamp \in [Lines -> 0 .. MaxDay] /\ waiting \subseteq Lines
  BY DaysAssumption DEF TypeOK, Days
<1>4. TypeOK'
  BY <1>1, <1>2, <1>3 DEF TypeOK, Days
<1>5. \A l \in prompt : stamp'[l] = stamp[l] /\ l # m
  BY <1>1, <1>3 DEF Times, TypeOK
<1>6. \A d \in Days : Prompt(d)' = Prompt(d)
  BY <1>2, <1>5 DEF Prompt
<1>7. Times'
  <2>1. \A l \in Lines : stamp'[l] <= today
    BY <1>1, <1>3 DEF Times
  <2>2. \A l \in waiting' : stamp'[l] >= 1 /\ today <= stamp'[l] + 1
    <3>1. \A l \in waiting : l # m /\ stamp'[l] = stamp[l]
      BY <1>1, <1>3 DEF Times
    <3>2. stamp'[m] = today /\ today <= today + 1
      BY <1>1, <1>3 DEF Days
    <3> QED
      BY <1>1, <1>3, <3>1, <3>2 DEF Times
  <2>3. waiting' \intersect prompt = {}
    BY <1>1, <1>5 DEF Times
  <2> QED
    BY <1>2, <1>5, <2>1, <2>2, <2>3 DEF Times
<1>8. \A l \in Lines : stamp[l] # 0 => stamp'[l] = stamp[l]
  BY <1>1, <1>3
<1>9. Files'
  BY <1>2, <1>8 DEF Files, TypeOK, Days, Names
<1>10. Running'
  <2>1. step = "publish" => Day \in Days
    BY DayIsListed
  <2>2. step = "publish" => Prompt(Day)' = Prompt(Day) /\ Day' = Day
    BY <1>2, <1>6, <2>1 DEF Day
  <2> QED
    BY <1>2, <1>8, <2>1, <2>2 DEF Running, TypeOK, Run, Target, Day, Days
<1>11. ArchivesKeepUp' /\ Oldest'
  BY <1>2, <1>6 DEF ArchivesKeepUp, Oldest, TypeOK, Names
<1>12. Kept' /\ Imported'
  BY <1>2, <1>5 DEF Kept, Imported, InSpool
<1>13. Importing'
  BY <1>2, <1>6 DEF Importing
<1> QED
  BY <1>4, <1>7, <1>9, <1>10, <1>11, <1>12, <1>13

\* What an append does: its line is new in the file of its day, and prompt only if it is
\* there on that day.
LEMMA AppendEffect ==
    ASSUME IInv, Append
    PROVE  \E m \in waiting :
             /\ waiting' = waiting \ {m} /\ m \notin prompt
             /\ stamp[m] \in Days /\ stamp[m] <= today /\ today <= stamp[m] + 1
             /\ prompt \subseteq prompt' /\ prompt' \subseteq prompt \union {m}
             /\ m \in prompt' => today = stamp[m] /\ stamp[m] \in DOMAIN spool' /\ m \in spool'[stamp[m]]
             /\ DOMAIN spool \subseteq DOMAIN spool' /\ DOMAIN spool' \subseteq DOMAIN spool \union {stamp[m]}
             /\ \A d \in DOMAIN spool : spool[d] \subseteq spool'[d]
             /\ \A d \in DOMAIN spool' : \A l \in spool'[d] :
                   (d \in DOMAIN spool /\ l \in spool[d]) \/ (l = m /\ d = stamp[m])
             /\ file' \in [day : 0 .. MaxDay, linked : BOOLEAN]
             /\ file'.linked => file'.day \in DOMAIN spool'
             /\ file'.linked \/ file'.day < today
             /\ faults' \in 0 .. MaxFaults
<1> USE DEF IInv
<1>1. PICK m \in waiting : waiting' = waiting \ {m} /\ (Write(m) \/ Refuse(m))
  BY DEF Append
<1> DEFINE d == stamp[m]
<1>2. /\ d \in Days /\ d <= today /\ today <= d + 1 /\ m \notin prompt /\ d >= 1 /\ d \in 0 .. MaxDay
      /\ today \in Nat /\ today >= 1 /\ MaxDay \in Nat
  BY DaysAssumption DEF TypeOK, Times, Days
<1>3. faults' \in 0 .. MaxFaults
  BY <1>1, FaultsAssumption DEF Write, Refuse, Fault, TypeOK
<1>4. /\ file \in [day : 0 .. MaxDay, linked : BOOLEAN]
      /\ file.linked => file.day \in DOMAIN spool
      /\ file.linked \/ file.day < today
  BY DEF TypeOK, Files
<1> HIDE DEF IInv
<1>5. CASE Refuse(m)
  <2>1. file' = NoFile /\ spool' = spool /\ prompt' = prompt
    BY <1>5 DEF Refuse
  <2>2. NoFile \in [day : 0 .. MaxDay, linked : BOOLEAN] /\ ~NoFile.linked /\ NoFile.day < today
    BY <1>2 DEF NoFile
  <2> QED
    BY <1>1, <1>2, <1>3, <2>1, <2>2
<1>6. CASE Write(m)
  <2> DEFINE opened == IF Holds(d) THEN file ELSE [day |-> d, linked |-> TRUE]
             files == IF Holds(d) THEN spool ELSE Created(d)
  <2>1. opened \in [day : 0 .. MaxDay, linked : BOOLEAN] /\ opened.day = d /\ file' = opened
    <3>1. file' = opened
      BY <1>6 DEF Write
    <3>2. CASE Holds(d)
      <4>1. opened = file /\ file.day = d
        BY <3>2 DEF Holds
      <4> HIDE DEF opened
      <4> QED
        BY <1>4, <3>1, <4>1
    <3>3. CASE ~Holds(d)
      <4>1. opened = [day |-> d, linked |-> TRUE]
        BY <3>3
      <4> HIDE DEF opened
      <4> QED
        BY <1>2, <3>1, <4>1
    <3> QED
      BY <3>2, <3>3
  <2>2. /\ DOMAIN spool \subseteq DOMAIN files /\ DOMAIN files \subseteq DOMAIN spool \union {d}
        /\ \A e \in DOMAIN spool : files[e] = spool[e]
        /\ \A e \in DOMAIN files : e \in DOMAIN spool \/ files[e] = {}
        /\ opened.linked => d \in DOMAIN files
    <3>1. CASE Holds(d)
      <4>1. opened = file /\ files = spool /\ file.day = d
        BY <3>1 DEF Holds
      <4> HIDE DEF opened, files
      <4> QED
        BY <1>4, <4>1
    <3>2. CASE ~Holds(d) /\ d \in DOMAIN spool
      BY <3>2 DEF Created
    <3>3. CASE ~Holds(d) /\ d \notin DOMAIN spool
      BY <3>3 DEF Created, With
    <3> QED
      BY <3>1, <3>2, <3>3
  <2>3. opened.linked \/ opened.day < today
    BY <1>4 DEF Holds
  <2>4. \/ /\ spool' = IF opened.linked THEN [files EXCEPT ![d] = @ \union {m}] ELSE files
           /\ prompt' = IF today = d THEN prompt \union {m} ELSE prompt
        \/ spool' = files /\ prompt' = prompt
    BY <1>6 DEF Write
  <2> HIDE DEF opened, files
  <2>5. DOMAIN spool' = DOMAIN files
    BY <2>4
  <2>6. \A e \in DOMAIN files : files[e] \subseteq spool'[e] /\ spool'[e] \subseteq files[e] \union {m}
                               /\ (e # d => spool'[e] = files[e])
    BY <2>4
  <2>7. m \in prompt' => today = d /\ d \in DOMAIN spool' /\ m \in spool'[d]
    <3> SUFFICES ASSUME m \in prompt' PROVE today = d /\ d \in DOMAIN spool' /\ m \in spool'[d]
      OBVIOUS
    <3>1. today = d /\ spool' = IF opened.linked THEN [files EXCEPT ![d] = @ \union {m}] ELSE files
      BY <1>2, <2>4
    <3>2. opened.linked
      BY <1>2, <2>1, <2>3, <3>1
    <3> QED
      BY <2>2, <3>1, <3>2
  <2>8. prompt \subseteq prompt' /\ prompt' \subseteq prompt \union {m}
    BY <2>4
  <2>9. \A e \in DOMAIN spool' : \A l \in spool'[e] :
           (e \in DOMAIN spool /\ l \in spool[e]) \/ (l = m /\ e = d)
    BY <2>2, <2>5, <2>6
  <2>10. DOMAIN spool \subseteq DOMAIN spool' /\ DOMAIN spool' \subseteq DOMAIN spool \union {d}
         /\ \A e \in DOMAIN spool : spool[e] \subseteq spool'[e]
    BY <2>2, <2>5, <2>6
  <2>11. file' \in [day : 0 .. MaxDay, linked : BOOLEAN] /\ (file'.linked => file'.day \in DOMAIN spool')
         /\ (file'.linked \/ file'.day < today)
    BY <2>1, <2>2, <2>3, <2>5
  <2> QED
    BY <1>1, <1>2, <1>3, <2>7, <2>8, <2>9, <2>10, <2>11
<1> QED
  BY <1>1, <1>5, <1>6

LEMMA AppendKeeps == IInv /\ Append => IInv'
<1> SUFFICES ASSUME IInv, Append PROVE IInv'
  OBVIOUS
<1>1. PICK m \in waiting :
         /\ waiting' = waiting \ {m} /\ m \notin prompt
         /\ stamp[m] \in Days /\ stamp[m] <= today /\ today <= stamp[m] + 1
         /\ prompt \subseteq prompt' /\ prompt' \subseteq prompt \union {m}
         /\ m \in prompt' => today = stamp[m] /\ stamp[m] \in DOMAIN spool' /\ m \in spool'[stamp[m]]
         /\ DOMAIN spool \subseteq DOMAIN spool' /\ DOMAIN spool' \subseteq DOMAIN spool \union {stamp[m]}
         /\ \A d \in DOMAIN spool : spool[d] \subseteq spool'[d]
         /\ \A d \in DOMAIN spool' : \A l \in spool'[d] :
               (d \in DOMAIN spool /\ l \in spool[d]) \/ (l = m /\ d = stamp[m])
         /\ file' \in [day : 0 .. MaxDay, linked : BOOLEAN]
         /\ file'.linked => file'.day \in DOMAIN spool'
         /\ file'.linked \/ file'.day < today
         /\ faults' \in 0 .. MaxFaults
  BY AppendEffect
<1>2. UNCHANGED <<today, stamp, archives, ticks, step, run, import, states, db>>
  BY DEF Append, archiver, imported
<1> USE DEF IInv
<1>3. /\ today \in Nat /\ today >= 1 /\ MaxDay \in Nat /\ m \in Lines /\ stamp[m] \in Nat /\ stamp[m] >= 1
      /\ prompt \subseteq Lines /\ stamp \in [Lines -> 0 .. MaxDay]
  BY <1>1, DaysAssumption DEF TypeOK, Days
<1>4. TypeOK'
  <2>1. DOMAIN spool' \subseteq Days /\ \A d \in DOMAIN spool' : spool'[d] \subseteq Lines
    BY <1>1, <1>3 DEF TypeOK
  <2> QED
    BY <1>1, <1>2, <1>3, <2>1 DEF TypeOK
<1>5. Times'
  BY <1>1, <1>2, <1>3 DEF Times
<1>6. Files'
  BY <1>1, <1>2 DEF Files
<1>7. \A d \in Days : d # today => Prompt(d)' = Prompt(d)
  BY <1>1, <1>2 DEF Prompt
<1>8. Running'
  <2>1. step \in {"day", "publish", "remove"} =>
           Day \in Days /\ Day # today /\ Day \in DOMAIN spool /\ Day' = Day
    <3> SUFFICES ASSUME step \in {"day", "publish", "remove"}
                 PROVE  Day \in Days /\ Day # today /\ Day \in DOMAIN spool /\ Day' = Day
      OBVIOUS
    <3>1. Day \in Days /\ Day \in DOMAIN spool /\ Day < run.at
      BY DayIsListed
    <3>2. run.at <= today /\ run.at \in Nat /\ Day \in Nat
      BY <3>1, DaysAssumption DEF Times, TypeOK, Run, Days
    <3> QED
      BY <1>2, <1>3, <3>1, <3>2 DEF Day
  <2>2. step = "publish" => Prompt(Day)' \intersect spool'[Day] \subseteq run.copied
    <3> SUFFICES ASSUME step = "publish" PROVE Prompt(Day)' \intersect spool'[Day] \subseteq run.copied
      OBVIOUS
    <3>1. Prompt(Day)' = Prompt(Day)
      BY <1>2, <1>7, <2>1 DEF Prompt
    <3>2. Prompt(Day) \intersect spool'[Day] \subseteq spool[Day]
      BY <1>1, <2>1 DEF Prompt
    <3> QED
      BY <3>1, <3>2 DEF Running
  <2> QED
    BY <1>1, <1>2, <2>1, <2>2 DEF Running, Target, Day
<1>9. \A a \in DOMAIN archives : a.day \in Days /\ a.day # today
  <2> TAKE a \in DOMAIN archives
  <2>1. a.day \in Days /\ a.on \in Days /\ a.day < a.on /\ a.on <= today
    BY DEF TypeOK, Times, Names
  <2> QED
    BY <1>3, <2>1, DaysAssumption DEF Days
<1>10. ArchivesKeepUp'
  <2> SUFFICES ASSUME NEW a \in DOMAIN archives, NEW l \in Prompt(a.day), a.day \in DOMAIN spool', l \in spool'[a.day]
               PROVE  l \in archives[a]
    BY <1>2, <1>7, <1>9 DEF ArchivesKeepUp
  <2>1. a.day \in DOMAIN spool /\ l \in spool[a.day]
    BY <1>1 DEF Prompt
  <2> QED
    BY <2>1 DEF ArchivesKeepUp
<1>11. Oldest'
  BY <1>2, <1>7, <1>9 DEF Oldest
<1>12. Kept'
  <2> SUFFICES ASSUME NEW l \in prompt'
               PROVE  (\/ states[stamp[l]] = "done"
                       \/ InSpool(l)
                       \/ \E b \in DOMAIN archives :
                            /\ b.day = stamp[l] /\ l \in archives[b]
                            /\ b.on = stamp[l] + 1 \/ (stamp[l] + 2 <= today /\ stamp[l] \notin DOMAIN spool))'
    BY DEF Kept
  <2>1. CASE l = m
    BY <1>1, <1>2, <2>1 DEF InSpool
  <2>2. CASE l \in prompt
    <3>1. CASE states[stamp[l]] = "done"
      BY <1>2, <3>1
    <3>2. CASE InSpool(l)
      BY <1>1, <1>2, <3>2 DEF InSpool
    <3>3. ASSUME NEW b \in DOMAIN archives, b.day = stamp[l], l \in archives[b],
                 b.on = stamp[l] + 1 \/ (stamp[l] + 2 <= today /\ stamp[l] \notin DOMAIN spool)
          PROVE  b.on = stamp'[l] + 1 \/ (stamp'[l] + 2 <= today' /\ stamp'[l] \notin DOMAIN spool')
      <4>1. stamp[l] \in Nat
        BY <1>3, <2>2
      <4>2. stamp[l] + 2 <= today => stamp[l] # stamp[m]
        BY <1>1, <1>3, <4>1
      <4> QED
        BY <1>1, <1>2, <3>3, <4>2
    <3> QED
      BY <1>2, <2>2, <3>1, <3>2, <3>3 DEF Kept
  <2> QED
    BY <1>1, <2>1, <2>2
<1>13. Imported'
  <2>1. states[today] # "done"
    BY <1>3 DEF Times, TypeOK, Days
  <2> QED
    BY <1>1, <1>2, <2>1 DEF Imported
<1>14. Importing'
  <2>1. import # NoImport => import.day \in Days /\ import.day # today
    BY <1>3, DaysAssumption DEF Importing, Days
  <2> QED
    BY <1>2, <1>7, <2>1 DEF Importing
<1> QED
  BY <1>4, <1>5, <1>6, <1>8, <1>10, <1>11, <1>12, <1>13, <1>14

-----------------------------------------------------------------------------
(* The archiver. *)

\* A step that only a run of the archiver notices.
LEMMA RunAloneKeeps ==
    ASSUME IInv, UNCHANGED <<today, received, spool, archives, imported>>,
           TypeOK', Running', run'.at <= today, \A at \in ticks' : at <= today
    PROVE  IInv'
<1> USE DEF IInv, received, imported
<1>1. \A d : Prompt(d)' = Prompt(d)
  BY DEF Prompt
<1>2. Times' /\ Files'
  BY DEF Times, Files
<1>3. ArchivesKeepUp' /\ Oldest' /\ Importing'
  BY <1>1 DEF ArchivesKeepUp, Oldest, Importing
<1>4. Kept' /\ Imported'
  BY DEF Kept, Imported, InSpool
<1> QED
  BY <1>2, <1>3, <1>4

LEMMA FaultIsBounded == ASSUME TypeOK, Fault \/ UNCHANGED faults PROVE faults' \in 0 .. MaxFaults
BY FaultsAssumption DEF TypeOK, Fault

LEMMA TickKeeps == IInv /\ (Tick \/ CloseWriter) => IInv'
<1> USE DEF IInv
<1>1. ASSUME IInv, Tick PROVE IInv'
  <2>1. TypeOK'
    BY <1>1 DEF Tick, received, imported, TypeOK
  <2>2. \A at \in ticks' : at <= today
    BY <1>1, DaysAssumption DEF Tick, TypeOK, Times, Days
  <2>3. Running'
    BY <1>1 DEF Tick, received, imported, Running, Target, Day, Prompt
  <2> QED
    BY <1>1, <2>1, <2>2, <2>3, RunAloneKeeps DEF Tick, Times
<1>2. ASSUME IInv, CloseWriter PROVE IInv'
  <2>1. UNCHANGED <<today, stamp, waiting, prompt, spool, archiver, imported, faults>> /\ file' = NoFile
    BY <1>2 DEF CloseWriter
  <2> USE DEF archiver, imported
  <2>2. TypeOK'
    BY <1>2, <2>1, DaysAssumption DEF NoFile, TypeOK
  <2>3. Files'
    <3>1. 0 < today
      BY <1>2, DaysAssumption DEF TypeOK, Days
    <3> QED
      BY <1>2, <2>1, <3>1 DEF NoFile, Files
  <2>4. Times' /\ Running'
    BY <1>2, <2>1 DEF Times, Running, Target, Day, Prompt
  <2>5. ArchivesKeepUp' /\ Oldest' /\ Importing'
    BY <1>2, <2>1 DEF ArchivesKeepUp, Oldest, Importing, Prompt
  <2>6. Kept' /\ Imported'
    BY <1>2, <2>1 DEF Kept, Imported, InSpool
  <2> QED
    BY <2>2, <2>3, <2>4, <2>5, <2>6
<1> QED
  BY <1>1, <1>2

LEMMA BeginKeeps == IInv /\ Begin => IInv'
<1> SUFFICES ASSUME IInv, Begin PROVE IInv'
  OBVIOUS
<1> USE DEF IInv
<1>1. PICK at \in ticks : /\ ticks' = ticks \ {at}
                         /\ \/ /\ step' = "list"
                               /\ run' = [NoRun EXCEPT !.at = at, !.ready = IF Retention > 0 THEN Ready(at) ELSE {}]
                               /\ UNCHANGED faults
                            \/ Fault /\ step' = "list" /\ run' = [NoRun EXCEPT !.at = at]
  BY DEF Begin, Goto
<1>2. UNCHANGED <<today, received, spool, archives, imported>>
  BY DEF Begin
<1>3. at \in Days /\ at \in 0 .. MaxDay /\ at <= today
  BY DEF TypeOK, Times, Days
<1>4. Ready(at) \subseteq Days /\ \A d \in Ready(at) : states[d] = "done"
  BY DEF Ready
<1>5. /\ run' \in Run /\ run'.at = at /\ run'.expired = {} /\ step' = "list"
      /\ \A d \in run'.ready : states[d] = "done"
  <2>1. CASE run' = [NoRun EXCEPT !.at = at, !.ready = IF Retention > 0 THEN Ready(at) ELSE {}]
    BY <1>1, <1>3, <1>4, <2>1 DEF NoRun, Run
  <2>2. CASE run' = [NoRun EXCEPT !.at = at]
    BY <1>1, <1>3, <2>2 DEF NoRun, Run
  <2> QED
    BY <1>1, <2>1, <2>2
<1>6. TypeOK'
  <2>1. faults' \in 0 .. MaxFaults
    BY <1>1, FaultIsBounded
  <2> QED
    BY <1>1, <1>2, <1>5, <2>1 DEF TypeOK, received, imported
<1>7. Running'
  BY <1>2, <1>3, <1>5 DEF Running, imported
<1> QED
  BY <1>1, <1>2, <1>3, <1>5, <1>6, <1>7, RunAloneKeeps DEF Times

LEMMA ListKeeps == IInv /\ List => IInv'
<1> SUFFICES ASSUME IInv, List PROVE IInv'
  OBVIOUS
<1> USE DEF IInv
<1> DEFINE closed == {d \in DOMAIN spool : Closed(d, run.at)}
<1>1. /\ step = "list"
      /\ \/ step' = "day" /\ closed # {} /\ run' = [run EXCEPT !.days = closed] /\ UNCHANGED faults
         \/ step' = "expire" /\ run' = [run EXCEPT !.days = closed] /\ UNCHANGED faults
         \/ step' = "expire" /\ run' = run /\ Fault
  BY DEF List, Goto
<1>2. UNCHANGED <<today, received, spool, archives, ticks, imported>>
  BY DEF List
<1>3. closed \subseteq Days /\ closed \subseteq DOMAIN spool /\ \A d \in closed : d < run.at
  BY DEF TypeOK, Closed
<1>4. run \in Run
  BY DEF TypeOK
<1> HIDE DEF closed
<1>5. /\ run' \in Run /\ run'.at = run.at /\ run'.expired = run.expired /\ run'.ready = run.ready
      /\ step' \in {"day", "expire"} /\ (step' = "day" => run'.days = closed /\ closed # {})
  BY <1>1, <1>3, <1>4 DEF Run
<1>6. TypeOK'
  <2>1. faults' \in 0 .. MaxFaults
    BY <1>1, FaultIsBounded
  <2> QED
    BY <1>1, <1>2, <1>5, <2>1 DEF TypeOK, received, imported
<1>7. Running'
  BY <1>1, <1>2, <1>3, <1>5 DEF Running, imported
<1> QED
  BY <1>1, <1>2, <1>5, <1>6, <1>7, RunAloneKeeps DEF Times

\* After the day at hand.
LEMMA ProceedKeeps ==
    ASSUME IInv, step \in {"day", "publish", "remove"}, Proceed,
           UNCHANGED <<today, stamp, prompt, archives, ticks, imported>>,
           DOMAIN spool \ {Day} \subseteq DOMAIN spool'
    PROVE  /\ run' \in Run /\ run'.at = run.at /\ step' \in {"day", "expire"}
           /\ Running'
<1> USE DEF IInv
<1>1. /\ step' = IF run.days \subseteq {Day} THEN "expire" ELSE "day"
      /\ run' = [run EXCEPT !.days = @ \ {Day}, !.copied = {}]
  BY DEF Proceed, Goto, Day
<1>2. run \in Run
  BY DEF TypeOK
<1>3. /\ run' \in Run /\ run'.at = run.at /\ run'.ready = run.ready /\ run'.expired = run.expired
      /\ run'.days = run.days \ {Day}
  BY <1>1, <1>2 DEF Run
<1>4. step' = "day" => run'.days # {}
  BY <1>1, <1>3
<1>5. run'.days \subseteq DOMAIN spool'
  BY <1>3 DEF Running
<1> QED
  BY <1>1, <1>3, <1>4, <1>5 DEF Running, imported

LEMMA CopyKeeps == IInv /\ Copy => IInv'
<1> SUFFICES ASSUME IInv, Copy PROVE IInv'
  OBVIOUS
<1>1. /\ step = "day" /\ Target \notin DOMAIN archives
      /\ UNCHANGED <<today, received, spool, archives, ticks, imported>>
  BY DEF Copy
<1>2. Fault \/ UNCHANGED faults
  BY DEF Copy
<1> USE DEF IInv
<1>3. CASE Proceed
  <2>1. run' \in Run /\ run'.at = run.at /\ step' \in {"day", "expire"} /\ Running'
    BY <1>1, <1>3, ProceedKeeps DEF received
  <2>2. TypeOK'
    BY <1>1, <1>2, <2>1, FaultIsBounded DEF TypeOK, received, imported
  <2> QED
    BY <1>1, <2>1, <2>2, RunAloneKeeps DEF Times
<1>4. CASE step' = "publish" /\ run' = [run EXCEPT !.copied = spool[Day]]
  <2>1. Day \in run.days /\ Day \in Days /\ Day \in DOMAIN spool /\ Day < run.at
    BY <1>1, DayIsListed
  <2>2. spool[Day] \subseteq Lines /\ \A l \in spool[Day] : stamp[l] = Day
    BY <2>1 DEF TypeOK, Files
  <2>3. run \in Run
    BY DEF TypeOK
  <2>4. /\ run' \in Run /\ run'.at = run.at /\ run'.days = run.days /\ run'.ready = run.ready
        /\ run'.expired = run.expired /\ run'.copied = spool[Day]
    BY <1>4, <2>2, <2>3 DEF Run
  <2>5. Day' = Day /\ Target' = Target
    BY <2>4 DEF Day, Target
  <2>6. TypeOK'
    BY <1>1, <1>2, <1>4, <2>4, FaultIsBounded DEF TypeOK, received, imported
  <2>7. Running'
    BY <1>1, <1>4, <2>1, <2>2, <2>4, <2>5 DEF Running, Prompt, received, imported
  <2> QED
    BY <1>1, <2>4, <2>6, <2>7, RunAloneKeeps DEF Times
<1> QED
  BY <1>3, <1>4 DEF Copy, Goto

LEMMA PublishKeeps == IInv /\ Publish => IInv'
<1> SUFFICES ASSUME IInv, Publish PROVE IInv'
  OBVIOUS
<1>1. /\ step = "publish"
      /\ UNCHANGED <<today, received, spool, ticks, imported>>
  BY DEF Publish
<1> USE DEF IInv
<1>2. CASE Fault /\ Proceed /\ UNCHANGED archives
  <2>1. run' \in Run /\ run'.at = run.at /\ step' \in {"day", "expire"} /\ Running'
    BY <1>1, <1>2, ProceedKeeps DEF received
  <2>2. TypeOK'
    BY <1>1, <1>2, <2>1, FaultIsBounded DEF TypeOK, received, imported
  <2> QED
    BY <1>1, <1>2, <2>1, <2>2, RunAloneKeeps DEF Times
<1>3. CASE /\ archives' = With(archives, Target, run.copied)
           /\ step' = "remove" /\ run' = run /\ UNCHANGED faults
  <2> USE DEF received, imported
  <2>1. Day \in Days /\ Day \in DOMAIN spool /\ Day < run.at
    BY <1>1, DayIsListed
  <2>2. /\ run \in Run /\ run.at \in Days /\ run.at <= today /\ run.copied \subseteq Lines
        /\ today \in Nat /\ run.at \in Nat /\ Day \in Nat
    <3>1. run \in Run /\ today \in Days
      BY DEF TypeOK
    <3>2. run.at \in Days /\ run.at <= today
      BY <1>1 DEF Running, Times
    <3>3. run.copied \subseteq Lines
      BY <3>1 DEF Run
    <3> QED
      BY <2>1, <3>1, <3>2, <3>3, DaysAssumption DEF Days
  <2>3. /\ Target \in Names /\ Target.day = Day /\ Target.on = run.at /\ Target \notin DOMAIN archives
    BY <1>1, <2>1, <2>2 DEF Target, Names, Running
  <2>4. /\ DOMAIN archives' = DOMAIN archives \union {Target}
        /\ archives'[Target] = run.copied
        /\ \A a \in DOMAIN archives : archives'[a] = archives[a]
    BY <1>3, <2>3 DEF With
  <2>5. Day' = Day /\ Target' = Target
    BY <1>3 DEF Day, Target
  <2>6. \A d : Prompt(d)' = Prompt(d)
    BY <1>1 DEF Prompt
  <2>7. TypeOK'
    <3>1. DOMAIN archives' \subseteq Names
      BY <2>3, <2>4 DEF TypeOK
    <3>2. \A a \in DOMAIN archives' : a.day < a.on /\ archives'[a] \subseteq Lines
      BY <2>1, <2>2, <2>3, <2>4 DEF TypeOK
    <3> QED
      BY <1>1, <1>3, <3>1, <3>2 DEF TypeOK
  <2>8. Times'
    <3>1. \A a \in DOMAIN archives' : a.on <= today
      BY <2>2, <2>3, <2>4 DEF Times
    <3> QED
      BY <1>1, <1>3, <3>1 DEF Times
  <2>9. Files'
    <3>1. \A a \in DOMAIN archives' : \A l \in archives'[a] : stamp[l] = a.day
      BY <1>1, <2>3, <2>4 DEF Files, Running
    <3> QED
      BY <1>1, <1>3, <3>1 DEF Files
  <2>10. Running'
    BY <1>1, <1>3, <2>4, <2>5 DEF Running
  <2>11. ArchivesKeepUp'
    BY <1>1, <2>3, <2>4, <2>6 DEF ArchivesKeepUp, Running
  <2>12. Kept'
    BY <1>1, <2>4 DEF Kept, InSpool
  <2>13. Oldest'
    <3> SUFFICES ASSUME NEW a \in DOMAIN archives', NEW l \in Prompt(a.day), states[a.day] # "done"
                 PROVE  \E b \in DOMAIN archives' : b.day = a.day /\ b.on <= a.on /\ l \in archives'[b]
      BY <1>1, <2>6 DEF Oldest
    <3>1. CASE a \in DOMAIN archives
      BY <2>4, <3>1 DEF Oldest
    <3>2. CASE a = Target
      <4>1. l \in prompt /\ stamp[l] = Day
        BY <2>3, <3>2 DEF Prompt
      <4>2. CASE InSpool(l)
        <5>1. l \in run.copied
          BY <1>1, <4>1, <4>2 DEF InSpool, Prompt, Running
        <5> QED
          BY <2>2, <2>3, <2>4, <3>2, <5>1
      <4>3. CASE \E b \in DOMAIN archives : b.day = Day /\ l \in archives[b] /\ b.on = Day + 1
        BY <2>1, <2>2, <2>3, <2>4, <3>2, <4>3
      <4> QED
        BY <2>1, <2>3, <3>2, <4>1, <4>2, <4>3 DEF Kept
    <3> QED
      BY <2>4, <3>1, <3>2
  <2>14. Imported'
    BY <1>1 DEF Imported
  <2>15. Importing'
    BY <1>1, <2>4, <2>6 DEF Importing
  <2> QED
    BY <2>7, <2>8, <2>9, <2>10, <2>11, <2>12, <2>13, <2>14, <2>15
<1> QED
  BY <1>2, <1>3 DEF Publish, Goto

LEMMA RemovalKeeps == IInv /\ (Discard \/ Remove) => IInv'
<1> SUFFICES ASSUME IInv, Discard \/ Remove PROVE IInv'
  OBVIOUS
<1> USE DEF IInv
<1>1. /\ step \in {"day", "remove"} /\ Target \in DOMAIN archives
      /\ (Unlink /\ UNCHANGED faults) \/ (Fault /\ UNCHANGED <<spool, file>>)
      /\ Proceed
      /\ UNCHANGED <<today, stamp, waiting, prompt, archives, ticks, imported>>
  BY DEF Discard, Remove, RemoveSource, Running
<1>2. Day \in Days /\ Day \in DOMAIN spool /\ Day < run.at
  BY <1>1, DayIsListed
<1>3. Target.day = Day /\ Target.on = run.at
  BY DEF Target
<1>4. run.at <= today /\ today \in Nat /\ run.at \in Nat /\ Day \in Nat
  BY <1>2, DaysAssumption DEF TypeOK, Times, Run, Days
<1>5. CASE Fault /\ UNCHANGED <<spool, file>>
  <2>1. run' \in Run /\ run'.at = run.at /\ step' \in {"day", "expire"} /\ Running'
    BY <1>1, <1>5, ProceedKeeps
  <2>2. TypeOK'
    BY <1>1, <1>5, <2>1, FaultIsBounded DEF TypeOK, imported
  <2> QED
    BY <1>1, <1>5, <2>1, <2>2, RunAloneKeeps DEF Times, received
<1>6. CASE Unlink /\ UNCHANGED faults
  <2> USE DEF imported
  <2>1. /\ DOMAIN spool' = DOMAIN spool \ {Day}
        /\ \A d \in DOMAIN spool' : spool'[d] = spool[d]
    BY <1>6 DEF Unlink, Without, Restrict
  <2>2. /\ file' \in [day : 0 .. MaxDay, linked : BOOLEAN] /\ file'.day = file.day
        /\ file'.linked => file.linked /\ file.day # Day
        /\ ~file'.linked => ~file.linked \/ file.day = Day
    <3>1. file \in [day : 0 .. MaxDay, linked : BOOLEAN]
      BY DEF TypeOK
    <3>2. file' = IF file.day = Day THEN [file EXCEPT !.linked = FALSE] ELSE file
      BY <1>6 DEF Unlink, Holds
    <3> QED
      BY <3>1, <3>2
  <2>3. run' \in Run /\ run'.at = run.at /\ step' \in {"day", "expire"} /\ Running'
    BY <1>1, <2>1, ProceedKeeps
  <2>4. \A d : Prompt(d)' = Prompt(d)
    BY <1>1 DEF Prompt
  <2>5. TypeOK'
    <3>1. DOMAIN spool' \subseteq Days /\ \A d \in DOMAIN spool' : spool'[d] \subseteq Lines
      BY <2>1 DEF TypeOK
    <3> QED
      BY <1>1, <1>6, <2>2, <2>3, <3>1 DEF TypeOK
  <2>6. Times'
    BY <1>1, <2>3 DEF Times
  <2>7. Files'
    <3>1. file'.linked => file'.day \in DOMAIN spool'
      BY <2>1, <2>2 DEF Files
    <3>2. file'.linked \/ file'.day < today
      BY <1>2, <1>4, <2>2 DEF Files
    <3> QED
      BY <1>1, <2>1, <3>1, <3>2 DEF Files
  <2>8. ArchivesKeepUp'
    BY <1>1, <2>1, <2>4 DEF ArchivesKeepUp
  <2>9. Kept'
    <3> SUFFICES ASSUME NEW l \in prompt, states[stamp[l]] # "done", ~(InSpool(l)')
                 PROVE  \E b \in DOMAIN archives :
                          /\ b.day = stamp[l] /\ l \in archives[b]
                          /\ b.on = stamp[l] + 1 \/ (stamp[l] + 2 <= today /\ stamp[l] \notin DOMAIN spool')
      BY <1>1 DEF Kept
    <3>1. CASE InSpool(l)
      <4>1. stamp[l] = Day
        BY <1>1, <2>1, <3>1 DEF InSpool
      <4>2. l \in archives[Target]
        BY <1>1, <1>3, <3>1, <4>1 DEF ArchivesKeepUp, InSpool, Prompt
      <4>3. run.at = Day + 1 \/ Day + 2 <= today
        BY <1>2, <1>4
      <4> QED
        BY <1>1, <1>3, <2>1, <4>1, <4>2, <4>3
    <3>2. CASE ~InSpool(l)
      BY <2>1, <3>2 DEF Kept
    <3> QED
      BY <3>1, <3>2
  <2>10. Oldest' /\ Imported' /\ Importing'
    BY <1>1, <2>4 DEF Oldest, Imported, Importing
  <2> QED
    BY <2>3, <2>5, <2>6, <2>7, <2>8, <2>9, <2>10
<1> QED
  BY <1>1, <1>5, <1>6

LEMMA ExpireKeeps == IInv /\ Expire => IInv'
<1> SUFFICES ASSUME IInv, Expire PROVE IInv'
  OBVIOUS
<1> USE DEF IInv
<1> DEFINE expired == {a \in DOMAIN archives : Expired(a.day, run.at) /\ a.day \in run.ready}
<1>1. /\ UNCHANGED <<today, received, spool, archives, ticks, imported>>
      /\ step = "expire"
      /\ \/ step' = "idle" /\ run' = NoRun
         \/ step' = "delete" /\ run' = [run EXCEPT !.expired = expired]
      /\ Fault \/ UNCHANGED faults
  BY DEF Expire, Goto
<1>2. expired \subseteq Names /\ \A a \in expired : a.day \in run.ready
  BY DEF TypeOK
<1>3. run \in Run /\ today \in Nat /\ today >= 0
  BY DaysAssumption DEF TypeOK, Days
<1> HIDE DEF expired
<1>4. /\ run' \in Run /\ run'.at <= today /\ step' \in {"idle", "delete"}
      /\ (step' # "idle" => run'.at = run.at)
      /\ (run'.ready = run.ready \/ run'.ready = {})
      /\ \A a \in run'.expired : a.day \in run'.ready
  <2>1. CASE run' = NoRun
    BY <1>1, <1>3, <2>1, DaysAssumption DEF NoRun, Run
  <2>2. CASE run' = [run EXCEPT !.expired = expired]
    <3>1. /\ run' \in Run /\ run'.at = run.at /\ run'.ready = run.ready /\ run'.expired = expired
      BY <1>2, <1>3, <2>2 DEF Run
    <3> QED
      BY <1>1, <1>2, <3>1 DEF Times
  <2> QED
    BY <1>1, <2>1, <2>2
<1>5. TypeOK'
  BY <1>1, <1>4, FaultIsBounded DEF TypeOK, received, imported
<1>6. Running'
  BY <1>1, <1>4 DEF Running, imported
<1> QED
  BY <1>1, <1>4, <1>5, <1>6, RunAloneKeeps DEF Times

\* Retention removes archives of days that are done; no import is under way on them.
LEMMA DeleteKeeps == IInv /\ Delete => IInv'
<1> SUFFICES ASSUME IInv, Delete PROVE IInv'
  OBVIOUS
<1> USE DEF IInv
<1>1. PICK r \in run.expired :
         /\ \/ archives' = Without(archives, r) /\ UNCHANGED faults
            \/ Fault /\ UNCHANGED archives
         /\ \/ step' = "idle" /\ run' = NoRun
            \/ step' = "delete" /\ run' = [run EXCEPT !.expired = @ \ {r}]
  BY DEF Delete, Goto
<1>2. step = "delete" /\ UNCHANGED <<today, received, spool, ticks, imported>>
  BY DEF Delete
<1> USE DEF received, imported
<1>3. run \in Run /\ today \in Nat /\ today >= 0
  BY DaysAssumption DEF TypeOK, Days
<1>4. /\ run' \in Run /\ run'.at <= today /\ step' \in {"idle", "delete"}
      /\ (step' # "idle" => run'.at = run.at)
      /\ (run'.ready = run.ready \/ run'.ready = {})
      /\ \A a \in run'.expired : a.day \in run'.ready
  <2>1. CASE run' = NoRun
    BY <1>1, <1>3, <2>1, DaysAssumption DEF NoRun, Run
  <2>2. CASE run' = [run EXCEPT !.expired = @ \ {r}]
    <3>1. /\ run' \in Run /\ run'.at = run.at /\ run'.ready = run.ready
          /\ run'.expired = run.expired \ {r}
      BY <1>3, <2>2 DEF Run
    <3> QED
      BY <1>1, <3>1 DEF Times, Running
  <2> QED
    BY <1>1, <2>1, <2>2
<1>5. /\ DOMAIN archives' \subseteq DOMAIN archives
      /\ \A a \in DOMAIN archives' : archives'[a] = archives[a]
      /\ \A a \in DOMAIN archives : a \in DOMAIN archives' \/ a.day = r.day
  BY <1>1 DEF Without, Restrict
<1>6. states[r.day] = "done"
  BY DEF Running
<1>7. \A d : Prompt(d)' = Prompt(d)
  BY <1>2 DEF Prompt
<1>8. TypeOK'
  <2>1. faults' \in 0 .. MaxFaults
    BY <1>1, FaultIsBounded
  <2>2. DOMAIN archives' \subseteq Names
        /\ \A a \in DOMAIN archives' : a.day < a.on /\ archives'[a] \subseteq Lines
    BY <1>5 DEF TypeOK
  <2> QED
    BY <1>2, <1>4, <2>1, <2>2 DEF TypeOK
<1>9. Times' /\ Files'
  BY <1>2, <1>4, <1>5 DEF Times, Files
<1>10. Running'
  BY <1>2, <1>4 DEF Running
<1>11. ArchivesKeepUp' /\ Imported'
  BY <1>2, <1>5, <1>7 DEF ArchivesKeepUp, Imported
<1>12. Kept'
  <2> SUFFICES ASSUME NEW l \in prompt, states[stamp[l]] # "done", ~InSpool(l)
               PROVE  \E b \in DOMAIN archives' :
                        /\ b.day = stamp[l] /\ l \in archives'[b]
                        /\ b.on = stamp[l] + 1 \/ (stamp[l] + 2 <= today /\ stamp[l] \notin DOMAIN spool)
    BY <1>2 DEF Kept, InSpool
  <2> QED
    BY <1>5, <1>6 DEF Kept
<1>13. Oldest'
  BY <1>2, <1>5, <1>6, <1>7 DEF Oldest
<1>14. Importing'
  BY <1>2, <1>5, <1>6, <1>7 DEF Importing
<1> QED
  BY <1>8, <1>9, <1>10, <1>11, <1>12, <1>13, <1>14

-----------------------------------------------------------------------------
(* The importer. *)

\* What the importer does not touch.
LEMMA ImportAloneKeeps ==
    ASSUME IInv, UNCHANGED <<today, received, spool, archiver>>,
           TypeOK', \A d \in Days : states[d] = "done" => states'[d] = "done",
           \A d \in Days : states'[d] = "done" => d < today
    PROVE  /\ Times' /\ Files' /\ Running' /\ ArchivesKeepUp' /\ Kept' /\ Oldest'
<1> USE DEF IInv, received, archiver
<1>1. \A d : Prompt(d)' = Prompt(d)
  BY DEF Prompt
<1>2. Times' /\ Files' /\ ArchivesKeepUp'
  BY <1>1 DEF Times, Files, ArchivesKeepUp
<1>3. Running'
  <2>1. run.ready \subseteq Days
    BY DEF TypeOK, Run
  <2> QED
    BY <1>1, <2>1 DEF Running, Target, Day
<1>4. \A l \in prompt : stamp[l] \in Days
  BY DaysAssumption DEF TypeOK, Times, Days
<1>5. Kept'
  BY <1>4 DEF Kept, InSpool
<1>6. Oldest'
  <2>1. \A a \in DOMAIN archives : a.day \in Days
    BY DEF TypeOK, Names
  <2> QED
    BY <1>1, <2>1 DEF Oldest
<1> QED
  BY <1>2, <1>3, <1>5, <1>6

LEMMA ImportBeginKeeps == IInv /\ ImportBegin => IInv'
<1> SUFFICES ASSUME IInv, ImportBegin PROVE IInv'
  OBVIOUS
<1> USE DEF IInv
<1> DEFINE target(d, newest) == {a \in DOMAIN archives : a.day = d /\ a.on <= newest}
<1>1. PICK d \in Days, newest \in Days :
         /\ d < today /\ states[d] # "done" /\ target(d, newest) # {}
         /\ import' = [step |-> "drop", day |-> d, target |-> target(d, newest)]
  BY DEF ImportBegin
<1>2. UNCHANGED <<today, received, spool, archiver, states, db, faults>>
  BY DEF ImportBegin
<1>3. target(d, newest) \subseteq {a \in DOMAIN archives : a.day = d}
  OBVIOUS
<1>4. TypeOK'
  BY <1>1, <1>2, <1>3, DaysAssumption DEF TypeOK, received, archiver, Days
<1>5. Times' /\ Files' /\ Running' /\ ArchivesKeepUp' /\ Kept' /\ Oldest'
  BY <1>2, <1>4, ImportAloneKeeps DEF Times
<1>6. Imported'
  BY <1>2 DEF Imported, received
<1>7. Importing'
  <2>1. ASSUME NEW l \in Prompt(d) PROVE \E b \in target(d, newest) : l \in archives[b]
    <3>1. PICK a \in target(d, newest) : TRUE
      BY <1>1
    <3>2. PICK b \in DOMAIN archives : b.day = d /\ b.on <= a.on /\ l \in archives[b]
      BY <1>1, <3>1 DEF Oldest
    <3>3. a.on \in Nat /\ b.on \in Nat /\ newest \in Nat
      BY <3>1, <3>2, DaysAssumption DEF TypeOK, Names, Days
    <3>4. b.on <= newest
      BY <3>1, <3>2, <3>3
    <3> QED
      BY <3>2, <3>4
  <2>2. UNCHANGED <<today, prompt, stamp, archives, states>>
    BY <1>2 DEF received, archiver
  <2> HIDE DEF target
  <2>3. import'.step = "drop" /\ import'.day = d /\ import'.target = target(d, newest)
    BY <1>1
  <2>4. Prompt(d)' = Prompt(d)
    BY <2>2 DEF Prompt
  <2>5. Prompt(import.day)' = Prompt(d)
    BY <2>2, <2>3 DEF Prompt
  <2> QED
    BY <1>1, <1>3, <2>1, <2>2, <2>3, <2>5 DEF Importing
<1> QED
  BY <1>4, <1>5, <1>6, <1>7

LEMMA ImportDropKeeps == IInv /\ ImportDrop => IInv'
<1> SUFFICES ASSUME IInv, ImportDrop PROVE IInv'
  OBVIOUS
<1> USE DEF IInv
<1>1. /\ import.step = "drop"
      /\ db' = [l \in Lines |-> IF stamp[l] = import.day THEN 0 ELSE db[l]]
      /\ import' = [import EXCEPT !.step = "load"]
      /\ states' = [states EXCEPT ![import.day] = "importing"]
      /\ UNCHANGED <<today, received, spool, archiver, faults>>
  BY DEF ImportDrop, DropRows
<1>2. /\ import.day \in Days /\ import.day < today /\ states[import.day] # "done"
      /\ import.target \subseteq {a \in DOMAIN archives : a.day = import.day}
      /\ \A l \in Prompt(import.day) : \E b \in import.target : l \in archives[b]
  <2>1. import # NoImport
    BY <1>1 DEF NoImport
  <2> QED
    BY <1>1, <2>1 DEF Importing
<1>3. /\ import' \in [step : {"none", "drop", "load"}, day : 0..MaxDay, target : SUBSET Names]
      /\ import'.step = "load" /\ import'.day = import.day /\ import'.target = import.target
  BY <1>1 DEF TypeOK
<1>4. states' \in [Days -> {"none", "importing", "done", "failed"}]
      /\ \A d \in Days : states'[d] = "done" <=> states[d] = "done"
  BY <1>1, <1>2 DEF TypeOK
<1>5. TypeOK'
  <2>1. db' \in [Lines -> Nat]
    BY <1>1 DEF TypeOK
  <2> QED
    BY <1>1, <1>3, <1>4, <2>1 DEF TypeOK, received, archiver
<1>6. Times' /\ Files' /\ Running' /\ ArchivesKeepUp' /\ Kept' /\ Oldest'
  BY <1>1, <1>4, <1>5, ImportAloneKeeps DEF Times
<1>7. Imported'
  <2>1. \A l \in prompt : l \in Lines /\ stamp[l] \in Days
    BY DaysAssumption DEF TypeOK, Times, Days
  <2>2. ASSUME NEW l \in prompt, states'[stamp[l]] = "done" PROVE db'[l] > 0
    <3>1. states[stamp[l]] = "done" /\ stamp[l] # import.day
      BY <1>2, <1>4, <2>1, <2>2
    <3> QED
      BY <1>1, <2>1, <3>1 DEF Imported
  <2> QED
    BY <1>1, <2>2 DEF Imported, received
<1>8. Importing'
  <2>1. UNCHANGED <<today, prompt, stamp, archives>> /\ Prompt(import.day)' = Prompt(import.day)
    BY <1>1, <1>3 DEF received, archiver, Prompt
  <2> QED
    BY <1>2, <1>3, <1>4, <2>1 DEF Importing
<1> QED
  BY <1>5, <1>6, <1>7, <1>8

LEMMA ImportLoadKeeps == IInv /\ ImportLoad => IInv'
<1> SUFFICES ASSUME IInv, ImportLoad PROVE IInv'
  OBVIOUS
<1> USE DEF IInv
<1>1. PICK a \in import.target \intersect DOMAIN archives :
         /\ db' = [l \in Lines |-> IF l \in archives[a] THEN db[l] + 1 ELSE db[l]]
         /\ import' = [import EXCEPT !.target = @ \ {a}]
  BY DEF ImportLoad
<1>2. import.step = "load" /\ UNCHANGED <<today, received, spool, archiver, states, faults>>
  BY DEF ImportLoad
<1>3. import # NoImport /\ import.day \in Days
  BY <1>2 DEF NoImport, Importing
<1>4. /\ import' \in [step : {"none", "drop", "load"}, day : 0..MaxDay, target : SUBSET Names]
      /\ import'.step = "load" /\ import'.day = import.day /\ import'.target = import.target \ {a}
  BY <1>1, <1>2 DEF TypeOK
<1>5. db' \in [Lines -> Nat] /\ \A l \in Lines : (db[l] > 0 \/ l \in archives[a]) => db'[l] > 0
  BY <1>1 DEF TypeOK
<1>6. TypeOK'
  BY <1>2, <1>4, <1>5 DEF TypeOK, received, archiver
<1>7. Times' /\ Files' /\ Running' /\ ArchivesKeepUp' /\ Kept' /\ Oldest'
  BY <1>2, <1>6, ImportAloneKeeps DEF Times
<1>8. prompt \subseteq Lines
  BY DEF TypeOK
<1>9. Imported'
  BY <1>2, <1>5, <1>8 DEF Imported, received
<1>10. Importing'
  <2>1. UNCHANGED <<today, prompt, stamp, archives, states>> /\ Prompt(import.day)' = Prompt(import.day)
    BY <1>2, <1>4 DEF received, archiver, Prompt
  <2>2. ASSUME NEW l \in Prompt(import.day)
        PROVE  (\E b \in import'.target : l \in archives[b]) \/ db'[l] > 0
    <3>1. l \in Lines
      BY <1>8 DEF Prompt
    <3>2. (\E b \in import.target : l \in archives[b]) \/ db[l] > 0
      BY <1>3, <2>2 DEF Importing
    <3> QED
      BY <1>4, <1>5, <3>1, <3>2
  <2> QED
    BY <1>3, <1>4, <2>1, <2>2 DEF Importing
<1> QED
  BY <1>6, <1>7, <1>9, <1>10

LEMMA ImportDoneKeeps == IInv /\ ImportDone => IInv'
<1> SUFFICES ASSUME IInv, ImportDone PROVE IInv'
  OBVIOUS
<1> USE DEF IInv
<1>1. /\ import.step = "load" /\ import.target = {}
      /\ states' = [states EXCEPT ![import.day] = "done"]
      /\ import' = NoImport
      /\ UNCHANGED <<today, received, spool, archiver, db, faults>>
  BY DEF ImportDone
<1>2. /\ import.day \in Days /\ import.day < today
      /\ \A l \in Prompt(import.day) : db[l] > 0
  <2>1. import # NoImport
    BY <1>1 DEF NoImport
  <2> QED
    BY <1>1, <2>1 DEF Importing
<1>3. states' \in [Days -> {"none", "importing", "done", "failed"}]
      /\ \A d \in Days : states'[d] = "done" <=> states[d] = "done" \/ d = import.day
  BY <1>1, <1>2 DEF TypeOK
<1>4. TypeOK'
  BY <1>1, <1>3, DaysAssumption DEF TypeOK, NoImport, received, archiver
<1>5. Times' /\ Files' /\ Running' /\ ArchivesKeepUp' /\ Kept' /\ Oldest'
  BY <1>1, <1>2, <1>3, <1>4, ImportAloneKeeps DEF Times
<1>6. Imported'
  <2>1. \A l \in prompt : stamp[l] \in Days
    BY DaysAssumption DEF TypeOK, Times, Days
  <2> QED
    BY <1>1, <1>2, <1>3, <2>1 DEF Imported, Prompt, received
<1>7. Importing'
  BY <1>1 DEF Importing
<1> QED
  BY <1>4, <1>5, <1>6, <1>7

LEMMA ImportFailKeeps == IInv /\ ImportFail => IInv'
<1> SUFFICES ASSUME IInv, ImportFail PROVE IInv'
  OBVIOUS
<1> USE DEF IInv
<1>1. /\ import # NoImport
      /\ states' \in {states, [states EXCEPT ![import.day] = "failed"]}
      /\ import' = NoImport
      /\ Fault \/ UNCHANGED faults
      /\ UNCHANGED <<today, received, spool, archiver, db>>
  BY DEF ImportFail
<1>2. import.day \in Days /\ states[import.day] # "done"
  BY <1>1 DEF Importing
<1>3. states' \in [Days -> {"none", "importing", "done", "failed"}]
      /\ \A d \in Days : states'[d] = "done" <=> states[d] = "done"
  BY <1>1, <1>2 DEF TypeOK
<1>4. TypeOK'
  <2>1. faults' \in 0 .. MaxFaults
    BY <1>1, FaultIsBounded
  <2> QED
    BY <1>1, <1>3, <2>1, DaysAssumption DEF TypeOK, NoImport, received, archiver
<1>5. Times' /\ Files' /\ Running' /\ ArchivesKeepUp' /\ Kept' /\ Oldest'
  BY <1>1, <1>3, <1>4, ImportAloneKeeps DEF Times
<1>6. Imported'
  <2>1. \A l \in prompt : stamp[l] \in Days
    BY DaysAssumption DEF TypeOK, Times, Days
  <2> QED
    BY <1>1, <1>3, <2>1 DEF Imported, received
<1>7. Importing'
  BY <1>1 DEF Importing
<1> QED
  BY <1>4, <1>5, <1>6, <1>7

-----------------------------------------------------------------------------
LEMMA MidnightKeeps == IInv /\ Midnight => IInv'
<1> SUFFICES ASSUME IInv, Midnight PROVE IInv'
  OBVIOUS
<1> USE DEF IInv
<1>1. /\ today < MaxDay /\ \A l \in waiting : stamp[l] = today
      /\ today' = today + 1
      /\ UNCHANGED <<received, spool, archiver, imported, faults>>
  BY DEF Midnight
<1> USE DEF received, archiver, imported
<1>2. /\ today \in Nat /\ today' \in Days /\ MaxDay \in Nat
      /\ \A n \in Int : n <= today => n <= today'
      /\ \A n \in Int : n < today => n < today'
  BY <1>1, DaysAssumption DEF TypeOK, Days
<1>3. TypeOK'
  BY <1>1, <1>2 DEF TypeOK
<1>4. Times'
  <2>1. \A l \in Lines : stamp[l] \in Int
    BY <1>2 DEF TypeOK
  <2>2. \A at \in ticks : at \in Int
    BY <1>2 DEF TypeOK, Days
  <2>3. run.at \in Int
    BY <1>2 DEF TypeOK, Run
  <2>4. \A a \in DOMAIN archives : a.on \in Int
    BY <1>2 DEF TypeOK, Names, Days
  <2>5. \A d \in Days : d \in Int
    BY <1>2 DEF Days
  <2>6. \A l \in waiting : stamp[l] >= 1 /\ today' <= stamp[l] + 1
    BY <1>1, <1>2 DEF Times
  <2> QED
    BY <1>1, <1>2, <2>1, <2>2, <2>3, <2>4, <2>5, <2>6 DEF Times
<1>5. Files'
  <2>1. file.day \in Int
    BY <1>2 DEF TypeOK
  <2> QED
    BY <1>1, <1>2, <2>1 DEF Files
<1>6. \A d : Prompt(d)' = Prompt(d)
  BY <1>1 DEF Prompt
<1>7. Running' /\ ArchivesKeepUp' /\ Oldest' /\ Imported'
  BY <1>1, <1>6 DEF Running, Target, Day, ArchivesKeepUp, Oldest, Imported
<1>8. Kept'
  <2>1. \A l \in prompt : stamp[l] + 2 \in Int
    BY <1>2 DEF TypeOK
  <2> QED
    BY <1>1, <1>2, <2>1 DEF Kept, InSpool
<1>9. Importing'
  <2>1. import # NoImport => import.day \in Int
    BY <1>2 DEF Importing, Days
  <2> QED
    BY <1>1, <1>2, <1>6, <2>1 DEF Importing
<1> QED
  BY <1>3, <1>4, <1>5, <1>7, <1>8, <1>9

LEMMA CrashKeeps == IInv /\ Crash => IInv'
<1> SUFFICES ASSUME IInv, Crash PROVE IInv'
  OBVIOUS
<1> USE DEF IInv
<1>1. /\ waiting' = {} /\ file' = NoFile
      /\ ticks' = {} /\ step' = "idle" /\ run' = NoRun
      /\ import' = NoImport
      /\ UNCHANGED <<today, stamp, prompt, spool, archives, states, db>>
  BY DEF Crash
<1>2. faults' \in 0 .. MaxFaults
  BY FaultIsBounded DEF Crash
<1>3. /\ NoRun \in Run /\ NoRun.at = 0 /\ NoRun.ready = {} /\ NoRun.expired = {}
      /\ NoFile \in [day : 0 .. MaxDay, linked : BOOLEAN] /\ ~NoFile.linked /\ NoFile.day = 0
      /\ NoImport \in [step : {"none", "drop", "load"}, day : 0..MaxDay, target : SUBSET Names]
  BY DaysAssumption DEF NoRun, Run, NoFile, NoImport
<1>4. today \in Nat /\ today >= 1
  BY DaysAssumption DEF TypeOK, Days
<1>5. TypeOK'
  BY <1>1, <1>2, <1>3 DEF TypeOK
<1>6. Times' /\ Files' /\ Running' /\ Importing'
  BY <1>1, <1>3, <1>4 DEF Times, Files, Running, Importing
<1>7. ArchivesKeepUp' /\ Kept' /\ Oldest' /\ Imported'
  BY <1>1 DEF ArchivesKeepUp, Kept, Oldest, Imported, Prompt, InSpool
<1> QED
  BY <1>5, <1>6, <1>7

LEMMA StutterKeeps == IInv /\ UNCHANGED vars => IInv'
<1> SUFFICES ASSUME IInv, UNCHANGED vars PROVE IInv'
  OBVIOUS
<1> USE DEF IInv, vars, received, archiver, imported
<1>1. TypeOK' /\ Times' /\ Files'
  BY DEF TypeOK, Times, Files
<1>2. Running' /\ Importing'
  BY DEF Running, Target, Day, Importing, Prompt
<1>3. ArchivesKeepUp' /\ Kept' /\ Oldest' /\ Imported'
  BY DEF ArchivesKeepUp, Kept, Oldest, Imported, Prompt, InSpool
<1> QED
  BY <1>1, <1>2, <1>3

LEMMA NextKeeps == IInv /\ [Next]_vars => IInv'
<1> SUFFICES ASSUME IInv, [Next]_vars PROVE IInv'
  OBVIOUS
<1>1. CASE Receive \/ Append \/ CloseWriter \/ Tick
  BY <1>1, ReceiveKeeps, AppendKeeps, TickKeeps
<1>2. CASE ArchiveStep
  BY <1>2, BeginKeeps, ListKeeps, RemovalKeeps, CopyKeeps, PublishKeeps, ExpireKeeps,
     DeleteKeeps DEF ArchiveStep
<1>3. CASE ImportStep
  BY <1>3, ImportBeginKeeps, ImportDropKeeps, ImportLoadKeeps, ImportDoneKeeps,
     ImportFailKeeps DEF ImportStep
<1>4. CASE Midnight \/ Crash \/ UNCHANGED vars
  BY <1>4, MidnightKeeps, CrashKeeps, StutterKeeps
<1> QED
  BY <1>1, <1>2, <1>3, <1>4 DEF Next

LEMMA Invariance == Spec => []IInv
BY InitIsKept, NextKeeps, PTL DEF Spec

\* Every variable keeps its type.
THEOREM TypeCorrectness == Spec => []TypeOK
<1>1. IInv => TypeOK
  BY DEF IInv
<1> QED
  BY <1>1, Invariance, PTL

\* A line that was written before its day was over is never lost: with any number of lines,
\* days and failures, and any archive_retention_days.
THEOREM PromptLinesAreKept == Spec => []PromptLinesSurvive
<1>1. IInv => PromptLinesSurvive
  <2> SUFFICES ASSUME IInv, NEW l \in prompt
               PROVE  \/ stamp[l] \in DOMAIN spool /\ l \in spool[stamp[l]]
                      \/ Archived(l) # {}
                      \/ states[stamp[l]] = "done" /\ db[l] > 0
    BY DEF PromptLinesSurvive
  <2>1. CASE states[stamp[l]] = "done"
    BY <2>1 DEF IInv, Imported
  <2>2. CASE InSpool(l)
    BY <2>2 DEF InSpool
  <2>3. CASE \E b \in DOMAIN archives : l \in archives[b]
    BY <2>3 DEF Archived
  <2> QED
    BY <2>1, <2>2, <2>3 DEF IInv, Kept
<1> QED
  BY <1>1, Invariance, PTL

-----------------------------------------------------------------------------
(* Copies of a line *)

\* A line in its spool file will be archived from it, unless its archive is just made.
Pending(l) == InSpool(l) /\ ~(step = "remove" /\ Day = stamp[l])

\* An archive beyond the first, made or to be made, has cost a fault.
Copies ==
    \A l \in Lines :
        /\ IsFiniteSet(Archived(l)) /\ Cardinality(Archived(l)) <= 1 + faults
        /\ Pending(l) => Cardinality(Archived(l)) <= faults

\* A message that waits for its writer is nowhere; a copy is of the spool file that is there.
Unwritten ==
    /\ \A l \in waiting : ~InSpool(l) /\ Archived(l) = {}
    /\ step = "publish" => run.copied \subseteq spool[Day]

\* An import loads each archive once, after it has dropped the rows of the day.
Left(l) == Archived(l) \intersect import.target
Loaded ==
    \A l \in Lines :
        /\ db[l] <= 1 + faults
        /\ import.step = "load" /\ stamp[l] = import.day
              => db[l] + Cardinality(Left(l)) <= 1 + faults

CopiesInv == Copies /\ Unwritten /\ Loaded

\* Every day is a number.
LEMMA DaysAreNumbers ==
    MaxDay \in Nat /\ Days \subseteq Nat
<1> QED
  BY DaysAssumption DEF Days

\* A line that was given no time yet is nowhere.
LEMMA UnstampedIsNowhere ==
    ASSUME IInv, NEW l \in Lines, stamp[l] = 0
    PROVE  ~InSpool(l) /\ Archived(l) = {} /\ \A d \in DOMAIN spool : l \notin spool[d]
<1>1. \A a \in DOMAIN archives : a.day # 0
  BY DaysAssumption DEF IInv, TypeOK, Names, Days
<1>2. \A d \in DOMAIN spool : d # 0
  BY DaysAssumption DEF IInv, TypeOK, Days
<1> QED
  BY <1>1, <1>2 DEF IInv, Files, InSpool, Archived

\* A step that publishes nothing: what it makes pending has cost a fault, or was
\* not archived.
LEMMA CopiesMove ==
    ASSUME TypeOK, TypeOK', Copies, faults <= faults',
           \A l \in Lines : Archived(l)' \subseteq Archived(l),
           \A l \in Lines : Pending(l)' => \/ Pending(l)
                                           \/ Archived(l) = {}
                                           \/ faults' = faults + 1
    PROVE  Copies'
<1>1. faults \in Nat /\ faults' \in Nat
  BY FaultsAssumption DEF TypeOK
<1>2. ASSUME NEW l \in Lines
      PROVE  /\ IsFiniteSet(Archived(l)') /\ Cardinality(Archived(l)') <= 1 + faults'
             /\ Pending(l)' => Cardinality(Archived(l)') <= faults'
  <2>1. /\ IsFiniteSet(Archived(l)) /\ Cardinality(Archived(l)) <= 1 + faults
        /\ Pending(l) => Cardinality(Archived(l)) <= faults
    BY DEF Copies
  <2>2. /\ IsFiniteSet(Archived(l)') /\ Cardinality(Archived(l)') <= Cardinality(Archived(l))
        /\ Cardinality(Archived(l)) \in Nat /\ Cardinality(Archived(l)') \in Nat
    BY <2>1, FS_Subset, FS_CardinalityType
  <2>3. CASE Pending(l) \/ faults' = faults + 1 \/ ~Pending(l)'
    BY <1>1, <2>1, <2>2, <2>3
  <2>4. CASE Archived(l) = {}
    <3>1. Cardinality(Archived(l)) = 0
      BY <2>4, FS_EmptySet
    <3> QED
      BY <1>1, <2>2, <3>1
  <2> QED
    BY <2>3, <2>4
<1> QED
  BY <1>2 DEF Copies

\* A step beside the importer.
LEMMA LoadedMove ==
    ASSUME TypeOK, TypeOK', Copies, Loaded, UNCHANGED <<db, import>>, faults <= faults',
           \A l \in Lines : Archived(l)' \intersect import.target \subseteq Archived(l),
           import.step = "load" => \A l \in Lines : stamp'[l] = import.day => stamp[l] = import.day
    PROVE  Loaded'
<1>1. faults \in Nat /\ faults' \in Nat /\ db \in [Lines -> Nat]
  BY FaultsAssumption DEF TypeOK
<1>2. ASSUME NEW l \in Lines
      PROVE  /\ db'[l] <= 1 + faults'
             /\ import'.step = "load" /\ stamp'[l] = import'.day
                   => db'[l] + Cardinality(Left(l)') <= 1 + faults'
  <2>1. /\ db[l] <= 1 + faults
        /\ import.step = "load" /\ stamp[l] = import.day
              => db[l] + Cardinality(Left(l)) <= 1 + faults
    BY DEF Loaded
  <2>2. Left(l)' \subseteq Left(l)
    BY DEF Left
  <2>3. IsFiniteSet(Left(l))
    BY FS_Subset DEF Copies, Left
  <2>4. /\ Cardinality(Left(l)') <= Cardinality(Left(l))
        /\ Cardinality(Left(l)) \in Nat /\ Cardinality(Left(l)') \in Nat
    BY <2>2, <2>3, FS_Subset, FS_CardinalityType
  <2>5. db[l] \in Nat /\ db'[l] = db[l]
    BY <1>1
  <2>6. db'[l] <= 1 + faults'
    BY <1>1, <2>1, <2>5
  <2>7. ASSUME import'.step = "load", stamp'[l] = import'.day
        PROVE  db'[l] + Cardinality(Left(l)') <= 1 + faults'
    <3>1. db[l] + Cardinality(Left(l)) <= 1 + faults
      BY <2>1, <2>7
    <3> QED
      BY <1>1, <2>4, <2>5, <3>1
  <2> QED
    BY <2>6, <2>7
<1> QED
  BY <1>2 DEF Loaded

\* A fault adds one.
LEMMA FaultsGrow ==
    ASSUME TypeOK, Fault \/ UNCHANGED faults
    PROVE  faults <= faults' /\ (Fault => faults' = faults + 1)
<1> QED
  BY FaultsAssumption DEF TypeOK, Fault

-----------------------------------------------------------------------------
(* Steps of the receiver *)

\* A message that gets its time is in no file yet.
LEMMA ReceiveCopies ==
    ASSUME IInv, IInv', CopiesInv, Receive PROVE CopiesInv'
<1> USE DEF IInv, CopiesInv
<1>1. PICK m \in Lines : stamp[m] = 0 /\ stamp' = [stamp EXCEPT ![m] = today]
                         /\ waiting' = waiting \union {m}
  <2> DEFINE left == {l \in Lines : stamp[l] = 0}
  <2>1. left # {} /\ left \subseteq Nat
    BY LinesAssumption DEF Receive
  <2>2. Min(left) \in left
    BY <2>1, MinIsMember
  <2> QED
    BY <2>2 DEF Receive
<1>2. UNCHANGED <<today, prompt, file, spool, archiver, imported, faults>>
  BY DEF Receive
<1> USE DEF archiver, imported
<1>3. \A l \in Lines \ {m} : stamp'[l] = stamp[l]
  BY <1>1 DEF TypeOK
<1>4. \A l \in Lines : Archived(l)' = Archived(l)
  BY <1>2 DEF Archived
<1>5. ~InSpool(m)' /\ Archived(m) = {}
  BY <1>1, <1>2, UnstampedIsNowhere DEF InSpool
<1>6. ASSUME NEW l \in Lines PROVE InSpool(l)' => InSpool(l)
  <2>1. CASE l = m
    BY <1>5, <2>1
  <2>2. CASE l # m
    BY <1>2, <1>3, <2>2 DEF InSpool
  <2> QED
    BY <2>1, <2>2
<1>7. faults <= faults'
  BY <1>2, FaultsGrow
<1>8. Copies'
  <2>1. ASSUME NEW l \in Lines, Pending(l)' PROVE Pending(l)
    <3>1. l # m /\ Day' = Day
      BY <1>2, <1>5, <2>1 DEF Pending, Day
    <3> QED
      BY <1>2, <1>3, <1>6, <2>1, <3>1 DEF Pending
  <2> QED
    BY <1>4, <1>7, <2>1, CopiesMove
<1>9. Unwritten'
  <2>1. waiting \subseteq Lines
    BY DEF TypeOK
  <2>2. Day' = Day
    BY <1>2 DEF Day
  <2> QED
    BY <1>1, <1>2, <1>4, <1>5, <1>6, <2>1, <2>2 DEF Unwritten
<1>10. Loaded'
  <2>1. import.step = "load" => \A l \in Lines : stamp'[l] = import.day => stamp[l] = import.day
    <3>1. ASSUME import.step = "load" PROVE import.day < today /\ import.day \in Nat
      <4>1. import # NoImport
        BY <3>1 DEF NoImport
      <4>2. import.day < today /\ import.day \in Days
        BY <4>1 DEF Importing
      <4> QED
        BY <4>2, DaysAreNumbers
    <3>2. stamp'[m] = today /\ today \in Nat
      BY <1>1, DaysAreNumbers DEF TypeOK
    <3> QED
      BY <1>3, <3>1, <3>2
  <2> QED
    BY <1>2, <1>4, <1>7, <2>1, LoadedMove
<1> QED
  BY <1>8, <1>9, <1>10

\* The line that is written has no archive yet.
LEMMA AppendCopies ==
    ASSUME IInv, IInv', CopiesInv, Append PROVE CopiesInv'
<1> USE DEF IInv, CopiesInv
<1>1. PICK m \in waiting :
         /\ waiting' = waiting \ {m}
         /\ DOMAIN spool \subseteq DOMAIN spool'
         /\ \A d \in DOMAIN spool : spool[d] \subseteq spool'[d]
         /\ \A d \in DOMAIN spool' : \A l \in spool'[d] :
               (d \in DOMAIN spool /\ l \in spool[d]) \/ (l = m /\ d = stamp[m])
  BY AppendEffect
<1>2. UNCHANGED <<today, stamp, archives, ticks, step, run, import, states, db>>
  BY DEF Append, archiver, imported
<1>3. Fault \/ UNCHANGED faults
  BY DEF Append, Write, Refuse
<1>4. \A l \in Lines : Archived(l)' = Archived(l)
  BY <1>2 DEF Archived
<1>5. \A l \in Lines \ {m} : InSpool(l)' => InSpool(l)
  BY <1>1, <1>2 DEF InSpool
<1>6. Archived(m) = {} /\ waiting \subseteq Lines
  BY DEF Unwritten, TypeOK
<1>7. faults <= faults'
  BY <1>3, FaultsGrow
<1>8. Day' = Day
  BY <1>2 DEF Day
<1>9. Copies'
  <2>1. \A l \in Lines : Pending(l)' => Pending(l) \/ Archived(l) = {}
    BY <1>2, <1>5, <1>6, <1>8 DEF Pending
  <2> QED
    BY <1>4, <1>7, <2>1, CopiesMove
<1>10. Unwritten'
  <2>1. step = "publish" => Day \in DOMAIN spool
    BY DayIsListed
  <2> QED
    BY <1>1, <1>2, <1>4, <1>5, <1>6, <1>8, <2>1 DEF Unwritten
<1>11. Loaded'
  BY <1>2, <1>4, <1>7, LoadedMove
<1> QED
  BY <1>9, <1>10, <1>11

\* Steps that leave files and archives as they are, and neither begin nor end the
\* publication of a copy.
LEMMA FilesStayCopies ==
    ASSUME IInv, IInv', CopiesInv,
           CloseWriter \/ Tick \/ Begin \/ List \/ Copy \/ Expire \/ Midnight
    PROVE  CopiesInv'
<1> USE DEF IInv, CopiesInv
<1>1. UNCHANGED <<stamp, spool, archives, db, import>> /\ waiting' = waiting
  BY DEF CloseWriter, Tick, Begin, List, Copy, Expire, Midnight, received, archiver, imported
<1>2. Fault \/ UNCHANGED faults
  BY DEF CloseWriter, Tick, Begin, List, Copy, Expire, Midnight
<1>3. \/ UNCHANGED <<step, run>>
      \/ step \notin {"publish", "remove"} /\ step' \notin {"publish", "remove"}
      \/ Copy
  BY DEF CloseWriter, Tick, Begin, List, Expire, Midnight, Goto, archiver
<1>4. Copy => /\ step = "day" /\ step' # "remove"
              /\ step' = "publish" => run'.copied = spool[Day] /\ Day' = Day
  <2> SUFFICES ASSUME Copy
               PROVE  /\ step = "day" /\ step' # "remove"
                      /\ step' = "publish" => run'.copied = spool[Day] /\ Day' = Day
    OBVIOUS
  <2>1. run \in Run
    BY DEF TypeOK
  <2>2. CASE Goto("publish", [run EXCEPT !.copied = spool[Day]])
    <3>1. run'.copied = spool[Day] /\ run'.days = run.days
      BY <2>1, <2>2 DEF Goto, Run
    <3> QED
      BY <2>2, <3>1 DEF Copy, Goto, Day
  <2>3. CASE Proceed
    BY <2>3 DEF Copy, Proceed, Goto
  <2> QED
    BY <2>2, <2>3 DEF Copy
<1>5. \A l \in Lines : Archived(l)' = Archived(l) /\ InSpool(l)' = InSpool(l)
  BY <1>1 DEF Archived, InSpool
<1>6. faults <= faults'
  BY <1>2, FaultsGrow
<1>7. Copies'
  <2>1. ASSUME NEW l \in Lines, Pending(l)' PROVE Pending(l)
    <3>1. CASE UNCHANGED <<step, run>>
      BY <1>1, <1>5, <2>1, <3>1 DEF Pending, Day
    <3>2. CASE step # "remove"
      BY <1>5, <2>1, <3>2 DEF Pending
    <3> QED
      BY <1>3, <1>4, <3>1, <3>2
  <2> QED
    BY <1>5, <1>6, <2>1, CopiesMove
<1>8. Unwritten'
  <2>1. \A l \in waiting' : ~InSpool(l)' /\ Archived(l)' = {}
    BY <1>1, <1>5 DEF Unwritten, TypeOK
  <2>2. ASSUME step' = "publish" PROVE run'.copied \subseteq spool'[Day']
    <3>1. CASE UNCHANGED <<step, run>>
      <4>1. Day' = Day
        BY <3>1 DEF Day
      <4> QED
        BY <1>1, <2>2, <3>1, <4>1 DEF Unwritten
    <3>2. CASE Copy
      BY <1>1, <1>4, <2>2, <3>2
    <3> QED
      BY <1>3, <2>2, <3>1, <3>2
  <2> QED
    BY <2>1, <2>2 DEF Unwritten
<1>9. Loaded'
  BY <1>1, <1>5, <1>6, LoadedMove
<1> QED
  BY <1>7, <1>8, <1>9

-----------------------------------------------------------------------------
(* Steps of the archiver that move lines *)

\* The spool file goes, or stays with a fault.
LEMMA RemovalCopies ==
    ASSUME IInv, IInv', CopiesInv, Discard \/ Remove PROVE CopiesInv'
<1> USE DEF IInv, CopiesInv
<1>1. RemoveSource /\ step \in {"day", "remove"}
  BY DEF Discard, Remove
<1>2. /\ UNCHANGED <<stamp, waiting, archives, db, import>> /\ (Fault \/ UNCHANGED faults)
      /\ (Fault /\ spool' = spool) \/ spool' = Without(spool, Day)
      /\ step' \notin {"publish", "remove"}
  BY <1>1 DEF RemoveSource, Unlink, Proceed, Goto, imported
<1>3. \A l \in Lines : Archived(l)' = Archived(l)
  BY <1>2 DEF Archived
<1>4. faults <= faults' /\ (Fault => faults' = faults + 1)
  BY <1>2, FaultsGrow
<1>5. ASSUME NEW l \in Lines, spool' = Without(spool, Day), InSpool(l)'
      PROVE  InSpool(l) /\ stamp[l] # Day
  <2>1. DOMAIN spool' = DOMAIN spool \ {Day} /\ \A d \in DOMAIN spool \ {Day} : spool'[d] = spool[d]
    BY <1>5 DEF Without, Restrict
  <2> QED
    BY <1>2, <1>5, <2>1 DEF InSpool
<1>6. \A l \in Lines : InSpool(l)' => InSpool(l)
  BY <1>2, <1>5 DEF InSpool
<1>7. Copies'
  <2>1. \A l \in Lines : Pending(l)' => Pending(l) \/ faults' = faults + 1
    BY <1>2, <1>4, <1>5 DEF Pending
  <2> QED
    BY <1>3, <1>4, <2>1, CopiesMove
<1>8. Unwritten'
  BY <1>2, <1>3, <1>6 DEF Unwritten, TypeOK
<1>9. Loaded'
  BY <1>2, <1>3, <1>4, LoadedMove
<1> QED
  BY <1>7, <1>8, <1>9

\* The copy becomes an archive: of lines that were pending, until their file goes.
LEMMA PublishCopies ==
    ASSUME IInv, IInv', CopiesInv, Publish PROVE CopiesInv'
<1> USE DEF IInv, CopiesInv
<1>1. /\ step = "publish" /\ UNCHANGED <<stamp, waiting, spool, db, import>>
      /\ Fault \/ UNCHANGED faults
  BY DEF Publish, received, imported
<1>2. faults <= faults' /\ faults \in Nat /\ faults' \in Nat
  BY <1>1, FaultsGrow, FaultsAssumption DEF TypeOK
<1>3. \A l \in Lines : InSpool(l)' = InSpool(l)
  BY <1>1 DEF InSpool
<1>4. CASE Proceed /\ UNCHANGED archives
  <2>1. step' \notin {"publish", "remove"}
    BY <1>4 DEF Proceed, Goto
  <2>2. \A l \in Lines : Archived(l)' = Archived(l)
    BY <1>4 DEF Archived
  <2>3. Copies'
    <3>1. \A l \in Lines : Pending(l)' => Pending(l)
      BY <1>1, <1>3 DEF Pending
    <3> QED
      BY <1>2, <2>2, <3>1, CopiesMove
  <2>4. Unwritten'
    BY <1>1, <1>3, <2>1, <2>2 DEF Unwritten, TypeOK
  <2>5. Loaded'
    BY <1>1, <1>2, <2>2, LoadedMove
  <2> QED
    BY <2>3, <2>4, <2>5
<1>5. CASE archives' = With(archives, Target, run.copied) /\ Goto("remove", run)
  <2>1. /\ step' = "remove" /\ Day' = Day /\ Target \notin DOMAIN archives
        /\ run.copied \subseteq spool[Day] /\ Day \in DOMAIN spool
        /\ \A l \in run.copied : stamp[l] = Day
    BY <1>1, <1>5, DayIsListed DEF Goto, Day, Running, Unwritten
  <2>2. ASSUME NEW l \in Lines
        PROVE  Archived(l)' = IF l \in run.copied THEN Archived(l) \union {Target} ELSE Archived(l)
    <3>1. DOMAIN archives' = DOMAIN archives \union {Target}
          /\ archives'[Target] = run.copied
          /\ \A a \in DOMAIN archives : archives'[a] = archives[a]
      BY <1>5, <2>1 DEF With
    <3> QED
      BY <3>1, <2>1 DEF Archived
  <2>3. ASSUME NEW l \in Lines, l \in run.copied PROVE Pending(l) /\ InSpool(l)
    BY <1>1, <2>1, <2>3 DEF Pending, InSpool
  <2>4. ASSUME NEW l \in Lines
        PROVE  /\ IsFiniteSet(Archived(l)') /\ Cardinality(Archived(l)') <= 1 + faults'
               /\ Pending(l)' => Cardinality(Archived(l)') <= faults'
    <3>1. /\ IsFiniteSet(Archived(l)) /\ Cardinality(Archived(l)) <= 1 + faults
          /\ Cardinality(Archived(l)) \in Nat
          /\ Pending(l) => Cardinality(Archived(l)) <= faults
      BY FS_CardinalityType DEF Copies
    <3>2. CASE l \in run.copied
      <4>1. Target \notin Archived(l)
        BY <2>1 DEF Archived
      <4>2. IsFiniteSet(Archived(l) \union {Target})
            /\ Cardinality(Archived(l) \union {Target}) = Cardinality(Archived(l)) + 1
        BY <3>1, <4>1, FS_AddElement
      <4>3. Cardinality(Archived(l)) <= faults
        BY <2>3, <3>1, <3>2
      <4>4. ~Pending(l)'
        BY <1>1, <2>1, <3>2 DEF Pending
      <4>5. Cardinality(Archived(l)) + 1 <= 1 + faults'
        BY <1>2, <3>1, <4>3
      <4> QED
        BY <2>2, <3>2, <4>2, <4>4, <4>5
    <3>3. CASE l \notin run.copied
      <4>1. Archived(l)' = Archived(l)
        BY <2>2, <3>3
      <4>2. Pending(l)' => Pending(l)
        BY <1>1, <1>3 DEF Pending
      <4> QED
        BY <1>2, <3>1, <4>1, <4>2
    <3> QED
      BY <3>2, <3>3
  <2>5. Copies'
    BY <2>4 DEF Copies
  <2>6. Unwritten'
    <3>1. ASSUME NEW l \in waiting PROVE Archived(l)' = {} /\ ~InSpool(l)'
      <4>1. l \in Lines /\ ~InSpool(l) /\ Archived(l) = {}
        BY DEF Unwritten, TypeOK
      <4> QED
        BY <1>3, <2>2, <2>3, <4>1
    <3> QED
      BY <1>1, <2>1, <3>1 DEF Unwritten
  <2>7. Loaded'
    <3>1. import.target \subseteq DOMAIN archives \/ import = NoImport
      BY DEF Importing
    <3>2. NoImport.target = {}
      BY DEF NoImport
    <3>3. Target \notin import.target
      BY <2>1, <3>1, <3>2
    <3>4. \A l \in Lines : Archived(l)' \intersect import.target \subseteq Archived(l)
      BY <2>2, <3>3
    <3> QED
      BY <1>1, <1>2, <3>4, LoadedMove
  <2> QED
    BY <2>5, <2>6, <2>7
<1> QED
  BY <1>4, <1>5 DEF Publish

\* Retention only takes archives away.
LEMMA DeleteCopies ==
    ASSUME IInv, IInv', CopiesInv, Delete PROVE CopiesInv'
<1> USE DEF IInv, CopiesInv
<1>1. /\ step = "delete" /\ UNCHANGED <<stamp, waiting, spool, db, import>>
      /\ Fault \/ UNCHANGED faults
      /\ step' \notin {"publish", "remove"}
  BY DEF Delete, received, imported, Goto
<1>2. PICK a \in run.expired : archives' = Without(archives, a) \/ archives' = archives
  BY DEF Delete
<1>3. DOMAIN archives' \subseteq DOMAIN archives
      /\ \A b \in DOMAIN archives' : archives'[b] = archives[b]
  BY <1>2 DEF Without, Restrict
<1>4. \A l \in Lines : Archived(l)' \subseteq Archived(l) /\ InSpool(l)' = InSpool(l)
  BY <1>1, <1>3 DEF Archived, InSpool
<1>5. faults <= faults'
  BY <1>1, FaultsGrow
<1>6. Copies'
  <2>1. \A l \in Lines : Pending(l)' => Pending(l)
    BY <1>1, <1>4 DEF Pending
  <2> QED
    BY <1>4, <1>5, <2>1, CopiesMove
<1>7. Unwritten'
  BY <1>1, <1>4 DEF Unwritten, TypeOK
<1>8. Loaded'
  BY <1>1, <1>4, <1>5, LoadedMove
<1> QED
  BY <1>6, <1>7, <1>8

-----------------------------------------------------------------------------
(* Steps of the importer *)

\* The importer leaves files, archives and their writers alone.
LEMMA ImportLeavesCopies ==
    ASSUME TypeOK, TypeOK', Copies, Unwritten, ImportStep PROVE Copies' /\ Unwritten'
<1>1. UNCHANGED <<stamp, waiting, spool, archives, step, run>> /\ (Fault \/ UNCHANGED faults)
  BY DEF ImportStep, ImportBegin, ImportDrop, ImportLoad, ImportDone, ImportFail,
         received, archiver
<1>2. \A l \in Lines : /\ Archived(l)' = Archived(l) /\ InSpool(l)' = InSpool(l)
                       /\ Pending(l)' = Pending(l)
  BY <1>1 DEF Archived, InSpool, Pending, Day
<1>3. faults <= faults'
  BY <1>1, FaultsGrow
<1>4. Copies'
  BY <1>2, <1>3, CopiesMove
<1>5. Unwritten'
  BY <1>1, <1>2 DEF Unwritten, TypeOK, Day
<1> QED
  BY <1>4, <1>5

\* An import drops the rows of the day first, and every archive it has loaded is not left.
LEMMA ImportCopies ==
    ASSUME IInv, IInv', CopiesInv, ImportStep PROVE CopiesInv'
<1> USE DEF IInv, CopiesInv
<1>1. Copies' /\ Unwritten'
  BY ImportLeavesCopies
<1>2. /\ UNCHANGED <<stamp, archives>> /\ (Fault \/ UNCHANGED faults)
      /\ \A l \in Lines : Archived(l)' = Archived(l)
  BY DEF ImportStep, ImportBegin, ImportDrop, ImportLoad, ImportDone, ImportFail,
         received, archiver, Archived
<1>3. faults <= faults' /\ faults \in Nat /\ faults' \in Nat /\ db \in [Lines -> Nat]
  BY <1>2, FaultsGrow, FaultsAssumption DEF TypeOK
<1>4. \A l \in Lines : db[l] <= 1 + faults'
  BY <1>3 DEF Loaded
<1>5. CASE ImportBegin \/ ImportDone \/ ImportFail
  <2>1. UNCHANGED db /\ import'.step # "load"
    BY <1>5 DEF ImportBegin, ImportDone, ImportFail, NoImport
  <2> QED
    BY <1>1, <1>4, <2>1 DEF Loaded
<1>6. CASE ImportDrop
  <2>1. /\ import'.day = import.day /\ import'.target = import.target /\ UNCHANGED faults
        /\ \A l \in Lines : db'[l] = IF stamp[l] = import.day THEN 0 ELSE db[l]
    BY <1>6 DEF ImportDrop, DropRows, TypeOK
  <2>2. ASSUME NEW l \in Lines
        PROVE  db'[l] <= 1 + faults'
               /\ (stamp[l] = import.day => db'[l] + Cardinality(Left(l)') <= 1 + faults')
    <3>1. IsFiniteSet(Archived(l)) /\ Cardinality(Archived(l)) <= 1 + faults
      BY DEF Copies
    <3>2. Left(l)' \subseteq Archived(l)
      BY <1>2 DEF Left
    <3>3. /\ Cardinality(Left(l)') <= Cardinality(Archived(l))
          /\ Cardinality(Left(l)') \in Nat /\ Cardinality(Archived(l)) \in Nat
      BY <3>1, <3>2, FS_Subset, FS_CardinalityType
    <3>4. CASE stamp[l] = import.day
      <4>1. db'[l] = 0
        BY <2>1, <3>4
      <4> QED
        BY <1>3, <2>1, <3>1, <3>3, <4>1
    <3>5. CASE stamp[l] # import.day
      BY <1>4, <2>1, <3>5
    <3> QED
      BY <3>4, <3>5
  <2> QED
    BY <1>1, <1>2, <2>1, <2>2 DEF Loaded
<1>7. CASE ImportLoad
  <2>1. PICK a \in import.target \intersect DOMAIN archives :
           /\ db' = [l \in Lines |-> IF l \in archives[a] THEN db[l] + 1 ELSE db[l]]
           /\ import' = [import EXCEPT !.target = @ \ {a}]
    BY <1>7 DEF ImportLoad
  <2>2. /\ import.step = "load" /\ import'.day = import.day /\ UNCHANGED faults
        /\ import'.target = import.target \ {a}
    BY <1>7, <2>1 DEF ImportLoad, TypeOK
  <2>3. \A l \in archives[a] : stamp[l] = import.day
    <3>1. import # NoImport
      BY <2>2 DEF NoImport
    <3>2. a.day = import.day
      BY <2>1, <3>1 DEF Importing
    <3> QED
      BY <2>1, <3>2 DEF Files
  <2>4. ASSUME NEW l \in Lines
        PROVE  db'[l] <= 1 + faults'
               /\ (stamp[l] = import.day => db'[l] + Cardinality(Left(l)') <= 1 + faults')
    <3>1. IsFiniteSet(Left(l)) /\ Cardinality(Left(l)) \in Nat
      <4>1. IsFiniteSet(Archived(l)) /\ Left(l) \subseteq Archived(l)
        BY DEF Copies, Left
      <4> QED
        BY <4>1, FS_Subset, FS_CardinalityType
    <3>2. stamp[l] = import.day => db[l] + Cardinality(Left(l)) <= 1 + faults
      BY <2>2 DEF Loaded
    <3>3. CASE l \in archives[a]
      <4>1. a \in Left(l) /\ Left(l)' = Left(l) \ {a}
        BY <1>2, <2>1, <2>2, <3>3 DEF Left, Archived
      <4>2. Cardinality(Left(l)') = Cardinality(Left(l)) - 1
        BY <3>1, <4>1, FS_RemoveElement
      <4>3. db'[l] = db[l] + 1 /\ db[l] \in Nat
        BY <1>3, <2>1, <3>3
      <4>4. Cardinality(Left(l)') \in Nat
        BY <3>1, <4>1, FS_RemoveElement, FS_CardinalityType
      <4>5. db[l] + Cardinality(Left(l)) <= 1 + faults
        BY <2>3, <3>2, <3>3
      <4> QED
        BY <1>3, <2>2, <3>1, <4>2, <4>3, <4>4, <4>5
    <3>4. CASE l \notin archives[a]
      <4>1. Left(l)' = Left(l)
        BY <1>2, <2>1, <2>2, <3>4 DEF Left, Archived
      <4>2. db'[l] = db[l]
        BY <1>3, <2>1, <3>4
      <4> QED
        BY <1>4, <2>2, <3>2, <4>1, <4>2
    <3> QED
      BY <3>3, <3>4
  <2> QED
    BY <1>1, <1>2, <2>2, <2>4 DEF Loaded
<1> QED
  BY <1>5, <1>6, <1>7 DEF ImportStep

\* A crash is a fault: what it leaves behind is archived once more.
LEMMA CrashCopies ==
    ASSUME IInv, IInv', CopiesInv, Crash PROVE CopiesInv'
<1> USE DEF IInv, CopiesInv
<1>1. /\ UNCHANGED <<stamp, spool, archives, db>> /\ Fault /\ waiting' = {}
      /\ step' = "idle" /\ import' = NoImport
  BY DEF Crash
<1>2. \A l \in Lines : Archived(l)' = Archived(l)
  BY <1>1 DEF Archived
<1>3. faults' = faults + 1 /\ faults <= faults' /\ faults \in Nat /\ db \in [Lines -> Nat]
  BY <1>1, FaultsGrow, FaultsAssumption DEF TypeOK
<1>4. Copies'
  BY <1>2, <1>3, CopiesMove
<1>5. Unwritten'
  BY <1>1 DEF Unwritten
<1>6. Loaded'
  <2>1. import'.step # "load"
    BY <1>1 DEF NoImport
  <2>2. \A l \in Lines : db'[l] <= 1 + faults'
    BY <1>1, <1>3 DEF Loaded
  <2> QED
    BY <2>1, <2>2 DEF Loaded
<1> QED
  BY <1>4, <1>5, <1>6

\* Nothing changes.
LEMMA StutterCopies ==
    ASSUME CopiesInv, UNCHANGED vars PROVE CopiesInv'
<1> USE DEF vars, received, archiver, imported, CopiesInv
<1>1. \A l : /\ Archived(l)' = Archived(l) /\ InSpool(l)' = InSpool(l)
             /\ Pending(l)' = Pending(l) /\ Left(l)' = Left(l)
  BY DEF Archived, InSpool, Pending, Day, Left
<1>2. Copies'
  BY <1>1 DEF Copies
<1>3. Unwritten'
  BY <1>1 DEF Unwritten, Day
<1>4. Loaded'
  BY <1>1 DEF Loaded
<1> QED
  BY <1>2, <1>3, <1>4

\* There is no line at the start.
LEMMA InitCopies ==
    ASSUME Init PROVE CopiesInv
<1>1. \A l \in Lines : Archived(l) = {} /\ ~InSpool(l)
  BY DEF Init, Archived, InSpool
<1>2. IsFiniteSet({}) /\ Cardinality({}) = 0 /\ faults = 0
  BY FS_EmptySet DEF Init
<1>3. Copies
  <2>1. \A l \in Lines : IsFiniteSet(Archived(l)) /\ Cardinality(Archived(l)) = 0
    BY <1>1, <1>2
  <2> QED
    BY <1>2, <2>1 DEF Copies
<1>4. Unwritten
  BY DEF Init, Unwritten
<1>5. Loaded
  <2>1. \A l \in Lines : db[l] = 0 /\ import.step # "load"
    BY DEF Init, NoImport
  <2> QED
    BY <1>2, <2>1 DEF Loaded
<1> QED
  BY <1>3, <1>4, <1>5 DEF CopiesInv

\* Every step keeps the copies paid for.
LEMMA NextCopies == IInv /\ IInv' /\ CopiesInv /\ [Next]_vars => CopiesInv'
<1> SUFFICES ASSUME IInv, IInv', CopiesInv, [Next]_vars PROVE CopiesInv'
  OBVIOUS
<1>1. CASE Receive \/ Append \/ CloseWriter \/ Tick \/ Midnight
  BY <1>1, ReceiveCopies, AppendCopies, FilesStayCopies
<1>2. CASE ArchiveStep
  BY <1>2, FilesStayCopies, RemovalCopies, PublishCopies, DeleteCopies DEF ArchiveStep
<1>3. CASE ImportStep
  BY <1>3, ImportCopies
<1>4. CASE Crash \/ UNCHANGED vars
  BY <1>4, CrashCopies, StutterCopies
<1> QED
  BY <1>1, <1>2, <1>3, <1>4 DEF Next

\* A line is archived, and imported, more than once only through a failure: with any
\* number of lines, days and failures, each further copy has cost one (the removal of
\* the spool file after the archive has its name).
THEOREM CopiesCost == Spec => []CopiesCostFaults
<1>1. CopiesInv => CopiesCostFaults
  BY DEF CopiesInv, Copies, Loaded, CopiesCostFaults
<1>2. Spec => []CopiesInv
  BY InitCopies, NextCopies, Invariance, PTL DEF Spec
<1> QED
  BY <1>1, <1>2, PTL
=============================================================================
