------------------------- MODULE DateImportProofs -------------------------
(***************************************************************************)
(* Proofs about DateImport: its type invariant; that the outcome of an     *)
(* import is strictly newer than every other row of the date; that an      *)
(* import without an error leaves the tables as its states say; and that   *)
(* syncs implement DateLedger when at most one thing fails.                *)
(***************************************************************************)
EXTENDS DateImport, FiniteSetTheorems, TLAPS

-----------------------------------------------------------------------------
(* Numbers and files. *)

\* terminalStateTimestamp moves past the previous time and never behind the
\* clock.
LEMMA AfterIsLater ==
    ASSUME NEW p \in Nat, NEW c \in Nat
    PROVE  After(p, c) \in Nat /\ After(p, c) > p /\ After(p, c) >= c
BY DEF After

\* A set of naturals has a least member: of the initial segments 0..n that it
\* spans, one is minimal for inclusion.
LEMMA LeastMember ==
    ASSUME NEW S \in SUBSET Nat, S # {}
    PROVE  \E x \in S : \A y \in S : x <= y
<1> DEFINE Initial == {0..n : n \in S}
           Order == StrictSubsetOrdering(Nat)
<1>1. PICK I \in Initial : \A J \in Initial : ~(<<J, I>> \in Order)
  <2>1. IsWellFoundedOn(Order, FiniteSubsetsOf(Nat))
    BY FS_StrictSubsetOrderingWellFounded
  <2>2. \A n \in S : IsFiniteSet(0..n) /\ 0..n \in SUBSET Nat
    <3> TAKE n \in S
    <3>1. IsFiniteSet(0..n)
      BY FS_Interval
    <3> QED
      BY <3>1
  <2>3. Initial # {} /\ Initial \subseteq FiniteSubsetsOf(Nat)
    BY <2>2 DEF FiniteSubsetsOf
  <2> HIDE DEF Initial, Order
  <2> QED
    BY <2>1, <2>3, WFMin
<1>2. PICK x \in S : I = 0..x
  OBVIOUS
<1>3. ASSUME NEW y \in S
      PROVE  x <= y
  <2>1. <<0..y, 0..x>> \notin Order
    BY <1>1, <1>2
  <2>2. 0..y \in SUBSET Nat /\ 0..x \in SUBSET Nat
    OBVIOUS
  <2>3. CASE y < x
    <3>1. 0..y \subseteq 0..x /\ x \notin 0..y /\ x \in 0..x
      BY <2>3
    <3>2. 0..y # 0..x
      BY <3>1
    <3> HIDE DEF Order
    <3> QED
      BY <2>1, <2>2, <3>1, <3>2, Zenon DEF Order, StrictSubsetOrdering
  <2> QED
    BY <2>3
<1> QED
  BY <1>3

LEMMA MinIsMember ==
    ASSUME NEW S \in SUBSET Nat, S # {}
    PROVE  Min(S) \in S
BY LeastMember DEF Min

\* A set of archives has a size, and a first one in scan order.
LEMMA FilesAreOrdered ==
    ASSUME NEW S \in SUBSET Files
    PROVE  Cardinality(S) \in Nat /\ (S # {} => Min(S) \in S)
<1>1. Cardinality(S) \in Nat
  BY FilesAssumption, FS_Subset, FS_CardinalityType
<1>2. S # {} => Min(S) \in S
  BY FilesAssumption, MinIsMember
<1> QED
  BY <1>1, <1>2

-----------------------------------------------------------------------------
(* The order on rows. *)

HasLatest(rows) == rows # {} => \E m \in rows : IsLatest(m, rows)

\* What the order looks at.
Versioned(rows) == \A r \in rows : r.at \in Nat /\ r.status \in Statuses

LEMMA PriorityIsNat ==
    ASSUME NEW status \in Statuses
    PROVE  Priority(status) \in Nat
BY DEF Statuses, Priority, Done

\* The row a reader gets is in the table, and no row has a later time.
LEMMA LatestIsNewest ==
    ASSUME NEW rows, rows # {}, Versioned(rows), HasLatest(rows)
    PROVE  /\ Latest(rows) \in rows
           /\ \A r \in rows : r.at <= Latest(rows).at
<1>1. \E m \in rows : IsLatest(m, rows)
  BY DEF HasLatest
<1>2. Latest(rows) \in rows /\ IsLatest(Latest(rows), rows)
  BY <1>1 DEF Latest
<1> QED
  BY <1>2 DEF Versioned, IsLatest, Newer

\* Inserting a row keeps the rows of a key ordered.
LEMMA LatestAfterInsert ==
    ASSUME NEW rows, NEW row, Versioned(rows \union {row}), HasLatest(rows)
    PROVE  HasLatest(rows \union {row})
<1> DEFINE all == rows \union {row}
<1>1. \A r \in all : r.at \in Nat /\ Priority(r.status) \in Nat
  BY PriorityIsNat DEF Versioned
<1>2. CASE rows = {}
  <2>1. IsLatest(row, all)
    BY <1>1, <1>2 DEF IsLatest, Newer
  <2> QED
    BY <2>1 DEF HasLatest
<1>3. CASE rows # {}
  <2>1. PICK m \in rows : IsLatest(m, rows)
    BY <1>3 DEF HasLatest
  <2>2. CASE Newer(row, m)
    <3>1. ASSUME NEW r \in all
          PROVE  ~Newer(r, row)
      BY <1>1, <2>1, <2>2, <3>1 DEF IsLatest, Newer
    <3> QED
      BY <3>1 DEF HasLatest, IsLatest
  <2>3. CASE ~Newer(row, m)
    <3>1. IsLatest(m, all)
      BY <2>1, <2>3 DEF IsLatest
    <3> QED
      BY <3>1 DEF HasLatest
  <2> QED
    BY <2>2, <2>3
<1> QED
  BY <1>2, <1>3

\* The time an import starts with is past every row of its key.
LEMMA AfterLatestIsLater ==
    ASSUME NEW rows, Versioned(rows), HasLatest(rows), NEW c \in Nat
    PROVE  AfterLatest(rows, c) \in Nat /\ \A r \in rows : r.at < AfterLatest(rows, c)
<1>1. CASE rows = {}
  BY <1>1 DEF AfterLatest
<1>2. CASE rows # {}
  <2>1. Latest(rows) \in rows /\ \A r \in rows : r.at <= Latest(rows).at
    BY <1>2, LatestIsNewest
  <2>2. Latest(rows).at \in Nat
    BY <2>1 DEF Versioned
  <2> DEFINE top == Latest(rows).at
  <2>3. After(top, c) \in Nat /\ After(top, c) > top
    BY <2>2, AfterIsLater
  <2>4. AfterLatest(rows, c) = After(top, c)
    BY <1>2 DEF AfterLatest
  <2> HIDE DEF top
  <2> QED
    BY <2>1, <2>2, <2>3, <2>4 DEF Versioned, top
<1> QED
  BY <1>1, <1>2

-----------------------------------------------------------------------------
(* The inductive invariant. *)

\* The rows of every key are ordered.
Ordered == HasLatest(dateRows) /\ \A f \in Files : HasLatest(fileRows[f])

\* While a file is to be imported there is a current one, and while
\* unrecognised archives are being failed there is one left.
Pending ==
    /\ pc \in {"drop", "start", "progress", "file", "load", "fileDone", "failFile"}
         => job.target \ job.done # {}
    /\ pc = "failUnrecognized" => job.noise # {}

\* Start-up follows a crash or the first boot, not a return of ImportDate.
Quiet == pc \in RepairSteps \union {"down"} => result = "none"

\* The running import remembers a time that no row of the date is past.
JobIsNewest == Importing => \A r \in dateRows : r.at <= job.at

IInv == TypeOK /\ Ordered /\ Pending /\ Quiet /\ JobIsNewest /\ TerminalWins

StoreOK ==
    /\ tables \in [Tables -> [Files -> Nat]]
    /\ dateRows \in SUBSET DateRow
    /\ fileRows \in [Files -> SUBSET FileRow]
    /\ Ordered

-----------------------------------------------------------------------------
(* What the statements do to the store. *)

LEMMA PutDateKeepsStore ==
    ASSUME StoreOK, NEW row \in DateRow, PutDate(row)
    PROVE  StoreOK'
<1>1. dateRows' = dateRows \union {row} /\ tables' = tables /\ fileRows' = fileRows
  BY DEF PutDate
<1>2. Versioned(dateRows \union {row})
  BY DEF StoreOK, Versioned, DateRow
<1>3. HasLatest(dateRows')
  BY <1>1, <1>2, LatestAfterInsert DEF StoreOK, Ordered
<1> QED
  BY <1>1, <1>3 DEF StoreOK, Ordered

LEMMA PutFileKeepsStore ==
    ASSUME StoreOK, NEW f \in Files, NEW row \in FileRow, PutFile(f, row)
    PROVE  StoreOK'
<1>1. /\ dateRows' = dateRows /\ tables' = tables
      /\ fileRows' = [fileRows EXCEPT ![f] = @ \union {row}]
  BY DEF PutFile
<1>2. Versioned(fileRows[f] \union {row})
  BY DEF StoreOK, Versioned, FileRow
<1>3. HasLatest(fileRows[f] \union {row})
  BY <1>2, LatestAfterInsert DEF StoreOK, Ordered
<1> QED
  BY <1>1, <1>3 DEF StoreOK, Ordered

LEMMA DropKeepsStore ==
    ASSUME StoreOK, NEW t \in Tables, DropPartition(t)
    PROVE  StoreOK'
BY DEF StoreOK, DropPartition, Ordered

LEMMA AddBatchKeepsStore ==
    ASSUME StoreOK, NEW f \in Files, NEW reached \in SUBSET Tables, AddBatch(f, reached)
    PROVE  StoreOK'
BY DEF StoreOK, AddBatch, Ordered

LEMMA NoWriteKeepsStore ==
    ASSUME StoreOK, UNCHANGED store
    PROVE  StoreOK'
BY DEF StoreOK, store, Ordered

LEMMA RestatedRow ==
    ASSUME NEW r \in DateRow, NEW status \in Statuses, NEW at \in Nat
    PROVE  [r EXCEPT !.status = status, !.at = at] \in DateRow
BY DEF DateRow

LEMMA FinishFullKeepsStore ==
    ASSUME StoreOK, clock \in Nat,
           dateRows' \in FinishedFull(dateRows, clock), UNCHANGED <<tables, fileRows>>
    PROVE  StoreOK'
<1>1. CASE dateRows' = dateRows
  BY <1>1 DEF StoreOK, Ordered
<1>2. CASE dateRows' # dateRows
  <2>1. PICK r \in dateRows :
          dateRows' = dateRows \union {[r EXCEPT !.status = "ready", !.at = clock + 1]}
    BY <1>2 DEF FinishedFull
  <2>2. [r EXCEPT !.status = "ready", !.at = clock + 1] \in DateRow
    <3>1. r \in DateRow
      BY DEF StoreOK
    <3>2. "ready" \in Statuses /\ clock + 1 \in Nat
      BY DEF Statuses
    <3> QED
      BY <3>1, <3>2, RestatedRow
  <2>3. PutDate([r EXCEPT !.status = "ready", !.at = clock + 1])
    BY <2>1 DEF PutDate
  <2> QED
    BY <2>2, <2>3, PutDateKeepsStore
<1> QED
  BY <1>1, <1>2

LEMMA ClearEmptyKeepsStore ==
    ASSUME StoreOK, dateRows' = ClearEmpty(dateRows), UNCHANGED <<tables, fileRows>>
    PROVE  StoreOK'
<1> DEFINE m == Latest(dateRows)
           row == [m EXCEPT !.status = "no_data", !.at = m.at + 1]
<1>1. CASE ~EmptyReady(dateRows)
  BY <1>1 DEF ClearEmpty, StoreOK, Ordered
<1>2. CASE EmptyReady(dateRows)
  <2>1. dateRows # {}
    BY <1>2 DEF EmptyReady, HasStatus
  <2>2. Versioned(dateRows)
    BY DEF StoreOK, Versioned, DateRow
  <2>3. m \in dateRows
    BY <2>1, <2>2, LatestIsNewest DEF StoreOK, Ordered
  <2>4. row \in DateRow
    <3>1. m \in DateRow
      BY <2>3 DEF StoreOK
    <3>2. "no_data" \in Statuses /\ m.at + 1 \in Nat
      BY <3>1 DEF DateRow, Statuses
    <3> HIDE DEF m
    <3> QED
      BY <3>1, <3>2, RestatedRow
  <2>5. PutDate(row)
    BY <1>2 DEF ClearEmpty, PutDate
  <2> QED
    BY <2>4, <2>5, PutDateKeepsStore
<1> QED
  BY <1>1, <1>2

LEMMA ClearFilesKeepsStore ==
    ASSUME StoreOK, NEW cleared \in SUBSET Files,
           \A f \in cleared : MayClearFile(fileRows[f]),
           fileRows' = [f \in Files |-> IF f \in cleared THEN ClearFile(fileRows[f])
                                                         ELSE fileRows[f]],
           UNCHANGED <<tables, dateRows>>
    PROVE  StoreOK'
<1>1. ASSUME NEW f \in Files
      PROVE  fileRows'[f] \in SUBSET FileRow /\ HasLatest(fileRows'[f])
  <2>1. CASE f \notin cleared
    BY <2>1 DEF StoreOK, Ordered
  <2>2. CASE f \in cleared
    <3> DEFINE rows == fileRows[f]
               row  == [status |-> "no_data", rows |-> 0, at |-> Latest(rows).at + 1]
    <3>1. rows \in SUBSET FileRow /\ rows # {} /\ HasLatest(rows)
      BY <2>2 DEF StoreOK, Ordered, MayClearFile, Decisive
    <3>2. Versioned(rows)
      BY <3>1 DEF Versioned, FileRow
    <3>3. Latest(rows) \in rows
      BY <3>1, <3>2, LatestIsNewest
    <3>4. row \in FileRow
      BY <3>1, <3>3 DEF FileRow, Statuses
    <3>5. Versioned(rows \union {row})
      BY <3>1, <3>4 DEF Versioned, FileRow
    <3>6. fileRows'[f] = rows \union {row}
      BY <2>2 DEF ClearFile
    <3> HIDE DEF rows, row
    <3> QED
      BY <3>1, <3>4, <3>5, <3>6, LatestAfterInsert
  <2> QED
    BY <2>1, <2>2
<1> QED
  BY <1>1 DEF StoreOK, Ordered

-----------------------------------------------------------------------------
(* The invariant holds initially, and every step keeps it. *)

LEMMA InitEstablishesIInv ==
    ASSUME Init
    PROVE  IInv
<1>1. LegacyDate \in DateRow /\ LegacyFile \in FileRow
  BY FilesAreOrdered, FilesAssumption DEF LegacyDate, LegacyFile, DateRow, FileRow, Statuses
<1>2. HasLatest({}) /\ HasLatest({LegacyDate}) /\ HasLatest({LegacyFile})
  <2>1. Priority("ready") \in Nat
    BY PriorityIsNat DEF Statuses
  <2> QED
    BY <2>1 DEF HasLatest, IsLatest, Newer, LegacyDate, LegacyFile
<1>3. NoJob \in Job
  BY TablesAssumption DEF NoJob, Job, Tables
<1>4. TypeOK
  <2>1. tables \in [Tables -> [Files -> Nat]]
    BY DEF Init
  <2>2. dateRows \in SUBSET DateRow /\ fileRows \in [Files -> SUBSET FileRow]
    BY <1>1 DEF Init
  <2>3. /\ clock \in Nat /\ content \in Contents /\ archives \in SUBSET Files
        /\ pc \in RepairSteps /\ job \in Job /\ expired \in BOOLEAN /\ result = "none"
    BY <1>3 DEF Init, RepairSteps
  <2>4. faults \in 0..MaxFaults /\ attempts \in 0..MaxAttempts
    BY BoundsAssumption DEF Init
  <2> QED
    BY <2>1, <2>2, <2>3, <2>4 DEF TypeOK
<1>5. Ordered
  BY <1>2 DEF Init, Ordered
<1> QED
  BY <1>4, <1>5 DEF Init, IInv, Pending, Quiet, JobIsNewest, Importing, ImportSteps, TerminalWins

LEMMA IInvStore ==
    ASSUME IInv
    PROVE  StoreOK
BY DEF IInv, TypeOK, StoreOK

\* The three ways in which a step of ImportDate ends: the function returns an
\* error, goes on, or returns with its outcome written.
LEMMA ErrorKeepsIInv ==
    ASSUME IInv, StoreOK', Return("error"), faults' \in 0..MaxFaults,
           UNCHANGED <<world, attempts>>
    PROVE  IInv'
<1>1. NoJob \in Job
  BY TablesAssumption DEF NoJob, Job, Tables
<1>2. TypeOK'
  BY <1>1 DEF IInv, TypeOK, StoreOK, Return, world
<1> QED
  BY <1>2 DEF IInv, StoreOK, Return, Pending, Quiet, JobIsNewest, Importing, ImportSteps,
              RepairSteps, TerminalWins

LEMMA GoingOnKeepsIInv ==
    ASSUME IInv, StoreOK', NEW step \in ImportSteps, NEW newJob \in Job,
           Goto(step, newJob),
           \A r \in dateRows' : r.at <= newJob.at,
           step \in {"drop", "start", "progress", "file", "load", "fileDone", "failFile"}
             => newJob.target \ newJob.done # {},
           step = "failUnrecognized" => newJob.noise # {},
           faults' \in 0..MaxFaults, clock' \in Nat,
           UNCHANGED <<content, archives, attempts>>
    PROVE  IInv'
<1>1. /\ pc' = step /\ job' = newJob /\ expired' = expired /\ result' = result
      /\ content' = content /\ archives' = archives /\ attempts' = attempts
  BY DEF Goto
<1>2. TypeOK'
  BY <1>1 DEF IInv, TypeOK, StoreOK
<1>3. step # "idle" /\ step \notin RepairSteps \union {"down"}
  BY DEF ImportSteps, RepairSteps
<1>4. Pending'
  BY <1>1 DEF Pending
<1>5. Quiet' /\ TerminalWins'
  BY <1>1, <1>3 DEF Quiet, TerminalWins
<1>6. JobIsNewest'
  BY <1>1 DEF JobIsNewest
<1> QED
  BY <1>2, <1>4, <1>5, <1>6 DEF IInv, StoreOK

LEMMA OutcomeKeepsIInv ==
    ASSUME IInv, Importing, NEW row \in DateRow, PutDate(row), job.at < row.at,
           NEW outcome \in {"ok", "failed"}, Return(outcome),
           row.status \in IF outcome = "ok" THEN Done ELSE {"failed"},
           faults' \in 0..MaxFaults, UNCHANGED <<world, attempts>>
    PROVE  IInv'
<1>1. StoreOK'
  BY IInvStore, PutDateKeepsStore
<1>2. NoJob \in Job
  BY TablesAssumption DEF NoJob, Job, Tables
<1>3. TypeOK'
  BY <1>1, <1>2 DEF IInv, TypeOK, StoreOK, Return, world
<1>4. TerminalWins'
  <2>1. dateRows' = dateRows \union {row} /\ result' = outcome
    BY DEF PutDate, Return
  <2>2. \A r \in dateRows : r.at \in Nat /\ r.at <= job.at
    BY DEF IInv, JobIsNewest, TypeOK, DateRow
  <2>3. job.at \in Nat /\ row.at \in Nat
    BY DEF IInv, TypeOK, Job, DateRow
  <2>4. \A r \in dateRows' \ {row} : r.at < row.at
    BY <2>1, <2>2, <2>3
  <2> QED
    BY <2>1, <2>4 DEF TerminalWins
<1> QED
  BY <1>1, <1>3, <1>4 DEF IInv, StoreOK, Return, Pending, Quiet, JobIsNewest, Importing,
                          ImportSteps, RepairSteps

\* The locals ImportDate starts with.
LEMMA NewJobIsJob ==
    ASSUME NEW at \in Nat, NEW target \in SUBSET Files
    PROVE  LET newJob == [NoJob EXCEPT !.at = at, !.target = target]
           IN  /\ newJob \in Job
               /\ newJob.at = at /\ newJob.target = target
               /\ newJob.done = {} /\ newJob.noise = {}
<1>1. NoJob \in Job
  BY TablesAssumption DEF NoJob, Job, Tables
<1>2. NoJob.done = {} /\ NoJob.noise = {}
  BY DEF NoJob
<1> QED
  BY <1>1, <1>2 DEF Job

LEMMA FaultIsBounded ==
    ASSUME IInv, Fault \/ UNCHANGED faults
    PROVE  faults' \in 0..MaxFaults
BY BoundsAssumption DEF IInv, TypeOK, Fault

\* A row of the running import.
LEMMA ImportingRowIsDateRow ==
    ASSUME NEW j \in Job, NEW at \in Nat
    PROVE  ImportingRow(j, at) \in DateRow /\ ImportingRow(j, at).at = at
<1>1. Cardinality(j.target) \in Nat /\ Cardinality(j.done) \in Nat /\ j.rows \in Nat
  BY FilesAreOrdered DEF Job
<1> QED
  BY <1>1 DEF ImportingRow, DateRow, Statuses

\* While a file is to be imported, the current one is a file.
LEMMA CurrentIsFile ==
    ASSUME IInv, job.target \ job.done # {}
    PROVE  Current \in Files /\ Current \in job.target \ job.done
<1>1. job.target \ job.done \in SUBSET Files
  BY DEF IInv, TypeOK, Job
<1> QED
  BY <1>1, FilesAreOrdered DEF Current

-----------------------------------------------------------------------------
(* The steps of ImportDate. *)

LEMMA BeginKeepsIInv ==
    ASSUME IInv, NEW rebuild \in BOOLEAN, Begin(rebuild)
    PROVE  IInv'
<1> DEFINE at     == AfterLatest(dateRows, clock)
           newJob == [NoJob EXCEPT !.at = at, !.target = archives]
<1>1. Versioned(dateRows) /\ HasLatest(dateRows) /\ clock \in Nat
  BY DEF IInv, TypeOK, Ordered, Versioned, DateRow
<1>2. at \in Nat /\ \A r \in dateRows : r.at < at
  BY <1>1, AfterLatestIsLater
<1> HIDE DEF at
<1>3. /\ newJob \in Job /\ newJob.at = at /\ newJob.target = archives
      /\ newJob.done = {} /\ newJob.noise = {}
  BY <1>2, NewJobIsJob DEF IInv, TypeOK
<1>4. attempts' \in 0..MaxAttempts
  BY BoundsAssumption DEF Begin, IInv, TypeOK
<1>5. /\ pc' = IF archives = {} THEN "failDate" ELSE "drop"
      /\ job' = newJob /\ result' = "none"
      /\ UNCHANGED <<world, store, expired, faults>>
  BY DEF Begin, at
<1> HIDE DEF newJob
<1>6. TypeOK'
  BY <1>3, <1>4, <1>5 DEF IInv, TypeOK, world, store, ImportSteps
<1>7. Ordered'
  BY <1>5 DEF IInv, Ordered, store
<1>8. JobIsNewest'
  <2>1. \A r \in dateRows' : r.at <= job'.at
    <3>1. \A r \in dateRows : r.at \in Nat
      BY <1>1 DEF Versioned
    <3> QED
      BY <3>1, <1>2, <1>3, <1>5 DEF store
  <2> QED
    BY <2>1 DEF JobIsNewest
<1> QED
  BY <1>3, <1>5, <1>6, <1>7, <1>8 DEF IInv, Pending, Quiet, TerminalWins, RepairSteps

LEMMA DropKeepsIInv ==
    ASSUME IInv, Drop
    PROVE  IInv'
<1>1. /\ pc = "drop" /\ job \in Job /\ job.table \in Tables /\ clock \in Nat
      /\ job.target \ job.done # {}
      /\ \A r \in dateRows : r.at <= job.at
  BY DEF Drop, IInv, TypeOK, Job, Pending, JobIsNewest, Importing, ImportSteps
<1>2. /\ DropPartition(job.table) \/ UNCHANGED store
      /\ Fault \/ UNCHANGED faults
      /\ clock' = clock + 1 \/ clock' = clock
      /\ \/ MorePartitions /\ Goto("drop", [job EXCEPT !.table = @ + 1])
         \/ Goto("start", job)
         \/ Goto("failDate", job)
      /\ UNCHANGED <<content, archives, attempts>>
  BY DEF Drop, Statement
<1>3. StoreOK' /\ dateRows' = dateRows /\ faults' \in 0..MaxFaults /\ clock' \in Nat
  BY <1>1, <1>2, IInvStore, DropKeepsStore, NoWriteKeepsStore, FaultIsBounded
     DEF DropPartition, store
<1>4. CASE MorePartitions /\ Goto("drop", [job EXCEPT !.table = @ + 1])
  <2> DEFINE newJob == [job EXCEPT !.table = @ + 1]
  <2>1. newJob \in Job /\ newJob.at = job.at
        /\ newJob.target = job.target /\ newJob.done = job.done
    BY <1>1, <1>4 DEF Job, MorePartitions
  <2> HIDE DEF newJob
  <2>2. Goto("drop", newJob)
    BY <1>4 DEF newJob
  <2> QED
    BY <1>1, <1>2, <1>3, <2>1, <2>2, GoingOnKeepsIInv DEF ImportSteps
<1>5. CASE Goto("start", job)
  BY <1>1, <1>2, <1>3, <1>5, GoingOnKeepsIInv DEF ImportSteps
<1>6. CASE Goto("failDate", job)
  BY <1>1, <1>2, <1>3, <1>6, GoingOnKeepsIInv DEF ImportSteps
<1> QED
  BY <1>2, <1>4, <1>5, <1>6

LEMMA StartKeepsIInv ==
    ASSUME IInv, Start
    PROVE  IInv'
<1> DEFINE row == ImportingRow(job, job.at)
<1>1. /\ pc = "start" /\ job \in Job /\ job.at \in Nat /\ clock \in Nat
      /\ job.target \ job.done # {}
      /\ \A r \in dateRows : r.at <= job.at
  BY DEF Start, IInv, TypeOK, Job, Pending, JobIsNewest, Importing, ImportSteps
<1>2. row \in DateRow /\ row.at = job.at
  BY <1>1, ImportingRowIsDateRow
<1> HIDE DEF row
<1>3. /\ PutDate(row) \/ UNCHANGED store
      /\ Fault \/ UNCHANGED faults
      /\ (PutDate(row) /\ Goto("progress", job)) \/ Return("error")
      /\ UNCHANGED <<world, attempts>>
  BY DEF Start, Statement, row
<1>4. StoreOK' /\ faults' \in 0..MaxFaults
  BY <1>2, <1>3, IInvStore, PutDateKeepsStore, NoWriteKeepsStore, FaultIsBounded
<1>5. CASE PutDate(row) /\ Goto("progress", job)
  <2>1. \A r \in dateRows' : r.at <= job.at
    BY <1>1, <1>2, <1>5 DEF PutDate
  <2> QED
    BY <1>1, <1>3, <1>4, <1>5, <2>1, GoingOnKeepsIInv DEF ImportSteps, world
<1>6. CASE Return("error")
  BY <1>3, <1>4, <1>6, ErrorKeepsIInv
<1> QED
  BY <1>3, <1>5, <1>6

LEMMA ProgressKeepsIInv ==
    ASSUME IInv, NEW step \in {"progress", "fileProgress"},
           NEW next \in {"file", "progress", "finish"},
           next # "finish" => job.target \ job.done # {},
           Progress(step, next)
    PROVE  IInv'
<1> DEFINE row    == ImportingRow(job, clock)
           newJob == [job EXCEPT !.at = IF clock > @ THEN clock ELSE @]
<1>1. /\ pc = step /\ job \in Job /\ job.at \in Nat /\ clock \in Nat
      /\ \A r \in dateRows : r.at \in Nat /\ r.at <= job.at
  BY DEF Progress, IInv, TypeOK, Job, JobIsNewest, Importing, ImportSteps, DateRow
<1>2. row \in DateRow /\ row.at = clock
  BY <1>1, ImportingRowIsDateRow
<1>3. /\ newJob \in Job /\ newJob.at >= job.at /\ newJob.at >= clock
      /\ newJob.target = job.target /\ newJob.done = job.done
  BY <1>1 DEF Job
<1> HIDE DEF row, newJob
<1>4. /\ PutDate(row) \/ UNCHANGED store
      /\ Fault \/ UNCHANGED faults
      /\ (PutDate(row) /\ Goto(next, newJob)) \/ Return("error")
      /\ UNCHANGED <<world, attempts>>
  BY DEF Progress, Statement, row, newJob
<1>5. StoreOK' /\ faults' \in 0..MaxFaults
  BY <1>2, <1>4, IInvStore, PutDateKeepsStore, NoWriteKeepsStore, FaultIsBounded
<1>6. CASE PutDate(row) /\ Goto(next, newJob)
  <2>1. \A r \in dateRows' : r.at <= newJob.at
    <3>1. newJob.at \in Nat
      BY <1>3 DEF Job
    <3> QED
      BY <1>1, <1>2, <1>3, <1>6, <3>1 DEF PutDate
  <2> QED
    BY <1>1, <1>3, <1>4, <1>5, <1>6, <2>1, GoingOnKeepsIInv DEF ImportSteps, world
<1>7. CASE Return("error")
  BY <1>4, <1>5, <1>7, ErrorKeepsIInv
<1> QED
  BY <1>4, <1>6, <1>7

\* What every step at a file starts from.
LEMMA FileStep ==
    ASSUME IInv, pc \in {"file", "load", "fileDone", "failFile"}
    PROVE  /\ job \in Job /\ clock \in Nat /\ Current \in Files
           /\ job.target \ job.done # {}
           /\ \A r \in dateRows : r.at <= job.at
           /\ content[Current].rows \in Nat
<1>1. job.target \ job.done # {} /\ \A r \in dateRows : r.at <= job.at
  BY DEF IInv, Pending, JobIsNewest, Importing, ImportSteps
<1>2. Current \in Files
  BY <1>1, CurrentIsFile
<1> QED
  BY <1>1, <1>2, ContentsAssumption DEF IInv, TypeOK

LEMMA FileBeginKeepsIInv ==
    ASSUME IInv, FileBegin
    PROVE  IInv'
<1> DEFINE at     == AfterLatest(fileRows[Current], clock)
           row    == [status |-> "importing", rows |-> 0, at |-> at]
           newJob == [job EXCEPT !.fileAt = at, !.loaded = 0]
<1>1. /\ job \in Job /\ clock \in Nat /\ Current \in Files
      /\ job.target \ job.done # {}
      /\ \A r \in dateRows : r.at <= job.at
  BY FileStep DEF FileBegin
<1>2. at \in Nat
  <2>1. Versioned(fileRows[Current]) /\ HasLatest(fileRows[Current])
    BY <1>1 DEF IInv, TypeOK, Ordered, Versioned, FileRow
  <2> QED
    BY <1>1, <2>1, AfterLatestIsLater
<1> HIDE DEF at
<1>3. row \in FileRow
  BY <1>2 DEF FileRow, Statuses
<1>4. /\ newJob \in Job /\ newJob.at = job.at
      /\ newJob.target = job.target /\ newJob.done = job.done
  BY <1>1, <1>2 DEF Job
<1> HIDE DEF row, newJob
<1>5. /\ PutFile(Current, row) \/ UNCHANGED store
      /\ Fault \/ UNCHANGED faults
      /\ Goto("load", newJob) \/ Return("error")
      /\ UNCHANGED <<world, attempts>>
  BY DEF FileBegin, Statement, at, row, newJob
<1>6. StoreOK' /\ dateRows' = dateRows /\ faults' \in 0..MaxFaults
  BY <1>1, <1>3, <1>5, IInvStore, PutFileKeepsStore, NoWriteKeepsStore, FaultIsBounded
     DEF PutFile, store
<1>7. CASE Goto("load", newJob)
  BY <1>1, <1>4, <1>5, <1>6, <1>7, GoingOnKeepsIInv DEF ImportSteps, world
<1>8. CASE Return("error")
  BY <1>5, <1>6, <1>8, ErrorKeepsIInv
<1> QED
  BY <1>5, <1>7, <1>8

LEMMA LoadKeepsIInv ==
    ASSUME IInv, LoadBatch \/ LoadError \/ LoadEnd
    PROVE  IInv'
<1> DEFINE newJob == [job EXCEPT !.loaded = @ + 1]
<1>1. /\ job \in Job /\ clock \in Nat /\ Current \in Files
      /\ job.target \ job.done # {}
      /\ \A r \in dateRows : r.at <= job.at
  BY FileStep DEF LoadBatch, LoadError, LoadEnd
<1>2. /\ newJob \in Job /\ newJob.at = job.at
      /\ newJob.target = job.target /\ newJob.done = job.done
  BY <1>1 DEF Job
<1> HIDE DEF newJob
<1>3. /\ (\E reached \in SUBSET Tables : AddBatch(Current, reached)) \/ UNCHANGED store
      /\ Fault \/ UNCHANGED faults
      /\ \/ Goto("load", newJob)
         \/ Goto("failFile", job)
         \/ Goto("fileDone", job)
      /\ UNCHANGED <<world, attempts>>
  BY DEF LoadBatch, LoadError, LoadEnd, newJob
<1>4. StoreOK' /\ dateRows' = dateRows /\ faults' \in 0..MaxFaults
  BY <1>1, <1>3, IInvStore, AddBatchKeepsStore, NoWriteKeepsStore, FaultIsBounded
     DEF AddBatch, store
<1>5. CASE Goto("load", newJob)
  BY <1>1, <1>2, <1>3, <1>4, <1>5, GoingOnKeepsIInv DEF ImportSteps, world
<1>6. CASE Goto("failFile", job)
  BY <1>1, <1>3, <1>4, <1>6, GoingOnKeepsIInv DEF ImportSteps, world
<1>7. CASE Goto("fileDone", job)
  BY <1>1, <1>3, <1>4, <1>7, GoingOnKeepsIInv DEF ImportSteps, world
<1> QED
  BY <1>3, <1>5, <1>6, <1>7

LEMMA FileDoneKeepsIInv ==
    ASSUME IInv, FileDone
    PROVE  IInv'
<1> DEFINE at     == After(job.fileAt, clock)
           rows   == job.loaded
           noisy  == rows = 0 /\ ~content[Current].blank
           row    == [status |-> IF rows = 0 THEN "no_data" ELSE "ready",
                      rows |-> rows, at |-> at]
           newJob == [job EXCEPT !.done = @ \union {Current},
                                 !.rows = @ + rows,
                                 !.noise = IF noisy
                                           THEN @ \union {[file |-> Current, at |-> at]}
                                           ELSE @]
<1>1. /\ job \in Job /\ clock \in Nat /\ Current \in Files
      /\ \A r \in dateRows : r.at <= job.at
  BY FileStep DEF FileDone
<1>2. at \in Nat /\ rows \in Nat
  BY <1>1, AfterIsLater DEF Job
<1> HIDE DEF at, noisy
<1>3. row \in FileRow
  BY <1>2 DEF FileRow, Statuses
<1>4. newJob \in Job /\ newJob.at = job.at
  <2> DEFINE done  == job.done \union {Current}
             sum   == job.rows + rows
             noise == IF noisy THEN job.noise \union {[file |-> Current, at |-> at]}
                         ELSE job.noise
  <2>1. done \in SUBSET Files /\ sum \in Nat /\ noise \in SUBSET [file : Files, at : Nat]
    BY <1>1, <1>2 DEF Job
  <2>2. newJob = [job EXCEPT !.done = done, !.rows = sum, !.noise = noise]
    OBVIOUS
  <2> HIDE DEF done, sum, noise, newJob
  <2> QED
    BY <1>1, <2>1, <2>2 DEF Job
<1> HIDE DEF row, newJob
<1>5. /\ PutFile(Current, row) \/ UNCHANGED store
      /\ Fault \/ UNCHANGED faults
      /\ Goto("fileProgress", newJob) \/ Return("error")
      /\ UNCHANGED <<world, attempts>>
  BY DEF FileDone, Statement, at, noisy, row, newJob
<1>6. StoreOK' /\ dateRows' = dateRows /\ faults' \in 0..MaxFaults
  BY <1>1, <1>3, <1>5, IInvStore, PutFileKeepsStore, NoWriteKeepsStore, FaultIsBounded
     DEF PutFile, store
<1>7. CASE Goto("fileProgress", newJob)
  BY <1>1, <1>4, <1>5, <1>6, <1>7, GoingOnKeepsIInv DEF ImportSteps, world
<1>8. CASE Return("error")
  BY <1>5, <1>6, <1>8, ErrorKeepsIInv
<1> QED
  BY <1>5, <1>7, <1>8

\* A terminal row of the date, as Finish and FailDate write it.
LEMMA TerminalStep ==
    ASSUME IInv, Importing, NEW status \in Done \union {"failed"},
           NEW total \in Nat, NEW rows \in Nat, NEW outcome \in {"ok", "failed"},
           status \in IF outcome = "ok" THEN Done ELSE {"failed"},
           Statement(PutDate([status |-> status, total |-> total,
                              done |-> Cardinality(job.done), rows |-> rows,
                              at |-> After(job.at, clock)]),
                     Return(outcome), Return("error")),
           UNCHANGED <<world, attempts>>
    PROVE  IInv'
<1> DEFINE row == [status |-> status, total |-> total, done |-> Cardinality(job.done),
                   rows |-> rows, at |-> After(job.at, clock)]
<1>1. After(job.at, clock) \in Nat /\ job.at < After(job.at, clock)
  BY AfterIsLater DEF IInv, TypeOK, Job
<1>2. Cardinality(job.done) \in Nat
  BY FilesAreOrdered DEF IInv, TypeOK, Job
<1>3. row \in DateRow /\ job.at < row.at /\ row.status = status
  BY <1>1, <1>2 DEF DateRow, Statuses, Done
<1> HIDE DEF row
<1>4. /\ PutDate(row) \/ UNCHANGED store
      /\ Fault \/ UNCHANGED faults
      /\ (PutDate(row) /\ Return(outcome)) \/ Return("error")
  BY DEF Statement, row
<1>5. StoreOK' /\ faults' \in 0..MaxFaults
  BY <1>3, <1>4, IInvStore, PutDateKeepsStore, NoWriteKeepsStore, FaultIsBounded
<1>6. CASE PutDate(row) /\ Return(outcome)
  BY <1>3, <1>5, <1>6, OutcomeKeepsIInv
<1>7. CASE Return("error")
  BY <1>5, <1>7, ErrorKeepsIInv
<1> QED
  BY <1>4, <1>6, <1>7

LEMMA FinishKeepsIInv ==
    ASSUME IInv, Finish
    PROVE  IInv'
<1>1. Importing /\ Cardinality(job.target) \in Nat /\ job.rows \in Nat
  BY FilesAreOrdered DEF Finish, Importing, ImportSteps, IInv, TypeOK, Job
<1> DEFINE status == IF job.rows = 0 THEN "no_data" ELSE "ready"
           total  == Cardinality(job.target)
           rows   == job.rows
<1>2. status \in Done
  BY DEF Done
<1>3. /\ Statement(PutDate([status |-> status, total |-> total,
                            done |-> Cardinality(job.done), rows |-> rows,
                            at |-> After(job.at, clock)]),
                   Return("ok"), Return("error"))
      /\ UNCHANGED <<world, attempts>>
  BY DEF Finish
<1> HIDE DEF status, total, rows
<1>4. total \in Nat /\ rows \in Nat
  BY <1>1 DEF total, rows
<1> QED
  BY <1>1, <1>2, <1>3, <1>4, TerminalStep

LEMMA FailDateKeepsIInv ==
    ASSUME IInv, FailDate
    PROVE  IInv'
<1>1. Importing
  BY DEF FailDate, Importing, ImportSteps
<1>2. /\ Statement(PutDate([status |-> "failed", total |-> 0,
                            done |-> Cardinality(job.done), rows |-> 0,
                            at |-> After(job.at, clock)]),
                   Return("failed"), Return("error"))
      /\ UNCHANGED <<world, attempts>>
  BY DEF FailDate
<1> QED
  BY <1>1, <1>2, TerminalStep

LEMMA FinishNoiseKeepsIInv ==
    ASSUME IInv, FinishNoise
    PROVE  IInv'
<1>1. /\ job \in Job /\ clock \in Nat /\ faults \in 0..MaxFaults
      /\ job.noise # {}
      /\ \A r \in dateRows : r.at <= job.at
      /\ UNCHANGED <<world, store, faults, attempts>>
      /\ Goto("failUnrecognized", job)
  BY DEF FinishNoise, IInv, TypeOK, JobIsNewest, Importing, ImportSteps
<1>2. StoreOK' /\ dateRows' = dateRows
  BY <1>1, IInvStore, NoWriteKeepsStore DEF store
<1> QED
  BY <1>1, <1>2, GoingOnKeepsIInv DEF ImportSteps, world

LEMMA FailFileKeepsIInv ==
    ASSUME IInv, FailFile
    PROVE  IInv'
<1> DEFINE row == [status |-> "failed", rows |-> 0, at |-> After(job.fileAt, clock)]
<1>1. /\ job \in Job /\ clock \in Nat /\ Current \in Files
      /\ \A r \in dateRows : r.at <= job.at
  BY FileStep DEF FailFile
<1>2. row \in FileRow
  BY <1>1, AfterIsLater DEF FileRow, Statuses, Job
<1> HIDE DEF row
<1>3. /\ PutFile(Current, row) \/ UNCHANGED store
      /\ Fault \/ UNCHANGED faults
      /\ Goto("failDate", job) \/ Return("error")
      /\ UNCHANGED <<world, attempts>>
  BY DEF FailFile, PutFailedFile, Statement, row
<1>4. StoreOK' /\ dateRows' = dateRows /\ faults' \in 0..MaxFaults
  BY <1>1, <1>2, <1>3, IInvStore, PutFileKeepsStore, NoWriteKeepsStore, FaultIsBounded
     DEF PutFile, store
<1>5. CASE Goto("failDate", job)
  BY <1>1, <1>3, <1>4, <1>5, GoingOnKeepsIInv DEF ImportSteps, world
<1>6. CASE Return("error")
  BY <1>3, <1>4, <1>6, ErrorKeepsIInv
<1> QED
  BY <1>3, <1>5, <1>6

\* Of the unrecognised archives, one comes first.
LEMMA FirstNoiseIsNoise ==
    ASSUME IInv, job.noise # {}
    PROVE  FirstNoise \in job.noise
<1> DEFINE files == {v.file : v \in job.noise}
<1>1. \A v \in job.noise : v.file \in Files /\ v.file \in Nat
  BY FilesAssumption DEF IInv, TypeOK, Job
<1>2. files \in SUBSET Files /\ files \in SUBSET Nat /\ files # {}
  BY <1>1
<1>3. Min(files) \in files /\ \A n \in files : Min(files) <= n
  <2> HIDE DEF files
  <2>1. \E m \in files : \A n \in files : m <= n
    BY <1>2, LeastMember
  <2> QED
    BY <2>1 DEF Min
<1>4. PICK u \in job.noise : u.file = Min(files)
  BY <1>3
<1>5. \A v \in job.noise : u.file <= v.file
  BY <1>3, <1>4
<1> QED
  BY <1>5 DEF FirstNoise

LEMMA FailUnrecognizedKeepsIInv ==
    ASSUME IInv, FailUnrecognized
    PROVE  IInv'
<1> DEFINE u      == FirstNoise
           rest   == job.noise \ {u}
           row    == [status |-> "failed", rows |-> 0, at |-> After(u.at, clock)]
           newJob == [job EXCEPT !.noise = rest]
<1>1. /\ job \in Job /\ clock \in Nat /\ u \in job.noise
      /\ \A r \in dateRows : r.at <= job.at
  BY FirstNoiseIsNoise
     DEF FailUnrecognized, IInv, TypeOK, Pending, JobIsNewest, Importing, ImportSteps
<1>2. u.file \in Files /\ u.at \in Nat
  BY <1>1 DEF Job
<1> HIDE DEF u
<1>3. row \in FileRow
  BY <1>1, <1>2, AfterIsLater DEF FileRow, Statuses
<1>4. newJob \in Job /\ newJob.at = job.at /\ newJob.noise = rest
  BY <1>1 DEF Job
<1> HIDE DEF row, newJob, rest
<1>5. /\ PutFile(u.file, row) \/ UNCHANGED store
      /\ Fault \/ UNCHANGED faults
      /\ \/ rest = {} /\ Goto("failDate", newJob)
         \/ rest # {} /\ Goto("failUnrecognized", newJob)
         \/ Return("error")
      /\ UNCHANGED <<world, attempts>>
  BY DEF FailUnrecognized, PutFailedFile, Statement, u, row, rest, newJob
<1>6. StoreOK' /\ dateRows' = dateRows /\ faults' \in 0..MaxFaults
  BY <1>2, <1>3, <1>5, IInvStore, PutFileKeepsStore, NoWriteKeepsStore, FaultIsBounded
     DEF PutFile, store
<1>7. CASE rest = {} /\ Goto("failDate", newJob)
  BY <1>1, <1>4, <1>5, <1>6, <1>7, GoingOnKeepsIInv DEF ImportSteps, world
<1>8. CASE rest # {} /\ Goto("failUnrecognized", newJob)
  BY <1>1, <1>4, <1>5, <1>6, <1>8, GoingOnKeepsIInv DEF ImportSteps, world
<1>9. CASE Return("error")
  BY <1>5, <1>6, <1>9, ErrorKeepsIInv
<1> QED
  BY <1>5, <1>7, <1>8, <1>9

-----------------------------------------------------------------------------
(* The environment and start-up. *)

LEMMA EnvironmentKeepsIInv ==
    ASSUME IInv, Tick \/ ArchiveAppears \/ Expire \/ Crash \/ Restart
    PROVE  IInv'
<1>1. NoJob \in Job
  BY TablesAssumption DEF NoJob, Job, Tables
<1>2. UNCHANGED store /\ attempts' = attempts /\ content' = content
  BY DEF Tick, ArchiveAppears, Expire, Crash, Restart, world
<1>3. StoreOK' /\ faults' \in 0..MaxFaults
  BY <1>2, IInvStore, NoWriteKeepsStore, FaultIsBounded
     DEF Tick, ArchiveAppears, Expire, Crash, Restart
<1>4. clock' \in Nat /\ archives' \in SUBSET Files
  BY DEF IInv, TypeOK, Tick, ArchiveAppears, Expire, Crash, Restart, world
<1>5. CASE UNCHANGED <<pc, job, result>> /\ expired' \in BOOLEAN
  <2>1. TypeOK'
    BY <1>2, <1>3, <1>4, <1>5 DEF IInv, TypeOK, StoreOK
  <2> QED
    BY <1>2, <1>3, <1>5, <2>1
       DEF IInv, StoreOK, Pending, Quiet, JobIsNewest, Importing, TerminalWins, store
<1>6. CASE /\ pc' \in {"down", "repairFull"} /\ job' \in Job
           /\ result' = "none" /\ expired' \in BOOLEAN
  <2>1. TypeOK'
    BY <1>2, <1>3, <1>4, <1>6 DEF IInv, TypeOK, StoreOK, RepairSteps
  <2> QED
    BY <1>3, <1>6, <2>1
       DEF IInv, StoreOK, Pending, Quiet, JobIsNewest, Importing, ImportSteps, TerminalWins
<1>7. Quiet /\ job \in Job /\ expired \in BOOLEAN
  BY DEF IInv, TypeOK
<1> QED
  BY <1>1, <1>5, <1>6, <1>7
     DEF Tick, ArchiveAppears, Expire, Crash, Restart, Quiet, RepairSteps

LEMMA RepairKeepsIInv ==
    ASSUME IInv, RepairFull \/ RepairEmpty \/ RepairFiles
    PROVE  IInv'
<1>1. /\ pc \in RepairSteps
      /\ Fault \/ UNCHANGED faults
      /\ pc' \in {"repairEmpty", "repairFiles", "idle", "down"}
      /\ UNCHANGED <<world, job, expired, result, attempts>>
  BY DEF RepairFull, RepairEmpty, RepairFiles, Repair, Statement, RepairSteps
<1>2. \/ UNCHANGED store
      \/ dateRows' \in FinishedFull(dateRows, clock) /\ UNCHANGED <<tables, fileRows>>
      \/ dateRows' = ClearEmpty(dateRows) /\ UNCHANGED <<tables, fileRows>>
      \/ /\ \E cleared \in SUBSET Files :
              /\ \A f \in cleared : MayClearFile(fileRows[f])
              /\ fileRows' = [f \in Files |-> IF f \in cleared
                                              THEN ClearFile(fileRows[f])
                                              ELSE fileRows[f]]
         /\ UNCHANGED <<tables, dateRows>>
  BY DEF RepairFull, RepairEmpty, RepairFiles, Repair, Statement
<1>3. clock \in Nat
  BY DEF IInv, TypeOK
<1>4. StoreOK'
  BY <1>2, <1>3, IInvStore, NoWriteKeepsStore, FinishFullKeepsStore,
     ClearEmptyKeepsStore, ClearFilesKeepsStore
<1>5. faults' \in 0..MaxFaults
  BY <1>1, FaultIsBounded
<1>6. TypeOK'
  BY <1>1, <1>4, <1>5 DEF IInv, TypeOK, StoreOK, world, RepairSteps
<1>7. result' = "none"
  BY <1>1 DEF IInv, Quiet
<1> QED
  BY <1>1, <1>4, <1>6, <1>7
     DEF IInv, StoreOK, Pending, Quiet, JobIsNewest, Importing, ImportSteps, TerminalWins

-----------------------------------------------------------------------------

LEMMA NextKeepsIInv == IInv /\ [Next]_vars => IInv'
<1> SUFFICES ASSUME IInv, [Next]_vars
             PROVE  IInv'
  OBVIOUS
<1>1. CASE Sync
  BY <1>1, BeginKeepsIInv DEF Sync
<1>2. CASE Request
  BY <1>2, BeginKeepsIInv DEF Request
<1>3. CASE Drop
  BY <1>3, DropKeepsIInv
<1>4. CASE Start
  BY <1>4, StartKeepsIInv
<1>5. CASE Progress("progress", "file")
  <2>1. job.target \ job.done # {}
    BY <1>5 DEF IInv, Pending, Progress
  <2> QED
    BY <1>5, <2>1, ProgressKeepsIInv
<1>6. CASE Progress("fileProgress",
                    IF job.target \subseteq job.done THEN "finish" ELSE "progress")
  BY <1>6, ProgressKeepsIInv
<1>7. CASE FileBegin
  BY <1>7, FileBeginKeepsIInv
<1>8. CASE LoadBatch \/ LoadError \/ LoadEnd
  BY <1>8, LoadKeepsIInv
<1>9. CASE FileDone
  BY <1>9, FileDoneKeepsIInv
<1>10. CASE Finish
  BY <1>10, FinishKeepsIInv
<1>11. CASE FinishNoise
  BY <1>11, FinishNoiseKeepsIInv
<1>12. CASE FailFile
  BY <1>12, FailFileKeepsIInv
<1>13. CASE FailUnrecognized
  BY <1>13, FailUnrecognizedKeepsIInv
<1>14. CASE FailDate
  BY <1>14, FailDateKeepsIInv
<1>15. CASE RepairFull \/ RepairEmpty \/ RepairFiles
  BY <1>15, RepairKeepsIInv
<1>16. CASE Tick \/ ArchiveAppears \/ Expire \/ Crash \/ Restart
  BY <1>16, EnvironmentKeepsIInv
<1>17. CASE UNCHANGED vars
  BY <1>17 DEF vars, world, store, IInv, TypeOK, Ordered, Pending, Quiet, JobIsNewest,
               Importing, TerminalWins
<1> QED
  BY <1>1, <1>2, <1>3, <1>4, <1>5, <1>6, <1>7, <1>8, <1>9, <1>10, <1>11, <1>12, <1>13,
     <1>14, <1>15, <1>16, <1>17 DEF Next, ImportStep, StartUp

THEOREM Invariance == Spec => []IInv
<1>1. Init => IInv
  BY InitEstablishesIInv
<1>2. IInv /\ [Next]_vars => IInv'
  BY NextKeepsIInv
<1> QED
  BY <1>1, <1>2, PTL DEF Spec

\* Every variable always has its type: whatever the archives hold, the number
\* of tables and the bounds are, no step of ImportDate, of start-up or of the
\* environment leaves the state space of the model.
THEOREM TypeCorrectness == Spec => []TypeOK
<1>1. IInv => TypeOK
  BY DEF IInv
<1> QED
  BY <1>1, Invariance, PTL

\* When ImportDate returns with its outcome written, that row is strictly
\* newer than every other row of the date (terminalStateTimestamp and the
\* times it is given), for any archives, tables and bounds.
THEOREM OutcomeIsNewest == Spec => []TerminalWins
<1>1. IInv => TerminalWins
  BY DEF IInv
<1> QED
  BY <1>1, Invariance, PTL

-----------------------------------------------------------------------------
(* Sums over the archives.  The sum of the library is a function chosen to *)
(* satisfy a recursive equation over the subsets of Files.                 *)

Pick(s) == CHOOSE x \in s : TRUE

\* u is the sum of g over each of the sets of archives in D.
Sums(g, u, D) ==
    u = [s \in D |-> IF s = {} THEN 0 ELSE g[Pick(s)] + u[s \ {Pick(s)}]]

Total(g) == CHOOSE u : Sums(g, u, SUBSET Files)

\* What a table holds, now and after a step, is such a sum.
LEMMA InTableIsTotal ==
    ASSUME NEW t \in Tables
    PROVE  /\ InTable(t) = Total(tables[t])[Files]
           /\ InTable(t)' = Total(tables'[t])[Files]
BY Zenon DEF InTable, MapThenSumSet, MapThenFoldSet, Total, Sums, Pick

\* Of a set of sets of archives one is minimal.
LEMMA MinimalSet ==
    ASSUME NEW Bad \in SUBSET (SUBSET Files), Bad # {}
    PROVE  \E s \in Bad : \A x \in s : s \ {x} \notin Bad
<1> DEFINE Order == StrictSubsetOrdering(Files)
<1>1. IsWellFoundedOn(Order, FiniteSubsetsOf(Files))
  BY FS_StrictSubsetOrderingWellFounded
<1>2. Bad \subseteq FiniteSubsetsOf(Files)
  BY FilesAssumption, FS_Subset DEF FiniteSubsetsOf
<1> HIDE DEF Order
<1>3. PICK s \in Bad : \A r \in Bad : ~(<<r, s>> \in Order)
  BY <1>1, <1>2, WFMin
<1>4. ASSUME NEW x \in s, s \ {x} \in Bad
      PROVE  FALSE
  <2>1. <<s \ {x}, s>> \in Order
    BY Zenon DEF Order, StrictSubsetOrdering
  <2> QED
    BY <1>3, <1>4, <2>1
<1> QED
  BY <1>3, <1>4

LEMMA PickIsMember ==
    ASSUME NEW s \in SUBSET Files, s # {}
    PROVE  Pick(s) \in s /\ Pick(s) \in Files /\ s \ {Pick(s)} \in SUBSET Files
<1>1. Pick(s) \in s
  BY DEF Pick
<1> QED
  BY <1>1

\* The sets of at most n archives.
Small(n) == {s \in SUBSET Files : Cardinality(s) <= n}

LEMMA SmallWithoutOne ==
    ASSUME NEW n \in Nat, NEW s \in Small(n + 1), s # {}
    PROVE  s \ {Pick(s)} \in Small(n)
<1>1. s \in SUBSET Files /\ Cardinality(s) <= n + 1
  BY DEF Small
<1>2. IsFiniteSet(s) /\ Cardinality(s) \in Nat
  BY <1>1, FilesAssumption, FS_Subset, FS_CardinalityType
<1>3. Pick(s) \in s
  BY <1>1, PickIsMember
<1>4. Cardinality(s \ {Pick(s)}) = Cardinality(s) - 1
  BY <1>2, <1>3, FS_RemoveElement
<1> QED
  BY <1>1, <1>2, <1>4 DEF Small

LEMMA SumsExist ==
    ASSUME NEW g \in [Files -> Nat]
    PROVE  \A n \in Nat : \E u : Sums(g, u, Small(n))
<1> DEFINE Bad == {n \in Nat : ~\E u : Sums(g, u, Small(n))}
<1> SUFFICES ASSUME Bad # {}
             PROVE  FALSE
  OBVIOUS
<1>1. PICK n \in Bad : \A m \in Bad : n <= m
  <2>1. Bad \in SUBSET Nat
    OBVIOUS
  <2> HIDE DEF Bad
  <2> QED
    BY <2>1, LeastMember
<1>2. n # 0
  <2> DEFINE u == [s \in Small(0) |-> 0]
  <2>1. ASSUME NEW s \in Small(0)
        PROVE  s = {}
    <3>1. IsFiniteSet(s) /\ Cardinality(s) \in Nat /\ Cardinality(s) <= 0
      BY FilesAssumption, FS_Subset, FS_CardinalityType DEF Small
    <3>2. Cardinality(s) = 0
      BY <3>1
    <3> QED
      BY <3>1, <3>2, FS_EmptySet
  <2>2. Sums(g, u, Small(0))
    BY <2>1, Zenon DEF Sums
  <2> QED
    BY <1>1, <2>2
<1>3. PICK m \in Nat : n = m + 1 /\ m \notin Bad
  <2>1. n \in Nat /\ n - 1 \in Nat /\ n = (n - 1) + 1 /\ ~(n <= n - 1)
    BY <1>1, <1>2
  <2> HIDE DEF Bad
  <2> QED
    BY <1>1, <2>1
<1>4. PICK u : Sums(g, u, Small(m))
  BY <1>3
<1> DEFINE next(s) == g[Pick(s)] + u[s \ {Pick(s)}]
           v == [s \in Small(m + 1) |-> IF s \in Small(m) THEN u[s] ELSE next(s)]
<1>5. Small(m) \subseteq Small(m + 1) /\ {} \in Small(m)
  <2>1. \A s \in Small(m) : Cardinality(s) \in Nat /\ Cardinality(s) <= m + 1
    <3> TAKE s \in Small(m)
    <3>1. s \in SUBSET Files /\ Cardinality(s) <= m
      BY DEF Small
    <3>2. Cardinality(s) \in Nat
      BY <3>1, FilesAreOrdered
    <3> QED
      BY <3>1, <3>2
  <2>2. {} \in Small(m)
    BY FS_EmptySet DEF Small
  <2> QED
    BY <2>1, <2>2 DEF Small
<1>6. ASSUME NEW s \in Small(m + 1)
      PROVE  v[s] = IF s = {} THEN 0 ELSE g[Pick(s)] + v[s \ {Pick(s)}]
  <2>1. CASE s = {}
    <3>1. v[s] = u[s] /\ s \in Small(m)
      BY <1>5, <2>1
    <3>2. u[s] = 0
      BY <1>4, <2>1, <3>1 DEF Sums
    <3> QED
      BY <2>1, <3>1, <3>2
  <2>2. CASE s # {}
    <3>1. s \ {Pick(s)} \in Small(m)
      BY <1>3, <2>2, SmallWithoutOne
    <3>2. v[s \ {Pick(s)}] = u[s \ {Pick(s)}]
      BY <1>5, <3>1
    <3>3. s \in Small(m) => u[s] = next(s)
      BY <1>4, <2>2 DEF Sums
    <3>4. v[s] = next(s)
      BY <3>3
    <3> QED
      BY <2>2, <3>2, <3>4
  <2> QED
    BY <2>1, <2>2
<1>7. Sums(g, v, Small(m + 1))
  BY <1>6 DEF Sums
<1> QED
  BY <1>1, <1>3, <1>7

\* The sum of the library adds up as its definition says.
LEMMA TotalAdds ==
    ASSUME NEW g \in [Files -> Nat]
    PROVE  /\ Total(g)[{}] = 0
           /\ \A s \in SUBSET Files :
                /\ Total(g)[s] \in Nat
                /\ s # {} => Total(g)[s] = g[Pick(s)] + Total(g)[s \ {Pick(s)}]
<1> DEFINE u == Total(g)
<1>1. Cardinality(Files) \in Nat /\ SUBSET Files = Small(Cardinality(Files))
  <2>1. Cardinality(Files) \in Nat
    BY FilesAssumption, FS_CardinalityType
  <2>2. \A s \in SUBSET Files : Cardinality(s) <= Cardinality(Files)
    BY FilesAssumption, FS_Subset
  <2> QED
    BY <2>1, <2>2 DEF Small
<1>2. \E f : Sums(g, f, SUBSET Files)
  BY <1>1, SumsExist
<1>3. Sums(g, u, SUBSET Files)
  BY <1>2, Zenon DEF Total
<1> HIDE DEF u
<1>4. /\ u[{}] = 0
      /\ \A s \in SUBSET Files : s # {} => u[s] = g[Pick(s)] + u[s \ {Pick(s)}]
  BY <1>3, Zenon DEF Sums
<1>5. \A s \in SUBSET Files : u[s] \in Nat
  <2> DEFINE Bad == {s \in SUBSET Files : u[s] \notin Nat}
  <2> SUFFICES ASSUME Bad # {}
               PROVE  FALSE
    OBVIOUS
  <2>1. PICK s \in Bad : \A x \in s : s \ {x} \notin Bad
    <3>1. Bad \in SUBSET (SUBSET Files)
      OBVIOUS
    <3> HIDE DEF Bad
    <3> QED
      BY <3>1, MinimalSet
  <2>2. s # {} /\ s \in SUBSET Files
    <3>1. s \in SUBSET Files /\ u[s] \notin Nat
      BY <2>1
    <3>2. u[{}] \in Nat
      BY <1>4
    <3> QED
      BY <3>1, <3>2
  <2>3. Pick(s) \in s /\ Pick(s) \in Files /\ s \ {Pick(s)} \in SUBSET Files
    BY <2>2, PickIsMember
  <2>4. g[Pick(s)] \in Nat /\ u[s \ {Pick(s)}] \in Nat
    BY <2>1, <2>3
  <2>5. u[s] = g[Pick(s)] + u[s \ {Pick(s)}]
    BY <1>4, <2>2
  <2>6. u[s] \in Nat
    BY <2>4, <2>5
  <2> QED
    BY <2>1, <2>6
<1> QED
  BY <1>4, <1>5 DEF u

\* Archives of which a table has nothing sum up to nothing.
LEMMA TotalOfNothing ==
    ASSUME NEW g \in [Files -> Nat], \A f \in Files : g[f] = 0
    PROVE  Total(g)[Files] = 0
<1> DEFINE u == Total(g)
           Bad == {s \in SUBSET Files : u[s] # 0}
<1> HIDE DEF u
<1>1. Bad = {}
  <2> SUFFICES ASSUME Bad # {}
               PROVE  FALSE
    OBVIOUS
  <2>1. PICK s \in Bad : \A x \in s : s \ {x} \notin Bad
    <3>1. Bad \in SUBSET (SUBSET Files)
      OBVIOUS
    <3> HIDE DEF Bad
    <3> QED
      BY <3>1, MinimalSet
  <2>2. s # {} /\ s \in SUBSET Files
    BY <2>1, TotalAdds DEF u
  <2>3. Pick(s) \in s /\ Pick(s) \in Files /\ s \ {Pick(s)} \in SUBSET Files
    BY <2>2, PickIsMember
  <2>4. u[s \ {Pick(s)}] = 0 /\ g[Pick(s)] = 0
    BY <2>1, <2>3
  <2>5. u[s] = g[Pick(s)] + u[s \ {Pick(s)}]
    BY <2>2, TotalAdds DEF u
  <2> QED
    BY <2>1, <2>4, <2>5
<1> QED
  BY <1>1 DEF u

\* One more batch of one archive is one more in the sum.
LEMMA TotalOfOneMore ==
    ASSUME NEW g \in [Files -> Nat], NEW f \in Files
    PROVE  Total([g EXCEPT ![f] = @ + 1])[Files] = Total(g)[Files] + 1
<1> DEFINE h == [g EXCEPT ![f] = @ + 1]
           u == Total(g)
           v == Total(h)
           more(s) == IF f \in s THEN 1 ELSE 0
           Bad == {s \in SUBSET Files : v[s] # u[s] + more(s)}
<1>1. h \in [Files -> Nat]
  OBVIOUS
<1>2. \A x \in Files : h[x] = g[x] + (IF x = f THEN 1 ELSE 0)
  OBVIOUS
<1> HIDE DEF h
<1>3. /\ u[{}] = 0 /\ v[{}] = 0
      /\ \A s \in SUBSET Files :
           /\ u[s] \in Nat /\ v[s] \in Nat
           /\ s # {} => /\ u[s] = g[Pick(s)] + u[s \ {Pick(s)}]
                        /\ v[s] = h[Pick(s)] + v[s \ {Pick(s)}]
  BY <1>1, TotalAdds
<1> HIDE DEF u, v
<1>4. Bad = {}
  <2> SUFFICES ASSUME Bad # {}
               PROVE  FALSE
    OBVIOUS
  <2>1. PICK s \in Bad : \A x \in s : s \ {x} \notin Bad
    <3>1. Bad \in SUBSET (SUBSET Files)
      OBVIOUS
    <3> HIDE DEF Bad
    <3> QED
      BY <3>1, MinimalSet
  <2>2. s # {} /\ s \in SUBSET Files
    <3>1. s \in SUBSET Files /\ v[s] # u[s] + more(s)
      BY <2>1
    <3>2. s = {} => v[s] = 0 /\ u[s] = 0 /\ more(s) = 0
      BY <1>3
    <3> QED
      BY <3>1, <3>2
  <2> DEFINE x == Pick(s)
             r == s \ {x}
  <2>3. x \in s /\ x \in Files /\ r \in SUBSET Files
    BY <2>2, PickIsMember
  <2>4. u[s] = g[x] + u[r] /\ v[s] = h[x] + v[r]
    BY <1>3, <2>2
  <2> HIDE DEF x
  <2>5. v[r] = u[r] + more(r)
    BY <2>1, <2>3
  <2>6. u[r] \in Nat /\ v[r] \in Nat /\ g[x] \in Nat /\ h[x] \in Nat
    BY <1>1, <1>3, <2>3
  <2>7. v[s] # u[s] + more(s)
    BY <2>1
  <2>8. CASE x = f
    <3>1. more(s) = 1 /\ more(r) = 0 /\ h[x] = g[x] + 1
      BY <1>2, <2>3, <2>8
    <3> HIDE DEF more, r
    <3> QED
      BY <2>4, <2>5, <2>6, <2>7, <3>1
  <2>9. CASE x # f
    <3>1. more(s) = more(r) /\ more(r) \in Nat /\ h[x] = g[x]
      BY <1>2, <2>3, <2>6, <2>9
    <3> HIDE DEF more, r
    <3> QED
      BY <2>4, <2>5, <2>6, <2>7, <3>1
  <2> QED
    BY <2>8, <2>9
<1>5. v[Files] = u[Files] + 1
  BY <1>4
<1> QED
  BY <1>5 DEF u, v, h

-----------------------------------------------------------------------------
(* What an import that returns without an error leaves: its inductive      *)
(* invariant, from the dropped partitions to the last archive.             *)

\* The partitions are dropped and no statement has failed.
OnTrack == {"start", "progress", "file", "load", "fileDone", "fileProgress", "finish"}

AtFile == {"load", "fileDone"}

\* Archives that no import has read, nor reads, are reported without rows.
NothingAside ==
    /\ Importing => job.target \subseteq archives
    /\ \A f \in Files :
         f \notin archives \/ (Importing /\ f \notin job.target)
           => \A r \in fileRows[f] : r.rows = 0

\* The partitions dropped so far are empty.
Dropped ==
    pc = "drop" =>
        /\ job.done = {} /\ job.rows = 0
        /\ \A t \in Tables, f \in Files : t < job.table => tables[t][f] = 0

\* What this import has sent of f.
Sent(f) ==
    IF f \in job.done THEN content[f].rows
    ELSE IF pc \in AtFile /\ f = Current THEN job.loaded ELSE 0

\* Each table holds what this import has sent, and as much as it has counted.
Loaded ==
    pc \in OnTrack =>
        /\ job.done \subseteq job.target
        /\ pc = "finish" => job.done = job.target
        /\ pc = "fileDone" => job.loaded = content[Current].rows
        /\ \A t \in Tables, f \in Files : tables[t][f] = Sent(f)
        /\ \A t \in Tables :
             InTable(t) = IF pc \in AtFile THEN job.rows + job.loaded ELSE job.rows

\* The newest state of f reports its rows.
NewestReports(f) ==
    \E m \in fileRows[f] :
        m.rows = content[f].rows /\ \A r \in fileRows[f] \ {m} : r.at < m.at

\* The files done are reported, and the states of the current one are not past
\* the time that the job remembers.
Filed ==
    /\ pc \in OnTrack => \A f \in job.done : NewestReports(f)
    /\ pc \in AtFile => \A r \in fileRows[Current] : r.at <= job.fileAt

CleanInv == NothingAside /\ Dropped /\ Loaded /\ Filed /\ CleanImportIsExact

LEMMA InitEstablishesCleanInv == Init => CleanInv
<1> SUFFICES ASSUME Init
             PROVE  CleanInv
  OBVIOUS
<1>1. /\ pc = "repairFull"
      /\ \A f \in Files : fileRows[f] = {} \/ fileRows[f] = {LegacyFile}
  BY DEF Init
<1>2. \A f \in Files : \A r \in fileRows[f] : r.rows = 0
  BY <1>1 DEF LegacyFile
<1> QED
  BY <1>1, <1>2 DEF CleanInv, NothingAside, Importing, ImportSteps, Dropped, Loaded,
                    OnTrack, AtFile, Filed, CleanImportIsExact

\* No step but the last of a file writes a state with rows, and that one of an
\* archive which is there.
LEMMA AsideIsKept ==
    ASSUME NothingAside, archives \subseteq archives',
           Importing' => \/ Importing /\ job'.target = job.target
                         \/ job'.target = archives',
           \A f \in Files : \A r \in fileRows'[f] :
              \/ r \in fileRows[f] \/ r.rows = 0
              \/ Importing /\ f \in job.target /\ job'.target = job.target
    PROVE  NothingAside'
<1>1. Importing' => job'.target \subseteq archives'
  BY DEF NothingAside
<1>2. ASSUME NEW f \in Files, NEW r \in fileRows'[f],
             f \notin archives' \/ (Importing' /\ f \notin job'.target)
      PROVE  r.rows = 0
  <2>1. CASE r \in fileRows[f]
    BY <1>2, <2>1 DEF NothingAside
  <2>2. CASE Importing /\ f \in job.target /\ job'.target = job.target
    BY <1>2, <2>2 DEF NothingAside
  <2> QED
    BY <2>1, <2>2
<1> QED
  BY <1>1, <1>2 DEF NothingAside

\* Off the track nothing else is claimed.
LEMMA OffTrackKeepsCleanInv ==
    ASSUME NothingAside', pc' \notin OnTrack \union {"drop"},
           pc' # "idle" \/ result' # "ok"
    PROVE  CleanInv'
BY DEF CleanInv, Dropped, Loaded, Filed, OnTrack, AtFile, CleanImportIsExact

\* A statement of the import that fails, or ends it.
LEMMA BrokenOffKeepsCleanInv ==
    ASSUME CleanInv, Importing, UNCHANGED world,
           \/ UNCHANGED fileRows
           \/ \E f \in Files, row \in FileRow : row.rows = 0 /\ PutFile(f, row),
           fileRows \in [Files -> SUBSET FileRow],
           \/ Return("error") \/ Return("failed")
           \/ /\ job'.target = job.target
              /\ pc' \in {"failFile", "failUnrecognized", "failDate"}
    PROVE  CleanInv'
<1>1. ASSUME NEW f \in Files, NEW r \in fileRows'[f]
      PROVE  r \in fileRows[f] \/ r.rows = 0
  BY DEF PutFile
<1>2. Importing' => job'.target = job.target
  BY DEF Return, Importing, ImportSteps
<1>3. archives' = archives /\ NothingAside
  BY DEF CleanInv, world
<1>4. NothingAside'
  BY <1>1, <1>2, <1>3, AsideIsKept
<1>5. pc' \notin OnTrack \union {"drop"} /\ (pc' # "idle" \/ result' # "ok")
  BY DEF Return, OnTrack
<1> QED
  BY <1>4, <1>5, OffTrackKeepsCleanInv

\* A step on the track between two files.
LEMMA OnTrackKeepsCleanInv ==
    ASSUME CleanInv, UNCHANGED <<world, tables, fileRows>>,
           pc \in OnTrack \ AtFile, pc' \in OnTrack \ AtFile,
           job'.target = job.target, job'.done = job.done, job'.rows = job.rows,
           pc' = "finish" => job.target \subseteq job.done
    PROVE  CleanInv'
<1>1. Importing /\ Importing' /\ pc' \notin {"idle", "drop", "fileDone"} \union AtFile
  BY DEF Importing, ImportSteps, OnTrack, AtFile
<1>2. NothingAside'
  BY <1>1 DEF CleanInv, NothingAside, world
<1>3. /\ job.done \subseteq job.target
      /\ \A t \in Tables, f \in Files : tables[t][f] = Sent(f)
      /\ \A t \in Tables : InTable(t) = job.rows
      /\ \A f \in job.done : NewestReports(f)
  <2>1. pc \in OnTrack /\ pc \notin AtFile
    OBVIOUS
  <2> QED
    BY <2>1 DEF CleanInv, Loaded, Filed
<1>4. \A f \in Files : Sent(f)' = Sent(f)
  BY <1>1 DEF Sent, world
<1>5. \A t \in Tables : InTable(t)' = InTable(t)
  BY InTableIsTotal
<1>6. Loaded'
  BY <1>1, <1>3, <1>4, <1>5 DEF Loaded
<1>7. \A f \in job.done : NewestReports(f)'
  BY <1>3 DEF NewestReports, world
<1>8. Filed'
  BY <1>1, <1>7 DEF Filed
<1> QED
  BY <1>1, <1>2, <1>6, <1>8 DEF CleanInv, Dropped, CleanImportIsExact

LEMMA BeginKeepsCleanInv ==
    ASSUME IInv, CleanInv, NEW rebuild \in BOOLEAN, Begin(rebuild)
    PROVE  CleanInv'
<1> DEFINE at     == AfterLatest(dateRows, clock)
           newJob == [NoJob EXCEPT !.at = at, !.target = archives]
<1>1. /\ newJob.target = archives /\ newJob.done = {} /\ newJob.rows = 0
      /\ newJob.table = 1
  BY DEF NoJob
<1>2. /\ job' = newJob /\ result' = "none" /\ pc' \in {"drop", "failDate"}
      /\ archives' = archives /\ fileRows' = fileRows
  BY DEF Begin, world, store
<1> HIDE DEF newJob
<1>3. NothingAside'
  <2>1. job'.target = archives'
    BY <1>1, <1>2
  <2>2. NothingAside
    BY DEF CleanInv
  <2> QED
    BY <1>2, <2>1, <2>2, AsideIsKept
<1>4. Dropped'
  <2>1. \A t \in Tables : ~(t < 1)
    BY TablesAssumption DEF Tables
  <2> QED
    BY <1>1, <1>2, <2>1 DEF Dropped
<1> QED
  BY <1>2, <1>3, <1>4
     DEF CleanInv, Loaded, Filed, OnTrack, AtFile, CleanImportIsExact

\* The partitions are dropped one by one; none is left out.
LEMMA DropKeepsCleanInv ==
    ASSUME IInv, CleanInv, Drop
    PROVE  CleanInv'
<1>1. /\ pc = "drop" /\ job \in Job /\ job.table \in Tables
      /\ tables \in [Tables -> [Files -> Nat]]
      /\ fileRows \in [Files -> SUBSET FileRow]
      /\ job.done = {} /\ job.rows = 0
      /\ \A t \in Tables, f \in Files : t < job.table => tables[t][f] = 0
  BY DEF Drop, IInv, TypeOK, Job, CleanInv, Dropped
<1> DEFINE newJob == [job EXCEPT !.table = @ + 1]
<1>2. /\ fileRows' = fileRows /\ archives' = archives /\ content' = content
      /\ \/ /\ DropPartition(job.table)
            /\ \/ MorePartitions /\ Goto("drop", newJob)
               \/ ~MorePartitions /\ Goto("start", job)
         \/ Goto("failDate", job)
  BY Zenon DEF Drop, Statement, DropPartition, store
<1>3. /\ newJob.target = job.target /\ newJob.done = job.done
      /\ newJob.rows = job.rows /\ newJob.table = job.table + 1
  BY <1>1 DEF Job
<1> HIDE DEF newJob
<1>4. NothingAside'
  <2>1. Importing /\ NothingAside
    BY <1>1 DEF Importing, ImportSteps, CleanInv
  <2>2. job'.target = job.target
    BY <1>2, <1>3 DEF Goto
  <2> QED
    BY <1>2, <2>1, <2>2, AsideIsKept
<1>5. ASSUME DropPartition(job.table)
      PROVE  \A t \in Tables, f \in Files : t <= job.table => tables'[t][f] = 0
  <2> TAKE t \in Tables, f \in Files
  <2>1. tables' = [tables EXCEPT ![job.table] = [g \in Files |-> 0]]
    BY <1>5 DEF DropPartition
  <2>2. CASE t = job.table
    BY <1>1, <2>1, <2>2
  <2>3. CASE t # job.table
    <3>1. tables'[t] = tables[t]
      BY <1>1, <2>1, <2>3
    <3>2. t \in Nat /\ job.table \in Nat
      BY <1>1, TablesAssumption DEF Tables
    <3> QED
      BY <1>1, <2>3, <3>1, <3>2
  <2> QED
    BY <2>2, <2>3
<1>6. CASE DropPartition(job.table) /\ MorePartitions /\ Goto("drop", newJob)
  <2>1. pc' = "drop" /\ job' = newJob
    BY <1>6 DEF Goto
  <2>2. \A t \in Tables : t < newJob.table => t <= job.table
    BY <1>1, <1>3, TablesAssumption DEF Tables
  <2>3. Dropped'
    BY <1>1, <1>3, <1>5, <1>6, <2>1, <2>2 DEF Dropped
  <2> QED
    BY <1>4, <2>1, <2>3 DEF CleanInv, Loaded, Filed, OnTrack, AtFile, CleanImportIsExact
<1>7. CASE DropPartition(job.table) /\ ~MorePartitions /\ Goto("start", job)
  <2>1. pc' = "start" /\ job' = job
    BY <1>7 DEF Goto
  <2>2. \A t \in Tables : t <= job.table
    BY <1>1, <1>7, TablesAssumption DEF Tables, MorePartitions
  <2>3. \A t \in Tables, f \in Files : tables'[t][f] = 0
    BY <1>5, <1>7, <2>2
  <2>4. \A t \in Tables : InTable(t)' = 0
    <3> TAKE t \in Tables
    <3>1. tables'[t] \in [Files -> Nat]
      BY <1>1, <1>7 DEF DropPartition
    <3>2. Total(tables'[t])[Files] = 0
      BY <2>3, <3>1, TotalOfNothing
    <3> QED
      BY <3>2, InTableIsTotal
  <2>5. \A f \in Files : Sent(f)' = 0
    BY <1>1, <2>1 DEF Sent, AtFile
  <2>6. Loaded'
    BY <1>1, <2>1, <2>3, <2>4, <2>5 DEF Loaded, AtFile
  <2> QED
    BY <1>1, <1>4, <2>1, <2>6 DEF CleanInv, Dropped, Filed, AtFile, CleanImportIsExact
<1>8. CASE Goto("failDate", job)
  BY <1>4, <1>8, OffTrackKeepsCleanInv DEF Goto, OnTrack
<1> QED
  BY <1>2, <1>6, <1>7, <1>8

LEMMA StartKeepsCleanInv ==
    ASSUME IInv, CleanInv, Start
    PROVE  CleanInv'
<1>1. /\ pc = "start" /\ Importing /\ fileRows \in [Files -> SUBSET FileRow]
      /\ UNCHANGED <<world, tables, fileRows>>
      /\ Goto("progress", job) \/ Return("error")
  BY Zenon DEF Start, Statement, PutDate, store, Importing, ImportSteps, IInv, TypeOK
<1>2. CASE Goto("progress", job)
  BY <1>1, <1>2, OnTrackKeepsCleanInv DEF Goto, OnTrack, AtFile
<1>3. CASE Return("error")
  BY <1>1, <1>3, BrokenOffKeepsCleanInv
<1> QED
  BY <1>1, <1>2, <1>3

LEMMA ProgressKeepsCleanInv ==
    ASSUME IInv, CleanInv, NEW step \in {"progress", "fileProgress"},
           NEW next \in {"file", "progress", "finish"},
           next = "finish" => job.target \subseteq job.done,
           Progress(step, next)
    PROVE  CleanInv'
<1> DEFINE newJob == [job EXCEPT !.at = IF clock > @ THEN clock ELSE @]
<1>1. pc = step /\ Importing /\ fileRows \in [Files -> SUBSET FileRow] /\ job \in Job
  BY DEF Progress, Importing, ImportSteps, IInv, TypeOK
<1>2. /\ UNCHANGED <<world, tables, fileRows>>
      /\ Goto(next, newJob) \/ Return("error")
  BY Zenon DEF Progress, Statement, PutDate, store
<1>3. newJob.target = job.target /\ newJob.done = job.done /\ newJob.rows = job.rows
  BY <1>1 DEF Job
<1> HIDE DEF newJob
<1>4. CASE Goto(next, newJob)
  <2>1. pc' = next /\ job' = newJob
    BY <1>4 DEF Goto
  <2>2. pc \in OnTrack \ AtFile /\ pc' \in OnTrack \ AtFile
    BY <1>1, <2>1 DEF OnTrack, AtFile
  <2> QED
    BY <1>2, <1>3, <2>1, <2>2, OnTrackKeepsCleanInv
<1>5. CASE Return("error")
  BY <1>1, <1>2, <1>5, BrokenOffKeepsCleanInv
<1> QED
  BY <1>2, <1>4, <1>5

\* What the steps at a file start from.
LEMMA AtTheFile ==
    ASSUME IInv, CleanInv, pc \in {"file", "load", "fileDone"}
    PROVE  /\ job \in Job /\ clock \in Nat /\ Importing
           /\ tables \in [Tables -> [Files -> Nat]]
           /\ fileRows \in [Files -> SUBSET FileRow]
           /\ Current \in Files /\ Current \in job.target \ job.done
           /\ content[Current].rows \in Nat
           /\ job.done \subseteq job.target /\ job.target \subseteq Files
           /\ \A t \in Tables, f \in Files : tables[t][f] = Sent(f)
           /\ \A f \in job.done : NewestReports(f)
<1>1. job.target \ job.done # {} /\ job \in Job /\ clock \in Nat
      /\ content[Current].rows \in Nat
  BY FileStep
<1>2. Current \in Files /\ Current \in job.target \ job.done
  BY <1>1, CurrentIsFile
<1> QED
  BY <1>1, <1>2 DEF CleanInv, Loaded, Filed, OnTrack, Importing, ImportSteps, IInv, TypeOK, Job

LEMMA FileBeginKeepsCleanInv ==
    ASSUME IInv, CleanInv, FileBegin
    PROVE  CleanInv'
<1> DEFINE at     == AfterLatest(fileRows[Current], clock)
           row    == [status |-> "importing", rows |-> 0, at |-> at]
           newJob == [job EXCEPT !.fileAt = at, !.loaded = 0]
           f      == Current
<1>1. /\ pc = "file" /\ job \in Job /\ clock \in Nat /\ Importing
      /\ tables \in [Tables -> [Files -> Nat]]
      /\ fileRows \in [Files -> SUBSET FileRow]
      /\ f \in Files /\ f \in job.target \ job.done
      /\ job.done \subseteq job.target /\ job.target \subseteq Files
      /\ \A t \in Tables, g \in Files : tables[t][g] = Sent(g)
      /\ \A g \in job.done : NewestReports(g)
  BY AtTheFile DEF FileBegin
<1>2. at \in Nat /\ \A r \in fileRows[f] : r.at < at
  <2>1. Versioned(fileRows[f]) /\ HasLatest(fileRows[f])
    BY <1>1 DEF IInv, Ordered, Versioned, FileRow
  <2> QED
    BY <1>1, <2>1, AfterLatestIsLater
<1> HIDE DEF at
<1>3. row \in FileRow /\ row.rows = 0 /\ row.at = at
  BY <1>2 DEF FileRow, Statuses
<1>4. /\ newJob.target = job.target /\ newJob.done = job.done /\ newJob.rows = job.rows
      /\ newJob.loaded = 0 /\ newJob.fileAt = at
  BY <1>1 DEF Job
<1> HIDE DEF row, newJob
<1>5. /\ UNCHANGED world
      /\ PutFile(f, row) \/ UNCHANGED fileRows
      /\ (PutFile(f, row) /\ Goto("load", newJob)) \/ Return("error")
  BY Zenon DEF FileBegin, Statement, store, at, row, newJob
<1>6. CASE PutFile(f, row) /\ Goto("load", newJob)
  <2>1. /\ pc' = "load" /\ job' = newJob /\ tables' = tables
        /\ fileRows' = [fileRows EXCEPT ![f] = @ \union {row}]
        /\ content' = content /\ archives' = archives /\ Importing'
    BY <1>5, <1>6 DEF Goto, PutFile, world, Importing, ImportSteps
  <2>2. Current' = f
    BY <1>4, <2>1 DEF Current
  <2>3. NothingAside'
    <3>1. \A g \in Files : \A r \in fileRows'[g] : r \in fileRows[g] \/ r.rows = 0
      BY <1>1, <1>3, <2>1
    <3>2. NothingAside
      BY DEF CleanInv
    <3> QED
      BY <1>1, <1>4, <2>1, <3>1, <3>2, AsideIsKept
  <2>4. \A g \in Files : Sent(g)' = Sent(g)
    BY <1>1, <1>4, <2>1, <2>2 DEF Sent, AtFile
  <2>5. \A t \in Tables : InTable(t)' = job.rows + newJob.loaded
    <3>1. job.rows \in Nat /\ \A t \in Tables : InTable(t) = job.rows
      BY <1>1 DEF CleanInv, Loaded, OnTrack, AtFile, Job
    <3> QED
      BY <1>4, <2>1, <3>1, InTableIsTotal
  <2>6. Loaded'
    BY <1>1, <1>4, <2>1, <2>4, <2>5 DEF Loaded, AtFile
  <2>7. \A g \in job.done : NewestReports(g)'
    <3> TAKE g \in job.done
    <3>1. fileRows'[g] = fileRows[g]
      BY <1>1, <2>1
    <3> QED
      BY <1>1, <2>1, <3>1 DEF NewestReports
  <2>8. \A r \in fileRows'[f] : r.at <= at
    <3>1. \A r \in fileRows[f] : r.at \in Nat
      BY <1>1 DEF FileRow
    <3> QED
      BY <1>1, <1>2, <1>3, <2>1, <3>1
  <2>9. Filed'
    BY <1>4, <2>1, <2>2, <2>7, <2>8 DEF Filed
  <2> QED
    BY <2>1, <2>3, <2>6, <2>9 DEF CleanInv, Dropped, CleanImportIsExact
<1>7. CASE Return("error")
  BY <1>1, <1>3, <1>5, <1>7, BrokenOffKeepsCleanInv
<1> QED
  BY <1>5, <1>6, <1>7

\* A batch reaches every table, or the archive has failed.
LEMMA LoadKeepsCleanInv ==
    ASSUME IInv, CleanInv, LoadBatch \/ LoadError \/ LoadEnd
    PROVE  CleanInv'
<1> DEFINE newJob == [job EXCEPT !.loaded = @ + 1]
           f      == Current
<1>1. /\ pc = "load" /\ job \in Job /\ Importing
      /\ tables \in [Tables -> [Files -> Nat]]
      /\ fileRows \in [Files -> SUBSET FileRow]
      /\ f \in Files /\ f \in job.target \ job.done
      /\ job.done \subseteq job.target
      /\ \A t \in Tables, g \in Files : tables[t][g] = Sent(g)
      /\ \A g \in job.done : NewestReports(g)
      /\ \A r \in fileRows[f] : r.at <= job.fileAt
  BY AtTheFile DEF LoadBatch, LoadError, LoadEnd, CleanInv, Filed, AtFile
<1>2. \A t \in Tables : InTable(t) = job.rows + job.loaded
  BY <1>1 DEF CleanInv, Loaded, OnTrack, AtFile
<1>3. UNCHANGED world /\ fileRows' = fileRows
  BY DEF LoadBatch, LoadError, LoadEnd, AddBatch, store
<1>4. /\ newJob.target = job.target /\ newJob.done = job.done /\ newJob.rows = job.rows
      /\ newJob.loaded = job.loaded + 1 /\ newJob.fileAt = job.fileAt
  BY <1>1 DEF Job
<1> HIDE DEF newJob
<1>5. ASSUME job'.target = job.target, Importing'
      PROVE  NothingAside'
  BY <1>1, <1>3, <1>5, AsideIsKept DEF CleanInv, world
<1>6. ASSUME pc' \in AtFile, job' \in {job, newJob}
      PROVE  Filed'
  <2>1. Current' = f /\ job'.done = job.done /\ job'.fileAt = job.fileAt
    BY <1>4, <1>6 DEF Current
  <2>2. \A g \in job.done : NewestReports(g)'
    BY <1>1, <1>3 DEF NewestReports, world
  <2> QED
    BY <1>1, <1>3, <2>1, <2>2 DEF Filed
<1>7. CASE LoadBatch
  <2>1. /\ pc' = "load" /\ job' = newJob /\ content' = content /\ Importing'
        /\ tables' = [t \in Tables |-> [tables[t] EXCEPT ![f] = @ + 1]]
    BY <1>7 DEF LoadBatch, Goto, AddBatch, world, newJob, Importing, ImportSteps
  <2>2. Current' = f
    BY <1>4, <2>1 DEF Current
  <2>3. \A t \in Tables, g \in Files : tables'[t][g] = Sent(g)'
    <3> TAKE t \in Tables, g \in Files
    <3>1. CASE g = f
      <4>1. tables[t][g] = job.loaded
        BY <1>1, <3>1 DEF Sent, AtFile
      <4>2. Sent(g)' = job.loaded + 1
        BY <1>1, <1>4, <2>1, <2>2, <3>1 DEF Sent, AtFile
      <4> QED
        BY <1>1, <2>1, <3>1, <4>1, <4>2
    <3>2. CASE g # f
      <4>1. Sent(g)' = Sent(g)
        BY <1>1, <1>4, <2>1, <2>2, <3>2 DEF Sent, AtFile
      <4> QED
        BY <1>1, <2>1, <3>2, <4>1
    <3> QED
      BY <3>1, <3>2
  <2>4. \A t \in Tables : InTable(t)' = job.rows + newJob.loaded
    <3> TAKE t \in Tables
    <3>1. tables[t] \in [Files -> Nat] /\ tables'[t] = [tables[t] EXCEPT ![f] = @ + 1]
      BY <1>1, <2>1
    <3>2. Total(tables'[t])[Files] = Total(tables[t])[Files] + 1
      BY <1>1, <3>1, TotalOfOneMore
    <3>3. InTable(t)' = InTable(t) + 1
      BY <3>2, InTableIsTotal
    <3>4. job.rows \in Nat /\ job.loaded \in Nat
      BY <1>1 DEF Job
    <3> QED
      BY <1>2, <1>4, <3>3, <3>4
  <2>5. Loaded'
    BY <1>1, <1>4, <2>1, <2>3, <2>4 DEF Loaded, AtFile
  <2>6. NothingAside' /\ Filed'
    BY <1>4, <1>5, <1>6, <2>1 DEF AtFile
  <2> QED
    BY <2>1, <2>5, <2>6 DEF CleanInv, Dropped, CleanImportIsExact
<1>8. CASE LoadError
  <2>1. pc' = "failFile" /\ job' = job
    BY <1>8 DEF LoadError, Goto
  <2> QED
    BY <1>1, <1>3, <2>1, BrokenOffKeepsCleanInv
<1>9. CASE LoadEnd
  <2>1. /\ pc' = "fileDone" /\ job' = job /\ content' = content /\ Importing'
        /\ tables' = tables /\ job.loaded = content[f].rows
    BY <1>9 DEF LoadEnd, Goto, store, world, Importing, ImportSteps
  <2>2. Current' = f
    BY <2>1 DEF Current
  <2>3. \A g \in Files : Sent(g)' = Sent(g)
    BY <1>1, <2>1, <2>2 DEF Sent, AtFile
  <2>4. \A t \in Tables : InTable(t)' = job.rows + job.loaded
    BY <1>2, <2>1, InTableIsTotal
  <2>5. Loaded'
    BY <1>1, <2>1, <2>2, <2>3, <2>4 DEF Loaded, AtFile
  <2>6. NothingAside' /\ Filed'
    BY <1>5, <1>6, <2>1 DEF AtFile
  <2> QED
    BY <2>1, <2>5, <2>6 DEF CleanInv, Dropped, CleanImportIsExact
<1> QED
  BY <1>7, <1>8, <1>9

\* The file's terminal row reports what its batches were.
LEMMA FileDoneKeepsCleanInv ==
    ASSUME IInv, CleanInv, FileDone
    PROVE  CleanInv'
<1> DEFINE at     == After(job.fileAt, clock)
           rows   == job.loaded
           noisy  == rows = 0 /\ ~content[Current].blank
           row    == [status |-> IF rows = 0 THEN "no_data" ELSE "ready",
                      rows |-> rows, at |-> at]
           newJob == [job EXCEPT !.done = @ \union {Current},
                                 !.rows = @ + rows,
                                 !.noise = IF noisy
                                           THEN @ \union {[file |-> Current, at |-> at]}
                                           ELSE @]
           f      == Current
<1>1. /\ pc = "fileDone" /\ job \in Job /\ clock \in Nat /\ Importing
      /\ fileRows \in [Files -> SUBSET FileRow]
      /\ f \in Files /\ f \in job.target \ job.done
      /\ job.done \subseteq job.target
      /\ \A t \in Tables, g \in Files : tables[t][g] = Sent(g)
      /\ \A g \in job.done : NewestReports(g)
      /\ \A r \in fileRows[f] : r.at <= job.fileAt
      /\ job.loaded = content[f].rows
  BY AtTheFile DEF FileDone, CleanInv, Loaded, Filed, OnTrack, AtFile
<1>2. at \in Nat /\ at > job.fileAt /\ job.fileAt \in Nat
  BY <1>1, AfterIsLater DEF Job
<1> HIDE DEF at, noisy
<1>3. row.rows = content[f].rows /\ row.at = at
  BY <1>1
<1>4. /\ newJob.target = job.target /\ newJob.done = job.done \union {f}
      /\ newJob.rows = job.rows + job.loaded
  BY <1>1 DEF Job
<1> HIDE DEF row, newJob
<1>5. /\ UNCHANGED <<world, tables>>
      /\ PutFile(f, row) \/ UNCHANGED fileRows
      /\ (PutFile(f, row) /\ Goto("fileProgress", newJob)) \/ Return("error")
  BY Zenon DEF FileDone, Statement, PutFile, store, at, noisy, row, newJob
<1>6. /\ content' = content /\ archives' = archives
      /\ \A g \in Files : \A r \in fileRows'[g] : r \in fileRows[g] \/ g = f
  BY <1>1, <1>5 DEF world, PutFile
<1>7. f \in archives /\ NothingAside
  BY <1>1 DEF CleanInv, NothingAside
<1>8. CASE PutFile(f, row) /\ Goto("fileProgress", newJob)
  <2>1. /\ pc' = "fileProgress" /\ job' = newJob /\ tables' = tables
        /\ fileRows' = [fileRows EXCEPT ![f] = @ \union {row}]
    BY <1>5, <1>8 DEF Goto, PutFile
  <2>2. NothingAside'
    BY <1>1, <1>4, <1>6, <1>7, <2>1, AsideIsKept
  <2>3. \A g \in Files : Sent(g)' = Sent(g)
    BY <1>1, <1>4, <1>6, <2>1 DEF Sent, AtFile
  <2>4. \A t \in Tables : InTable(t)' = newJob.rows
    <3>1. \A t \in Tables : InTable(t) = job.rows + job.loaded
      BY <1>1 DEF CleanInv, Loaded, OnTrack, AtFile
    <3> QED
      BY <1>4, <2>1, <3>1, InTableIsTotal
  <2>5. Loaded'
    BY <1>1, <1>4, <2>1, <2>3, <2>4 DEF Loaded, AtFile
  <2>6. \A g \in newJob.done : NewestReports(g)'
    <3> TAKE g \in newJob.done
    <3>1. CASE g = f
      <4>1. fileRows'[f] = fileRows[f] \union {row}
        BY <1>1, <2>1
      <4>2. \A r \in fileRows[f] : r.at \in Nat
        BY <1>1 DEF FileRow
      <4>3. \A r \in fileRows'[f] \ {row} : r.at < row.at
        BY <1>1, <1>2, <1>3, <4>1, <4>2
      <4> QED
        BY <1>3, <1>6, <3>1, <4>1, <4>3 DEF NewestReports
    <3>2. CASE g # f
      <4>1. g \in job.done /\ fileRows'[g] = fileRows[g]
        BY <1>1, <1>4, <2>1, <3>2
      <4> QED
        BY <1>1, <1>6, <4>1 DEF NewestReports
    <3> QED
      BY <3>1, <3>2
  <2>7. Filed'
    BY <2>1, <2>6 DEF Filed, AtFile
  <2> QED
    BY <2>1, <2>2, <2>5, <2>7 DEF CleanInv, Dropped, CleanImportIsExact
<1>9. CASE Return("error")
  <2>1. ~Importing' /\ pc' = "idle" /\ result' = "error"
    BY <1>9 DEF Return, Importing, ImportSteps
  <2>2. NothingAside'
    <3>1. \A g \in Files \ archives' : fileRows'[g] \subseteq fileRows[g]
      BY <1>6, <1>7
    <3> QED
      BY <1>6, <1>7, <2>1, <3>1 DEF NothingAside
  <2> QED
    BY <2>1, <2>2, OffTrackKeepsCleanInv DEF OnTrack
<1> QED
  BY <1>5, <1>8, <1>9

\* The row that is strictly newest is the one a reader gets.
LEMMA NewestIsLatest ==
    ASSUME NEW rows, Versioned(rows), HasLatest(rows), NEW m \in rows,
           \A r \in rows \ {m} : r.at < m.at
    PROVE  Latest(rows) = m
<1>1. Latest(rows) \in rows /\ m.at <= Latest(rows).at
  BY LatestIsNewest
<1>2. Latest(rows).at \in Nat /\ m.at \in Nat
  BY <1>1 DEF Versioned
<1>3. CASE Latest(rows) # m
  <2>1. Latest(rows).at < m.at
    BY <1>1, <1>3
  <2> QED
    BY <1>1, <1>2, <2>1
<1> QED
  BY <1>3

\* What is left when the last archive is done: the states of the archives are
\* those of the tables.
LEMMA DoneIsWhole ==
    ASSUME IInv, CleanInv, pc \in {"fileProgress", "finish"}, job.target \subseteq job.done
    PROVE  Intact /\ \A t \in Tables : InTable(t) = job.rows
<1>1. /\ tables \in [Tables -> [Files -> Nat]] /\ fileRows \in [Files -> SUBSET FileRow]
      /\ job.done = job.target /\ Importing
      /\ \A t \in Tables, f \in Files : tables[t][f] = Sent(f)
      /\ \A t \in Tables : InTable(t) = job.rows
      /\ \A f \in job.done : NewestReports(f)
  BY DEF IInv, TypeOK, CleanInv, Loaded, Filed, OnTrack, AtFile, Importing, ImportSteps
<1>2. \A f \in Files : Versioned(fileRows[f]) /\ HasLatest(fileRows[f])
  BY <1>1 DEF IInv, Ordered, Versioned, FileRow
<1>3. ASSUME NEW t \in Tables, NEW f \in Files
      PROVE  tables[t][f] = Reported(f) /\ tables[t][f] \in {0, content[f].rows}
  <2>1. CASE f \in job.done
    <3>1. tables[t][f] = content[f].rows
      BY <1>1, <2>1 DEF Sent
    <3>2. PICK m \in fileRows[f] : /\ m.rows = content[f].rows
                                   /\ \A r \in fileRows[f] \ {m} : r.at < m.at
      BY <1>1, <2>1 DEF NewestReports
    <3>3. Latest(fileRows[f]) = m
      BY <1>2, <3>2, NewestIsLatest
    <3> QED
      BY <3>1, <3>2, <3>3 DEF Reported
  <2>2. CASE f \notin job.done
    <3>1. tables[t][f] = 0
      BY <1>1, <2>2 DEF Sent, AtFile
    <3>2. \A r \in fileRows[f] : r.rows = 0
      BY <1>1, <2>2 DEF CleanInv, NothingAside
    <3>3. fileRows[f] # {} => Latest(fileRows[f]) \in fileRows[f]
      BY <1>2, LatestIsNewest
    <3>4. Reported(f) = 0
      BY <3>2, <3>3 DEF Reported
    <3> QED
      BY <3>1, <3>4
  <2> QED
    BY <2>1, <2>2
<1> QED
  BY <1>1, <1>3 DEF Intact

LEMMA FinishKeepsCleanInv ==
    ASSUME IInv, CleanInv, Finish
    PROVE  CleanInv'
<1> DEFINE row == [status |-> IF job.rows = 0 THEN "no_data" ELSE "ready",
                   total |-> Cardinality(job.target),
                   done |-> Cardinality(job.done),
                   rows |-> job.rows, at |-> After(job.at, clock)]
<1>1. /\ pc = "finish" /\ Importing /\ fileRows \in [Files -> SUBSET FileRow]
      /\ job \in Job /\ clock \in Nat /\ dateRows \in SUBSET DateRow
      /\ HasLatest(dateRows)
      /\ \A r \in dateRows : r.at <= job.at
  BY DEF Finish, Importing, ImportSteps, IInv, TypeOK, Ordered, JobIsNewest
<1>2. /\ row.rows = job.rows /\ row.at = After(job.at, clock)
      /\ row.status \in Statuses
  BY DEF Statuses
<1>3. job.at \in Nat /\ After(job.at, clock) \in Nat /\ After(job.at, clock) > job.at
  BY <1>1, AfterIsLater DEF Job
<1> HIDE DEF row
<1>4. /\ UNCHANGED <<world, tables, fileRows>>
      /\ (PutDate(row) /\ Return("ok")) \/ Return("error")
  BY Zenon DEF Finish, Statement, PutDate, store, row
<1>5. CASE PutDate(row) /\ Return("ok")
  <2>1. /\ dateRows' = dateRows \union {row} /\ pc' = "idle"
        /\ content' = content /\ tables' = tables /\ fileRows' = fileRows
    BY <1>4, <1>5 DEF PutDate, Return, world
  <2>2. Latest(dateRows') = row
    <3>1. \A r \in dateRows : r.at \in Nat /\ r.status \in Statuses
      BY <1>1 DEF DateRow
    <3>2. Versioned(dateRows \union {row})
      BY <1>2, <1>3, <3>1 DEF Versioned
    <3>3. HasLatest(dateRows \union {row})
      BY <1>1, <3>2, LatestAfterInsert
    <3>4. \A r \in (dateRows \union {row}) \ {row} : r.at < row.at
      BY <1>1, <1>2, <1>3, <3>1
    <3>5. Latest(dateRows \union {row}) = row
      BY <3>2, <3>3, <3>4, NewestIsLatest
    <3> QED
      BY <2>1, <3>5
  <2>3. Intact /\ \A t \in Tables : InTable(t) = job.rows
    <3>1. job.done = job.target
      BY <1>1 DEF CleanInv, Loaded, OnTrack
    <3> QED
      BY <1>1, <3>1, DoneIsWhole
  <2>4. Intact'
    BY <2>1, <2>3 DEF Intact, Reported
  <2>5. \A t \in Tables : InTable(t)' = Latest(dateRows').rows
    BY <1>2, <2>1, <2>2, <2>3, InTableIsTotal
  <2>6. CleanImportIsExact'
    BY <2>4, <2>5 DEF CleanImportIsExact
  <2>7. NothingAside'
    BY <1>4, <2>1 DEF CleanInv, NothingAside, Importing, ImportSteps, world
  <2> QED
    BY <2>1, <2>6, <2>7 DEF CleanInv, Dropped, Loaded, Filed, OnTrack, AtFile
<1>6. CASE Return("error")
  BY <1>1, <1>4, <1>6, BrokenOffKeepsCleanInv
<1> QED
  BY <1>4, <1>5, <1>6

\* The rows of a failure report nothing.
LEMMA FailureKeepsCleanInv ==
    ASSUME IInv, CleanInv, FinishNoise \/ FailFile \/ FailUnrecognized \/ FailDate
    PROVE  CleanInv'
<1>1. Importing /\ job \in Job /\ fileRows \in [Files -> SUBSET FileRow] /\ clock \in Nat
  BY DEF FinishNoise, FailFile, FailUnrecognized, FailDate, Importing, ImportSteps,
         IInv, TypeOK
<1>2. ASSUME NEW f \in Files, NEW at \in Nat
      PROVE  [status |-> "failed", rows |-> 0, at |-> After(at, clock)] \in FileRow
  BY <1>1, AfterIsLater DEF FileRow, Statuses
<1>3. CASE FinishNoise
  <2>1. /\ UNCHANGED <<world, fileRows>> /\ pc' = "failUnrecognized" /\ job' = job
    BY <1>3 DEF FinishNoise, Goto, store
  <2> QED
    BY <1>1, <2>1, BrokenOffKeepsCleanInv
<1>4. CASE FailFile
  <2>1. Current \in Files /\ job.fileAt \in Nat
    BY <1>1, <1>4, FileStep DEF FailFile, Job
  <2> DEFINE row == [status |-> "failed", rows |-> 0, at |-> After(job.fileAt, clock)]
  <2>2. row \in FileRow /\ row.rows = 0
    BY <1>2, <2>1
  <2> HIDE DEF row
  <2>3. /\ UNCHANGED world
        /\ PutFile(Current, row) \/ UNCHANGED fileRows
        /\ Goto("failDate", job) \/ Return("error")
    BY <1>4, Zenon DEF FailFile, PutFailedFile, Statement, store, row
  <2>4. Return("error") \/ (job' = job /\ pc' = "failDate")
    BY <2>3 DEF Goto
  <2> QED
    BY <1>1, <2>1, <2>2, <2>3, <2>4, BrokenOffKeepsCleanInv
<1>5. CASE FailUnrecognized
  <2> DEFINE u    == FirstNoise
             row  == [status |-> "failed", rows |-> 0, at |-> After(u.at, clock)]
             newJob == [job EXCEPT !.noise = job.noise \ {u}]
  <2>1. u \in job.noise
    BY <1>5, FirstNoiseIsNoise DEF FailUnrecognized, IInv, Pending
  <2>2. u.file \in Files /\ u.at \in Nat /\ newJob.target = job.target
    BY <1>1, <2>1 DEF Job
  <2> HIDE DEF u
  <2>3. row \in FileRow /\ row.rows = 0
    BY <1>2, <2>2
  <2> HIDE DEF row, newJob
  <2>4. /\ UNCHANGED world
        /\ PutFile(u.file, row) \/ UNCHANGED fileRows
        /\ \/ Goto("failDate", newJob)
           \/ Goto("failUnrecognized", newJob)
           \/ Return("error")
    BY <1>5 DEF FailUnrecognized, PutFailedFile, Statement, store, u, row, newJob
  <2>5. Return("error") \/ (job'.target = job.target
                            /\ pc' \in {"failDate", "failUnrecognized"})
    BY <2>2, <2>4 DEF Goto
  <2> QED
    BY <1>1, <2>2, <2>3, <2>4, <2>5, BrokenOffKeepsCleanInv
<1>6. CASE FailDate
  <2>1. /\ UNCHANGED <<world, fileRows>>
        /\ Return("failed") \/ Return("error")
    BY <1>6, Zenon DEF FailDate, Statement, PutDate, store
  <2> QED
    BY <1>1, <2>1, BrokenOffKeepsCleanInv
<1> QED
  BY <1>3, <1>4, <1>5, <1>6

LEMMA EnvironmentKeepsCleanInv ==
    ASSUME IInv, CleanInv, Tick \/ ArchiveAppears \/ Expire \/ Crash \/ Restart
    PROVE  CleanInv'
<1>1. /\ UNCHANGED store /\ content' = content /\ archives \subseteq archives'
  BY DEF Tick, ArchiveAppears, Expire, Crash, Restart, world
<1>2. /\ tables' = tables /\ dateRows' = dateRows /\ fileRows' = fileRows
  BY <1>1 DEF store
<1>3. CASE UNCHANGED <<pc, job, result>>
  <2>1. NothingAside'
    BY <1>1, <1>2, <1>3, AsideIsKept DEF CleanInv, Importing
  <2>2. Current' = Current
    BY <1>3 DEF Current
  <2>3. /\ \A f \in Files : Sent(f)' = Sent(f)
        /\ \A t \in Tables : InTable(t)' = InTable(t)
        /\ \A f \in Files : NewestReports(f)' = NewestReports(f)
    <3>1. \A f \in Files : Sent(f)' = Sent(f)
      BY <1>1, <1>3, <2>2 DEF Sent
    <3>2. \A t \in Tables : InTable(t)' = InTable(t)
      BY <1>2, InTableIsTotal
    <3>3. \A f \in Files : NewestReports(f)' = NewestReports(f)
      BY <1>1, <1>2 DEF NewestReports
    <3> QED
      BY <3>1, <3>2, <3>3
  <2>4. Dropped'
    BY <1>2, <1>3 DEF CleanInv, Dropped
  <2>5. Loaded'
    BY <1>1, <1>2, <1>3, <2>2, <2>3 DEF CleanInv, Loaded
  <2>6. Filed'
    <3>1. job.done \subseteq Files
      BY DEF IInv, TypeOK, Job
    <3> QED
      BY <1>2, <1>3, <2>2, <2>3, <3>1 DEF CleanInv, Filed
  <2>7. CleanImportIsExact'
    <3>1. Intact' = Intact
      BY <1>1, <1>2 DEF Intact, Reported
    <3> QED
      BY <1>2, <1>3, <2>3, <3>1 DEF CleanInv, CleanImportIsExact
  <2> QED
    BY <2>1, <2>4, <2>5, <2>6, <2>7 DEF CleanInv
<1>4. CASE pc' \in {"down", "repairFull"}
  <2>1. ~Importing' /\ pc' \notin OnTrack \union {"drop", "idle"}
    BY <1>4 DEF Importing, ImportSteps, OnTrack
  <2>2. NothingAside'
    BY <1>1, <1>2, <2>1, AsideIsKept DEF CleanInv
  <2> QED
    BY <2>1, <2>2, OffTrackKeepsCleanInv
<1> QED
  BY <1>3, <1>4 DEF Tick, ArchiveAppears, Expire, Crash, Restart

LEMMA RepairKeepsCleanInv ==
    ASSUME IInv, CleanInv, RepairFull \/ RepairEmpty \/ RepairFiles
    PROVE  CleanInv'
<1>1. /\ pc \in RepairSteps
      /\ pc' \in {"repairEmpty", "repairFiles", "idle", "down"}
      /\ UNCHANGED <<world, result>>
  BY DEF RepairFull, RepairEmpty, RepairFiles, Repair, Statement, RepairSteps
<1>2. \/ UNCHANGED fileRows
      \/ \E cleared \in SUBSET Files :
           fileRows' = [f \in Files |-> IF f \in cleared THEN ClearFile(fileRows[f])
                                                         ELSE fileRows[f]]
  BY DEF RepairFull, RepairEmpty, RepairFiles, Repair, Statement, store
<1>3. \A f \in Files : \A r \in fileRows'[f] : r \in fileRows[f] \/ r.rows = 0
  BY <1>2 DEF ClearFile
<1>4. ~Importing' /\ pc' \notin OnTrack \union {"drop"} /\ result' # "ok"
  BY <1>1 DEF IInv, Quiet, Importing, ImportSteps, OnTrack
<1>5. NothingAside'
  BY <1>1, <1>3, <1>4, AsideIsKept DEF CleanInv, world
<1> QED
  BY <1>4, <1>5, OffTrackKeepsCleanInv

LEMMA NextKeepsCleanInv == IInv /\ CleanInv /\ [Next]_vars => CleanInv'
<1> SUFFICES ASSUME IInv, CleanInv, [Next]_vars
             PROVE  CleanInv'
  OBVIOUS
<1>1. CASE Sync
  BY <1>1, BeginKeepsCleanInv DEF Sync
<1>2. CASE Request
  BY <1>2, BeginKeepsCleanInv DEF Request
<1>3. CASE Drop
  BY <1>3, DropKeepsCleanInv
<1>4. CASE Start
  BY <1>4, StartKeepsCleanInv
<1>5. CASE Progress("progress", "file")
  BY <1>5, ProgressKeepsCleanInv
<1>6. CASE Progress("fileProgress",
                    IF job.target \subseteq job.done THEN "finish" ELSE "progress")
  BY <1>6, ProgressKeepsCleanInv
<1>7. CASE FileBegin
  BY <1>7, FileBeginKeepsCleanInv
<1>8. CASE LoadBatch \/ LoadError \/ LoadEnd
  BY <1>8, LoadKeepsCleanInv
<1>9. CASE FileDone
  BY <1>9, FileDoneKeepsCleanInv
<1>10. CASE Finish
  BY <1>10, FinishKeepsCleanInv
<1>11. CASE FinishNoise \/ FailFile \/ FailUnrecognized \/ FailDate
  BY <1>11, FailureKeepsCleanInv
<1>12. CASE RepairFull \/ RepairEmpty \/ RepairFiles
  BY <1>12, RepairKeepsCleanInv
<1>13. CASE Tick \/ ArchiveAppears \/ Expire \/ Crash \/ Restart
  BY <1>13, EnvironmentKeepsCleanInv
<1>14. CASE UNCHANGED vars
  <2>1. \A t \in Tables : InTable(t)' = InTable(t)
    BY <1>14, InTableIsTotal DEF vars, store
  <2> QED
    BY <1>14, <2>1
       DEF vars, world, store, CleanInv, NothingAside, Importing, Dropped, Loaded, Sent,
           Current, Filed, NewestReports, CleanImportIsExact, Intact, Reported
<1> QED
  BY <1>1, <1>2, <1>3, <1>4, <1>5, <1>6, <1>7, <1>8, <1>9, <1>10, <1>11, <1>12, <1>13,
     <1>14 DEF Next, ImportStep, StartUp

\* An import that returns without an error leaves every table with exactly the
\* rows that its states report, whatever imports before it broke off or failed,
\* for any archives, any number of tables and any bounds.
THEOREM CleanImports == Spec => []CleanImportIsExact
<1>1. Init => CleanInv
  BY InitEstablishesCleanInv
<1>2. IInv /\ CleanInv /\ [Next]_vars => CleanInv'
  BY NextKeepsCleanInv
<1>3. CleanInv => CleanImportIsExact
  BY DEF CleanInv
<1> QED
  BY <1>1, <1>2, <1>3, Invariance, PTL DEF Spec

-----------------------------------------------------------------------------
(* The ledger.  With one fault and no rebuild, what an import leaves is     *)
(* what the start-up repairs take it for.                                  *)

OneFault == MaxFaults <= 1 /\ "rebuild" \notin Requests

Completed == HasStatus(dateRows, Done)

\* The newest row is an outcome, and nothing ties with it.
Settled ==
    \E m \in dateRows :
        /\ m.status \in Done \union {"failed"}
        /\ \A r \in dateRows \ {m} : r.at < m.at

Rested == dateRows = {} \/ Settled

\* The newest rows are those of the running import, full only when it is done
\* with every archive.
Own ==
    /\ \E r \in dateRows : r.at = job.at
    /\ \A r \in dateRows :
         r.at = job.at => r.status = "importing" /\ (IsFull(r) => job.done = job.target)

\* Importing starts only on a date that is not complete, later than its rows.
Incomplete == Importing => ~Completed

StartsLater == pc \in {"drop", "start"} => \A r \in dateRows : r.at < job.at

\* As long as nothing has failed, the newest row is an outcome, or of the import
\* under way.
UntilFault ==
    faults = 0 =>
        /\ ~expired /\ pc \notin {"down", "failFile"}
        /\ pc \in {"idle", "drop", "start"} \union RepairSteps => Rested
        /\ pc \in OnTrack \ {"start"} => Own
        /\ pc = "failUnrecognized" => Own /\ Intact
        /\ pc = "failDate" => Rested \/ (Own /\ Intact)

\* The repair that completes full dates meets intact ones only.
Repairable ==
    pc \in {"down", "repairFull"} =>
        Rested \/ (~Completed /\ (FinishesFull(dateRows) => Intact))

\* The repair of files meets no file to clear, or none that has rows.
NothingToClear ==
    \/ \A f \in Files : \A r \in fileRows[f] : ~EmptyFile(r)
    \/ Completed /\ \A f \in Files : \A r \in fileRows[f] : r.rows = 0

\* A state reports the rows of its archive or none; unrecognised archives have none.
RowsAreOfContent ==
    /\ \A f \in Files : \A r \in fileRows[f] : r.rows \in {0, content[f].rows}
    /\ Importing => \A u \in job.noise : content[u.file].rows = 0

CompletedIsIntact == Completed => Intact

ExpiresInImport == expired => Importing

LedgerInv ==
    /\ Incomplete /\ StartsLater /\ UntilFault /\ Repairable /\ NothingToClear
    /\ RowsAreOfContent /\ CompletedIsIntact /\ ExpiresInImport

\* A step that the ledger allows.
Kept == [Ledger!Next]_<<Shown, dateRows = {} \/ Intact>>

\* A reader sees a complete date exactly when syncs skip it.
LEMMA CompletedIsShown == Completed <=> Shown \in Done
BY DEF Completed, HasStatus, Shown, Done

LEMMA CompletedIsShownNext == Completed' <=> Shown' \in Done
BY DEF Completed, HasStatus, Shown, Done

LEMMA StoreIsRead ==
    ASSUME IInv
    PROVE  /\ Versioned(dateRows) /\ HasLatest(dateRows)
           /\ \A f \in Files : Versioned(fileRows[f]) /\ HasLatest(fileRows[f])
BY DEF IInv, TypeOK, Ordered, Versioned, DateRow, FileRow

LEMMA StoreIsReadNext ==
    ASSUME IInv'
    PROVE  /\ Versioned(dateRows') /\ HasLatest(dateRows')
           /\ \A f \in Files : Versioned(fileRows'[f]) /\ HasLatest(fileRows'[f])
BY DEF IInv, TypeOK, Ordered, Versioned, DateRow, FileRow

\* A row put beside others shows its status, or they show what they did, up to
\* the kind of a complete one.
LEMMA ShownAfterInsert ==
    ASSUME NEW rows, rows # {}, NEW row, Versioned(rows \union {row}), HasLatest(rows)
    PROVE  LET s == Latest(rows \union {row}).status
               o == Latest(rows).status
           IN  s = row.status \/ s = o \/ (s \in Done /\ o \in Done)
<1> DEFINE all == rows \union {row}
           m   == Latest(all)
           l   == Latest(rows)
<1>1. HasLatest(all)
  BY LatestAfterInsert
<1>2. m \in all /\ IsLatest(m, all)
  BY <1>1 DEF HasLatest, Latest
<1>3. l \in rows /\ IsLatest(l, rows)
  BY DEF HasLatest, Latest
<1> HIDE DEF m, l
<1>4. CASE m \in rows
  <2>1. ~Newer(l, m) /\ ~Newer(m, l)
    BY <1>2, <1>3, <1>4 DEF IsLatest
  <2>2. /\ m.at \in Nat /\ l.at \in Nat /\ m.status \in Statuses /\ l.status \in Statuses
    BY <1>3, <1>4 DEF Versioned
  <2>3. Priority(m.status) \in Nat /\ Priority(l.status) \in Nat
    BY <2>2, PriorityIsNat
  <2>4. Priority(m.status) = Priority(l.status)
    BY <2>1, <2>2, <2>3 DEF Newer
  <2>5. m.status = l.status \/ (m.status \in Done /\ l.status \in Done)
    BY <2>2, <2>4 DEF Priority, Statuses, Done
  <2> QED
    BY <2>5 DEF m, l
<1>5. CASE m = row
  BY <1>5 DEF m
<1> QED
  BY <1>2, <1>4, <1>5

\* A row of an import or of a failure does not make a date complete.
LEMMA PuttingKeepsShown ==
    ASSUME IInv, IInv', ~Completed, NEW row, row.status \in {"importing", "failed"},
           PutDate(row) \/ dateRows' = dateRows
    PROVE  Shown' \in {Shown, "importing", "failed"}
<1>1. CASE dateRows' = dateRows
  BY <1>1 DEF Shown
<1>2. CASE PutDate(row)
  <2>1. dateRows' = dateRows \union {row}
    BY <1>2 DEF PutDate
  <2>2. Versioned(dateRows \union {row}) /\ HasLatest(dateRows)
        /\ HasLatest(dateRows \union {row})
    BY <2>1, StoreIsRead, StoreIsReadNext
  <2>3. Shown' = Latest(dateRows \union {row}).status
    BY <2>1 DEF Shown
  <2>4. CASE dateRows = {}
    <3>1. Latest({row}) \in {row}
      BY <2>2, <2>4, LatestIsNewest
    <3> QED
      BY <2>3, <2>4, <3>1
  <2>5. CASE dateRows # {}
    <3>1. Shown = Latest(dateRows).status /\ Shown \notin Done
      BY <2>5, CompletedIsShown DEF Shown
    <3>2. \/ Shown' = row.status \/ Shown' = Shown
          \/ (Shown' \in Done /\ Shown \in Done)
      BY <2>2, <2>3, <2>5, <3>1, ShownAfterInsert
    <3> QED
      BY <3>1, <3>2
  <2> QED
    BY <2>4, <2>5
<1> QED
  BY <1>1, <1>2

LEMMA WorkIsKept ==
    ASSUME ~Completed, Shown' \in {Shown, "importing", "failed"}
    PROVE  Kept /\ ~Completed'
<1>1. Shown \notin Done /\ Shown' \notin Done
  BY CompletedIsShown DEF Done
<1>2. (dateRows = {} \/ Intact)' \in BOOLEAN
  BY Zenon
<1> QED
  BY <1>1, <1>2, CompletedIsShownNext DEF Kept, Ledger!Next, Ledger!Work

\* An outcome is not full.
LEMMA RestedIsNotFull ==
    ASSUME IInv, Rested
    PROVE  ~FinishesFull(dateRows)
<1> SUFFICES ASSUME NEW r \in dateRows, IsFull(r), \A s \in dateRows : s.at <= r.at
             PROVE  FALSE
  BY DEF FinishesFull
<1>1. PICK m \in dateRows : /\ m.status \in Done \union {"failed"}
                            /\ \A s \in dateRows \ {m} : s.at < m.at
  BY DEF Rested, Settled
<1>2. r # m
  BY <1>1 DEF IsFull, Done
<1>3. r.at < m.at /\ m.at <= r.at /\ r.at \in Nat /\ m.at \in Nat
  BY <1>1, <1>2 DEF IInv, TypeOK, DateRow
<1> QED
  BY <1>3

\* What is left to show of a step of an import that does not complete the date.
LEMMA ImportStepKeepsLedger ==
    ASSUME LedgerInv, Importing, Shown' \in {Shown, "importing", "failed"},
           pc' \in ImportSteps \union {"idle"}, content' = content,
           expired' => expired /\ pc' \in ImportSteps,
           StartsLater', UntilFault', RowsAreOfContent',
           \/ fileRows' = fileRows
           \/ \A f \in Files : \A r \in fileRows'[f] : r \in fileRows[f] \/ ~EmptyFile(r)
    PROVE  LedgerInv' /\ Kept
<1>1. ~Completed
  BY DEF LedgerInv, Incomplete
<1>2. Kept /\ ~Completed'
  BY <1>1, WorkIsKept
<1>3. NothingToClear'
  BY <1>1 DEF LedgerInv, NothingToClear
<1>4. ExpiresInImport' /\ Repairable'
  BY DEF LedgerInv, ExpiresInImport, Repairable, Importing, ImportSteps
<1> QED
  BY <1>2, <1>3, <1>4 DEF LedgerInv, Incomplete, CompletedIsIntact

LEMMA FaultIsTheFirst ==
    ASSUME OneFault, IInv, Fault
    PROVE  faults = 0 /\ faults' = 1
BY BoundsAssumption DEF OneFault, IInv, TypeOK, Fault

LEMMA BeginKeepsLedger ==
    ASSUME IInv, CleanInv, LedgerInv, Begin(FALSE)
    PROVE  LedgerInv' /\ Kept
<1> DEFINE at     == AfterLatest(dateRows, clock)
           newJob == [NoJob EXCEPT !.at = at, !.target = archives]
<1>1. at \in Nat /\ \A r \in dateRows : r.at < at
  BY StoreIsRead, AfterLatestIsLater DEF IInv, TypeOK
<1> HIDE DEF at
<1>2. newJob.at = at /\ newJob.noise = {}
  BY DEF NoJob
<1>3. /\ pc = "idle" /\ pc' \in {"drop", "failDate"} /\ job' = newJob
      /\ content' = content /\ tables' = tables
      /\ dateRows' = dateRows /\ fileRows' = fileRows
      /\ expired' = expired /\ faults' = faults
  BY DEF Begin, at, world, store
<1> HIDE DEF newJob
<1>4. ~Completed
  BY DEF Begin, Skipped, Completed
<1>5. Shown' = Shown /\ (dateRows = {} \/ Intact)' = (dateRows = {} \/ Intact)
  BY <1>3 DEF Shown, Intact, Reported
<1>6. Kept /\ ~Completed'
  BY <1>4, <1>5, WorkIsKept
<1>7. Incomplete' /\ Repairable' /\ CompletedIsIntact'
  BY <1>3, <1>6 DEF Incomplete, Repairable, CompletedIsIntact
<1>8. StartsLater'
  BY <1>1, <1>2, <1>3 DEF StartsLater
<1>9. UntilFault'
  <2>1. faults = 0 => Rested /\ ~expired
    BY <1>3 DEF LedgerInv, UntilFault
  <2>2. Rested' <=> Rested
    BY <1>3 DEF Rested, Settled
  <2> QED
    BY <1>3, <2>1, <2>2 DEF UntilFault, OnTrack
<1>10. NothingToClear'
  BY <1>3, <1>4 DEF LedgerInv, NothingToClear
<1>11. RowsAreOfContent' /\ ExpiresInImport'
  BY <1>2, <1>3 DEF LedgerInv, RowsAreOfContent, ExpiresInImport, Importing, ImportSteps
<1> QED
  BY <1>6, <1>7, <1>8, <1>9, <1>10, <1>11 DEF LedgerInv

LEMMA DropKeepsLedger ==
    ASSUME OneFault, IInv, LedgerInv, Drop
    PROVE  LedgerInv' /\ Kept
<1> DEFINE newJob == [job EXCEPT !.table = @ + 1]
<1>1. /\ pc = "drop" /\ Importing
      /\ dateRows' = dateRows /\ fileRows' = fileRows /\ content' = content
      /\ expired' = expired
  BY Zenon DEF Drop, Statement, DropPartition, store, Goto, Importing, ImportSteps
<1>2. /\ \/ ~expired /\ faults' = faults
         \/ Fault
         \/ expired /\ faults' = faults
      /\ \/ /\ pc' = "drop" \/ pc' = "start"
            /\ job' = newJob \/ job' = job
         \/ pc' = "failDate" /\ (Fault \/ expired)
  BY DEF Drop, Statement, Goto
<1>3. newJob.at = job.at /\ newJob.noise = job.noise
  BY DEF IInv, TypeOK, Job
<1> HIDE DEF newJob
<1>4. Shown' = Shown
  BY <1>1 DEF Shown
<1>5. StartsLater'
  BY <1>1, <1>2, <1>3 DEF LedgerInv, StartsLater
<1>6. UntilFault'
  <2> SUFFICES ASSUME faults' = 0
               PROVE  UntilFault'
    BY DEF UntilFault
  <2>1. faults = 0 /\ ~Fault
    BY <1>2, FaultIsTheFirst
  <2>2. ~expired /\ Rested
    BY <1>1, <2>1 DEF LedgerInv, UntilFault
  <2>3. Rested'
    BY <1>1, <2>2 DEF Rested, Settled
  <2> QED
    BY <1>1, <1>2, <2>1, <2>2, <2>3 DEF UntilFault, OnTrack
<1>7. RowsAreOfContent'
  <2>1. job' = job \/ job' = newJob
    BY <1>2, Zenon DEF Drop, Statement, Goto, newJob
  <2> QED
    BY <1>1, <1>3, <2>1 DEF LedgerInv, RowsAreOfContent
<1> QED
  BY <1>1, <1>2, <1>4, <1>5, <1>6, <1>7, ImportStepKeepsLedger DEF ImportSteps

\* A row of the running import is full only after the last archive.
LEMMA FullIsDone ==
    ASSUME IInv, job.done \subseteq job.target, NEW at, IsFull(ImportingRow(job, at))
    PROVE  job.done = job.target
<1>1. job.target \in SUBSET Files
  BY DEF IInv, TypeOK, Job
<1>2. IsFiniteSet(job.target)
  BY <1>1, FilesAssumption, FS_Subset
<1>3. Cardinality(job.done) >= Cardinality(job.target)
  BY DEF IsFull, ImportingRow
<1>4. Cardinality(job.done) \in Nat /\ Cardinality(job.target) \in Nat
  BY <1>1, FilesAreOrdered
<1>5. Cardinality(job.done) <= Cardinality(job.target)
  BY <1>2, FS_Subset
<1>6. Cardinality(job.done) = Cardinality(job.target)
  BY <1>3, <1>4, <1>5
<1> QED
  BY <1>2, <1>6, FS_Subset

\* A statement that puts a row of progress: Start and Progress.
LEMMA ProgressKeepsLedger ==
    ASSUME OneFault, IInv, IInv', CleanInv, LedgerInv,
           pc \in {"start", "progress", "fileProgress"},
           NEW at \in Nat, NEW next \in {"progress", "file", "finish"},
           NEW newJob \in Job, newJob.target = job.target, newJob.done = job.done,
           newJob.noise = job.noise,
           pc = "start" => at = job.at,
           newJob.at = IF at > job.at THEN at ELSE job.at,
           Statement(PutDate(ImportingRow(job, at)), Goto(next, newJob), Return("error")),
           UNCHANGED world
    PROVE  LedgerInv' /\ Kept
<1> DEFINE row == ImportingRow(job, at)
<1>1. /\ row.at = at /\ row.status = "importing"
      /\ IsFull(row) => job.done = job.target
  <2>1. job.done \subseteq job.target
    BY DEF CleanInv, Loaded, OnTrack
  <2>2. IsFull(row) => job.done = job.target
    BY <2>1, FullIsDone
  <2> QED
    BY <2>2 DEF ImportingRow
<1> HIDE DEF row
<1>2. /\ content' = content /\ fileRows' = fileRows
      /\ PutDate(row) \/ dateRows' = dateRows
      /\ \/ PutDate(row) /\ Goto(next, newJob) /\ ~expired /\ faults' = faults
         \/ Return("error") /\ (Fault \/ expired)
  BY Zenon DEF Statement, PutDate, store, row, world
<1>3. Importing /\ ~Completed
  BY DEF Importing, ImportSteps, LedgerInv, Incomplete
<1>4. Shown' \in {Shown, "importing", "failed"}
  BY <1>1, <1>2, <1>3, PuttingKeepsShown
<1>5. /\ pc' \in {"progress", "file", "finish", "idle"}
      /\ expired' => expired /\ pc' # "idle"
  BY <1>2 DEF Goto, Return
<1>6. StartsLater'
  BY <1>5 DEF StartsLater
<1>7. UntilFault'
  <2> SUFFICES ASSUME faults' = 0
               PROVE  UntilFault'
    BY DEF UntilFault
  <2>1. faults' = faults => faults = 0 /\ ~expired
    BY DEF LedgerInv, UntilFault
  <2>2. PutDate(row) /\ Goto(next, newJob) /\ ~expired /\ faults = 0
    <3>1. ~Fault
      BY FaultIsTheFirst
    <3>2. expired => faults # 0
      BY DEF LedgerInv, UntilFault
    <3>3. Return("error") /\ expired => faults' = faults
      BY <3>1 DEF Statement, Goto, Return
    <3> QED
      BY <1>2, <2>1, <3>1, <3>2, <3>3
  <2>3. dateRows' = dateRows \union {row} /\ job' = newJob /\ pc' = next /\ expired' = expired
    BY <2>2 DEF PutDate, Goto
  <2>4. job.at \in Nat /\ \A r \in dateRows : r.at \in Nat /\ r.at <= job.at
    BY <1>3 DEF IInv, TypeOK, Job, JobIsNewest, DateRow
  <2>5. pc # "start" => Own
    BY <2>2 DEF LedgerInv, UntilFault, OnTrack
  <2>6. pc = "start" => \A r \in dateRows : r.at < job.at
    BY DEF LedgerInv, StartsLater
  <2>7. \E r \in dateRows' : r.at = newJob.at
    <3>1. CASE at > job.at \/ pc = "start"
      BY <1>1, <2>3, <2>4, <3>1
    <3>2. CASE ~(at > job.at) /\ pc # "start"
      BY <2>3, <2>5, <3>2 DEF Own
    <3> QED
      BY <3>1, <3>2
  <2>8. ASSUME NEW r \in dateRows', r.at = newJob.at
        PROVE  r.status = "importing" /\ (IsFull(r) => job.done = job.target)
    <3>1. CASE r = row
      BY <1>1, <3>1
    <3>2. CASE r \in dateRows
      <4>1. r.at = job.at
        BY <2>4, <2>8, <3>2
      <4> QED
        BY <2>4, <2>5, <2>6, <3>2, <4>1 DEF Own
    <3> QED
      BY <2>3, <3>1, <3>2
  <2>9. Own'
    BY <2>3, <2>7, <2>8 DEF Own
  <2> QED
    BY <2>2, <2>3, <2>9 DEF UntilFault, RepairSteps
<1>8. RowsAreOfContent'
  <2>1. CASE pc' = "idle"
    BY <1>2, <2>1 DEF LedgerInv, RowsAreOfContent, Importing, ImportSteps
  <2>2. CASE job' = newJob
    BY <1>2, <1>3, <2>2 DEF LedgerInv, RowsAreOfContent
  <2> QED
    BY <1>2, <2>1, <2>2 DEF Goto, Return
<1> QED
  BY <1>2, <1>3, <1>4, <1>5, <1>6, <1>7, <1>8, ImportStepKeepsLedger DEF ImportSteps

\* What the steps at a file have in common.
LEMMA AtFileKeepsLedger ==
    ASSUME OneFault, IInv, IInv', CleanInv, LedgerInv,
           pc \in {"file", "load", "fileDone"}, UNCHANGED world, dateRows' = dateRows,
           \/ /\ pc' \in {"load", "fileDone", "fileProgress"} /\ job'.at = job.at
              /\ expired' = expired /\ faults' = faults
           \/ /\ pc' \in {"failFile", "idle"}
              /\ expired' => expired /\ pc' = "failFile"
              /\ Fault \/ (expired /\ faults' = faults),
           \A f \in Files : \A r \in fileRows'[f] :
              \/ r \in fileRows[f]
              \/ ~EmptyFile(r) /\ r.rows \in {0, content[f].rows},
           Importing' => \A u \in job'.noise : content[u.file].rows = 0
    PROVE  LedgerInv' /\ Kept
<1>1. Importing /\ content' = content /\ job.target \ job.done # {}
  BY DEF Importing, ImportSteps, IInv, Pending, world
<1>2. Shown' = Shown
  BY DEF Shown
<1>3. StartsLater'
  BY DEF StartsLater
<1>4. UntilFault'
  <2> SUFFICES ASSUME faults' = 0
               PROVE  UntilFault'
    BY DEF UntilFault
  <2>1. ~Fault
    BY FaultIsTheFirst
  <2>2. faults = 0
    BY <2>1
  <2>3. ~expired /\ Own
    BY <2>2 DEF LedgerInv, UntilFault, OnTrack
  <2>4. /\ pc' \in {"load", "fileDone", "fileProgress"} /\ job'.at = job.at
        /\ expired' = expired
    BY <2>1, <2>3
  <2>5. Own'
    BY <1>1, <2>3, <2>4 DEF Own
  <2> QED
    BY <2>3, <2>4, <2>5 DEF UntilFault, RepairSteps
<1>5. RowsAreOfContent'
  BY <1>1 DEF LedgerInv, RowsAreOfContent
<1>6. \A f \in Files : \A r \in fileRows'[f] : r \in fileRows[f] \/ ~EmptyFile(r)
  OBVIOUS
<1>7. pc' \in ImportSteps \union {"idle"} /\ (expired' => expired /\ pc' \in ImportSteps)
  <2>1. CASE pc' \in {"load", "fileDone", "fileProgress"} /\ expired' = expired
    BY <2>1 DEF ImportSteps
  <2>2. CASE pc' \in {"failFile", "idle"} /\ (expired' => expired /\ pc' = "failFile")
    BY <2>2 DEF ImportSteps
  <2> QED
    BY <2>1, <2>2
<1> QED
  BY <1>1, <1>2, <1>3, <1>4, <1>5, <1>6, <1>7, ImportStepKeepsLedger

LEMMA FileBeginKeepsLedger ==
    ASSUME OneFault, IInv, IInv', CleanInv, LedgerInv, FileBegin
    PROVE  LedgerInv' /\ Kept
<1> DEFINE at     == AfterLatest(fileRows[Current], clock)
           row    == [status |-> "importing", rows |-> 0, at |-> at]
           newJob == [job EXCEPT !.fileAt = at, !.loaded = 0]
<1>1. pc = "file" /\ Importing /\ job \in Job /\ fileRows \in [Files -> SUBSET FileRow]
      /\ Current \in Files
  BY AtTheFile DEF FileBegin
<1> HIDE DEF at
<1>2. row.rows = 0 /\ ~EmptyFile(row)
  BY DEF EmptyFile
<1>3. newJob.at = job.at /\ newJob.noise = job.noise
  BY <1>1 DEF Job
<1> HIDE DEF row, newJob
<1>4. /\ UNCHANGED world /\ dateRows' = dateRows
      /\ PutFile(Current, row) \/ fileRows' = fileRows
      /\ \/ Goto("load", newJob) /\ faults' = faults
         \/ Return("error") /\ (Fault \/ (expired /\ faults' = faults))
  BY Zenon DEF FileBegin, Statement, PutFile, store, at, row, newJob
<1>5. \A f \in Files : \A r \in fileRows'[f] : r \in fileRows[f] \/ r = row
  BY <1>1, <1>4 DEF PutFile
<1>6. Importing' => \A u \in job'.noise : content[u.file].rows = 0
  BY <1>1, <1>3, <1>4
     DEF Goto, Return, Importing, ImportSteps, LedgerInv, RowsAreOfContent
<1> QED
  BY <1>1, <1>2, <1>3, <1>4, <1>5, <1>6, AtFileKeepsLedger DEF Goto, Return

LEMMA LoadKeepsLedger ==
    ASSUME OneFault, IInv, IInv', CleanInv, LedgerInv, LoadBatch \/ LoadError \/ LoadEnd
    PROVE  LedgerInv' /\ Kept
<1> DEFINE newJob == [job EXCEPT !.loaded = @ + 1]
<1>1. pc = "load" /\ Importing
  BY DEF LoadBatch, LoadError, LoadEnd, Importing, ImportSteps
<1>2. newJob.at = job.at /\ newJob.noise = job.noise
  BY DEF IInv, TypeOK, Job
<1> HIDE DEF newJob
<1>3. /\ UNCHANGED world /\ dateRows' = dateRows /\ fileRows' = fileRows
      /\ \/ Goto("load", newJob) /\ faults' = faults
         \/ Goto("fileDone", job) /\ faults' = faults
         \/ Goto("failFile", job) /\ (Fault \/ (expired /\ faults' = faults))
  BY DEF LoadBatch, LoadError, LoadEnd, AddBatch, store, newJob
<1>4. Importing' => \A u \in job'.noise : content[u.file].rows = 0
  BY <1>1, <1>2, <1>3 DEF Goto, LedgerInv, RowsAreOfContent
<1>5. job'.at = job.at /\ expired' = expired
  BY <1>2, <1>3 DEF Goto
<1> QED
  BY <1>1, <1>3, <1>4, <1>5, AtFileKeepsLedger DEF Goto

LEMMA FileDoneKeepsLedger ==
    ASSUME OneFault, IInv, IInv', CleanInv, LedgerInv, FileDone
    PROVE  LedgerInv' /\ Kept
<1> DEFINE at     == After(job.fileAt, clock)
           rows   == job.loaded
           noisy  == rows = 0 /\ ~content[Current].blank
           row    == [status |-> IF rows = 0 THEN "no_data" ELSE "ready",
                      rows |-> rows, at |-> at]
           noise  == IF noisy THEN job.noise \union {[file |-> Current, at |-> at]}
                              ELSE job.noise
           newJob == [job EXCEPT !.done = @ \union {Current},
                                 !.rows = @ + rows,
                                 !.noise = IF noisy
                                           THEN @ \union {[file |-> Current, at |-> at]}
                                           ELSE @]
<1>1. /\ pc = "fileDone" /\ Importing /\ job \in Job
      /\ fileRows \in [Files -> SUBSET FileRow] /\ Current \in Files
      /\ job.loaded = content[Current].rows
  BY AtTheFile DEF FileDone, CleanInv, Loaded, OnTrack
<1> HIDE DEF at
<1>2. row.rows = content[Current].rows /\ ~EmptyFile(row)
  BY <1>1 DEF EmptyFile
<1>3. newJob.at = job.at /\ newJob.noise = noise
  BY <1>1 DEF Job
<1>4. \A u \in noise : content[u.file].rows = 0
  BY <1>1 DEF LedgerInv, RowsAreOfContent
<1> HIDE DEF row, newJob, noise
<1>5. /\ UNCHANGED world /\ dateRows' = dateRows
      /\ PutFile(Current, row) \/ fileRows' = fileRows
      /\ \/ Goto("fileProgress", newJob) /\ faults' = faults
         \/ Return("error") /\ (Fault \/ (expired /\ faults' = faults))
  BY Zenon DEF FileDone, Statement, PutFile, store, at, row, newJob
<1>6. \A f \in Files : \A r \in fileRows'[f] :
        r \in fileRows[f] \/ (r = row /\ f = Current)
  BY <1>1, <1>5 DEF PutFile
<1>7. Importing' => \A u \in job'.noise : content[u.file].rows = 0
  BY <1>3, <1>4, <1>5 DEF Goto, Return, Importing, ImportSteps
<1> QED
  BY <1>1, <1>2, <1>3, <1>5, <1>6, <1>7, AtFileKeepsLedger DEF Goto, Return

\* The last row of an import completes the date over intact tables.
LEMMA FinishKeepsLedger ==
    ASSUME OneFault, IInv, IInv', CleanInv, LedgerInv, Finish
    PROVE  LedgerInv' /\ Kept
<1> DEFINE row == [status |-> IF job.rows = 0 THEN "no_data" ELSE "ready",
                   total |-> Cardinality(job.target),
                   done |-> Cardinality(job.done),
                   rows |-> job.rows, at |-> After(job.at, clock)]
<1>1. pc = "finish" /\ Importing /\ ~Completed
  BY DEF Finish, Importing, ImportSteps, LedgerInv, Incomplete
<1>2. row.status \in Done /\ row.at > job.at /\ row.at \in Nat /\ job.at \in Nat
  <2>1. job.at \in Nat /\ clock \in Nat
    BY DEF IInv, TypeOK, Job
  <2> QED
    BY <2>1, AfterIsLater DEF Done
<1> HIDE DEF row
<1>3. /\ content' = content /\ tables' = tables /\ fileRows' = fileRows
      /\ PutDate(row) \/ dateRows' = dateRows
      /\ pc' = "idle" /\ ~expired'
      /\ \/ result' = "ok" /\ faults' = faults
         \/ Fault \/ (expired /\ faults' = faults)
  BY Zenon DEF Finish, Statement, PutDate, Return, store, row, world
<1>4. UntilFault'
  <2> SUFFICES ASSUME faults' = 0
               PROVE  UntilFault'
    BY DEF UntilFault
  <2>1. ~Fault
    BY FaultIsTheFirst
  <2>2. ~(expired /\ faults' = faults)
    BY DEF LedgerInv, UntilFault
  <2>3. result' = "ok"
    BY <1>3, <2>1, <2>2
  <2>4. Rested'
    BY <1>3, <2>3 DEF IInv, TerminalWins, Rested, Settled
  <2> QED
    BY <1>3, <2>4 DEF UntilFault, OnTrack
<1>5. RowsAreOfContent' /\ StartsLater'
  BY <1>3 DEF LedgerInv, RowsAreOfContent, Importing, ImportSteps, StartsLater
<1>6. CASE dateRows' = dateRows
  <2>1. Shown' = Shown
    BY <1>6 DEF Shown
  <2> QED
    BY <1>1, <1>3, <1>4, <1>5, <2>1, ImportStepKeepsLedger
<1>7. CASE PutDate(row)
  <2>1. dateRows' = dateRows \union {row}
    BY <1>7 DEF PutDate
  <2>2. Latest(dateRows') = row
    <3>1. \A r \in dateRows : r.at \in Nat /\ r.at <= job.at
      BY <1>1 DEF IInv, TypeOK, DateRow, JobIsNewest
    <3>2. \A r \in dateRows' \ {row} : r.at < row.at
      BY <1>2, <2>1, <3>1
    <3> QED
      BY <2>1, <3>2, StoreIsReadNext, NewestIsLatest
  <2>3. Shown' \in Done /\ Completed'
    BY <1>2, <2>1, <2>2, CompletedIsShownNext DEF Shown
  <2>4. Intact
    <3>1. job.target \subseteq job.done
      BY <1>1 DEF CleanInv, Loaded, OnTrack
    <3> QED
      BY <1>1, <3>1, DoneIsWhole
  <2>5. Intact'
    BY <1>3, <2>4 DEF Intact, Reported
  <2>6. Kept
    <3>1. Shown \notin Done
      BY <1>1, CompletedIsShown
    <3>2. (dateRows = {} \/ Intact)' = TRUE
      BY <2>5
    <3> QED
      BY <2>3, <3>1, <3>2 DEF Kept, Ledger!Next, Ledger!Complete
  <2>7. NothingToClear'
    BY <1>1, <1>3 DEF LedgerInv, NothingToClear
  <2> QED
    BY <1>3, <1>4, <1>5, <2>5, <2>6, <2>7
       DEF LedgerInv, Incomplete, Importing, ImportSteps, Repairable, CompletedIsIntact,
           ExpiresInImport
<1> QED
  BY <1>3, <1>6, <1>7

\* Archives without rows stay reported as such when they fail.
LEMMA FailingEmptyKeepsIntact ==
    ASSUME IInv', RowsAreOfContent', Intact,
           NEW f \in Files, content[f].rows = 0, content' = content, tables' = tables,
           \A g \in Files \ {f} : fileRows'[g] = fileRows[g]
    PROVE  Intact'
<1>1. ASSUME NEW t \in Tables, NEW g \in Files
      PROVE  tables[t][g] = Reported(g)' /\ tables[t][g] \in {0, content[g].rows}
  <2>1. CASE g = f
    <3>1. tables[t][f] = 0
      BY DEF Intact
    <3>2. \A r \in fileRows'[f] : r.rows = 0
      BY DEF RowsAreOfContent
    <3>3. fileRows'[f] # {} => Latest(fileRows'[f]) \in fileRows'[f]
      BY StoreIsReadNext, LatestIsNewest
    <3> QED
      BY <2>1, <3>1, <3>2, <3>3 DEF Reported
  <2>2. CASE g # f
    BY <2>2 DEF Intact, Reported
  <2> QED
    BY <2>1, <2>2
<1> QED
  BY <1>1 DEF Intact, Reported

LEMMA FinishNoiseKeepsLedger ==
    ASSUME OneFault, IInv, IInv', CleanInv, LedgerInv, FinishNoise
    PROVE  LedgerInv' /\ Kept
<1>1. /\ pc = "finish" /\ Importing /\ pc' = "failUnrecognized" /\ job' = job
      /\ content' = content /\ tables' = tables /\ fileRows' = fileRows
      /\ dateRows' = dateRows /\ expired' = expired /\ faults' = faults
  BY DEF FinishNoise, Goto, store, world, Importing, ImportSteps
<1>2. Intact
  <2>1. job.target \subseteq job.done
    BY <1>1 DEF CleanInv, Loaded, OnTrack
  <2> QED
    BY <1>1, <2>1, DoneIsWhole
<1>3. UntilFault'
  <2>1. faults = 0 => Own /\ ~expired
    BY <1>1 DEF LedgerInv, UntilFault, OnTrack
  <2>2. (Own => Own') /\ Intact'
    BY <1>1, <1>2 DEF Own, Intact, Reported
  <2> QED
    BY <1>1, <2>1, <2>2 DEF UntilFault, OnTrack, RepairSteps
<1>4. RowsAreOfContent' /\ StartsLater' /\ Shown' = Shown
  BY <1>1 DEF LedgerInv, RowsAreOfContent, StartsLater, Shown, Importing
<1> QED
  BY <1>1, <1>3, <1>4, ImportStepKeepsLedger DEF ImportSteps

LEMMA FailFileKeepsLedger ==
    ASSUME OneFault, IInv, LedgerInv, FailFile
    PROVE  LedgerInv' /\ Kept
<1> DEFINE row == [status |-> "failed", rows |-> 0, at |-> After(job.fileAt, clock)]
<1>1. pc = "failFile" /\ Importing
  BY DEF FailFile, Importing, ImportSteps
<1>2. row.rows = 0 /\ ~EmptyFile(row)
  BY DEF EmptyFile
<1> HIDE DEF row
<1>3. /\ content' = content /\ dateRows' = dateRows
      /\ PutFile(Current, row) \/ fileRows' = fileRows
      /\ \/ pc' = "failDate" /\ job' = job /\ expired' = expired
         \/ Return("error")
      /\ Fault \/ faults' = faults
  BY Zenon DEF FailFile, PutFailedFile, Statement, PutFile, Goto, store, row, world
<1>4. \A f \in Files : \A r \in fileRows'[f] : r \in fileRows[f] \/ r = row
  <2>1. fileRows \in [Files -> SUBSET FileRow]
    BY DEF IInv, TypeOK
  <2> QED
    BY <1>3, <2>1 DEF PutFile
<1>5. faults' # 0
  <2>1. faults # 0
    BY <1>1 DEF LedgerInv, UntilFault
  <2> QED
    BY <1>3, <2>1, FaultIsTheFirst
<1>6. RowsAreOfContent' /\ StartsLater' /\ UntilFault' /\ Shown' = Shown
  BY <1>1, <1>2, <1>3, <1>4, <1>5
     DEF LedgerInv, RowsAreOfContent, StartsLater, UntilFault, Shown, Importing, ImportSteps,
         Return
<1>7. /\ pc' \in ImportSteps \union {"idle"}
      /\ expired' => expired /\ pc' \in ImportSteps
  BY <1>3 DEF Return, ImportSteps
<1> QED
  BY <1>1, <1>2, <1>3, <1>4, <1>6, <1>7, ImportStepKeepsLedger

LEMMA FailUnrecognizedKeepsLedger ==
    ASSUME OneFault, IInv, IInv', CleanInv, LedgerInv, FailUnrecognized
    PROVE  LedgerInv' /\ Kept
<1> DEFINE u      == FirstNoise
           rest   == job.noise \ {u}
           row    == [status |-> "failed", rows |-> 0, at |-> After(u.at, clock)]
           newJob == [job EXCEPT !.noise = rest]
<1>1. pc = "failUnrecognized" /\ Importing /\ u \in job.noise
  BY FirstNoiseIsNoise DEF FailUnrecognized, Importing, ImportSteps, IInv, Pending
<1>2. u.file \in Files /\ content[u.file].rows = 0
  BY <1>1 DEF IInv, TypeOK, Job, LedgerInv, RowsAreOfContent
<1>3. row.rows = 0 /\ ~EmptyFile(row)
  BY DEF EmptyFile
<1>4. newJob.at = job.at /\ newJob.done = job.done /\ newJob.target = job.target
      /\ newJob.noise \subseteq job.noise
  BY DEF IInv, TypeOK, Job
<1> HIDE DEF u, row, newJob, rest
<1>5. /\ content' = content /\ dateRows' = dateRows /\ tables' = tables
      /\ PutFile(u.file, row) \/ fileRows' = fileRows
      /\ \/ /\ pc' \in {"failDate", "failUnrecognized"} /\ job' = newJob
            /\ expired' = expired /\ faults' = faults
         \/ Return("error") /\ (Fault \/ (expired /\ faults' = faults))
  BY DEF FailUnrecognized, PutFailedFile, Statement, PutFile, Goto, store, u, row, rest,
         newJob, world
<1>6. /\ \A f \in Files : \A r \in fileRows'[f] : r \in fileRows[f] \/ r = row
      /\ \A f \in Files \ {u.file} : fileRows'[f] = fileRows[f]
  <2>1. fileRows \in [Files -> SUBSET FileRow]
    BY DEF IInv, TypeOK
  <2> QED
    BY <1>5, <2>1 DEF PutFile
<1>7. RowsAreOfContent'
  BY <1>1, <1>3, <1>4, <1>5, <1>6
     DEF LedgerInv, RowsAreOfContent, Importing, ImportSteps, Return
<1>8. UntilFault'
  <2> SUFFICES ASSUME faults' = 0
               PROVE  UntilFault'
    BY DEF UntilFault
  <2>1. ~Fault
    BY FaultIsTheFirst
  <2>2. expired => faults # 0
    BY DEF LedgerInv, UntilFault
  <2>3. /\ pc' \in {"failDate", "failUnrecognized"} /\ job' = newJob
        /\ ~expired' /\ faults = 0
    BY <1>5, <2>1, <2>2
  <2>4. Own /\ Intact
    BY <1>1, <2>3 DEF LedgerInv, UntilFault
  <2>5. Own'
    BY <1>4, <1>5, <2>3, <2>4 DEF Own
  <2>6. Intact'
    BY <1>2, <1>5, <1>6, <1>7, <2>4, FailingEmptyKeepsIntact
  <2> QED
    BY <2>3, <2>5, <2>6 DEF UntilFault, RepairSteps, OnTrack
<1>9. StartsLater' /\ Shown' = Shown
  BY <1>5 DEF StartsLater, Shown, Return
<1>10. /\ pc' \in ImportSteps \union {"idle"}
       /\ expired' => expired /\ pc' \in ImportSteps
  BY <1>5 DEF Return, ImportSteps
<1> QED
  BY <1>1, <1>3, <1>5, <1>6, <1>7, <1>8, <1>9, <1>10, ImportStepKeepsLedger

LEMMA FailDateKeepsLedger ==
    ASSUME OneFault, IInv, IInv', LedgerInv, FailDate
    PROVE  LedgerInv' /\ Kept
<1> DEFINE row == [status |-> "failed", total |-> 0, done |-> Cardinality(job.done),
                   rows |-> 0, at |-> After(job.at, clock)]
<1>1. pc = "failDate" /\ Importing /\ ~Completed
  BY DEF FailDate, Importing, ImportSteps, LedgerInv, Incomplete
<1>2. row.status = "failed"
  OBVIOUS
<1> HIDE DEF row
<1>3. /\ content' = content /\ fileRows' = fileRows
      /\ PutDate(row) \/ dateRows' = dateRows
      /\ pc' = "idle" /\ ~expired'
      /\ \/ result' = "failed" /\ faults' = faults
         \/ Fault \/ (expired /\ faults' = faults)
  BY Zenon DEF FailDate, Statement, PutDate, Return, store, row, world
<1>4. Shown' \in {Shown, "importing", "failed"}
  BY <1>1, <1>2, <1>3, PuttingKeepsShown
<1>5. UntilFault'
  <2> SUFFICES ASSUME faults' = 0
               PROVE  UntilFault'
    BY DEF UntilFault
  <2>1. ~Fault
    BY FaultIsTheFirst
  <2>2. ~(expired /\ faults' = faults)
    BY DEF LedgerInv, UntilFault
  <2>3. result' = "failed"
    BY <1>3, <2>1, <2>2
  <2>4. Rested'
    BY <1>3, <2>3 DEF IInv, TerminalWins, Rested, Settled
  <2> QED
    BY <1>3, <2>4 DEF UntilFault, OnTrack
<1>6. RowsAreOfContent' /\ StartsLater'
  BY <1>3 DEF LedgerInv, RowsAreOfContent, Importing, ImportSteps, StartsLater
<1> QED
  BY <1>1, <1>3, <1>4, <1>5, <1>6, ImportStepKeepsLedger

\* What a crash leaves for the start-up repairs: an outcome, or an import that
\* can only be full when it is done with every archive.
LEMMA CrashIsRepairable ==
    ASSUME IInv, CleanInv, LedgerInv, faults = 0
    PROVE  Rested \/ (~Completed /\ (FinishesFull(dateRows) => Intact))
<1>1. pc \notin {"down", "failFile"}
  BY DEF LedgerInv, UntilFault
<1>2. CASE pc \in {"idle", "drop", "start"} \union RepairSteps
  BY <1>2 DEF LedgerInv, UntilFault
<1>3. CASE pc \in ImportSteps \ {"drop", "start", "failFile"}
  <2>1. ~Completed
    BY <1>3 DEF LedgerInv, Incomplete, Importing
  <2>2. CASE Rested
    BY <2>2
  <2>3. CASE ~Rested
    <3>1. Own /\ (pc \in {"failUnrecognized", "failDate"} => Intact)
      BY <1>3, <2>3 DEF LedgerInv, UntilFault, OnTrack, ImportSteps
    <3>2. CASE FinishesFull(dateRows) /\ pc \notin {"failUnrecognized", "failDate"}
      <4>1. PICK r \in dateRows : IsFull(r) /\ \A s \in dateRows : s.at <= r.at
        BY <3>2 DEF FinishesFull
      <4>2. job.at \in Nat /\ r.at \in Nat /\ r.at <= job.at
        BY <1>3 DEF IInv, TypeOK, Job, DateRow, JobIsNewest, Importing
      <4>3. r.at = job.at
        <5>1. job.at <= r.at
          BY <3>1, <4>1 DEF Own
        <5> QED
          BY <4>2, <5>1
      <4>4. job.done = job.target
        BY <3>1, <4>1, <4>3 DEF Own
      <4>5. pc \in {"fileProgress", "finish"}
        BY <1>3, <3>2, <4>4 DEF IInv, Pending, ImportSteps
      <4>6. Intact
        BY <4>4, <4>5, DoneIsWhole
      <4> QED
        BY <2>1, <4>6
    <3> QED
      BY <2>1, <3>1, <3>2
  <2> QED
    BY <2>2, <2>3
<1> QED
  BY <1>1, <1>2, <1>3 DEF IInv, TypeOK

LEMMA EnvironmentKeepsLedger ==
    ASSUME OneFault, IInv, CleanInv, LedgerInv,
           Tick \/ ArchiveAppears \/ Expire \/ Crash \/ Restart
    PROVE  LedgerInv' /\ Kept
<1>1. /\ content' = content /\ tables' = tables
      /\ dateRows' = dateRows /\ fileRows' = fileRows
  BY DEF Tick, ArchiveAppears, Expire, Crash, Restart, world, store
<1>2. /\ Shown' = Shown /\ (Completed' <=> Completed) /\ (Intact' <=> Intact)
      /\ (Rested' <=> Rested)
  BY <1>1 DEF Shown, Completed, Intact, Reported, Rested, Settled
<1>3. Kept
  <2>1. (dateRows = {} \/ Intact)' = (dateRows = {} \/ Intact)
    BY <1>1 DEF Intact, Reported
  <2> QED
    BY <1>2, <2>1 DEF Kept
<1>4. NothingToClear' /\ CompletedIsIntact'
  BY <1>1, <1>2 DEF LedgerInv, NothingToClear, CompletedIsIntact
<1>5. CASE Tick \/ ArchiveAppears \/ Expire
  <2>1. /\ pc' = pc /\ job' = job
        /\ \/ faults' = faults /\ expired' = expired
           \/ Fault /\ expired' /\ Importing
    BY <1>5 DEF Tick, ArchiveAppears, Expire
  <2>2. UntilFault'
    <3> SUFFICES ASSUME faults' = 0
                 PROVE  UntilFault'
      BY DEF UntilFault
    <3>1. faults = 0 /\ expired' = expired
      BY <2>1, FaultIsTheFirst
    <3>2. Own' <=> Own
      BY <1>1, <2>1 DEF Own
    <3> QED
      BY <1>2, <2>1, <3>1, <3>2 DEF LedgerInv, UntilFault
  <2>3. Incomplete' /\ StartsLater' /\ Repairable' /\ RowsAreOfContent' /\ ExpiresInImport'
    BY <1>1, <1>2, <2>1
       DEF LedgerInv, Incomplete, Importing, StartsLater, Repairable, RowsAreOfContent,
           ExpiresInImport
  <2> QED
    BY <1>3, <1>4, <2>2, <2>3 DEF LedgerInv
<1>6. CASE Crash \/ Restart
  <2>1. /\ pc' \in {"down", "repairFull"} /\ ~Importing'
        /\ expired' => expired /\ pc = "down"
    BY <1>6 DEF Crash, Restart, Importing, ImportSteps
  <2>2. faults' # 0
    <3>1. CASE Crash
      BY <3>1, FaultIsTheFirst DEF Crash
    <3>2. CASE Restart
      BY <3>2 DEF Restart, LedgerInv, UntilFault
    <3> QED
      BY <1>6, <3>1, <3>2
  <2>3. Rested \/ (~Completed /\ (FinishesFull(dateRows) => Intact))
    <3>1. CASE Crash
      <4>1. faults = 0
        BY <3>1, FaultIsTheFirst DEF Crash
      <4> QED
        BY <4>1, CrashIsRepairable
    <3>2. CASE Restart
      BY <3>2 DEF Restart, LedgerInv, Repairable
    <3> QED
      BY <1>6, <3>1, <3>2
  <2>4. Repairable'
    <3>1. FinishesFull(dateRows') = FinishesFull(dateRows)
      BY <1>1
    <3> QED
      BY <1>2, <2>3, <3>1 DEF Repairable
  <2>5. ExpiresInImport'
    BY <2>1 DEF LedgerInv, ExpiresInImport, Importing, ImportSteps
  <2>6. RowsAreOfContent'
    BY <1>1, <2>1 DEF LedgerInv, RowsAreOfContent
  <2> QED
    BY <1>3, <1>4, <2>1, <2>2, <2>4, <2>5, <2>6
       DEF LedgerInv, Incomplete, StartsLater, UntilFault
<1> QED
  BY <1>5, <1>6

\* What the repairs have in common.
LEMMA RepairKeepsLedger ==
    ASSUME OneFault, IInv, LedgerInv, pc \in RepairSteps,
           NEW next \in {"repairEmpty", "repairFiles", "idle"},
           \/ pc' = next /\ faults' = faults
           \/ pc' = "down" /\ (Fault \/ expired),
           UNCHANGED <<world, job, expired>>,
           faults = 0 /\ Rested => Rested',
           NothingToClear', CompletedIsIntact', RowsAreOfContent'
    PROVE  LedgerInv'
<1>1. ~expired /\ ~Importing
  BY DEF LedgerInv, ExpiresInImport, Importing, ImportSteps, RepairSteps
<1>2. pc' \in {next, "down"} /\ ~Importing' /\ ~expired'
  BY <1>1 DEF Importing, ImportSteps
<1>3. pc' = "down" => faults = 0 /\ faults' = 1
  BY <1>1, FaultIsTheFirst
<1>4. faults = 0 => Rested'
  BY DEF LedgerInv, UntilFault
<1>5. UntilFault'
  BY <1>2, <1>3, <1>4 DEF UntilFault, OnTrack
<1>6. Repairable'
  BY <1>2, <1>3, <1>4 DEF Repairable
<1> QED
  BY <1>2, <1>5, <1>6 DEF LedgerInv, Incomplete, StartsLater, ExpiresInImport

\* A repair that changes nothing.
LEMMA NoRepairKeepsStates ==
    ASSUME LedgerInv, UNCHANGED store, content' = content, ~Importing'
    PROVE  /\ Kept /\ (Rested => Rested')
           /\ NothingToClear' /\ CompletedIsIntact' /\ RowsAreOfContent'
<1>1. tables' = tables /\ dateRows' = dateRows /\ fileRows' = fileRows
  BY DEF store
<1>2. /\ Shown' = Shown /\ (Completed' <=> Completed) /\ (Intact' <=> Intact)
      /\ (Rested' <=> Rested)
  BY <1>1 DEF Shown, Completed, Intact, Reported, Rested, Settled
<1>3. (dateRows = {} \/ Intact)' = (dateRows = {} \/ Intact)
  BY <1>1 DEF Intact, Reported
<1> QED
  BY <1>1, <1>2, <1>3
     DEF Kept, LedgerInv, NothingToClear, CompletedIsIntact, RowsAreOfContent

\* Full dates are completed only over intact tables.
LEMMA RepairFullKeepsLedger ==
    ASSUME OneFault, IInv, IInv', LedgerInv, RepairFull
    PROVE  LedgerInv' /\ Kept
<1>1. /\ pc = "repairFull" /\ pc \in RepairSteps /\ UNCHANGED <<world, job, expired>>
      /\ content' = content /\ ~Importing'
      /\ \/ pc' = "repairEmpty" /\ faults' = faults
         \/ pc' = "down" /\ (Fault \/ expired)
  BY DEF RepairFull, Repair, Statement, RepairSteps, Importing, ImportSteps, world
<1>2. \/ UNCHANGED store
      \/ dateRows' \in FinishedFull(dateRows, clock) /\ UNCHANGED <<tables, fileRows>>
  BY DEF RepairFull, Repair, Statement, store
<1>3. CASE UNCHANGED store
  BY <1>1, <1>3, NoRepairKeepsStates, RepairKeepsLedger
<1>4. CASE ~(UNCHANGED store)
  <2>1. /\ tables' = tables /\ fileRows' = fileRows
        /\ dateRows' # dateRows /\ dateRows' \in FinishedFull(dateRows, clock)
    BY <1>2, <1>4 DEF store
  <2>2. FinishesFull(dateRows)
    BY <2>1 DEF FinishedFull
  <2>3. PICK r \in dateRows :
          dateRows' = dateRows \union {[r EXCEPT !.status = "ready", !.at = clock + 1]}
    BY <2>1, <2>2 DEF FinishedFull
  <2> DEFINE row == [r EXCEPT !.status = "ready", !.at = clock + 1]
  <2>4. row.status = "ready"
    BY DEF IInv, TypeOK, DateRow
  <2> HIDE DEF row
  <2>5. ~Rested /\ ~Completed /\ Intact /\ Shown \notin Done
    BY <1>1, <2>2, RestedIsNotFull, CompletedIsShown DEF LedgerInv, Repairable
  <2>6. Intact'
    BY <1>1, <2>1, <2>5 DEF Intact, Reported
  <2>7. Shown' \in {Shown, "ready"}
    <3>1. dateRows' = dateRows \union {row}
      BY <2>3 DEF row
    <3>2. Shown = Latest(dateRows).status
      BY <2>3 DEF Shown
    <3>3. Shown' = Latest(dateRows \union {row}).status
      BY <3>1 DEF Shown
    <3>4. Versioned(dateRows \union {row}) /\ HasLatest(dateRows)
      BY <3>1, StoreIsRead, StoreIsReadNext
    <3>5. \/ Shown' = row.status \/ Shown' = Shown
          \/ (Shown' \in Done /\ Shown \in Done)
      BY <2>3, <3>2, <3>3, <3>4, ShownAfterInsert
    <3> QED
      BY <2>4, <2>5, <3>5
  <2>8. Kept
    <3>1. (dateRows = {} \/ Intact)' = TRUE
      BY <2>6
    <3>2. Shown' = Shown => Kept
      BY <2>5, WorkIsKept
    <3>3. Shown' = "ready" => Kept
      BY <2>5, <3>1 DEF Kept, Ledger!Next, Ledger!Complete, Done
    <3> QED
      BY <2>7, <3>2, <3>3
  <2>9. NothingToClear' /\ CompletedIsIntact' /\ RowsAreOfContent'
    BY <1>1, <2>1, <2>5, <2>6
       DEF LedgerInv, NothingToClear, CompletedIsIntact, RowsAreOfContent
  <2> QED
    BY <1>1, <2>5, <2>8, <2>9, RepairKeepsLedger
<1> QED
  BY <1>3, <1>4

LEMMA RepairEmptyKeepsLedger ==
    ASSUME OneFault, IInv, IInv', LedgerInv, RepairEmpty
    PROVE  LedgerInv' /\ Kept
<1>1. /\ pc \in RepairSteps /\ UNCHANGED <<world, job, expired>>
      /\ content' = content /\ ~Importing'
      /\ \/ pc' = "repairFiles" /\ faults' = faults
         \/ pc' = "down" /\ (Fault \/ expired)
  BY DEF RepairEmpty, Repair, Statement, RepairSteps, Importing, ImportSteps, world
<1>2. \/ UNCHANGED store
      \/ dateRows' = ClearEmpty(dateRows) /\ UNCHANGED <<tables, fileRows>>
  BY DEF RepairEmpty, Repair, Statement, store
<1>3. CASE UNCHANGED store
  BY <1>1, <1>3, NoRepairKeepsStates, RepairKeepsLedger
<1>4. CASE ~(UNCHANGED store)
  <2> DEFINE m   == Latest(dateRows)
             row == [m EXCEPT !.status = "no_data", !.at = m.at + 1]
  <2>1. /\ tables' = tables /\ fileRows' = fileRows /\ EmptyReady(dateRows)
        /\ dateRows' = dateRows \union {row}
    BY <1>2, <1>4 DEF store, ClearEmpty
  <2>2. dateRows # {} /\ m.status = "ready"
    BY <2>1 DEF EmptyReady, HasStatus
  <2>3. m \in dateRows /\ \A r \in dateRows : r.at <= m.at
    BY <2>2, StoreIsRead, LatestIsNewest
  <2>4. m \in DateRow /\ \A r \in dateRows : r.at \in Nat
    BY <2>3 DEF IInv, TypeOK, DateRow
  <2>5. row.status = "no_data" /\ row.at = m.at + 1 /\ m.at \in Nat
    BY <2>4 DEF DateRow
  <2> HIDE DEF row
  <2>6. row \in dateRows' /\ \A r \in dateRows' \ {row} : r.at < row.at
    BY <2>1, <2>3, <2>4, <2>5
  <2>7. Latest(dateRows') = row
    BY <2>6, StoreIsReadNext, NewestIsLatest
  <2>8. Rested'
    BY <2>5, <2>6 DEF Rested, Settled, Done
  <2>9. Shown \in Done /\ Shown' = "no_data" /\ Completed /\ Completed'
    BY <2>2, <2>5, <2>6, <2>7 DEF Shown, Done, Completed, HasStatus
  <2>10. (Intact' <=> Intact) /\ (dateRows = {} \/ Intact)' = (dateRows = {} \/ Intact)
    BY <1>1, <2>1, <2>2, <2>6 DEF Intact, Reported
  <2>11. Kept
    BY <2>9, <2>10 DEF Kept, Ledger!Next, Ledger!Settle
  <2>12. NothingToClear' /\ CompletedIsIntact' /\ RowsAreOfContent'
    BY <1>1, <2>1, <2>9, <2>10
       DEF LedgerInv, NothingToClear, CompletedIsIntact, RowsAreOfContent
  <2> QED
    BY <1>1, <2>8, <2>11, <2>12, RepairKeepsLedger
<1> QED
  BY <1>3, <1>4

\* No file is cleared, or only files that report nothing.
LEMMA RepairFilesKeepsLedger ==
    ASSUME OneFault, IInv, IInv', LedgerInv, RepairFiles
    PROVE  LedgerInv' /\ Kept
<1>1. /\ pc \in RepairSteps /\ UNCHANGED <<world, job, expired>>
      /\ content' = content /\ ~Importing'
      /\ \/ pc' = "idle" /\ faults' = faults
         \/ pc' = "down" /\ (Fault \/ expired)
  BY DEF RepairFiles, Repair, Statement, RepairSteps, Importing, ImportSteps, world
<1>2. \/ UNCHANGED store
      \/ /\ \E cleared \in SUBSET Files :
              /\ \A f \in cleared : MayClearFile(fileRows[f])
              /\ fileRows' = [f \in Files |-> IF f \in cleared
                                              THEN ClearFile(fileRows[f])
                                              ELSE fileRows[f]]
         /\ UNCHANGED <<tables, dateRows>>
  BY DEF RepairFiles, Repair, Statement
<1>3. CASE UNCHANGED store
  BY <1>1, <1>3, NoRepairKeepsStates, RepairKeepsLedger
<1>4. CASE ~(UNCHANGED store)
  <2>1. PICK cleared \in SUBSET Files :
          /\ \A f \in cleared : MayClearFile(fileRows[f])
          /\ fileRows' = [f \in Files |-> IF f \in cleared THEN ClearFile(fileRows[f])
                                                           ELSE fileRows[f]]
    BY <1>2, <1>4
  <2>2. tables' = tables /\ dateRows' = dateRows
    BY <1>2, <1>4
  <2>3. CASE \A f \in Files : \A r \in fileRows[f] : ~EmptyFile(r)
    <3>1. cleared = {}
      BY <2>1, <2>3 DEF MayClearFile, Decisive
    <3>2. fileRows' = fileRows
      <4>1. fileRows \in [Files -> SUBSET FileRow]
        BY DEF IInv, TypeOK
      <4> QED
        BY <2>1, <3>1, <4>1
    <3> QED
      BY <1>4, <2>2, <3>2 DEF store
  <2>4. CASE Completed /\ \A f \in Files : \A r \in fileRows[f] : r.rows = 0
    <3>1. \A f \in Files : \A r \in fileRows'[f] : r.rows = 0
      BY <2>1, <2>4 DEF ClearFile
    <3>2. \A f \in Files : Reported(f) = 0 /\ Reported(f)' = 0
      <4> TAKE f \in Files
      <4>1. /\ fileRows[f] # {} => Latest(fileRows[f]) \in fileRows[f]
            /\ fileRows'[f] # {} => Latest(fileRows'[f]) \in fileRows'[f]
        BY StoreIsRead, StoreIsReadNext, LatestIsNewest
      <4> QED
        BY <2>4, <3>1, <4>1 DEF Reported
    <3>3. /\ Shown' = Shown /\ (Completed' <=> Completed) /\ (Rested' <=> Rested)
      BY <2>2 DEF Shown, Completed, Rested, Settled
    <3>4. (Intact' <=> Intact) /\ (dateRows = {} \/ Intact)' = (dateRows = {} \/ Intact)
      BY <1>1, <2>2, <3>2 DEF Intact
    <3>5. Kept
      BY <3>3, <3>4 DEF Kept
    <3>6. NothingToClear' /\ CompletedIsIntact' /\ RowsAreOfContent'
      BY <1>1, <2>4, <3>1, <3>3, <3>4
         DEF LedgerInv, NothingToClear, CompletedIsIntact, RowsAreOfContent
    <3> QED
      BY <1>1, <3>3, <3>5, <3>6, RepairKeepsLedger
  <2> QED
    BY <2>3, <2>4 DEF LedgerInv, NothingToClear
<1> QED
  BY <1>3, <1>4

LEMMA InitEstablishesLedger == Init => LedgerInv /\ Ledger!Init
<1> SUFFICES ASSUME Init
             PROVE  LedgerInv /\ Ledger!Init
  OBVIOUS
<1>1. IInv
  BY InitEstablishesIInv
<1>2. /\ pc = "repairFull" /\ faults = 0 /\ expired = FALSE /\ ~Importing
      /\ \A t \in Tables, f \in Files : tables[t][f] = 0
      /\ \/ dateRows = {} /\ \A f \in Files : fileRows[f] = {}
         \/ dateRows = {LegacyDate} /\ \A f \in Files : fileRows[f] = {LegacyFile}
  BY DEF Init, Importing, ImportSteps
<1>3. LegacyDate.status = "ready" /\ LegacyFile.rows = 0
  BY DEF LegacyDate, LegacyFile
<1>4. \A f \in Files : \A r \in fileRows[f] : r.rows = 0
  BY <1>2, <1>3
<1>5. Intact
  <2>1. \A f \in Files : Reported(f) = 0
    <3> TAKE f \in Files
    <3>1. fileRows[f] # {} => Latest(fileRows[f]) \in fileRows[f]
      BY <1>1, StoreIsRead, LatestIsNewest
    <3> QED
      BY <1>4, <3>1 DEF Reported
  <2> QED
    BY <1>2, <2>1 DEF Intact
<1>6. Rested /\ (dateRows # {} => Shown = "ready" /\ Completed)
  <2>1. dateRows # {} => Latest(dateRows) = LegacyDate
    BY <1>1, <1>2, StoreIsRead, LatestIsNewest
  <2> QED
    BY <1>2, <1>3, <2>1 DEF Rested, Settled, Shown, Completed, HasStatus, Done
<1>7. NothingToClear
  BY <1>2, <1>4, <1>6 DEF NothingToClear
<1>8. UntilFault /\ Repairable /\ RowsAreOfContent
  BY <1>2, <1>4, <1>6 DEF UntilFault, OnTrack, Repairable, RowsAreOfContent
<1>9. LedgerInv
  BY <1>2, <1>5, <1>7, <1>8
     DEF LedgerInv, Incomplete, StartsLater, CompletedIsIntact, ExpiresInImport
<1>10. Ledger!Init
  <2>1. Shown \in {"none"} \union Done
    BY <1>6 DEF Shown, Done
  <2>2. (dateRows = {} \/ Intact) = TRUE
    BY <1>5
  <2> QED
    BY <2>1, <2>2 DEF Ledger!Init
<1> QED
  BY <1>9, <1>10

LEMMA NextKeepsLedger ==
    OneFault /\ IInv /\ CleanInv /\ LedgerInv /\ [Next]_vars => LedgerInv' /\ Kept
<1> SUFFICES ASSUME OneFault, IInv, CleanInv, LedgerInv, [Next]_vars
             PROVE  LedgerInv' /\ Kept
  OBVIOUS
<1> USE NextKeepsIInv
<1>1. CASE Sync
  BY <1>1, BeginKeepsLedger DEF Sync
<1>2. CASE Request
  <2>1. PICK request \in Requests : Begin(request = "rebuild")
    BY <1>2 DEF Request
  <2>2. (request = "rebuild") = FALSE
    BY DEF OneFault
  <2>3. Begin(FALSE)
    BY <2>1, <2>2
  <2> QED
    BY <2>3, BeginKeepsLedger
<1>3. CASE Drop
  BY <1>3, DropKeepsLedger
<1>4. CASE Start
  <2>1. job \in Job /\ job.at \in Nat
    BY DEF IInv, TypeOK, Job
  <2> QED
    BY <1>4, <2>1, ProgressKeepsLedger DEF Start
<1>5. ASSUME NEW step \in {"progress", "fileProgress"},
             NEW next \in {"file", "progress", "finish"}, Progress(step, next)
      PROVE  LedgerInv' /\ Kept
  <2> DEFINE newJob == [job EXCEPT !.at = IF clock > @ THEN clock ELSE @]
  <2>1. /\ newJob \in Job /\ clock \in Nat
        /\ newJob.target = job.target /\ newJob.done = job.done
        /\ newJob.noise = job.noise
        /\ newJob.at = IF clock > job.at THEN clock ELSE job.at
    BY DEF IInv, TypeOK, Job
  <2>2. pc = step /\ UNCHANGED world
        /\ Statement(PutDate(ImportingRow(job, clock)), Goto(next, newJob), Return("error"))
    BY <1>5 DEF Progress
  <2> HIDE DEF newJob
  <2> QED
    BY <2>1, <2>2, ProgressKeepsLedger
<1>6. CASE Progress("progress", "file")
  BY <1>5, <1>6
<1>7. CASE Progress("fileProgress",
                    IF job.target \subseteq job.done THEN "finish" ELSE "progress")
  BY <1>5, <1>7
<1>8. CASE FileBegin
  BY <1>8, FileBeginKeepsLedger
<1>9. CASE LoadBatch \/ LoadError \/ LoadEnd
  BY <1>9, LoadKeepsLedger
<1>10. CASE FileDone
  BY <1>10, FileDoneKeepsLedger
<1>11. CASE Finish
  BY <1>11, FinishKeepsLedger
<1>12. CASE FinishNoise
  BY <1>12, FinishNoiseKeepsLedger
<1>13. CASE FailFile
  BY <1>13, FailFileKeepsLedger
<1>14. CASE FailUnrecognized
  BY <1>14, FailUnrecognizedKeepsLedger
<1>15. CASE FailDate
  BY <1>15, FailDateKeepsLedger
<1>16. CASE Tick \/ ArchiveAppears \/ Expire \/ Crash \/ Restart
  BY <1>16, EnvironmentKeepsLedger
<1>17. CASE RepairFull
  BY <1>17, RepairFullKeepsLedger
<1>18. CASE RepairEmpty
  BY <1>18, RepairEmptyKeepsLedger
<1>19. CASE RepairFiles
  BY <1>19, RepairFilesKeepsLedger
<1>20. CASE UNCHANGED vars
  BY <1>20
     DEF vars, world, store, LedgerInv, Incomplete, Importing, Completed, StartsLater,
         UntilFault, Rested, Settled, Own, Intact, Reported, Repairable, NothingToClear,
         RowsAreOfContent, CompletedIsIntact, ExpiresInImport, Kept, Shown
<1> QED
  BY <1>1, <1>2, <1>3, <1>4, <1>6, <1>7, <1>8, <1>9, <1>10, <1>11, <1>12, <1>13, <1>14,
     <1>15, <1>16, <1>17, <1>18, <1>19, <1>20 DEF Next, ImportStep, StartUp

LEMMA LedgerInvariance ==
    ASSUME OneFault
    PROVE  Spec => [](IInv /\ CleanInv /\ LedgerInv)
<1>1. Init => IInv /\ CleanInv /\ LedgerInv
  BY InitEstablishesIInv, InitEstablishesCleanInv, InitEstablishesLedger
<1>2. (IInv /\ CleanInv /\ LedgerInv) /\ [Next]_vars => (IInv /\ CleanInv /\ LedgerInv)'
  BY NextKeepsIInv, NextKeepsCleanInv, NextKeepsLedger
<1> QED
  BY <1>1, <1>2, PTL DEF Spec

\* Syncs keep the ledger, and implement DateLedger, when one statement fails,
\* one context expires or one crash happens: data is in any condition only
\* while the date is not complete, and a complete date stays complete and
\* intact, for any archives, tables, numbers of imports and of seconds.
THEOREM LedgerIsKept ==
    ASSUME MaxFaults <= 1, "rebuild" \notin Requests
    PROVE  Spec => LedgerSpec
<1>1. OneFault
  BY DEF OneFault
<1>2. Init => Ledger!Init
  BY InitEstablishesLedger
<1>3. (IInv /\ CleanInv /\ LedgerInv) /\ [Next]_vars => Kept
  BY <1>1, NextKeepsLedger
<1>4. Spec => [](IInv /\ CleanInv /\ LedgerInv)
  BY <1>1, LedgerInvariance
<1> QED
  BY <1>2, <1>3, <1>4, PTL DEF Spec, LedgerSpec, Ledger!Spec, Kept

\* Under the same conditions the date that syncs skip as complete has intact
\* partitions; a rebuild, or a second fault, is needed to lose them.
THEOREM DoneStaysIntact ==
    ASSUME MaxFaults <= 1, "rebuild" \notin Requests
    PROVE  Spec => []DoneIsIntact
<1>1. OneFault
  BY DEF OneFault
<1>2. LedgerInv => DoneIsIntact
  BY DEF LedgerInv, CompletedIsIntact, Completed, DoneIsIntact
<1> QED
  BY <1>1, <1>2, LedgerInvariance, PTL
=============================================================================
