---------------------- MODULE NatLogsMigrationProofs ----------------------
(***************************************************************************)
(* Proofs about NatLogsMigration: no row is destroyed, whatever stops, and *)
(* the service runs on all rows if nothing stops between the renames.      *)
(***************************************************************************)
EXTENDS NatLogsMigration, TLAPS

TableRecord == [schema : Schemas, rows : SUBSET Rows]

Places == {"ddl", "inspect", "drop", "create", "copy", "validate", "swap", "swapped",
           "serving", "refused", "down"}

Typed ==
    /\ DOMAIN tables \in SUBSET TableNames
    /\ \A n \in DOMAIN tables : tables[n] \in TableRecord
    /\ logged \in SUBSET Rows
    /\ faults \in 0..MaxFaults
    /\ at \in Places

\* The tables that a statement finds.
Expected ==
    /\ at \in {"inspect", "drop", "create", "copy", "validate", "swap", "serving"} =>
          Exists("nat_logs")
    /\ at \in {"drop", "create", "copy", "validate", "swap"} => ~Exists("nat_logs_ipv4_backup")
    /\ at \in {"copy", "validate", "swap", "swapped"} => Exists("nat_logs_dual_stack")
    /\ at = "swapped" => ~Exists("nat_logs")

IInv == Typed /\ Expected /\ NothingIsDestroyed

\* Where the rows are while nothing has stopped between the renames.
Whole ==
    /\ Exists("nat_logs") => tables["nat_logs"].rows = logged
    /\ ~Exists("nat_logs") /\ at # "swapped" => logged = {}
    /\ at \in {"validate", "swap", "swapped"} => tables["nat_logs_dual_stack"].rows = logged
    /\ Exists("nat_logs_dual_stack") => tables["nat_logs_dual_stack"].schema = "dual"
    /\ at = "serving" => tables["nat_logs"].schema = "dual"

-----------------------------------------------------------------------------
LEMMA InitIsSafe == Init => IInv
<1> SUFFICES ASSUME Init PROVE IInv
  OBVIOUS
<1>1. PICK schema \in Schemas, rows \in SUBSET Rows, old \in SUBSET {"nat_logs_source_date"} :
         /\ logged = rows
         /\ \/ tables = [n \in {"nat_logs"} \union old |->
                            Table(schema, IF n = "nat_logs" THEN rows ELSE {})]
            \/ tables = [n \in {} |-> Table("dual", {})] /\ rows = {}
  BY DEF Init
<1>2. at = "ddl" /\ faults = 0
  BY DEF Init
<1>3. DOMAIN tables \in SUBSET TableNames /\ \A n \in DOMAIN tables : tables[n] \in TableRecord
  <2>1. CASE DOMAIN tables = {}
    BY <2>1
  <2>2. CASE tables = [n \in {"nat_logs"} \union old |->
                          Table(schema, IF n = "nat_logs" THEN rows ELSE {})]
    BY <2>2 DEF TableNames, TableRecord, Table
  <2> QED
    BY <1>1, <2>1, <2>2
<1>4. NothingIsDestroyed
  BY <1>1 DEF NothingIsDestroyed, Exists, Table
<1> QED
  BY <1>1, <1>2, <1>3, <1>4, FaultsAssumption DEF IInv, Typed, Expected, Places

LEMMA NextIsSafe == IInv /\ [Next]_vars => IInv'
<1> SUFFICES ASSUME IInv, [Next]_vars PROVE IInv'
  OBVIOUS
<1> USE DEF IInv
<1> USE FaultsAssumption
<1>1. CASE EnsureNatLogs
  <2>1. Typed' /\ Expected'
    BY <1>1 DEF EnsureNatLogs, Goto, CreateTable, Typed, Expected, Exists, TableNames, TableRecord, Table,
                Schemas, Places
  <2>2. NothingIsDestroyed'
    BY <1>1 DEF EnsureNatLogs, CreateTable, NothingIsDestroyed, Exists, Table
  <2> QED
    BY <2>1, <2>2
<1>2. CASE Inspect
  BY <1>2 DEF Inspect, IsRefused, Typed, Expected, Exists, Places, NothingIsDestroyed
<1>3. CASE DropReplacement
  <2>1. Typed' /\ Expected'
    BY <1>3 DEF DropReplacement, Goto, DropTable, Typed, Expected, Exists, Places
  <2>2. NothingIsDestroyed'
    BY <1>3 DEF DropReplacement, DropTable, NothingIsDestroyed, Exists
  <2> QED
    BY <2>1, <2>2
<1>4. CASE CreateReplacement
  <2>1. Typed' /\ Expected'
    BY <1>4 DEF CreateReplacement, CreateTable, Typed, Expected, Exists, TableNames, TableRecord, Table,
                Schemas, Places
  <2>2. NothingIsDestroyed'
    BY <1>4 DEF CreateReplacement, CreateTable, NothingIsDestroyed, Exists, Table
  <2> QED
    BY <2>1, <2>2
<1>5. CASE Copy
  <2>1. Typed' /\ Expected'
    BY <1>5 DEF Copy, Goto, Replacement, Typed, Expected, Exists, TableNames, TableRecord, Places
  <2>2. NothingIsDestroyed'
    BY <1>5 DEF Copy, Replacement, NothingIsDestroyed, Exists
  <2> QED
    BY <2>1, <2>2
<1>6. CASE CopyFails
  <2>1. PICK rows \in SUBSET tables["nat_logs"].rows : tables' = Replacement(rows)
    BY <1>6 DEF CopyFails
  <2>2. faults' \in 0..MaxFaults /\ at = "copy" /\ at' \in {"refused", "down"} /\ logged' = logged
    BY <1>6 DEF CopyFails, Typed
  <2>3. rows \in SUBSET Rows
    BY <2>1, <2>2 DEF Typed, Expected, Exists, TableRecord
  <2>4. Typed'
    BY <2>1, <2>2, <2>3 DEF Replacement, Typed, TableRecord, Places
  <2>5. Expected' /\ NothingIsDestroyed'
    BY <2>1, <2>2 DEF Replacement, Expected, Exists, NothingIsDestroyed
  <2> QED
    BY <2>4, <2>5
<1>7. CASE Validate
  BY <1>7 DEF Validate, Typed, Expected, Exists, Places, NothingIsDestroyed
<1>8. CASE RenameOld
  <2>1. Typed' /\ Expected'
    BY <1>8 DEF RenameOld, Goto, RenameTable, Typed, Expected, Exists, TableNames, Places
  <2>2. NothingIsDestroyed'
    BY <1>8 DEF RenameOld, Goto, RenameTable, Expected, NothingIsDestroyed, Exists
  <2> QED
    BY <2>1, <2>2
<1>9. CASE RenameNew
  <2>1. Typed' /\ Expected'
    BY <1>9 DEF RenameNew, Goto, RenameTable, Typed, Expected, Exists, TableNames, Places
  <2>2. NothingIsDestroyed'
    BY <1>9 DEF RenameNew, Goto, RenameTable, Expected, NothingIsDestroyed, Exists
  <2> QED
    BY <2>1, <2>2
<1>10. CASE \E row \in Rows : Import(row)
  <2>1. PICK row \in Rows : Import(row)
    BY <1>10
  <2>2. Typed' /\ Expected'
    BY <2>1 DEF Import, Typed, Expected, Exists, TableRecord
  <2>3. NothingIsDestroyed'
    BY <2>1 DEF Import, Expected, NothingIsDestroyed, Exists
  <2> QED
    BY <2>2, <2>3
<1>11. CASE Fault
  BY <1>11 DEF Fault, Typed, Expected, Exists, Places, NothingIsDestroyed
<1>12. CASE Restart
  BY <1>12 DEF Restart, Typed, Expected, Exists, Places, NothingIsDestroyed
<1>13. CASE UNCHANGED vars
  BY <1>13 DEF vars, Typed, Expected, Exists, NothingIsDestroyed
<1> QED
  BY <1>1, <1>2, <1>3, <1>4, <1>5, <1>6, <1>7, <1>8, <1>9, <1>10, <1>11, <1>12, <1>13
     DEF Next, Start

LEMMA Invariance == Spec => []IInv
<1>1. Init => IInv
  BY InitIsSafe
<1>2. IInv /\ [Next]_vars => IInv'
  BY NextIsSafe
<1> QED
  BY <1>1, <1>2, PTL DEF Spec

\* Whatever is copied, validated and renamed, and wherever a statement fails or the
\* process or the server stops - between the two renames of the swap too - every row
\* ever imported is in nat_logs or in its backup.
THEOREM NothingLost == Spec => []NothingIsDestroyed
<1>1. IInv => NothingIsDestroyed
  BY DEF IInv
<1> QED
  BY <1>1, Invariance, PTL

\* The names, schemas and rows of tables are what the migration expects, whatever
\* an earlier start has left.
THEOREM TypeCorrectness == Spec => []TypeOK
<1>1. IInv => TypeOK
  BY DEF IInv, Typed, Expected, TypeOK, TableRecord
<1> QED
  BY <1>1, Invariance, PTL

-----------------------------------------------------------------------------
LEMMA InitIsWhole == Init => Whole
<1> SUFFICES ASSUME Init PROVE Whole
  OBVIOUS
<1>1. PICK schema \in Schemas, rows \in SUBSET Rows, old \in SUBSET {"nat_logs_source_date"} :
         /\ logged = rows
         /\ \/ tables = [n \in {"nat_logs"} \union old |->
                            Table(schema, IF n = "nat_logs" THEN rows ELSE {})]
            \/ tables = [n \in {} |-> Table("dual", {})] /\ rows = {}
  BY DEF Init
<1>2. at = "ddl"
  BY DEF Init
<1> QED
  BY <1>1, <1>2 DEF Whole, Exists, Table

LEMMA NextIsWhole ==
    ASSUME ~StopsInSwap
    PROVE  IInv /\ Whole /\ [Next]_vars => Whole'
<1> SUFFICES ASSUME IInv, Whole, [Next]_vars PROVE Whole'
  OBVIOUS
<1> USE DEF IInv, Typed
<1>1. CASE EnsureNatLogs
  BY <1>1 DEF EnsureNatLogs, Goto, CreateTable, Whole, Exists, Table
<1>2. CASE Inspect
  BY <1>2 DEF Inspect, IsMigrated, Expected, Whole, Exists
<1>3. CASE DropReplacement
  BY <1>3 DEF DropReplacement, Goto, DropTable, Whole, Exists
<1>4. CASE CreateReplacement
  BY <1>4 DEF CreateReplacement, CreateTable, Expected, Whole, Exists, Table
<1>5. CASE Copy
  BY <1>5 DEF Copy, Goto, Replacement, Expected, Whole, Exists, TableRecord
<1>6. CASE CopyFails
  <2>1. PICK rows \in SUBSET tables["nat_logs"].rows : tables' = Replacement(rows)
    BY <1>6 DEF CopyFails
  <2>2. at = "copy" /\ at' \in {"refused", "down"} /\ logged' = logged
    BY <1>6 DEF CopyFails
  <2> QED
    BY <2>1, <2>2 DEF Replacement, Expected, Whole, Exists, TableRecord
<1>7. CASE Validate
  BY <1>7 DEF Validate, Expected, Whole, Exists
<1>8. CASE RenameOld
  BY <1>8 DEF RenameOld, Goto, RenameTable, Expected, Whole, Exists
<1>9. CASE RenameNew
  BY <1>9 DEF RenameNew, Goto, RenameTable, Expected, Whole, Exists
<1>10. CASE \E row \in Rows : Import(row)
  <2>1. PICK row \in Rows : Import(row)
    BY <1>10
  <2> QED
    BY <2>1 DEF Import, Expected, Whole, Exists, TableRecord
<1>11. CASE Fault
  BY <1>11 DEF Fault, Expected, Whole, Exists
<1>12. CASE Restart
  BY <1>12 DEF Restart, Whole, Exists
<1>13. CASE UNCHANGED vars
  BY <1>13 DEF vars, Whole, Exists
<1> QED
  BY <1>1, <1>2, <1>3, <1>4, <1>5, <1>6, <1>7, <1>8, <1>9, <1>10, <1>11, <1>12, <1>13
     DEF Next, Start

\* If the server does not stop between the two renames, the service runs only on a
\* migrated nat_logs that holds exactly the rows ever imported, after any number of
\* failed and interrupted migrations.
THEOREM ServiceHasAllRows ==
    ASSUME ~StopsInSwap
    PROVE  Spec => []ServesEveryRow
<1>1. Init => Whole
  BY InitIsWhole
<1>2. IInv /\ Whole /\ [Next]_vars => Whole'
  BY NextIsWhole
<1>3. IInv /\ Whole => ServesEveryRow
  BY DEF IInv, Typed, Expected, Whole, ServesEveryRow, Exists, Table, TableRecord
<1> QED
  BY <1>1, <1>2, <1>3, Invariance, PTL DEF Spec
=============================================================================
