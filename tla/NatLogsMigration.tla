-------------------------- MODULE NatLogsMigration --------------------------
(***************************************************************************)
(* NatLogsMigration: at start-up EnsureTables creates the tables that are  *)
(* missing and then brings nat_logs to the partitioned dual-stack schema:  *)
(* its rows are copied to a replacement, counted, and the two tables are   *)
(* swapped by renaming.  An error ends the process, the process may stop   *)
(* between any two statements, and the service manager starts it again.    *)
(*                                                                         *)
(* A table is a record of its schema and its rows; `tables' maps the names *)
(* that exist to them.                                                     *)
(***************************************************************************)
EXTENDS Naturals, FiniteSets

CONSTANTS
    Rows,          \* log rows, of one (source_id, log_date) or several
    StopsInSwap,   \* whether the server may stop between two renames of a statement
    MaxFaults      \* bound on stops and failed statements

ASSUME RowsAssumption == IsFiniteSet(Rows)
ASSUME FaultsAssumption == StopsInSwap \in BOOLEAN /\ MaxFaults \in Nat

TableNames == {"nat_logs", "nat_logs_dual_stack", "nat_logs_ipv4_backup",
               "nat_logs_source_date"}

\* IPv4 addresses, IPv6 addresses in other partitions, and the schema of today.
Schemas == {"ipv4", "unpartitioned", "dual", "mixed"}

VARIABLES
    tables,     \* the tables there are
    at,         \* the statement the process is at
    logged,     \* the rows that have been imported so far
    faults      \* stops and failed statements so far

vars == <<tables, at, logged, faults>>

Table(schema, rows) == [schema |-> schema, rows |-> rows]

\* The database as an older version, or nothing, has left it.
Init ==
    /\ \E schema \in Schemas, rows \in SUBSET Rows, old \in SUBSET {"nat_logs_source_date"} :
         /\ logged = rows
         /\ tables \in {[n \in {"nat_logs"} \union old |->
                            Table(schema, IF n = "nat_logs" THEN rows ELSE {})],
                        [n \in {} |-> Table("dual", {})]}
         /\ DOMAIN tables = {} => rows = {}
    /\ at = "ddl"
    /\ faults = 0

Exists(n) == n \in DOMAIN tables
Goto(from, to) == at = from /\ at' = to

CreateTable(n) == [m \in DOMAIN tables \union {n} |->
                      IF Exists(m) THEN tables[m] ELSE Table("dual", {})]
DropTable(n) == [m \in DOMAIN tables \ {n} |-> tables[m]]
RenameTable(old, new) == [m \in (DOMAIN tables \ {old}) \union {new} |->
                             IF m = new THEN tables[old] ELSE tables[m]]

-----------------------------------------------------------------------------

\* CREATE TABLE IF NOT EXISTS nat_logs.
EnsureNatLogs ==
    /\ Goto("ddl", "inspect")
    /\ tables' = CreateTable("nat_logs")
    /\ UNCHANGED <<logged, faults>>

\* Mutant: only the address columns are looked at.
HasIPv6Columns == tables["nat_logs"].schema \in {"dual", "unpartitioned"}

IsMigrated == tables["nat_logs"].schema = "dual"

\* Columns nobody knows, or tables an operator has to look at.
IsRefused ==
    \/ tables["nat_logs"].schema = "mixed"
    \/ Exists("nat_logs_source_date")
    \/ Exists("nat_logs_ipv4_backup")

\* The schema and the leftovers decide: nothing to do, an error, a replacement to
\* drop, or a start from scratch.
Inspect ==
    /\ at = "inspect"
    /\ at' = IF IsMigrated THEN "serving"
             ELSE IF IsRefused THEN "refused"
             ELSE IF Exists("nat_logs_dual_stack") THEN "drop" ELSE "create"
    /\ UNCHANGED <<tables, logged, faults>>

\* Mutant: the replacement of an interrupted migration stays.
KeepReplacement == Goto("drop", "create") /\ UNCHANGED <<tables, logged, faults>>

DropReplacement ==
    /\ Goto("drop", "create")
    /\ tables' = DropTable("nat_logs_dual_stack")
    /\ UNCHANGED <<logged, faults>>

CreateReplacement ==
    /\ at = "create"
    /\ IF Exists("nat_logs_dual_stack")
       THEN at' = "refused" /\ UNCHANGED tables
       ELSE at' = "copy" /\ tables' = CreateTable("nat_logs_dual_stack")
    /\ UNCHANGED <<logged, faults>>

Replacement(rows) == [tables EXCEPT !["nat_logs_dual_stack"].rows = rows]

Copy ==
    /\ Goto("copy", "validate")
    /\ tables' = Replacement(tables["nat_logs"].rows)
    /\ UNCHANGED <<logged, faults>>

\* The copy fails, or the process stops, when some of the blocks are written.
CopyFails ==
    /\ at = "copy"
    /\ faults < MaxFaults
    /\ faults' = faults + 1
    /\ \E rows \in SUBSET tables["nat_logs"].rows : tables' = Replacement(rows)
    /\ at' \in {"refused", "down"}
    /\ UNCHANGED logged

\* The rows are counted, as a whole and per source and date.
Validate ==
    /\ at = "validate"
    /\ at' = IF Cardinality(tables["nat_logs"].rows)
                   = Cardinality(tables["nat_logs_dual_stack"].rows)
             THEN "swap" ELSE "refused"
    /\ UNCHANGED <<tables, logged, faults>>

\* Mutant: the old table is dropped.
DropOld ==
    /\ at = "swap"
    /\ tables' = DropTable("nat_logs")
    /\ at' = "swapped"
    /\ UNCHANGED <<logged, faults>>

\* RENAME TABLE nat_logs TO backup, replacement TO nat_logs: the server renames one
\* table after the other.
RenameOld ==
    /\ Goto("swap", "swapped")
    /\ tables' = RenameTable("nat_logs", "nat_logs_ipv4_backup")
    /\ UNCHANGED <<logged, faults>>

RenameNew ==
    /\ Goto("swapped", "serving")
    /\ tables' = RenameTable("nat_logs_dual_stack", "nat_logs")
    /\ UNCHANGED <<logged, faults>>

-----------------------------------------------------------------------------

\* An import of the running service.
Import(row) ==
    /\ at = "serving"
    /\ row \notin logged
    /\ logged' = logged \union {row}
    /\ tables' = [tables EXCEPT !["nat_logs"].rows = @ \union {row}]
    /\ UNCHANGED <<at, faults>>

\* A statement fails, which ends the process, or the process or the server stops.
\* A statement the server has begun is finished though the process stops.
Fault ==
    /\ at \notin {"refused", "down"}
    /\ at = "swapped" => StopsInSwap
    /\ faults < MaxFaults
    /\ faults' = faults + 1
    /\ at' \in {"down"} \union (IF at = "serving" THEN {} ELSE {"refused"})
    /\ UNCHANGED <<tables, logged>>

\* The service manager starts the process again.
Restart ==
    /\ at \in {"refused", "down"}
    /\ at' = "ddl"
    /\ UNCHANGED <<tables, logged, faults>>

Start ==
    \/ EnsureNatLogs \/ Inspect
    \/ DropReplacement \/ CreateReplacement \/ Copy \/ Validate
    \/ RenameOld \/ RenameNew
    \/ Restart

Next ==
    \/ Start
    \/ CopyFails
    \/ Fault
    \/ \E row \in Rows : Import(row)

Spec == Init /\ [][Next]_vars

\* The process goes on, and is started again when it has ended.
FairSpec == Spec /\ WF_vars(Start)

-----------------------------------------------------------------------------
(* Properties. *)

\* Every variable has its type, and at most one of the leftovers is there while the
\* process works on the replacement.
TypeOK ==
    /\ DOMAIN tables \subseteq TableNames
    /\ \A n \in DOMAIN tables : tables[n].schema \in Schemas /\ tables[n].rows \subseteq Rows
    /\ logged \subseteq Rows
    /\ faults \in 0..MaxFaults
    /\ at \in {"copy", "validate", "swap"} =>
          Exists("nat_logs_dual_stack") /\ ~Exists("nat_logs_ipv4_backup")

\* The service runs only on a migrated nat_logs that holds every row ever imported,
\* whatever was interrupted before.
ServesEveryRow ==
    at = "serving" => tables["nat_logs"] = Table("dual", logged)

\* A row that has been imported stays in nat_logs or in the backup; in particular
\* the replacement is never the only table that has it.
NothingIsDestroyed ==
    \A row \in logged : \E n \in {"nat_logs", "nat_logs_ipv4_backup"} :
        Exists(n) /\ row \in tables[n].rows

\* A database without leftovers of another kind of migration is served in the end.
Migratable == ~Exists("nat_logs_source_date") /\
              (Exists("nat_logs") => tables["nat_logs"].schema # "mixed")
IsServed == Migratable => <>(at = "serving")
=============================================================================
