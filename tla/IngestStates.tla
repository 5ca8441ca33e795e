--------------------------- MODULE IngestStates ---------------------------
(***************************************************************************)
(* Versioned ingest-state rows of fwlog (tables ingest_dates and           *)
(* ingest_files).  Rows are only ever inserted; every reader picks one row *)
(* per key by (updated_at, status priority).  This module holds the order  *)
(* on rows, what a reader sees, and the repairs that run at start-up.      *)
(* ReplacingMergeTree may drop a row once a newer one is there; no reader  *)
(* but the file repair can tell, and that one is given the choice.         *)
(*                                                                         *)
(* Times are whole seconds: updated_at is bound with second precision, so  *)
(* the time of a row is its time.Time truncated to seconds, and            *)
(* terminalStateTimestamp (truncate the previous time, add one second,     *)
(* take the later of that and now) is After below on those seconds.        *)
(* Neither the retry counter nor the error text is read by any decision    *)
(* of the code, and both are left out of a row.                            *)
(***************************************************************************)
EXTENDS Integers

Statuses == {"importing", "ready", "no_data", "failed"}

\* Statuses with which an import of the date counts as complete.
Done == {"ready", "no_data"}

DateRow == [status : Statuses, total : Nat, done : Nat, rows : Nat, at : Nat]
FileRow == [status : Statuses, rows : Nat, at : Nat]

Priority(status) ==
    CASE status = "failed"    -> 4
      [] status \in Done      -> 3
      [] status = "importing" -> 1

\* r sorts strictly before s in ORDER BY updated_at DESC, priority DESC.
Newer(r, s) ==
    \/ r.at > s.at
    \/ r.at = s.at /\ Priority(r.status) > Priority(s.status)

IsLatest(r, rows) == r \in rows /\ \A s \in rows : ~Newer(s, r)

\* The row a reader gets.  Only importing rows of one second tie on both sort
\* keys, and a reader of the status or of the time treats those alike; the
\* start-up repairs also copy the counters, and take any of them.
Latest(rows) == CHOOSE r \in rows : IsLatest(r, rows)

HasStatus(rows, statuses) == rows # {} /\ Latest(rows).status \in statuses

\* Mutant: the later time may equal the earlier one.
AfterOrSame(previous, current) == IF current > previous THEN current ELSE previous

\* terminalStateTimestamp(previous, current).
After(previous, current) ==
    IF current > previous THEN current ELSE previous + 1

\* dateStateTimestampAfterLatest and fileStateTimestampAfterLatest: a first
\* row keeps the clock, a later one is pushed past the row a reader sees.
AfterLatest(rows, current) ==
    IF rows = {} THEN current ELSE After(Latest(rows).at, current)

-----------------------------------------------------------------------------
(* Start-up repairs: INSERT ... SELECT ... HAVING over one key. *)

\* Mutant: any importing row with files will do.
IsFullOrPartial(r) == r.status = "importing" /\ r.total > 0

\* progress_pct >= 100 AND files_total > 0 AND files_done >= files_total
IsFull(r) == r.status = "importing" /\ r.total > 0 /\ r.done >= r.total

\* A date whose newest row is a full importing row, newer than every failed
\* row, becomes ready one second after the database clock.
FinishesFull(rows) ==
    \E r \in rows : /\ IsFull(r)
                    /\ \A s \in rows : /\ s.at <= r.at
                                       /\ s.status = "failed" => s.at < r.at

FinishedFull(rows, clock) ==
    IF FinishesFull(rows)
    THEN {rows \union {[r EXCEPT !.status = "ready", !.at = clock + 1]} :
            r \in {q \in rows : IsLatest(q, rows)}}
    ELSE {rows}

\* A ready date with files but without rows becomes no_data.
EmptyReady(rows) ==
    HasStatus(rows, {"ready"}) /\ Latest(rows).rows = 0 /\ Latest(rows).total > 0

ClearEmpty(rows) ==
    IF EmptyReady(rows)
    THEN rows \union
           {[Latest(rows) EXCEPT !.status = "no_data", !.at = Latest(rows).at + 1]}
    ELSE rows

\* The file repair compares rows by priority alone, and background merges may
\* have dropped any row but the newest: any row that the newest does not
\* outrank may decide.  The new row is one second after the newest.
Decisive(rows) ==
    {r \in rows : Priority(Latest(rows).status) <= Priority(r.status)}

EmptyFile(r) == r.status = "ready" /\ r.rows = 0

MayClearFile(rows) == \E r \in Decisive(rows) : EmptyFile(r)
MayKeepFile(rows)  == rows # {} => \E r \in Decisive(rows) : ~EmptyFile(r)

ClearFile(rows) ==
    rows \union {[status |-> "no_data", rows |-> 0, at |-> Latest(rows).at + 1]}
=============================================================================
