---------------------------- MODULE NatLogQuery ----------------------------
(***************************************************************************)
(* NatLogQuery: a client pages through the logs of a range by cursor.      *)
(* Each request takes a slot, reads the states of the dates, counts and    *)
(* reads a page in statements of their own, while imports drop, load and   *)
(* finish dates.                                                           *)
(***************************************************************************)
EXTENDS Integers, FiniteSets, Sequences

CONSTANTS
    None,
    Clients,         \* clients, each of which pages through one query at a time
    Rows,            \* rows of the archives: [date, source, ts, pos, ips]
    Requests,        \* queries: [start, end, source, ip]
    DayLength,       \* ticks of a day
    UnfilteredSpan,  \* maxUnfilteredQuerySpan
    FilteredSpan,    \* maxFilteredQuerySpan
    PageSize,
    QuerySlots,      \* capacity of querySem
    MaxImports       \* bound on imports begun

Statuses == {"importing", "ready", "failed"}

\* A line of a file, which pos counts, makes one row.
QueryAssumption ==
    /\ DayLength \in Nat \ {0} /\ PageSize \in Nat \ {0} /\ QuerySlots \in Nat \ {0}
    /\ UnfilteredSpan \in Nat /\ FilteredSpan \in Nat /\ MaxImports \in Nat
    /\ IsFiniteSet(Rows) /\ IsFiniteSet(Clients) /\ None \notin Rows /\ None \notin Statuses
    /\ \A r \in Rows : r.date \in Nat /\ r.source \in Nat /\ r.ts \in Nat /\ r.pos \in Nat
    /\ \A r, s \in Rows : r.ts = s.ts /\ r.source = s.source /\ r.pos = s.pos => r = s
    /\ \A q \in Requests : q.start \in Nat /\ q.end \in Nat

VARIABLES
    stored,        \* rows of nat_logs
    dateStatus,    \* status of a source's date in ingest_dates, None without a row
    importer,      \* where the import of a source's date is
    imports,
    querySem,      \* slots in use
    client         \* what a client has sent and received

qvars == <<stored, dateStatus, importer, imports, querySem, client>>

Dates == {<<r.source, r.date>> : r \in Rows}
RowsOf(d) == {r \in Rows : <<r.source, r.date>> = d}

\* at: between requests or in the steps of one; request: the query; cursor: that of
\* the last answer; states: the statuses read; total: the count; answer: the pages returned so
\* far; standing: rows that every page might have returned.
NoQuery == [at |-> "idle", request |-> None, cursor |-> None, states |-> None,
            total |-> 0, answer |-> <<>>, standing |-> {}]

\* Some dates have been imported.
QueryInit ==
    /\ dateStatus \in [Dates -> {None, "ready"}]
    /\ stored = {r \in Rows : dateStatus[<<r.source, r.date>>] = "ready"}
    /\ importer = [d \in Dates |-> "idle"]
    /\ imports = 0
    /\ querySem = 0
    /\ client = [c \in Clients |-> NoQuery]

-----------------------------------------------------------------------------
\* Imports, as far as a query can tell.  The rows go before the status changes.
Drop(d) ==
    /\ importer[d] = "idle" /\ imports < MaxImports
    /\ imports' = imports + 1
    /\ stored' = stored \ RowsOf(d)
    /\ importer' = [importer EXCEPT ![d] = "dropped"]
    /\ UNCHANGED <<dateStatus, querySem, client>>

Importing(d) ==
    /\ importer[d] = "dropped"
    /\ dateStatus' = [dateStatus EXCEPT ![d] = "importing"]
    /\ importer' = [importer EXCEPT ![d] = "loading"]
    /\ UNCHANGED <<stored, imports, querySem, client>>

Load(d, r) ==
    /\ importer[d] = "loading" /\ r \in RowsOf(d) \ stored
    /\ stored' = stored \cup {r}
    /\ UNCHANGED <<dateStatus, importer, imports, querySem, client>>

Finish(d) ==
    /\ importer[d] = "loading"
    /\ \/ RowsOf(d) \subseteq stored /\ dateStatus' = [dateStatus EXCEPT ![d] = "ready"]
       \/ dateStatus' = [dateStatus EXCEPT ![d] = "failed"]
    /\ importer' = [importer EXCEPT ![d] = "idle"]
    /\ UNCHANGED <<stored, imports, querySem, client>>

-----------------------------------------------------------------------------
\* BuildVisibleRanges and BuildQuerySQL.
Day(ts) == ts \div DayLength

HasFilters(q) == q.source # None \/ q.ip # None

\* Mutant: the last tick of a day is left out.
DayEndEarly(day) == (day + 1) * DayLength - 2

\* The last tick of a day.
DayEnd(day) == (day + 1) * DayLength - 1

Asked(q) == {d \in Dates : d[2] \in Day(q.start) .. Day(q.end) /\ q.source \in {None, d[1]}}

\* The part of a day that is asked for.
From(q, day) == IF q.start > day * DayLength THEN q.start ELSE day * DayLength
To(q, day) == IF q.end < DayEnd(day) THEN q.end ELSE DayEnd(day)

\* Dates whose rows are shown.  No import ever writes max_visible_timestamp, so one that
\* is going on shows nothing.
Queried(q, states) == {d \in Asked(q) : states[d] = "ready"}

\* Days of which the answer says that they are not, or not all, shown: no source has a
\* status for them, or one has another than ready.
SkippedDays(q, states) ==
    {day \in Day(q.start) .. Day(q.end) :
        LET known == {d \in Asked(q) : d[2] = day /\ states[d] # None}
        IN  known = {} \/ \E d \in known : states[d] # "ready"}

Matches(q, r) ==
    /\ q.source \in {None, r.source}
    /\ q.ip = None \/ q.ip \in r.ips

Selected(q, states) ==
    {r \in stored : /\ <<r.source, r.date>> \in Queried(q, states)
                    /\ r.ts \in From(q, r.date) .. To(q, r.date)
                    /\ Matches(q, r)}

\* The order of pages: timestamp, source_id, and the position in source_file.
Before(a, b) ==
    \/ a.ts < b.ts
    \/ a.ts = b.ts /\ a.source < b.source
    \/ a.ts = b.ts /\ a.source = b.source /\ a.pos < b.pos

\* Mutant: rows of the cursor's second are passed over.
AfterTime(r, cursor) == cursor = None \/ r.ts > cursor.ts

\* Mutant: the row of the cursor is returned again.
AfterOrAt(r, cursor) == cursor = None \/ ~Before(r, cursor)

After(r, cursor) == cursor = None \/ Before(cursor, r)

\* The rows that are left, and those of them that LIMIT makes the next page.
Left(q, states, cursor) == {r \in Selected(q, states) : After(r, cursor)}
Page(rows) == {r \in rows : Cardinality({s \in rows : Before(s, r)}) < PageSize}

LastOf(page) == CHOOSE r \in page : \A s \in page : ~Before(r, s)

-----------------------------------------------------------------------------
\* validateQueryProtection
Admissible(q) ==
    q.end >= q.start /\ q.end - q.start <= IF HasFilters(q) THEN FilteredSpan ELSE UnfilteredSpan

Client(c, new) ==
    /\ client' = [client EXCEPT ![c] = new]
    /\ UNCHANGED <<stored, dateStatus, importer, imports>>

ReturnSlot == querySem' = querySem - 1

\* A request that finds no slot is refused and changes nothing.
Ask(c, q) ==
    /\ \/ client[c].at = "idle" /\ Admissible(q)
       \/ client[c].at = "more" /\ q = client[c].request
    /\ querySem < QuerySlots
    /\ querySem' = querySem + 1
    /\ Client(c, [client[c] EXCEPT !.at = "asked", !.request = q])

ListDateStates(c) ==
    /\ client[c].at = "asked"
    /\ UNCHANGED querySem
    /\ Client(c, [client[c] EXCEPT !.at = "listed", !.states = dateStatus])

CountNATLogs(c) ==
    LET q == client[c].request IN
    /\ client[c].at = "listed"
    /\ Queried(q, client[c].states) # {}
    /\ UNCHANGED querySem
    /\ Client(c, [client[c] EXCEPT !.at = "counted",
                                   !.total = Cardinality(Selected(q, client[c].states))])

\* Without a queried date the answer is empty.
NothingQueried(c) ==
    /\ client[c].at = "listed"
    /\ Queried(client[c].request, client[c].states) = {}
    /\ ReturnSlot
    /\ Client(c, NoQuery)

\* The page is returned, with its last row as the cursor if there are more: a row more than
\* a page was read to see.
QueryNATLogs(c) ==
    LET k    == client[c]
        rows == Left(k.request, k.states, k.cursor)
        now  == Selected(k.request, k.states)
    IN  /\ k.at = "counted"
        /\ ReturnSlot
        /\ Client(c, [k EXCEPT !.at = IF Cardinality(rows) > PageSize THEN "more" ELSE "end",
                               !.cursor = IF Cardinality(rows) > PageSize THEN LastOf(Page(rows)) ELSE None,
                               !.answer = Append(@, Page(rows)),
                               !.standing = IF k.cursor = None THEN now ELSE @ \cap now])

\* A statement fails or the time of the query is over; the client may ask again.
RequestFails(c) ==
    /\ client[c].at \in {"asked", "listed", "counted"}
    /\ ReturnSlot
    /\ Client(c, IF client[c].cursor = None THEN NoQuery
                 ELSE [client[c] EXCEPT !.at = "more"])

\* The client has what it wants.
Stop(c) ==
    /\ client[c].at \in {"more", "end"}
    /\ UNCHANGED querySem
    /\ Client(c, NoQuery)

QueryNext ==
    \/ \E d \in Dates : Drop(d) \/ Importing(d) \/ Finish(d) \/ \E r \in Rows : Load(d, r)
    \/ \E c \in Clients :
         \/ \E q \in Requests : Ask(c, q)
         \/ ListDateStates(c) \/ CountNATLogs(c) \/ NothingQueried(c) \/ QueryNATLogs(c)
         \/ RequestFails(c) \/ Stop(c)

QuerySpec == QueryInit /\ [][QueryNext]_qvars

-----------------------------------------------------------------------------
ClientState ==
    [at : {"idle", "asked", "listed", "counted", "more", "end"},
     request : Requests \cup {None}, cursor : Rows \cup {None},
     states : [Dates -> Statuses \cup {None}] \cup {None}, total : Nat,
     answer : Seq(SUBSET Rows), standing : SUBSET Rows]

QueryTypeOK ==
    /\ stored \subseteq Rows
    /\ dateStatus \in [Dates -> Statuses \cup {None}]
    /\ importer \in [Dates -> {"idle", "dropped", "loading"}]
    /\ imports \in 0 .. MaxImports
    /\ querySem \in 0 .. QuerySlots
    /\ client \in [Clients -> ClientState]

\* Paging never returns a row twice, although rows come and go between the pages and
\* several rows share a second.
NoRowTwice ==
    \A c \in Clients : \A i, j \in DOMAIN client[c].answer :
        i # j => client[c].answer[i] \cap client[c].answer[j] = {}

Returned(c) == UNION {client[c].answer[i] : i \in DOMAIN client[c].answer}

\* A row that every page of a query might have returned is in one of them once the pages
\* have passed it; at the end all of these rows are there.
StandingRowsAreReturned ==
    \A c \in Clients : \A r \in client[c].standing :
        ~After(r, client[c].cursor) \/ client[c].at = "end" => r \in Returned(c)

\* When no day is reported as skipped, the total counts every row of the range that is
\* stored under its own day, of the sources whose dates were known when the request
\* looked: nothing at the seam of two days is left out or counted for both.
TotalIsWhole ==
    [][\A c \in Clients : client[c].at = "listed" /\ client'[c].at = "counted" =>
          LET q == client[c].request
              states == client[c].states
          IN  SkippedDays(q, states) = {} =>
              client'[c].total =
                  Cardinality({r \in stored : /\ r.ts \in q.start .. q.end
                                              /\ Day(r.ts) = r.date
                                              /\ states[<<r.source, r.date>>] # None
                                              /\ Matches(q, r)})]_qvars
=============================================================================
