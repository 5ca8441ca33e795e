------------------------------ MODULE ScanPlan ------------------------------
(***************************************************************************)
(* ScanPlan: the dashboard announces the next automatic scan with one      *)
(* computation, the scheduler finds it due with another.  Time is counted  *)
(* in seconds; the schedule is daily clocks, or an interval from midnight. *)
(***************************************************************************)
EXTENDS Integers, Sequences, FiniteSets, FiniteSetsExt

CONSTANTS
    None,
    DaySeconds, MinuteSeconds,
    DefaultInterval, \* the interval of the plan when the setting is no positive number
    Schedules,       \* settings: [clocks, interval]; no clocks is mode interval
    LastSecond       \* bound on the clock

\* Clocks are in the order of their texts, which need not be that of the times; an interval
\* is any number of seconds, 0 where the setting is no positive number.
PlanAssumption ==
    /\ {DaySeconds, MinuteSeconds, DefaultInterval} \subseteq Nat \ {0}
    /\ LastSecond \in Nat /\ LastSecond >= DaySeconds - 1
    /\ None \notin Nat
    /\ \A s \in Schedules : s.clocks \in Seq(0 .. DaySeconds - 1) /\ s.interval \in Nat

VARIABLES
    schedule,      \* auto_scan_mode, auto_scan_times and auto_scan_interval_sec
    second,        \* the time
    lastScan,      \* last_auto_scan_at, None before the first scan
    announced,     \* next_auto_scan_at as the client saw it last
    announcedAt    \* when it saw it

pvars == <<schedule, second, lastScan, announced, announcedAt>>

PlanInit ==
    /\ schedule \in Schedules
    /\ second \in 0 .. DaySeconds - 1
    /\ lastScan = None /\ announced = None /\ announcedAt = None

Midnight(t) == t - (t % DaySeconds)
Daily(s) == s.clocks # <<>>

-----------------------------------------------------------------------------
\* buildDailyAutoScanPlan: the first clock of the list still to come, or its first tomorrow.
NextDaily(s, t) ==
    LET later == {i \in DOMAIN s.clocks : Midnight(t) + s.clocks[i] > t}
    IN  IF later # {} THEN Midnight(t) + s.clocks[Min(later)]
        ELSE Midnight(t) + DaySeconds + s.clocks[1]

PlanInterval(s) == IF s.interval = 0 THEN DefaultInterval ELSE s.interval

\* Mutant: an interval from now on.
IntervalFromNow(s, t) == t + PlanInterval(s)

\* buildIntervalAutoScanPlan: the end of the step that has begun, past midnight if need be.
NextInterval(s, t) ==
    Midnight(t) + ((t - Midnight(t)) \div PlanInterval(s) + 1) * PlanInterval(s)

NextAt(s, t) == IF Daily(s) THEN NextDaily(s, t) ELSE NextInterval(s, t)

\* dueIntervalAutoScanTime takes no interval below a minute.
DueInterval(s) == IF s.interval < MinuteSeconds THEN MinuteSeconds ELSE s.interval

\* The slots of this day: every clock; or the start of the step since midnight, of a valid interval.
DaySlots(s, t) ==
    IF Daily(s) THEN [i \in DOMAIN s.clocks |-> Midnight(t) + s.clocks[i]]
    ELSE IF s.interval = 0 THEN <<>>
    ELSE <<Midnight(t) + ((t - Midnight(t)) \div DueInterval(s)) * DueInterval(s)>>

\* Those that have come and are newer than the last scan.
DueSlots(s, t) ==
    {i \in DOMAIN DaySlots(s, t) :
        /\ DaySlots(s, t)[i] <= t
        /\ lastScan = None \/ lastScan < DaySlots(s, t)[i]}

\* DueAutoScanTime: the last of them in the list.
DueTime(s, t) == DaySlots(s, t)[Max(DueSlots(s, t))]

-----------------------------------------------------------------------------
\* withAutoScanPlan
Announce ==
    /\ announced' = NextAt(schedule, second)
    /\ announcedAt' = second
    /\ UNCHANGED <<schedule, second, lastScan>>

\* The scheduler starts the scan that is due; the slot is recorded when it is done.
Scan ==
    /\ DueSlots(schedule, second) # {}
    /\ lastScan' = DueTime(schedule, second)
    /\ UNCHANGED <<schedule, second, announced, announcedAt>>

NextSecond ==
    /\ second < LastSecond
    /\ second' = second + 1
    /\ UNCHANGED <<schedule, lastScan, announced, announcedAt>>

PlanNext == Announce \/ Scan \/ NextSecond

PlanSpec == PlanInit /\ [][PlanNext]_pvars

-----------------------------------------------------------------------------
PlanTypeOK ==
    /\ schedule \in Schedules /\ second \in 0 .. LastSecond
    /\ {lastScan, announced, announcedAt} \subseteq Nat \cup {None}

\* Schedules that both computations read alike: clocks whose texts are in the order of the
\* times, an interval of a minute or more.
Regular(s) ==
    IF Daily(s) THEN \A i, j \in DOMAIN s.clocks : i <= j => s.clocks[i] <= s.clocks[j]
    ELSE s.interval >= MinuteSeconds

\* When the scan that was announced comes.  The scheduler counts an interval anew at midnight,
\* the announcement does not: one that does not divide the day comes at midnight already.
Turn ==
    IF Daily(schedule) \/ DaySeconds % schedule.interval = 0 THEN announced
    ELSE Min({announced, Midnight(announcedAt) + DaySeconds})

\* The scheduler keeps to what was announced, up to the midnight at which an interval that
\* does not divide the day begins anew: until then it finds no slot due that had not come
\* when the plan was made, and at that second it finds exactly this one.
PlanIsKept ==
    announced # None /\ Regular(schedule) =>
        /\ second < Turn =>
              \A i \in DueSlots(schedule, second) : DaySlots(schedule, second)[i] <= announcedAt
        /\ second = Turn /\ (lastScan = None \/ lastScan < Turn) =>
              DueSlots(schedule, second) # {} /\ DueTime(schedule, second) = Turn
=============================================================================
