---------------------------- MODULE LoginLimiter ----------------------------
(***************************************************************************)
(* LoginLimiter: loginHandler admits a few logins at a time, asks the      *)
(* limiter whether their network source has failed too often, and only     *)
(* after reading the body and hashing the password tells it what came of   *)
(* it.  Between the question and the answer other logins of the source go  *)
(* through the same steps.                                                 *)
(***************************************************************************)
EXTENDS Naturals, FiniteSets

CONSTANTS
    Logins,          \* requests that may be under way, used again
    Origins,         \* network sources of requests
    MaxFailures,     \* maxLoginFailures
    Slots,           \* maxConcurrentLogins, the capacity of loginSem
    Cooldown         \* loginCooldown, in ticks of the clock

LimiterAssumption ==
    /\ IsFiniteSet(Logins)
    /\ MaxFailures \in Nat \ {0} /\ Slots \in Nat \ {0} /\ Cooldown \in Nat \ {0}

VARIABLES
    failures,   \* buckets: failures of an origin, 0 without a bucket
    age,        \* ticks since its lastFailure, up to Cooldown
    loginSem,   \* slots in use
    at,         \* where a login is
    from        \* its network source

vars == <<failures, age, loginSem, at, from>>

Places == {"away", "admitted", "checked", "answered"}

\* No login is under way and no source has failed.
Init ==
    /\ failures = [o \in Origins |-> 0]
    /\ age = [o \in Origins |-> Cooldown]
    /\ loginSem = 0
    /\ at = [l \in Logins |-> "away"]
    /\ from \in [Logins -> Origins]

-----------------------------------------------------------------------------
\* Mutant: logins wait for no slot.
AdmitAll(l, o) ==
    /\ at[l] = "away"
    /\ loginSem' = loginSem
    /\ at' = [at EXCEPT ![l] = "admitted"]
    /\ from' = [from EXCEPT ![l] = o]
    /\ UNCHANGED <<failures, age>>

\* A login that finds no slot is refused at once and changes nothing.
Admit(l, o) ==
    /\ at[l] = "away"
    /\ loginSem < Slots
    /\ loginSem' = loginSem + 1
    /\ at' = [at EXCEPT ![l] = "admitted"]
    /\ from' = [from EXCEPT ![l] = o]
    /\ UNCHANGED <<failures, age>>

Move(l, place) ==
    /\ at' = [at EXCEPT ![l] = place]
    /\ UNCHANGED <<loginSem, from>>

Blocked(o) == failures[o] >= MaxFailures /\ age[o] < Cooldown

\* check
Check(l) ==
    /\ at[l] = "admitted"
    /\ Move(l, IF Blocked(from[l]) THEN "answered" ELSE "checked")
    /\ UNCHANGED <<failures, age>>

\* The buckets after a failure: those whose cooldown is over are dropped first,
\* the one of the origin among them.
Swept == [p \in Origins |-> IF age[p] >= Cooldown THEN 0 ELSE failures[p]]

\* Mutant: blocked sources stay in their buckets for ever.
RecordFailureUnswept(o) ==
    /\ failures' = [failures EXCEPT ![o] = @ + 1]
    /\ age' = [age EXCEPT ![o] = 0]

RecordFailure(o) ==
    /\ failures' = [Swept EXCEPT ![o] = @ + 1]
    /\ age' = [age EXCEPT ![o] = 0]

Reset(o) ==
    /\ failures' = [failures EXCEPT ![o] = 0]
    /\ age' = [age EXCEPT ![o] = Cooldown]

\* A wrong password or code.
Wrong(l) ==
    /\ at[l] = "checked"
    /\ RecordFailure(from[l])
    /\ Move(l, "answered")

\* A login that succeeds.
Right(l) ==
    /\ at[l] = "checked"
    /\ Reset(from[l])
    /\ Move(l, "answered")

\* A body that cannot be read, a challenge that has expired, or a password that is
\* right but not enough: the limiter is told nothing.
Undecided(l) ==
    /\ at[l] = "checked"
    /\ Move(l, "answered")
    /\ UNCHANGED <<failures, age>>

\* The handler returns.
Leave(l) ==
    /\ at[l] = "answered"
    /\ loginSem' = loginSem - 1
    /\ at' = [at EXCEPT ![l] = "away"]
    /\ UNCHANGED <<failures, age, from>>

Tick ==
    /\ \E o \in Origins : age[o] < Cooldown
    /\ age' = [o \in Origins |-> IF age[o] < Cooldown THEN age[o] + 1 ELSE age[o]]
    /\ UNCHANGED <<failures, loginSem, at, from>>

Step(l) ==
    \/ \E o \in Origins : Admit(l, o)
    \/ Check(l)
    \/ Wrong(l)
    \/ Right(l)
    \/ Undecided(l)
    \/ Leave(l)

Next == Tick \/ \E l \in Logins : Step(l)

Spec == Init /\ [][Next]_vars

-----------------------------------------------------------------------------
TypeOK ==
    /\ failures \in [Origins -> Nat]
    /\ age \in [Origins -> 0 .. Cooldown]
    /\ loginSem \in 0 .. Slots
    /\ at \in [Logins -> Places]
    /\ from \in [Logins -> Origins]

\* A source is never counted more failures than the limit and the logins that may
\* pass the check beside the one that reaches it, however they interleave: the
\* check and the count are separate critical sections of the limiter.
FailuresAreBounded == \A o \in Origins : failures[o] <= MaxFailures + Slots - 1
=============================================================================
