--------------------------- MODULE ServicesProofs ---------------------------
(***************************************************************************)
(* Proofs about the services that share no state.  Each service has an     *)
(* inductive invariant of its own, kept by its steps and, since they share *)
(* no variable, by those of the others; from it follow the properties that *)
(* the run of MCServices checks.                                           *)
(*                                                                         *)
(* Induction over numbers and lists is by a least counterexample: the sets *)
(* of numbers considered have least elements by WFMin.                     *)
(***************************************************************************)
EXTENDS Services, Integers, Sequences, FiniteSetTheorems, SequenceTheorems, WellFoundedInduction,
        TLAPS

\* A service's operators on sets are those of the library.
LEMMA SameFinite ==
    ASSUME NEW S
    PROVE  Login!IsFiniteSet(S) = IsFiniteSet(S) /\ Logs!IsFiniteSet(S) = IsFiniteSet(S)
BY DEF Login!IsFiniteSet, Logs!IsFiniteSet, IsFiniteSet

LEMMA SameCardinality ==
    ASSUME NEW S
    PROVE  /\ Lines!Cardinality(S) = Cardinality(S) /\ Logs!Cardinality(S) = Cardinality(S)
           /\ Upgrading!Cardinality(S) = Cardinality(S)
BY DEF Lines!Cardinality, Logs!Cardinality, Upgrading!Cardinality, Cardinality

-----------------------------------------------------------------------------
(* Least elements. *)

\* A set of natural numbers has a least one.
LEMMA LeastExists ==
    ASSUME NEW S \in SUBSET Nat, S # {}
    PROVE  \E x \in S : \A y \in S : x <= y
<1> DEFINE below == {ss \in Nat \X Nat : ss[1] < ss[2]}
<1>1. IsWellFoundedOn(below, Nat)
  BY NatLessThanWellFounded DEF OpToRel
<1>2. PICK x \in S : \A y \in S : ~ (<<y, x>> \in below)
  <2> HIDE DEF below
  <2> QED
    BY <1>1, WFMin
<1>3. ASSUME NEW y \in S PROVE x <= y
  <2>1. <<y, x>> \in Nat \X Nat /\ <<y, x>>[1] = y /\ <<y, x>>[2] = x
    OBVIOUS
  <2>2. ~ (<<y, x>>[1] < <<y, x>>[2])
    BY <1>2, <2>1
  <2> QED
    BY <2>1, <2>2
<1> QED
  BY <1>3

\* One with a bound has a greatest.
LEMMA GreatestExists ==
    ASSUME NEW b \in Nat, NEW S \in SUBSET (0 .. b), S # {}
    PROVE  \E x \in S : \A y \in S : y <= x
<1> DEFINE T == {b - x : x \in S}
<1>1. T \in SUBSET Nat /\ T # {}
  <2>1. ASSUME NEW x \in S PROVE b - x \in Nat
    <3>1. x \in 0 .. b
      OBVIOUS
    <3> QED
      BY <3>1
  <2>2. PICK x \in S : TRUE
    OBVIOUS
  <2>3. b - x \in T
    OBVIOUS
  <2> QED
    BY <2>1, <2>3
<1>2. PICK z \in T : \A y \in T : z <= y
  <2> HIDE DEF T
  <2> QED
    BY <1>1, LeastExists
<1>3. PICK x \in S : z = b - x
  BY <1>2
<1>4. ASSUME NEW y \in S PROVE y <= x
  <2>1. b - y \in T
    OBVIOUS
  <2>2. z <= b - y
    BY <1>2, <2>1
  <2> QED
    BY <1>3, <2>2
<1> QED
  BY <1>4

\* What holds of 0 and of the next number holds of all.
LEMMA NatSetInduction ==
    ASSUME NEW S \in SUBSET Nat, 0 \in S, \A n \in S : n + 1 \in S
    PROVE  S = Nat
<1> SUFFICES ASSUME Nat \ S # {} PROVE FALSE
  OBVIOUS
<1>1. PICK x \in Nat \ S : \A y \in Nat \ S : x <= y
  BY LeastExists
<1>2. x # 0 /\ x - 1 \in Nat /\ (x - 1) + 1 = x
  BY <1>1
<1>3. x - 1 \in S
  BY <1>1, <1>2
<1> QED
  BY <1>1, <1>2, <1>3


-----------------------------------------------------------------------------
\* A step of the program is one of a service, or none, for every service.
LEMMA Moves ==
    ASSUME [Next]_vars
    PROVE  /\ part' = part
           /\ [Login!Next]_lv /\ [Cache!CacheNext]_cv /\ [Threat!ThreatNext]_tv
           /\ [Upgrading!UpgradeNext]_uv /\ [Logs!QueryNext]_qv /\ [Plan!PlanNext]_pv
           /\ [Lines!ParserNext]_xv
<1> USE DEF LoginMoves, CacheMoves, ThreatMoves, UpgradeMoves, QueryMoves, PlanMoves, LinesMove
<1>1. CASE UNCHANGED vars
  BY <1>1 DEF vars
<1>2. CASE Next
  <2>1. \/ LoginMoves /\ Login!Next
        \/ CacheMoves /\ Cache!CacheNext
        \/ ThreatMoves /\ Threat!ThreatNext
        \/ UpgradeMoves /\ Upgrading!UpgradeNext
        \/ QueryMoves /\ Logs!QueryNext
        \/ PlanMoves /\ Plan!PlanNext
        \/ LinesMove /\ Lines!ParserNext
    <3> HIDE DEF LoginMoves, CacheMoves, ThreatMoves, UpgradeMoves, QueryMoves, PlanMoves, LinesMove
    <3> QED
      BY <1>2, ZenonT(60) DEF Next, Login!Next, Login!Step, Cache!CacheNext, Cache!RequestStep, Cache!ReloadStep,
         Threat!ThreatNext, Threat!UpdateStep, Threat!FlightStep, Upgrading!UpgradeNext,
         Upgrading!Step, Logs!QueryNext, Plan!PlanNext
  <2> QED
    BY <2>1
<1> QED
  BY <1>1, <1>2
Active == {l \in Logins : at[l] # "away"}
Checked(o) == {l \in Logins : at[l] = "checked" /\ from[l] = o}

\* The failures of o that the limiter still goes by.
Live(o) == IF age[o] < Cooldown THEN failures[o] ELSE 0

\* A slot is in use for every login that is under way.
SlotsAreCounted == loginSem = Cardinality(Active)

\* The failures that count, and those that the logins past the check may add.
RoomIsLeft == \A o \in Origins : Live(o) + Cardinality(Checked(o)) <= MaxFailures + Slots - 1

LoginInv == Login!TypeOK /\ SlotsAreCounted /\ RoomIsLeft /\ Login!FailuresAreBounded

-----------------------------------------------------------------------------
\* Logins are finitely many, so that they can be counted.
LEMMA LoginsAreFinite ==
    ASSUME Login!LimiterAssumption, NEW S \in SUBSET Logins
    PROVE  IsFiniteSet(S) /\ Cardinality(S) \in Nat
BY SameFinite, FS_Subset, FS_CardinalityType DEF Login!LimiterAssumption

\* Some of the logins that hold slots are no more than there are slots.
LEMMA NoMoreThanSlots ==
    ASSUME Login!LimiterAssumption, NEW A \in SUBSET Logins, NEW C \in SUBSET A, Cardinality(A) \in 0 .. Slots
    PROVE  Cardinality(C) \in Nat /\ Cardinality(C) <= Slots
<1>1. IsFiniteSet(A) /\ Cardinality(A) \in Nat /\ Cardinality(C) \in Nat
  BY LoginsAreFinite
<1>2. Cardinality(C) <= Cardinality(A)
  BY <1>1, FS_Subset
<1> QED
  BY <1>1, <1>2 DEF Login!LimiterAssumption

LEMMA InitIsCounted == ASSUME Login!LimiterAssumption PROVE Login!Init => LoginInv
<1> SUFFICES ASSUME Login!Init PROVE LoginInv
  OBVIOUS
<1>1. Login!TypeOK
  BY DEF Login!Init, Login!TypeOK, Login!LimiterAssumption, Login!Places
<1>2. Active = {} /\ \A o \in Origins : Checked(o) = {}
  BY DEF Login!Init, Active, Checked
<1>3. Cardinality({}) = 0
  BY FS_EmptySet
<1>4. SlotsAreCounted
  BY <1>2, <1>3 DEF Login!Init, SlotsAreCounted
<1>5. RoomIsLeft /\ Login!FailuresAreBounded
  BY <1>2, <1>3 DEF Login!Init, RoomIsLeft, Login!FailuresAreBounded, Live, Login!LimiterAssumption
<1> QED
  BY <1>1, <1>4, <1>5 DEF LoginInv

-----------------------------------------------------------------------------
\* A login under way holds one of the slots.
LEMMA ActiveHoldsSlot ==
    ASSUME Login!LimiterAssumption, Login!TypeOK, SlotsAreCounted, NEW l \in Logins, at[l] # "away"
    PROVE  loginSem \in Nat \ {0}
<1>1. IsFiniteSet(Active) /\ Cardinality(Active) \in Nat
  BY LoginsAreFinite DEF Active
<1>2. Active # {}
  BY DEF Active
<1>3. Cardinality(Active) # 0
  BY <1>1, <1>2, FS_EmptySet
<1> QED
  BY <1>1, <1>3 DEF SlotsAreCounted

LEMMA LoginTypeIsKept ==
    ASSUME Login!LimiterAssumption, Login!TypeOK, SlotsAreCounted, [Login!Next]_lv
    PROVE  Login!TypeOK'
<1> USE DEF Login!TypeOK, Login!Places
<1>1. CASE Login!Tick
  BY <1>1 DEF Login!Tick, Login!LimiterAssumption
<1>2. ASSUME NEW l \in Logins, Login!Step(l)
      PROVE  Login!TypeOK'
  <2>1. CASE \E o \in Origins : Login!Admit(l, o)
    BY <2>1 DEF Login!Admit, Login!LimiterAssumption
  <2>2. CASE Login!Check(l)
    BY <2>2 DEF Login!Check, Login!Move
  <2>3. CASE Login!Wrong(l)
    BY <2>3 DEF Login!Wrong, Login!RecordFailure, Login!Swept, Login!Move, Login!LimiterAssumption
  <2>4. CASE Login!Right(l)
    BY <2>4 DEF Login!Right, Login!Reset, Login!Move, Login!LimiterAssumption
  <2>5. CASE Login!Undecided(l)
    BY <2>5 DEF Login!Undecided, Login!Move
  <2>6. CASE Login!Leave(l)
    <3>1. at[l] # "away"
      BY <2>6 DEF Login!Leave
    <3>2. loginSem \in Nat \ {0}
      BY <3>1, ActiveHoldsSlot
    <3> QED
      BY <2>6, <3>2, Login!LimiterAssumption DEF Login!Leave, Login!LimiterAssumption
  <2> QED
    BY <1>2, <2>1, <2>2, <2>3, <2>4, <2>5, <2>6 DEF Login!Step
<1>3. CASE UNCHANGED lv
  BY <1>3 DEF lv
<1> QED
  BY <1>1, <1>2, <1>3 DEF Login!Next

LEMMA SlotsStayCounted ==
    ASSUME Login!LimiterAssumption, Login!TypeOK, SlotsAreCounted, [Login!Next]_lv
    PROVE  SlotsAreCounted'
<1> USE DEF SlotsAreCounted
<1>1. IsFiniteSet(Active) /\ Cardinality(Active) \in Nat
  BY LoginsAreFinite DEF Active
<1>2. ASSUME NEW l \in Logins, NEW o \in Origins, Login!Admit(l, o)
      PROVE  SlotsAreCounted'
  <2>1. Active' = Active \union {l} /\ l \notin Active
    BY <1>2 DEF Login!Admit, Active, Login!TypeOK
  <2>2. Cardinality(Active') = Cardinality(Active) + 1
    BY <1>1, <2>1, FS_AddElement
  <2> QED
    BY <1>2, <2>2 DEF Login!Admit
<1>3. ASSUME NEW l \in Logins, Login!Leave(l)
      PROVE  SlotsAreCounted'
  <2>1. Active' = Active \ {l} /\ l \in Active
    BY <1>3 DEF Login!Leave, Active, Login!TypeOK
  <2>2. Cardinality(Active') = Cardinality(Active) - 1
    BY <1>1, <2>1, FS_RemoveElement
  <2> QED
    BY <1>3, <2>2 DEF Login!Leave
<1>4. ASSUME NEW l \in Logins, Login!Check(l) \/ Login!Wrong(l) \/ Login!Right(l) \/ Login!Undecided(l)
      PROVE  SlotsAreCounted'
  <2>1. Active' = Active /\ loginSem' = loginSem
    BY <1>4 DEF Login!Check, Login!Wrong, Login!Right, Login!Undecided, Login!Move, Active, Login!TypeOK
  <2> QED
    BY <2>1
<1>5. CASE Login!Tick \/ UNCHANGED lv
  <2>1. Active' = Active /\ loginSem' = loginSem
    BY <1>5 DEF Login!Tick, lv, Active
  <2> QED
    BY <2>1
<1> QED
  BY <1>2, <1>3, <1>4, <1>5 DEF Login!Next, Login!Step

-----------------------------------------------------------------------------
\* The bound of one source after a step.
Within(o) ==
    /\ failures[o] <= MaxFailures + Slots - 1
    /\ Live(o) + Cardinality(Checked(o)) <= MaxFailures + Slots - 1

\* Other origins than that of the login that moves keep their logins and what counts.
LEMMA FewerCheckedIsWithin ==
    ASSUME Login!LimiterAssumption, Login!TypeOK, Login!TypeOK', SlotsAreCounted, NEW o \in Origins, Within(o),
           Checked(o)' \subseteq Checked(o), failures'[o] <= failures[o],
           Live(o)' <= Live(o)
    PROVE  Within(o)'
<1>1. Checked(o) \in SUBSET Logins /\ Checked(o)' \in SUBSET Checked(o)
  BY DEF Checked
<1>2. IsFiniteSet(Checked(o)) /\ Cardinality(Checked(o)) \in Nat /\ Cardinality(Checked(o)') \in Nat
  BY <1>1, LoginsAreFinite
<1>3. Cardinality(Checked(o)') <= Cardinality(Checked(o))
  BY <1>1, <1>2, FS_Subset
<1>4. {Live(o), Live(o)', failures[o], failures'[o]} \subseteq Nat
  BY DEF Live, Login!TypeOK
<1> QED
  BY <1>2, <1>3, <1>4 DEF Within, Login!LimiterAssumption

LEMMA BoundIsKept ==
    ASSUME Login!LimiterAssumption, LoginInv, Login!TypeOK', SlotsAreCounted', [Login!Next]_lv, NEW o \in Origins
    PROVE  Within(o)'
<1> USE DEF LoginInv
<1>1. Within(o)
  BY DEF Within, RoomIsLeft, Login!FailuresAreBounded
<1>2. Checked(o) \in SUBSET Logins /\ IsFiniteSet(Checked(o)) /\ Cardinality(Checked(o)) \in Nat
  <2>1. Checked(o) \in SUBSET Logins
    BY DEF Checked
  <2> QED
    BY <2>1, LoginsAreFinite
<1>3. /\ Live(o) \in Nat /\ failures[o] \in Nat /\ age[o] \in 0 .. Cooldown
      /\ Slots \in Nat \ {0} /\ MaxFailures \in Nat \ {0} /\ Cooldown \in Nat \ {0}
  BY DEF Live, Login!TypeOK, Login!LimiterAssumption
<1>4. ASSUME NEW l \in Logins, NEW p \in Origins, Login!Admit(l, p)
      PROVE  Within(o)'
  <2>1. Checked(o)' \subseteq Checked(o)
    BY <1>4 DEF Login!Admit, Checked, Login!TypeOK
  <2>2. failures'[o] = failures[o] /\ Live(o)' = Live(o)
    BY <1>4 DEF Login!Admit, Live
  <2> QED
    BY <1>1, <1>3, <2>1, <2>2, FewerCheckedIsWithin
<1>5. ASSUME NEW l \in Logins, Login!Check(l)
      PROVE  Within(o)'
  <2>1. failures'[o] = failures[o] /\ Live(o)' = Live(o)
    BY <1>5 DEF Login!Check, Live
  <2>2. CASE from[l] = o /\ ~Login!Blocked(o)
    <3>1. Live(o) <= MaxFailures - 1
      BY <1>3, <2>2 DEF Live, Login!Blocked
    <3>2. Cardinality(Checked(o)') \in Nat /\ Cardinality(Checked(o)') <= Slots
      <4>1. Active' \in SUBSET Logins /\ Checked(o)' \in SUBSET Active'
        BY DEF Active, Checked
      <4>2. Cardinality(Active') \in 0 .. Slots
        BY DEF SlotsAreCounted, Login!TypeOK
      <4> QED
        BY <4>1, <4>2, NoMoreThanSlots
    <3> QED
      BY <1>1, <1>3, <2>1, <3>1, <3>2 DEF Within
  <2>3. CASE ~(from[l] = o /\ ~Login!Blocked(o))
    <3>1. Checked(o)' \subseteq Checked(o)
      BY <1>5, <2>3 DEF Login!Check, Login!Move, Checked, Login!TypeOK
    <3> QED
      BY <1>1, <1>3, <2>1, <3>1, FewerCheckedIsWithin
  <2> QED
    BY <2>2, <2>3
<1>6. ASSUME NEW l \in Logins, Login!Wrong(l)
      PROVE  Within(o)'
  <2>1. CASE from[l] = o
    <3>1. Checked(o)' = Checked(o) \ {l} /\ l \in Checked(o)
      BY <1>6, <2>1 DEF Login!Wrong, Login!Move, Checked, Login!TypeOK
    <3>2. Cardinality(Checked(o)') = Cardinality(Checked(o)) - 1
      BY <1>2, <3>1, FS_RemoveElement
    <3>3. failures'[o] = Live(o) + 1 /\ age'[o] = 0
      BY <1>3, <1>6, <2>1 DEF Login!Wrong, Login!RecordFailure, Login!Swept, Live, Login!TypeOK
    <3>4. Live(o)' = Live(o) + 1
      BY <1>3, <3>3 DEF Live
    <3>5. Cardinality(Checked(o)) # 0
      BY <1>2, <3>1, FS_EmptySet
    <3> QED
      BY <1>1, <1>2, <1>3, <3>2, <3>3, <3>4, <3>5 DEF Within
  <2>2. CASE from[l] # o
    <3>1. Checked(o)' \subseteq Checked(o)
      BY <1>6 DEF Login!Wrong, Login!Move, Checked, Login!TypeOK
    <3>2. age'[o] = age[o] /\ failures'[o] = IF age[o] >= Cooldown THEN 0 ELSE failures[o]
      BY <1>6, <2>2 DEF Login!Wrong, Login!RecordFailure, Login!Swept, Login!TypeOK
    <3>3. failures'[o] <= failures[o] /\ Live(o)' <= Live(o)
      BY <1>3, <3>2 DEF Live
    <3> QED
      BY <1>1, <3>1, <3>3, FewerCheckedIsWithin
  <2> QED
    BY <2>1, <2>2
<1>7. ASSUME NEW l \in Logins, Login!Right(l)
      PROVE  Within(o)'
  <2>1. Checked(o)' \subseteq Checked(o)
    BY <1>7 DEF Login!Right, Login!Move, Checked, Login!TypeOK
  <2>2. failures'[o] <= failures[o] /\ Live(o)' <= Live(o)
    BY <1>3, <1>7 DEF Login!Right, Login!Reset, Live, Login!TypeOK
  <2> QED
    BY <1>1, <2>1, <2>2, FewerCheckedIsWithin
<1>8. ASSUME NEW l \in Logins, Login!Undecided(l) \/ Login!Leave(l)
      PROVE  Within(o)'
  <2>1. Checked(o)' \subseteq Checked(o)
    BY <1>8 DEF Login!Undecided, Login!Leave, Login!Move, Checked, Login!TypeOK
  <2>2. failures'[o] <= failures[o] /\ Live(o)' <= Live(o)
    BY <1>3, <1>8 DEF Login!Undecided, Login!Leave, Live
  <2> QED
    BY <1>1, <2>1, <2>2, FewerCheckedIsWithin
<1>9. CASE Login!Tick \/ UNCHANGED lv
  <2>1. Checked(o)' \subseteq Checked(o) /\ failures'[o] = failures[o] /\ age'[o] >= age[o]
    BY <1>3, <1>9 DEF Login!Tick, lv, Checked
  <2>2. age'[o] \in 0 .. Cooldown
    BY DEF Login!TypeOK
  <2>3. Live(o)' <= Live(o)
    BY <1>3, <2>1, <2>2 DEF Live
  <2> QED
    BY <1>1, <1>3, <2>1, <2>3, FewerCheckedIsWithin
<1> QED
  BY <1>4, <1>5, <1>6, <1>7, <1>8, <1>9 DEF Login!Next, Login!Step

-----------------------------------------------------------------------------
LEMMA LoginInvariance == Spec => []LoginInv
<1> USE ServicesAssumption DEF ServicesAssumption
<1>1. Init => LoginInv
  BY InitIsCounted DEF Init
<1>2. LoginInv /\ [Next]_vars => LoginInv'
  <2> SUFFICES ASSUME LoginInv, [Next]_vars PROVE LoginInv'
    OBVIOUS
  <2>1. [Login!Next]_lv
    BY Moves
  <2>2. Login!TypeOK' /\ SlotsAreCounted'
    BY <2>1, LoginTypeIsKept, SlotsStayCounted DEF LoginInv
  <2>3. \A o \in Origins : Within(o)'
    BY <2>1, <2>2, BoundIsKept
  <2> QED
    BY <2>2, <2>3 DEF LoginInv, Within, RoomIsLeft, Login!FailuresAreBounded
<1> QED
  BY <1>1, <1>2, PTL DEF Spec

\* For any number of logins, sources, slots and failures: no source is ever counted
\* more failures than the limit and the logins that may pass the check beside the one
\* that reaches it.
THEOREM LimitHolds == Spec => []FailuresAreBounded
<1>1. LoginInv => FailuresAreBounded
  BY DEF LoginInv, FailuresAreBounded
<1> QED
  BY <1>1, LoginInvariance, PTL
-----------------------------------------------------------------------------
(* ResponseCache. *)

\* Requests under way have a key; only a request that loads an entry of the cache says so.
RequestsAreSound ==
    \A r \in CacheRequests :
        /\ request[r].at # "idle" => request[r].key \in CacheKeys
        /\ request[r].at = "waiting" => request[r].awaits \in CacheRequests
        /\ request[r].cached => request[r].at \in {"loading", "computing"}

\* An entry that is being loaded names the request that loads it.
LoadersAreReal ==
    \A k \in CacheKeys : entries[k].loading # None =>
        /\ entries[k].loading \in CacheRequests
        /\ request[entries[k].loading].cached /\ request[entries[k].loading].key = k

\* A reload in the making knows an engine that was built.
ReloadsAreSound == \A l \in Reloads : reload[l].at = "building" => reload[l].old \in 0 .. engines

\* Unless a reload is between its engine and its clearing, what is computed for the cache
\* is computed with the engine in use.
LoadsAreOfThisEngine ==
    (\A l \in Reloads : reload[l].at # "placed") =>
        \A r \in CacheRequests : request[r].cached /\ request[r].at = "computing" => request[r].got = engine

CacheInv == /\ Cache!CacheTypeOK /\ RequestsAreSound /\ LoadersAreReal /\ ReloadsAreSound
            /\ Cache!SingleFlight /\ LoadsAreOfThisEngine /\ Cache!CacheIsOfThisEngine

LEMMA CacheInitIsSound == ASSUME Cache!CacheAssumption PROVE Cache!CacheInit => CacheInv
<1> SUFFICES ASSUME Cache!CacheInit PROVE CacheInv
  OBVIOUS
<1> USE DEF Cache!CacheInit, Cache!Idle, Cache!NewEntry, Cache!Times, Cache!CacheAssumption
<1>1. Cache!CacheTypeOK
  BY DEF Cache!CacheTypeOK, Cache!Entry, Cache!Request, Cache!Reload
<1>2. RequestsAreSound /\ LoadersAreReal /\ ReloadsAreSound /\ Cache!SingleFlight
  BY DEF RequestsAreSound, LoadersAreReal, ReloadsAreSound, Cache!SingleFlight
<1>3. LoadsAreOfThisEngine /\ Cache!CacheIsOfThisEngine
  BY DEF LoadsAreOfThisEngine, Cache!CacheIsOfThisEngine, Cache!Found
<1> QED
  BY <1>1, <1>2, <1>3 DEF CacheInv

\* A step that gives a request a state of its own type.
LEMMA RequestIsTyped ==
    ASSUME Cache!CacheTypeOK, NEW r \in CacheRequests, NEW x \in Cache!Request,
           request' = [request EXCEPT ![r] = x]
    PROVE  request' \in [CacheRequests -> Cache!Request]
BY DEF Cache!CacheTypeOK

LEMMA ReloadIsTyped ==
    ASSUME Cache!CacheTypeOK, NEW l \in Reloads, NEW x \in Cache!Reload,
           reload' = [reload EXCEPT ![l] = x]
    PROVE  reload' \in [Reloads -> Cache!Reload]
BY DEF Cache!CacheTypeOK

\* The end of a load leaves requests and entries typed.
LEMMA StoredIsTyped ==
    ASSUME Cache!CacheTypeOK, NEW r \in CacheRequests, request[r].cached => request[r].key \in CacheKeys,
           NEW c \in Cache!Entry, request' = Cache!Woken(r), entries' = Cache!Into(r, c)
    PROVE  request' \in [CacheRequests -> Cache!Request] /\ entries' \in [CacheKeys -> Cache!Entry]
<1>1. \A q \in CacheRequests : Cache!Woken(r)[q] \in Cache!Request
  <2> TAKE q \in CacheRequests
  <2>1. Cache!Idle \in Cache!Request
    BY DEF Cache!Idle, Cache!Request
  <2>2. request[q] \in Cache!Request
    BY DEF Cache!CacheTypeOK
  <2>3. [request[q] EXCEPT !.at = "woken", !.awaits = None] \in Cache!Request
    BY <2>2 DEF Cache!Request
  <2> QED
    BY <2>1, <2>2, <2>3 DEF Cache!Woken
<1>2. request' \in [CacheRequests -> Cache!Request]
  BY <1>1 DEF Cache!Woken
<1>3. entries' \in [CacheKeys -> Cache!Entry]
  BY DEF Cache!Into, Cache!CacheTypeOK
<1> QED
  BY <1>2, <1>3

LEMMA CacheTypeIsKept ==
    ASSUME Cache!CacheAssumption, CacheInv, [Cache!CacheNext]_cv
    PROVE  Cache!CacheTypeOK'
<1>0. Cache!CacheTypeOK
  BY DEF CacheInv
<1>1. ASSUME NEW r \in CacheRequests
      PROVE  /\ request[r] \in Cache!Request /\ entries \in [CacheKeys -> Cache!Entry]
             /\ now \in Cache!Times /\ engine \in 0 .. MaxEngines /\ Cache!Idle \in Cache!Request
             /\ request[r].key \in CacheKeys => entries[request[r].key] \in Cache!Entry
  <2>1. engine \in 0 .. MaxEngines
    BY <1>0 DEF Cache!CacheTypeOK, Cache!CacheAssumption
  <2>2. Cache!Idle \in Cache!Request
    BY DEF Cache!Idle, Cache!Request
  <2> QED
    BY <1>0, <2>1, <2>2 DEF Cache!CacheTypeOK
<1>2. ASSUME NEW r \in CacheRequests, Cache!RequestStep(r) PROVE Cache!CacheTypeOK'
  <2>1. SUFFICES request' \in [CacheRequests -> Cache!Request] /\ entries' \in [CacheKeys -> Cache!Entry]
    <3>1. UNCHANGED <<staleOnError, now, engine, engines, reload>>
      BY <1>2 DEF Cache!RequestStep, Cache!Look, Cache!Wait, Cache!Serve, Cache!BeginLoad, Cache!TakeEngine,
                  Cache!StoreValue, Cache!StoreError, Cache!GiveUp
    <3> QED
      BY <1>0, <2>1, <3>1 DEF Cache!CacheTypeOK, Cache!Times
  <2>2. ASSUME NEW k \in CacheKeys, Cache!Look(r, k)
        PROVE  request' \in [CacheRequests -> Cache!Request] /\ UNCHANGED entries
    <3>1. [Cache!Idle EXCEPT !.at = "looked", !.key = k, !.looked = now] \in Cache!Request
      BY <1>1 DEF Cache!Idle, Cache!Request
    <3> QED
      BY <1>0, <2>2, <3>1, RequestIsTyped DEF Cache!Look
  <2>3. ASSUME Cache!Wait(r)
        PROVE  request' \in [CacheRequests -> Cache!Request] /\ UNCHANGED entries
    <3> DEFINE k == request[r].key
    <3>1. k \in CacheKeys
      BY <2>3 DEF Cache!Wait, CacheInv, RequestsAreSound
    <3>2. entries[k].loading \in CacheRequests \cup {None}
      <4>1. entries[k] \in Cache!Entry
        BY <1>1, <3>1
      <4> QED
        BY <4>1 DEF Cache!Entry
    <3>3. [request[r] EXCEPT !.at = "waiting", !.awaits = entries[k].loading] \in Cache!Request
      BY <1>1, <3>2 DEF Cache!Request
    <3>4. request' = [request EXCEPT ![r] = [request[r] EXCEPT !.at = "waiting", !.awaits = entries[k].loading]]
      BY <2>3 DEF Cache!Wait, Cache!Found
    <3> QED
      BY <1>0, <2>3, <3>3, <3>4, RequestIsTyped DEF Cache!Wait
  <2>4. ASSUME Cache!Serve(r) \/ Cache!GiveUp(r)
        PROVE  request' \in [CacheRequests -> Cache!Request] /\ UNCHANGED entries
    BY <1>0, <1>1, <2>4, RequestIsTyped DEF Cache!Serve, Cache!GiveUp
  <2>5. ASSUME Cache!BeginLoad(r)
        PROVE  request' \in [CacheRequests -> Cache!Request] /\ entries' \in [CacheKeys -> Cache!Entry]
    <3> DEFINE k == request[r].key
    <3>1. k \in CacheKeys
      BY <2>5 DEF Cache!BeginLoad, CacheInv, RequestsAreSound
    <3>2. [request[r] EXCEPT !.at = "loading", !.cached = TRUE] \in Cache!Request
      BY <1>1 DEF Cache!Request
    <3>3. [entries[k] EXCEPT !.loading = r] \in Cache!Entry
      <4>1. entries[k] \in Cache!Entry
        BY <1>1, <3>1
      <4> QED
        BY <4>1 DEF Cache!Entry
    <3>4. /\ entries' = [entries EXCEPT ![k] = [entries[k] EXCEPT !.loading = r]]
          /\ request' = [request EXCEPT ![r] = [request[r] EXCEPT !.at = "loading", !.cached = TRUE]]
      BY <2>5 DEF Cache!BeginLoad
    <3>5. request' \in [CacheRequests -> Cache!Request]
      BY <1>0, <3>2, <3>4, RequestIsTyped
    <3> HIDE DEF k
    <3> QED
      BY <1>1, <3>1, <3>3, <3>4, <3>5
  <2>6. ASSUME Cache!TakeEngine(r)
        PROVE  request' \in [CacheRequests -> Cache!Request] /\ UNCHANGED entries
    <3>1. [request[r] EXCEPT !.at = "computing", !.got = engine] \in Cache!Request
      BY <1>1 DEF Cache!Request
    <3> QED
      BY <1>0, <2>6, <3>1, RequestIsTyped DEF Cache!TakeEngine
  <2>7. ASSUME Cache!StoreValue(r)
        PROVE  request' \in [CacheRequests -> Cache!Request] /\ entries' \in [CacheKeys -> Cache!Entry]
    <3> DEFINE c == [value |-> request[r].got, loadedAt |-> now, lastAttempt |-> now,
                     loading |-> None, failed |-> FALSE]
    <3>1. c \in Cache!Entry
      <4>1. request[r].got \in (0 .. MaxEngines) \cup {None}
        BY <1>1 DEF Cache!Request
      <4> QED
        BY <1>1, <4>1 DEF Cache!Entry
    <3>2. request' = Cache!Woken(r) /\ entries' = Cache!Into(r, c) /\ request[r].key \in CacheKeys
      BY <2>7 DEF Cache!StoreValue, CacheInv, RequestsAreSound
    <3> QED
      BY <1>0, <3>1, <3>2, StoredIsTyped
  <2>8. ASSUME Cache!StoreError(r)
        PROVE  request' \in [CacheRequests -> Cache!Request] /\ entries' \in [CacheKeys -> Cache!Entry]
    <3> DEFINE k == request[r].key
               c == [entries[k] EXCEPT !.lastAttempt = now, !.loading = None, !.failed = TRUE]
    <3>1. k \in CacheKeys
      BY <2>8 DEF Cache!StoreError, CacheInv, RequestsAreSound
    <3>2. c \in Cache!Entry
      <4>1. entries[k] \in Cache!Entry
        BY <1>1, <3>1
      <4> QED
        BY <1>1, <4>1 DEF Cache!Entry
    <3>3. request' = Cache!Woken(r) /\ entries' = Cache!Into(r, c)
      BY <2>8 DEF Cache!StoreError, Cache!Found
    <3> HIDE DEF c
    <3> QED
      BY <1>0, <3>1, <3>2, <3>3, StoredIsTyped
  <2> QED
    BY <1>0, <1>1, <1>2, <2>2, <2>3, <2>4, <2>5, <2>6, <2>7, <2>8 DEF Cache!RequestStep
<1>3. ASSUME NEW l \in Reloads, Cache!BeginReload(l) PROVE Cache!CacheTypeOK'
  <2>1. [at |-> "building", old |-> engine] \in Cache!Reload
    BY <1>0 DEF Cache!Reload, Cache!CacheTypeOK, Cache!CacheAssumption
  <2> QED
    BY <1>0, <1>3, <2>1, ReloadIsTyped DEF Cache!BeginReload, Cache!CacheTypeOK
<1>4. [at |-> "placed", old |-> None] \in Cache!Reload /\ [at |-> "idle", old |-> None] \in Cache!Reload
  BY DEF Cache!Reload
<1>5. ASSUME NEW l \in Reloads, Cache!Built(l) \/ Cache!NotBuilt(l) PROVE Cache!CacheTypeOK'
  <2>1. reload' \in [Reloads -> Cache!Reload]
    BY <1>0, <1>4, <1>5, ReloadIsTyped DEF Cache!Built, Cache!NotBuilt, Cache!Place
  <2>2. engines' \in 0 .. MaxEngines /\ engine' \in 0 .. engines'
    BY <1>0, <1>5 DEF Cache!Built, Cache!NotBuilt, Cache!Place, Cache!CacheTypeOK, Cache!CacheAssumption,
                      CacheInv, ReloadsAreSound
  <2>3. UNCHANGED <<staleOnError, now, entries, request>>
    BY <1>5 DEF Cache!Built, Cache!NotBuilt, Cache!Place
  <2> QED
    BY <1>0, <2>1, <2>2, <2>3 DEF Cache!CacheTypeOK
<1>6. ASSUME NEW l \in Reloads, Cache!Clear(l) PROVE Cache!CacheTypeOK'
  <2>1. reload' \in [Reloads -> Cache!Reload] /\ UNCHANGED <<staleOnError, now, engine, engines>>
    BY <1>0, <1>4, <1>6, ReloadIsTyped DEF Cache!Clear
  <2>2. Cache!NewEntry \in Cache!Entry
    BY DEF Cache!NewEntry, Cache!Entry
  <2>3. \A r \in CacheRequests : [request[r] EXCEPT !.cached = FALSE] \in Cache!Request
    BY <1>1 DEF Cache!Request
  <2>4. entries' \in [CacheKeys -> Cache!Entry] /\ request' \in [CacheRequests -> Cache!Request]
    BY <1>6, <2>2, <2>3 DEF Cache!Clear, Cache!Empty
  <2> QED
    BY <1>0, <2>1, <2>4 DEF Cache!CacheTypeOK
<1>7. CASE Cache!PassTime \/ UNCHANGED cv
  BY <1>0, <1>7 DEF Cache!PassTime, cv, Cache!CacheTypeOK, Cache!Times, Cache!CacheAssumption
<1> QED
  BY <1>2, <1>3, <1>5, <1>6, <1>7 DEF Cache!CacheNext, Cache!ReloadStep

\* The end of a load: its request is idle, those who waited for it are woken, the others
\* stay; the entry it started from, if it is of the cache, has what came of it.
LEMMA StoreDoes ==
    ASSUME Cache!CacheTypeOK, RequestsAreSound, NEW r \in CacheRequests,
           Cache!StoreValue(r) \/ Cache!StoreError(r)
    PROVE  /\ \A q \in CacheRequests : request'[q].at # "idle" =>
                 /\ q # r /\ request[q].at # "idle"
                 /\ request'[q].key = request[q].key /\ request'[q].cached = request[q].cached
                 /\ request'[q].at # "woken" => request'[q] = request[q]
           /\ \A q \in CacheRequests : request'[q].cached => request'[q].at # "idle"
           /\ \A q \in CacheRequests : request'[q].at = "waiting" => request[q].awaits # r
           /\ \A q \in CacheRequests : q # r /\ request[q].at # "waiting" => request'[q] = request[q]
           /\ request[r].at \in {"loading", "computing"}
           /\ \A k \in CacheKeys :
                 IF request[r].cached /\ request[r].key = k
                 THEN /\ entries'[k].loading = None
                      /\ \/ entries'[k].value = entries[k].value
                         \/ request[r].at = "computing" /\ entries'[k].value = request[r].got
                 ELSE entries'[k] = entries[k]
           /\ UNCHANGED <<staleOnError, now, engine, engines, reload>>
<1>1. request' = Cache!Woken(r) /\ UNCHANGED <<staleOnError, now, engine, engines, reload>>
  BY DEF Cache!StoreValue, Cache!StoreError
<1>2. request[r].at \in {"loading", "computing"} /\ request[r].key \in CacheKeys
  BY DEF Cache!StoreValue, Cache!StoreError, RequestsAreSound
<1>3. ASSUME NEW q \in CacheRequests
      PROVE  /\ q = r => request'[q] = Cache!Idle
             /\ q # r /\ ~(request[q].at = "waiting" /\ request[q].awaits = r) => request'[q] = request[q]
             /\ q # r /\ request[q].at = "waiting" /\ request[q].awaits = r =>
                   /\ request'[q].at = "woken" /\ request'[q].key = request[q].key
                   /\ request'[q].cached = request[q].cached
  <2>1. request'[q] = IF q = r THEN Cache!Idle
                      ELSE IF request[q].at = "waiting" /\ request[q].awaits = r
                           THEN [request[q] EXCEPT !.at = "woken", !.awaits = None] ELSE request[q]
    BY <1>1 DEF Cache!Woken
  <2>2. request[q] \in Cache!Request
    BY DEF Cache!CacheTypeOK
  <2>3. /\ [request[q] EXCEPT !.at = "woken", !.awaits = None].at = "woken"
        /\ [request[q] EXCEPT !.at = "woken", !.awaits = None].key = request[q].key
        /\ [request[q] EXCEPT !.at = "woken", !.awaits = None].cached = request[q].cached
    BY <2>2 DEF Cache!Request
  <2> QED
    BY <2>1, <2>3
<1>4. Cache!Idle.at = "idle" /\ Cache!Idle.cached = FALSE
  BY DEF Cache!Idle
<1>5. ASSUME NEW k \in CacheKeys
      PROVE  IF request[r].cached /\ request[r].key = k
             THEN /\ entries'[k].loading = None
                  /\ \/ entries'[k].value = entries[k].value
                     \/ request[r].at = "computing" /\ entries'[k].value = request[r].got
             ELSE entries'[k] = entries[k]
  <2> DEFINE j == request[r].key
             got == [value |-> request[r].got, loadedAt |-> now, lastAttempt |-> now,
                     loading |-> None, failed |-> FALSE]
             kept == [entries[j] EXCEPT !.lastAttempt = now, !.loading = None, !.failed = TRUE]
  <2>1. entries[j] \in Cache!Entry /\ entries \in [CacheKeys -> Cache!Entry]
    BY <1>2 DEF Cache!CacheTypeOK
  <2>2. /\ got.loading = None /\ got.value = request[r].got
        /\ kept.loading = None /\ kept.value = entries[j].value
    BY <2>1 DEF Cache!Entry
  <2>3. \/ request[r].at = "computing" /\ entries' = Cache!Into(r, got)
        \/ entries' = Cache!Into(r, kept)
    BY DEF Cache!StoreValue, Cache!StoreError, Cache!Found
  <2> HIDE DEF j, got, kept
  <2>4. \A c : Cache!Into(r, c) = IF request[r].cached THEN [entries EXCEPT ![j] = c] ELSE entries
    BY DEF Cache!Into, j
  <2>5. \A c : Cache!Into(r, c)[k] = IF request[r].cached /\ j = k THEN c ELSE entries[k]
    BY <1>2, <2>1, <2>4 DEF j
  <2> QED
    BY <2>2, <2>3, <2>5 DEF j
<1> QED
  <2>1. \A q \in CacheRequests : request[q].at = "waiting" => ~request[q].cached
    BY DEF RequestsAreSound
  <2> QED
    BY <1>1, <1>2, <1>3, <1>4, <1>5, <2>1 DEF RequestsAreSound

LEMMA ClearDoes ==
    ASSUME Cache!CacheTypeOK, NEW l \in Reloads, Cache!Clear(l)
    PROVE  /\ \A r \in CacheRequests :
                 /\ request'[r].at = request[r].at /\ request'[r].key = request[r].key
                 /\ request'[r].awaits = request[r].awaits /\ ~request'[r].cached
           /\ \A k \in CacheKeys : entries'[k].loading = None /\ entries'[k].value = None
<1>1. ASSUME NEW r \in CacheRequests
      PROVE  /\ request'[r].at = request[r].at /\ request'[r].key = request[r].key
             /\ request'[r].awaits = request[r].awaits /\ ~request'[r].cached
  <2>1. request'[r] = [request[r] EXCEPT !.cached = FALSE]
    BY DEF Cache!Clear, Cache!Empty
  <2>2. request[r] \in Cache!Request
    BY DEF Cache!CacheTypeOK
  <2> QED
    BY <2>1, <2>2 DEF Cache!Request
<1>2. \A k \in CacheKeys : entries'[k].loading = None /\ entries'[k].value = None
  BY DEF Cache!Clear, Cache!Empty, Cache!NewEntry
<1> QED
  BY <1>1, <1>2

\* What the requests and the entries say of each other.
Flights == RequestsAreSound /\ LoadersAreReal /\ Cache!SingleFlight

LEMMA FlightsAreKept ==
    ASSUME Cache!CacheAssumption, CacheInv, [Cache!CacheNext]_cv
    PROVE  Flights'
<1> USE DEF CacheInv, Cache!CacheTypeOK, Cache!CacheAssumption, Cache!Found,
            Flights, RequestsAreSound, LoadersAreReal, Cache!SingleFlight
<1>1. ASSUME NEW r \in CacheRequests, NEW k \in CacheKeys, Cache!Look(r, k) PROVE Flights'
  BY <1>1 DEF Cache!Look, Cache!Idle
<1>2. ASSUME NEW r \in CacheRequests, Cache!Wait(r) PROVE Flights'
  BY <1>2 DEF Cache!Wait
<1>3. ASSUME NEW r \in CacheRequests, Cache!Serve(r) \/ Cache!GiveUp(r) PROVE Flights'
  BY <1>3 DEF Cache!Serve, Cache!GiveUp, Cache!Idle
<1>4. ASSUME NEW r \in CacheRequests, Cache!BeginLoad(r) PROVE Flights'
  BY <1>4 DEF Cache!BeginLoad, Cache!Loadable
<1>5. ASSUME NEW r \in CacheRequests, Cache!TakeEngine(r) PROVE Flights'
  BY <1>5 DEF Cache!TakeEngine
<1>6. ASSUME NEW r \in CacheRequests, Cache!StoreValue(r) \/ Cache!StoreError(r) PROVE Flights'
  <2>1. RequestsAreSound' /\ LoadersAreReal' /\ Cache!SingleFlight'
    <3> HIDE DEF CacheInv, Cache!CacheTypeOK, Flights
    <3>1. Cache!CacheTypeOK /\ RequestsAreSound /\ LoadersAreReal /\ Cache!SingleFlight
      BY DEF CacheInv
    <3>2. RequestsAreSound'
      BY <1>6, <3>1, StoreDoes
    <3>3. LoadersAreReal'
      BY <1>6, <3>1, StoreDoes
    <3>4. Cache!SingleFlight'
      BY <1>6, <3>1, <3>2, StoreDoes
    <3> QED
      BY <3>2, <3>3, <3>4
  <2> QED
    BY <2>1
<1>7. ASSUME NEW l \in Reloads, Cache!BeginReload(l) \/ Cache!Built(l) \/ Cache!NotBuilt(l) PROVE Flights'
  BY <1>7 DEF Cache!BeginReload, Cache!Built, Cache!NotBuilt, Cache!Place
<1>8. ASSUME NEW l \in Reloads, Cache!Clear(l) PROVE Flights'
  <2> HIDE DEF Cache!CacheTypeOK
  <2> QED
    BY <1>8, ClearDoes
<1>9. CASE Cache!PassTime \/ UNCHANGED cv
  BY <1>9 DEF Cache!PassTime, cv
<1> QED
  BY <1>1, <1>2, <1>3, <1>4, <1>5, <1>6, <1>7, <1>8, <1>9
  DEF Cache!CacheNext, Cache!RequestStep, Cache!ReloadStep

\* What the entries and the loads have to do with the engine.
Engines == ReloadsAreSound /\ LoadsAreOfThisEngine /\ Cache!CacheIsOfThisEngine

LEMMA EnginesAreKept ==
    ASSUME Cache!CacheAssumption, CacheInv, [Cache!CacheNext]_cv
    PROVE  Engines'
<1> USE DEF CacheInv, Cache!CacheTypeOK, Cache!CacheAssumption, Cache!Found,
            Engines, ReloadsAreSound, LoadsAreOfThisEngine, Cache!CacheIsOfThisEngine
<1>1. ASSUME NEW r \in CacheRequests, NEW k \in CacheKeys, Cache!Look(r, k) PROVE Engines'
  BY <1>1 DEF Cache!Look, Cache!Idle
<1>2. ASSUME NEW r \in CacheRequests, Cache!Wait(r) PROVE Engines'
  BY <1>2 DEF Cache!Wait
<1>3. ASSUME NEW r \in CacheRequests, Cache!Serve(r) \/ Cache!GiveUp(r) PROVE Engines'
  BY <1>3 DEF Cache!Serve, Cache!GiveUp, Cache!Idle
<1>4. ASSUME NEW r \in CacheRequests, Cache!BeginLoad(r) PROVE Engines'
  BY <1>4 DEF Cache!BeginLoad
<1>5. ASSUME NEW r \in CacheRequests, Cache!TakeEngine(r) PROVE Engines'
  BY <1>5 DEF Cache!TakeEngine
<1>6. ASSUME NEW r \in CacheRequests, Cache!StoreValue(r) \/ Cache!StoreError(r) PROVE Engines'
  <2> HIDE DEF CacheInv, Cache!CacheTypeOK
  <2>1. Cache!CacheTypeOK /\ RequestsAreSound /\ Engines
    BY DEF CacheInv
  <2>2. \A q \in CacheRequests : request'[q].at = "computing" => request'[q] = request[q]
    BY <1>6, <2>1, StoreDoes
  <2>3. ASSUME NEW k \in CacheKeys
        PROVE  \/ entries'[k].value = entries[k].value
               \/ request[r].cached /\ request[r].at = "computing" /\ entries'[k].value = request[r].got
    <3>1. IF request[r].cached /\ request[r].key = k
          THEN \/ entries'[k].value = entries[k].value
               \/ request[r].at = "computing" /\ entries'[k].value = request[r].got
          ELSE entries'[k] = entries[k]
      BY <1>6, <2>1, StoreDoes
    <3> QED
      BY <3>1
  <2>4. UNCHANGED <<engine, engines, reload>>
    BY <1>6, <2>1, StoreDoes
  <2>5. ReloadsAreSound'
    BY <2>1, <2>4
  <2>6. LoadsAreOfThisEngine'
    BY <2>1, <2>2, <2>4
  <2>7. Cache!CacheIsOfThisEngine'
    BY <2>1, <2>3, <2>4
  <2> QED
    BY <2>5, <2>6, <2>7
<1>7. ASSUME NEW l \in Reloads, Cache!BeginReload(l) PROVE Engines'
  BY <1>7 DEF Cache!BeginReload
<1>8. ASSUME NEW l \in Reloads, Cache!Built(l) \/ Cache!NotBuilt(l) PROVE Engines'
  <2>1. reload'[l].at = "placed"
    BY <1>8 DEF Cache!Built, Cache!NotBuilt, Cache!Place
  <2>2. ReloadsAreSound'
    BY <1>8 DEF Cache!Built, Cache!NotBuilt, Cache!Place
  <2> QED
    BY <2>1, <2>2
<1>9. ASSUME NEW l \in Reloads, Cache!Clear(l) PROVE Engines'
  <2>1. UNCHANGED <<engine, engines>> /\ \A r \in CacheRequests : ~request'[r].cached
    BY <1>9, ClearDoes DEF Cache!Clear
  <2>2. \A k \in CacheKeys : entries'[k].value = None
    BY <1>9, ClearDoes
  <2>3. ReloadsAreSound'
    BY <1>9 DEF Cache!Clear
  <2> QED
    BY <2>1, <2>2, <2>3
<1>10. CASE Cache!PassTime \/ UNCHANGED cv
  BY <1>10 DEF Cache!PassTime, cv
<1> QED
  BY <1>1, <1>2, <1>3, <1>4, <1>5, <1>6, <1>7, <1>8, <1>9, <1>10
  DEF Cache!CacheNext, Cache!RequestStep, Cache!ReloadStep

LEMMA CacheInvariance == Spec => []CacheInv
<1> USE ServicesAssumption DEF ServicesAssumption
<1>1. Init => CacheInv
  BY CacheInitIsSound DEF Init
<1>2. CacheInv /\ [Next]_vars => CacheInv'
  <2> SUFFICES ASSUME CacheInv, [Next]_vars PROVE CacheInv'
    OBVIOUS
  <2>1. [Cache!CacheNext]_cv
    BY Moves
  <2> QED
    BY <2>1, CacheTypeIsKept, FlightsAreKept, EnginesAreKept DEF CacheInv, Flights, Engines
<1> QED
  BY <1>1, <1>2, PTL DEF Spec

\* For any number of requests, keys and reloads: an entry of the cache is loaded by one
\* request at most, and nobody waits for a load that no request is busy with.
THEOREM OneLoadAtATime == Spec => []SingleFlight
<1>1. CacheInv => SingleFlight
  BY DEF CacheInv, SingleFlight
<1> QED
  BY <1>1, CacheInvariance, PTL

\* Once every reload has cleared the cache, all its answers are of the engine in use.
THEOREM CacheFollowsEngine == Spec => []CacheIsOfThisEngine
<1>1. CacheInv => CacheIsOfThisEngine
  BY DEF CacheInv, CacheIsOfThisEngine
<1> QED
  BY <1>1, CacheInvariance, PTL
-----------------------------------------------------------------------------
(* ThreatAnalysis. *)

Making(u) == update[u].at \in {"writing", "closing"}

\* One update at a time makes a key, in the file that it has created.
OneMaker ==
    /\ \A u, v \in Updates : Making(u) /\ Making(v) => u = v
    /\ \A u \in Updates : /\ update[u].at = "writing" => keyFile = Threat!Short
                          /\ update[u].at = "closing" => keyFile \in Threat!Keys

\* Unless a complete key was removed, the keys that updates have in hand are that of the file.
HeldKeysAreOfTheFile == ~lostKey => \A u \in Updates : update[u].key # None => update[u].key = keyFile

OneFlight == \A c, d \in Callers : flight[c].at # "none" /\ flight[d].at # "none" => c = d

ThreatInv == /\ Threat!ThreatTypeOK
             /\ OneMaker /\ HeldKeysAreOfTheFile /\ Threat!SavedCredentialsAreReadable
             /\ OneFlight /\ Threat!PreviousIsLatest

LEMMA ThreatInitIsSound == ASSUME Threat!ThreatAssumption PROVE Threat!ThreatInit => ThreatInv
<1> SUFFICES ASSUME Threat!ThreatInit PROVE ThreatInv
  OBVIOUS
<1> USE DEF Threat!ThreatInit, Threat!NoUpdate, Threat!NoFlight, Threat!ThreatAssumption
<1>1. Threat!ThreatTypeOK
  <2>1. Threat!NoUpdate \in Threat!UpdateState /\ Threat!NoFlight \in Threat!FlightState
    BY DEF Threat!UpdateState, Threat!FlightState
  <2>2. settings \in Threat!Settings /\ memory \in Threat!Settings
    BY DEF Threat!Settings
  <2> HIDE DEF Threat!NoUpdate, Threat!NoFlight
  <2>3. /\ update \in [Updates -> Threat!UpdateState] /\ flight \in [Callers -> Threat!FlightState]
        /\ caller \in [Callers -> Callers \cup {None}]
    BY <2>1
  <2>4. /\ keys \in 0 .. MaxKeys /\ asked \in 0 .. MaxResults /\ latest \in 0 .. MaxResults
        /\ faultCount \in 0 .. ThreatFaults /\ lostKey \in BOOLEAN
        /\ keyFile \in Threat!Keys \cup {None, Threat!Short}
    <3>1. 0 \in 0 .. MaxKeys /\ 0 \in 0 .. MaxResults /\ 0 \in 0 .. ThreatFaults
      BY DEF Threat!ThreatAssumption
    <3>2. keyFile = None /\ keys = 0 /\ lostKey = FALSE /\ asked = 0 /\ latest = 0 /\ faultCount = 0
      BY DEF Threat!ThreatInit
    <3> QED
      BY <3>1, <3>2
  <2> QED
    BY <2>2, <2>3, <2>4 DEF Threat!ThreatTypeOK
<1>2. OneMaker /\ HeldKeysAreOfTheFile /\ Threat!SavedCredentialsAreReadable
  BY DEF OneMaker, Making, HeldKeysAreOfTheFile, Threat!SavedCredentialsAreReadable
<1>3. OneFlight /\ Threat!PreviousIsLatest
  BY DEF OneFlight, Threat!PreviousIsLatest
<1> QED
  BY <1>1, <1>2, <1>3 DEF ThreatInv

\* What becomes of the updates when one of them moves.
OnlyMoves(u) == /\ update' \in [Updates -> Threat!UpdateState]
                /\ \A v \in Updates : v # u => update'[v] = update[v]

LEMMA ToMoves ==
    ASSUME Threat!ThreatTypeOK, NEW u \in Updates,
           NEW place \in {"waiting", "creating", "writing", "applying"}, Threat!To(u, place)
    PROVE  OnlyMoves(u) /\ update'[u].at = place /\ update'[u].key = update[u].key
<1> DEFINE x == [update[u] EXCEPT !.at = place]
<1>1. update[u] \in Threat!UpdateState /\ update \in [Updates -> Threat!UpdateState]
  BY DEF Threat!ThreatTypeOK
<1>2. x \in Threat!UpdateState /\ x.at = place /\ x.key = update[u].key
  BY <1>1 DEF Threat!UpdateState
<1>3. update' = [update EXCEPT ![u] = x]
  BY DEF Threat!To
<1> HIDE DEF x
<1> QED
  BY <1>1, <1>2, <1>3 DEF OnlyMoves

LEMMA WithMoves ==
    ASSUME Threat!ThreatTypeOK, NEW u \in Updates, NEW key \in Threat!Keys \cup {None},
           Threat!With(u, key)
    PROVE  OnlyMoves(u) /\ update'[u].at = "saving" /\ update'[u].key = key
<1> DEFINE x == [update[u] EXCEPT !.at = "saving", !.key = key]
<1>1. update[u] \in Threat!UpdateState /\ update \in [Updates -> Threat!UpdateState]
  BY DEF Threat!ThreatTypeOK
<1>2. x \in Threat!UpdateState /\ x.at = "saving" /\ x.key = key
  BY <1>1 DEF Threat!UpdateState
<1>3. update' = [update EXCEPT ![u] = x]
  BY <1>1 DEF Threat!With
<1> HIDE DEF x
<1> QED
  BY <1>1, <1>2, <1>3 DEF OnlyMoves

LEMMA RefusedMoves ==
    ASSUME Threat!ThreatTypeOK, NEW u \in Updates, Threat!Refused(u)
    PROVE  OnlyMoves(u) /\ update'[u].at = "idle" /\ update'[u].key = None
<1>1. Threat!NoUpdate \in Threat!UpdateState /\ Threat!NoUpdate.at = "idle" /\ Threat!NoUpdate.key = None
  BY DEF Threat!NoUpdate, Threat!UpdateState
<1>2. update \in [Updates -> Threat!UpdateState]
  BY DEF Threat!ThreatTypeOK
<1> QED
  BY <1>1, <1>2 DEF Threat!Refused, OnlyMoves

\* What an update does to its own state and the file: nothing much, it creates the file,
\* writes its key into it, or removes it.
LeavesFile(u) == /\ UNCHANGED <<keyFile, keys, lostKey>> /\ update'[u].at \notin {"writing", "closing"}
                 /\ update'[u].key \in {None, update[u].key, keyFile}
CreatesFile(u) == /\ keyFile = None /\ keyFile' = Threat!Short /\ UNCHANGED <<keys, lostKey>>
                  /\ update'[u].at = "writing" /\ update'[u].key = update[u].key
WritesFile(u) == /\ update[u].at = "writing" /\ keyFile' = keys + 1 /\ keys' = keys + 1 /\ keys < MaxKeys
                 /\ update'[u].at = "closing" /\ update'[u].key = keyFile' /\ UNCHANGED lostKey
RemovesFile(u) == /\ Making(u) /\ keyFile' = None /\ lostKey' = (lostKey \/ update[u].at = "closing")
                  /\ update'[u].at = "idle" /\ update'[u].key = None /\ UNCHANGED keys

LEMMA UpdateMoves ==
    ASSUME Threat!ThreatAssumption, Threat!ThreatTypeOK, OneMaker, NEW u \in Updates, Threat!UpdateStep(u)
    PROVE  OnlyMoves(u) /\ (LeavesFile(u) \/ CreatesFile(u) \/ WritesFile(u) \/ RemovesFile(u))
<1> USE DEF Making, LeavesFile, CreatesFile, WritesFile, RemovesFile
<1>0. keyFile \in Threat!Keys \cup {None, Threat!Short} /\ update[u].key \in Threat!Keys \cup {None}
  <2>1. update[u] \in Threat!UpdateState
    BY DEF Threat!ThreatTypeOK
  <2> QED
    BY <2>1 DEF Threat!ThreatTypeOK, Threat!UpdateState
<1>1. ASSUME NEW kind \in Kinds, Threat!Update(u, kind)
      PROVE  /\ OnlyMoves(u) /\ UNCHANGED <<keyFile, keys, lostKey>>
             /\ update'[u].at \in {"reading", "saving"} /\ update'[u].key = None
  <2> DEFINE x == [at |-> IF kind.credential = "new" THEN "reading" ELSE "saving",
                   enabled |-> kind.enabled, credential |-> kind.credential, key |-> None]
  <2>1. kind.enabled \in BOOLEAN /\ kind.credential \in {"keep", "clear", "new"}
    BY DEF Threat!ThreatAssumption
  <2>2. x \in Threat!UpdateState /\ x.at \in {"reading", "saving"} /\ x.key = None
    BY <2>1 DEF Threat!UpdateState
  <2>3. update' = [update EXCEPT ![u] = x] /\ UNCHANGED <<keyFile, keys, lostKey>>
    BY <1>1 DEF Threat!Update, Threat!FileSame
  <2>4. update \in [Updates -> Threat!UpdateState]
    BY DEF Threat!ThreatTypeOK
  <2> HIDE DEF x
  <2> QED
    BY <2>2, <2>3, <2>4 DEF OnlyMoves
<1>2. ASSUME Threat!ReadKey(u)
      PROVE  /\ OnlyMoves(u) /\ UNCHANGED <<keyFile, keys, lostKey>>
             /\ update'[u].at \in {"saving", "waiting", "creating"}
             /\ update'[u].key \in {update[u].key, keyFile}
  <2>1. /\ UNCHANGED <<keyFile, keys, lostKey>>
        /\ \/ keyFile \in Threat!Keys /\ Threat!With(u, keyFile)
           \/ Threat!To(u, "waiting") \/ Threat!To(u, "creating")
    BY <1>0, <1>2 DEF Threat!ReadKey, Threat!FileSame
  <2> QED
    BY <2>1, WithMoves, ToMoves
<1>3. ASSUME Threat!CreateKey(u)
      PROVE  /\ OnlyMoves(u) /\ UNCHANGED <<keys, lostKey>> /\ update'[u].key = update[u].key
             /\ \/ keyFile = None /\ keyFile' = Threat!Short /\ update'[u].at = "writing"
                \/ UNCHANGED keyFile /\ update'[u].at = "waiting"
  BY <1>3, ToMoves DEF Threat!CreateKey, Threat!OpenExclusive
<1>4. ASSUME Threat!WriteKey(u)
      PROVE  /\ OnlyMoves(u) /\ update[u].at = "writing" /\ keyFile' = keys + 1 /\ keys' = keys + 1 /\ keys < MaxKeys
             /\ update'[u].at = "closing" /\ update'[u].key = keyFile' /\ UNCHANGED lostKey
  <2> DEFINE x == [update[u] EXCEPT !.at = "closing", !.key = keys + 1]
  <2>1. keys + 1 \in Threat!Keys
    BY <1>4 DEF Threat!WriteKey, Threat!ThreatTypeOK, Threat!Keys, Threat!ThreatAssumption
  <2>2. update[u] \in Threat!UpdateState /\ update \in [Updates -> Threat!UpdateState]
    BY DEF Threat!ThreatTypeOK
  <2>3. x \in Threat!UpdateState /\ x.at = "closing" /\ x.key = keys + 1
    BY <2>1, <2>2 DEF Threat!UpdateState
  <2>4. /\ update' = [update EXCEPT ![u] = x] /\ update[u].at = "writing" /\ keyFile' = keys + 1
        /\ keys' = keys + 1 /\ keys < MaxKeys /\ UNCHANGED lostKey
    BY <1>4, <2>2 DEF Threat!WriteKey
  <2> HIDE DEF x
  <2> QED
    BY <2>2, <2>3, <2>4 DEF OnlyMoves
<1>5. ASSUME Threat!RemoveKey(u)
      PROVE  /\ OnlyMoves(u) /\ Making(u) /\ keyFile' = None /\ lostKey' = (lostKey \/ update[u].at = "closing")
             /\ update'[u].at = "idle" /\ update'[u].key = None /\ UNCHANGED keys
  BY <1>5, RefusedMoves DEF Threat!RemoveKey
<1>6. ASSUME Threat!CloseKey(u) \/ Threat!WaitForKey(u)
      PROVE  /\ OnlyMoves(u) /\ UNCHANGED <<keyFile, keys, lostKey>>
             /\ update'[u].at \in {"saving", "idle"}
             /\ update'[u].key \in {None, update[u].key, keyFile}
  BY <1>0, <1>6, WithMoves, RefusedMoves DEF Threat!CloseKey, Threat!WaitForKey, Threat!FileSame
<1>7. ASSUME Threat!SaveUpdate(u) \/ Threat!ApplyUpdate(u)
      PROVE  /\ OnlyMoves(u) /\ UNCHANGED <<keyFile, keys, lostKey>>
             /\ update'[u].at \in {"applying", "idle"}
             /\ update'[u].key \in {None, update[u].key}
  BY <1>7, ToMoves, RefusedMoves DEF Threat!SaveUpdate, Threat!ApplyUpdate, Threat!FileSame
<1> QED
  BY <1>1, <1>2, <1>3, <1>4, <1>5, <1>6, <1>7 DEF Threat!UpdateStep

\* What a broken-off save leaves are settings, of the old credential, the new one or none.
LEMMA PartsAreSettings ==
    ASSUME NEW s \in Threat!Settings, NEW x \in Threat!UpdateState, NEW p \in Threat!PartlyUpdated(s, x)
    PROVE  p \in Threat!Settings /\ p.credential \in {None, s.credential, x.key}
<1>1. /\ Threat!Updated(s, x) \in Threat!Settings
      /\ Threat!Updated(s, x).credential \in {None, s.credential, x.key}
  BY DEF Threat!Updated, Threat!Settings, Threat!UpdateState
<1> QED
  BY <1>1 DEF Threat!PartlyUpdated, Threat!Settings

\* The settings of database and memory after a step of an update.
LEMMA SettingsMove ==
    ASSUME Threat!ThreatAssumption, Threat!ThreatTypeOK, NEW u \in Updates, Threat!UpdateStep(u)
    PROVE  /\ settings' \in Threat!Settings /\ memory' \in Threat!Settings
           /\ settings'.credential \in {None, settings.credential, update[u].key}
           /\ memory'.credential \in {None, memory.credential, update[u].key}
           /\ UNCHANGED <<settings, memory>> \/ ~Making(u)
           /\ faultCount' \in 0 .. ThreatFaults
           /\ UNCHANGED <<flight, caller, asked, latest>>
<1>1. update[u] \in Threat!UpdateState /\ settings \in Threat!Settings /\ memory \in Threat!Settings
  BY DEF Threat!ThreatTypeOK
<1>2. ASSUME NEW s \in Threat!Settings
      PROVE  /\ Threat!Updated(s, update[u]) \in Threat!Settings
             /\ Threat!Updated(s, update[u]).credential \in {None, s.credential, update[u].key}
  BY <1>1 DEF Threat!Updated, Threat!Settings, Threat!UpdateState
<1>3. \/ settings' = settings
      \/ /\ settings' = Threat!Updated(settings, update[u]) \/ settings' \in Threat!PartlyUpdated(settings, update[u])
         /\ update[u].at = "saving"
  BY DEF Threat!UpdateStep, Threat!Update, Threat!ReadKey, Threat!CreateKey, Threat!WriteKey, Threat!RemoveKey,
         Threat!CloseKey, Threat!WaitForKey, Threat!SaveUpdate, Threat!ApplyUpdate, Threat!StoreSame
<1>4. memory' = memory \/ (memory' = Threat!Updated(memory, update[u]) /\ update[u].at = "applying")
  BY DEF Threat!UpdateStep, Threat!Update, Threat!ReadKey, Threat!CreateKey, Threat!WriteKey, Threat!RemoveKey,
         Threat!CloseKey, Threat!WaitForKey, Threat!SaveUpdate, Threat!ApplyUpdate, Threat!StoreSame
<1>5. Threat!Fault \/ Threat!NoFault
  BY DEF Threat!UpdateStep, Threat!Update, Threat!ReadKey, Threat!CreateKey, Threat!WriteKey, Threat!RemoveKey,
         Threat!CloseKey, Threat!WaitForKey, Threat!SaveUpdate, Threat!ApplyUpdate
<1>6. faultCount' \in 0 .. ThreatFaults
  BY <1>5 DEF Threat!Fault, Threat!NoFault, Threat!ThreatTypeOK, Threat!ThreatAssumption
<1>7. UNCHANGED <<flight, caller, asked, latest>>
  BY DEF Threat!UpdateStep, Threat!Update, Threat!ReadKey, Threat!CreateKey, Threat!WriteKey, Threat!RemoveKey,
         Threat!CloseKey, Threat!WaitForKey, Threat!SaveUpdate, Threat!ApplyUpdate, Threat!FlightSame
<1>8. ASSUME settings' \in Threat!PartlyUpdated(settings, update[u])
      PROVE  settings' \in Threat!Settings /\ settings'.credential \in {None, settings.credential, update[u].key}
  BY <1>1, <1>8, PartsAreSettings
<1> QED
  BY <1>1, <1>2, <1>3, <1>4, <1>6, <1>7, <1>8 DEF Making

LEMMA UpdateKeeps ==
    ASSUME Threat!ThreatAssumption, ThreatInv, NEW u \in Updates, Threat!UpdateStep(u)
    PROVE  ThreatInv'
<1>1. /\ Threat!ThreatTypeOK /\ OneMaker /\ HeldKeysAreOfTheFile /\ Threat!SavedCredentialsAreReadable
      /\ OneFlight /\ Threat!PreviousIsLatest
  BY DEF ThreatInv
<1>2. OnlyMoves(u) /\ UNCHANGED <<flight, caller, asked, latest>>
  BY <1>1, UpdateMoves, SettingsMove
<1>3. /\ None \notin Threat!Keys /\ Threat!Short \notin Threat!Keys /\ None # Threat!Short
      /\ \A v \in Updates : update[v].key \in Threat!Keys \cup {None}
      /\ settings.credential \in Threat!Keys \cup {None} /\ memory.credential \in Threat!Keys \cup {None}
  <2>1. \A v \in Updates : update[v] \in Threat!UpdateState
    BY <1>1 DEF Threat!ThreatTypeOK
  <2>2. \A v \in Updates : update[v].key \in Threat!Keys \cup {None}
    BY <2>1 DEF Threat!UpdateState
  <2>3. settings.credential \in Threat!Keys \cup {None} /\ memory.credential \in Threat!Keys \cup {None}
    BY <1>1 DEF Threat!ThreatTypeOK, Threat!Settings
  <2> QED
    BY <2>2, <2>3 DEF Threat!Keys, Threat!Short, Threat!ThreatAssumption
<1>4. LeavesFile(u) \/ CreatesFile(u) \/ WritesFile(u) \/ RemovesFile(u)
  BY <1>1, UpdateMoves
<1>5. /\ settings' \in Threat!Settings /\ memory' \in Threat!Settings /\ faultCount' \in 0 .. ThreatFaults
      /\ settings'.credential \in {None, settings.credential, update[u].key}
      /\ memory'.credential \in {None, memory.credential, update[u].key}
      /\ UNCHANGED <<settings, memory>> \/ ~Making(u)
  BY <1>1, SettingsMove
<1>6. Threat!ThreatTypeOK'
  <2>1. keyFile' \in Threat!Keys \cup {None, Threat!Short} /\ keys' \in 0 .. MaxKeys /\ lostKey' \in BOOLEAN
    <3>1. keys < MaxKeys => keys + 1 \in Threat!Keys /\ keys + 1 \in 0 .. MaxKeys
      BY <1>1 DEF Threat!Keys, Threat!ThreatTypeOK, Threat!ThreatAssumption
    <3>2. keyFile \in Threat!Keys \cup {None, Threat!Short} /\ keys \in 0 .. MaxKeys /\ lostKey \in BOOLEAN
      BY <1>1 DEF Threat!ThreatTypeOK
    <3> QED
      BY <1>4, <3>1, <3>2 DEF LeavesFile, CreatesFile, WritesFile, RemovesFile
  <2>2. /\ Threat!Keys' = Threat!Keys /\ Threat!Short' = Threat!Short /\ Threat!Settings' = Threat!Settings
        /\ Threat!UpdateState' = Threat!UpdateState /\ Threat!FlightState' = Threat!FlightState
    BY DEF Threat!Keys, Threat!Short, Threat!Settings, Threat!UpdateState, Threat!FlightState
  <2> QED
    BY <1>1, <1>2, <1>5, <2>1, <2>2 DEF Threat!ThreatTypeOK, OnlyMoves
\* A key in hand, in the database or in memory is that of the file; the maker before the key
\* is written has none beside it.
<1> DEFINE Held == {update[v].key : v \in Updates} \cup {settings.credential, memory.credential}
<1>7. ~lostKey => \A k \in Held : k # None => k = keyFile /\ k \in Threat!Keys
  BY <1>1, <1>3 DEF HeldKeysAreOfTheFile, Threat!SavedCredentialsAreReadable
<1>8. ASSUME ~lostKey', NEW k \in Held PROVE k = None \/ (k = keyFile' /\ k = keyFile)
  <2>1. CASE LeavesFile(u)
    BY <1>7, <1>8, <2>1 DEF LeavesFile
  <2>2. CASE CreatesFile(u)
    BY <1>3, <1>7, <1>8, <2>2 DEF CreatesFile
  <2>3. CASE WritesFile(u)
    BY <1>1, <1>3, <1>7, <1>8, <2>3 DEF WritesFile, OneMaker
  <2>4. CASE RemovesFile(u)
    BY <1>1, <1>3, <1>7, <1>8, <2>4 DEF RemovesFile, Making, OneMaker
  <2> QED
    BY <1>4, <2>1, <2>2, <2>3, <2>4
<1>9. ~lostKey' => ~lostKey
  BY <1>4 DEF LeavesFile, CreatesFile, WritesFile, RemovesFile
<1>10. HeldKeysAreOfTheFile'
  <2> SUFFICES ASSUME ~lostKey', NEW v \in Updates, update'[v].key # None PROVE update'[v].key = keyFile'
    BY DEF HeldKeysAreOfTheFile
  <2>1. CASE v # u
    BY <1>2, <1>8, <2>1 DEF OnlyMoves
  <2>2. CASE v = u
    BY <1>4, <1>8, <2>2 DEF LeavesFile, CreatesFile, WritesFile, RemovesFile
  <2> QED
    BY <2>1, <2>2
<1>11. Threat!SavedCredentialsAreReadable'
  BY <1>5, <1>8 DEF Threat!SavedCredentialsAreReadable
<1>12. OneMaker'
  <2>1. ASSUME NEW v \in Updates, v # u PROVE update'[v] = update[v]
    BY <1>2, <2>1 DEF OnlyMoves
  <2>2. CASE LeavesFile(u)
    BY <1>1, <2>1, <2>2 DEF LeavesFile, OneMaker, Making
  <2>3. CASE CreatesFile(u)
    <3>1. \A v \in Updates : ~Making(v)
      BY <1>1, <1>3, <2>3 DEF CreatesFile, OneMaker, Making
    <3> QED
      BY <2>1, <2>3, <3>1 DEF CreatesFile, OneMaker, Making
  <2>4. CASE WritesFile(u)
    <3>1. \A v \in Updates : Making(v) => v = u
      BY <1>1, <2>4 DEF WritesFile, OneMaker, Making
    <3>2. keyFile' \in Threat!Keys'
      BY <1>1, <2>4 DEF WritesFile, Threat!Keys, Threat!ThreatTypeOK, Threat!ThreatAssumption
    <3> QED
      BY <2>1, <2>4, <3>1, <3>2 DEF WritesFile, OneMaker, Making
  <2>5. CASE RemovesFile(u)
    <3>1. \A v \in Updates : Making(v) => v = u
      BY <1>1, <2>5 DEF RemovesFile, OneMaker
    <3> QED
      BY <2>1, <2>5, <3>1 DEF RemovesFile, OneMaker, Making
  <2> QED
    BY <1>4, <2>2, <2>3, <2>4, <2>5
<1>13. OneFlight' /\ Threat!PreviousIsLatest'
  BY <1>1, <1>2 DEF OneFlight, Threat!PreviousIsLatest
<1> QED
  BY <1>6, <1>10, <1>11, <1>12, <1>13 DEF ThreatInv

-----------------------------------------------------------------------------
LEMMA FlightIsTyped ==
    ASSUME Threat!ThreatTypeOK, NEW c \in Callers, NEW x \in Threat!FlightState,
           flight' = [flight EXCEPT ![c] = x]
    PROVE  /\ flight' \in [Callers -> Threat!FlightState] /\ flight'[c] = x
           /\ \A d \in Callers : d # c => flight'[d] = flight[d]
BY DEF Threat!ThreatTypeOK

LEMMA EndIsTyped ==
    ASSUME Threat!ThreatAssumption, Threat!ThreatTypeOK, NEW c \in Callers, Threat!End(c)
    PROVE  /\ flight' \in [Callers -> Threat!FlightState] /\ flight'[c].at = "none"
           /\ \A d \in Callers : d # c => flight'[d] = flight[d]
           /\ caller' \in [Callers -> Callers \cup {None}]
<1>1. Threat!NoFlight \in Threat!FlightState /\ Threat!NoFlight.at = "none"
  <2>1. 0 \in 0 .. MaxResults
    BY DEF Threat!ThreatAssumption
  <2> QED
    BY <2>1 DEF Threat!NoFlight, Threat!FlightState
<1>2. caller' \in [Callers -> Callers \cup {None}]
  BY DEF Threat!End, Threat!ThreatTypeOK
<1> QED
  BY <1>1, <1>2, FlightIsTyped DEF Threat!End

\* A step of the flight of c, or the start of one: the other flights stay, and the newest
\* result changes only at its end.
FlightMoves(c) ==
    /\ flight' \in [Callers -> Threat!FlightState] /\ caller' \in [Callers -> Callers \cup {None}]
    /\ asked' \in 0 .. MaxResults /\ latest' \in 0 .. MaxResults
    /\ \A d \in Callers : d # c => flight'[d] = flight[d]
    /\ flight'[c].at = "none" \/ latest' = latest
    /\ flight'[c].at \in {"read", "asking", "answered"} => flight'[c].previous = latest

LEMMA FlightStepMoves ==
    ASSUME Threat!ThreatAssumption, ThreatInv, NEW c \in Callers, Threat!FlightStep(c)
    PROVE  FlightMoves(c) /\ flight[c].at # "none"
<1>1. /\ Threat!ThreatTypeOK /\ flight[c] \in Threat!FlightState
      /\ flight[c].at \in {"read", "asking", "answered"} => flight[c].previous = latest
      /\ asked \in 0 .. MaxResults /\ latest \in 0 .. MaxResults /\ MaxResults \in Nat
      /\ caller \in [Callers -> Callers \cup {None}]
  BY DEF ThreatInv, Threat!PreviousIsLatest, Threat!ThreatTypeOK, Threat!ThreatAssumption
<1>2. CASE Threat!ReadPrevious(c)
  <2> DEFINE x == [flight[c] EXCEPT !.at = "read", !.previous = latest]
  <2>1. x \in Threat!FlightState /\ x.at = "read" /\ x.previous = latest
    BY <1>1 DEF Threat!FlightState
  <2>2. flight' = [flight EXCEPT ![c] = x] /\ UNCHANGED <<caller, asked, latest>> /\ flight[c].at # "none"
    BY <1>2 DEF Threat!ReadPrevious
  <2> HIDE DEF x
  <2> QED
    BY <1>1, <2>1, <2>2, FlightIsTyped DEF FlightMoves
<1>3. CASE Threat!ReadConfig(c)
  <2> DEFINE x == [flight[c] EXCEPT !.at = "asking"]
  <2>1. x \in Threat!FlightState /\ x.previous = flight[c].previous
    BY <1>1 DEF Threat!FlightState
  <2>2. /\ \/ flight' = [flight EXCEPT ![c] = x] /\ UNCHANGED caller
           \/ Threat!End(c)
        /\ UNCHANGED <<asked, latest>> /\ flight[c].at = "read"
    BY <1>3 DEF Threat!ReadConfig
  <2> HIDE DEF x
  <2> QED
    BY <1>1, <2>1, <2>2, FlightIsTyped, EndIsTyped DEF FlightMoves
<1>4. CASE Threat!Answered(c)
  <2> DEFINE x == [flight[c] EXCEPT !.at = "answered", !.result = asked + 1]
  <2>1. asked' = asked + 1 /\ asked + 1 \in 0 .. MaxResults
    BY <1>1, <1>4 DEF Threat!Answered
  <2>2. x \in Threat!FlightState /\ x.previous = flight[c].previous
    BY <1>1, <2>1 DEF Threat!FlightState
  <2>3. flight' = [flight EXCEPT ![c] = x] /\ UNCHANGED <<caller, latest>> /\ flight[c].at = "asking"
    BY <1>4, <2>1 DEF Threat!Answered
  <2> HIDE DEF x
  <2> QED
    BY <1>1, <2>1, <2>2, <2>3, FlightIsTyped DEF FlightMoves
<1>5. CASE Threat!SaveResult(c) \/ Threat!FlightFails(c)
  <2>1. Threat!End(c) /\ UNCHANGED asked /\ latest' \in {latest, flight[c].result} /\ flight[c].at # "none"
    BY <1>5 DEF Threat!SaveResult, Threat!FlightFails
  <2>2. flight[c].result \in 0 .. MaxResults
    BY <1>1 DEF Threat!FlightState
  <2> QED
    BY <1>1, <2>1, <2>2, EndIsTyped DEF FlightMoves
<1> QED
  BY <1>2, <1>3, <1>4, <1>5 DEF Threat!FlightStep

LEMMA AnalyzeMoves ==
    ASSUME Threat!ThreatAssumption, Threat!ThreatTypeOK, NEW c \in Callers, Threat!Analyze(c)
    PROVE  \/ FlightMoves(c) /\ Threat!Going = {}
           \/ /\ UNCHANGED <<flight, asked, latest>>
              /\ caller' \in [Callers -> Callers \cup {None}]
<1>1. /\ caller \in [Callers -> Callers \cup {None}]
      /\ asked \in 0 .. MaxResults /\ latest \in 0 .. MaxResults /\ 0 \in 0 .. MaxResults
  BY DEF Threat!ThreatTypeOK, Threat!ThreatAssumption
<1>2. CASE Threat!Joined # {}
  <2>1. (CHOOSE f \in Threat!Joined : TRUE) \in Callers
    BY <1>2 DEF Threat!Joined, Threat!Going
  <2> QED
    BY <1>1, <1>2, <2>1 DEF Threat!Analyze
<1>3. CASE Threat!Joined = {}
  <2> DEFINE x == [Threat!NoFlight EXCEPT !.at = "started"]
  <2>1. x \in Threat!FlightState /\ x.at = "started"
    BY <1>1 DEF Threat!NoFlight, Threat!FlightState
  <2>2. flight' = [flight EXCEPT ![c] = x] /\ caller' = [caller EXCEPT ![c] = c] /\ UNCHANGED <<asked, latest>>
    BY <1>3 DEF Threat!Analyze
  <2> HIDE DEF x
  <2> QED
    BY <1>1, <1>3, <2>1, <2>2, FlightIsTyped DEF FlightMoves, Threat!Joined
<1> QED
  BY <1>2, <1>3

\* Steps that leave updates, key and settings alone.
LEMMA UpdatesStay ==
    ASSUME ThreatInv, UNCHANGED <<keyFile, keys, lostKey, update, settings, memory>>
    PROVE  OneMaker' /\ HeldKeysAreOfTheFile' /\ Threat!SavedCredentialsAreReadable'
<1>1. Threat!Short' = Threat!Short /\ Threat!Keys' = Threat!Keys
  BY DEF Threat!Short, Threat!Keys
<1> QED
  BY <1>1 DEF ThreatInv, OneMaker, Making, HeldKeysAreOfTheFile, Threat!SavedCredentialsAreReadable

LEMMA ThreatInvariance == Spec => []ThreatInv
<1> USE ServicesAssumption DEF ServicesAssumption
<1>1. Init => ThreatInv
  BY ThreatInitIsSound DEF Init
<1>2. ThreatInv /\ [Next]_vars => ThreatInv'
  <2> SUFFICES ASSUME ThreatInv, [Next]_vars PROVE ThreatInv'
    OBVIOUS
  <2>1. Threat!ThreatTypeOK /\ OneFlight /\ Threat!PreviousIsLatest
    BY DEF ThreatInv
  <2>2. ASSUME NEW c \in Callers, Threat!Analyze(c) \/ Threat!FlightStep(c)
        PROVE  ThreatInv'
    <3>1. UNCHANGED <<keyFile, keys, lostKey, update, settings, memory, faultCount>>
      BY <2>2 DEF Threat!Analyze, Threat!FlightStep, Threat!ReadPrevious, Threat!ReadConfig, Threat!Answered,
                  Threat!SaveResult, Threat!FlightFails, Threat!UpdateSame, Threat!NoFault
    <3>2. \/ FlightMoves(c) /\ \A d \in Callers : flight[d].at # "none" => d = c
          \/ /\ UNCHANGED <<flight, asked, latest>>
             /\ caller' \in [Callers -> Callers \cup {None}]
      <4>1. CASE Threat!Analyze(c)
        BY <2>1, <4>1, AnalyzeMoves DEF Threat!Going
      <4>2. CASE Threat!FlightStep(c)
        BY <2>1, <4>2, FlightStepMoves DEF OneFlight
      <4> QED
        BY <2>2, <4>1, <4>2
    <3>3. Threat!ThreatTypeOK'
      <4>1. /\ Threat!Keys' = Threat!Keys /\ Threat!Short' = Threat!Short /\ Threat!Settings' = Threat!Settings
            /\ Threat!UpdateState' = Threat!UpdateState /\ Threat!FlightState' = Threat!FlightState
        BY DEF Threat!Keys, Threat!Short, Threat!Settings, Threat!UpdateState, Threat!FlightState
      <4> QED
        BY <2>1, <3>1, <3>2, <4>1 DEF Threat!ThreatTypeOK, FlightMoves
    <3>4. OneFlight' /\ Threat!PreviousIsLatest'
      BY <2>1, <3>2 DEF OneFlight, Threat!PreviousIsLatest, FlightMoves
    <3> QED
      BY <3>1, <3>3, <3>4, UpdatesStay DEF ThreatInv
  <2>3. CASE Threat!Restart
    <3>1. /\ update' = [u \in Updates |-> Threat!NoUpdate] /\ memory' = settings'
          /\ flight' = [c \in Callers |-> Threat!NoFlight] /\ caller' = [c \in Callers |-> None]
          /\ UNCHANGED <<keyFile, keys, lostKey, asked, latest>>
          /\ faultCount' \in 0 .. ThreatFaults
      BY <2>1, <2>3 DEF Threat!Restart, Threat!Fault, Threat!FileSame, Threat!ThreatTypeOK, Threat!ThreatAssumption
    <3>2. /\ Threat!NoUpdate \in Threat!UpdateState /\ Threat!NoUpdate.at = "idle" /\ Threat!NoUpdate.key = None
          /\ Threat!NoFlight \in Threat!FlightState /\ Threat!NoFlight.at = "none"
      BY DEF Threat!NoUpdate, Threat!UpdateState, Threat!NoFlight, Threat!FlightState, Threat!ThreatAssumption
    <3>7. /\ settings' \in Threat!Settings
          /\ \/ settings' = settings
             \/ \E u \in Updates : settings'.credential \in {None, settings.credential, update[u].key}
      <4>1. settings \in Threat!Settings /\ \A u \in Updates : update[u] \in Threat!UpdateState
        BY <2>1 DEF Threat!ThreatTypeOK
      <4>2. settings' = settings \/ \E u \in Updates : settings' \in Threat!PartlyUpdated(settings, update[u])
        BY <2>3 DEF Threat!Restart
      <4> QED
        BY <4>1, <4>2, PartsAreSettings
    <3>3. Threat!ThreatTypeOK'
      <4>1. /\ Threat!Keys' = Threat!Keys /\ Threat!Short' = Threat!Short /\ Threat!Settings' = Threat!Settings
            /\ Threat!UpdateState' = Threat!UpdateState /\ Threat!FlightState' = Threat!FlightState
        BY DEF Threat!Keys, Threat!Short, Threat!Settings, Threat!UpdateState, Threat!FlightState
      <4> QED
        BY <2>1, <3>1, <3>2, <3>7, <4>1 DEF Threat!ThreatTypeOK
    <3>4. OneMaker' /\ HeldKeysAreOfTheFile'
      BY <3>1, <3>2 DEF OneMaker, Making, HeldKeysAreOfTheFile
    <3>5. Threat!SavedCredentialsAreReadable'
      BY <3>1, <3>7 DEF ThreatInv, HeldKeysAreOfTheFile, Threat!SavedCredentialsAreReadable
    <3>6. OneFlight' /\ Threat!PreviousIsLatest'
      BY <3>1, <3>2 DEF OneFlight, Threat!PreviousIsLatest
    <3> QED
      BY <3>3, <3>4, <3>5, <3>6 DEF ThreatInv
  <2>4. CASE UNCHANGED tv
    <3>1. Threat!ThreatTypeOK'
      BY <2>1, <2>4 DEF tv, Threat!ThreatTypeOK, Threat!Keys, Threat!Short, Threat!Settings, Threat!UpdateState,
                        Threat!FlightState
    <3>2. OneFlight' /\ Threat!PreviousIsLatest'
      BY <2>1, <2>4 DEF tv, OneFlight, Threat!PreviousIsLatest
    <3>3. UNCHANGED <<keyFile, keys, lostKey, update, settings, memory>>
      BY <2>4 DEF tv
    <3> QED
      BY <3>1, <3>2, <3>3, UpdatesStay DEF ThreatInv
  <2> QED
    BY <2>2, <2>3, <2>4, UpdateKeeps, Moves DEF Threat!ThreatNext
<1> QED
  BY <1>1, <1>2, PTL DEF Spec

\* For any number of updates and restarts: unless Close failed on a complete key, every
\* saved credential can be decrypted with the key in the file.
THEOREM CredentialsStayReadable == Spec => []SavedCredentialsAreReadable
<1>1. ThreatInv => SavedCredentialsAreReadable
  BY DEF ThreatInv, SavedCredentialsAreReadable
<1> QED
  BY <1>1, ThreatInvariance, PTL

\* No flight for the address comes between the previous result of a flight and its own.
THEOREM PreviousStaysLatest == Spec => []PreviousIsLatest
<1>1. ThreatInv => PreviousIsLatest
  BY DEF ThreatInv, PreviousIsLatest
<1> QED
  BY <1>1, ThreatInvariance, PTL
-----------------------------------------------------------------------------
(* Upgrade. *)

\* What the choice makes of a release when the best so far is known.
Better(best, r) ==
    IF Upgrading!Eligible(r) /\ \A b \in best : Upgrading!Newer(r.version, b.version) THEN {r} ELSE best

\* The function by which the list is folded.
Folds(list, f, D) ==
    f = [s \in SUBSET D |-> IF s = {} THEN {}
                            ELSE Better(f[s \ {Upgrading!Max(s)}], list[Upgrading!Max(s)])]

LEMMA LatestFolds ==
    ASSUME NEW list
    PROVE  Upgrading!Latest(list) = (CHOOSE f : Folds(list, f, DOMAIN list))[DOMAIN list]
BY Zenon DEF Upgrading!Latest, Upgrading!FoldLeft, Upgrading!MapThenFoldSet, Folds, Better

LEMMA MaxOfRange ==
    ASSUME NEW n \in Nat, NEW s \in SUBSET (1 .. n), n \in s
    PROVE  Upgrading!Max(s) = n
<1>1. \A y \in s : y \in Int /\ n >= y
  OBVIOUS
<1>2. \A x \in s : (\A y \in s : x >= y) => x = n
  BY <1>1
<1>3. (CHOOSE x \in s : \A y \in s : x >= y) = n
  BY <1>1, <1>2
<1> QED
  BY <1>3 DEF Upgrading!Max

\* There is a function for every beginning of the list.
LEMMA FoldExists ==
    ASSUME NEW list
    PROVE  \A n \in Nat : \E f : Folds(list, f, 1 .. n)
<1> DEFINE S == {n \in Nat : \E f : Folds(list, f, 1 .. n)}
<1>1. 0 \in S
  <2> DEFINE f == [s \in SUBSET (1 .. 0) |-> {}]
  <2>1. \A s \in SUBSET (1 .. 0) : s = {}
    OBVIOUS
  <2>2. Folds(list, f, 1 .. 0)
    BY <2>1 DEF Folds
  <2> QED
    BY <2>2
<1>2. ASSUME NEW n \in S PROVE n + 1 \in S
  <2>1. n \in Nat /\ n + 1 \in Nat
    OBVIOUS
  <2>2. PICK g : Folds(list, g, 1 .. n)
    OBVIOUS
  <2> DEFINE val(s) == IF n + 1 \in s THEN Better(g[s \ {n + 1}], list[n + 1]) ELSE g[s]
             f == [s \in SUBSET (1 .. n + 1) |-> val(s)]
  <2>3. ASSUME NEW s \in SUBSET (1 .. n + 1)
        PROVE  f[s] = IF s = {} THEN {}
                      ELSE Better(f[s \ {Upgrading!Max(s)}], list[Upgrading!Max(s)])
    <3>1. CASE n + 1 \in s
      <4>1. Upgrading!Max(s) = n + 1
        BY <2>1, <3>1, MaxOfRange
      <4>2. s \ {n + 1} \in SUBSET (1 .. n + 1) /\ n + 1 \notin s \ {n + 1}
        OBVIOUS
      <4>3. f[s \ {n + 1}] = g[s \ {n + 1}]
        BY <4>2
      <4> QED
        BY <3>1, <4>1, <4>3
    <3>2. CASE n + 1 \notin s
      <4>1. s \in SUBSET (1 .. n)
        BY <2>1, <3>2
      <4>2. f[s] = g[s]
        BY <3>2
      <4>3. g[s] = IF s = {} THEN {} ELSE Better(g[s \ {Upgrading!Max(s)}], list[Upgrading!Max(s)])
        BY <2>2, <4>1, Zenon DEF Folds
      <4>4. f[s \ {Upgrading!Max(s)}] = g[s \ {Upgrading!Max(s)}]
        BY <3>2
      <4> QED
        BY <4>2, <4>3, <4>4
    <3> QED
      BY <3>1, <3>2
  <2>4. Folds(list, f, 1 .. n + 1)
    <3>1. f = [s \in SUBSET (1 .. n + 1) |-> f[s]]
      OBVIOUS
    <3> HIDE DEF f
    <3> QED
      BY <2>3, <3>1 DEF Folds
  <2> QED
    BY <2>1, <2>4
<1> QED
  <2> HIDE DEF S
  <2> QED
    BY <1>1, <1>2, NatSetInduction DEF S

\* The numbers of a version.
LEMMA FourNumbers ==
    ASSUME NEW p \in Seq(Nat), Len(p) \in {3, 4}, NEW i \in 1 .. 4
    PROVE  (IF Len(p) < 4 THEN Append(p, 0) ELSE p)[i] \in Nat
<1> DEFINE a == Append(p, 0)
<1>1. ASSUME Len(p) = 3 PROVE a[i] \in Nat
  <2>1. a \in Seq(Nat) /\ Len(a) = 4
    <3>1. a \in Seq(Nat) /\ Len(a) = Len(p) + 1
      BY AppendProperties
    <3> HIDE DEF a
    <3> QED
      BY <1>1, <3>1
  <2> HIDE DEF a
  <2>2. i \in 1 .. Len(a)
    BY <2>1
  <2> QED
    BY <2>1, <2>2, ElementOfSeq
<1>2. ASSUME Len(p) = 4 PROVE p[i] \in Nat
  <2>1. i \in 1 .. Len(p)
    BY <1>2
  <2> QED
    BY <2>1, ElementOfSeq
<1>3. CASE Len(p) = 3
  <2>1. Len(p) < 4
    BY <1>3
  <2> QED
    BY <1>1, <1>3, <2>1
<1>4. CASE Len(p) = 4
  <2>1. ~ (Len(p) < 4)
    BY <1>4
  <2> QED
    BY <1>2, <1>4, <2>1
<1> QED
  BY <1>3, <1>4

LEMMA PaddedNumbers ==
    ASSUME Upgrading!UpgradeAssumption, NEW r \in Releases
    PROVE  /\ \A i \in 1 .. 4 : Upgrading!Padded(r.version)[i] \in Nat
           /\ r.version.test \in BOOLEAN
<1>1. r.version.parts \in Seq(Nat) /\ Len(r.version.parts) \in {3, 4} /\ r.version.test \in BOOLEAN
  BY DEF Upgrading!UpgradeAssumption
<1> QED
  BY <1>1, FourNumbers DEF Upgrading!Padded

\* Releases that are not test versions are ordered strictly.
LEMMA NewerIsStrict ==
    ASSUME Upgrading!UpgradeAssumption, NEW r \in Releases, ~r.version.test
    PROVE  ~Upgrading!Newer(r.version, r.version)
BY PaddedNumbers DEF Upgrading!Newer

LEMMA NewerIsTransitive ==
    ASSUME Upgrading!UpgradeAssumption, NEW r \in Releases, NEW s \in Releases, NEW t \in Releases,
           ~r.version.test, ~s.version.test, ~t.version.test,
           Upgrading!Newer(r.version, s.version), Upgrading!Newer(s.version, t.version)
    PROVE  Upgrading!Newer(r.version, t.version)
<1> DEFINE p == Upgrading!Padded(r.version)
           q == Upgrading!Padded(s.version)
           o == Upgrading!Padded(t.version)
           D(a, b, i) == a[i] > b[i] /\ \A k \in 1 .. i - 1 : a[k] = b[k]
<1>1. \A i \in 1 .. 4 : p[i] \in Nat /\ q[i] \in Nat /\ o[i] \in Nat
  BY PaddedNumbers
<1>2. PICK i \in 1 .. 4 : D(p, q, i)
  BY DEF Upgrading!Newer
<1>3. PICK j \in 1 .. 4 : D(q, o, j)
  BY DEF Upgrading!Newer
<1> HIDE DEF p, q, o
<1>4. \E k \in 1 .. 4 : D(p, o, k)
  <2>1. CASE i <= j
    <3>1. D(p, o, i)
      BY <1>1, <1>2, <1>3, <2>1
    <3> QED
      BY <3>1
  <2>2. CASE j < i
    <3>1. D(p, o, j)
      BY <1>1, <1>2, <1>3, <2>2
    <3> QED
      BY <3>1
  <2> QED
    BY <2>1, <2>2
<1> QED
  BY <1>4 DEF Upgrading!Newer, p, o

\* What is chosen from a list: an eligible release of it that no other exceeds.
LEMMA LatestIsNewest ==
    ASSUME Upgrading!UpgradeAssumption, NEW list \in Listings,
           NEW r \in Upgrading!Latest(list)
    PROVE  /\ r \in Releases /\ Upgrading!Eligible(r)
           /\ \A i \in 1 .. Len(list) :
                 Upgrading!Eligible(list[i]) => ~Upgrading!Newer(list[i].version, r.version)
<1> DEFINE N == Len(list)
           g == CHOOSE f : Folds(list, f, 1 .. N)
           Best(n) == /\ \A b \in g[1 .. n] : Upgrading!Eligible(b) /\ b \in Releases
                      /\ \A b, c \in g[1 .. n] : b = c
                      /\ \A i \in 1 .. n : Upgrading!Eligible(list[i]) =>
                            /\ g[1 .. n] # {}
                            /\ \A b \in g[1 .. n] : ~Upgrading!Newer(list[i].version, b.version)
           S == {n \in Nat : n <= N => Best(n)}
<1>1. list \in Seq(Releases) /\ N \in Nat /\ DOMAIN list = 1 .. N
  BY DEF Upgrading!UpgradeAssumption
<1>2. Folds(list, g, 1 .. N)
  BY <1>1, FoldExists
<1>3. Upgrading!Latest(list) = g[1 .. N]
  BY <1>1, LatestFolds, Zenon
<1> HIDE DEF g, N
<1>4. \A s \in SUBSET (1 .. N) : g[s] = IF s = {} THEN {}
                                 ELSE Better(g[s \ {Upgrading!Max(s)}], list[Upgrading!Max(s)])
  BY <1>2, Zenon DEF Folds
<1>5. 0 \in S
  <2>1. 1 .. 0 = {}
    OBVIOUS
  <2>2. g[1 .. 0] = {}
    BY <1>4, <2>1
  <2> QED
    BY <2>1, <2>2
<1>6. ASSUME NEW n \in S PROVE n + 1 \in S
  <2> SUFFICES ASSUME n + 1 <= N PROVE Best(n + 1)
    OBVIOUS
  <2>1. n \in Nat /\ n + 1 \in Nat /\ n <= N /\ Best(n)
    BY <1>1
  <2> DEFINE new == list[n + 1]
             old == g[1 .. n]
  <2>2. g[1 .. n + 1] = Better(old, new) /\ new \in Releases
    <3>1. 1 .. n + 1 \in SUBSET (1 .. N) /\ 1 .. n + 1 # {} /\ n + 1 \in 1 .. n + 1
      BY <1>1, <2>1
    <3>2. Upgrading!Max(1 .. n + 1) = n + 1
      BY <2>1, <3>1, MaxOfRange
    <3>3. (1 .. n + 1) \ {n + 1} = 1 .. n
      BY <2>1
    <3>4. new \in Releases
      BY <1>1, <3>1 DEF N
    <3> QED
      BY <1>4, <3>1, <3>2, <3>3, <3>4
  <2>3. \A i \in 1 .. n : list[i] \in Releases
    BY <1>1, <2>1 DEF N
  <2>4. \A i \in 1 .. n + 1 : i \in 1 .. n \/ list[i] = new
    BY <2>1
  <2> HIDE DEF new, old, S
  <2>5. CASE Upgrading!Eligible(new) /\ \A b \in old : Upgrading!Newer(new.version, b.version)
    <3>1. g[1 .. n + 1] = {new}
      BY <2>2, <2>5 DEF Better
    <3>2. ~new.version.test
      BY <2>5 DEF Upgrading!Eligible
    <3>3. ~Upgrading!Newer(new.version, new.version)
      BY <2>2, <3>2, NewerIsStrict
    <3>4. ASSUME NEW i \in 1 .. n, Upgrading!Eligible(list[i])
          PROVE  ~Upgrading!Newer(list[i].version, new.version)
      <4>1. PICK b \in old : ~Upgrading!Newer(list[i].version, b.version) /\ Upgrading!Eligible(b) /\ b \in Releases
        BY <2>1, <3>4 DEF old
      <4>2. ~b.version.test /\ ~list[i].version.test
        BY <3>4, <4>1 DEF Upgrading!Eligible
      <4> QED
        BY <2>2, <2>3, <2>5, <3>2, <4>1, <4>2, NewerIsTransitive
    <3> QED
      BY <2>2, <2>4, <2>5, <3>1, <3>3, <3>4
  <2>6. CASE ~(Upgrading!Eligible(new) /\ \A b \in old : Upgrading!Newer(new.version, b.version))
    <3>1. g[1 .. n + 1] = old
      BY <2>2, <2>6 DEF Better
    <3>2. /\ \A b \in old : Upgrading!Eligible(b) /\ b \in Releases
          /\ \A b, c \in old : b = c
          /\ \A i \in 1 .. n : Upgrading!Eligible(list[i]) =>
                old # {} /\ \A b \in old : ~Upgrading!Newer(list[i].version, b.version)
      BY <2>1 DEF old
    <3>3. ASSUME Upgrading!Eligible(new)
          PROVE  old # {} /\ \A b \in old : ~Upgrading!Newer(new.version, b.version)
      BY <2>6, <3>2, <3>3
    <3> QED
      BY <2>4, <3>1, <3>2, <3>3
  <2> QED
    BY <2>5, <2>6
<1>7. S = Nat
  <2>1. S \in SUBSET Nat
    OBVIOUS
  <2> HIDE DEF S
  <2> QED
    BY <1>5, <1>6, <2>1, NatSetInduction
<1>8. Best(N)
  BY <1>1, <1>7
<1> QED
  BY <1>3, <1>8 DEF N

\* An eligible release with a greater version is newer.
LEMMA ExceedingIsNewer ==
    ASSUME Upgrading!UpgradeAssumption, NEW r \in Releases, NEW s \in Releases,
           Upgrading!Eligible(r), Upgrading!Eligible(s), Upgrading!Exceeds(s.version, r.version)
    PROVE  Upgrading!Newer(s.version, r.version)
<1>1. \A x \in Releases : Upgrading!Eligible(x) => Upgrading!Padded(x.version) = x.version.parts
  <2> SUFFICES ASSUME NEW x \in Releases, Upgrading!Eligible(x) PROVE Upgrading!Padded(x.version) = x.version.parts
    OBVIOUS
  <2>1. Len(x.version.parts) = 4
    BY DEF Upgrading!Eligible, Upgrading!IsTestBuild
  <2> QED
    BY <2>1 DEF Upgrading!Padded
<1> DEFINE a == s.version.parts
           b == r.version.parts
<1>2. PICK i \in 1 .. 4 : (\A k \in 1 .. 4 : a[k] # b[k] => i <= k) /\ a[i] > b[i]
  BY DEF Upgrading!Exceeds
<1>3. \A k \in 1 .. i - 1 : k \in 1 .. 4 /\ ~ (i <= k)
  OBVIOUS
<1>4. \A k \in 1 .. i - 1 : a[k] = b[k]
  BY <1>2, <1>3
<1>5. Upgrading!Padded(s.version) = a /\ Upgrading!Padded(r.version) = b
  BY <1>1
<1> HIDE DEF a, b
<1> QED
  BY <1>2, <1>4, <1>5 DEF Upgrading!Newer

TasksUnderWay == {j \in Jobs : job[j].at \in Upgrading!Running}

\* The status is that of the one task.
OneTask == IF status = "running" THEN \E j \in Jobs : TasksUnderWay = {j} ELSE TasksUnderWay = {}

\* Only a task that goes on has a release.
ReleasesAreOfTasks == \A j \in Jobs : job[j].release # {} => job[j].at \in Upgrading!Running

UpgradeInv == Upgrading!UpgradeTypeOK /\ OneTask /\ ReleasesAreOfTasks /\ Upgrading!NewestIsOffered

LEMMA UpgradeInitIsSound == ASSUME Upgrading!UpgradeAssumption PROVE Upgrading!UpgradeInit => UpgradeInv
<1> SUFFICES ASSUME Upgrading!UpgradeInit PROVE UpgradeInv
  OBVIOUS
<1>1. Upgrading!NoJob \in Upgrading!Task /\ Upgrading!NoJob.at = "idle" /\ Upgrading!NoJob.release = {}
  BY DEF Upgrading!NoJob, Upgrading!NoPackage, Upgrading!Task, Upgrading!Package
<1>2. \A j \in Jobs : job[j] = Upgrading!NoJob
  BY DEF Upgrading!UpgradeInit
<1>3. Upgrading!UpgradeTypeOK
  <2>1. job \in [Jobs -> Upgrading!Task]
    BY <1>1 DEF Upgrading!UpgradeInit
  <2>2. faults \in 0 .. UpgradeFaults
    BY DEF Upgrading!UpgradeInit, Upgrading!UpgradeAssumption
  <2> QED
    BY <2>1, <2>2 DEF Upgrading!UpgradeTypeOK, Upgrading!UpgradeInit
<1>4. OneTask
  <2>1. TasksUnderWay = {}
    BY <1>1, <1>2 DEF TasksUnderWay, Upgrading!Running
  <2> QED
    BY <2>1 DEF OneTask, Upgrading!UpgradeInit
<1> QED
  BY <1>1, <1>2, <1>3, <1>4 DEF UpgradeInv, ReleasesAreOfTasks, Upgrading!NewestIsOffered

\* A step of one job that begins, goes on with or ends a task.
StepOf(j, x) ==
    /\ job' = [job EXCEPT ![j] = x]
    /\ x.release # {} => x.at \in Upgrading!Running
    /\ \/ status' = status /\ (x.at \in Upgrading!Running <=> job[j].at \in Upgrading!Running)
       \/ status # "running" /\ status' = "running" /\ x.at \in Upgrading!Running
       \/ /\ job[j].at \in Upgrading!Running /\ x.at \notin Upgrading!Running
          /\ status' \in {"failed", "succeeded"}

LEMMA StepsOfJobs ==
    ASSUME UpgradeInv, NEW j \in Jobs, NEW x \in Upgrading!Task, StepOf(j, x)
    PROVE  /\ job' \in [Jobs -> Upgrading!Task] /\ status' \in {"idle", "running", "failed", "succeeded"}
           /\ OneTask' /\ ReleasesAreOfTasks'
           /\ job'[j] = x /\ \A i \in Jobs : i # j => job'[i] = job[i]
<1>1. /\ job \in [Jobs -> Upgrading!Task] /\ status \in {"idle", "running", "failed", "succeeded"}
      /\ OneTask /\ ReleasesAreOfTasks
  BY DEF UpgradeInv, Upgrading!UpgradeTypeOK
<1>2. /\ job' \in [Jobs -> Upgrading!Task]
      /\ job'[j] = x /\ \A i \in Jobs : i # j => job'[i] = job[i]
  BY <1>1 DEF StepOf
<1>3. status' \in {"idle", "running", "failed", "succeeded"}
  BY <1>1 DEF StepOf
<1>4. ReleasesAreOfTasks'
  BY <1>1, <1>2 DEF StepOf, ReleasesAreOfTasks
<1>5. OneTask'
  <2>1. TasksUnderWay' = IF x.at \in Upgrading!Running THEN TasksUnderWay \cup {j} ELSE TasksUnderWay \ {j}
    BY <1>2 DEF TasksUnderWay
  <2>2. CASE status' = status /\ (x.at \in Upgrading!Running <=> job[j].at \in Upgrading!Running)
    <3>1. TasksUnderWay' = TasksUnderWay
      BY <2>1, <2>2 DEF TasksUnderWay
    <3> QED
      BY <1>1, <2>2, <3>1 DEF OneTask
  <2>3. CASE status # "running" /\ status' = "running" /\ x.at \in Upgrading!Running
    BY <1>1, <2>1, <2>3 DEF OneTask
  <2>4. CASE /\ job[j].at \in Upgrading!Running /\ x.at \notin Upgrading!Running
             /\ status' \in {"failed", "succeeded"}
    <3>1. j \in TasksUnderWay
      BY <2>4 DEF TasksUnderWay
    <3>2. TasksUnderWay = {j}
      BY <1>1, <3>1 DEF OneTask
    <3> QED
      BY <2>1, <2>4, <3>2 DEF OneTask
  <2> QED
    BY <2>2, <2>3, <2>4 DEF StepOf
<1> QED
  BY <1>2, <1>3, <1>4, <1>5

\* A step that leaves the host and the list, and chooses no release.
Leaves(x, j) == /\ UNCHANGED <<tools, preferred, current, listing>>
                /\ faults' \in 0 .. UpgradeFaults
                /\ x.release \subseteq job[j].release

LEMMA LeavesIsSound ==
    ASSUME UpgradeInv, NEW j \in Jobs, NEW x \in Upgrading!Task, StepOf(j, x), Leaves(x, j)
    PROVE  UpgradeInv'
<1>1. /\ job' \in [Jobs -> Upgrading!Task] /\ status' \in {"idle", "running", "failed", "succeeded"}
      /\ OneTask' /\ ReleasesAreOfTasks'
      /\ job'[j] = x /\ \A i \in Jobs : i # j => job'[i] = job[i]
  BY StepsOfJobs
<1>2. Upgrading!UpgradeTypeOK'
  BY <1>1 DEF UpgradeInv, Upgrading!UpgradeTypeOK, Leaves
<1>3. Upgrading!NewestIsOffered'
  <2>1. \A i \in Jobs : job'[i].release \subseteq job[i].release
    BY <1>1 DEF Leaves
  <2>2. listing' = listing /\ current' = current /\ Upgrading!NewestIsOffered
    BY DEF Leaves, UpgradeInv
  <2> QED
    BY <2>1, <2>2 DEF Upgrading!NewestIsOffered
<1> QED
  BY <1>1, <1>2, <1>3 DEF UpgradeInv

LEMMA ChooseIsSound ==
    ASSUME UpgradeInv, Upgrading!UpgradeAssumption, NEW j \in Jobs, NEW list \in Listings,
           Upgrading!Choose(j, list)
    PROVE  UpgradeInv'
<1>1. PICK r \in (IF Upgrading!IsTestBuild(current) THEN Upgrading!Latest(list) ELSE Upgrading!Range(list)) :
         job' = [job EXCEPT ![j] = [@ EXCEPT !.at = "chosen", !.release = {r}]]
  BY DEF Upgrading!Choose
<1>2. job[j].at = "backed" /\ listing' = list /\ UNCHANGED <<status, tools, preferred, current, faults>>
  BY DEF Upgrading!Choose, Upgrading!At, Upgrading!Quiet, Upgrading!host
<1>3. list \in Seq(Releases) /\ Upgrading!Range(list) = {list[i] : i \in 1 .. Len(list)}
  <2>1. list \in Seq(Releases)
    BY DEF Upgrading!UpgradeAssumption
  <2> QED
    BY <2>1 DEF Upgrading!Range
<1>4. r \in Releases
  BY <1>1, <1>3, LatestIsNewest
<1> DEFINE x == [job[j] EXCEPT !.at = "chosen", !.release = {r}]
<1>5. job \in [Jobs -> Upgrading!Task] /\ job[j] \in Upgrading!Task
  BY DEF UpgradeInv, Upgrading!UpgradeTypeOK
<1>6. x \in Upgrading!Task /\ x.at = "chosen" /\ x.release = {r}
  BY <1>4, <1>5 DEF Upgrading!Task, Upgrading!Running
<1>7. job' = [job EXCEPT ![j] = x]
  BY <1>1
<1> HIDE DEF x
<1>8. StepOf(j, x)
  BY <1>2, <1>6, <1>7 DEF StepOf, Upgrading!Running
<1>9. /\ job' \in [Jobs -> Upgrading!Task] /\ status' \in {"idle", "running", "failed", "succeeded"}
      /\ OneTask' /\ ReleasesAreOfTasks'
      /\ job'[j] = x /\ \A i \in Jobs : i # j => job'[i] = job[i]
  BY <1>6, <1>8, StepsOfJobs
<1>10. Upgrading!UpgradeTypeOK'
  BY <1>2, <1>9 DEF UpgradeInv, Upgrading!UpgradeTypeOK
<1>11. Upgrading!NewestIsOffered'
  <2>1. \A i \in Jobs : i # j => job'[i].release = {}
    <3>1. j \in TasksUnderWay
      BY <1>2 DEF TasksUnderWay, Upgrading!Running
    <3>2. TasksUnderWay = {j}
      BY <3>1 DEF UpgradeInv, OneTask
    <3> QED
      BY <1>9, <3>2 DEF UpgradeInv, ReleasesAreOfTasks, TasksUnderWay
  <2>3. ASSUME Upgrading!IsTestBuild(current) PROVE Upgrading!Eligible(r)
    BY <1>1, <2>3, LatestIsNewest
  <2>2. ASSUME Upgrading!IsTestBuild(current), NEW s \in Upgrading!Range(list), Upgrading!Eligible(s)
        PROVE  ~Upgrading!Exceeds(s.version, r.version)
    <3>1. ~Upgrading!Newer(s.version, r.version)
      BY <1>1, <1>3, <2>2, LatestIsNewest
    <3>2. s \in Releases
      <4>1. PICK i \in 1 .. Len(list) : s = list[i]
        BY <1>3
      <4> QED
        BY <1>3, <4>1, ElementOfSeq
    <3> QED
      BY <1>4, <2>2, <2>3, <3>1, <3>2, ExceedingIsNewer
  <2> QED
    <3>1. listing' = list /\ current' = current /\ job'[j].release = {r} /\ \A i \in Jobs : i # j => job'[i].release = {}
      BY <1>2, <1>6, <1>9, <2>1
    <3>2. Upgrading!IsTestBuild(current)' <=> Upgrading!IsTestBuild(current)
      BY <3>1 DEF Upgrading!IsTestBuild
    <3> QED
      BY <2>2, <2>3, <3>1, <3>2, Zenon DEF Upgrading!NewestIsOffered
<1> QED
  BY <1>9, <1>10, <1>11 DEF UpgradeInv

LEMMA UpgradeStepIsSound ==
    ASSUME UpgradeInv, Upgrading!UpgradeAssumption, NEW j \in Jobs, Upgrading!Step(j)
    PROVE  UpgradeInv'
<1>1. job \in [Jobs -> Upgrading!Task] /\ job[j] \in Upgrading!Task /\ faults \in 0 .. UpgradeFaults
  BY DEF UpgradeInv, Upgrading!UpgradeTypeOK
<1>2. job[j].release # {} => job[j].at \in Upgrading!Running
  BY DEF UpgradeInv, ReleasesAreOfTasks
<1>3. UpgradeFaults \in Nat
  BY DEF Upgrading!UpgradeAssumption
<1>4. ASSUME NEW x \in Upgrading!Task, StepOf(j, x), Leaves(x, j) PROVE UpgradeInv'
  BY <1>4, LeavesIsSound
<1>5. Upgrading!NoJob \in Upgrading!Task /\ Upgrading!NoJob.at = "idle" /\ Upgrading!NoJob.release = {}
  BY DEF Upgrading!NoJob, Upgrading!NoPackage, Upgrading!Task, Upgrading!Package
<1>6. \A place \in {"started", "backed", "verified", "installing"} :
         LET x == [job[j] EXCEPT !.at = place]
         IN  x \in Upgrading!Task /\ x.at = place /\ x.release = job[j].release
  BY <1>1 DEF Upgrading!Task, Upgrading!Running
<1>7. CASE Upgrading!Run(j)
  <2> DEFINE x == [job[j] EXCEPT !.at = "started"]
  <2>1. x \in Upgrading!Task /\ x.at = "started" /\ x.release = job[j].release
    BY <1>6
  <2>2. /\ job' = [job EXCEPT ![j] = x]
    BY <1>7 DEF Upgrading!Run, Upgrading!Begin, Upgrading!Go
  <2> HIDE DEF x
  <2>3. StepOf(j, x)
    BY <1>2, <1>7, <2>1, <2>2 DEF StepOf, Upgrading!Run, Upgrading!Begin, Upgrading!Go, Upgrading!At, Upgrading!Running
  <2>4. Leaves(x, j)
    BY <1>1, <1>3, <1>7, <2>1 DEF Leaves, Upgrading!Run, Upgrading!Begin, Upgrading!Go, Upgrading!Quiet, Upgrading!host
  <2> QED
    BY <1>4, <2>1, <2>3, <2>4
<1>8. CASE Upgrading!Fail(j)
  <2> DEFINE x == Upgrading!NoJob
  <2>1. x \in Upgrading!Task /\ x.at = "idle" /\ x.release = {}
    BY <1>5
  <2>2. /\ job' = [job EXCEPT ![j] = x]
    BY <1>8 DEF Upgrading!Fail, Upgrading!End
  <2> HIDE DEF x
  <2>3. StepOf(j, x)
    BY <1>2, <1>8, <2>1, <2>2 DEF StepOf, Upgrading!Fail, Upgrading!End, Upgrading!At, Upgrading!Running
  <2>4. Leaves(x, j)
    BY <1>1, <1>3, <1>8, <2>1 DEF Leaves, Upgrading!Fail, Upgrading!End, Upgrading!Quiet, Upgrading!host
  <2> QED
    BY <1>4, <2>1, <2>3, <2>4
<1>9. CASE Upgrading!Backup(j)
  <2> DEFINE x == [job[j] EXCEPT !.at = "backed"]
  <2>1. x \in Upgrading!Task /\ x.at = "backed" /\ x.release = job[j].release
    BY <1>6
  <2>2. /\ job' = [job EXCEPT ![j] = x]
    BY <1>9 DEF Upgrading!Backup, Upgrading!Go
  <2> HIDE DEF x
  <2>3. StepOf(j, x)
    BY <1>2, <1>9, <2>1, <2>2 DEF StepOf, Upgrading!Backup, Upgrading!Go, Upgrading!At, Upgrading!Running
  <2>4. Leaves(x, j)
    BY <1>1, <1>3, <1>9, <2>1 DEF Leaves, Upgrading!Backup, Upgrading!Go, Upgrading!Quiet, Upgrading!host
  <2> QED
    BY <1>4, <2>1, <2>3, <2>4
<1>10. CASE Upgrading!Select(j)
  <2>1. PICK f \in Upgrading!SelectedFormat :
           job' = [job EXCEPT ![j] = [@ EXCEPT !.at = "selected", !.package.format = f]]
    BY <1>10 DEF Upgrading!Select
  <2>2. f \in Upgrading!Formats
    BY DEF UpgradeInv, Upgrading!UpgradeTypeOK, Upgrading!SelectedFormat, Upgrading!Formats
  <2> DEFINE x == [job[j] EXCEPT !.at = "selected", !.package.format = f]
  <2>3. x \in Upgrading!Task /\ x.at = "selected" /\ x.release = job[j].release
    BY <1>1, <2>2 DEF Upgrading!Task, Upgrading!Package, Upgrading!Running
  <2>4. /\ job' = [job EXCEPT ![j] = x] /\ job[j].at = "chosen" /\ status' = status
        /\ UNCHANGED <<tools, preferred, current, listing, faults>>
    BY <1>10, <2>1 DEF Upgrading!Select, Upgrading!At, Upgrading!Quiet, Upgrading!host
  <2> HIDE DEF x
  <2>5. StepOf(j, x) /\ Leaves(x, j)
    BY <1>1, <2>3, <2>4 DEF StepOf, Leaves, Upgrading!Running
  <2> QED
    BY <1>4, <2>3, <2>5
<1>11. ASSUME NEW yes \in BOOLEAN, NEW database \in BOOLEAN, Upgrading!Download(j, yes, database) PROVE UpgradeInv'
  <2> DEFINE x == [job[j] EXCEPT !.at = "downloaded", !.package.genuine = yes, !.package.database = database]
  <2>1. x \in Upgrading!Task /\ x.at = "downloaded" /\ x.release = job[j].release
    BY <1>1 DEF Upgrading!Task, Upgrading!Package, Upgrading!Running
  <2>2. /\ job' = [job EXCEPT ![j] = x]
    BY <1>11 DEF Upgrading!Download
  <2> HIDE DEF x
  <2>3. StepOf(j, x)
    BY <1>2, <1>11, <2>1, <2>2 DEF StepOf, Upgrading!Download, Upgrading!At, Upgrading!Running
  <2>4. Leaves(x, j)
    BY <1>1, <1>3, <1>11, <2>1 DEF Leaves, Upgrading!Download, Upgrading!Quiet, Upgrading!host
  <2> QED
    BY <1>4, <2>1, <2>3, <2>4
<1>12. CASE Upgrading!Verify(j)
  <2> DEFINE x == [job[j] EXCEPT !.at = "verified"]
  <2>1. x \in Upgrading!Task /\ x.at = "verified" /\ x.release = job[j].release
    BY <1>6
  <2>2. /\ job' = [job EXCEPT ![j] = x]
    BY <1>12 DEF Upgrading!Verify, Upgrading!Go
  <2> HIDE DEF x
  <2>3. StepOf(j, x)
    BY <1>2, <1>12, <2>1, <2>2 DEF StepOf, Upgrading!Verify, Upgrading!Go, Upgrading!At, Upgrading!Running
  <2>4. Leaves(x, j)
    BY <1>1, <1>3, <1>12, <2>1 DEF Leaves, Upgrading!Verify, Upgrading!Go, Upgrading!Quiet, Upgrading!host
  <2> QED
    BY <1>4, <2>1, <2>3, <2>4
<1>13. CASE Upgrading!Validate(j)
  <2> DEFINE x == [job[j] EXCEPT !.at = "installing"]
  <2>1. x \in Upgrading!Task /\ x.at = "installing" /\ x.release = job[j].release
    BY <1>6
  <2>2. /\ job' = [job EXCEPT ![j] = x]
    BY <1>13 DEF Upgrading!Validate, Upgrading!Go
  <2> HIDE DEF x
  <2>3. StepOf(j, x)
    BY <1>2, <1>13, <2>1, <2>2 DEF StepOf, Upgrading!Validate, Upgrading!Go, Upgrading!At, Upgrading!Running
  <2>4. Leaves(x, j)
    BY <1>1, <1>3, <1>13, <2>1 DEF Leaves, Upgrading!Validate, Upgrading!Go, Upgrading!Quiet, Upgrading!host
  <2> QED
    BY <1>4, <2>1, <2>3, <2>4
<1>14. CASE Upgrading!Install(j)
  <2> DEFINE x == Upgrading!NoJob
  <2>1. x \in Upgrading!Task /\ x.at = "idle" /\ x.release = {}
    BY <1>5
  <2>2. /\ job' = [job EXCEPT ![j] = x]
    BY <1>14 DEF Upgrading!Install, Upgrading!End
  <2> HIDE DEF x
  <2>3. StepOf(j, x)
    BY <1>2, <1>14, <2>1, <2>2 DEF StepOf, Upgrading!Install, Upgrading!End, Upgrading!At, Upgrading!Running
  <2>4. Leaves(x, j)
    BY <1>1, <1>3, <1>14, <2>1 DEF Leaves, Upgrading!Install, Upgrading!End, Upgrading!Quiet, Upgrading!host
  <2> QED
    BY <1>4, <2>1, <2>3, <2>4
<1>15. ASSUME NEW f \in Upgrading!Formats, NEW database \in BOOLEAN, Upgrading!Upload(j, f, database) PROVE UpgradeInv'
  <2> DEFINE x == [at |-> "uploaded", upload |-> TRUE, release |-> {}, package |-> [format |-> f, genuine |-> FALSE, database |-> database]]
  <2>1. x \in Upgrading!Task /\ x.at = "uploaded" /\ x.release = {}
    BY DEF Upgrading!Task, Upgrading!Package, Upgrading!Running
  <2>2. /\ job' = [job EXCEPT ![j] = x]
    BY <1>15 DEF Upgrading!Upload
  <2> HIDE DEF x
  <2>3. StepOf(j, x)
    BY <1>2, <1>15, <2>1, <2>2 DEF StepOf, Upgrading!Upload, Upgrading!At, Upgrading!Running
  <2>4. Leaves(x, j)
    BY <1>1, <1>3, <1>15, <2>1 DEF Leaves, Upgrading!Upload, Upgrading!Quiet, Upgrading!host
  <2> QED
    BY <1>4, <2>1, <2>3, <2>4
<1>16. CASE Upgrading!RefuseUpload(j)
  <2> DEFINE x == Upgrading!NoJob
  <2>1. x \in Upgrading!Task /\ x.at = "idle" /\ x.release = {}
    BY <1>5
  <2>2. /\ job' = [job EXCEPT ![j] = x]
    BY <1>16 DEF Upgrading!RefuseUpload
  <2> HIDE DEF x
  <2>3. StepOf(j, x)
    BY <1>2, <1>16, <2>1, <2>2 DEF StepOf, Upgrading!RefuseUpload, Upgrading!At, Upgrading!Running
  <2>4. Leaves(x, j)
    BY <1>1, <1>3, <1>16, <2>1 DEF Leaves, Upgrading!RefuseUpload, Upgrading!Quiet, Upgrading!host
  <2> QED
    BY <1>4, <2>1, <2>3, <2>4
<1>17. CASE Upgrading!StartUpload(j)
  <2> DEFINE x == [job[j] EXCEPT !.at = "installing"]
  <2>1. x \in Upgrading!Task /\ x.at = "installing" /\ x.release = job[j].release
    BY <1>6
  <2>2. /\ job' = [job EXCEPT ![j] = x]
    BY <1>17 DEF Upgrading!StartUpload, Upgrading!BeginUpload, Upgrading!Begin, Upgrading!Go
  <2> HIDE DEF x
  <2>3. StepOf(j, x)
    BY <1>2, <1>17, <2>1, <2>2 DEF StepOf, Upgrading!StartUpload, Upgrading!BeginUpload, Upgrading!Begin, Upgrading!Go, Upgrading!At, Upgrading!Running
  <2>4. Leaves(x, j)
    BY <1>1, <1>3, <1>17, <2>1 DEF Leaves, Upgrading!StartUpload, Upgrading!BeginUpload, Upgrading!Begin, Upgrading!Go, Upgrading!Quiet, Upgrading!host
  <2> QED
    BY <1>4, <2>1, <2>3, <2>4
<1>18. CASE Upgrading!Panic(j)
  <2> DEFINE x == Upgrading!NoJob
  <2>1. x \in Upgrading!Task /\ x.at = "idle" /\ x.release = {}
    BY <1>5
  <2>2. /\ job' = [job EXCEPT ![j] = x]
    BY <1>18 DEF Upgrading!Panic, Upgrading!Recover, Upgrading!End
  <2> HIDE DEF x
  <2>3. StepOf(j, x)
    BY <1>2, <1>18, <2>1, <2>2 DEF StepOf, Upgrading!Panic, Upgrading!Recover, Upgrading!End, Upgrading!At, Upgrading!Running
  <2>4. Leaves(x, j)
    BY <1>1, <1>3, <1>18, <2>1 DEF Leaves, Upgrading!Panic, Upgrading!Recover, Upgrading!End, Upgrading!Quiet, Upgrading!host
  <2> QED
    BY <1>4, <2>1, <2>3, <2>4
<1>20. CASE Upgrading!UnitEnds(j)
  <2> DEFINE x == Upgrading!NoJob
  <2>1. x \in Upgrading!Task /\ x.at = "idle" /\ x.release = {}
    BY <1>5
  <2>2. /\ job' = [job EXCEPT ![j] = x]
    BY <1>20 DEF Upgrading!UnitEnds
  <2> HIDE DEF x
  <2>3. StepOf(j, x)
    BY <1>2, <1>20, <2>1, <2>2 DEF StepOf, Upgrading!UnitEnds, Upgrading!At, Upgrading!Running
  <2>4. Leaves(x, j)
    BY <1>1, <1>3, <1>20, <2>1 DEF Leaves, Upgrading!UnitEnds, Upgrading!Quiet, Upgrading!host
  <2> QED
    BY <1>4, <2>1, <2>3, <2>4
<1>19. ASSUME NEW list \in Listings, Upgrading!Choose(j, list) PROVE UpgradeInv'
  BY <1>19, ChooseIsSound
<1> QED
  BY <1>7, <1>8, <1>9, <1>10, <1>11, <1>12, <1>13, <1>14, <1>15, <1>16, <1>17, <1>18, <1>19, <1>20 DEF Upgrading!Step

LEMMA UpgradeNextIsSound ==
    ASSUME UpgradeInv, Upgrading!UpgradeAssumption, [Upgrading!UpgradeNext]_uv
    PROVE  UpgradeInv'
<1>1. CASE UNCHANGED uv
  <2>1. /\ tools' = tools /\ preferred' = preferred /\ current' = current /\ status' = status
        /\ job' = job /\ listing' = listing /\ faults' = faults
    BY <1>1 DEF uv
  <2> QED
    BY <2>1 DEF UpgradeInv, Upgrading!UpgradeTypeOK, OneTask, TasksUnderWay, ReleasesAreOfTasks, Upgrading!NewestIsOffered
<1>2. CASE Upgrading!Restart
  <2>1. /\ status' = "idle" /\ \E S \in SUBSET Upgrading!Units : job' = [j \in Jobs |-> IF j \in S THEN Upgrading!Outlived ELSE Upgrading!NoJob]
        /\ UNCHANGED <<tools, preferred, listing>> /\ faults < UpgradeFaults /\ faults' = faults + 1
    BY <1>2 DEF Upgrading!Restart
  <2>2. \A x \in {Upgrading!NoJob, Upgrading!Outlived} : x \in Upgrading!Task /\ x.at \in {"idle", "outlived"} /\ x.release = {}
    <3>1. Upgrading!NoPackage \in Upgrading!Package
      BY DEF Upgrading!NoPackage, Upgrading!Package
    <3>2. Upgrading!NoJob \in Upgrading!Task /\ Upgrading!NoJob.at = "idle" /\ Upgrading!NoJob.release = {}
      BY <3>1 DEF Upgrading!NoJob, Upgrading!Task
    <3>3. Upgrading!Outlived \in Upgrading!Task /\ Upgrading!Outlived.at = "outlived" /\ Upgrading!Outlived.release = {}
      BY <3>1 DEF Upgrading!Outlived, Upgrading!Task
    <3> QED
      BY <3>2, <3>3
  <2>3. \A j \in Jobs : job'[j] \in {Upgrading!NoJob, Upgrading!Outlived}
    BY <2>1
  <2>4. Upgrading!UpgradeTypeOK'
    <3>1. faults' \in 0 .. UpgradeFaults
      BY <2>1 DEF UpgradeInv, Upgrading!UpgradeTypeOK, Upgrading!UpgradeAssumption
    <3>2. job' \in [Jobs -> Upgrading!Task]
      BY <2>1, <2>2
    <3> QED
      BY <2>1, <3>1, <3>2 DEF UpgradeInv, Upgrading!UpgradeTypeOK
  <2>5. OneTask'
    <3>1. TasksUnderWay' = {}
      BY <2>2, <2>3 DEF TasksUnderWay, Upgrading!Running
    <3> QED
      BY <2>1, <3>1 DEF OneTask
  <2> QED
    BY <2>2, <2>3, <2>4, <2>5 DEF UpgradeInv, ReleasesAreOfTasks, Upgrading!NewestIsOffered
<1>3. CASE \E j \in Jobs : Upgrading!Step(j)
  BY <1>3, UpgradeStepIsSound
<1> QED
  BY <1>1, <1>2, <1>3 DEF Upgrading!UpgradeNext

LEMMA UpgradeInvariance == Spec => []UpgradeInv
<1> USE ServicesAssumption
<1>1. Init => UpgradeInv
  BY UpgradeInitIsSound DEF Init, ServicesAssumption
<1>2. UpgradeInv /\ [Next]_vars => UpgradeInv'
  BY Moves, UpgradeNextIsSound DEF ServicesAssumption
<1> QED
  BY <1>1, <1>2, PTL DEF Spec

\* The status says running exactly while one task goes on.
THEOREM StatusIsOfTheTask == Spec => []RunningIsReal
<1>1. UpgradeInv => RunningIsReal
  <2> SUFFICES ASSUME UpgradeInv PROVE Upgrading!RunningIsReal
    BY DEF RunningIsReal
  <2>1. IF status = "running" THEN \E j \in Jobs : TasksUnderWay = {j} ELSE TasksUnderWay = {}
    BY DEF UpgradeInv, OneTask
  <2>2. Upgrading!Cardinality(TasksUnderWay) = Cardinality(TasksUnderWay)
    BY SameCardinality
  <2>3. Cardinality(TasksUnderWay) = IF status = "running" THEN 1 ELSE 0
    BY <2>1, FS_EmptySet, FS_Singleton
  <2> QED
    BY <2>2, <2>3 DEF Upgrading!RunningIsReal, TasksUnderWay
<1> QED
  BY <1>1, UpgradeInvariance, PTL

\* A test build is offered the newest eligible release of the list.
THEOREM OffersTheNewest == Spec => []NewestIsOffered
<1>1. UpgradeInv => NewestIsOffered
  BY DEF UpgradeInv, NewestIsOffered
<1> QED
  BY <1>1, UpgradeInvariance, PTL
-----------------------------------------------------------------------------
(* ScanPlan. *)

LEMMA Multiples == ASSUME NEW n \in Nat, NEW p \in Nat, NEW q \in Nat, p <= q PROVE n * p <= n * q
<1>1. PICK d \in Nat : q = p + d
  <2>1. q - p \in Nat /\ q = p + (q - p)
    OBVIOUS
  <2> QED
    BY <2>1
<1>2. n * q = n * p + n * d /\ n * d \in Nat /\ n * p \in Nat
  BY <1>1
<1> QED
  BY <1>2

\* A number is between one multiple and the next.
LEMMA OneMultiple ==
    ASSUME NEW n \in Nat \ {0}, NEW x \in Nat, NEW p \in Nat, n * p <= x, x < n * p + n
    PROVE  x \div n = p
<1> DEFINE q == x \div n
<1>1. q \in Nat /\ n * q <= x /\ x < n * q + n
  OBVIOUS
<1> HIDE DEF q
<1>2. ~ (p + 1 <= q)
  <2> SUFFICES ASSUME p + 1 <= q PROVE FALSE
    OBVIOUS
  <2>1. n * (p + 1) <= n * q /\ n * (p + 1) = n * p + n /\ n * p \in Nat /\ n * q \in Nat
    BY <1>1, Multiples
  <2> QED
    BY <1>1, <2>1
<1>3. ~ (q + 1 <= p)
  <2> SUFFICES ASSUME q + 1 <= p PROVE FALSE
    OBVIOUS
  <2>1. n * (q + 1) <= n * p /\ n * (q + 1) = n * q + n /\ n * p \in Nat /\ n * q \in Nat
    BY <1>1, Multiples
  <2> QED
    BY <1>1, <2>1
<1> QED
  BY <1>1, <1>2, <1>3 DEF q

\* The midnights before the times of a day and of the next.
LEMMA Midnights ==
    ASSUME Plan!PlanAssumption, NEW w \in Nat
    PROVE  LET M == Plan!Midnight(w)
           IN  /\ M \in Nat /\ M <= w /\ w < M + DaySeconds
               /\ \A t \in Nat : M <= t /\ t < M + DaySeconds => Plan!Midnight(t) = M
               /\ \A t \in Nat : M + DaySeconds <= t /\ t < M + DaySeconds + DaySeconds =>
                     Plan!Midnight(t) = M + DaySeconds
<1> DEFINE D == DaySeconds
           q == w \div D
<1>1. D \in Nat \ {0}
  BY DEF Plan!PlanAssumption
<1> HIDE DEF D
<1>2. \A t \in Nat : t \div D \in Nat /\ D * (t \div D) \in Nat /\ t % D = t - D * (t \div D)
                     /\ D * (t \div D) <= t /\ t < D * (t \div D) + D
  BY <1>1
<1>3. \A t \in Nat : Plan!Midnight(t) = D * (t \div D)
  <2> TAKE t \in Nat
  <2>1. Plan!Midnight(t) = t - (t % D)
    BY DEF Plan!Midnight, D
  <2>2. t % D = t - D * (t \div D) /\ D * (t \div D) \in Nat
    BY <1>2
  <2> QED
    BY <2>1, <2>2
<1>4. q \in Nat /\ D * (q + 1) = D * q + D /\ D * q \in Nat
  BY <1>1, <1>2
<1> HIDE DEF q
<1>5. ASSUME NEW t \in Nat, D * q <= t, t < D * q + D PROVE Plan!Midnight(t) = D * q
  <2>1. t \div D = q
    BY <1>1, <1>4, <1>5, OneMultiple
  <2> QED
    BY <1>3, <2>1
<1>6. ASSUME NEW t \in Nat, D * q + D <= t, t < D * q + D + D PROVE Plan!Midnight(t) = D * q + D
  <2>1. q + 1 \in Nat /\ D * (q + 1) <= t /\ t < D * (q + 1) + D
    BY <1>4, <1>6
  <2>2. t \div D = q + 1
    BY <1>1, <2>1, OneMultiple
  <2> QED
    BY <1>3, <1>4, <2>2
<1>7. Plan!Midnight(w) = D * q
  BY <1>3 DEF q
<1> QED
  BY <1>2, <1>4, <1>5, <1>6, <1>7 DEF D, q

\* The slots that have come.
Come(s, t) ==
    {Plan!DaySlots(s, t)[i] : i \in {i \in DOMAIN Plan!DaySlots(s, t) : Plan!DaySlots(s, t)[i] <= t}}

\* What the scheduler finds after what was announced at w: nothing new until a, and a at a.
Kept(s, w, a) ==
    /\ a \in Nat
    /\ \A t \in Nat : w <= t /\ t < a => \A m \in Come(s, t) : m <= w
    /\ a \in Come(s, a)

\* When the scan announced at w comes: Turn of what is announced then.
TurnOf(s, w) ==
    IF Plan!Daily(s) \/ DaySeconds % s.interval = 0 THEN Plan!NextAt(s, w)
    ELSE Plan!Min({Plan!NextAt(s, w), Plan!Midnight(w) + DaySeconds})

\* The clocks of a schedule are times of the day.
LEMMA ClocksAreTimes ==
    ASSUME Plan!PlanAssumption, NEW s \in Schedules
    PROVE  /\ Len(s.clocks) \in Nat /\ DOMAIN s.clocks = 1 .. Len(s.clocks)
           /\ \A i \in 1 .. Len(s.clocks) : s.clocks[i] \in 0 .. DaySeconds - 1 /\ s.clocks[i] \in Nat
           /\ Plan!Daily(s) => 1 \in 1 .. Len(s.clocks)
<1> DEFINE T == 0 .. DaySeconds - 1
           c == s.clocks
<1>1. c \in Seq(T)
  BY DEF Plan!PlanAssumption
<1>2. T \subseteq Nat
  OBVIOUS
<1>3. Plan!Daily(s) <=> c # <<>>
  BY DEF Plan!Daily
<1> HIDE DEF T, c
<1>4. Len(c) \in Nat /\ DOMAIN c = 1 .. Len(c)
  BY <1>1
<1>5. \A i \in 1 .. Len(c) : c[i] \in T
  BY <1>1, ElementOfSeq
<1>6. c # <<>> => 1 \in 1 .. Len(c)
  BY <1>1, <1>4
<1> QED
  BY <1>2, <1>3, <1>4, <1>5, <1>6 DEF T, c

\* The slots of a day are a list of times, ascending if the schedule is regular.
LEMMA SlotsAreTimes ==
    ASSUME Plan!PlanAssumption, NEW s \in Schedules, NEW t \in Nat
    PROVE  \E n \in Nat :
              /\ DOMAIN Plan!DaySlots(s, t) = 1 .. n
              /\ \A i \in 1 .. n : Plan!DaySlots(s, t)[i] \in Nat
              /\ Plan!Regular(s) =>
                    \A i, j \in 1 .. n : i <= j => Plan!DaySlots(s, t)[i] <= Plan!DaySlots(s, t)[j]
<1> DEFINE M == Plan!Midnight(t)
           slots == Plan!DaySlots(s, t)
<1>1. M \in Nat /\ M <= t
  BY Midnights
<1>2. CASE Plan!Daily(s)
  <2>1. slots = [i \in DOMAIN s.clocks |-> M + s.clocks[i]]
    BY <1>2 DEF Plan!DaySlots
  <2> HIDE DEF M, slots
  <2>3. /\ Len(s.clocks) \in Nat /\ DOMAIN s.clocks = 1 .. Len(s.clocks)
        /\ \A i \in 1 .. Len(s.clocks) : s.clocks[i] \in Nat
    BY ClocksAreTimes
  <2>4. DOMAIN slots = 1 .. Len(s.clocks)
    BY <2>1, <2>3
  <2>5. \A i \in 1 .. Len(s.clocks) : s.clocks[i] \in Nat /\ slots[i] = M + s.clocks[i] /\ slots[i] \in Nat
    BY <1>1, <2>1, <2>3
  <2>6. ASSUME Plan!Regular(s), NEW i \in 1 .. Len(s.clocks), NEW j \in 1 .. Len(s.clocks), i <= j
        PROVE  slots[i] <= slots[j]
    <3>1. s.clocks[i] <= s.clocks[j]
      BY <1>2, <2>3, <2>6 DEF Plan!Regular
    <3> QED
      BY <1>1, <2>5, <3>1
  <2> QED
    BY <2>3, <2>4, <2>5, <2>6 DEF slots
<1>3. CASE ~Plan!Daily(s) /\ s.interval = 0
  <2>1. slots = <<>>
    BY <1>3 DEF Plan!DaySlots
  <2>2. DOMAIN slots = 1 .. 0
    BY <2>1
  <2> QED
    BY <2>2
<1>4. CASE ~Plan!Daily(s) /\ s.interval # 0
  <2> DEFINE i == Plan!DueInterval(s)
             m == M + ((t - M) \div i) * i
  <2>1. slots = <<m>>
    BY <1>4 DEF Plan!DaySlots
  <2>2. i \in Nat \ {0}
    BY <1>4 DEF Plan!PlanAssumption, Plan!DueInterval
  <2>3. m \in Nat
    <3> HIDE DEF i, M
    <3>1. (t - M) \in Nat
      BY <1>1
    <3>2. ((t - M) \div i) \in Nat
      BY <2>2, <3>1
    <3> QED
      BY <1>1, <2>2, <3>2
  <2> HIDE DEF slots, m
  <2>4. DOMAIN slots = 1 .. 1 /\ slots[1] = m
    BY <2>1
  <2>5. \A j \in 1 .. 1 : j = 1
    OBVIOUS
  <2>6. /\ \A j \in 1 .. 1 : slots[j] \in Nat
        /\ \A j, k \in 1 .. 1 : j <= k => slots[j] <= slots[k]
    BY <2>3, <2>4, <2>5
  <2> QED
    BY <2>4, <2>6 DEF slots
<1> QED
  BY <1>2, <1>3, <1>4

\* The scheduler takes a slot that is due, and none after it in the list is.
LEMMA DueTimeIsLast ==
    ASSUME Plan!PlanAssumption, NEW s \in Schedules, NEW t \in Nat, Plan!DueSlots(s, t) # {}
    PROVE  /\ Plan!Max(Plan!DueSlots(s, t)) \in Plan!DueSlots(s, t)
           /\ \A i \in Plan!DueSlots(s, t) : i <= Plan!Max(Plan!DueSlots(s, t))
<1> DEFINE due == Plan!DueSlots(s, t)
<1>1. PICK n \in Nat : DOMAIN Plan!DaySlots(s, t) = 1 .. n
  BY SlotsAreTimes
<1>2. due \in SUBSET (0 .. n) /\ due # {}
  BY <1>1 DEF Plan!DueSlots
<1> HIDE DEF due
<1>3. \E x \in due : \A y \in due : y <= x
  BY <1>2, GreatestExists
<1>4. \A x, y \in due : y <= x <=> x >= y
  BY <1>2
<1>5. Plan!Max(due) \in due /\ \A i \in due : Plan!Max(due) >= i
  BY <1>3, <1>4 DEF Plan!Max
<1> QED
  BY <1>4, <1>5 DEF due

\* What is announced is a time.
LEMMA NextAtIsTime ==
    ASSUME Plan!PlanAssumption, NEW s \in Schedules, NEW w \in Nat
    PROVE  Plan!NextAt(s, w) \in Nat
<1> DEFINE M == Plan!Midnight(w)
<1>1. M \in Nat /\ M <= w /\ DaySeconds \in Nat
  BY Midnights DEF Plan!PlanAssumption
<1>2. CASE Plan!Daily(s)
  <2> DEFINE later == {i \in DOMAIN s.clocks : M + s.clocks[i] > w}
  <2>2. Plan!NextAt(s, w) = IF later # {} THEN M + s.clocks[Plan!Min(later)]
                            ELSE M + DaySeconds + s.clocks[1]
    BY <1>2 DEF Plan!NextAt, Plan!NextDaily
  <2> HIDE DEF M
  <2>3. /\ Len(s.clocks) \in Nat /\ DOMAIN s.clocks = 1 .. Len(s.clocks) /\ 1 \in 1 .. Len(s.clocks)
        /\ \A i \in 1 .. Len(s.clocks) : s.clocks[i] \in Nat
    BY <1>2, ClocksAreTimes
  <2>4. later \in SUBSET Nat /\ later \in SUBSET (1 .. Len(s.clocks))
    BY <2>3
  <2> HIDE DEF later
  <2>5. later # {} => Plan!Min(later) \in later
    BY <2>4, LeastExists DEF Plan!Min
  <2>6. CASE later # {}
    <3>1. s.clocks[Plan!Min(later)] \in Nat
      BY <2>3, <2>4, <2>5, <2>6
    <3>2. Plan!NextAt(s, w) = M + s.clocks[Plan!Min(later)]
      BY <2>2, <2>6
    <3> QED
      BY <1>1, <3>1, <3>2
  <2>7. CASE later = {}
    <3>1. s.clocks[1] \in Nat /\ Plan!NextAt(s, w) = M + DaySeconds + s.clocks[1]
      BY <2>2, <2>3, <2>7
    <3> QED
      BY <1>1, <3>1
  <2> QED
    BY <2>6, <2>7
<1>3. CASE ~Plan!Daily(s)
  <2> DEFINE i == Plan!PlanInterval(s)
  <2>1. i \in Nat \ {0}
    BY DEF Plan!PlanInterval, Plan!PlanAssumption
  <2>2. Plan!NextAt(s, w) = M + ((w - M) \div i + 1) * i
    BY <1>3 DEF Plan!NextAt, Plan!NextInterval
  <2> HIDE DEF i, M
  <2>3. w - M \in Nat
    BY <1>1
  <2>4. (w - M) \div i \in Nat
    BY <2>1, <2>3
  <2> QED
    BY <1>1, <2>1, <2>2, <2>4
<1> QED
  BY <1>2, <1>3

LEMMA DailyIsKept ==
    ASSUME Plan!PlanAssumption, NEW s \in Schedules, Plan!Daily(s), Plan!Regular(s), NEW w \in Nat
    PROVE  Kept(s, w, Plan!NextAt(s, w))
<1> DEFINE M == Plan!Midnight(w)
           D == DaySeconds
           n == Len(s.clocks)
           C == {s.clocks[i] : i \in DOMAIN s.clocks}
           later == {c \in C : M + c > w}
           places == {i \in DOMAIN s.clocks : M + s.clocks[i] > w}
           a == Plan!NextAt(s, w)
<1>1. D \in Nat \ {0}
  BY DEF Plan!PlanAssumption
<1>2. /\ M \in Nat /\ M <= w /\ w < M + D
      /\ \A t \in Nat : M <= t /\ t < M + D => Plan!Midnight(t) = M
      /\ \A t \in Nat : M + D <= t /\ t < M + D + D => Plan!Midnight(t) = M + D
  BY Midnights
<1>3. a = IF places # {} THEN M + s.clocks[Plan!Min(places)] ELSE M + D + s.clocks[1]
  BY DEF Plan!NextAt, Plan!NextDaily
<1>4. \A t, m : m \in Come(s, t) <=> \E c \in C : m = Plan!Midnight(t) + c /\ Plan!Midnight(t) + c <= t
  <2> TAKE t, m
  <2>1. Plan!DaySlots(s, t) = [i \in DOMAIN s.clocks |-> Plan!Midnight(t) + s.clocks[i]]
    BY DEF Plan!DaySlots
  <2> HIDE DEF M, D, a, places, later
  <2>2. DOMAIN Plan!DaySlots(s, t) = DOMAIN s.clocks
        /\ \A i \in DOMAIN s.clocks : Plan!DaySlots(s, t)[i] = Plan!Midnight(t) + s.clocks[i]
    BY <2>1
  <2> QED
    BY <2>2 DEF Come
<1>5. /\ n \in Nat /\ DOMAIN s.clocks = 1 .. n /\ 1 \in 1 .. n
      /\ \A i \in 1 .. n : s.clocks[i] \in 0 .. D - 1
  BY ClocksAreTimes
<1>6. \A i, j \in 1 .. n : i <= j => s.clocks[i] <= s.clocks[j]
  BY <1>5 DEF Plan!Regular
<1> HIDE DEF M, D, a, n
<1>7. C \subseteq 0 .. D - 1 /\ C \subseteq Nat /\ later \subseteq Nat
  BY <1>1, <1>5
<1>8. ASSUME later # {} PROVE \E c \in later : a = M + c /\ \A d \in later : c <= d
  <2>1. places \in SUBSET Nat /\ places \in SUBSET (1 .. n) /\ places # {}
    BY <1>5, <1>8
  <2>2. \E x \in places : \A y \in places : x <= y
    BY <2>1, LeastExists
  <2>3. PICK i \in places : i = Plan!Min(places) /\ \A j \in places : i <= j
    BY <2>2 DEF Plan!Min
  <2>4. s.clocks[i] \in later /\ a = M + s.clocks[i]
    BY <1>3, <2>1, <2>3
  <2>5. ASSUME NEW d \in later PROVE s.clocks[i] <= d
    <3>1. PICK j \in places : d = s.clocks[j]
      OBVIOUS
    <3> QED
      BY <1>6, <2>1, <2>3, <3>1
  <2> QED
    BY <2>4, <2>5
<1>9. ASSUME later = {} PROVE \E c \in C : a = M + D + c /\ \A d \in C : c <= d
  <2>1. places = {}
    BY <1>9
  <2>2. s.clocks[1] \in C /\ a = M + D + s.clocks[1]
    BY <1>3, <1>5, <2>1
  <2>3. ASSUME NEW d \in C PROVE s.clocks[1] <= d
    <3>1. PICK j \in 1 .. n : d = s.clocks[j]
      BY <1>5
    <3> QED
      BY <1>5, <1>6, <3>1
  <2> QED
    BY <2>2, <2>3
<1>10. CASE later # {}
  <2>1. PICK c \in later : a = M + c /\ \A d \in later : c <= d
    BY <1>8, <1>10
  <2>2. c \in C /\ c \in Nat /\ c <= D - 1 /\ a \in Nat /\ w < a /\ a < M + D
    <3>1. c \in C /\ c \in Nat /\ c \in 0 .. D - 1 /\ M + c > w
      BY <1>7
    <3> HIDE DEF later, C
    <3> QED
      BY <1>1, <1>2, <2>1, <3>1
  <2>3. ASSUME NEW t \in Nat, w <= t, t < a, NEW m \in Come(s, t) PROVE m <= w
    <3>1. Plan!Midnight(t) = M
      BY <1>1, <1>2, <2>2, <2>3
    <3>2. PICK d \in C : m = M + d /\ M + d <= t
      BY <1>4, <2>3, <3>1
    <3>3. d \in Nat
      BY <1>7
    <3>4. CASE M + d > w
      <4>1. c <= d
        BY <2>1, <3>4
      <4> HIDE DEF later, C
      <4> QED
        BY <1>2, <2>1, <2>2, <2>3, <3>2, <3>3, <4>1
    <3> HIDE DEF later, C
    <3> QED
      BY <1>2, <3>2, <3>3, <3>4
  <2>4. Plan!Midnight(a) = M
    BY <1>1, <1>2, <2>2
  <2>5. a \in Come(s, a)
    BY <1>2, <1>4, <2>1, <2>2, <2>4
  <2> QED
    BY <2>2, <2>3, <2>5 DEF Kept, a
<1>11. CASE later = {}
  <2>1. PICK c \in C : a = M + D + c /\ \A d \in C : c <= d
    BY <1>9, <1>11
  <2>2. c \in Nat /\ c <= D - 1 /\ a \in Nat /\ M + D <= a /\ a < M + D + D
    <3>1. c \in Nat /\ c \in 0 .. D - 1
      BY <1>7
    <3> HIDE DEF later, C
    <3> QED
      BY <1>1, <1>2, <2>1, <3>1
  <2>3. ASSUME NEW t \in Nat, w <= t, t < a, NEW m \in Come(s, t) PROVE m <= w
    <3>1. CASE t < M + D
      <4>1. Plan!Midnight(t) = M
        BY <1>1, <1>2, <2>3, <3>1
      <4>2. PICK d \in C : m = M + d
        BY <1>4, <2>3, <4>1
      <4>3. ~ (M + d > w) /\ d \in Nat
        BY <1>7, <1>11
      <4> HIDE DEF later, C
      <4> QED
        BY <1>2, <4>2, <4>3
    <3>2. CASE M + D <= t
      <4>1. Plan!Midnight(t) = M + D
        BY <1>1, <1>2, <2>2, <2>3, <3>2
      <4>2. PICK d \in C : m = M + D + d /\ M + D + d <= t
        BY <1>4, <2>3, <4>1
      <4>3. c <= d /\ d \in Nat
        BY <1>7, <2>1
      <4> HIDE DEF later, C
      <4> QED
        BY <1>1, <1>2, <2>1, <2>2, <2>3, <4>2, <4>3
    <3> QED
      BY <1>1, <1>2, <3>1, <3>2
  <2>4. Plan!Midnight(a) = M + D
    BY <1>2, <2>2
  <2>5. a \in Come(s, a)
    BY <1>2, <1>4, <2>1, <2>2, <2>4
  <2> QED
    BY <2>2, <2>3, <2>5 DEF Kept, a
<1> QED
  BY <1>10, <1>11

\* An interval's next scan comes when it was announced, or at the midnight before that.
LEMMA IntervalIsKept ==
    ASSUME Plan!PlanAssumption, NEW s \in Schedules, ~Plan!Daily(s), Plan!Regular(s), NEW w \in Nat
    PROVE  Kept(s, w, TurnOf(s, w))
<1> DEFINE M == Plan!Midnight(w)
           D == DaySeconds
           i == s.interval
           k == (w - M) \div i
           a == Plan!NextAt(s, w)
           e == TurnOf(s, w)
<1>1. /\ D \in Nat \ {0} /\ i \in Nat \ {0}
      /\ Plan!PlanInterval(s) = i /\ Plan!DueInterval(s) = i
  <2>1. MinuteSeconds \in Nat \ {0} /\ D \in Nat \ {0} /\ i \in Nat /\ i >= MinuteSeconds
    BY DEF Plan!PlanAssumption, Plan!Regular
  <2> QED
    BY <2>1 DEF Plan!PlanInterval, Plan!DueInterval
<1>2. /\ M \in Nat /\ M <= w /\ w < M + D
      /\ \A t \in Nat : M <= t /\ t < M + D => Plan!Midnight(t) = M
      /\ \A t \in Nat : M + D <= t /\ t < M + D + D => Plan!Midnight(t) = M + D
  BY Midnights
<1>3. a = M + (k + 1) * i
  BY <1>1 DEF Plan!NextAt, Plan!NextInterval
<1>4. e = IF D % i = 0 THEN a ELSE Plan!Min({a, M + D})
  BY DEF TurnOf
<1>5. ASSUME NEW t \in Nat, NEW m, m = Plan!Midnight(t) + ((t - Plan!Midnight(t)) \div i) * i, m <= t
      PROVE  Come(s, t) = {m}
  <2>1. Plan!DaySlots(s, t) = <<m>>
    BY <1>1, <1>5 DEF Plan!DaySlots
  <2> HIDE DEF M, D, i, k, a, e
  <2>2. DOMAIN Plan!DaySlots(s, t) = {1} /\ Plan!DaySlots(s, t)[1] = m
    BY <2>1
  <2> QED
    BY <1>5, <2>2 DEF Come
<1> HIDE DEF M, D, i, a, e
<1>6. w - M \in Nat /\ k \in Nat /\ i * k \in Nat /\ i * k <= w - M /\ w - M < i * k + i
  BY <1>1, <1>2
<1> HIDE DEF k
<1>7. (k + 1) * i = i * k + i /\ k * i = i * k
  BY <1>1, <1>6
<1>8. ASSUME D % i = 0 PROVE i * k + i <= D
  <2>1. PICK n \in Nat : D = i * n
    <3>1. \A x \in Nat, y \in Nat \ {0} : x \div y \in Nat /\ x % y = x - y * (x \div y) /\ y * (x \div y) \in Nat
      OBVIOUS
    <3>2. D \div i \in Nat /\ D % i = D - i * (D \div i) /\ i * (D \div i) \in Nat
      BY <1>1, <3>1
    <3>3. D = i * (D \div i)
      BY <1>1, <1>8, <3>2
    <3> QED
      BY <3>2, <3>3
  <2>2. CASE n <= k
    <3>1. i * n <= i * k
      BY <1>1, <1>6, <2>2, Multiples
    <3> QED
      BY <1>1, <1>2, <1>6, <2>1, <3>1
  <2>3. CASE k + 1 <= n
    <3>1. i * (k + 1) <= i * n /\ i * (k + 1) = i * k + i
      BY <1>1, <1>6, <2>3, Multiples
    <3> QED
      BY <2>1, <3>1
  <2> QED
    BY <1>6, <2>1, <2>2, <2>3
<1>9. a = M + i * k + i /\ a \in Nat /\ w < a
  BY <1>1, <1>2, <1>3, <1>6, <1>7
<1>10. e \in {a, M + D} /\ e <= a /\ e <= M + D /\ e \in Nat /\ w < e
  <2>1. CASE D % i = 0
    BY <1>1, <1>2, <1>4, <1>6, <1>8, <1>9, <2>1
  <2>2. CASE D % i # 0
    <3>1. a \in Nat /\ M + D \in Nat /\ w < M + D
      BY <1>1, <1>2, <1>9
    <3>2. {a, M + D} \in SUBSET Nat /\ {a, M + D} # {}
      BY <3>1
    <3>3. \E x \in {a, M + D} : \A y \in {a, M + D} : x <= y
      BY <3>2, LeastExists
    <3>4. e \in {a, M + D} /\ \A y \in {a, M + D} : e <= y
      BY <1>4, <2>2, <3>3 DEF Plan!Min
    <3> QED
      BY <1>9, <3>1, <3>4
  <2> QED
    BY <2>1, <2>2
<1>11. ASSUME NEW t \in Nat, w <= t, t < e, NEW m \in Come(s, t) PROVE m <= w
  <2>1. t < M + D /\ t < a
    BY <1>1, <1>2, <1>9, <1>10, <1>11
  <2>2. Plan!Midnight(t) = M /\ t - M \in Nat
    BY <1>1, <1>2, <1>11, <2>1
  <2>3. i * k <= t - M /\ t - M < i * k + i
    BY <1>1, <1>2, <1>6, <1>9, <1>11, <2>1
  <2>4. (t - M) \div i = k
    BY <1>1, <1>6, <2>2, <2>3, OneMultiple
  <2>5. M + k * i <= t /\ M + k * i <= w
    BY <1>2, <1>6, <1>7, <1>11
  <2>6. Come(s, t) = {M + k * i}
    BY <1>5, <2>2, <2>4, <2>5
  <2> QED
    BY <1>11, <2>5, <2>6
<1>12. CASE e < M + D
  <2>1. e = a
    BY <1>2, <1>10, <1>12
  <2>2. Plan!Midnight(e) = M
    BY <1>1, <1>2, <1>10, <1>12
  <2>3. e - M = i * (k + 1) /\ k + 1 \in Nat /\ e - M \in Nat
    BY <1>1, <1>2, <1>6, <1>7, <1>9, <2>1
  <2>4. (e - M) \div i = k + 1
    BY <1>1, <2>3, OneMultiple
  <2>5. e = M + ((e - M) \div i) * i
    BY <1>3, <2>1, <2>4
  <2>6. Come(s, e) = {e}
    BY <1>5, <1>10, <2>2, <2>5
  <2> QED
    BY <1>10, <1>11, <2>6 DEF Kept, e
<1>13. CASE e = M + D
  <2>1. Plan!Midnight(e) = e
    BY <1>1, <1>2, <1>10, <1>13
  <2>2. e + ((e - e) \div i) * i = e
    <3>1. 0 \div i = 0
      BY <1>1, OneMultiple
    <3> QED
      BY <1>1, <1>10, <3>1
  <2>3. Come(s, e) = {e}
    BY <1>5, <1>10, <2>1, <2>2
  <2> QED
    BY <1>10, <1>11, <2>3 DEF Kept, e
<1> QED
  BY <1>1, <1>2, <1>10, <1>12, <1>13

\* The announcement is the computation's at a time that has been.
PlanInv ==
    /\ Plan!PlanTypeOK
    /\ announced # None => /\ announcedAt \in Nat /\ announcedAt <= second
                           /\ announced = Plan!NextAt(schedule, announcedAt)

LEMMA PlanInvariance == Spec => []PlanInv
<1> USE ServicesAssumption DEF ServicesAssumption
<1>1. Init => PlanInv
  <2> SUFFICES ASSUME Init PROVE PlanInv
    OBVIOUS
  <2>1. Plan!PlanInit /\ Plan!PlanAssumption
    BY DEF Init
  <2> QED
    BY <2>1 DEF Plan!PlanInit, Plan!PlanAssumption, PlanInv, Plan!PlanTypeOK
<1>2. PlanInv /\ [Next]_vars => PlanInv'
  <2> SUFFICES ASSUME PlanInv, [Next]_vars PROVE PlanInv'
    OBVIOUS
  <2> USE DEF PlanInv, Plan!PlanTypeOK
  <2>1. second \in Nat /\ Plan!PlanAssumption
    BY DEF Plan!PlanAssumption
  <2>2. CASE Plan!Announce
    <3>1. Plan!NextAt(schedule, second) \in Nat
      BY <2>1, NextAtIsTime
    <3> QED
      BY <2>1, <2>2, <3>1 DEF Plan!Announce
  <2>3. CASE Plan!Scan
    <3>1. Plan!DueSlots(schedule, second) # {} /\ lastScan' = Plan!DueTime(schedule, second)
          /\ UNCHANGED <<schedule, second, announced, announcedAt>>
      BY <2>3 DEF Plan!Scan
    <3>2. Plan!Max(Plan!DueSlots(schedule, second)) \in DOMAIN Plan!DaySlots(schedule, second)
      BY <2>1, <3>1, DueTimeIsLast DEF Plan!DueSlots
    <3>3. lastScan' \in Nat
      BY <2>1, <3>1, <3>2, SlotsAreTimes DEF Plan!DueTime
    <3> QED
      BY <3>1, <3>3
  <2>4. CASE Plan!NextSecond
    BY <2>1, <2>4 DEF Plan!NextSecond, Plan!PlanAssumption
  <2>5. CASE UNCHANGED pv
    BY <2>5 DEF pv
  <2> QED
    BY <2>2, <2>3, <2>4, <2>5, Moves DEF Plan!PlanNext
<1> QED
  BY <1>1, <1>2, PTL DEF Spec

\* For every schedule that both computations read alike, every interval of a minute or more
\* among them, and every length of the day: the scheduler finds nothing newly due before the
\* announced second, or before the midnight that precedes it where the interval does not
\* divide the day; and at it this time and no later one.
THEOREM AnnouncementIsKept == Spec => []PlanIsKept
<1>1. PlanInv => PlanIsKept
  <2> SUFFICES ASSUME PlanInv, announced # None, Plan!Regular(schedule) PROVE Plan!PlanIsKept
    BY DEF PlanIsKept, Plan!PlanIsKept
  <2> DEFINE turn == Plan!Turn
             due == Plan!DueSlots(schedule, second)
             slots == Plan!DaySlots(schedule, second)
  <2>1. /\ announcedAt \in Nat /\ announcedAt <= second /\ announced = Plan!NextAt(schedule, announcedAt)
        /\ schedule \in Schedules /\ second \in Nat /\ Plan!PlanAssumption
    BY ServicesAssumption DEF ServicesAssumption, PlanInv, Plan!PlanTypeOK, Plan!PlanAssumption
  <2>2. turn = TurnOf(schedule, announcedAt)
    BY <2>1 DEF Plan!Turn, TurnOf
  <2>3. Kept(schedule, announcedAt, turn)
    <3>1. CASE Plan!Daily(schedule)
      BY <2>1, <2>2, <3>1, DailyIsKept DEF TurnOf
    <3> QED
      BY <2>1, <2>2, <3>1, IntervalIsKept
  <2>4. PICK n \in Nat :
           /\ DOMAIN slots = 1 .. n
           /\ \A i \in 1 .. n : slots[i] \in Nat
           /\ \A i, j \in 1 .. n : i <= j => slots[i] <= slots[j]
    BY <2>1, SlotsAreTimes
  <2>5. \A i : i \in due <=> i \in DOMAIN slots /\ slots[i] <= second /\ (lastScan = None \/ lastScan < slots[i])
    BY DEF Plan!DueSlots
  <2>6. Come(schedule, second) = {slots[i] : i \in {i \in DOMAIN slots : slots[i] <= second}}
    BY DEF Come
  <2>7. due # {} => Plan!Max(due) \in due /\ \A i \in due : i <= Plan!Max(due)
    BY <2>1, DueTimeIsLast
  <2>8. Plan!DueTime(schedule, second) = slots[Plan!Max(due)]
    BY DEF Plan!DueTime
  <2>9. /\ turn \in Nat
        /\ second < turn => \A m \in Come(schedule, second) : m <= announcedAt
        /\ second = turn => turn \in Come(schedule, second)
    BY <2>1, <2>3 DEF Kept
  <2> HIDE DEF turn, due, slots
  <2>10. ASSUME second < turn, NEW i \in due PROVE slots[i] <= announcedAt
    BY <2>5, <2>6, <2>9, <2>10
  <2>11. ASSUME second = turn, lastScan = None \/ lastScan < turn
         PROVE  due # {} /\ slots[Plan!Max(due)] = turn
    <3>1. PICK i \in DOMAIN slots : slots[i] = turn
      BY <2>6, <2>9, <2>11
    <3>2. i \in due
      BY <2>5, <2>9, <2>11, <3>1
    <3>3. Plan!Max(due) \in due /\ i <= Plan!Max(due)
      BY <2>7, <3>2
    <3>4. Plan!Max(due) \in 1 .. n /\ i \in 1 .. n /\ slots[Plan!Max(due)] <= second
      BY <2>4, <2>5, <3>1, <3>3
    <3>5. turn <= slots[Plan!Max(due)] /\ slots[Plan!Max(due)] \in Nat
      BY <2>4, <3>1, <3>3, <3>4
    <3> QED
      BY <2>9, <2>11, <3>2, <3>4, <3>5
  <2> QED
    BY <2>8, <2>10, <2>11 DEF Plan!PlanIsKept, turn, due, slots
<1> QED
  BY <1>1, PlanInvariance, PTL
-----------------------------------------------------------------------------
(* NatLogQuery. *)

\* The rows are ordered strictly.
LEMMA RowOrder ==
    ASSUME Logs!QueryAssumption, NEW a \in Rows, NEW b \in Rows
    PROVE  /\ ~Logs!Before(a, a)
           /\ Logs!Before(a, b) => ~Logs!Before(b, a)
           /\ a = b \/ Logs!Before(a, b) \/ Logs!Before(b, a)
<1>1. /\ a.ts \in Nat /\ a.source \in Nat /\ a.pos \in Nat
      /\ b.ts \in Nat /\ b.source \in Nat /\ b.pos \in Nat
      /\ a.ts = b.ts /\ a.source = b.source /\ a.pos = b.pos => a = b
  BY DEF Logs!QueryAssumption
<1> QED
  BY <1>1 DEF Logs!Before

LEMMA RowOrderTransitive ==
    ASSUME Logs!QueryAssumption, NEW a \in Rows, NEW b \in Rows, NEW c \in Rows,
           Logs!Before(a, b), Logs!Before(b, c)
    PROVE  Logs!Before(a, c)
<1>1. /\ a.ts \in Nat /\ a.source \in Nat /\ a.pos \in Nat
      /\ b.ts \in Nat /\ b.source \in Nat /\ b.pos \in Nat
      /\ c.ts \in Nat /\ c.source \in Nat /\ c.pos \in Nat
  BY DEF Logs!QueryAssumption
<1> QED
  BY <1>1 DEF Logs!Before

Ahead(rows, r) == {s \in rows : Logs!Before(s, r)}
Rank(rows, r) == Cardinality(Ahead(rows, r))

LEMMA PageByRank ==
    ASSUME NEW rows PROVE Logs!Page(rows) = {r \in rows : Rank(rows, r) < PageSize}
BY SameCardinality DEF Logs!Page, Rank, Ahead

\* A row has a rank below the number of rows and below the ranks of those after it.
LEMMA Ranks ==
    ASSUME Logs!QueryAssumption, NEW rows \in SUBSET Rows
    PROVE  /\ IsFiniteSet(rows) /\ Cardinality(rows) \in Nat
           /\ \A r \in rows : Rank(rows, r) \in Nat /\ Rank(rows, r) < Cardinality(rows)
           /\ \A r, s \in rows : Logs!Before(r, s) => Rank(rows, r) < Rank(rows, s)
<1>1. IsFiniteSet(rows) /\ Cardinality(rows) \in Nat
  <2>1. IsFiniteSet(Rows)
    BY SameFinite DEF Logs!QueryAssumption
  <2>2. IsFiniteSet(rows)
    BY <2>1, FS_Subset
  <2> QED
    BY <2>2, FS_CardinalityType
<1>2. ASSUME NEW A \in SUBSET rows, NEW B \in SUBSET A, NEW x \in A, x \notin B
      PROVE  Cardinality(B) \in Nat /\ Cardinality(A) \in Nat /\ Cardinality(B) < Cardinality(A)
  <2>1. IsFiniteSet(A) /\ IsFiniteSet(B)
    BY <1>1, FS_Subset
  <2>2. Cardinality(A) \in Nat /\ Cardinality(B) \in Nat
    BY <2>1, FS_CardinalityType
  <2>3. Cardinality(B) <= Cardinality(A) /\ (Cardinality(A) = Cardinality(B) => A = B)
    BY <2>1, FS_Subset
  <2> QED
    BY <1>2, <2>2, <2>3
<1>3. ASSUME NEW r \in rows PROVE Rank(rows, r) \in Nat /\ Rank(rows, r) < Cardinality(rows)
  <2>1. r \notin Ahead(rows, r) /\ Ahead(rows, r) \in SUBSET rows
    BY RowOrder DEF Ahead
  <2> QED
    BY <1>2, <2>1 DEF Rank
<1>4. ASSUME NEW r \in rows, NEW s \in rows, Logs!Before(r, s)
      PROVE  Rank(rows, r) < Rank(rows, s)
  <2>1. Ahead(rows, s) \in SUBSET rows /\ r \in Ahead(rows, s) /\ r \notin Ahead(rows, r)
    BY <1>4, RowOrder DEF Ahead
  <2>2. Ahead(rows, r) \in SUBSET Ahead(rows, s)
    <3> SUFFICES ASSUME NEW t \in rows, Logs!Before(t, r) PROVE Logs!Before(t, s)
      BY DEF Ahead
    <3> QED
      BY <1>4, RowOrderTransitive
  <2> QED
    BY <1>2, <2>1, <2>2 DEF Rank
<1> QED
  BY <1>1, <1>3, <1>4

\* A page is made of the first rows, has a last one, and is all rows if they fit.
LEMMA Pages ==
    ASSUME Logs!QueryAssumption, NEW rows \in SUBSET Rows
    PROVE  /\ Logs!Page(rows) \in SUBSET rows
           /\ \A r \in rows, p \in Logs!Page(rows) : Logs!Before(r, p) => r \in Logs!Page(rows)
           /\ Cardinality(rows) <= PageSize => Logs!Page(rows) = rows
           /\ rows # {} => /\ Logs!LastOf(Logs!Page(rows)) \in Logs!Page(rows)
                           /\ \A s \in Logs!Page(rows) : ~Logs!Before(Logs!LastOf(Logs!Page(rows)), s)
<1> DEFINE P == Logs!Page(rows)
<1>1. /\ Cardinality(rows) \in Nat
      /\ \A r \in rows : Rank(rows, r) \in Nat /\ Rank(rows, r) < Cardinality(rows)
      /\ \A r, s \in rows : Logs!Before(r, s) => Rank(rows, r) < Rank(rows, s)
  BY Ranks
<1>2. P = {r \in rows : Rank(rows, r) < PageSize}
  BY PageByRank
<1>3. PageSize \in Nat \ {0}
  BY DEF Logs!QueryAssumption
<1> HIDE DEF P
<1>4. P \in SUBSET rows
  BY <1>2
<1>5. \A r \in rows, p \in P : Logs!Before(r, p) => r \in P
  BY <1>1, <1>2, <1>3
<1>6. Cardinality(rows) <= PageSize => P = rows
  BY <1>1, <1>2, <1>3
<1>7. ASSUME rows # {} PROVE P # {}
  <2> DEFINE R == {Rank(rows, r) : r \in rows}
  <2>1. R \in SUBSET Nat /\ R # {}
    BY <1>1, <1>7
  <2>2. PICK x \in R : \A y \in R : x <= y
    <3> HIDE DEF R
    <3> QED
      BY <2>1, LeastExists
  <2>3. PICK r \in rows : x = Rank(rows, r)
    BY <2>2
  <2>4. \A s \in rows : ~Logs!Before(s, r)
    <3> SUFFICES ASSUME NEW s \in rows, Logs!Before(s, r) PROVE FALSE
      OBVIOUS
    <3>1. Rank(rows, s) \in R
      OBVIOUS
    <3>2. x <= Rank(rows, s)
      BY <2>2, <3>1
    <3> HIDE DEF R
    <3> QED
      BY <1>1, <2>3, <3>2
  <2>5. Ahead(rows, r) = {}
    BY <2>4 DEF Ahead
  <2>6. Rank(rows, r) = 0
    BY <2>5, FS_EmptySet DEF Rank
  <2> QED
    BY <1>2, <1>3, <2>6
<1>8. ASSUME P # {} PROVE \E r \in P : \A s \in P : ~Logs!Before(r, s)
  <2> DEFINE R == {Rank(rows, r) : r \in P}
  <2>1. R \in SUBSET (0 .. Cardinality(rows)) /\ R # {}
    BY <1>1, <1>4, <1>8
  <2>2. PICK x \in R : \A y \in R : y <= x
    <3> HIDE DEF R
    <3> QED
      BY <1>1, <2>1, GreatestExists
  <2>3. PICK r \in P : x = Rank(rows, r)
    BY <2>2
  <2>4. ASSUME NEW s \in P, Logs!Before(r, s) PROVE FALSE
    <3>1. Rank(rows, s) \in R
      OBVIOUS
    <3>2. Rank(rows, s) <= x
      BY <2>2, <3>1
    <3> HIDE DEF R
    <3> QED
      BY <1>1, <1>4, <2>3, <2>4, <3>2
  <2> QED
    BY <2>4
<1>9. ASSUME rows # {}
      PROVE  Logs!LastOf(P) \in P /\ \A s \in P : ~Logs!Before(Logs!LastOf(P), s)
  BY <1>7, <1>8, <1>9 DEF Logs!LastOf
<1> QED
  BY <1>4, <1>5, <1>6, <1>9 DEF P

\* The clients whose request has a slot.
AtWork == {c \in Clients : client[c].at \in {"asked", "listed", "counted"}}

\* What is true of a client that pages.
PagesFit(k) ==
    LET returned == UNION {k.answer[i] : i \in DOMAIN k.answer} IN
    /\ k.at \in {"asked", "listed", "counted"} => k.request \in Queries
    /\ k.at # "end" /\ k.cursor = None => k.answer = <<>> /\ k.standing = {}
    /\ k.at # "end" => \A r \in returned : ~Logs!After(r, k.cursor)
    /\ \A i, j \in DOMAIN k.answer : i # j => k.answer[i] \cap k.answer[j] = {}
    /\ \A r \in k.standing : ~Logs!After(r, k.cursor) \/ k.at = "end" => r \in returned

QueryInv == /\ Logs!QueryTypeOK
            /\ querySem = Cardinality(AtWork)
            /\ \A c \in Clients : PagesFit(client[c])

LEMMA NoQueryFits == Logs!NoQuery \in Logs!ClientState /\ Logs!NoQuery.at = "idle" /\ PagesFit(Logs!NoQuery)
<1>1. <<>> \in Seq(SUBSET Rows)
  OBVIOUS
<1>2. Logs!NoQuery \in Logs!ClientState
  BY <1>1 DEF Logs!NoQuery, Logs!ClientState
<1>3. Logs!NoQuery.at = "idle" /\ Logs!NoQuery.answer = <<>> /\ Logs!NoQuery.standing = {}
  BY DEF Logs!NoQuery
<1> HIDE DEF Logs!NoQuery
<1>4. DOMAIN Logs!NoQuery.answer = {}
  BY <1>3
<1> QED
  BY <1>2, <1>3, <1>4 DEF PagesFit

LEMMA QueryInitIsSound == ASSUME Logs!QueryAssumption PROVE Logs!QueryInit => QueryInv
<1> SUFFICES ASSUME Logs!QueryInit PROVE QueryInv
  OBVIOUS
<1>1. client \in [Clients -> Logs!ClientState] /\ \A c \in Clients : client[c].at = "idle" /\ PagesFit(client[c])
  <2>1. client = [c \in Clients |-> Logs!NoQuery]
    BY DEF Logs!QueryInit
  <2> QED
    BY <2>1, NoQueryFits
<1>2. Logs!QueryTypeOK
  <2>1. imports \in 0 .. MaxImports /\ querySem \in 0 .. QuerySlots
    BY DEF Logs!QueryInit, Logs!QueryAssumption
  <2>2. dateStatus \in [Logs!Dates -> Logs!Statuses \cup {None}]
    BY DEF Logs!QueryInit, Logs!Statuses
  <2>3. importer \in [Logs!Dates -> {"idle", "dropped", "loading"}] /\ stored \subseteq Rows
    BY DEF Logs!QueryInit
  <2> QED
    BY <1>1, <2>1, <2>2, <2>3 DEF Logs!QueryTypeOK
<1>3. querySem = Cardinality(AtWork)
  <2>1. AtWork = {}
    BY <1>1 DEF AtWork
  <2> QED
    BY <2>1, FS_EmptySet DEF Logs!QueryInit
<1> QED
  BY <1>1, <1>2, <1>3 DEF QueryInv

\* What an import does leaves the clients.
LEMMA ImportsLeaveQueries ==
    ASSUME QueryInv, Logs!QueryAssumption, NEW d \in Logs!Dates,
           Logs!Drop(d) \/ Logs!Importing(d) \/ Logs!Finish(d) \/ \E r \in Rows : Logs!Load(d, r)
    PROVE  QueryInv'
<1>1. UNCHANGED <<querySem, client>>
  BY DEF Logs!Drop, Logs!Importing, Logs!Finish, Logs!Load
<1>2. /\ stored \subseteq Rows /\ imports \in 0 .. MaxImports /\ MaxImports \in Nat
      /\ dateStatus \in [Logs!Dates -> Logs!Statuses \cup {None}]
      /\ importer \in [Logs!Dates -> {"idle", "dropped", "loading"}]
  BY DEF QueryInv, Logs!QueryTypeOK, Logs!QueryAssumption
<1>3. /\ stored' \subseteq Rows /\ imports' \in 0 .. MaxImports
      /\ dateStatus' \in [Logs!Dates -> Logs!Statuses \cup {None}]
      /\ importer' \in [Logs!Dates -> {"idle", "dropped", "loading"}]
  <2>1. CASE Logs!Drop(d)
    BY <1>2, <2>1 DEF Logs!Drop
  <2>2. CASE Logs!Importing(d)
    BY <1>2, <2>2 DEF Logs!Importing, Logs!Statuses
  <2>3. CASE Logs!Finish(d)
    BY <1>2, <2>3 DEF Logs!Finish, Logs!Statuses
  <2>4. CASE \E r \in Rows : Logs!Load(d, r)
    BY <1>2, <2>4 DEF Logs!Load
  <2> QED
    BY <2>1, <2>2, <2>3, <2>4
<1>4. AtWork' = AtWork
  BY <1>1 DEF AtWork
<1> QED
  BY <1>1, <1>3, <1>4 DEF QueryInv, Logs!QueryTypeOK

\* What a client does changes its own state, and the slots in use with it.
LEMMA ClientSteps ==
    ASSUME QueryInv, Logs!QueryAssumption, NEW c \in Clients, NEW new \in Logs!ClientState,
           Logs!Client(c, new), PagesFit(new),
           \/ querySem' = querySem /\ (new.at \in {"asked", "listed", "counted"} <=> c \in AtWork)
           \/ /\ querySem < QuerySlots /\ querySem' = querySem + 1
              /\ c \notin AtWork /\ new.at \in {"asked", "listed", "counted"}
           \/ /\ querySem' = querySem - 1
              /\ c \in AtWork /\ new.at \notin {"asked", "listed", "counted"}
    PROVE  QueryInv'
<1>1. /\ client \in [Clients -> Logs!ClientState] /\ querySem \in 0 .. QuerySlots /\ QuerySlots \in Nat
      /\ querySem = Cardinality(AtWork)
  BY DEF QueryInv, Logs!QueryTypeOK, Logs!QueryAssumption
<1>2. /\ client' \in [Clients -> Logs!ClientState] /\ client'[c] = new
      /\ \A b \in Clients : b # c => client'[b] = client[b]
      /\ UNCHANGED <<stored, dateStatus, importer, imports>>
  BY <1>1 DEF Logs!Client
<1>3. IsFiniteSet(AtWork)
  <2>1. IsFiniteSet(Clients) /\ AtWork \in SUBSET Clients
    BY SameFinite DEF Logs!QueryAssumption, AtWork
  <2> QED
    BY <2>1, FS_Subset
<1>4. AtWork' = IF new.at \in {"asked", "listed", "counted"} THEN AtWork \cup {c} ELSE AtWork \ {c}
  BY <1>2 DEF AtWork
<1>5. Cardinality(AtWork) \in Nat
  BY <1>3, FS_CardinalityType
<1>6. querySem' = Cardinality(AtWork') /\ querySem' \in 0 .. QuerySlots
  <2>1. CASE querySem' = querySem /\ (new.at \in {"asked", "listed", "counted"} <=> c \in AtWork)
    <3>1. AtWork' = AtWork
      BY <1>4, <2>1
    <3> QED
      BY <1>1, <2>1, <3>1
  <2>2. CASE /\ querySem < QuerySlots /\ querySem' = querySem + 1
             /\ c \notin AtWork /\ new.at \in {"asked", "listed", "counted"}
    <3>1. Cardinality(AtWork') = Cardinality(AtWork) + 1
      BY <1>3, <1>4, <2>2, FS_AddElement
    <3> QED
      BY <1>1, <2>2, <3>1
  <2>3. CASE /\ querySem' = querySem - 1
             /\ c \in AtWork /\ new.at \notin {"asked", "listed", "counted"}
    <3>1. Cardinality(AtWork') = Cardinality(AtWork) - 1
      BY <1>3, <1>4, <2>3, FS_RemoveElement
    <3>2. AtWork # {}
      BY <2>3
    <3>3. Cardinality(AtWork) # 0
      BY <1>3, <3>2, FS_EmptySet
    <3> QED
      BY <1>1, <1>5, <2>3, <3>1, <3>3
  <2> QED
    BY <2>1, <2>2, <2>3
<1>7. \A b \in Clients : PagesFit(client'[b])
  BY <1>2 DEF QueryInv
<1>8. Logs!QueryTypeOK'
  BY <1>2, <1>6 DEF QueryInv, Logs!QueryTypeOK
<1> QED
  BY <1>6, <1>7, <1>8 DEF QueryInv

\* A page goes on where the one before has ended.
LEMMA PageStepFits ==
    ASSUME QueryInv, Logs!QueryAssumption, NEW c \in Clients, Logs!QueryNATLogs(c)
    PROVE  \E new \in Logs!ClientState :
              Logs!Client(c, new) /\ PagesFit(new) /\ new.at \in {"more", "end"}
<1> DEFINE k == client[c]
           now_ == Logs!Selected(k.request, k.states)
           rows == Logs!Left(k.request, k.states, k.cursor)
           page == Logs!Page(rows)
           last == Logs!LastOf(page)
           n == Len(k.answer)
           at_ == IF Cardinality(rows) > PageSize THEN "more" ELSE "end"
           cursor_ == IF Cardinality(rows) > PageSize THEN last ELSE None
           answer_ == Append(k.answer, page)
           standing_ == IF k.cursor = None THEN now_ ELSE k.standing \cap now_
           new == [k EXCEPT !.at = at_, !.cursor = cursor_, !.answer = answer_, !.standing = standing_]
           old == UNION {k.answer[i] : i \in DOMAIN k.answer}
           returned == UNION {answer_[i] : i \in DOMAIN answer_}
<1>1. k \in Logs!ClientState /\ PagesFit(k) /\ k.at = "counted"
  BY DEF QueryInv, Logs!QueryTypeOK, Logs!QueryNATLogs
<1>2. now_ \in SUBSET Rows /\ rows = {r \in now_ : Logs!After(r, k.cursor)} /\ rows \in SUBSET Rows
  BY DEF QueryInv, Logs!QueryTypeOK, Logs!Selected, Logs!Left
<1>3. Logs!Client(c, new)
  BY SameCardinality DEF Logs!QueryNATLogs
<1>4. /\ page \in SUBSET rows
      /\ \A r \in rows, p \in page : Logs!Before(r, p) => r \in page
      /\ Cardinality(rows) <= PageSize => page = rows
      /\ rows # {} => /\ last \in page
                      /\ \A s \in page : ~Logs!Before(last, s)
  BY <1>2, Pages
<1>5. /\ k.answer \in Seq(SUBSET Rows) /\ k.standing \in SUBSET Rows /\ k.cursor \in Rows \cup {None}
      /\ None \notin Rows /\ PageSize \in Nat \ {0} /\ Cardinality(rows) \in Nat
  BY <1>1, <1>2, Ranks DEF Logs!ClientState, Logs!QueryAssumption
<1>6. /\ k.cursor = None => k.answer = <<>> /\ k.standing = {}
      /\ \A r \in old : ~Logs!After(r, k.cursor)
      /\ \A i, j \in DOMAIN k.answer : i # j => k.answer[i] \cap k.answer[j] = {}
      /\ \A r \in k.standing : ~Logs!After(r, k.cursor) => r \in old
  BY <1>1 DEF PagesFit
<1>7. /\ new.at = at_ /\ new.cursor = cursor_ /\ new.answer = answer_ /\ new.standing = standing_
      /\ new.request = k.request
  BY <1>1 DEF Logs!ClientState
<1>8. at_ \in {"more", "end"} /\ (at_ = "more" <=> Cardinality(rows) > PageSize)
  OBVIOUS
<1> HIDE DEF now_, rows, page, last, at_
<1>9. cursor_ \in Rows \cup {None} /\ standing_ \in SUBSET Rows
  <2>1. Cardinality(rows) > PageSize => rows # {}
    <3>1. Cardinality({}) = 0
      BY FS_EmptySet
    <3>2. Cardinality(rows) > PageSize => Cardinality(rows) # 0
      BY <1>5
    <3> QED
      BY <3>1, <3>2
  <2>2. rows # {} => last \in Rows
    BY <1>2, <1>4
  <2> QED
    BY <1>2, <1>5, <2>1, <2>2
<1>10. /\ answer_ \in Seq(SUBSET Rows) /\ n \in Nat
       /\ DOMAIN k.answer = 1 .. n /\ DOMAIN answer_ = 1 .. n + 1
       /\ answer_[n + 1] = page /\ \A i \in 1 .. n : answer_[i] = k.answer[i]
  <2>1. page \in SUBSET Rows
    BY <1>2, <1>4
  <2>2. /\ answer_ \in Seq(SUBSET Rows) /\ Len(answer_) = n + 1
        /\ answer_[n + 1] = page /\ \A i \in 1 .. n : answer_[i] = k.answer[i]
    BY <1>5, <2>1, AppendProperties
  <2>3. n \in Nat /\ DOMAIN k.answer = 1 .. n
    BY <1>5
  <2> HIDE DEF answer_
  <2>4. DOMAIN answer_ = 1 .. Len(answer_)
    BY <2>2
  <2> QED
    BY <2>2, <2>3, <2>4
<1>11. new \in Logs!ClientState
  <2> HIDE DEF answer_, cursor_, standing_
  <2> QED
    BY <1>1, <1>8, <1>9, <1>10 DEF Logs!ClientState
<1> HIDE DEF new, k
<1>12. returned = old \cup page
  <2> HIDE DEF answer_
  <2>1. \A i : i \in 1 .. n + 1 <=> i \in 1 .. n \/ i = n + 1
    BY <1>10
  <2> QED
    BY <1>10, <2>1
<1>13. \A i, j \in DOMAIN answer_ : i # j => answer_[i] \cap answer_[j] = {}
  <2>1. \A i \in 1 .. n : k.answer[i] \cap page = {}
    BY <1>2, <1>4, <1>6, <1>10
  <2>2. \A i \in 1 .. n + 1 : i \in 1 .. n \/ i = n + 1
    BY <1>10
  <2> HIDE DEF answer_
  <2> QED
    BY <1>6, <1>10, <2>1, <2>2
<1> HIDE DEF answer_, old, returned
<1>14. ASSUME at_ = "more"
       PROVE  /\ cursor_ = last /\ last \in page /\ last \in Rows
              /\ \A r \in Rows : Logs!After(r, cursor_) <=> Logs!Before(last, r)
              /\ \A s \in page : ~Logs!Before(last, s)
  <2>1. rows # {}
    <3>1. Cardinality(rows) # 0
      BY <1>5, <1>8, <1>14
    <3>2. Cardinality({}) = 0
      BY FS_EmptySet
    <3> QED
      BY <3>1, <3>2
  <2> QED
    BY <1>2, <1>4, <1>5, <1>8, <1>14, <2>1 DEF Logs!After
<1>15. old \in SUBSET Rows
  <2>1. \A i \in 1 .. n : k.answer[i] \in SUBSET Rows
    BY <1>5, ElementOfSeq
  <2> QED
    BY <1>10, <2>1 DEF old
<1>16. ASSUME at_ = "more", NEW r \in old \cup page PROVE ~Logs!After(r, cursor_)
  <2>1. r \in Rows
    BY <1>2, <1>4, <1>15
  <2>2. CASE r \in page
    BY <1>14, <1>16, <2>1, <2>2
  <2>3. CASE r \in old
    <3>1. ~Logs!After(r, k.cursor)
      BY <1>6, <2>3
    <3>2. k.cursor # None /\ k.cursor \in Rows /\ ~Logs!Before(k.cursor, r)
      BY <1>5, <3>1 DEF Logs!After
    <3>3. Logs!Before(k.cursor, last)
      BY <1>2, <1>4, <1>14, <1>16, <3>2 DEF Logs!After
    <3>4. ~Logs!Before(last, r)
      BY <1>14, <1>16, <2>1, <3>2, <3>3, RowOrderTransitive
    <3> QED
      BY <1>14, <1>16, <2>1, <3>4
  <2> QED
    BY <1>16, <2>2, <2>3
<1>17. ASSUME NEW r \in standing_, ~Logs!After(r, cursor_) \/ at_ = "end"
       PROVE  r \in old \cup page
  <2>1. r \in now_ /\ r \in Rows /\ (k.cursor # None => r \in k.standing)
    BY <1>2, <1>9, <1>17
  <2>2. CASE ~Logs!After(r, k.cursor)
    <3>1. k.cursor # None
      BY <2>2 DEF Logs!After
    <3> QED
      BY <1>6, <2>1, <2>2, <3>1
  <2>3. CASE Logs!After(r, k.cursor)
    <3>1. r \in rows
      BY <1>2, <2>1, <2>3
    <3>2. CASE at_ = "end"
      <4>1. Cardinality(rows) <= PageSize
        BY <1>5, <1>8, <3>2
      <4> QED
        BY <1>4, <3>1, <4>1
    <3>3. CASE at_ = "more"
      <4>1. ~Logs!Before(last, r)
        BY <1>8, <1>14, <1>17, <2>1, <3>3
      <4>2. r = last \/ Logs!Before(r, last)
        BY <1>14, <2>1, <3>3, <4>1, RowOrder
      <4> QED
        BY <1>4, <1>14, <3>1, <3>3, <4>2
    <3> QED
      BY <1>8, <3>2, <3>3
  <2> QED
    BY <2>2, <2>3
<1>18. at_ = "more" => cursor_ # None
  BY <1>5, <1>14
<1>19. PagesFit(new)
  <2> HIDE DEF cursor_, standing_
  <2> QED
    BY <1>7, <1>8, <1>12, <1>13, <1>16, <1>17, <1>18 DEF PagesFit, returned
<1> QED
  BY <1>3, <1>7, <1>8, <1>11, <1>19 DEF new, k

LEMMA ClientStepIsSound ==
    ASSUME QueryInv, Logs!QueryAssumption, NEW c \in Clients,
           \/ \E q \in Queries : Logs!Ask(c, q)
           \/ Logs!ListDateStates(c) \/ Logs!CountNATLogs(c) \/ Logs!NothingQueried(c)
           \/ Logs!QueryNATLogs(c) \/ Logs!RequestFails(c) \/ Logs!Stop(c)
    PROVE  QueryInv'
<1> DEFINE k == client[c]
           Working == {"asked", "listed", "counted"}
           Fits(new) == new \in Logs!ClientState /\ PagesFit(new)
           Same(new) == /\ new.cursor = k.cursor /\ new.answer = k.answer /\ new.standing = k.standing
                        /\ new.at # "end" /\ (new.at \in Working => new.request \in Queries)
<1>1. k \in Logs!ClientState /\ PagesFit(k) /\ (c \in AtWork <=> k.at \in Working)
  BY DEF QueryInv, Logs!QueryTypeOK, AtWork
<1>2. Fits(Logs!NoQuery) /\ Logs!NoQuery.at = "idle"
  BY NoQueryFits
<1>3. ASSUME NEW new \in Logs!ClientState, k.at # "end", Same(new) PROVE Fits(new)
  BY <1>1, <1>3 DEF PagesFit
<1>4. ASSUME NEW new, Logs!Client(c, new), Fits(new),
             \/ querySem' = querySem /\ (new.at \in Working <=> k.at \in Working)
             \/ /\ querySem < QuerySlots /\ querySem' = querySem + 1
                /\ k.at \notin Working /\ new.at \in Working
             \/ querySem' = querySem - 1 /\ k.at \in Working /\ new.at \notin Working
      PROVE  QueryInv'
  BY <1>1, <1>4, ClientSteps
<1>5. ASSUME NEW q \in Queries, Logs!Ask(c, q) PROVE QueryInv'
  <2> DEFINE new == [k EXCEPT !.at = "asked", !.request = q]
  <2>1. new \in Logs!ClientState /\ new.at = "asked" /\ k.at # "end" /\ Same(new)
    BY <1>1, <1>5 DEF Logs!ClientState, Logs!Ask
  <2>2. /\ querySem < QuerySlots /\ querySem' = querySem + 1 /\ k.at \notin Working
        /\ Logs!Client(c, new)
    BY <1>5 DEF Logs!Ask
  <2> HIDE DEF new
  <2>3. Fits(new)
    BY <1>3, <2>1
  <2> HIDE DEF k, Fits, Same
  <2> QED
    BY <1>4, <2>1, <2>2, <2>3
<1>6. CASE Logs!ListDateStates(c)
  <2> DEFINE new == [k EXCEPT !.at = "listed", !.states = dateStatus]
  <2>1. dateStatus \in [Logs!Dates -> Logs!Statuses \cup {None}]
    BY DEF QueryInv, Logs!QueryTypeOK
  <2>2. k.at = "asked" /\ querySem' = querySem /\ Logs!Client(c, new)
    BY <1>6 DEF Logs!ListDateStates
  <2>3. new \in Logs!ClientState /\ new.at = "listed" /\ k.at # "end" /\ Same(new)
    BY <1>1, <2>1, <2>2 DEF Logs!ClientState, PagesFit
  <2> HIDE DEF new
  <2>4. Fits(new)
    BY <1>3, <2>3
  <2> HIDE DEF k, Fits, Same
  <2> QED
    BY <1>4, <2>2, <2>3, <2>4
<1>7. CASE Logs!CountNATLogs(c)
  <2> DEFINE found == Logs!Selected(k.request, k.states)
             new == [k EXCEPT !.at = "counted", !.total = Cardinality(found)]
  <2>1. Cardinality(found) \in Nat
    <3>1. found \in SUBSET Rows
      BY DEF QueryInv, Logs!QueryTypeOK, Logs!Selected
    <3> QED
      BY <3>1, Ranks
  <2>2. k.at = "listed" /\ querySem' = querySem /\ Logs!Client(c, new)
    BY <1>7, SameCardinality DEF Logs!CountNATLogs
  <2> HIDE DEF found
  <2>3. new \in Logs!ClientState /\ new.at = "counted" /\ k.at # "end" /\ Same(new)
    BY <1>1, <2>1, <2>2 DEF Logs!ClientState, PagesFit
  <2> HIDE DEF new
  <2>4. Fits(new)
    BY <1>3, <2>3
  <2> HIDE DEF k, Fits, Same
  <2> QED
    BY <1>4, <2>2, <2>3, <2>4
<1>8. CASE Logs!NothingQueried(c)
  <2>1. k.at = "listed" /\ querySem' = querySem - 1 /\ Logs!Client(c, Logs!NoQuery)
    BY <1>8 DEF Logs!NothingQueried, Logs!ReturnSlot
  <2> HIDE DEF k, Fits, Same
  <2> QED
    BY <1>2, <1>4, <2>1
<1>9. CASE Logs!QueryNATLogs(c)
  <2>1. PICK new \in Logs!ClientState :
           Logs!Client(c, new) /\ PagesFit(new) /\ new.at \in {"more", "end"}
    BY <1>9, PageStepFits
  <2>2. k.at = "counted" /\ querySem' = querySem - 1
    BY <1>9 DEF Logs!QueryNATLogs, Logs!ReturnSlot
  <2>3. Fits(new)
    BY <2>1
  <2> HIDE DEF k, Fits, Same
  <2> QED
    BY <1>4, <2>1, <2>2, <2>3
<1>10. CASE Logs!RequestFails(c)
  <2>1. k.at \in Working /\ querySem' = querySem - 1
    BY <1>10 DEF Logs!RequestFails, Logs!ReturnSlot
  <2>2. CASE k.cursor = None
    <3>1. Logs!Client(c, Logs!NoQuery)
      BY <1>10, <2>2 DEF Logs!RequestFails
    <3> HIDE DEF k, Fits, Same
    <3> QED
      BY <1>2, <1>4, <2>1, <3>1
  <2>3. CASE k.cursor # None
    <3> DEFINE new == [k EXCEPT !.at = "more"]
    <3>1. Logs!Client(c, new)
      BY <1>10, <2>3 DEF Logs!RequestFails
    <3>2. new \in Logs!ClientState /\ new.at = "more" /\ k.at # "end" /\ Same(new)
      BY <1>1, <2>1 DEF Logs!ClientState
    <3> HIDE DEF new
    <3>3. Fits(new)
      BY <1>3, <3>2
    <3> HIDE DEF k, Fits, Same
    <3> QED
      BY <1>4, <2>1, <3>1, <3>2, <3>3
  <2> QED
    BY <2>2, <2>3
<1>11. CASE Logs!Stop(c)
  <2>1. k.at \in {"more", "end"} /\ querySem' = querySem /\ Logs!Client(c, Logs!NoQuery)
    BY <1>11 DEF Logs!Stop
  <2> HIDE DEF k, Fits, Same
  <2> QED
    BY <1>2, <1>4, <2>1
<1> QED
  BY <1>5, <1>6, <1>7, <1>8, <1>9, <1>10, <1>11

LEMMA QueryNextIsSound ==
    ASSUME QueryInv, Logs!QueryAssumption, [Logs!QueryNext]_qv
    PROVE  QueryInv'
<1>1. CASE UNCHANGED qv
  <2>1. UNCHANGED <<stored, dateStatus, importer, imports, querySem, client>>
    BY <1>1 DEF qv
  <2>2. AtWork' = AtWork
    BY <2>1 DEF AtWork
  <2> QED
    BY <2>1, <2>2 DEF QueryInv, Logs!QueryTypeOK
<1>2. CASE \E d \in Logs!Dates : \/ Logs!Drop(d) \/ Logs!Importing(d) \/ Logs!Finish(d)
                                 \/ \E r \in Rows : Logs!Load(d, r)
  BY <1>2, ImportsLeaveQueries
<1>3. CASE \E c \in Clients :
             \/ \E q \in Queries : Logs!Ask(c, q)
             \/ Logs!ListDateStates(c) \/ Logs!CountNATLogs(c) \/ Logs!NothingQueried(c)
             \/ Logs!QueryNATLogs(c) \/ Logs!RequestFails(c) \/ Logs!Stop(c)
  BY <1>3, ClientStepIsSound
<1> QED
  BY <1>1, <1>2, <1>3 DEF Logs!QueryNext

LEMMA QueryInvariance == Spec => []QueryInv
<1> USE ServicesAssumption
<1>1. Init => QueryInv
  BY QueryInitIsSound DEF Init, ServicesAssumption
<1>2. QueryInv /\ [Next]_vars => QueryInv'
  BY Moves, QueryNextIsSound DEF ServicesAssumption
<1> QED
  BY <1>1, <1>2, PTL DEF Spec

\* Paging returns no row twice.
THEOREM PagesShareNoRow == Spec => []NoRowTwice
<1>1. QueryInv => NoRowTwice
  BY DEF QueryInv, PagesFit, NoRowTwice, Logs!NoRowTwice
<1> QED
  BY <1>1, QueryInvariance, PTL

\* Paging leaves out no row that every page might have returned.
THEOREM PagesLeaveOutNoRow == Spec => []StandingRowsAreReturned
<1>1. QueryInv => StandingRowsAreReturned
  BY DEF QueryInv, PagesFit, StandingRowsAreReturned, Logs!StandingRowsAreReturned, Logs!Returned
<1> QED
  BY <1>1, QueryInvariance, PTL

\* The day of a time that is within a day, and the days of a range.
LEMMA DayOf ==
    ASSUME NEW n \in Nat \ {0}, NEW t \in Nat, NEW day \in Nat
    PROVE  t \div n = day <=> day * n <= t /\ t <= (day + 1) * n - 1
<1> DEFINE q == t \div n
<1>1. q \in Nat /\ n * q <= t /\ t < n * q + n
  OBVIOUS
<1>2. /\ n * day = day * n /\ n * day \in Nat
      /\ (day + 1) * n = n * day + n
  OBVIOUS
<1>3. ASSUME q = day PROVE day * n <= t /\ t <= (day + 1) * n - 1
  <2>1. n * day <= t /\ t < n * day + n
    BY <1>1, <1>3
  <2> QED
    BY <1>2, <2>1
<1>4. ASSUME day * n <= t, t <= (day + 1) * n - 1 PROVE q = day
  <2>1. n * day <= t /\ t < n * day + n
    BY <1>2, <1>4
  <2> QED
    BY <2>1, OneMultiple
<1> QED
  BY <1>3, <1>4

LEMMA DaysOfRange ==
    ASSUME NEW n \in Nat \ {0}, NEW s \in Nat, NEW t \in Nat, s <= t
    PROVE  s \div n \in Nat /\ t \div n \in Nat /\ s \div n <= t \div n
<1> DEFINE p == s \div n
           q == t \div n
<1>1. p \in Nat /\ q \in Nat /\ n * p <= s /\ t < n * q + n
  OBVIOUS
<1> HIDE DEF p, q
<1>2. ~ (q + 1 <= p)
  <2> SUFFICES ASSUME q + 1 <= p PROVE FALSE
    OBVIOUS
  <2>1. n * (q + 1) <= n * p /\ n * (q + 1) = n * q + n /\ n * p \in Nat /\ n * q \in Nat
    BY <1>1, Multiples
  <2> QED
    BY <1>1, <2>1
<1>3. p <= q
  BY <1>1, <1>2
<1> QED
  BY <1>1, <1>3 DEF p, q

\* Without skipped days the rows that are shown are those of the range.
LEMMA ShownRowsAreTheRange ==
    ASSUME Logs!QueryAssumption, stored \subseteq Rows, NEW q \in Queries, NEW states,
           Logs!SkippedDays(q, states) = {}
    PROVE  Logs!Selected(q, states)
             = {r \in stored : /\ r.ts \in q.start .. q.end
                               /\ Logs!Day(r.ts) = r.date
                               /\ states[<<r.source, r.date>>] # None
                               /\ Logs!Matches(q, r)}
<1> DEFINE L == DayLength
<1>1. L \in Nat \ {0} /\ q.start \in Nat /\ q.end \in Nat /\ None # "ready"
  BY DEF Logs!QueryAssumption, Logs!Statuses
<1> SUFFICES ASSUME NEW r \in stored, Logs!Matches(q, r)
             PROVE  (/\ <<r.source, r.date>> \in Logs!Queried(q, states)
                     /\ r.ts \in Logs!From(q, r.date) .. Logs!To(q, r.date))
                      <=> (/\ r.ts \in q.start .. q.end
                           /\ Logs!Day(r.ts) = r.date
                           /\ states[<<r.source, r.date>>] # None)
  BY DEF Logs!Selected
<1> DEFINE d == <<r.source, r.date>>
<1>2. r \in Rows /\ r.ts \in Nat /\ r.date \in Nat /\ r.source \in Nat
  BY DEF Logs!QueryAssumption
<1>3. d[1] = r.source /\ d[2] = r.date /\ d \in Logs!Dates
  BY <1>2 DEF Logs!Dates
<1>4. q.source \in {None, d[1]}
  BY <1>3 DEF Logs!Matches
<1>5. Logs!Day(r.ts) = r.date <=> r.date * L <= r.ts /\ r.ts <= (r.date + 1) * L - 1
  BY <1>1, <1>2, DayOf DEF Logs!Day
<1>6. r.ts \in Logs!From(q, r.date) .. Logs!To(q, r.date)
        <=> /\ r.ts \in q.start .. q.end
            /\ r.date * L <= r.ts /\ r.ts <= (r.date + 1) * L - 1
  <2> DEFINE b == r.date * L
             e == (r.date + 1) * L - 1
  <2>1. b \in Int /\ e \in Int
    BY <1>1, <1>2
  <2>2. /\ Logs!From(q, r.date) = IF q.start > b THEN q.start ELSE b
        /\ Logs!To(q, r.date) = IF q.end < e THEN q.end ELSE e
    BY DEF Logs!From, Logs!To, Logs!DayEnd
  <2> HIDE DEF b, e
  <2>3. \A t \in Nat : t \in (IF q.start > b THEN q.start ELSE b) .. (IF q.end < e THEN q.end ELSE e)
                          <=> t \in q.start .. q.end /\ b <= t /\ t <= e
    BY <1>1, <2>1
  <2> QED
    BY <1>2, <2>2, <2>3 DEF b, e
<1>7. ASSUME d \in Logs!Queried(q, states) PROVE states[d] # None
  BY <1>1, <1>7 DEF Logs!Queried
<1>8. ASSUME r.ts \in q.start .. q.end, Logs!Day(r.ts) = r.date, states[d] # None
      PROVE  d \in Logs!Queried(q, states)
  <2>1. r.date \in Logs!Day(q.start) .. Logs!Day(q.end)
    <3>1. q.start <= r.ts /\ r.ts <= q.end
      BY <1>1, <1>2, <1>8
    <3>2. /\ q.start \div L \in Nat /\ r.ts \div L \in Nat /\ q.end \div L \in Nat
          /\ q.start \div L <= r.ts \div L /\ r.ts \div L <= q.end \div L
      BY <1>1, <1>2, <3>1, DaysOfRange
    <3> HIDE DEF L
    <3> QED
      BY <1>8, <3>2 DEF Logs!Day, L
  <2>2. d \in Logs!Asked(q)
    BY <1>3, <1>4, <2>1 DEF Logs!Asked
  <2> DEFINE known == {e \in Logs!Asked(q) : e[2] = r.date /\ states[e] # None}
  <2>3. d \in known
    BY <1>3, <1>8, <2>2
  <2>4. r.date \notin Logs!SkippedDays(q, states)
    OBVIOUS
  <2>5. ~ (known = {} \/ \E e \in known : states[e] # "ready")
    BY <2>1, <2>4 DEF Logs!SkippedDays
  <2>6. states[d] = "ready"
    BY <2>3, <2>5
  <2> QED
    BY <2>2, <2>6 DEF Logs!Queried
<1> QED
  BY <1>5, <1>6, <1>7, <1>8

\* A request is counted by CountNATLogs alone.
LEMMA CountingSteps ==
    ASSUME QueryInv, [Logs!QueryNext]_qv, NEW c \in Clients,
           client[c].at = "listed", client'[c].at = "counted"
    PROVE  Logs!CountNATLogs(c)
<1>1. client \in [Clients -> Logs!ClientState]
  BY DEF QueryInv, Logs!QueryTypeOK
<1>2. client' # client
  OBVIOUS
<1>3. Logs!QueryNext
  BY <1>2 DEF qv
<1>4. ASSUME NEW d \in Logs!Dates,
             Logs!Drop(d) \/ Logs!Importing(d) \/ Logs!Finish(d) \/ \E r \in Rows : Logs!Load(d, r)
      PROVE  FALSE
  BY <1>2, <1>4 DEF Logs!Drop, Logs!Importing, Logs!Finish, Logs!Load
<1>5. PICK b \in Clients :
         \/ \E q \in Queries : Logs!Ask(b, q)
         \/ Logs!ListDateStates(b) \/ Logs!CountNATLogs(b) \/ Logs!NothingQueried(b)
         \/ Logs!QueryNATLogs(b) \/ Logs!RequestFails(b) \/ Logs!Stop(b)
  BY <1>3, <1>4 DEF Logs!QueryNext
<1>6. PICK new : client' = [client EXCEPT ![b] = new]
  BY <1>5 DEF Logs!Ask, Logs!ListDateStates, Logs!CountNATLogs, Logs!NothingQueried,
              Logs!QueryNATLogs, Logs!RequestFails, Logs!Stop, Logs!Client
<1>7. b = c
  BY <1>1, <1>6
<1>8. client[c].at \notin {"idle", "more", "asked", "counted", "end"}
  OBVIOUS
<1>9. ~ \E q \in Queries : Logs!Ask(c, q)
  BY <1>8 DEF Logs!Ask
<1>10. ~ Logs!ListDateStates(c) /\ ~ Logs!QueryNATLogs(c) /\ ~ Logs!Stop(c)
  BY <1>8 DEF Logs!ListDateStates, Logs!QueryNATLogs, Logs!Stop
<1>11. ~ Logs!NothingQueried(c)
  <2> SUFFICES ASSUME Logs!NothingQueried(c) PROVE FALSE
    OBVIOUS
  <2>1. client'[c] = Logs!NoQuery
    BY <1>1 DEF Logs!NothingQueried, Logs!Client
  <2> QED
    BY <2>1, NoQueryFits
<1>12. ~ Logs!RequestFails(c)
  <2> SUFFICES ASSUME Logs!RequestFails(c) PROVE FALSE
    OBVIOUS
  <2>1. client'[c] = IF client[c].cursor = None THEN Logs!NoQuery ELSE [client[c] EXCEPT !.at = "more"]
    BY <1>1 DEF Logs!RequestFails, Logs!Client
  <2>2. client[c] \in Logs!ClientState /\ [client[c] EXCEPT !.at = "more"].at = "more"
    BY <1>1 DEF Logs!ClientState
  <2> QED
    BY <2>1, <2>2, NoQueryFits
<1> QED
  BY <1>5, <1>7, <1>9, <1>10, <1>11, <1>12

\* Without skipped days the total is that of the whole range.
THEOREM TotalsAreWhole == Spec => TotalIsWhole
<1> DEFINE Whole(c) ==
      client[c].at = "listed" /\ client'[c].at = "counted" =>
          LET q == client[c].request
              states == client[c].states
          IN  Logs!SkippedDays(q, states) = {} =>
              client'[c].total =
                  Logs!Cardinality({r \in stored : /\ r.ts \in q.start .. q.end
                                                   /\ Logs!Day(r.ts) = r.date
                                                   /\ states[<<r.source, r.date>>] # None
                                                   /\ Logs!Matches(q, r)})
<1> USE ServicesAssumption
<1>1. ASSUME QueryInv, [Logs!QueryNext]_qv, NEW c \in Clients PROVE Whole(c)
  <2> SUFFICES ASSUME client[c].at = "listed", client'[c].at = "counted",
                      Logs!SkippedDays(client[c].request, client[c].states) = {}
               PROVE  client'[c].total =
                        Logs!Cardinality({r \in stored :
                            /\ r.ts \in client[c].request.start .. client[c].request.end
                            /\ Logs!Day(r.ts) = r.date
                            /\ client[c].states[<<r.source, r.date>>] # None
                            /\ Logs!Matches(client[c].request, r)})
    OBVIOUS
  <2> HIDE DEF Whole
  <2>1. /\ client \in [Clients -> Logs!ClientState] /\ stored \subseteq Rows
        /\ client[c].request \in Queries
    BY <1>1 DEF QueryInv, Logs!QueryTypeOK, PagesFit
  <2>2. Logs!CountNATLogs(c)
    BY <1>1, CountingSteps
  <2>3. client'[c].total = Logs!Cardinality(Logs!Selected(client[c].request, client[c].states))
    BY <2>1, <2>2 DEF Logs!CountNATLogs, Logs!Client, Logs!ClientState
  <2> QED
    BY <2>1, <2>3, ShownRowsAreTheRange DEF ServicesAssumption
<1>2. QueryInv /\ [Next]_vars => [\A c \in Clients : Whole(c)]_qv
  <2> HIDE DEF Whole
  <2> QED
    BY <1>1, Moves
<1> QED
  BY <1>2, QueryInvariance, PTL DEF Spec, TotalIsWhole, Logs!TotalIsWhole, Logs!qvars, qv
FileDates == {d \in [year : Years, day : Lines!DaysOfYear] : Lines!Exists(d.year, d.day)}

IsLeap(y) == IF y \in LeapYears THEN 1 ELSE 0

\* The leap years of an interval can be counted.
LEMMA LeapYearsAreFinite ==
    ASSUME NEW a \in Int, NEW b \in Int
    PROVE  LET S == {l \in LeapYears \cap Int : a <= l /\ l < b}
           IN  IsFiniteSet(S) /\ Cardinality(S) \in Nat
<1> DEFINE S == {l \in LeapYears \cap Int : a <= l /\ l < b}
<1>1. IsFiniteSet(a .. b)
  BY FS_Interval
<1>2. S \in SUBSET (a .. b)
  OBVIOUS
<1>3. IsFiniteSet(S)
  BY <1>1, <1>2, FS_Subset
<1> QED
  BY <1>3, FS_CardinalityType

\* A year adds its leap day to the years after it.
LEMMA LeapYearCounts ==
    ASSUME Lines!CalendarAssumption, NEW y \in Int
    PROVE  /\ Lines!LeapYearsBefore(y) \in Int
           /\ Lines!LeapYearsBefore(y + 1) = Lines!LeapYearsBefore(y) + IsLeap(y)
<1> DEFINE S(a, b) == {l \in LeapYears \cap Int : a <= l /\ l < b}
<1>1. \A a, b \in Int : IsFiniteSet(S(a, b)) /\ Cardinality(S(a, b)) \in Nat
  BY LeapYearsAreFinite
<1>2. \A z \in Int : Lines!LeapYearsBefore(z) = IF z >= 0 THEN Cardinality(S(0, z)) ELSE -Cardinality(S(z, 0))
  <2> TAKE z \in Int
  <2>1. {l \in LeapYears : 0 <= l /\ l < z} = S(0, z) /\ {l \in LeapYears : z <= l /\ l < 0} = S(z, 0)
    BY DEF Lines!CalendarAssumption
  <2> QED
    BY <2>1, SameCardinality DEF Lines!LeapYearsBefore
<1>3. CASE y >= 0
  <2>1. S(0, y + 1) = IF y \in LeapYears THEN S(0, y) \union {y} ELSE S(0, y)
    BY <1>3
  <2>2. y \notin S(0, y)
    OBVIOUS
  <2> HIDE DEF S
  <2>3. IsFiniteSet(S(0, y)) /\ Cardinality(S(0, y)) \in Nat
    BY <1>1
  <2>4. Cardinality(S(0, y) \union {y}) = Cardinality(S(0, y)) + 1
    BY <2>2, <2>3, FS_AddElement
  <2>5. Lines!LeapYearsBefore(y) = Cardinality(S(0, y)) /\ Lines!LeapYearsBefore(y + 1) = Cardinality(S(0, y + 1))
    <3>1. y + 1 \in Int /\ y + 1 >= 0
      BY <1>3
    <3> QED
      BY <1>2, <1>3, <3>1
  <2> QED
    BY <2>1, <2>3, <2>4, <2>5 DEF IsLeap
<1>4. CASE y < 0
  <2>1. S(y, 0) = IF y \in LeapYears THEN S(y + 1, 0) \union {y} ELSE S(y + 1, 0)
    BY <1>4
  <2>2. y \notin S(y + 1, 0)
    OBVIOUS
  <2>3. Cardinality(S(y + 1, 0) \union {y}) = Cardinality(S(y + 1, 0)) + 1
    <3> HIDE DEF S
    <3>1. y + 1 \in Int /\ 0 \in Int
      OBVIOUS
    <3>2. IsFiniteSet(S(y + 1, 0))
      BY <1>1, <3>1
    <3> QED
      BY <2>2, <3>2, FS_AddElement
  <2>4. Cardinality(S(0, 0)) = 0
    <3>1. S(0, 0) = {}
      OBVIOUS
    <3> QED
      BY <3>1, FS_EmptySet
  <2> HIDE DEF S
  <2>5. Lines!LeapYearsBefore(y) = -Cardinality(S(y, 0)) /\ Lines!LeapYearsBefore(y + 1) = -Cardinality(S(y + 1, 0))
    <3>1. CASE y + 1 = 0
      BY <1>2, <1>4, <2>4, <3>1
    <3>2. CASE y + 1 < 0
      BY <1>2, <1>4, <3>2
    <3> QED
      BY <1>4, <3>1, <3>2
  <2>6. Cardinality(S(y + 1, 0)) \in Nat
    <3>1. y + 1 \in Int /\ 0 \in Int
      OBVIOUS
    <3> QED
      BY <1>1, <3>1
  <2>7. Cardinality(S(y, 0)) = Cardinality(S(y + 1, 0)) + IsLeap(y)
    <3>1. CASE y \in LeapYears
      BY <2>1, <2>3, <3>1 DEF IsLeap
    <3>2. CASE y \notin LeapYears
      BY <2>1, <2>6, <3>2 DEF IsLeap
    <3> QED
      BY <3>1, <3>2
  <2>8. IsLeap(y) \in Nat
    BY DEF IsLeap
  <2> QED
    BY <2>5, <2>6, <2>7, <2>8
<1> QED
  BY <1>3, <1>4

\* A day of the year comes again after the days of a year, or one more.
LEMMA DayComesAgain ==
    ASSUME Lines!CalendarAssumption, NEW y \in Int, NEW stamp \in Lines!DaysOfYear
    PROVE  /\ Lines!Date(y, stamp) \in Int
           /\ Lines!Date(y + 1, stamp) - Lines!Date(y, stamp) \in {YearDays, YearDays + 1}
<1>1. /\ Lines!LeapYearsBefore(y) \in Int /\ Lines!LeapYearsBefore(y + 1) \in Int
      /\ Lines!LeapYearsBefore(y + 1) = Lines!LeapYearsBefore(y) + IsLeap(y)
  BY LeapYearCounts, y + 1 \in Int
<1>2. Lines!FirstDay(y) \in Int /\ Lines!FirstDay(y + 1) = Lines!FirstDay(y) + YearDays + IsLeap(y)
  BY <1>1 DEF Lines!FirstDay, IsLeap, Lines!CalendarAssumption
<1> QED
  BY <1>2 DEF Lines!Date, Lines!DaysOfYear, IsLeap, Lines!CalendarAssumption

\* Two days of a year are at most a year apart.
LEMMA DaysOfOneYear ==
    ASSUME Lines!CalendarAssumption, NEW y \in Int, NEW s \in Lines!DaysOfYear, NEW d \in Lines!DaysOfYear,
           Lines!Exists(y, s), Lines!Exists(y, d)
    PROVE  /\ Lines!Date(y, s) - Lines!Date(y, d) <= YearDays
           /\ Lines!Date(y, d) - Lines!Date(y, s) <= YearDays
<1>1. Lines!FirstDay(y) \in Int
  BY LeapYearCounts DEF Lines!FirstDay, Lines!CalendarAssumption
<1> QED
  BY <1>1 DEF Lines!Date, Lines!Exists, Lines!DaysOfYear, Lines!CalendarAssumption

-----------------------------------------------------------------------------
\* The nearest year is near: one of three years has the stamp within half a year.
LEMMA NearestYearIsNear ==
    ASSUME Lines!CalendarAssumption, NEW date \in FileDates, NEW l \in Lines!Lines, l.stamp \in Lines!DaysOfYear,
           Lines!Exists(date.year, l.stamp)
    PROVE  /\ Lines!NearestYear(date, l) - Lines!Date(date.year, date.day) <= HalfYear
           /\ Lines!Date(date.year, date.day) - Lines!NearestYear(date, l) <= HalfYear
<1> DEFINE y == date.year
           s == l.stamp
           day == Lines!Date(y, date.day)
<1>1. y \in Int /\ date.day \in Lines!DaysOfYear /\ Lines!Exists(y, date.day) /\ l.late \in BOOLEAN
  <2>1. date \in [year : Years, day : Lines!DaysOfYear] /\ Lines!Exists(date.year, date.day)
    BY DEF FileDates
  <2>2. l.late \in BOOLEAN
    <3>1. CASE l \in Lines!Stamped
      BY <3>1 DEF Lines!Stamped
    <3>2. CASE l = Lines!NoLine
      BY <3>2 DEF Lines!NoLine
    <3> QED
      BY <3>1, <3>2 DEF Lines!Lines
  <2>3. Years \subseteq Int
    BY DEF Lines!CalendarAssumption
  <2> QED
    BY <2>1, <2>2, <2>3
<1>2. /\ day \in Int /\ Lines!Date(y, s) \in Int /\ Lines!Date(y - 1, s) \in Int /\ Lines!Date(y + 1, s) \in Int
      /\ Lines!Date(y + 1, s) - Lines!Date(y, s) \in {YearDays, YearDays + 1}
      /\ Lines!Date(y, s) - Lines!Date(y - 1, s) \in {YearDays, YearDays + 1}
  <2>1. y - 1 \in Int /\ y + 1 \in Int /\ (y - 1) + 1 = y
    BY <1>1
  <2> HIDE DEF y, s
  <2> QED
    BY <1>1, <2>1, DayComesAgain DEF s
<1>3. Lines!Date(y, s) - day <= YearDays /\ day - Lines!Date(y, s) <= YearDays
  BY <1>1, DaysOfOneYear
<1>4. Lines!NearestYear(date, l) = IF Lines!TooFar(Lines!Date(y, s) - day, l.late) THEN Lines!Date(y - 1, s)
                             ELSE IF day - Lines!Date(y, s) > HalfYear THEN Lines!Date(y + 1, s) ELSE Lines!Date(y, s)
  BY DEF Lines!NearestYear
<1> HIDE DEF y, s, day
<1> QED
  BY <1>1, <1>2, <1>3, <1>4 DEF Lines!TooFar, Lines!CalendarAssumption, day, y

LEMMA ParsedRowIsNear ==
    ASSUME Lines!CalendarAssumption, fileDate \in FileDates, NEW l \in Lines!Lines, Lines!Parse(l)
    PROVE  Lines!YearIsNear'
<1> DEFINE day == Lines!Date(fileDate.year, fileDate.day)
<1>1. fileDate.year \in Int /\ fileDate.day \in Lines!DaysOfYear
  <2>1. fileDate \in [year : Years, day : Lines!DaysOfYear]
    BY DEF FileDates
  <2> QED
    BY <2>1 DEF Lines!CalendarAssumption
<1>2. day \in Int
  BY <1>1, DayComesAgain
<1>3. HalfYear \in Nat
  BY DEF Lines!CalendarAssumption
<1>4. SUFFICES ASSUME l.format # "none", l.year = None
               PROVE  Lines!RowTime(l, fileDate) - day <= HalfYear /\ day - Lines!RowTime(l, fileDate) <= HalfYear
  <2>1. line' = l /\ fileDate' = fileDate
    BY DEF Lines!Parse
  <2>2. day' = day
    BY <2>1 DEF Lines!Date, Lines!FirstDay, Lines!LeapYearsBefore
  <2> QED
    BY <2>1, <2>2 DEF Lines!Parse, Lines!YearIsNear
<1>5. CASE Lines!RowTime(l, fileDate) = day
  BY <1>2, <1>3, <1>5
<1>6. CASE Lines!RowTime(l, fileDate) # day
  <2>1. l.stamp # None /\ Lines!Exists(fileDate.year, l.stamp) /\ Lines!RowTime(l, fileDate) = Lines!NearestYear(fileDate, l)
    BY <1>4, <1>6 DEF Lines!RowTime, Lines!Timestamp
  <2>2. l.stamp \in Lines!DaysOfYear
    <3>1. l.stamp \in Lines!DaysOfYear \cup {None}
      <4>1. CASE l \in Lines!Stamped
        BY <4>1 DEF Lines!Stamped
      <4>2. CASE l = Lines!NoLine
        BY <4>2 DEF Lines!NoLine
      <4> QED
        BY <4>1, <4>2 DEF Lines!Lines
    <3> QED
      BY <2>1, <3>1
  <2> QED
    BY <2>1, <2>2, NearestYearIsNear
<1> QED
  BY <1>5, <1>6

\* A row has a time, that of some day.
LEMMA ParsedRowIsTyped ==
    ASSUME Lines!CalendarAssumption, fileDate \in FileDates, NEW l \in Lines!Lines, Lines!Parse(l)
    PROVE  Lines!ParserTypeOK'
<1>1. /\ fileDate \in [year : Years, day : Lines!DaysOfYear]
      /\ fileDate.year \in Int /\ fileDate.day \in Lines!DaysOfYear
  <2>1. fileDate \in [year : Years, day : Lines!DaysOfYear]
    BY DEF FileDates
  <2> QED
    BY <2>1 DEF Lines!CalendarAssumption
<1>2. \A y \in Int, s \in Lines!DaysOfYear : Lines!Date(y, s) \in Int
  BY DayComesAgain
<1>3. l.format # "none" => l \in Lines!Stamped
  BY DEF Lines!Lines, Lines!NoLine
<1>4. ASSUME l \in Lines!Stamped PROVE Lines!RowTime(l, fileDate) \in Int
  <2>1. l.stamp \in Lines!DaysOfYear \cup {None} /\ l.year \in Years \cup {None}
    BY <1>4 DEF Lines!Stamped
  <2>2. /\ l.stamp # None => l.stamp \in Lines!DaysOfYear
        /\ l.year # None => l.year \in Int
        /\ fileDate.year - 1 \in Int /\ fileDate.year + 1 \in Int
        /\ fileDate.day \in Lines!DaysOfYear
    <3>1. Years \subseteq Int
      BY DEF Lines!CalendarAssumption
    <3>2. l.year # None => l.year \in Int
      BY <2>1, <3>1
    <3> QED
      BY <1>1, <2>1, <3>2
  <2>3. ASSUME l.stamp # None PROVE Lines!NearestYear(fileDate, l) \in Int
    <3>1. /\ Lines!Date(fileDate.year - 1, l.stamp) \in Int /\ Lines!Date(fileDate.year, l.stamp) \in Int
          /\ Lines!Date(fileDate.year + 1, l.stamp) \in Int
      BY <1>1, <1>2, <2>2, <2>3
    <3> QED
      BY <3>1 DEF Lines!NearestYear
  <2>4. Lines!Timestamp(l, fileDate) \in Int
    BY <1>1, <1>2, <2>2, <2>3 DEF Lines!Timestamp
  <2> QED
    BY <1>1, <1>2, <2>2, <2>4 DEF Lines!RowTime
<1> QED
  BY <1>1, <1>3, <1>4 DEF Lines!Parse, Lines!ParserTypeOK

LinesInv == fileDate \in FileDates /\ Lines!ParserTypeOK /\ Lines!YearIsNear

LEMMA LinesInvariance == Spec => []LinesInv
<1> USE ServicesAssumption DEF ServicesAssumption
<1>1. Init => LinesInv
  BY DEF Init, Lines!ParserInit, LinesInv, FileDates, Lines!YearIsNear, Lines!ParserTypeOK, Lines!Lines
<1>2. LinesInv /\ [Next]_vars => LinesInv'
  <2> SUFFICES ASSUME LinesInv, [Next]_vars PROVE LinesInv'
    OBVIOUS
  <2>1. CASE Lines!ParserNext
    <3>1. PICK l \in Lines!Lines : Lines!Parse(l)
      BY <2>1 DEF Lines!ParserNext
    <3>2. (fileDate \in FileDates)'
      BY <3>1 DEF LinesInv, Lines!Parse, FileDates, Lines!Exists
    <3> QED
      BY <3>1, <3>2, ParsedRowIsNear, ParsedRowIsTyped DEF LinesInv
  <2>2. CASE UNCHANGED xv
    BY <2>2 DEF xv, LinesInv, FileDates, Lines!Exists, Lines!YearIsNear, Lines!Date, Lines!FirstDay,
                Lines!LeapYearsBefore, Lines!ParserTypeOK
  <2> QED
    BY <2>1, <2>2, Moves
<1> QED
  BY <1>1, <1>2, PTL DEF Spec

\* For every calendar with at most one leap day a year and every half year: a row whose
\* line has no year is never more than half a year from the date of its archive.
THEOREM RowsAreNear == Spec => []YearIsNear
<1>1. LinesInv => YearIsNear
  BY DEF LinesInv, YearIsNear
<1> QED
  BY <1>1, LinesInvariance, PTL
-----------------------------------------------------------------------------
(* The types of all services. *)

Parts == {"login", "cache", "threat", "upgrade", "query", "plan", "lines"}

LEMMA OnePartMoves == Spec => [](part \in Parts)
<1>1. Init => part \in Parts
  BY DEF Init, Parts
<1>2. part \in Parts /\ [Next]_vars => (part \in Parts)'
  BY Moves
<1> QED
  BY <1>1, <1>2, PTL DEF Spec

\* The variables of the service that moves have their types, in every reachable state.
THEOREM TypeCorrectness == Spec => []TypeOK
<1>1. /\ part \in Parts /\ LoginInv /\ CacheInv /\ ThreatInv /\ UpgradeInv /\ QueryInv /\ PlanInv /\ LinesInv
      => TypeOK
  BY DEF Parts, TypeOK, LoginInv, CacheInv, ThreatInv, UpgradeInv, QueryInv, PlanInv, LinesInv
<1> QED
  BY <1>1, OnePartMoves, LoginInvariance, CacheInvariance, ThreatInvariance, UpgradeInvariance,
     QueryInvariance, PlanInvariance, LinesInvariance, PTL
=============================================================================
