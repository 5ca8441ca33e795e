------------------------- MODULE SpoolReceiverProofs -------------------------
(***************************************************************************)
(* Proofs about the receiver of rsyslog messages, for any sources, savers, *)
(* workers and bounds: outside Manager.mu the listeners and statuses are   *)
(* those of one configuration, a save that met no other leaves the         *)
(* database, the memory and the receiver with the same one, a connection   *)
(* of a closed listener is closed, and a line goes to the directory that   *)
(* the routes name.                                                        *)
(*                                                                         *)
(* The invariant says who has Manager.mu; what the listeners of the map,   *)
(* those just opened and those being closed are to each other; what part   *)
(* of a configuration is applied while a saver has the lock; and what a    *)
(* saver that met no other carries from one step of its save to the next.  *)
(***************************************************************************)
EXTENDS SpoolReceiver, WellFoundedInduction, TLAPS

-----------------------------------------------------------------------------
(* The inductive invariant *)

\* Manager.mu is with the one saver that updates routes.
LockInv == \A t \in Savers : mgr = t <=> saver[t].pc = "routes"

\* A listener of the map is the one of its endpoint, open, and nobody is left to
\* close it.
Current(l) == \E e \in Endpoints : listeners[e] = l
Closing(t) == saver[t].pc \in {"close", "wait"}
ListenersInv ==
    /\ \A e \in Endpoints : listeners[e] # None =>
          listener[listeners[e]].ep = e /\ listener[listeners[e]].bound
    /\ \A l \in Listeners : listener[l].closed => ~listener[l].bound
    /\ \A t \in Savers : Closing(t) => \A l \in saver[t].todo : ~Current(l)

\* What a saver has opened: nothing before it has the lock; under it, one with the
\* routes of its configuration for every endpoint that has none.
Early == {"idle", "save", "memory", "read", "build"}
FreshInv ==
    \A t \in Savers :
        /\ saver[t].pc \in Early => saver[t].fresh = {}
        /\ saver[t].pc = "routes" =>
              /\ \A l \in saver[t].fresh :
                    /\ listener[l].bound /\ listener[l].ep \in Fresh(t)
                    /\ listener[l].routes = Group(saver[t].cfg, listener[l].ep)
                    /\ \A u \in Savers : Closing(u) => l \notin saver[u].todo
              /\ \A e \in Fresh(t) : \E l \in saver[t].fresh : listener[l].ep = e

\* Before the lock a saver has a configuration that was sent; under it, what is
\* not left to update has the routes of that configuration.
UpdatedInv ==
    \A t \in Savers :
        /\ saver[t].pc \in {"save", "memory"} => saver[t].cfg \in Configs
        /\ saver[t].pc = "routes" =>
              \A e \in Grouped(saver[t].cfg) \ Fresh(t) :
                  \/ listeners[e] \in saver[t].todo \cup {saver[t].at}
                  \/ listener[listeners[e]].routes = Group(saver[t].cfg, e)

\* The listeners, and the statuses, are those of a configuration.
Routed(cfg) ==
    \A e \in Endpoints :
        IF e \in Grouped(cfg)
        THEN listeners[e] # None /\ listener[listeners[e]].routes = Group(cfg, e)
        ELSE listeners[e] = None
Announced(cfg) == \A i \in Ids : statuses[i] # None /\ statuses[i].running
                                 => \E s \in Receiving(cfg) : s.id = i
RoutedInv == mgr = None => \E cfg \in Configs \cup {{}} : Routed(cfg) /\ Announced(cfg)

\* A listener of the map is served, or will be by the saver that has opened it.
ServedInv == \A e \in Endpoints : listeners[e] # None =>
                \/ listener[listeners[e]].serving
                \/ \E t \in Savers : listeners[e] \in saver[t].fresh

\* Savers that have not met: the one that is busy carries its configuration on.
Carries(t) ==
    /\ saver[t].pc = "memory" => stored = saver[t].cfg
    /\ saver[t].pc = "read" => stored = settings
    /\ saver[t].pc \in {"build", "routes", "close", "wait", "writers"} =>
          stored = settings /\ settings = saver[t].cfg
    /\ saver[t].pc \in {"close", "wait", "writers"} => Routed(saver[t].cfg)
Rests == stored = settings /\ Routed(settings)
QuietInv ==
    /\ ~overlap => \A t, u \in Busy : t = u
    /\ ~overlap /\ ~undone => (\A t \in Savers : Carries(t)) /\ (Busy = {} => Rests)

\* Work at a listener: a connection of a closed one is closed or not tracked yet; a
\* message has its source by the routes that are there.
Orderly(x) ==
    /\ x.st = "none" <=> x.at = None
    /\ x.at # None /\ listener[x.at].closed /\ ~Udp(x.at)
          => x.st = "accepted" \/ ~x.open
    /\ x.st = "writer" => x.src = Match(listener[x.at].routes, x.client)
WorkInv == \A w \in Workers : Orderly(worker[w])

IInv == /\ TypeOK /\ LockInv /\ ListenersInv /\ FreshInv /\ UpdatedInv
        /\ RoutedInv /\ ServedInv /\ QuietInv /\ WorkInv

-----------------------------------------------------------------------------
(* The route table *)

\* A set of natural numbers has a least one.
LEMMA LeastExists ==
    ASSUME NEW S \in SUBSET Nat, S # {}
    PROVE  \E x \in S : \A y \in S : x <= y
<1> DEFINE below == {ss \in Nat \X Nat : ss[1] < ss[2]}
<1>1. IsWellFoundedOn(below, Nat)
  BY NatLessThanWellFounded DEF OpToRel
<1>2. PICK x \in S : \A y \in S : ~ (<<y, x>> \in below)
  <2> HIDE DEF below
  <2> QED
    BY <1>1, WFMin
<1>3. ASSUME NEW y \in S PROVE x <= y
  <2>1. <<y, x>> \in Nat \X Nat /\ <<y, x>>[1] = y /\ <<y, x>>[2] = x
    OBVIOUS
  <2>2. ~ (<<y, x>>[1] < <<y, x>>[2])
    BY <1>2, <2>1
  <2> QED
    BY <2>1, <2>2
<1> QED
  BY <1>3

\* One with a bound has a greatest.
LEMMA GreatestExists ==
    ASSUME NEW b \in Nat, NEW S \in SUBSET (0 .. b), S # {}
    PROVE  \E x \in S : \A y \in S : y <= x
<1> DEFINE T == {b - x : x \in S}
<1>1. T \in SUBSET Nat /\ T # {}
  <2>1. ASSUME NEW x \in S PROVE b - x \in Nat
    <3>1. x \in 0 .. b
      OBVIOUS
    <3> QED
      BY <3>1
  <2>2. PICK x \in S : TRUE
    OBVIOUS
  <2>3. b - x \in T
    OBVIOUS
  <2> QED
    BY <2>1, <2>3
<1>2. PICK z \in T : \A y \in T : z <= y
  <2> HIDE DEF T
  <2> QED
    BY <1>1, LeastExists
<1>3. PICK x \in S : z = b - x
  BY <1>2
<1>4. ASSUME NEW y \in S PROVE y <= x
  <2>1. b - y \in T
    OBVIOUS
  <2>2. z <= b - y
    BY <1>2, <2>1
  <2> QED
    BY <1>3, <2>2
<1> QED
  BY <1>4

\* Sources that all hold for a client have one of the highest rank.
LEMMA HighestRank ==
    ASSUME NEW S \in SUBSET UNION Configs, S # {}
    PROVE  \E s \in S : \A u \in S : Rank(u.rule) <= Rank(s.rule)
<1>1. ASSUME NEW s \in S PROVE Rank(s.rule) \in -1 .. 129
  BY RulesAssumption DEF Rank
<1> DEFINE ranks == {Rank(s.rule) + 1 : s \in S}
<1>2. ranks \in SUBSET (0 .. 130) /\ ranks # {}
  <2>1. ASSUME NEW s \in S PROVE Rank(s.rule) + 1 \in 0 .. 130
    BY <1>1
  <2> QED
    BY <2>1
<1>3. PICK r \in ranks : \A q \in ranks : q <= r
  <2> HIDE DEF ranks
  <2> QED
    BY <1>2, GreatestExists
<1>4. PICK s \in S : r = Rank(s.rule) + 1
  BY <1>3
<1>5. ASSUME NEW u \in S PROVE Rank(u.rule) <= Rank(s.rule)
  <2>1. Rank(u.rule) + 1 <= Rank(s.rule) + 1
    BY <1>3, <1>4
  <2> QED
    BY <2>1, <1>1
<1> QED
  BY <1>5

\* A client has a source of the table, or none.
LEMMA MatchIsOfTable ==
    ASSUME NEW table \in SUBSET UNION Configs, NEW c
    PROVE  Match(table, c) \in table \cup {None}
<1> DEFINE matching == {s \in table : c \in s.rule.net}
<1>1. CASE matching = {}
  BY <1>1 DEF Match
<1>2. CASE matching # {}
  <2>1. \E s \in matching : \A u \in matching : Rank(u.rule) <= Rank(s.rule)
    BY <1>2, HighestRank
  <2>2. Match(table, c) = CHOOSE s \in matching :
            \A u \in matching : Rank(u.rule) <= Rank(s.rule)
    BY <1>2 DEF Match
  <2> QED
    BY <2>1, <2>2
<1> QED
  BY <1>1, <1>2

\* The endpoints of a configuration, and the table of one of them.
LEMMA GroupsAreTyped ==
    ASSUME NEW cfg \in Configs \cup {{}}
    PROVE  /\ Grouped(cfg) \subseteq Endpoints
           /\ \A e : Group(cfg, e) \in SUBSET UNION Configs
           /\ Receiving(cfg) \in SUBSET UNION Configs
<1> QED
  BY DEF Grouped, Group, Receiving, Endpoints

-----------------------------------------------------------------------------
(* What a step of a saver leaves as it is *)

\* A step before the lock.
LEMMA EarlyMove ==
    ASSUME TypeOK, LockInv, ListenersInv, FreshInv, UpdatedInv, ServedInv, WorkInv,
           NEW t \in Savers, NEW x \in Saver, saver' = [saver EXCEPT ![t] = x],
           saver[t].pc \in Early, x.pc \in Early, x.fresh = {},
           x.pc \in {"save", "memory"} => x.cfg \in Configs,
           UNCHANGED <<mgr, listeners, listener, worker>>
    PROVE  LockInv' /\ ListenersInv' /\ FreshInv' /\ UpdatedInv' /\ ServedInv' /\ WorkInv'
<1> USE DEF TypeOK
<1>1. saver'[t] = x /\ \A u \in Savers \ {t} : saver'[u] = saver[u]
  OBVIOUS
<1>2. LockInv'
  BY <1>1 DEF LockInv, Early
<1>3. ListenersInv'
  BY <1>1 DEF ListenersInv, Early, Closing, Current
<1>4. FreshInv'
  BY <1>1 DEF FreshInv, Early, Closing, Fresh
<1>5. UpdatedInv'
  BY <1>1 DEF UpdatedInv, Early, Fresh
<1>6. ServedInv'
  BY <1>1 DEF ServedInv, FreshInv, Early
<1>7. WorkInv'
  BY DEF WorkInv, Orderly, Udp
<1> QED
  BY <1>2, <1>3, <1>4, <1>5, <1>6, <1>7

\* The same listeners with the same routes are those of the same configuration.
LEMMA RoutesKept ==
    ASSUME TypeOK, UNCHANGED listeners,
           \A l \in Listeners : listener'[l].routes = listener[l].routes
    PROVE  \A cfg : Routed(cfg) => Routed(cfg)'
<1> QED
  BY DEF Routed, TypeOK

\* Nor does a step that starts no source take the receiver from its configuration.
LEMMA RoutedMove ==
    ASSUME TypeOK, RoutedInv, UNCHANGED <<mgr, listeners>>,
           \A l \in Listeners : listener'[l].routes = listener[l].routes,
           \A i \in Ids : statuses'[i] # None /\ statuses'[i].running
                          => statuses[i] # None /\ statuses[i].running
    PROVE  RoutedInv'
<1> SUFFICES ASSUME mgr' = None
             PROVE  \E cfg \in Configs \cup {{}} : Routed(cfg)' /\ Announced(cfg)'
  BY DEF RoutedInv
<1>1. PICK cfg \in Configs \cup {{}} : Routed(cfg) /\ Announced(cfg)
  BY DEF RoutedInv
<1>2. Routed(cfg)'
  BY <1>1, RoutesKept
<1>3. Announced(cfg)'
  BY <1>1 DEF Announced
<1> QED
  BY <1>2, <1>3

\* A step of a busy saver: alone, it has to carry its own configuration on.
LEMMA QuietMove ==
    ASSUME TypeOK, QuietInv, NEW t \in Busy, NEW x \in Saver,
           saver' = [saver EXCEPT ![t] = x], overlap' = overlap,
           undone => undone',
           ~overlap /\ ~undone' => Carries(t)' /\ (x.pc = "idle" => Rests')
    PROVE  QuietInv'
<1>1. t \in Savers /\ saver'[t] = x /\ \A u \in Savers \ {t} : saver'[u] = saver[u]
  BY DEF TypeOK, Busy
<1>2. ASSUME ~overlap PROVE \A u \in Savers \ {t} : saver'[u].pc = "idle"
  BY <1>1, <1>2 DEF QuietInv, Busy
<1>3. ~overlap' => \A u, v \in Busy' : u = v
  BY <1>2 DEF Busy
<1>4. ASSUME ~overlap', ~undone' PROVE (\A u \in Savers : Carries(u)') /\ (Busy' = {} => Rests')
  <2>1. ASSUME NEW u \in Savers PROVE Carries(u)'
    <3>1. CASE u = t
      BY <1>4, <3>1
    <3>2. CASE u # t
      BY <1>2, <1>4, <3>2 DEF Carries
    <3> QED
      BY <3>1, <3>2
  <2>2. Busy' = {} => x.pc = "idle"
    BY <1>1 DEF Busy
  <2> QED
    BY <1>4, <2>1, <2>2
<1> QED
  BY <1>3, <1>4 DEF QuietInv

\* What a busy saver carries when no other has been met.
LEMMA QuietCarries ==
    ASSUME QuietInv, NEW t \in Savers, ~overlap, ~undone
    PROVE  Carries(t)
<1> QED
  BY DEF QuietInv

-----------------------------------------------------------------------------
(* Steps of a save before the lock *)

\* A save begins, alone or beside others.
LEMMA SaveKeeps ==
    ASSUME IInv, NEW t \in Savers, Save(t) PROVE IInv'
<1> USE DEF IInv
<1>1. PICK cfg \in Configs :
          saver' = [saver EXCEPT ![t] = [Idle EXCEPT !.pc = "save", !.cfg = cfg]]
  BY DEF Save
<1> DEFINE x == [Idle EXCEPT !.pc = "save", !.cfg = cfg]
<1>2. x \in Saver /\ x.pc = "save" /\ x.cfg = cfg /\ x.fresh = {}
  BY DEF Idle, Saver
<1>3. saver' = [saver EXCEPT ![t] = x] /\ saver[t].pc = "idle"
  BY <1>1 DEF Save
<1> HIDE DEF x
<1>4. /\ UNCHANGED <<stored, settings, mgr, listeners, listener, statuses, writers,
                     worker, messages, faults>>
      /\ overlap' = (Busy # {}) /\ undone' = (undone /\ Busy # {})
      /\ saves' \in 0 .. MaxSaves
  BY BoundsAssumption DEF Save, TypeOK
<1>5. TypeOK'
  <2>1. saver' \in [Savers -> Saver] /\ {overlap, undone}' \subseteq BOOLEAN
    BY <1>2, <1>3, <1>4 DEF TypeOK
  <2> QED
    BY <2>1, <1>4 DEF TypeOK
<1>6. LockInv' /\ ListenersInv' /\ FreshInv' /\ UpdatedInv' /\ ServedInv' /\ WorkInv'
  BY <1>2, <1>3, <1>4, EarlyMove DEF Early
<1>7. RoutedInv'
  BY <1>4, RoutedMove
<1>8. QuietInv'
  <2>1. saver'[t] = x /\ \A u \in Savers \ {t} : saver'[u] = saver[u]
    BY <1>3 DEF TypeOK
  <2>2. t \in Busy'
    BY <2>1, <1>2 DEF Busy
  <2>3. ASSUME ~overlap' PROVE \A u \in Savers \ {t} : saver'[u].pc = "idle"
    BY <2>1, <2>3, <1>4 DEF Busy
  <2>4. ~overlap' => \A u, v \in Busy' : u = v
    BY <2>3 DEF Busy
  <2>5. ASSUME ~overlap', NEW u \in Savers PROVE Carries(u)'
    <3>1. saver'[u].pc \in {"idle", "save"}
      BY <2>1, <2>3, <2>5, <1>2
    <3> QED
      BY <3>1 DEF Carries
  <2> QED
    BY <2>2, <2>4, <2>5 DEF QuietInv
<1> QED
  BY <1>5, <1>6, <1>7, <1>8

\* The sources are stored, or the database fails.
LEMMA StoreKeeps ==
    ASSUME IInv, NEW t \in Savers, Store(t) PROVE IInv'
<1> USE DEF IInv
<1>1. saver[t] \in Saver /\ saver[t].pc = "save" /\ saver[t].cfg \in Configs
      /\ saver[t].fresh = {} /\ t \in Busy
  BY DEF Store, TypeOK, UpdatedInv, FreshInv, Early, Busy
<1>2. UNCHANGED <<settings, overlap, saves, mgr, listeners, listener, statuses, writers,
                  worker, messages>>
  BY DEF Store
<1>3. PICK x \in Saver :
          /\ saver' = [saver EXCEPT ![t] = x] /\ x.fresh = {}
          /\ faults' \in 0 .. MaxFaults
          /\ \/ /\ x.pc = "memory" /\ x.cfg = saver[t].cfg /\ stored' = saver[t].cfg
                /\ UNCHANGED undone
             \/ x.pc = "idle" /\ undone' = TRUE /\ UNCHANGED stored
  <2>1. CASE stored' = saver[t].cfg /\ saver' = [saver EXCEPT ![t].pc = "memory"]
             /\ UNCHANGED <<undone, faults>>
    <3> DEFINE x == [saver[t] EXCEPT !.pc = "memory"]
    <3>1. x \in Saver /\ x.fresh = {} /\ x.pc = "memory" /\ x.cfg = saver[t].cfg
      BY <1>1 DEF Saver
    <3>2. saver' = [saver EXCEPT ![t] = x]
      BY <2>1
    <3> HIDE DEF x
    <3>3. faults' \in 0 .. MaxFaults
      BY <2>1 DEF TypeOK
    <3> QED
      BY <3>1, <3>2, <3>3, <2>1
  <2>2. CASE Fault /\ undone' = TRUE /\ saver' = [saver EXCEPT ![t] = Idle]
             /\ UNCHANGED stored
    <3>1. Idle \in Saver /\ Idle.fresh = {} /\ Idle.pc = "idle"
      BY DEF Idle, Saver
    <3>2. faults' \in 0 .. MaxFaults
      BY <2>2, BoundsAssumption DEF TypeOK, Fault
    <3> QED
      BY <3>1, <3>2, <2>2
  <2> QED
    BY <2>1, <2>2 DEF Store
<1>4. TypeOK'
  <2>1. saver' \in [Savers -> Saver] /\ {stored, settings}' \subseteq Configs
        /\ {overlap, undone}' \subseteq BOOLEAN
    BY <1>1, <1>2, <1>3 DEF TypeOK
  <2> QED
    BY <2>1, <1>2, <1>3 DEF TypeOK
<1>5. LockInv' /\ ListenersInv' /\ FreshInv' /\ UpdatedInv' /\ ServedInv' /\ WorkInv'
  BY <1>1, <1>2, <1>3, EarlyMove DEF Early
<1>6. RoutedInv'
  BY <1>2, RoutedMove
<1>7. QuietInv'
  <2>1. saver'[t] = x
    BY <1>3 DEF TypeOK
  <2>2. ~undone' => Carries(t)'
    BY <1>3, <2>1 DEF Carries
  <2>3. (undone => undone') /\ (x.pc = "idle" => undone')
    BY <1>3
  <2>4. ~overlap /\ ~undone' => Carries(t)' /\ (x.pc = "idle" => Rests')
    BY <2>2, <2>3
  <2> QED
    BY <1>1, <1>2, <1>3, <2>3, <2>4, QuietMove
<1> QED
  BY <1>4, <1>5, <1>6, <1>7

\* The memory has what the database has, when no other save was met.
LEMMA ApplyInMemoryKeeps ==
    ASSUME IInv, NEW t \in Savers, ApplyInMemory(t) PROVE IInv'
<1> USE DEF IInv
<1>1. saver[t] \in Saver /\ saver[t].pc = "memory" /\ saver[t].cfg \in Configs /\ t \in Busy
  BY DEF ApplyInMemory, TypeOK, UpdatedInv, Busy
<1>2. UNCHANGED <<stored, overlap, undone, saves, mgr, listeners, listener, statuses,
                  writers, worker, messages, faults>> /\ settings' = saver[t].cfg
  BY DEF ApplyInMemory
<1> DEFINE x == [Idle EXCEPT !.pc = "read"]
<1>3. x \in Saver /\ x.pc = "read" /\ x.fresh = {}
  BY DEF Idle, Saver
<1>4. saver' = [saver EXCEPT ![t] = x]
  BY DEF ApplyInMemory
<1> HIDE DEF x
<1>5. TypeOK'
  <2>1. saver' \in [Savers -> Saver]
    BY <1>3, <1>4 DEF TypeOK
  <2> QED
    BY <2>1, <1>1, <1>2 DEF TypeOK
<1>6. LockInv' /\ ListenersInv' /\ FreshInv' /\ UpdatedInv' /\ ServedInv' /\ WorkInv'
  BY <1>1, <1>2, <1>3, <1>4, EarlyMove DEF Early
<1>7. RoutedInv'
  BY <1>2, RoutedMove
<1>8. QuietInv'
  <2>1. saver'[t] = x
    BY <1>4 DEF TypeOK
  <2>2. ~overlap /\ ~undone => Carries(t)'
    BY <1>1, <1>2, <1>3, <2>1, QuietCarries DEF Carries
  <2> QED
    BY <1>1, <1>2, <1>3, <1>4, <2>2, QuietMove
<1> QED
  BY <1>5, <1>6, <1>7, <1>8

\* The configuration to apply is the one in memory.
LEMMA CurrentLogSourcesKeeps ==
    ASSUME IInv, NEW t \in Savers, CurrentLogSources(t) PROVE IInv'
<1> USE DEF IInv
<1>1. saver[t] \in Saver /\ saver[t].pc = "read" /\ t \in Busy /\ saver[t].fresh = {}
  BY DEF CurrentLogSources, TypeOK, Busy, FreshInv, Early
<1>2. UNCHANGED <<saved, mgr, listeners, listener, statuses, writers, worker, messages,
                  faults>>
  BY DEF CurrentLogSources
<1> DEFINE x == [saver[t] EXCEPT !.pc = "build", !.cfg = settings]
<1>3. x \in Saver /\ x.pc = "build" /\ x.fresh = {} /\ x.cfg = settings
  BY <1>1 DEF Saver, TypeOK
<1>4. saver' = [saver EXCEPT ![t] = x]
  BY DEF CurrentLogSources, TypeOK
<1> HIDE DEF x
<1>5. TypeOK'
  <2>1. saver' \in [Savers -> Saver]
    BY <1>3, <1>4 DEF TypeOK
  <2> QED
    BY <2>1, <1>1, <1>2 DEF TypeOK, saved
<1>6. LockInv' /\ ListenersInv' /\ FreshInv' /\ UpdatedInv' /\ ServedInv' /\ WorkInv'
  BY <1>1, <1>2, <1>3, <1>4, EarlyMove DEF Early
<1>7. RoutedInv'
  BY <1>2, RoutedMove
<1>8. QuietInv'
  <2>1. saver'[t] = x
    BY <1>4 DEF TypeOK
  <2>2. ~overlap /\ ~undone => Carries(t)'
    BY <1>1, <1>2, <1>3, <2>1, QuietCarries DEF Carries, saved
  <2> QED
    BY <1>1, <1>2, <1>3, <1>4, <2>2, QuietMove DEF saved
<1> QED
  BY <1>5, <1>6, <1>7, <1>8

\* A configuration that fails marks sources as not running and goes no further.
LEMMA FailureKeeps ==
    ASSUME IInv, NEW t \in Savers, Unbuildable(t) \/ OpenFails(t) PROVE IInv'
<1> USE DEF IInv
<1>1. saver[t] \in Saver /\ saver[t].pc = "build" /\ t \in Busy
  BY DEF Unbuildable, OpenFails, Built, TypeOK, Busy
<1>2. /\ UNCHANGED <<stored, settings, overlap, saves, mgr, listeners, listener, writers,
                     worker, messages>>
      /\ undone' = TRUE /\ saver' = [saver EXCEPT ![t] = Idle]
  BY DEF Unbuildable, OpenFails
<1>3. Idle \in Saver /\ Idle.pc = "idle" /\ Idle.fresh = {}
  BY DEF Idle, Saver
<1>4. faults' \in 0 .. MaxFaults
  <2>1. Fault \/ UNCHANGED faults
    BY DEF Unbuildable, OpenFails
  <2> QED
    BY <2>1, BoundsAssumption DEF Fault, TypeOK
<1>5. PICK table : MarkFailed(table)
  BY DEF Unbuildable, OpenFails
<1>6. NewStatus \in Status /\ ~NewStatus.running
  BY DEF NewStatus, Status
<1>7. /\ statuses' \in [Ids -> Status \cup {None}]
      /\ \A i \in Ids : statuses'[i] # None /\ statuses'[i].running
                        => statuses[i] # None /\ statuses[i].running
  BY <1>5, <1>6 DEF MarkFailed, TypeOK
<1>8. TypeOK'
  <2>1. saver' \in [Savers -> Saver] /\ {overlap, undone}' \subseteq BOOLEAN
    BY <1>2, <1>3 DEF TypeOK
  <2> QED
    BY <2>1, <1>2, <1>4, <1>7 DEF TypeOK
<1>9. LockInv' /\ ListenersInv' /\ FreshInv' /\ UpdatedInv' /\ ServedInv' /\ WorkInv'
  BY <1>1, <1>2, <1>3, EarlyMove DEF Early
<1>10. RoutedInv'
  BY <1>2, <1>7, RoutedMove
<1>11. QuietInv'
  BY <1>1, <1>2, <1>3, QuietMove
<1> QED
  BY <1>8, <1>9, <1>10, <1>11

-----------------------------------------------------------------------------
(* Steps of a save under the lock *)

\* What Open does: a new listener, with the routes of the configuration, for
\* each endpoint without one; the others are left to update.
LEMMA OpenFacts ==
    ASSUME TypeOK, NEW t \in Savers, Open(t)
    PROVE  \E x \in Saver :
        /\ saver' = [saver EXCEPT ![t] = x]
        /\ x.pc = "routes" /\ x.cfg = saver[t].cfg /\ x.fresh \subseteq Unused
        /\ x.todo = {listeners[e] : e \in Grouped(saver[t].cfg) \ Fresh(t)}
        /\ listener' \in [Listeners -> ListenerState]
        /\ \A l \in Listeners \ x.fresh : listener'[l] = listener[l]
        /\ \A l \in x.fresh :
              /\ listener'[l].bound /\ ~listener'[l].closed /\ listener'[l].ep \in Fresh(t)
              /\ listener'[l].routes = Group(saver[t].cfg, listener'[l].ep)
        /\ \A e \in Fresh(t) : \E l \in x.fresh : listener'[l].ep = e
<1>1. saver[t] \in Saver /\ saver[t].cfg \in Configs \cup {{}} /\ saver[t].pc = "build"
  BY DEF TypeOK, Saver, Open, Built
<1>2. PICK new \in NewListeners(t) :
        /\ listener' = [l \in Listeners |->
                IF \E e \in Fresh(t) : new[e] = l
                THEN [NoListener EXCEPT !.ep = CHOOSE e \in Fresh(t) : new[e] = l,
                        !.bound = TRUE,
                        !.routes = Group(saver[t].cfg, CHOOSE e \in Fresh(t) : new[e] = l)]
                ELSE listener[l]]
        /\ saver' = [saver EXCEPT ![t].pc = "routes",
                ![t].fresh = {new[e] : e \in Fresh(t)},
                ![t].todo = {listeners[e] : e \in Grouped(saver[t].cfg) \ Fresh(t)}]
  <2> DEFINE new == CHOOSE f \in NewListeners(t) : TRUE
  <2>1. new \in NewListeners(t)
    BY DEF Open
  <2>2. /\ listener' = [l \in Listeners |->
                IF \E e \in Fresh(t) : new[e] = l
                THEN [NoListener EXCEPT !.ep = CHOOSE e \in Fresh(t) : new[e] = l,
                        !.bound = TRUE,
                        !.routes = Group(saver[t].cfg, CHOOSE e \in Fresh(t) : new[e] = l)]
                ELSE listener[l]]
        /\ saver' = [saver EXCEPT ![t].pc = "routes",
                ![t].fresh = {new[e] : e \in Fresh(t)},
                ![t].todo = {listeners[e] : e \in Grouped(saver[t].cfg) \ Fresh(t)}]
    BY DEF Open
  <2> HIDE DEF new
  <2> QED
    BY <2>1, <2>2
<1>3. new \in [Fresh(t) -> Unused] /\ \A a, b \in Fresh(t) : new[a] = new[b] => a = b
  BY DEF NewListeners, IsInjective
<1>4. Fresh(t) \subseteq Endpoints /\ Grouped(saver[t].cfg) \subseteq Endpoints
  BY <1>1, GroupsAreTyped DEF Fresh
<1>5. Unused \subseteq Listeners
  BY DEF Unused
<1> DEFINE fresh == {new[e] : e \in Fresh(t)}
           todo  == {listeners[e] : e \in Grouped(saver[t].cfg) \ Fresh(t)}
           x     == [saver[t] EXCEPT !.pc = "routes", !.fresh = fresh, !.todo = todo]
<1>6. fresh \subseteq Unused
  BY <1>3
<1>7. todo \subseteq Listeners
  <2>1. ASSUME NEW e \in Grouped(saver[t].cfg) \ Fresh(t) PROVE listeners[e] \in Listeners
    BY <1>4, <2>1 DEF TypeOK, Fresh
  <2> QED
    BY <2>1
<1>8. x \in Saver /\ x.pc = "routes" /\ x.cfg = saver[t].cfg /\ x.fresh = fresh
      /\ x.todo = todo
  <2> HIDE DEF fresh, todo
  <2> QED
    BY <1>1, <1>5, <1>6, <1>7 DEF Saver
<1>9. saver' = [saver EXCEPT ![t] = x]
  BY <1>2 DEF TypeOK
<1>10. ASSUME NEW e \in Fresh(t)
       PROVE  /\ listener'[new[e]] = [NoListener EXCEPT !.ep = e, !.bound = TRUE,
                                          !.routes = Group(saver[t].cfg, e)]
              /\ new[e] \in Listeners
  <2>1. new[e] \in Listeners
    BY <1>3, <1>5
  <2>2. (CHOOSE d \in Fresh(t) : new[d] = new[e]) = e
    BY <1>3
  <2> QED
    BY <1>2, <2>1, <2>2
<1>11. ASSUME NEW e \in Fresh(t)
       PROVE  /\ listener'[new[e]] \in ListenerState
              /\ listener'[new[e]].bound /\ ~listener'[new[e]].closed
              /\ listener'[new[e]].ep = e
              /\ listener'[new[e]].routes = Group(saver[t].cfg, e)
  <2>1. Group(saver[t].cfg, e) \in SUBSET UNION Configs /\ e \in Endpoints
    BY <1>1, <1>4, GroupsAreTyped
  <2> QED
    BY <1>10, <2>1 DEF NoListener, ListenerState
<1>12. \A l \in Listeners \ fresh : listener'[l] = listener[l]
  BY <1>2
<1>13. listener' \in [Listeners -> ListenerState]
  <2>1. ASSUME NEW l \in Listeners PROVE listener'[l] \in ListenerState
    <3>1. CASE l \in fresh
      BY <3>1, <1>11
    <3>2. CASE l \notin fresh
      BY <3>2, <1>12 DEF TypeOK
    <3> QED
      BY <3>1, <3>2
  <2> QED
    BY <1>2, <2>1
<1>14. \A l \in x.fresh :
          /\ listener'[l].bound /\ ~listener'[l].closed /\ listener'[l].ep \in Fresh(t)
          /\ listener'[l].routes = Group(saver[t].cfg, listener'[l].ep)
  <2>1. \A l \in fresh : \E e \in Fresh(t) : l = new[e]
    OBVIOUS
  <2> HIDE DEF x, fresh
  <2> QED
    BY <1>8, <1>11, <2>1
<1>15. \A e \in Fresh(t) : \E l \in x.fresh : listener'[l].ep = e
  <2>1. \A e \in Fresh(t) : new[e] \in fresh
    OBVIOUS
  <2> HIDE DEF x, fresh
  <2> QED
    BY <1>8, <1>11, <2>1
<1>16. /\ x.fresh \subseteq Unused
       /\ x.todo = {listeners[e] : e \in Grouped(saver[t].cfg) \ Fresh(t)}
       /\ \A l \in Listeners \ x.fresh : listener'[l] = listener[l]
  BY <1>6, <1>8, <1>12
<1> HIDE DEF x
<1> QED
  BY <1>8, <1>9, <1>13, <1>14, <1>15, <1>16

\* New sockets are open, and their saver has the lock.
LEMMA OpenKeeps ==
    ASSUME IInv, NEW t \in Savers, Open(t) PROVE IInv'
<1> USE DEF IInv
<1>1. PICK x \in Saver :
        /\ saver' = [saver EXCEPT ![t] = x]
        /\ x.pc = "routes" /\ x.cfg = saver[t].cfg /\ x.fresh \subseteq Unused
        /\ x.todo = {listeners[e] : e \in Grouped(saver[t].cfg) \ Fresh(t)}
        /\ listener' \in [Listeners -> ListenerState]
        /\ \A l \in Listeners \ x.fresh : listener'[l] = listener[l]
        /\ \A l \in x.fresh :
              /\ listener'[l].bound /\ ~listener'[l].closed /\ listener'[l].ep \in Fresh(t)
              /\ listener'[l].routes = Group(saver[t].cfg, listener'[l].ep)
        /\ \A e \in Fresh(t) : \E l \in x.fresh : listener'[l].ep = e
  BY OpenFacts
<1>2. saver[t].pc = "build" /\ mgr = None /\ mgr' = t /\ t \in Busy /\ saver[t].fresh = {}
      /\ None \notin Savers /\ None \notin Listeners
  BY NoneAssumption DEF Open, Built, Busy, FreshInv, Early
<1>3. UNCHANGED <<saved, listeners, statuses, writers, worker, messages, faults>>
  BY DEF Open
<1>4. saver'[t] = x /\ \A u \in Savers \ {t} : saver'[u] = saver[u]
  BY <1>1 DEF TypeOK
<1>5. \A u \in Savers : saver[u].pc # "routes"
  BY <1>2 DEF LockInv
<1>6. \A l \in x.fresh : l \in Listeners /\ ~listener[l].bound /\ AtWork(l) = {}
                         /\ \A u \in Savers : l \notin saver[u].todo
  BY <1>1 DEF Unused, Bound
<1>7. \A e \in Endpoints : listeners[e] # None =>
          listeners[e] \in Listeners /\ listeners[e] \notin x.fresh
  BY <1>6 DEF ListenersInv, TypeOK
<1>8. TypeOK'
  <2>1. saver' \in [Savers -> Saver] /\ mgr' \in Savers \cup {None}
    BY <1>1, <1>2 DEF TypeOK
  <2> QED
    BY <2>1, <1>1, <1>3 DEF TypeOK, saved
<1>9. LockInv'
  BY <1>1, <1>2, <1>4, <1>5 DEF LockInv
<1>10. ListenersInv'
  <2>1. \A e \in Endpoints : listeners[e] # None => listener'[listeners[e]] = listener[listeners[e]]
    BY <1>1, <1>7
  <2>2. ASSUME NEW l \in Listeners, listener'[l].closed PROVE ~listener'[l].bound
    <3>1. l \notin x.fresh
      BY <1>1, <2>2
    <3> QED
      BY <1>1, <2>2, <3>1 DEF ListenersInv
  <2>3. ASSUME NEW u \in Savers, Closing(u)', NEW l \in saver'[u].todo PROVE ~Current(l)'
    <3>1. u # t
      BY <1>1, <1>4, <2>3 DEF Closing
    <3> QED
      BY <1>3, <1>4, <2>3, <3>1 DEF ListenersInv, Closing, Current
  <2> QED
    BY <1>3, <2>1, <2>2, <2>3 DEF ListenersInv
<1>11. FreshInv'
  <2>1. ASSUME NEW u \in Savers \ {t}
        PROVE  saver'[u].pc # "routes" /\ (saver'[u].pc \in Early => saver'[u].fresh = {})
    BY <1>4, <1>5 DEF FreshInv
  <2>2. Fresh(t)' = Fresh(t)
    BY <1>1, <1>3, <1>4 DEF Fresh
  <2>3. ASSUME NEW l \in x.fresh, NEW u \in Savers, Closing(u)' PROVE l \notin saver'[u].todo
    <3>1. u # t
      BY <1>1, <1>4, <2>3 DEF Closing
    <3> QED
      BY <1>4, <1>6, <3>1
  <2> QED
    BY <1>1, <1>4, <2>1, <2>2, <2>3 DEF FreshInv, Early
<1>12. UpdatedInv'
  <2>1. Fresh(t)' = Fresh(t)
    BY <1>1, <1>3, <1>4 DEF Fresh
  <2>2. \A e \in Grouped(x.cfg) \ Fresh(t) : listeners[e] \in x.todo
    BY <1>1
  <2>3. ASSUME NEW u \in Savers \ {t}
        PROVE  saver'[u].pc # "routes"
               /\ (saver'[u].pc \in {"save", "memory"} => saver'[u].cfg \in Configs)
    BY <1>4, <1>5 DEF UpdatedInv
  <2> QED
    BY <1>1, <1>3, <1>4, <2>1, <2>2, <2>3 DEF UpdatedInv
<1>13. RoutedInv'
  BY <1>2 DEF RoutedInv
<1>14. ServedInv'
  <2>1. ASSUME NEW e \in Endpoints, listeners[e] # None
        PROVE  \/ listener'[listeners[e]].serving
               \/ \E u \in Savers : listeners[e] \in saver'[u].fresh
    <3>1. CASE listener[listeners[e]].serving
      BY <1>1, <1>7, <2>1, <3>1
    <3>2. CASE \E u \in Savers : listeners[e] \in saver[u].fresh
      BY <1>2, <1>4, <3>2
    <3> QED
      BY <2>1, <3>1, <3>2 DEF ServedInv
  <2> QED
    BY <1>3, <2>1 DEF ServedInv
<1>15. WorkInv'
  <2>1. ASSUME NEW w \in Workers PROVE Orderly(worker[w])'
    <3>1. Orderly(worker[w]) /\ worker[w] \in WorkerState
      BY DEF WorkInv, TypeOK
    <3>2. worker[w].at # None => listener'[worker[w].at] = listener[worker[w].at]
      <4>1. SUFFICES ASSUME worker[w].at # None PROVE worker[w].at \in Listeners \ x.fresh
        BY <1>1
      <4>2. worker[w].at \in Listeners
        BY <3>1, <4>1 DEF WorkerState
      <4> QED
        BY <1>6, <4>2 DEF AtWork
    <3> QED
      BY <1>3, <3>1, <3>2 DEF Orderly, Udp
  <2> QED
    BY <2>1, <1>3 DEF WorkInv
<1>16. QuietInv'
  <2>1. ~overlap /\ ~undone' => Carries(t)'
    BY <1>1, <1>2, <1>3, <1>4, QuietCarries DEF Carries, saved
  <2>2. (undone => undone') /\ overlap' = overlap
    BY <1>3 DEF saved
  <2> QED
    BY <1>1, <1>2, <2>1, <2>2, QuietMove
<1> QED
  BY <1>8, <1>9, <1>10, <1>11, <1>12, <1>13, <1>14, <1>15, <1>16

\* A listener is on its way from those left to update to updated.
LEMMA RequestRoutesKeeps ==
    ASSUME IInv, NEW t \in Savers, RequestRoutes(t) PROVE IInv'
<1> USE DEF IInv
<1>1. saver[t] \in Saver /\ saver[t].pc = "routes" /\ saver[t].at = None /\ t \in Busy
  BY DEF RequestRoutes, TypeOK, Busy
<1>2. PICK l \in saver[t].todo :
          saver' = [saver EXCEPT ![t].at = l, ![t].todo = saver[t].todo \ {l}]
  BY <1>1 DEF RequestRoutes, TypeOK
<1>3. UNCHANGED <<saved, mgr, listeners, listener, statuses, writers, worker, messages,
                  faults>>
  BY DEF RequestRoutes
<1> DEFINE x == [saver[t] EXCEPT !.at = l, !.todo = saver[t].todo \ {l}]
<1>4. /\ x \in Saver /\ x.pc = "routes" /\ x.cfg = saver[t].cfg /\ x.fresh = saver[t].fresh
      /\ x.at = l /\ x.todo = saver[t].todo \ {l}
  BY <1>1 DEF Saver
<1>5. saver' = [saver EXCEPT ![t] = x]
  BY <1>2 DEF TypeOK
<1> HIDE DEF x
<1>6. saver'[t] = x /\ \A u \in Savers \ {t} : saver'[u] = saver[u]
  BY <1>5 DEF TypeOK
<1>7. TypeOK'
  <2>1. saver' \in [Savers -> Saver]
    BY <1>4, <1>5 DEF TypeOK
  <2> QED
    BY <2>1, <1>3 DEF TypeOK, saved
<1>8. LockInv'
  BY <1>1, <1>3, <1>4, <1>6 DEF LockInv
<1>9. ListenersInv'
  BY <1>3, <1>4, <1>6 DEF ListenersInv, Closing, Current
<1>10. Fresh(t)' = Fresh(t) /\ \A u \in Savers \ {t} : Fresh(u)' = Fresh(u)
  BY <1>3, <1>4, <1>6 DEF Fresh
<1>11. FreshInv'
  BY <1>1, <1>3, <1>4, <1>6, <1>10 DEF FreshInv, Early, Closing
<1>12. UpdatedInv'
  <2>1. \A e \in Grouped(x.cfg) \ Fresh(t)' :
            \/ listeners'[e] \in x.todo \cup {x.at}
            \/ listener'[listeners'[e]].routes = Group(x.cfg, e)
    <3>1. Grouped(x.cfg) \subseteq Endpoints
      BY <1>1, <1>4, GroupsAreTyped DEF Saver
    <3>2. \A e \in Grouped(x.cfg) \ Fresh(t) : listeners[e] # None
      BY <1>4, <3>1 DEF Fresh
    <3> QED
      BY <1>1, <1>3, <1>4, <1>10, <3>2 DEF UpdatedInv
  <2>2. ASSUME NEW u \in Savers \ {t}
        PROVE  /\ saver'[u].pc \in {"save", "memory"} => saver'[u].cfg \in Configs
               /\ saver'[u].pc # "routes"
    BY <1>1, <1>3, <1>6 DEF UpdatedInv, LockInv
  <2> QED
    BY <1>1, <1>4, <1>6, <2>1, <2>2 DEF UpdatedInv
<1>13. RoutedInv'
  BY <1>3, RoutedMove
<1>14. ServedInv'
  <2>1. \A u \in Savers : saver'[u].fresh = saver[u].fresh
    BY <1>4, <1>6
  <2> QED
    BY <1>3, <2>1 DEF ServedInv
<1>15. WorkInv'
  BY <1>3 DEF WorkInv, Orderly, Udp
<1>16. QuietInv'
  <2>1. ~overlap /\ ~undone => Carries(t)'
    BY <1>1, <1>3, <1>4, <1>6, QuietCarries DEF Carries, saved
  <2>2. undone' = undone /\ overlap' = overlap
    BY <1>3 DEF saved
  <2> QED
    BY <1>1, <1>4, <1>5, <2>1, <2>2, QuietMove
<1> QED
  BY <1>7, <1>8, <1>9, <1>11, <1>12, <1>13, <1>14, <1>15, <1>16

\* A listener gets the routes of its endpoint; no message reads them then.
LEMMA UpdateRoutesKeeps ==
    ASSUME IInv, NEW t \in Savers, UpdateRoutes(t) PROVE IInv'
<1> USE DEF IInv
<1> DEFINE l == saver[t].at
<1>1. /\ saver[t] \in Saver /\ saver[t].pc = "routes" /\ t \in Busy /\ mgr = t
      /\ l \in Listeners /\ saver[t].cfg \in Configs \cup {{}} /\ None \notin Savers
  BY NoneAssumption DEF UpdateRoutes, TypeOK, Busy, LockInv, Saver
<1>2. UNCHANGED <<saved, mgr, listeners, statuses, writers, worker, messages, faults>>
  BY DEF UpdateRoutes
<1> DEFINE x == [saver[t] EXCEPT !.at = None]
           y == [listener[l] EXCEPT !.routes = Group(saver[t].cfg, listener[l].ep)]
<1>3. /\ x \in Saver /\ x.pc = "routes" /\ x.cfg = saver[t].cfg /\ x.fresh = saver[t].fresh
      /\ x.at = None /\ x.todo = saver[t].todo
  BY <1>1 DEF Saver
<1>4. /\ y \in ListenerState /\ y.ep = listener[l].ep /\ y.bound = listener[l].bound
      /\ y.serving = listener[l].serving /\ y.closed = listener[l].closed
      /\ y.routes = Group(saver[t].cfg, listener[l].ep)
  <2>1. Group(saver[t].cfg, listener[l].ep) \in SUBSET UNION Configs
    BY <1>1, GroupsAreTyped
  <2>2. listener[l] \in ListenerState
    BY <1>1 DEF TypeOK
  <2> QED
    BY <2>1, <2>2 DEF ListenerState
<1>5. saver' = [saver EXCEPT ![t] = x] /\ listener' = [listener EXCEPT ![l] = y]
  BY DEF UpdateRoutes, TypeOK
<1> HIDE DEF x, y
<1>6. /\ saver'[t] = x /\ \A u \in Savers \ {t} : saver'[u] = saver[u]
      /\ listener'[l] = y /\ \A k \in Listeners \ {l} : listener'[k] = listener[k]
  BY <1>1, <1>5 DEF TypeOK
<1>7. \A k \in Listeners : /\ listener'[k].ep = listener[k].ep
                           /\ listener'[k].bound = listener[k].bound
                           /\ listener'[k].serving = listener[k].serving
                           /\ listener'[k].closed = listener[k].closed
  BY <1>4, <1>6
<1>8. TypeOK'
  <2>1. saver' \in [Savers -> Saver] /\ listener' \in [Listeners -> ListenerState]
    BY <1>1, <1>3, <1>4, <1>5 DEF TypeOK
  <2> QED
    BY <2>1, <1>2 DEF TypeOK, saved
<1>9. LockInv'
  BY <1>1, <1>2, <1>3, <1>6 DEF LockInv
<1>10. \A e \in Endpoints : listeners[e] \in Listeners \cup {None}
  BY DEF TypeOK
<1>11. ListenersInv'
  <2>1. \A e \in Endpoints : listeners'[e] # None =>
            listener'[listeners'[e]].ep = e /\ listener'[listeners'[e]].bound
    BY <1>2, <1>7, <1>10 DEF ListenersInv
  <2>2. \A k \in Listeners : listener'[k].closed => ~listener'[k].bound
    BY <1>7 DEF ListenersInv
  <2>3. \A u \in Savers : Closing(u)' => \A k \in saver'[u].todo : ~Current(k)'
    BY <1>2, <1>3, <1>6 DEF ListenersInv, Closing, Current
  <2> QED
    BY <2>1, <2>2, <2>3 DEF ListenersInv
<1>12. \A u \in Savers : Fresh(u)' = Fresh(u)
  BY <1>2, <1>3, <1>6 DEF Fresh
<1>13. \A u \in Savers \ {t} : saver[u].pc # "routes"
  BY <1>1 DEF LockInv
<1>14. FreshInv'
  <2>1. ASSUME NEW k \in x.fresh
        PROVE  /\ listener'[k].bound /\ listener'[k].ep \in Fresh(t)
               /\ listener'[k].routes = Group(x.cfg, listener'[k].ep)
               /\ \A u \in Savers : Closing(u)' => k \notin saver'[u].todo
    <3>1. k \in Listeners /\ k \in saver[t].fresh
      BY <1>3 DEF Saver
    <3>2. /\ listener[k].bound /\ listener[k].ep \in Fresh(t)
          /\ listener[k].routes = Group(saver[t].cfg, listener[k].ep)
          /\ \A u \in Savers : Closing(u) => k \notin saver[u].todo
      BY <1>1, <3>1 DEF FreshInv
    <3>3. listener'[k].routes = Group(x.cfg, listener'[k].ep)
      BY <1>3, <1>4, <1>6, <3>1, <3>2
    <3>4. \A u \in Savers : Closing(u)' => k \notin saver'[u].todo
      BY <1>3, <1>6, <3>2 DEF Closing
    <3> QED
      BY <1>7, <3>1, <3>2, <3>3, <3>4
  <2>2. \A e \in Fresh(t) : \E k \in x.fresh : listener'[k].ep = e
    <3>1. \A e \in Fresh(t) : \E k \in saver[t].fresh : listener[k].ep = e
      BY <1>1 DEF FreshInv
    <3>2. saver[t].fresh \subseteq Listeners
      BY <1>1 DEF Saver
    <3> QED
      BY <1>3, <1>7, <3>1, <3>2
  <2>3. \A u \in Savers \ {t} : saver'[u].pc # "routes"
                                /\ (saver'[u].pc \in Early => saver'[u].fresh = {})
    BY <1>6, <1>13 DEF FreshInv
  <2> QED
    BY <1>3, <1>6, <1>12, <2>1, <2>2, <2>3 DEF FreshInv, Early
<1>15. UpdatedInv'
  <2>1. ASSUME NEW e \in Grouped(x.cfg) \ Fresh(t), listeners[e] \notin x.todo
        PROVE  listener'[listeners[e]].routes = Group(x.cfg, e)
    <3>1. e \in Endpoints /\ listeners[e] # None /\ listeners[e] \in Listeners
      <4>1. Grouped(x.cfg) \subseteq Endpoints
        BY <1>1, <1>3, GroupsAreTyped
      <4> QED
        BY <1>3, <1>10, <4>1 DEF Fresh
    <3>2. CASE listeners[e] = l
      <4>1. listener[l].ep = e
        BY <3>1, <3>2 DEF ListenersInv
      <4> QED
        BY <1>3, <1>4, <1>6, <3>2, <4>1
    <3>3. CASE listeners[e] # l
      <4>1. listener[listeners[e]].routes = Group(saver[t].cfg, e)
        BY <1>1, <1>3, <2>1, <3>3 DEF UpdatedInv
      <4> QED
        BY <1>3, <1>6, <3>1, <3>3, <4>1
    <3> QED
      BY <3>2, <3>3
  <2>2. ASSUME NEW u \in Savers \ {t}
        PROVE  /\ saver'[u].pc \in {"save", "memory"} => saver'[u].cfg \in Configs
               /\ saver'[u].pc # "routes"
    BY <1>6, <1>13 DEF UpdatedInv
  <2> QED
    BY <1>2, <1>3, <1>6, <1>12, <2>1, <2>2 DEF UpdatedInv
<1>16. RoutedInv'
  BY <1>1, <1>2 DEF RoutedInv
<1>17. ServedInv'
  <2>1. \A u \in Savers : saver'[u].fresh = saver[u].fresh
    BY <1>3, <1>6
  <2> QED
    BY <1>2, <1>7, <1>10, <2>1 DEF ServedInv
<1>18. WorkInv'
  <2>1. ASSUME NEW w \in Workers PROVE Orderly(worker[w])'
    <3>1. Orderly(worker[w]) /\ worker[w] \in WorkerState
      BY DEF WorkInv, TypeOK
    <3>2. worker[w].at \in Listeners \cup {None}
      BY <3>1 DEF WorkerState
    <3>3. Reading(l) = {}
      BY DEF UpdateRoutes
    <3>4. worker[w].st = "writer" => worker[w].at # l
      BY <3>3 DEF Reading, AtWork
    <3>5. ASSUME worker[w].at # None
          PROVE  /\ listener'[worker[w].at].closed = listener[worker[w].at].closed
                 /\ listener'[worker[w].at].ep = listener[worker[w].at].ep
      BY <1>7, <3>2, <3>5
    <3>6. ASSUME worker[w].st = "writer"
          PROVE  listener'[worker[w].at] = listener[worker[w].at]
      <4>1. worker[w].at # None
        BY <3>1, <3>6 DEF Orderly
      <4> QED
        BY <1>6, <3>2, <3>4, <3>6, <4>1
    <3> QED
      BY <1>2, <3>1, <3>5, <3>6 DEF Orderly, Udp
  <2> QED
    BY <2>1, <1>2 DEF WorkInv
<1>19. QuietInv'
  <2>1. ~overlap /\ ~undone => Carries(t)'
    BY <1>1, <1>2, <1>3, <1>6, QuietCarries DEF Carries, saved
  <2>2. undone' = undone /\ overlap' = overlap
    BY <1>2 DEF saved
  <2> QED
    BY <1>1, <1>3, <1>5, <2>1, <2>2, QuietMove
<1> QED
  BY <1>8, <1>9, <1>11, <1>14, <1>15, <1>16, <1>17, <1>18, <1>19

\* What Swap does: each endpoint of the configuration has the listener it had or
\* the one opened for it, with the routes of the configuration; the others
\* have none.
LEMMA SwapFacts ==
    ASSUME TypeOK, ListenersInv, FreshInv, UpdatedInv, NEW t \in Savers, Swap(t)
    PROVE  \A e \in Endpoints :
              /\ e \notin Grouped(saver[t].cfg) => listeners'[e] = None
              /\ e \in Grouped(saver[t].cfg) =>
                    /\ listeners'[e] \in Listeners
                    /\ listener[listeners'[e]].ep = e /\ listener[listeners'[e]].bound
                    /\ listener[listeners'[e]].routes = Group(saver[t].cfg, e)
                    /\ listeners'[e] = listeners[e] \/ listeners'[e] \in saver[t].fresh
<1>1. /\ saver[t].pc = "routes" /\ saver[t].at = None /\ saver[t].todo = {}
      /\ listeners' = NextListeners(t) /\ saver[t].fresh \subseteq Listeners
  BY DEF Swap, TypeOK, Saver
<1>2. ASSUME NEW e \in Endpoints PROVE e \notin Grouped(saver[t].cfg) => listeners'[e] = None
  BY <1>1 DEF NextListeners
<1>3. ASSUME NEW e \in Endpoints, e \in Grouped(saver[t].cfg)
      PROVE  /\ listeners'[e] \in Listeners
             /\ listener[listeners'[e]].ep = e /\ listener[listeners'[e]].bound
             /\ listener[listeners'[e]].routes = Group(saver[t].cfg, e)
             /\ listeners'[e] = listeners[e] \/ listeners'[e] \in saver[t].fresh
  <2>1. CASE listeners[e] # None
    <3>1. listeners'[e] = listeners[e] /\ listeners[e] \in Listeners
      BY <1>1, <1>3, <2>1 DEF NextListeners, TypeOK
    <3>2. e \notin Fresh(t)
      BY <2>1 DEF Fresh
    <3>3. listener[listeners[e]].routes = Group(saver[t].cfg, e)
      BY <1>1, <1>3, <2>1, <3>2 DEF UpdatedInv
    <3> QED
      BY <2>1, <3>1, <3>3 DEF ListenersInv
  <2>2. CASE listeners[e] = None
    <3>1. e \in Fresh(t)
      BY <1>3, <2>2 DEF Fresh
    <3>2. \E l \in saver[t].fresh : listener[l].ep = e
      BY <1>1, <3>1 DEF FreshInv
    <3>3. listeners'[e] = CHOOSE l \in saver[t].fresh : listener[l].ep = e
      BY <1>1, <1>3, <2>2 DEF NextListeners
    <3>4. listeners'[e] \in saver[t].fresh /\ listener[listeners'[e]].ep = e
      BY <3>2, <3>3
    <3> QED
      BY <1>1, <3>4 DEF FreshInv
  <2> QED
    BY <2>1, <2>2
<1> QED
  BY <1>2, <1>3

\* The listeners become those of the configuration, and the lock is given back.
LEMMA SwapKeeps ==
    ASSUME IInv, NEW t \in Savers, Swap(t) PROVE IInv'
<1> USE DEF IInv
<1>0. PICK cfg \in Configs \cup {{}} : cfg = saver[t].cfg
  BY DEF TypeOK, Saver
<1>1. /\ saver[t] \in Saver /\ saver[t].pc = "routes" /\ t \in Busy /\ mgr = t /\ mgr' = None
      /\ None \notin Savers /\ None \notin Listeners
  BY NoneAssumption DEF Swap, TypeOK, Busy, LockInv, Saver
<1>2. UNCHANGED <<saved, listener, writers, worker, messages, faults>>
  BY DEF Swap
<1>3. \A e \in Endpoints :
          /\ e \notin Grouped(cfg) => listeners'[e] = None
          /\ e \in Grouped(cfg) =>
                /\ listeners'[e] \in Listeners
                /\ listener[listeners'[e]].ep = e /\ listener[listeners'[e]].bound
                /\ listener[listeners'[e]].routes = Group(cfg, e)
                /\ listeners'[e] = listeners[e] \/ listeners'[e] \in saver[t].fresh
  BY <1>0, SwapFacts
<1> DEFINE todo == {listeners[e] : e \in {d \in Endpoints \ Grouped(cfg) : listeners[d] # None}}
           x == [saver[t] EXCEPT !.pc = "close", !.todo = todo]
<1>4. todo \subseteq Listeners
  BY DEF TypeOK
<1>5. x \in Saver /\ x.pc = "close" /\ x.cfg = cfg /\ x.fresh = saver[t].fresh /\ x.todo = todo
  <2> HIDE DEF todo
  <2> QED
    BY <1>0, <1>1, <1>4 DEF Saver
<1>6. saver' = [saver EXCEPT ![t] = x]
  BY <1>0 DEF Swap, TypeOK
<1>7. /\ statuses' \in [Ids -> Status \cup {None}]
      /\ \A i \in Ids : statuses'[i] # None => \E s \in Receiving(cfg) : s.id = i
  <2>1. \A i \in Ids : Kept(i) \in Status
    BY DEF Kept, NewStatus, Status, TypeOK
  <2>2. ASSUME NEW i \in Ids PROVE [Kept(i) EXCEPT !.running = TRUE] \in Status
    BY <2>1 DEF Status
  <2>3. statuses' = [i \in Ids |-> IF \A s \in Receiving(cfg) : s.id # i THEN None
                                   ELSE [Kept(i) EXCEPT !.running = TRUE]]
    BY <1>0 DEF Swap
  <2> QED
    BY <2>2, <2>3
<1> HIDE DEF x
<1>8. saver'[t] = x /\ \A u \in Savers \ {t} : saver'[u] = saver[u]
  BY <1>6 DEF TypeOK
<1>9. \A u \in Savers \ {t} : saver[u].pc # "routes"
  BY <1>1 DEF LockInv
<1>10. TypeOK'
  <2>1. saver' \in [Savers -> Saver] /\ listeners' \in [Endpoints -> Listeners \cup {None}]
    <3>1. \A e \in Endpoints : listeners'[e] \in Listeners \cup {None}
      BY <1>3
    <3>2. listeners' = [e \in Endpoints |-> listeners'[e]]
      BY DEF Swap, NextListeners
    <3> QED
      BY <1>5, <1>6, <3>1, <3>2 DEF TypeOK
  <2> QED
    BY <2>1, <1>1, <1>2, <1>7 DEF TypeOK, saved
<1>11. LockInv'
  BY <1>1, <1>5, <1>8, <1>9 DEF LockInv
<1>12. ListenersInv'
  <2>1. \A e \in Endpoints : listeners'[e] # None =>
            listener'[listeners'[e]].ep = e /\ listener'[listeners'[e]].bound
    BY <1>2, <1>3
  <2>2. ASSUME NEW l \in todo PROVE ~Current(l)'
    <3>1. PICK d \in Endpoints \ Grouped(cfg) : listeners[d] = l /\ listeners[d] # None
      OBVIOUS
    <3>2. listener[l].ep = d
      BY <3>1 DEF ListenersInv
    <3>3. ASSUME NEW e \in Endpoints, listeners'[e] = l PROVE FALSE
      BY <1>1, <1>3, <1>4, <3>1, <3>2, <3>3
    <3> QED
      BY <3>3 DEF Current
  <2>3. ASSUME NEW u \in Savers \ {t}, Closing(u), NEW l \in saver[u].todo PROVE ~Current(l)'
    <3>1. ~Current(l) /\ l \notin saver[t].fresh
      BY <1>1, <2>3 DEF ListenersInv, FreshInv
    <3>2. l \in Listeners
      BY <2>3 DEF TypeOK, Saver
    <3>3. ASSUME NEW e \in Endpoints, listeners'[e] = l PROVE FALSE
      BY <1>1, <1>3, <3>1, <3>2, <3>3 DEF Current
    <3> QED
      BY <3>3 DEF Current
  <2>4. \A u \in Savers : Closing(u)' => \A l \in saver'[u].todo : ~Current(l)'
    BY <1>5, <1>8, <2>2, <2>3 DEF Closing
  <2> QED
    BY <1>2, <2>1, <2>4 DEF ListenersInv
<1>13. FreshInv'
  BY <1>5, <1>8, <1>9 DEF FreshInv, Early
<1>14. UpdatedInv'
  BY <1>5, <1>8, <1>9 DEF UpdatedInv
<1>15. Routed(cfg)'
  <2>1. ASSUME NEW e \in Endpoints
        PROVE  IF e \in Grouped(cfg)
               THEN listeners'[e] # None /\ listener'[listeners'[e]].routes = Group(cfg, e)
               ELSE listeners'[e] = None
    BY <1>1, <1>2, <1>3
  <2> QED
    BY <2>1 DEF Routed
<1>16. RoutedInv'
  <2>1. Announced(cfg)'
    BY <1>7 DEF Announced
  <2> QED
    BY <1>15, <2>1 DEF RoutedInv
<1>17. ServedInv'
  <2>1. ASSUME NEW e \in Endpoints, listeners'[e] # None
        PROVE  \/ listener[listeners'[e]].serving
               \/ \E u \in Savers : listeners'[e] \in saver'[u].fresh
    <3>1. \A u \in Savers : saver'[u].fresh = saver[u].fresh
      BY <1>5, <1>8
    <3>2. CASE listeners'[e] \in saver[t].fresh
      BY <3>1, <3>2
    <3>3. CASE listeners'[e] = listeners[e]
      BY <2>1, <3>1, <3>3 DEF ServedInv
    <3> QED
      BY <1>3, <2>1, <3>2, <3>3
  <2> QED
    BY <1>2, <2>1 DEF ServedInv
<1>18. WorkInv'
  BY <1>2 DEF WorkInv, Orderly, Udp
<1>19. QuietInv'
  <2>1. ASSUME ~overlap, ~undone PROVE Carries(t)'
    <3>1. stored = settings /\ settings = cfg
      BY <1>0, <1>1, <2>1, QuietCarries DEF Carries
    <3>2. stored' = settings' /\ settings' = saver'[t].cfg
      BY <1>2, <1>5, <1>8, <3>1 DEF saved
    <3>3. Routed(saver[t].cfg)'
      BY <1>5, <1>8, <1>15
    <3> QED
      BY <1>5, <1>8, <3>2, <3>3 DEF Carries
  <2>2. undone' = undone /\ overlap' = overlap
    BY <1>2 DEF saved
  <2> QED
    BY <1>1, <1>5, <1>6, <2>1, <2>2, QuietMove
<1> QED
  BY <1>10, <1>11, <1>12, <1>13, <1>14, <1>16, <1>17, <1>18, <1>19

-----------------------------------------------------------------------------
(* Steps of a save after the lock *)

Late == {"close", "wait", "writers"}

\* Such a step closes listeners in its own hands at most.
LEMMA LateMove ==
    ASSUME TypeOK, LockInv, ListenersInv, FreshInv, UpdatedInv,
           NEW t \in Savers, NEW x \in Saver, saver' = [saver EXCEPT ![t] = x],
           saver[t].pc \in Late, x.pc \in Late \cup {"idle"},
           x.pc = "idle" => x.fresh = {}, x.todo \subseteq saver[t].todo,
           x.pc \in {"close", "wait"} => Closing(t),
           UNCHANGED <<mgr, listeners>>,
           \A l \in Listeners :
              /\ listener'[l].ep = listener[l].ep /\ listener'[l].routes = listener[l].routes
              /\ \/ /\ listener'[l].bound = listener[l].bound
                    /\ listener'[l].closed = listener[l].closed
                 \/ Closing(t) /\ l \in saver[t].todo /\ ~listener'[l].bound
    PROVE  LockInv' /\ ListenersInv' /\ FreshInv' /\ UpdatedInv'
<1>1. saver'[t] = x /\ \A u \in Savers \ {t} : saver'[u] = saver[u]
  BY DEF TypeOK
<1>2. \A e \in Endpoints : listeners[e] \in Listeners \cup {None}
  BY DEF TypeOK
<1>3. LockInv'
  BY <1>1 DEF LockInv, Late
<1>4. ListenersInv'
  <2>1. ASSUME NEW e \in Endpoints, listeners[e] # None
        PROVE  listener'[listeners[e]].ep = e /\ listener'[listeners[e]].bound
    <3>1. listener[listeners[e]].ep = e /\ listener[listeners[e]].bound
      BY <2>1 DEF ListenersInv
    <3>2. ~(Closing(t) /\ listeners[e] \in saver[t].todo)
      BY DEF ListenersInv, Current
    <3> QED
      BY <1>2, <2>1, <3>1, <3>2
  <2>2. ASSUME NEW l \in Listeners, listener'[l].closed PROVE ~listener'[l].bound
    BY <2>2 DEF ListenersInv
  <2>3. ASSUME NEW u \in Savers, Closing(u)' PROVE \A l \in saver'[u].todo : ~Current(l)'
    <3>1. Closing(u) /\ saver'[u].todo \subseteq saver[u].todo
      BY <1>1, <2>3 DEF Closing
    <3>2. \A l \in saver[u].todo : ~Current(l)
      BY <3>1 DEF ListenersInv
    <3> QED
      BY <3>1, <3>2 DEF Current
  <2> QED
    BY <2>1, <2>2, <2>3 DEF ListenersInv
<1>5. FreshInv'
  <2>1. saver'[t].pc # "routes" /\ (saver'[t].pc \in Early => saver'[t].fresh = {})
    BY <1>1 DEF Late, Early
  <2>2. ASSUME NEW u \in Savers \ {t}, saver[u].pc = "routes", NEW l \in saver[u].fresh
        PROVE  /\ listener'[l].bound /\ listener'[l].ep \in Fresh(u)
               /\ listener'[l].routes = Group(saver[u].cfg, listener'[l].ep)
               /\ \A v \in Savers : Closing(v)' => l \notin saver'[v].todo
    <3>1. l \in Listeners
      BY <2>2 DEF TypeOK, Saver
    <3>2. /\ listener[l].bound /\ listener[l].ep \in Fresh(u)
          /\ listener[l].routes = Group(saver[u].cfg, listener[l].ep)
          /\ \A v \in Savers : Closing(v) => l \notin saver[v].todo
      BY <2>2 DEF FreshInv
    <3>3. \A v \in Savers : Closing(v)' => Closing(v) /\ saver'[v].todo \subseteq saver[v].todo
      BY <1>1 DEF Closing
    <3> QED
      BY <3>1, <3>2, <3>3
  <2>3. ASSUME NEW u \in Savers \ {t}, saver[u].pc = "routes", NEW e \in Fresh(u)
        PROVE  \E l \in saver[u].fresh : listener'[l].ep = e
    <3>1. PICK l \in saver[u].fresh : listener[l].ep = e
      BY <2>3 DEF FreshInv
    <3>2. l \in Listeners
      BY <3>1 DEF TypeOK, Saver
    <3> QED
      BY <3>1, <3>2
  <2>4. \A u \in Savers \ {t} : Fresh(u)' = Fresh(u)
    BY <1>1 DEF Fresh
  <2>5. \A u \in Savers \ {t} : saver[u].pc \in Early => saver[u].fresh = {}
    BY DEF FreshInv
  <2> QED
    BY <1>1, <2>1, <2>2, <2>3, <2>4, <2>5 DEF FreshInv
<1>6. UpdatedInv'
  <2>1. saver'[t].pc \notin {"routes", "save", "memory"}
    BY <1>1 DEF Late
  <2>2. ASSUME NEW u \in Savers \ {t}, saver[u].pc = "routes",
               NEW e \in Grouped(saver[u].cfg) \ Fresh(u)
        PROVE  \/ listeners[e] \in saver[u].todo \cup {saver[u].at}
               \/ listener'[listeners[e]].routes = Group(saver[u].cfg, e)
    <3>1. Grouped(saver[u].cfg) \subseteq Endpoints
      BY GroupsAreTyped DEF TypeOK, Saver
    <3>2. listeners[e] \in Listeners
      BY <1>2, <2>2, <3>1 DEF Fresh
    <3> QED
      BY <2>2, <3>2 DEF UpdatedInv
  <2>3. \A u \in Savers \ {t} : /\ Fresh(u)' = Fresh(u)
                                /\ saver[u].pc \in {"save", "memory"} => saver[u].cfg \in Configs
    BY <1>1 DEF Fresh, UpdatedInv
  <2> QED
    BY <1>1, <2>1, <2>2, <2>3 DEF UpdatedInv
<1> QED
  BY <1>3, <1>4, <1>5, <1>6

\* The listener closed is not in the map, and its tracked connections go with it.
LEMMA CloseListenerKeeps ==
    ASSUME IInv, NEW t \in Savers, CloseListener(t) PROVE IInv'
<1> USE DEF IInv
<1>1. saver[t] \in Saver /\ saver[t].pc = "close" /\ t \in Busy /\ None \notin Listeners
  BY NoneAssumption DEF CloseListener, TypeOK, Busy
<1>2. PICK l \in saver[t].todo :
        /\ listener' = [listener EXCEPT ![l].closed = TRUE, ![l].bound = FALSE]
        /\ worker' = [w \in Workers |->
               IF worker[w].at = l /\ ~Udp(l) /\ worker[w].st \notin {"none", "accepted"}
               THEN [worker[w] EXCEPT !.open = FALSE] ELSE worker[w]]
        /\ saver' = [saver EXCEPT ![t].pc = "wait", ![t].at = l]
  BY DEF CloseListener
<1>3. UNCHANGED <<saved, mgr, listeners, statuses, writers, messages, faults>>
  BY DEF CloseListener
<1>4. l \in Listeners
  BY <1>1 DEF Saver
<1> DEFINE x == [saver[t] EXCEPT !.pc = "wait", !.at = l]
           y == [listener[l] EXCEPT !.closed = TRUE, !.bound = FALSE]
<1>5. x \in Saver /\ x.pc = "wait" /\ x.cfg = saver[t].cfg /\ x.fresh = saver[t].fresh
      /\ x.todo = saver[t].todo
  BY <1>1, <1>4 DEF Saver
<1>6. /\ y \in ListenerState /\ y.ep = listener[l].ep /\ y.routes = listener[l].routes
      /\ y.serving = listener[l].serving /\ y.closed /\ ~y.bound
  <2>1. listener[l] \in ListenerState
    BY <1>4 DEF TypeOK
  <2> QED
    BY <2>1 DEF ListenerState
<1>7. saver' = [saver EXCEPT ![t] = x] /\ listener' = [listener EXCEPT ![l] = y]
  BY <1>2 DEF TypeOK
<1> HIDE DEF x, y
<1>8. /\ saver'[t] = x /\ \A u \in Savers \ {t} : saver'[u] = saver[u]
      /\ listener'[l] = y /\ \A k \in Listeners \ {l} : listener'[k] = listener[k]
  BY <1>4, <1>7 DEF TypeOK
<1>9. \A k \in Listeners : /\ listener'[k].ep = listener[k].ep
                           /\ listener'[k].routes = listener[k].routes
                           /\ listener'[k].serving = listener[k].serving
  BY <1>6, <1>8
<1>10. ASSUME NEW w \in Workers
       PROVE  /\ worker'[w] \in WorkerState /\ worker'[w].st = worker[w].st
              /\ worker'[w].at = worker[w].at /\ worker'[w].src = worker[w].src
              /\ worker'[w].client = worker[w].client
              /\ worker'[w].open => worker[w].open
              /\ worker[w].at = l /\ ~Udp(l) /\ worker[w].st \notin {"none", "accepted"}
                    => ~worker'[w].open
  <2>1. worker[w] \in WorkerState
    BY DEF TypeOK
  <2>2. CASE worker[w].at = l /\ ~Udp(l) /\ worker[w].st \notin {"none", "accepted"}
    <3> DEFINE z == [worker[w] EXCEPT !.open = FALSE]
    <3>1. z \in WorkerState /\ z.st = worker[w].st /\ z.at = worker[w].at
          /\ z.src = worker[w].src /\ z.client = worker[w].client /\ ~z.open
      BY <2>1 DEF WorkerState
    <3>2. worker'[w] = z
      BY <1>2, <2>2
    <3> HIDE DEF z
    <3> QED
      BY <3>1, <3>2
  <2>3. CASE ~(worker[w].at = l /\ ~Udp(l) /\ worker[w].st \notin {"none", "accepted"})
    <3>1. worker'[w] = worker[w]
      BY <1>2, <2>3
    <3> QED
      BY <2>1, <2>3, <3>1
  <2> QED
    BY <2>2, <2>3
<1>11. TypeOK'
  <2>1. saver' \in [Savers -> Saver] /\ listener' \in [Listeners -> ListenerState]
    BY <1>5, <1>6, <1>7 DEF TypeOK
  <2>2. worker' \in [Workers -> WorkerState]
    BY <1>2, <1>10
  <2> QED
    BY <2>1, <2>2, <1>3 DEF TypeOK, saved
<1>12. LockInv' /\ ListenersInv' /\ FreshInv' /\ UpdatedInv'
  <2>1. \A k \in Listeners :
              \/ /\ listener'[k].bound = listener[k].bound
                 /\ listener'[k].closed = listener[k].closed
              \/ Closing(t) /\ k \in saver[t].todo /\ ~listener'[k].bound
    BY <1>1, <1>6, <1>8 DEF Closing
  <2>2. x.pc \in Late /\ saver[t].pc \in Late /\ Closing(t)
    BY <1>1, <1>5 DEF Late, Closing
  <2> QED
    BY <1>3, <1>5, <1>7, <1>9, <2>1, <2>2, LateMove
<1>13. RoutedInv'
  BY <1>3, <1>9, RoutedMove
<1>14. ServedInv'
  <2>1. \A u \in Savers : saver'[u].fresh = saver[u].fresh
    BY <1>5, <1>8
  <2>2. \A e \in Endpoints : listeners[e] # None =>
            listener'[listeners[e]].serving = listener[listeners[e]].serving
    BY <1>9 DEF TypeOK
  <2> QED
    BY <1>3, <2>1, <2>2 DEF ServedInv
<1>15. WorkInv'
  <2>1. ASSUME NEW w \in Workers PROVE Orderly(worker[w])'
    <3>1. Orderly(worker[w]) /\ worker[w].at \in Listeners \cup {None}
      BY DEF WorkInv, TypeOK, WorkerState
    <3>2. worker'[w].st = "none" <=> worker'[w].at = None
      BY <1>10, <3>1 DEF Orderly
    <3>3. ASSUME worker'[w].at # None, listener'[worker'[w].at].closed, ~Udp(worker[w].at)'
          PROVE  worker'[w].st = "accepted" \/ ~worker'[w].open
      <4>1. worker[w].at \in Listeners /\ worker'[w].at = worker[w].at
            /\ ~Udp(worker[w].at) /\ worker[w].st # "none"
        BY <1>9, <1>10, <3>1, <3>2, <3>3 DEF Udp
      <4>2. CASE worker[w].at = l
        BY <1>10, <4>1, <4>2
      <4>3. CASE worker[w].at # l
        BY <1>8, <1>10, <3>1, <3>3, <4>1, <4>3 DEF Orderly
      <4> QED
        BY <4>2, <4>3
    <3>4. worker'[w].st = "writer" =>
              worker'[w].src = Match(listener'[worker'[w].at].routes, worker'[w].client)
      BY <1>9, <1>10, <3>1 DEF Orderly
    <3> QED
      BY <3>2, <3>3, <3>4 DEF Orderly
  <2> QED
    BY <2>1 DEF WorkInv
<1>16. QuietInv'
  <2>1. ASSUME ~overlap, ~undone PROVE Carries(t)'
    <3>1. stored = settings /\ settings = saver[t].cfg /\ Routed(saver[t].cfg)
      BY <1>1, <2>1, QuietCarries DEF Carries
    <3>2. stored' = settings' /\ settings' = saver'[t].cfg
      BY <1>3, <1>5, <1>8, <3>1 DEF saved
    <3>3. PICK cfg \in Configs \cup {{}} : cfg = saver[t].cfg
      BY <1>1 DEF Saver
    <3>4. Routed(cfg)'
      BY <1>3, <1>9, <3>1, <3>3, RoutesKept
    <3>5. Routed(saver[t].cfg)'
      BY <1>5, <1>8, <3>3, <3>4
    <3> QED
      BY <1>5, <1>8, <3>2, <3>5 DEF Carries
  <2>2. undone' = undone /\ overlap' = overlap
    BY <1>3 DEF saved
  <2> QED
    BY <1>1, <1>5, <1>7, <2>1, <2>2, QuietMove
<1> QED
  BY <1>11, <1>12, <1>13, <1>14, <1>15, <1>16

\* Close has returned, or the writers are reconciled: only the saver goes on.
LEMMA GoOnKeeps ==
    ASSUME IInv, NEW t \in Savers, Closed(t) \/ Reconcile(t) PROVE IInv'
<1> USE DEF IInv
<1>1. saver[t] \in Saver /\ Closing(t) /\ t \in Busy
  BY DEF Closed, Reconcile, TypeOK, Busy, Closing
<1>2. UNCHANGED <<saved, mgr, listeners, listener, statuses, worker, messages, faults>>
      /\ writers' \subseteq writers
  BY DEF Closed, Reconcile
<1>3. PICK x \in Saver :
        /\ saver' = [saver EXCEPT ![t] = x]
        /\ x.pc \in {"close", "writers"} /\ x.cfg = saver[t].cfg
        /\ x.fresh = saver[t].fresh /\ x.todo \subseteq saver[t].todo
  <2>1. CASE Closed(t)
    <3> DEFINE x == [saver[t] EXCEPT !.pc = "close", !.at = None,
                                     !.todo = saver[t].todo \ {saver[t].at}]
    <3>1. x \in Saver /\ x.pc = "close" /\ x.cfg = saver[t].cfg
          /\ x.fresh = saver[t].fresh /\ x.todo \subseteq saver[t].todo
      BY <1>1 DEF Saver
    <3>2. saver' = [saver EXCEPT ![t] = x]
      BY <2>1 DEF Closed, TypeOK
    <3> HIDE DEF x
    <3> QED
      BY <3>1, <3>2
  <2>2. CASE Reconcile(t)
    <3> DEFINE x == [saver[t] EXCEPT !.pc = "writers"]
    <3>1. x \in Saver /\ x.pc = "writers" /\ x.cfg = saver[t].cfg
          /\ x.fresh = saver[t].fresh /\ x.todo = saver[t].todo
      BY <1>1 DEF Saver
    <3>2. saver' = [saver EXCEPT ![t] = x]
      BY <2>2 DEF Reconcile, TypeOK
    <3> HIDE DEF x
    <3> QED
      BY <3>1, <3>2
  <2> QED
    BY <2>1, <2>2
<1>4. saver'[t] = x /\ \A u \in Savers \ {t} : saver'[u] = saver[u]
  BY <1>3 DEF TypeOK
<1>5. TypeOK'
  <2>1. saver' \in [Savers -> Saver]
    BY <1>3 DEF TypeOK
  <2> QED
    BY <2>1, <1>2 DEF TypeOK, saved
<1>6. LockInv' /\ ListenersInv' /\ FreshInv' /\ UpdatedInv'
  <2>1. x.pc \in Late /\ saver[t].pc \in Late
    BY <1>1, <1>3 DEF Late, Closing
  <2> QED
    BY <1>1, <1>2, <1>3, <2>1, LateMove
<1>7. RoutedInv'
  BY <1>2, RoutedMove
<1>8. ServedInv'
  <2>1. \A u \in Savers : saver'[u].fresh = saver[u].fresh
    BY <1>3, <1>4
  <2> QED
    BY <1>2, <2>1 DEF ServedInv
<1>9. WorkInv'
  BY <1>2 DEF WorkInv, Orderly, Udp
<1>10. QuietInv'
  <2>1. ASSUME ~overlap, ~undone PROVE Carries(t)'
    <3>1. stored = settings /\ settings = saver[t].cfg /\ Routed(saver[t].cfg)
      BY <1>1, <2>1, QuietCarries DEF Carries, Closing
    <3>2. stored' = settings' /\ settings' = saver'[t].cfg /\ saver'[t].cfg = saver[t].cfg
      BY <1>2, <1>3, <1>4, <3>1 DEF saved
    <3>3. PICK cfg \in Configs \cup {{}} : cfg = saver[t].cfg
      BY <1>1 DEF Saver
    <3>4. Routed(cfg)'
      BY <1>2, <3>1, <3>3, RoutesKept
    <3> QED
      BY <1>3, <1>4, <3>2, <3>3, <3>4 DEF Carries
  <2>2. undone' = undone /\ overlap' = overlap
    BY <1>2 DEF saved
  <2> QED
    BY <1>1, <1>3, <2>1, <2>2, QuietMove
<1> QED
  BY <1>5, <1>6, <1>7, <1>8, <1>9, <1>10

\* The loops of the new listeners start, and the save is over.
LEMMA ServeKeeps ==
    ASSUME IInv, NEW t \in Savers, Serve(t) PROVE IInv'
<1> USE DEF IInv
<1>1. saver[t] \in Saver /\ saver[t].pc = "writers" /\ t \in Busy
  BY DEF Serve, TypeOK, Busy
<1>2. UNCHANGED <<saved, mgr, listeners, statuses, writers, worker, messages, faults>>
      /\ saver' = [saver EXCEPT ![t] = Idle]
  BY DEF Serve
<1>3. Idle \in Saver /\ Idle.pc = "idle" /\ Idle.fresh = {} /\ Idle.todo = {}
  BY DEF Idle, Saver
<1>4. saver'[t] = Idle /\ \A u \in Savers \ {t} : saver'[u] = saver[u]
  BY <1>2 DEF TypeOK
<1>5. ASSUME NEW l \in Listeners
      PROVE  /\ listener'[l] \in ListenerState
             /\ listener'[l].ep = listener[l].ep /\ listener'[l].routes = listener[l].routes
             /\ listener'[l].bound = listener[l].bound
             /\ listener'[l].closed = listener[l].closed
             /\ listener[l].serving => listener'[l].serving
             /\ l \in saver[t].fresh => listener'[l].serving
  <2>1. listener[l] \in ListenerState
    BY DEF TypeOK
  <2>2. listener'[l] = IF l \in saver[t].fresh
                       THEN [listener[l] EXCEPT !.serving = TRUE] ELSE listener[l]
    BY DEF Serve
  <2>3. CASE l \in saver[t].fresh
    <3>1. listener'[l] = [listener[l] EXCEPT !.serving = TRUE]
      BY <2>2, <2>3
    <3> QED
      BY <2>1, <3>1 DEF ListenerState
  <2>4. CASE l \notin saver[t].fresh
    BY <2>1, <2>2, <2>4
  <2> QED
    BY <2>3, <2>4
<1>6. TypeOK'
  <2>1. saver' \in [Savers -> Saver]
    BY <1>2, <1>3 DEF TypeOK
  <2>2. listener' \in [Listeners -> ListenerState]
    BY <1>5 DEF Serve
  <2> QED
    BY <2>1, <2>2, <1>2 DEF TypeOK, saved
<1>7. LockInv' /\ ListenersInv' /\ FreshInv' /\ UpdatedInv'
  <2>1. saver[t].pc \in Late
    BY <1>1 DEF Late
  <2> QED
    BY <1>2, <1>3, <1>5, <2>1, LateMove
<1>8. RoutedInv'
  BY <1>2, <1>5, RoutedMove
<1>9. ServedInv'
  <2>1. ASSUME NEW e \in Endpoints, listeners[e] # None
        PROVE  \/ listener'[listeners[e]].serving
               \/ \E u \in Savers : listeners[e] \in saver'[u].fresh
    <3>1. listeners[e] \in Listeners
      BY <2>1 DEF TypeOK
    <3>2. CASE listener[listeners[e]].serving \/ listeners[e] \in saver[t].fresh
      BY <1>5, <3>1, <3>2
    <3>3. CASE \E u \in Savers \ {t} : listeners[e] \in saver[u].fresh
      BY <1>4, <3>3
    <3> QED
      BY <2>1, <3>2, <3>3 DEF ServedInv
  <2> QED
    BY <2>1, <1>2 DEF ServedInv
<1>10. WorkInv'
  <2>1. ASSUME NEW w \in Workers PROVE Orderly(worker[w])'
    <3>1. Orderly(worker[w]) /\ worker[w].at \in Listeners \cup {None}
      BY DEF WorkInv, TypeOK, WorkerState
    <3>2. worker[w].at # None =>
              /\ listener'[worker[w].at].closed = listener[worker[w].at].closed
              /\ listener'[worker[w].at].ep = listener[worker[w].at].ep
              /\ listener'[worker[w].at].routes = listener[worker[w].at].routes
      BY <1>5, <3>1
    <3> QED
      BY <1>2, <3>1, <3>2 DEF Orderly, Udp
  <2> QED
    BY <2>1, <1>2 DEF WorkInv
<1>11. QuietInv'
  <2>1. ASSUME ~overlap, ~undone PROVE Carries(t)' /\ Rests'
    <3>1. stored = settings /\ settings = saver[t].cfg /\ Routed(saver[t].cfg)
      BY <1>1, <2>1, QuietCarries DEF Carries
    <3>2. stored' = settings' /\ settings' = settings
      BY <1>2, <3>1 DEF saved
    <3>3. PICK cfg \in Configs \cup {{}} : cfg = settings
      BY DEF TypeOK
    <3>4. Routed(cfg)'
      BY <1>2, <1>5, <3>1, <3>3, RoutesKept
    <3>5. Carries(t)'
      BY <1>3, <1>4 DEF Carries
    <3> QED
      BY <3>2, <3>3, <3>4, <3>5 DEF Rests
  <2>2. undone' = undone /\ overlap' = overlap
    BY <1>2 DEF saved
  <2> QED
    BY <1>1, <1>2, <1>3, <2>1, <2>2, QuietMove
<1> QED
  BY <1>6, <1>7, <1>8, <1>9, <1>10, <1>11

\* Manager.Close leaves no listener and no running source.
LEMMA CloseKeeps ==
    ASSUME IInv, NEW t \in Savers, Close(t) PROVE IInv'
<1> USE DEF IInv
<1>1. /\ saver[t] \in Saver /\ saver[t].pc = "idle" /\ mgr = None
      /\ None \notin Savers /\ None \notin Listeners /\ saver[t].fresh = {}
  BY NoneAssumption DEF Close, TypeOK, FreshInv, Early
<1>2. /\ UNCHANGED <<stored, settings, listener, writers, worker, messages, faults, mgr>>
      /\ listeners' = [e \in Endpoints |-> None]
      /\ undone' = TRUE /\ overlap' = (overlap \/ Busy # {})
  BY DEF Close
<1>3. saves' \in 0 .. MaxSaves
  BY BoundsAssumption DEF Close, TypeOK
<1> DEFINE todo == {listeners[e] : e \in {d \in Endpoints : listeners[d] # None}}
           x == [Idle EXCEPT !.pc = "close", !.todo = todo]
<1>4. todo \subseteq Listeners
  BY DEF TypeOK
<1>5. x \in Saver /\ x.pc = "close" /\ x.fresh = {}
  <2> HIDE DEF todo
  <2> QED
    BY <1>4 DEF Idle, Saver
<1>6. saver' = [saver EXCEPT ![t] = x]
  BY DEF Close
<1> HIDE DEF x
<1>7. saver'[t] = x /\ \A u \in Savers \ {t} : saver'[u] = saver[u]
  BY <1>6 DEF TypeOK
<1>8. /\ statuses' \in [Ids -> Status \cup {None}]
      /\ \A i \in Ids : ~(statuses'[i] # None /\ statuses'[i].running)
  <2>1. statuses' = [i \in Ids |-> IF statuses[i] = None THEN None
                                   ELSE [statuses[i] EXCEPT !.running = FALSE]]
    BY DEF Close
  <2>2. ASSUME NEW i \in Ids
        PROVE  statuses'[i] \in Status \cup {None}
               /\ ~(statuses'[i] # None /\ statuses'[i].running)
    <3>1. CASE statuses[i] = None
      BY <2>1, <3>1
    <3>2. CASE statuses[i] # None
      <4>1. statuses[i] \in Status /\ statuses'[i] = [statuses[i] EXCEPT !.running = FALSE]
        BY <2>1, <3>2 DEF TypeOK
      <4> QED
        BY <4>1 DEF Status
    <3> QED
      BY <3>1, <3>2
  <2> QED
    BY <2>1, <2>2
<1>9. TypeOK'
  <2>1. saver' \in [Savers -> Saver] /\ {overlap, undone}' \subseteq BOOLEAN
    BY <1>2, <1>5, <1>6 DEF TypeOK
  <2> QED
    BY <2>1, <1>2, <1>3, <1>8 DEF TypeOK
<1>10. \A u \in Savers : saver'[u].pc # "routes"
  BY <1>1, <1>5, <1>7 DEF LockInv
<1>11. LockInv'
  BY <1>1, <1>2, <1>10 DEF LockInv
<1>12. ListenersInv'
  <2>1. \A u \in Savers : saver'[u].todo \subseteq Listeners
    BY <1>9 DEF TypeOK, Saver
  <2>2. \A l \in Listeners : ~Current(l)'
    BY <1>1, <1>2 DEF Current
  <2> QED
    BY <1>2, <2>1, <2>2 DEF ListenersInv
<1>13. FreshInv'
  BY <1>5, <1>7, <1>10 DEF FreshInv
<1>14. UpdatedInv'
  <2>1. saver'[t].pc \notin {"save", "memory"}
    BY <1>5, <1>7
  <2> QED
    BY <1>7, <1>10, <2>1 DEF UpdatedInv
<1>15. RoutedInv'
  <2>1. Grouped({}) = {}
    BY DEF Grouped, Receiving
  <2>2. Routed({})'
    BY <1>2, <2>1 DEF Routed
  <2>3. Announced({})'
    BY <1>8 DEF Announced
  <2> QED
    BY <2>2, <2>3 DEF RoutedInv
<1>16. ServedInv'
  BY <1>2 DEF ServedInv
<1>17. WorkInv'
  BY <1>2 DEF WorkInv, Orderly, Udp
<1>18. QuietInv'
  <2>1. ASSUME ~overlap' PROVE \A u \in Savers \ {t} : saver'[u].pc = "idle"
    BY <1>2, <1>7, <2>1 DEF Busy
  <2>2. ~overlap' => \A u, v \in Busy' : u = v
    BY <2>1 DEF Busy
  <2> QED
    BY <1>2, <2>2 DEF QuietInv
<1> QED
  BY <1>9, <1>11, <1>12, <1>13, <1>14, <1>15, <1>16, <1>17, <1>18

-----------------------------------------------------------------------------
(* Steps of messages and connections *)

\* Such a step moves one worker and leaves the listeners and the savers alone.
LEMMA WorkMove ==
    ASSUME IInv, NEW w \in Workers,
           \E x \in WorkerState : worker' = [worker EXCEPT ![w] = x] /\ Orderly(x),
           UNCHANGED <<Common, listener>>,
           statuses' \in [Ids -> Status \cup {None}],
           \A i \in Ids : statuses'[i] # None /\ statuses'[i].running
                          => statuses[i] # None /\ statuses[i].running,
           writers' \subseteq Dirs, messages' \in 0 .. MaxMessages,
           faults' \in 0 .. MaxFaults
    PROVE  IInv'
<1> USE DEF IInv, Common, saved
<1>1. PICK x \in WorkerState : worker' = [worker EXCEPT ![w] = x] /\ Orderly(x)
  OBVIOUS
<1>2. TypeOK'
  BY <1>1 DEF TypeOK
<1>3. LockInv' /\ ListenersInv' /\ UpdatedInv' /\ ServedInv'
  <2>1. LockInv'
    BY DEF LockInv
  <2>2. ListenersInv'
    BY DEF ListenersInv, Closing, Current
  <2>3. UpdatedInv'
    BY DEF UpdatedInv, Fresh
  <2>4. ServedInv'
    BY DEF ServedInv
  <2> QED
    BY <2>1, <2>2, <2>3, <2>4
<1>4. FreshInv'
  BY DEF FreshInv, Fresh, Closing
<1>5. RoutedInv'
  BY RoutedMove
<1>6. QuietInv'
  BY DEF QuietInv, Busy, Carries, Rests, Routed
<1>7. WorkInv'
  <2>1. ASSUME NEW v \in Workers PROVE Orderly(worker'[v])
    <3>1. CASE v = w
      BY <1>1, <3>1 DEF TypeOK
    <3>2. CASE v # w
      <4>1. worker'[v] = worker[v]
        BY <1>1, <3>2 DEF TypeOK
      <4> QED
        BY <4>1 DEF WorkInv
    <3> QED
      BY <3>1, <3>2
  <2> QED
    BY <2>1 DEF WorkInv, Orderly, Udp
<1> QED
  BY <1>2, <1>3, <1>4, <1>5, <1>6, <1>7

\* A worker that is over is nowhere.
LEMMA LeaveIsOrderly ==
    ASSUME NEW w \in Workers, Leave(w)
    PROVE  \E x \in WorkerState : worker' = [worker EXCEPT ![w] = x] /\ Orderly(x)
<1>1. NoWorker \in WorkerState /\ NoWorker.st = "none" /\ NoWorker.at = None
  BY DEF NoWorker, WorkerState
<1>2. Orderly(NoWorker)
  BY <1>1 DEF Orderly
<1> QED
  BY <1>1, <1>2 DEF Leave

\* A worker that goes on is where it was; one that was accepted goes on at an
\* open listener only.
LEMMA StepIsOrderly ==
    ASSUME TypeOK, WorkInv, NEW w \in Workers,
           NEW st \in {"tracked", "open", "routing", "written", "refused"},
           Step(w, st), worker[w].st # "none",
           worker[w].st = "accepted" => ~listener[worker[w].at].closed
    PROVE  \E x \in WorkerState : worker' = [worker EXCEPT ![w] = x] /\ Orderly(x)
<1>1. worker[w] \in WorkerState /\ Orderly(worker[w])
  BY DEF TypeOK, WorkInv
<1> DEFINE x == [worker[w] EXCEPT !.st = st]
<1>2. x \in WorkerState /\ x.st = st /\ x.at = worker[w].at /\ x.open = worker[w].open
  BY <1>1 DEF WorkerState
<1>3. worker' = [worker EXCEPT ![w] = x]
  BY DEF Step
<1> HIDE DEF x
<1>4. Orderly(x)
  BY <1>1, <1>2 DEF Orderly
<1> QED
  BY <1>2, <1>3, <1>4

\* The end of a message: the loop of UDP is free, a connection scans again.
LEMMA DoneIsOrderly ==
    ASSUME TypeOK, WorkInv, NEW w \in Workers, Done(w),
           worker[w].st \in {"routing", "written", "refused"}
    PROVE  \E x \in WorkerState : worker' = [worker EXCEPT ![w] = x] /\ Orderly(x)
<1>1. worker[w] \in WorkerState /\ Orderly(worker[w])
  BY DEF TypeOK, WorkInv
<1>2. CASE Leave(w)
  BY <1>2, LeaveIsOrderly
<1>3. CASE worker' = [worker EXCEPT ![w].st = "open", ![w].src = None]
  <2> DEFINE x == [worker[w] EXCEPT !.st = "open", !.src = None]
  <2>1. x \in WorkerState /\ x.st = "open" /\ x.at = worker[w].at /\ x.open = worker[w].open
    BY <1>1 DEF WorkerState
  <2>2. worker' = [worker EXCEPT ![w] = x]
    BY <1>3 DEF TypeOK
  <2> HIDE DEF x
  <2>3. Orderly(x)
    BY <1>1, <2>1 DEF Orderly
  <2> QED
    BY <2>1, <2>2, <2>3
<1> QED
  BY <1>2, <1>3 DEF Done

\* The bounds of messages and faults.
LEMMA CountsAreBounded ==
    ASSUME TypeOK
    PROVE  /\ Send => messages' \in 0 .. MaxMessages
           /\ Fault => faults' \in 0 .. MaxFaults
<1> QED
  BY BoundsAssumption DEF Send, Fault, TypeOK

\* A message of UDP, or a connection, arrives at an open listener.
LEMMA ArrivalKeeps ==
    ASSUME IInv, NEW w \in Workers, ReadFrom(w) \/ Accept(w) PROVE IInv'
<1> USE DEF IInv
<1>1. Send /\ UNCHANGED <<Common, listener, statuses, writers, faults>>
  BY DEF ReadFrom, Accept
<1>2. PICK l \in Bound, c \in Clients, st \in {"routing", "accepted"} :
          /\ st = "routing" => Udp(l)
          /\ worker' = [worker EXCEPT ![w] = [NoWorker EXCEPT
                            !.st = st, !.at = l, !.client = c, !.open = TRUE]]
  BY DEF ReadFrom, Accept
<1> DEFINE x == [NoWorker EXCEPT !.st = st, !.at = l, !.client = c, !.open = TRUE]
<1>3. x \in WorkerState /\ x.st = st /\ x.at = l
  BY DEF NoWorker, WorkerState, Bound
<1>4. worker' = [worker EXCEPT ![w] = x]
  BY <1>2
<1> HIDE DEF x
<1>5. Orderly(x)
  BY <1>2, <1>3, NoneAssumption DEF Orderly, Bound
<1>6. messages' \in 0 .. MaxMessages
  BY <1>1, CountsAreBounded
<1>7. /\ statuses' \in [Ids -> Status \cup {None}] /\ writers' \subseteq Dirs
      /\ faults' \in 0 .. MaxFaults
  BY <1>1 DEF TypeOK
<1>8. \A i \in Ids : statuses'[i] # None /\ statuses'[i].running
                     => statuses[i] # None /\ statuses[i].running
  BY <1>1
<1> QED
  BY <1>1, <1>3, <1>4, <1>5, <1>6, <1>7, <1>8, WorkMove

\* The steps of a connection between its messages.
LEMMA ConnectionKeeps ==
    ASSUME IInv, NEW w \in Workers, Track(w) \/ ServeConn(w) \/ Scan(w) \/ Untrack(w)
    PROVE  IInv'
<1> USE DEF IInv
<1>1. UNCHANGED <<Common, listener, statuses, writers, faults>>
  BY DEF Track, ServeConn, Scan, Untrack
<1>2. Send \/ UNCHANGED messages
  BY DEF Track, ServeConn, Scan, Untrack
<1>3. \E x \in WorkerState : worker' = [worker EXCEPT ![w] = x] /\ Orderly(x)
  <2>1. CASE Track(w)
    <3>1. CASE listener[worker[w].at].closed
      BY <2>1, <3>1, LeaveIsOrderly DEF Track
    <3>2. CASE ~listener[worker[w].at].closed
      BY <2>1, <3>2, StepIsOrderly DEF Track
    <3> QED
      BY <3>1, <3>2
  <2>2. CASE ServeConn(w)
    <3>1. Leave(w) \/ Step(w, "open")
      BY <2>2 DEF ServeConn
    <3> QED
      BY <2>2, <3>1, LeaveIsOrderly, StepIsOrderly DEF ServeConn
  <2>3. CASE Scan(w)
    BY <2>3, StepIsOrderly DEF Scan
  <2>4. CASE Untrack(w)
    BY <2>4, LeaveIsOrderly DEF Untrack
  <2> QED
    BY <2>1, <2>2, <2>3, <2>4
<1>4. messages' \in 0 .. MaxMessages
  BY <1>2, CountsAreBounded DEF TypeOK
<1>5. /\ statuses' \in [Ids -> Status \cup {None}] /\ writers' \subseteq Dirs
      /\ faults' \in 0 .. MaxFaults
  BY <1>1 DEF TypeOK
<1>6. \A i \in Ids : statuses'[i] # None /\ statuses'[i].running
                     => statuses[i] # None /\ statuses[i].running
  BY <1>1
<1> QED
  BY <1>1, <1>3, <1>4, <1>5, <1>6, WorkMove

\* A message gets the source of the routes, and its directory has a writer.
LEMMA RouteMessageKeeps ==
    ASSUME IInv, NEW w \in Workers, RouteMessage(w) PROVE IInv'
<1> USE DEF IInv
<1> DEFINE src == Match(listener[worker[w].at].routes, worker[w].client)
<1>1. worker[w].st = "routing" /\ UNCHANGED <<Common, listener, statuses, messages, faults>>
  BY DEF RouteMessage
<1>2. worker[w] \in WorkerState /\ Orderly(worker[w])
  BY DEF TypeOK, WorkInv
<1>3. worker[w].at \in Listeners
  BY <1>1, <1>2 DEF WorkerState, Orderly
<1>4. src \in (UNION Configs) \cup {None}
  <2>1. listener[worker[w].at].routes \in SUBSET UNION Configs
    BY <1>3 DEF TypeOK, ListenerState
  <2> QED
    BY <2>1, MatchIsOfTable
<1>5. CASE src = None
  <2>1. Done(w) /\ UNCHANGED writers
    BY <1>5 DEF RouteMessage
  <2>2. \E x \in WorkerState : worker' = [worker EXCEPT ![w] = x] /\ Orderly(x)
    BY <1>1, <2>1, DoneIsOrderly
  <2>3. /\ statuses' \in [Ids -> Status \cup {None}] /\ writers' \subseteq Dirs
        /\ faults' \in 0 .. MaxFaults /\ messages' \in 0 .. MaxMessages
    BY <1>1, <2>1 DEF TypeOK
  <2>4. \A i \in Ids : statuses'[i] # None /\ statuses'[i].running
                       => statuses[i] # None /\ statuses[i].running
    BY <1>1
  <2> QED
    BY <1>1, <2>2, <2>3, <2>4, WorkMove
<1>6. CASE src # None
  <2>1. worker' = [worker EXCEPT ![w].st = "writer", ![w].src = src]
        /\ writers' = writers \cup {src.dir}
    BY <1>6 DEF RouteMessage
  <2>2. PICK s \in UNION Configs : s = src
    BY <1>4, <1>6
  <2> DEFINE x == [worker[w] EXCEPT !.st = "writer", !.src = s]
  <2>3. x \in WorkerState /\ x.st = "writer" /\ x.at = worker[w].at
        /\ x.client = worker[w].client /\ x.open = worker[w].open /\ x.src = s
    BY <1>2 DEF WorkerState
  <2>4. worker' = [worker EXCEPT ![w] = x]
    BY <2>1, <2>2 DEF TypeOK
  <2> HIDE DEF x
  <2>5. Orderly(x)
    BY <1>1, <1>2, <2>2, <2>3 DEF Orderly
  <2>6. writers' \subseteq Dirs
    BY <2>1, <2>2 DEF Dirs, TypeOK
  <2>7. /\ statuses' \in [Ids -> Status \cup {None}]
        /\ faults' \in 0 .. MaxFaults /\ messages' \in 0 .. MaxMessages
    BY <1>1 DEF TypeOK
  <2>8. \A i \in Ids : statuses'[i] # None /\ statuses'[i].running
                       => statuses[i] # None /\ statuses[i].running
    BY <1>1
  <2> QED
    BY <1>1, <2>3, <2>4, <2>5, <2>6, <2>7, <2>8, WorkMove
<1> QED
  BY <1>5, <1>6

\* A line is written or refused.
LEMMA AppendKeeps ==
    ASSUME IInv, NEW w \in Workers, Append(w) PROVE IInv'
<1> USE DEF IInv
<1>1. /\ UNCHANGED <<Common, listener, statuses, writers, messages>>
      /\ Step(w, "written") \/ Step(w, "refused")
      /\ Fault \/ UNCHANGED faults
      /\ worker[w].st = "writer"
  BY DEF Append
<1>2. \E x \in WorkerState : worker' = [worker EXCEPT ![w] = x] /\ Orderly(x)
  BY <1>1, StepIsOrderly
<1>3. faults' \in 0 .. MaxFaults
  BY <1>1, CountsAreBounded DEF TypeOK
<1>4. /\ statuses' \in [Ids -> Status \cup {None}] /\ writers' \subseteq Dirs
      /\ messages' \in 0 .. MaxMessages
  BY <1>1 DEF TypeOK
<1>5. \A i \in Ids : statuses'[i] # None /\ statuses'[i].running
                     => statuses[i] # None /\ statuses[i].running
  BY <1>1
<1> QED
  BY <1>1, <1>2, <1>3, <1>4, <1>5, WorkMove

\* A count goes up; no source starts or stops running.
LEMMA RecordKeeps ==
    ASSUME IInv, NEW w \in Workers, Record(w) PROVE IInv'
<1> USE DEF IInv
<1> DEFINE i == worker[w].src.id
<1>1. /\ UNCHANGED <<Common, listener, writers, messages, faults>>
      /\ worker[w].st \in {"written", "refused"} /\ Done(w)
      /\ statuses' = IF statuses[i] # None /\ worker[w].st = "written"
                     THEN [statuses EXCEPT ![i].count = @ + 1] ELSE statuses
  BY DEF Record
<1>2. \E x \in WorkerState : worker' = [worker EXCEPT ![w] = x] /\ Orderly(x)
  BY <1>1, DoneIsOrderly
<1>3. ASSUME NEW j \in Ids
      PROVE  /\ statuses'[j] \in Status \cup {None}
             /\ statuses'[j] # None /\ statuses'[j].running
                   => statuses[j] # None /\ statuses[j].running
  <2>1. CASE statuses' = statuses
    BY <2>1 DEF TypeOK
  <2>2. CASE statuses' = [statuses EXCEPT ![i].count = @ + 1] /\ statuses[i] # None /\ i = j
    <3> DEFINE s == [statuses[j] EXCEPT !.count = @ + 1]
    <3>1. statuses[j] \in Status
      BY <2>2 DEF TypeOK
    <3>2. s \in Status /\ s.running = statuses[j].running
      BY <3>1 DEF Status
    <3>3. statuses'[j] = s
      BY <2>2 DEF TypeOK
    <3> HIDE DEF s
    <3> QED
      BY <2>2, <3>1, <3>2, <3>3
  <2>3. CASE statuses' = [statuses EXCEPT ![i].count = @ + 1] /\ i # j
    BY <2>3 DEF TypeOK
  <2> QED
    BY <1>1, <2>1, <2>2, <2>3
<1>4. statuses' \in [Ids -> Status \cup {None}]
  <2>1. statuses' = [j \in Ids |-> statuses'[j]]
    BY <1>1 DEF TypeOK
  <2> QED
    BY <1>3, <2>1
<1>5. /\ writers' \subseteq Dirs /\ messages' \in 0 .. MaxMessages
      /\ faults' \in 0 .. MaxFaults
  BY <1>1 DEF TypeOK
<1> QED
  BY <1>1, <1>2, <1>3, <1>4, <1>5, WorkMove

-----------------------------------------------------------------------------
(* The theorems *)

\* The receiver starts with nothing open, and one saver applies the settings.
LEMMA InitIInv ==
    ASSUME Init PROVE IInv
<1>1. PICK t \in Savers : saver = [u \in Savers |->
              IF u = t THEN [Idle EXCEPT !.pc = "read"] ELSE Idle]
  BY DEF Init
<1> DEFINE x == [Idle EXCEPT !.pc = "read"]
<1>2. /\ x \in Saver /\ x.pc = "read" /\ x.fresh = {} /\ x.todo = {}
      /\ Idle \in Saver /\ Idle.pc = "idle" /\ Idle.fresh = {} /\ Idle.todo = {}
  BY DEF Idle, Saver
<1>3. saver = [u \in Savers |-> IF u = t THEN x ELSE Idle]
  BY <1>1
<1> HIDE DEF x
<1>4. saver[t] = x /\ \A u \in Savers \ {t} : saver[u] = Idle
  BY <1>3
<1>5. /\ NoListener \in ListenerState /\ ~NoListener.closed
      /\ NoWorker \in WorkerState /\ NoWorker.st = "none" /\ NoWorker.at = None
  BY DEF NoListener, ListenerState, NoWorker, WorkerState
<1>6. TypeOK
  <2>1. saver \in [Savers -> Saver]
    BY <1>2, <1>3
  <2>2. /\ listener \in [Listeners -> ListenerState] /\ worker \in [Workers -> WorkerState]
        /\ listeners \in [Endpoints -> Listeners \cup {None}]
        /\ statuses \in [Ids -> Status \cup {None}]
    BY <1>5 DEF Init
  <2>3. /\ {stored, settings} \subseteq Configs
        /\ mgr \in Savers \cup {None} /\ writers \subseteq Dirs
    BY DEF Init
  <2>4. {overlap, undone} \subseteq BOOLEAN
    BY DEF Init
  <2>5. saves \in 0..MaxSaves /\ messages \in 0..MaxMessages /\ faults \in 0..MaxFaults
    BY BoundsAssumption DEF Init
  <2> QED
    BY <2>1, <2>2, <2>3, <2>4, <2>5 DEF TypeOK
<1>7. LockInv
  BY <1>2, <1>4, NoneAssumption DEF LockInv, Init
<1>8. ListenersInv
  BY <1>2, <1>4, <1>5 DEF ListenersInv, Closing, Init
<1>9. FreshInv
  BY <1>2, <1>4 DEF FreshInv
<1>10. UpdatedInv
  BY <1>2, <1>4 DEF UpdatedInv
<1>11. RoutedInv
  <2>1. Grouped({}) = {}
    BY DEF Grouped, Receiving
  <2>2. Routed({}) /\ Announced({})
    BY <2>1 DEF Routed, Announced, Init
  <2> QED
    BY <2>2 DEF RoutedInv
<1>12. ServedInv
  BY DEF ServedInv, Init
<1>13. QuietInv
  <2>1. \A u \in Savers \ {t} : saver[u].pc = "idle"
    BY <1>2, <1>4
  <2>2. \A u, v \in Busy : u = v
    BY <2>1 DEF Busy
  <2>3. t \in Busy
    BY <1>2, <1>4 DEF Busy
  <2>4. ASSUME NEW u \in Savers PROVE Carries(u)
    BY <1>2, <1>4 DEF Carries, Init
  <2> QED
    BY <2>2, <2>3, <2>4 DEF QuietInv
<1>14. WorkInv
  <2>1. Orderly(NoWorker)
    BY <1>5 DEF Orderly
  <2> QED
    BY <2>1 DEF WorkInv, Init
<1> QED
  BY <1>6, <1>7, <1>8, <1>9, <1>10, <1>11, <1>12, <1>13, <1>14 DEF IInv

\* Every step keeps the invariant.
LEMMA NextIInv ==
    ASSUME IInv, [Next]_vars PROVE IInv'
<1>1. ASSUME NEW t \in Savers, SaveStep(t) \/ ApplyStep(t) \/ Close(t) PROVE IInv'
  <2>1. CASE SaveStep(t)
    BY <2>1, SaveKeeps, StoreKeeps, ApplyInMemoryKeeps, CurrentLogSourcesKeeps DEF SaveStep
  <2>2. CASE ApplyStep(t)
    BY <2>2, FailureKeeps, OpenKeeps, RequestRoutesKeeps, UpdateRoutesKeeps, SwapKeeps,
       CloseListenerKeeps, GoOnKeeps, ServeKeeps DEF ApplyStep
  <2>3. CASE Close(t)
    BY <2>3, CloseKeeps
  <2> QED
    BY <1>1, <2>1, <2>2, <2>3
<1>2. ASSUME NEW w \in Workers, WorkStep(w) PROVE IInv'
  BY <1>2, ArrivalKeeps, ConnectionKeeps, RouteMessageKeeps, AppendKeeps, RecordKeeps
     DEF WorkStep
<1>3. ASSUME UNCHANGED vars PROVE IInv'
  <2>1. UNCHANGED <<stored, settings, overlap, undone, saves, saver, mgr, listeners,
                    listener, statuses, writers, worker, messages, faults>>
    BY <1>3 DEF vars, saved
  <2>2. TypeOK' /\ LockInv' /\ ListenersInv' /\ FreshInv' /\ UpdatedInv'
    BY <2>1 DEF IInv, TypeOK, LockInv, ListenersInv, FreshInv, UpdatedInv, Closing,
                Current, Fresh
  <2>3. RoutedInv' /\ ServedInv'
    BY <2>1, RoutedMove DEF IInv, ServedInv
  <2>4. QuietInv' /\ WorkInv'
    BY <2>1 DEF IInv, QuietInv, WorkInv, Busy, Carries, Rests, Routed, Orderly, Udp
  <2> QED
    BY <2>2, <2>3, <2>4 DEF IInv
<1> QED
  BY <1>1, <1>2, <1>3 DEF Next

\* Every reachable state satisfies the inductive invariant.
THEOREM Invariance == Spec => []IInv
<1> QED
  BY InitIInv, NextIInv, PTL DEF Spec

\* The variables of the receiver, its savers and its workers keep their types.
THEOREM TypeCorrectness == Spec => []TypeOK
<1>1. IInv => TypeOK
  BY DEF IInv
<1> QED
  BY <1>1, Invariance, PTL

\* Outside Manager.mu the listeners, their routes and the sources said to be
\* running are those of one configuration (ApplySources).
THEOREM ListenersOfOneConfiguration == Spec => []OneConfiguration
<1>1. ASSUME IInv PROVE OneConfiguration
  <2> SUFFICES ASSUME mgr = None PROVE OneConfiguration
    BY DEF OneConfiguration
  <2>1. PICK cfg \in Configs \cup {{}} : Routed(cfg) /\ Announced(cfg)
    BY <1>1 DEF IInv, RoutedInv
  <2>2. \A e \in Endpoints : listeners[e] # None => listener[listeners[e]].bound
    BY <1>1 DEF IInv, ListenersInv
  <2>3. \A e \in Endpoints :
            IF e \in Grouped(cfg)
            THEN /\ listeners[e] # None
                 /\ listener[listeners[e]].bound
                 /\ listener[listeners[e]].routes = Group(cfg, e)
            ELSE listeners[e] = None
    BY <2>1, <2>2 DEF Routed
  <2> QED
    BY <2>1, <2>3 DEF OneConfiguration, Announced
<1> QED
  BY <1>1, Invariance, PTL

\* No connection of a closed listener stays open once it is tracked (Close, track).
THEOREM ClosedListenersLetGo == Spec => []ClosedLetsGo
<1>1. ASSUME IInv PROVE ClosedLetsGo
  <2>1. ASSUME NEW l \in Listeners, listener[l].closed, ~Udp(l), NEW w \in AtWork(l)
        PROVE  worker[w].st = "accepted" \/ ~worker[w].open
    <3>1. w \in Workers /\ worker[w].at = l /\ l # None
      BY <2>1, NoneAssumption DEF AtWork
    <3>2. Orderly(worker[w])
      BY <1>1, <3>1 DEF IInv, WorkInv
    <3> QED
      BY <2>1, <3>1, <3>2 DEF Orderly
  <2> QED
    BY <2>1 DEF ClosedLetsGo
<1> QED
  BY <1>1, Invariance, PTL

\* A save that met no other and did not fail leaves one configuration in the
\* database, in memory and in the receiver.
THEOREM QuietSavesAreApplied == Spec => []QuietSaveIsApplied
<1>1. ASSUME IInv PROVE QuietSaveIsApplied
  <2> SUFFICES ASSUME Busy = {}, ~overlap, ~undone
               PROVE  /\ stored = settings
                      /\ \A e \in Endpoints :
                             IF e \in Grouped(settings)
                             THEN /\ listeners[e] # None
                                  /\ listener[listeners[e]].routes = Group(settings, e)
                                  /\ listener[listeners[e]].serving
                             ELSE listeners[e] = None
    BY DEF QuietSaveIsApplied
  <2>1. stored = settings /\ Routed(settings)
    BY <1>1 DEF IInv, QuietInv, Rests
  <2>2. \A t \in Savers : saver[t].fresh = {}
    BY <1>1 DEF Busy, IInv, FreshInv, Early
  <2>3. \A e \in Endpoints : listeners[e] # None => listener[listeners[e]].serving
    BY <1>1, <2>2 DEF IInv, ServedInv
  <2> QED
    BY <2>1, <2>3 DEF Routed
<1> QED
  BY <1>1, Invariance, PTL

\* A line is filed by the source that the routes of its listener name for its
\* client at that moment (the read lock that routeMessage keeps).
THEOREM LinesAreFiledByTheirRoutes == Spec => FiledByItsRoute
<1>1. ASSUME IInv
      PROVE  [\A w \in Workers :
                worker[w].st = "writer" /\ worker'[w].st = "written"
                => worker[w].src = Match(listener[worker[w].at].routes, worker[w].client)]_vars
  BY <1>1 DEF IInv, WorkInv, Orderly
<1> QED
  BY <1>1, Invariance, PTL DEF FiledByItsRoute
=============================================================================
