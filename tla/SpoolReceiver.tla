---------------------------- MODULE SpoolReceiver ----------------------------
(***************************************************************************)
(* The receiver of rsyslog messages and the saves of settings that         *)
(* configure it: a listener per endpoint, a table of client rules per      *)
(* listener, the spool writers, and the status of every source.            *)
(*                                                                         *)
(* A save stores the sources, puts them in memory and has the receiver     *)
(* apply what is then in memory; nothing orders two saves.  ApplySources   *)
(* keeps Manager.mu over the opening of sockets and the updates of routes, *)
(* and a message keeps the read lock of its listener's routes until it is  *)
(* recorded, which takes Manager.mu.  The other sections under Manager.mu  *)
(* are one step each.  The texts and times of a status, with the results   *)
(* of archive runs in it, are left out.                                    *)
(*                                                                         *)
(* A worker is the one loop of a UDP listener with a message in hand, or a *)
(* TCP connection from Accept to the end of its goroutine.  Spool files    *)
(* are the subject of SpoolArchive; here a line goes to a directory.       *)
(***************************************************************************)
EXTENDS Integers, FiniteSets, FiniteSetsExt, Functions

CONSTANTS
    Clients,        \* addresses that messages come from
    Configs,        \* values of the setting log_sources
    Savers,         \* threads that may save settings
    Workers,        \* messages and connections at any time
    Listeners,      \* listeners at any time
    Slots,          \* maxTCPConnectionsPerEndpoint
    MaxSaves, MaxMessages, MaxFaults,   \* bounds: Close counts as a save, and a
                                        \* connection as a message
    None

\* A source: its id, whether shouldReceive, its endpoint, its rule and its
\* directory.  A rule holds for the clients of its net; an exact address goes
\* before every prefix, and a source without a client has prefix -1.
Endpoints == {s.ep : s \in UNION Configs}
Dirs      == {s.dir : s \in UNION Configs}
Ids       == {s.id : s \in UNION Configs}

ASSUME BoundsAssumption == {Slots, MaxSaves, MaxMessages, MaxFaults} \subseteq Nat
ASSUME SourcesAssumption ==
    \A cfg \in Configs, s, u \in UNION Configs :
        s \in cfg /\ u \in cfg /\ s.id = u.id => s = u
ASSUME RulesAssumption ==
    \A s \in UNION Configs : s.rule.exact \in BOOLEAN /\ s.rule.prefix \in -1 .. 128
ASSUME NoneAssumption ==
    None \notin Savers \cup Listeners \cup (UNION Configs)

VARIABLES
    stored, settings,   \* log_sources in ClickHouse and in memory
    saver,              \* where each saver is
    overlap, undone,    \* the last saves met; one of them came to nothing
    mgr,                \* holder of Manager.mu
    listeners,          \* Manager.listeners
    listener,           \* the listeners themselves
    statuses,           \* Manager.statuses
    writers,            \* directories with a writer in spoolWriters
    worker,             \* messages and connections
    saves, messages, faults

saved  == <<stored, settings, overlap, undone, saves>>
vars   == <<saved, saver, mgr, listeners, listener, statuses, writers, worker, messages, faults>>

Receiving(cfg) == {s \in cfg : s.on}
Grouped(cfg)   == {s.ep : s \in Receiving(cfg)}
Group(cfg, e)  == {s \in Receiving(cfg) : s.ep = e}

\* validateLogSources refuses two rsyslog sources of an endpoint with one rule,
\* whether they receive or not; an address is its longest prefix there.
Valid(cfg) == \A s, u \in cfg : s # u /\ s.ep = u.ep => s.rule.net # u.rule.net
\* What buildRouteTable refuses.
Buildable(table) == \A s, u \in table : s # u => s.rule # u.rule

Rank(rule) == IF rule.exact THEN 129 ELSE rule.prefix
\* The source that a client's messages go to, None without one.
Match(table, c) ==
    LET matching == {s \in table : c \in s.rule.net}
    IN  IF matching = {} THEN None
        ELSE CHOOSE s \in matching :
                 \A u \in matching : Rank(u.rule) <= Rank(s.rule)

NoListener == [ep |-> None, routes |-> {}, bound |-> FALSE, serving |-> FALSE,
               closed |-> FALSE]
NoWorker   == [st |-> "none", at |-> None, client |-> None, src |-> None,
               open |-> FALSE]
\* cfg: the sources it applies; at: the listener whose routes it waits to
\* update; todo: listeners left to update, to close or to start; fresh: those
\* it opened.
Idle       == [pc |-> "idle", cfg |-> {}, at |-> None, todo |-> {}, fresh |-> {}]

Saver  == [pc : {"idle", "save", "memory", "read", "build", "routes",
                 "close", "wait", "reconcile", "writers"},
           cfg : Configs \cup {{}}, at : Listeners \cup {None},
           todo : SUBSET Listeners, fresh : SUBSET Listeners]
ListenerState == [ep : Endpoints \cup {None}, routes : SUBSET UNION Configs,
                  bound : BOOLEAN, serving : BOOLEAN, closed : BOOLEAN]
WorkerState == [st : {"none", "accepted", "tracked", "open", "routing", "writer",
                      "written", "refused"},
                at : Listeners \cup {None}, client : Clients \cup {None},
                src : (UNION Configs) \cup {None}, open : BOOLEAN]
Status == [running : BOOLEAN, count : Nat]
NewStatus == [running |-> FALSE, count |-> 0]

TypeOK ==
    /\ {stored, settings} \subseteq Configs
    /\ saver \in [Savers -> Saver]
    /\ {overlap, undone} \subseteq BOOLEAN
    /\ mgr \in Savers \cup {None}
    /\ listeners \in [Endpoints -> Listeners \cup {None}]
    /\ listener \in [Listeners -> ListenerState]
    /\ statuses \in [Ids -> Status \cup {None}]
    /\ writers \subseteq Dirs
    /\ worker \in [Workers -> WorkerState]
    /\ saves \in 0..MaxSaves /\ messages \in 0..MaxMessages
    /\ faults \in 0..MaxFaults

Bound     == {l \in Listeners : listener[l].bound}
AtWork(l) == {w \in Workers : worker[w].at = l}
\* Listeners that are not open, and that no thread has a hand on.
Unused    == {l \in Listeners \ Bound : /\ AtWork(l) = {}
                                        /\ \A t \in Savers :
                                               l \notin saver[t].todo \cup saver[t].fresh}
Udp(l)    == listener[l].ep.proto = "udp"
Fault     == faults < MaxFaults /\ faults' = faults + 1

\* Start: the settings come from ClickHouse as they are, and the first saver
\* applies them.
Init ==
    /\ stored \in Configs /\ settings = stored
    /\ \E t \in Savers : saver = [u \in Savers |->
           IF u = t THEN [Idle EXCEPT !.pc = "read"] ELSE Idle]
    /\ overlap = FALSE /\ undone = FALSE
    /\ mgr = None
    /\ listeners = [e \in Endpoints |-> None]
    /\ listener = [l \in Listeners |-> NoListener]
    /\ statuses = [i \in Ids |-> None]
    /\ writers = {}
    /\ worker = [w \in Workers |-> NoWorker]
    /\ saves = 0 /\ messages = 0 /\ faults = 0

-----------------------------------------------------------------------------
(* Saving settings *)

Busy == {t \in Savers : saver[t].pc # "idle"}

\* A valid payload on its way to the database.  An invalid one changes nothing.
\* The server listens when the apply of the start is over.
Save(t) ==
    /\ saver[t].pc = "idle" /\ saves < MaxSaves
    /\ saves = 0 => Busy = {}
    /\ \E cfg \in Configs :
           /\ Valid(cfg)
           /\ saver' = [saver EXCEPT ![t] = [Idle EXCEPT !.pc = "save", !.cfg = cfg]]
    /\ overlap' = (Busy # {})
    /\ undone' = (undone /\ Busy # {})
    /\ saves' = saves + 1
    /\ UNCHANGED <<stored, settings, mgr, listeners, listener, statuses,
                   writers, worker, messages, faults>>

Store(t) ==
    /\ saver[t].pc = "save"
    /\ \/ /\ stored' = saver[t].cfg
          /\ saver' = [saver EXCEPT ![t].pc = "memory"]
          /\ UNCHANGED <<undone, faults>>
       \/ /\ Fault /\ undone' = TRUE
          /\ saver' = [saver EXCEPT ![t] = Idle]
          /\ UNCHANGED stored
    /\ UNCHANGED <<settings, overlap, saves, mgr, listeners, listener, statuses,
                   writers, worker, messages>>

\* Mutant: the receiver is configured before the memory has the new settings.
ApplyBeforeMemory(t) ==
    /\ saver[t].pc = "memory"
    /\ saver' = [saver EXCEPT ![t] = [Idle EXCEPT !.pc = "read"]]
    /\ UNCHANGED <<saved, mgr, listeners, listener, statuses, writers, worker,
                   messages, faults>>

ApplyInMemory(t) ==
    /\ saver[t].pc = "memory"
    /\ settings' = saver[t].cfg
    /\ saver' = [saver EXCEPT ![t] = [Idle EXCEPT !.pc = "read"]]
    /\ UNCHANGED <<stored, overlap, undone, saves, mgr, listeners, listener,
                   statuses, writers, worker, messages, faults>>

CurrentLogSources(t) ==
    /\ saver[t].pc = "read"
    /\ saver' = [saver EXCEPT ![t].pc = "build", ![t].cfg = settings]
    /\ UNCHANGED <<saved, mgr, listeners, listener, statuses, writers, worker, messages, faults>>

\* The sources of one endpoint are marked as failed, whatever their status was.
MarkFailed(table) ==
    statuses' = [i \in Ids |-> IF \E s \in table : s.id = i
                               THEN NewStatus ELSE statuses[i]]

\* A table that cannot be built, or a directory that cannot be made.
Unbuildable(t) ==
    /\ saver[t].pc = "build" /\ mgr = None
    /\ \E e \in Grouped(saver[t].cfg) :
           LET table == Group(saver[t].cfg, e)
           IN  /\ IF Buildable(table) THEN Fault ELSE UNCHANGED faults
               /\ MarkFailed(table)
    /\ undone' = TRUE
    /\ saver' = [saver EXCEPT ![t] = Idle]
    /\ UNCHANGED <<stored, settings, overlap, saves, mgr, listeners, listener,
                   writers, worker, messages>>

-----------------------------------------------------------------------------
(* ApplySources under Manager.mu, taken when the sockets are opened *)

Built(t) == /\ saver[t].pc = "build" /\ mgr = None
            /\ \A e \in Grouped(saver[t].cfg) : Buildable(Group(saver[t].cfg, e))

\* Sockets of one protocol and port exclude each other, as a wildcard host does
\* every other.
Taken(e) == \E l \in Bound : /\ listener[l].ep.proto = e.proto
                             /\ listener[l].ep.port = e.port
Fresh(t) == {e \in Grouped(saver[t].cfg) : listeners[e] = None}
\* One listener for each of them.
NewListeners(t) == {f \in [Fresh(t) -> Unused] : IsInjective(f)}

\* A listener cannot be opened: those opened before are closed, and the rest of
\* the configuration is left alone.
OpenFails(t) ==
    /\ Built(t)
    /\ \E e \in Fresh(t) : /\ IF Taken(e) THEN UNCHANGED faults ELSE Fault
                           /\ MarkFailed(Group(saver[t].cfg, e))
    /\ undone' = TRUE
    /\ saver' = [saver EXCEPT ![t] = Idle]
    /\ UNCHANGED <<stored, settings, overlap, saves, mgr, listeners, listener,
                   writers, worker, messages>>

Open(t) ==
    /\ Built(t)
    /\ \A e \in Fresh(t) : ~Taken(e)
    /\ mgr' = t
    /\ NewListeners(t) # {}
    /\ LET new == CHOOSE f \in NewListeners(t) : TRUE
       IN  /\ listener' = [l \in Listeners |->
                IF \E e \in Fresh(t) : new[e] = l
                THEN LET e == CHOOSE e \in Fresh(t) : new[e] = l
                     IN  [NoListener EXCEPT !.ep = e, !.bound = TRUE,
                                            !.routes = Group(saver[t].cfg, e)]
                ELSE listener[l]]
           /\ saver' = [saver EXCEPT ![t].pc = "routes",
                ![t].fresh = {new[e] : e \in Fresh(t)},
                ![t].todo = {listeners[e] : e \in Grouped(saver[t].cfg) \ Fresh(t)}]
    /\ UNCHANGED <<saved, listeners, statuses, writers, worker, messages,
                   faults>>

\* updateRoutes: from its call on no message takes the read lock any more; it
\* goes on when those that have it are done.
RequestRoutes(t) ==
    /\ saver[t].pc = "routes" /\ saver[t].at = None
    /\ \E l \in saver[t].todo :
           saver' = [saver EXCEPT ![t].at = l, ![t].todo = @ \ {l}]
    /\ UNCHANGED <<saved, mgr, listeners, listener, statuses, writers, worker, messages, faults>>

\* Mutant: the read lock is given back when the routes are loaded.
ReadingLoadOnly(l) == {w \in AtWork(l) : worker[w].st = "routing"}

Reading(l) == {w \in AtWork(l) : worker[w].st \in {"routing", "writer", "written",
                                                   "refused"}}

UpdateRoutes(t) ==
    LET l == saver[t].at
    IN  /\ saver[t].pc = "routes" /\ l # None
        /\ Reading(l) = {}
        /\ listener' = [listener EXCEPT ![l].routes =
                            Group(saver[t].cfg, listener[l].ep)]
        /\ saver' = [saver EXCEPT ![t].at = None]
        /\ UNCHANGED <<saved, mgr, listeners, statuses, writers, worker, messages, faults>>

\* The status of a source that stays keeps its count.
Kept(i) == IF statuses[i] = None THEN NewStatus ELSE statuses[i]

\* Mutant: an endpoint without sources keeps its listener.
NextListenersGrow(t) ==
    [e \in Endpoints |->
        IF listeners[e] # None \/ e \notin Grouped(saver[t].cfg) THEN listeners[e]
        ELSE CHOOSE l \in saver[t].fresh : listener[l].ep = e]

NextListeners(t) ==
    [e \in Endpoints |->
        IF e \notin Grouped(saver[t].cfg) THEN None
        ELSE IF listeners[e] # None THEN listeners[e]
        ELSE CHOOSE l \in saver[t].fresh : listener[l].ep = e]

\* The new listeners and statuses take the place of the old ones.
Swap(t) ==
    LET cfg == saver[t].cfg
    IN  /\ saver[t].pc = "routes" /\ saver[t].at = None /\ saver[t].todo = {}
        /\ listeners' = NextListeners(t)
        /\ statuses' = [i \in Ids |->
               IF \A s \in Receiving(cfg) : s.id # i THEN None
               ELSE [Kept(i) EXCEPT !.running = TRUE]]
        /\ saver' = [saver EXCEPT ![t].pc = "close",
               ![t].todo = {listeners[e] : e \in {x \in Endpoints \ Grouped(cfg) :
                                                     listeners[x] # None}}]
        /\ mgr' = None
        /\ UNCHANGED <<saved, listener, writers, worker, messages, faults>>

-----------------------------------------------------------------------------
(* After Manager.mu: removed listeners, unused writers, new loops *)

\* Close of a removed listener: no connection is tracked any more, the socket
\* and the tracked connections are closed.
CloseListener(t) ==
    /\ saver[t].pc = "close" /\ saver[t].at = None
    /\ \E l \in saver[t].todo :
           /\ listener' = [listener EXCEPT ![l].closed = TRUE, ![l].bound = FALSE]
           /\ worker' = [w \in Workers |->
                  IF worker[w].at = l /\ ~Udp(l) /\ worker[w].st \notin {"none", "accepted"}
                  THEN [worker[w] EXCEPT !.open = FALSE] ELSE worker[w]]
           /\ saver' = [saver EXCEPT ![t].pc = "wait", ![t].at = l]
    /\ UNCHANGED <<saved, mgr, listeners, statuses, writers, messages, faults>>

\* Close waits for the connections that connWG counts: not for one that is
\* tracked but not added yet, nor for the loop of a UDP listener.
Closed(t) ==
    LET l == saver[t].at
    IN  /\ saver[t].pc = "wait"
        /\ Udp(l) \/ {w \in AtWork(l) : worker[w].st \notin {"accepted", "tracked"}} = {}
        /\ saver' = [saver EXCEPT ![t].pc = "close", ![t].at = None,
                                  ![t].todo = @ \ {l}]
        /\ UNCHANGED <<saved, mgr, listeners, listener, statuses, writers, worker, messages, faults>>

\* Writers of directories without a source leave the map and are closed.
Reconcile(t) ==
    /\ saver[t].pc = "close" /\ saver[t].at = None /\ saver[t].todo = {}
    /\ writers' = writers \cap {s.dir : s \in Receiving(saver[t].cfg)}
    /\ saver' = [saver EXCEPT ![t].pc = "writers"]
    /\ UNCHANGED <<saved, mgr, listeners, listener, statuses, worker, messages, faults>>

\* The loops of the new listeners start.  (A change of directories then starts an
\* archive run, see SpoolArchive.)
Serve(t) ==
    /\ saver[t].pc = "writers"
    /\ listener' = [l \in Listeners |->
                      IF l \in saver[t].fresh
                      THEN [listener[l] EXCEPT !.serving = TRUE] ELSE listener[l]]
    /\ saver' = [saver EXCEPT ![t] = Idle]
    /\ UNCHANGED <<saved, mgr, listeners, statuses, writers, worker, messages, faults>>

\* Manager.Close, when the server goes down while requests are still served:
\* it closes all listeners and writers in the same way.
Close(t) ==
    /\ saver[t].pc = "idle" /\ saves \in 1..MaxSaves - 1 /\ mgr = None
    /\ saves' = saves + 1
    /\ \E e \in Endpoints : listeners[e] # None
    /\ listeners' = [e \in Endpoints |-> None]
    /\ statuses' = [i \in Ids |-> IF statuses[i] = None THEN None
                                   ELSE [statuses[i] EXCEPT !.running = FALSE]]
    /\ saver' = [saver EXCEPT ![t] = [Idle EXCEPT !.pc = "close",
           !.todo = {listeners[e] : e \in {x \in Endpoints : listeners[x] # None}}]]
    /\ undone' = TRUE
    /\ overlap' = (overlap \/ Busy # {})
    /\ UNCHANGED <<stored, settings, listener, writers, worker, messages, faults, mgr>>

-----------------------------------------------------------------------------
(* Messages and connections *)

\* A saver waits for, or has, the write lock of the routes.
Wanted(l) == \E t \in Savers : saver[t].pc = "routes" /\ saver[t].at = l
Leave(w)  == worker' = [worker EXCEPT ![w] = NoWorker]
Step(w, st) == worker' = [worker EXCEPT ![w].st = st]
Send      == messages < MaxMessages /\ messages' = messages + 1
Common    == <<saved, saver, mgr, listeners>>

\* serveUDP: the next message is read when the one before is done.
ReadFrom(w) ==
    /\ worker[w].st = "none" /\ Send
    /\ \E l \in Bound, c \in Clients :
           /\ listener[l].serving /\ Udp(l) /\ AtWork(l) = {} /\ ~Wanted(l)
           /\ worker' = [worker EXCEPT ![w] = [NoWorker EXCEPT
                  !.st = "routing", !.at = l, !.client = c, !.open = TRUE]]
    /\ UNCHANGED <<Common, listener, statuses, writers, faults>>

\* serveTCP: a connection beyond the slots is closed at once.
Accept(w) ==
    /\ worker[w].st = "none" /\ Send
    /\ \E l \in Bound, c \in Clients :
           /\ listener[l].serving /\ ~Udp(l) /\ Cardinality(AtWork(l)) < Slots
           /\ \A v \in AtWork(l) : worker[v].st # "accepted"
           /\ worker' = [worker EXCEPT ![w] = [NoWorker EXCEPT
                  !.st = "accepted", !.at = l, !.client = c, !.open = TRUE]]
    /\ UNCHANGED <<Common, listener, statuses, writers, faults>>

\* Mutant: the connection is tracked whatever happened to its listener.
TrackAlways(w) ==
    /\ worker[w].st = "accepted"
    /\ Step(w, "tracked")
    /\ UNCHANGED <<Common, listener, statuses, writers, messages, faults>>

\* track refuses a connection of a closed listener and ends its loop.
Track(w) ==
    /\ worker[w].st = "accepted"
    /\ IF listener[worker[w].at].closed
       THEN Leave(w) ELSE Step(w, "tracked")
    /\ UNCHANGED <<Common, listener, statuses, writers, messages, faults>>

\* serveConn: a client without a route is turned away.
ServeConn(w) ==
    /\ worker[w].st = "tracked" /\ ~Wanted(worker[w].at)
    /\ IF Match(listener[worker[w].at].routes, worker[w].client) = None
       THEN Leave(w) ELSE Step(w, "open")
    /\ UNCHANGED <<Common, listener, statuses, writers, messages, faults>>

Scan(w) ==
    /\ worker[w].st = "open" /\ worker[w].open /\ ~Wanted(worker[w].at)
    /\ Send
    /\ Step(w, "routing")
    /\ UNCHANGED <<Common, listener, statuses, writers, faults>>

\* The client goes, is idle for tcpIdleTimeout, or its connection was closed.
Untrack(w) ==
    /\ worker[w].st = "open"
    /\ Leave(w)
    /\ UNCHANGED <<Common, listener, statuses, writers, messages, faults>>

\* The end of routeMessage: a UDP loop reads again, a connection scans again.
Done(w) == IF Udp(worker[w].at) THEN Leave(w)
           ELSE worker' = [worker EXCEPT ![w].st = "open", ![w].src = None]

\* routeMessage: the source by the routes, and its writer from the map or new.
RouteMessage(w) ==
    LET src == Match(listener[worker[w].at].routes, worker[w].client)
    IN  /\ worker[w].st = "routing"
        /\ IF src = None
           THEN Done(w) /\ UNCHANGED writers
           ELSE /\ worker' = [worker EXCEPT ![w].st = "writer", ![w].src = src]
                /\ writers' = writers \cup {src.dir}
        /\ UNCHANGED <<Common, listener, statuses, messages, faults>>

Append(w) ==
    /\ worker[w].st = "writer"
    /\ \/ Step(w, "written") /\ UNCHANGED faults
       \/ Step(w, "refused") /\ Fault
    /\ UNCHANGED <<Common, listener, statuses, writers, messages>>

\* recordMessage or recordWriteError, and the read lock is given back.
Record(w) ==
    LET i == worker[w].src.id
    IN  /\ worker[w].st \in {"written", "refused"} /\ mgr = None
        /\ statuses' = IF statuses[i] # None /\ worker[w].st = "written"
                       THEN [statuses EXCEPT ![i].count = @ + 1] ELSE statuses
        /\ Done(w)
        /\ UNCHANGED <<Common, listener, writers, messages, faults>>

-----------------------------------------------------------------------------
SaveStep(t) == \/ Save(t) \/ Store(t) \/ ApplyInMemory(t) \/ CurrentLogSources(t)
ApplyStep(t) == \/ Unbuildable(t) \/ OpenFails(t) \/ Open(t)
                \/ RequestRoutes(t) \/ UpdateRoutes(t) \/ Swap(t)
                \/ CloseListener(t) \/ Closed(t) \/ Reconcile(t) \/ Serve(t)
WorkStep(w) == \/ ReadFrom(w) \/ Accept(w) \/ Track(w) \/ ServeConn(w)
               \/ Scan(w) \/ Untrack(w) \/ RouteMessage(w) \/ Append(w) \/ Record(w)

Next == \/ \E t \in Savers : SaveStep(t) \/ ApplyStep(t) \/ Close(t)
        \/ \E w \in Workers : WorkStep(w)

\* Every thread that can take a step takes one: goroutines are scheduled
\* fairly.  Nobody has to save, send, or connect, but what is under way goes on.
Fairness ==
    /\ \A t \in Savers : /\ WF_vars(Store(t) \/ ApplyInMemory(t) \/ CurrentLogSources(t))
                         /\ WF_vars(ApplyStep(t))
    /\ \A w \in Workers : WF_vars(Track(w) \/ ServeConn(w) \/ Untrack(w)
                                  \/ RouteMessage(w) \/ Append(w) \/ Record(w))

Spec == Init /\ [][Next]_vars /\ Fairness
-----------------------------------------------------------------------------
(* Properties *)

\* Outside Manager.mu the listeners and their routes are those of one
\* configuration, and a source said to be running is one of it: a
\* configuration that is refused, for a port in use say, changes no route.
OneConfiguration ==
    mgr = None =>
        \E cfg \in Configs \cup {{}} :
            /\ \A e \in Endpoints :
                   IF e \in Grouped(cfg)
                   THEN /\ listeners[e] # None
                        /\ listener[listeners[e]].bound
                        /\ listener[listeners[e]].routes = Group(cfg, e)
                   ELSE listeners[e] = None
            /\ \A i \in Ids : statuses[i] # None /\ statuses[i].running
                              => \E s \in Receiving(cfg) : s.id = i

\* A line is filed in the directory that the routes of its listener name for its
\* client at that moment, also while a save changes them: on a kept connection
\* no line goes to the old directory after the routes were updated.
FiledByItsRoute ==
    [][\A w \in Workers :
         worker[w].st = "writer" /\ worker'[w].st = "written"
         => worker[w].src = Match(listener[worker[w].at].routes, worker[w].client)]_vars

\* When the Close of a listener has returned, no connection of it is left open:
\* one accepted at that moment is refused or was closed with the others.
ClosedLetsGo ==
    \A l \in Listeners :
        /\ listener[l].closed /\ ~Udp(l)
        /\ \A t \in Savers : l \notin saver[t].todo
        => \A w \in AtWork(l) : worker[w].st = "accepted" \/ ~worker[w].open

\* A save that met no other and did not fail leaves the database, the memory and
\* the receiver with one and the same configuration.
QuietSaveIsApplied ==
    Busy = {} /\ ~overlap /\ ~undone =>
        /\ stored = settings
        /\ \A e \in Endpoints :
               IF e \in Grouped(settings)
               THEN /\ listeners[e] # None
                    /\ listener[listeners[e]].routes = Group(settings, e)
                    /\ listener[listeners[e]].serving
               ELSE listeners[e] = None

\* A save of settings takes effect: the request of it ends.
SaveTakesEffect == \A t \in Savers : saver[t].pc # "idle" ~> saver[t].pc = "idle"
=============================================================================
