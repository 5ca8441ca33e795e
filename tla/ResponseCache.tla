---------------------------- MODULE ResponseCache ----------------------------
(***************************************************************************)
(* ResponseCache: the cache of rankings and access trends.  Requests for a *)
(* key share one load; the loader works without the lock and puts what it  *)
(* computed into the entry it started from.  Reloads of the address data   *)
(* replace the engine that loaders read and then clear the cache, so an    *)
(* entry may have left the cache while it is being loaded.                 *)
(***************************************************************************)
EXTENDS Naturals

CONSTANTS
    None,
    Requests,        \* requests that may be under way, used again
    Keys,            \* cache keys: range and source
    Reloads,         \* reloads of the address data, used again
    Ttl,             \* ticks a value is fresh
    Retry,           \* ticks a failed load keeps the old value in use: a second
    MaxTime,         \* bound on the clock
    MaxEngines       \* bound on engines built

CacheAssumption ==
    /\ Ttl \in Nat \ {0} /\ Retry \in Nat \ {0} /\ MaxTime \in Nat /\ MaxEngines \in Nat
    /\ None \notin Requests

VARIABLES
    staleOnError,  \* TRUE for rankings, FALSE for access trends
    now,           \* the clock
    engine,        \* App.ipEngine
    engines,       \* engines built so far
    entries,       \* the entry under each key, NewEntry where there is none
    request,       \* where a request is and what it has in hand
    reload         \* where a reload is and the engine it found

cvars == <<staleOnError, now, engine, engines, entries, request, reload>>

Times == 0 .. MaxTime
\* loading names the request that loads the entry.  An entry that has left the cache
\* matters to that request only, and to those who wait for it.
NewEntry == [value |-> None, loadedAt |-> None, lastAttempt |-> None,
             loading |-> None, failed |-> FALSE]
Idle == [at |-> "idle", key |-> None, looked |-> None, awaits |-> None,
         cached |-> FALSE, got |-> None]

\* newResponseCache
CacheInit ==
    /\ staleOnError \in BOOLEAN
    /\ now = 0
    /\ engine = 0 /\ engines = 0
    /\ entries = [k \in Keys |-> NewEntry]
    /\ request = [r \in Requests |-> Idle]
    /\ reload = [l \in Reloads |-> [at |-> "idle", old |-> None]]

-----------------------------------------------------------------------------
Found(k) == entries[k]

Fresh(c, time) == c.loadedAt # None /\ time < c.loadedAt + Ttl
KeptOnError(c, time) ==
    staleOnError /\ c.failed /\ c.loadedAt # None /\ time < c.lastAttempt + Retry

\* A request comes in, or one that waited is woken: the clock is read before the lock.
Look(r, k) ==
    /\ \/ request[r].at = "idle"
       \/ request[r].at = "woken" /\ request[r].key = k
    /\ request' = [request EXCEPT ![r] = [Idle EXCEPT !.at = "looked", !.key = k, !.looked = now]]
    /\ UNCHANGED <<staleOnError, now, engine, engines, entries, reload>>

\* Somebody loads the entry already: wait for the end of that load.
Wait(r) ==
    LET k == request[r].key IN
    /\ request[r].at = "looked"
    /\ Found(k).loading # None
    /\ request' = [request EXCEPT ![r] = [@ EXCEPT !.at = "waiting", !.awaits = Found(k).loading]]
    /\ UNCHANGED <<staleOnError, now, engine, engines, entries, reload>>

\* The entry's value is the answer.
Serve(r) ==
    LET c == Found(request[r].key) IN
    /\ request[r].at = "looked"
    /\ c.loading = None
    /\ Fresh(c, request[r].looked) \/ KeptOnError(c, request[r].looked)
    /\ request' = [request EXCEPT ![r] = Idle]
    /\ UNCHANGED <<staleOnError, now, engine, engines, entries, reload>>

Loadable(c, time) == c.loading = None /\ ~Fresh(c, time) /\ ~KeptOnError(c, time)

BeginLoad(r) ==
    LET k == request[r].key IN
    /\ request[r].at = "looked"
    /\ Loadable(Found(k), request[r].looked)
    /\ entries' = [entries EXCEPT ![k].loading = r]
    /\ request' = [request EXCEPT ![r] = [@ EXCEPT !.at = "loading", !.cached = TRUE]]
    /\ UNCHANGED <<staleOnError, now, engine, engines, reload>>

\* The loader has its rows and takes the engine of this moment.
TakeEngine(r) ==
    /\ request[r].at = "loading"
    /\ request' = [request EXCEPT ![r] = [@ EXCEPT !.at = "computing", !.got = engine]]
    /\ UNCHANGED <<staleOnError, now, engine, engines, entries, reload>>

\* close(wait) wakes everyone who waits for this load.
Woken(r) ==
    [q \in Requests |->
        IF q = r THEN Idle
        ELSE IF request[q].at = "waiting" /\ request[q].awaits = r
             THEN [request[q] EXCEPT !.at = "woken", !.awaits = None]
             ELSE request[q]]

\* Mutant: the value is put under the key, whatever entry is there by now.
IntoByKey(r, c) == [entries EXCEPT ![request[r].key] = c]

\* The result goes to the entry the load started from, in the cache or not.
Into(r, c) == IF request[r].cached THEN [entries EXCEPT ![request[r].key] = c] ELSE entries

StoreValue(r) ==
    /\ request[r].at = "computing"
    /\ entries' = Into(r, [value |-> request[r].got, loadedAt |-> now, lastAttempt |-> now,
                           loading |-> None, failed |-> FALSE])
    /\ request' = Woken(r)
    /\ UNCHANGED <<staleOnError, now, engine, engines, reload>>

\* Mutant: a failed load wakes nobody.
StoreErrorOnly(r) ==
    /\ request[r].at = "loading"
    /\ entries' = Into(r, [Found(request[r].key) EXCEPT !.lastAttempt = now,
                                                         !.loading = None, !.failed = TRUE])
    /\ request' = [request EXCEPT ![r] = Idle]
    /\ UNCHANGED <<staleOnError, now, engine, engines, reload>>

\* The query failed or ran out of time.
StoreError(r) ==
    /\ request[r].at = "loading"
    /\ entries' = Into(r, [Found(request[r].key) EXCEPT !.lastAttempt = now,
                                                         !.loading = None, !.failed = TRUE])
    /\ request' = Woken(r)
    /\ UNCHANGED <<staleOnError, now, engine, engines, reload>>

\* The request's time is over while it waits.
GiveUp(r) ==
    /\ request[r].at = "waiting"
    /\ request' = [request EXCEPT ![r] = Idle]
    /\ UNCHANGED <<staleOnError, now, engine, engines, entries, reload>>

-----------------------------------------------------------------------------
\* reloadIPDataFromSettings reads the engine in use, builds the next from files
\* (which may fail and leave the one in use), puts it in place and clears the cache.
BeginReload(l) ==
    /\ reload[l].at = "idle"
    /\ engines < MaxEngines
    /\ reload' = [reload EXCEPT ![l] = [at |-> "building", old |-> engine]]
    /\ UNCHANGED <<staleOnError, now, engine, engines, entries, request>>

Place(l, e) ==
    /\ engine' = e
    /\ reload' = [reload EXCEPT ![l] = [at |-> "placed", old |-> None]]
    /\ UNCHANGED <<staleOnError, now, entries, request>>

Built(l) ==
    /\ reload[l].at = "building"
    /\ engines < MaxEngines
    /\ engines' = engines + 1
    /\ Place(l, engines')

NotBuilt(l) ==
    /\ reload[l].at = "building"
    /\ engines' = engines
    /\ Place(l, reload[l].old)

\* A new map; the entries that are being loaded are no longer of the cache.
Empty ==
    /\ entries' = [k \in Keys |-> NewEntry]
    /\ request' = [r \in Requests |-> [request[r] EXCEPT !.cached = FALSE]]

Clear(l) ==
    /\ reload[l].at = "placed"
    /\ Empty
    /\ reload' = [reload EXCEPT ![l] = [at |-> "idle", old |-> None]]
    /\ UNCHANGED <<staleOnError, now, engine, engines>>

PassTime ==
    /\ now < MaxTime
    /\ now' = now + 1
    /\ UNCHANGED <<staleOnError, engine, engines, entries, request, reload>>

RequestStep(r) ==
    \/ \E k \in Keys : Look(r, k)
    \/ Wait(r) \/ Serve(r) \/ BeginLoad(r) \/ TakeEngine(r) \/ StoreValue(r) \/ StoreError(r)
    \/ GiveUp(r)

ReloadStep(l) == BeginReload(l) \/ Built(l) \/ NotBuilt(l) \/ Clear(l)

CacheNext ==
    \/ \E r \in Requests : RequestStep(r)
    \/ \E l \in Reloads : ReloadStep(l)
    \/ PassTime

CacheSpec == CacheInit /\ [][CacheNext]_cvars

-----------------------------------------------------------------------------
Entry == [value : (0 .. MaxEngines) \cup {None}, loadedAt : Times \cup {None},
          lastAttempt : Times \cup {None}, loading : Requests \cup {None}, failed : BOOLEAN]
Request == [at : {"idle", "looked", "waiting", "woken", "loading", "computing"},
            key : Keys \cup {None}, looked : Times \cup {None},
            awaits : Requests \cup {None}, cached : BOOLEAN, got : (0 .. MaxEngines) \cup {None}]
Reload == [at : {"idle", "building", "placed"}, old : (0 .. MaxEngines) \cup {None}]

CacheTypeOK ==
    /\ staleOnError \in BOOLEAN
    /\ now \in Times
    /\ engines \in 0 .. MaxEngines /\ engine \in 0 .. engines
    /\ entries \in [Keys -> Entry]
    /\ request \in [Requests -> Request]
    /\ reload \in [Reloads -> Reload]

\* However requests, failures and clearings interleave, an entry of the cache is loaded
\* by one request at most, the one it names, and nobody waits for a load that no request
\* is busy with: a load that fails, and one whose entry has left the cache, wake their
\* waiters too.
SingleFlight ==
    \A r \in Requests :
        /\ request[r].cached => entries[request[r].key].loading = r
        /\ request[r].at = "waiting" =>
              request[request[r].awaits].at \in {"loading", "computing"}

\* When no reload is between its engine and its clearing, every answer the cache can
\* give was computed with the engine in use, although loads go on through a reload.
CacheIsOfThisEngine ==
    (\A l \in Reloads : reload[l].at # "placed") =>
        \A k \in Keys : Found(k).value \in {None, engine}
=============================================================================
