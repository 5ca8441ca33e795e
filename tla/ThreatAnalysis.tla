--------------------------- MODULE ThreatAnalysis ---------------------------
(***************************************************************************)
(* ThreatAnalysis: requests for the analysis of an address share a flight, *)
(* which asks the provider with the credential of the settings.  Updates   *)
(* of the settings encrypt credentials under a key they create in a file   *)
(* the first time; several may try at once.  One provider, one address.    *)
(***************************************************************************)
EXTENDS Naturals

CONSTANTS
    None,
    Callers,         \* requests for an analysis, used again
    Updates,         \* requests that update the provider, used again
    Kinds,           \* what they may ask for: enabled, and a credential kept, cleared or new
    MaxKeys,         \* bound on keys made
    MaxResults,      \* bound on analyses
    MaxFaults        \* bound on failures of files, database and provider, and on restarts

ThreatAssumption ==
    /\ Kinds \subseteq [enabled : BOOLEAN, credential : {"keep", "clear", "new"}]
    /\ MaxKeys \in Nat /\ MaxResults \in Nat /\ MaxFaults \in Nat
    /\ None \notin Nat /\ None \notin Callers

VARIABLES
    keyFile,       \* None, Short while it is written, or the number of a key
    keys,          \* keys made so far
    lostKey,       \* TRUE after a complete key was removed: Close failed
    update,        \* where an update is and what it carries
    settings,      \* the provider's settings in the database
    memory,        \* the same in App.settings
    flight,        \* the flight a caller has started, if it goes on
    caller,        \* what a caller waits for
    asked,         \* analyses made so far
    latest,        \* the newest row of threat_intelligence_results
    faultCount

tvars == <<keyFile, keys, lostKey, update, settings, memory, flight, caller, asked, latest,
           faultCount>>

\* A file whose key is not complete.
Short == 0
Keys == 1 .. MaxKeys
Settings == [enabled : BOOLEAN, credential : Keys \cup {None}]
NoUpdate == [at |-> "idle", enabled |-> FALSE, credential |-> "keep", key |-> None]
NoFlight == [at |-> "none", previous |-> 0, result |-> 0]

ThreatInit ==
    /\ keyFile = None /\ keys = 0 /\ lostKey = FALSE
    /\ update = [u \in Updates |-> NoUpdate]
    /\ settings = [enabled |-> FALSE, credential |-> None]
    /\ memory = settings
    /\ flight = [c \in Callers |-> NoFlight]
    /\ caller = [c \in Callers |-> None]
    /\ asked = 0 /\ latest = 0
    /\ faultCount = 0

Fault == faultCount < MaxFaults /\ faultCount' = faultCount + 1
NoFault == UNCHANGED faultCount

-----------------------------------------------------------------------------
\* Updates of the provider.
FlightSame == UNCHANGED <<flight, caller, asked, latest>>
StoreSame == UNCHANGED <<settings, memory>>
FileSame == UNCHANGED <<keyFile, keys, lostKey>>

To(u, place) == update' = [update EXCEPT ![u].at = place]
With(u, key) == update' = [update EXCEPT ![u].at = "saving", ![u].key = key]
Refused(u) == update' = [update EXCEPT ![u] = NoUpdate]

Update(u, kind) ==
    /\ update[u].at = "idle"
    /\ update' = [update EXCEPT ![u] =
                     [at |-> IF kind.credential = "new" THEN "reading" ELSE "saving",
                      enabled |-> kind.enabled, credential |-> kind.credential, key |-> None]]
    /\ FileSame /\ StoreSame /\ FlightSame /\ NoFault

\* loadOrCreateKey: use the key of the file, wait for one that is being written, or
\* go on to make one.
ReadKey(u) ==
    /\ update[u].at = "reading"
    /\ CASE keyFile \in Keys   -> With(u, keyFile)
         [] keyFile = Short -> To(u, "waiting")
         [] keyFile = None    -> To(u, "creating")
    /\ FileSame /\ StoreSame /\ FlightSame /\ NoFault

\* Mutant: the file is opened whether or not it is there.
OpenAnyway(u) ==
    /\ keyFile' = Short
    /\ To(u, "writing")

\* O_EXCL: only one creates the file, the others wait for its key.
OpenExclusive(u) ==
    IF keyFile = None
    THEN keyFile' = Short /\ To(u, "writing")
    ELSE UNCHANGED keyFile /\ To(u, "waiting")

CreateKey(u) ==
    /\ update[u].at = "creating"
    /\ keys < MaxKeys
    /\ OpenExclusive(u)
    /\ UNCHANGED <<keys, lostKey>>
    /\ StoreSame /\ FlightSame /\ NoFault

WriteKey(u) ==
    /\ update[u].at = "writing"
    /\ keys < MaxKeys
    /\ keys' = keys + 1 /\ keyFile' = keys'
    /\ update' = [update EXCEPT ![u].at = "closing", ![u].key = keys']
    /\ UNCHANGED lostKey
    /\ StoreSame /\ FlightSame /\ NoFault

\* A key that cannot be written or closed is removed.
RemoveKey(u) ==
    /\ update[u].at \in {"writing", "closing"}
    /\ Fault
    /\ keyFile' = None
    /\ lostKey' = (lostKey \/ update[u].at = "closing")
    /\ Refused(u)
    /\ UNCHANGED keys
    /\ StoreSame /\ FlightSame

CloseKey(u) ==
    /\ update[u].at = "closing"
    /\ With(u, update[u].key)
    /\ FileSame /\ StoreSame /\ FlightSame /\ NoFault

\* waitForCompleteKey ends with the key, or with an error once the file is gone or the
\* second is over.
WaitForKey(u) ==
    /\ update[u].at = "waiting"
    /\ IF keyFile \in Keys THEN With(u, keyFile) ELSE Refused(u)
    /\ FileSame /\ StoreSame /\ FlightSame /\ NoFault

\* The provider's settings after an update.
Updated(s, up) ==
    [enabled |-> up.enabled,
     credential |-> CASE up.credential = "keep"  -> s.credential
                      [] up.credential = "clear" -> None
                      [] up.credential = "new"   -> up.key]

\* SaveSettings writes key by key in any order: where it breaks off, some have been written.
PartlyUpdated(s, up) ==
    [enabled : {s.enabled, Updated(s, up).enabled},
     credential : {s.credential, Updated(s, up).credential}]

SaveUpdate(u) ==
    /\ update[u].at = "saving"
    /\ \/ settings' = Updated(settings, update[u]) /\ To(u, "applying") /\ NoFault
       \/ settings' \in PartlyUpdated(settings, update[u]) /\ Refused(u) /\ Fault
    /\ UNCHANGED memory
    /\ FileSame /\ FlightSame

ApplyUpdate(u) ==
    /\ update[u].at = "applying"
    /\ memory' = Updated(memory, update[u])
    /\ Refused(u)
    /\ UNCHANGED settings
    /\ FileSame /\ FlightSame /\ NoFault

-----------------------------------------------------------------------------
\* Analyses.
UpdateSame == UNCHANGED <<keyFile, keys, lostKey, update, settings, memory>>

Going == {c \in Callers : flight[c].at # "none"}

\* Mutant: every caller asks the provider itself.
JoinedNone == {}

\* The flight a new caller joins: DoChan starts one only if there is none.
Joined == Going

Analyze(c) ==
    /\ caller[c] = None
    /\ IF Joined # {}
       THEN caller' = [caller EXCEPT ![c] = CHOOSE f \in Joined : TRUE] /\ UNCHANGED flight
       ELSE /\ caller' = [caller EXCEPT ![c] = c]
            /\ flight' = [flight EXCEPT ![c] = [NoFlight EXCEPT !.at = "started"]]
    /\ UNCHANGED <<asked, latest>>
    /\ UpdateSame /\ NoFault

\* Mutant: only the caller that started the flight is answered.
EndToStarter(c) ==
    /\ flight' = [flight EXCEPT ![c] = NoFlight]
    /\ caller' = [caller EXCEPT ![c] = None]

\* The end of a flight is the answer of everyone who joined it.
End(c) ==
    /\ flight' = [flight EXCEPT ![c] = NoFlight]
    /\ caller' = [d \in Callers |-> IF caller[d] = c THEN None ELSE caller[d]]

\* analyzeOnce reads the result before it, then the settings.
ReadPrevious(c) ==
    /\ flight[c].at = "started"
    /\ flight' = [flight EXCEPT ![c] = [@ EXCEPT !.at = "read", !.previous = latest]]
    /\ UNCHANGED <<caller, asked, latest>>
    /\ UpdateSame /\ NoFault

Readable(credential) == credential # None /\ credential = keyFile

ReadConfig(c) ==
    /\ flight[c].at = "read"
    /\ IF memory.enabled /\ Readable(memory.credential)
       THEN flight' = [flight EXCEPT ![c].at = "asking"] /\ UNCHANGED caller
       ELSE End(c)
    /\ UNCHANGED <<asked, latest>>
    /\ UpdateSame /\ NoFault

Answered(c) ==
    /\ flight[c].at = "asking"
    /\ asked < MaxResults
    /\ asked' = asked + 1
    /\ flight' = [flight EXCEPT ![c] = [@ EXCEPT !.at = "answered", !.result = asked']]
    /\ UNCHANGED <<caller, latest>>
    /\ UpdateSame /\ NoFault

\* The row with the greatest analyzed_at is the one LatestResult finds.
SaveResult(c) ==
    /\ flight[c].at = "answered"
    /\ latest' = IF flight[c].result > latest THEN flight[c].result ELSE latest
    /\ End(c)
    /\ UNCHANGED asked
    /\ UpdateSame /\ NoFault

\* A query or the provider fails, or the 15 seconds of the flight are over; the result
\* may have been saved although the insert failed.
FlightFails(c) ==
    /\ flight[c].at \in {"started", "asking", "answered"}
    /\ End(c)
    /\ latest' \in {latest} \cup (IF flight[c].at = "answered" THEN {flight[c].result} ELSE {})
    /\ UNCHANGED asked
    /\ UpdateSame /\ NoFault

\* The process dies, in a save perhaps, and starts again with the settings of the database.
Restart ==
    /\ Fault
    /\ update' = [u \in Updates |-> NoUpdate]
    /\ settings' \in {settings} \cup
          UNION {PartlyUpdated(settings, update[u]) : u \in {v \in Updates : update[v].at = "saving"}}
    /\ memory' = settings'
    /\ flight' = [c \in Callers |-> NoFlight]
    /\ caller' = [c \in Callers |-> None]
    /\ FileSame
    /\ UNCHANGED <<asked, latest>>

UpdateStep(u) ==
    \/ \E kind \in Kinds : Update(u, kind)
    \/ ReadKey(u) \/ CreateKey(u) \/ WriteKey(u) \/ RemoveKey(u) \/ CloseKey(u) \/ WaitForKey(u)
    \/ SaveUpdate(u) \/ ApplyUpdate(u)

FlightStep(c) ==
    ReadPrevious(c) \/ ReadConfig(c) \/ Answered(c) \/ SaveResult(c) \/ FlightFails(c)

ThreatNext ==
    \/ \E u \in Updates : UpdateStep(u)
    \/ \E c \in Callers : Analyze(c) \/ FlightStep(c)
    \/ Restart

ThreatSpec == ThreatInit /\ [][ThreatNext]_tvars

\* A flight ends within its time: it is bounded by callCtx.
ThreatFairness == \A c \in Callers : WF_tvars(FlightStep(c))

-----------------------------------------------------------------------------
UpdateState == [at : {"idle", "reading", "waiting", "creating", "writing", "closing", "saving",
                      "applying"},
                enabled : BOOLEAN, credential : {"keep", "clear", "new"}, key : Keys \cup {None}]
FlightState == [at : {"none", "started", "read", "asking", "answered"},
                previous : 0 .. MaxResults, result : 0 .. MaxResults]

ThreatTypeOK ==
    /\ keyFile \in Keys \cup {None, Short}
    /\ keys \in 0 .. MaxKeys /\ lostKey \in BOOLEAN
    /\ update \in [Updates -> UpdateState]
    /\ settings \in Settings /\ memory \in Settings
    /\ flight \in [Callers -> FlightState]
    /\ caller \in [Callers -> Callers \cup {None}]
    /\ asked \in 0 .. MaxResults /\ latest \in 0 .. MaxResults
    /\ faultCount \in 0 .. MaxFaults

\* A credential that was saved can be decrypted, although several updates may have tried
\* to make the key, one of them may have failed and the process may have died half way:
\* the key in the file is the one it was encrypted under.  Only a failing Close takes a
\* key away that others have read.
SavedCredentialsAreReadable ==
    ~lostKey => \A c \in {settings.credential, memory.credential} : c # None => c = keyFile

\* The previous result a flight hands out with its own is the newest one until it saves
\* its own: no other flight for the address gets in between.
PreviousIsLatest ==
    \A c \in Callers : flight[c].at \in {"read", "asking", "answered"} => flight[c].previous = latest

\* Everyone who joins a flight is answered, with or without a result.
EveryCallerIsAnswered == \A c \in Callers : caller[c] # None ~> caller[c] = None
=============================================================================
