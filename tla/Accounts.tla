------------------------------ MODULE Accounts ------------------------------
(***************************************************************************)
(* The administrator's account: its password, the second factor with its   *)
(* recovery codes, and the session tokens.  Each has a copy in memory,     *)
(* which decides, and one in the settings of the database, which the next  *)
(* start loads.  Requests run concurrently and take App.mu for single      *)
(* reads and writes only; a used recovery code is saved by a goroutine of  *)
(* its own.  Saves may fail and the server may be started again at any     *)
(* moment.                                                                 *)
(*                                                                         *)
(* Passwords and codes are compared, never computed: a request has a right *)
(* code or is turned away.  Code sets and secrets are numbered as they are *)
(* generated.  The limiter of failed logins is LoginLimiter.               *)
(***************************************************************************)
EXTENDS Integers, FiniteSets, FiniteSetsExt, Functions

CONSTANTS
    Requests,       \* requests served at a time
    Passwords,
    CodesPerSet,    \* the argument of GenerateRecoveryCodes
    MaxRequests, MaxSets, MaxFaults,    \* bounds; a restart is a fault
    None

ASSUME CountsAssumption ==
    /\ CodesPerSet \in Nat \ {0}
    /\ {MaxRequests, MaxSets, MaxFaults} \subseteq Nat
ASSUME NoneAssumption == None \notin Passwords \cup Requests

VARIABLES
    db, mem,        \* the account in the settings and in memory
    pending,        \* mfaPendingSecret
    challenges,     \* mfaChallenges, each fresh or past its time
    keyKept,        \* whether the signing key is in a file
    version, boot,  \* JWTManager.version, and the process it belongs to
    tokens,         \* tokens given out
    setupMu,        \* holder of setupMu
    req,            \* requests
    saves,          \* saves of persistRecoveryHashes under way
    sets,           \* secrets and code sets generated
    uses, admitted, \* admissions by each code in this process, by each request
    setups,         \* successes of setupHandler
    overlap, undone,    \* saves met, or one of them came to nothing
    requests, faults

account == <<db, mem, pending, saves, sets, overlap, undone>>
session == <<challenges, keyKept, version, boot, tokens, uses, admitted>>
vars == <<account, session, setupMu, req, setups, requests, faults>>

Secrets == 0..MaxSets          \* 0: none
Codes   == (1..MaxSets) \X (1..CodesPerSet)
CodeSet(n) == {n} \X (1..CodesPerSet)

Account == [hash : Passwords \cup {None}, enabled : BOOLEAN, secret : Secrets,
            codes : SUBSET Codes]
Empty   == [hash |-> None, enabled |-> FALSE, secret |-> 0, codes |-> {}]
Token   == [boot : Nat, ver : Nat]

\* op and pc: the handler and how far it is; val: what it is about to save;
\* by: the number of the request, or of the one that made the challenge it has.
NoRequest == [op |-> "none", pc |-> "none", val |-> Empty, by |-> 0]
Request   == [op : {"none", "setup", "password", "login", "enable", "disable",
                    "codes"},
              pc : {"none", "lock", "save", "memory", "clear", "invalidate", "mode",
                    "verify", "issue"},
              val : Account, by : 0..MaxRequests]

TypeOK ==
    /\ {db, mem} \subseteq Account
    /\ pending \in Secrets /\ sets \in Secrets
    /\ \E S \in SUBSET (1..MaxRequests) : challenges \in [S -> BOOLEAN]
    /\ keyKept \in BOOLEAN
    /\ version \in Nat /\ boot \in Nat
    /\ tokens \subseteq Token
    /\ setupMu \in Requests \cup {None}
    /\ req \in [Requests -> Request]
    /\ saves \subseteq SUBSET Codes
    /\ uses \in [Codes -> Nat] /\ admitted \in [1..MaxRequests -> Nat]
    /\ setups \in Nat
    /\ {overlap, undone} \subseteq BOOLEAN
    /\ requests \in 0..MaxRequests /\ faults \in 0..MaxFaults

\* Mutant: the codes are not read back.
LoadedWithoutCodes(a) == [a EXCEPT !.enabled = @ /\ a.secret # 0, !.codes = {}]

\* applySavedSettingsLocked and loadMFASettingsLocked: a factor without its
\* secret is off.
Loaded(a) == [a EXCEPT !.enabled = @ /\ a.secret # 0]

Init ==
    /\ db = Empty /\ mem = Empty
    /\ pending = 0 /\ sets = 0
    /\ challenges = << >>
    /\ keyKept \in BOOLEAN
    /\ version = 0 /\ boot = 0
    /\ tokens = {}
    /\ setupMu = None
    /\ req = [r \in Requests |-> NoRequest]
    /\ saves = {}
    /\ uses = [c \in Codes |-> 0] /\ admitted = [n \in 1..MaxRequests |-> 0]
    /\ setups = 0
    /\ overlap = FALSE /\ undone = FALSE
    /\ requests = 0 /\ faults = 0

Fault == faults < MaxFaults /\ faults' = faults + 1

\* Parse: signed with the key of this process, and of its version.
Accepted(t) == (t.boot = boot \/ keyKept) /\ t.ver = version

Saving == {r \in Requests : req[r].pc \in {"save", "memory", "clear"}}

Begin(r, op, pc, val) ==
    /\ req[r].op = "none" /\ requests < MaxRequests
    /\ requests' = requests + 1
    /\ req' = [req EXCEPT ![r] = [NoRequest EXCEPT !.op = op, !.pc = pc,
                                     !.val = val, !.by = requests + 1]]
End(r) == req' = [req EXCEPT ![r] = NoRequest]
To(r, pc) == req' = [req EXCEPT ![r].pc = pc]

-----------------------------------------------------------------------------
(* The first password, and its change *)

Setup(r) ==
    /\ \E p \in Passwords : Begin(r, "setup", "lock", [Empty EXCEPT !.hash = p])
    /\ UNCHANGED <<account, session, setupMu, setups, faults>>

\* Saves of the account meet when one begins while another is under way.
Meet == overlap' = (overlap \/ Saving # {} \/ saves # {})

\* Mutant: only the state before setupMu was looked at.
LockSetupUnchecked(r) ==
    /\ req[r].op = "setup" /\ req[r].pc = "lock" /\ setupMu = None
    /\ To(r, "save") /\ setupMu' = r /\ Meet
    /\ UNCHANGED <<db, mem, pending, saves, sets, undone, session, setups,
                   requests, faults>>

LockSetup(r) ==
    /\ req[r].op = "setup" /\ req[r].pc = "lock" /\ setupMu = None
    /\ IF mem.hash # None
       THEN End(r) /\ UNCHANGED <<setupMu, overlap>>
       ELSE To(r, "save") /\ setupMu' = r /\ Meet
    /\ UNCHANGED <<db, mem, pending, saves, sets, undone, session, setups,
                   requests, faults>>

\* A request with a valid token and the current password.
ChangePassword(r) ==
    /\ \E t \in tokens : Accepted(t)
    /\ mem.hash # None
    /\ \E p \in Passwords : Begin(r, "password", "save", [Empty EXCEPT !.hash = p])
    /\ Meet
    /\ UNCHANGED <<db, mem, pending, saves, sets, undone, session, setupMu,
                   setups, faults>>

-----------------------------------------------------------------------------
(* The second factor *)

MfaSetup ==
    /\ \E t \in tokens : Accepted(t)
    /\ sets < MaxSets /\ sets' = sets + 1
    /\ pending' = sets + 1
    /\ UNCHANGED <<db, mem, saves, overlap, undone, session, setupMu, req, setups,
                   requests, faults>>

\* The codes of the new set; the secret is what the handler read.
Renewed(secret) == [Empty EXCEPT !.enabled = TRUE, !.secret = secret,
                                 !.codes = CodeSet(sets + 1)]

Enable(r) ==
    /\ \E t \in tokens : Accepted(t)
    /\ pending # 0
    /\ sets < MaxSets /\ sets' = sets + 1
    /\ Begin(r, "enable", "save", Renewed(pending))
    /\ Meet
    /\ UNCHANGED <<db, mem, pending, saves, undone, session, setupMu, setups, faults>>

Disable(r) ==
    /\ \E t \in tokens : Accepted(t)
    /\ mem.secret # 0
    /\ Begin(r, "disable", "save", Empty)
    /\ Meet
    /\ UNCHANGED <<db, mem, pending, saves, sets, undone, session, setupMu, setups,
                   faults>>

RecoveryCodes(r) ==
    /\ \E t \in tokens : Accepted(t)
    /\ mem.secret # 0
    /\ sets < MaxSets /\ sets' = sets + 1
    /\ Begin(r, "codes", "save", Renewed(mem.secret))
    /\ Meet
    /\ UNCHANGED <<db, mem, pending, saves, undone, session, setupMu, setups, faults>>

-----------------------------------------------------------------------------
(* Saves, and what follows them *)

\* What a request's save changes of an account: the password, or the factor.
Changed(a, r) ==
    IF req[r].op \in {"setup", "password"}
    THEN [a EXCEPT !.hash = req[r].val.hash]
    ELSE [req[r].val EXCEPT !.hash = a.hash]

SaveSettings(r) ==
    /\ req[r].pc = "save"
    /\ db' = Changed(db, r)
    /\ To(r, "memory")
    /\ UNCHANGED <<mem, pending, saves, sets, overlap, undone, session, setupMu,
                   setups, requests, faults>>

\* SaveSettings writes key by key in any order: where it breaks off, some have been written.
PartlyChanged(a, r) ==
    [hash : {a.hash, Changed(a, r).hash}, enabled : {a.enabled, Changed(a, r).enabled},
     secret : {a.secret, Changed(a, r).secret}, codes : {a.codes, Changed(a, r).codes}]

\* The request ends with an error before anything in memory has changed.
SaveFails(r) ==
    /\ req[r].pc = "save" /\ Fault
    /\ db' \in PartlyChanged(db, r)
    /\ End(r)
    /\ undone' = TRUE
    /\ setupMu' = IF setupMu = r THEN None ELSE setupMu
    /\ UNCHANGED <<mem, pending, saves, sets, overlap, session, setups, requests>>

ApplyInMemory(r) ==
    /\ req[r].pc = "memory"
    /\ mem' = Changed(mem, r)
    /\ CASE req[r].op = "enable" -> To(r, "clear")
         [] req[r].op \in {"password", "disable"} -> To(r, "invalidate")
         [] req[r].op \in {"setup", "codes"} -> End(r)
    /\ setups' = setups + (IF req[r].op = "setup" THEN 1 ELSE 0)
    /\ setupMu' = IF setupMu = r THEN None ELSE setupMu
    /\ UNCHANGED <<db, pending, saves, sets, overlap, undone, session, requests, faults>>

\* mfaEnable forgets the secret it enabled, or the one of a setup since.
ClearPending(r) ==
    /\ req[r].pc = "clear"
    /\ pending' = 0
    /\ End(r)
    /\ UNCHANGED <<db, mem, saves, sets, overlap, undone, session, setupMu, setups,
                   requests, faults>>

\* Mutant: the version is one bit wide.
InvalidateAllWraps == version' = (version + 1) % 2

InvalidateAll == version' = version + 1

InvalidateSessions(r) ==
    /\ req[r].pc = "invalidate"
    /\ InvalidateAll
    /\ End(r)
    /\ UNCHANGED <<account, challenges, boot, tokens, uses, admitted, keyKept,
                   setupMu, setups, requests, faults>>

Logout(r) ==
    /\ \E t \in tokens : Accepted(t)
    /\ Begin(r, "login", "invalidate", Empty)
    /\ UNCHANGED <<account, session, setupMu, setups, faults>>

\* A goroutine of verifyMFACode saves the codes that were left then.
PersistRecoveryHashes ==
    \E left \in saves :
        /\ saves' = saves \ {left}
        /\ \/ db' = [db EXCEPT !.codes = left] /\ UNCHANGED <<undone, faults>>
           \/ Fault /\ undone' = TRUE /\ UNCHANGED db
        /\ UNCHANGED <<mem, pending, sets, overlap, session, setupMu, req, setups,
                       requests>>

-----------------------------------------------------------------------------
(* Logging in *)

\* The password is right.  With mode "" the second factor is asked for next.
LoginPassword(r) ==
    /\ mem.hash # None
    /\ \E pc \in {"mode", "issue"} : Begin(r, "login", pc, Empty)
    /\ UNCHANGED <<account, session, setupMu, setups, faults>>

\* A challenge is stored when the factor is on, and those past their time go.
Challenge(r) ==
    /\ req[r].pc = "mode"
    /\ IF mem.enabled /\ mem.secret # 0
       THEN /\ challenges' = [n \in {m \in DOMAIN challenges : challenges[m]}
                                     \cup {req[r].by} |-> TRUE]
            /\ End(r)
       ELSE To(r, "issue") /\ UNCHANGED challenges
    /\ UNCHANGED <<account, version, boot, tokens, uses, admitted, keyKept, setupMu, setups,
                   requests, faults>>

\* Mutant: the challenge stays until it expires.
ConsumeChallengeLater(r) ==
    \E n \in DOMAIN challenges :
        /\ req[r].op = "none" /\ requests < MaxRequests /\ challenges[n]
        /\ requests' = requests + 1
        /\ req' = [req EXCEPT ![r] = [NoRequest EXCEPT
                        !.op = "login", !.pc = "verify", !.by = n]]
        /\ UNCHANGED <<account, session, setupMu, setups, faults>>

\* A challenge is used up by the first request that names it.
ConsumeChallenge(r) ==
    \E n \in DOMAIN challenges :
        /\ req[r].op = "none" /\ requests < MaxRequests
        /\ requests' = requests + 1
        /\ challenges' = Restrict(challenges, DOMAIN challenges \ {n})
        /\ IF challenges[n]
           THEN req' = [req EXCEPT ![r] = [NoRequest EXCEPT
                            !.op = "login", !.pc = "verify", !.by = n]]
           ELSE UNCHANGED req
        /\ UNCHANGED <<account, version, boot, tokens, uses, admitted, keyKept, setupMu,
                       setups, faults>>

LoginMfa(r) ==
    /\ mem.enabled /\ mem.secret # 0
    /\ Begin(r, "login", "verify", Empty)
    /\ UNCHANGED <<account, session, setupMu, setups, faults>>

\* Mutant: the list is saved shorter, but stays as it is.
ConsumedNowhere(c) == mem.codes

\* ConsumeRecoveryCode under App.mu, then a save of what is left.
Consumed(c) == mem.codes \ {c}

\* verifyMFACode with a right code: of the secret, or a recovery code.  A wrong
\* one ends the request.
VerifyCode(r) ==
    /\ req[r].pc = "verify"
    /\ \/ /\ mem.secret # 0
          /\ UNCHANGED <<mem, saves, uses, overlap>>
       \/ \E c \in mem.codes :
              /\ mem' = [mem EXCEPT !.codes = Consumed(c)]
              /\ saves' = saves \cup {Consumed(c)}
              /\ uses' = [uses EXCEPT ![c] = @ + 1]
              /\ Meet
    /\ To(r, "issue")
    /\ UNCHANGED <<db, pending, sets, undone, challenges, version, boot, tokens,
                   admitted, keyKept, setupMu, setups, requests, faults>>

WrongCode(r) ==
    /\ req[r].pc = "verify"
    /\ End(r)
    /\ UNCHANGED <<account, session, setupMu, setups, requests, faults>>

IssueJWT(r) ==
    /\ req[r].pc = "issue"
    /\ tokens' = tokens \cup {[boot |-> boot, ver |-> version]}
    /\ admitted' = [admitted EXCEPT ![req[r].by] = @ + 1]
    /\ End(r)
    /\ UNCHANGED <<account, challenges, version, boot, uses, keyKept, setupMu, setups,
                   requests, faults>>

-----------------------------------------------------------------------------
(* Time and restarts *)

Expire ==
    /\ \E n \in DOMAIN challenges : challenges[n]
    /\ challenges' = [n \in DOMAIN challenges |-> FALSE]
    /\ UNCHANGED <<account, version, boot, tokens, uses, admitted, keyKept, setupMu, req,
                   setups, requests, faults>>

\* The server is started again: what was under way is lost, a save perhaps half done.
Restart ==
    /\ Fault
    /\ overlap' = FALSE /\ undone' = FALSE
    /\ db' \in {db} \cup UNION {PartlyChanged(db, r) : r \in {q \in Requests : req[q].pc = "save"}}
    /\ mem' = Loaded(db')
    /\ pending' = 0 /\ saves' = {}
    /\ challenges' = << >>
    /\ version' = 0 /\ boot' = boot + 1
    /\ uses' = [c \in Codes |-> 0]
    /\ setupMu' = None
    /\ req' = [r \in Requests |-> NoRequest]
    /\ UNCHANGED <<sets, keyKept, tokens, admitted, setups, requests>>

-----------------------------------------------------------------------------
Change(r) == \/ Setup(r) \/ LockSetup(r) \/ ChangePassword(r) \/ Enable(r)
             \/ Disable(r) \/ RecoveryCodes(r) \/ SaveSettings(r) \/ SaveFails(r)
             \/ ApplyInMemory(r) \/ ClearPending(r) \/ InvalidateSessions(r)
Login(r)  == \/ LoginPassword(r) \/ Challenge(r) \/ ConsumeChallenge(r)
             \/ LoginMfa(r) \/ VerifyCode(r) \/ WrongCode(r) \/ IssueJWT(r)
             \/ Logout(r)

Next == \/ \E r \in Requests : Change(r) \/ Login(r)
        \/ MfaSetup \/ PersistRecoveryHashes \/ Expire \/ Restart

Spec == Init /\ [][Next]_vars

-----------------------------------------------------------------------------
(* Properties *)

\* Between two starts a recovery code admits once, whoever names it at the same
\* time; sets made anew and saves in the background bring no used code back.
OneUsePerStart == \A c \in Codes : uses[c] <= 1

\* A check of the password admits once: by the token that follows it, or by one
\* use of the challenge it gave, whatever the requests that name the challenge.
OneAdmissionPerPassword == \A n \in 1..MaxRequests : admitted[n] <= 1

\* A token that is not accepted any more, since a logout, a change of the
\* password or the end of the second factor, is not accepted again by the process
\* that gave it out, nor by a later one when each has a key of its own.  (With a
\* key that is kept the versions start again at 0, and it may be.)
RejectedStaysRejected ==
    [][\A t \in tokens : (t.boot = boot /\ boot' = boot) \/ ~keyKept
                         => (~Accepted(t) => ~Accepted(t)')]_vars

\* Two setups at once, or one after a restart, create one administrator.
OneSetup == setups <= 1

\* When no save is under way, none met another and none failed, the next start
\* loads what the memory has.
QuietAccountIsSaved ==
    Saving = {} /\ saves = {} /\ ~overlap /\ ~undone => mem = Loaded(db)
=============================================================================
