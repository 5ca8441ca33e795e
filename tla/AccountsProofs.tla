---------------------------- MODULE AccountsProofs ----------------------------
(***************************************************************************)
(* Proofs about Accounts: its type invariant, that codes, checks of the    *)
(* password and the first setup count once, that a rejected token stays    *)
(* rejected, and that what is in memory is saved.                          *)
(***************************************************************************)
EXTENDS Accounts, TLAPS

Writing(r) == req[r].pc \in {"save", "memory"}

\* A handler with a save is at one of its steps, with a value to save.
Handlers ==
    \A r \in Requests :
        /\ req[r].op = "setup" => req[r].pc \in {"lock", "save", "memory"}
        /\ req[r].op = "setup" => req[r].val.codes = {} /\ ~req[r].val.enabled
        /\ req[r].op = "password" => req[r].pc \in {"save", "memory", "invalidate"}
        /\ req[r].op \in {"setup", "password"} => req[r].val.hash # None
        /\ req[r].op \in {"enable", "codes", "disable"} =>
             req[r].pc \in {"save", "memory", "clear", "invalidate"}
        /\ req[r].op = "login" => ~Writing(r) /\ req[r].pc # "clear"
        /\ req[r].op = "none" => req[r].pc = "none"

\* One request at most is past the lock of the first setup, and only without a password.
Setups ==
    /\ setups <= 1 /\ (setups = 1 => mem.hash # None)
    /\ mem.hash # None => db.hash # None
    /\ \A r \in Requests :
         /\ req[r].op = "setup" /\ Writing(r) =>
              setupMu = r /\ mem.hash = None /\ setups = 0
         /\ req[r].op = "setup" /\ req[r].pc = "memory" => db.hash # None
         /\ req[r].op = "password" => mem.hash # None

Made == (1..sets) \X (1..CodesPerSet)

\* Codes of a set yet to come into force are new, and those in force unused.
FreshCodes ==
    /\ db.codes \subseteq Made /\ mem.codes \subseteq Made
    /\ \A left \in saves : left \subseteq Made
    /\ \A c \in Codes : uses[c] <= 1 /\ (uses[c] # 0 => c \in Made \ mem.codes)
    /\ \A r \in Requests : Writing(r) =>
         /\ req[r].val.codes \subseteq Made \ mem.codes
         /\ \A c \in req[r].val.codes : uses[c] = 0
         /\ \A s \in Requests \ {r} :
              Writing(s) => req[r].val.codes \intersect req[s].val.codes = {}

Entering(r) == req[r].op = "login" /\ req[r].pc \in {"mode", "verify", "issue"}

\* A check of the password is a request on its way in, a challenge, or an admission.
Checks ==
    /\ DOMAIN challenges \subseteq 1..requests
    /\ \A n \in DOMAIN challenges : admitted[n] = 0
    /\ \A n \in 1..MaxRequests : admitted[n] <= 1 /\ (admitted[n] # 0 => n <= requests)
    /\ \A r \in Requests : Entering(r) =>
         /\ req[r].by \in 1..requests /\ req[r].by \notin DOMAIN challenges
         /\ admitted[req[r].by] = 0
         /\ \A s \in Requests \ {r} : Entering(s) => req[s].by # req[r].by

\* Tokens are of this process or an earlier one, and of its version or an earlier one.
Issued == \A t \in tokens : t.boot <= boot /\ (t.boot = boot => t.ver <= version)

\* Alone, a save leaves memory and settings apart for a moment only.
Together ==
    /\ mem.enabled => mem.secret # 0
    /\ \A r \in Requests : Writing(r) /\ req[r].val.enabled => req[r].val.secret # 0
    /\ ~overlap /\ ~undone =>
         /\ \A r, s \in Saving : r = s
         /\ Saving # {} => saves = {}
         /\ \A left \in saves : saves = {left} /\ mem = Loaded([db EXCEPT !.codes = left])
         /\ saves = {} => \A r \in Saving : req[r].pc # "memory" => mem = Loaded(db)
         /\ \A r \in Saving : req[r].pc = "memory" => Changed(mem, r) = Loaded(db)
         /\ Saving = {} /\ saves = {} => mem = Loaded(db)

-----------------------------------------------------------------------------
(* Types. *)

LEMMA EmptyIsAccount == Empty \in Account /\ Empty.codes = {} /\ ~Empty.enabled /\ NoRequest \in Request
                        /\ NoRequest.op = "none" /\ NoRequest.pc = "none"
<1>1. Empty \in Account
  BY CountsAssumption DEF Empty, Account, Secrets
<1> QED
  BY <1>1, CountsAssumption DEF Empty, NoRequest, Request

LEMMA BeginEffect ==
    ASSUME TypeOK, NEW r \in Requests, NEW op, NEW pc, NEW val \in Account,
           op \in {"setup", "password", "login", "enable", "disable", "codes"},
           pc \in {"lock", "save", "invalidate", "mode", "verify", "issue"},
           Begin(r, op, pc, val)
    PROVE  /\ req' \in [Requests -> Request]
           /\ req[r].op = "none"
           /\ req'[r].op = op /\ req'[r].pc = pc /\ req'[r].val = val /\ req'[r].by = requests + 1
           /\ \A s \in Requests \ {r} : req'[s] = req[s]
           /\ requests' = requests + 1 /\ requests' \in 1..MaxRequests
           /\ requests \in Nat
<1> DEFINE new == [NoRequest EXCEPT !.op = op, !.pc = pc, !.val = val, !.by = requests + 1]
<1>1. requests \in 0..MaxRequests /\ requests < MaxRequests /\ MaxRequests \in Nat
  BY CountsAssumption DEF TypeOK, Begin
<1>2. req[r].op = "none" /\ requests' = requests + 1 /\ req' = [req EXCEPT ![r] = new]
  BY DEF Begin
<1>3. NoRequest \in Request /\ requests + 1 \in 0..MaxRequests
  BY <1>1, EmptyIsAccount
<1>4. new \in Request /\ new.op = op /\ new.pc = pc /\ new.val = val /\ new.by = requests + 1
  BY <1>3 DEF Request
<1> HIDE DEF new
<1> QED
  BY <1>1, <1>2, <1>4 DEF TypeOK

LEMMA EndEffect ==
    ASSUME TypeOK, NEW r \in Requests, End(r)
    PROVE  /\ req' \in [Requests -> Request]
           /\ req'[r] = NoRequest
           /\ \A s \in Requests \ {r} : req'[s] = req[s]
BY EmptyIsAccount DEF TypeOK, End

LEMMA ToEffect ==
    ASSUME TypeOK, NEW r \in Requests, NEW pc, To(r, pc),
           pc \in {"save", "memory", "clear", "invalidate", "issue"}
    PROVE  /\ req' \in [Requests -> Request]
           /\ req'[r].op = req[r].op /\ req'[r].pc = pc
           /\ req'[r].val = req[r].val /\ req'[r].by = req[r].by
           /\ \A s \in Requests \ {r} : req'[s] = req[s]
<1>1. req \in [Requests -> Request] /\ req[r] \in Request
  BY DEF TypeOK
<1>2. req' = [req EXCEPT ![r] = [req[r] EXCEPT !.pc = pc]]
  BY DEF To
<1>3. [req[r] EXCEPT !.pc = pc] \in Request
  BY <1>1 DEF Request
<1>4. /\ [req[r] EXCEPT !.pc = pc].op = req[r].op /\ [req[r] EXCEPT !.pc = pc].pc = pc
      /\ [req[r] EXCEPT !.pc = pc].val = req[r].val /\ [req[r] EXCEPT !.pc = pc].by = req[r].by
  BY <1>1 DEF Request
<1> QED
  BY <1>1, <1>2, <1>3, <1>4

\* What a save writes is an account with the request's password, or its factor.
LEMMA ChangedEffect ==
    ASSUME TypeOK, NEW r \in Requests, NEW a \in Account
    PROVE  /\ Changed(a, r) \in Account
           /\ req[r].op \in {"setup", "password"} =>
                /\ Changed(a, r).hash = req[r].val.hash /\ Changed(a, r).codes = a.codes
                /\ Changed(a, r).enabled = a.enabled /\ Changed(a, r).secret = a.secret
           /\ req[r].op \notin {"setup", "password"} =>
                /\ Changed(a, r).hash = a.hash /\ Changed(a, r).codes = req[r].val.codes
                /\ Changed(a, r).enabled = req[r].val.enabled
                /\ Changed(a, r).secret = req[r].val.secret
<1>1. req[r].val \in Account
  BY DEF TypeOK, Request
<1>2. CASE req[r].op \in {"setup", "password"}
  BY <1>1, <1>2 DEF Changed, Account
<1>3. CASE req[r].op \notin {"setup", "password"}
  BY <1>1, <1>3 DEF Changed, Account
<1> QED
  BY <1>2, <1>3

IInv == TypeOK /\ Handlers /\ Setups /\ FreshCodes /\ Checks /\ Issued /\ Together

LEMMA FaultIsTyped == ASSUME TypeOK, Fault \/ UNCHANGED faults PROVE faults' \in 0..MaxFaults
BY CountsAssumption DEF TypeOK, Fault

\* An account that is saved has a password, or codes that are new, or none.
Renewing(val) ==
    \/ val.codes = {} /\ sets' = sets
    \/ val.codes = CodeSet(sets + 1) /\ sets' = sets + 1 /\ sets < MaxSets

\* The requests that begin.
Begins(r) == Setup(r) \/ ChangePassword(r) \/ Enable(r) \/ Disable(r) \/ RecoveryCodes(r)
             \/ Logout(r) \/ LoginPassword(r) \/ LoginMfa(r)

LEMMA BeginsEffect ==
    ASSUME TypeOK, NEW r \in Requests, Begins(r)
    PROVE  /\ req' \in [Requests -> Request]
           /\ req[r].op = "none" /\ \A s \in Requests \ {r} : req'[s] = req[s]
           /\ req'[r].by = requests + 1 /\ requests' = requests + 1
           /\ requests' \in 1..MaxRequests /\ requests \in Nat
           /\ \/ /\ req'[r].op = "setup" /\ req'[r].pc = "lock" /\ req'[r].val.hash # None
                 /\ req'[r].val.codes = {} /\ ~req'[r].val.enabled
              \/ /\ req'[r].op = "password" /\ req'[r].pc = "save" /\ req'[r].val.hash # None
                 /\ mem.hash # None
              \/ req'[r].op \in {"enable", "disable", "codes"} /\ req'[r].pc = "save"
              \/ req'[r].op = "login" /\ req'[r].pc \in {"invalidate", "mode", "issue", "verify"}
           /\ Renewing(req'[r].val) /\ sets' \in Secrets
           /\ req'[r].val.enabled => req'[r].val.secret # 0
           /\ IF req'[r].pc = "save" THEN Meet ELSE UNCHANGED overlap
           /\ UNCHANGED <<db, mem, pending, saves, undone, session, setupMu, setups, faults>>
<1>1. PICK op, pc, val :
         /\ Begin(r, op, pc, val) /\ val \in Account
         /\ \/ /\ op = "setup" /\ pc = "lock" /\ val.hash # None
               /\ val.codes = {} /\ ~val.enabled
            \/ op = "password" /\ pc = "save" /\ val.hash # None /\ mem.hash # None
            \/ op \in {"enable", "disable", "codes"} /\ pc = "save"
            \/ op = "login" /\ pc \in {"invalidate", "mode", "issue", "verify"}
         /\ Renewing(val)
         /\ val.enabled => val.secret # 0
         /\ IF pc = "save" THEN Meet ELSE UNCHANGED overlap
  <2>1. ASSUME NEW p \in Passwords
        PROVE  LET a == [Empty EXCEPT !.hash = p]
               IN  a \in Account /\ a.hash # None /\ a.codes = {} /\ ~a.enabled
    BY EmptyIsAccount, NoneAssumption DEF Account
  <2>2. sets + 1 <= MaxSets => CodeSet(sets + 1) \subseteq Codes
    BY CountsAssumption DEF CodeSet, Codes, TypeOK, Secrets
  <2>3. ASSUME NEW n \in Secrets, sets + 1 <= MaxSets
        PROVE  Renewed(n) \in Account /\ Renewed(n).codes = CodeSet(sets + 1) /\ Renewed(n).secret = n
    BY <2>2, <2>3, EmptyIsAccount DEF Renewed, Account
  <2>4. pending \in Secrets /\ mem.secret \in Secrets /\ sets \in Nat /\ MaxSets \in Nat
    BY CountsAssumption DEF TypeOK, Account, Secrets
  <2>5. CASE Setup(r)
    <3>1. PICK p \in Passwords : Begin(r, "setup", "lock", [Empty EXCEPT !.hash = p])
      BY <2>5 DEF Setup
    <3>2. sets' = sets /\ overlap' = overlap
      BY <2>5 DEF Setup, account
    <3> DEFINE a == [Empty EXCEPT !.hash = p]
    <3>3. a \in Account /\ a.hash # None /\ a.codes = {} /\ ~a.enabled
      BY <2>1
    <3>4. Begin(r, "setup", "lock", a)
      BY <3>1
    <3> HIDE DEF a
    <3>5. Renewing(a)
      BY <3>2, <3>3 DEF Renewing
    <3> QED
      BY <3>2, <3>3, <3>4, <3>5
  <2>6. CASE ChangePassword(r)
    BY <2>1, <2>6 DEF ChangePassword, Renewing
  <2>7. CASE Enable(r)
    BY <2>3, <2>4, <2>7 DEF Enable, Renewing
  <2>8. CASE Disable(r)
    BY <2>8, EmptyIsAccount DEF Disable, Renewing
  <2>9. CASE RecoveryCodes(r)
    BY <2>3, <2>4, <2>9 DEF RecoveryCodes, Renewing
  <2>10. CASE Logout(r)
    BY <2>10, EmptyIsAccount DEF Logout, Renewing, account
  <2>11. CASE LoginPassword(r)
    BY <2>11, EmptyIsAccount DEF LoginPassword, Renewing, account
  <2>12. CASE LoginMfa(r)
    BY <2>12, EmptyIsAccount DEF LoginMfa, Renewing, account
  <2> QED
    BY <2>5, <2>6, <2>7, <2>8, <2>9, <2>10, <2>11, <2>12 DEF Begins
<1>2. op \in {"setup", "password", "login", "enable", "disable", "codes"}
      /\ pc \in {"lock", "save", "invalidate", "mode", "verify", "issue"}
  BY <1>1
<1>3. /\ req' \in [Requests -> Request]
      /\ req[r].op = "none"
      /\ req'[r].op = op /\ req'[r].pc = pc /\ req'[r].val = val /\ req'[r].by = requests + 1
      /\ \A s \in Requests \ {r} : req'[s] = req[s]
      /\ requests' = requests + 1 /\ requests' \in 1..MaxRequests /\ requests \in Nat
  BY <1>1, <1>2, BeginEffect
<1>4. sets' \in Secrets
  BY <1>1, CountsAssumption DEF Renewing, TypeOK, Secrets
<1>5. UNCHANGED <<db, mem, pending, saves, undone, session, setupMu, setups, faults>>
  BY DEF Begins, Setup, ChangePassword, Enable, Disable, RecoveryCodes, Logout, LoginPassword, LoginMfa, account
<1> QED
  BY <1>1, <1>3, <1>4, <1>5

-----------------------------------------------------------------------------
(* Codes, checks and saves, whatever the step. *)

\* Sets that are made leave the codes of the others as they were.
LEMMA MadeGrows ==
    ASSUME TypeOK, sets' \in {sets, sets + 1}
    PROVE  /\ Made \subseteq Made'
           /\ sets' = sets + 1 => CodeSet(sets + 1) \subseteq Made' /\ CodeSet(sets + 1) \intersect Made = {}
           /\ sets \in Nat
<1>1. sets \in Nat
  BY CountsAssumption DEF TypeOK, Secrets
<1> QED
  BY <1>1, CountsAssumption DEF Made, CodeSet

LEMMA BeginsKeep == ASSUME IInv, NEW r \in Requests, Begins(r) PROVE IInv'
<1> USE DEF IInv
<1>1. /\ req' \in [Requests -> Request]
      /\ req[r].op = "none" /\ \A s \in Requests \ {r} : req'[s] = req[s]
      /\ req'[r].by = requests + 1 /\ requests' = requests + 1
      /\ requests' \in 1..MaxRequests /\ requests \in Nat
      /\ \/ /\ req'[r].op = "setup" /\ req'[r].pc = "lock" /\ req'[r].val.hash # None
                 /\ req'[r].val.codes = {} /\ ~req'[r].val.enabled
         \/ /\ req'[r].op = "password" /\ req'[r].pc = "save" /\ req'[r].val.hash # None
            /\ mem.hash # None
         \/ req'[r].op \in {"enable", "disable", "codes"} /\ req'[r].pc = "save"
         \/ req'[r].op = "login" /\ req'[r].pc \in {"invalidate", "mode", "issue", "verify"}
      /\ Renewing(req'[r].val) /\ sets' \in Secrets
      /\ req'[r].val.enabled => req'[r].val.secret # 0
      /\ IF req'[r].pc = "save" THEN Meet ELSE UNCHANGED overlap
      /\ UNCHANGED <<db, mem, pending, saves, undone, session, setupMu, setups, faults>>
  BY BeginsEffect
<1> USE DEF session
<1>2. TypeOK'
  <2>1. overlap' \in BOOLEAN
    <3>1. overlap \in BOOLEAN
      BY DEF TypeOK
    <3>2. Meet \/ overlap' = overlap
      BY <1>1
    <3> QED
      BY <3>1, <3>2, Zenon DEF Meet
  <2>2. requests' \in 0..MaxRequests
    BY <1>1, CountsAssumption
  <2> QED
    BY <1>1, <2>1, <2>2 DEF TypeOK
<1>3. Handlers'
  BY <1>1 DEF Handlers, Writing
<1>4. Setups'
  BY <1>1 DEF Setups, Writing
<1>5. FreshCodes'
  <2>1. sets' \in {sets, sets + 1}
    BY <1>1 DEF Renewing
  <2>2. Made \subseteq Made' /\ req'[r].val.codes \subseteq Made' /\ req'[r].val.codes \intersect Made = {}
    BY <1>1, <2>1, MadeGrows DEF Renewing
  <2>3. req'[r].val.codes \subseteq Codes
    BY <1>1 DEF Request, Account
  <2>4. mem.codes \subseteq Made /\ (\A c \in Codes : uses[c] # 0 => c \in Made)
        /\ \A s \in Requests : Writing(s) => req[s].val.codes \subseteq Made
    BY DEF FreshCodes
  <2>5. req'[r].val.codes \subseteq Made' \ mem.codes /\ \A c \in req'[r].val.codes : uses[c] = 0
    BY <2>2, <2>3, <2>4
  <2>6. \A s \in Requests \ {r} : Writing(s)' = Writing(s) /\ req'[s] = req[s]
    BY <1>1 DEF Writing
  <2>7. \A s \in Requests \ {r} : Writing(s) => req'[r].val.codes \intersect req[s].val.codes = {}
    BY <2>2, <2>4
  <2>8. db'.codes \subseteq Made' /\ mem'.codes \subseteq Made' /\ \A left \in saves' : left \subseteq Made'
    BY <1>1, <2>2 DEF FreshCodes
  <2>9. \A c \in Codes : uses'[c] <= 1 /\ (uses'[c] # 0 => c \in Made' \ mem'.codes)
    BY <1>1, <2>2 DEF FreshCodes
  <2>10. ASSUME NEW s \in Requests, Writing(s)'
         PROVE  /\ req'[s].val.codes \subseteq Made' \ mem'.codes
                /\ \A c \in req'[s].val.codes : uses'[c] = 0
                /\ \A q \in Requests \ {s} :
                     Writing(q)' => req'[s].val.codes \intersect req'[q].val.codes = {}
    BY <1>1, <2>2, <2>5, <2>6, <2>7, <2>10 DEF FreshCodes
  <2> QED
    BY <2>8, <2>9, <2>10 DEF FreshCodes
<1>6. Checks'
  <2>1. requests' \in 1..MaxRequests /\ requests' \notin 1..requests /\ 1..requests \subseteq 1..requests'
    BY <1>1, CountsAssumption
  <2>2. admitted[requests'] = 0
    <3>1. admitted[requests'] # 0 => requests' <= requests
      BY <2>1 DEF Checks
    <3> QED
      BY <1>1, <3>1
  <2>3. \A s \in Requests \ {r} : Entering(s)' = Entering(s) /\ req'[s] = req[s]
    BY <1>1 DEF Entering
  <2>4. \A n \in 1..MaxRequests : admitted[n] # 0 => n <= requests'
    BY <1>1 DEF Checks
  <2>5. DOMAIN challenges \subseteq 1..requests'
    BY <2>1 DEF Checks
  <2> QED
    BY <1>1, <2>1, <2>2, <2>3, <2>4, <2>5 DEF Checks
<1>7. Issued'
  BY <1>1 DEF Issued
<1>8. Together'
  <2>1. \A s \in Requests \ {r} : Writing(s)' = Writing(s) /\ req'[s] = req[s]
    BY <1>1 DEF Writing
  <2>2. mem'.enabled => mem'.secret # 0
    BY <1>1 DEF Together
  <2>3. \A s \in Requests : Writing(s)' /\ req'[s].val.enabled => req'[s].val.secret # 0
    BY <1>1, <2>1 DEF Together
  <2>4. req[r].pc = "none"
    BY <1>1 DEF Handlers
  <2>5. CASE req'[r].pc = "save"
    <3>1. Saving' = Saving \union {r} /\ r \notin Saving
      BY <1>1, <2>4, <2>5 DEF Saving
    <3>2. overlap' = (overlap \/ Saving # {} \/ saves # {})
      BY <1>1, <2>5 DEF Meet
    <3> QED
      BY <1>1, <2>2, <2>3, <2>5, <3>1, <3>2 DEF Together
  <2>6. CASE req'[r].pc # "save"
    <3>1. Saving' = Saving /\ r \notin Saving
      BY <1>1, <2>4, <2>6 DEF Saving
    <3>2. \A s \in Saving : Changed(mem, s)' = Changed(mem, s)
      BY <1>1, <3>1 DEF Changed, Saving
    <3> QED
      BY <1>1, <2>2, <2>3, <2>6, <3>1, <3>2 DEF Together, Saving
  <2> QED
    BY <2>5, <2>6
<1> QED
  BY <1>2, <1>3, <1>4, <1>5, <1>6, <1>7, <1>8

\* A step of a request that ends, or goes on with what it has.
LEMMA CodesAlone ==
    ASSUME IInv, NEW r \in Requests, \A s \in Requests \ {r} : req'[s] = req[s],
           Writing(r)' => Writing(r) /\ req'[r].val = req[r].val,
           UNCHANGED <<mem, uses, sets>>, db'.codes \subseteq Made,
           \A left \in saves' : left \subseteq Made
    PROVE  FreshCodes'
<1>1. Made' = Made
  BY DEF Made
<1>2. \A s \in Requests : Writing(s)' => Writing(s) /\ req'[s].val = req[s].val
  BY DEF Writing
<1> QED
  BY <1>1, <1>2 DEF FreshCodes, IInv

LEMMA ChecksAlone ==
    ASSUME IInv, NEW r \in Requests, \A s \in Requests \ {r} : req'[s] = req[s],
           Entering(r)' => Entering(r) /\ req'[r].by = req[r].by,
           UNCHANGED <<challenges, admitted, requests>>
    PROVE  Checks'
<1>1. \A s \in Requests : Entering(s)' => Entering(s) /\ req'[s].by = req[s].by
  BY DEF Entering
<1> QED
  BY <1>1 DEF Checks, IInv

LEMMA SetupsAlone ==
    ASSUME IInv, NEW r \in Requests, \A s \in Requests \ {r} : req'[s] = req[s],
           req'[r].op \in {"setup", "password"} => req'[r].op = req[r].op,
           req'[r].op = "setup" => ~Writing(r)',
           UNCHANGED <<db, mem, setups>>, setupMu' = setupMu \/ setupMu = r
    PROVE  Setups'
BY DEF Setups, IInv, Writing

\* A step of a request that is not saving, or is done with it.
LEMMA TogetherAlone ==
    ASSUME IInv, NEW r \in Requests, \A s \in Requests \ {r} : req'[s] = req[s],
           req'[r].pc \notin {"save", "memory"},
           (overlap' \/ undone') \/ (r \in Saving <=> r \in Saving'),
           UNCHANGED <<db, mem, saves>>, overlap => overlap', undone => undone',
           req[r].pc # "memory"
    PROVE  Together'
<1> USE DEF IInv
<1>1. \A s \in Requests : Writing(s)' => Writing(s) /\ req'[s].val = req[s].val
  BY DEF Writing
<1>2. mem'.enabled => mem'.secret # 0
  BY DEF Together
<1>3. \A s \in Requests : Writing(s)' /\ req'[s].val.enabled => req'[s].val.secret # 0
  BY <1>1 DEF Together
<1>4. CASE overlap' \/ undone'
  BY <1>2, <1>3, <1>4 DEF Together
<1>5. CASE ~overlap' /\ ~undone'
  <2>1. Saving' = Saving /\ ~overlap /\ ~undone
    BY <1>5 DEF Saving
  <2>2. \A s \in Saving : req'[s].pc = "memory" <=> req[s].pc = "memory"
    BY DEF Saving
  <2>3. \A s \in Saving : req[s].pc = "memory" => s # r
    OBVIOUS
  <2>4. \A s \in Saving : req[s].pc = "memory" => Changed(mem, s)' = Changed(mem, s)
    BY <2>3 DEF Changed, Saving
  <2> QED
    BY <1>2, <1>3, <2>1, <2>2, <2>4 DEF Together
<1> QED
  BY <1>4, <1>5

-----------------------------------------------------------------------------
(* The steps of a request that change neither memory nor settings. *)

LEMMA LockSetupKeeps == ASSUME IInv, NEW r \in Requests, LockSetup(r) PROVE IInv'
<1> USE DEF IInv
<1>1. /\ req[r].op = "setup" /\ req[r].pc = "lock" /\ setupMu = None
      /\ UNCHANGED <<db, mem, pending, saves, sets, undone, session, setups, requests, faults>>
  BY DEF LockSetup
<1> USE DEF session
<1>2. CASE mem.hash # None
  <2>1. End(r) /\ UNCHANGED <<setupMu, overlap>>
    BY <1>2 DEF LockSetup
  <2>2. req' \in [Requests -> Request] /\ req'[r] = NoRequest /\ \A s \in Requests \ {r} : req'[s] = req[s]
    BY <2>1, EndEffect
  <2>3. req'[r].op = "none" /\ req'[r].pc = "none"
    BY <2>2, EmptyIsAccount
  <2>4. TypeOK' /\ Handlers' /\ Issued'
    BY <1>1, <2>1, <2>2, <2>3 DEF TypeOK, Handlers, Writing, Issued
  <2>5. Setups'
    BY <1>1, <2>1, <2>2, <2>3, SetupsAlone
  <2>6. FreshCodes'
    BY <1>1, <2>2, <2>3, CodesAlone DEF Writing, FreshCodes
  <2>7. Checks'
    BY <1>1, <2>2, <2>3, ChecksAlone DEF Entering
  <2>8. Together'
    BY <1>1, <2>1, <2>2, <2>3, TogetherAlone DEF Saving
  <2> QED
    BY <2>4, <2>5, <2>6, <2>7, <2>8
<1>3. CASE mem.hash = None
  <2>1. To(r, "save") /\ setupMu' = r /\ Meet
    BY <1>3 DEF LockSetup
  <2>2. /\ req' \in [Requests -> Request]
        /\ req'[r].op = "setup" /\ req'[r].pc = "save"
        /\ req'[r].val = req[r].val /\ req'[r].by = req[r].by
        /\ \A s \in Requests \ {r} : req'[s] = req[s]
    BY <1>1, <2>1, ToEffect
  <2>3. overlap' = (overlap \/ Saving # {} \/ saves # {})
    BY <2>1 DEF Meet
  <2>4. TypeOK'
    <3>1. overlap' \in BOOLEAN
      <4>1. overlap \in BOOLEAN
        BY DEF TypeOK
      <4> QED
        BY <2>3, <4>1, Zenon
    <3> QED
      BY <1>1, <2>1, <2>2, <3>1 DEF TypeOK
  <2>5. Handlers' /\ Issued'
    BY <1>1, <2>2 DEF Handlers, Writing, Issued
  <2>6. \A s \in Requests \ {r} : Writing(s)' = Writing(s)
    BY <2>2 DEF Writing
  <2>7. Setups'
    <3>1. \A s \in Requests : ~(req[s].op = "setup" /\ Writing(s))
      BY <1>1, NoneAssumption DEF Setups
    <3>2. setups' = 0
      <4>1. setups \in Nat /\ setups <= 1 /\ setups # 1
        BY <1>3 DEF Setups, TypeOK
      <4> QED
        BY <1>1, <4>1
    <3> QED
      BY <1>1, <1>3, <2>1, <2>2, <2>6, <3>1, <3>2 DEF Setups
  <2>8. FreshCodes'
    <3>1. req'[r].val.codes = {}
      BY <1>1, <2>2 DEF Handlers
    <3>2. Made' = Made
      BY <1>1 DEF Made
    <3> QED
      BY <1>1, <2>2, <2>6, <3>1, <3>2 DEF FreshCodes
  <2>9. Checks'
    BY <1>1, <2>2, ChecksAlone DEF Entering
  <2>10. Together'
    <3>1. Saving' = Saving \union {r} /\ r \notin Saving
      BY <1>1, <2>2 DEF Saving
    <3>2. ~req'[r].val.enabled
      BY <1>1, <2>2 DEF Handlers
    <3> QED
      BY <1>1, <2>2, <2>3, <2>6, <3>1, <3>2 DEF Together
  <2> QED
    BY <2>4, <2>5, <2>7, <2>8, <2>9, <2>10
<1> QED
  BY <1>2, <1>3

LEMMA ConsumeKeeps == ASSUME IInv, NEW r \in Requests, ConsumeChallenge(r) PROVE IInv'
<1> USE DEF IInv
<1>1. PICK n \in DOMAIN challenges :
        /\ req[r].op = "none" /\ requests < MaxRequests
        /\ requests' = requests + 1
        /\ challenges' = Restrict(challenges, DOMAIN challenges \ {n})
        /\ IF challenges[n]
           THEN req' = [req EXCEPT ![r] = [NoRequest EXCEPT !.op = "login", !.pc = "verify", !.by = n]]
           ELSE UNCHANGED req
        /\ UNCHANGED <<account, version, boot, tokens, uses, admitted, keyKept, setupMu, setups, faults>>
  BY DEF ConsumeChallenge
<1> USE DEF account
<1>2. /\ requests \in Nat /\ MaxRequests \in Nat /\ requests' \in 0..MaxRequests
      /\ 1..requests \subseteq 1..requests' /\ 1..requests \subseteq 1..MaxRequests
  BY <1>1, CountsAssumption DEF TypeOK
<1>3. n \in 1..requests /\ admitted[n] = 0 /\ n \in 0..MaxRequests /\ n \in 1..MaxRequests
  BY <1>2 DEF Checks
<1>4. /\ req' \in [Requests -> Request] /\ \A s \in Requests \ {r} : req'[s] = req[s]
      /\ \/ req'[r] = req[r]
         \/ req'[r].op = "login" /\ req'[r].pc = "verify" /\ req'[r].by = n
  <2>1. CASE challenges[n]
    <3> DEFINE new == [NoRequest EXCEPT !.op = "login", !.pc = "verify", !.by = n]
    <3>1. new \in Request /\ new.op = "login" /\ new.pc = "verify" /\ new.by = n
      BY <1>3, EmptyIsAccount DEF Request
    <3>2. req' = [req EXCEPT ![r] = new]
      BY <1>1, <2>1
    <3> HIDE DEF new
    <3> QED
      BY <3>1, <3>2 DEF TypeOK
  <2>2. CASE ~challenges[n]
    BY <1>1, <2>2 DEF TypeOK
  <2> QED
    BY <2>1, <2>2
<1>5. req[r].pc = "none" /\ req[r].op = "none"
  BY <1>1 DEF Handlers
<1>6. /\ DOMAIN challenges' = DOMAIN challenges \ {n}
      /\ \A m \in DOMAIN challenges' : challenges'[m] = challenges[m]
  BY <1>1 DEF Restrict
<1>7. TypeOK'
  <2>1. PICK S \in SUBSET (1..MaxRequests) : challenges \in [S -> BOOLEAN]
    BY DEF TypeOK
  <2>2. challenges' \in [S \ {n} -> BOOLEAN] /\ S \ {n} \in SUBSET (1..MaxRequests)
    BY <1>1, <2>1 DEF Restrict
  <2>3. \E T \in SUBSET (1..MaxRequests) : challenges' \in [T -> BOOLEAN]
    BY <2>2
  <2> QED
    BY <1>1, <1>2, <1>4, <2>3 DEF TypeOK
<1>8. Handlers' /\ Issued'
  BY <1>1, <1>4, <1>5 DEF Handlers, Writing, Issued
<1>9. Setups'
  BY <1>1, <1>4, <1>5, SetupsAlone
<1>10. FreshCodes'
  BY <1>1, <1>4, <1>5, CodesAlone DEF Writing, FreshCodes
<1>11. Together'
  BY <1>1, <1>4, <1>5, TogetherAlone DEF Saving
<1>12. Checks'
  <2>1. \A m \in 1..MaxRequests : admitted[m] # 0 => m <= requests'
    BY <1>1, <1>2 DEF Checks
  <2>2. \A s \in Requests \ {r} : Entering(s)' = Entering(s) /\ req'[s] = req[s]
    BY <1>4 DEF Entering
  <2>3. \A s \in Requests : Entering(s) => req[s].by # n
    BY DEF Checks
  <2>4. Entering(r)' => req'[r].by = n
    BY <1>4, <1>5 DEF Entering
  <2>5. /\ DOMAIN challenges' \subseteq 1..requests'
        /\ \A m \in DOMAIN challenges' : admitted'[m] = 0
        /\ \A m \in 1..MaxRequests : admitted'[m] <= 1 /\ (admitted'[m] # 0 => m <= requests')
    BY <1>1, <1>2, <1>6, <2>1 DEF Checks
  <2>6. ASSUME NEW s \in Requests, Entering(s)'
        PROVE  /\ req'[s].by \in 1..requests' /\ req'[s].by \notin DOMAIN challenges'
               /\ admitted'[req'[s].by] = 0
               /\ \A q \in Requests \ {s} : Entering(q)' => req'[q].by # req'[s].by
    <3>1. CASE s = r
      BY <1>1, <1>2, <1>3, <1>6, <2>2, <2>3, <2>4, <2>6, <3>1
    <3>2. CASE s # r
      BY <1>1, <1>2, <1>3, <1>6, <2>2, <2>3, <2>4, <2>6, <3>2 DEF Checks
    <3> QED
      BY <3>1, <3>2
  <2> QED
    BY <2>5, <2>6 DEF Checks
<1> QED
  BY <1>7, <1>8, <1>9, <1>10, <1>11, <1>12

LEMMA ChallengeKeeps == ASSUME IInv, NEW r \in Requests, Challenge(r) PROVE IInv'
<1> USE DEF IInv
<1> DEFINE left == {m \in DOMAIN challenges : challenges[m]}
<1>1. /\ req[r].pc = "mode"
      /\ \/ challenges' = [n \in left \cup {req[r].by} |-> TRUE] /\ End(r)
         \/ To(r, "issue") /\ UNCHANGED challenges
      /\ UNCHANGED <<account, version, boot, tokens, uses, admitted, keyKept, setupMu, setups, requests, faults>>
  BY DEF Challenge
<1> USE DEF account
<1>2. req[r].op = "login" /\ req[r].op # "setup" /\ Entering(r)
  <2>1. req[r].op \in {"none", "setup", "password", "login", "enable", "disable", "codes"}
    BY DEF TypeOK, Request
  <2> QED
    BY <1>1, <2>1 DEF Handlers, Entering
<1>3. CASE To(r, "issue") /\ UNCHANGED challenges
  <2>1. /\ req' \in [Requests -> Request]
        /\ req'[r].op = "login" /\ req'[r].pc = "issue" /\ req'[r].by = req[r].by
        /\ \A s \in Requests \ {r} : req'[s] = req[s]
    BY <1>2, <1>3, ToEffect
  <2>2. TypeOK' /\ Handlers' /\ Issued'
    BY <1>1, <1>3, <2>1 DEF TypeOK, Handlers, Writing, Issued
  <2>3. Setups'
    BY <1>1, <1>2, <2>1, SetupsAlone
  <2>4. FreshCodes'
    BY <1>1, <2>1, CodesAlone DEF Writing, FreshCodes
  <2>5. Checks'
    BY <1>1, <1>2, <1>3, <2>1, ChecksAlone
  <2>6. Together'
    BY <1>1, <2>1, TogetherAlone DEF Saving
  <2> QED
    BY <2>2, <2>3, <2>4, <2>5, <2>6
<1>4. CASE challenges' = [n \in left \cup {req[r].by} |-> TRUE] /\ End(r)
  <2>1. req' \in [Requests -> Request] /\ req'[r] = NoRequest /\ \A s \in Requests \ {r} : req'[s] = req[s]
    BY <1>4, EndEffect
  <2>2. req'[r].op = "none" /\ req'[r].pc = "none"
    BY <2>1, EmptyIsAccount
  <2>3. req[r].by \in 1..requests /\ admitted[req[r].by] = 0
    BY <1>2 DEF Checks
  <2>4. 1..requests \subseteq 1..MaxRequests
    BY CountsAssumption DEF TypeOK
  <2>5. DOMAIN challenges' \subseteq DOMAIN challenges \cup {req[r].by}
    BY <1>4
  <2>6. TypeOK'
    <3>1. left \cup {req[r].by} \in SUBSET (1..MaxRequests)
      BY <2>3, <2>4 DEF Checks
    <3>2. challenges' \in [left \cup {req[r].by} -> BOOLEAN]
      BY <1>4
    <3> HIDE DEF left
    <3>3. \E T \in SUBSET (1..MaxRequests) : challenges' \in [T -> BOOLEAN]
      BY <3>1, <3>2
    <3> QED
      BY <1>1, <2>1, <3>3 DEF TypeOK
  <2>7. Handlers' /\ Issued'
    BY <1>1, <2>1, <2>2 DEF Handlers, Writing, Issued
  <2>8. Setups'
    BY <1>1, <2>1, <2>2, SetupsAlone
  <2>9. FreshCodes'
    BY <1>1, <2>1, <2>2, CodesAlone DEF Writing, FreshCodes
  <2>10. Checks'
    <3>1. \A s \in Requests : Entering(s)' => s # r /\ Entering(s) /\ req'[s] = req[s]
      BY <2>1, <2>2 DEF Entering
    <3> QED
      BY <1>1, <1>2, <2>3, <2>5, <3>1 DEF Checks
  <2>11. Together'
    BY <1>1, <2>1, <2>2, TogetherAlone DEF Saving
  <2> QED
    BY <2>6, <2>7, <2>8, <2>9, <2>10, <2>11
<1> QED
  BY <1>1, <1>3, <1>4

\* A request that ends without a change of memory or settings; a token or a version may
\* come of it.
LEMMA EndsKeep ==
    ASSUME IInv, NEW r \in Requests, InvalidateSessions(r) \/ WrongCode(r) \/ IssueJWT(r)
    PROVE  IInv'
<1> USE DEF IInv, account, session
<1>1. /\ End(r) /\ UNCHANGED <<db, mem, pending, saves, sets, overlap, challenges, boot, keyKept, uses, setups, requests>>
      /\ req[r].pc \in {"invalidate", "verify", "issue"}
  BY DEF InvalidateSessions, WrongCode, IssueJWT
<1>2. req' \in [Requests -> Request] /\ req'[r] = NoRequest /\ \A s \in Requests \ {r} : req'[s] = req[s]
  BY <1>1, EndEffect
<1>3. req'[r].op = "none" /\ req'[r].pc = "none"
  BY <1>2, EmptyIsAccount
<1>4. req[r].op \in {"none", "setup", "password", "login", "enable", "disable", "codes"} /\ req[r].by \in 0..MaxRequests
  BY DEF TypeOK, Request
<1>5. /\ faults' \in 0..MaxFaults
      /\ undone' = TRUE \/ undone' = undone
      /\ setupMu' = setupMu \/ (setupMu = r /\ setupMu' = None)
      /\ version' = version \/ version' = version + 1
      /\ tokens' = tokens \/ tokens' = tokens \cup {[boot |-> boot, ver |-> version]}
      /\ admitted' = admitted \/ (req[r].pc = "issue" /\ admitted' = [admitted EXCEPT ![req[r].by] = @ + 1])
  <2>2. CASE InvalidateSessions(r)
    BY <2>2, FaultIsTyped DEF InvalidateSessions, InvalidateAll
  <2>3. CASE WrongCode(r)
    BY <2>3, FaultIsTyped DEF WrongCode
  <2>4. CASE IssueJWT(r)
    <3>1. /\ req[r].pc = "issue" /\ UNCHANGED <<undone, setupMu, version, faults>>
          /\ tokens' = tokens \cup {[boot |-> boot, ver |-> version]}
          /\ admitted' = [admitted EXCEPT ![req[r].by] = @ + 1]
      BY <2>4 DEF IssueJWT
    <3> QED
      BY <3>1, FaultIsTyped
  <2> QED
    BY <2>2, <2>3, <2>4
<1>6. version \in Nat /\ boot \in Nat /\ undone \in BOOLEAN /\ admitted \in [1..MaxRequests -> Nat] /\ tokens \subseteq Token
      /\ setupMu \in Requests \cup {None}
  BY DEF TypeOK
<1>7. TypeOK'
  <2>1. tokens' \subseteq Token
    BY <1>5, <1>6 DEF Token
  <2>2. version' \in Nat /\ undone' \in BOOLEAN /\ setupMu' \in Requests \cup {None}
    <3>1. version' \in Nat
      BY <1>5, <1>6
    <3>2. undone' \in BOOLEAN
      BY <1>5, <1>6, Zenon
    <3>3. setupMu' \in Requests \cup {None}
      BY <1>5, <1>6, Zenon
    <3> QED
      BY <3>1, <3>2, <3>3
  <2>3. admitted' \in [1..MaxRequests -> Nat]
    BY <1>5, <1>6
  <2> QED
    BY <1>1, <1>2, <1>5, <2>1, <2>2, <2>3 DEF TypeOK
<1>8. Handlers'
  BY <1>2, <1>3 DEF Handlers, Writing
<1>9. Issued'
  <2>1. \A t \in tokens : t.boot \in Nat /\ t.ver \in Nat
    BY <1>6 DEF Token
  <2>2. CASE tokens' = tokens
    BY <1>1, <1>5, <1>6, <2>1, <2>2 DEF Issued
  <2>3. CASE tokens' = tokens \cup {[boot |-> boot, ver |-> version]}
    BY <1>1, <1>5, <1>6, <2>1, <2>3 DEF Issued
  <2> QED
    BY <1>5, <2>2, <2>3
<1>10. Setups'
  BY <1>1, <1>2, <1>3, <1>5, SetupsAlone
<1>11. FreshCodes'
  BY <1>1, <1>2, <1>3, CodesAlone DEF Writing, FreshCodes
<1>12. Together'
  BY <1>1, <1>2, <1>3, <1>5, TogetherAlone DEF Saving
<1>13. Checks'
  <2>1. CASE admitted' = admitted
    BY <1>1, <1>2, <1>3, <2>1, ChecksAlone DEF Entering
  <2>2. CASE req[r].pc = "issue" /\ admitted' = [admitted EXCEPT ![req[r].by] = @ + 1]
    <3> DEFINE n == req[r].by
    <3>1. Entering(r)
      BY <1>4, <2>2 DEF Handlers, Entering
    <3>2. n \in 1..requests /\ n \notin DOMAIN challenges /\ admitted[n] = 0 /\ n \in 1..MaxRequests
          /\ \A s \in Requests \ {r} : Entering(s) => req[s].by # n
      <4>1. n \in 1..requests /\ n \notin DOMAIN challenges /\ admitted[n] = 0
            /\ \A s \in Requests \ {r} : Entering(s) => req[s].by # n
        BY <3>1 DEF Checks
      <4>2. 1..requests \subseteq 1..MaxRequests
        BY CountsAssumption DEF TypeOK
      <4> QED
        BY <4>1, <4>2
    <3>3. admitted'[n] = 1 /\ \A m \in 1..MaxRequests \ {n} : admitted'[m] = admitted[m]
      BY <1>6, <2>2, <3>2
    <3>4. \A s \in Requests : Entering(s)' => s # r /\ Entering(s) /\ req'[s] = req[s]
      BY <1>2, <1>3 DEF Entering
    <3>5. 1..requests \subseteq 1..MaxRequests /\ n <= requests
      BY <3>2, CountsAssumption DEF TypeOK
    <3> HIDE DEF n
    <3>6. \A m \in 1..MaxRequests : admitted'[m] <= 1 /\ (admitted'[m] # 0 => m <= requests)
      BY <3>2, <3>3, <3>5 DEF Checks
    <3>7. \A m \in DOMAIN challenges : admitted'[m] = 0
      BY <3>2, <3>3, <3>5 DEF Checks
    <3>8. ASSUME NEW s \in Requests, Entering(s)'
          PROVE  admitted'[req[s].by] = 0
      BY <3>2, <3>3, <3>4, <3>5, <3>8 DEF Checks
    <3> QED
      BY <1>1, <3>4, <3>6, <3>7, <3>8 DEF Checks
  <2> QED
    BY <1>5, <2>1, <2>2
<1> QED
  BY <1>7, <1>8, <1>9, <1>10, <1>11, <1>12, <1>13

-----------------------------------------------------------------------------
(* The steps of a save. *)

\* What a save writes before it breaks off.
LEMMA PartlyChangedEffect ==
    ASSUME IInv, NEW r \in Requests, req[r].pc = "save", NEW d \in PartlyChanged(db, r)
    PROVE  /\ d \in Account /\ d.codes \subseteq Made
           /\ db.hash # None => d.hash # None
<1> USE DEF IInv
<1> DEFINE c == Changed(db, r)
<1>1. /\ db \in Account /\ Writing(r)
      /\ req[r].op \in {"setup", "password"} => req[r].val.hash # None
  BY DEF TypeOK, Handlers, Writing
<1>2. /\ c \in Account
      /\ req[r].op \in {"setup", "password"} => c.hash = req[r].val.hash /\ c.codes = db.codes
      /\ req[r].op \notin {"setup", "password"} => c.hash = db.hash /\ c.codes = req[r].val.codes
  BY <1>1, ChangedEffect
<1>3. db.codes \subseteq Made /\ c.codes \subseteq Made /\ (db.hash # None => c.hash # None)
  BY <1>1, <1>2 DEF FreshCodes
<1>4. d \in [hash : {db.hash, c.hash}, enabled : {db.enabled, c.enabled},
            secret : {db.secret, c.secret}, codes : {db.codes, c.codes}]
  BY DEF PartlyChanged
<1> HIDE DEF c
<1>5. d \in Account
  BY <1>1, <1>2, <1>4 DEF Account
<1>6. d.hash \in {db.hash, c.hash} /\ d.codes \in {db.codes, c.codes}
  BY <1>4
<1> QED
  BY <1>3, <1>5, <1>6

LEMMA SaveFailsKeeps == ASSUME IInv, NEW r \in Requests, SaveFails(r) PROVE IInv'
<1> USE DEF IInv, session
<1>1. /\ req[r].pc = "save" /\ db' \in PartlyChanged(db, r) /\ End(r) /\ undone' = TRUE
      /\ setupMu' = IF setupMu = r THEN None ELSE setupMu
      /\ UNCHANGED <<mem, pending, saves, sets, overlap, session, setups, requests>>
      /\ faults' \in 0..MaxFaults
  BY FaultIsTyped DEF SaveFails
<1>2. req' \in [Requests -> Request] /\ req'[r] = NoRequest /\ \A s \in Requests \ {r} : req'[s] = req[s]
  BY <1>1, EndEffect
<1>3. req'[r].op = "none" /\ req'[r].pc = "none"
  BY <1>2, EmptyIsAccount
<1>4. db' \in Account /\ db'.codes \subseteq Made /\ (db.hash # None => db'.hash # None)
  BY <1>1, PartlyChangedEffect
<1>5. \A s \in Requests : Writing(s)' => s # r /\ Writing(s) /\ req'[s] = req[s]
  BY <1>2, <1>3 DEF Writing
<1>6. TypeOK'
  <2>1. setupMu' \in Requests \cup {None} /\ undone' \in BOOLEAN
    BY <1>1 DEF TypeOK
  <2> QED
    BY <1>1, <1>2, <1>4, <2>1 DEF TypeOK
<1>7. Handlers'
  BY <1>2, <1>3 DEF Handlers, Writing
<1>8. Issued'
  BY <1>1 DEF Issued
<1>9. Setups'
  BY <1>1, <1>2, <1>3, <1>4, <1>5 DEF Setups
<1>10. FreshCodes'
  BY <1>1, <1>2, <1>4, <1>5, CodesAlone DEF FreshCodes
<1>11. Checks'
  BY <1>1, <1>2, <1>3, ChecksAlone DEF Entering
<1>12. Together'
  BY <1>1, <1>5 DEF Together
<1> QED
  BY <1>6, <1>7, <1>8, <1>9, <1>10, <1>11, <1>12

LEMMA LoadedEffect ==
    ASSUME NEW a \in Account
    PROVE  /\ Loaded(a) \in Account
           /\ Loaded(a).hash = a.hash /\ Loaded(a).secret = a.secret /\ Loaded(a).codes = a.codes
           /\ Loaded(a).enabled => a.enabled /\ a.secret # 0
           /\ a.enabled /\ a.secret # 0 => Loaded(a).enabled
           /\ (a.enabled => a.secret # 0) => Loaded(a) = a
<1>1. a.enabled \in BOOLEAN /\ a.secret \in Secrets
  BY DEF Account
<1>2. (a.enabled /\ a.secret # 0) \in BOOLEAN
  OBVIOUS
<1>3. Loaded(a) = [a EXCEPT !.enabled = a.enabled /\ a.secret # 0]
  BY DEF Loaded
<1>4. (a.enabled => a.secret # 0) => ((a.enabled /\ a.secret # 0) = a.enabled)
  BY <1>1, Zenon
<1> DEFINE on == a.enabled /\ a.secret # 0
<1>5. /\ on \in BOOLEAN /\ Loaded(a) = [a EXCEPT !.enabled = on]
      /\ (a.enabled => a.secret # 0) => on = a.enabled
  BY <1>2, <1>3, <1>4
<1>6. Loaded(a).enabled = on
  <2> HIDE DEF on
  <2> QED
    BY <1>5 DEF Account
<1>7. /\ Loaded(a) \in Account
      /\ Loaded(a).hash = a.hash /\ Loaded(a).secret = a.secret /\ Loaded(a).codes = a.codes
      /\ (a.enabled => a.secret # 0) => Loaded(a) = a
  <2> HIDE DEF on
  <2> QED
    BY <1>5 DEF Account
<1> QED
  BY <1>6, <1>7

LEMMA SameAccount ==
    ASSUME NEW a \in Account, NEW b \in Account,
           a.hash = b.hash, a.secret = b.secret, a.codes = b.codes, a.enabled = b.enabled
    PROVE  a = b
BY DEF Account

\* What is loaded of a changed account is the loaded account, changed.
LEMMA LoadedOfChanged ==
    ASSUME TypeOK, NEW r \in Requests, NEW a \in Account,
           req[r].val.enabled => req[r].val.secret # 0
    PROVE  Loaded(Changed(a, r)) = Changed(Loaded(a), r)
<1>1. Loaded(a) \in Account /\ req[r].val \in Account
  BY LoadedEffect DEF TypeOK, Request
<1>2. CASE req[r].op \notin {"setup", "password"}
  <2>1. Changed(a, r) = [req[r].val EXCEPT !.hash = a.hash]
        /\ Changed(Loaded(a), r) = [req[r].val EXCEPT !.hash = a.hash]
    BY <1>2, LoadedEffect DEF Changed
  <2>2. Changed(a, r) \in Account /\ (Changed(a, r).enabled => Changed(a, r).secret # 0)
    BY <1>2, ChangedEffect
  <2> QED
    BY <2>1, <2>2, LoadedEffect
<1>3. CASE req[r].op \in {"setup", "password"}
  <2> DEFINE h == req[r].val.hash
             b == [a EXCEPT !.hash = h]
             on == a.enabled /\ a.secret # 0
  <2>1. Changed(a, r) = b /\ Changed(Loaded(a), r) = [Loaded(a) EXCEPT !.hash = h]
    BY <1>3 DEF Changed
  <2>2. b.enabled = a.enabled /\ b.secret = a.secret
    BY DEF Account
  <2>3. Loaded(b) = [b EXCEPT !.enabled = on] /\ Loaded(a) = [a EXCEPT !.enabled = on]
    BY <2>2 DEF Loaded
  <2> HIDE DEF on, h
  <2>4. [[a EXCEPT !.hash = h] EXCEPT !.enabled = on] = [[a EXCEPT !.enabled = on] EXCEPT !.hash = h]
    BY DEF Account
  <2> QED
    BY <2>1, <2>3, <2>4
<1> QED
  BY <1>2, <1>3

LEMMA SaveKeeps == ASSUME IInv, NEW r \in Requests, SaveSettings(r) PROVE IInv'
<1> USE DEF IInv, session
<1>1. /\ req[r].pc = "save" /\ db' = Changed(db, r) /\ To(r, "memory")
      /\ UNCHANGED <<mem, pending, saves, sets, overlap, undone, session, setupMu, setups, requests, faults>>
  BY DEF SaveSettings
<1>2. /\ req' \in [Requests -> Request]
      /\ req'[r].op = req[r].op /\ req'[r].pc = "memory"
      /\ req'[r].val = req[r].val /\ req'[r].by = req[r].by
      /\ \A s \in Requests \ {r} : req'[s] = req[s]
  BY <1>1, ToEffect
<1>3. db \in Account /\ mem \in Account /\ req[r].op \in {"setup", "password", "enable", "disable", "codes"}
  <2>1. req[r].op \in {"none", "setup", "password", "login", "enable", "disable", "codes"}
    BY DEF TypeOK, Request
  <2> QED
    BY <1>1, <2>1 DEF TypeOK, Handlers, Writing
<1>4. /\ db' \in Account
      /\ req[r].op \in {"setup", "password"} => db'.hash = req[r].val.hash /\ db'.codes = db.codes
      /\ req[r].op \notin {"setup", "password"} => db'.hash = db.hash /\ db'.codes = req[r].val.codes
  BY <1>1, <1>3, ChangedEffect
<1>5. \A s \in Requests : Writing(s)' = Writing(s)
  BY <1>1, <1>2 DEF Writing
<1>6. TypeOK'
  BY <1>1, <1>2, <1>4 DEF TypeOK
<1>7. Handlers'
  BY <1>1, <1>2, <1>3 DEF Handlers, Writing
<1>8. Issued'
  BY <1>1 DEF Issued
<1>9. Setups'
  <2>1. req[r].op \in {"setup", "password"} => db'.hash # None
    BY <1>4 DEF Handlers
  <2>2. db.hash # None => db'.hash # None
    BY <1>4, <2>1
  <2> QED
    BY <1>1, <1>2, <1>5, <2>1, <2>2 DEF Setups
<1>10. FreshCodes'
  <2>1. db'.codes \subseteq Made
    BY <1>1, <1>4 DEF FreshCodes, Writing
  <2> QED
    BY <1>1, <1>2, <1>5, <2>1, CodesAlone DEF FreshCodes
<1>11. Checks'
  BY <1>1, <1>2, ChecksAlone DEF Entering
<1>12. Together'
  <2>1. Saving' = Saving /\ r \in Saving
    BY <1>1, <1>2 DEF Saving
  <2>2. req[r].val.enabled => req[r].val.secret # 0
    BY <1>1 DEF Together, Writing
  <2>3. mem'.enabled => mem'.secret # 0
    BY <1>1 DEF Together
  <2>4. \A s \in Requests : Writing(s)' /\ req'[s].val.enabled => req'[s].val.secret # 0
    BY <1>2, <1>5 DEF Together
  <2>5. ASSUME ~overlap, ~undone
        PROVE  Changed(mem, r)' = Loaded(db')
    <3>1. mem = Loaded(db)
      BY <1>1, <2>1, <2>5 DEF Together
    <3>2. Changed(mem, r)' = Changed(mem, r)
      BY <1>1, <1>2 DEF Changed
    <3> QED
      BY <1>1, <1>3, <2>2, <3>1, <3>2, LoadedOfChanged
  <2>6. ~overlap /\ ~undone => saves = {} /\ \A s \in Saving : s = r
    BY <2>1 DEF Together
  <2> QED
    BY <1>1, <1>2, <2>1, <2>3, <2>4, <2>5, <2>6 DEF Together
<1> QED
  BY <1>6, <1>7, <1>8, <1>9, <1>10, <1>11, <1>12

LEMMA ApplyKeeps == ASSUME IInv, NEW r \in Requests, ApplyInMemory(r) PROVE IInv'
<1> USE DEF IInv, session
<1>1. /\ req[r].pc = "memory" /\ mem' = Changed(mem, r)
      /\ setups' = setups + (IF req[r].op = "setup" THEN 1 ELSE 0)
      /\ setupMu' = IF setupMu = r THEN None ELSE setupMu
      /\ UNCHANGED <<db, pending, saves, sets, overlap, undone, session, requests, faults>>
  BY DEF ApplyInMemory
<1>2. req[r].op \in {"setup", "password", "enable", "disable", "codes"}
  <2>1. req[r].op \in {"none", "setup", "password", "login", "enable", "disable", "codes"}
    BY DEF TypeOK, Request
  <2> QED
    BY <1>1, <2>1 DEF Handlers, Writing
<1>3. /\ req' \in [Requests -> Request] /\ \A s \in Requests \ {r} : req'[s] = req[s]
      /\ \/ /\ req'[r].op = req[r].op /\ req'[r].val = req[r].val
            /\ req[r].op = "enable" /\ req'[r].pc = "clear"
         \/ /\ req'[r].op = req[r].op /\ req'[r].val = req[r].val
            /\ req[r].op \in {"password", "disable"} /\ req'[r].pc = "invalidate"
         \/ req'[r].op = "none" /\ req'[r].pc = "none"
  <2>1. CASE req[r].op = "enable"
    <3>1. To(r, "clear")
      BY <2>1 DEF ApplyInMemory
    <3> QED
      BY <2>1, <3>1, ToEffect
  <2>2. CASE req[r].op \in {"password", "disable"}
    <3>1. To(r, "invalidate")
      BY <2>2 DEF ApplyInMemory
    <3> QED
      BY <2>2, <3>1, ToEffect
  <2>3. CASE req[r].op \in {"setup", "codes"}
    <3>1. End(r)
      BY <2>3 DEF ApplyInMemory
    <3> QED
      BY <3>1, EndEffect, EmptyIsAccount
  <2> QED
    BY <1>2, <2>1, <2>2, <2>3
<1>4. /\ mem \in Account /\ mem' \in Account /\ db \in Account
      /\ req[r].op \in {"setup", "password"} =>
           /\ mem'.hash = req[r].val.hash /\ mem'.codes = mem.codes
           /\ mem'.enabled = mem.enabled /\ mem'.secret = mem.secret
      /\ req[r].op \notin {"setup", "password"} =>
           /\ mem'.hash = mem.hash /\ mem'.codes = req[r].val.codes
           /\ mem'.enabled = req[r].val.enabled /\ mem'.secret = req[r].val.secret
  <2>1. mem \in Account /\ db \in Account
    BY DEF TypeOK
  <2> QED
    BY <1>1, <2>1, ChangedEffect
<1>5. \A s \in Requests : Writing(s)' <=> Writing(s) /\ s # r
  BY <1>1, <1>3 DEF Writing
<1>6. setups \in Nat /\ setups' \in Nat
  BY <1>1 DEF TypeOK
<1>7. TypeOK'
  <2>1. setupMu' \in Requests \cup {None}
    BY <1>1 DEF TypeOK
  <2> QED
    BY <1>1, <1>3, <1>4, <1>6, <2>1 DEF TypeOK
<1>8. Handlers' /\ Issued'
  <2>1. Handlers'
    BY <1>2, <1>3 DEF Handlers, Writing
  <2> QED
    BY <1>1, <2>1 DEF Issued
<1>9. Setups'
  <2>1. req[r].op = "setup" => mem.hash = None /\ setups = 0 /\ setupMu = r /\ db.hash # None
    BY <1>1 DEF Setups, Writing
  <2>2. setups' <= 1 /\ (setups' = 1 => mem'.hash # None)
    <3>1. CASE req[r].op = "setup"
      BY <1>1, <1>4, <2>1, <3>1 DEF Handlers
    <3>2. CASE req[r].op # "setup"
      <4>1. setups' = setups
        BY <1>1, <1>6, <3>2
      <4>2. mem.hash # None => mem'.hash # None
        BY <1>4 DEF Handlers
      <4> QED
        BY <4>1, <4>2 DEF Setups
    <3> QED
      BY <3>1, <3>2
  <2>3. mem'.hash # None => db'.hash # None
    <3>1. req[r].op = "password" => mem.hash # None
      BY DEF Setups
    <3> QED
      BY <1>1, <1>4, <2>1, <3>1 DEF Setups
  <2>4. ASSUME NEW s \in Requests, req'[s].op = "setup", Writing(s)'
        PROVE  setupMu' = s /\ mem'.hash = None /\ setups' = 0
    <3>1. s # r /\ req[s].op = "setup" /\ Writing(s)
      BY <1>3, <1>5, <2>4
    <3>2. setupMu = s /\ mem.hash = None /\ setups = 0
      BY <3>1 DEF Setups
    <3>3. req[r].op \notin {"setup", "password"}
      BY <2>1, <3>1, <3>2 DEF Setups
    <3> QED
      BY <1>1, <1>4, <3>1, <3>2, <3>3
  <2>5. ASSUME NEW s \in Requests, req'[s].op = "setup", req'[s].pc = "memory"
        PROVE  db'.hash # None
    <3>1. s # r /\ req'[s] = req[s]
      BY <1>3, <2>5
    <3> QED
      BY <1>1, <2>5, <3>1 DEF Setups
  <2>6. ASSUME NEW s \in Requests, req'[s].op = "password"
        PROVE  mem'.hash # None
    <3>1. req[s].op = "password"
      BY <1>3, <2>6
    <3>2. mem.hash # None
      BY <3>1 DEF Setups
    <3> QED
      BY <1>4, <3>2 DEF Handlers
  <2> QED
    BY <2>2, <2>3, <2>4, <2>5, <2>6 DEF Setups
<1>10. FreshCodes'
  <2>1. Made' = Made
    BY <1>1 DEF Made
  <2>2. /\ req[r].val.codes \subseteq Made
        /\ \A c \in req[r].val.codes : uses[c] = 0
        /\ \A s \in Requests \ {r} : Writing(s) => req[r].val.codes \intersect req[s].val.codes = {}
    BY <1>1 DEF FreshCodes, Writing
  <2>3. mem'.codes \in {mem.codes, req[r].val.codes}
    BY <1>4
  <2>4. \A c \in Codes : uses[c] # 0 => c \notin mem'.codes
    BY <2>2, <2>3 DEF FreshCodes
  <2>5. \A s \in Requests \ {r} : Writing(s) => req[s].val.codes \intersect mem'.codes = {}
    BY <2>2, <2>3 DEF FreshCodes
  <2> QED
    BY <1>1, <1>3, <1>5, <2>1, <2>2, <2>3, <2>4, <2>5 DEF FreshCodes
<1>11. Checks'
  BY <1>1, <1>2, <1>3, ChecksAlone DEF Entering
<1>12. Together'
  <2>1. mem'.enabled => mem'.secret # 0
    BY <1>1, <1>4 DEF Together, Writing
  <2>2. \A s \in Requests : Writing(s)' /\ req'[s].val.enabled => req'[s].val.secret # 0
    BY <1>3, <1>5 DEF Together
  <2>3. Saving' \subseteq Saving /\ r \in Saving
    BY <1>1, <1>3 DEF Saving
  <2>4. ASSUME ~overlap, ~undone
        PROVE  mem' = Loaded(db') /\ saves = {} /\ \A s \in Saving : s = r
    BY <1>1, <2>3, <2>4 DEF Together
  <2>5. r \in Saving' => req'[r].pc # "memory"
    BY <1>3
  <2> QED
    BY <1>1, <2>1, <2>2, <2>3, <2>4, <2>5 DEF Together
<1> QED
  BY <1>7, <1>8, <1>9, <1>10, <1>11, <1>12

LEMMA ClearKeeps == ASSUME IInv, NEW r \in Requests, ClearPending(r) PROVE IInv'
<1> USE DEF IInv, session
<1>1. /\ req[r].pc = "clear" /\ pending' = 0 /\ End(r)
      /\ UNCHANGED <<db, mem, saves, sets, overlap, undone, session, setupMu, setups, requests, faults>>
  BY DEF ClearPending
<1>2. req' \in [Requests -> Request] /\ req'[r] = NoRequest /\ \A s \in Requests \ {r} : req'[s] = req[s]
  BY <1>1, EndEffect
<1>3. req'[r].op = "none" /\ req'[r].pc = "none"
  BY <1>2, EmptyIsAccount
<1>4. TypeOK'
  <2>1. 0 \in Secrets
    BY CountsAssumption DEF Secrets
  <2> QED
    BY <1>1, <1>2, <2>1 DEF TypeOK
<1>5. Handlers' /\ Issued'
  BY <1>1, <1>2, <1>3 DEF Handlers, Writing, Issued
<1>6. Setups'
  BY <1>1, <1>2, <1>3, SetupsAlone
<1>7. FreshCodes'
  BY <1>1, <1>2, <1>3, CodesAlone DEF Writing, FreshCodes
<1>8. Checks'
  BY <1>1, <1>2, <1>3, ChecksAlone DEF Entering
<1>9. Together'
  <2>1. \A s \in Requests : Writing(s)' => Writing(s) /\ req'[s] = req[s]
    BY <1>2, <1>3 DEF Writing
  <2>2. Saving' = Saving \ {r} /\ r \in Saving
    BY <1>1, <1>2, <1>3 DEF Saving
  <2>3. ASSUME ~overlap, ~undone
        PROVE  mem = Loaded(db) /\ saves = {} /\ \A s \in Saving : s = r
    BY <1>1, <2>2, <2>3 DEF Together
  <2> QED
    BY <1>1, <2>1, <2>2, <2>3 DEF Together
<1> QED
  BY <1>4, <1>5, <1>6, <1>7, <1>8, <1>9

-----------------------------------------------------------------------------
(* Recovery codes, time and restarts. *)

LEMMA LoadedCodes ==
    ASSUME NEW a \in Account, NEW left \in SUBSET Codes
    PROVE  /\ [a EXCEPT !.codes = left] \in Account
           /\ Loaded([a EXCEPT !.codes = left]) = [Loaded(a) EXCEPT !.codes = left]
<1> DEFINE b == [a EXCEPT !.codes = left]
           on == a.enabled /\ a.secret # 0
<1>1. b \in Account
  BY DEF Account
<1>2. b.enabled = a.enabled /\ b.secret = a.secret
  BY DEF Account
<1>3. Loaded(b) = [b EXCEPT !.enabled = on] /\ Loaded(a) = [a EXCEPT !.enabled = on]
  BY <1>2 DEF Loaded
<1> HIDE DEF on
<1>4. [[a EXCEPT !.codes = left] EXCEPT !.enabled = on] = [[a EXCEPT !.enabled = on] EXCEPT !.codes = left]
  BY DEF Account
<1> QED
  BY <1>1, <1>3, <1>4

LEMMA VerifyKeeps == ASSUME IInv, NEW r \in Requests, VerifyCode(r) PROVE IInv'
<1> USE DEF IInv
<1>1. /\ req[r].pc = "verify" /\ To(r, "issue")
      /\ UNCHANGED <<db, pending, sets, undone, challenges, version, boot, tokens, admitted, keyKept, setupMu, setups, requests, faults>>
  BY DEF VerifyCode
<1>2. /\ req' \in [Requests -> Request]
      /\ req'[r].op = req[r].op /\ req'[r].pc = "issue"
      /\ req'[r].val = req[r].val /\ req'[r].by = req[r].by
      /\ \A s \in Requests \ {r} : req'[s] = req[s]
  BY <1>1, ToEffect
<1>3. req[r].op = "login" /\ Entering(r)
  <2>1. req[r].op \in {"none", "setup", "password", "login", "enable", "disable", "codes"}
    BY DEF TypeOK, Request
  <2> QED
    BY <1>1, <2>1 DEF Handlers, Entering
<1>4. Handlers' /\ Issued'
  BY <1>1, <1>2, <1>3 DEF Handlers, Writing, Issued
<1>5. Checks'
  BY <1>1, <1>2, <1>3, ChecksAlone
<1>6. CASE UNCHANGED <<mem, saves, uses, overlap>>
  <2>1. TypeOK'
    BY <1>1, <1>2, <1>6 DEF TypeOK
  <2>2. Setups'
    BY <1>1, <1>2, <1>3, <1>6, SetupsAlone
  <2>3. FreshCodes'
    BY <1>1, <1>2, <1>6, CodesAlone DEF Writing, FreshCodes
  <2>4. Together'
    BY <1>1, <1>2, <1>6, TogetherAlone DEF Saving
  <2> QED
    BY <1>4, <1>5, <2>1, <2>2, <2>3, <2>4
<1>7. ASSUME NEW c \in mem.codes,
             mem' = [mem EXCEPT !.codes = mem.codes \ {c}],
             saves' = saves \cup {mem.codes \ {c}},
             uses' = [uses EXCEPT ![c] = @ + 1], Meet
      PROVE  IInv'
  <2> DEFINE left == mem.codes \ {c}
  <2>1. mem \in Account /\ mem.codes \in SUBSET Codes /\ db \in Account /\ uses \in [Codes -> Nat] /\ c \in Codes
    BY DEF TypeOK, Account
  <2>2. overlap' = (overlap \/ Saving # {} \/ saves # {})
    BY <1>7 DEF Meet
  <2>3. /\ mem' \in Account /\ mem'.codes = left /\ mem'.hash = mem.hash
        /\ mem'.enabled = mem.enabled /\ mem'.secret = mem.secret
    BY <1>7, <2>1 DEF Account
  <2>4. TypeOK'
    <3>1. overlap' \in BOOLEAN
      <4>1. overlap \in BOOLEAN
        BY DEF TypeOK
      <4> QED
        BY <2>2, <4>1, Zenon
    <3>2. saves' \subseteq SUBSET Codes
      BY <1>7, <2>1 DEF TypeOK
    <3>3. uses' \in [Codes -> Nat]
      BY <1>7, <2>1
    <3> QED
      BY <1>1, <1>2, <2>3, <3>1, <3>2, <3>3 DEF TypeOK
  <2>5. \A s \in Requests : Writing(s)' <=> Writing(s)
    BY <1>1, <1>2 DEF Writing
  <2>6. Setups'
    BY <1>1, <1>2, <1>3, <2>3, <2>5 DEF Setups
  <2>7. FreshCodes'
    <3>1. Made' = Made
      BY <1>1 DEF Made
    <3>2. uses[c] = 0 /\ \A s \in Requests : Writing(s) => c \notin req[s].val.codes
      BY <2>1 DEF FreshCodes
    <3>3. uses'[c] = 1 /\ \A d \in Codes \ {c} : uses'[d] = uses[d]
      BY <1>7, <2>1, <3>2
    <3>4. mem.codes \subseteq Made
      BY DEF FreshCodes
    <3>5. \A d \in Codes : uses'[d] <= 1 /\ (uses'[d] # 0 => d \in Made \ left)
      BY <3>3, <3>4 DEF FreshCodes
    <3>6. \A l \in saves' : l \subseteq Made
      BY <1>7, <3>4 DEF FreshCodes
    <3>7. ASSUME NEW s \in Requests, Writing(s)
          PROVE  /\ req'[s].val.codes \subseteq Made \ left
                 /\ \A d \in req'[s].val.codes : uses'[d] = 0
                 /\ \A q \in Requests \ {s} :
                      Writing(q) => req'[s].val.codes \intersect req'[q].val.codes = {}
      <4>1. s # r /\ req'[s] = req[s] /\ req[s].val.codes \subseteq Codes
        BY <1>1, <1>2, <3>7 DEF Writing, TypeOK, Request, Account
      <4>2. \A q \in Requests : Writing(q) => req'[q] = req[q]
        BY <1>1, <1>2 DEF Writing
      <4> QED
        BY <3>2, <3>3, <3>7, <4>1, <4>2 DEF FreshCodes
    <3> QED
      BY <1>1, <2>3, <2>5, <3>1, <3>4, <3>5, <3>6, <3>7 DEF FreshCodes
  <2>8. Together'
    <3>1. mem'.enabled => mem'.secret # 0
      BY <2>3 DEF Together
    <3>2. \A s \in Requests : Writing(s)' /\ req'[s].val.enabled => req'[s].val.secret # 0
      BY <1>2, <2>5 DEF Together
    <3>3. CASE overlap' \/ undone'
      BY <3>1, <3>2, <3>3 DEF Together
    <3>4. CASE ~overlap' /\ ~undone'
      <4>1. Saving = {} /\ saves = {} /\ ~overlap /\ ~undone
        BY <1>1, <2>2, <3>4
      <4>2. mem = Loaded(db)
        BY <4>1 DEF Together
      <4>3. Saving' = {}
        BY <1>1, <1>2, <4>1 DEF Saving
      <4>4. mem' = Loaded([db EXCEPT !.codes = left])
        BY <1>7, <2>1, <4>2, LoadedCodes
      <4>5. saves' = {left} /\ db' = db
        BY <1>1, <1>7, <4>1
      <4> HIDE DEF left
      <4> QED
        BY <3>1, <3>2, <4>3, <4>4, <4>5 DEF Together
    <3> QED
      BY <3>3, <3>4
  <2> QED
    BY <1>4, <1>5, <2>4, <2>6, <2>7, <2>8
<1> QED
  BY <1>6, <1>7 DEF VerifyCode, Consumed

LEMMA PersistKeeps == IInv /\ PersistRecoveryHashes => IInv'
<1> SUFFICES ASSUME IInv, PersistRecoveryHashes PROVE IInv'
  OBVIOUS
<1> USE DEF IInv, session
<1>1. PICK left \in saves :
        /\ saves' = saves \ {left}
        /\ \/ db' = [db EXCEPT !.codes = left] /\ UNCHANGED <<undone, faults>>
           \/ Fault /\ undone' = TRUE /\ UNCHANGED db
        /\ UNCHANGED <<mem, pending, sets, overlap, session, setupMu, req, setups, requests>>
  BY DEF PersistRecoveryHashes
<1>2. db \in Account /\ left \in SUBSET Codes /\ saves \subseteq SUBSET Codes
  BY DEF TypeOK
<1>3. db' \in Account /\ db'.hash = db.hash /\ db'.codes \in {db.codes, left}
  BY <1>1, <1>2 DEF Account
<1>4. TypeOK'
  <2>1. faults' \in 0..MaxFaults
    BY <1>1, FaultIsTyped
  <2>2. undone' \in BOOLEAN
    <3>1. undone' = undone \/ undone' = TRUE
      BY <1>1
    <3> QED
      BY <3>1, Zenon DEF TypeOK
  <2> QED
    BY <1>1, <1>2, <1>3, <2>1, <2>2 DEF TypeOK
<1>5. Handlers' /\ Setups' /\ Issued'
  BY <1>1, <1>3 DEF Handlers, Writing, Setups, Issued
<1>6. Checks'
  BY <1>1 DEF Checks, Entering
<1>7. FreshCodes'
  <2>1. Made' = Made /\ db'.codes \subseteq Made /\ \A l \in saves' : l \subseteq Made
    BY <1>1, <1>3 DEF Made, FreshCodes
  <2>2. \A s \in Requests : Writing(s)' = Writing(s)
    BY <1>1 DEF Writing
  <2> QED
    BY <1>1, <2>1, <2>2 DEF FreshCodes
<1>8. Together'
  <2>1. mem'.enabled => mem'.secret # 0
    BY <1>1 DEF Together
  <2>2. \A s \in Requests : Writing(s)' /\ req'[s].val.enabled => req'[s].val.secret # 0
    BY <1>1 DEF Together, Writing
  <2>3. ASSUME ~overlap', ~undone'
        PROVE  mem' = Loaded(db') /\ Saving' = {} /\ saves' = {}
    <3>1. ~overlap /\ ~undone /\ db' = [db EXCEPT !.codes = left]
      BY <1>1, <2>3
    <3>2. saves = {left} /\ mem = Loaded([db EXCEPT !.codes = left]) /\ Saving = {}
      BY <3>1 DEF Together
    <3>3. Saving' = Saving
      BY <1>1 DEF Saving
    <3> QED
      BY <1>1, <3>1, <3>2, <3>3
  <2> QED
    BY <2>1, <2>2, <2>3 DEF Together
<1> QED
  BY <1>4, <1>5, <1>6, <1>7, <1>8

LEMMA MfaSetupKeeps == IInv /\ MfaSetup => IInv'
<1> SUFFICES ASSUME IInv, MfaSetup PROVE IInv'
  OBVIOUS
<1> USE DEF IInv, session
<1>1. /\ sets < MaxSets /\ sets' = sets + 1 /\ pending' = sets + 1
      /\ UNCHANGED <<db, mem, saves, overlap, undone, session, setupMu, req, setups, requests, faults>>
  BY DEF MfaSetup
<1>2. sets' \in Secrets /\ Made \subseteq Made'
  <2>1. sets \in Nat /\ MaxSets \in Nat
    BY CountsAssumption DEF TypeOK, Secrets
  <2>2. sets' \in Secrets
    BY <1>1, <2>1 DEF Secrets
  <2> QED
    BY <1>1, <2>2, MadeGrows
<1>3. TypeOK'
  BY <1>1, <1>2 DEF TypeOK
<1>4. Handlers' /\ Setups' /\ Issued'
  BY <1>1 DEF Handlers, Writing, Setups, Issued
<1>5. Checks'
  BY <1>1 DEF Checks, Entering
<1>6. FreshCodes'
  <2>1. \A s \in Requests : Writing(s)' = Writing(s)
    BY <1>1 DEF Writing
  <2> QED
    BY <1>1, <1>2, <2>1 DEF FreshCodes
<1>7. Together'
  BY <1>1 DEF Together, Saving, Writing, Changed
<1> QED
  BY <1>3, <1>4, <1>5, <1>6, <1>7

LEMMA ExpireKeeps == IInv /\ Expire => IInv'
<1> SUFFICES ASSUME IInv, Expire PROVE IInv'
  OBVIOUS
<1> USE DEF IInv, account
<1>1. /\ challenges' = [n \in DOMAIN challenges |-> FALSE]
      /\ UNCHANGED <<account, version, boot, tokens, uses, admitted, keyKept, setupMu, req, setups, requests, faults>>
  BY DEF Expire
<1>2. DOMAIN challenges' = DOMAIN challenges
  BY <1>1
<1>3. TypeOK'
  <2>1. \E S \in SUBSET (1..MaxRequests) : challenges' \in [S -> BOOLEAN]
    BY <1>1 DEF TypeOK
  <2> QED
    BY <1>1, <2>1 DEF TypeOK
<1>4. Handlers' /\ Setups' /\ Issued'
  BY <1>1 DEF Handlers, Writing, Setups, Issued
<1>5. Checks'
  BY <1>1, <1>2 DEF Checks, Entering
<1>6. FreshCodes'
  <2>1. Made' = Made /\ \A s \in Requests : Writing(s)' = Writing(s)
    BY <1>1 DEF Made, Writing
  <2> QED
    BY <1>1, <2>1 DEF FreshCodes
<1>7. Together'
  BY <1>1 DEF Together, Saving, Writing, Changed
<1> QED
  BY <1>3, <1>4, <1>5, <1>6, <1>7

LEMMA RestartKeeps == IInv /\ Restart => IInv'
<1> SUFFICES ASSUME IInv, Restart PROVE IInv'
  OBVIOUS
<1> USE DEF IInv
<1>1. /\ overlap' = FALSE /\ undone' = FALSE /\ mem' = Loaded(db') /\ pending' = 0 /\ saves' = {}
      /\ challenges' = << >> /\ version' = 0 /\ boot' = boot + 1
      /\ uses' = [c \in Codes |-> 0] /\ setupMu' = None
      /\ req' = [r \in Requests |-> NoRequest]
      /\ UNCHANGED <<sets, keyKept, tokens, admitted, setups, requests>>
  BY DEF Restart
<1>12. db' \in Account /\ db'.codes \subseteq Made /\ (db.hash # None => db'.hash # None)
  <2>1. CASE db' = db
    BY <2>1 DEF TypeOK, FreshCodes
  <2>2. ASSUME NEW r \in Requests, req[r].pc = "save", db' \in PartlyChanged(db, r)
        PROVE  db' \in Account /\ db'.codes \subseteq Made /\ (db.hash # None => db'.hash # None)
    BY <2>2, PartlyChangedEffect
  <2>3. db' = db \/ \E r \in Requests : req[r].pc = "save" /\ db' \in PartlyChanged(db, r)
    BY DEF Restart
  <2> QED
    BY <2>1, <2>2, <2>3
<1>2. mem' \in Account /\ mem'.hash = db'.hash /\ mem'.codes = db'.codes
      /\ (mem'.enabled => mem'.secret # 0)
  BY <1>1, <1>12, LoadedEffect
<1>3. NoRequest \in Request /\ \A r \in Requests : req'[r].op = "none" /\ req'[r].pc = "none"
  BY <1>1, EmptyIsAccount
<1>4. boot \in Nat /\ boot' \in Nat /\ DOMAIN challenges' = {}
  BY <1>1 DEF TypeOK
<1>5. TypeOK'
  <2>1. faults' \in 0..MaxFaults
    BY FaultIsTyped DEF Restart
  <2>2. challenges' \in [{} -> BOOLEAN]
    BY <1>1
  <2>3. 0 \in Secrets /\ uses' \in [Codes -> Nat] /\ saves' \subseteq SUBSET Codes
    BY <1>1, CountsAssumption DEF Secrets
  <2>4. req' \in [Requests -> Request]
    BY <1>1, <1>3
  <2> QED
    BY <1>1, <1>2, <1>4, <1>12, <2>1, <2>2, <2>3, <2>4 DEF TypeOK
<1>6. Handlers'
  BY <1>3 DEF Handlers, Writing
<1>7. Setups'
  BY <1>1, <1>2, <1>3, <1>12 DEF Setups, Writing
<1>8. Issued'
  <2>1. \A t \in tokens : t.boot \in Nat /\ t.boot <= boot
    BY DEF TypeOK, Token, Issued
  <2> QED
    BY <1>1, <1>4, <2>1 DEF Issued
<1>9. Checks'
  BY <1>1, <1>3, <1>4 DEF Checks, Entering
<1>10. FreshCodes'
  <2>1. Made' = Made /\ \A r \in Requests : ~Writing(r)'
    BY <1>1, <1>3 DEF Made, Writing
  <2> QED
    BY <1>1, <1>2, <1>12, <2>1 DEF FreshCodes
<1>11. Together'
  <2>1. Saving' = {} /\ \A r \in Requests : ~Writing(r)'
    BY <1>3 DEF Saving, Writing
  <2> QED
    BY <1>1, <1>2, <2>1 DEF Together
<1> QED
  BY <1>5, <1>6, <1>7, <1>8, <1>9, <1>10, <1>11

LEMMA StutterKeeps == IInv /\ UNCHANGED vars => IInv'
<1> SUFFICES ASSUME IInv, UNCHANGED vars PROVE IInv'
  OBVIOUS
<1> USE DEF IInv, vars, account, session
<1>1. TypeOK' /\ Handlers' /\ Setups' /\ Issued'
  BY DEF TypeOK, Handlers, Setups, Writing, Issued
<1>2. Checks' /\ FreshCodes'
  BY DEF Checks, Entering, FreshCodes, Writing, Made
<1>3. Together'
  BY DEF Together, Saving, Writing, Changed
<1> QED
  BY <1>1, <1>2, <1>3

LEMMA InitIsTogether == Init => IInv
<1> SUFFICES ASSUME Init PROVE IInv
  OBVIOUS
<1> USE DEF Init
<1>1. \A r \in Requests : req[r] = NoRequest /\ req[r].op = "none" /\ req[r].pc = "none"
  BY EmptyIsAccount
<1>2. db \in Account /\ mem = db /\ db.codes = {} /\ ~db.enabled /\ db.hash = None /\ DOMAIN challenges = {}
  BY EmptyIsAccount DEF Empty
<1>3. TypeOK
  <2>1. challenges \in [{} -> BOOLEAN] /\ {} \in SUBSET (1..MaxRequests)
    OBVIOUS
  <2>2. req \in [Requests -> Request]
    BY EmptyIsAccount
  <2>3. 0 \in Secrets /\ uses \in [Codes -> Nat] /\ admitted \in [1..MaxRequests -> Nat]
        /\ requests \in 0..MaxRequests /\ faults \in 0..MaxFaults
    BY CountsAssumption DEF Secrets
  <2> QED
    BY <1>2, <2>1, <2>2, <2>3 DEF TypeOK
<1>4. Handlers /\ Setups /\ Issued
  BY <1>1, <1>2 DEF Handlers, Setups, Writing, Issued
<1>5. Checks
  BY <1>1, <1>2 DEF Checks, Entering
<1>6. FreshCodes
  BY <1>1, <1>2 DEF FreshCodes, Writing
<1>7. Together
  <2>1. mem = Loaded(db)
    BY <1>2, LoadedEffect
  <2>2. Saving = {}
    BY <1>1 DEF Saving
  <2> QED
    BY <1>1, <1>2, <2>1, <2>2 DEF Together, Writing
<1> QED
  BY <1>3, <1>4, <1>5, <1>6, <1>7 DEF IInv

LEMMA NextKeeps == IInv /\ [Next]_vars => IInv'
<1> SUFFICES ASSUME IInv, [Next]_vars PROVE IInv'
  OBVIOUS
<1>1. ASSUME NEW r \in Requests, Change(r)
      PROVE  IInv'
  BY <1>1, BeginsKeep, LockSetupKeeps, SaveKeeps, SaveFailsKeeps, ApplyKeeps, ClearKeeps, EndsKeep DEF Change, Begins
<1>2. ASSUME NEW r \in Requests, Login(r)
      PROVE  IInv'
  BY <1>2, BeginsKeep, ChallengeKeeps, ConsumeKeeps, VerifyKeeps, EndsKeep DEF Login, Begins
<1>3. CASE MfaSetup \/ PersistRecoveryHashes \/ Expire \/ Restart
  BY <1>3, MfaSetupKeeps, PersistKeeps, ExpireKeeps, RestartKeeps
<1>4. CASE UNCHANGED vars
  BY <1>4, StutterKeeps
<1> QED
  BY <1>1, <1>2, <1>3, <1>4 DEF Next

LEMMA Invariance == Spec => []IInv
BY InitIsTogether, NextKeeps, PTL DEF Spec

-----------------------------------------------------------------------------

\* Every variable keeps its type.
THEOREM TypeCorrectness == Spec => []TypeOK
<1>1. IInv => TypeOK
  BY DEF IInv
<1> QED
  BY <1>1, Invariance, PTL

\* Between two starts each recovery code admits once, with any number of requests at a time,
\* code sets, codes and restarts.
THEOREM CodesWorkOnce == Spec => []OneUsePerStart
<1>1. IInv => OneUsePerStart
  BY DEF IInv, FreshCodes, OneUsePerStart
<1> QED
  BY <1>1, Invariance, PTL

\* Each check of the password admits once.
THEOREM ChecksWorkOnce == Spec => []OneAdmissionPerPassword
<1>1. IInv => OneAdmissionPerPassword
  BY DEF IInv, Checks, OneAdmissionPerPassword
<1> QED
  BY <1>1, Invariance, PTL

\* One setup creates the administrator.
THEOREM SetupWorksOnce == Spec => []OneSetup
<1>1. IInv => OneSetup
  BY DEF IInv, Setups, OneSetup
<1> QED
  BY <1>1, Invariance, PTL

\* With no save under way, and none that met another or failed, memory and settings agree.
THEOREM SavedWhenQuiet == Spec => []QuietAccountIsSaved
<1>1. IInv => QuietAccountIsSaved
  BY DEF IInv, Together, QuietAccountIsSaved
<1> QED
  BY <1>1, Invariance, PTL

\* A step keeps the process with its version or a later one, or starts the next process.
LEMMA VersionsGrow ==
    ASSUME IInv, [Next]_vars
    PROVE  /\ version \in Nat /\ boot \in Nat /\ UNCHANGED keyKept
           /\ \/ boot' = boot /\ version' \in Nat /\ version <= version'
              \/ boot' = boot + 1
<1>1. version \in Nat /\ boot \in Nat
  BY DEF IInv, TypeOK
<1> USE DEF account, session
<1>2. CASE UNCHANGED vars
  BY <1>1, <1>2 DEF vars
<1>3. ASSUME NEW r \in Requests, Change(r) \/ Login(r)
      PROVE  UNCHANGED <<boot, keyKept>> /\ version' \in {version, version + 1}
  <2>1. CASE Begins(r)
    BY <2>1, BeginsEffect DEF IInv
  <2>2. CASE LockSetup(r) \/ SaveSettings(r) \/ SaveFails(r) \/ ApplyInMemory(r) \/ ClearPending(r)
    BY <2>2 DEF LockSetup, SaveSettings, SaveFails, ApplyInMemory, ClearPending
  <2>3. CASE InvalidateSessions(r)
    BY <2>3 DEF InvalidateSessions, InvalidateAll
  <2>4. CASE Challenge(r) \/ ConsumeChallenge(r) \/ VerifyCode(r) \/ WrongCode(r) \/ IssueJWT(r)
    BY <2>4 DEF Challenge, ConsumeChallenge, VerifyCode, WrongCode, IssueJWT
  <2> QED
    BY <1>3, <2>1, <2>2, <2>3, <2>4 DEF Change, Login, Begins
<1>4. CASE MfaSetup \/ PersistRecoveryHashes \/ Expire
  BY <1>1, <1>4 DEF MfaSetup, PersistRecoveryHashes, Expire
<1>5. CASE Restart
  BY <1>1, <1>5 DEF Restart
<1> QED
  BY <1>1, <1>2, <1>3, <1>4, <1>5 DEF Next

\* A token that the process rejects it rejects for ever, and so do later ones with another key.
THEOREM RejectionIsFinal == Spec => RejectedStaysRejected
<1>1. ASSUME IInv, [Next]_vars,
             NEW t \in tokens, (t.boot = boot /\ boot' = boot) \/ ~keyKept, ~Accepted(t)
      PROVE  ~Accepted(t)'
  <2>1. t.boot \in Nat /\ t.ver \in Nat /\ t.boot <= boot /\ (t.boot = boot => t.ver <= version)
    BY <1>1 DEF IInv, TypeOK, Token, Issued
  <2>2. /\ version \in Nat /\ boot \in Nat /\ UNCHANGED keyKept
        /\ \/ boot' = boot /\ version' \in Nat /\ version <= version'
           \/ boot' = boot + 1
    BY <1>1, VersionsGrow
  <2>3. CASE boot' = boot + 1
    BY <1>1, <2>1, <2>2, <2>3 DEF Accepted
  <2>4. CASE boot' = boot /\ version' \in Nat /\ version <= version'
    <3>1. CASE t.boot # boot
      BY <1>1, <2>2, <2>4, <3>1 DEF Accepted
    <3>2. CASE t.boot = boot
      <4>1. t.ver # version
        BY <1>1, <3>2 DEF Accepted
      <4>2. t.ver < version'
        BY <2>1, <2>2, <2>4, <3>2, <4>1
      <4> QED
        BY <2>1, <2>4, <4>2 DEF Accepted
    <3> QED
      BY <3>1, <3>2
  <2> QED
    BY <2>2, <2>3, <2>4
<1>2. IInv /\ [Next]_vars =>
        [\A t \in tokens : (t.boot = boot /\ boot' = boot) \/ ~keyKept
                           => (~Accepted(t) => ~Accepted(t)')]_vars
  BY <1>1
<1> QED
  BY <1>2, Invariance, PTL DEF Spec, RejectedStaysRejected
=============================================================================
