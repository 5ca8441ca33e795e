---------------------------- MODULE ImportBoard ----------------------------
(***************************************************************************)
(* What the import coordinator promises to its callers: a call claims some *)
(* sources nobody holds, each claim ends once, for good or ill, and the    *)
(* call is reported on when all of its claims have ended, as succeeded     *)
(* exactly when none was lost.                                             *)
(***************************************************************************)
CONSTANTS Sources, Calls
VARIABLES
    held,     \* pairs of a call and a source it holds
    lost,     \* pairs whose import did not succeed
    report    \* per call

Init ==
    /\ held = {}
    /\ lost = {}
    /\ report = [c \in Calls |-> "none"]

Claim(c, claimed) ==
    /\ report[c] = "none"
    /\ \A p \in held : p[2] \notin claimed
    /\ held' = held \union ({c} \X claimed)
    /\ report' = [report EXCEPT ![c] = "pending"]
    /\ UNCHANGED lost

End(p) ==
    /\ p \in held
    /\ held' = held \ {p}
    /\ lost' \in {lost, lost \union {p}}
    /\ UNCHANGED report

Report(c) ==
    /\ report[c] = "pending"
    /\ \A p \in held : p[1] # c
    /\ report' = [report EXCEPT ![c] = IF \E p \in lost : p[1] = c
                                       THEN "failed" ELSE "succeeded"]
    /\ UNCHANGED <<held, lost>>

Next ==
    \/ \E c \in Calls : Report(c) \/ \E claimed \in SUBSET Sources : Claim(c, claimed)
    \/ \E p \in Calls \X Sources : End(p)

Spec == Init /\ [][Next]_<<held, lost, report>>
=============================================================================
