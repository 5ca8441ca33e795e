---------------------------- MODULE DateLedger ----------------------------
(***************************************************************************)
(* What importing a date promises to those who read its state, when no     *)
(* rebuild is asked for: data may be in any condition while the date is    *)
(* not complete, a date becomes complete only when its data is intact, and *)
(* a complete date stays complete and intact.                              *)
(***************************************************************************)
CONSTANT Done       \* the statuses that count as complete
VARIABLES
    shown,          \* the status a reader sees, "none" without a state
    intact          \* the tables hold what the states say

Init == shown \in {"none"} \union Done /\ intact = TRUE

\* Work on the data, with any progress or failure shown.
Work ==
    /\ shown \notin Done
    /\ shown' \in {shown, "importing", "failed"}
    /\ intact' \in BOOLEAN

Complete ==
    /\ shown \notin Done
    /\ shown' \in Done
    /\ intact' = TRUE

\* A complete date may be found to be empty.
Settle ==
    /\ shown \in Done
    /\ shown' = "no_data"
    /\ UNCHANGED intact

Next == Work \/ Complete \/ Settle

Spec == Init /\ [][Next]_<<shown, intact>>
=============================================================================
