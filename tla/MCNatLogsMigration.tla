------------------------- MODULE MCNatLogsMigration -------------------------
(* Rows for checking NatLogsMigration. *)
EXTENDS NatLogsMigration

CONSTANTS r1, r2, r3

ThreeRows == {r1, r2, r3}
=============================================================================
