------------------------ MODULE MCImportCoordinator ------------------------
(* Calls, sources and writers for checking ImportCoordinator. *)
EXTENDS ImportCoordinator

CONSTANTS c1, c2, a, b, w1, w2

TwoCalls == {c1, c2}
TwoSources == {a, b}
TwoWriters == {w1, w2}
=============================================================================
