----------------------------- MODULE MCAutoScan -----------------------------
(* Names, calls and limits for checking AutoScan. *)
EXTENDS AutoScan

CONSTANTS c1, c2, a, b

TwoCalls == {c1, c2}
TwoNames == {a, b}
OneConfigured == {a}

Limits(user, failure, crash) ==
    [k \in Kinds |-> CASE k = "user" -> user [] k = "failure" -> failure
                       [] k = "crash" -> crash]

RecordLimit == Limits(1, 1, 1)
=============================================================================
