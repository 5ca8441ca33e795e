--------------------------- MODULE MCDateImport ---------------------------
(* Archives and tables for checking DateImport. *)
EXTENDS DateImport

Archive(rows, blank) == [rows |-> rows, blank |-> blank]
Blank == Archive(0, TRUE)
Noise == Archive(0, FALSE)
Log(n) == Archive(n, FALSE)

MCFiles  == 1..2

\* Every pair of an archive of up to one batch with any archive.
MixedContents == {<<a, b>> : a \in {Blank, Noise, Log(1)}, b \in {Blank, Noise, Log(2)}}

\* An archive with rows beside noise or rows, and two archives without rows.
FewContents == {<<Log(1), b>> : b \in {Noise, Log(1)}} \union {<<Blank, Noise>>}

\* Archives that can be read.
ReadableContents == {<<a, b>> : a \in {Blank, Log(1)}, b \in {Blank, Log(1)}}
=============================================================================
