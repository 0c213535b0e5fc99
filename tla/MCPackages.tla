----------------------------- MODULE MCPackages -----------------------------
(* Two TXTs, with .tracer files of earlier batches and of the first format. *)
EXTENDS Packages

PlannedSizes == [n \in Entries |-> IF n = 1 THEN 2 ELSE 1]
NothingEarlier == [n \in Files |-> NoTracer]

\* No TXT, one of them, or both.
SomeFiles == {{}, {1}, {1, 2}}

\* A batch sealed with p long ago, and its successor; the second file may also
\* be one of the first format, or have another passphrase.
Batch(pass, n, k) == SealedInBatch(MasterKey(pass, <<k>>), <<k>>, <<k, n>>, n)
EarlierFiles ==
    {NothingEarlier}
    \cup {[n \in Files |-> IF n = 1 THEN Batch("p", n, 0 - 1) ELSE second] :
             second \in {Batch("p", 2, 0 - 2), Batch("q", 2, 0 - 2),
                         SealedV1("p", <<0 - 3, 0>>, <<0 - 3, 2>>, 2), TornTracer}}
=============================================================================
