-------------------------- MODULE MCExchangeImport --------------------------
(* Small instances of ExchangeImport for TLC.                              *)
EXTENDS ExchangeImport

CONSTANTS a, b, c, d, s

MCMonths == {1, 2}

\* Under configuration c the content b is rejected; a torn TXT is rejected
\* except in the second month under d, where what is left of it parses.
MCAccepted ==
  {vc \in Views \X {Whole(c), Whole(d)} :
     /\ vc[1][1] # Torn
     /\ vc[2] = Whole(c) => \A m \in Months : vc[1][m] \notin {b, Torn}}
=============================================================================
