------------------------ MODULE MCImportRepository ------------------------
(* Small instances of ImportRepository for TLC.                            *)
EXTENDS ImportRepository, TLC

CONSTANTS h1, h2, d1, d2, m1, m2, math, art

MCMonthOf == d1 :> m1 @@ d2 :> m2

Record(id, day, path) == [id |-> id, day |-> day, path |-> path]

\* The first record of d1 as a child project, the same record rebooked on
\* another project, and a two-record month with a root project.
MCBatches ==
  { [days |-> {d1}, records |-> {Record(1, d1, <<math, art>>)}],
    [days |-> {d1}, records |-> {Record(1, d1, <<art>>)}],
    [days |-> {d2}, records |-> {Record(2, d2, <<math, art>>),
                                 Record(3, d2, <<math>>)}] }

MCHosts == Permutations({h1, h2})
=============================================================================
