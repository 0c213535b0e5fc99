------------------------------ MODULE MCReports ------------------------------
(***************************************************************************)
(* Days around the end of an ISO week and of a year, and one that does not  *)
(* exist; a day with nine roots, which is one more than a composition shows.*)
(***************************************************************************)
EXTENDS ReportExport

Row(wake, quoted, recs) ==
  [wake |-> wake, getup |-> wake, quoted |-> quoted,
   recs |-> [p \in DOMAIN recs |-> 60 * recs[p]],
   remarked |-> {p \in DOMAIN recs : Len(p) = 2}]

Study == Row(TRUE, FALSE, <<"study", "math">> :> 3 @@ <<"study">> :> 2
                            @@ <<"study", "art", "clay">> :> 61)
Mixed == Row(FALSE, FALSE, <<"study">> :> 1 @@ <<"exercise", "cardio">> :> 2)
Quoting == Row(TRUE, TRUE, <<"sleep", "night">> :> 4)
Instant == Row(FALSE, FALSE, <<"sleep", "night">> :> 0)
Bare == Row(TRUE, FALSE, <<>>)
Nine == Row(TRUE, FALSE, [p \in {<<r>> : r \in {"a", "b", "c", "d", "e", "f",
                                                  "g", "h", "study"}} |-> 1])

MCDayRows == {Study, Mixed, Bare}
MCDates == {20241230, 20250131, 20250230}

RowsOf(d) == CASE d = 20241229 -> {Study, Quoting, Nine}
               [] d = 20241230 -> {Mixed, Instant}
               [] d = 20250131 -> {Study, Mixed}
               [] d = 20250201 -> {Quoting}
               [] d = 20250230 -> {Mixed}

MCDatabases ==
  UNION {{f \in [D -> UNION {RowsOf(d) : d \in D}] : \A d \in D : f[d] \in RowsOf(d)}
         : D \in {E \in SUBSET {20241229, 20241230, 20250131, 20250201, 20250230} :
                   Cardinality(E) <= 2}}

MCRequests ==
  {[mode |-> "day", sel |-> Day(20241230)],
   [mode |-> "month", sel |-> Days(20250131, 20250201)],
   [mode |-> "week", sel |-> Days(20241230, 20250131)],
   [mode |-> "year", sel |-> Days(20241229, 20250131)],
   [mode |-> "range", sel |-> Days(20241230, 20250131)],
   [mode |-> "range", sel |-> Days(20250131, 20241230)],
   [mode |-> "recent", sel |-> Recent(34, 20250201)]}

Stat(label, show, sub) == [label |-> label, show |-> show, sub |-> sub]

\* Three levels, and an item that is not shown.
MCStatisticsItems ==
  <<Stat(<<"study">>, TRUE,
      <<Stat(<<"study", "art">>, TRUE, <<Stat(<<"study", "art", "clay">>, TRUE, <<>>)>>),
        Stat(<<"study", "math">>, FALSE, <<>>)>>),
    Stat(<<"sleep">>, FALSE, <<Stat(<<"sleep", "night">>, TRUE, <<>>)>>),
    Stat(<<"exercise">>, TRUE, <<Stat(<<"exercise", "cardio">>, TRUE, <<>>)>>)>>

MCRecentLists == {<<1, 34>>}

=============================================================================
