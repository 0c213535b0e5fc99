----------------------------- MODULE DataQueries -----------------------------
(***************************************************************************)
(* The data queries: the lists, statistics, trees and charts that the       *)
(* command line and the screens ask for.  They share the database of the    *)
(* reports and not their code.  A root is one segment; a project filter,    *)
(* any part of the path text in the code, is one segment as well.  Equal    *)
(* totals come in an order of SQLite or of names: here in one fixed order.  *)
(***************************************************************************)
EXTENDS ReportQueries

\* The absent filter: 0 for a number or a date, "" for a name.
NoFilter == [year |-> 0, month |-> 0, from |-> 0, to |-> 0, root |-> "",
             project |-> "", quoted |-> FALSE, study |-> "any",
             exercise |-> "any", overnight |-> FALSE, limit |-> 0,
             reverse |-> FALSE]

\* A root filter is cut at its first separator and beats a project filter.
BuildCliFilters(request) ==
  IF request.root # "" THEN [request EXCEPT !.project = ""] ELSE request

NeedRecordsJoin(f) == f.project # "" \/ f.root # ""

HasRoot(p, root) == PathHasRoot(p, <<root>>)

ExistsClause(db, d, root, wanted) ==
  wanted # "any" =>
    ((\E p \in DOMAIN db[d].recs : HasRoot(p, root)) <=> wanted = "yes")

DayClauses(db, d, f) ==
  /\ f.year # 0 => YearOf(d) = f.year
  /\ f.month # 0 => MonthOf(d) = f.month
  /\ d >= f.from
  /\ f.to # 0 => d <= f.to
  /\ f.quoted => db[d].quoted
  /\ ExistsClause(db, d, "exercise", f.exercise)
  /\ ExistsClause(db, d, "study", f.study)
  /\ f.overnight => ~db[d].getup

RecordClauses(p, f) ==
  /\ f.project # "" => \E k \in DOMAIN p : p[k] = f.project
  /\ f.root # "" => HasRoot(p, f.root)

\* The join of days and records under the filters, as a part of db.
Joined(db, f) ==
  LET recs(d) == Restrict(db[d].recs,
                          {p \in DOMAIN db[d].recs : RecordClauses(p, f)})
      D == {d \in DOMAIN db : DayClauses(db, d, f) /\ DOMAIN recs(d) # {}}
  IN  [d \in D |-> [db[d] EXCEPT !.recs = recs(d)]]

Limited(s, f) ==
  IF f.limit > 0 /\ f.limit < Len(s) THEN SubSeq(s, 1, f.limit) ELSE s

Dated(D, f) ==
  Limited(IF f.reverse THEN Reverse(InOrder(D)) ELSE InOrder(D), f)

QueryDays(db, f) ==
  Dated({d \in DOMAIN db : /\ f.year # 0 => YearOf(d) = f.year
                           /\ f.month # 0 => MonthOf(d) = f.month
                           /\ d >= f.from
                           /\ f.to # 0 => d <= f.to}, f)

QueryDatesByFilters(db, f) ==
  Dated(IF NeedRecordsJoin(f) THEN DOMAIN Joined(db, f)
        ELSE {d \in DOMAIN db : DayClauses(db, d, f)}, f)

\* The recorded time of each day that has any, shortest day first.
QueryDayDurations(db, f) ==
  LET j == Joined(db, f)
      rows == {<<SumOver(j[d].recs), d>> : d \in DOMAIN j}
      Less(x, y) == x[1] < y[1] \/ (x[1] = y[1] /\ x[2] < y[2])
      More(x, y) == Less(y, x)
  IN  Limited(IF f.reverse THEN OrderedBy(rows, More)
              ELSE OrderedBy(rows, Less), f)

QueryProjectTree(db, f) ==
  LET j == Joined(db, f)
  IN  BuildProjectTreeFromIds(FetchRecordsAndDuration(j, DOMAIN j))

QueryProjectRootNames(db) == {p[1] : p \in PathsOf(db, DOMAIN db)}

\* 0 when there is no row (an absent maximum).
QueryLatestTrackedDate(db) == IF DOMAIN db = {} THEN 0 ELSE Max(DOMAIN db)

\* Every row of the window; a day without such records counts 0.
QueryDayDurationsByRootInDateRange(db, root, a, b) ==
  [d \in Between(db, a, b) |->
     MapThenSumSet(LAMBDA p : db[d].recs[p],
                   {p \in DOMAIN db[d].recs : root # "" => HasRoot(p, root)})]

-----------------------------------------------------------------------------
(* Statistics of a list of totals in increasing order.  The median is kept  *)
(* doubled and the variance times the square of the count.                  *)

DoubledMedian(s) ==
  LET mid == Len(s) \div 2
  IN  IF Len(s) % 2 = 1 THEN 2 * s[mid + 1] ELSE s[mid] + s[mid + 1]

\* Nearest rank.
Percentile(s, q) == s[Max({1, (q * Len(s) + 99) \div 100})]

ComputeDayDurationStats(rows) ==
  LET s == [i \in DOMAIN rows |-> rows[i][1]]
      n == Len(s)
      sum == FoldFunction(+, 0, s)
      away == SortSeq([i \in DOMAIN s |->
                         LET x == 2 * s[i] - DoubledMedian(s)
                         IN  IF x < 0 THEN -x ELSE x], <)
  IN  IF n = 0 THEN [count |-> 0]
      ELSE [count |-> n, sum |-> sum,
            variance |-> n * FoldFunction(LAMBDA x, t : x * x + t, 0, s) - sum * sum,
            median |-> DoubledMedian(s), mad |-> DoubledMedian(away),
            p25 |-> Percentile(s, 25), p75 |-> Percentile(s, 75),
            p90 |-> Percentile(s, 90), p95 |-> Percentile(s, 95),
            min |-> s[1], max |-> s[n]]

-----------------------------------------------------------------------------
(* Windows.  Failed is the answer of a query that throws.                   *)

Failed == [ok |-> FALSE]
Window(a, b) == [ok |-> TRUE, from |-> a, to |-> b]

\* Both bounds or none; none is the last n days of the system's date.
ResolveReportQueryWindow(today, a, b, n) ==
  CASE n <= 0 \/ (a = 0) # (b = 0) -> Failed
    [] a = 0 -> Window(AddDays(today, 1 - n), today)
    [] IsDate(a) /\ IsDate(b) /\ a <= b -> Window(a, b)
    [] OTHER -> Failed

\* The period of a tree.  A recent one ends at the last day that has a row,
\* which is not the clock's today; a range may be the wrong way round.
ApplyTreePeriod(db, period, a, b) ==
  CASE period = "day" -> IF IsDate(a) THEN Window(a, a) ELSE Failed
    [] period = "week" ->
         IF IsWeek(a) THEN Window(IsoWeekStartDate(a), IsoWeekEndDate(a)) ELSE Failed
    [] period = "month" ->
         IF a % 100 \notin 1..12 THEN Failed
         ELSE Window(100 * a + 1, 100 * a + LastDay(a \div 100, a % 100))
    [] period = "year" ->
         IF a <= 0 THEN Failed ELSE Window(10000 * a + 101, 10000 * a + 1231)
    [] period = "recent" ->
         LET last == QueryLatestTrackedDate(db)
         IN  CASE a <= 0 -> Failed
               [] last = 0 -> Window(10101, 10101)
               [] IsDate(last) -> Window(AddDays(last, 1 - a), last)
               [] OTHER -> Failed
    [] period = "range" ->
         IF IsDate(a) /\ IsDate(b) THEN Window(a, b) ELSE Failed

\* Depth 0 keeps the roots; a negative depth keeps all.
LimitProjectTreeDepth(tree, depth) ==
  IF depth < 0 THEN tree
  ELSE Restrict(tree, {node \in DOMAIN tree : Len(node) <= depth + 1})

HandleTreeQuery(db, f, period, a, b, depth) ==
  LET w == ApplyTreePeriod(db, period, a, b)
  IN  IF ~w.ok \/ depth < -1 THEN Failed
      ELSE [ok |-> TRUE,
            tree |-> LimitProjectTreeDepth(
                       QueryProjectTree(db, [f EXCEPT !.year = 0, !.month = 0,
                                               !.from = w.from, !.to = w.to]), depth)]

HandleDaysStatsQuery(db, f, a, b) ==
  ComputeDayDurationStats(
    QueryDayDurations(db, [f EXCEPT !.from = a, !.to = b, !.limit = 0,
                                    !.reverse = FALSE]))

\* A point for every day of the calendar in the window, tracked or not: the
\* rows of days that do not exist find no point.
BuildReportChartSeries(a, b, rows) ==
  [n \in DayNumber(a)..DayNumber(b) |->
     IF DateOf(n) \in DOMAIN rows THEN rows[DateOf(n)] ELSE 0]

BuildReportChartContent(db, today, root, a, b, lookback) ==
  LET w == ResolveReportQueryWindow(today, a, b, lookback)
      series == BuildReportChartSeries(w.from, w.to,
                  QueryDayDurationsByRootInDateRange(db, root, w.from, w.to))
      total == SumOver(series)
      days == Cardinality(DOMAIN series)
  IN  CASE ~w.ok -> Failed
        [] QueryLatestTrackedDate(db) = 0 ->
             [ok |-> TRUE, total |-> 0, active |-> 0, days |-> 0, average |-> 0]
        [] OTHER ->
             [ok |-> TRUE, total |-> total, days |-> days,
              active |-> Cardinality({n \in DOMAIN series : series[n] > 0}),
              average |-> total \div days]

MaxCompositionSlices == 8

\* Mutant: the eighth root is in neither part.
BuildCompositionSlicesPayloadSkippingOne(tree, days) ==
  LET roots == {node \in DOMAIN tree : Len(node) = 1 /\ tree[node] > 0}
      all == OrderedBy({<<r[1], tree[r]>> : r \in roots},
                       LAMBDA x, y : x[2] > y[2])
      kept == SubSeq(all, 1, MaxCompositionSlices - 1)
      rest == SubSeq(all, MaxCompositionSlices + 1, Len(all))
  IN  IF days <= 1 \/ Len(all) <= MaxCompositionSlices THEN all
      ELSE Append(kept, <<"Others", FoldFunction(LAMBDA x, t : x[2] + t, 0, rest)>>)

\* Longest first; of more than eight roots, in more than one day, the first
\* seven and the rest together.
BuildCompositionSlicesPayload(tree, days) ==
  LET roots == {node \in DOMAIN tree : Len(node) = 1 /\ tree[node] > 0}
      all == OrderedBy({<<r[1], tree[r]>> : r \in roots},
                          LAMBDA x, y : x[2] > y[2])
      kept == SubSeq(all, 1, MaxCompositionSlices - 1)
      rest == SubSeq(all, MaxCompositionSlices, Len(all))
  IN  IF days <= 1 \/ Len(all) <= MaxCompositionSlices THEN all
      ELSE Append(kept, <<"Others", FoldFunction(LAMBDA x, t : x[2] + t, 0, rest)>>)

BuildReportCompositionContent(db, today, a, b, lookback) ==
  LET w == ResolveReportQueryWindow(today, a, b, lookback)
      tree == QueryProjectTree(db, [NoFilter EXCEPT !.from = w.from, !.to = w.to])
      days == DayNumber(w.to) - DayNumber(w.from) + 1
      slices == BuildCompositionSlicesPayload(tree, days)
  IN  CASE ~w.ok -> Failed
        [] QueryLatestTrackedDate(db) = 0 ->
             [ok |-> TRUE, total |-> 0, roots |-> 0, days |-> 0, slices |-> <<>>]
        [] OTHER ->
             [ok |-> TRUE, days |-> days, slices |-> slices,
              total |-> FoldFunction(LAMBDA x, t : x[2] + t, 0, slices),
              roots |-> Cardinality({node \in DOMAIN tree :
                                      Len(node) = 1 /\ tree[node] > 0})]

-----------------------------------------------------------------------------
(* Suggestions weigh each record of the last days by its age, counted from  *)
(* the last recorded day.  A prefix makes SQLite compare with an escape of  *)
(* two characters, which is an error on the first row it is applied to: the *)
(* last recorded day always has one.                                        *)

BuildActivitySuggestionsSql(db, lookback, prefixed, byDuration) ==
  LET days == RecordDays(db)
      Age(d) == DayNumber(Max(days)) - DayNumber(d)
      recent == {d \in days : Age(d) \in 0..(lookback - 1)}
      Of(p) == {d \in recent : p \in DOMAIN db[d].recs}
      Weight(p, d) == (IF byDuration THEN db[d].recs[p] ELSE 1) * (lookback - Age(d))
  IN  CASE days = {} -> [ok |-> TRUE, rows |-> <<>>]
        [] prefixed -> Failed
        [] OTHER ->
             [ok |-> TRUE,
              rows |-> [p \in PathsOf(db, recent) |->
                 [usage |-> Cardinality(Of(p)), last |-> Max(Of(p)),
                  total |-> MapThenSumSet(LAMBDA d : db[d].recs[p], Of(p)),
                  score |-> MapThenSumSet(LAMBDA d : Weight(p, d), Of(p))]]]

OrDefault(n, default) == IF n <= 0 THEN default ELSE n

QueryActivitySuggestions(db, lookback, limit, prefixed, byDuration) ==
  LET answer == BuildActivitySuggestionsSql(db, OrDefault(lookback, 10),
                                            prefixed, byDuration)
      Before(p, q) == LET x == answer.rows[p]  y == answer.rows[q]
                      IN  x.score > y.score \/ (x.score = y.score /\ x.usage > y.usage)
      ranked == OrderedBy(DOMAIN answer.rows, Before)
      most == OrDefault(limit, 5)
  IN  IF ~answer.ok THEN Failed
      ELSE [ok |-> TRUE,
            names |-> IF Len(ranked) > most THEN SubSeq(ranked, 1, most) ELSE ranked]

=============================================================================
