---------------------------- MODULE ReportExport ----------------------------
(***************************************************************************)
(* Reports over time: a database that other processes fill, a clock, and    *)
(* the exports of one process, which read a report through a connection of  *)
(* its own and write it to a file named after it.                           *)
(*                                                                          *)
(* An export of all reports of a kind lists its targets once and then takes *)
(* them one by one; an ingest of another process and midnight may come in   *)
(* between, and a write may go wrong.  What is in a file is the report.     *)
(***************************************************************************)
EXTENDS DataQueries, ReportLayout

CONSTANTS
  Databases,     \* what earlier ingests may have left
  DayRows,       \* the rows an ingest may write for a day
  Dates,         \* the dates it writes them for
  FirstToday,    \* the date of the clock when the run begins
  Requests,      \* exports of one report: [mode, sel]
  RecentLists,   \* sequences of numbers of days
  MaxIngests, MaxMidnights, MaxFaults, MaxExports

VARIABLES
  db,            \* rows by date
  today,         \* the clock
  files,         \* the report in each exported file, by name
  job,           \* the export under way
  ack,           \* the answer of the last one
  used           \* ingests, midnights, faults and exports so far

vars == <<db, today, files, job, ack, used>>

\* A selection: one day a, the days a to b, or the last a days until b (0 for
\* today).
Day(a) == [kind |-> "single_day", a |-> a, b |-> a]
Days(a, b) == [kind |-> "date_range", a |-> a, b |-> b]
Recent(n, anchor) == [kind |-> "recent_days", a |-> n, b |-> anchor]

TargetModes == {"day", "week", "month", "year"}

Idle == [mode |-> "none"]
Torn == [label |-> -1]

\* calm: nothing happened since the export began that could disturb it.
NoAck == [mode |-> "none", all |-> FALSE, ok |-> TRUE, calm |-> FALSE]

Init == /\ db \in Databases
        /\ today = FirstToday
        /\ files = <<>>
        /\ job = Idle
        /\ ack = NoAck
        /\ used = [ingests |-> 0, midnights |-> 0, faults |-> 0, exports |-> 0]

Spend(what) == used' = [used EXCEPT ![what] = @ + 1]

Disturb == /\ job' = IF job = Idle THEN Idle ELSE [job EXCEPT !.calm = FALSE]
           /\ ack' = [ack EXCEPT !.calm = FALSE]

-----------------------------------------------------------------------------

\* RequireSingleDaySelection does not look at the date; a range must exist
\* and be the right way round; a number of days must be positive.
GoodSelection(sel) ==
  CASE sel.kind = "single_day" -> TRUE
    [] sel.kind = "date_range" -> IsDate(sel.a) /\ IsDate(sel.b) /\ sel.a <= sel.b
    [] sel.kind = "recent_days" -> sel.a > 0 /\ (sel.b # 0 => IsDate(sel.b))

KindOf(mode) == CASE mode = "day" -> "single_day"
                  [] mode = "recent" -> "recent_days"
                  [] OTHER -> "date_range"

\* A recent report with an anchor is that range, relabelled.
ResolveAnchoredRecentReport(n, anchor) ==
  [QueryRange(db, AddDays(anchor, 1 - n), anchor) EXCEPT !.label = n]

\* The months, weeks and years of a range are those of its first day.
RunTemporalStructuredReportQuery(mode, sel) ==
  CASE sel.kind # KindOf(mode) \/ ~GoodSelection(sel) -> NotFound
    [] mode = "day" -> QueryDaily(db, sel.a)
    [] mode = "month" -> QueryMonthly(db, sel.a \div 100)
    [] mode = "week" -> QueryWeekly(db, IsoWeekFromDate(sel.a))
    [] mode = "year" -> QueryYearly(db, sel.a \div 10000)
    [] mode = "range" -> QueryRange(db, sel.a, sel.b)
    [] mode = "recent" -> IF sel.b = 0 THEN QueryPeriod(db, today, sel.a)
                          ELSE ResolveAnchoredRecentReport(sel.a, sel.b)

Name(mode, a, b) == [mode |-> mode, a |-> a, b |-> b]

\* Mutant: the week of a range is that of its last day.
ResolveExportPathByLastDay(mode, sel) ==
  CASE mode = "day" -> Name("day", sel.a, 0)
    [] mode = "month" -> Name("month", sel.a \div 100, 0)
    [] mode = "week" -> Name("week", IsoWeekFromDate(sel.b), 0)
    [] mode = "year" -> Name("year", sel.a \div 10000, 0)
    [] mode = "range" -> Name("range", sel.a, sel.b)
    [] mode = "recent" -> Name("recent", sel.a, 0)

\* The file name is worked out from the selection again, apart from the query.
ResolveExportPath(mode, sel) ==
  CASE mode = "day" -> Name("day", sel.a, 0)
    [] mode = "month" -> Name("month", sel.a \div 100, 0)
    [] mode = "week" -> Name("week", IsoWeekFromDate(sel.a), 0)
    [] mode = "year" -> Name("year", sel.a \div 10000, 0)
    [] mode = "range" -> Name("range", sel.a, sel.b)
    [] mode = "recent" -> Name("recent", sel.a, 0)

\* A text that has the words "No time records" in it is not written: that of
\* an empty report, and that of a day whose remark quotes them.
ShouldSkipExportWrite(mode, report) ==
  IsEmptyData([kind |-> mode, figures |-> report.figures]) \/ report.quoted

RunTemporalReportTargetsQuery(mode) ==
  CASE mode = "day" -> ListDailyTargets(db)
    [] mode = "month" -> ListMonthlyTargets(db)
    [] mode = "week" -> ListWeeklyTargets(db)
    [] mode = "year" -> ListYearlyTargets(db)

\* A target turned back into a selection.  The label of no week is refused:
\* here by a range that GoodSelection refuses.
BuildSelectionFromTarget(mode, target) ==
  CASE mode = "day" -> Day(target)
    [] mode = "month" ->
         Days(100 * target + 1,
              100 * target + LastDay(target \div 100, target % 100))
    [] mode = "week" ->
         IF IsWeek(target)
         THEN Days(IsoWeekStartDate(target), IsoWeekEndDate(target))
         ELSE Days(0, 0)
    [] mode = "year" -> Days(10000 * target + 101, 10000 * target + 1231)

-----------------------------------------------------------------------------

Begin(mode, all, left, calm) ==
  /\ job = Idle
  /\ used.exports < MaxExports
  /\ IF left = <<>>
     THEN /\ ack' = [mode |-> mode, all |-> all, ok |-> TRUE, calm |-> calm]
          /\ UNCHANGED job
     ELSE /\ job' = [mode |-> mode, all |-> all, left |-> left, calm |-> calm]
          /\ ack' = NoAck
  /\ UNCHANGED <<db, today, files>>

ExportSingle ==
  /\ \E r \in Requests : Begin(r.mode, FALSE, <<r.sel>>, TRUE)
  /\ Spend("exports")

Selections(mode, targets) ==
  [i \in DOMAIN targets |-> BuildSelectionFromTarget(mode, targets[i])]

ExportAllMatching ==
  /\ \E mode \in TargetModes :
       Begin(mode, TRUE, Selections(mode, RunTemporalReportTargetsQuery(mode)), TRUE)
  /\ Spend("exports")

\* A row of the list that cannot be read ends it, and nobody is told.
ListCutShort ==
  /\ used.faults < MaxFaults
  /\ \E mode \in TargetModes :
       LET targets == RunTemporalReportTargetsQuery(mode)
       IN  \E n \in 1..Len(targets) :
             Begin(mode, TRUE, Selections(mode, SubSeq(targets, 1, n - 1)), FALSE)
  /\ used' = [used EXCEPT !.exports = @ + 1, !.faults = @ + 1]

ExportRecentList ==
  /\ \E list \in RecentLists :
       Begin("recent", FALSE, [i \in DOMAIN list |-> Recent(list[i], 0)], TRUE)
  /\ Spend("exports")

End(ok, calm) ==
  /\ ack' = [mode |-> job.mode, all |-> job.all, ok |-> ok, calm |-> calm]
  /\ job' = Idle

\* Mutant: the export ends one target early.
ContinueToLast(calm) ==
  IF Len(job.left) <= 2 THEN End(TRUE, calm)
  ELSE /\ job' = [job EXCEPT !.left = Tail(@), !.calm = calm]
       /\ UNCHANGED ack

Continue(calm) ==
  IF Len(job.left) = 1 THEN End(TRUE, calm)
  ELSE /\ job' = [job EXCEPT !.left = Tail(@), !.calm = calm]
       /\ UNCHANGED ack

Store(name, content) ==
  files' = [x \in DOMAIN files \cup {name} |->
              IF x = name THEN content ELSE files[x]]

\* The next report of the export, as its own query and its own write.
ExportNext ==
  /\ job # Idle
  /\ LET sel == Head(job.left)
         report == RunTemporalStructuredReportQuery(job.mode, sel)
         name == ResolveExportPath(job.mode, sel)
     IN  \/ /\ ~report.ok
            /\ End(FALSE, job.calm)
            /\ UNCHANGED <<files, used>>
         \/ /\ report.ok
            /\ ShouldSkipExportWrite(job.mode, report)
            /\ Continue(job.calm)
            /\ UNCHANGED <<files, used>>
         \/ /\ report.ok
            /\ ~ShouldSkipExportWrite(job.mode, report)
            /\ Store(name, report)
            /\ Continue(job.calm)
            /\ UNCHANGED used
  /\ UNCHANGED <<db, today>>

\* A write that goes wrong: the file cannot be opened; the text is refused
\* after the file was emptied; or it is lost when the buffer is written at
\* the close, which nobody looks at.
WriteGoesWrong ==
  /\ job # Idle
  /\ used.faults < MaxFaults
  /\ LET sel == Head(job.left)
         report == RunTemporalStructuredReportQuery(job.mode, sel)
         name == ResolveExportPath(job.mode, sel)
     IN  /\ report.ok
         /\ ~ShouldSkipExportWrite(job.mode, report)
         /\ \/ End(FALSE, FALSE) /\ UNCHANGED files
            \/ End(FALSE, FALSE) /\ Store(name, Torn)
            \/ Continue(FALSE) /\ Store(name, Torn)
  /\ Spend("faults")
  /\ UNCHANGED <<db, today>>

\* Another process ingests a month: a day gets another row or loses its own.
Ingest ==
  /\ used.ingests < MaxIngests
  /\ \E d \in Dates :
       \/ \E row \in DayRows :
            db' = [x \in DOMAIN db \cup {d} |-> IF x = d THEN row ELSE db[x]]
       \/ d \in DOMAIN db /\ db' = Restrict(db, DOMAIN db \ {d})
  /\ Disturb
  /\ Spend("ingests")
  /\ UNCHANGED <<today, files>>

Midnight == /\ used.midnights < MaxMidnights
            /\ today' = AddDays(today, 1)
            /\ Disturb
            /\ Spend("midnights")
            /\ UNCHANGED <<db, files>>

Next == \/ ExportSingle \/ ExportAllMatching \/ ListCutShort \/ ExportRecentList
        \/ ExportNext \/ WriteGoesWrong \/ Ingest \/ Midnight

Spec == Init /\ [][Next]_vars

-----------------------------------------------------------------------------

RealDates == \A d \in DOMAIN db : IsDate(d)

\* The queries do not look at files, so they are compared before any is made.
Fresh == job = Idle /\ files = <<>>

\* The same recorded time comes out of every route to it: a week, a month, a
\* year and the last days have the figures of the range of their days; the
\* batch readers, which group the rows by their own date arithmetic, give
\* what one query gives; a total is that of its days and of its tree's roots.
ReportsAgree ==
  Fresh /\ RealDates =>
    LET months == QueryAllMonthly(db)
        weeks == QueryAllWeekly(db)
        years == QueryAllYearly(db)
        period == QueryPeriodBatch(db, today, {1, 7, 40})
        Gives(r, figures) == r.ok /\ r.figures = figures
        Whole(r) ==
          /\ r.figures = QueryRange(db, r.from, r.to).figures
          /\ r.figures.total = MapThenSumSet(
               LAMBDA d : QueryDaily(db, d).figures.total, Between(db, r.from, r.to))
          /\ r.figures.total = MapThenSumSet(
               LAMBDA n : r.figures.tree[n],
               {n \in DOMAIN r.figures.tree : Len(n) = 1})
    IN  /\ \A d \in DOMAIN db :
             /\ QueryAllDaily(db)[d] = QueryRange(db, d, d).figures
             /\ \A r \in {QueryWeekly(db, IsoWeekFromDate(d)), QueryYearly(db, d \div 10000)} :
                  r.ok /\ r.from <= d /\ d <= r.to /\ Whole(r)
             /\ Gives(QueryMonthly(db, d \div 100),
                  QueryRange(db, 100 * (d \div 100) + 1,
                    100 * (d \div 100) + LastDay(YearOf(d), MonthOf(d))).figures)
        /\ \A m \in DOMAIN months : Gives(QueryMonthly(db, m), months[m])
        /\ \A w \in DOMAIN weeks : Gives(QueryWeekly(db, w), weeks[w])
        /\ \A y \in DOMAIN years : Gives(QueryYearly(db, y), years[y])
        /\ \A n \in DOMAIN period :
             (\A d \in DOMAIN db : d <= today) =>
               period[n] = QueryPeriod(db, today, n).figures

\* A record of no time counts as a day of the range and as none of the chart.
NoInstants == \A d \in DOMAIN db : \A p \in DOMAIN db[d].recs : db[d].recs[p] > 0

\* The data queries give, for a window, what the range report of the window
\* gives: the days and their durations, the tree, the chart of each root and
\* of all of them, the slices of the composition (those beyond the eighth
\* are added up, not lost), the days of a root whichever query finds them.
QueriesAgree ==
  Fresh /\ RealDates /\ NoInstants /\ DOMAIN db # {} =>
    LET a == Min(DOMAIN db)
        b == Max(DOMAIN db)
        f == [NoFilter EXCEPT !.from = a, !.to = b]
        range == QueryRange(db, a, b).figures
        stats == HandleDaysStatsQuery(db, NoFilter, a, b)
        all == BuildReportChartContent(db, today, "", a, b, 7)
        pie == BuildReportCompositionContent(db, today, a, b, 7)
        n == DayNumber(b) - DayNumber(a) + 1
        recent == HandleTreeQuery(db, NoFilter, "recent", n, 0, -1)
    IN  /\ QueryProjectTree(db, f) = range.tree
        /\ recent.tree = range.tree
        /\ HandleTreeQuery(db, NoFilter, "range", a, b, 0).tree =
             Restrict(range.tree, {x \in DOMAIN range.tree : Len(x) = 1})
        /\ all.total = range.total /\ all.active = range.active
        /\ pie.total = range.total
        /\ pie.days > 1 => Len(pie.slices) <= MaxCompositionSlices
        /\ stats.count = range.active
        /\ stats.count > 0 =>
             /\ stats.sum = range.total
             /\ 2 * stats.p25 <= stats.median
             /\ stats.median <= 2 * stats.p90 /\ stats.p95 <= stats.max
             /\ stats.variance >= 0
        /\ \A root \in QueryProjectRootNames(db) :
             LET chart == BuildReportChartContent(db, today, root, a, b, 7)
             IN  /\ chart.total = range.tree[<<root>>]
                 /\ chart.active =
                      Len(QueryDatesByFilters(db, BuildCliFilters(
                            [f EXCEPT !.root = root, !.project = "none"])))
        /\ Len(QueryDatesByFilters(db, [f EXCEPT !.study = "yes"])) = range.flags.study
        /\ Len(QueryDatesByFilters(db, [f EXCEPT !.study = "no"])) =
             Len(QueryDays(db, f)) - range.flags.study

\* A report is the same document in the three formats: each writes the order
\* of the facts, the opening and closing of lists and the levels for itself.
\* And the project tree in it is the tree of the report.
LayoutsAgree ==
  Fresh /\ used.ingests = 0 /\ used.midnights = 0 =>
    LET reports == {DayData(db, d) : d \in DOMAIN db} \cup
                   {RangeData("month", QueryMonthly(db, d \div 100)) : d \in DOMAIN db} \cup
                   {RangeData("week", QueryWeekly(db, IsoWeekFromDate(d))) : d \in DOMAIN db} \cup
                   {RangeData("recent", QueryPeriod(db, today, n)) : n \in {1, 40}}
    IN  \A w \in {Written(data) : data \in reports} : SaysTheSame(w) /\ TreeShown(w)

\* A file is named after the report in it: the query and the path work out
\* the month, week or year of a selection each for itself, and the labels of
\* a list go to selections and back.
FilesNameTheirReports ==
  \A x \in DOMAIN files :
    LET r == files[x]
    IN  r = Torn \/
          CASE x.mode \in {"day", "month", "year"} ->
                 /\ r.label = x.a
                 /\ x.a \in {r.to, r.to \div 100, r.to \div 10000}
            [] x.mode = "week" ->
                 /\ r.label = x.a
                 /\ x.a = IsoWeekFromDate(r.from)
                 /\ DayNumber(r.to) - DayNumber(r.from) = 6
            [] x.mode = "range" -> r.from = x.a /\ r.to = x.b
            [] x.mode = "recent" ->
                 /\ r.label = x.a
                 /\ DayNumber(r.to) - DayNumber(r.from) = x.a - 1

\* An export of all reports of a kind that nothing disturbs leaves the
\* current report of every listed label in its file, and it fails only when a
\* recorded day does not exist in the calendar: such a day is in February for
\* the month report and in March for the list of months, and in no week.
FinishedExportCovers ==
  job = Idle /\ ack.all /\ ack.calm =>
    IF ack.ok
    THEN \A d \in RecordDays(db) :
           LET sel == IF ack.mode = "day" THEN Day(d) ELSE Days(d, d)
               report == RunTemporalStructuredReportQuery(ack.mode, sel)
               name == ResolveExportPath(ack.mode, sel)
           IN  report.ok /\ ~ShouldSkipExportWrite(ack.mode, report) =>
                 name \in DOMAIN files /\ files[name] = report
    ELSE /\ ack.mode \in {"week", "month"}
         /\ \E d \in RecordDays(db) : ~IsDate(d)

\* docs/time_tracer/history/v0.6/v0.6.1.md:72 gives activity-suggest an option
\* --activity-prefix: a query with it answers when one without it does.
SuggestsWithPrefix ==
  QueryActivitySuggestions(db, 0, 0, FALSE, FALSE).ok =>
    QueryActivitySuggestions(db, 0, 0, TRUE, FALSE).ok

=============================================================================
