---------------------------- MODULE ReportQueries ----------------------------
(***************************************************************************)
(* The report queriers: what each kind of report reads from the database.   *)
(*                                                                          *)
(* db maps the dates of the table days to their row and its time records:   *)
(* wake and getup of the row, quoted (its remark has the words of the empty *)
(* report in it), recs, the duration of each project path recorded that day *)
(* (one record a path), and remarked, the paths whose record has a remark.  *)
(* A path is the sequence of its segments.  A report is the record of its   *)
(* figures; how they are written is in ReportLayout.                        *)
(***************************************************************************)
EXTENDS Calendar, SequencesExt, FiniteSetsExt

PathHasRoot(p, root) == Len(root) <= Len(p) /\ SubSeq(p, 1, Len(root)) = root

IsStudyProjectPath(p) == PathHasRoot(p, <<"study">>)
IsExerciseProjectPath(p) == PathHasRoot(p, <<"exercise">>)
IsCardioProjectPath(p) == PathHasRoot(p, <<"exercise", "cardio">>)
IsAnaerobicProjectPath(p) == PathHasRoot(p, <<"exercise", "anaerobic">>)

PathsOf(db, D) == UNION {DOMAIN db[d].recs : d \in D}

SumOver(f) == MapThenSumSet(LAMBDA x : f[x], DOMAIN f)

\* project_stats: the recorded time of each project over the days D.
FetchRecordsAndDuration(db, D) ==
  [p \in PathsOf(db, D) |->
     MapThenSumSet(LAMBDA d : db[d].recs[p], {d \in D : p \in DOMAIN db[d].recs})]

\* A node for every prefix of a path, with the time of all paths below it.
BuildProjectTreeFromIds(stats) ==
  [node \in UNION {{SubSeq(p, 1, k) : k \in 1..Len(p)} : p \in DOMAIN stats} |->
     MapThenSumSet(LAMBDA p : stats[p],
                   {p \in DOMAIN stats : PathHasRoot(p, node)})]

DaysWith(db, D, paths) ==
  Cardinality({d \in D : DOMAIN db[d].recs \cap paths # {}})

FetchDayFlagCounts(db, D) ==
  LET all == PathsOf(db, D)
  IN  [wake |-> Cardinality({d \in D : db[d].wake}),
       study |-> DaysWith(db, D, {p \in all : IsStudyProjectPath(p)}),
       exercise |-> DaysWith(db, D, {p \in all : IsExerciseProjectPath(p)}),
       cardio |-> DaysWith(db, D, {p \in all : IsCardioProjectPath(p)}),
       anaerobic |-> DaysWith(db, D, {p \in all : IsAnaerobicProjectPath(p)})]

RecordDays(db) == {d \in DOMAIN db : DOMAIN db[d].recs # {}}

\* The figures every route of a report fills; actual_days counts the days
\* that have records, and there is a tree where there is time.
Figures(db, D) ==
  LET stats == FetchRecordsAndDuration(db, D)
  IN  [total |-> SumOver(stats),
       active |-> Cardinality(D \cap RecordDays(db)),
       flags |-> FetchDayFlagCounts(db, D),
       tree |-> IF SumOver(stats) > 0 THEN BuildProjectTreeFromIds(stats) ELSE <<>>]

Between(db, a, b) == {d \in DOMAIN db : a <= d /\ d <= b}

NotFound == [ok |-> FALSE]

\* RangeQuerierBase: the rows between two bounds, compared as texts.
Ranged(db, label, a, b) ==
  LET D == Between(db, a, b)
  IN  [ok |-> TRUE, label |-> label, from |-> a, to |-> b,
       days |-> Cardinality(D),
       records |-> MapThenSumSet(LAMBDA d : Cardinality(DOMAIN db[d].recs), D),
       quoted |-> FALSE, figures |-> Figures(db, D)]

\* A day without a row is an error, whatever the other reports would say.
QueryDaily(db, d) ==
  IF d \notin DOMAIN db THEN NotFound
  ELSE [Ranged(db, d, d, d) EXCEPT !.quoted = db[d].quoted]

\* A month, week or year without a row is an error too.  The labels come from
\* dates that were checked, so an ill-formed one does not reach the queriers.
FoundIn(db, r) == IF Between(db, r.from, r.to) = {} THEN NotFound ELSE r

\* Mutant: a month ends at its day 30.
QueryMonthlyTo30(db, m) == FoundIn(db, Ranged(db, m, 100 * m + 1, 100 * m + 30))

\* The bounds of a month are its days 01 and 31, whether it has a 31 or not.
QueryMonthly(db, m) == FoundIn(db, Ranged(db, m, 100 * m + 1, 100 * m + 31))

QueryWeekly(db, w) ==
  IF ~IsWeek(w) THEN NotFound
  ELSE FoundIn(db, Ranged(db, w, IsoWeekStartDate(w), IsoWeekEndDate(w)))

QueryYearly(db, y) ==
  IF y <= 0 THEN NotFound
  ELSE FoundIn(db, Ranged(db, y, 10000 * y + 101, 10000 * y + 1231))

\* The label of a free range is the range.
QueryRange(db, a, b) ==
  IF IsDate(a) /\ IsDate(b) /\ a <= b THEN Ranged(db, 0, a, b) ELSE NotFound

\* The last n days by the clock, today included; labelled "n days".
QueryPeriod(db, today, n) ==
  IF n <= 0 THEN NotFound ELSE Ranged(db, n, AddDays(today, 1 - n), today)

-----------------------------------------------------------------------------
(* The batch routes read whole tables once and group the rows themselves.   *)

QueryAllDaily(db) == [d \in DOMAIN db |-> Figures(db, {d})]

\* Rows the key cannot place (a null of strftime, a week of no date) are
\* left out; a group exists when it has a record, its wake days are of all
\* its rows.
Grouped(db, key) ==
  [k \in {key[d] : d \in RecordDays(db)} \ {0} |->
     Figures(db, {d \in DOMAIN db : key[d] = k})]

QueryAllMonthly(db) == Grouped(db, [d \in DOMAIN db |-> StrfMonth(d)])
QueryAllWeekly(db) == Grouped(db, [d \in DOMAIN db |-> IsoWeekFromDate(d)])
QueryAllYearly(db) == Grouped(db, [d \in DOMAIN db |-> StrfYear(d)])

\* The batch of periods has a first day and no last one: what is dated after
\* today is in it.
QueryPeriodBatch(db, today, ns) ==
  LET most == Max(ns)
      raw == {d \in DOMAIN db : d >= AddDays(today, 1 - most)}
  IN  IF ns = {} THEN <<>>
      ELSE IF most <= 0 THEN <<>>
      ELSE [n \in {k \in ns : k > 0} |->
              Figures(db, {d \in raw : d >= AddDays(today, 1 - n)})]

-----------------------------------------------------------------------------
(* The labels an export of all reports of a kind goes through, in order.     *)

\* ORDER BY, as an insertion sort: small sets, many calls.
OrderedBy(S, Before(_, _)) ==
  FoldSet(LAMBDA x, s :
            LET k == Cardinality({i \in DOMAIN s : ~Before(x, s[i])})
            IN  SubSeq(s, 1, k) \o <<x>> \o SubSeq(s, k + 1, Len(s)), <<>>, S)

InOrder(S) == OrderedBy(S, <)

ListDailyTargets(db) == InOrder(RecordDays(db))

ListMonthlyTargets(db) == InOrder({StrfMonth(d) : d \in RecordDays(db)})

\* A date that does not exist gives the label of week 0.
ListWeeklyTargets(db) ==
  InOrder({IsoWeekFromDate(d) : d \in RecordDays(db)})

ListYearlyTargets(db) == InOrder({StrfYear(d) : d \in RecordDays(db)})

=============================================================================
