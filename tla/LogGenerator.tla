---------------------------- MODULE LogGenerator ----------------------------
(***************************************************************************)
(* The log generator, which writes month TXTs for tests: day by day, with   *)
(* random wake times, events and nights without sleep, so that the diary    *)
(* can be ingested; and the average it reports of what it wrote.            *)
(*                                                                         *)
(* Clock times are those of TxtConversion; a time on the generator's line   *)
(* runs on past midnight.  A random choice is any of its outcomes.          *)
(***************************************************************************)
EXTENDS TxtRules

CONSTANTS Month,           \* the month that is generated
          FirstEnd,        \* 02:59, where the day before the month is taken to end
          Jitters,         \* -45 .. 45 minutes
          MaxCarry,        \* 180 minutes
          WakeTimes,       \* 06:00 .. 06:59
          NormalLengths,   \* 2 .. 3 days
          NosleepLengths,  \* 1 .. 3 days
          Settings         \* what the tool is run with: --items, --nosleep, remarks

ASSUME MonthAssumption == Month \in 1 .. 12
ASSUME FirstEndAssumption == FirstEnd \in Times /\ WakeTimes \subseteq Times
ASSUME JitterAssumption == Jitters \subseteq Int /\ MaxCarry \in Nat

\* ValidateConfig.
kMinItemsPerDay == 2
ASSUME SettingsAssumption ==
    \A s \in Settings : /\ s.items \in Nat /\ s.items >= kMinItemsPerDay
                        /\ s.nosleep \in BOOLEAN
                        /\ s.remarks \in {<<>>, <<RemarkLine>>}

Least(S) == CHOOSE n \in S : \A m \in S : n <= m
Greatest(S) == CHOOSE n \in S : \A m \in S : n >= m
Clamped(n, low, high) == Greatest({low, Least({high, n})})

(***************************************************************************)
(* SleepScheduler.                                                         *)
(***************************************************************************)

\* What determine_if_nosleep answers of the next day, and how it goes on.
Schedules(g) ==
    LET day == g.date + 1
        Slept(block, into, lengths, nosleep) ==
            {[block |-> block, into |-> into, length |-> n, nosleep |-> nosleep] :
                n \in lengths}
    IN  CASE ~g.set.nosleep \/ day = 1 -> Slept(g.block, g.into, {g.length}, FALSE)
          [] g.set.nosleep /\ day > 1 /\ day = MonthLength ->
                Slept(FALSE, 1, NormalLengths, FALSE)
          [] OTHER ->
                IF g.into + 1 < g.length
                THEN Slept(g.block, g.into + 1, {g.length}, g.block)
                ELSE IF g.block THEN Slept(FALSE, 0, NormalLengths, TRUE)
                ELSE Slept(TRUE, 0, NosleepLengths, FALSE)
                     \cup Slept(FALSE, 0, NormalLengths, FALSE)

(***************************************************************************)
(* EventGenerator.                                                         *)
(***************************************************************************)

\* The end of the day: a day's length, give or take, less what went before.
DayEnds(g) ==
    {g.last + Greatest({DayLength + jitter - g.carry, g.set.items}) : jitter \in Jitters}

\* select_wake_time_minutes.
WakeChoices(start, end, others) ==
    LET earliest == start + 1
        latest == Greatest({Least({end - others, start + MaxActivity}), earliest})
        next(t) == IF t <= start THEN t + DayLength ELSE t
    IN  UNION {IF next(t) > latest THEN earliest .. latest ELSE {Greatest({next(t), earliest})} :
                t \in WakeTimes}

\* Mutant: without the allowance for the events that come after.
EventChoicesUnplanned(start, until, count) ==
    LET end == Greatest({until, start + count})
        Before(s, k) == IF k = 1 THEN start ELSE s[k - 1]
        placed == {s \in [1 .. count - 1 -> start + 1 .. end] :
                      \A k \in 1 .. count - 1 :
                         s[k] \in Before(s, k) + 1 .. end - (count - k)}
    IN  IF count <= 0 THEN {<<>>} ELSE {Append(s, end) : s \in placed}

\* build_event_minutes: the last event ends the day, the others are placed so
\* that no activity need be longer than the validation allows.
EventChoices(start, until, count) ==
    LET end == Greatest({until, start + count})
        Before(s, k) == IF k = 1 THEN start ELSE s[k - 1]
        First(s, k) == Greatest({Before(s, k) + 1, end - (count - k) * MaxActivity})
        Final(s, k) == Greatest({First(s, k),
                                 Least({end - (count - k), Before(s, k) + MaxActivity})})
        placed == {s \in [1 .. count - 1 -> start + 1 .. end] :
                      \A k \in 1 .. count - 1 : s[k] \in First(s, k) .. Final(s, k)}
    IN  IF count <= 0 THEN {<<>>} ELSE {Append(s, end) : s \in placed}

Clock(t) == t % DayLength
Activities(times) == [k \in DOMAIN times |-> EventLine(Clock(times[k]), "known")]

\* generate_events_for_day: the lines of a day that ends at this time.
DayLines(g, nosleep, end) ==
    IF nosleep THEN {Activities(s) : s \in EventChoices(g.last, end, g.set.items)}
    ELSE UNION {{<<EventLine(Clock(wake), "wake")>> \o Activities(s) :
                    s \in EventChoices(wake, end, g.set.items - 1)} :
                wake \in WakeChoices(g.last, end, g.set.items - 1)}

Headers == <<YearLine, MonthLine(Month), BlankLine>>

\* generate_for_month, up to the first day.
NewMonths ==
    {[text |-> Headers, date |-> 0, last |-> FirstEnd, carry |-> 0, set |-> s,
      block |-> FALSE, into |-> 1, length |-> n] : s \in Settings, n \in NormalLengths}

\* generate_for_day.  The remark lines of RemarkGenerator come between the date
\* and the first event; its chance is taken to be none or one.
Dated(g) ==
    g.text \o (IF g.date = 0 THEN <<>> ELSE <<BlankLine>>)
           \o <<DateLine(Month, g.date + 1)>> \o g.set.remarks

\* A day that was scheduled so, ends then and has these lines is written.
DayAdded(g, s, end, lines) ==
    [g EXCEPT !.text = Dated(g) \o lines,
              !.date = @ + 1,
              !.last = Clock(end),
              !.carry = Clamped(@ + end - g.last - DayLength, -MaxCarry, MaxCarry),
              !.block = s.block, !.into = s.into, !.length = s.length]

\* One round of generate_for_month's loop.
NextDays(g) ==
    UNION {{DayAdded(g, s, end, lines) : lines \in DayLines(g, s.nosleep, end)} :
            s \in Schedules(g), end \in DayEnds(g)}

Written(g) == g.date = MonthLength

(***************************************************************************)
(* The monthly average, from a reader of its own.                           *)
(***************************************************************************)
StatsDay == [wake |-> NoTime, continues |-> FALSE, events |-> <<>>]

\* The event branch of ParseMonthDaysForStats.
StatsEvent(day, line) ==
    [day EXCEPT !.wake = IF line.name = "wake" /\ @ = NoTime THEN line.time ELSE @,
                !.continues = @ \/ (line.name # "wake" /\ day.wake = NoTime
                                    /\ day.events = <<>>),
                !.events = Append(@, [time |-> line.time, name |-> line.name])]

StatsLine(days, line) ==
    IF line.is = "date" THEN Append(days, StatsDay)
    ELSE IF line.is = "event" /\ days # <<>>
    THEN [days EXCEPT ![Len(days)] = StatsEvent(@, line)]
    ELSE days

\* ParseMonthDaysForStats.
StatsDays(text) == Walked(StatsLine, <<>>, text)

\* The minutes of one event, in CalculateMonthAverageFromDays.
StatsAdd(sum, event) ==
    IF event.name = "wake" THEN [sum EXCEPT !.from = IF @ = NoTime THEN event.time ELSE @]
    ELSE IF sum.from = NoTime THEN sum
    ELSE [from |-> event.time, total |-> sum.total + Wrapped(sum.from, event.time)]

\* Mutant: a continued day starts from nothing.
StatsOverForgetting(sum, day) ==
    LET night == IF sum.last # NoTime /\ day.wake # NoTime THEN Wrapped(sum.last, day.wake)
                 ELSE 0
        walked == Walked(StatsAdd, [from |-> day.wake, total |-> 0], day.events)
    IN  [last |-> IF day.events = <<>> THEN sum.last
                  ELSE day.events[Len(day.events)].time,
         total |-> sum.total + night + walked.total]

\* The loop over the days; the sum carries the end of the day before.
StatsOver(sum, day) ==
    LET night == IF sum.last # NoTime /\ day.wake # NoTime /\ ~day.continues
                 THEN Wrapped(sum.last, day.wake) ELSE 0
        from == IF day.continues /\ sum.last # NoTime THEN sum.last ELSE day.wake
        walked == Walked(StatsAdd, [from |-> from, total |-> 0], day.events)
    IN  [last |-> IF day.events = <<>> THEN sum.last
                  ELSE day.events[Len(day.events)].time,
         total |-> sum.total + night + walked.total]

\* CalculateMonthAverageFromDays, before it divides by the days.
StatsTotal(text) ==
    Walked(StatsOver, [last |-> NoTime, total |-> 0], StatsDays(text)).total

\* The same from the activities an ingest makes.
TrackedDay(total, day) ==
    Walked(LAMBDA sum, activity : sum + Duration(activity), total, day.activities)
Tracked(text) == Walked(TrackedDay, 0, Convert(Blocks(text)))
=============================================================================
