--------------------------- MODULE TxtConversion ---------------------------
(***************************************************************************)
(* How a month's TXT becomes activities, and how the sleep before its      *)
(* first day is linked to the month before: the parser's days, DayProcessor *)
(* with ActivityMapper, LogLinker, and the logic validation.               *)
(*                                                                         *)
(* Times are clock times 0 .. DayLength - 1.  A day block holds its date,  *)
(* the time of its wake line (the first event of a day, if that is a wake  *)
(* keyword) and its other events in the order of the file; an event has    *)
(* the time it ended at, whether its name maps to the path generated sleep *)
(* is booked under, and whether its remark allows a long activity.  Names  *)
(* and remarks are left out otherwise.  A wake keyword in a later place is *)
(* refused by the logic validation and left out of the texts.              *)
(***************************************************************************)
EXTENDS Integers, Sequences

CONSTANTS DayLength,    \* 24 hours
          MaxActivity,  \* 16 hours, kMaxActivityDurationSeconds
          MaxSleep,     \* 16 hours, kMaxLinkedSleepDurationSeconds
          MonthLength,  \* the dates of a month are 1 .. MonthLength
          NoTime        \* an empty time string

Times == 0 .. DayLength - 1

ASSUME DayLengthAssumption == DayLength \in Nat \ {0}
ASSUME LimitAssumption == /\ MaxActivity \in Nat
                          /\ MaxSleep \in Nat
                          /\ MaxSleep <= MaxActivity
ASSUME MonthLengthAssumption == MonthLength \in Nat
ASSUME NoTimeAssumption == NoTime \notin Times

Dates == 1 .. MonthLength
Event == [end : Times, sleep : BOOLEAN, long : BOOLEAN]
Day == [date : Dates, wake : Times \cup {NoTime}, events : Seq(Event)]
Text == Seq(Day)
Activity == [start : Times, end : Times, sleep : BOOLEAN, long : BOOLEAN]

DateChecks == {"none", "continuity", "full"}

(***************************************************************************)
(* Durations and timestamps.                                               *)
(***************************************************************************)

\* CalculateWrappedDurationSeconds: an end before the start is the next day's.
Wrapped(start, end) == IF end < start THEN end + DayLength - start
                       ELSE end - start

Duration(activity) == Wrapped(activity.start, activity.end)

\* end_timestamp, counted from the midnight that begins the day's date: every
\* activity is anchored to the date of its block, also one after midnight.
EndStamp(activity) == activity.start + Duration(activity)

(***************************************************************************)
(* One month.                                                              *)
(***************************************************************************)

\* rawEvents.back().endTimeStr, or nothing.
LastEnd(day) ==
    IF day.events = <<>> THEN day.wake ELSE day.events[Len(day.events)].end

\* The end of the event before day i of a text, in the same file.
EndBefore(text, i) == IF i = 1 THEN NoTime ELSE LastEnd(text[i - 1])

\* getupTime: the wake line; a continuation takes over where the day before
\* it in the file ended.
Getup(text, i) ==
    IF text[i].wake # NoTime THEN text[i].wake
    ELSE IF text[i].events # <<>> THEN EndBefore(text, i)
    ELSE NoTime

\* AppendActivity leaves out an event without a start: the first one of a
\* continuation that begins the file.
Skipped(text, i) == IF Getup(text, i) = NoTime THEN 1 ELSE 0

\* An event lasts from the end of the one before, the first one from getupTime.
BeginOf(text, i, j) ==
    IF j = 1 THEN Getup(text, i) ELSE text[i].events[j - 1].end

AuthoredActivity(text, i, j) ==
    [start |-> BeginOf(text, i, j), end |-> text[i].events[j].end,
     sleep |-> text[i].events[j].sleep, long |-> text[i].events[j].long]

\* MapActivities.
Mapped(text, i) ==
    [j \in 1 .. Len(text[i].events) - Skipped(text, i) |->
        AuthoredActivity(text, i, j + Skipped(text, i))]

Generated(start, end) ==
    [start |-> start, end |-> end, sleep |-> TRUE, long |-> FALSE]

\* Process: the night between two days of the file.
Night(text, i) ==
    IF EndBefore(text, i) # NoTime /\ text[i].wake # NoTime
    THEN <<Generated(EndBefore(text, i), text[i].wake)>>
    ELSE <<>>

ActivitiesOf(text, i) == Night(text, i) \o Mapped(text, i)

\* A day as the link stages and the import see it.
DayOf(text, i) ==
    [date |-> text[i].date, wake |-> text[i].wake,
     activities |-> ActivitiesOf(text, i)]

Convert(text) == [i \in 1 .. Len(text) |-> DayOf(text, i)]

(***************************************************************************)
(* The link to the month before.                                           *)
(***************************************************************************)

Midnight == 0

\* HasGeneratedOvernightSleep: by the path of the first activity.
StartsAsleep(day) == day.activities # <<>> /\ day.activities[1].sleep

\* Both callers of ProcessCrossDay ask for a wake anchor and for no sleep yet.
LinkWanted(day) == day.wake \notin {NoTime, Midnight} /\ ~StartsAsleep(day)

SleptIn(day, tail) ==
    [day EXCEPT !.activities = <<Generated(tail, day.wake)>> \o @]

\* Mutant: without the limit of 16 hours.
LinkFirstDayUncapped(days, tail) ==
    IF days # <<>> /\ tail # NoTime /\ LinkWanted(days[1])
    THEN [days EXCEPT ![1] = SleptIn(@, tail)]
    ELSE days

\* Mutant: the night goes behind the activities of its day.
LinkFirstDayAppended(days, tail) ==
    IF /\ days # <<>> /\ tail # NoTime /\ LinkWanted(days[1])
       /\ Wrapped(tail, days[1].wake) <= MaxSleep
    THEN [days EXCEPT ![1].activities = @ \o <<Generated(tail, days[1].wake)>>]
    ELSE days

\* ProcessCrossDay: no night without a tail, and none of more than 16 hours.
LinkFirstDay(days, tail) ==
    IF /\ days # <<>> /\ tail # NoTime /\ LinkWanted(days[1])
       /\ Wrapped(tail, days[1].wake) <= MaxSleep
    THEN [days EXCEPT ![1] = SleptIn(days[1], tail)]
    ELSE days

(***************************************************************************)
(* Validation.                                                             *)
(***************************************************************************)

StructureValid(text) == text # <<>> => text[1].date = 1

DatesComplete(days, check) ==
    LET found == {days[i].date : i \in DOMAIN days}
        until == CASE check = "none" -> {}
                   [] check = "continuity" -> {n \in Dates : \E d \in found : n <= d}
                   [] check = "full" -> IF found = {} THEN {} ELSE Dates
    IN  until \subseteq found

ActivityValid(activity) ==
    /\ Duration(activity) > 0
    /\ activity.long \/ Duration(activity) <= MaxActivity

LogicValid(days, check) ==
    /\ DatesComplete(days, check)
    /\ \A i \in DOMAIN days : \A k \in DOMAIN days[i].activities :
          ActivityValid(days[i].activities[k])

(***************************************************************************)
(* What the import stores: one row per logical id, that is per date and    *)
(* place in the day.  Of two blocks of one date the later one wins.        *)
(***************************************************************************)
Row == [date : Dates, seq : Nat \ {0}, activity : Activity]

RecordAt(days, i, k) ==
    [date |-> days[i].date, seq |-> k, activity |-> days[i].activities[k]]

DayRecords(days, i) == {RecordAt(days, i, k) : k \in DOMAIN days[i].activities}

\* What is handed to the import, several records of one logical id included.
Records(days) == UNION {DayRecords(days, i) : i \in DOMAIN days}

Overwritten(days, i, k) ==
    \E j \in DOMAIN days : /\ j > i
                           /\ days[j].date = days[i].date
                           /\ k \in DOMAIN days[j].activities

DayRows(days, i) ==
    {RecordAt(days, i, k) :
        k \in {n \in DOMAIN days[i].activities : ~Overwritten(days, i, n)}}

Stored(days) == UNION {DayRows(days, i) : i \in DOMAIN days}
=============================================================================
