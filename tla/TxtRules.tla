------------------------------ MODULE TxtRules ------------------------------
(***************************************************************************)
(* The two readers of a month's TXT: the text validator, which reports what *)
(* it finds wrong line by line, and the parser, which throws at the first   *)
(* line it cannot use.  They are written apart from one another and must    *)
(* agree; a text the first accepts is handed to the second.                 *)
(*                                                                         *)
(* A text is a sequence of trimmed lines.  A line is what its characters    *)
(* make of it: a header, four digits, an event, a remark, the remark prefix *)
(* alone, nothing, or anything else (a time after 23:59 and an event        *)
(* without a description included, which both readers refuse).              *)
(***************************************************************************)
EXTENDS TxtConversion

\* A left fold; walking a text by recursion keeps long texts affordable to TLC.
Walked(Step(_, _), first, seq) ==
    LET after[i \in 0 .. Len(seq)] ==
            IF i = 0 THEN first ELSE Step(after[i - 1], seq[i])
    IN  after[Len(seq)]

YearLine == [is |-> "year"]
MonthLine(m) == [is |-> "month", month |-> m]
DateLine(m, d) == [is |-> "date", month |-> m, day |-> d]
EventLine(time, name) == [is |-> "event", time |-> time, name |-> name]
RemarkLine == [is |-> "remark"]
PrefixLine == [is |-> "prefix"]
BlankLine == [is |-> "blank"]

\* An event's name is a wake keyword, one the mapping knows, or neither.
EventNames == {"wake", "known", "unknown"}

Line == [is : {"year", "remark", "prefix", "blank", "other"}]
        \cup [is : {"month"}, month : Nat]
        \cup [is : {"date"}, month : Nat, day : Nat]
        \cup [is : {"event"}, time : Times, name : EventNames]

(***************************************************************************)
(* The validator: StructureRules as the state of a fold.                    *)
(***************************************************************************)

\* Reset.
Unread == [year |-> FALSE, month |-> 0, dated |-> FALSE, inDay |-> FALSE,
           event |-> FALSE, over |-> FALSE, errors |-> {}]

Reported(s, error) == [s EXCEPT !.errors = @ \cup {error}]
ReportedIf(s, condition, error) == IF condition THEN Reported(s, error) ELSE s

\* ProcessYearLine.
ReadYear(s) ==
    IF s.year THEN Reported(s, "structure")
    ELSE [s EXCEPT !.year = TRUE, !.month = 0, !.dated = FALSE, !.inDay = FALSE]

\* ProcessMonthLine.
ReadMonth(s, line) ==
    IF ~s.year \/ s.month # 0 \/ s.dated THEN Reported(s, "structure")
    ELSE [s EXCEPT !.month = line.month]

\* ProcessDateLine: any four digits, as long as they begin with the month.
ReadDate(s, line) ==
    LET misplaced == ~s.year \/ s.month = 0 \/ line.month # s.month
        late == ~s.dated /\ line.day # 1
    IN  [ReportedIf(ReportedIf(s, misplaced, "structure"), late, "continuity")
            EXCEPT !.dated = TRUE, !.inDay = TRUE, !.event = FALSE]

\* ProcessRemarkLine.
ReadRemark(s) ==
    ReportedIf(ReportedIf(s, ~s.inDay, "structure"), s.event, "remark after event")

\* Mutant: an event before the first date is not reported.
ReadEventAnywhere(s, line) ==
    [ReportedIf(s, line.name = "unknown", "activity") EXCEPT !.event = TRUE]

\* IsValidEventLine and ProcessEventLine: an unmapped name is an error of the
\* line, which counts as an event all the same.
ReadEvent(s, line) ==
    [ReportedIf(ReportedIf(s, line.name = "unknown", "activity"),
                ~s.inDay, "structure") EXCEPT !.event = TRUE]

ReadLine(s, line) ==
    CASE line.is = "year" -> ReadYear(s)
      [] line.is = "month" -> ReadMonth(s, line)
      [] line.is = "date" -> ReadDate(s, line)
      [] line.is = "remark" -> ReadRemark(s)
      [] line.is = "event" -> ReadEvent(s, line)
      [] line.is \in {"prefix", "other"} -> Reported(s, "format")
      [] OTHER -> s

\* Validate stops at a first line that is no year header.
ValidateLine(s, line) ==
    LET read == ReadLine(s, line)
    IN  IF s.over \/ line.is = "blank" THEN s
        ELSE IF read.year THEN read
        ELSE [Reported(read, "no year") EXCEPT !.over = TRUE]

\* TextValidator::Validate.
Problems(text) ==
    LET s == Walked(ValidateLine, Unread, text)
    IN  s.errors \cup IF s.year /\ ~s.over /\ s.month = 0 THEN {"structure"} ELSE {}

Accepts(text) == Problems(text) = {}

(***************************************************************************)
(* The parser.                                                             *)
(***************************************************************************)
NoLog == [date |-> 0]

Unparsed == [year |-> FALSE, month |-> 0, log |-> NoLog, days |-> <<>>,
             thrown |-> FALSE]

\* on_new_day.
HandOver(p) == IF p.log = NoLog THEN p.days ELSE Append(p.days, p.log)

\* A date takes its day from the line and its month from the header.
BeginDay(p, line) ==
    IF p.month = 0 THEN [p EXCEPT !.thrown = TRUE]
    ELSE [p EXCEPT !.days = HandOver(p),
                   !.log = [date |-> line.day, month |-> p.month,
                            wake |-> NoTime, events |-> <<>>]]

\* ProcessEventContext: only the first event of a day may set the wake time.
WakeSet(log, line) ==
    IF line.name = "wake" /\ log.events = <<>> THEN [log EXCEPT !.wake = line.time]
    ELSE log

\* ParseLine.  A line with the remark prefix is never an error here.
ParseContent(p, line) ==
    IF line.is \in {"remark", "prefix"} THEN p
    ELSE IF p.log = NoLog \/ line.is # "event" THEN [p EXCEPT !.thrown = TRUE]
    ELSE LET event == [time |-> line.time, name |-> line.name]
             log == WakeSet(p.log, line)
         IN  [p EXCEPT !.log = [log EXCEPT !.events = Append(@, event)]]

\* Parse: lines before a year header are skipped, a month header among them.
ParseLine(p, line) ==
    IF p.thrown \/ line.is = "blank" THEN p
    ELSE IF line.is = "year" THEN [p EXCEPT !.year = TRUE, !.month = 0]
    ELSE IF ~p.year THEN p
    ELSE IF line.is = "month" THEN [p EXCEPT !.month = line.month]
    ELSE IF line.is = "date" THEN BeginDay(p, line)
    ELSE ParseContent(p, line)

Parsed(text) == Walked(ParseLine, Unparsed, text)
Parses(text) == ~Parsed(text).thrown
Logs(text) == HandOver(Parsed(text))

(***************************************************************************)
(* What the conversion is given: see TxtConversion.                         *)
(***************************************************************************)
BlockEvent(event) == [end |-> event.time, sleep |-> FALSE, long |-> FALSE]

\* The event of the wake line is the day's getupTime.
BlockOf(log) ==
    LET all == [k \in DOMAIN log.events |-> BlockEvent(log.events[k])]
    IN  [date |-> log.date, wake |-> log.wake,
         events |-> IF log.wake = NoTime THEN all ELSE Tail(all)]

Blocks(text) ==
    LET logs == Logs(text) IN [i \in DOMAIN logs |-> BlockOf(logs[i])]

\* ValidateWakeKeywordPosition.
WakeFirst(log) ==
    \A k \in DOMAIN log.events : log.events[k].name = "wake" => k = 1

\* What an ingest accepts: both validations, in this order.
Ingestible(text, check) ==
    /\ Accepts(text)
    /\ LET logs == Logs(text)
           blocks == Blocks(text)
       IN  /\ \A i \in DOMAIN logs : WakeFirst(logs[i])
           /\ StructureValid(blocks)
           /\ LogicValid(Convert(blocks), check)
=============================================================================
