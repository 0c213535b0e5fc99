---------------------------- MODULE DiaryProofs ----------------------------
(***************************************************************************)
(* The two readers of a TXT agree, on every text and therefore on whatever  *)
(* the editor makes of one.  Each of them is a walk over the lines of the   *)
(* text, so what they have in common is proved line by line.  What the      *)
(* generator writes is accepted because both readers can be followed while  *)
(* it is written: a month that has a sound shape keeps it with every day.   *)
(* The reader the generator has of its own, for the average, sees the days  *)
(* the parser sees, and both of their sums grow alike with every event.     *)
(***************************************************************************)
EXTENDS Diary, SequenceTheorems, WellFoundedInduction, TLAPS

-----------------------------------------------------------------------------
(* Walks.                                                                  *)

LEMMA EveryLineUpTo ==
  ASSUME NEW n \in Nat, NEW S, 0 \in S,
         \A k \in 0..(n - 1) : k \in S => k + 1 \in S
  PROVE  \A k \in 0..n : k \in S
<1> DEFINE Less == {p \in Nat \X Nat : p[1] < p[2]}
           Bad == (0..n) \ S
<1>1. SUFFICES ASSUME Bad # {} PROVE FALSE
  OBVIOUS
<1>2. IsWellFoundedOn(Less, Nat)
  BY NatLessThanWellFounded DEF OpToRel
<1>3. Bad \subseteq Nat
  OBVIOUS
<1>4. PICK k \in Bad : \A j \in Bad : <<j, k>> \notin Less
  <2> HIDE DEF Bad, Less
  <2> QED BY <1>1, <1>2, <1>3, WFMin
<1>5. k \in 0..n /\ k # 0
  BY <1>4
<1>6. k - 1 \in 0..(n - 1) /\ <<k - 1, k>> \in Less /\ k - 1 \in 0..n
  BY <1>5
<1>7. k - 1 \in S
  BY <1>4, <1>6
<1> QED BY <1>4, <1>5, <1>6, <1>7

LEMMA EveryLineDownTo ==
  ASSUME NEW n \in Nat, NEW S, n \in S,
         \A k \in 1..n : k \in S => k - 1 \in S
  PROVE  \A k \in 0..n : k \in S
<1> DEFINE T == {k \in 0..n : n - k \in S}
<1>1. 0 \in T
  OBVIOUS
<1>2. ASSUME NEW k \in 0..(n - 1), k \in T PROVE k + 1 \in T
  <2>1. n - k \in 1..n /\ n - k - 1 = n - (k + 1) /\ k + 1 \in 0..n
    OBVIOUS
  <2> QED BY <1>2, <2>1
<1> HIDE DEF T
<1>3. \A k \in 0..n : k \in T
  BY <1>1, <1>2, EveryLineUpTo
<1> SUFFICES ASSUME NEW k \in 0..n PROVE k \in S
  OBVIOUS
<1>4. n - k \in 0..n /\ n - (n - k) = k
  OBVIOUS
<1> QED BY <1>3, <1>4 DEF T

LEMMA EveryLineFrom ==
  ASSUME NEW m \in Nat, NEW n \in Nat, NEW S, m \in S,
         \A k \in m..(n - 1) : k \in S => k + 1 \in S
  PROVE  \A k \in m..n : k \in S
<1> DEFINE T == {k \in 0..n : k < m \/ k \in S}
<1>1. 0 \in T
  OBVIOUS
<1>2. ASSUME NEW k \in 0..(n - 1), k \in T PROVE k + 1 \in T
  BY <1>2
<1> HIDE DEF T
<1>3. \A k \in 0..n : k \in T
  BY <1>1, <1>2, EveryLineUpTo
<1> SUFFICES ASSUME NEW k \in m..n PROVE k \in S
  OBVIOUS
<1>4. k \in 0..n /\ ~(k < m)
  OBVIOUS
<1> QED BY <1>3, <1>4 DEF T

\* The states a walk goes through, for any step given as a function.
Walks(S, first, n, step) ==
  {f \in [0..n -> S] : f[0] = first /\ \A i \in 1..n : f[i] = step[i][f[i - 1]]}

LEMMA WalkExists ==
  ASSUME NEW S, NEW first \in S, NEW n \in Nat, NEW step \in [1..n -> [S -> S]]
  PROVE  Walks(S, first, n, step) # {}
<1> DEFINE Good == {k \in 0..n :
                      \E f \in [0..k -> S] :
                        f[0] = first /\ \A i \in 1..k : f[i] = step[i][f[i - 1]]}
<1>1. 0 \in Good
  <2> DEFINE f == [i \in 0..0 |-> first]
  <2>1. f \in [0..0 -> S] /\ f[0] = first /\ \A i \in 1..0 : f[i] = step[i][f[i - 1]]
    OBVIOUS
  <2>2. 0 \in 0..n
    OBVIOUS
  <2> HIDE DEF f
  <2> QED BY <2>1, <2>2
<1>2. ASSUME NEW k \in 0..(n - 1), k \in Good PROVE k + 1 \in Good
  <2>1. PICK f \in [0..k -> S] :
          f[0] = first /\ \A i \in 1..k : f[i] = step[i][f[i - 1]]
    BY <1>2
  <2> DEFINE g == [i \in 0..(k + 1) |-> IF i = k + 1 THEN step[k + 1][f[k]] ELSE f[i]]
  <2>2. k \in Nat /\ k + 1 \in 1..n /\ k \in 0..k /\ f[k] \in S
    <3>1. k \in Nat /\ k + 1 \in 1..n /\ k \in 0..k
      OBVIOUS
    <3> QED BY <3>1
  <2>3. step[k + 1][f[k]] \in S
    BY <2>2
  <2>4. g \in [0..(k + 1) -> S]
    BY <2>2, <2>3
  <2>5. g[0] = first
    BY <2>1, <2>2
  <2>6. ASSUME NEW i \in 1..(k + 1) PROVE g[i] = step[i][g[i - 1]]
    <3>1. CASE i = k + 1
      BY <2>2, <3>1
    <3>2. CASE i # k + 1
      BY <2>1, <2>2, <3>2
    <3> QED BY <3>1, <3>2
  <2>7. k + 1 \in 0..n
    BY <2>2
  <2> HIDE DEF g
  <2> QED BY <2>4, <2>5, <2>6, <2>7
<1>3. n \in Good
  <2> HIDE DEF Good
  <2>1. \A k \in 0..n : k \in Good
    BY <1>1, <1>2, EveryLineUpTo
  <2> QED BY <2>1
<1> QED BY <1>3 DEF Walks

LEMMA WalkStays ==
  ASSUME NEW S, NEW first \in S, NEW n \in Nat, NEW f,
         f[0] = first, DOMAIN f = 0..n,
         \A i \in 1..n : f[i - 1] \in S => f[i] \in S
  PROVE  \A i \in 0..n : f[i] \in S
<1> DEFINE Good == {i \in 0..n : f[i] \in S}
<1>1. 0 \in Good
  OBVIOUS
<1>2. ASSUME NEW k \in 0..(n - 1), k \in Good PROVE k + 1 \in Good
  <2>1. k + 1 \in 1..n /\ k + 1 - 1 = k
    OBVIOUS
  <2> QED BY <1>2, <2>1
<1> HIDE DEF Good
<1>3. \A k \in 0..n : k \in Good
  BY <1>1, <1>2, EveryLineUpTo
<1> QED BY <1>3 DEF Good

-----------------------------------------------------------------------------
(* What the readers make of a line.                                        *)

Problem == {"structure", "continuity", "remark after event", "activity",
            "format", "no year"}

\* A validator that stops has reported why.
Reading == [year : BOOLEAN, month : Nat, dated : BOOLEAN, inDay : BOOLEAN,
            event : BOOLEAN, over : BOOLEAN, errors : SUBSET Problem]
Reader == {s \in Reading : s.over => s.errors # {}}

Log == [date : Nat, month : Nat, wake : Times \cup {NoTime},
        events : Seq([time : Times, name : EventNames])]

Parser == [year : BOOLEAN, month : Nat, log : Log \cup {NoLog},
           days : Seq(Log), thrown : BOOLEAN]

LEMMA LineKinds ==
  ASSUME NEW line \in Line
  PROVE  \/ line.is \in {"year", "remark", "prefix", "blank", "other"}
         \/ line.is = "month" /\ line.month \in Nat
         \/ line.is = "date" /\ line.month \in Nat /\ line.day \in Nat
         \/ /\ line.is = "event" /\ line.time \in Times /\ line.name \in EventNames
            /\ line = EventLine(line.time, line.name)
  BY DEF Line, EventLine

LEMMA UnreadIsReader == Unread \in Reader
  BY DEF Unread, Reader, Reading

LEMMA ValidateLineReads ==
  ASSUME NEW s \in Reader, NEW line \in Line
  PROVE  /\ ValidateLine(s, line) \in Reader
         /\ s.errors \subseteq ValidateLine(s, line).errors
<1>1. s \in Reading /\ (s.over => s.errors # {})
  BY DEF Reader
<1>0. {"structure", "continuity", "remark after event", "activity", "format",
       "no year"} \subseteq Problem
  BY DEF Problem
<1>2. ASSUME NEW t \in Reading, NEW error \in Problem
      PROVE  /\ Reported(t, error) \in Reading
             /\ Reported(t, error).errors = t.errors \cup {error}
             /\ Reported(t, error).over = t.over
  BY DEF Reported, Reading
<1>3. ASSUME NEW t \in Reading, NEW error \in Problem, NEW condition
      PROVE  /\ ReportedIf(t, condition, error) \in Reading
             /\ t.errors \subseteq ReportedIf(t, condition, error).errors
             /\ ReportedIf(t, condition, error).over = t.over
  BY <1>2 DEF ReportedIf
<1> DEFINE read == ReadLine(s, line)
<1>4. read \in Reading /\ s.errors \subseteq read.errors /\ read.over = s.over
  <2>1. CASE line.is = "year"
    <3>1. read = ReadYear(s)
      BY <2>1 DEF ReadLine
    <3>2. CASE s.year
      <4>1. read = Reported(s, "structure") /\ "structure" \in Problem
        BY <1>0, <3>1, <3>2 DEF ReadYear
      <4> HIDE DEF read
      <4> QED BY <1>1, <1>2, <4>1
    <3>3. CASE ~s.year
      <4>1. read = [year |-> TRUE, month |-> 0, dated |-> FALSE, inDay |-> FALSE,
                    event |-> s.event, over |-> s.over, errors |-> s.errors]
        BY <1>1, <3>1, <3>3 DEF ReadYear, Reading
      <4> HIDE DEF read
      <4> QED BY <1>1, <4>1 DEF Reading
    <3> QED BY <3>2, <3>3
  <2>2. CASE line.is = "month"
    <3>1. read = ReadMonth(s, line)
      BY <2>2 DEF ReadLine
    <3>2. line.month \in Nat
      BY <2>2, LineKinds
    <3>3. CASE ~s.year \/ s.month # 0 \/ s.dated
      <4>1. read = Reported(s, "structure") /\ "structure" \in Problem
        BY <1>0, <3>1, <3>3 DEF ReadMonth
      <4> HIDE DEF read
      <4> QED BY <1>1, <1>2, <4>1
    <3>4. CASE ~(~s.year \/ s.month # 0 \/ s.dated)
      <4>1. read = [s EXCEPT !.month = line.month]
        BY <3>1, <3>4 DEF ReadMonth
      <4> HIDE DEF read
      <4> QED BY <1>1, <3>2, <4>1 DEF Reading
    <3> QED BY <3>3, <3>4
  <2>3. CASE line.is = "date"
    <3>1. read = ReadDate(s, line)
      BY <2>3 DEF ReadLine
    <3> DEFINE one == ReportedIf(s, ~s.year \/ s.month = 0 \/ line.month # s.month,
                                 "structure")
               two == ReportedIf(one, ~s.dated /\ line.day # 1, "continuity")
    <3>2. /\ one \in Reading /\ s.errors \subseteq one.errors /\ one.over = s.over
      <4> HIDE DEF read
      <4>1. {"structure"} \subseteq Problem
        BY <1>0
      <4> QED BY <1>1, <1>3, <4>1
    <3>3. /\ two \in Reading /\ one.errors \subseteq two.errors /\ two.over = one.over
      <4> HIDE DEF one, read
      <4>1. {"structure", "continuity"} \subseteq Problem
        BY <1>0
      <4> QED BY <1>3, <3>2, <4>1
    <3>4. read = [two EXCEPT !.dated = TRUE, !.inDay = TRUE, !.event = FALSE]
      BY <3>1 DEF ReadDate
    <3> HIDE DEF one, two
    <3> QED BY <3>2, <3>3, <3>4 DEF Reading
  <2>4. CASE line.is = "remark"
    <3>1. read = ReadRemark(s)
      BY <2>4 DEF ReadLine
    <3> DEFINE one == ReportedIf(s, ~s.inDay, "structure")
    <3>2. /\ one \in Reading /\ s.errors \subseteq one.errors /\ one.over = s.over
      <4> HIDE DEF read
      <4>1. {"structure"} \subseteq Problem
        BY <1>0
      <4> QED BY <1>1, <1>3, <4>1
    <3>3. read = ReportedIf(one, s.event, "remark after event")
      BY <3>1 DEF ReadRemark
    <3> HIDE DEF one, read
    <3>4. "remark after event" \in Problem
      BY <1>0
    <3> QED BY <1>3, <3>2, <3>3, <3>4
  <2>5. CASE line.is = "event"
    <3>1. read = ReadEvent(s, line)
      BY <2>5 DEF ReadLine
    <3> DEFINE one == ReportedIf(s, line.name = "unknown", "activity")
               two == ReportedIf(one, ~s.inDay, "structure")
    <3>2. /\ one \in Reading /\ s.errors \subseteq one.errors /\ one.over = s.over
      <4> HIDE DEF read
      <4>1. {"activity"} \subseteq Problem
        BY <1>0
      <4> QED BY <1>1, <1>3, <4>1
    <3>3. /\ two \in Reading /\ one.errors \subseteq two.errors /\ two.over = one.over
      <4> HIDE DEF one, read
      <4>1. {"structure", "continuity"} \subseteq Problem
        BY <1>0
      <4> QED BY <1>3, <3>2, <4>1
    <3>4. read = [two EXCEPT !.event = TRUE]
      BY <3>1 DEF ReadEvent
    <3> HIDE DEF one, two
    <3> QED BY <3>2, <3>3, <3>4 DEF Reading
  <2>6. CASE line.is \in {"prefix", "other"}
    <3>1. read = Reported(s, "format") /\ "format" \in Problem
      BY <1>0, <2>6 DEF ReadLine
    <3> HIDE DEF read
    <3> QED BY <1>1, <1>2, <3>1
  <2>7. CASE line.is = "blank"
    <3>1. read = s
      BY <2>7 DEF ReadLine
    <3> QED BY <1>1, <3>1
  <2> QED BY <2>1, <2>2, <2>3, <2>4, <2>5, <2>6, <2>7, LineKinds
<1> HIDE DEF read
<1>5. ValidateLine(s, line) =
        IF s.over \/ line.is = "blank" THEN s
        ELSE IF read.year THEN read
        ELSE [Reported(read, "no year") EXCEPT !.over = TRUE]
  BY DEF ValidateLine, read
<1>6. /\ Reported(read, "no year") \in Reading
      /\ Reported(read, "no year").errors = read.errors \cup {"no year"}
  BY <1>0, <1>2, <1>4
<1>7. CASE s.over \/ line.is = "blank"
  BY <1>5, <1>7
<1>8. CASE ~(s.over \/ line.is = "blank") /\ read.year
  BY <1>1, <1>4, <1>5, <1>8 DEF Reader, Reading
<1>9. CASE ~(s.over \/ line.is = "blank") /\ ~read.year
  BY <1>1, <1>4, <1>5, <1>6, <1>9 DEF Reader, Reading
<1> QED BY <1>7, <1>8, <1>9

LEMMA NoLogIsNone == NoLog \notin Log
  <1>1. \A log \in Log : "events" \in DOMAIN log
    BY DEF Log
  <1>2. "events" \notin DOMAIN NoLog
    BY DEF NoLog
  <1> QED BY <1>1, <1>2

LEMMA UnparsedIsParser == Unparsed \in Parser
  BY DEF Unparsed, Parser

LEMMA HandedOver ==
  ASSUME NEW p \in Parser
  PROVE  HandOver(p) \in Seq(Log)
  BY DEF HandOver, Parser

LEMMA ParseLineParses ==
  ASSUME NEW p \in Parser, NEW line \in Line
  PROVE  ParseLine(p, line) \in Parser
<1>1. CASE line.is = "date" /\ ParseLine(p, line) = BeginDay(p, line)
  <2>1. CASE p.month = 0
    BY <1>1, <2>1 DEF BeginDay, Parser
  <2>2. CASE p.month # 0
    <3> DEFINE log == [date |-> line.day, month |-> p.month,
                       wake |-> NoTime, events |-> <<>>]
    <3>1. line.day \in Nat /\ p.month \in Nat
      BY <1>1, LineKinds DEF Parser
    <3>2. log \in Log
      BY <3>1 DEF Log
    <3>3. ParseLine(p, line) = [p EXCEPT !.days = HandOver(p), !.log = log]
      BY <1>1, <2>2 DEF BeginDay
    <3> HIDE DEF log
    <3> QED BY <3>2, <3>3, HandedOver DEF Parser
  <2> QED BY <2>1, <2>2
<1>2. CASE ParseLine(p, line) = ParseContent(p, line)
  <2>1. CASE line.is = "event" /\ p.log # NoLog
    <3> DEFINE event == [time |-> line.time, name |-> line.name]
               woken == WakeSet(p.log, line)
               events == Append(woken.events, event)
               log == [woken EXCEPT !.events = events]
    <3>1. event \in [time : Times, name : EventNames] /\ p.log \in Log
      BY <2>1, LineKinds DEF Parser
    <3>2. line.time \in Times
      BY <2>1, LineKinds
    <3>3. WakeSet(p.log, line) \in Log
      BY <3>1, <3>2 DEF WakeSet, Log
    <3>4. log \in Log
      <4>1. woken \in Log
        BY <3>3
      <4> HIDE DEF event, woken
      <4>2. events \in Seq([time : Times, name : EventNames])
        BY <3>1, <4>1 DEF Log
      <4> HIDE DEF events
      <4> QED BY <4>1, <4>2 DEF Log
    <3>5. ParseLine(p, line) = [p EXCEPT !.log = log]
      <4>1. line.is \notin {"remark", "prefix"}
        BY <2>1
      <4>2. ParseContent(p, line) = [p EXCEPT !.log = log]
        BY <2>1, <4>1 DEF ParseContent
      <4> QED BY <1>2, <4>2
    <3> HIDE DEF log
    <3> QED BY <3>4, <3>5 DEF Parser
  <2>2. CASE ~(line.is = "event" /\ p.log # NoLog)
    BY <1>2, <2>2 DEF ParseContent, Parser
  <2> QED BY <2>1, <2>2
<1>3. CASE line.is = "month" /\ ParseLine(p, line) = [p EXCEPT !.month = line.month]
  <2>1. line.month \in Nat
    BY <1>3, LineKinds
  <2> QED BY <1>3, <2>1 DEF Parser
<1>4. CASE ParseLine(p, line) = [p EXCEPT !.year = TRUE, !.month = 0]
  <2>1. ParseLine(p, line) = [year |-> TRUE, month |-> 0, log |-> p.log,
                              days |-> p.days, thrown |-> p.thrown]
    BY <1>4 DEF Parser
  <2> QED BY <2>1 DEF Parser
<1>5. CASE ParseLine(p, line) = p
  BY <1>5
<1> QED BY <1>1, <1>2, <1>3, <1>4, <1>5 DEF ParseLine

-----------------------------------------------------------------------------
(* The walks of the two readers, and of the lines of one kind.             *)

LEMMA ValidatorWalk ==
  ASSUME NEW text \in Seq(Line)
  PROVE  \E f \in [0..Len(text) -> Reader] :
           /\ f[0] = Unread
           /\ \A i \in 1..Len(text) : f[i] = ValidateLine(f[i - 1], text[i])
           /\ Walked(ValidateLine, Unread, text) = f[Len(text)]
<1> DEFINE n == Len(text)
           step == [i \in 1..n |-> [s \in Reader |-> ValidateLine(s, text[i])]]
           Follows(f) == f = [i \in 0..n |-> IF i = 0 THEN Unread
                                              ELSE ValidateLine(f[i - 1], text[i])]
           after == CHOOSE f : Follows(f)
<1>1. n \in Nat /\ \A i \in 1..n : text[i] \in Line
  OBVIOUS
<1>2. Unread \in Reader
  BY UnreadIsReader
<1>3. ASSUME NEW i \in 1..n, NEW s \in Reader PROVE ValidateLine(s, text[i]) \in Reader
  <2>1. text[i] \in Line
    BY <1>1
  <2> QED BY <2>1, ValidateLineReads
<1>4. step \in [1..n -> [Reader -> Reader]]
  BY <1>3
<1>5. PICK f \in Walks(Reader, Unread, n, step) : TRUE
  <2> HIDE DEF step, n
  <2> QED BY <1>1, <1>2, <1>4, WalkExists
<1>6. Follows(f)
  <2>1. f \in [0..n -> Reader] /\ f[0] = Unread
    BY <1>5 DEF Walks
  <2>2. ASSUME NEW i \in 1..n PROVE f[i] = ValidateLine(f[i - 1], text[i])
    <3>1. f[i] = step[i][f[i - 1]] /\ f[i - 1] \in Reader
      <4>1. i - 1 \in 0..n
        BY <1>1
      <4> HIDE DEF step, n
      <4> QED BY <1>5, <4>1 DEF Walks
    <3> QED BY <3>1
  <2> HIDE DEF n
  <2>3. \A i \in 0..n : f[i] = IF i = 0 THEN Unread ELSE ValidateLine(f[i - 1], text[i])
    BY <1>1, <2>1, <2>2
  <2> QED BY <2>1, <2>3
<1>7. Follows(after)
  <2> HIDE DEF Follows
  <2> QED BY <1>6
<1> HIDE DEF after
<1>8. /\ DOMAIN after = 0..n /\ after[0] = Unread
      /\ \A i \in 1..n : after[i] = ValidateLine(after[i - 1], text[i])
  <2> HIDE DEF n
  <2>1. DOMAIN after = 0..n
    BY <1>7
  <2>2. \A i \in 0..n : after[i] = IF i = 0 THEN Unread ELSE ValidateLine(after[i - 1], text[i])
    BY <1>7
  <2> QED BY <1>1, <2>1, <2>2
<1>9. \A i \in 0..n : after[i] \in Reader
  <2>1. \A i \in 1..n : after[i - 1] \in Reader => after[i] \in Reader
    BY <1>3, <1>8
  <2> HIDE DEF n
  <2> QED BY <1>1, <1>2, <1>8, <2>1, WalkStays
<1>10. after = [i \in 0..n |-> after[i]]
  <2> HIDE DEF n
  <2> QED BY <1>1, <1>7
<1>11. after \in [0..n -> Reader]
  BY <1>9, <1>10
<1>12. Walked(ValidateLine, Unread, text) = after[n]
  BY DEF after, Walked
<1> QED BY <1>8, <1>11, <1>12

LEMMA ParserWalk ==
  ASSUME NEW text \in Seq(Line)
  PROVE  \E f \in [0..Len(text) -> Parser] :
           /\ f[0] = Unparsed
           /\ \A i \in 1..Len(text) : f[i] = ParseLine(f[i - 1], text[i])
           /\ Parsed(text) = f[Len(text)]
<1> DEFINE n == Len(text)
           step == [i \in 1..n |-> [s \in Parser |-> ParseLine(s, text[i])]]
           Follows(f) == f = [i \in 0..n |-> IF i = 0 THEN Unparsed
                                              ELSE ParseLine(f[i - 1], text[i])]
           after == CHOOSE f : Follows(f)
<1>1. n \in Nat /\ \A i \in 1..n : text[i] \in Line
  OBVIOUS
<1>2. Unparsed \in Parser
  BY UnparsedIsParser
<1>3. ASSUME NEW i \in 1..n, NEW s \in Parser PROVE ParseLine(s, text[i]) \in Parser
  <2>1. text[i] \in Line
    BY <1>1
  <2> QED BY <2>1, ParseLineParses
<1>4. step \in [1..n -> [Parser -> Parser]]
  BY <1>3
<1>5. PICK f \in Walks(Parser, Unparsed, n, step) : TRUE
  <2> HIDE DEF step, n
  <2> QED BY <1>1, <1>2, <1>4, WalkExists
<1>6. Follows(f)
  <2>1. f \in [0..n -> Parser] /\ f[0] = Unparsed
    BY <1>5 DEF Walks
  <2>2. ASSUME NEW i \in 1..n PROVE f[i] = ParseLine(f[i - 1], text[i])
    <3>1. f[i] = step[i][f[i - 1]] /\ f[i - 1] \in Parser
      <4>1. i - 1 \in 0..n
        BY <1>1
      <4> HIDE DEF step, n
      <4> QED BY <1>5, <4>1 DEF Walks
    <3> QED BY <3>1
  <2> HIDE DEF n
  <2>3. \A i \in 0..n : f[i] = IF i = 0 THEN Unparsed ELSE ParseLine(f[i - 1], text[i])
    BY <1>1, <2>1, <2>2
  <2> QED BY <2>1, <2>3
<1>7. Follows(after)
  <2> HIDE DEF Follows
  <2> QED BY <1>6
<1> HIDE DEF after
<1>8. /\ DOMAIN after = 0..n /\ after[0] = Unparsed
      /\ \A i \in 1..n : after[i] = ParseLine(after[i - 1], text[i])
  <2> HIDE DEF n
  <2>1. DOMAIN after = 0..n
    BY <1>7
  <2>2. \A i \in 0..n : after[i] = IF i = 0 THEN Unparsed ELSE ParseLine(after[i - 1], text[i])
    BY <1>7
  <2> QED BY <1>1, <2>1, <2>2
<1>9. \A i \in 0..n : after[i] \in Parser
  <2>1. \A i \in 1..n : after[i - 1] \in Parser => after[i] \in Parser
    BY <1>3, <1>8
  <2> HIDE DEF n
  <2> QED BY <1>1, <1>2, <1>8, <2>1, WalkStays
<1>10. after = [i \in 0..n |-> after[i]]
  <2> HIDE DEF n
  <2> QED BY <1>1, <1>7
<1>11. after \in [0..n -> Parser]
  BY <1>9, <1>10
<1>12. Parsed(text) = after[n]
  BY DEF after, Walked, Parsed
<1> QED BY <1>8, <1>11, <1>12

Chosen(kind, all, line) == IF line.is = kind THEN Append(all, line) ELSE all

Texts == Seq(Line)
NoLine == <<>>

LEMMA KindWalk ==
  ASSUME NEW text \in Seq(Line), NEW kind
  PROVE  \E f \in [0..Len(text) -> Texts] :
           /\ f[0] = NoLine
           /\ \A i \in 1..Len(text) : f[i] = Chosen(kind, f[i - 1], text[i])
           /\ LinesThatAre(kind, text) = f[Len(text)]
<1> DEFINE n == Len(text)
           step == [i \in 1..n |-> [s \in Texts |-> Chosen(kind, s, text[i])]]
           Follows(f) == f = [i \in 0..n |-> IF i = 0 THEN NoLine
                                              ELSE Chosen(kind, f[i - 1], text[i])]
           after == CHOOSE f : Follows(f)
<1>1. n \in Nat /\ \A i \in 1..n : text[i] \in Line
  OBVIOUS
<1>2. NoLine \in Texts
  BY DEF NoLine, Texts
<1>3. ASSUME NEW i \in 1..n, NEW s \in Texts PROVE Chosen(kind, s, text[i]) \in Texts
  <2>1. text[i] \in Line
    BY <1>1
  <2> QED BY <2>1 DEF Chosen, Texts
<1>4. step \in [1..n -> [Texts -> Texts]]
  BY <1>3
<1>5. PICK f \in Walks(Texts, NoLine, n, step) : TRUE
  <2> HIDE DEF step, n
  <2> QED BY <1>1, <1>2, <1>4, WalkExists
<1>6. Follows(f)
  <2>1. f \in [0..n -> Texts] /\ f[0] = NoLine
    BY <1>5 DEF Walks
  <2>2. ASSUME NEW i \in 1..n PROVE f[i] = Chosen(kind, f[i - 1], text[i])
    <3>1. f[i] = step[i][f[i - 1]] /\ f[i - 1] \in Texts
      <4>1. i - 1 \in 0..n
        BY <1>1
      <4> HIDE DEF step, n
      <4> QED BY <1>5, <4>1 DEF Walks
    <3> QED BY <3>1
  <2> HIDE DEF n
  <2>3. \A i \in 0..n : f[i] = IF i = 0 THEN NoLine ELSE Chosen(kind, f[i - 1], text[i])
    BY <1>1, <2>1, <2>2
  <2> QED BY <2>1, <2>3
<1>7. Follows(after)
  <2> HIDE DEF Follows
  <2> QED BY <1>6
<1> HIDE DEF after
<1>8. /\ DOMAIN after = 0..n /\ after[0] = NoLine
      /\ \A i \in 1..n : after[i] = Chosen(kind, after[i - 1], text[i])
  <2> HIDE DEF n
  <2>1. DOMAIN after = 0..n
    BY <1>7
  <2>2. \A i \in 0..n : after[i] = IF i = 0 THEN NoLine ELSE Chosen(kind, after[i - 1], text[i])
    BY <1>7
  <2> QED BY <1>1, <2>1, <2>2
<1>9. \A i \in 0..n : after[i] \in Texts
  <2>1. \A i \in 1..n : after[i - 1] \in Texts => after[i] \in Texts
    BY <1>3, <1>8
  <2> HIDE DEF n
  <2> QED BY <1>1, <1>2, <1>8, <2>1, WalkStays
<1>10. after = [i \in 0..n |-> after[i]]
  <2> HIDE DEF n
  <2> QED BY <1>1, <1>7
<1>11. after \in [0..n -> Texts]
  BY <1>9, <1>10
<1>12. LinesThatAre(kind, text) = after[n]
  BY DEF after, Walked, LinesThatAre, Chosen, NoLine
<1> QED BY <1>8, <1>11, <1>12

Happening == [time : Times, name : EventNames]
Booking(logs) == Walked(LAMBDA all, log : all \o log.events, <<>>, logs)

Bookings == Seq(Happening)
NoBooking == <<>>
Booked1(all, log) == all \o log.events

LEMMA BookingWalk ==
  ASSUME NEW text \in Seq(Log)
  PROVE  \E f \in [0..Len(text) -> Bookings] :
           /\ f[0] = NoBooking
           /\ \A i \in 1..Len(text) : f[i] = Booked1(f[i - 1], text[i])
           /\ Booking(text) = f[Len(text)]
<1> DEFINE n == Len(text)
           step == [i \in 1..n |-> [s \in Bookings |-> Booked1(s, text[i])]]
           Follows(f) == f = [i \in 0..n |-> IF i = 0 THEN NoBooking
                                              ELSE Booked1(f[i - 1], text[i])]
           after == CHOOSE f : Follows(f)
<1>1. n \in Nat /\ \A i \in 1..n : text[i] \in Log
  OBVIOUS
<1>2. NoBooking \in Bookings
  BY DEF NoBooking, Bookings
<1>3. ASSUME NEW i \in 1..n, NEW s \in Bookings PROVE Booked1(s, text[i]) \in Bookings
  <2>1. text[i] \in Log
    BY <1>1
  <2> QED BY <2>1 DEF Log, Happening, Bookings, Booked1
<1>4. step \in [1..n -> [Bookings -> Bookings]]
  BY <1>3
<1>5. PICK f \in Walks(Bookings, NoBooking, n, step) : TRUE
  <2> HIDE DEF step, n
  <2> QED BY <1>1, <1>2, <1>4, WalkExists
<1>6. Follows(f)
  <2>1. f \in [0..n -> Bookings] /\ f[0] = NoBooking
    BY <1>5 DEF Walks
  <2>2. ASSUME NEW i \in 1..n PROVE f[i] = Booked1(f[i - 1], text[i])
    <3>1. f[i] = step[i][f[i - 1]] /\ f[i - 1] \in Bookings
      <4>1. i - 1 \in 0..n
        BY <1>1
      <4> HIDE DEF step, n
      <4> QED BY <1>5, <4>1 DEF Walks
    <3> QED BY <3>1
  <2> HIDE DEF n
  <2>3. \A i \in 0..n : f[i] = IF i = 0 THEN NoBooking ELSE Booked1(f[i - 1], text[i])
    BY <1>1, <2>1, <2>2
  <2> QED BY <2>1, <2>3
<1>7. Follows(after)
  <2> HIDE DEF Follows
  <2> QED BY <1>6
<1> HIDE DEF after
<1>8. /\ DOMAIN after = 0..n /\ after[0] = NoBooking
      /\ \A i \in 1..n : after[i] = Booked1(after[i - 1], text[i])
  <2> HIDE DEF n
  <2>1. DOMAIN after = 0..n
    BY <1>7
  <2>2. \A i \in 0..n : after[i] = IF i = 0 THEN NoBooking ELSE Booked1(after[i - 1], text[i])
    BY <1>7
  <2> QED BY <1>1, <2>1, <2>2
<1>9. \A i \in 0..n : after[i] \in Bookings
  <2>1. \A i \in 1..n : after[i - 1] \in Bookings => after[i] \in Bookings
    BY <1>3, <1>8
  <2> HIDE DEF n
  <2> QED BY <1>1, <1>2, <1>8, <2>1, WalkStays
<1>10. after = [i \in 0..n |-> after[i]]
  <2> HIDE DEF n
  <2> QED BY <1>1, <1>7
<1>11. after \in [0..n -> Bookings]
  BY <1>9, <1>10
<1>12. Booking(text) = after[n]
  BY DEF after, Walked, Booking, Booked1, NoBooking
<1> QED BY <1>8, <1>11, <1>12
LEMMA BookingOfMore ==
  ASSUME NEW logs \in Seq(Log), NEW log \in Log
  PROVE  /\ Booking(logs) \in Bookings
         /\ Booking(Append(logs, log)) = Booking(logs) \o log.events
<1> DEFINE more == Append(logs, log)
           n == Len(logs)
<1>1. /\ n \in Nat /\ more \in Seq(Log) /\ Len(more) = n + 1
      /\ more[n + 1] = log /\ \A i \in 1..n : more[i] = logs[i]
  OBVIOUS
<1> HIDE DEF more, n
<1>2. PICK f \in [0..n -> Bookings] :
        /\ f[0] = NoBooking
        /\ \A i \in 1..n : f[i] = Booked1(f[i - 1], logs[i])
        /\ Booking(logs) = f[n]
  BY BookingWalk DEF n
<1>3. PICK g \in [0..(n + 1) -> Bookings] :
        /\ g[0] = NoBooking
        /\ \A i \in 1..(n + 1) : g[i] = Booked1(g[i - 1], more[i])
        /\ Booking(more) = g[n + 1]
  BY <1>1, BookingWalk
<1> DEFINE Same == {i \in 0..n : f[i] = g[i]}
<1>4. 0 \in Same
  BY <1>1, <1>2, <1>3
<1>5. ASSUME NEW k \in 0..(n - 1), k \in Same PROVE k + 1 \in Same
  <2>1. k + 1 \in 1..n /\ k + 1 \in 1..(n + 1) /\ k + 1 - 1 = k /\ k + 1 \in 0..n
    BY <1>1
  <2>2. f[k + 1] = Booked1(f[k], logs[k + 1])
    BY <1>2, <2>1
  <2>3. g[k + 1] = Booked1(g[k], more[k + 1])
    BY <1>3, <2>1
  <2> QED BY <1>1, <1>5, <2>1, <2>2, <2>3
<1> HIDE DEF Same
<1>6. \A k \in 0..n : k \in Same
  BY <1>1, <1>4, <1>5, EveryLineUpTo
<1>7. n \in 0..n /\ n + 1 \in 1..(n + 1) /\ n + 1 - 1 = n
  BY <1>1
<1>8. f[n] = g[n]
  BY <1>6, <1>7 DEF Same
<1>9. g[n + 1] = Booked1(g[n], log)
  BY <1>1, <1>3, <1>7
<1> QED BY <1>2, <1>3, <1>7, <1>8, <1>9 DEF Booked1, more

LEMMA BookingOfNone == Booking(<<>>) = <<>>
<1>1. PICK f \in [0..Len(<<>>) -> Bookings] :
        f[0] = NoBooking /\ Booking(<<>>) = f[Len(<<>>)]
  <2>1. <<>> \in Seq(Log)
    OBVIOUS
  <2> QED BY <2>1, BookingWalk
<1> QED BY <1>1 DEF NoBooking

-----------------------------------------------------------------------------
(* The readers agree after every line, as long as none is reported.        *)

AsLines(booked) ==
  [k \in DOMAIN booked |-> EventLine(booked[k].time, booked[k].name)]

\* What is common to the two when the dates and the events so far were these.
Agree(s, p, dates, events) ==
  /\ ~p.thrown
  /\ p.year = s.year /\ p.month = s.month
  /\ s.inDay <=> p.log # NoLog
  /\ s.inDay => s.year
  /\ Len(HandOver(p)) = Len(dates)
  /\ AsLines(Booking(HandOver(p))) = events

LEMMA AppendAsLines ==
  ASSUME NEW booked \in Bookings, NEW line \in Line, line.is = "event"
  PROVE  AsLines(Append(booked, [time |-> line.time, name |-> line.name]))
           = Append(AsLines(booked), line)
<1> DEFINE event == [time |-> line.time, name |-> line.name]
           n == Len(booked)
           more == Append(booked, event)
<1>1. /\ n \in Nat /\ more \in Seq(Happening) /\ Len(more) = n + 1
      /\ more[n + 1] = event /\ \A i \in 1..n : more[i] = booked[i]
  <2>1. event \in Happening
    BY LineKinds DEF Happening
  <2> HIDE DEF event
  <2> QED BY <2>1 DEF Bookings
<1>2. line = EventLine(event.time, event.name)
  BY LineKinds
<1> DEFINE one == AsLines(booked)
           two == AsLines(more)
<1>3. one = [k \in 1..n |-> EventLine(booked[k].time, booked[k].name)]
  BY DEF AsLines, Bookings
<1>4. two = [k \in 1..(n + 1) |-> EventLine(more[k].time, more[k].name)]
  <2> HIDE DEF more, n
  <2>1. DOMAIN more = 1..(n + 1)
    BY <1>1
  <2> QED BY <2>1 DEF AsLines
<1> HIDE DEF event, n, more, one, two
<1> DEFINE S == {EventLine(booked[k].time, booked[k].name) : k \in 1..n} \cup {line}
<1>5. one \in [1..n -> S] /\ line \in S
  BY <1>3
<1> HIDE DEF S
<1>6. Append(one, line) = [k \in 1..(n + 1) |-> IF k = n + 1 THEN line ELSE one[k]]
  <2>1. one \in Seq(S) /\ Len(one) = n
    BY <1>1, <1>5
  <2> DEFINE q == Append(one, line)
  <2>2. /\ q \in Seq(S) /\ Len(q) = n + 1
        /\ \A k \in 1..n : q[k] = one[k]
        /\ q[n + 1] = line
    BY <1>1, <1>5, <2>1, AppendProperties
  <2> HIDE DEF q
  <2>3. q \in [1..(n + 1) -> S]
    BY <2>2, LenProperties
  <2>4. q = [k \in 1..(n + 1) |-> q[k]]
    BY <2>3
  <2>5. \A k \in 1..(n + 1) : q[k] = IF k = n + 1 THEN line ELSE one[k]
    BY <1>1, <2>2
  <2>6. q = [k \in 1..(n + 1) |-> IF k = n + 1 THEN line ELSE one[k]]
    BY <2>4, <2>5
  <2> QED BY <2>6 DEF q
<1>7. ASSUME NEW k \in 1..(n + 1)
      PROVE  two[k] = IF k = n + 1 THEN line ELSE one[k]
  <2>1. CASE k = n + 1
    BY <1>1, <1>2, <1>4, <2>1
  <2>2. CASE k # n + 1
    <3>1. k \in 1..n
      BY <1>1, <2>2
    <3> QED BY <1>1, <1>3, <1>4, <2>2, <3>1
  <2> QED BY <2>1, <2>2
<1>8. two = [k \in 1..(n + 1) |-> two[k]]
  BY <1>4
<1>9. two = Append(one, line)
  BY <1>6, <1>7, <1>8
<1> QED BY <1>9 DEF one, two, more, event

LEMMA ConcatAppend ==
  ASSUME NEW S, NEW a \in Seq(S), NEW b \in Seq(S), NEW e \in S
  PROVE  a \o Append(b, e) = Append(a \o b, e)
<1>1. Append(b, e) = b \o <<e>> /\ a \o b \in Seq(S) /\ <<e>> \in Seq(S)
  BY AppendIsConcat, ConcatProperties
<1>2. Append(a \o b, e) = (a \o b) \o <<e>>
  BY <1>1, AppendIsConcat
<1> QED BY <1>1, <1>2, ConcatAssociative

LEMMA CleanLine ==
  ASSUME NEW s \in Reader, NEW line \in Line, line.is # "blank",
         ValidateLine(s, line).errors = {}
  PROVE  ValidateLine(s, line) = ReadLine(s, line) /\ ReadLine(s, line).year
<1> DEFINE t == ValidateLine(s, line)
           read == ReadLine(s, line)
<1>1. s.errors = {} /\ ~s.over
  BY ValidateLineReads DEF Reader
<1>2. t = IF read.year THEN read ELSE [Reported(read, "no year") EXCEPT !.over = TRUE]
  BY <1>1 DEF ValidateLine
<1>3. read.year
  <2> SUFFICES ASSUME ~read.year PROVE FALSE
    OBVIOUS
  <2>1. t \in Reader /\ t = [Reported(read, "no year") EXCEPT !.over = TRUE]
    BY <1>2, ValidateLineReads
  <2> HIDE DEF t, read
  <2>2. t.over /\ t.errors # {}
    BY <2>1 DEF Reader, Reading
  <2> QED BY <2>2 DEF t
<1> QED BY <1>2, <1>3

LEMMA LineKeepsAgreement ==
  ASSUME NEW s \in Reader, NEW p \in Parser, NEW line \in Line,
         NEW dates \in Texts, NEW events,
         Agree(s, p, dates, events),
         ValidateLine(s, line).errors = {}
  PROVE  Agree(ValidateLine(s, line), ParseLine(p, line),
               Chosen("date", dates, line), Chosen("event", events, line))
<1> DEFINE t == ValidateLine(s, line)
           q == ParseLine(p, line)
           read == ReadLine(s, line)
<1>1. s.errors = {} /\ ~s.over /\ s \in Reading
  BY ValidateLineReads DEF Reader
<1>2. ASSUME line.is # "blank"
      PROVE  t = read /\ read.year /\ read.errors = {}
  <2>1. t = read /\ read.year
    BY <1>2, CleanLine
  <2> QED BY <2>1
<1>3. ASSUME NEW error, read = Reported(s, error), line.is # "blank" PROVE FALSE
  BY <1>1, <1>2, <1>3 DEF Reported, Reading
<1>4. CASE line.is = "blank"
  <2>1. t = s /\ q = p
    BY <1>1, <1>4, Zenon DEF ValidateLine, ParseLine, Agree
  <2>2. Chosen("date", dates, line) = dates /\ Chosen("event", events, line) = events
    BY <1>4 DEF Chosen
  <2> QED BY <2>1, <2>2
<1>5. CASE line.is = "year"
  <2>1. read = ReadYear(s)
    BY <1>5 DEF ReadLine
  <2>2. ~s.year
    <3> SUFFICES ASSUME s.year PROVE FALSE
      OBVIOUS
    <3> QED BY <1>3, <1>5, <2>1 DEF ReadYear
  <2>3. t = [s EXCEPT !.year = TRUE, !.month = 0, !.dated = FALSE, !.inDay = FALSE]
    BY <1>2, <1>5, <2>1, <2>2 DEF ReadYear
  <2>4. q = [p EXCEPT !.year = TRUE, !.month = 0]
    BY <1>5 DEF ParseLine, Agree
  <2>5. Chosen("date", dates, line) = dates /\ Chosen("event", events, line) = events
    BY <1>5 DEF Chosen
  <2>6. t.year /\ t.month = 0 /\ ~t.inDay
    BY <1>1, <2>3 DEF Reading
  <2>7. q.year /\ q.month = 0 /\ q.log = p.log /\ q.days = p.days /\ q.thrown = p.thrown
    BY <2>4 DEF Parser
  <2> QED BY <2>2, <2>5, <2>6, <2>7 DEF Agree, HandOver
<1>6. CASE line.is = "month"
  <2>1. read = ReadMonth(s, line)
    BY <1>6 DEF ReadLine
  <2>2. ~(~s.year \/ s.month # 0 \/ s.dated)
    <3> SUFFICES ASSUME ~s.year \/ s.month # 0 \/ s.dated PROVE FALSE
      OBVIOUS
    <3> QED BY <1>3, <1>6, <2>1 DEF ReadMonth
  <2>3. t = [s EXCEPT !.month = line.month]
    BY <1>2, <1>6, <2>1, <2>2 DEF ReadMonth
  <2>4. q = [p EXCEPT !.month = line.month]
    BY <1>6, <2>2 DEF ParseLine, Agree
  <2>5. Chosen("date", dates, line) = dates /\ Chosen("event", events, line) = events
    BY <1>6 DEF Chosen
  <2>6. t.year = s.year /\ t.month = line.month /\ t.inDay = s.inDay
    BY <1>1, <2>3 DEF Reading
  <2>7. /\ q.year = p.year /\ q.month = line.month /\ q.log = p.log
        /\ q.days = p.days /\ q.thrown = p.thrown
    BY <2>4 DEF Parser
  <2> QED BY <2>5, <2>6, <2>7 DEF Agree, HandOver
<1>7. CASE line.is = "remark"
  <2>1. t.year = s.year /\ t.month = s.month /\ t.inDay = s.inDay
    BY <1>1, <1>2, <1>7 DEF ReadLine, ReadRemark, ReportedIf, Reported, Reading
  <2>2. q = p
    <3>1. p.year
      BY <1>2, <1>7, <2>1 DEF Agree
    <3> QED BY <1>7, <3>1 DEF ParseLine, ParseContent
  <2>3. Chosen("date", dates, line) = dates /\ Chosen("event", events, line) = events
    BY <1>7 DEF Chosen
  <2> QED BY <2>1, <2>2, <2>3 DEF Agree
<1>8. CASE line.is \in {"prefix", "other"}
  <2>1. read = Reported(s, "format")
    BY <1>8 DEF ReadLine
  <2> QED BY <1>3, <1>8, <2>1
<1>9. CASE line.is = "date"
  <2> DEFINE misplaced == ~s.year \/ s.month = 0 \/ line.month # s.month
             one == ReportedIf(s, misplaced, "structure")
             two == ReportedIf(one, ~s.dated /\ line.day # 1, "continuity")
             log == [date |-> line.day, month |-> p.month,
                     wake |-> NoTime, events |-> <<>>]
  <2>1. read = [two EXCEPT !.dated = TRUE, !.inDay = TRUE, !.event = FALSE]
    BY <1>9 DEF ReadLine, ReadDate
  <2>2. one \in Reading /\ two \in Reading
    <3>1. {"structure", "continuity"} \subseteq Problem
      BY DEF Problem
    <3>2. one \in Reading
      BY <1>1, <3>1 DEF ReportedIf, Reported, Reading
    <3> HIDE DEF one
    <3> QED BY <3>1, <3>2 DEF ReportedIf, Reported, Reading
  <2>3. two.errors = {}
    <3> HIDE DEF two
    <3> QED BY <1>2, <1>9, <2>1, <2>2 DEF Reading
  <2>4. one.errors = {} /\ two.year = one.year /\ two.month = one.month
    <3> HIDE DEF one
    <3> QED BY <2>2, <2>3 DEF ReportedIf, Reported, Reading
  <2>5. ~misplaced /\ one = s
    BY <1>1, <2>4 DEF ReportedIf, Reported, Reading
  <2>6. t.year = s.year /\ t.month = s.month /\ t.inDay
    <3>1. t.year = two.year /\ t.month = two.month /\ t.inDay
      <4> HIDE DEF two, t, read
      <4>1. t = [two EXCEPT !.dated = TRUE, !.inDay = TRUE, !.event = FALSE]
        BY <1>2, <1>9, <2>1
      <4> QED BY <2>2, <4>1 DEF Reading
    <3> HIDE DEF one, two
    <3> QED BY <2>4, <2>5, <3>1
  <2>7. p.year /\ p.month # 0 /\ ~p.thrown
    BY <2>5 DEF Agree
  <2>8. q = [p EXCEPT !.days = HandOver(p), !.log = log]
    BY <1>9, <2>7 DEF ParseLine, BeginDay
  <2>9. log \in Log /\ log # NoLog
    <3>1. line.day \in Nat /\ p.month \in Nat
      BY <1>9, LineKinds DEF Parser
    <3>2. log \in Log
      BY <3>1 DEF Log
    <3> HIDE DEF log
    <3> QED BY <3>2, NoLogIsNone
  <2>10. log.events = <<>>
    OBVIOUS
  <2> HIDE DEF log
  <2>11. /\ q.year = p.year /\ q.month = p.month /\ q.log = log
         /\ q.days = HandOver(p) /\ ~q.thrown
    BY <2>7, <2>8 DEF Parser
  <2>12. HandOver(q) = Append(HandOver(p), log)
    BY <2>9, <2>11 DEF HandOver
  <2>13. Len(HandOver(q)) = Len(Append(dates, line))
    BY <2>9, <2>12, HandedOver DEF Agree, Texts
  <2>14. Booking(HandOver(q)) = Booking(HandOver(p))
    <3>1. /\ Booking(HandOver(p)) \in Bookings
          /\ Booking(HandOver(q)) = Booking(HandOver(p)) \o log.events
      BY <2>9, <2>12, HandedOver, BookingOfMore
    <3> QED BY <2>10, <3>1 DEF Bookings
  <2>15. Chosen("date", dates, line) = Append(dates, line)
         /\ Chosen("event", events, line) = events
    BY <1>9 DEF Chosen
  <2>16. Agree(t, q, Append(dates, line), events)
    <3> HIDE DEF t, q
    <3> QED BY <2>5, <2>6, <2>9, <2>11, <2>13, <2>14 DEF Agree
  <2> QED BY <2>15, <2>16
<1>10. CASE line.is = "event"
  <2> DEFINE one == ReportedIf(s, line.name = "unknown", "activity")
             two == ReportedIf(one, ~s.inDay, "structure")
             event == [time |-> line.time, name |-> line.name]
             woken == WakeSet(p.log, line)
             log == [woken EXCEPT !.events = Append(@, event)]
  <2>1. read = [two EXCEPT !.event = TRUE]
    BY <1>10 DEF ReadLine, ReadEvent
  <2>2. one \in Reading /\ two \in Reading
    <3>1. {"structure", "activity"} \subseteq Problem
      BY DEF Problem
    <3>2. one \in Reading
      BY <1>1, <3>1 DEF ReportedIf, Reported, Reading
    <3> HIDE DEF one
    <3> QED BY <3>1, <3>2 DEF ReportedIf, Reported, Reading
  <2>3. two.errors = {}
    <3> HIDE DEF two
    <3> QED BY <1>2, <1>10, <2>1, <2>2 DEF Reading
  <2>4. one.errors = {} /\ s.inDay /\ two = one
    <3> HIDE DEF one
    <3> QED BY <2>2, <2>3 DEF ReportedIf, Reported, Reading
  <2>5. one = s
    BY <1>1, <2>4 DEF ReportedIf, Reported, Reading
  <2>6. t.year = s.year /\ t.month = s.month /\ t.inDay = s.inDay
    <3>1. t.year = two.year /\ t.month = two.month /\ t.inDay = two.inDay
      <4> HIDE DEF two
      <4> QED BY <1>2, <1>10, <2>1, <2>2 DEF Reading
    <3> HIDE DEF one, two
    <3> QED BY <2>4, <2>5, <3>1
  <2>7. p.year /\ ~p.thrown /\ p.log # NoLog /\ p.log \in Log
    BY <2>4 DEF Agree, Parser
  <2>8. q = [p EXCEPT !.log = log]
    <3>1. line.is \notin {"remark", "prefix"}
      BY <1>10
    <3>2. q = ParseContent(p, line)
      BY <1>10, <2>7 DEF ParseLine
    <3> QED BY <1>10, <2>7, <3>1, <3>2 DEF ParseContent
  <2>9. event \in Happening /\ line.time \in Times
    BY <1>10, LineKinds DEF Happening
  <2>10. woken \in Log /\ woken.events = p.log.events
    BY <2>7, <2>9 DEF WakeSet, Log
  <2> HIDE DEF event, woken
  <2>11. log \in Log /\ log.events = Append(p.log.events, event)
    <3> DEFINE all == Append(woken.events, event)
    <3>1. all \in Seq(Happening)
      BY <2>9, <2>10 DEF Log, Happening
    <3>2. log = [woken EXCEPT !.events = all]
      OBVIOUS
    <3>3. all = Append(p.log.events, event)
      BY <2>10
    <3> HIDE DEF all, log
    <3> QED BY <2>10, <3>1, <3>2, <3>3 DEF Log, Happening
  <2> HIDE DEF log
  <2>12. log # NoLog
    BY <2>11, NoLogIsNone
  <2>13. /\ q.year = p.year /\ q.month = p.month /\ q.log = log
         /\ q.days = p.days /\ ~q.thrown /\ p.days \in Seq(Log)
    BY <2>7, <2>8 DEF Parser
  <2> DEFINE before == Booking(p.days)
  <2>14. HandOver(q) = Append(p.days, log) /\ HandOver(p) = Append(p.days, p.log)
    BY <2>7, <2>12, <2>13 DEF HandOver
  <2>15. Len(HandOver(q)) = Len(HandOver(p))
    BY <2>7, <2>11, <2>13, <2>14
  <2>16. /\ before \in Bookings
         /\ Booking(HandOver(p)) = before \o p.log.events
         /\ Booking(HandOver(q)) = before \o log.events
    BY <2>7, <2>11, <2>13, <2>14, BookingOfMore
  <2> HIDE DEF before
  <2>17. before \o p.log.events \in Bookings
    BY <2>7, <2>16 DEF Log, Happening, Bookings
  <2>18. Booking(HandOver(q)) = Append(Booking(HandOver(p)), event)
    <3>1. p.log.events \in Seq(Happening) /\ before \in Seq(Happening)
      BY <2>7, <2>16 DEF Log, Happening, Bookings
    <3>2. before \o Append(p.log.events, event)
            = Append(before \o p.log.events, event)
      <4> DEFINE all == p.log.events
      <4>1. /\ all \in Seq(Happening) /\ before \in Seq(Happening)
            /\ event \in Happening
        BY <2>9, <3>1
      <4> HIDE DEF all
      <4>2. before \o Append(all, event) = Append(before \o all, event)
        BY <4>1, ConcatAppend, SMTT(30)
      <4> QED BY <4>2 DEF all
    <3> QED BY <2>11, <2>16, <3>2
  <2>19. AsLines(Booking(HandOver(q))) = Append(AsLines(Booking(HandOver(p))), line)
    BY <1>10, <2>16, <2>17, <2>18, AppendAsLines DEF event
  <2>20. Chosen("date", dates, line) = dates
         /\ Chosen("event", events, line) = Append(events, line)
    BY <1>10 DEF Chosen
  <2>21. Agree(t, q, dates, Append(events, line))
    <3> HIDE DEF t, q
    <3> QED BY <2>4, <2>6, <2>7, <2>12, <2>13, <2>15, <2>19 DEF Agree
  <2> QED BY <2>20, <2>21
<1> QED BY <1>4, <1>5, <1>6, <1>7, <1>8, <1>9, <1>10, LineKinds

-----------------------------------------------------------------------------
(* Every accepted text.                                                    *)

LEMMA AcceptedWalks ==
  ASSUME NEW text \in Seq(Line), Accepts(text)
  PROVE  \E s \in [0..Len(text) -> Reader], p \in [0..Len(text) -> Parser],
            dates \in [0..Len(text) -> Texts], events \in [0..Len(text) -> Texts] :
           /\ p[0] = Unparsed /\ Parsed(text) = p[Len(text)]
           /\ \A i \in 1..Len(text) : p[i] = ParseLine(p[i - 1], text[i])
           /\ \A i \in 1..Len(text) : text[i].is # "blank" => p[i].year
           /\ DateLines(text) = dates[Len(text)] /\ EventLines(text) = events[Len(text)]
           /\ \A i \in 0..Len(text) : Agree(s[i], p[i], dates[i], events[i])
<1> DEFINE n == Len(text)
<1>1. n \in Nat /\ \A i \in 1..n : text[i] \in Line
  OBVIOUS
<1>2. PICK s \in [0..n -> Reader] :
        /\ s[0] = Unread
        /\ \A i \in 1..n : s[i] = ValidateLine(s[i - 1], text[i])
        /\ Walked(ValidateLine, Unread, text) = s[n]
  BY ValidatorWalk
<1>3. PICK p \in [0..n -> Parser] :
        /\ p[0] = Unparsed
        /\ \A i \in 1..n : p[i] = ParseLine(p[i - 1], text[i])
        /\ Parsed(text) = p[n]
  BY ParserWalk
<1>4. PICK dates \in [0..n -> Texts] :
        /\ dates[0] = NoLine
        /\ \A i \in 1..n : dates[i] = Chosen("date", dates[i - 1], text[i])
        /\ LinesThatAre("date", text) = dates[n]
  BY KindWalk
<1>5. PICK events \in [0..n -> Texts] :
        /\ events[0] = NoLine
        /\ \A i \in 1..n : events[i] = Chosen("event", events[i - 1], text[i])
        /\ LinesThatAre("event", text) = events[n]
  BY KindWalk
<1>6. s[n].errors = {}
  BY <1>2 DEF Accepts, Problems
<1> HIDE DEF n
<1>7. \A i \in 1..n : /\ i - 1 \in 0..n /\ i \in 0..n
                      /\ s[i - 1].errors \subseteq s[i].errors
  <2> TAKE i \in 1..n
  <2>1. i - 1 \in 0..n /\ i \in 0..n
    BY <1>1
  <2> QED BY <1>1, <1>2, <2>1, ValidateLineReads
<1> DEFINE Clean == {i \in 0..n : s[i].errors = {}}
<1>8. n \in Clean /\ \A k \in 1..n : k \in Clean => k - 1 \in Clean
  <2>1. n \in Clean
    BY <1>1, <1>6
  <2>2. ASSUME NEW k \in 1..n, k \in Clean PROVE k - 1 \in Clean
    <3>1. s[k].errors = {}
      BY <2>2
    <3>2. k - 1 \in 0..n /\ s[k - 1].errors \subseteq s[k].errors
      BY <1>7
    <3> QED BY <3>1, <3>2
  <2> HIDE DEF Clean
  <2> QED BY <2>1, <2>2
<1>9. \A i \in 0..n : s[i].errors = {}
  <2>1. \A i \in 0..n : i \in Clean
    <3> HIDE DEF Clean
    <3> QED BY <1>1, <1>8, EveryLineDownTo
  <2> QED BY <2>1
<1> DEFINE Good == {i \in 0..n : Agree(s[i], p[i], dates[i], events[i])}
<1>10. 0 \in Good
  <2>1. HandOver(Unparsed) = <<>>
    BY DEF HandOver, Unparsed
  <2>2. AsLines(<<>>) = <<>>
    BY DEF AsLines
  <2>3. Agree(Unread, Unparsed, NoLine, NoLine)
    BY <2>1, <2>2, BookingOfNone DEF Agree, Unread, Unparsed, NoLine
  <2> QED BY <1>1, <1>2, <1>3, <1>4, <1>5, <2>3
<1>11. ASSUME NEW k \in 0..(n - 1), k \in Good PROVE k + 1 \in Good
  <2>1. k + 1 \in 1..n /\ k + 1 - 1 = k /\ k \in 0..n /\ k + 1 \in 0..n
    BY <1>1
  <2>2. /\ s[k + 1] = ValidateLine(s[k], text[k + 1])
        /\ p[k + 1] = ParseLine(p[k], text[k + 1])
        /\ dates[k + 1] = Chosen("date", dates[k], text[k + 1])
        /\ events[k + 1] = Chosen("event", events[k], text[k + 1])
    BY <1>2, <1>3, <1>4, <1>5, <2>1
  <2>3. /\ s[k] \in Reader /\ p[k] \in Parser /\ text[k + 1] \in Line
        /\ dates[k] \in Texts /\ s[k + 1].errors = {}
    BY <1>1, <1>9, <2>1
  <2>4. Agree(s[k], p[k], dates[k], events[k])
    BY <1>11
  <2>5. Agree(s[k + 1], p[k + 1], dates[k + 1], events[k + 1])
    BY <2>2, <2>3, <2>4, LineKeepsAgreement
  <2> QED BY <2>1, <2>5
<1> HIDE DEF Good
<1>12. \A k \in 0..n : k \in Good
  BY <1>1, <1>10, <1>11, EveryLineUpTo
<1>13. \A i \in 0..n : Agree(s[i], p[i], dates[i], events[i])
  BY <1>12 DEF Good
<1>14. ASSUME NEW i \in 1..n, text[i].is # "blank" PROVE p[i].year
  <2>1. /\ s[i - 1] \in Reader /\ text[i] \in Line
        /\ s[i] = ValidateLine(s[i - 1], text[i]) /\ s[i].errors = {}
    BY <1>1, <1>2, <1>7, <1>9
  <2>2. s[i].year
    BY <1>14, <2>1, CleanLine
  <2> QED BY <1>7, <1>13, <2>2 DEF Agree
<1> QED
  BY <1>3, <1>4, <1>5, <1>13, <1>14 DEF DateLines, EventLines, n

LEMMA AcceptedTextIsRead ==
  ASSUME NEW text \in Seq(Line), Accepts(text)
  PROVE  /\ Parses(text)
         /\ Len(Logs(text)) = Len(DateLines(text))
         /\ AsLines(Booked(text)) = EventLines(text)
<1> DEFINE n == Len(text)
<1>1. n \in 0..n
  OBVIOUS
<1>2. PICK s \in [0..n -> Reader], p \in [0..n -> Parser],
           dates \in [0..n -> Texts], events \in [0..n -> Texts] :
        /\ Parsed(text) = p[n]
        /\ DateLines(text) = dates[n] /\ EventLines(text) = events[n]
        /\ \A i \in 0..n : Agree(s[i], p[i], dates[i], events[i])
  BY AcceptedWalks, SMTT(20)
<1> HIDE DEF n
<1>3. Agree(s[n], p[n], dates[n], events[n])
  BY <1>1, <1>2
<1>4. Booked(text) = Booking(HandOver(p[n]))
  BY <1>2 DEF Booked, Booking, Logs
<1> QED BY <1>2, <1>3, <1>4 DEF Agree, Parses, Logs

-----------------------------------------------------------------------------
(* Whatever the editor holds is made of lines.                             *)

Drafts == [baseline : Texts, text : Texts]
Resolutions == [marker : Line, canSave : BOOLEAN, body : Texts]
Sessions == [mode : {"ALL", "DAY"}, marker : Line, open : BOOLEAN, loading : BOOLEAN,
             all : Drafts, day : Drafts, block : Resolutions]

MadeOfLines == file \in Texts /\ ui \in Sessions

LEMMA LeastIsThere ==
  ASSUME NEW S \in SUBSET Nat, S # {}
  PROVE  /\ (CHOOSE i \in S : \A j \in S : i <= j) \in S
         /\ \A j \in S : (CHOOSE i \in S : \A k \in S : i <= k) <= j
<1> DEFINE Less == {p \in Nat \X Nat : p[1] < p[2]}
<1>1. IsWellFoundedOn(Less, Nat)
  BY NatLessThanWellFounded DEF OpToRel
<1>2. PICK m \in S : \A y \in S : <<y, m>> \notin Less
  BY <1>1, WFMin
<1>3. ASSUME NEW y \in S PROVE m <= y
  <2>1. ~ (y < m)
    BY <1>2
  <2> QED BY <2>1
<1> QED BY <1>3

LEMMA CutIsText ==
  ASSUME NEW text \in Texts, NEW a \in Nat \ {0}, NEW b \in Int, b <= Len(text)
  PROVE  SubSeq(text, a, b) \in Texts
<1>1. CASE a <= b
  <2>1. \A i \in a..b : text[i] \in Line
    BY <1>1 DEF Texts
  <2> QED BY <1>1, <2>1, SubSeqProperties DEF Texts
<1>2. CASE ~(a <= b)
  <2>1. SubSeq(text, a, b) = <<>>
    BY <1>2, SubSeqEmpty DEF Texts
  <2> QED BY <2>1 DEF Texts
<1> QED BY <1>1, <1>2

LEMMA UnblankedIsText ==
  ASSUME NEW body \in Texts
  PROVE  WithoutLeadingBlanks(body) \in Texts
<1> DEFINE written == {i \in DOMAIN body : body[i].is # "blank"}
           first == CHOOSE i \in written : \A j \in written : i <= j
<1>1. CASE written = {}
  <2>1. WithoutLeadingBlanks(body) = <<>>
    BY <1>1 DEF WithoutLeadingBlanks
  <2> QED BY <2>1 DEF Texts
<1>2. CASE written # {}
  <2>1. WithoutLeadingBlanks(body) = SubSeq(body, first, Len(body))
    BY <1>2 DEF WithoutLeadingBlanks
  <2>2. DOMAIN body = 1..Len(body) /\ Len(body) \in Nat
    BY DEF Texts
  <2>3. first \in written
    <3>1. written \in SUBSET Nat
      BY <2>2
    <3> HIDE DEF written
    <3> QED BY <1>2, <3>1, LeastIsThere
  <2> HIDE DEF first
  <2>4. first \in Nat \ {0}
    BY <2>2, <2>3
  <2> QED BY <2>1, <2>2, <2>4, CutIsText
<1> QED BY <1>1, <1>2

LEMMA BlockPlaces ==
  ASSUME NEW text \in Texts, NEW marker, Found(text, marker)
  PROVE  /\ BlockStart(text, marker) \in 1..Len(text)
         /\ BlockEnd(text, BlockStart(text, marker)) \in 2..(Len(text) + 1)
<1> DEFINE places == MarkerPlaces(text, marker)
           start == BlockStart(text, marker)
           after == {i \in DOMAIN text : i > start /\ IsMarker(text[i])}
<1>1. DOMAIN text = 1..Len(text) /\ Len(text) \in Nat
  BY DEF Texts
<1>2. start \in places
  <2>1. places \in SUBSET Nat /\ places # {}
    BY <1>1 DEF MarkerPlaces, Found
  <2>2. start = CHOOSE i \in places : \A j \in places : i <= j
    BY DEF BlockStart
  <2> HIDE DEF places, start
  <2> QED BY <2>1, <2>2, LeastIsThere
<1>3. start \in 1..Len(text)
  BY <1>1, <1>2 DEF MarkerPlaces
<1> HIDE DEF start, places
<1>4. BlockEnd(text, start) = IF after = {} THEN Len(text) + 1
                              ELSE CHOOSE i \in after : \A j \in after : i <= j
  BY DEF BlockEnd
<1>5. BlockEnd(text, start) \in 2..(Len(text) + 1)
  <2>1. CASE after = {}
    BY <1>1, <1>3, <1>4, <2>1
  <2>2. CASE after # {}
    <3>1. after \in SUBSET Nat
      BY <1>1
    <3>2. BlockEnd(text, start) \in after
      <4> HIDE DEF after
      <4> QED BY <1>4, <2>2, <3>1, LeastIsThere
    <3> QED BY <1>1, <1>3, <3>2
  <2> QED BY <2>1, <2>2
<1> QED BY <1>3, <1>5 DEF start

LEMMA ResolvedIsResolution ==
  ASSUME NEW text \in Texts, NEW marker \in Line
  PROVE  ResolvedBlock(text, marker) \in Resolutions
<1> DEFINE start == BlockStart(text, marker)
           end == BlockEnd(text, start)
           body == SubSeq(text, start + 1, end - 1)
<1>1. CASE Found(text, marker)
  <2>1. start \in 1..Len(text) /\ end \in 2..(Len(text) + 1) /\ Len(text) \in Nat
    BY <1>1, BlockPlaces DEF Texts
  <2> HIDE DEF start, end
  <2>2. body \in Texts
    BY <2>1, CutIsText
  <2>3. WithoutLeadingBlanks(body) \in Texts
    BY <2>2, UnblankedIsText
  <2>4. ResolvedBlock(text, marker) = [marker |-> marker, canSave |-> TRUE,
                                       body |-> WithoutLeadingBlanks(body)]
    BY <1>1 DEF ResolvedBlock, start, end
  <2> HIDE DEF body
  <2> QED BY <2>3, <2>4 DEF Resolutions
<1>2. CASE ~Found(text, marker)
  BY <1>2 DEF ResolvedBlock, Resolutions, Texts
<1> QED BY <1>1, <1>2

LEMMA ReplacedIsText ==
  ASSUME NEW text \in Texts, NEW marker \in Line, NEW body \in Texts
  PROVE  ReplacedBlock(text, marker, body) \in Texts
<1> DEFINE start == BlockStart(text, marker)
           end == BlockEnd(text, start)
           one == SubSeq(text, 1, start)
           two == NormalizedBody(marker, body)
           three == SubSeq(text, end, Len(text))
<1>1. CASE Found(text, marker)
  <2>1. start \in 1..Len(text) /\ end \in 2..(Len(text) + 1) /\ Len(text) \in Nat
    BY <1>1, BlockPlaces DEF Texts
  <2>2. one \in Texts /\ three \in Texts
    <3> HIDE DEF start, end
    <3> QED BY <2>1, CutIsText
  <2>3. two \in Texts
    BY DEF NormalizedBody, Texts
  <2>4. ReplacedBlock(text, marker, body) = one \o two \o three
    BY <1>1 DEF ReplacedBlock
  <2> HIDE DEF one, two, three
  <2> QED BY <2>2, <2>3, <2>4, ConcatProperties DEF Texts
<1>2. CASE ~Found(text, marker)
  BY <1>2 DEF ReplacedBlock
<1> QED BY <1>1, <1>2

-----------------------------------------------------------------------------
(* Where a replaced block stands.                                          *)

LEMMA StartIs ==
  ASSUME NEW text \in Texts, NEW marker, NEW k \in 1..Len(text), text[k] = marker,
         \A j \in 1..(k - 1) : text[j] # marker
  PROVE  BlockStart(text, marker) = k
<1> DEFINE places == MarkerPlaces(text, marker)
           start == CHOOSE i \in places : \A j \in places : i <= j
<1>1. DOMAIN text = 1..Len(text) /\ Len(text) \in Nat
  BY DEF Texts
<1>2. k \in places /\ places \in SUBSET Nat /\ \A j \in places : k <= j
  BY <1>1 DEF MarkerPlaces
<1> HIDE DEF places
<1>3. start \in places /\ start <= k
  BY <1>2, LeastIsThere
<1> HIDE DEF start
<1>4. start = k
  BY <1>2, <1>3
<1> QED BY <1>4 DEF BlockStart, start, places

LEMMA EndIs ==
  ASSUME NEW text \in Texts, NEW start \in 1..Len(text),
         NEW e \in (start + 1)..(Len(text) + 1),
         \A i \in (start + 1)..(e - 1) : ~IsMarker(text[i]),
         e <= Len(text) => IsMarker(text[e])
  PROVE  BlockEnd(text, start) = e
<1> DEFINE after == {i \in DOMAIN text : i > start /\ IsMarker(text[i])}
           least == CHOOSE i \in after : \A j \in after : i <= j
<1>1. DOMAIN text = 1..Len(text) /\ Len(text) \in Nat
  BY DEF Texts
<1>2. BlockEnd(text, start) = IF after = {} THEN Len(text) + 1 ELSE least
  BY DEF BlockEnd
<1>3. after \in SUBSET Nat /\ \A j \in after : e <= j /\ j <= Len(text)
  BY <1>1
<1>4. CASE e <= Len(text)
  <2>1. e \in after
    BY <1>1, <1>4
  <2> HIDE DEF after
  <2>2. least \in after /\ least <= e
    BY <1>3, <2>1, LeastIsThere
  <2> HIDE DEF least
  <2>3. least = e
    BY <1>3, <2>2
  <2> QED BY <1>2, <2>1, <2>3
<1>5. CASE ~(e <= Len(text))
  <2>1. after = {} /\ e = Len(text) + 1
    BY <1>1, <1>3, <1>5
  <2> HIDE DEF after, least
  <2> QED BY <1>2, <2>1
<1> QED BY <1>4, <1>5

LEMMA BlockStands ==
  ASSUME NEW text \in Texts, NEW marker, Found(text, marker),
         NEW start, start = BlockStart(text, marker)
  PROVE  /\ text[start] = marker
         /\ \A j \in 1..(start - 1) : text[j] # marker
         /\ BlockEnd(text, start) \in (start + 1)..(Len(text) + 1)
         /\ \A i \in (start + 1)..(BlockEnd(text, start) - 1) : ~IsMarker(text[i])
         /\ BlockEnd(text, start) <= Len(text) => IsMarker(text[BlockEnd(text, start)])
<1> DEFINE places == MarkerPlaces(text, marker)
           after == {i \in DOMAIN text : i > start /\ IsMarker(text[i])}
           end == BlockEnd(text, start)
           least == CHOOSE i \in after : \A j \in after : i <= j
<1>1. DOMAIN text = 1..Len(text) /\ Len(text) \in Nat
  BY DEF Texts
<1>2. start \in 1..Len(text)
  BY BlockPlaces
<1>3. start \in places /\ \A j \in places : start <= j
  <2>1. places \in SUBSET Nat /\ places # {}
    BY <1>1 DEF MarkerPlaces, Found
  <2>2. start = CHOOSE i \in places : \A j \in places : i <= j
    BY DEF BlockStart
  <2> HIDE DEF places
  <2> QED BY <2>1, <2>2, LeastIsThere
<1>4. text[start] = marker /\ \A j \in 1..(start - 1) : text[j] # marker
  BY <1>1, <1>2, <1>3 DEF MarkerPlaces
<1>5. end = IF after = {} THEN Len(text) + 1 ELSE least
  BY DEF BlockEnd
<1>6. CASE after = {}
  <2>1. end = Len(text) + 1
    BY <1>5, <1>6
  <2>2. \A i \in (start + 1)..(end - 1) : ~IsMarker(text[i])
    BY <1>1, <1>2, <1>6, <2>1
  <2> HIDE DEF after, end
  <2>3. end \in (start + 1)..(Len(text) + 1) /\ ~(end <= Len(text))
    BY <1>1, <1>2, <2>1
  <2> QED BY <1>4, <2>2, <2>3 DEF end
<1>7. CASE after # {}
  <2>1. after \in SUBSET Nat
    BY <1>1
  <2>2. end \in after /\ \A j \in after : end <= j
    <3> HIDE DEF after, end
    <3> QED BY <1>5, <1>7, <2>1, LeastIsThere
  <2>3. ASSUME NEW i \in (start + 1)..(end - 1), IsMarker(text[i]) PROVE FALSE
    <3> HIDE DEF end
    <3>1. i \in after
      BY <1>1, <1>2, <2>2, <2>3
    <3> QED BY <1>1, <1>2, <2>2, <2>3, <3>1
  <2>4. end \in 1..Len(text) /\ end > start /\ IsMarker(text[end])
    BY <1>1, <2>2
  <2> HIDE DEF end
  <2>5. end \in (start + 1)..(Len(text) + 1)
    BY <1>1, <1>2, <2>4
  <2> QED BY <1>4, <2>3, <2>4, <2>5 DEF end
<1> QED BY <1>6, <1>7

\* new is text with typed between its places start and end.
Placed(text, start, end, typed, new) ==
  /\ start \in 1..Len(text) /\ end \in (start + 1)..(Len(text) + 1)
  /\ typed \in Texts /\ new \in Texts
  /\ Len(text) \in Nat /\ Len(typed) \in Nat
  /\ Len(new) = start + Len(typed) + (Len(text) - end + 1)
  /\ \A i \in 1..start : new[i] = text[i]
  /\ \A i \in 1..Len(typed) : new[start + i] = typed[i]
  /\ \A i \in end..Len(text) : new[start + Len(typed) + (i - end + 1)] = text[i]

LEMMA ReplacedIsPlaced ==
  ASSUME NEW text \in Texts, NEW marker \in Line, NEW body \in Texts,
         Found(text, marker)
  PROVE  Placed(text, BlockStart(text, marker), BlockEnd(text, BlockStart(text, marker)),
                NormalizedBody(marker, body), ReplacedBlock(text, marker, body))
<1> DEFINE start == BlockStart(text, marker)
           end == BlockEnd(text, start)
           typed == NormalizedBody(marker, body)
           new == ReplacedBlock(text, marker, body)
<1> DEFINE one == SubSeq(text, 1, start)
           three == SubSeq(text, end, Len(text))
<1>1. start \in 1..Len(text) /\ end \in (start + 1)..(Len(text) + 1)
  <2>1. start \in 1..Len(text)
    BY BlockPlaces
  <2>2. start = BlockStart(text, marker) /\ end = BlockEnd(text, start)
    OBVIOUS
  <2> HIDE DEF start, end
  <2> QED BY <2>1, <2>2, BlockStands
<1>2. Len(text) \in Nat /\ \A i \in 1..Len(text) : text[i] \in Line
  BY DEF Texts
<1>3. typed \in Texts /\ Len(typed) \in Nat
  BY DEF NormalizedBody, Texts
<1> HIDE DEF start, end, typed, new
<1>4. /\ one \in Seq(Line) /\ Len(one) = start
      /\ \A i \in 1..start : one[i] = text[i]
  <2>1. \A i \in 1..start : text[i] \in Line
    BY <1>1, <1>2
  <2>2. /\ one \in Seq(Line) /\ Len(one) = IF 1 <= start THEN start - 1 + 1 ELSE 0
        /\ \A i \in 1..(start - 1 + 1) : one[i] = text[1 + i - 1]
    BY <1>1, <2>1, SubSeqProperties
  <2> HIDE DEF one
  <2> QED BY <1>1, <2>2
<1>5. /\ three \in Seq(Line) /\ Len(three) = Len(text) - end + 1
      /\ \A i \in 1..(Len(text) - end + 1) : three[i] = text[end + i - 1]
  <2>1. \A i \in end..Len(text) : text[i] \in Line
    BY <1>1, <1>2
  <2>2. /\ three \in Seq(Line)
        /\ Len(three) = IF end <= Len(text) THEN Len(text) - end + 1 ELSE 0
        /\ \A i \in 1..(Len(text) - end + 1) : three[i] = text[end + i - 1]
    BY <1>1, <1>2, <2>1, SubSeqProperties
  <2> HIDE DEF three
  <2> QED BY <1>1, <1>2, <2>2
<1>6. new = (one \o typed) \o three
  BY DEF ReplacedBlock, start, end, typed, new
<1> HIDE DEF one, three
<1> DEFINE two == one \o typed
           l == Len(text)
           m == Len(typed)
<1>7. /\ two \in Seq(Line) /\ Len(two) = start + m
      /\ \A i \in 1..(start + m) :
           two[i] = IF i <= start THEN one[i] ELSE typed[i - start]
  <2>1. typed \in Seq(Line)
    BY <1>3 DEF Texts
  <2>2. /\ two \in Seq(Line) /\ Len(two) = Len(one) + Len(typed)
        /\ \A i \in 1..(Len(one) + Len(typed)) :
             two[i] = IF i <= Len(one) THEN one[i] ELSE typed[i - Len(one)]
    BY <1>4, <2>1, ConcatProperties
  <2> HIDE DEF two
  <2> QED BY <1>4, <2>2
<1>8. /\ new \in Seq(Line) /\ Len(new) = start + m + (l - end + 1)
      /\ \A i \in 1..(start + m + (l - end + 1)) :
           new[i] = IF i <= start + m THEN two[i] ELSE three[i - (start + m)]
  <2> HIDE DEF two
  <2>1. /\ two \o three \in Seq(Line) /\ Len(two \o three) = Len(two) + Len(three)
        /\ \A i \in 1..(Len(two) + Len(three)) :
             (two \o three)[i] = IF i <= Len(two) THEN two[i] ELSE three[i - Len(two)]
    BY <1>5, <1>7, ConcatProperties
  <2>2. new = two \o three
    BY <1>6 DEF two
  <2> QED BY <1>5, <1>7, <2>1, <2>2
<1>9. /\ l \in Nat /\ m \in Nat
      /\ start \in 1..l /\ end \in (start + 1)..(l + 1)
  BY <1>1, <1>2, <1>3
<1> HIDE DEF two, l, m
<1>10. \A i \in 1..start : new[i] = text[i]
  <2> TAKE i \in 1..start
  <2>1. i \in 1..(start + m) /\ i <= start + m /\ i <= start
        /\ i \in 1..(start + m + (l - end + 1))
    BY <1>9
  <2> QED BY <1>4, <1>7, <1>8, <2>1
<1>11. \A i \in 1..m : new[start + i] = typed[i]
  <2> TAKE i \in 1..m
  <2> DEFINE at == start + i
  <2>1. /\ at \in 1..(start + m) /\ ~(at <= start) /\ at - start = i
        /\ at <= start + m /\ at \in 1..(start + m + (l - end + 1))
    BY <1>9
  <2> HIDE DEF at
  <2>2. new[at] = two[at]
    BY <1>8, <2>1
  <2>3. two[at] = typed[i]
    BY <1>7, <2>1
  <2> QED BY <2>2, <2>3 DEF at
<1>12. \A i \in end..l : new[start + m + (i - end + 1)] = text[i]
  <2> TAKE i \in end..l
  <2> DEFINE at == start + m + (i - end + 1)
  <2>1. /\ at \in 1..(start + m + (l - end + 1)) /\ ~(at <= start + m)
        /\ at - (start + m) = i - end + 1
        /\ i - end + 1 \in 1..(l - end + 1) /\ end + (i - end + 1) - 1 = i
    BY <1>9
  <2> HIDE DEF at
  <2>2. new[at] = three[i - end + 1]
    BY <1>8, <2>1
  <2>3. three[i - end + 1] = text[i]
    BY <1>5, <2>1 DEF l
  <2> QED BY <2>2, <2>3 DEF at
<1>13. new \in Texts
  BY <1>8 DEF Texts
<1>14. Placed(text, start, end, typed, new)
  BY <1>1, <1>2, <1>3, <1>8, <1>10, <1>11, <1>12, <1>13 DEF Placed, l, m
<1> QED BY <1>14 DEF start, end, typed, new

LEMMA UndatedHasNoMarker ==
  ASSUME NEW text \in Texts, Headless(text), NEW i \in 1..Len(text)
  PROVE  ~IsMarker(text[i])
<1>1. i \in DOMAIN text
  BY DEF Texts
<1> QED BY <1>1 DEF Headless, IsMarker

LEMMA ReplacedResolves ==
  ASSUME NEW text \in Texts, NEW marker \in Line, NEW body \in Texts,
         Found(text, marker),
         NEW typed, typed = NormalizedBody(marker, body), Headless(typed)
  PROVE  ResolvedBlock(ReplacedBlock(text, marker, body), marker).body
           = WithoutLeadingBlanks(typed)
<1> DEFINE start == BlockStart(text, marker)
           end == BlockEnd(text, start)
           new == ReplacedBlock(text, marker, body)
           l == Len(text)
           m == Len(typed)
           e == start + m + 1
<1>1. /\ start \in 1..l /\ end \in (start + 1)..(l + 1)
      /\ typed \in Texts /\ new \in Texts /\ l \in Nat /\ m \in Nat
      /\ Len(new) = start + m + (l - end + 1)
      /\ \A i \in 1..start : new[i] = text[i]
      /\ \A i \in 1..m : new[start + i] = typed[i]
      /\ \A i \in end..l : new[start + m + (i - end + 1)] = text[i]
  <2>1. Placed(text, start, end, typed, new)
    BY ReplacedIsPlaced
  <2> HIDE DEF start, end, new
  <2> QED BY <2>1 DEF Placed
<1>2. /\ text[start] = marker
      /\ \A j \in 1..(start - 1) : text[j] # marker
      /\ end <= l => IsMarker(text[end])
  BY BlockStands
<1>3. IsMarker(marker)
  BY DEF Found
<1>4. ResolvedBlock(new, marker) =
        IF Found(new, marker)
        THEN [marker |-> marker, canSave |-> TRUE,
              body |-> WithoutLeadingBlanks(
                         SubSeq(new, BlockStart(new, marker) + 1,
                                BlockEnd(new, BlockStart(new, marker)) - 1))]
        ELSE [marker |-> marker, canSave |-> FALSE, body |-> <<>>]
  BY DEF ResolvedBlock
<1> HIDE DEF start, end, new, l, m
<1>5. /\ start \in 1..Len(new) /\ e \in (start + 1)..(Len(new) + 1)
      /\ Len(new) \in Nat
  BY <1>1
<1>6. BlockStart(new, marker) = start
  <2>1. new[start] = marker /\ \A j \in 1..(start - 1) : new[j] # marker
    BY <1>1, <1>2
  <2> QED BY <1>1, <1>5, <2>1, StartIs
<1>7. BlockEnd(new, start) = e
  <2>1. \A i \in (start + 1)..(e - 1) : ~IsMarker(new[i])
    <3> TAKE i \in (start + 1)..(e - 1)
    <3>1. i - start \in 1..m /\ start + (i - start) = i
      BY <1>1
    <3>2. new[i] = typed[i - start]
      BY <1>1, <3>1
    <3>3. ~IsMarker(typed[i - start])
      BY <1>1, <3>1, UndatedHasNoMarker DEF m
    <3> QED BY <3>2, <3>3
  <2>2. ASSUME e <= Len(new) PROVE IsMarker(new[e])
    <3>1. end \in end..l /\ end <= l /\ start + m + (end - end + 1) = e
      BY <1>1, <2>2
    <3>2. new[start + m + (end - end + 1)] = text[end]
      BY <1>1, <3>1
    <3> QED BY <1>2, <3>1, <3>2
  <2> HIDE DEF e
  <2> QED BY <1>1, <1>5, <2>1, <2>2, EndIs
<1>8. SubSeq(new, start + 1, e - 1) = typed
  <2> DEFINE cut == SubSeq(new, start + 1, e - 1)
  <2>1. \A i \in (start + 1)..(e - 1) : new[i] \in Line
    BY <1>1, <1>5 DEF Texts
  <2>2. /\ cut \in Seq(Line)
        /\ Len(cut) = IF start + 1 <= e - 1 THEN e - 1 - (start + 1) + 1 ELSE 0
        /\ \A i \in 1..(e - 1 - (start + 1) + 1) : cut[i] = new[start + 1 + i - 1]
    <3>1. start + 1 \in Int /\ e - 1 \in Int
      BY <1>1
    <3> HIDE DEF e
    <3> QED BY <2>1, <3>1, SubSeqProperties
  <2> HIDE DEF cut
  <2>3. cut \in Seq(Line) /\ Len(cut) = m /\ \A i \in 1..m : cut[i] = new[start + i]
    BY <1>1, <2>2
  <2>4. \A i \in 1..m : cut[i] = typed[i]
    BY <1>1, <2>3
  <2>5. cut \in [1..m -> Line] /\ typed \in [1..m -> Line]
    BY <1>1, <2>3, LenProperties DEF m, Texts
  <2>6. cut = [i \in 1..m |-> cut[i]] /\ typed = [i \in 1..m |-> typed[i]]
    BY <2>5
  <2>7. cut = typed
    BY <2>4, <2>6
  <2> QED BY <2>7 DEF cut
<1>9. Found(new, marker)
  <2>1. start \in DOMAIN new /\ new[start] = marker
    BY <1>1, <1>2, <1>5 DEF Texts
  <2> QED BY <1>3, <2>1 DEF Found, MarkerPlaces
<1>10. ResolvedBlock(new, marker).body = WithoutLeadingBlanks(typed)
  <2> DEFINE cut == WithoutLeadingBlanks(SubSeq(new, start + 1, e - 1))
  <2>1. ResolvedBlock(new, marker) = [marker |-> marker, canSave |-> TRUE, body |-> cut]
    <3> HIDE DEF e
    <3> QED BY <1>4, <1>6, <1>7, <1>9
  <2>2. cut = WithoutLeadingBlanks(typed)
    BY <1>8
  <2> HIDE DEF cut
  <2> QED BY <2>1, <2>2
<1> QED BY <1>10 DEF new

LEMMA HeadlessBefore ==
  ASSUME NEW body \in Texts, Headless(WithoutLeadingBlanks(body))
  PROVE  Headless(body)
<1> DEFINE written == {i \in DOMAIN body : body[i].is # "blank"}
           first == CHOOSE i \in written : \A j \in written : i <= j
           rest == SubSeq(body, first, Len(body))
<1>1. DOMAIN body = 1..Len(body) /\ Len(body) \in Nat
  BY DEF Texts
<1>2. CASE written = {}
  BY <1>2 DEF Headless
<1>3. CASE written # {}
  <2>1. written \in SUBSET Nat
    BY <1>1
  <2>2. first \in written /\ \A j \in written : first <= j
    <3> HIDE DEF written
    <3> QED BY <1>3, <2>1, LeastIsThere
  <2>3. WithoutLeadingBlanks(body) = rest
    BY <1>3 DEF WithoutLeadingBlanks
  <2>4. first \in 1..Len(body)
    BY <1>1, <2>2
  <2> HIDE DEF first
  <2>5. /\ rest \in Seq(Line) /\ Len(rest) = Len(body) - first + 1
        /\ \A i \in 1..(Len(body) - first + 1) : rest[i] = body[first + i - 1]
    <3>1. \A i \in first..Len(body) : body[i] \in Line
      BY <2>4 DEF Texts
    <3>2. /\ rest \in Seq(Line)
          /\ Len(rest) = IF first <= Len(body) THEN Len(body) - first + 1 ELSE 0
          /\ \A i \in 1..(Len(body) - first + 1) : rest[i] = body[first + i - 1]
      BY <1>1, <2>4, <3>1, SubSeqProperties
    <3> QED BY <1>1, <2>4, <3>2
  <2> HIDE DEF rest
  <2> SUFFICES ASSUME NEW i \in 1..Len(body)
               PROVE  body[i].is \notin {"year", "month", "date"}
    BY <1>1 DEF Headless
  <2>6. CASE i < first
    <3>1. i \notin written
      BY <1>1, <2>2, <2>4, <2>6
    <3> QED BY <1>1, <3>1
  <2>7. CASE ~(i < first)
    <3>1. /\ i - first + 1 \in 1..(Len(body) - first + 1)
          /\ first + (i - first + 1) - 1 = i
      BY <1>1, <2>4, <2>7
    <3>2. rest[i - first + 1] = body[i] /\ i - first + 1 \in DOMAIN rest
      BY <2>5, <3>1
    <3> QED BY <2>3, <3>2 DEF Headless
  <2> QED BY <2>6, <2>7
<1> QED BY <1>2, <1>3

-----------------------------------------------------------------------------
(* What the parser makes of two texts that differ in one block.            *)

LEMMA HeadlessKeepsDay ==
  ASSUME NEW p \in Parser, NEW line \in Line,
         line.is \notin {"year", "month", "date"},
         p.year, p.log \in Log, ~ParseLine(p, line).thrown
  PROVE  /\ ParseLine(p, line).year
         /\ ParseLine(p, line).month = p.month
         /\ ParseLine(p, line).days = p.days
         /\ ParseLine(p, line).log \in Log
         /\ ParseLine(p, line).log.date = p.log.date
<1> DEFINE q == ParseLine(p, line)
           event == [time |-> line.time, name |-> line.name]
           woken == WakeSet(p.log, line)
           events == Append(woken.events, event)
           log == [woken EXCEPT !.events = events]
<1>1. p.log # NoLog
  BY NoLogIsNone
<1>2. CASE q = p
  BY <1>2
<1>3. CASE line.is = "event" /\ q # p
  <2>1. q = [p EXCEPT !.log = log]
    <3>1. line.is \notin {"remark", "prefix"}
      BY <1>3
    <3>2. q = ParseContent(p, line)
      BY <1>3, Zenon DEF ParseLine
    <3> QED BY <1>1, <1>3, <3>1, <3>2 DEF ParseContent
  <2>2. event \in Happening /\ line.time \in Times
    BY <1>3, LineKinds DEF Happening
  <2>3. woken \in Log /\ woken.date = p.log.date
    BY <2>2 DEF WakeSet, Log
  <2> HIDE DEF event, woken
  <2>4. events \in Seq(Happening)
    BY <2>2, <2>3 DEF Log, Happening
  <2> HIDE DEF events
  <2>5. log \in Log /\ log.date = p.log.date
    BY <2>3, <2>4 DEF Log, Happening
  <2> HIDE DEF log, q
  <2>6. q.year /\ q.month = p.month /\ q.days = p.days /\ q.log = log
    BY <2>1 DEF Parser
  <2> QED BY <2>5, <2>6 DEF q
<1>4. CASE line.is # "event" /\ q # p
  <2>1. q = ParseContent(p, line)
    BY <1>4, Zenon DEF ParseLine
  <2>2. q = [p EXCEPT !.thrown = TRUE]
    BY <1>1, <1>4, <2>1 DEF ParseContent
  <2>3. q.thrown
    BY <2>2 DEF Parser
  <2> QED BY <2>3
<1> QED BY <1>2, <1>3, <1>4

\* The days handed over so far are the same but for that of number k.
Twins(p, q, k, day) ==
  /\ p.year /\ q.year /\ p.month = q.month
  /\ p.log \in Log /\ q.log \in Log
  /\ Len(p.days) = Len(q.days) /\ k <= Len(p.days) + 1
  /\ \A i \in 1..Len(p.days) : i # k => p.days[i] = q.days[i]
  /\ k = Len(p.days) + 1 => p.log.date = day /\ q.log.date = day
  /\ k <= Len(p.days) => /\ p.log = q.log
                         /\ p.days[k].date = day /\ q.days[k].date = day

LEMMA LineKeepsTwins ==
  ASSUME NEW p \in Parser, NEW q \in Parser, NEW line \in Line,
         NEW k \in Nat \ {0}, NEW day,
         Twins(p, q, k, day),
         ~ParseLine(p, line).thrown, ~ParseLine(q, line).thrown
  PROVE  Twins(ParseLine(p, line), ParseLine(q, line), k, day)
<1> DEFINE pp == ParseLine(p, line)
           qq == ParseLine(q, line)
<1>1. /\ p.year /\ q.year /\ p.month = q.month
      /\ p.log \in Log /\ q.log \in Log /\ p.log # NoLog /\ q.log # NoLog
      /\ p.days \in Seq(Log) /\ q.days \in Seq(Log)
  BY NoLogIsNone DEF Twins, Parser
<1>2. ~p.thrown /\ ~q.thrown
  BY DEF ParseLine
<1>3. CASE line.is = "year"
  <2>1. /\ pp = [p EXCEPT !.year = TRUE, !.month = 0]
        /\ qq = [q EXCEPT !.year = TRUE, !.month = 0]
    BY <1>2, <1>3 DEF ParseLine
  <2>2. /\ pp.year /\ pp.month = 0 /\ pp.days = p.days /\ pp.log = p.log
        /\ qq.year /\ qq.month = 0 /\ qq.days = q.days /\ qq.log = q.log
    BY <2>1 DEF Parser
  <2>3. Twins(pp, qq, k, day)
    <3> HIDE DEF pp, qq
    <3> QED BY <2>2 DEF Twins
  <2> QED BY <2>3
<1>4. CASE line.is = "month"
  <2>1. /\ pp = [p EXCEPT !.month = line.month]
        /\ qq = [q EXCEPT !.month = line.month]
    BY <1>1, <1>2, <1>4 DEF ParseLine
  <2>2. /\ pp.year /\ pp.month = line.month /\ pp.days = p.days /\ pp.log = p.log
        /\ qq.year /\ qq.month = line.month /\ qq.days = q.days /\ qq.log = q.log
    BY <1>1, <2>1 DEF Parser
  <2>3. Twins(pp, qq, k, day)
    <3> HIDE DEF pp, qq
    <3> QED BY <2>2 DEF Twins
  <2> QED BY <2>3
<1>5. CASE line.is = "date"
  <2> DEFINE log == [date |-> line.day, month |-> p.month,
                     wake |-> NoTime, events |-> <<>>]
  <2>1. pp = BeginDay(p, line) /\ qq = BeginDay(q, line)
    BY <1>1, <1>2, <1>5 DEF ParseLine
  <2>2. p.month # 0
    <3> SUFFICES ASSUME p.month = 0 PROVE FALSE
      OBVIOUS
    <3>1. pp = [p EXCEPT !.thrown = TRUE]
      BY <2>1 DEF BeginDay
    <3>2. pp.thrown
      BY <3>1 DEF Parser
    <3> QED BY <3>2
  <2>3. /\ pp = [p EXCEPT !.days = HandOver(p), !.log = log]
        /\ qq = [q EXCEPT !.days = HandOver(q), !.log = log]
    BY <1>1, <2>1, <2>2 DEF BeginDay
  <2>4. log \in Log
    <3>1. line.day \in Nat /\ p.month \in Nat
      BY <1>5, LineKinds DEF Parser
    <3> QED BY <3>1 DEF Log
  <2> HIDE DEF log
  <2>5. HandOver(p) = Append(p.days, p.log) /\ HandOver(q) = Append(q.days, q.log)
    BY <1>1 DEF HandOver
  <2>6. /\ pp.year /\ qq.year /\ pp.month = qq.month /\ pp.log = log /\ qq.log = log
        /\ pp.days = Append(p.days, p.log) /\ qq.days = Append(q.days, q.log)
    BY <1>1, <2>3, <2>5 DEF Parser
  <2> HIDE DEF pp, qq
  <2> DEFINE n == Len(p.days)
  <2>7. /\ n \in Nat /\ n = Len(q.days) /\ k <= n + 1
        /\ \A i \in 1..n : i # k => p.days[i] = q.days[i]
        /\ k = n + 1 => p.log.date = day /\ q.log.date = day
        /\ k <= n => p.log = q.log /\ p.days[k].date = day /\ q.days[k].date = day
    BY <1>1 DEF Twins
  <2>8. /\ Len(pp.days) = n + 1 /\ pp.days[n + 1] = p.log
        /\ \A i \in 1..n : pp.days[i] = p.days[i]
    BY <1>1, <2>6, AppendProperties
  <2>9. /\ Len(qq.days) = n + 1 /\ qq.days[n + 1] = q.log
        /\ \A i \in 1..n : qq.days[i] = q.days[i]
    BY <1>1, <2>6, <2>7, AppendProperties
  <2> HIDE DEF n
  <2>10. \A i \in 1..(n + 1) : i # k => pp.days[i] = qq.days[i]
    <3> SUFFICES ASSUME NEW i \in 1..(n + 1), i # k PROVE pp.days[i] = qq.days[i]
      OBVIOUS
    <3>1. CASE i \in 1..n
      BY <2>7, <2>8, <2>9, <3>1
    <3>2. CASE i = n + 1
      <4>1. k <= n
        BY <2>7, <3>2
      <4> QED BY <2>7, <2>8, <2>9, <3>2, <4>1
    <3> QED BY <2>7, <3>1, <3>2
  <2>11. pp.days[k].date = day /\ qq.days[k].date = day
    <3>1. CASE k = n + 1
      BY <2>7, <2>8, <2>9, <3>1
    <3>2. CASE k # n + 1
      <4>1. k \in 1..n
        BY <2>7, <3>2
      <4> QED BY <2>7, <2>8, <2>9, <4>1
    <3> QED BY <3>1, <3>2
  <2>12. Twins(pp, qq, k, day)
    BY <2>4, <2>6, <2>7, <2>8, <2>9, <2>10, <2>11 DEF Twins
  <2> QED BY <2>12 DEF pp, qq
<1>6. CASE line.is \notin {"year", "month", "date"}
  <2>1. /\ pp.year /\ pp.month = p.month /\ pp.days = p.days
        /\ pp.log \in Log /\ pp.log.date = p.log.date
    BY <1>1, <1>6, HeadlessKeepsDay
  <2>2. /\ qq.year /\ qq.month = q.month /\ qq.days = q.days
        /\ qq.log \in Log /\ qq.log.date = q.log.date
    BY <1>1, <1>6, HeadlessKeepsDay
  <2>3. p.log = q.log => pp.log = qq.log
    <3> SUFFICES ASSUME p.log = q.log PROVE pp.log = qq.log
      OBVIOUS
    <3>1. CASE line.is = "blank"
      BY <3>1 DEF ParseLine
    <3>2. CASE line.is # "blank"
      <4>1. pp = ParseContent(p, line) /\ qq = ParseContent(q, line)
        BY <1>1, <1>2, <1>6, <3>2, Zenon DEF ParseLine
      <4>2. CASE line.is = "event"
        <5> DEFINE woken == WakeSet(p.log, line)
                   log == [woken EXCEPT !.events =
                             Append(woken.events, [time |-> line.time, name |-> line.name])]
        <5>1. pp = [p EXCEPT !.log = log] /\ qq = [q EXCEPT !.log = log]
          <6>1. line.is \notin {"remark", "prefix"}
            BY <4>2
          <6> QED BY <1>1, <4>1, <4>2, <6>1 DEF ParseContent
        <5> HIDE DEF log, pp, qq
        <5> QED BY <5>1 DEF Parser
      <4>3. CASE line.is # "event"
        <5>1. CASE line.is \in {"remark", "prefix"}
          BY <4>1, <5>1 DEF ParseContent
        <5>2. CASE line.is \notin {"remark", "prefix"}
          <6>1. pp = [p EXCEPT !.thrown = TRUE]
            BY <1>1, <4>1, <4>3, <5>2 DEF ParseContent
          <6>2. pp.thrown
            BY <6>1 DEF Parser
          <6> QED BY <6>2
        <5> QED BY <5>1, <5>2
      <4> QED BY <4>2, <4>3
    <3> QED BY <3>1, <3>2
  <2>4. Twins(pp, qq, k, day)
    <3> HIDE DEF pp, qq
    <3> QED BY <2>1, <2>2, <2>3 DEF Twins
  <2> QED BY <2>4
<1> QED BY <1>3, <1>4, <1>5, <1>6

\* A walk of the parser over a text, none of whose lines throws.
Readable(text, p) ==
  /\ p \in [0..Len(text) -> Parser]
  /\ p[0] = Unparsed
  /\ \A i \in 1..Len(text) : p[i] = ParseLine(p[i - 1], text[i])
  /\ \A i \in 0..Len(text) : ~p[i].thrown

LEMMA ReadableWalk ==
  ASSUME NEW text \in Texts, Parses(text)
  PROVE  \E p : Readable(text, p) /\ Parsed(text) = p[Len(text)]
<1> DEFINE n == Len(text)
<1>1. PICK p \in [0..n -> Parser] :
        /\ p[0] = Unparsed
        /\ \A i \in 1..n : p[i] = ParseLine(p[i - 1], text[i])
        /\ Parsed(text) = p[n]
  BY ParserWalk DEF Texts
<1> DEFINE S == {i \in 0..n : ~p[i].thrown}
<1>2. n \in Nat
  BY DEF Texts
<1> HIDE DEF n
<1>3. n \in S
  BY <1>1, <1>2 DEF Parses
<1>4. ASSUME NEW k \in 1..n, k \in S PROVE k - 1 \in S
  <2>1. p[k] = ParseLine(p[k - 1], text[k]) /\ ~p[k].thrown /\ k - 1 \in 0..n
    BY <1>1, <1>2, <1>4
  <2>2. ~p[k - 1].thrown
    BY <2>1 DEF ParseLine
  <2> QED BY <2>1, <2>2
<1> HIDE DEF S
<1>5. \A i \in 0..n : i \in S
  BY <1>2, <1>3, <1>4, EveryLineDownTo
<1>6. \A i \in 0..n : ~p[i].thrown
  BY <1>5 DEF S
<1> QED BY <1>1, <1>6 DEF Readable, n

\* An accepted text is read, and its lines stand under a year.
LEMMA AcceptedIsReadable ==
  ASSUME NEW text \in Texts, Accepts(text)
  PROVE  \E p : /\ Readable(text, p) /\ Parsed(text) = p[Len(text)]
                /\ \A i \in 1..Len(text) : text[i].is # "blank" => p[i].year
<1> DEFINE n == Len(text)
<1>1. PICK s \in [0..n -> Reader], p \in [0..n -> Parser],
           dates \in [0..n -> Texts], events \in [0..n -> Texts] :
        /\ p[0] = Unparsed /\ Parsed(text) = p[n]
        /\ \A i \in 1..n : p[i] = ParseLine(p[i - 1], text[i])
        /\ \A i \in 1..n : text[i].is # "blank" => p[i].year
        /\ DateLines(text) = dates[n] /\ EventLines(text) = events[n]
        /\ \A i \in 0..n : Agree(s[i], p[i], dates[i], events[i])
  <2>1. text \in Seq(Line)
    BY DEF Texts
  <2> QED BY <2>1, AcceptedWalks
<1>2. \A i \in 0..n : ~p[i].thrown
  BY <1>1 DEF Agree
<1> QED BY <1>1, <1>2 DEF Readable

LEMMA HeadlessRun ==
  ASSUME NEW text \in Texts, NEW p, Readable(text, p),
         NEW a \in 0..Len(text), NEW b \in a..Len(text),
         \A i \in (a + 1)..b : text[i].is \notin {"year", "month", "date"},
         p[a].year, p[a].log \in Log
  PROVE  /\ p[b].year /\ p[b].month = p[a].month /\ p[b].days = p[a].days
         /\ p[b].log \in Log /\ p[b].log.date = p[a].log.date
<1> DEFINE S == {i \in a..b : /\ p[i].year /\ p[i].month = p[a].month
                              /\ p[i].days = p[a].days
                              /\ p[i].log \in Log /\ p[i].log.date = p[a].log.date}
<1>1. Len(text) \in Nat /\ a \in Nat /\ b \in Nat /\ a \in a..b /\ b \in a..b
  BY DEF Texts
<1>2. a \in S
  BY <1>1
<1>3. ASSUME NEW k \in a..(b - 1), k \in S PROVE k + 1 \in S
  <2>1. /\ k \in 0..Len(text) /\ k + 1 \in 1..Len(text) /\ k + 1 \in (a + 1)..b
        /\ (k + 1) - 1 = k /\ k + 1 \in 0..Len(text) /\ k + 1 \in a..b
    BY <1>1
  <2>2. p[k] \in Parser /\ text[k + 1] \in Line
    BY <2>1 DEF Readable, Texts
  <2>3. p[k + 1] = ParseLine(p[k], text[k + 1]) /\ ~p[k + 1].thrown
    BY <2>1 DEF Readable
  <2>4. text[k + 1].is \notin {"year", "month", "date"}
    BY <2>1
  <2>5. /\ p[k].year /\ p[k].month = p[a].month /\ p[k].days = p[a].days
        /\ p[k].log \in Log /\ p[k].log.date = p[a].log.date
    BY <1>3
  <2>6. /\ p[k + 1].year /\ p[k + 1].month = p[k].month /\ p[k + 1].days = p[k].days
        /\ p[k + 1].log \in Log /\ p[k + 1].log.date = p[k].log.date
    BY <2>2, <2>3, <2>4, <2>5, HeadlessKeepsDay
  <2> QED BY <2>1, <2>5, <2>6
<1> HIDE DEF S
<1>4. \A k \in a..b : k \in S
  BY <1>1, <1>2, <1>3, EveryLineFrom
<1>5. b \in S
  BY <1>1, <1>4
<1> QED BY <1>5 DEF S

\* Texts that begin alike are read alike so far.
LEMMA SameBeginning ==
  ASSUME NEW text \in Texts, NEW new \in Texts, NEW p, NEW q,
         Readable(text, p), Readable(new, q),
         NEW n \in Nat, n <= Len(text), n <= Len(new),
         \A i \in 1..n : new[i] = text[i]
  PROVE  \A i \in 0..n : p[i] = q[i]
<1> DEFINE S == {i \in 0..n : p[i] = q[i]}
<1>1. Len(text) \in Nat /\ Len(new) \in Nat
  BY DEF Texts
<1>2. 0 \in S
  BY DEF Readable
<1>3. ASSUME NEW k \in 0..(n - 1), k \in S PROVE k + 1 \in S
  <2>1. /\ k + 1 \in 1..Len(text) /\ k + 1 \in 1..Len(new) /\ k + 1 \in 1..n
        /\ (k + 1) - 1 = k /\ k + 1 \in 0..n
    BY <1>1
  <2>2. p[k + 1] = ParseLine(p[k], text[k + 1]) /\ q[k + 1] = ParseLine(q[k], new[k + 1])
    BY <2>1 DEF Readable
  <2>3. new[k + 1] = text[k + 1] /\ p[k] = q[k]
    BY <1>3, <2>1
  <2> QED BY <2>1, <2>2, <2>3
<1> HIDE DEF S
<1>4. \A k \in 0..n : k \in S
  BY <1>2, <1>3, EveryLineUpTo
<1> QED BY <1>4 DEF S

\* Texts that end alike stay twins to the end.
LEMMA SameEnd ==
  ASSUME NEW text \in Texts, NEW new \in Texts, NEW p, NEW q,
         Readable(text, p), Readable(new, q),
         NEW k \in Nat \ {0}, NEW day, NEW a \in Nat, NEW b \in Nat, NEW n \in Nat,
         a + n = Len(text), b + n = Len(new),
         \A i \in 1..n : new[b + i] = text[a + i],
         Twins(p[a], q[b], k, day)
  PROVE  Twins(p[Len(text)], q[Len(new)], k, day)
<1> DEFINE S == {i \in 0..n : Twins(p[a + i], q[b + i], k, day)}
<1>1. 0 \in S
  <2>1. a + 0 = a /\ b + 0 = b /\ 0 \in 0..n
    OBVIOUS
  <2> QED BY <2>1
<1>2. ASSUME NEW i \in 0..(n - 1), i \in S PROVE i + 1 \in S
  <2>1. /\ a + i \in 0..Len(text) /\ a + (i + 1) \in 1..Len(text)
        /\ b + i \in 0..Len(new) /\ b + (i + 1) \in 1..Len(new)
        /\ (a + (i + 1)) - 1 = a + i /\ (b + (i + 1)) - 1 = b + i
        /\ a + (i + 1) \in 0..Len(text) /\ b + (i + 1) \in 0..Len(new)
        /\ i + 1 \in 1..n /\ i + 1 \in 0..n
    OBVIOUS
  <2> DEFINE line == text[a + (i + 1)]
  <2>2. p[a + i] \in Parser /\ q[b + i] \in Parser /\ line \in Line
    <3>1. p[a + i] \in Parser
      BY <2>1 DEF Readable
    <3>2. q[b + i] \in Parser
      BY <2>1 DEF Readable
    <3>3. line \in Line
      <4> DEFINE at == a + (i + 1)
      <4>1. at \in 1..Len(text)
        BY <2>1
      <4> HIDE DEF at
      <4>2. text[at] \in Line
        BY <4>1 DEF Texts
      <4> QED BY <4>2 DEF at
    <3> QED BY <3>1, <3>2, <3>3
  <2>3. new[b + (i + 1)] = line
    BY <2>1
  <2>4. /\ p[a + (i + 1)] = ParseLine(p[a + i], line) /\ ~p[a + (i + 1)].thrown
        /\ q[b + (i + 1)] = ParseLine(q[b + i], line) /\ ~q[b + (i + 1)].thrown
    BY <2>1, <2>3 DEF Readable
  <2>5. Twins(p[a + i], q[b + i], k, day)
    BY <1>2
  <2> HIDE DEF line
  <2>6. Twins(p[a + (i + 1)], q[b + (i + 1)], k, day)
    BY <2>2, <2>4, <2>5, LineKeepsTwins
  <2> QED BY <2>1, <2>6
<1> HIDE DEF S
<1>3. \A i \in 0..n : i \in S
  BY <1>1, <1>2, EveryLineUpTo
<1>4. n \in S
  BY <1>3
<1> QED BY <1>4 DEF S

\* What twins hand over are the same days but one.
LEMMA TwinsHandOver ==
  ASSUME NEW p \in Parser, NEW q \in Parser, NEW k \in Nat \ {0}, NEW day,
         Twins(p, q, k, day)
  PROVE  /\ Len(HandOver(q)) = Len(HandOver(p))
         /\ k \in DOMAIN HandOver(p)
         /\ HandOver(p)[k].date = day /\ HandOver(q)[k].date = day
         /\ \A i \in DOMAIN HandOver(p) \ {k} : HandOver(q)[i] = HandOver(p)[i]
<1> DEFINE n == Len(p.days)
           one == HandOver(p)
           two == HandOver(q)
<1>1. /\ p.days \in Seq(Log) /\ q.days \in Seq(Log) /\ p.log \in Log /\ q.log \in Log
      /\ p.log # NoLog /\ q.log # NoLog
  BY NoLogIsNone DEF Twins, Parser
<1>2. one = Append(p.days, p.log) /\ two = Append(q.days, q.log)
  BY <1>1 DEF HandOver
<1>3. /\ n \in Nat /\ n = Len(q.days) /\ k <= n + 1
      /\ \A i \in 1..n : i # k => p.days[i] = q.days[i]
      /\ k = n + 1 => p.log.date = day /\ q.log.date = day
      /\ k <= n => p.log = q.log /\ p.days[k].date = day /\ q.days[k].date = day
  BY <1>1 DEF Twins
<1>4. /\ one \in Seq(Log) /\ Len(one) = n + 1 /\ one[n + 1] = p.log
      /\ \A i \in 1..n : one[i] = p.days[i]
  <2> HIDE DEF one
  <2> QED BY <1>1, <1>2, AppendProperties
<1>5. /\ Len(two) = n + 1 /\ two[n + 1] = q.log
      /\ \A i \in 1..n : two[i] = q.days[i]
  <2> HIDE DEF two
  <2> QED BY <1>1, <1>2, <1>3, AppendProperties
<1> HIDE DEF n, one, two
<1>6. DOMAIN one = 1..(n + 1)
  BY <1>4
<1>7. one[k].date = day /\ two[k].date = day
  <2>1. CASE k = n + 1
    BY <1>3, <1>4, <1>5, <2>1
  <2>2. CASE k # n + 1
    <3>1. k \in 1..n
      BY <1>3, <2>2
    <3> QED BY <1>3, <1>4, <1>5, <3>1
  <2> QED BY <2>1, <2>2
<1>8. ASSUME NEW i \in 1..(n + 1), i # k PROVE two[i] = one[i]
  <2>1. CASE i \in 1..n
    BY <1>3, <1>4, <1>5, <1>8, <2>1
  <2>2. CASE i = n + 1
    BY <1>3, <1>4, <1>5, <1>8, <2>2
  <2> QED BY <1>3, <2>1, <2>2
<1> QED BY <1>3, <1>4, <1>5, <1>6, <1>7, <1>8 DEF one, two

\* The day of an edited block: the parser reads it where the old one stood, and
\* every other day as before.
LEMMA EditedDayAlone ==
  ASSUME NEW text \in Texts, NEW marker \in Line, NEW body \in Texts,
         Found(text, marker), Parses(text),
         Headless(ResolvedBlock(text, marker).body),
         NEW typed, typed = NormalizedBody(marker, body), Headless(typed),
         NEW new, new = ReplacedBlock(text, marker, body), Accepts(new)
  PROVE  /\ Len(Logs(new)) = Len(Logs(text))
         /\ \E k \in DOMAIN Logs(text) :
               /\ Logs(text)[k].date = marker.day
               /\ Logs(new)[k].date = marker.day
               /\ \A i \in DOMAIN Logs(text) \ {k} : Logs(new)[i] = Logs(text)[i]
<1> DEFINE start == BlockStart(text, marker)
           end == BlockEnd(text, start)
           m == Len(typed)
<1>1. Placed(text, start, end, typed, new)
  BY ReplacedIsPlaced
<1>2. /\ text[start] = marker /\ end \in (start + 1)..(Len(text) + 1)
  BY BlockStands
<1>3. marker.is = "date"
  BY DEF Found, IsMarker
<1>4. Headless(SubSeq(text, start + 1, end - 1))
  <2>1. ResolvedBlock(text, marker).body
          = WithoutLeadingBlanks(SubSeq(text, start + 1, end - 1))
    BY DEF ResolvedBlock
  <2>2. SubSeq(text, start + 1, end - 1) \in Texts
    <3>1. start \in 1..Len(text) /\ Len(text) \in Nat
      BY <1>1 DEF Placed
    <3> HIDE DEF start, end
    <3>2. start + 1 \in Nat \ {0} /\ end - 1 \in Int /\ end - 1 <= Len(text)
      BY <1>2, <3>1
    <3> QED BY <3>2, CutIsText
  <2> QED BY <2>1, <2>2, HeadlessBefore
<1> HIDE DEF start, end
<1>5. /\ start \in 1..Len(text) /\ Len(text) \in Nat /\ m \in Nat
      /\ new \in Texts /\ typed \in Texts
      /\ Len(new) = start + m + (Len(text) - end + 1)
      /\ \A i \in 1..start : new[i] = text[i]
      /\ \A i \in 1..m : new[start + i] = typed[i]
      /\ \A i \in end..Len(text) : new[start + m + (i - end + 1)] = text[i]
  BY <1>1 DEF Placed
<1> HIDE DEF m
<1>6. PICK p : Readable(text, p) /\ Parsed(text) = p[Len(text)]
  BY ReadableWalk
<1>7. PICK q : /\ Readable(new, q) /\ Parsed(new) = q[Len(new)]
               /\ \A i \in 1..Len(new) : new[i].is # "blank" => q[i].year
  BY <1>5, AcceptedIsReadable
<1> DEFINE here == p[start]
           k == Len(here.days) + 1
<1>8. /\ start \in Nat /\ start <= Len(text) /\ start <= Len(new)
      /\ start \in 0..Len(text) /\ start \in 1..Len(new) /\ start \in 0..Len(new)
      /\ start - 1 \in 0..Len(text) /\ start - 1 \in 0..start /\ start \in 0..start
      /\ start \in 1..start
  BY <1>2, <1>5
<1>9. here = q[start]
  <2>1. \A i \in 0..start : p[i] = q[i]
    BY <1>5, <1>6, <1>7, <1>8, SameBeginning
  <2> QED BY <1>8, <2>1
<1>10. /\ here \in Parser /\ here.year /\ here.log \in Log
       /\ here.log.date = marker.day /\ k \in Nat \ {0}
  <2> DEFINE before == p[start - 1]
  <2>1. before \in Parser /\ here \in Parser /\ ~here.thrown
        /\ here = ParseLine(before, marker)
    BY <1>2, <1>5, <1>6, <1>8 DEF Readable
  <2>2. here.year
    BY <1>2, <1>3, <1>5, <1>7, <1>8, <1>9
  <2> HIDE DEF here, before
  <2>3. ~before.thrown
    BY <2>1 DEF ParseLine
  <2>4. before.year
    BY <1>3, <2>1, <2>2, <2>3 DEF ParseLine
  <2>5. here = BeginDay(before, marker)
    BY <1>3, <2>1, <2>3, <2>4 DEF ParseLine
  <2> DEFINE log == [date |-> marker.day, month |-> before.month,
                     wake |-> NoTime, events |-> <<>>]
  <2>6. before.month # 0
    <3> SUFFICES ASSUME before.month = 0 PROVE FALSE
      OBVIOUS
    <3>1. here = [before EXCEPT !.thrown = TRUE]
      BY <2>5 DEF BeginDay
    <3> QED BY <2>1, <3>1 DEF Parser
  <2>7. here = [before EXCEPT !.days = HandOver(before), !.log = log]
    BY <2>5, <2>6 DEF BeginDay
  <2>8. log \in Log
    <3>1. marker.day \in Nat /\ before.month \in Nat
      BY <1>3, <2>1, LineKinds DEF Parser
    <3> QED BY <3>1 DEF Log
  <2>9. here.log = log
    <3> HIDE DEF log
    <3> QED BY <2>1, <2>7 DEF Parser
  <2>10. Len(here.days) \in Nat
    BY <2>1 DEF Parser
  <2> QED BY <2>1, <2>2, <2>8, <2>9, <2>10
<1> DEFINE old == p[end - 1]
           now == q[start + m]
<1>11. /\ old \in Parser
       /\ old.year /\ old.month = here.month /\ old.days = here.days
       /\ old.log \in Log /\ old.log.date = marker.day
  <2>1. end - 1 \in start..Len(text) /\ end - 1 \in 0..Len(text)
    BY <1>2, <1>5
  <2>2. \A i \in (start + 1)..(end - 1) : text[i].is \notin {"year", "month", "date"}
    <3> SUFFICES ASSUME NEW i \in (start + 1)..(end - 1)
                 PROVE  text[i].is \notin {"year", "month", "date"}
      OBVIOUS
    <3> DEFINE cut == SubSeq(text, start + 1, end - 1)
    <3>1. /\ start + 1 \in 1..(Len(text) + 1) /\ end - 1 \in start..Len(text)
          /\ i - start \in 1..((end - 1) - (start + 1) + 1)
          /\ (start + 1) + (i - start) - 1 = i
      BY <1>2, <1>5
    <3>2. /\ DOMAIN cut = 1..((end - 1) - (start + 1) + 1)
          /\ cut[i - start] = text[i]
      <4>1. text \in Seq(Line) /\ start + 1 \in Int /\ end - 1 \in Int
        BY <1>2, <1>5 DEF Texts
      <4> QED BY <3>1, <4>1
    <3> QED BY <1>4, <3>1, <3>2 DEF Headless
  <2>3. old \in Parser
    BY <1>6, <2>1 DEF Readable
  <2> HIDE DEF k
  <2> QED BY <1>6, <1>8, <1>10, <2>1, <2>2, <2>3, HeadlessRun
<1>12. /\ now \in Parser
       /\ now.year /\ now.month = here.month /\ now.days = here.days
       /\ now.log \in Log /\ now.log.date = marker.day
  <2>1. start + m \in start..Len(new) /\ start + m \in 0..Len(new)
    <3>1. start \in Nat /\ m \in Nat /\ Len(text) - end + 1 \in Nat
      <4>1. start \in 1..Len(text) /\ m \in Nat /\ Len(text) \in Nat
        BY <1>5
      <4>2. end \in (start + 1)..(Len(text) + 1)
        BY <1>2
      <4> QED BY <4>1, <4>2
    <3>2. Len(new) = start + m + (Len(text) - end + 1)
      BY <1>5
    <3> QED BY <3>1, <3>2
  <2>2. \A i \in (start + 1)..(start + m) : new[i].is \notin {"year", "month", "date"}
    <3> SUFFICES ASSUME NEW i \in (start + 1)..(start + m)
                 PROVE  new[i].is \notin {"year", "month", "date"}
      OBVIOUS
    <3>1. i - start \in 1..m /\ start + (i - start) = i
      BY <1>5
    <3>2. new[i] = typed[i - start]
      BY <1>5, <3>1
    <3>3. i - start \in DOMAIN typed
      BY <1>5, <3>1 DEF m, Texts
    <3> QED BY <3>2, <3>3 DEF Headless
  <2>3. now \in Parser
    BY <1>7, <2>1 DEF Readable
  <2>4. q[start].year /\ q[start].log \in Log
    BY <1>9, <1>10
  <2>5. /\ now.year /\ now.month = q[start].month /\ now.days = q[start].days
        /\ now.log \in Log /\ now.log.date = q[start].log.date
    <3> DEFINE b == start + m
    <3>1. b \in start..Len(new) /\ \A i \in (start + 1)..b :
                                      new[i].is \notin {"year", "month", "date"}
      BY <2>1, <2>2
    <3>2. new \in Texts /\ Readable(new, q) /\ start \in 0..Len(new)
      BY <1>5, <1>7, <1>8
    <3> HIDE DEF k, here, b
    <3>3. /\ q[b].year /\ q[b].month = q[start].month /\ q[b].days = q[start].days
          /\ q[b].log \in Log /\ q[b].log.date = q[start].log.date
      BY <2>4, <3>1, <3>2, HeadlessRun
    <3> QED BY <3>3 DEF b
  <2> QED BY <1>9, <1>10, <2>3, <2>5
<1>13. Twins(old, now, k, marker.day)
  <2>1. Len(here.days) \in Nat
    BY <1>10 DEF Parser
  <2> HIDE DEF here, old, now
  <2> QED BY <1>11, <1>12, <2>1 DEF Twins
<1>14. Twins(p[Len(text)], q[Len(new)], k, marker.day)
  <2> DEFINE a == end - 1
             b == start + m
             n == Len(text) - end + 1
  <2>1. /\ a \in Nat /\ b \in Nat /\ n \in Nat /\ a + n = Len(text) /\ b + n = Len(new)
    BY <1>2, <1>5
  <2>2. \A i \in 1..n : new[b + i] = text[a + i]
    <3> SUFFICES ASSUME NEW i \in 1..n PROVE new[b + i] = text[a + i]
      OBVIOUS
    <3>1. start \in Int /\ m \in Int /\ end \in Int /\ Len(text) \in Int
      BY <1>2, <1>5
    <3>2. a + i \in end..Len(text)
      BY <3>1
    <3>3. start + m + ((a + i) - end + 1) = b + i
      BY <3>1
    <3> QED BY <1>5, <3>2, <3>3
  <2>3. Twins(p[a], q[b], k, marker.day)
    BY <1>13
  <2> HIDE DEF a, b, n, k, here, old, now
  <2>4. new \in Texts /\ Readable(text, p) /\ Readable(new, q) /\ k \in Nat \ {0}
    BY <1>5, <1>6, <1>7, <1>10
  <2> QED BY <2>1, <2>2, <2>3, <2>4, SameEnd
<1>15. p[Len(text)] \in Parser /\ q[Len(new)] \in Parser
  <2>1. Len(text) \in 0..Len(text) /\ Len(new) \in Nat /\ Len(new) \in 0..Len(new)
    BY <1>5 DEF Texts
  <2> QED BY <1>6, <1>7, <2>1 DEF Readable
<1>16. Logs(text) = HandOver(p[Len(text)]) /\ Logs(new) = HandOver(q[Len(new)])
  BY <1>6, <1>7 DEF Logs
<1> HIDE DEF k, here, old, now
<1>17. /\ Len(Logs(new)) = Len(Logs(text))
       /\ k \in DOMAIN Logs(text)
       /\ Logs(text)[k].date = marker.day /\ Logs(new)[k].date = marker.day
       /\ \A i \in DOMAIN Logs(text) \ {k} : Logs(new)[i] = Logs(text)[i]
  BY <1>10, <1>14, <1>15, <1>16, TwinsHandOver
<1> QED BY <1>17

LEMMA InitMadeOfLines == Init => MadeOfLines
<1> SUFFICES ASSUME Init PROVE MadeOfLines
  OBVIOUS
<1>1. file \in Texts
  <2>1. file = <<>> \/ file \in Diaries
    BY DEF Init
  <2>2. Diaries \subseteq Seq(Line) /\ <<>> \in Seq(Line)
    BY LinesAssumption
  <2> QED BY <2>1, <2>2 DEF Texts
<1> DEFINE marker == DefaultMarker(Month, Today)
<1>2. marker \in Line
  BY MonthAssumption, DiaryAssumption, LastDayOfMonthAssumption
  DEF DefaultMarker, DateLine, Line
<1> HIDE DEF marker
<1>3. ui = [mode |-> "DAY", marker |-> marker, open |-> FALSE, loading |-> FALSE,
            all |-> [baseline |-> file, text |-> file],
            day |-> [baseline |-> <<>>, text |-> <<>>],
            block |-> [marker |-> marker, canSave |-> FALSE, body |-> <<>>]]
  BY DEF Init, Opened, FromResolved, Draft, NothingResolved, marker
<1>4. <<>> \in Texts
  BY DEF Texts
<1>5. /\ [baseline |-> file, text |-> file] \in Drafts
      /\ [baseline |-> <<>>, text |-> <<>>] \in Drafts
      /\ [marker |-> marker, canSave |-> FALSE, body |-> <<>>] \in Resolutions
  BY <1>1, <1>2, <1>4 DEF Drafts, Resolutions
<1> QED BY <1>1, <1>2, <1>3, <1>5 DEF MadeOfLines, Sessions

LEMMA NextMadeOfLines == MadeOfLines /\ [Next]_vars => MadeOfLines'
<1> SUFFICES ASSUME MadeOfLines, [Next]_vars PROVE MadeOfLines'
  OBVIOUS
<1>1. file \in Texts /\ ui \in Sessions
  BY DEF MadeOfLines
<1>2. /\ ui.all \in Drafts /\ ui.day \in Drafts /\ ui.block \in Resolutions
      /\ ui.marker \in Line
  BY <1>1 DEF Sessions
<1>3. /\ ui.all.text \in Texts /\ ui.all.baseline \in Texts
      /\ ui.day.text \in Texts /\ ui.block.body \in Texts
  BY <1>2 DEF Drafts, Resolutions
<1>4. \A text \in Texts : FromResolved(text) \in Drafts
  BY DEF FromResolved, Draft, Drafts
<1>5. FreshBlock(ui) \in Resolutions
  BY <1>2, <1>3, ResolvedIsResolution DEF FreshBlock
<1>6. FreshBlock(ui).body \in Texts
  BY <1>5 DEF Resolutions
<1>7. CASE GenerateDay
  BY <1>1, <1>7 DEF GenerateDay, MadeOfLines
<1>8. ASSUME NEW marker \in Markers, TypeMarker(marker) PROVE MadeOfLines'
  <2>1. marker \in Line
    BY LinesAssumption
  <2> QED BY <1>1, <1>8, <2>1 DEF TypeMarker, MadeOfLines, Sessions
<1>9. ASSUME NEW mode \in {"ALL", "DAY"}, SwitchMode(mode) PROVE MadeOfLines'
  <2> DEFINE day == IF mode = "DAY" THEN FromResolved(ui.block.body) ELSE ui.day
  <2>1. day \in Drafts
    BY <1>2, <1>3, <1>4
  <2>2. /\ ui' = [ui EXCEPT !.mode = mode, !.loading = @ \/ mode = "DAY", !.day = day]
        /\ file' = file
    BY <1>9 DEF SwitchMode
  <2> HIDE DEF day
  <2> QED BY <1>1, <2>1, <2>2 DEF MadeOfLines, Sessions
<1>10. CASE LoadMarker
  <2> DEFINE marker == DefaultMarker(Month, Today)
  <2>1. marker \in Line
    BY MonthAssumption, DiaryAssumption, LastDayOfMonthAssumption
    DEF DefaultMarker, DateLine, Line
  <2>2. ui' = [ui EXCEPT !.loading = FALSE, !.marker = marker] /\ file' = file
    BY <1>10 DEF LoadMarker
  <2> HIDE DEF marker
  <2> QED BY <1>1, <2>1, <2>2 DEF MadeOfLines, Sessions
<1>11. CASE Resolve
  <2> DEFINE block == FreshBlock(ui)
             day == IF ui.mode = "DAY" THEN FromResolved(FreshBlock(ui).body) ELSE ui.day
  <2>1. block \in Resolutions /\ day \in Drafts
    BY <1>2, <1>4, <1>5, <1>6
  <2>2. ui' = [ui EXCEPT !.block = block, !.day = day] /\ file' = file
    BY <1>11 DEF Resolve
  <2> HIDE DEF block, day
  <2> QED BY <1>1, <2>1, <2>2 DEF MadeOfLines, Sessions
<1>12. CASE Open
  <2> DEFINE day == IF ui.mode = "DAY" THEN FromResolved(ui.block.body) ELSE ui.day
  <2>1. day \in Drafts
    BY <1>2, <1>3, <1>4
  <2>2. ui' = [ui EXCEPT !.open = TRUE, !.day = day] /\ file' = file
    BY <1>12 DEF Open
  <2> HIDE DEF day
  <2> QED BY <1>1, <2>1, <2>2 DEF MadeOfLines, Sessions
<1>13. CASE Close
  <2> DEFINE day == IF ui.mode = "DAY" THEN FromResolved(ui.block.body) ELSE ui.day
             all == FromResolved(ui.all.baseline)
  <2>1. day \in Drafts /\ all \in Drafts
    BY <1>2, <1>3, <1>4
  <2>2. ui' = [ui EXCEPT !.open = FALSE, !.day = day, !.all = all] /\ file' = file
    BY <1>13 DEF Close
  <2> HIDE DEF day, all
  <2> QED BY <1>1, <2>1, <2>2 DEF MadeOfLines, Sessions
<1>14. ASSUME NEW text \in IF ui.mode = "ALL" THEN Rewritten ELSE Bodies, Type(text)
       PROVE  MadeOfLines'
  <2>1. Bodies \subseteq Texts
    BY LinesAssumption DEF Texts
  <2>2. Rewritten \subseteq Texts
    <3>1. \A body \in Bodies : ui.all.text \o body \in Texts
      BY <1>3, <2>1, ConcatProperties DEF Texts
    <3>2. SubSeq(ui.all.text, 1, Len(ui.all.text) - 1) \in Texts
      <4>1. Len(ui.all.text) - 1 \in Int /\ Len(ui.all.text) - 1 <= Len(ui.all.text)
        BY <1>3 DEF Texts
      <4> QED BY <1>3, <4>1, CutIsText
    <3> QED BY <3>1, <3>2 DEF Rewritten
  <2>3. text \in Texts
    BY <2>1, <2>2
  <2>4. file' = file
    BY <1>14 DEF Type
  <2>5. CASE ui.mode = "ALL"
    <3> DEFINE all == [ui.all EXCEPT !.text = text]
    <3>1. all \in Drafts
      BY <1>2, <2>3 DEF Drafts
    <3>2. ui' = [ui EXCEPT !.all = all]
      BY <1>14, <2>5 DEF Type
    <3> HIDE DEF all
    <3> QED BY <1>1, <2>4, <3>1, <3>2 DEF MadeOfLines, Sessions
  <2>6. CASE ui.mode # "ALL"
    <3> DEFINE day == [ui.day EXCEPT !.text = text]
    <3>1. day \in Drafts
      BY <1>2, <2>3 DEF Drafts
    <3>2. ui' = [ui EXCEPT !.day = day]
      BY <1>14, <2>6 DEF Type
    <3> HIDE DEF day
    <3> QED BY <1>1, <2>4, <3>1, <3>2 DEF MadeOfLines, Sessions
  <2> QED BY <2>5, <2>6
<1>15. CASE Ingest
  <2>1. Merged \in Texts
    BY <1>2, <1>3, ReplacedIsText DEF Merged
  <2> DEFINE merged == Merged
             all == Draft(file', merged)
             day == IF ui.mode = "DAY" THEN FromResolved(ui.day.text) ELSE ui.day
  <2>2. file' \in Texts
    BY <1>1, <1>15, <2>1 DEF Ingest
  <2>3. all \in Drafts /\ day \in Drafts
    <3>1. merged \in Texts
      BY <2>1
    <3> HIDE DEF merged
    <3> QED BY <1>2, <1>3, <1>4, <2>2, <3>1 DEF Draft, Drafts
  <2>4. ui' = [ui EXCEPT !.open = FALSE, !.all = all, !.day = day]
    BY <1>15 DEF Ingest
  <2> HIDE DEF all, day
  <2> QED BY <1>1, <2>2, <2>3, <2>4 DEF MadeOfLines, Sessions
<1>16. CASE UNCHANGED vars
  BY <1>16 DEF MadeOfLines, vars
<1> QED
  BY <1>7, <1>8, <1>9, <1>10, <1>11, <1>12, <1>13, <1>14, <1>15, <1>16 DEF Next

LEMMA SpecMadeOfLines == Spec => []MadeOfLines
  BY InitMadeOfLines, NextMadeOfLines, PTL DEF Spec

-----------------------------------------------------------------------------
(* The times of a generated day.                                           *)

LEMMA GreatestOfTwo ==
  ASSUME NEW a \in Int, NEW b \in Int
  PROVE  Greatest({a, b}) = IF a >= b THEN a ELSE b
<1> DEFINE c == IF a >= b THEN a ELSE b
           Greatest1(n) == n \in {a, b} /\ \A m \in {a, b} : n >= m
<1>1. Greatest1(c) /\ \A n : Greatest1(n) => n = c
  OBVIOUS
<1>2. Greatest({a, b}) = CHOOSE n : Greatest1(n)
  BY DEF Greatest
<1> HIDE DEF c, Greatest1
<1>3. Greatest({a, b}) = c
  BY <1>1, <1>2
<1> QED BY <1>3 DEF c

LEMMA LeastOfTwo ==
  ASSUME NEW a \in Int, NEW b \in Int
  PROVE  Least({a, b}) = IF a <= b THEN a ELSE b
<1> DEFINE c == IF a <= b THEN a ELSE b
           Least1(n) == n \in {a, b} /\ \A m \in {a, b} : n <= m
<1>1. Least1(c) /\ \A n : Least1(n) => n = c
  OBVIOUS
<1>2. Least({a, b}) = CHOOSE n : Least1(n)
  BY DEF Least
<1> HIDE DEF c, Least1
<1>3. Least({a, b}) = c
  BY <1>1, <1>2
<1> QED BY <1>3 DEF c

LEMMA ClampedIsBetween ==
  ASSUME NEW n \in Int, NEW low \in Int, NEW high \in Int, low <= high
  PROVE  Clamped(n, low, high) \in low .. high
<1>1. Least({high, n}) = IF high <= n THEN high ELSE n
  BY LeastOfTwo
<1>2. Least({high, n}) \in Int /\ Least({high, n}) <= high
  BY <1>1
<1>3. Greatest({low, Least({high, n})})
        = IF low >= Least({high, n}) THEN low ELSE Least({high, n})
  BY <1>2, GreatestOfTwo
<1> QED BY <1>2, <1>3 DEF Clamped

\* What lies between two clock times is what lies between the times themselves.
LEMMA ClockTimes ==
  ASSUME NEW a \in Nat
  PROVE  Clock(a) \in Times
  BY DayLengthAssumption DEF Clock, Times

LEMMA ClockKeepsDistance ==
  ASSUME NEW a \in Nat, NEW b \in Nat, b - a \in 0 .. DayLength - 1
  PROVE  Wrapped(Clock(a), Clock(b)) = b - a
<1>1. PICK D \in Nat \ {0} : D = DayLength
  BY DayLengthAssumption
<1> DEFINE q == a \div D  r == a % D  u == b \div D  v == b % D
<1>2. /\ q \in Int /\ r \in 0 .. D - 1 /\ a = D * q + r
      /\ u \in Int /\ v \in 0 .. D - 1 /\ b = D * u + v
  BY <1>1
<1>3. Clock(a) = r /\ Clock(b) = v
  BY <1>1 DEF Clock
<1> HIDE DEF q, r, u, v
<1>4. b - a = D * (u - q) + (v - r)
  BY <1>2
<1> DEFINE k == u - q
<1>5. k \in Int /\ b - a = D * k + (v - r)
  BY <1>2, <1>4
<1> HIDE DEF k
<1>6. k = 0 \/ k = 1
  <2>1. k >= 2 => D * k >= D + D
    BY <1>5
  <2>2. k <= -1 => D * k <= -D
    BY <1>5
  <2>3. D * k \in Int
    BY <1>5
  <2> DEFINE m == D * k
  <2>4. m \in Int /\ b - a = m + (v - r) /\ (k >= 2 => m >= D + D) /\ (k <= -1 => m <= -D)
    BY <1>5, <2>1, <2>2, <2>3
  <2> HIDE DEF m
  <2> QED BY <1>1, <1>2, <1>5, <2>4
<1>7. (k = 0 => b - a = v - r) /\ (k = 1 => b - a = D + v - r)
  BY <1>2, <1>5
<1> QED BY <1>1, <1>2, <1>3, <1>6, <1>7 DEF Wrapped

\* What the generator is built for: no activity need be longer than the validation
\* allows, however late a day ends, if it has another event besides its last one
\* and its waking.
Generous ==
  /\ MaxActivity \in 1 .. DayLength - 1
  /\ \A jitter \in Jitters : DayLength + jitter + MaxCarry <= 2 * MaxActivity + 1
  /\ \A s \in Settings : s.items > kMinItemsPerDay

LEMMA GenerousLimits ==
  Generous => MaxActivity >= 1 /\ MaxActivity < DayLength /\ MaxActivity \in Nat
  BY LimitAssumption, DayLengthAssumption DEF Generous

\* The times of a day: each activity ends after the one before, and not too late.
Paced(start, times) ==
  \A k \in DOMAIN times :
    times[k] - (IF k = 1 THEN start ELSE times[k - 1]) \in 1 .. MaxActivity

\* One more activity, with d to come after it and at most l minutes for them.
LEMMA NextIsPaced ==
  ASSUME NEW b \in Int, NEW end \in Int, NEW d \in Nat, NEW l \in Int,
         NEW x \in Int, MaxActivity >= 1, l >= d,
         end - b \in d + 1 .. l + MaxActivity,
         x \in Greatest({b + 1, end - l})
               .. Greatest({Greatest({b + 1, end - l}),
                            Least({end - d, b + MaxActivity})})
  PROVE  x - b \in 1 .. MaxActivity /\ end - x \in d .. l
<1> DEFINE f == Greatest({b + 1, end - l})
           g == Least({end - d, b + MaxActivity})
           h == Greatest({f, g})
<1>0. MaxActivity \in Nat
  BY LimitAssumption
<1>1. f \in Int /\ f = IF b + 1 >= end - l THEN b + 1 ELSE end - l
  BY GreatestOfTwo
<1>2. g \in Int /\ g = IF end - d <= b + MaxActivity THEN end - d ELSE b + MaxActivity
  BY <1>0, LeastOfTwo
<1> HIDE DEF f, g
<1>3. h = IF f >= g THEN f ELSE g
  BY <1>1, <1>2, GreatestOfTwo
<1>4. x \in f .. h
  BY DEF f, g
<1> HIDE DEF h
<1> QED BY <1>0, <1>1, <1>2, <1>3, <1>4

LEMMA EventsAreTimes ==
  ASSUME NEW start \in Nat, NEW until \in Nat, NEW count \in Nat \ {0},
         start + count <= until, NEW times \in EventChoices(start, until, count)
  PROVE  times \in Seq(Nat) /\ Len(times) = count /\ times[count] = until
<1> DEFINE n == count - 1
           end == Greatest({until, start + count})
<1>1. n \in Nat /\ end = until
  BY GreatestOfTwo
<1>2. PICK s \in [1 .. n -> start + 1 .. end] : times = Append(s, end)
  <2>1. ~(count <= 0)
    OBVIOUS
  <2> QED BY <2>1 DEF EventChoices
<1> HIDE DEF end, n
<1>3. s \in [1 .. n -> Nat]
  BY <1>1, <1>2
<1>4. s \in Seq(Nat) /\ Len(s) = n
  BY <1>1, <1>3
<1>5. n + 1 = count
  BY DEF n
<1> QED BY <1>1, <1>2, <1>4, <1>5

LEMMA EventsArePaced ==
  ASSUME NEW start \in Nat, NEW until \in Nat, NEW count \in Nat \ {0},
         MaxActivity >= 1,
         start + count <= until, until - start <= count * MaxActivity,
         NEW times \in EventChoices(start, until, count)
  PROVE  Paced(start, times)
<1> DEFINE M == MaxActivity
           n == count - 1
           end == Greatest({until, start + count})
           Before(s, k) == IF k = 1 THEN start ELSE s[k - 1]
           First(s, k) == Greatest({Before(s, k) + 1, end - (count - k) * M})
           Final(s, k) == Greatest({First(s, k),
                                    Least({end - (count - k), Before(s, k) + M})})
<1>0. M \in Nat /\ n \in Nat
  BY LimitAssumption
<1>1. end = until
  BY GreatestOfTwo
<1>2. PICK s \in [1 .. n -> start + 1 .. end] :
        times = Append(s, end) /\ \A k \in 1 .. n : s[k] \in First(s, k) .. Final(s, k)
  <2>1. ~(count <= 0)
    OBVIOUS
  <2> QED BY <2>1 DEF EventChoices
<1> HIDE DEF end
<1>3. \A k \in 1 .. n : s[k] \in Int /\ s[k] > start /\ s[k] \in Nat
  BY <1>1, <1>2
<1> DEFINE left(k) == (count - k) * M
<1>4. \A k \in Nat : left(k) \in Int
  BY <1>0
<1>5. \A k \in 1 .. n : left(k - 1) = left(k) + M /\ left(k) >= count - k
  <2> TAKE k \in 1 .. n
  <2>1. PICK j \in Nat : j = count - k /\ j >= 1
    BY <1>0
  <2>2. (j + 1) * M = j * M + M /\ j * M >= j
    BY <1>0, <2>1
  <2>3. count - (k - 1) = j + 1
    BY <1>0, <2>1
  <2> QED BY <2>1, <2>2, <2>3
<1>6. left(0) = count * M /\ left(n) = M
  <2>1. count - n = 1 /\ count - 0 = count
    OBVIOUS
  <2> QED BY <1>0, <2>1
<1> DEFINE at(k) == IF k = 0 THEN start ELSE s[k]
           S == {k \in 0 .. n : until - at(k) \in count - k .. left(k)}
<1> HIDE DEF M, left
<1>7. 0 \in S
  BY <1>0, <1>4, <1>6 DEF M
<1>8. ASSUME NEW k \in 1 .. n, k - 1 \in S
      PROVE  /\ k \in S /\ s[k] - Before(s, k) \in 1 .. M
  <2> DEFINE b == Before(s, k)
  <2>1. b = at(k - 1) /\ b \in Int
    BY <1>0, <1>3
  <2>2. until - b \in count - (k - 1) .. left(k - 1)
    BY <1>8, <2>1
  <2>3. left(k) \in Int /\ left(k - 1) = left(k) + M /\ left(k) >= count - k
    <3>1. k \in Nat
      BY <1>0
    <3>2. left(k) \in Int
      BY <1>4, <3>1
    <3>3. left(k - 1) = left(k) + M /\ left(k) >= count - k
      BY <1>5
    <3> QED BY <3>2, <3>3
  <2>4. s[k] \in First(s, k) .. Final(s, k)
    BY <1>2
  <2>5. /\ First(s, k) = Greatest({b + 1, until - left(k)})
        /\ Final(s, k) = Greatest({First(s, k), Least({until - (count - k), b + M})})
    BY <1>1 DEF left
  <2> DEFINE d == count - k
             l == left(k)
             x == s[k]
  <2>6. /\ x \in Greatest({b + 1, until - l})
               .. Greatest({Greatest({b + 1, until - l}), Least({until - d, b + M})})
        /\ x \in Int /\ d \in Nat /\ d + 1 = count - (k - 1)
    <3> HIDE DEF First, Final, b
    <3>1. x \in Greatest({b + 1, until - l})
               .. Greatest({Greatest({b + 1, until - l}), Least({until - d, b + M})})
      BY <2>4, <2>5
    <3>2. x \in Int /\ d \in Nat /\ d + 1 = count - (k - 1)
      BY <1>0, <1>3
    <3> QED BY <3>1, <3>2
  <2>7. /\ b \in Int /\ l \in Int /\ l >= d /\ until - b \in d + 1 .. l + M
    BY <2>1, <2>2, <2>3, <2>6
  <2> HIDE DEF b, d, l, x
  <2>8. x - b \in 1 .. M /\ until - x \in d .. l
    <3>1. /\ b \in Int /\ until \in Int /\ d \in Nat /\ l \in Int /\ x \in Int
          /\ l >= d /\ until - b \in d + 1 .. l + MaxActivity
      BY <2>6, <2>7 DEF M
    <3>2. x \in Greatest({b + 1, until - l})
               .. Greatest({Greatest({b + 1, until - l}), Least({until - d, b + MaxActivity})})
      BY <2>6 DEF M
    <3> QED BY <3>1, <3>2, NextIsPaced, Zenon DEF M
  <2>11. s[k] - b \in 1 .. M /\ until - s[k] \in count - k .. left(k)
    BY <2>8 DEF d, l, x
  <2>12. k \in S
    BY <2>11
  <2> QED BY <2>11, <2>12 DEF b
<1>9. \A k \in 0 .. n : k \in S
  <2>1. ASSUME NEW k \in 0 .. (n - 1), k \in S PROVE k + 1 \in S
    <3>1. k + 1 \in 1 .. n /\ (k + 1) - 1 = k
      BY <1>0
    <3> HIDE DEF S
    <3> QED BY <1>8, <2>1, <3>1
  <2> HIDE DEF S
  <2> QED BY <1>0, <1>7, <2>1, EveryLineUpTo
<1>10. s \in Seq(Nat) /\ Len(s) = n
  <2>1. s \in [1 .. n -> Nat]
    BY <1>2, <1>3
  <2> QED BY <1>0, <2>1
<1>11. /\ Len(times) = count /\ times[count] = until /\ times \in Seq(Nat)
       /\ \A k \in 1 .. n : times[k] = s[k]
  BY <1>1, <1>2, <1>10
<1>12. ASSUME NEW k \in 1 .. count
       PROVE  times[k] - (IF k = 1 THEN start ELSE times[k - 1]) \in 1 .. MaxActivity
  <2>1. CASE k \in 1 .. n
    <3>1. k - 1 \in S
      <4>1. k - 1 \in 0 .. n
        BY <1>0, <2>1
      <4> HIDE DEF S
      <4> QED BY <1>9, <4>1
    <3>2. s[k] - Before(s, k) \in 1 .. M
      <4> HIDE DEF S
      <4> QED BY <1>8, <2>1, <3>1
    <3>3. Before(s, k) = IF k = 1 THEN start ELSE times[k - 1]
      BY <1>0, <1>11, <2>1
    <3> QED BY <1>3, <1>11, <2>1, <3>2, <3>3 DEF M
  <2>2. CASE k = count
    <3>1. until - at(n) \in 1 .. M
      <4>1. n \in S
        <5> HIDE DEF S
        <5> QED BY <1>0, <1>9
      <4>2. count - n = 1
        BY <1>0
      <4> QED BY <1>6, <4>1, <4>2
    <3>2. at(n) = IF k = 1 THEN start ELSE times[k - 1]
      BY <1>0, <1>11, <2>2
    <3>3. until > start
      OBVIOUS
    <3> QED BY <1>11, <2>2, <3>1, <3>2, <3>3 DEF M
  <2> QED BY <1>0, <2>1, <2>2
<1>13. DOMAIN times = 1 .. count
  BY <1>11
<1> QED BY <1>12, <1>13 DEF Paced

-----------------------------------------------------------------------------
(* What the readers have made of a text, as it grows.                      *)

\* What either reader is left with.
ReaderOf(text) == Walked(ValidateLine, Unread, text)

LEMMA NothingIsRead ==
  ReaderOf(<<>>) = Unread /\ Parsed(<<>>) = Unparsed
<1>1. <<>> \in Seq(Line) /\ Len(<<>>) = 0
  OBVIOUS
<1>2. \E f \in [0..Len(<<>>) -> Reader] :
        f[0] = Unread /\ Walked(ValidateLine, Unread, <<>>) = f[Len(<<>>)]
  BY <1>1, ValidatorWalk
<1>3. \E f \in [0..Len(<<>>) -> Parser] :
        f[0] = Unparsed /\ Parsed(<<>>) = f[Len(<<>>)]
  BY <1>1, ParserWalk
<1> QED BY <1>1, <1>2, <1>3 DEF ReaderOf

\* One more line is one more step of either reader.
LEMMA OneMoreLine ==
  ASSUME NEW text \in Texts, NEW line \in Line
  PROVE  /\ Append(text, line) \in Texts
         /\ ReaderOf(text) \in Reader /\ Parsed(text) \in Parser
         /\ ReaderOf(Append(text, line)) = ValidateLine(ReaderOf(text), line)
         /\ Parsed(Append(text, line)) = ParseLine(Parsed(text), line)
<1> DEFINE n == Len(text)
           more == Append(text, line)
<1>1. /\ text \in Seq(Line) /\ n \in Nat /\ more \in Seq(Line) /\ Len(more) = n + 1
      /\ more[n + 1] = line /\ \A i \in 1 .. n : more[i] = text[i]
  BY DEF Texts
<1>2. PICK f \in [0 .. n -> Reader] :
        /\ f[0] = Unread
        /\ \A i \in 1 .. n : f[i] = ValidateLine(f[i - 1], text[i])
        /\ Walked(ValidateLine, Unread, text) = f[n]
  BY <1>1, ValidatorWalk
<1>3. PICK g \in [0 .. Len(more) -> Reader] :
        /\ g[0] = Unread
        /\ \A i \in 1 .. Len(more) : g[i] = ValidateLine(g[i - 1], more[i])
        /\ Walked(ValidateLine, Unread, more) = g[Len(more)]
  BY <1>1, ValidatorWalk
<1>4. PICK p \in [0 .. n -> Parser] :
        /\ p[0] = Unparsed
        /\ \A i \in 1 .. n : p[i] = ParseLine(p[i - 1], text[i])
        /\ Parsed(text) = p[n]
  BY <1>1, ParserWalk
<1>5. PICK q \in [0 .. Len(more) -> Parser] :
        /\ q[0] = Unparsed
        /\ \A i \in 1 .. Len(more) : q[i] = ParseLine(q[i - 1], more[i])
        /\ Parsed(more) = q[Len(more)]
  BY <1>1, ParserWalk
<1> HIDE DEF n, more
<1> DEFINE S == {i \in 0 .. n : g[i] = f[i] /\ q[i] = p[i]}
<1>6. 0 \in S
  BY <1>1, <1>2, <1>3, <1>4, <1>5
<1>7. ASSUME NEW k \in 0 .. (n - 1), k \in S PROVE k + 1 \in S
  <2>1. /\ k + 1 \in 1 .. n /\ k + 1 \in 1 .. Len(more) /\ (k + 1) - 1 = k /\ k + 1 \in 0 .. n
        /\ more[k + 1] = text[k + 1]
    BY <1>1
  <2>2. g[k + 1] = f[k + 1]
    <3>1. g[k + 1] = ValidateLine(g[k], text[k + 1]) /\ f[k + 1] = ValidateLine(f[k], text[k + 1])
      BY <1>2, <1>3, <2>1
    <3> QED BY <1>7, <3>1
  <2>3. q[k + 1] = p[k + 1]
    <3>1. q[k + 1] = ParseLine(q[k], text[k + 1]) /\ p[k + 1] = ParseLine(p[k], text[k + 1])
      BY <1>4, <1>5, <2>1
    <3> QED BY <1>7, <3>1
  <2> QED BY <2>1, <2>2, <2>3
<1> HIDE DEF S
<1>8. \A k \in 0 .. n : k \in S
  BY <1>1, <1>6, <1>7, EveryLineUpTo
<1>9. g[n] = f[n] /\ q[n] = p[n]
  BY <1>1, <1>8 DEF S
<1>10. n + 1 \in 1 .. Len(more) /\ (n + 1) - 1 = n /\ n \in 0 .. n
  BY <1>1
<1>11. ReaderOf(more) = ValidateLine(ReaderOf(text), line)
  BY <1>1, <1>2, <1>3, <1>9, <1>10 DEF ReaderOf
<1>12. Parsed(more) = ParseLine(Parsed(text), line)
  BY <1>1, <1>4, <1>5, <1>9, <1>10
<1>13. ReaderOf(text) \in Reader /\ Parsed(text) \in Parser /\ more \in Texts
  BY <1>1, <1>2, <1>4, <1>10 DEF ReaderOf, Texts
<1> QED BY <1>11, <1>12, <1>13 DEF more

\* A text both readers have followed without a complaint: what the validator
\* is left with, the days that are over and the day that is open, if there is one.
Stands(text, days, log, event) ==
  /\ text \in Texts
  /\ ReaderOf(text) = [year |-> TRUE, month |-> Month, dated |-> log # NoLog,
                       inDay |-> log # NoLog, event |-> event, over |-> FALSE,
                       errors |-> {}]
  /\ Parsed(text) = [year |-> TRUE, month |-> Month, log |-> log, days |-> days,
                     thrown |-> FALSE]

NewLog(d) == [date |-> d, month |-> Month, wake |-> NoTime, events |-> <<>>]

\* The day with one more event.
Eventful(log, line) ==
  [WakeSet(log, line) EXCEPT
     !.events = Append(log.events, [time |-> line.time, name |-> line.name])]

LEMMA StandingTypes ==
  ASSUME NEW text, NEW days, NEW log, NEW event, Stands(text, days, log, event)
  PROVE  days \in Seq(Log) /\ log \in Log \cup {NoLog} /\ event \in BOOLEAN
<1>1. BlankLine \in Line
  BY DEF BlankLine, Line
<1>2. ReaderOf(text) \in Reader /\ Parsed(text) \in Parser
  BY <1>1, OneMoreLine DEF Stands
<1>3. ReaderOf(text).event = event /\ Parsed(text).log = log /\ Parsed(text).days = days
  BY DEF Stands
<1> QED BY <1>2, <1>3 DEF Reader, Reading, Parser

LEMMA AppendIs ==
  ASSUME NEW S, NEW seq \in Seq(S), NEW x \in S, NEW t \in Seq(S),
         Len(t) = Len(seq) + 1, t[Len(t)] = x, \A i \in 1 .. Len(seq) : t[i] = seq[i]
  PROVE  Append(seq, x) = t
<1> DEFINE n == Len(seq)
           u == Append(seq, x)
<1>1. n \in Nat
  OBVIOUS
<1>2. u \in Seq(S) /\ Len(u) = n + 1 /\ u[n + 1] = x /\ \A i \in 1 .. n : u[i] = seq[i]
  BY AppendProperties
<1>3. \A i \in 1 .. n : t[i] = seq[i]
  OBVIOUS
<1>4. Len(t) = n + 1 /\ t[n + 1] = x
  OBVIOUS
<1> HIDE DEF n, u
<1>5. ASSUME NEW i \in 1 .. Len(u) PROVE u[i] = t[i]
  <2>1. CASE i = n + 1
    BY <1>2, <1>4, <2>1
  <2>2. CASE i # n + 1
    <3>1. i \in 1 .. n
      BY <1>1, <1>2, <2>2
    <3> QED BY <1>2, <1>3, <3>1
  <2> QED BY <2>1, <2>2
<1>6. Len(u) = Len(t)
  BY <1>2, <1>4
<1>7. u = t
  BY <1>2, <1>5, <1>6, SeqEqual
<1> QED BY <1>7 DEF u

LEMMA AppendThrice ==
  ASSUME NEW S, NEW x \in S, NEW y \in S, NEW z \in S
  PROVE  Append(Append(Append(<<>>, x), y), z) = <<x, y, z>>
<1>1. Append(<<>>, x) = <<x>>
  OBVIOUS
<1>2. Append(<<x>>, y) = <<x, y>>
  <2> DEFINE s == <<x>>
             t == <<x, y>>
  <2>1. /\ s \in Seq(S) /\ t \in Seq(S) /\ Len(t) = Len(s) + 1 /\ t[Len(t)] = y
        /\ \A i \in 1 .. Len(s) : t[i] = s[i]
    OBVIOUS
  <2> HIDE DEF s, t
  <2>2. Append(s, y) = t
    BY <2>1, AppendIs
  <2> QED BY <2>2 DEF s, t
<1>3. Append(<<x, y>>, z) = <<x, y, z>>
  <2> DEFINE s == <<x, y>>
             t == <<x, y, z>>
  <2>1. /\ s \in Seq(S) /\ t \in Seq(S) /\ Len(t) = Len(s) + 1 /\ t[Len(t)] = z
        /\ \A i \in 1 .. Len(s) : t[i] = s[i]
    OBVIOUS
  <2> HIDE DEF s, t
  <2>2. Append(s, z) = t
    BY <2>1, AppendIs
  <2> QED BY <2>2 DEF s, t
<1> QED BY <1>1, <1>2, <1>3

LEMMA HeadersStand == Stands(Headers, <<>>, NoLog, FALSE)
<1> DEFINE t1 == Append(<<>>, YearLine)
           t2 == Append(t1, MonthLine(Month))
           t3 == Append(t2, BlankLine)
<1>1. YearLine \in Line /\ MonthLine(Month) \in Line /\ BlankLine \in Line
  BY MonthAssumption DEF YearLine, MonthLine, BlankLine, Line
<1>2. <<>> \in Texts
  BY DEF Texts
<1>3. Month \in Nat /\ Month # 0
  BY MonthAssumption
<1>4. /\ t1 \in Texts
      /\ ReaderOf(t1) = ValidateLine(Unread, YearLine)
      /\ Parsed(t1) = ParseLine(Unparsed, YearLine)
  BY <1>1, <1>2, NothingIsRead, OneMoreLine
<1>5. /\ t2 \in Texts
      /\ ReaderOf(t2) = ValidateLine(ReaderOf(t1), MonthLine(Month))
      /\ Parsed(t2) = ParseLine(Parsed(t1), MonthLine(Month))
  <2> HIDE DEF t1
  <2> QED BY <1>1, <1>4, OneMoreLine
<1>6. /\ t3 \in Texts
      /\ ReaderOf(t3) = ValidateLine(ReaderOf(t2), BlankLine)
      /\ Parsed(t3) = ParseLine(Parsed(t2), BlankLine)
  <2> HIDE DEF t2
  <2> QED BY <1>1, <1>5, OneMoreLine
<1>7. t3 = Headers
  BY <1>1, AppendThrice, Zenon DEF Headers
<1> HIDE DEF t1, t2, t3
<1>8. /\ ReaderOf(t1) = [Unread EXCEPT !.year = TRUE, !.month = 0, !.dated = FALSE,
                                       !.inDay = FALSE]
      /\ Parsed(t1) = [Unparsed EXCEPT !.year = TRUE, !.month = 0]
  <2>1. YearLine.is = "year"
    BY DEF YearLine
  <2>2. ReadLine(Unread, YearLine) = [Unread EXCEPT !.year = TRUE, !.month = 0, !.dated = FALSE,
                                       !.inDay = FALSE]
    BY <2>1 DEF ReadLine, ReadYear, Unread
  <2>3. ReadLine(Unread, YearLine).year /\ ~Unread.over
    BY <2>2 DEF Unread
  <2> QED BY <1>4, <2>1, <2>2, <2>3 DEF ValidateLine, ParseLine, Unparsed
<1>9. /\ ReaderOf(t2) = [ReaderOf(t1) EXCEPT !.month = Month]
      /\ Parsed(t2) = [Parsed(t1) EXCEPT !.month = Month]
  <2>1. MonthLine(Month).is = "month" /\ MonthLine(Month).month = Month
    BY DEF MonthLine
  <2>2. ReaderOf(t1).year /\ ReaderOf(t1).month = 0 /\ ~ReaderOf(t1).dated /\ ~ReaderOf(t1).over
    BY <1>8 DEF Unread
  <2>3. ReadLine(ReaderOf(t1), MonthLine(Month)) = [ReaderOf(t1) EXCEPT !.month = Month]
    BY <2>1, <2>2 DEF ReadLine, ReadMonth
  <2>4. ReadLine(ReaderOf(t1), MonthLine(Month)).year
    BY <1>8, <2>3 DEF Unread
  <2>5. Parsed(t1).year /\ ~Parsed(t1).thrown
    BY <1>8 DEF Unparsed
  <2> QED BY <1>5, <2>1, <2>2, <2>3, <2>4, <2>5 DEF ValidateLine, ParseLine
<1>10. ReaderOf(t3) = ReaderOf(t2) /\ Parsed(t3) = Parsed(t2)
  BY <1>6 DEF ValidateLine, ParseLine, BlankLine
<1>11. /\ ReaderOf(t3) = [year |-> TRUE, month |-> Month, dated |-> FALSE, inDay |-> FALSE,
                          event |-> FALSE, over |-> FALSE, errors |-> {}]
       /\ Parsed(t3) = [year |-> TRUE, month |-> Month, log |-> NoLog, days |-> <<>>,
                        thrown |-> FALSE]
  <2>1. ReaderOf(t3) = [[Unread EXCEPT !.year = TRUE, !.month = 0, !.dated = FALSE,
                                       !.inDay = FALSE] EXCEPT !.month = Month]
    BY <1>8, <1>9, <1>10
  <2>2. Parsed(t3) = [[Unparsed EXCEPT !.year = TRUE, !.month = 0] EXCEPT !.month = Month]
    BY <1>8, <1>9, <1>10
  <2>3. ReaderOf(t3) = [year |-> TRUE, month |-> Month, dated |-> FALSE, inDay |-> FALSE,
                          event |-> FALSE, over |-> FALSE, errors |-> {}]
    BY <2>1 DEF Unread
  <2>4. Parsed(t3) = [year |-> TRUE, month |-> Month, log |-> NoLog, days |-> <<>>,
                        thrown |-> FALSE]
    BY <2>2 DEF Unparsed
  <2> QED BY <2>3, <2>4
<1> QED BY <1>6, <1>7, <1>11 DEF Stands

LEMMA BlankStands ==
  ASSUME NEW text, NEW days, NEW log, NEW event, Stands(text, days, log, event)
  PROVE  Stands(Append(text, BlankLine), days, log, event)
<1>1. BlankLine \in Line /\ BlankLine.is = "blank"
  BY DEF BlankLine, Line
<1>2. /\ Append(text, BlankLine) \in Texts
      /\ ReaderOf(Append(text, BlankLine)) = ValidateLine(ReaderOf(text), BlankLine)
      /\ Parsed(Append(text, BlankLine)) = ParseLine(Parsed(text), BlankLine)
  BY <1>1, OneMoreLine DEF Stands
<1> QED BY <1>1, <1>2 DEF Stands, ValidateLine, ParseLine

LEMMA RemarkStands ==
  ASSUME NEW text, NEW days, NEW log, log # NoLog, Stands(text, days, log, FALSE)
  PROVE  Stands(Append(text, RemarkLine), days, log, FALSE)
<1>1. RemarkLine \in Line /\ RemarkLine.is = "remark"
  BY DEF RemarkLine, Line
<1> DEFINE s == ReaderOf(text)
           p == Parsed(text)
<1>2. /\ Append(text, RemarkLine) \in Texts
      /\ ReaderOf(Append(text, RemarkLine)) = ValidateLine(s, RemarkLine)
      /\ Parsed(Append(text, RemarkLine)) = ParseLine(p, RemarkLine)
  BY <1>1, OneMoreLine DEF Stands
<1>3. /\ s.inDay /\ ~s.event /\ s.year /\ ~s.over
      /\ p.year /\ ~p.thrown
  <2>1. s = [year |-> TRUE, month |-> Month, dated |-> TRUE, inDay |-> TRUE,
             event |-> FALSE, over |-> FALSE, errors |-> {}]
    BY DEF Stands
  <2>2. p = [year |-> TRUE, month |-> Month, log |-> log, days |-> days, thrown |-> FALSE]
    BY DEF Stands
  <2> HIDE DEF s, p
  <2> QED BY <2>1, <2>2
<1>4. ReadLine(s, RemarkLine) = s
  BY <1>1, <1>3 DEF ReadLine, ReadRemark, ReportedIf
<1> HIDE DEF s, p
<1>5. ValidateLine(s, RemarkLine) = s
  BY <1>1, <1>3, <1>4 DEF ValidateLine
<1>6. ParseLine(p, RemarkLine) = p
  BY <1>1, <1>3 DEF ParseLine, ParseContent
<1> QED BY <1>2, <1>5, <1>6 DEF Stands, s, p

LEMMA DateStands ==
  ASSUME NEW text, NEW days, NEW log, NEW event, Stands(text, days, log, event),
         NEW d \in Nat, log = NoLog => d = 1
  PROVE  Stands(Append(text, DateLine(Month, d)),
                IF log = NoLog THEN days ELSE Append(days, log), NewLog(d), FALSE)
<1> DEFINE line == DateLine(Month, d)
           s == ReaderOf(text)
           p == Parsed(text)
<1>1. line \in Line /\ line.is = "date" /\ line.month = Month /\ line.day = d
  BY MonthAssumption DEF DateLine, Line
<1>2. /\ Append(text, line) \in Texts
      /\ ReaderOf(Append(text, line)) = ValidateLine(s, line)
      /\ Parsed(Append(text, line)) = ParseLine(p, line)
  <2> HIDE DEF line
  <2> QED BY <1>1, OneMoreLine DEF Stands
<1>3. Month # 0
  BY MonthAssumption
<1>4. /\ s = [year |-> TRUE, month |-> Month, dated |-> log # NoLog,
              inDay |-> log # NoLog, event |-> event, over |-> FALSE, errors |-> {}]
      /\ p = [year |-> TRUE, month |-> Month, log |-> log, days |-> days, thrown |-> FALSE]
  BY DEF Stands
<1> HIDE DEF line, s, p
<1>5. ReadLine(s, line) = [s EXCEPT !.dated = TRUE, !.inDay = TRUE, !.event = FALSE]
  <2>1. ReadLine(s, line) = ReadDate(s, line)
    BY <1>1 DEF ReadLine
  <2>2. ~(~s.year \/ s.month = 0 \/ line.month # s.month) /\ ~(~s.dated /\ line.day # 1)
    BY <1>1, <1>3, <1>4
  <2> QED BY <2>1, <2>2 DEF ReadDate, ReportedIf
<1>6. ValidateLine(s, line) = [s EXCEPT !.dated = TRUE, !.inDay = TRUE, !.event = FALSE]
  <2>1. ReadLine(s, line).year /\ ~s.over /\ line.is # "blank"
    BY <1>1, <1>4, <1>5
  <2> QED BY <1>5, <2>1 DEF ValidateLine
<1>7. ParseLine(p, line) = BeginDay(p, line)
  BY <1>1, <1>4 DEF ParseLine
<1>8. ParseLine(p, line) = [p EXCEPT !.days = HandOver(p), !.log = NewLog(d)]
  BY <1>1, <1>3, <1>4, <1>7 DEF BeginDay, NewLog
<1>9. HandOver(p) = IF log = NoLog THEN days ELSE Append(days, log)
  BY <1>4 DEF HandOver
<1>10. NewLog(d) # NoLog
  <2>1. "events" \in DOMAIN NewLog(d) /\ "events" \notin DOMAIN NoLog
    BY DEF NewLog, NoLog
  <2> QED BY <2>1
<1> DEFINE over == IF log = NoLog THEN days ELSE Append(days, log)
           new == NewLog(d)
<1> HIDE DEF over, new
<1>11. ReaderOf(Append(text, line))
         = [year |-> TRUE, month |-> Month, dated |-> TRUE,
            inDay |-> TRUE, event |-> FALSE, over |-> FALSE, errors |-> {}]
  BY <1>2, <1>4, <1>6
<1>12. Parsed(Append(text, line))
         = [year |-> TRUE, month |-> Month, log |-> new, days |-> over, thrown |-> FALSE]
  BY <1>2, <1>4, <1>8, <1>9 DEF over, new
<1>13. new # NoLog
  BY <1>10 DEF new
<1>14. Stands(Append(text, line), over, new, FALSE)
  BY <1>2, <1>11, <1>12, <1>13 DEF Stands
<1> QED BY <1>14 DEF line, over, new

LEMMA EventStands ==
  ASSUME NEW text, NEW days, NEW log, NEW event, Stands(text, days, log, event),
         log # NoLog, NEW time \in Times, NEW name \in {"known", "wake"}
  PROVE  Stands(Append(text, EventLine(time, name)), days,
                Eventful(log, EventLine(time, name)), TRUE)
<1> DEFINE line == EventLine(time, name)
           s == ReaderOf(text)
           p == Parsed(text)
<1>1. line \in Line /\ line.is = "event" /\ line.name # "unknown"
  <2>3. name \in EventNames /\ name # "unknown"
    BY DEF EventNames
  <2> QED BY <2>3 DEF EventLine, Line
<1>2. /\ Append(text, line) \in Texts
      /\ ReaderOf(Append(text, line)) = ValidateLine(s, line)
      /\ Parsed(Append(text, line)) = ParseLine(p, line)
  <2> HIDE DEF line
  <2> QED BY <1>1, OneMoreLine DEF Stands
<1>3. /\ s = [year |-> TRUE, month |-> Month, dated |-> TRUE,
              inDay |-> TRUE, event |-> event, over |-> FALSE, errors |-> {}]
      /\ p = [year |-> TRUE, month |-> Month, log |-> log, days |-> days, thrown |-> FALSE]
  BY DEF Stands
<1>4. log \in Log
  BY StandingTypes
<1> HIDE DEF line, s, p
<1>5. ReadLine(s, line) = [s EXCEPT !.event = TRUE]
  <2>1. ReadLine(s, line) = ReadEvent(s, line)
    BY <1>1 DEF ReadLine
  <2> QED BY <1>1, <1>3, <2>1 DEF ReadEvent, ReportedIf
<1>6. ValidateLine(s, line) = [s EXCEPT !.event = TRUE]
  <2>1. ReadLine(s, line).year /\ ~s.over /\ line.is # "blank"
    BY <1>1, <1>3, <1>5
  <2> QED BY <1>5, <2>1 DEF ValidateLine
<1>7. ParseLine(p, line) = ParseContent(p, line)
  BY <1>1, <1>3 DEF ParseLine
<1> DEFINE new == [WakeSet(log, line) EXCEPT
                     !.events = Append(@, [time |-> line.time, name |-> line.name])]
<1>8. ParseLine(p, line) = [p EXCEPT !.log = new]
  BY <1>1, <1>3, <1>7 DEF ParseContent
<1>9. new = Eventful(log, line) /\ "events" \in DOMAIN new
  <2>1. WakeSet(log, line).events = log.events /\ "events" \in DOMAIN WakeSet(log, line)
    BY <1>4 DEF WakeSet, Log
  <2> QED BY <2>1 DEF Eventful
<1>10. new # NoLog
  BY <1>9 DEF NoLog
<1> HIDE DEF new
<1>11. ReaderOf(Append(text, line))
         = [year |-> TRUE, month |-> Month, dated |-> TRUE,
            inDay |-> TRUE, event |-> TRUE, over |-> FALSE, errors |-> {}]
  BY <1>2, <1>3, <1>6
<1>12. Parsed(Append(text, line))
         = [year |-> TRUE, month |-> Month, log |-> new, days |-> days, thrown |-> FALSE]
  BY <1>2, <1>3, <1>8
<1>14. Stands(Append(text, line), days, new, TRUE)
  BY <1>2, <1>10, <1>11, <1>12 DEF Stands
<1> QED BY <1>9, <1>14 DEF line

\* The activities that end at these times.
Happenings(times) ==
  [k \in 1 .. Len(times) |-> [time |-> Clock(times[k]), name |-> "known"]]

\* The day that goes on with activities that end at these times.
Continued(log, times) ==
  [date |-> log.date, month |-> log.month, wake |-> log.wake,
   events |-> log.events \o Happenings(times)]

LEMMA KnownName == "known" \in EventNames /\ "wake" \in EventNames
  BY DEF EventNames

LEMMA HappeningsAre ==
  ASSUME NEW times \in Seq(Nat)
  PROVE  /\ Happenings(times) \in Seq(Happening)
         /\ Len(Happenings(times)) = Len(times)
         /\ \A k \in 1 .. Len(times) :
              Happenings(times)[k] = [time |-> Clock(times[k]), name |-> "known"]
<1>1. \A k \in 1 .. Len(times) : [time |-> Clock(times[k]), name |-> "known"] \in Happening
  <2> TAKE k \in 1 .. Len(times)
  <2>1. times[k] \in Nat
    OBVIOUS
  <2>2. Clock(times[k]) \in Times
    BY <2>1, ClockTimes
  <2> QED BY <2>2, KnownName DEF Happening
<1> DEFINE n == Len(times)
<1>2. n \in Nat
  OBVIOUS
<1> HIDE DEF n
<1>3. Happenings(times) \in [1 .. n -> Happening]
  BY <1>1 DEF Happenings, n
<1> QED BY <1>2, <1>3 DEF n, Happenings

LEMMA ActivitiesAre ==
  ASSUME NEW times \in Seq(Nat)
  PROVE  /\ Activities(times) \in Texts
         /\ Len(Activities(times)) = Len(times)
         /\ \A k \in 1 .. Len(times) :
              Activities(times)[k] = EventLine(Clock(times[k]), "known")
<1>1. \A k \in 1 .. Len(times) : EventLine(Clock(times[k]), "known") \in Line
  <2> TAKE k \in 1 .. Len(times)
  <2>1. times[k] \in Nat
    OBVIOUS
  <2>2. Clock(times[k]) \in Times
    BY <2>1, ClockTimes
  <2> QED BY <2>2, KnownName DEF EventLine, Line
<1> DEFINE n == Len(times)
<1>2. n \in Nat /\ DOMAIN times = 1 .. n
  OBVIOUS
<1> HIDE DEF n
<1>3. Activities(times) \in [1 .. n -> Line]
  BY <1>1, <1>2 DEF Activities, n
<1> QED BY <1>2, <1>3 DEF n, Activities, Texts

LEMMA ActivitiesStand ==
  ASSUME NEW text, NEW days, NEW log, NEW event, Stands(text, days, log, event),
         log # NoLog, NEW times \in Seq(Nat), times # <<>>
  PROVE  Stands(text \o Activities(times), days, Continued(log, times), TRUE)
<1> DEFINE n == Len(times)
           P(k) == [i \in 1 .. k |-> times[i]]
           S == {k \in 0 .. n : Stands(text \o Activities(P(k)), days,
                                       Continued(log, P(k)), event \/ k > 0)}
<1>0. n \in Nat /\ n > 0 /\ times \in [1 .. n -> Nat]
  OBVIOUS
<1>1. log \in Log /\ event \in BOOLEAN /\ text \in Texts
  BY StandingTypes DEF Stands
<1>2. log.events \in Seq(Happening)
  BY <1>1 DEF Log, Happening
<1> HIDE DEF n
<1>3. ASSUME NEW k \in 0 .. n
      PROVE  /\ P(k) \in Seq(Nat) /\ Len(P(k)) = k
             /\ \A i \in 1 .. k : P(k)[i] = times[i]
  <2>1. k \in Nat /\ \A i \in 1 .. k : times[i] \in Nat
    BY <1>0
  <2> QED BY <2>1
<1> HIDE DEF P
<1>4. 0 \in S
  <2>1. 0 \in 0 .. n
    BY <1>0
  <2>2. P(0) = <<>>
    BY <1>3, <2>1
  <2>3. Activities(<<>>) = <<>> /\ Happenings(<<>>) = <<>>
    BY DEF Activities, Happenings
  <2>4. text \o <<>> = text
    BY <1>1, ConcatEmptySeq DEF Texts
  <2>5. Continued(log, <<>>) = log
    <3>1. log.events \o <<>> = log.events
      BY <1>2, ConcatEmptySeq
    <3> QED BY <1>1, <2>3, <3>1 DEF Continued, Log
  <2>6. (event \/ 0 > 0) = event
    BY <1>1
  <2> QED BY <2>1, <2>2, <2>3, <2>4, <2>5, <2>6
<1>5. ASSUME NEW k \in 0 .. (n - 1), k \in S PROVE k + 1 \in S
  <2>1. k \in 0 .. n /\ k + 1 \in 0 .. n /\ k + 1 \in 1 .. n /\ k \in Nat
    BY <1>0
  <2> DEFINE time == times[k + 1]
             line == EventLine(Clock(time), "known")
             new == Continued(log, P(k))
  <2>2. time \in Nat
    BY <1>0, <2>1
  <2>3. Clock(time) \in Times
    BY <2>2, ClockTimes
  <2>4. Stands(text \o Activities(P(k)), days, new, event \/ k > 0)
    BY <1>5
  <2>5. new # NoLog
    <3>1. "events" \in DOMAIN new /\ "events" \notin DOMAIN NoLog
      BY DEF Continued, NoLog
    <3> QED BY <3>1
  <2>6. Stands(Append(text \o Activities(P(k)), line), days, Eventful(new, line), TRUE)
    <3> HIDE DEF new, time
    <3> QED BY <2>3, <2>4, <2>5, EventStands
  <2>7. /\ P(k) \in Seq(Nat) /\ Len(P(k)) = k /\ \A i \in 1 .. k : P(k)[i] = times[i]
        /\ P(k + 1) \in Seq(Nat) /\ Len(P(k + 1)) = k + 1
        /\ \A i \in 1 .. k + 1 : P(k + 1)[i] = times[i]
    BY <1>3, <2>1
  <2>8. line \in Line
    <3> HIDE DEF time
    <3> QED BY <2>3, KnownName DEF EventLine, Line
  <2>9. Activities(P(k + 1)) = Append(Activities(P(k)), line)
    <3> DEFINE a == Activities(P(k))
               b == Activities(P(k + 1))
    <3>1. a \in Seq(Line) /\ Len(a) = k /\ \A i \in 1 .. k : a[i] = EventLine(Clock(P(k)[i]), "known")
      BY <2>7, ActivitiesAre DEF Texts
    <3>2. /\ b \in Seq(Line) /\ Len(b) = k + 1
          /\ \A i \in 1 .. k + 1 : b[i] = EventLine(Clock(P(k + 1)[i]), "known")
      BY <2>7, ActivitiesAre DEF Texts
    <3> HIDE DEF a, b
    <3>3. \A i \in 1 .. k : b[i] = a[i]
      <4> TAKE i \in 1 .. k
      <4>1. i \in 1 .. k + 1
        BY <2>1
      <4>2. P(k)[i] = P(k + 1)[i]
        BY <2>7, <4>1
      <4> QED BY <3>1, <3>2, <4>1, <4>2
    <3>4. b[k + 1] = line
      BY <2>1, <2>7, <3>2
    <3> HIDE DEF line, time
    <3>5. Append(a, line) = b
      BY <2>8, <3>1, <3>2, <3>3, <3>4, AppendIs
    <3> QED BY <3>5 DEF a, b
  <2>10. text \o Activities(P(k + 1)) = Append(text \o Activities(P(k)), line)
    <3>1. Activities(P(k)) \in Seq(Line) /\ text \in Seq(Line)
      BY <1>1, <2>7, ActivitiesAre DEF Texts
    <3> DEFINE a == Activities(P(k))
    <3> HIDE DEF line, time, a
    <3>2. a \in Seq(Line)
      BY <3>1 DEF a
    <3>3. text \o Append(a, line) = Append(text \o a, line)
      BY <2>8, <3>1, <3>2, ConcatAppend, SMTT(20)
    <3> QED BY <2>9, <3>3 DEF a
  <2> DEFINE h == [time |-> Clock(time), name |-> "known"]
  <2>11. h \in Happening
    <3> HIDE DEF time
    <3> QED BY <2>3, KnownName DEF Happening
  <2>12. Happenings(P(k + 1)) = Append(Happenings(P(k)), h)
    <3> DEFINE a == Happenings(P(k))
               b == Happenings(P(k + 1))
    <3>1. /\ a \in Seq(Happening) /\ Len(a) = k
          /\ \A i \in 1 .. k : a[i] = [time |-> Clock(P(k)[i]), name |-> "known"]
      BY <2>7, HappeningsAre
    <3>2. /\ b \in Seq(Happening) /\ Len(b) = k + 1
          /\ \A i \in 1 .. k + 1 : b[i] = [time |-> Clock(P(k + 1)[i]), name |-> "known"]
      BY <2>7, HappeningsAre
    <3> HIDE DEF a, b
    <3>3. \A i \in 1 .. k : b[i] = a[i]
      <4> TAKE i \in 1 .. k
      <4>1. i \in 1 .. k + 1
        BY <2>1
      <4>2. P(k)[i] = P(k + 1)[i]
        BY <2>7, <4>1
      <4> QED BY <3>1, <3>2, <4>1, <4>2
    <3>4. b[k + 1] = h
      BY <2>1, <2>7, <3>2
    <3> HIDE DEF h
    <3>5. Append(a, h) = b
      BY <2>11, <3>1, <3>2, <3>3, <3>4, AppendIs
    <3> QED BY <3>5 DEF a, b
  <2>13. Eventful(new, line) = Continued(log, P(k + 1))
    <3>1. line.name = "known" /\ line.time = Clock(time)
      BY DEF EventLine
    <3>2. WakeSet(new, line) = new
      BY <3>1 DEF WakeSet
    <3>3. Happenings(P(k)) \in Seq(Happening)
      BY <2>7, HappeningsAre
    <3>4. Append(new.events, h) = log.events \o Happenings(P(k + 1))
      <4>1. new.events = log.events \o Happenings(P(k))
        BY DEF Continued
      <4> DEFINE a == Happenings(P(k))
                 e == log.events
      <4>2. a \in Seq(Happening) /\ e \in Seq(Happening)
        BY <1>2, <3>3
      <4> HIDE DEF h, new, a, e
      <4>3. e \o Append(a, h) = Append(e \o a, h)
        BY <2>11, <4>2, ConcatAppend
      <4> QED BY <2>12, <4>1, <4>3 DEF a, e
    <3>5. Eventful(new, line) = [new EXCEPT !.events = Append(new.events, h)]
      BY <3>1, <3>2 DEF Eventful
    <3> HIDE DEF h, line
    <3> QED BY <3>4, <3>5 DEF Continued
  <2>14. (event \/ k + 1 > 0) = TRUE
    BY <2>1
  <2> HIDE DEF line, new, h
  <2> QED BY <2>1, <2>6, <2>10, <2>13, <2>14
<1> HIDE DEF S
<1>6. \A k \in 0 .. n : k \in S
  BY <1>0, <1>4, <1>5, EveryLineUpTo
<1>7. n \in S
  BY <1>0, <1>6
<1>8. P(n) = times
  BY <1>0 DEF P
<1>9. (event \/ n > 0) = TRUE
  BY <1>0
<1> QED BY <1>7, <1>8, <1>9 DEF S

-----------------------------------------------------------------------------
(* A day that is added to a month.                                         *)

\* An activity from one clock time to the other is neither empty nor too long.
Near(from, until) == Wrapped(from, until) \in 1 .. MaxActivity

\* The clock time the last event of a day ends at.
LastTime(log) == log.events[Len(log.events)].time

\* A day that has an event, and only the first of them may be the waking.
Woken(log) ==
  /\ log \in Log /\ log.events # <<>>
  /\ log.wake = NoTime => log.events[1].name # "wake"
  /\ log.wake # NoTime => log.events[1].name = "wake" /\ log.events[1].time = log.wake
  /\ \A k \in 2 .. Len(log.events) : log.events[k].name # "wake"

\* And its events follow one another, and the end of the day before, closely enough.
Sound(log, before) ==
  /\ Woken(log)
  /\ Generous => \A k \in 1 .. Len(log.events) :
       Near(IF k = 1 THEN before ELSE log.events[k - 1].time, log.events[k].time)

\* The day was added to the days before it, and ends at this time.
Added(text, days, log, d, before, time) ==
  /\ Stands(text, days, log, TRUE)
  /\ log.date = d /\ Sound(log, before) /\ LastTime(log) = time

LEMMA PacedIsNear ==
  ASSUME Generous, NEW last \in Nat, NEW times \in Seq(Nat), Paced(last, times), NEW events,
         \A k \in 1 .. Len(times) : events[k].time = Clock(times[k])
  PROVE  \A k \in 1 .. Len(times) :
           Near(IF k = 1 THEN Clock(last) ELSE events[k - 1].time, events[k].time)
<1> SUFFICES ASSUME NEW k \in 1 .. Len(times)
             PROVE  Near(IF k = 1 THEN Clock(last) ELSE events[k - 1].time, events[k].time)
  OBVIOUS
<1> DEFINE a == IF k = 1 THEN last ELSE times[k - 1]
           b == times[k]
<1>1. a \in Nat /\ b \in Nat
  OBVIOUS
<1>2. b - a \in 1 .. MaxActivity
  BY DEF Paced
<1>3. (IF k = 1 THEN Clock(last) ELSE events[k - 1].time) = Clock(a) /\ events[k].time = Clock(b)
  OBVIOUS
<1> HIDE DEF a, b
<1>4. b - a \in 0 .. DayLength - 1
  BY <1>1, <1>2, GenerousLimits, DayLengthAssumption
<1>5. Wrapped(Clock(a), Clock(b)) = b - a
  BY <1>1, <1>4, ClockKeepsDistance
<1> QED BY <1>2, <1>3, <1>5 DEF Near

LEMMA SleeplessDay ==
  ASSUME NEW text, NEW days, NEW d \in Nat, Stands(text, days, NewLog(d), FALSE),
         NEW last \in Nat, NEW times \in Seq(Nat), times # <<>>,
         Generous => Paced(last, times)
  PROVE  \E log : Added(text \o Activities(times), days, log, d, Clock(last),
                        Clock(times[Len(times)]))
<1> DEFINE log == Continued(NewLog(d), times)
<1>1. NewLog(d) # NoLog
  <2>1. "events" \in DOMAIN NewLog(d) /\ "events" \notin DOMAIN NoLog
    BY DEF NewLog, NoLog
  <2> QED BY <2>1
<1>2. Stands(text \o Activities(times), days, log, TRUE)
  BY <1>1, ActivitiesStand
<1>3. /\ Happenings(times) \in Seq(Happening) /\ Len(Happenings(times)) = Len(times)
      /\ \A k \in 1 .. Len(times) :
           Happenings(times)[k] = [time |-> Clock(times[k]), name |-> "known"]
  BY HappeningsAre
<1>4. <<>> \o Happenings(times) = Happenings(times)
  BY <1>3, ConcatEmptySeq
<1>5. log.date = d /\ log.wake = NoTime /\ log.events = Happenings(times)
  BY <1>4 DEF Continued, NewLog
<1>6. log \in Log
  <2>1. log # NoLog
    <3>1. "events" \in DOMAIN log /\ "events" \notin DOMAIN NoLog
      BY DEF Continued, NoLog
    <3> QED BY <3>1
  <2> DEFINE more == text \o Activities(times)
  <2> HIDE DEF log, more
  <2>2. Stands(more, days, log, TRUE)
    BY <1>2 DEF more
  <2>3. log \in Log \cup {NoLog}
    BY <2>2, StandingTypes, Zenon
  <2> QED BY <2>1, <2>3
<1>7. Len(times) \in Nat /\ Len(times) > 0
  OBVIOUS
<1> HIDE DEF log
<1>8. /\ log.events # <<>> /\ Len(log.events) = Len(times)
      /\ \A k \in 1 .. Len(times) :
           log.events[k].time = Clock(times[k]) /\ log.events[k].name # "wake"
  <2>1. Len(log.events) = Len(times)
    BY <1>3, <1>5
  <2>2. log.events # <<>>
    BY <1>7, <2>1
  <2>3. \A k \in 1 .. Len(times) :
          log.events[k] = [time |-> Clock(times[k]), name |-> "known"]
    BY <1>3, <1>5
  <2>4. \A k \in 1 .. Len(times) :
          log.events[k].time = Clock(times[k]) /\ log.events[k].name # "wake"
    <3> TAKE k \in 1 .. Len(times)
    <3>1. log.events[k] = [time |-> Clock(times[k]), name |-> "known"]
      BY <2>3
    <3> QED BY <3>1
  <2> QED BY <2>1, <2>2, <2>4
<1>9. Generous => \A k \in 1 .. Len(times) :
        Near(IF k = 1 THEN Clock(last) ELSE log.events[k - 1].time, log.events[k].time)
  <2> DEFINE events == log.events
  <2>1. \A k \in 1 .. Len(times) : events[k].time = Clock(times[k])
    BY <1>8
  <2> HIDE DEF events
  <2>2. Generous => \A k \in 1 .. Len(times) :
          Near(IF k = 1 THEN Clock(last) ELSE events[k - 1].time, events[k].time)
    BY <2>1, PacedIsNear
  <2> QED BY <2>2 DEF events
<1>10. log.events[1].name # "wake" /\ \A k \in 2 .. Len(log.events) : log.events[k].name # "wake"
  BY <1>7, <1>8
<1>11. Sound(log, Clock(last))
  BY <1>5, <1>6, <1>8, <1>9, <1>10 DEF Sound, Woken
<1>12. LastTime(log) = Clock(times[Len(times)])
  BY <1>7, <1>8 DEF LastTime
<1> QED BY <1>2, <1>5, <1>11, <1>12 DEF Added

LEMMA SleptDay ==
  ASSUME NEW text, NEW days, NEW d \in Nat, Stands(text, days, NewLog(d), FALSE),
         NEW last \in Nat, NEW wake \in Nat, NEW times \in Seq(Nat), times # <<>>,
         Generous => wake - last \in 1 .. MaxActivity /\ Paced(wake, times)
  PROVE  \E log : /\ Added(text \o (<<EventLine(Clock(wake), "wake")>> \o Activities(times)),
                           days, log, d, Clock(last), Clock(times[Len(times)]))
                  /\ log.wake # NoTime
<1> DEFINE line == EventLine(Clock(wake), "wake")
           first == [time |-> Clock(wake), name |-> "wake"]
           woken == Eventful(NewLog(d), line)
           log == Continued(woken, times)
<1>1. NewLog(d) # NoLog
  <2>1. "events" \in DOMAIN NewLog(d) /\ "events" \notin DOMAIN NoLog
    BY DEF NewLog, NoLog
  <2> QED BY <2>1
<1>2. Clock(wake) \in Times /\ Clock(wake) # NoTime
  BY ClockTimes, NoTimeAssumption
<1>3. Stands(Append(text, line), days, woken, TRUE)
  BY <1>1, <1>2, EventStands
<1>4. line.time = Clock(wake) /\ line.name = "wake" /\ line \in Line
  BY <1>2, KnownName DEF EventLine, Line
<1>5. Append(<<>>, first) = <<first>>
  OBVIOUS
<1>6. woken = [date |-> d, month |-> Month, wake |-> Clock(wake), events |-> <<first>>]
  <2>1. WakeSet(NewLog(d), line) = [NewLog(d) EXCEPT !.wake = Clock(wake)]
    BY <1>4 DEF WakeSet, NewLog
  <2>2. woken = [WakeSet(NewLog(d), line) EXCEPT !.events = Append(<<>>, first)]
    BY <1>4 DEF Eventful, NewLog
  <2> HIDE DEF woken, first
  <2> QED BY <1>5, <2>1, <2>2 DEF NewLog
<1>7. woken # NoLog
  <2>1. "events" \in DOMAIN woken /\ "events" \notin DOMAIN NoLog
    BY <1>6 DEF NoLog
  <2> QED BY <2>1
<1> HIDE DEF woken
<1>8. Stands(Append(text, line) \o Activities(times), days, log, TRUE)
  <2> HIDE DEF line
  <2> QED BY <1>3, <1>7, ActivitiesStand
<1>9. Append(text, line) \o Activities(times) = text \o (<<line>> \o Activities(times))
  <2>1. text \in Seq(Line) /\ Activities(times) \in Seq(Line)
    BY ActivitiesAre DEF Stands, Texts
  <2> HIDE DEF line
  <2>2. <<line>> \in Seq(Line)
    BY <1>4
  <2>3. Append(text, line) = text \o <<line>>
    BY <1>4, <2>1, AppendIsConcat
  <2> QED BY <2>1, <2>2, <2>3, ConcatAssociative
<1>10. /\ Happenings(times) \in Seq(Happening) /\ Len(Happenings(times)) = Len(times)
       /\ \A k \in 1 .. Len(times) :
            Happenings(times)[k] = [time |-> Clock(times[k]), name |-> "known"]
  BY HappeningsAre
<1>11. /\ log.date = d /\ log.wake = Clock(wake)
       /\ log.events = <<first>> \o Happenings(times)
  BY <1>6 DEF Continued
<1>12. log \in Log
  <2>1. log # NoLog
    <3>1. "events" \in DOMAIN log /\ "events" \notin DOMAIN NoLog
      BY DEF Continued, NoLog
    <3> QED BY <3>1
  <2> DEFINE more == Append(text, line) \o Activities(times)
  <2> HIDE DEF log, more
  <2>2. Stands(more, days, log, TRUE)
    BY <1>8 DEF more
  <2>3. log \in Log \cup {NoLog}
    BY <2>2, StandingTypes, Zenon
  <2> QED BY <2>1, <2>3
<1>13. Len(times) \in Nat /\ Len(times) > 0
  OBVIOUS
<1> DEFINE n == Len(times)
           events == log.events
<1>14. /\ Len(events) = n + 1 /\ events[1] = first
       /\ \A k \in 2 .. n + 1 :
            events[k] = [time |-> Clock(times[k - 1]), name |-> "known"]
  <2>1. <<first>> \in Seq(Happening) /\ Len(<<first>>) = 1 /\ <<first>>[1] = first
    BY <1>2, KnownName DEF Happening
  <2> DEFINE h == Happenings(times)
             f == <<first>>
  <2>2. /\ h \in Seq(Happening) /\ Len(h) = n
        /\ \A k \in 1 .. n : h[k] = [time |-> Clock(times[k]), name |-> "known"]
    BY <1>10
  <2>3. f \in Seq(Happening) /\ Len(f) = 1 /\ f[1] = first /\ events = f \o h
    BY <1>11, <2>1
  <2> HIDE DEF h, f, n, events, first, log
  <2>4. /\ Len(f \o h) = Len(f) + Len(h)
        /\ \A k \in 1 .. Len(f) + Len(h) :
             (f \o h)[k] = IF k <= Len(f) THEN f[k] ELSE h[k - Len(f)]
    BY <2>2, <2>3, ConcatProperties
  <2>5. n \in Nat
    BY <1>13 DEF n
  <2>6. Len(events) = n + 1 /\ events[1] = first
    BY <2>2, <2>3, <2>4, <2>5
  <2>7. ASSUME NEW k \in 2 .. n + 1
        PROVE  events[k] = [time |-> Clock(times[k - 1]), name |-> "known"]
    <3>1. k \in 1 .. 1 + n /\ ~(k <= 1) /\ k - 1 \in 1 .. n
      BY <2>5
    <3>2. events[k] = h[k - 1]
      BY <2>2, <2>3, <2>4, <3>1
    <3> QED BY <2>2, <3>1, <3>2
  <2> QED BY <2>6, <2>7
<1> DEFINE all == [k \in 1 .. n + 1 |-> IF k = 1 THEN wake ELSE times[k - 1]]
<1>15. all \in Seq(Nat) /\ Len(all) = n + 1 /\ DOMAIN all = 1 .. n + 1
  <2>1. \A k \in 1 .. n + 1 : (IF k = 1 THEN wake ELSE times[k - 1]) \in Nat
    <3> TAKE k \in 1 .. n + 1
    <3>1. k # 1 => k - 1 \in 1 .. n
      BY <1>13
    <3> QED BY <3>1
  <2> HIDE DEF n
  <2>2. all \in [1 .. n + 1 -> Nat]
    BY <2>1
  <2>3. n + 1 \in Nat
    BY <1>13 DEF n
  <2> DEFINE m == n + 1
  <2> HIDE DEF m, all
  <2>4. all \in [1 .. m -> Nat] /\ m \in Nat
    BY <2>2, <2>3 DEF m
  <2>5. all \in Seq(Nat) /\ Len(all) = m /\ DOMAIN all = 1 .. m
    BY <2>4
  <2> QED BY <2>5 DEF m
<1>16. Generous => Paced(last, all)
  <2> SUFFICES ASSUME Generous, NEW k \in 1 .. n + 1
               PROVE  all[k] - (IF k = 1 THEN last ELSE all[k - 1]) \in 1 .. MaxActivity
    BY <1>15 DEF Paced
  <2>1. CASE k = 1
    BY <1>13, <2>1
  <2>2. CASE k # 1
    <3>1. k - 1 \in DOMAIN times /\ k - 1 \in 1 .. n + 1 /\ (k - 1 = 1 <=> k = 2)
      BY <1>13, <2>2
    <3>2. times[k - 1] - (IF k - 1 = 1 THEN wake ELSE times[(k - 1) - 1]) \in 1 .. MaxActivity
      BY <3>1 DEF Paced
    <3>3. all[k] = times[k - 1]
      BY <2>2
    <3>4. all[k - 1] = IF k - 1 = 1 THEN wake ELSE times[(k - 1) - 1]
      BY <3>1
    <3> HIDE DEF all
    <3> QED BY <2>2, <3>2, <3>3, <3>4
  <2> QED BY <2>1, <2>2
<1>17. \A k \in 1 .. Len(all) : events[k].time = Clock(all[k])
  <2> SUFFICES ASSUME NEW k \in 1 .. n + 1 PROVE events[k].time = Clock(all[k])
    BY <1>15
  <2>1. CASE k = 1
    <3>1. all[k] = wake
      BY <1>13, <2>1
    <3> HIDE DEF all, events
    <3> QED BY <1>14, <2>1, <3>1
  <2>2. CASE k # 1
    <3>1. k \in 2 .. n + 1
      BY <1>13, <2>2
    <3>2. all[k] = times[k - 1]
      BY <2>2
    <3>3. events[k] = [time |-> Clock(times[k - 1]), name |-> "known"]
      BY <1>14, <3>1
    <3> HIDE DEF all, events, n
    <3> QED BY <3>2, <3>3
  <2> QED BY <2>1, <2>2
<1> HIDE DEF all, events, n, log
<1>18. Generous => \A k \in 1 .. n + 1 :
         Near(IF k = 1 THEN Clock(last) ELSE events[k - 1].time, events[k].time)
  BY <1>15, <1>16, <1>17, PacedIsNear
<1>19. n \in Nat /\ n > 0 /\ n + 1 \in 2 .. n + 1 /\ (n + 1) - 1 = n
  BY <1>13 DEF n
<1>20. /\ events # <<>> /\ events[1].name = "wake" /\ events[1].time = Clock(wake)
       /\ \A k \in 2 .. Len(events) : events[k].name # "wake"
       /\ events[Len(events)].time = Clock(times[n])
  <2>1. events # <<>>
    BY <1>14, <1>19
  <2>2. events[1].name = "wake" /\ events[1].time = Clock(wake)
    BY <1>14
  <2>3. \A k \in 2 .. Len(events) : events[k].name # "wake"
    <3> TAKE k \in 2 .. Len(events)
    <3>1. events[k] = [time |-> Clock(times[k - 1]), name |-> "known"]
      BY <1>14
    <3> QED BY <3>1
  <2>4. events[n + 1].time = Clock(times[n])
    <3>1. events[n + 1] = [time |-> Clock(times[(n + 1) - 1]), name |-> "known"]
      BY <1>14, <1>19
    <3> QED BY <1>19, <3>1
  <2> QED BY <1>14, <2>1, <2>2, <2>3, <2>4
<1>21. Sound(log, Clock(last))
  BY <1>2, <1>11, <1>12, <1>14, <1>18, <1>20 DEF Sound, Woken, events
<1>22. LastTime(log) = Clock(times[Len(times)])
  BY <1>20 DEF LastTime, events, n
<1>23. Stands(text \o (<<line>> \o Activities(times)), days, log, TRUE)
  BY <1>8, <1>9
<1> QED BY <1>2, <1>11, <1>21, <1>22, <1>23 DEF Added

-----------------------------------------------------------------------------
(* How long a generated day can be.                                        *)

\* Days with the dates 1, 2, ..., each of which takes up where the one before ended.
Chained(logs) ==
  /\ \A i \in 1 .. Len(logs) :
       /\ logs[i].date = i
       /\ Sound(logs[i], IF i = 1 THEN FirstEnd ELSE LastTime(logs[i - 1]))
  /\ Len(logs) > 0 => logs[1].wake # NoTime

Fields == {"text", "date", "last", "carry", "set", "block", "into", "length"}

SoundMonth(g) ==
  /\ Fields \subseteq DOMAIN g
  /\ g.date \in Nat /\ g.last \in Times /\ g.carry \in -MaxCarry .. MaxCarry
  /\ g.set \in Settings
  /\ \E days, log :
       /\ Stands(g.text, days, log, g.date > 0)
       /\ IF g.date = 0 THEN log = NoLog /\ days = <<>> /\ g.last = FirstEnd
          ELSE /\ log # NoLog /\ Len(days) + 1 = g.date
               /\ Chained(Append(days, log)) /\ LastTime(log) = g.last

LEMMA ClockOfTime ==
  ASSUME NEW t \in Times
  PROVE  Clock(t) = t
  BY DayLengthAssumption DEF Clock, Times

LEMMA NewMonthIsSound ==
  ASSUME NEW g \in NewMonths
  PROVE  SoundMonth(g)
<1>1. PICK s \in Settings, n \in NormalLengths :
        g = [text |-> Headers, date |-> 0, last |-> FirstEnd, carry |-> 0, set |-> s,
             block |-> FALSE, into |-> 1, length |-> n]
  BY DEF NewMonths
<1>2. /\ Fields \subseteq DOMAIN g /\ g.text = Headers /\ g.date = 0
      /\ g.last = FirstEnd /\ g.carry = 0 /\ g.set = s
  BY <1>1 DEF Fields
<1>3. 0 \in -MaxCarry .. MaxCarry
  BY JitterAssumption
<1>4. (0 > 0) = FALSE
  OBVIOUS
<1>5. Stands(g.text, <<>>, NoLog, g.date > 0)
  BY <1>2, <1>4, HeadersStand
<1> QED BY <1>2, <1>3, <1>5, FirstEndAssumption DEF SoundMonth

\* How long a day can be.
LEMMA DaysEndInTime ==
  ASSUME NEW g, SoundMonth(g), NEW end \in DayEnds(g)
  PROVE  /\ end \in Nat /\ g.set.items \in Nat /\ g.set.items > 1
         /\ g.last \in Nat /\ g.last + g.set.items <= end
         /\ Generous => /\ g.set.items > 2
                        /\ \/ end - g.last <= 2 * MaxActivity + 1
                           \/ end - g.last = g.set.items
<1>1. /\ g.set.items \in Nat /\ g.set.items > 1 /\ g.last \in Nat /\ g.carry \in Int
      /\ g.carry >= -MaxCarry /\ MaxCarry \in Nat /\ MaxActivity \in Nat
      /\ DayLength \in Nat /\ (Generous => g.set.items > 2)
  BY SettingsAssumption, JitterAssumption, LimitAssumption, DayLengthAssumption
  DEF SoundMonth, Generous, kMinItemsPerDay, Times
<1>2. PICK jitter \in Jitters :
        end = g.last + Greatest({DayLength + jitter - g.carry, g.set.items})
  BY DEF DayEnds
<1>3. jitter \in Int /\ (Generous => DayLength + jitter + MaxCarry <= 2 * MaxActivity + 1)
  BY JitterAssumption DEF Generous
<1> DEFINE a == DayLength + jitter - g.carry
           b == g.set.items
<1>4. a \in Int /\ b \in Int
  BY <1>1, <1>3
<1>5. Generous => a <= 2 * MaxActivity + 1
  BY <1>1, <1>3
<1>6. Greatest({a, b}) = IF a >= b THEN a ELSE b
  <2> HIDE DEF a, b
  <2> QED BY <1>4, GreatestOfTwo
<1> HIDE DEF a
<1> QED BY <1>1, <1>2, <1>4, <1>5, <1>6 DEF a

LEMMA EnoughActivities ==
  ASSUME MaxActivity >= 1, NEW n \in Nat
  PROVE  /\ n <= n * MaxActivity /\ n * MaxActivity \in Nat
         /\ n >= 2 => 2 * MaxActivity <= n * MaxActivity
         /\ n >= 3 => 2 * MaxActivity + 1 <= n * MaxActivity
<1>1. PICK M \in Nat : M = MaxActivity
  BY LimitAssumption
<1>2. n * M \in Nat /\ n <= n * M
  BY <1>1
<1>3. ASSUME n >= 2 PROVE 2 * M <= n * M
  <2>1. PICK j \in Nat : n = j + 2
    BY <1>3
  <2>2. n * M = j * M + 2 * M /\ j * M \in Nat
    BY <2>1
  <2> QED BY <2>2
<1>4. ASSUME n >= 3 PROVE 2 * M + 1 <= n * M
  <2>1. PICK j \in Nat : n = j + 3
    BY <1>4
  <2>2. n * M = j * M + 3 * M /\ j * M \in Nat
    BY <2>1
  <2> QED BY <1>1, <2>2
<1> QED BY <1>1, <1>2, <1>3, <1>4

LEMMA WakingIsInTime ==
  ASSUME NEW start \in Nat, NEW end \in Nat, NEW others \in Nat,
         start + others < end, NEW wake \in WakeChoices(start, end, others)
  PROVE  /\ wake \in Nat /\ wake + others <= end
         /\ MaxActivity >= 1 => wake - start \in 1 .. MaxActivity
<1> DEFINE earliest == start + 1
           m == Least({end - others, start + MaxActivity})
           latest == Greatest({m, earliest})
           next(t) == IF t <= start THEN t + DayLength ELSE t
<1>0. MaxActivity \in Nat /\ DayLength \in Nat
  BY LimitAssumption, DayLengthAssumption
<1>1. m \in Int /\ m <= end - others /\ m <= start + MaxActivity
      /\ (MaxActivity >= 1 => m >= earliest)
  <2>1. m = IF end - others <= start + MaxActivity THEN end - others ELSE start + MaxActivity
    BY <1>0, LeastOfTwo
  <2> QED BY <1>0, <2>1
<1>2. latest = IF m >= earliest THEN m ELSE earliest
  <2> HIDE DEF m
  <2> QED BY <1>1, GreatestOfTwo
<1>3. PICK t \in WakeTimes :
        wake \in IF next(t) > latest THEN earliest .. latest
                 ELSE {Greatest({next(t), earliest})}
  BY DEF WakeChoices
<1>4. next(t) \in Int
  BY <1>0, FirstEndAssumption DEF Times
<1>5. Greatest({next(t), earliest}) = IF next(t) >= earliest THEN next(t) ELSE earliest
  <2> DEFINE n == next(t)
  <2> HIDE DEF n
  <2>1. Greatest({n, earliest}) = IF n >= earliest THEN n ELSE earliest
    BY <1>4, GreatestOfTwo DEF n
  <2> QED BY <2>1 DEF n
<1> HIDE DEF m, latest, next
<1>6. wake \in earliest .. latest
  BY <1>1, <1>2, <1>3, <1>4, <1>5
<1> QED BY <1>0, <1>1, <1>2, <1>6

-----------------------------------------------------------------------------
(* Every day that is generated continues the month.                        *)

LEMMA DatedStands ==
  ASSUME NEW g, SoundMonth(g), NEW days, NEW log, Stands(g.text, days, log, g.date > 0),
         log = NoLog <=> g.date = 0
  PROVE  Stands(Dated(g), IF log = NoLog THEN days ELSE Append(days, log),
                NewLog(g.date + 1), FALSE)
<1> DEFINE line == DateLine(Month, g.date + 1)
           spaced == IF g.date = 0 THEN g.text ELSE Append(g.text, BlankLine)
           over == IF log = NoLog THEN days ELSE Append(days, log)
           dated == Append(spaced, line)
<1>1. g.date \in Nat /\ g.text \in Seq(Line) /\ g.set.remarks \in {<<>>, <<RemarkLine>>}
  BY SettingsAssumption DEF SoundMonth, Stands, Texts
<1>2. BlankLine \in Line /\ RemarkLine \in Line /\ line \in Line
  BY <1>1, MonthAssumption DEF BlankLine, RemarkLine, DateLine, Line
<1>3. Stands(spaced, days, log, g.date > 0)
  BY BlankStands
<1>4. spaced \in Seq(Line)
  BY <1>3 DEF Stands, Texts
<1>5. spaced = g.text \o (IF g.date = 0 THEN <<>> ELSE <<BlankLine>>)
  BY <1>1, <1>2, AppendIsConcat, ConcatEmptySeq
<1>6. Stands(dated, over, NewLog(g.date + 1), FALSE)
  <2> DEFINE d == g.date + 1
             event == g.date > 0
  <2>1. d \in Nat /\ (log = NoLog => d = 1)
    BY <1>1
  <2> HIDE DEF spaced, d, event
  <2>2. Stands(spaced, days, log, event)
    BY <1>3 DEF event
  <2>3. Stands(Append(spaced, DateLine(Month, d)), over, NewLog(d), FALSE)
    BY <2>1, <2>2, DateStands
  <2> QED BY <2>3 DEF d
<1>7. NewLog(g.date + 1) # NoLog
  <2>1. "events" \in DOMAIN NewLog(g.date + 1) /\ "events" \notin DOMAIN NoLog
    BY DEF NewLog, NoLog
  <2> QED BY <2>1
<1>8. dated = spaced \o <<line>>
  <2> HIDE DEF spaced, line
  <2> QED BY <1>2, <1>4, AppendIsConcat
<1>9. Dated(g) = dated \o g.set.remarks
  BY <1>5, <1>8 DEF Dated
<1> DEFINE new == NewLog(g.date + 1)
<1> HIDE DEF dated, over, new
<1>10. dated \in Seq(Line)
  BY <1>6 DEF Stands, Texts
<1>11. CASE g.set.remarks = <<>>
  <2>1. Dated(g) = dated
    BY <1>9, <1>10, <1>11, ConcatEmptySeq
  <2> QED BY <1>6, <2>1 DEF over, new
<1>12. CASE g.set.remarks = <<RemarkLine>>
  <2>1. Dated(g) = Append(dated, RemarkLine)
    BY <1>2, <1>9, <1>10, <1>12, AppendIsConcat
  <2>2. Stands(dated, over, new, FALSE) /\ new # NoLog
    BY <1>6, <1>7 DEF new
  <2>3. Stands(Append(dated, RemarkLine), over, new, FALSE)
    BY <2>2, RemarkStands
  <2> QED BY <2>1, <2>3 DEF over, new
<1> QED BY <1>1, <1>11, <1>12

\* The first day of a month is not one without sleep.
LEMMA FirstDayIsSlept ==
  ASSUME NEW g, g.date = 0, NEW s \in Schedules(g)
  PROVE  s.nosleep = FALSE
<1>1. g.date + 1 = 1
  OBVIOUS
<1> QED BY <1>1 DEF Schedules

LEMMA DayIsAdded ==
  ASSUME NEW g, SoundMonth(g), NEW s \in Schedules(g),
         NEW end \in DayEnds(g), NEW lines \in DayLines(g, s.nosleep, end),
         NEW days, NEW d \in Nat, d = g.date + 1, Stands(Dated(g), days, NewLog(d), FALSE)
  PROVE  \E log : /\ Added(Dated(g) \o lines, days, log, d, g.last, Clock(end))
                  /\ d = 1 => log.wake # NoTime
<1> DEFINE text == Dated(g)
           n == g.set.items
           last == g.last
<1>1. /\ end \in Nat /\ n \in Nat /\ n > 1 /\ last \in Nat /\ last + n <= end
      /\ Generous => n > 2 /\ (end - last <= 2 * MaxActivity + 1 \/ end - last = n)
  BY DaysEndInTime
<1>2. Generous => MaxActivity >= 1 /\ MaxActivity \in Nat
  BY GenerousLimits
<1>3. Clock(last) = last
  BY ClockOfTime DEF SoundMonth
<1>4. g.date \in Nat
  BY DEF SoundMonth
<1> HIDE DEF n, last
<1>5. CASE s.nosleep
  <2>1. PICK times \in EventChoices(last, end, n) : lines = Activities(times)
    BY <1>5 DEF DayLines, n, last
  <2>2. ASSUME Generous PROVE end - last <= n * MaxActivity
    <3>1. n >= 3
      BY <1>1, <2>2
    <3>2. n <= n * MaxActivity /\ n * MaxActivity \in Nat /\ 2 * MaxActivity + 1 <= n * MaxActivity
      BY <1>1, <1>2, <2>2, <3>1, EnoughActivities
    <3> QED BY <1>1, <1>2, <2>2, <3>2
  <2>3. n \in Nat \ {0} /\ last + n <= end
    BY <1>1
  <2>4. times \in Seq(Nat) /\ Len(times) = n /\ times[n] = end
    BY <1>1, <2>1, <2>3, EventsAreTimes
  <2>9. Generous => Paced(last, times)
    BY <1>1, <1>2, <2>1, <2>2, <2>3, EventsArePaced
  <2>5. times # <<>>
    BY <1>1, <2>4
  <2> HIDE DEF text
  <2>6. Stands(text, days, NewLog(d), FALSE)
    BY DEF text
  <2>7. PICK log : Added(text \o Activities(times), days, log, d, Clock(last),
                        Clock(times[Len(times)]))
    BY <1>1, <2>4, <2>5, <2>6, <2>9, SleeplessDay
  <2>8. d # 1
    <3> SUFFICES ASSUME d = 1 PROVE FALSE
      OBVIOUS
    <3>1. g.date = 0
      BY <1>4
    <3>2. s.nosleep = FALSE
      BY <3>1, FirstDayIsSlept
    <3> QED BY <1>5, <3>2
  <2> QED BY <1>3, <2>1, <2>4, <2>7, <2>8 DEF text, last
<1>6. CASE ~s.nosleep
  <2>1. PICK wake \in WakeChoices(last, end, n - 1) :
          \E times \in EventChoices(wake, end, n - 1) :
            lines = <<EventLine(Clock(wake), "wake")>> \o Activities(times)
    BY <1>6 DEF DayLines, n, last
  <2>2. PICK times \in EventChoices(wake, end, n - 1) :
          lines = <<EventLine(Clock(wake), "wake")>> \o Activities(times)
    BY <2>1
  <2> DEFINE m == n - 1
  <2>3. m \in Nat /\ m \in Nat \ {0} /\ (Generous => m >= 2) /\ last + m < end
    BY <1>1
  <2> HIDE DEF m
  <2>4. /\ wake \in Nat /\ wake + m <= end
        /\ Generous => wake - last \in 1 .. MaxActivity
    <3>1. wake \in WakeChoices(last, end, m)
      BY <2>1 DEF m
    <3> QED BY <1>1, <1>2, <2>3, <3>1, WakingIsInTime
  <2>5. ASSUME Generous PROVE end - wake <= m * MaxActivity
    <3>1. m <= m * MaxActivity /\ m * MaxActivity \in Nat /\ 2 * MaxActivity <= m * MaxActivity
      BY <1>2, <2>3, <2>5, EnoughActivities
    <3>2. end - wake <= end - last - 1
      BY <1>1, <1>2, <2>4, <2>5
    <3>3. n - 1 = m
      BY DEF m
    <3> QED BY <1>1, <1>2, <2>3, <2>4, <2>5, <3>1, <3>2, <3>3
  <2>11. times \in EventChoices(wake, end, m)
    BY DEF m
  <2>6. times \in Seq(Nat) /\ Len(times) = m /\ times[m] = end
    BY <1>1, <2>3, <2>4, <2>11, EventsAreTimes
  <2>10. Generous => wake - last \in 1 .. MaxActivity /\ Paced(wake, times)
    BY <1>1, <1>2, <2>3, <2>4, <2>5, <2>11, EventsArePaced
  <2>7. times # <<>>
    BY <2>3, <2>6
  <2> HIDE DEF text
  <2>8. Stands(text, days, NewLog(d), FALSE)
    BY DEF text
  <2>9. PICK log : /\ Added(text \o (<<EventLine(Clock(wake), "wake")>> \o Activities(times)),
                            days, log, d, Clock(last), Clock(times[Len(times)]))
                   /\ log.wake # NoTime
    BY <1>1, <2>4, <2>6, <2>7, <2>8, <2>10, SleptDay
  <2> QED BY <1>3, <2>2, <2>6, <2>9 DEF text, last
<1> QED BY <1>5, <1>6

LEMMA ChainGrows ==
  ASSUME NEW days \in Seq(Log), NEW log \in Log,
         Chained(days), log.date = Len(days) + 1,
         Sound(log, IF days = <<>> THEN FirstEnd ELSE LastTime(days[Len(days)])),
         days = <<>> => log.wake # NoTime
  PROVE  Chained(Append(days, log))
<1> DEFINE n == Len(days)
           all == Append(days, log)
<1>1. n \in Nat /\ (days = <<>> <=> n = 0)
  OBVIOUS
<1>2. /\ all \in Seq(Log) /\ Len(all) = n + 1 /\ all[n + 1] = log
      /\ \A i \in 1 .. n : all[i] = days[i]
  BY AppendProperties
<1> HIDE DEF n, all
<1>3. ASSUME NEW i \in 1 .. n + 1
      PROVE  all[i].date = i /\ Sound(all[i], IF i = 1 THEN FirstEnd ELSE LastTime(all[i - 1]))
  <2>1. CASE i = n + 1
    <3>1. i = 1 <=> days = <<>>
      BY <1>1, <2>1
    <3>2. i # 1 => all[i - 1] = days[n]
      BY <1>1, <1>2, <2>1
    <3> QED BY <1>2, <2>1, <3>1, <3>2 DEF n
  <2>2. CASE i # n + 1
    <3>1. i \in 1 .. n /\ (i # 1 => i - 1 \in 1 .. n)
      BY <1>1, <2>2
    <3>2. all[i] = days[i] /\ (i # 1 => all[i - 1] = days[i - 1])
      BY <1>2, <3>1
    <3>3. /\ days[i].date = i
          /\ Sound(days[i], IF i = 1 THEN FirstEnd ELSE LastTime(days[i - 1]))
      BY <3>1 DEF Chained, n
    <3> QED BY <3>2, <3>3
  <2> QED BY <2>1, <2>2
<1>4. all[1].wake # NoTime
  <2>1. CASE n = 0
    BY <1>1, <1>2, <2>1
  <2>2. CASE n # 0
    <3>1. 1 \in 1 .. n
      BY <1>1, <2>2
    <3>2. days[1].wake # NoTime
      BY <1>1, <2>2 DEF Chained, n
    <3> QED BY <1>2, <3>1, <3>2
  <2> QED BY <2>1, <2>2
<1>5. Chained(all)
  BY <1>2, <1>3, <1>4 DEF Chained
<1> QED BY <1>5 DEF all

LEMMA NextMonthIsSound ==
  ASSUME NEW g, SoundMonth(g), NEW h \in NextDays(g)
  PROVE  SoundMonth(h)
<1>1. PICK s \in Schedules(g), end \in DayEnds(g) :
        \E lines \in DayLines(g, s.nosleep, end) : h = DayAdded(g, s, end, lines)
  BY DEF NextDays
<1>2. PICK lines \in DayLines(g, s.nosleep, end) : h = DayAdded(g, s, end, lines)
  BY <1>1
<1>3. Fields \subseteq DOMAIN g /\ g.date \in Nat /\ g.set \in Settings /\ g.carry \in Int
  BY JitterAssumption DEF SoundMonth
<1>4. /\ Fields \subseteq DOMAIN h /\ h.text = Dated(g) \o lines /\ h.date = g.date + 1
      /\ h.last = Clock(end) /\ h.set = g.set
      /\ h.carry = Clamped(g.carry + end - g.last - DayLength, -MaxCarry, MaxCarry)
  BY <1>2, <1>3 DEF Fields, DayAdded
<1>5. end \in Nat /\ g.last \in Nat
  BY DaysEndInTime
<1>6. h.carry \in -MaxCarry .. MaxCarry
  <2>1. /\ g.carry + end - g.last - DayLength \in Int
        /\ MaxCarry \in Int /\ -MaxCarry \in Int /\ -MaxCarry <= MaxCarry
    BY <1>3, <1>5, JitterAssumption, DayLengthAssumption
  <2> DEFINE x == g.carry + end - g.last - DayLength
             low == -MaxCarry
  <2>2. x \in Int /\ low \in Int /\ low <= MaxCarry /\ h.carry = Clamped(x, low, MaxCarry)
    BY <1>4, <2>1
  <2> HIDE DEF x, low
  <2>3. h.carry \in low .. MaxCarry
    BY <2>1, <2>2, ClampedIsBetween
  <2> QED BY <2>3 DEF low
<1>7. Clock(end) \in Times
  BY <1>5, ClockTimes
<1>8. PICK days, log :
        /\ Stands(g.text, days, log, g.date > 0)
        /\ IF g.date = 0 THEN log = NoLog /\ days = <<>> /\ g.last = FirstEnd
           ELSE /\ log # NoLog /\ Len(days) + 1 = g.date
                /\ Chained(Append(days, log)) /\ LastTime(log) = g.last
  BY DEF SoundMonth
<1> DEFINE over == IF log = NoLog THEN days ELSE Append(days, log)
           d == g.date + 1
<1>9. Stands(Dated(g), over, NewLog(d), FALSE)
  BY <1>8, DatedStands
<1>10. d \in Nat /\ d = g.date + 1
  BY <1>3
<1> HIDE DEF over, d
<1>20. PICK new : /\ Added(Dated(g) \o lines, over, new, d, g.last, Clock(end))
                  /\ d = 1 => new.wake # NoTime
  BY <1>9, <1>10, DayIsAdded
<1>11. /\ Stands(Dated(g) \o lines, over, new, TRUE)
       /\ new.date = d /\ Sound(new, g.last) /\ LastTime(new) = Clock(end)
       /\ d = 1 => new.wake # NoTime
  BY <1>20 DEF Added
<1>12. new \in Log /\ new # NoLog /\ over \in Seq(Log)
  BY <1>9, <1>11, NoLogIsNone, StandingTypes DEF Sound, Woken
<1>13. /\ Chained(over) /\ Len(over) = g.date /\ (over = <<>> <=> g.date = 0)
       /\ g.last = IF over = <<>> THEN FirstEnd ELSE LastTime(over[Len(over)])
  <2>1. CASE g.date = 0
    <3>1. over = <<>> /\ g.last = FirstEnd
      BY <1>8, <2>1 DEF over
    <3>2. Chained(<<>>)
      BY DEF Chained
    <3> QED BY <2>1, <3>1, <3>2
  <2>2. CASE g.date # 0
    <3>1. /\ over = Append(days, log) /\ Len(days) + 1 = g.date
          /\ Chained(Append(days, log)) /\ LastTime(log) = g.last
      BY <1>8, <2>2 DEF over
    <3>2. days \in Seq(Log) /\ log \in Log
      BY <1>8, <2>2, StandingTypes
    <3>3. Len(over) = Len(days) + 1 /\ over[Len(days) + 1] = log /\ over # <<>>
      BY <3>1, <3>2, AppendProperties
    <3> QED BY <2>2, <3>1, <3>3
  <2> QED BY <2>1, <2>2
<1>14. Chained(Append(over, new))
  BY <1>10, <1>11, <1>12, <1>13, ChainGrows
<1>15. d > 0 /\ d # 0 /\ h.date = d /\ Len(over) + 1 = d
  BY <1>3, <1>4, <1>10, <1>13
<1>16. Stands(h.text, over, new, h.date > 0)
  <2>1. (h.date > 0) = TRUE
    BY <1>15
  <2> QED BY <1>4, <1>11, <2>1
<1>17. LastTime(new) = h.last
  BY <1>4, <1>11
<1> QED
  BY <1>3, <1>4, <1>6, <1>7, <1>10, <1>12, <1>14, <1>15, <1>16, <1>17 DEF SoundMonth

-----------------------------------------------------------------------------
(* Whatever both readers have followed so far is accepted.                 *)

LEMMA StandingIsAccepted ==
  ASSUME NEW text, NEW days, NEW log, NEW event, Stands(text, days, log, event)
  PROVE  /\ Accepts(text)
         /\ Logs(text) = IF log = NoLog THEN days ELSE Append(days, log)
<1>1. ReaderOf(text) = [year |-> TRUE, month |-> Month, dated |-> log # NoLog,
                        inDay |-> log # NoLog, event |-> event, over |-> FALSE,
                        errors |-> {}]
  BY DEF Stands
<1>2. Parsed(text) = [year |-> TRUE, month |-> Month, log |-> log, days |-> days,
                      thrown |-> FALSE]
  BY DEF Stands
<1>3. Parsed(text).log = log /\ Parsed(text).days = days
  BY <1>2
<1>4. ReaderOf(text).errors = {} /\ ReaderOf(text).month # 0
  BY <1>1, MonthAssumption
<1>5. Problems(text) = {}
  BY <1>4 DEF Problems, ReaderOf
<1> QED BY <1>3, <1>5 DEF Accepts, Logs, HandOver

\* What a day's block holds besides the wake line.
Shift(log) == IF log.wake = NoTime THEN 0 ELSE 1

LEMMA BlockOfWoken ==
  ASSUME NEW log, Woken(log)
  PROVE  /\ BlockOf(log).date = log.date /\ BlockOf(log).wake = log.wake
         /\ Len(log.events) \in Nat \ {0}
         /\ BlockOf(log).events \in Seq([end : Times, sleep : BOOLEAN, long : BOOLEAN])
         /\ Len(BlockOf(log).events) = Len(log.events) - Shift(log)
         /\ \A k \in 1 .. Len(log.events) - Shift(log) :
              BlockOf(log).events[k] = BlockEvent(log.events[k + Shift(log)])
         /\ LastEnd(BlockOf(log)) = LastTime(log) /\ LastTime(log) \in Times
<1> DEFINE n == Len(log.events)
           all == [k \in DOMAIN log.events |-> BlockEvent(log.events[k])]
           Ends == [end : Times, sleep : BOOLEAN, long : BOOLEAN]
           block == BlockOf(log)
<1>1. log \in Log /\ log.events # <<>>
  BY DEF Woken
<1>2. /\ log.events \in Seq([time : Times, name : EventNames])
      /\ n \in Nat /\ n # 0 /\ DOMAIN log.events = 1 .. n
      /\ \A k \in 1 .. n : log.events[k].time \in Times
  <2>1. log.events \in Seq([time : Times, name : EventNames])
    BY <1>1 DEF Log
  <2>2. n \in Nat /\ n # 0 /\ DOMAIN log.events = 1 .. n
    BY <1>1, <2>1
  <2>3. \A k \in 1 .. n : log.events[k] \in [time : Times, name : EventNames]
    <3> DEFINE events == log.events
               T == [time : Times, name : EventNames]
    <3>1. events \in Seq(T)
      BY <2>1
    <3> HIDE DEF events, T
    <3>2. \A k \in 1 .. Len(events) : events[k] \in T
      BY <3>1
    <3> QED BY <3>2 DEF events, T
  <2>4. \A k \in 1 .. n : log.events[k].time \in Times
    BY <2>3
  <2> QED BY <2>1, <2>2, <2>4
<1>3. all \in Seq(Ends) /\ Len(all) = n /\ \A k \in 1 .. n : all[k] = BlockEvent(log.events[k])
  <2>1. \A k \in 1 .. n : BlockEvent(log.events[k]) \in Ends
    BY <1>2 DEF BlockEvent
  <2> HIDE DEF n, Ends
  <2>2. all = [k \in 1 .. n |-> BlockEvent(log.events[k])]
    BY <1>2
  <2> HIDE DEF all
  <2>3. all \in [1 .. n -> Ends]
    BY <2>1, <2>2
  <2> QED BY <1>2, <2>2, <2>3
<1>4. block = [date |-> log.date, wake |-> log.wake,
               events |-> IF log.wake = NoTime THEN all ELSE Tail(all)]
  BY DEF BlockOf
<1> DEFINE events == IF log.wake = NoTime THEN all ELSE Tail(all)
           o == Shift(log)
<1> HIDE DEF n, all, block, Ends
<1>5. /\ events \in Seq(Ends) /\ Len(events) = n - o /\ o \in {0, 1}
      /\ \A k \in 1 .. n - o : events[k] = BlockEvent(log.events[k + o])
  <2>1. CASE log.wake = NoTime
    BY <1>2, <1>3, <2>1 DEF Shift
  <2>2. CASE log.wake # NoTime
    <3>1. o = 1 /\ events = Tail(all) /\ all # <<>>
      BY <1>2, <1>3, <2>2 DEF Shift
    <3>2. /\ Tail(all) \in Seq(Ends) /\ Len(Tail(all)) = n - 1
          /\ \A k \in 1 .. n - 1 : Tail(all)[k] = all[k + 1]
      BY <1>2, <1>3, <3>1
    <3>3. ASSUME NEW k \in 1 .. n - 1 PROVE Tail(all)[k] = BlockEvent(log.events[k + 1])
      <4>1. k + 1 \in 1 .. n
        BY <1>2
      <4> QED BY <1>3, <3>2, <4>1
    <3> HIDE DEF o, events
    <3> QED BY <3>1, <3>2, <3>3
  <2> QED BY <2>1, <2>2
<1> HIDE DEF events
<1>6. block.events = events /\ block.date = log.date /\ block.wake = log.wake
  BY <1>4 DEF events
<1>7. LastTime(log) \in Times
  BY <1>2 DEF LastTime, n
<1>8. LastEnd(block) = LastTime(log)
  <2>1. CASE n - o = 0
    <3>1. n = 1 /\ o = 1 /\ events = <<>>
      BY <1>2, <1>5, <2>1
    <3>2. log.wake # NoTime
      BY <3>1 DEF Shift
    <3>3. log.events[1].time = log.wake
      BY <3>2 DEF Woken
    <3> QED BY <1>6, <3>1, <3>3 DEF LastEnd, LastTime, n
  <2>2. CASE n - o # 0
    <3>1. events # <<>> /\ n - o \in 1 .. n - o /\ (n - o) + o = n
      BY <1>2, <1>5, <2>2
    <3>2. events[n - o] = BlockEvent(log.events[n])
      BY <1>5, <3>1
    <3>3. events[Len(events)].end = log.events[n].time
      BY <1>5, <3>2 DEF BlockEvent
    <3> QED BY <1>6, <3>1, <3>3 DEF LastEnd, LastTime, n
  <2> QED BY <2>1, <2>2
<1> QED BY <1>2, <1>5, <1>6, <1>7, <1>8 DEF n, block, Ends

\* The days of a month that begins with a waking.
Wakes(logs) ==
  /\ \A i \in 1 .. Len(logs) : Woken(logs[i])
  /\ Len(logs) > 0 => logs[1].wake # NoTime

BlocksOf(logs) == [i \in DOMAIN logs |-> BlockOf(logs[i])]

\* When the day before ended, and when the first activity that was written begins.
Bedtime(logs, i) == IF i = 1 THEN NoTime ELSE LastTime(logs[i - 1])
Rising(logs, i) == IF logs[i].wake = NoTime THEN Bedtime(logs, i) ELSE logs[i].wake

\* A day is converted to the night before it, if it has one, and its activities.
LEMMA DayActivities ==
  ASSUME NEW logs \in Seq(Log), Wakes(logs), NEW i \in 1 .. Len(logs)
  PROVE  /\ Night(BlocksOf(logs), i) =
              IF Bedtime(logs, i) # NoTime /\ logs[i].wake # NoTime
              THEN <<Generated(Bedtime(logs, i), logs[i].wake)>> ELSE <<>>
         /\ Bedtime(logs, i) \in Times \cup {NoTime}
         /\ Rising(logs, i) \in Times
         /\ Mapped(BlocksOf(logs), i) \in Seq(Activity)
         /\ Len(Mapped(BlocksOf(logs), i)) = Len(logs[i].events) - Shift(logs[i])
         /\ \A j \in 1 .. Len(logs[i].events) - Shift(logs[i]) :
              /\ Mapped(BlocksOf(logs), i)[j].start =
                   IF j = 1 THEN Rising(logs, i)
                   ELSE logs[i].events[j + Shift(logs[i]) - 1].time
              /\ Mapped(BlocksOf(logs), i)[j].end = logs[i].events[j + Shift(logs[i])].time
<1> DEFINE n == Len(logs)
           blocks == BlocksOf(logs)
           before == Bedtime(logs, i)
           log == logs[i]
           m == Len(log.events)
           o == Shift(log)
           events == blocks[i].events
<1>1. n \in Nat /\ DOMAIN logs = 1 .. n /\ i \in 1 .. n
  OBVIOUS
<1>2. /\ DOMAIN blocks = 1 .. n /\ Len(blocks) = n
      /\ \A k \in 1 .. n : blocks[k] = BlockOf(logs[k]) /\ Woken(logs[k])
  BY <1>1 DEF BlocksOf, Wakes
<1>3. /\ m \in Nat \ {0} /\ o \in {0, 1} /\ blocks[i].wake = log.wake
      /\ events \in Seq([end : Times, sleep : BOOLEAN, long : BOOLEAN])
      /\ Len(events) = m - o
      /\ \A k \in 1 .. m - o : events[k] = BlockEvent(log.events[k + o])
  <2>1. o \in {0, 1}
    BY DEF Shift
  <2> DEFINE block == BlockOf(log)
  <2>2. Woken(log) /\ blocks[i] = block
    BY <1>1, <1>2
  <2>3. /\ m \in Nat \ {0} /\ block.wake = log.wake /\ Len(block.events) = m - o
        /\ block.events \in Seq([end : Times, sleep : BOOLEAN, long : BOOLEAN])
        /\ \A k \in 1 .. m - o : block.events[k] = BlockEvent(log.events[k + o])
    BY <2>2, BlockOfWoken
  <2> HIDE DEF block, m, o, blocks
  <2> QED BY <2>1, <2>2, <2>3
<1>4. i # 1 => EndBefore(blocks, i) = before /\ before \in Times /\ before # NoTime
  <2> SUFFICES ASSUME i # 1
               PROVE  EndBefore(blocks, i) = before /\ before \in Times /\ before # NoTime
    OBVIOUS
  <2>1. i - 1 \in 1 .. n
    BY <1>1
  <2>2. Woken(logs[i - 1]) /\ blocks[i - 1] = BlockOf(logs[i - 1])
    BY <1>2, <2>1
  <2>3. LastEnd(blocks[i - 1]) = LastTime(logs[i - 1]) /\ LastTime(logs[i - 1]) \in Times
    BY <2>2, BlockOfWoken
  <2> QED BY <2>3, NoTimeAssumption DEF EndBefore, Bedtime
<1>5. i = 1 => before = NoTime /\ EndBefore(blocks, i) = NoTime /\ log.wake # NoTime
  BY <1>1 DEF Bedtime, EndBefore, Wakes
<1>6. /\ log \in Log
      /\ log.wake # NoTime => log.events[1].time = log.wake
  BY <1>1, <1>2 DEF Woken
<1>7. log.wake \in Times \cup {NoTime}
  BY <1>6 DEF Log
<1>8. Rising(logs, i) = IF log.wake = NoTime THEN before ELSE log.wake
  BY DEF Rising
<1>9. o = IF log.wake = NoTime THEN 0 ELSE 1
  BY DEF Shift
<1> HIDE DEF n, blocks, before, log, m, o, events
<1>10. before \in Times \cup {NoTime} /\ Rising(logs, i) \in Times
  BY <1>4, <1>5, <1>7, <1>8
<1>11. Night(blocks, i) = IF before # NoTime /\ log.wake # NoTime
                          THEN <<Generated(before, log.wake)>> ELSE <<>>
  BY <1>3, <1>4, <1>5 DEF Night
<1>12. events = <<>> => log.wake # NoTime
  BY <1>3, <1>9
<1>13. Getup(blocks, i) = Rising(logs, i)
  BY <1>3, <1>4, <1>5, <1>8, <1>12 DEF Getup, events
<1>14. Skipped(blocks, i) = 0
  BY <1>10, <1>13, NoTimeAssumption DEF Skipped
<1>15. Mapped(blocks, i) = [j \in 1 .. m - o |-> AuthoredActivity(blocks, i, j)]
  <2>1. \A j \in 1 .. m - o : j + 0 = j
    BY <1>3
  <2>2. Len(blocks[i].events) - 0 = m - o
    BY <1>3 DEF events
  <2> QED BY <1>14, <2>1, <2>2 DEF Mapped
<1>16. ASSUME NEW j \in 1 .. m - o
       PROVE  /\ AuthoredActivity(blocks, i, j) \in Activity
              /\ AuthoredActivity(blocks, i, j).start =
                   IF j = 1 THEN Rising(logs, i) ELSE log.events[j + o - 1].time
              /\ AuthoredActivity(blocks, i, j).end = log.events[j + o].time
  <2>1. j \in Int /\ (j # 1 => j - 1 \in 1 .. m - o /\ (j - 1) + o = j + o - 1)
    BY <1>3
  <2>2. events[j].end = log.events[j + o].time
    BY <1>3 DEF BlockEvent
  <2>3. BeginOf(blocks, i, j) = IF j = 1 THEN Rising(logs, i) ELSE log.events[j + o - 1].time
    <3>1. j # 1 => events[j - 1].end = log.events[j + o - 1].time
      BY <1>3, <2>1 DEF BlockEvent
    <3> QED BY <1>13, <3>1 DEF BeginOf, events
  <2> DEFINE E == [end : Times, sleep : BOOLEAN, long : BOOLEAN]
  <2>4. \A k \in 1 .. m - o : events[k] \in E
    <3> DEFINE l == m - o
    <3>1. events \in Seq(E) /\ Len(events) = l
      BY <1>3
    <3> HIDE DEF l, E
    <3>2. \A k \in 1 .. l : events[k] \in E
      BY <3>1
    <3> QED BY <3>2 DEF l
  <2>5. events[j] \in E
    BY <2>4
  <2>6. BeginOf(blocks, i, j) \in Times
    <3>1. j # 1 => events[j - 1].end \in Times
      BY <2>1, <2>4
    <3> QED BY <1>10, <1>13, <3>1 DEF BeginOf, events
  <2>7. AuthoredActivity(blocks, i, j) =
          [start |-> BeginOf(blocks, i, j), end |-> events[j].end,
           sleep |-> events[j].sleep, long |-> events[j].long]
    BY DEF AuthoredActivity, events
  <2> QED BY <2>2, <2>3, <2>5, <2>6, <2>7 DEF Activity
<1> DEFINE mapped == Mapped(blocks, i)
<1>17. /\ mapped \in Seq(Activity) /\ Len(mapped) = m - o
       /\ \A j \in 1 .. m - o : mapped[j] = AuthoredActivity(blocks, i, j)
  <2> DEFINE l == m - o
  <2>1. l \in Nat
    BY <1>3
  <2>2. mapped = [j \in 1 .. l |-> AuthoredActivity(blocks, i, j)]
    BY <1>15
  <2>3. \A j \in 1 .. l : AuthoredActivity(blocks, i, j) \in Activity
    BY <1>16
  <2> HIDE DEF l, mapped
  <2>4. mapped \in [1 .. l -> Activity]
    BY <2>2, <2>3
  <2>5. mapped \in Seq(Activity) /\ Len(mapped) = l
    BY <2>1, <2>4
  <2> QED BY <2>2, <2>5 DEF l
<1> HIDE DEF mapped
<1> QED
  BY <1>10, <1>11, <1>16, <1>17 DEF mapped, blocks, before, log, m, o

LEMMA ChainIsValid ==
  ASSUME Generous, NEW logs \in Seq(Log), Chained(logs), Len(logs) = MonthLength
  PROVE  LET blocks == BlocksOf(logs)
         IN  /\ \A i \in DOMAIN logs : WakeFirst(logs[i])
             /\ StructureValid(blocks)
             /\ LogicValid(Convert(blocks), "full")
<1> DEFINE n == Len(logs)
           blocks == BlocksOf(logs)
           Before(i) == IF i = 1 THEN FirstEnd ELSE LastTime(logs[i - 1])
<1>1. n \in Nat /\ DOMAIN logs = 1 .. n /\ n = MonthLength
  OBVIOUS
<1>2. \A i \in 1 .. n : logs[i].date = i /\ Sound(logs[i], Before(i)) /\ Woken(logs[i])
  BY DEF Chained, Sound
<1>3. Wakes(logs)
  BY DEF Chained, Sound, Wakes
<1> HIDE DEF n, Before
<1>4. /\ DOMAIN blocks = 1 .. n /\ Len(blocks) = n
      /\ \A i \in 1 .. n : blocks[i] = BlockOf(logs[i]) /\ blocks[i].date = i
  <2>1. DOMAIN blocks = 1 .. n /\ \A i \in 1 .. n : blocks[i] = BlockOf(logs[i])
    BY <1>1 DEF BlocksOf
  <2> HIDE DEF blocks
  <2>2. \A i \in 1 .. n : blocks[i].date = i
    BY <1>2, <2>1, BlockOfWoken
  <2> QED BY <1>1, <2>1, <2>2
<1> HIDE DEF blocks
<1>5. ASSUME NEW i \in DOMAIN logs PROVE WakeFirst(logs[i])
  <2>1. logs[i].events \in Seq([time : Times, name : EventNames])
    BY <1>1, <1>2 DEF Woken, Log
  <2>2. \A k \in 2 .. Len(logs[i].events) : logs[i].events[k].name # "wake"
    BY <1>1, <1>2 DEF Woken
  <2>3. \A k \in DOMAIN logs[i].events : k = 1 \/ k \in 2 .. Len(logs[i].events)
    BY <2>1
  <2> QED BY <2>2, <2>3 DEF WakeFirst
<1>6. StructureValid(blocks)
  <2> SUFFICES ASSUME blocks # <<>> PROVE blocks[1].date = 1
    BY DEF StructureValid
  <2>1. n # 0
    <3> SUFFICES ASSUME n = 0 PROVE blocks = <<>>
      OBVIOUS
    <3>1. blocks = [i \in 1 .. 0 |-> BlockOf(logs[i])]
      BY <1>1 DEF blocks, BlocksOf
    <3> QED BY <3>1
  <2> QED BY <1>1, <1>4, <2>1
<1> DEFINE days == Convert(blocks)
<1>7. /\ DOMAIN days = 1 .. n
      /\ \A i \in 1 .. n : days[i].date = i /\ days[i].activities = ActivitiesOf(blocks, i)
  <2>1. days = [i \in 1 .. n |-> DayOf(blocks, i)]
    BY <1>4 DEF Convert
  <2> HIDE DEF days
  <2> QED BY <1>4, <2>1 DEF DayOf
<1> HIDE DEF days
<1>8. DatesComplete(days, "full")
  <2>1. \A d \in Dates : \E i \in DOMAIN days : days[i].date = d
    BY <1>1, <1>7 DEF Dates
  <2> QED BY <2>1 DEF DatesComplete
<1>9. ASSUME NEW i \in 1 .. n
      PROVE  \A k \in DOMAIN ActivitiesOf(blocks, i) : ActivityValid(ActivitiesOf(blocks, i)[k])
  <2> DEFINE log == logs[i]
             before == Bedtime(logs, i)
             m == Len(log.events)
             o == Shift(log)
             night == Night(blocks, i)
             mapped == Mapped(blocks, i)
             From(k) == IF k = 1 THEN Before(i) ELSE log.events[k - 1].time
  <2>1. /\ night = IF before # NoTime /\ log.wake # NoTime
                   THEN <<Generated(before, log.wake)>> ELSE <<>>
        /\ mapped \in Seq(Activity) /\ Len(mapped) = m - o
        /\ \A j \in 1 .. m - o :
             /\ mapped[j].start = IF j = 1 THEN Rising(logs, i) ELSE log.events[j + o - 1].time
             /\ mapped[j].end = log.events[j + o].time
    <3>1. i \in 1 .. Len(logs)
      BY DEF n
    <3> QED BY <1>3, <3>1, DayActivities DEF blocks
  <2>2. m \in Nat \ {0} /\ o \in {0, 1}
    BY <1>2, BlockOfWoken DEF Shift
  <2>3. before # NoTime => before = Before(i)
    BY DEF Bedtime, Before
  <2>4. log.wake = NoTime => Rising(logs, i) = Before(i)
    BY <1>1, <1>3 DEF Rising, Bedtime, Before, Wakes, n
  <2>5. /\ log.wake # NoTime => log.events[1].time = log.wake /\ Rising(logs, i) = log.wake
        /\ o = IF log.wake = NoTime THEN 0 ELSE 1
    BY <1>2 DEF Woken, Rising, Shift
  <2>6. \A k \in 1 .. m : Near(From(k), log.events[k].time)
    BY <1>2 DEF Sound
  <2>7. \A a, b : Near(a, b) => Wrapped(a, b) > 0 /\ Wrapped(a, b) <= MaxActivity
    BY LimitAssumption DEF Near
  <2> HIDE DEF log, before, m, o, night, mapped
  <2>8. ASSUME NEW k \in DOMAIN night PROVE ActivityValid(night[k])
    <3>1. /\ night[k] = Generated(before, log.wake) /\ before # NoTime /\ log.wake # NoTime
          /\ 1 \in 1 .. m
      BY <2>1, <2>2
    <3>2. Near(before, log.wake)
      BY <2>3, <2>5, <2>6, <3>1
    <3> QED BY <2>7, <3>1, <3>2 DEF ActivityValid, Duration, Generated
  <2>9. ASSUME NEW j \in DOMAIN mapped PROVE ActivityValid(mapped[j])
    <3>1. j \in 1 .. m - o
      BY <2>1
    <3>2. /\ j + o \in 1 .. m /\ j \in Int
          /\ j + o = 1 <=> j = 1 /\ o = 0
          /\ j = 1 /\ o = 1 => j + o - 1 = 1
      BY <2>2, <3>1
    <3>3. mapped[j].start = From(j + o) /\ mapped[j].end = log.events[j + o].time
      <4>1. /\ mapped[j].start = IF j = 1 THEN Rising(logs, i) ELSE log.events[j + o - 1].time
            /\ mapped[j].end = log.events[j + o].time
        BY <2>1, <3>1
      <4>2. o = 0 => log.wake = NoTime
        BY <2>5
      <4>3. CASE j = 1 /\ o = 0
        BY <2>4, <4>1, <4>2, <4>3
      <4>4. CASE j = 1 /\ o = 1
        BY <2>5, <4>1, <4>4
      <4>5. CASE j # 1
        BY <2>2, <3>2, <4>1, <4>5
      <4> QED BY <2>2, <4>3, <4>4, <4>5
    <3>4. Near(mapped[j].start, mapped[j].end)
      <4> HIDE DEF From
      <4> QED BY <2>6, <3>2, <3>3
    <3> QED BY <2>7, <3>4 DEF ActivityValid, Duration
  <2> DEFINE V == {night[j] : j \in DOMAIN night} \cup {mapped[j] : j \in DOMAIN mapped}
  <2>10. mapped \in Seq(V)
    <3>1. \A j \in DOMAIN mapped : mapped[j] \in V
      OBVIOUS
    <3> HIDE DEF V
    <3> QED BY <2>1, <3>1
  <2>11. night \in Seq(V)
    <3>1. night = <<>> \/ \E a : night = <<a>>
      BY <2>1
    <3>2. \A j \in DOMAIN night : night[j] \in V
      OBVIOUS
    <3> HIDE DEF V
    <3>3. CASE night = <<>>
      BY <3>3
    <3>4. ASSUME NEW a, night = <<a>> PROVE night \in Seq(V)
      <4>1. a \in V
        BY <3>2, <3>4
      <4> QED BY <3>4, <4>1
    <3> QED BY <3>1, <3>3, <3>4
  <2>12. \A a \in V : ActivityValid(a)
    BY <2>8, <2>9
  <2> HIDE DEF V
  <2>13. night \o mapped \in Seq(V)
    BY <2>10, <2>11, ConcatProperties
  <2>14. \A k \in DOMAIN (night \o mapped) : (night \o mapped)[k] \in V
    BY <2>13
  <2> QED BY <2>12, <2>14 DEF ActivitiesOf, night, mapped
<1>10. \A i \in DOMAIN days : \A k \in DOMAIN days[i].activities :
          ActivityValid(days[i].activities[k])
  BY <1>7, <1>9
<1> QED BY <1>5, <1>6, <1>8, <1>10 DEF LogicValid, days, blocks

LEMMA SoundMonthIsAccepted ==
  ASSUME Generous, NEW g, SoundMonth(g), Written(g)
  PROVE  Ingestible(g.text, "full")
<1>1. PICK days, log :
        /\ Stands(g.text, days, log, g.date > 0)
        /\ IF g.date = 0 THEN log = NoLog /\ days = <<>> /\ g.last = FirstEnd
           ELSE /\ log # NoLog /\ Len(days) + 1 = g.date
                /\ Chained(Append(days, log)) /\ LastTime(log) = g.last
  BY DEF SoundMonth
<1> DEFINE logs == IF log = NoLog THEN days ELSE Append(days, log)
<1>2. Accepts(g.text) /\ Logs(g.text) = logs
  BY <1>1, StandingIsAccepted
<1>3. g.date = MonthLength
  BY DEF Written
<1>4. logs \in Seq(Log) /\ Chained(logs) /\ Len(logs) = MonthLength
  <2>1. CASE g.date = 0
    BY <1>1, <1>3, <2>1 DEF Chained
  <2>2. CASE g.date # 0
    <3>1. days \in Seq(Log) /\ log \in Log
      BY <1>1, <2>2, StandingTypes
    <3>2. Append(days, log) \in Seq(Log) /\ Len(Append(days, log)) = Len(days) + 1
      BY <3>1, AppendProperties
    <3> QED BY <1>1, <1>3, <2>2, <3>2
  <2> QED BY <2>1, <2>2
<1> HIDE DEF logs
<1> DEFINE blocks == BlocksOf(logs)
<1>5. /\ \A i \in DOMAIN logs : WakeFirst(logs[i])
      /\ StructureValid(blocks)
      /\ LogicValid(Convert(blocks), "full")
  BY <1>4, ChainIsValid
<1>6. Blocks(g.text) = blocks
  BY <1>2 DEF Blocks, BlocksOf
<1> HIDE DEF blocks
<1> QED BY <1>2, <1>5, <1>6 DEF Ingestible

\* Of the month that is being generated, whatever it was asked for.
GenInv == gen # NoMonth => SoundMonth(gen)

LEMMA InitGenInv == Init => GenInv
  BY NewMonthIsSound DEF Init, GenInv

LEMMA NextGenInv == GenInv /\ [Next]_vars => GenInv'
<1> SUFFICES ASSUME GenInv, [Next]_vars PROVE GenInv'
  OBVIOUS
<1>1. CASE GenerateDay
  <2>1. SoundMonth(gen) /\ gen' \in NextDays(gen)
    BY <1>1 DEF GenerateDay, GenInv
  <2>2. SoundMonth(gen')
    BY <2>1, NextMonthIsSound
  <2> QED BY <2>2 DEF GenInv
<1>2. CASE UNCHANGED gen
  BY <1>2 DEF GenInv
<1>3. GenerateDay \/ UNCHANGED gen
  BY DEF Next, vars, TypeMarker, SwitchMode, LoadMarker, Resolve, Open, Close, Type, Ingest
<1> QED BY <1>1, <1>2, <1>3

LEMMA SpecGenInv == Spec => []GenInv
  BY InitGenInv, NextGenInv, PTL DEF Spec

-----------------------------------------------------------------------------
(* The average, from a reader of its own.                                  *)

\* What the average's own reader makes of a day and of a month.
DayStats == [wake : Times \cup {NoTime}, continues : BOOLEAN, events : Seq(Happening)]
MonthStats == Seq(DayStats)
NoStats == <<>>

LEMMA StatsEventCounts ==
  ASSUME NEW day \in DayStats, NEW line \in Line, line.is = "event"
  PROVE  /\ StatsEvent(day, line) \in DayStats
         /\ StatsEvent(day, line).wake =
              IF line.name = "wake" /\ day.wake = NoTime THEN line.time ELSE day.wake
         /\ StatsEvent(day, line).continues =
              (day.continues \/ (line.name # "wake" /\ day.wake = NoTime /\ day.events = <<>>))
         /\ StatsEvent(day, line).events =
              Append(day.events, [time |-> line.time, name |-> line.name])
<1> DEFINE wake == IF line.name = "wake" /\ day.wake = NoTime THEN line.time ELSE day.wake
           continues == day.continues \/ (line.name # "wake" /\ day.wake = NoTime
                                          /\ day.events = <<>>)
           events == Append(day.events, [time |-> line.time, name |-> line.name])
<1>1. line.time \in Times /\ [time |-> line.time, name |-> line.name] \in Happening
  BY LineKinds DEF Happening
<1>2. wake \in Times \cup {NoTime} /\ continues \in BOOLEAN
  BY <1>1 DEF DayStats
<1>3. events \in Seq(Happening)
  BY <1>1 DEF DayStats
<1>4. StatsEvent(day, line) = [day EXCEPT !.wake = wake, !.continues = continues, !.events = events]
  BY DEF StatsEvent, DayStats
<1> HIDE DEF wake, continues, events
<1>5. /\ StatsEvent(day, line) \in DayStats
      /\ StatsEvent(day, line).wake = wake
      /\ StatsEvent(day, line).continues = continues
      /\ StatsEvent(day, line).events = events
  BY <1>2, <1>3, <1>4 DEF DayStats
<1> QED BY <1>5 DEF wake, continues, events

LEMMA StatsLineCounts ==
  ASSUME NEW days \in MonthStats, NEW line \in Line
  PROVE  StatsLine(days, line) \in MonthStats
<1>1. CASE line.is = "date"
  <2>1. StatsDay \in DayStats
    BY DEF StatsDay, DayStats
  <2> QED BY <1>1, <2>1 DEF StatsLine, MonthStats
<1>2. CASE line.is = "event" /\ days # <<>>
  <2> DEFINE n == Len(days)
             new == StatsEvent(days[n], line)
  <2>1. days \in [1 .. n -> DayStats] /\ n \in Nat /\ n \in 1 .. n
    BY <1>2 DEF MonthStats
  <2>2. new \in DayStats
    <3> HIDE DEF n
    <3> QED BY <1>2, <2>1, StatsEventCounts
  <2>3. StatsLine(days, line) = [days EXCEPT ![n] = new]
    BY <1>2 DEF StatsLine
  <2> HIDE DEF n, new
  <2>4. [days EXCEPT ![n] = new] \in [1 .. n -> DayStats]
    BY <2>1, <2>2
  <2> QED BY <2>1, <2>3, <2>4 DEF MonthStats
<1>3. CASE line.is # "date" /\ ~(line.is = "event" /\ days # <<>>)
  BY <1>3 DEF StatsLine
<1> QED BY <1>1, <1>2, <1>3

LEMMA StatsWalk ==
  ASSUME NEW text \in Seq(Line)
  PROVE  \E f \in [0..Len(text) -> MonthStats] :
           /\ f[0] = NoStats
           /\ \A i \in 1..Len(text) : f[i] = StatsLine(f[i - 1], text[i])
           /\ StatsDays(text) = f[Len(text)]
<1> DEFINE n == Len(text)
           step == [i \in 1..n |-> [s \in MonthStats |-> StatsLine(s, text[i])]]
           Follows(f) == f = [i \in 0..n |-> IF i = 0 THEN NoStats
                                              ELSE StatsLine(f[i - 1], text[i])]
           after == CHOOSE f : Follows(f)
<1>1. n \in Nat /\ \A i \in 1..n : text[i] \in Line
  OBVIOUS
<1>2. NoStats \in MonthStats
  BY DEF NoStats, MonthStats
<1>3. ASSUME NEW i \in 1..n, NEW s \in MonthStats PROVE StatsLine(s, text[i]) \in MonthStats
  <2>1. text[i] \in Line
    BY <1>1
  <2> QED BY <2>1, StatsLineCounts
<1>4. step \in [1..n -> [MonthStats -> MonthStats]]
  BY <1>3
<1>5. PICK f \in Walks(MonthStats, NoStats, n, step) : TRUE
  <2> HIDE DEF step, n
  <2> QED BY <1>1, <1>2, <1>4, WalkExists
<1>6. Follows(f)
  <2>1. f \in [0..n -> MonthStats] /\ f[0] = NoStats
    BY <1>5 DEF Walks
  <2>2. ASSUME NEW i \in 1..n PROVE f[i] = StatsLine(f[i - 1], text[i])
    <3>1. f[i] = step[i][f[i - 1]] /\ f[i - 1] \in MonthStats
      <4>1. i - 1 \in 0..n
        BY <1>1
      <4> HIDE DEF step, n
      <4> QED BY <1>5, <4>1 DEF Walks
    <3> QED BY <3>1
  <2> HIDE DEF n
  <2>3. \A i \in 0..n : f[i] = IF i = 0 THEN NoStats ELSE StatsLine(f[i - 1], text[i])
    BY <1>1, <2>1, <2>2
  <2> QED BY <2>1, <2>3
<1>7. Follows(after)
  <2> HIDE DEF Follows
  <2> QED BY <1>6
<1> HIDE DEF after
<1>8. /\ DOMAIN after = 0..n /\ after[0] = NoStats
      /\ \A i \in 1..n : after[i] = StatsLine(after[i - 1], text[i])
  <2> HIDE DEF n
  <2>1. DOMAIN after = 0..n
    BY <1>7
  <2>2. \A i \in 0..n : after[i] = IF i = 0 THEN NoStats ELSE StatsLine(after[i - 1], text[i])
    BY <1>7
  <2> QED BY <1>1, <2>1, <2>2
<1>9. \A i \in 0..n : after[i] \in MonthStats
  <2>1. \A i \in 1..n : after[i - 1] \in MonthStats => after[i] \in MonthStats
    BY <1>3, <1>8
  <2> HIDE DEF n
  <2> QED BY <1>1, <1>2, <1>8, <2>1, WalkStays
<1>10. after = [i \in 0..n |-> after[i]]
  <2> HIDE DEF n
  <2> QED BY <1>1, <1>7
<1>11. after \in [0..n -> MonthStats]
  BY <1>9, <1>10
<1>12. StatsDays(text) = after[n]
  BY DEF after, Walked, StatsDays, NoStats
<1> QED BY <1>8, <1>11, <1>12

-----------------------------------------------------------------------------
(* The sums of the average, and of what an ingest stores.                  *)

\* A sum over the events of a day, and over days, with the time it has come to.
EventSums == [from : Times \cup {NoTime}, total : Nat]
MonthSums == [last : Times \cup {NoTime}, total : Nat]
NoSum(from) == [from |-> from, total |-> 0]
NoMonthSum == [last |-> NoTime, total |-> 0]

LEMMA WrappedCounts ==
  ASSUME NEW a \in Times, NEW b \in Times
  PROVE  Wrapped(a, b) \in Nat
  BY DayLengthAssumption DEF Wrapped, Times

LEMMA StatsAddCounts ==
  ASSUME NEW sum \in EventSums, NEW event \in Happening
  PROVE  StatsAdd(sum, event) \in EventSums
<1>1. event.time \in Times /\ sum.from \in Times \cup {NoTime} /\ sum.total \in Nat
  BY DEF Happening, EventSums
<1>2. CASE event.name = "wake"
  BY <1>1, <1>2 DEF StatsAdd, EventSums
<1>3. CASE event.name # "wake" /\ sum.from = NoTime
  BY <1>3 DEF StatsAdd
<1>4. CASE event.name # "wake" /\ sum.from # NoTime
  <2>1. Wrapped(sum.from, event.time) \in Nat
    BY <1>1, <1>4, WrappedCounts
  <2> QED BY <1>1, <1>4, <2>1 DEF StatsAdd, EventSums
<1> QED BY <1>2, <1>3, <1>4

LEMMA EventsWalk ==
  ASSUME NEW from \in Times \cup {NoTime}, NEW events \in Seq(Happening)
  PROVE  \E f \in [0..Len(events) -> EventSums] :
           /\ f[0] = NoSum(from)
           /\ \A i \in 1..Len(events) : f[i] = StatsAdd(f[i - 1], events[i])
           /\ Walked(StatsAdd, NoSum(from), events) = f[Len(events)]
<1> DEFINE n == Len(events)
           step == [i \in 1..n |-> [s \in EventSums |-> StatsAdd(s, events[i])]]
           Follows(f) == f = [i \in 0..n |-> IF i = 0 THEN NoSum(from)
                                              ELSE StatsAdd(f[i - 1], events[i])]
           after == CHOOSE f : Follows(f)
<1>1. n \in Nat /\ \A i \in 1..n : events[i] \in Happening
  OBVIOUS
<1>2. NoSum(from) \in EventSums
  BY DEF NoSum, EventSums
<1>3. ASSUME NEW i \in 1..n, NEW s \in EventSums PROVE StatsAdd(s, events[i]) \in EventSums
  <2>1. events[i] \in Happening
    BY <1>1
  <2> QED BY <2>1, StatsAddCounts
<1>4. step \in [1..n -> [EventSums -> EventSums]]
  BY <1>3
<1>5. PICK f \in Walks(EventSums, NoSum(from), n, step) : TRUE
  <2> HIDE DEF step, n
  <2> QED BY <1>1, <1>2, <1>4, WalkExists
<1>6. Follows(f)
  <2>1. f \in [0..n -> EventSums] /\ f[0] = NoSum(from)
    BY <1>5 DEF Walks
  <2>2. ASSUME NEW i \in 1..n PROVE f[i] = StatsAdd(f[i - 1], events[i])
    <3>1. f[i] = step[i][f[i - 1]] /\ f[i - 1] \in EventSums
      <4>1. i - 1 \in 0..n
        BY <1>1
      <4> HIDE DEF step, n
      <4> QED BY <1>5, <4>1 DEF Walks
    <3> QED BY <3>1
  <2> HIDE DEF n
  <2>3. \A i \in 0..n : f[i] = IF i = 0 THEN NoSum(from) ELSE StatsAdd(f[i - 1], events[i])
    BY <1>1, <2>1, <2>2
  <2> QED BY <2>1, <2>3
<1>7. Follows(after)
  <2> HIDE DEF Follows
  <2> QED BY <1>6
<1> HIDE DEF after
<1>8. /\ DOMAIN after = 0..n /\ after[0] = NoSum(from)
      /\ \A i \in 1..n : after[i] = StatsAdd(after[i - 1], events[i])
  <2> HIDE DEF n
  <2>1. DOMAIN after = 0..n
    BY <1>7
  <2>2. \A i \in 0..n : after[i] = IF i = 0 THEN NoSum(from) ELSE StatsAdd(after[i - 1], events[i])
    BY <1>7
  <2> QED BY <1>1, <2>1, <2>2
<1>9. \A i \in 0..n : after[i] \in EventSums
  <2>1. \A i \in 1..n : after[i - 1] \in EventSums => after[i] \in EventSums
    BY <1>3, <1>8
  <2> HIDE DEF n
  <2> QED BY <1>1, <1>2, <1>8, <2>1, WalkStays
<1>10. after = [i \in 0..n |-> after[i]]
  <2> HIDE DEF n
  <2> QED BY <1>1, <1>7
<1>11. after \in [0..n -> EventSums]
  BY <1>9, <1>10
<1>12. Walked(StatsAdd, NoSum(from), events) = after[n]
  BY DEF after, Walked
<1> QED BY <1>8, <1>11, <1>12

\* A day's part of the sum.
DaySum(sum, day) ==
  Walked(StatsAdd, NoSum(IF day.continues /\ sum.last # NoTime THEN sum.last ELSE day.wake),
         day.events)

LEMMA StatsOverCounts ==
  ASSUME NEW sum \in MonthSums, NEW day \in DayStats
  PROVE  /\ StatsOver(sum, day) \in MonthSums
         /\ StatsOver(sum, day) =
              [last |-> IF day.events = <<>> THEN sum.last
                        ELSE day.events[Len(day.events)].time,
               total |-> sum.total
                         + (IF sum.last # NoTime /\ day.wake # NoTime /\ ~day.continues
                            THEN Wrapped(sum.last, day.wake) ELSE 0)
                         + DaySum(sum, day).total]
<1> DEFINE from == IF day.continues /\ sum.last # NoTime THEN sum.last ELSE day.wake
           night == IF sum.last # NoTime /\ day.wake # NoTime /\ ~day.continues
                    THEN Wrapped(sum.last, day.wake) ELSE 0
           last == IF day.events = <<>> THEN sum.last ELSE day.events[Len(day.events)].time
<1>1. /\ sum.last \in Times \cup {NoTime} /\ sum.total \in Nat
      /\ day.wake \in Times \cup {NoTime} /\ day.events \in Seq(Happening)
  BY DEF MonthSums, DayStats
<1>2. from \in Times \cup {NoTime} /\ night \in Nat
  BY <1>1, WrappedCounts
<1>3. last \in Times \cup {NoTime}
  <2>1. CASE day.events = <<>>
    BY <1>1, <2>1
  <2>2. CASE day.events # <<>>
    <3>1. day.events[Len(day.events)] \in Happening
      <4> DEFINE events == day.events
      <4>1. events \in Seq(Happening) /\ events # <<>>
        BY <1>1, <2>2
      <4> HIDE DEF events
      <4>2. events[Len(events)] \in Happening
        BY <4>1
      <4> QED BY <4>2 DEF events
    <3> QED BY <2>2, <3>1 DEF Happening
  <2> QED BY <2>1, <2>2
<1>4. DaySum(sum, day) \in EventSums
  <2> DEFINE events == day.events
             n == Len(events)
  <2>1. events \in Seq(Happening) /\ n \in 0 .. n
    BY <1>1
  <2> HIDE DEF from, events
  <2>2. PICK f \in [0 .. n -> EventSums] : Walked(StatsAdd, NoSum(from), events) = f[n]
    BY <1>2, <2>1, EventsWalk
  <2> HIDE DEF n
  <2>3. f[n] \in EventSums
    BY <2>1
  <2> QED BY <2>2, <2>3 DEF DaySum, from, events
<1>5. StatsOver(sum, day) = [last |-> last, total |-> sum.total + night + DaySum(sum, day).total]
  BY DEF StatsOver, DaySum, NoSum
<1>6. sum.total + night + DaySum(sum, day).total \in Nat
  <2> HIDE DEF night
  <2> QED BY <1>1, <1>2, <1>4 DEF EventSums
<1> HIDE DEF from, night, last
<1>7. StatsOver(sum, day) \in MonthSums
  BY <1>3, <1>5, <1>6 DEF MonthSums
<1> QED BY <1>5, <1>7 DEF night, last

LEMMA MonthWalk ==
  ASSUME NEW days \in MonthStats
  PROVE  \E f \in [0..Len(days) -> MonthSums] :
           /\ f[0] = NoMonthSum
           /\ \A i \in 1..Len(days) : f[i] = StatsOver(f[i - 1], days[i])
           /\ Walked(StatsOver, NoMonthSum, days) = f[Len(days)]
<1> DEFINE n == Len(days)
           step == [i \in 1..n |-> [s \in MonthSums |-> StatsOver(s, days[i])]]
           Follows(f) == f = [i \in 0..n |-> IF i = 0 THEN NoMonthSum
                                              ELSE StatsOver(f[i - 1], days[i])]
           after == CHOOSE f : Follows(f)
<1>1. n \in Nat /\ \A i \in 1..n : days[i] \in DayStats
  BY DEF MonthStats
<1>2. NoMonthSum \in MonthSums
  BY DEF NoMonthSum, MonthSums
<1>3. ASSUME NEW i \in 1..n, NEW s \in MonthSums PROVE StatsOver(s, days[i]) \in MonthSums
  <2>1. days[i] \in DayStats
    BY <1>1
  <2> QED BY <2>1, StatsOverCounts
<1>4. step \in [1..n -> [MonthSums -> MonthSums]]
  BY <1>3
<1>5. PICK f \in Walks(MonthSums, NoMonthSum, n, step) : TRUE
  <2> HIDE DEF step, n
  <2> QED BY <1>1, <1>2, <1>4, WalkExists
<1>6. Follows(f)
  <2>1. f \in [0..n -> MonthSums] /\ f[0] = NoMonthSum
    BY <1>5 DEF Walks
  <2>2. ASSUME NEW i \in 1..n PROVE f[i] = StatsOver(f[i - 1], days[i])
    <3>1. f[i] = step[i][f[i - 1]] /\ f[i - 1] \in MonthSums
      <4>1. i - 1 \in 0..n
        BY <1>1
      <4> HIDE DEF step, n
      <4> QED BY <1>5, <4>1 DEF Walks
    <3> QED BY <3>1
  <2> HIDE DEF n
  <2>3. \A i \in 0..n : f[i] = IF i = 0 THEN NoMonthSum ELSE StatsOver(f[i - 1], days[i])
    BY <1>1, <2>1, <2>2
  <2> QED BY <2>1, <2>3
<1>7. Follows(after)
  <2> HIDE DEF Follows
  <2> QED BY <1>6
<1> HIDE DEF after
<1>8. /\ DOMAIN after = 0..n /\ after[0] = NoMonthSum
      /\ \A i \in 1..n : after[i] = StatsOver(after[i - 1], days[i])
  <2> HIDE DEF n
  <2>1. DOMAIN after = 0..n
    BY <1>7
  <2>2. \A i \in 0..n : after[i] = IF i = 0 THEN NoMonthSum ELSE StatsOver(after[i - 1], days[i])
    BY <1>7
  <2> QED BY <1>1, <2>1, <2>2
<1>9. \A i \in 0..n : after[i] \in MonthSums
  <2>1. \A i \in 1..n : after[i - 1] \in MonthSums => after[i] \in MonthSums
    BY <1>3, <1>8
  <2> HIDE DEF n
  <2> QED BY <1>1, <1>2, <1>8, <2>1, WalkStays
<1>10. after = [i \in 0..n |-> after[i]]
  <2> HIDE DEF n
  <2> QED BY <1>1, <1>7
<1>11. after \in [0..n -> MonthSums]
  BY <1>9, <1>10
<1>12. Walked(StatsOver, NoMonthSum, days) = after[n]
  BY DEF after, Walked
<1> QED BY <1>8, <1>11, <1>12

\* The minutes of a sum.
Minutes == Nat

\* TrackedDay, one activity at a time.
Summed(sum, activity) == sum + Duration(activity)
Recorded(total, activities) ==
  Walked(LAMBDA sum, activity : sum + Duration(activity), total, activities)

LEMMA SummedCounts ==
  ASSUME NEW sum \in Minutes, NEW activity \in Activity
  PROVE  Summed(sum, activity) \in Minutes
<1>1. activity.start \in Times /\ activity.end \in Times
  BY DEF Activity
<1>2. Wrapped(activity.start, activity.end) \in Nat
  BY <1>1, WrappedCounts
<1> QED BY <1>2 DEF Summed, Duration, Minutes

LEMMA ActivitiesWalk ==
  ASSUME NEW total \in Minutes, NEW activities \in Seq(Activity)
  PROVE  \E f \in [0..Len(activities) -> Minutes] :
           /\ f[0] = total
           /\ \A i \in 1..Len(activities) : f[i] = Summed(f[i - 1], activities[i])
           /\ Recorded(total, activities) = f[Len(activities)]
<1> DEFINE n == Len(activities)
           step == [i \in 1..n |-> [s \in Minutes |-> Summed(s, activities[i])]]
           Follows(f) == f = [i \in 0..n |-> IF i = 0 THEN total
                                              ELSE Summed(f[i - 1], activities[i])]
           after == CHOOSE f : Follows(f)
<1>1. n \in Nat /\ \A i \in 1..n : activities[i] \in Activity
  OBVIOUS
<1>2. total \in Minutes
  OBVIOUS
<1>3. ASSUME NEW i \in 1..n, NEW s \in Minutes PROVE Summed(s, activities[i]) \in Minutes
  <2>1. activities[i] \in Activity
    BY <1>1
  <2> QED BY <2>1, SummedCounts
<1>4. step \in [1..n -> [Minutes -> Minutes]]
  BY <1>3
<1>5. PICK f \in Walks(Minutes, total, n, step) : TRUE
  <2> HIDE DEF step, n
  <2> QED BY <1>1, <1>2, <1>4, WalkExists
<1>6. Follows(f)
  <2>1. f \in [0..n -> Minutes] /\ f[0] = total
    BY <1>5 DEF Walks
  <2>2. ASSUME NEW i \in 1..n PROVE f[i] = Summed(f[i - 1], activities[i])
    <3>1. f[i] = step[i][f[i - 1]] /\ f[i - 1] \in Minutes
      <4>1. i - 1 \in 0..n
        BY <1>1
      <4> HIDE DEF step, n
      <4> QED BY <1>5, <4>1 DEF Walks
    <3> QED BY <3>1
  <2> HIDE DEF n
  <2>3. \A i \in 0..n : f[i] = IF i = 0 THEN total ELSE Summed(f[i - 1], activities[i])
    BY <1>1, <2>1, <2>2
  <2> QED BY <2>1, <2>3
<1>7. Follows(after)
  <2> HIDE DEF Follows
  <2> QED BY <1>6
<1> HIDE DEF after
<1>8. /\ DOMAIN after = 0..n /\ after[0] = total
      /\ \A i \in 1..n : after[i] = Summed(after[i - 1], activities[i])
  <2> HIDE DEF n
  <2>1. DOMAIN after = 0..n
    BY <1>7
  <2>2. \A i \in 0..n : after[i] = IF i = 0 THEN total ELSE Summed(after[i - 1], activities[i])
    BY <1>7
  <2> QED BY <1>1, <2>1, <2>2
<1>9. \A i \in 0..n : after[i] \in Minutes
  <2>1. \A i \in 1..n : after[i - 1] \in Minutes => after[i] \in Minutes
    BY <1>3, <1>8
  <2> HIDE DEF n
  <2> QED BY <1>1, <1>2, <1>8, <2>1, WalkStays
<1>10. after = [i \in 0..n |-> after[i]]
  <2> HIDE DEF n
  <2> QED BY <1>1, <1>7
<1>11. after \in [0..n -> Minutes]
  BY <1>9, <1>10
<1>12. Recorded(total, activities) = after[n]
  BY DEF after, Walked, Recorded, Summed
<1> QED BY <1>8, <1>11, <1>12

LEMMA TrackedDayCounts ==
  ASSUME NEW total \in Minutes, NEW day, day.activities \in Seq(Activity)
  PROVE  /\ TrackedDay(total, day) \in Minutes
         /\ TrackedDay(total, day) = Recorded(total, day.activities)
<1>1. TrackedDay(total, day) = Recorded(total, day.activities)
  BY DEF TrackedDay, Recorded
<1> DEFINE activities == day.activities
           n == Len(activities)
<1>2. activities \in Seq(Activity) /\ n \in 0 .. n
  OBVIOUS
<1> HIDE DEF activities
<1>3. PICK f \in [0 .. n -> Minutes] : Recorded(total, activities) = f[n]
  BY <1>2, ActivitiesWalk
<1> HIDE DEF n
<1>4. f[n] \in Minutes
  BY <1>2
<1> QED BY <1>1, <1>3, <1>4 DEF activities

\* A day of any date, as an ingest converts it.
ConvertedDay == [date : Nat, wake : Times \cup {NoTime}, activities : Seq(Activity)]

LEMMA ConvertedDayCounts ==
  ASSUME NEW total \in Minutes, NEW day \in ConvertedDay
  PROVE  TrackedDay(total, day) \in Minutes
  BY TrackedDayCounts DEF ConvertedDay

LEMMA TrackedWalk ==
  ASSUME NEW days \in Seq(ConvertedDay)
  PROVE  \E f \in [0..Len(days) -> Minutes] :
           /\ f[0] = 0
           /\ \A i \in 1..Len(days) : f[i] = TrackedDay(f[i - 1], days[i])
           /\ Walked(TrackedDay, 0, days) = f[Len(days)]
<1> DEFINE n == Len(days)
           step == [i \in 1..n |-> [s \in Minutes |-> TrackedDay(s, days[i])]]
           Follows(f) == f = [i \in 0..n |-> IF i = 0 THEN 0
                                              ELSE TrackedDay(f[i - 1], days[i])]
           after == CHOOSE f : Follows(f)
<1>1. n \in Nat /\ \A i \in 1..n : days[i] \in ConvertedDay
  OBVIOUS
<1>2. 0 \in Minutes
  BY DEF Minutes
<1>3. ASSUME NEW i \in 1..n, NEW s \in Minutes PROVE TrackedDay(s, days[i]) \in Minutes
  <2>1. days[i] \in ConvertedDay
    BY <1>1
  <2> QED BY <2>1, ConvertedDayCounts
<1>4. step \in [1..n -> [Minutes -> Minutes]]
  BY <1>3
<1>5. PICK f \in Walks(Minutes, 0, n, step) : TRUE
  <2> HIDE DEF step, n
  <2> QED BY <1>1, <1>2, <1>4, WalkExists
<1>6. Follows(f)
  <2>1. f \in [0..n -> Minutes] /\ f[0] = 0
    BY <1>5 DEF Walks
  <2>2. ASSUME NEW i \in 1..n PROVE f[i] = TrackedDay(f[i - 1], days[i])
    <3>1. f[i] = step[i][f[i - 1]] /\ f[i - 1] \in Minutes
      <4>1. i - 1 \in 0..n
        BY <1>1
      <4> HIDE DEF step, n
      <4> QED BY <1>5, <4>1 DEF Walks
    <3> QED BY <3>1
  <2> HIDE DEF n
  <2>3. \A i \in 0..n : f[i] = IF i = 0 THEN 0 ELSE TrackedDay(f[i - 1], days[i])
    BY <1>1, <2>1, <2>2
  <2> QED BY <2>1, <2>3
<1>7. Follows(after)
  <2> HIDE DEF Follows
  <2> QED BY <1>6
<1> HIDE DEF after
<1>8. /\ DOMAIN after = 0..n /\ after[0] = 0
      /\ \A i \in 1..n : after[i] = TrackedDay(after[i - 1], days[i])
  <2> HIDE DEF n
  <2>1. DOMAIN after = 0..n
    BY <1>7
  <2>2. \A i \in 0..n : after[i] = IF i = 0 THEN 0 ELSE TrackedDay(after[i - 1], days[i])
    BY <1>7
  <2> QED BY <1>1, <2>1, <2>2
<1>9. \A i \in 0..n : after[i] \in Minutes
  <2>1. \A i \in 1..n : after[i - 1] \in Minutes => after[i] \in Minutes
    BY <1>3, <1>8
  <2> HIDE DEF n
  <2> QED BY <1>1, <1>2, <1>8, <2>1, WalkStays
<1>10. after = [i \in 0..n |-> after[i]]
  <2> HIDE DEF n
  <2> QED BY <1>1, <1>7
<1>11. after \in [0..n -> Minutes]
  BY <1>9, <1>10
<1>12. Walked(TrackedDay, 0, days) = after[n]
  BY DEF after, Walked
<1> QED BY <1>8, <1>11, <1>12

-----------------------------------------------------------------------------
(* Both readers of a text see the same days.                               *)

\* What the second reader has made of a day.
Alike(log, day) ==
  /\ day.events = log.events
  /\ log.events = <<>> => log.wake = NoTime /\ day.wake = NoTime /\ ~day.continues
  /\ log.events # <<>> /\ log.events[1].name = "wake" =>
       log.wake = log.events[1].time /\ day.wake = log.wake /\ ~day.continues
  /\ log.events # <<>> /\ log.events[1].name # "wake" =>
       log.wake = NoTime /\ day.continues /\ (WakeFirst(log) => day.wake = NoTime)

AllAlike(logs, days) ==
  /\ Len(logs) = Len(days)
  /\ \A i \in 1 .. Len(logs) : Alike(logs[i], days[i])

LEMMA EventfulIs ==
  ASSUME NEW log \in Log, NEW line \in Line, line.is = "event"
  PROVE  /\ Eventful(log, line) \in Log
         /\ Eventful(log, line).events =
              Append(log.events, [time |-> line.time, name |-> line.name])
         /\ Eventful(log, line).wake =
              IF line.name = "wake" /\ log.events = <<>> THEN line.time ELSE log.wake
<1> DEFINE woken == WakeSet(log, line)
           events == Append(log.events, [time |-> line.time, name |-> line.name])
<1>1. line.time \in Times /\ [time |-> line.time, name |-> line.name] \in Happening
  BY LineKinds DEF Happening
<1>2. /\ woken \in Log
      /\ woken.wake = IF line.name = "wake" /\ log.events = <<>> THEN line.time ELSE log.wake
  BY <1>1 DEF WakeSet, Log
<1>3. events \in Seq(Happening)
  BY <1>1 DEF Log, Happening
<1>4. Eventful(log, line) = [woken EXCEPT !.events = events]
  BY DEF Eventful
<1> HIDE DEF woken, events
<1>5. /\ Eventful(log, line) \in Log
      /\ Eventful(log, line).wake = woken.wake
      /\ Eventful(log, line).events = events
  BY <1>2, <1>3, <1>4 DEF Log, Happening
<1> QED BY <1>2, <1>5 DEF events

LEMMA AppendHead ==
  ASSUME NEW seq \in Seq(Happening), NEW event \in Happening
  PROVE  /\ Append(seq, event) # <<>> /\ Append(seq, event) \in Seq(Happening)
         /\ Append(seq, event)[1] = IF seq = <<>> THEN event ELSE seq[1]
         /\ Len(Append(seq, event)) = Len(seq) + 1
         /\ Append(seq, event)[Len(seq) + 1] = event
         /\ \A i \in 1 .. Len(seq) : Append(seq, event)[i] = seq[i]
<1> DEFINE n == Len(seq)
           more == Append(seq, event)
<1>1. /\ n \in Nat /\ more \in Seq(Happening) /\ Len(more) = n + 1 /\ more[n + 1] = event
      /\ \A i \in 1 .. n : more[i] = seq[i]
  BY AppendProperties
<1>2. (seq = <<>> /\ n = 0) \/ (seq # <<>> /\ n >= 1)
  OBVIOUS
<1> HIDE DEF n, more
<1>3. more # <<>>
  BY <1>1
<1>4. more[1] = IF seq = <<>> THEN event ELSE seq[1]
  BY <1>1, <1>2
<1> QED BY <1>1, <1>3, <1>4 DEF n, more

LEMMA EventKeepsAlike ==
  ASSUME NEW log \in Log, NEW day \in DayStats, Alike(log, day),
         NEW line \in Line, line.is = "event"
  PROVE  Alike(Eventful(log, line), StatsEvent(day, line))
<1> DEFINE event == [time |-> line.time, name |-> line.name]
           events == log.events
           more == Append(events, event)
           newer == Eventful(log, line)
           next == StatsEvent(day, line)
<1>1. /\ event \in Happening /\ event.time = line.time /\ event.name = line.name
      /\ line.time \in Times /\ events \in Seq(Happening) /\ day.events = events
  BY LineKinds DEF Happening, Log, Alike
<1>2. /\ newer \in Log /\ newer.events = more
      /\ newer.wake = IF line.name = "wake" /\ events = <<>> THEN line.time ELSE log.wake
  BY EventfulIs
<1>3. /\ next.events = more
      /\ next.wake = IF line.name = "wake" /\ day.wake = NoTime THEN line.time ELSE day.wake
      /\ next.continues =
           (day.continues \/ (line.name # "wake" /\ day.wake = NoTime /\ events = <<>>))
  BY <1>1, StatsEventCounts
<1>4. /\ more # <<>> /\ Len(more) = Len(events) + 1 /\ more[Len(events) + 1] = event
      /\ more[1] = IF events = <<>> THEN event ELSE events[1]
      /\ \A i \in 1 .. Len(events) : more[i] = events[i]
      /\ Len(events) \in Nat /\ more \in Seq(Happening)
  <2> HIDE DEF events, event
  <2> QED BY <1>1, AppendHead
<1>5. line.time # NoTime
  BY <1>1, NoTimeAssumption
<1>6. /\ events = <<>> => log.wake = NoTime /\ day.wake = NoTime /\ ~day.continues
      /\ events # <<>> /\ events[1].name = "wake" =>
           log.wake = events[1].time /\ day.wake = log.wake /\ ~day.continues
      /\ events # <<>> /\ events[1].name # "wake" =>
           log.wake = NoTime /\ day.continues /\ (WakeFirst(log) => day.wake = NoTime)
  BY DEF Alike
<1>7. events # <<>> => events[1].time # NoTime
  <2> SUFFICES ASSUME events # <<>> PROVE events[1].time # NoTime
    OBVIOUS
  <2> HIDE DEF events
  <2>1. events[1] \in Happening
    BY <1>1
  <2> QED BY <2>1, NoTimeAssumption DEF Happening
<1>8. WakeFirst(newer) /\ events # <<>> => WakeFirst(log) /\ line.name # "wake"
  <2> SUFFICES ASSUME WakeFirst(newer), events # <<>> PROVE WakeFirst(log) /\ line.name # "wake"
    OBVIOUS
  <2> DEFINE n == Len(events)
  <2>1. /\ DOMAIN more = 1 .. n + 1 /\ n \in Nat /\ DOMAIN events = 1 .. n /\ n # 0
    BY <1>1, <1>4
  <2>2. \A i \in 1 .. n + 1 : more[i].name = "wake" => i = 1
    BY <1>2, <2>1 DEF WakeFirst
  <2> HIDE DEF more, event, events
  <2>3. \A i \in 1 .. n : events[i].name = "wake" => i = 1
    <3> TAKE i \in 1 .. n
    <3>1. i \in 1 .. n + 1 /\ more[i] = events[i]
      BY <1>4, <2>1
    <3> QED BY <2>2, <3>1
  <2>4. line.name # "wake"
    <3>1. n + 1 \in 1 .. n + 1 /\ n + 1 # 1
      BY <2>1
    <3>2. more[n + 1].name # "wake"
      BY <2>2, <3>1
    <3> QED BY <1>1, <1>4, <3>2
  <2>5. WakeFirst(log)
    BY <2>1, <2>3 DEF WakeFirst, events
  <2> QED BY <2>4, <2>5
<1> HIDE DEF more, newer, next, event, events
<1>9. more[1].name = IF events = <<>> THEN line.name ELSE events[1].name
  BY <1>1, <1>4
<1>10. more[1].time = IF events = <<>> THEN line.time ELSE events[1].time
  BY <1>1, <1>4
<1>11. more[1].name = "wake" => newer.wake = more[1].time /\ next.wake = newer.wake /\ ~next.continues
  BY <1>2, <1>3, <1>5, <1>6, <1>7, <1>9, <1>10
<1>12. more[1].name # "wake" => newer.wake = NoTime /\ next.continues
  BY <1>2, <1>3, <1>6, <1>9
<1>13. more[1].name # "wake" /\ WakeFirst(newer) => next.wake = NoTime
  BY <1>3, <1>6, <1>8, <1>9
<1>14. Alike(newer, next)
  BY <1>2, <1>3, <1>4, <1>11, <1>12, <1>13 DEF Alike
<1> QED BY <1>14 DEF newer, next

LEMMA AllAlikeDay ==
  ASSUME NEW logs \in Seq(Log), NEW days \in MonthStats, AllAlike(logs, days),
         NEW log \in Log, log.events = <<>>, log.wake = NoTime
  PROVE  AllAlike(Append(logs, log), Append(days, StatsDay))
<1> DEFINE n == Len(logs)
           more == Append(logs, log)
           next == Append(days, StatsDay)
<1>1. StatsDay \in DayStats /\ Alike(log, StatsDay)
  BY DEF StatsDay, DayStats, Alike
<1>2. n \in Nat /\ Len(days) = n /\ \A i \in 1 .. n : Alike(logs[i], days[i])
  BY DEF AllAlike
<1>3. /\ Len(more) = n + 1 /\ more[n + 1] = log /\ \A i \in 1 .. n : more[i] = logs[i]
  BY AppendProperties
<1>4. /\ Len(next) = n + 1 /\ next[n + 1] = StatsDay /\ \A i \in 1 .. n : next[i] = days[i]
  BY <1>1, <1>2, AppendProperties DEF MonthStats
<1> HIDE DEF n, more, next
<1>5. ASSUME NEW i \in 1 .. n + 1 PROVE Alike(more[i], next[i])
  <2>1. CASE i = n + 1
    BY <1>1, <1>3, <1>4, <2>1
  <2>2. CASE i # n + 1
    <3>1. i \in 1 .. n
      BY <1>2, <2>2
    <3> QED BY <1>2, <1>3, <1>4, <3>1
  <2> QED BY <2>1, <2>2
<1>6. AllAlike(more, next)
  BY <1>3, <1>4, <1>5 DEF AllAlike
<1> QED BY <1>6 DEF more, next

LEMMA AllAlikeEvent ==
  ASSUME NEW logs \in Seq(Log), NEW log \in Log, NEW days \in MonthStats,
         AllAlike(Append(logs, log), days), NEW line \in Line, line.is = "event"
  PROVE  AllAlike(Append(logs, Eventful(log, line)), StatsLine(days, line))
<1> DEFINE n == Len(logs)
           old == Append(logs, log)
           newer == Eventful(log, line)
           more == Append(logs, newer)
           event == StatsEvent(days[n + 1], line)
           next == StatsLine(days, line)
<1>1. newer \in Log
  BY EventfulIs
<1>2. n \in Nat /\ Len(old) = n + 1 /\ old[n + 1] = log /\ \A i \in 1 .. n : old[i] = logs[i]
  BY AppendProperties
<1>3. Len(more) = n + 1 /\ more[n + 1] = newer /\ \A i \in 1 .. n : more[i] = logs[i]
  BY <1>1, AppendProperties
<1>4. Len(days) = n + 1 /\ \A i \in 1 .. n + 1 : Alike(old[i], days[i])
  BY <1>2 DEF AllAlike
<1>5. days \in [1 .. n + 1 -> DayStats] /\ n + 1 \in 1 .. n + 1 /\ days # <<>>
  BY <1>2, <1>4 DEF MonthStats
<1>6. Alike(newer, event)
  <2>1. Alike(log, days[n + 1]) /\ days[n + 1] \in DayStats
    BY <1>2, <1>4, <1>5
  <2> QED BY <2>1, EventKeepsAlike
<1>7. next = [days EXCEPT ![n + 1] = event]
  BY <1>4, <1>5 DEF StatsLine
<1>8. next \in MonthStats
  BY StatsLineCounts
<1> HIDE DEF n, old, newer, more, event, next
<1>9. /\ DOMAIN next = 1 .. n + 1 /\ next[n + 1] = event
      /\ \A i \in 1 .. n : next[i] = days[i]
  BY <1>2, <1>5, <1>7
<1>10. Len(next) = n + 1
  BY <1>2, <1>8, <1>9 DEF MonthStats
<1>11. ASSUME NEW i \in 1 .. n + 1 PROVE Alike(more[i], next[i])
  <2>1. CASE i = n + 1
    BY <1>3, <1>6, <1>9, <2>1
  <2>2. CASE i # n + 1
    <3>1. i \in 1 .. n
      BY <1>2, <2>2
    <3>2. Alike(old[i], days[i])
      BY <1>4
    <3> QED BY <1>2, <1>3, <1>9, <3>1, <3>2
  <2> QED BY <2>1, <2>2
<1>12. AllAlike(more, next)
  BY <1>3, <1>10, <1>11 DEF AllAlike
<1> QED BY <1>12 DEF more, newer, next

LEMMA LineKeepsAlike ==
  ASSUME NEW p \in Parser, NEW line \in Line, NEW days \in MonthStats,
         AllAlike(HandOver(p), days), ~ParseLine(p, line).thrown,
         line.is # "blank" => ParseLine(p, line).year
  PROVE  AllAlike(HandOver(ParseLine(p, line)), StatsLine(days, line))
<1> DEFINE q == ParseLine(p, line)
<1>1. ~p.thrown
  BY DEF ParseLine
<1>2. p.days \in Seq(Log) /\ p.log \in Log \cup {NoLog} /\ p.month \in Nat
  BY DEF Parser
<1>3. CASE line.is = "date"
  <2> DEFINE log == [date |-> line.day, month |-> p.month, wake |-> NoTime, events |-> <<>>]
  <2>1. q = BeginDay(p, line)
    BY <1>1, <1>3 DEF ParseLine
  <2>2. p.month # 0
    <3> SUFFICES ASSUME p.month = 0 PROVE FALSE
      OBVIOUS
    <3>1. q = [p EXCEPT !.thrown = TRUE]
      BY <2>1 DEF BeginDay
    <3>2. q.thrown
      BY <3>1 DEF Parser
    <3> QED BY <3>2
  <2>3. q = [p EXCEPT !.days = HandOver(p), !.log = log]
    BY <2>1, <2>2 DEF BeginDay
  <2>4. log \in Log /\ log.events = <<>> /\ log.wake = NoTime
    BY <1>2, <1>3, LineKinds DEF Log
  <2>5. StatsLine(days, line) = Append(days, StatsDay)
    BY <1>3 DEF StatsLine
  <2> HIDE DEF log, q
  <2>6. q.days = HandOver(p) /\ q.log = log /\ log # NoLog
    BY <2>3, <2>4, NoLogIsNone DEF Parser
  <2>7. HandOver(q) = Append(HandOver(p), log)
    BY <2>6 DEF HandOver
  <2>8. AllAlike(HandOver(q), StatsLine(days, line))
    BY <2>4, <2>5, <2>7, HandedOver, AllAlikeDay
  <2> QED BY <2>8 DEF q
<1>4. CASE line.is = "event"
  <2>1. p.year
    BY <1>4 DEF ParseLine
  <2>2. q = ParseContent(p, line)
    BY <1>1, <1>4, <2>1, Zenon DEF ParseLine
  <2>3. p.log # NoLog /\ p.log \in Log
    <3> SUFFICES ASSUME p.log = NoLog PROVE FALSE
      BY <1>2
    <3>1. q = [p EXCEPT !.thrown = TRUE]
      BY <1>4, <2>2 DEF ParseContent
    <3>2. q.thrown
      BY <3>1 DEF Parser
    <3> QED BY <3>2
  <2> DEFINE log == Eventful(p.log, line)
  <2>4. log \in Log /\ log # NoLog
    BY <1>4, <2>3, EventfulIs, NoLogIsNone
  <2>5. q = [p EXCEPT !.log = log]
    <3> DEFINE woken == WakeSet(p.log, line)
    <3>1. woken.events = p.log.events
      BY <2>3 DEF WakeSet, Log
    <3>2. q = [p EXCEPT !.log = [woken EXCEPT !.events =
                 Append(woken.events, [time |-> line.time, name |-> line.name])]]
      <4>1. line.is \notin {"remark", "prefix"}
        BY <1>4
      <4> QED BY <1>4, <2>2, <2>3, <4>1 DEF ParseContent
    <3> HIDE DEF q, woken
    <3> QED BY <3>1, <3>2 DEF Eventful, woken
  <2> HIDE DEF log, q
  <2>6. HandOver(p) = Append(p.days, p.log) /\ HandOver(q) = Append(p.days, log)
    BY <2>3, <2>4, <2>5 DEF HandOver, Parser
  <2>7. AllAlike(Append(p.days, log), StatsLine(days, line))
    BY <1>2, <1>4, <2>3, <2>6, AllAlikeEvent DEF log
  <2> QED BY <2>6, <2>7 DEF q
<1>5. CASE line.is \notin {"date", "event"}
  <2>1. StatsLine(days, line) = days
    BY <1>5 DEF StatsLine
  <2>2. q.log = p.log /\ q.days = p.days
    <3>1. CASE q = p
      BY <3>1
    <3>2. CASE q = [p EXCEPT !.year = TRUE, !.month = 0]
      <4> HIDE DEF q
      <4> QED BY <3>2 DEF Parser
    <3>3. CASE q = [p EXCEPT !.month = line.month]
      <4> HIDE DEF q
      <4> QED BY <3>3 DEF Parser
    <3>4. CASE q = ParseContent(p, line)
      <4>1. CASE line.is \in {"remark", "prefix"}
        BY <3>4, <4>1 DEF ParseContent
      <4>2. CASE line.is \notin {"remark", "prefix"}
        <5>1. q = [p EXCEPT !.thrown = TRUE]
          BY <1>5, <3>4, <4>2 DEF ParseContent
        <5>2. q.thrown
          BY <5>1 DEF Parser
        <5> QED BY <5>2
      <4> QED BY <4>1, <4>2
    <3> QED BY <1>5, <3>1, <3>2, <3>3, <3>4, Zenon DEF ParseLine
  <2> HIDE DEF q
  <2>3. HandOver(q) = HandOver(p)
    BY <2>2 DEF HandOver
  <2> QED BY <2>1, <2>3 DEF q
<1> QED BY <1>3, <1>4, <1>5

LEMMA AcceptedIsAlike ==
  ASSUME NEW text \in Seq(Line), Accepts(text)
  PROVE  AllAlike(Logs(text), StatsDays(text)) /\ StatsDays(text) \in MonthStats
<1> DEFINE n == Len(text)
<1>1. n \in Nat /\ text \in Texts /\ \A i \in 1 .. n : text[i] \in Line
  BY DEF Texts
<1>2. PICK p : /\ Readable(text, p) /\ Parsed(text) = p[n]
               /\ \A i \in 1 .. n : text[i].is # "blank" => p[i].year
  BY <1>1, AcceptedIsReadable
<1>3. PICK f \in [0 .. n -> MonthStats] :
        /\ f[0] = NoStats
        /\ \A i \in 1 .. n : f[i] = StatsLine(f[i - 1], text[i])
        /\ StatsDays(text) = f[n]
  BY StatsWalk
<1>4. /\ p \in [0 .. n -> Parser] /\ p[0] = Unparsed
      /\ \A i \in 1 .. n : p[i] = ParseLine(p[i - 1], text[i])
      /\ \A i \in 0 .. n : ~p[i].thrown
  BY <1>2 DEF Readable
<1> HIDE DEF n
<1> DEFINE S == {i \in 0 .. n : AllAlike(HandOver(p[i]), f[i])}
<1>5. 0 \in S
  <2>1. HandOver(Unparsed) = <<>>
    BY DEF HandOver, Unparsed
  <2>2. AllAlike(<<>>, NoStats)
    BY DEF AllAlike, NoStats
  <2> QED BY <1>1, <1>3, <1>4, <2>1, <2>2
<1>6. ASSUME NEW k \in 0 .. n - 1, k \in S PROVE k + 1 \in S
  <2>1. k + 1 \in 1 .. n /\ k + 1 - 1 = k /\ k \in 0 .. n /\ k + 1 \in 0 .. n
    BY <1>1
  <2>2. /\ p[k + 1] = ParseLine(p[k], text[k + 1]) /\ f[k + 1] = StatsLine(f[k], text[k + 1])
        /\ p[k] \in Parser /\ f[k] \in MonthStats /\ text[k + 1] \in Line
        /\ ~p[k + 1].thrown /\ (text[k + 1].is # "blank" => p[k + 1].year)
    BY <1>1, <1>2, <1>3, <1>4, <2>1
  <2>3. AllAlike(HandOver(p[k]), f[k])
    BY <1>6
  <2>4. AllAlike(HandOver(p[k + 1]), f[k + 1])
    BY <2>2, <2>3, LineKeepsAlike
  <2> QED BY <2>1, <2>4
<1> HIDE DEF S
<1>7. \A i \in 0 .. n : i \in S
  BY <1>1, <1>5, <1>6, EveryLineUpTo
<1>8. n \in S /\ n \in 0 .. n
  BY <1>1, <1>7
<1> QED BY <1>2, <1>3, <1>8 DEF S, Logs

-----------------------------------------------------------------------------
(* Both sums of a month are the same.                                      *)

\* The night before day i, in minutes.
NightBefore(logs, i) ==
  IF Bedtime(logs, i) # NoTime /\ logs[i].wake # NoTime
  THEN Wrapped(Bedtime(logs, i), logs[i].wake) ELSE 0

\* A day adds to both sums the same: the night before it and its activities.
LEMMA DayIsTracked ==
  ASSUME NEW logs \in Seq(Log), Wakes(logs), NEW i \in 1 .. Len(logs),
         NEW day \in DayStats, Alike(logs[i], day), NEW total \in Minutes
  PROVE  LET sum == [last |-> Bedtime(logs, i), total |-> total]
         IN  /\ sum \in MonthSums
             /\ StatsOver(sum, day) =
                  [last |-> LastTime(logs[i]),
                   total |-> Recorded(total, ActivitiesOf(BlocksOf(logs), i))]
             /\ ActivitiesOf(BlocksOf(logs), i) \in Seq(Activity)
<1> DEFINE log == logs[i]
           events == log.events
           n == Len(events)
           o == Shift(log)
           l == n - o
           before == Bedtime(logs, i)
           rising == Rising(logs, i)
           night == Night(BlocksOf(logs), i)
           w == Len(night)
           mapped == Mapped(BlocksOf(logs), i)
           acts == night \o mapped
           sum == [last |-> before, total |-> total]
           slept == NightBefore(logs, i)
<1>1. Woken(log) /\ log \in Log /\ events \in Seq(Happening) /\ events # <<>>
  BY DEF Wakes, Woken, Log, Happening
<1>2. /\ night = IF before # NoTime /\ log.wake # NoTime
                 THEN <<Generated(before, log.wake)>> ELSE <<>>
      /\ before \in Times \cup {NoTime} /\ rising \in Times
      /\ mapped \in Seq(Activity) /\ Len(mapped) = l
      /\ \A j \in 1 .. l :
           /\ mapped[j].start = IF j = 1 THEN rising ELSE events[j + o - 1].time
           /\ mapped[j].end = events[j + o].time
  BY DayActivities
<1>3. /\ rising = IF log.wake = NoTime THEN before ELSE log.wake
      /\ o = IF log.wake = NoTime THEN 0 ELSE 1
      /\ log.wake = NoTime => events[1].name # "wake"
      /\ log.wake # NoTime => events[1].name = "wake" /\ events[1].time = log.wake
      /\ \A k \in 2 .. n : events[k].name # "wake"
      /\ log.wake \in Times \cup {NoTime}
  BY <1>1 DEF Rising, Shift, Woken, Log
<1>4. /\ n \in Nat \ {0} /\ l \in Nat /\ DOMAIN events = 1 .. n
      /\ \A k \in 1 .. n : events[k] \in Happening /\ events[k].time \in Times
  <2> HIDE DEF events
  <2>1. n \in Nat \ {0} /\ DOMAIN events = 1 .. n /\ \A k \in 1 .. n : events[k] \in Happening
    BY <1>1
  <2>2. l \in Nat
    BY <1>3, <2>1
  <2> QED BY <2>1, <2>2 DEF Happening
<1>5. WakeFirst(log)
  <2>1. \A k \in 1 .. n : events[k].name = "wake" => k = 1
    BY <1>3, <1>4
  <2> HIDE DEF n
  <2> QED BY <1>4, <2>1 DEF WakeFirst
<1>6. /\ day.events = events /\ day.wake = log.wake
      /\ day.continues = (log.wake = NoTime)
  <2>1. day.continues \in BOOLEAN
    BY DEF DayStats
  <2> HIDE DEF events
  <2>2. /\ day.events = events
        /\ events[1].name = "wake" => day.wake = log.wake /\ ~day.continues
        /\ events[1].name # "wake" => day.continues /\ day.wake = NoTime
    BY <1>1, <1>5 DEF Alike, events
  <2> QED BY <1>3, <2>1, <2>2
<1> HIDE DEF log, events, n, o, before, rising, night, mapped, slept
<1>7. sum \in MonthSums
  BY <1>2 DEF MonthSums, Minutes
<1>8. slept = IF before # NoTime /\ log.wake # NoTime THEN Wrapped(before, log.wake) ELSE 0
  BY DEF slept, NightBefore, before, log
<1>9. slept \in Nat
  BY <1>2, <1>3, <1>8, WrappedCounts
<1>10. DaySum(sum, day) = Walked(StatsAdd, NoSum(rising), events)
  <2>1. (IF day.continues /\ sum.last # NoTime THEN sum.last ELSE day.wake) = rising
    BY <1>2, <1>3, <1>6, NoTimeAssumption
  <2> HIDE DEF sum
  <2> QED BY <1>6, <2>1 DEF DaySum
<1>11. StatsOver(sum, day) = [last |-> LastTime(log), total |-> total + slept + DaySum(sum, day).total]
  <2>1. StatsOver(sum, day) =
              [last |-> IF day.events = <<>> THEN sum.last
                        ELSE day.events[Len(day.events)].time,
               total |-> sum.total
                         + (IF sum.last # NoTime /\ day.wake # NoTime /\ ~day.continues
                            THEN Wrapped(sum.last, day.wake) ELSE 0)
                         + DaySum(sum, day).total]
    BY <1>7, StatsOverCounts
  <2>2. (IF day.events = <<>> THEN sum.last ELSE day.events[Len(day.events)].time) = LastTime(log)
    BY <1>1, <1>6 DEF LastTime, events
  <2>3. (IF sum.last # NoTime /\ day.wake # NoTime /\ ~day.continues
         THEN Wrapped(sum.last, day.wake) ELSE 0) = slept
    BY <1>6, <1>8
  <2> DEFINE mine == DaySum(sum, day).total
  <2>4. sum.total = total
    OBVIOUS
  <2> HIDE DEF mine, sum
  <2> QED BY <2>1, <2>2, <2>3, <2>4 DEF mine
<1>12. PICK e \in [0 .. n -> EventSums] :
         /\ e[0] = NoSum(rising)
         /\ \A k \in 1 .. n : e[k] = StatsAdd(e[k - 1], events[k])
         /\ DaySum(sum, day) = e[n]
  <2>1. rising \in Times \cup {NoTime}
    BY <1>2
  <2> HIDE DEF sum
  <2> QED BY <1>1, <1>10, <2>1, EventsWalk DEF n
<1>13. /\ night \in Seq(Activity) /\ w \in {0, 1}
       /\ w = 0 => slept = 0
       /\ w = 1 => Duration(night[1]) = slept
  <2>1. CASE before # NoTime /\ log.wake # NoTime
    <3> DEFINE a == Generated(before, log.wake)
    <3>1. a \in Activity /\ Duration(a) = slept
      BY <1>2, <1>3, <1>8, <2>1 DEF Generated, Activity, Duration
    <3>2. night = <<a>>
      BY <1>2, <2>1
    <3> HIDE DEF a
    <3> QED BY <3>1, <3>2
  <2>2. CASE ~(before # NoTime /\ log.wake # NoTime)
    BY <1>2, <1>8, <2>2
  <2> QED BY <2>1, <2>2
<1>14. /\ acts \in Seq(Activity) /\ Len(acts) = w + l
       /\ \A k \in 1 .. w : acts[k] = night[k]
       /\ \A j \in 1 .. l : acts[w + j] = mapped[j]
  <2>1. acts \in Seq(Activity) /\ Len(acts) = w + l
    BY <1>2, <1>13, ConcatProperties
  <2>2. \A k \in 1 .. w : acts[k] = night[k]
    BY <1>2, <1>13, ConcatProperties
  <2>3. ASSUME NEW j \in 1 .. l PROVE acts[w + j] = mapped[j]
    <3>1. w + j \in Nat /\ w + j > w /\ w + j <= w + l /\ (w + j) - w = j
      BY <1>4, <1>13
    <3> QED BY <1>2, <1>13, <3>1, ConcatProperties
  <2> QED BY <2>1, <2>2, <2>3
<1> HIDE DEF w, acts, l
<1>15. PICK h \in [0 .. w + l -> Minutes] :
         /\ h[0] = total
         /\ \A k \in 1 .. w + l : h[k] = Summed(h[k - 1], acts[k])
         /\ Recorded(total, acts) = h[w + l]
  <2>1. \E h \in [0 .. Len(acts) -> Minutes] :
          /\ h[0] = total
          /\ \A k \in 1 .. Len(acts) : h[k] = Summed(h[k - 1], acts[k])
          /\ Recorded(total, acts) = h[Len(acts)]
    BY <1>14, ActivitiesWalk
  <2>2. Len(acts) = w + l
    BY <1>14
  <2> QED BY <2>1, <2>2, Zenon
<1>16. h[w] = total + slept
  <2>1. CASE w = 0
    BY <1>13, <1>15, <2>1 DEF Minutes
  <2>2. CASE w = 1
    <3>1. 1 \in 1 .. w + l /\ 1 \in 1 .. w
      BY <1>4, <2>2
    <3>2. h[1] = Summed(h[0], acts[1]) /\ acts[1] = night[1]
      BY <1>14, <1>15, <3>1
    <3> QED BY <1>13, <1>15, <2>2, <3>2 DEF Summed
  <2> QED BY <1>13, <2>1, <2>2
<1>17. /\ o \in {0, 1} /\ n = l + o
       /\ e[o].from = rising /\ e[o].total = 0
  <2>1. o \in {0, 1} /\ n = l + o
    BY <1>3, <1>4 DEF l
  <2>2. e[0].from = rising /\ e[0].total = 0
    BY <1>12 DEF NoSum
  <2>3. CASE o = 0
    BY <2>1, <2>2, <2>3
  <2>4. CASE o = 1
    <3>1. 1 \in 1 .. n /\ events[1].name = "wake"
      BY <1>3, <1>4, <2>4
    <3>2. e[1] = StatsAdd(e[0], events[1]) /\ e[0] \in EventSums /\ rising # NoTime
      BY <1>2, <1>4, <1>12, <3>1, NoTimeAssumption
    <3>3. e[1] = e[0]
      BY <2>2, <3>1, <3>2 DEF StatsAdd, EventSums
    <3> QED BY <2>1, <2>2, <2>4, <3>3
  <2> QED BY <2>1, <2>3, <2>4
<1> DEFINE S == {j \in 0 .. l : /\ h[w + j] = total + slept + e[o + j].total
                                /\ e[o + j].from = IF j = 0 THEN rising ELSE events[o + j].time}
<1>18. 0 \in S
  <2>1. w + 0 = w /\ o + 0 = o /\ 0 \in 0 .. l
    BY <1>4, <1>13, <1>17
  <2>2. total + slept + 0 = total + slept
    BY <1>9 DEF Minutes
  <2> QED BY <1>16, <1>17, <2>1, <2>2
<1>19. ASSUME NEW k \in 0 .. l - 1, k \in S PROVE k + 1 \in S
  <2> DEFINE x == e[o + k]
             y == events[o + k + 1]
             a == mapped[k + 1]
  <2>1. /\ k \in Nat /\ k + 1 \in 1 .. l /\ k + 1 \in 0 .. l
        /\ o + k + 1 \in 1 .. n /\ (o + k + 1) - 1 = o + k /\ o + k \in 0 .. n
        /\ w + (k + 1) \in 1 .. w + l /\ w + (k + 1) - 1 = w + k /\ w + k \in 0 .. w + l
        /\ o + (k + 1) = o + k + 1 /\ (k + 1) + o = o + k + 1 /\ (k + 1) + o - 1 = o + k
        /\ o + k \in Int /\ k + 1 # 0 /\ (k + 1 = 1 <=> k = 0)
    BY <1>4, <1>13, <1>17
  <2>2. h[w + k] = total + slept + x.total /\ x.from = IF k = 0 THEN rising ELSE events[o + k].time
    BY <1>19
  <2>3. x \in EventSums /\ y \in Happening /\ y.time \in Times /\ e[o + k + 1] = StatsAdd(x, y)
    BY <1>4, <1>12, <2>1
  <2>4. y.name # "wake"
    <3>1. CASE o + k + 1 = 1
      <4>1. o = 0
        BY <1>17, <2>1, <3>1
      <4> QED BY <1>3, <3>1, <4>1
    <3>2. CASE o + k + 1 # 1
      <4>1. o + k + 1 \in 2 .. n
        BY <1>4, <2>1, <3>2
      <4> QED BY <1>3, <4>1
    <3> QED BY <3>1, <3>2
  <2>5. x.from \in Times /\ x.from # NoTime
    <3>1. k # 0 => o + k \in 1 .. n
      BY <1>17, <2>1
    <3> QED BY <1>2, <1>4, <2>2, <3>1, NoTimeAssumption
  <2>6. h[w + (k + 1)] = Summed(h[w + k], a) /\ h[w + k] \in Minutes
    <3>1. acts[w + (k + 1)] = a
      BY <1>14, <2>1
    <3>2. h[w + (k + 1)] = Summed(h[(w + (k + 1)) - 1], acts[w + (k + 1)])
      BY <1>15, <2>1
    <3>3. h[w + k] \in Minutes
      BY <1>15, <2>1
    <3>4. (w + (k + 1)) - 1 = w + k
      BY <1>13, <2>1
    <3> HIDE DEF a
    <3> QED BY <3>1, <3>2, <3>3, <3>4, Zenon
  <2>7. a.start = x.from /\ a.end = y.time
    <3>1. /\ a.start = IF k + 1 = 1 THEN rising ELSE events[(k + 1) + o - 1].time
          /\ a.end = events[(k + 1) + o].time
      BY <1>2, <2>1
    <3> QED BY <2>1, <2>2, <3>1
  <2> HIDE DEF x, y, a
  <2>8. e[o + k + 1] = [from |-> y.time, total |-> x.total + Wrapped(x.from, y.time)]
    BY <2>3, <2>4, <2>5 DEF StatsAdd
  <2>9. Summed(h[w + k], a) = h[w + k] + Wrapped(x.from, y.time)
    BY <2>7 DEF Summed, Duration
  <2>10. Wrapped(x.from, y.time) \in Nat /\ x.total \in Nat
    BY <2>3, <2>5, WrappedCounts DEF EventSums
  <2> DEFINE m == Wrapped(x.from, y.time)
  <2>11. e[o + k + 1].total = x.total + m /\ e[o + k + 1].from = y.time
    BY <2>8
  <2>12. h[w + (k + 1)] = h[w + k] + m /\ m \in Nat
    BY <2>6, <2>9, <2>10
  <2> HIDE DEF m
  <2>13. h[w + (k + 1)] = total + slept + e[o + k + 1].total
    BY <1>9, <2>2, <2>10, <2>11, <2>12 DEF Minutes
  <2>14. e[o + (k + 1)].from = IF k + 1 = 0 THEN rising ELSE events[o + (k + 1)].time
    BY <2>1, <2>11 DEF y
  <2> QED BY <2>1, <2>13, <2>14
<1>20. \A j \in 0 .. l : j \in S
  <2> HIDE DEF S
  <2> QED BY <1>4, <1>18, <1>19, EveryLineUpTo
<1>21. h[w + l] = total + slept + e[n].total
  <2>1. l \in S /\ o + l = n
    BY <1>4, <1>17, <1>20
  <2> QED BY <2>1
<1>22. Recorded(total, acts) = total + slept + DaySum(sum, day).total
  <2> HIDE DEF sum
  <2> QED BY <1>12, <1>15, <1>21
<1>23. ActivitiesOf(BlocksOf(logs), i) = acts
  BY DEF ActivitiesOf, acts, night, mapped
<1> QED BY <1>7, <1>11, <1>14, <1>22, <1>23 DEF sum, before, log

LEMMA BothSumsAgree ==
  ASSUME NEW logs \in Seq(Log), Wakes(logs), NEW days \in MonthStats, AllAlike(logs, days)
  PROVE  Walked(StatsOver, NoMonthSum, days).total
           = Walked(TrackedDay, 0, Convert(BlocksOf(logs)))
<1> DEFINE n == Len(logs)
           blocks == BlocksOf(logs)
           converted == Convert(blocks)
<1>1. /\ n \in Nat /\ DOMAIN logs = 1 .. n /\ Len(days) = n
      /\ \A i \in 1 .. n : Alike(logs[i], days[i]) /\ days[i] \in DayStats
  BY DEF AllAlike, MonthStats
<1>2. \A i \in 1 .. n : Woken(logs[i])
  BY DEF Wakes
<1>3. Len(blocks) = n /\ \A i \in 1 .. n : blocks[i] = BlockOf(logs[i])
  BY <1>1 DEF BlocksOf
<1>4. ASSUME NEW i \in 1 .. n
      PROVE  /\ DayOf(blocks, i) \in ConvertedDay
             /\ DayOf(blocks, i).activities = ActivitiesOf(blocks, i)
             /\ ActivitiesOf(blocks, i) \in Seq(Activity)
  <2>1. 0 \in Minutes
    BY DEF Minutes
  <2>2. i \in 1 .. Len(logs) /\ days[i] \in DayStats /\ Alike(logs[i], days[i])
    BY <1>1
  <2>3. ActivitiesOf(blocks, i) \in Seq(Activity)
    BY <2>1, <2>2, DayIsTracked
  <2>4. blocks[i].date = logs[i].date /\ blocks[i].wake = logs[i].wake
    <3>1. blocks[i] = BlockOf(logs[i]) /\ Woken(logs[i])
      BY <1>2, <1>3
    <3> HIDE DEF blocks
    <3> QED BY <3>1, BlockOfWoken
  <2>5. logs[i].date \in Nat /\ logs[i].wake \in Times \cup {NoTime}
    <3>1. logs[i] \in Log
      BY <1>2 DEF Woken
    <3> QED BY <3>1 DEF Log
  <2> HIDE DEF blocks
  <2>6. DayOf(blocks, i) = [date |-> blocks[i].date, wake |-> blocks[i].wake,
                            activities |-> ActivitiesOf(blocks, i)]
    BY DEF DayOf
  <2> QED BY <2>3, <2>4, <2>5, <2>6 DEF ConvertedDay
<1>5. converted = [i \in 1 .. n |-> DayOf(blocks, i)]
  BY <1>3 DEF Convert
<1> HIDE DEF n, blocks, converted
<1>6. /\ converted \in Seq(ConvertedDay) /\ Len(converted) = n
      /\ \A i \in 1 .. n : converted[i] = DayOf(blocks, i)
  <2>1. converted \in [1 .. n -> ConvertedDay]
    BY <1>4, <1>5
  <2> QED BY <1>1, <1>5, <2>1
<1>7. PICK f \in [0 .. n -> MonthSums] :
        /\ f[0] = NoMonthSum
        /\ \A i \in 1 .. n : f[i] = StatsOver(f[i - 1], days[i])
        /\ Walked(StatsOver, NoMonthSum, days) = f[n]
  <2>1. \E f \in [0 .. Len(days) -> MonthSums] :
          /\ f[0] = NoMonthSum
          /\ \A i \in 1 .. Len(days) : f[i] = StatsOver(f[i - 1], days[i])
          /\ Walked(StatsOver, NoMonthSum, days) = f[Len(days)]
    BY MonthWalk
  <2>2. Len(days) = n
    BY <1>1
  <2> QED BY <2>1, <2>2, Zenon
<1>8. PICK g \in [0 .. n -> Minutes] :
        /\ g[0] = 0
        /\ \A i \in 1 .. n : g[i] = TrackedDay(g[i - 1], converted[i])
        /\ Walked(TrackedDay, 0, converted) = g[n]
  <2>1. \E g \in [0 .. Len(converted) -> Minutes] :
          /\ g[0] = 0
          /\ \A i \in 1 .. Len(converted) : g[i] = TrackedDay(g[i - 1], converted[i])
          /\ Walked(TrackedDay, 0, converted) = g[Len(converted)]
    BY <1>6, TrackedWalk
  <2>2. Len(converted) = n
    BY <1>6
  <2> QED BY <2>1, <2>2, Zenon
<1> DEFINE S == {i \in 0 .. n : f[i] = [last |-> Bedtime(logs, i + 1), total |-> g[i]]}
<1>9. 0 \in S
  <2>1. Bedtime(logs, 0 + 1) = NoTime
    BY DEF Bedtime
  <2> QED BY <1>1, <1>7, <1>8, <2>1 DEF NoMonthSum
<1>10. ASSUME NEW k \in 0 .. n - 1, k \in S PROVE k + 1 \in S
  <2> DEFINE i == k + 1
             sum == [last |-> Bedtime(logs, i), total |-> g[k]]
  <2>1. i \in 1 .. n /\ i \in 0 .. n /\ i - 1 = k /\ k \in 0 .. n /\ i + 1 # 1 /\ (i + 1) - 1 = i
    BY <1>1
  <2>2. f[k] = sum
    BY <1>10
  <2>3. f[i] = StatsOver(f[k], days[i]) /\ g[i] = TrackedDay(g[k], converted[i])
    <3>1. f[i] = StatsOver(f[i - 1], days[i]) /\ g[i] = TrackedDay(g[i - 1], converted[i])
      <4> HIDE DEF i
      <4> QED BY <1>7, <1>8, <2>1
    <3> HIDE DEF i
    <3> QED BY <2>1, <3>1
  <2>4. g[k] \in Minutes
    BY <1>8, <2>1
  <2>5. StatsOver(sum, days[i]) = [last |-> LastTime(logs[i]),
                                  total |-> Recorded(g[k], ActivitiesOf(blocks, i))]
    <3>1. i \in 1 .. Len(logs) /\ days[i] \in DayStats /\ Alike(logs[i], days[i])
      <4> HIDE DEF i
      <4> QED BY <1>1, <2>1 DEF n
    <3> HIDE DEF i
    <3> QED BY <2>4, <3>1, DayIsTracked DEF blocks
  <2>6. TrackedDay(g[k], converted[i]) = Recorded(g[k], ActivitiesOf(blocks, i))
    <3>1. /\ converted[i].activities = ActivitiesOf(blocks, i)
          /\ converted[i].activities \in Seq(Activity)
      <4> HIDE DEF i
      <4> QED BY <1>4, <1>6, <2>1
    <3> DEFINE day == converted[i]
    <3>2. TrackedDay(g[k], day) = Recorded(g[k], day.activities)
      <4> HIDE DEF day
      <4>1. day.activities \in Seq(Activity)
        BY <3>1 DEF day
      <4> QED BY <2>4, <4>1, TrackedDayCounts
    <3> QED BY <3>1, <3>2
  <2>7. Bedtime(logs, i + 1) = LastTime(logs[i])
    <3> HIDE DEF i
    <3> QED BY <2>1 DEF Bedtime
  <2> HIDE DEF i, sum
  <2>8. f[i] = [last |-> Bedtime(logs, i + 1), total |-> g[i]]
    BY <2>2, <2>3, <2>5, <2>6, <2>7
  <2> QED BY <2>1, <2>8 DEF i
<1>11. \A i \in 0 .. n : i \in S
  <2> HIDE DEF S
  <2> QED BY <1>1, <1>9, <1>10, EveryLineUpTo
<1>12. f[n].total = g[n]
  <2>1. n \in S
    BY <1>1, <1>11
  <2> QED BY <2>1
<1> QED BY <1>7, <1>8, <1>12 DEF converted, blocks

\* Each day has an event and only its first may be the waking, and that of the
\* first day is.
Lived(text) ==
  LET logs == Logs(text)
  IN  /\ \A i \in DOMAIN logs : logs[i].events # <<>> /\ WakeFirst(logs[i])
      /\ logs # <<>> => logs[1].events[1].name = "wake"

LEMMA LogsAreLogs ==
  ASSUME NEW text \in Seq(Line)
  PROVE  Logs(text) \in Seq(Log)
<1> DEFINE n == Len(text)
<1>1. n \in Nat
  OBVIOUS
<1>2. PICK p \in [0 .. n -> Parser] : Parsed(text) = p[n]
  BY ParserWalk
<1> HIDE DEF n
<1>3. p[n] \in Parser
  BY <1>1
<1> QED BY <1>2, <1>3, HandedOver DEF Logs

LEMMA LivedWakes ==
  ASSUME NEW text \in Seq(Line), Accepts(text), Lived(text)
  PROVE  Wakes(Logs(text))
<1> DEFINE logs == Logs(text)
           n == Len(logs)
           days == StatsDays(text)
<1>1. logs \in Seq(Log) /\ AllAlike(logs, days)
  BY LogsAreLogs, AcceptedIsAlike
<1>2. /\ \A i \in DOMAIN logs : logs[i].events # <<>> /\ WakeFirst(logs[i])
      /\ logs # <<>> => logs[1].events[1].name = "wake"
  BY DEF Lived
<1> HIDE DEF logs, days
<1>3. DOMAIN logs = 1 .. n /\ n \in Nat /\ (n > 0 => logs # <<>> /\ 1 \in 1 .. n)
      /\ \A i \in 1 .. n : logs[i] \in Log
  BY <1>1
<1>4. ASSUME NEW i \in 1 .. n
      PROVE  /\ Woken(logs[i])
             /\ logs[i].events[1].name = "wake" => logs[i].wake # NoTime
  <2> DEFINE log == logs[i]
             events == log.events
  <2>1. log \in Log /\ events # <<>> /\ WakeFirst(log) /\ Alike(log, days[i])
    BY <1>1, <1>2, <1>3 DEF AllAlike
  <2> HIDE DEF log
  <2>2. events \in Seq(Happening)
    BY <2>1 DEF Log, Happening
  <2>3. /\ events[1].name = "wake" => log.wake = events[1].time
        /\ events[1].name # "wake" => log.wake = NoTime
    BY <2>1 DEF Alike
  <2>4. \A k \in DOMAIN events : events[k].name = "wake" => k = 1
    BY <2>1 DEF WakeFirst
  <2> HIDE DEF events
  <2>5. /\ \A k \in 2 .. Len(events) : events[k].name # "wake"
        /\ events[1] \in Happening
    BY <2>1, <2>2, <2>4 DEF events
  <2>6. events[1].time # NoTime
    BY <2>5, NoTimeAssumption DEF Happening
  <2>7. Woken(log)
    BY <2>1, <2>3, <2>5, <2>6 DEF Woken, events
  <2> QED BY <2>3, <2>6, <2>7 DEF log, events
<1>5. Wakes(logs)
  BY <1>2, <1>3, <1>4 DEF Wakes
<1> QED BY <1>5 DEF logs

LEMMA LivedIsTracked ==
  ASSUME NEW text \in Seq(Line), Accepts(text), Wakes(Logs(text))
  PROVE  StatsTotal(text) = Tracked(text)
<1>1. /\ Logs(text) \in Seq(Log) /\ StatsDays(text) \in MonthStats
      /\ AllAlike(Logs(text), StatsDays(text))
  BY LogsAreLogs, AcceptedIsAlike
<1>2. Walked(StatsOver, NoMonthSum, StatsDays(text)).total
        = Walked(TrackedDay, 0, Convert(BlocksOf(Logs(text))))
  BY <1>1, BothSumsAgree
<1>3. Blocks(text) = BlocksOf(Logs(text))
  BY DEF Blocks, BlocksOf
<1> QED BY <1>2, <1>3 DEF StatsTotal, Tracked, NoMonthSum

LEMMA SoundMonthIsTracked ==
  ASSUME NEW g, SoundMonth(g), g.date > 0
  PROVE  StatsTotal(g.text) = Tracked(g.text)
<1>1. PICK days, log :
        /\ Stands(g.text, days, log, g.date > 0)
        /\ IF g.date = 0 THEN log = NoLog /\ days = <<>> /\ g.last = FirstEnd
           ELSE /\ log # NoLog /\ Len(days) + 1 = g.date
                /\ Chained(Append(days, log)) /\ LastTime(log) = g.last
  BY DEF SoundMonth
<1>2. g.date # 0
  OBVIOUS
<1>3. /\ Accepts(g.text) /\ g.text \in Seq(Line)
      /\ Logs(g.text) = Append(days, log)
  BY <1>1, <1>2, StandingIsAccepted DEF Stands, Texts
<1>4. Wakes(Append(days, log))
  BY <1>1, <1>2 DEF Chained, Sound, Wakes
<1> QED BY <1>3, <1>4, LivedIsTracked

-----------------------------------------------------------------------------
(* Theorems.                                                               *)

\* The parser reads all of what the validator has accepted, whatever text it
\* is (text_validator.cpp, text_parser.cpp): no line throws, every date begins
\* a day and every event is in the day it stands in.
THEOREM AcceptedTextsAreRead ==
  \A text \in Seq(Line) : Accepts(text) =>
    /\ Parses(text)
    /\ Len(Logs(text)) = Len(DateLines(text))
    /\ AsLines(Booked(text)) = EventLines(text)
  BY AcceptedTextIsRead

\* So it is of the TXT on disk and of the month the screen holds, whatever was
\* typed, cut out and merged back (TxtEditorSession.kt, txt_day_block_support.cpp).
THEOREM AcceptedAlwaysRead == Spec => []AcceptedIsRead
<1>1. MadeOfLines => AcceptedIsRead
  <2> SUFFICES ASSUME MadeOfLines, NEW text \in {file, ui.all.text}, Accepts(text)
               PROVE  /\ Parses(text)
                      /\ Len(Logs(text)) = Len(DateLines(text))
                      /\ AsLines(Booked(text)) = EventLines(text)
    BY DEF AcceptedIsRead, AsLines
  <2>1. text \in Seq(Line)
    BY DEF MadeOfLines, Sessions, Drafts, Texts
  <2> QED BY <2>1, AcceptedTextIsRead
<1> QED BY <1>1, SpecMadeOfLines, PTL

\* A user who waits for the screen to follow changes, by a saved day edit, the
\* day whose text was shown and no other (TxtEditorSession.kt,
\* txt_day_block_support.cpp, text_parser.cpp).
THEOREM DayEditsStayLocal ==
  ASSUME Patient
  PROVE  Spec => DayEditIsLocal
<1> DEFINE shown == ui.block.marker
           typed == NormalizedBody(shown, ui.day.text)
           Local == (/\ ui.open
                     /\ file' # file
                     /\ ui.mode = "DAY"
                     /\ ui.all.text = file
                     /\ Parses(file)
                     /\ Headless(typed)
                     /\ Headless(ui.block.body))
                    => /\ Len(Logs(file')) = Len(Logs(file))
                       /\ \E k \in DOMAIN Logs(file) :
                             /\ Logs(file)[k].date = shown.day
                             /\ Logs(file')[k].date = shown.day
                             /\ \A i \in DOMAIN Logs(file) \ {k} :
                                  Logs(file')[i] = Logs(file)[i]
                       /\ ResolvedBlock(file', shown).body = WithoutLeadingBlanks(typed)
<1>1. MadeOfLines /\ [Next]_vars => [Local]_vars
  <2> SUFFICES ASSUME MadeOfLines, Next,
                      ui.open, file' # file, ui.mode = "DAY", ui.all.text = file,
                      Parses(file), Headless(typed), Headless(ui.block.body)
               PROVE  /\ Len(Logs(file')) = Len(Logs(file))
                      /\ \E k \in DOMAIN Logs(file) :
                            /\ Logs(file)[k].date = shown.day
                            /\ Logs(file')[k].date = shown.day
                            /\ \A i \in DOMAIN Logs(file) \ {k} :
                                 Logs(file')[i] = Logs(file)[i]
                      /\ ResolvedBlock(file', shown).body = WithoutLeadingBlanks(typed)
    OBVIOUS
  <2>1. Ingest
    BY DEF Next, GenerateDay, TypeMarker, SwitchMode, LoadMarker, Resolve, Open,
           Close, Type
  <2>2. /\ file \in Texts /\ ui.marker \in Line /\ ui.day.text \in Texts
    BY DEF MadeOfLines, Sessions, Drafts
  <2>3. ui.block = ResolvedBlock(file, ui.marker) /\ ui.block.canSave
    BY <2>1 DEF Ingest, Waited, CanIngest, FreshBlock
  <2>4. shown = ui.marker /\ Found(file, ui.marker)
    BY <2>3 DEF ResolvedBlock
  <2>5. file' = ReplacedBlock(file, ui.marker, ui.day.text) /\ Accepts(file')
    BY <2>1 DEF Ingest, Merged, Savable, Ingestible
  <2> HIDE DEF shown
  <2>6. Headless(ResolvedBlock(file, shown).body)
    BY <2>3, <2>4
  <2>7. /\ shown \in Line /\ Found(file, shown)
        /\ file' = ReplacedBlock(file, shown, ui.day.text)
    BY <2>2, <2>4, <2>5
  <2> DEFINE body == ui.day.text
             new == file'
  <2>8. /\ body \in Texts /\ typed = NormalizedBody(shown, body)
        /\ new = ReplacedBlock(file, shown, body) /\ Accepts(new)
    BY <2>2, <2>5, <2>7
  <2> HIDE DEF typed, body, new
  <2>9. ResolvedBlock(new, shown).body = WithoutLeadingBlanks(typed)
    BY <2>2, <2>7, <2>8, ReplacedResolves
  <2>10. /\ Len(Logs(new)) = Len(Logs(file))
         /\ \E k \in DOMAIN Logs(file) :
               /\ Logs(file)[k].date = shown.day
               /\ Logs(new)[k].date = shown.day
               /\ \A i \in DOMAIN Logs(file) \ {k} : Logs(new)[i] = Logs(file)[i]
    BY <2>2, <2>6, <2>7, <2>8, EditedDayAlone
  <2> QED BY <2>9, <2>10 DEF new
<1> QED BY <1>1, SpecMadeOfLines, PTL DEF Spec, DayEditIsLocal

\* Every month the generator has written, the validator and the
\* parser accept it, and the logic validator finds nothing to object to: no
\* activity is empty or too long, each takes up where the one before ended,
\* and the month's days follow one another (log_generator.cpp,
\* event_generator.cpp, text_validator.cpp, text_parser.cpp).
THEOREM GeneratedMonthsAreAccepted ==
  ASSUME Generous
  PROVE  Spec => []GeneratedIsAccepted
<1>1. GenInv => GeneratedIsAccepted
  BY SoundMonthIsAccepted DEF GenInv, GeneratedIsAccepted
<1> QED BY <1>1, SpecGenInv, PTL

\* What the generator's own reader of a text adds up for its monthly average is
\* what an ingest of that text stores, nights and continued days included, for
\* every text the validator accepts, as long as each day has an event, only its
\* first may be a waking and that of the first day is
\* (workflow_monthly_average_stats.cpp, text_parser.cpp, converter_core.cpp,
\* converter_core_activity_mapper.cpp).
THEOREM AveragesAreTracked ==
  \A text \in Seq(Line) : Accepts(text) /\ Lived(text) => StatsTotal(text) = Tracked(text)
  BY LivedWakes, LivedIsTracked

\* So it is, after every day that is written, of the text the generator has come
\* to, whatever it was asked for (workflow_monthly_average_stats.cpp,
\* event_generator.cpp, sleep_scheduler.cpp).
THEOREM GeneratedAveragesAreTracked == Spec => []AverageIsTracked
<1>1. GenInv => AverageIsTracked
  BY SoundMonthIsTracked DEF GenInv, AverageIsTracked
<1> QED BY <1>1, SpecGenInv, PTL
=============================================================================
