------------------------- MODULE MonthIngestProofs -------------------------
(***************************************************************************)
(* What holds of the rows of every month, for every text, clock, length of *)
(* a month and history of ingests and edits.                               *)
(***************************************************************************)
EXTENDS MonthIngest, SequenceTheorems, TLAPS

DayOut == [date : Dates, wake : Times \cup {NoTime}, activities : Seq(Activity)]

Short(activity) == activity.long \/ Duration(activity) <= MaxActivity

\* Every activity of the days is allowed to last as long as it does.
AllShort(days) ==
  \A i \in DOMAIN days : \A k \in DOMAIN days[i].activities :
      Short(days[i].activities[k])

\* Each activity of a day begins where the one before it ends, and the first
\* one of the first day at the wake line, if the day has one.
Tiled(activities) ==
  \A k \in DOMAIN activities :
      k + 1 \in DOMAIN activities => activities[k + 1].start = activities[k].end

AllTiled(days) ==
  /\ \A i \in DOMAIN days : Tiled(days[i].activities)
  /\ (days # <<>> /\ days[1].wake # NoTime /\ days[1].activities # <<>>)
        => days[1].activities[1].start = days[1].wake

-----------------------------------------------------------------------------
(* The conversion.                                                         *)

LEMMA WrappedBounds ==
  \A s, e \in Times : Wrapped(s, e) \in 0 .. DayLength - 1
BY DayLengthAssumption DEF Times, Wrapped

LEMMA DayFacts ==
  ASSUME NEW text \in Text, NEW i \in 1 .. Len(text)
  PROVE  /\ text[i] \in Day
         /\ text[i].date \in Dates
         /\ text[i].wake \in Times \cup {NoTime}
         /\ Len(text[i].events) \in Nat
         /\ text[i].events = <<>> <=> Len(text[i].events) = 0
         /\ \A j \in 1 .. Len(text[i].events) : text[i].events[j] \in Event
<1>1. text[i] \in Day
  BY DEF Text
<1> QED BY <1>1, EmptySeq DEF Day

LEMMA LastEndType ==
  ASSUME NEW text \in Text, NEW i \in 1 .. Len(text)
  PROVE  LastEnd(text[i]) \in Times \cup {NoTime}
<1>1. CASE text[i].events = <<>>
  BY <1>1, DayFacts DEF LastEnd
<1>2. CASE text[i].events # <<>>
  <2>1. Len(text[i].events) \in 1 .. Len(text[i].events)
    BY <1>2, DayFacts
  <2>2. text[i].events[Len(text[i].events)] \in Event
    BY <2>1, DayFacts
  <2> QED BY <1>2, <2>2 DEF LastEnd, Event
<1> QED BY <1>1, <1>2

LEMMA EndBeforeType ==
  ASSUME NEW text \in Text, NEW i \in 1 .. Len(text)
  PROVE  EndBefore(text, i) \in Times \cup {NoTime}
<1>1. CASE i = 1
  BY <1>1 DEF EndBefore
<1>2. CASE i # 1
  <2>1. i - 1 \in 1 .. Len(text)
    BY <1>2 DEF Text
  <2> QED BY <1>2, <2>1, LastEndType DEF EndBefore
<1> QED BY <1>1, <1>2

LEMMA GetupType ==
  ASSUME NEW text \in Text, NEW i \in 1 .. Len(text)
  PROVE  Getup(text, i) \in Times \cup {NoTime}
BY DayFacts, EndBeforeType DEF Getup

\* The activities the file writes down: their type, and that they follow one
\* another from the wake line on.
LEMMA MappedFacts ==
  ASSUME NEW text \in Text, NEW i \in 1 .. Len(text)
  PROVE  /\ Mapped(text, i) \in Seq(Activity)
         /\ Tiled(Mapped(text, i))
         /\ (text[i].wake # NoTime /\ Mapped(text, i) # <<>>)
               => Mapped(text, i)[1].start = text[i].wake
<1> DEFINE n == Len(text[i].events)
           s == Skipped(text, i)
<1>1. n \in Nat /\ s \in {0, 1}
  BY DayFacts DEF Skipped
<1>2. ASSUME NEW j \in 1 .. n - s
      PROVE  /\ j + s \in 1 .. n
             /\ j + s = 1 => Getup(text, i) # NoTime
  <2>1. s = 0 => Getup(text, i) # NoTime
    BY DEF Skipped
  <2> HIDE DEF n, s
  <2> QED BY <1>1, <2>1
<1>begin. ASSUME NEW p \in 1 .. n, p = 1 => Getup(text, i) # NoTime
      PROVE  BeginOf(text, i, p) \in Times
  <2>1. CASE p = 1
    BY <1>begin, <2>1, GetupType DEF BeginOf
  <2>2. CASE p # 1
    <3>1. p - 1 \in 1 .. n
      BY <1>1, <2>2
    <3>2. text[i].events[p - 1] \in Event
      BY <3>1, DayFacts
    <3> QED BY <2>2, <3>2 DEF BeginOf, Event
  <2> QED BY <2>1, <2>2
<1>3. \A j \in 1 .. n - s : AuthoredActivity(text, i, j + s) \in Activity
  <2> SUFFICES ASSUME NEW j \in 1 .. n - s
               PROVE  AuthoredActivity(text, i, j + s) \in Activity
    OBVIOUS
  <2>1. text[i].events[j + s] \in Event
    BY <1>2, DayFacts
  <2>2. BeginOf(text, i, j + s) \in Times
    BY <1>2, <1>begin
  <2> QED BY <2>1, <2>2 DEF AuthoredActivity, Activity, Event
<1> DEFINE f == Mapped(text, i)
<1>4. f = [j \in 1 .. n - s |-> AuthoredActivity(text, i, j + s)]
  BY DEF Mapped
<1>5. DOMAIN f = 1 .. n - s
  BY <1>4
<1>6. \A j \in 1 .. n - s : f[j] = AuthoredActivity(text, i, j + s)
  BY <1>4
<1>7. f \in Seq(Activity)
  <2>1. CASE n - s \in Nat
    <3>1. f \in [1 .. n - s -> Activity]
      BY <1>3, <1>4
    <3> QED BY <2>1, <3>1, SeqDef
  <2>2. CASE n - s \notin Nat
    <3>1. 1 .. n - s = 1 .. 0
      BY <1>1, <2>2
    <3>2. f \in [1 .. 0 -> Activity]
      BY <1>3, <1>4, <3>1
    <3> QED BY <3>2, SeqDef
  <2> QED BY <2>1, <2>2
<1>8. Tiled(f)
  <2> SUFFICES ASSUME NEW k \in DOMAIN f, k + 1 \in DOMAIN f
               PROVE  f[k + 1].start = f[k].end
    BY DEF Tiled
  <2>0. \A p : /\ AuthoredActivity(text, i, p).start = BeginOf(text, i, p)
               /\ AuthoredActivity(text, i, p).end = text[i].events[p].end
    BY DEF AuthoredActivity
  <2>1. k \in 1 .. n - s /\ k + 1 \in 1 .. n - s
    BY <1>5
  <2>2. f[k + 1].start = BeginOf(text, i, (k + 1) + s)
    BY <1>6, <2>0, <2>1
  <2>3. f[k].end = text[i].events[k + s].end
    BY <1>6, <2>0, <2>1
  <2>4. (k + 1) + s # 1 /\ ((k + 1) + s) - 1 = k + s
    <3> HIDE DEF n, s
    <3> QED BY <1>1, <2>1
  <2>5. BeginOf(text, i, (k + 1) + s) = text[i].events[k + s].end
    BY <2>4 DEF BeginOf
  <2> QED BY <2>2, <2>3, <2>5
<1>9. ASSUME text[i].wake # NoTime, f # <<>>
      PROVE  f[1].start = text[i].wake
  <2>1. Getup(text, i) = text[i].wake
    BY <1>9 DEF Getup
  <2>2. s = 0
    BY <1>9, <2>1 DEF Skipped
  <2>3. 1 \in DOMAIN f
    BY <1>7, <1>9
  <2> HIDE DEF f, n
  <2>4. f[1] = AuthoredActivity(text, i, 1)
    BY <1>5, <1>6, <2>2, <2>3
  <2> QED BY <2>1, <2>4 DEF AuthoredActivity, BeginOf
<1> QED BY <1>7, <1>8, <1>9

LEMMA GeneratedType ==
  \A s, e \in Times : Generated(s, e) \in Activity
BY DEF Generated, Activity

\* Putting one activity before others that begin where it ends.
LEMMA PrefixTiled ==
  ASSUME NEW a \in Activity, NEW rest \in Seq(Activity), Tiled(rest),
         rest # <<>> => rest[1].start = a.end
  PROVE  /\ <<a>> \o rest \in Seq(Activity)
         /\ <<a>> \o rest # <<>>
         /\ (<<a>> \o rest)[1] = a
         /\ Tiled(<<a>> \o rest)
         /\ \A k \in DOMAIN (<<a>> \o rest) :
               \/ (<<a>> \o rest)[k] = a
               \/ \E j \in DOMAIN rest : (<<a>> \o rest)[k] = rest[j]
<1> DEFINE all == <<a>> \o rest
<1>1. <<a>> \in Seq(Activity) /\ Len(<<a>>) = 1 /\ <<a>>[1] = a
  OBVIOUS
<1>2. all \in Seq(Activity) /\ Len(all) = 1 + Len(rest) /\ Len(rest) \in Nat
  BY <1>1, ConcatProperties
<1>3. \A k \in 1 .. Len(all) : all[k] = IF k = 1 THEN a ELSE rest[k - 1]
  BY <1>1, <1>2, ConcatProperties
<1>4. DOMAIN all = 1 .. Len(all) /\ DOMAIN rest = 1 .. Len(rest)
  BY <1>2
<1> HIDE DEF all
<1>5. all # <<>> /\ all[1] = a
  BY <1>2, <1>3
<1>6. Tiled(all)
  <2> SUFFICES ASSUME NEW k \in 1 .. Len(all), k + 1 \in 1 .. Len(all)
               PROVE  all[k + 1].start = all[k].end
    BY <1>4 DEF Tiled
  <2>1. CASE k = 1
    <3>1. rest # <<>> /\ all[k + 1] = rest[1] /\ all[k] = a
      BY <1>2, <1>3, <2>1
    <3> QED BY <3>1
  <2>2. CASE k # 1
    <3>1. /\ all[k + 1] = rest[k]
          /\ all[k] = rest[k - 1]
          /\ k - 1 \in DOMAIN rest
          /\ k \in DOMAIN rest
      BY <1>2, <1>3, <1>4, <2>2
    <3>2. (k - 1) + 1 = k
      OBVIOUS
    <3> QED BY <3>1, <3>2 DEF Tiled
  <2> QED BY <2>1, <2>2
<1>7. \A k \in DOMAIN all : all[k] = a \/ \E j \in DOMAIN rest : all[k] = rest[j]
  BY <1>2, <1>3, <1>4
<1> QED BY <1>2, <1>5, <1>6, <1>7 DEF all

\* The activities of one day, the night before it included.
LEMMA ActivitiesFacts ==
  ASSUME NEW text \in Text, NEW i \in 1 .. Len(text)
  PROVE  /\ ActivitiesOf(text, i) \in Seq(Activity)
         /\ Tiled(ActivitiesOf(text, i))
         /\ i = 1 => ActivitiesOf(text, i) = Mapped(text, i)
<1>1. CASE EndBefore(text, i) # NoTime /\ text[i].wake # NoTime
  <2> DEFINE a == Generated(EndBefore(text, i), text[i].wake)
  <2>1. a \in Activity /\ a.end = text[i].wake
    BY <1>1, EndBeforeType, DayFacts, GeneratedType DEF Generated
  <2>2. ActivitiesOf(text, i) = <<a>> \o Mapped(text, i)
    BY <1>1 DEF ActivitiesOf, Night
  <2>3. i # 1
    BY <1>1 DEF EndBefore
  <2> HIDE DEF a
  <2> QED BY <1>1, <2>1, <2>2, <2>3, MappedFacts, PrefixTiled
<1>2. CASE ~(EndBefore(text, i) # NoTime /\ text[i].wake # NoTime)
  <2>1. ActivitiesOf(text, i) = <<>> \o Mapped(text, i)
    BY <1>2 DEF ActivitiesOf, Night
  <2>2. ActivitiesOf(text, i) = Mapped(text, i)
    BY <2>1, MappedFacts, ConcatEmptySeq
  <2> QED BY <2>2, MappedFacts
<1> QED BY <1>1, <1>2

LEMMA ConvertFacts ==
  ASSUME NEW text \in Text
  PROVE  /\ Convert(text) \in Seq(DayOut)
         /\ DOMAIN Convert(text) = DOMAIN text
         /\ \A i \in DOMAIN text : Convert(text)[i].date = text[i].date
         /\ AllTiled(Convert(text))
<1> DEFINE days == Convert(text)
<1>1. Len(text) \in Nat /\ DOMAIN text = 1 .. Len(text)
  BY DEF Text
<1>2. days = [i \in 1 .. Len(text) |-> DayOf(text, i)]
  BY DEF Convert
<1>3. \A i \in 1 .. Len(text) : /\ DayOf(text, i) \in DayOut
                               /\ DayOf(text, i).date = text[i].date
                               /\ DayOf(text, i).wake = text[i].wake
                               /\ DayOf(text, i).activities = ActivitiesOf(text, i)
  BY DayFacts, ActivitiesFacts DEF DayOf, DayOut
<1>4. days \in [1 .. Len(text) -> DayOut]
  BY <1>2, <1>3
<1>5. days \in Seq(DayOut) /\ DOMAIN days = 1 .. Len(text)
  BY <1>1, <1>4, SeqDef
<1> HIDE DEF days
<1>6. \A i \in 1 .. Len(text) : /\ days[i].date = text[i].date
                                /\ days[i].wake = text[i].wake
                                /\ days[i].activities = ActivitiesOf(text, i)
  BY <1>2, <1>3
<1>7. \A i \in DOMAIN days : Tiled(days[i].activities)
  BY <1>5, <1>6, ActivitiesFacts
<1>8. ASSUME days # <<>>, days[1].wake # NoTime, days[1].activities # <<>>
      PROVE  days[1].activities[1].start = days[1].wake
  <2>1. 1 \in 1 .. Len(text)
    BY <1>1, <1>5, <1>8
  <2>2. days[1].activities = Mapped(text, 1) /\ days[1].wake = text[1].wake
    BY <1>6, <2>1, ActivitiesFacts
  <2> QED BY <1>8, <2>1, <2>2, MappedFacts
<1> QED BY <1>1, <1>5, <1>6, <1>7, <1>8 DEF AllTiled, days

-----------------------------------------------------------------------------
(* The link keeps the type, the tiling and the limit, whatever tail it is  *)
(* given.                                                                  *)

LEMMA LinkFacts ==
  ASSUME NEW days \in Seq(DayOut), AllTiled(days), NEW tail \in Times \cup {NoTime}
  PROVE  /\ LinkFirstDay(days, tail) \in Seq(DayOut)
         /\ DOMAIN LinkFirstDay(days, tail) = DOMAIN days
         /\ \A i \in DOMAIN days : LinkFirstDay(days, tail)[i].date = days[i].date
         /\ \A i \in DOMAIN days : Tiled(LinkFirstDay(days, tail)[i].activities)
         /\ AllShort(days) => AllShort(LinkFirstDay(days, tail))
<1> DEFINE wanted == /\ days # <<>> /\ tail # NoTime /\ LinkWanted(days[1])
                     /\ Wrapped(tail, days[1].wake) <= MaxSleep
<1>1. CASE ~wanted
  BY <1>1 DEF LinkFirstDay, AllTiled
<1>2. CASE wanted
  <2> DEFINE a == Generated(tail, days[1].wake)
             first == SleptIn(days[1], tail)
             linked == LinkFirstDay(days, tail)
  <2>1. 1 \in 1 .. Len(days) /\ Len(days) \in Nat /\ DOMAIN days = 1 .. Len(days)
    BY <1>2
  <2>2. /\ days[1] \in DayOut
        /\ days[1].activities \in Seq(Activity)
        /\ days[1].date \in Dates
        /\ days[1].wake \in Times
    <3>1. days[1] \in DayOut
      BY <2>1
    <3>2. days[1].wake # NoTime
      BY <1>2 DEF LinkWanted
    <3> QED BY <3>1, <3>2 DEF DayOut
  <2>3. a \in Activity /\ a.end = days[1].wake
    BY <1>2, <2>2, GeneratedType DEF Generated
  <2>4. Tiled(days[1].activities)
    BY <2>1 DEF AllTiled
  <2>5. days[1].activities # <<>> => days[1].activities[1].start = a.end
    BY <1>2, <2>3 DEF AllTiled, LinkWanted
  <2>6. first = [days[1] EXCEPT !.activities = <<a>> \o days[1].activities]
    BY <2>2 DEF SleptIn, DayOut
  <2>7. /\ <<a>> \o days[1].activities \in Seq(Activity)
        /\ Tiled(<<a>> \o days[1].activities)
        /\ \A k \in DOMAIN (<<a>> \o days[1].activities) :
              \/ (<<a>> \o days[1].activities)[k] = a
              \/ \E j \in DOMAIN days[1].activities :
                    (<<a>> \o days[1].activities)[k] = days[1].activities[j]
    <3> HIDE DEF a
    <3> QED BY <2>2, <2>3, <2>4, <2>5, PrefixTiled
  <2>8. /\ first \in DayOut
        /\ first.date = days[1].date
        /\ first.activities = <<a>> \o days[1].activities
    <3> HIDE DEF a, first
    <3> QED BY <2>2, <2>6, <2>7 DEF DayOut
  <2>9. linked = [days EXCEPT ![1] = first]
    BY <1>2 DEF LinkFirstDay
  <2>10. Short(a)
    <3>1. a.start = tail /\ a.end = days[1].wake
      BY DEF Generated
    <3>2. Wrapped(tail, days[1].wake) \in Int
      BY <1>2, <2>2, WrappedBounds
    <3>3. Duration(a) <= MaxActivity
      BY <1>2, <3>1, <3>2, LimitAssumption DEF Duration
    <3> QED BY <3>3 DEF Short
  <2> HIDE DEF a, first, linked
  <2>11. /\ linked \in Seq(DayOut)
         /\ DOMAIN linked = DOMAIN days
         /\ linked[1] = first
         /\ \A i \in DOMAIN days : i # 1 => linked[i] = days[i]
    BY <2>1, <2>8, <2>9, ExceptSeq
  <2>12. \A i \in DOMAIN days : linked[i].date = days[i].date
    BY <2>8, <2>11
  <2>13. \A i \in DOMAIN days : Tiled(linked[i].activities)
    BY <2>7, <2>8, <2>11 DEF AllTiled
  <2>14. ASSUME AllShort(days), NEW i \in DOMAIN days,
                NEW k \in DOMAIN linked[i].activities
         PROVE  Short(linked[i].activities[k])
    <3>1. CASE i # 1
      BY <2>11, <2>14, <3>1 DEF AllShort
    <3>2. CASE i = 1
      BY <2>1, <2>7, <2>8, <2>10, <2>11, <2>14, <3>2 DEF AllShort
    <3> QED BY <3>1, <3>2
  <2>15. AllShort(days) => AllShort(linked)
    BY <2>11, <2>14 DEF AllShort
  <2> QED BY <2>11, <2>12, <2>13, <2>15 DEF linked
<1> QED BY <1>1, <1>2

LEMMA NoTailNoLink ==
  \A days : LinkFirstDay(days, NoTime) = days
BY DEF LinkFirstDay

-----------------------------------------------------------------------------
(* The rows.                                                               *)

LEMMA StoredFacts ==
  ASSUME NEW days \in Seq(DayOut)
  PROVE  /\ Stored(days) \in SUBSET Row
         /\ AllShort(days) => \A r \in Stored(days) : Short(r.activity)
         /\ \A r \in Stored(days) :
               \E i \in DOMAIN days : /\ r.date = days[i].date
                                      /\ r.seq \in DOMAIN days[i].activities
                                      /\ r.activity = days[i].activities[r.seq]
<1>1. ASSUME NEW r \in Stored(days)
      PROVE  \E i \in DOMAIN days :
                \E k \in DOMAIN days[i].activities :
                   r = [date |-> days[i].date, seq |-> k,
                        activity |-> days[i].activities[k]]
  BY <1>1 DEF Stored, DayRows, RecordAt
<1>2. ASSUME NEW r \in Stored(days)
      PROVE  /\ r \in Row
             /\ AllShort(days) => Short(r.activity)
             /\ \E i \in DOMAIN days : /\ r.date = days[i].date
                                       /\ r.seq \in DOMAIN days[i].activities
                                       /\ r.activity = days[i].activities[r.seq]
  <2>1. PICK i \in DOMAIN days : \E k \in DOMAIN days[i].activities :
                r = [date |-> days[i].date, seq |-> k,
                     activity |-> days[i].activities[k]]
    BY <1>1
  <2>2. PICK k \in DOMAIN days[i].activities :
                r = [date |-> days[i].date, seq |-> k,
                     activity |-> days[i].activities[k]]
    BY <2>1
  <2>3. days[i] \in DayOut
    OBVIOUS
  <2>4. days[i].date \in Dates /\ days[i].activities \in Seq(Activity)
    BY <2>3 DEF DayOut
  <2>5. k \in Nat \ {0} /\ days[i].activities[k] \in Activity
    BY <2>4
  <2>6. r \in Row
    BY <2>2, <2>4, <2>5 DEF Row
  <2>7. AllShort(days) => Short(r.activity)
    BY <2>2 DEF AllShort
  <2> QED BY <2>2, <2>6, <2>7
<1> QED BY <1>2

LEMMA RecordsType ==
  ASSUME NEW days \in Seq(DayOut)
  PROVE  Records(days) \in SUBSET Row
<1> SUFFICES ASSUME NEW i \in DOMAIN days, NEW k \in DOMAIN days[i].activities
             PROVE  RecordAt(days, i, k) \in Row
  BY DEF Records, DayRecords
<1>1. days[i] \in DayOut
  OBVIOUS
<1>2. days[i].date \in Dates /\ days[i].activities \in Seq(Activity)
  BY <1>1 DEF DayOut
<1>3. k \in Nat \ {0} /\ days[i].activities[k] \in Activity
  BY <1>2
<1> QED BY <1>2, <1>3 DEF RecordAt, Row

LEMMA TailOfType ==
  ASSUME NEW among \in SUBSET Row
  PROVE  TailOf(among) \in Times \cup {NoTime}
<1> DEFINE tails == {row \in among : IsTail(row, among)}
<1>1. CASE tails = {}
  BY <1>1 DEF TailOf
<1>2. CASE tails # {}
  <2>1. (CHOOSE row \in tails : TRUE) \in tails
    BY <1>2
  <2>2. (CHOOSE row \in tails : TRUE).activity.end \in Times
    BY <2>1 DEF Row, Activity
  <2> QED BY <1>2, <2>2 DEF TailOf
<1> QED BY <1>1, <1>2

LEMMA AcceptedShort ==
  ASSUME NEW days, NEW check, LogicValid(days, check)
  PROVE  AllShort(days)
BY DEF LogicValid, ActivityValid, AllShort, Short

-----------------------------------------------------------------------------
(* The rows of a text linked to some tail, and what they satisfy.          *)

LEMMA LinkedRows ==
  ASSUME NEW text \in Text, NEW tail \in Times \cup {NoTime}
  PROVE  /\ Stored(LinkFirstDay(Convert(text), tail)) \in SUBSET Row
         /\ AllShort(Convert(text)) =>
               \A r \in Stored(LinkFirstDay(Convert(text), tail)) : Short(r.activity)
         /\ AllShort(LinkFirstDay(Convert(text), tail)) =>
               \A r \in Stored(LinkFirstDay(Convert(text), tail)) : Short(r.activity)
BY ConvertFacts, LinkFacts, StoredFacts

LEMMA LinkedTile ==
  ASSUME NEW text \in Text, DistinctDates(text), NEW tail \in Times \cup {NoTime},
         NEW r \in Stored(LinkFirstDay(Convert(text), tail)),
         NEW s \in Stored(LinkFirstDay(Convert(text), tail)),
         r.date = s.date, s.seq = r.seq + 1
  PROVE  s.activity.start = r.activity.end
<1> DEFINE days == LinkFirstDay(Convert(text), tail)
<1>1. /\ days \in Seq(DayOut)
      /\ DOMAIN days = DOMAIN text
      /\ \A i \in DOMAIN text : days[i].date = text[i].date
      /\ \A i \in DOMAIN text : Tiled(days[i].activities)
  BY ConvertFacts, LinkFacts
<1> HIDE DEF days
<1>2. PICK i \in DOMAIN days : /\ r.date = days[i].date
                               /\ r.seq \in DOMAIN days[i].activities
                               /\ r.activity = days[i].activities[r.seq]
  BY <1>1, StoredFacts DEF days
<1>3. PICK j \in DOMAIN days : /\ s.date = days[j].date
                               /\ s.seq \in DOMAIN days[j].activities
                               /\ s.activity = days[j].activities[s.seq]
  BY <1>1, StoredFacts DEF days
<1>4. i = j
  <2>1. i \in DOMAIN text /\ j \in DOMAIN text
    BY <1>1
  <2>2. text[i].date = text[j].date
    BY <1>1, <1>2, <1>3
  <2> QED BY <2>1, <2>2 DEF DistinctDates
<1>5. Tiled(days[i].activities)
  BY <1>1, <1>2
<1> DEFINE activities == days[i].activities
<1>6. /\ r.seq \in DOMAIN activities /\ r.seq + 1 \in DOMAIN activities
      /\ r.activity = activities[r.seq]
      /\ s.activity = activities[r.seq + 1]
  BY <1>2, <1>3, <1>4
<1> HIDE DEF activities
<1>7. Tiled(activities)
  BY <1>5 DEF activities
<1> QED BY <1>6, <1>7 DEF Tiled

-----------------------------------------------------------------------------
(* The tails.                                                              *)

LEMMA PreviousTailType ==
  ASSUME TypeOK, NEW m \in Months
  PROVE  PreviousTail(m) \in Times \cup {NoTime}
<1>1. DatabaseTail(m) \in Times \cup {NoTime}
  <2> DEFINE before == Latest(m, {k \in Months : rows[k] # {}})
  <2>1. before \subseteq Months
    BY DEF Latest
  <2>2. UNION {rows[k] : k \in before} \in SUBSET Row
    BY <2>1 DEF TypeOK
  <2> QED BY <2>2, TailOfType DEF DatabaseTail
<1>2. SiblingTail(m) \in Times \cup {NoTime}
  <2>1. CASE m = 1 \/ texts[m - 1] = Absent
    BY <2>1 DEF SiblingTail
  <2>2. CASE ~(m = 1 \/ texts[m - 1] = Absent)
    <3>1. m - 1 \in Months
      BY <2>2, LastMonthAssumption DEF Months
    <3>2. texts[m - 1] \in Text
      BY <2>2, <3>1 DEF TypeOK
    <3>3. Records(Convert(texts[m - 1])) \in SUBSET Row
      BY <3>2, ConvertFacts, RecordsType
    <3> QED BY <2>2, <3>3, TailOfType DEF SiblingTail
  <2> QED BY <2>1, <2>2
<1> QED BY <1>1, <1>2 DEF PreviousTail

LEMMA SourcesFacts == \A source \in Sources : source \subseteq Months
BY DEF Sources

LEMMA LastDayTailType ==
  ASSUME TypeOK, NEW source \in Sources, NEW m \in Months
  PROVE  LastDayTail(m, source) \in Times \cup {NoTime}
<1> DEFINE before == Latest(m, {k \in source : Present(k) /\ texts[k] # <<>>})
           k == CHOOSE k \in before : TRUE
<1>1. CASE before = {}
  BY <1>1 DEF LastDayTail
<1>2. CASE before # {}
  <2>1. k \in before
    BY <1>2
  <2>2. k \in Months /\ texts[k] # Absent /\ texts[k] # <<>>
    BY <2>1, SourcesFacts DEF Latest, Present
  <2>3. texts[k] \in Text
    BY <2>2 DEF TypeOK
  <2>4. Len(texts[k]) \in 1 .. Len(texts[k])
    BY <2>2, <2>3, EmptySeq DEF Text
  <2>5. LastEnd(texts[k][Len(texts[k])]) \in Times \cup {NoTime}
    BY <2>3, <2>4, LastEndType
  <2> QED BY <1>2, <2>5 DEF LastDayTail
<1> QED BY <1>1, <1>2

-----------------------------------------------------------------------------
(* What the ingests write.                                                 *)

\* A set of rows is what one month may hold, whichever ingest made it.
Good(set) == set \in SUBSET Row /\ \A r \in set : Short(r.activity)

LEMMA MonthRowsGood ==
  ASSUME TypeOK, NEW m \in Months, NEW check, IngestMonth(m, check)
  PROVE  /\ PreviousTail(m) \in Times \cup {NoTime}
         /\ texts[m] \in Text
         /\ rows' = [rows EXCEPT ![m] =
               Stored(LinkFirstDay(Convert(texts[m]), PreviousTail(m)))]
         /\ Good(Stored(LinkFirstDay(Convert(texts[m]), PreviousTail(m))))
<1>1. texts[m] \in Text
  BY DEF IngestMonth, Present, TypeOK
<1>2. AllShort(Convert(texts[m]))
  BY AcceptedShort DEF IngestMonth
<1>3. PreviousTail(m) \in Times \cup {NoTime}
  BY PreviousTailType
<1>4. Good(Stored(LinkFirstDay(Convert(texts[m]), PreviousTail(m))))
  BY <1>1, <1>2, <1>3, LinkedRows DEF Good
<1> QED BY <1>1, <1>3, <1>4 DEF IngestMonth

LEMMA AllRowsGood ==
  ASSUME TypeOK, NEW source \in Sources, NEW check, AllAccepted(source, check),
         NEW m \in Months
  PROVE  /\ Good(AllRows(source)[m])
         /\ Snapshot(source)[m] \in Text \cup {Absent}
         /\ Snapshot(source)[m] # Absent =>
               /\ Snapshot(source)[m] = texts[m]
               /\ \E tail \in Times \cup {NoTime} :
                     AllRows(source)[m] =
                        Stored(LinkFirstDay(Convert(texts[m]), tail))
<1>1. CASE ~(m \in source /\ Present(m))
  BY <1>1 DEF AllRows, Good, Present, Snapshot
<1>2. CASE m \in source /\ Present(m)
  <2>1. texts[m] \in Text /\ Snapshot(source)[m] = texts[m]
    BY <1>2 DEF Present, TypeOK, Snapshot
  <2>2. AllRows(source)[m] =
           Stored(LinkFirstDay(Convert(texts[m]), LastDayTail(m, source)))
    BY <1>2 DEF AllRows, Linked
  <2>3. LastDayTail(m, source) \in Times \cup {NoTime}
    BY LastDayTailType
  <2>4. AllShort(LinkFirstDay(Convert(texts[m]), LastDayTail(m, source)))
    BY <1>2, AcceptedShort DEF AllAccepted, Linked
  <2>5. Good(Stored(LinkFirstDay(Convert(texts[m]), LastDayTail(m, source))))
    BY <2>1, <2>3, <2>4, LinkedRows DEF Good
  <2> QED BY <2>1, <2>2, <2>3, <2>5
<1> QED BY <1>1, <1>2

LEMMA UpsertedGood ==
  ASSUME NEW old, Good(old), NEW new, Good(new)
  PROVE  Good(Upserted(old, new)) /\ new \subseteq Upserted(old, new)
BY DEF Good, Upserted

-----------------------------------------------------------------------------
(* Types, the limit of 16 hours and the rows a status stands for.          *)

\* The two halves of SyncedMeansSame: in all modes a month in sync has every
\* row of its TXT; whichever mode made the rows, it has no other but where they
\* were added to what was there.
AllPresent ==
    \A m \in Months : stamps[m] # Absent =>
        \E tail \in Times \cup {NoTime} :
            Stored(LinkFirstDay(Convert(stamps[m]), tail)) \subseteq rows[m]

SameUnlessMixed ==
    \A m \in Months \ mixed : stamps[m] # Absent =>
        \E tail \in Times \cup {NoTime} :
            rows[m] = Stored(LinkFirstDay(Convert(stamps[m]), tail))

IInv == TypeOK /\ NoLongActivity /\ AllPresent

LEMMA GoodRows ==
  TypeOK /\ NoLongActivity => \A m \in Months : Good(rows[m])
BY DEF TypeOK, NoLongActivity, Good, Short

LEMMA InitIInv == Init => IInv
<1> SUFFICES ASSUME Init PROVE IInv
  OBVIOUS
<1>1. TypeOK
  BY TextsAssumption, MaxEditsAssumption DEF Init, TypeOK
<1> QED BY <1>1 DEF Init, IInv, NoLongActivity, AllPresent

LEMMA NextIInv == IInv /\ [Next]_vars => IInv'
<1> SUFFICES ASSUME IInv, [Next]_vars PROVE IInv'
  OBVIOUS
<1>1. TypeOK /\ NoLongActivity /\ AllPresent
  BY DEF IInv
<1>2. \A m \in Months : Good(rows[m])
  BY <1>1, GoodRows
<1>3. ASSUME NEW m \in Months, NEW text \in Texts \cup {Absent}, Edit(m, text)
      PROVE  IInv'
  <2>1. TypeOK'
    BY <1>1, <1>3, TextsAssumption, MaxEditsAssumption DEF TypeOK, Edit
  <2> QED BY <1>1, <1>3, <2>1 DEF IInv, Edit, NoLongActivity, AllPresent
<1>4. ASSUME NEW m \in Months, NEW check \in DateChecks, IngestMonth(m, check)
      PROVE  IInv'
  <2> DEFINE new == Stored(LinkFirstDay(Convert(texts[m]), PreviousTail(m)))
  <2>1. /\ PreviousTail(m) \in Times \cup {NoTime}
        /\ texts[m] \in Text
        /\ rows' = [rows EXCEPT ![m] = new]
        /\ Good(new)
    BY <1>1, <1>4, MonthRowsGood
  <2>2. /\ stamps' = [stamps EXCEPT ![m] = texts[m]]
        /\ texts' = texts
        /\ edits' = edits
        /\ mixed' = mixed \ {m}
    BY <1>4 DEF IngestMonth
  <2>3. rows'[m] = new /\ \A k \in Months \ {m} : rows'[k] = rows[k]
    BY <1>1, <2>1 DEF TypeOK
  <2>4. stamps'[m] = texts[m] /\ \A k \in Months \ {m} : stamps'[k] = stamps[k]
    BY <1>1, <2>2 DEF TypeOK
  <2>5. AllPresent'
    <3> SUFFICES ASSUME NEW k \in Months, stamps'[k] # Absent
                 PROVE  \E tail \in Times \cup {NoTime} :
                    Stored(LinkFirstDay(Convert(stamps'[k]), tail)) \subseteq rows'[k]
      BY DEF AllPresent
    <3>1. CASE k = m
      BY <2>1, <2>3, <2>4, <3>1
    <3>2. CASE k # m
      BY <1>1, <2>3, <2>4, <3>2 DEF AllPresent
    <3> QED BY <3>1, <3>2
  <2> HIDE DEF new
  <2>6. TypeOK'
    BY <1>1, <2>1, <2>2 DEF TypeOK, Good
  <2>7. NoLongActivity'
    <3>1. \A k \in Months : Good(rows'[k])
      BY <1>2, <2>1, <2>3
    <3> QED BY <3>1 DEF NoLongActivity, Good, Short
  <2> QED BY <2>5, <2>6, <2>7 DEF IInv
<1>5. ASSUME NEW source \in Sources, NEW check \in DateChecks,
             IngestAll(source, check)
      PROVE  IInv'
  <2> USE <1>5 DEF IngestAll
  <2>1. \A m \in Months : Good(rows'[m])
    BY <1>1, AllRowsGood
  <2>2. TypeOK'
    BY <1>1, <2>1, AllRowsGood DEF TypeOK, Good, AllRows, Snapshot
  <2>3. NoLongActivity'
    BY <2>1 DEF NoLongActivity, Good, Short
  <2>4. AllPresent'
    BY <1>1, AllRowsGood DEF AllPresent
  <2> QED BY <2>2, <2>3, <2>4 DEF IInv
<1>6. ASSUME NEW source \in Sources, NEW check \in DateChecks,
             IngestStandard(source, check)
      PROVE  IInv'
  <2> USE <1>6 DEF IngestStandard
  <2>1. \A m \in Months : rows'[m] = Upserted(rows[m], AllRows(source)[m])
    OBVIOUS
  <2>2. \A m \in Months : Good(AllRows(source)[m])
    BY <1>1, AllRowsGood
  <2>3. \A m \in Months : Good(rows'[m]) /\ AllRows(source)[m] \subseteq rows'[m]
    BY <1>2, <2>1, <2>2, UpsertedGood
  <2>4. TypeOK'
    <3>1. mixed' \subseteq Months
      BY <1>1, SourcesFacts DEF TypeOK
    <3> QED BY <1>1, <2>3, <3>1, AllRowsGood DEF TypeOK, Good, Snapshot
  <2>5. NoLongActivity'
    BY <2>3 DEF NoLongActivity, Good, Short
  <2>6. AllPresent'
    BY <1>1, <2>3, AllRowsGood DEF AllPresent
  <2> QED BY <2>4, <2>5, <2>6 DEF IInv
<1>7. CASE UNCHANGED vars
  BY <1>1, <1>7 DEF vars, IInv, TypeOK, NoLongActivity, AllPresent
<1>8. CASE Next
  BY <1>3, <1>4, <1>5, <1>6, <1>8 DEF Next
<1> QED BY <1>7, <1>8

THEOREM InvariantHolds == Spec => []IInv
<1> QED BY InitIInv, NextIInv, PTL DEF Spec

\* Every variable keeps its type: what the parser, the mapper, the link and the
\* import make of any text are rows with times and dates, and no activity
\* without a start is stored.
THEOREM TypeCorrect == Spec => []TypeOK
<1>1. IInv => TypeOK
  BY DEF IInv
<1> QED BY <1>1, InvariantHolds, PTL

\* No activity is stored that lasts more than 16 hours without being allowed to
\* (ValidateActivityDuration, and the limit of ProcessCrossDay).
THEOREM NoActivityTooLong == Spec => []NoLongActivity
<1>1. IInv => NoLongActivity
  BY DEF IInv
<1> QED BY <1>1, InvariantHolds, PTL

-----------------------------------------------------------------------------
(* The rows of a month in sync.                                            *)

LEMMA NextSame ==
  ASSUME TypeOK, SameUnlessMixed, [Next]_vars
  PROVE  SameUnlessMixed'
<1>1. ASSUME NEW m \in Months, NEW text \in Texts \cup {Absent}, Edit(m, text)
      PROVE  SameUnlessMixed'
  BY <1>1 DEF Edit, SameUnlessMixed
<1>2. ASSUME NEW m \in Months, NEW check \in DateChecks, IngestMonth(m, check)
      PROVE  SameUnlessMixed'
  <2> DEFINE new == Stored(LinkFirstDay(Convert(texts[m]), PreviousTail(m)))
  <2>1. PreviousTail(m) \in Times \cup {NoTime} /\ rows' = [rows EXCEPT ![m] = new]
    BY <1>2, MonthRowsGood
  <2>2. stamps' = [stamps EXCEPT ![m] = texts[m]] /\ mixed' = mixed \ {m}
    BY <1>2 DEF IngestMonth
  <2>3. /\ rows'[m] = new /\ stamps'[m] = texts[m]
        /\ \A k \in Months \ {m} : rows'[k] = rows[k] /\ stamps'[k] = stamps[k]
    BY <2>1, <2>2 DEF TypeOK
  <2> SUFFICES ASSUME NEW k \in Months \ mixed', stamps'[k] # Absent
               PROVE  \E tail \in Times \cup {NoTime} :
                  rows'[k] = Stored(LinkFirstDay(Convert(stamps'[k]), tail))
    BY DEF SameUnlessMixed
  <2>4. CASE k = m
    BY <2>1, <2>3, <2>4
  <2>5. CASE k # m
    BY <2>2, <2>3, <2>5 DEF SameUnlessMixed
  <2> QED BY <2>4, <2>5
<1>3. ASSUME NEW source \in Sources, NEW check \in DateChecks,
             IngestAll(source, check)
      PROVE  SameUnlessMixed'
  BY <1>3, AllRowsGood DEF IngestAll, SameUnlessMixed
<1>4. ASSUME NEW source \in Sources, NEW check \in DateChecks,
             IngestStandard(source, check)
      PROVE  SameUnlessMixed'
  <2> SUFFICES ASSUME NEW k \in Months \ mixed', stamps'[k] # Absent
               PROVE  \E tail \in Times \cup {NoTime} :
                  rows'[k] = Stored(LinkFirstDay(Convert(stamps'[k]), tail))
    BY DEF SameUnlessMixed
  <2>1. /\ rows'[k] = Upserted(rows[k], AllRows(source)[k])
        /\ stamps'[k] = Snapshot(source)[k] /\ AllAccepted(source, check)
        /\ mixed' = mixed \cup {m \in source : Present(m) /\ rows[m] # {}}
    BY <1>4 DEF IngestStandard
  <2>2. k \in source /\ Present(k)
    BY <2>1 DEF Snapshot, Present
  <2>3. rows'[k] = AllRows(source)[k]
    BY <2>1, <2>2 DEF Upserted
  <2>4. \E tail \in Times \cup {NoTime} :
           AllRows(source)[k] = Stored(LinkFirstDay(Convert(texts[k]), tail))
    BY <2>1, AllRowsGood
  <2> QED BY <2>1, <2>2, <2>3, <2>4 DEF Snapshot
<1>5. CASE UNCHANGED vars
  BY <1>5 DEF vars, SameUnlessMixed
<1> QED BY <1>1, <1>2, <1>3, <1>4, <1>5 DEF Next

LEMMA SameHolds == Spec => []SameUnlessMixed
<1>1. Init => TypeOK /\ SameUnlessMixed
  <2>1. Init => SameUnlessMixed
    BY DEF Init, SameUnlessMixed
  <2> QED BY <2>1, InitIInv DEF IInv
<1>2. TypeOK /\ SameUnlessMixed /\ [Next]_vars => SameUnlessMixed'
  BY NextSame
<1> QED BY <1>1, <1>2, TypeCorrect, PTL DEF Spec

\* In all modes a month in sync has every row of its TXT, and no other unless the
\* standard mode has added to it, whatever was in the database before.
THEOREM SyncedAlwaysSame == Spec => []SyncedMeansSame
<1>1. IInv /\ SameUnlessMixed => SyncedMeansSame
  <2> SUFFICES ASSUME AllPresent, SameUnlessMixed,
                      NEW m \in Months, stamps[m] # Absent
               PROVE  \E tail \in Times \cup {NoTime} :
                  LET due == Stored(LinkFirstDay(Convert(stamps[m]), tail))
                  IN  due \subseteq rows[m] /\ (m \notin mixed => rows[m] = due)
    BY DEF IInv, SyncedMeansSame
  <2>1. CASE m \in mixed
    BY <2>1 DEF AllPresent
  <2>2. CASE m \notin mixed
    BY <2>2 DEF SameUnlessMixed
  <2> QED BY <2>1, <2>2
<1> QED BY <1>1, InvariantHolds, SameHolds, PTL

\* In a month not added to, the activities of a day follow one another without a
\* gap or an overlap, from the generated night on.
THEOREM DaysAlwaysTile == Spec => []DaysTile
<1>1. TypeOK /\ SameUnlessMixed => DaysTile
  <2> SUFFICES ASSUME TypeOK, SameUnlessMixed,
                      NEW m \in Months \ mixed, stamps[m] # Absent,
                      DistinctDates(stamps[m]),
                      NEW r \in rows[m], NEW s \in rows[m],
                      r.date = s.date, s.seq = r.seq + 1
               PROVE  s.activity.start = r.activity.end
    BY DEF DaysTile
  <2>1. stamps[m] \in Text
    BY DEF TypeOK
  <2>2. PICK tail \in Times \cup {NoTime} :
           rows[m] = Stored(LinkFirstDay(Convert(stamps[m]), tail))
    BY DEF SameUnlessMixed
  <2> QED BY <2>1, <2>2, LinkedTile
<1> QED BY <1>1, TypeCorrect, SameHolds, PTL

-----------------------------------------------------------------------------
(* One month after another, or all at once.                                *)

LEMMA LatestFacts ==
  ASSUME NEW m \in Months, NEW A \in SUBSET Months, NEW B \in SUBSET Months,
         \A k \in 1 .. m - 1 : k \in A <=> k \in B
  PROVE  /\ Latest(m, A) = Latest(m, B)
         /\ \A j, k \in Latest(m, A) : j = k
<1>1. \A k \in Months : k < m <=> k \in 1 .. m - 1
  BY LastMonthAssumption DEF Months
<1>2. \A j, k \in Latest(m, A) : j \in Int /\ k \in Int /\ j <= k /\ k <= j
  BY LastMonthAssumption DEF Latest, Months
<1> QED BY <1>1, <1>2 DEF Latest

LEMMA NoRowsOfNothing ==
  Stored(Convert(<<>>)) = {} /\ Records(Convert(<<>>)) = {}
<1>1. DOMAIN Convert(<<>>) = {}
  BY DEF Convert
<1> QED BY <1>1 DEF Stored, Records

\* Where the rows before a month are those of all the TXTs and the tail rule
\* finds the last event, both ways look at the same event.
LEMMA SameTail ==
  ASSUME TypeOK, NEW m \in Months, NEW check, AllAccepted(Months, check),
         \A k \in 1 .. m - 1 : rows[k] = AllRows(Months)[k] /\ TailFaithful(k)
  PROVE  PreviousTail(m) = LastDayTail(m, Months)
<1> DEFINE stored == {k \in Months : rows[k] # {}}
           written == {k \in Months : Present(k) /\ texts[k] # <<>>}
<1>1. \A k \in 1 .. m - 1 : k \in Months
  BY LastMonthAssumption DEF Months
<1>2. ASSUME NEW k \in 1 .. m - 1
      PROVE  k \in stored <=> k \in written
  <2>1. rows[k] = AllRows(Months)[k] /\ TailFaithful(k) /\ k \in Months
    BY <1>1
  <2>2. k \in written => k \in stored
    <3>1. TailOf({}) = NoTime
      BY DEF TailOf
    <3> QED BY <2>1, <3>1 DEF TailFaithful
  <2>3. ASSUME k \notin written PROVE AllRows(Months)[k] = {}
    <3>1. CASE ~Present(k)
      BY <2>1, <3>1 DEF AllRows
    <3>2. CASE Present(k)
      <4>1. texts[k] = <<>>
        BY <2>1, <2>3, <3>2
      <4>2. Convert(<<>>) = <<>>
        BY DEF Convert
      <4>3. Linked(k, Months) = <<>>
        BY <4>1, <4>2 DEF Linked, LinkFirstDay
      <4>4. AllRows(Months)[k] = Stored(Convert(<<>>))
        BY <2>1, <3>2, <4>2, <4>3 DEF AllRows
      <4> QED BY <4>4, NoRowsOfNothing
    <3> QED BY <3>1, <3>2
  <2> QED BY <2>1, <2>2, <2>3
<1> DEFINE before == Latest(m, written)
<1>3. Latest(m, stored) = before /\ \A j, k \in before : j = k
  BY <1>2, LatestFacts
<1>4. before \subseteq written /\ \A k \in before : k \in 1 .. m - 1
  BY LastMonthAssumption DEF Latest, Months
<1>5. DatabaseTail(m) = TailOf(UNION {rows[k] : k \in before})
  BY <1>3 DEF DatabaseTail
<1>6. LastDayTail(m, Months) = IF before = {} THEN NoTime
                       ELSE LET k == CHOOSE k \in before : TRUE
                            IN  LastEnd(texts[k][Len(texts[k])])
  BY DEF LastDayTail
<1>7. CASE before = {}
  <2>1. DatabaseTail(m) = NoTime
    <3>1. UNION {rows[k] : k \in before} = {}
      BY <1>7
    <3> QED BY <1>5, <3>1 DEF TailOf
  <2>2. SiblingTail(m) = NoTime
    <3>1. CASE m = 1 \/ texts[m - 1] = Absent
      BY <3>1 DEF SiblingTail
    <3>2. CASE ~(m = 1 \/ texts[m - 1] = Absent)
      <4>1. m - 1 \in Months /\ m - 1 \in 1 .. m - 1
        BY <3>2, LastMonthAssumption DEF Months
      <4>2. m - 1 \notin written
        <5> SUFFICES ASSUME m - 1 \in written PROVE FALSE
          OBVIOUS
        <5>1. m - 1 \in before
          BY <4>1, LastMonthAssumption DEF Latest, Months
        <5> QED BY <5>1, <1>7
      <4>3. texts[m - 1] = <<>>
        BY <3>2, <4>1, <4>2 DEF Present
      <4> QED BY <4>3, NoRowsOfNothing DEF SiblingTail, TailOf
    <3> QED BY <3>1, <3>2
  <2> QED BY <1>6, <1>7, <2>1, <2>2 DEF PreviousTail
<1>8. CASE before # {}
  <2> DEFINE k == CHOOSE k \in before : TRUE
             last == LastEnd(texts[k][Len(texts[k])])
  <2>1. k \in before
    BY <1>8
  <2>2. k \in 1 .. m - 1 /\ k \in Months /\ Present(k) /\ texts[k] # <<>>
    BY <1>4, <2>1
  <2>3. before = {k}
    BY <1>3, <2>1
  <2>4. UNION {rows[j] : j \in before} = rows[k]
    <3> HIDE DEF k
    <3> QED BY <2>3
  <2>5. rows[k] = AllRows(Months)[k] /\ TailOf(AllRows(Months)[k]) = last /\ last # NoTime
    BY <2>2 DEF TailFaithful
  <2>6. DatabaseTail(m) = last
    BY <1>5, <2>4, <2>5
  <2>7. LastDayTail(m, Months) = last
    BY <1>6, <1>8
  <2> QED BY <2>5, <2>6, <2>7 DEF PreviousTail
<1> QED BY <1>7, <1>8

\* Taking months in one after another makes the rows that taking them all in at
\* once makes, wherever the tail rule finds the last event of the months before
\* (ResolvePreviousTailForReplaceMonth against LinkLogs).
THEOREM IncrementalAlwaysAgrees == Spec => IncrementalAgrees
<1> DEFINE Agree ==
      \A m \in Months, check \in DateChecks :
        (/\ IngestMonth(m, check)
         /\ AllAccepted(Months, check)
         /\ \A k \in 1 .. m - 1 : rows[k] = AllRows(Months)[k] /\ TailFaithful(k))
        => rows'[m] = AllRows(Months)[m]
<1>1. TypeOK /\ [Next]_vars => Agree
  <2> SUFFICES ASSUME TypeOK, NEW m \in Months, NEW check \in DateChecks,
                      IngestMonth(m, check), AllAccepted(Months, check),
                      \A k \in 1 .. m - 1 : rows[k] = AllRows(Months)[k] /\ TailFaithful(k)
               PROVE  rows'[m] = AllRows(Months)[m]
    OBVIOUS
  <2>1. PreviousTail(m) = LastDayTail(m, Months)
    BY SameTail
  <2>2. rows'[m] = Stored(LinkFirstDay(Convert(texts[m]), PreviousTail(m)))
    BY DEF IngestMonth, TypeOK
  <2>3. AllRows(Months)[m] = Stored(LinkFirstDay(Convert(texts[m]), LastDayTail(m, Months)))
    BY DEF IngestMonth, AllRows, Linked
  <2> QED BY <2>1, <2>2, <2>3
<1>2. [][Agree]_vars <=> IncrementalAgrees
  BY DEF IncrementalAgrees
<1> HIDE DEF Agree
<1>3. TypeOK /\ [Next]_vars => [Agree]_vars
  BY <1>1
<1>4. Spec => [][Agree]_vars
  BY <1>3, TypeCorrect, PTL DEF Spec
<1> QED BY <1>2, <1>4
=============================================================================
