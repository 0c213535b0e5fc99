---------------------------- MODULE MonthIngest ----------------------------
(***************************************************************************)
(* The three ways TXTs reach the database - one month replaced, all months *)
(* replaced, and the standard mode that only upserts - over several months *)
(* whose first nights are linked to one another.  A user edits the TXTs in *)
(* between.  A call is one step here: what happens inside it, and beside   *)
(* it, is the subject of ImportRepository and RecordAtomic.                *)
(***************************************************************************)
EXTENDS TxtConversion

CONSTANTS LastMonth,  \* the months are 1 .. LastMonth
          Texts,      \* the texts a user may write
          Absent,     \* no TXT, or no sync status
          MaxEdits    \* bound on the edits

VARIABLES texts,   \* the month TXTs, one per month, in one directory
          rows,    \* the rows of each month
          stamps,  \* the text whose hash the month's sync status holds
          mixed,   \* the months whose rows were added to and not replaced
          edits    \* the edits made

vars == <<texts, rows, stamps, mixed, edits>>

Months == 1 .. LastMonth

ASSUME LastMonthAssumption == LastMonth \in Nat
ASSUME TextsAssumption == Texts \subseteq Text
ASSUME AbsentAssumption == Absent \notin Text
ASSUME MaxEditsAssumption == MaxEdits \in Nat

(***************************************************************************)
(* The tail of an earlier month.                                           *)
(***************************************************************************)

\* ORDER BY date DESC, end_timestamp DESC LIMIT 1, and IsBetterTailCandidate.
IsTail(row, among) ==
    \A other \in among :
       \/ other.date < row.date
       \/ /\ other.date = row.date
          /\ EndStamp(other.activity) <= EndStamp(row.activity)

TailOf(among) ==
    LET tails == {row \in among : IsTail(row, among)}
    IN  IF tails = {} THEN NoTime
        ELSE (CHOOSE row \in tails : TRUE).activity.end

\* The latest of some months that is before month m.
Latest(m, months) ==
    {k \in months : k < m /\ \A j \in months : j < m => j <= k}

\* Mutant: the date compared with <= instead of <.
DatabaseTailInclusive(m) ==
    TailOf(UNION {rows[k] : k \in Latest(m + 1, {k \in Months : rows[k] # {}})})

\* TryGetLatestActivityTailBeforeDate.
DatabaseTail(m) ==
    TailOf(UNION {rows[k] : k \in Latest(m, {k \in Months : rows[k] # {}})})

\* TryGetPreviousTailFromSiblingTxt: only the month right before.
SiblingTail(m) ==
    IF m = 1 \/ texts[m - 1] = Absent THEN NoTime
    ELSE TailOf(Records(Convert(texts[m - 1])))

PreviousTail(m) ==
    IF DatabaseTail(m) # NoTime THEN DatabaseTail(m) ELSE SiblingTail(m)

(***************************************************************************)
(* Several months at once: LinkLogs over the months that have days.        *)
(***************************************************************************)
Present(m) == texts[m] # Absent

\* The source path of an ingest is a file or the directory.
Sources == {Months} \cup {{m} : m \in Months}

LastDayTail(m, source) ==
    LET before == Latest(m, {k \in source : Present(k) /\ texts[k] # <<>>})
        lastMonth == CHOOSE k \in before : TRUE
    IN  IF before = {} THEN NoTime
        ELSE LastEnd(texts[lastMonth][Len(texts[lastMonth])])

Linked(m, source) == LinkFirstDay(Convert(texts[m]), LastDayTail(m, source))

AllAccepted(source, check) ==
    /\ \E m \in source : Present(m)
    /\ \A m \in {k \in source : Present(k)} :
          StructureValid(texts[m]) /\ LogicValid(Linked(m, source), check)

AllRows(source) ==
    [m \in Months |-> IF m \in source /\ Present(m) THEN Stored(Linked(m, source))
                      ELSE {}]

\* PersistIngestSyncSnapshot: the whole table, only the months of this ingest.
Snapshot(source) ==
    [m \in Months |-> IF m \in source THEN texts[m] ELSE Absent]

(***************************************************************************)
(* Behaviour.                                                              *)
(***************************************************************************)
Init ==
    /\ texts \in [Months -> Texts \cup {Absent}]
    /\ rows = [m \in Months |-> {}]
    /\ stamps = [m \in Months |-> Absent]
    /\ mixed = {}
    /\ edits = 0

\* The user writes, creates or deletes a TXT.
Edit(m, text) ==
    /\ edits < MaxEdits
    /\ texts' = [texts EXCEPT ![m] = text]
    /\ edits' = edits + 1
    /\ UNCHANGED <<rows, stamps, mixed>>

\* A row of a logical id that is there already is updated, no row is removed.
Upserted(old, new) ==
    new \cup {r \in old : \A n \in new : n.date # r.date \/ n.seq # r.seq}

\* Mutant: the month's rows are upserted and the old ones not deleted.
IngestMonthUpserting(m, check) ==
    LET days == Convert(texts[m])
    IN  /\ Present(m)
        /\ StructureValid(texts[m])
        /\ LogicValid(days, check)
        /\ rows' = [rows EXCEPT ![m] =
                Upserted(@, Stored(LinkFirstDay(days, PreviousTail(m))))]
        /\ stamps' = [stamps EXCEPT ![m] = texts[m]]
        /\ mixed' = mixed \ {m}
        /\ UNCHANGED <<texts, edits>>

\* RunIngest, kSingleTxtReplaceMonth: the month is validated as the file
\* stands, linked to what is known of the month before, and replaced.
IngestMonth(m, check) ==
    LET days == Convert(texts[m])
    IN  /\ Present(m)
        /\ StructureValid(texts[m])
        /\ LogicValid(days, check)
        /\ stamps' = [stamps EXCEPT ![m] = texts[m]]
        /\ rows' = [rows EXCEPT ![m] =
                Stored(LinkFirstDay(days, PreviousTail(m)))]
        /\ mixed' = mixed \ {m}
        /\ UNCHANGED <<texts, edits>>

\* RunIngestReplacingAll: everything is linked, then validated, then replaced.
IngestAll(source, check) ==
    /\ AllAccepted(source, check)
    /\ rows' = AllRows(source)
    /\ stamps' = Snapshot(source)
    /\ mixed' = {}
    /\ UNCHANGED <<texts, edits>>

\* RunIngest, kStandard: rows are upserted and the sync table is replaced.
IngestStandard(source, check) ==
    /\ AllAccepted(source, check)
    /\ rows' = [m \in Months |-> Upserted(rows[m], AllRows(source)[m])]
    /\ stamps' = Snapshot(source)
    /\ mixed' = mixed \cup {m \in source : Present(m) /\ rows[m] # {}}
    /\ UNCHANGED <<texts, edits>>

Next ==
    \/ \E m \in Months, text \in Texts \cup {Absent} : Edit(m, text)
    \/ \E m \in Months, check \in DateChecks : IngestMonth(m, check)
    \/ \E source \in Sources, check \in DateChecks : IngestAll(source, check)
    \/ \E source \in Sources, check \in DateChecks : IngestStandard(source, check)

Spec == Init /\ [][Next]_vars

(***************************************************************************)
(* Properties.                                                             *)
(***************************************************************************)

\* Every variable has its type.
TypeOK ==
    /\ texts \in [Months -> Text \cup {Absent}]
    /\ rows \in [Months -> SUBSET Row]
    /\ stamps \in [Months -> Text \cup {Absent}]
    /\ mixed \subseteq Months
    /\ edits \in 0 .. MaxEdits

\* No activity in the database is longer than 16 hours unless its remark
\* allows it: the validation bounds what the file says and the nights inside a
\* month, and a cap of its own bounds the night between two months, which is
\* added after the validation when one month is replaced.
NoLongActivity ==
    \A m \in Months : \A r \in rows[m] :
        r.activity.long \/ Duration(r.activity) <= MaxActivity

DistinctDates(text) ==
    \A i, j \in DOMAIN text : i # j => text[i].date # text[j].date

\* Activities of a day follow one another without a gap, from the generated
\* night on, also at the seam where a night from another month is put before
\* what the file says: each begins when the one before it in the day ends.
\* (Rows the standard mode leaves among new ones need not fit between them.)
DaysTile ==
    \A m \in Months \ mixed : (stamps[m] # Absent /\ DistinctDates(stamps[m])) =>
        \A r, s \in rows[m] :
            (r.date = s.date /\ s.seq = r.seq + 1) =>
                s.activity.start = r.activity.end

\* A month whose status is in sync has the rows its TXT converts to, in every
\* mode, and no other unless the standard mode, which keeps rows the TXT no
\* longer has, has added to it since it was last replaced.  The night before its
\* first day depends on the month before.
SyncedMeansSame ==
    \A m \in Months : stamps[m] # Absent =>
        \E tail \in Times \cup {NoTime} :
            LET due == Stored(LinkFirstDay(Convert(stamps[m]), tail))
            IN  due \subseteq rows[m] /\ (m \notin mixed => rows[m] = due)

\* The rule for the tail of month k finds the end of its last event.  (It does
\* not when that is earlier than the end of a night or of an activity after
\* midnight of the same day, or when the last day has no event.)
TailFaithful(k) ==
    (Present(k) /\ texts[k] # <<>>) =>
        /\ TailOf(AllRows(Months)[k]) = LastEnd(texts[k][Len(texts[k])])
        /\ TailOf(AllRows(Months)[k]) # NoTime

\* Replacing one month after the months before it makes the rows that taking
\* all months in at once would make, where the tail rule finds the last event.
IncrementalAgrees ==
    [][\A m \in Months, check \in DateChecks :
        (/\ IngestMonth(m, check)
         /\ AllAccepted(Months, check)
         /\ \A k \in 1 .. m - 1 : rows[k] = AllRows(Months)[k] /\ TailFaithful(k))
        => rows'[m] = AllRows(Months)[m]]_vars

\* The same without the restriction: the night between two months runs from
\* the last activity of the last day before it, whichever way it is taken in.
MonthsLinkAlike ==
    [][\A m \in Months, check \in DateChecks :
        (/\ IngestMonth(m, check)
         /\ AllAccepted(Months, check)
         /\ \A k \in 1 .. m - 1 : rows[k] = AllRows(Months)[k])
        => rows'[m] = AllRows(Months)[m]]_vars
=============================================================================
