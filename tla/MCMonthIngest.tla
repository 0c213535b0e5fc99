--------------------------- MODULE MCMonthIngest ---------------------------
(***************************************************************************)
(* Small instances of MonthIngest: clock times in hours, months of two     *)
(* dates, and diaries chosen for the cases the code tells apart.           *)
(***************************************************************************)
EXTENDS MonthIngest

At(end) == [end |-> end, sleep |-> FALSE, long |-> FALSE]
Slept(end) == [end |-> end, sleep |-> TRUE, long |-> FALSE]
Long(end) == [end |-> end, sleep |-> FALSE, long |-> TRUE]
On(date, wake, events) == [date |-> date, wake |-> wake, events |-> events]

\* Days that end before midnight, as most do.
Ordinary ==
    {<<On(1, 7, <<At(22)>>), On(2, 7, <<At(12), At(23)>>)>>,
     <<On(1, 8, <<At(23)>>)>>}

\* Continuations; a wake at midnight, an authored sleep, a long activity and a
\* night of just 16 hours; a late wake and a late night; two blocks of a date and
\* a wake alone; an empty month.
Unusual ==
    {<<On(1, NoTime, <<At(8), At(23)>>), On(2, NoTime, <<At(3)>>)>>,
     <<On(1, 0, <<Slept(9), Long(8)>>), On(2, 0, <<At(12)>>)>>,
     <<On(1, 16, <<At(23), At(1)>>)>>,
     <<On(1, 7, <<At(12), At(22)>>), On(1, NoTime, <<At(23)>>), On(2, 7, <<>>)>>,
     <<>>}

\* What validation rejects: no first date, a duration of zero and one too long.
Rejected ==
    {<<On(2, 7, <<At(22)>>)>>,
     <<On(1, 7, <<At(7)>>), On(2, 1, <<At(23)>>)>>}

AllTexts == Ordinary \cup Unusual \cup Rejected
=============================================================================
