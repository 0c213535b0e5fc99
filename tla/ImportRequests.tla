--------------------------- MODULE ImportRequests ---------------------------
(***************************************************************************)
(* What a caller may ask of the write repository, and what each request    *)
(* makes of the tables.  A batch is what MemoryParser builds from the      *)
(* converted days: the dates and the records, [id, day, path].             *)
(***************************************************************************)
EXTENDS Sequences

CONSTANTS
  Hosts,      \* processes with a write repository on the database
  Idle,       \* "no call in progress"
  Days,       \* calendar days
  Months,     \* calendar months
  MonthOf,    \* [Days -> Months]
  Names,      \* segments of a project path
  Batches     \* converted inputs: [days, records]

(* Project paths have one or two segments; a longer path only repeats the  *)
(* child step of EnsurePath.                                               *)
RootPaths  == {<<n>> : n \in Names}
ChildPaths == {<<n, m>> : n \in Names, m \in Names}
Paths      == RootPaths \cup ChildPaths
RootOf(p)  == <<p[1]>>
NameOf(p)  == p[Len(p)]

ASSUME MonthsAssumption == MonthOf \in [Days -> Months]

(* Each record belongs to a day of its batch, and logical ids (date and    *)
(* position within it, see CalculateStats) are distinct.                   *)
ASSUME BatchesAssumption ==
  \A b \in Batches :
    /\ b = [days |-> b.days, records |-> b.records]
    /\ b.days \subseteq Days
    /\ \A r \in b.records :
         /\ r = [id |-> r.id, day |-> r.day, path |-> r.path]
         /\ r.day \in b.days
         /\ r.path \in Paths
    /\ \A r, s \in b.records : r.id = s.id => r = s

(* ImportData, ReplaceMonthData and ReplaceAllData.  The pipeline checks   *)
(* that the input of a month replacement lies in that month.               *)
Requests ==
       [kind : {"import", "all"}, batch : Batches]
  \cup {req \in [kind : {"month"}, month : Months, batch : Batches] :
          \A d \in req.batch.days : MonthOf[d] = req.month}

\* The two DELETE statements: does the request clear this day?
Removes(req, day) ==
  \/ req.kind = "all"
  \/ req.kind = "month" /\ MonthOf[day] = req.month

DaysAfter(req, old) == {d \in old : ~Removes(req, d)} \cup req.batch.days

RecordsAfter(req, old) ==
       {r \in old : /\ ~Removes(req, r.day)
                    /\ \A new \in req.batch.records : new.id # r.id}
  \cup req.batch.records
=============================================================================
