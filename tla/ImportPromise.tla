--------------------------- MODULE ImportPromise ---------------------------
(***************************************************************************)
(* What the write side of the database promises its callers, as the        *)
(* reports see it: a table of days and a table of records, each record     *)
(* filed under the project path it was written with.  A call either        *)
(* happens in full, at one instant, or leaves both tables alone: the days  *)
(* of a TXT "are taken in completely, or not a trace of them is left"      *)
(* (core/architecture/infrastructure_persistence.md).                      *)
(***************************************************************************)
EXTENDS ImportRequests

VARIABLES
  days,       \* the dates the database knows
  table,      \* the records, as [id, day, path]
  pending,    \* pending[h]: the call h is executing, or Idle
  result      \* result[h]: what the last call of h returned

promiseVars == <<days, table, pending, result>>

Init ==
  /\ days = {}
  /\ table = {}
  /\ pending = [h \in Hosts |-> Idle]
  /\ result = [h \in Hosts |-> "none"]

Call(h, req) ==
  /\ pending[h] = Idle
  /\ pending' = [pending EXCEPT ![h] = req]
  /\ UNCHANGED <<days, table, result>>

Succeed(h) ==
  /\ pending[h] # Idle
  /\ days' = DaysAfter(pending[h], days)
  /\ table' = RecordsAfter(pending[h], table)
  /\ pending' = [pending EXCEPT ![h] = Idle]
  /\ result' = [result EXCEPT ![h] = "ok"]

\* An error return, or the death of the process.
GiveUp(h) ==
  /\ pending[h] # Idle
  /\ pending' = [pending EXCEPT ![h] = Idle]
  /\ \E r \in {"failed", "none"} : result' = [result EXCEPT ![h] = r]
  /\ UNCHANGED <<days, table>>

Next ==
  \E h \in Hosts :
    \/ \E req \in Requests : Call(h, req)
    \/ Succeed(h)
    \/ GiveUp(h)

Spec == Init /\ [][Next]_promiseVars
=============================================================================
