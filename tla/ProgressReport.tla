--------------------------- MODULE ProgressReport ---------------------------
(***************************************************************************)
(* The reporter every encryption and decryption carries along: what of the  *)
(* batch is done, shown to an observer whose answer may cancel the          *)
(* operation, as may a token that another thread sets.                      *)
(***************************************************************************)
EXTENDS Naturals, Sequences

\* The phases that end an operation; in the last two a cancel is ignored.
Settled == {"completed", "failed"}

NothingSeen == [phase |-> "none", done |-> 0, total |-> 0]

\* What a callback receives of a reporter.
Snapshot(rep) == [phase |-> rep.phase, done |-> rep.done, total |-> rep.total]

\* The constructor of ProgressReporter.
NewReporter == [phase |-> "scan", total |-> 0, base |-> 0,
                fileTotal |-> 0, done |-> 0]

Least(a, b) == IF a <= b THEN a ELSE b

\* SetAggregateTotals, SetCurrentFile, SetPhase, UpdateCurrentFileProgress,
\* FinishCurrentFile and MarkCompleted, before they emit.
WithTotals(rep, total) == [rep EXCEPT !.total = total]
AtFile(rep, size, base) ==
    [rep EXCEPT !.base = base, !.fileTotal = size, !.done = base]
InPhase(rep, phase) == [rep EXCEPT !.phase = phase]

\* Mutant: the bytes read are not held against what the file was planned with.
ReadSoFarUncapped(rep, bytes) == [rep EXCEPT !.done = rep.base + bytes]
ReadSoFar(rep, bytes) ==
    [rep EXCEPT !.done = rep.base + Least(bytes, rep.fileTotal)]

FileFinished(rep) == [rep EXCEPT !.done = rep.base + rep.fileTotal]
Completed(rep) == [rep EXCEPT !.phase = "completed", !.done = rep.total]

Emission(rep, seen, token, ok) ==
    [rep |-> rep, seen |-> seen, token |-> token, ok |-> ok]
Cancelled(rep, seen, token) == Emission(InPhase(rep, "cancelled"), seen, token, FALSE)

\* Mutant: only the observer's answer cancels, never the token.
EmissionsUnlessAsked(rep, seen, token, forced) ==
    {Emission(rep, Snapshot(rep), token, TRUE)}
    \cup (IF forced \/ seen = NothingSeen THEN {} ELSE {Emission(rep, seen, token, TRUE)})
    \cup (IF rep.phase \in Settled THEN {} ELSE {Cancelled(rep, Snapshot(rep), token)})

\* Emit: every outcome of telling the observer.  The token is looked at before
\* the callback and after it, and its answer counts as much; an emission that
\* is not forced may be held back.
Emissions(rep, seen, token, forced) ==
    IF token /\ rep.phase \notin Settled THEN {Cancelled(rep, seen, token)}
    ELSE {Emission(rep, Snapshot(rep), token, TRUE)}
         \cup (IF forced \/ seen = NothingSeen THEN {} ELSE {Emission(rep, seen, token, TRUE)})
         \cup (IF rep.phase \in Settled THEN {} ELSE {Cancelled(rep, Snapshot(rep), token)})
=============================================================================
