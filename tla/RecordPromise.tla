--------------------------- MODULE RecordPromise ---------------------------
(***************************************************************************)
(* What an atomic record promises (presentation/android/                   *)
(* record_input_atomic_flow.md): "success or rollback".  A call either     *)
(* adds its line to the month TXT and to the database, at one instant, or  *)
(* changes neither.  The one exception it may report is a rollback that    *)
(* failed: then the TXT is in doubt, the database is not touched, and the  *)
(* old TXT is kept aside.                                                  *)
(***************************************************************************)
EXTENDS Naturals

CONSTANTS
  Lines,    \* the lines that may be recorded, in the order of the file
  Absent    \* "there is no such TXT", "there are no such rows"

Texts == {Absent} \cup SUBSET Lines

LinesOf(t) == IF t = Absent THEN {} ELSE t

VARIABLES
  text,     \* the month TXT
  rows,     \* the TXT the rows of the month were made from
  aside,    \* TXTs kept after a rollback that failed
  line      \* the line being recorded, or Absent

vars == <<text, rows, aside, line>>

Init ==
  /\ text \in Texts
  /\ rows = text
  /\ aside = {}
  /\ line = Absent

Submit ==
  /\ line = Absent
  /\ line' \in Lines
  /\ UNCHANGED <<text, rows, aside>>

Accept ==
  /\ line # Absent
  /\ text' = LinesOf(text) \cup {line}
  /\ rows' = text'
  /\ line' = Absent
  /\ UNCHANGED aside

Refuse ==
  /\ line # Absent
  /\ line' = Absent
  /\ UNCHANGED <<text, rows, aside>>

GetStuck ==
  /\ line # Absent
  /\ text' \in Texts
  /\ aside' = aside \cup {text}
  /\ line' = Absent
  /\ UNCHANGED rows

Next == Submit \/ Accept \/ Refuse \/ GetStuck

Spec == Init /\ [][Next]_vars
=============================================================================
