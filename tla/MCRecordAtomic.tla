--------------------------- MODULE MCRecordAtomic ---------------------------
(* Small instances of RecordAtomic for TLC.                                *)
EXTENDS RecordAtomic

CONSTANTS r1, r2, e1

MCLines == {1, 2, 3}

\* Without its first line a month is rejected, and so is the full one: some
\* candidates fail validation and some prefixes pass it.
MCValid == {{1}, {1, 2}, {1, 3}}

\* The third line without the second leaves a day out.
MCContinuous == {{1}, {1, 2}}
=============================================================================
