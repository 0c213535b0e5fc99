------------------------------ MODULE MCDiary ------------------------------
(***************************************************************************)
(* A small instance of Diary: clock times in steps of three hours, a month  *)
(* of four days.                                                            *)
(***************************************************************************)
EXTENDS Diary

D(n) == DateLine(2, n)
At(time) == EventLine(time, "known")
Wake(time) == EventLine(time, "wake")
Top == <<YearLine, MonthLine(2), BlankLine>>

Setting(items, nosleep, remarks) ==
    [items |-> items, nosleep |-> nosleep, remarks |-> remarks]
MCSettings == {Setting(3, TRUE, <<RemarkLine>>), Setting(3, FALSE, <<>>)}

\* A plain diary, one with a continuation and a remark, one with two blocks of
\* one date, one with a date no month has, and files that do not validate, one of
\* which the parser throws at.
MCDiaries ==
    {Top \o <<D(1), Wake(2), At(5), At(7), BlankLine, D(2), Wake(2), At(6)>>,
     Top \o <<D(1), RemarkLine, Wake(2), At(7), D(2), At(3)>>,
     Top \o <<D(1), Wake(2), At(7), D(2), At(2), D(2), At(4)>>,
     Top \o <<D(1), Wake(2), At(7), D(2), Wake(3), D(32), At(1)>>,
     <<MonthLine(2), YearLine, D(1), At(3)>>,
     Top \o <<At(3), D(1), At(5)>>,
     Top \o <<D(1), Wake(2), [is |-> "other"], D(2), Wake(2), At(6)>>}

MCBodies ==
    {<<>>,
     <<Wake(2), At(6)>>,
     <<BlankLine, RemarkLine, At(5), BlankLine>>,
     <<D(2), Wake(3), At(7)>>,
     <<At(4), PrefixLine>>,
     <<Wake(1), At(4), D(3), Wake(2), At(5)>>,
     <<EventLine(4, "unknown")>>}

MCMarkers == {D(2), D(3)}
=============================================================================
