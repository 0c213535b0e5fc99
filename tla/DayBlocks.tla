----------------------------- MODULE DayBlocks -----------------------------
(***************************************************************************)
(* Cutting one day out of a month's TXT and putting it back: the functions  *)
(* behind the editor's DAY mode.  They know neither headers nor events,     *)
(* only lines that are day markers.                                         *)
(***************************************************************************)
EXTENDS TxtRules

CONSTANT LastDayOfMonth  \* the days of the calendar month of the file

ASSUME LastDayOfMonthAssumption == LastDayOfMonth \in 1 .. 31

\* IsValidDayMarker: a month and a day that some month has.
IsMarker(line) ==
    /\ line.is = "date"
    /\ line.month \in 1 .. 12
    /\ line.day \in 1 .. 31

\* FindDayBlockStart: the first line that reads as the marker.
MarkerPlaces(text, marker) == {i \in DOMAIN text : text[i] = marker}
BlockStart(text, marker) ==
    CHOOSE i \in MarkerPlaces(text, marker) :
        \A j \in MarkerPlaces(text, marker) : i <= j

\* FindDayBlockEnd: the next valid marker, or the end of the text.
BlockEnd(text, start) ==
    LET after == {i \in DOMAIN text : i > start /\ IsMarker(text[i])}
    IN  IF after = {} THEN Len(text) + 1
        ELSE CHOOSE i \in after : \A j \in after : i <= j

Found(text, marker) == IsMarker(marker) /\ MarkerPlaces(text, marker) # {}

\* The body is joined line by line, which loses blank lines at its beginning.
WithoutLeadingBlanks(body) ==
    LET written == {i \in DOMAIN body : body[i].is # "blank"}
        first == CHOOSE i \in written : \A j \in written : i <= j
    IN  IF written = {} THEN <<>> ELSE SubSeq(body, first, Len(body))

\* DefaultDayMarker: today's day in the month of the file, or its last one.
DefaultMarker(month, today) ==
    DateLine(month, IF today < LastDayOfMonth THEN today ELSE LastDayOfMonth)

\* ResolveDayBlock.
ResolvedBlock(text, marker) ==
    LET start == BlockStart(text, marker)
    IN  IF Found(text, marker)
        THEN [marker |-> marker, canSave |-> TRUE,
              body |-> WithoutLeadingBlanks(
                          SubSeq(text, start + 1, BlockEnd(text, start) - 1))]
        ELSE [marker |-> marker, canSave |-> FALSE, body |-> <<>>]

\* NormalizeEditedDayBody.
NormalizedBody(marker, body) ==
    IF body # <<>> /\ body[1] = marker THEN Tail(body) ELSE body

\* Mutant: the old body is erased but for its last line.
ReplacedBlockButLast(text, marker, body) ==
    LET start == BlockStart(text, marker)
    IN  IF Found(text, marker)
        THEN SubSeq(text, 1, start) \o NormalizedBody(marker, body)
                \o SubSeq(text, BlockEnd(text, start) - 1, Len(text))
        ELSE text

\* ReplaceDayBlock.
ReplacedBlock(text, marker, body) ==
    LET start == BlockStart(text, marker)
    IN  IF Found(text, marker)
        THEN SubSeq(text, 1, start) \o NormalizedBody(marker, body)
                \o SubSeq(text, BlockEnd(text, start), Len(text))
        ELSE text
=============================================================================
