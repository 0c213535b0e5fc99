------------------------------- MODULE Diary -------------------------------
(***************************************************************************)
(* One month's TXT on its way to an ingest: written by the log generator,   *)
(* or edited on the Android TXT screen, whole (ALL) or one day at a time    *)
(* (DAY).  The screen holds the month as a draft, cuts the day the user     *)
(* names out of it - asynchronously, on the native side - and merges the    *)
(* typed day back when the user asks for an ingest.  The save keeps only    *)
(* what both validations accept.                                            *)
(***************************************************************************)
EXTENDS LogGenerator, DayBlocks

CONSTANTS Diaries,   \* the files that are there when the screen opens
          Markers,   \* the day markers a user types
          Bodies,    \* the day texts a user types
          Today,     \* the day of the logical date
          Patient,   \* the user waits for the screen to follow
          MaxEdits   \* bound on the texts typed

VARIABLES gen,    \* the month being generated, or NoMonth
          file,   \* the TXT
          ui,     \* the editor session
          edits   \* the texts typed

vars == <<gen, file, ui, edits>>

ASSUME DiaryAssumption == /\ Patient \in BOOLEAN /\ MaxEdits \in Nat
                          /\ Today \in 1 .. 31
ASSUME LinesAssumption == /\ Diaries \cup Bodies \subseteq Seq(Line)
                          /\ Markers \subseteq Line

NoMonth == [date |-> -1]

\* TxtDraftSessionState.
Draft(baseline, text) == [baseline |-> baseline, text |-> text]
FromResolved(text) == Draft(text, text)
Unsaved(draft) == draft.text # draft.baseline

FreshBlock(u) == ResolvedBlock(u.all.text, u.marker)
NothingResolved(marker) == [marker |-> marker, canSave |-> FALSE, body |-> <<>>]

\* TxtEditorSessionState of a file that was just opened, with the marker that
\* is loaded for it.
Opened(text) ==
    LET marker == DefaultMarker(Month, Today)
    IN  [mode |-> "DAY", marker |-> marker, open |-> FALSE, loading |-> FALSE,
         all |-> FromResolved(text), day |-> FromResolved(<<>>),
         block |-> NothingResolved(marker)]

Init ==
    /\ edits = 0
    /\ \/ /\ gen \in NewMonths
          /\ file = <<>>
       \/ /\ gen = NoMonth
          /\ file \in Diaries
    /\ ui = Opened(file)

(***************************************************************************)
(* The generator.                                                          *)
(***************************************************************************)
GenerateDay ==
    /\ gen # NoMonth
    /\ ~Written(gen)
    /\ gen' \in NextDays(gen)
    /\ UNCHANGED <<file, ui, edits>>

(***************************************************************************)
(* The editor.                                                             *)
(***************************************************************************)
Waited == Patient => ui.block = FreshBlock(ui)

\* updateDayMarkerInput.
TypeMarker(marker) ==
    /\ gen = NoMonth
    /\ ui.marker # marker
    /\ ui' = [ui EXCEPT !.marker = marker]
    /\ UNCHANGED <<gen, file, edits>>

\* updateOutputMode; the DAY draft follows the block resolved last, and the
\* default marker of the file is loaded.
SwitchMode(mode) ==
    /\ gen = NoMonth
    /\ ui.mode # mode
    /\ ui' = [ui EXCEPT !.mode = mode,
                        !.loading = @ \/ mode = "DAY",
                        !.day = IF mode = "DAY" THEN FromResolved(ui.block.body) ELSE @]
    /\ UNCHANGED <<gen, file, edits>>

\* loadDefaultDayMarker answers, applyAutoDayMarker.
LoadMarker ==
    /\ ui.loading
    /\ ui' = [ui EXCEPT !.loading = FALSE, !.marker = DefaultMarker(Month, Today)]
    /\ UNCHANGED <<gen, file, edits>>

\* produceState and the effect that follows it.
Resolve ==
    /\ gen = NoMonth
    /\ ui.block # FreshBlock(ui)
    /\ ui' = [ui EXCEPT !.block = FreshBlock(ui),
                        !.day = IF ui.mode = "DAY" THEN FromResolved(FreshBlock(ui).body)
                                ELSE @]
    /\ UNCHANGED <<gen, file, edits>>

\* openEditor.
Open ==
    /\ gen = NoMonth
    /\ ~ui.open
    /\ Waited
    /\ ui' = [ui EXCEPT !.open = TRUE,
                        !.day = IF ui.mode = "DAY" THEN FromResolved(ui.block.body) ELSE @]
    /\ UNCHANGED <<gen, file, edits>>

\* closeEditorSession: what was typed is abandoned.
Close ==
    /\ ui.open
    /\ ui' = [ui EXCEPT !.open = FALSE,
                        !.day = IF ui.mode = "DAY" THEN FromResolved(ui.block.body) ELSE @,
                        !.all = FromResolved(@.baseline)]
    /\ UNCHANGED <<gen, file, edits>>

\* onEditorTextChange.
Type(text) ==
    /\ ui.open
    /\ edits < MaxEdits
    /\ Waited
    /\ edits' = edits + 1
    /\ ui' = IF ui.mode = "ALL" THEN [ui EXCEPT !.all.text = text]
             ELSE [ui EXCEPT !.day.text = text]
    /\ UNCHANGED <<gen, file>>

\* deriveEditorUiState.
CanIngest ==
    /\ ui.open
    /\ IF ui.mode = "ALL" THEN Unsaved(ui.all)
       ELSE ui.block.canSave /\ Unsaved(ui.day)

\* ingestCurrentEditor, up to the save.
Merged ==
    IF ui.mode = "ALL" THEN ui.all.text
    ELSE ReplacedBlock(ui.all.text, ui.marker, ui.day.text)

\* saveTxtFileAndSync keeps what validates and belongs to this file.
Savable(text) ==
    /\ Ingestible(text, "continuity")
    /\ \E i \in DOMAIN text : text[i] = MonthLine(Month)

\* ingestCurrentEditor: the session goes on from the merged text, saved or not.
Ingest ==
    /\ CanIngest
    /\ Waited
    /\ file' = IF Savable(Merged) THEN Merged ELSE file
    /\ ui' = [ui EXCEPT !.open = FALSE,
                        !.all = Draft(file', Merged),
                        !.day = IF ui.mode = "DAY" THEN FromResolved(@.text) ELSE @]
    /\ UNCHANGED <<gen, edits>>

\* A text typed in ALL mode: the file with one more or one fewer day.
Rewritten ==
    {ui.all.text \o body : body \in Bodies}
    \cup {SubSeq(ui.all.text, 1, Len(ui.all.text) - 1)}

Next ==
    \/ GenerateDay
    \/ \E marker \in Markers : TypeMarker(marker)
    \/ \E mode \in {"ALL", "DAY"} : SwitchMode(mode)
    \/ LoadMarker
    \/ Resolve
    \/ Open
    \/ Close
    \/ \E text \in IF ui.mode = "ALL" THEN Rewritten ELSE Bodies : Type(text)
    \/ Ingest

Spec == Init /\ [][Next]_vars

(***************************************************************************)
(* Properties.                                                             *)
(***************************************************************************)

LinesThatAre(kind, text) ==
    Walked(LAMBDA all, line : IF line.is = kind THEN Append(all, line) ELSE all,
           <<>>, text)
EventLines(text) == LinesThatAre("event", text)
DateLines(text) == LinesThatAre("date", text)
Booked(text) == Walked(LAMBDA all, log : all \o log.events, <<>>, Logs(text))

\* What the validator accepts the parser can read, and all of it: no line is
\* skipped, every date begins a day and every event is in the day it stands in,
\* though the two readers share no code (text_validator.cpp, text_parser.cpp).
AcceptedIsRead ==
    \A text \in {file, ui.all.text} : Accepts(text) =>
        /\ Parses(text)
        /\ Len(Logs(text)) = Len(DateLines(text))
        /\ LET booked == Booked(text)
           IN  [k \in DOMAIN booked |-> EventLine(booked[k].time, booked[k].name)]
                  = EventLines(text)

\* A month the generator has written is accepted with every date in it, as long
\* as a day has more events than the one that ends it.
GeneratedIsAccepted ==
    (gen # NoMonth /\ Written(gen)) => Ingestible(gen.text, "full")

\* The average the generator reports is that of the activities an ingest of the
\* same text would make, nights and continued days included.
AverageIsTracked ==
    (gen # NoMonth /\ gen.date > 0) => StatsTotal(gen.text) = Tracked(gen.text)

Headless(text) == \A i \in DOMAIN text : text[i].is \notin {"year", "month", "date"}

\* A saved day edit changes the day whose text the user was shown and no other,
\* and makes it what was typed, as long as neither text holds headers of its own:
\* of the days of a file that can be read one is another, and that under the same
\* date; all others parse as before, wherever their lines now stand.
DayEditIsLocal ==
    [][LET shown == ui.block.marker
           typed == NormalizedBody(shown, ui.day.text)
       IN  (/\ ui.open
            /\ file' # file
            /\ ui.mode = "DAY"
            /\ ui.all.text = file
            /\ Parses(file)
            /\ Headless(typed)
            /\ Headless(ui.block.body))
           => /\ Len(Logs(file')) = Len(Logs(file))
              /\ \E k \in DOMAIN Logs(file) :
                    /\ Logs(file)[k].date = shown.day
                    /\ Logs(file')[k].date = shown.day
                    /\ \A i \in DOMAIN Logs(file) \ {k} : Logs(file')[i] = Logs(file)[i]
              /\ ResolvedBlock(file', shown).body = WithoutLeadingBlanks(typed)]_vars
=============================================================================
