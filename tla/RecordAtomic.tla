---------------------------- MODULE RecordAtomic ----------------------------
(***************************************************************************)
(* The atomic record call on one month, RunRecordActivityAtomicallySupport *)
(* in application/pipeline/detail/pipeline_record_atomic_support_impl.inc: *)
(* candidate, backup, official TXT, single-month ingest, restore; with the *)
(* ingest it calls (RunIngest in pipeline_workflow.cpp) and the Android    *)
(* flow that saves an edited TXT and ingests it                            *)
(* (RuntimeTxtSaveAndSyncFlow.kt).  A native call holds the bridge's       *)
(* runtime mutex from end to end; the editor writes the TXT outside it.    *)
(*                                                                         *)
(* A text is the set of its event lines, ordered as numbers; a write that  *)
(* fails or is cut short leaves a proper prefix.  The record call writes   *)
(* its files with WriteCanonicalTextFile, which tests the stream before its*)
(* buffer is flushed: what fails at the flush is lost unseen, and the call *)
(* goes on with a torn candidate, backup or TXT.  Rows and sync status are *)
(* abstracted to the text they were made from: replacing a month deletes   *)
(* the month first (ImportRepository), and the status is a hash.           *)
(***************************************************************************)
EXTENDS Naturals

CONSTANTS
  Recorders,  \* callers of the atomic record
  Editors,    \* callers of save-and-sync
  Nobody,     \* "the runtime mutex is free"
  Lines, Absent,
  Valid,      \* the texts structure and logic validation accept
  Continuous, \* those whose dates are continuous, too
  Faults,     \* what may go wrong
  MaxCalls    \* bound: calls made in one behaviour

\* "open" is an official TXT that cannot be opened for writing, "write" one
\* whose stream fails after that, "flush" a file whose tail is lost when the
\* stream is closed.
Kinds == {"backup", "open", "write", "flush", "ingest", "import", "stamp",
          "restore", "crash"}

Actors == Recorders \cup Editors
Texts  == {Absent} \cup SUBSET Lines

ASSUME ActorsAssumption == Recorders \cap Editors = {} /\ Nobody \notin Actors
ASSUME LinesAssumption ==
  /\ Lines \subseteq Nat
  /\ \A t \in SUBSET Lines : t # Absent
  /\ Absent \notin Lines
ASSUME ValidAssumption ==
  Valid \subseteq SUBSET Lines /\ Continuous \subseteq Valid
ASSUME FaultsAssumption == Faults \subseteq Kinds
ASSUME BoundAssumption == MaxCalls \in Nat

VARIABLES
  official,   \* the month TXT on disk
  rows,       \* the text the month's rows in the database were made from
  stamp,      \* the text whose hash ingest_month_sync holds
  native,     \* who holds the runtime mutex
  job,        \* job[a]: the call a is executing
  kept,       \* the backups in the workspaces left on disk
  answer,     \* the response of the last record call
  calls,      \* calls made so far
  calm        \* history: the record call, or the last one, began with the
              \* status in step and has met no editor at work and no
              \* failure but those it sees and handles

vars == <<official, rows, stamp, native, job, kept, answer, calls, calm>>

\* The record call checks no dates (DATE_CHECK_NONE), a save does.
Accepted(a) == IF a \in Recorders THEN Valid ELSE Continuous

LinesOf(t) == IF t = Absent THEN {} ELSE t

\* What is left of a text whose write was cut short.
Prefixes(t) == {{x \in t : x < cut} : cut \in t}

\* What may be left of it without an error.
Torn(t) == {p \in Prefixes(t) : "flush" \in Faults}

\* Of "flushed": history, the backup has reached the disk whole.
NoJob == [pc |-> "idle", arg |-> Absent, before |-> Absent,
          candidate |-> {}, backup |-> Absent, flushed |-> TRUE,
          text |-> Absent]

Init ==
  /\ official \in {Absent} \cup Valid
  /\ rows = official
  /\ stamp = official
  /\ native = Nobody
  /\ job = [a \in Actors |-> NoJob]
  /\ kept = {}
  /\ answer = "none"
  /\ calls = 0
  /\ calm = TRUE

At(a, pc) == job[a].pc = pc
Goto(a, pc) == job' = [job EXCEPT ![a].pc = pc]

\* The call returns; its workspace, if any, is removed.
Return(a) ==
  /\ native' = IF native = a THEN Nobody ELSE native
  /\ job' = [job EXCEPT ![a] = NoJob]

-----------------------------------------------------------------------------
(* The record call.                                                        *)

Submit(r, line) ==
  /\ calls < MaxCalls
  /\ At(r, "idle") /\ native = Nobody
  /\ native' = r
  /\ calls' = calls + 1
  /\ job' = [job EXCEPT ![r] = [NoJob EXCEPT !.pc = "read", !.arg = {line}]]
  /\ calm' = (stamp = rows /\ \A e \in Editors : At(e, "idle"))
  /\ UNCHANGED <<official, rows, stamp, kept, answer>>

\* The text the call is to make of the official one.
Candidate(r) == LinesOf(job[r].before) \cup job[r].arg

\* Read the official TXT (or take the month template), insert the line,
\* write the candidate to the workspace, read it back and validate it.
Propose(r, texts) ==
  /\ At(r, "read")
  /\ job[r].arg \cap LinesOf(official) = {}
  /\ \E text \in texts \cap Valid :
       job' = [job EXCEPT ![r] = [job[r] EXCEPT !.pc = "backup",
                                                !.before = official,
                                                !.candidate = text]]
  /\ UNCHANGED <<official, rows, stamp, native, kept, answer, calls>>

BuildCandidate(r) ==
  /\ Propose(r, {LinesOf(official) \cup job[r].arg})
  /\ UNCHANGED calm

TornCandidate(r) ==
  /\ Propose(r, Torn(LinesOf(official) \cup job[r].arg))
  /\ calm' = FALSE

\* Every failure before the official TXT is opened.
Reject(r) ==
  /\ \/ At(r, "read")
     \/ At(r, "backup") /\ "backup" \in Faults
     \/ At(r, "write") /\ "open" \in Faults
  /\ Return(r)
  /\ answer' = "rejected"
  /\ UNCHANGED <<official, rows, stamp, kept, calls, calm>>

BackUp(r) ==
  /\ At(r, "backup")
  /\ job' = [job EXCEPT ![r] = [job[r] EXCEPT !.pc = "write",
                                              !.backup = job[r].before]]
  /\ UNCHANGED <<official, rows, stamp, native, kept, answer, calls, calm>>

TornBackUp(r) ==
  /\ At(r, "backup")
  /\ \E text \in Torn(LinesOf(job[r].before)) :
       job' = [job EXCEPT ![r] = [job[r] EXCEPT !.pc = "write",
                                                !.backup = text,
                                                !.flushed = FALSE]]
  /\ calm' = FALSE
  /\ UNCHANGED <<official, rows, stamp, native, kept, answer, calls>>

\* The text read back from the candidate file replaces the official one.
WriteOfficial(r) ==
  /\ At(r, "write")
  /\ official' = job[r].candidate
  /\ Goto(r, "ingest")
  /\ UNCHANGED <<rows, stamp, native, kept, answer, calls, calm>>

TornOfficial(r) ==
  /\ At(r, "write")
  /\ official' \in Torn(job[r].candidate)
  /\ Goto(r, "ingest")
  /\ calm' = FALSE
  /\ UNCHANGED <<rows, stamp, native, kept, answer, calls>>

\* The stream fails after it truncated the file.  The outer handler removes
\* the workspace, the backup with it, and restores nothing.
WriteFailure(r) ==
  /\ At(r, "write") /\ "write" \in Faults
  /\ official' \in Prefixes(job[r].candidate)
  /\ Return(r)
  /\ answer' = "failed"
  /\ calm' = FALSE
  /\ UNCHANGED <<rows, stamp, kept, calls>>

RestoreKeepsNewFile(r) ==                 \* mutant: new month files stay
  /\ At(r, "restore")
  /\ official' = IF job[r].backup = Absent THEN official ELSE job[r].backup
  /\ Return(r)
  /\ answer' = "rolledBack"
  /\ UNCHANGED <<rows, stamp, kept, calls, calm>>

\* RestoreOfficialTxt: copy the backup back, or remove the new file.
Restore(r) ==
  /\ At(r, "restore")
  /\ official' = IF job[r].before = Absent THEN Absent ELSE job[r].backup
  /\ Return(r)
  /\ answer' = "rolledBack"
  /\ UNCHANGED <<rows, stamp, kept, calls, calm>>

RestoreFailureCleans(r) ==                \* mutant: workspace not retained
  /\ At(r, "restore") /\ "restore" \in Faults
  /\ official' \in {official} \cup Prefixes(LinesOf(job[r].backup))
  /\ Return(r)
  /\ answer' = "rollbackFailed"
  /\ UNCHANGED <<rows, stamp, kept, calls, calm>>

\* The workspace is retained.
RestoreFailure(r) ==
  /\ At(r, "restore") /\ "restore" \in Faults
  /\ official' \in {official} \cup Prefixes(LinesOf(job[r].backup))
  /\ kept' = kept \cup {job[r].backup}
  /\ Return(r)
  /\ answer' = "rollbackFailed"
  /\ UNCHANGED <<rows, stamp, calls, calm>>

-----------------------------------------------------------------------------
(* Save-and-sync, and the import of a picked file: the content is validated*)
(* as a file of its own, which takes the runtime; the official TXT is      *)
(* written outside it; then the runtime is entered again for the ingest.   *)

Save(e, text, flow) ==
  /\ calls < MaxCalls
  /\ At(e, "idle") /\ native = Nobody
  /\ text \in Continuous
  /\ calls' = calls + 1
  /\ job' = [job EXCEPT ![e] = [NoJob EXCEPT !.pc = flow, !.arg = text]]
  /\ calm' = FALSE
  /\ UNCHANGED <<official, rows, stamp, native, kept, answer>>

\* The editor saves a file that is there; the import of a picked file
\* ("promote") makes it.
Writable(e) == At(e, "promote") \/ (At(e, "save") /\ official # Absent)

SaveText(e) ==
  /\ Writable(e)
  /\ official' = job[e].arg
  /\ Goto(e, "enter")
  /\ UNCHANGED <<rows, stamp, native, kept, answer, calls, calm>>

SaveFailure(e) ==
  /\ \/ At(e, "save") /\ official' = official
     \/ /\ Writable(e) /\ "write" \in Faults
        /\ official' \in {official} \cup Prefixes(job[e].arg)
  /\ Return(e)
  /\ UNCHANGED <<rows, stamp, kept, answer, calls, calm>>

Enter(e) ==
  /\ At(e, "enter") /\ native = Nobody
  /\ native' = e
  /\ Goto(e, "ingest")
  /\ UNCHANGED <<official, rows, stamp, kept, answer, calls, calm>>

-----------------------------------------------------------------------------
(* RunIngest(kSingleTxtReplaceMonth): the TXT is read and validated once;  *)
(* the month is replaced in one transaction, the status upserted in the    *)
(* next.                                                                   *)

CollectUnvalidated(a) ==                  \* mutant: validation not consulted
  /\ At(a, "ingest")
  /\ official # Absent
  /\ job' = [job EXCEPT ![a] = [job[a] EXCEPT !.pc = "import",
                                              !.text = official]]
  /\ UNCHANGED <<official, rows, stamp, native, kept, answer, calls, calm>>

Collect(a) ==
  /\ At(a, "ingest")
  /\ official \in Accepted(a)
  /\ job' = [job EXCEPT ![a] = [job[a] EXCEPT !.pc = "import",
                                              !.text = official]]
  /\ UNCHANGED <<official, rows, stamp, native, kept, answer, calls, calm>>

ReplaceMonth(a) ==
  /\ At(a, "import")
  /\ rows' = job[a].text
  /\ Goto(a, "stamp")
  /\ UNCHANGED <<official, stamp, native, kept, answer, calls, calm>>

\* PersistSingleIngestSyncEntry; the ingest and the call succeed.
Stamp(a) ==
  /\ At(a, "stamp")
  /\ stamp' = job[a].text
  /\ answer' = IF a \in Recorders THEN "ok" ELSE answer
  /\ Return(a)
  /\ UNCHANGED <<official, rows, kept, calls, calm>>

IngestFailureKeepsText(a) ==              \* mutant: no rollback
  /\ \/ At(a, "ingest") /\ ("ingest" \in Faults \/ official \notin Accepted(a))
     \/ At(a, "import") /\ "import" \in Faults
     \/ At(a, "stamp") /\ "stamp" \in Faults
  /\ Return(a)
  /\ calm' = (calm /\ ~At(a, "stamp"))
  /\ UNCHANGED <<official, rows, stamp, kept, answer, calls>>

\* The ingest throws: a record call rolls its TXT back, a save reports
\* "save ok, re-import failed".
IngestFailure(a) ==
  /\ \/ At(a, "ingest") /\ ("ingest" \in Faults \/ official \notin Accepted(a))
     \/ At(a, "import") /\ "import" \in Faults
     \/ At(a, "stamp") /\ "stamp" \in Faults
  /\ IF a \in Recorders THEN Goto(a, "restore") /\ UNCHANGED native
     ELSE Return(a)
  /\ calm' = (calm /\ ~At(a, "stamp"))
  /\ UNCHANGED <<official, rows, stamp, kept, answer, calls>>

\* The process dies.  Workspaces stay on disk and nothing reads them again;
\* a file being written may be cut short.
Crash ==
  /\ "crash" \in Faults
  /\ \E a \in Actors : ~At(a, "idle")
  /\ official' \in {official} \cup UNION
       {CASE At(a, "write") -> Prefixes(job[a].candidate)
          [] At(a, "restore") -> Prefixes(LinesOf(job[a].backup))
          [] Writable(a) -> Prefixes(job[a].arg)
          [] OTHER -> {} : a \in Actors}
  /\ kept' = kept \cup {job[a].backup : a \in
       {r \in Recorders : ~At(r, "idle") /\ job[r].backup # Absent}}
  /\ native' = Nobody
  /\ job' = [a \in Actors |-> NoJob]
  /\ answer' = "none"
  /\ calm' = FALSE
  /\ UNCHANGED <<rows, stamp, calls>>

\* The behaviours end with the last call.
Done ==
  /\ calls = MaxCalls
  /\ \A a \in Actors : At(a, "idle")
  /\ UNCHANGED vars

RecordStep(r) ==
  \/ BuildCandidate(r) \/ TornCandidate(r) \/ Reject(r)
  \/ BackUp(r) \/ TornBackUp(r)
  \/ WriteOfficial(r) \/ TornOfficial(r) \/ WriteFailure(r)
  \/ Restore(r) \/ RestoreFailure(r)

SaveStep(e) == SaveText(e) \/ SaveFailure(e) \/ Enter(e)

IngestStep(a) == Collect(a) \/ ReplaceMonth(a) \/ Stamp(a) \/ IngestFailure(a)

Next ==
  \/ \E r \in Recorders : RecordStep(r) \/ \E line \in Lines : Submit(r, line)
  \/ \E e \in Editors :
        SaveStep(e) \/ \E text \in Continuous, flow \in {"save", "promote"} :
                                        Save(e, text, flow)
  \/ \E a \in Actors : IngestStep(a)
  \/ Crash
  \/ Done

Spec == Init /\ [][Next]_vars

-----------------------------------------------------------------------------
(* Properties.                                                             *)

RecordPcs == {"read", "backup", "write", "ingest", "import", "stamp",
              "restore"}
SavePcs   == {"save", "promote", "enter", "ingest", "import", "stamp"}
Answers   == {"none", "ok", "rejected", "rolledBack", "rollbackFailed",
              "failed"}
Jobs(pcs) == [pc : pcs, arg : SUBSET Lines, before : Texts,
              candidate : SUBSET Lines, backup : Texts,
              flushed : BOOLEAN, text : Texts] \cup {NoJob}

\* The variables range over the values the code can give them.
TypeOK ==
  /\ official \in Texts /\ rows \in Texts /\ stamp \in Texts
  /\ native \in Actors \cup {Nobody}
  /\ job \in [Actors -> Jobs(RecordPcs) \cup Jobs(SavePcs)]
  /\ \A r \in Recorders : job[r] \in Jobs(RecordPcs)
  /\ \A e \in Editors : job[e] \in Jobs(SavePcs)
  /\ kept \subseteq Texts
  /\ answer \in Answers
  /\ calls \in 0..MaxCalls /\ calm \in BOOLEAN

\* While a record call may still have to restore the official TXT, its
\* workspace holds the text it started from, whole, if the backup was
\* flushed.
BackupHolds ==
  \A r \in Recorders :
    /\ job[r].pc \in {"write", "ingest", "import", "stamp", "restore"}
    /\ job[r].flushed
    => job[r].backup = job[r].before

\* No text that validation rejects reaches the database, torn files and
\* editors at work during an ingest included.
RowsValid == rows \in {Absent} \cup Valid

\* The sync status of a month is only ever set to the text whose rows the
\* database holds at that moment.
StampFollowsRows == [][stamp' # stamp => stamp' = rows']_stamp

\* Once the official TXT has been replaced, the text it replaced is not lost
\* unless the call succeeds: whatever ends the call, a crash included, the
\* old text is in the TXT again or in a workspace left on disk, a candidate
\* or a TXT torn unseen included.  A backup torn unseen is the exception: the
\* code restores it all the same and the rest of the month is gone.
OldTextSurvives ==
  [][\A r \in Recorders :
       (job[r].pc \in {"ingest", "import", "stamp", "restore"}
          /\ job[r].flushed /\ job'[r].pc = "idle" /\ answer' # "ok")
       => job[r].before \in {Absent, official'} \cup kept']_vars

\* A record call that met no editor at work, and no failure but those it
\* sees and handles, tells what happened: if it answers ok its line is in
\* the TXT, the rows and the sync status; if it answers otherwise, and does
\* not report a failed rollback, the TXT is as it found it and the sync
\* status in step with the rows.
AnswerTellsTheOutcome ==
  [][calm' => \A r \in Recorders :
       ~At(r, "idle") /\ job'[r].pc = "idle" =>
         \/ /\ answer' = "ok"
            /\ official' = Candidate(r)
            /\ rows' = official' /\ stamp' = official'
         \/ answer' = "rollbackFailed"
         \/ /\ answer' \in {"rejected", "rolledBack"}
            /\ official' = IF At(r, "read") THEN official ELSE job[r].before
            /\ stamp' = rows']_vars

\* Such a call implements RecordPromise, whatever befell the calls before it:
\* the TXT changes for good at the commit of the month, and with it the
\* database.
Recording == {r \in Recorders : ~At(r, "idle")}
Committed == \A r \in Recording : At(r, "stamp")

PromisedText ==
  IF \E r \in Recording : job[r].pc \in {"write", "ingest", "import", "restore"}
  THEN CHOOSE x \in {job[r].before : r \in Recording} : TRUE
  ELSE official

PromisedLine ==
  IF Recording = {} \/ Committed THEN Absent
  ELSE CHOOSE l \in Lines : \E r \in Recording : job[r].arg = {l}

Promise == INSTANCE RecordPromise
  WITH text <- PromisedText, aside <- kept, line <- PromisedLine

ImplementsPromise ==
  Promise!Init /\ [][calm' => Promise!Next]_(Promise!vars)
=============================================================================
