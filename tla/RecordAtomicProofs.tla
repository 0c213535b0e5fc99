------------------------- MODULE RecordAtomicProofs -------------------------
(***************************************************************************)
(* What holds of the atomic record for every set of callers, every rule of *)
(* validation and every combination of faults.                             *)
(***************************************************************************)
EXTENDS RecordAtomic, TLAPS

-----------------------------------------------------------------------------
(* The inductive invariant: TypeOK; one native call at a time; the backup  *)
(* is whole if it was flushed; what an ingest carries was accepted by      *)
(* validation; between the two transactions of an ingest the rows are      *)
(* those it committed.                                                     *)
NativePcs == {"ingest", "import", "stamp"}

Mutex ==
  /\ \A r \in Recorders : ~At(r, "idle") => native = r
  /\ \A e \in Editors : job[e].pc \in NativePcs => native = e

Carried ==
  \A a \in Actors :
    /\ job[a].pc \in {"import", "stamp"} => job[a].text \in Valid
    /\ At(a, "stamp") => rows = job[a].text

IInv == TypeOK /\ Mutex /\ BackupHolds /\ RowsValid /\ Carried

LEMMA TextFacts ==
  /\ Valid \subseteq Texts
  /\ Absent \in Texts
  /\ \A t \in Texts : LinesOf(t) \subseteq Lines
  /\ \A t \in Texts : Prefixes(LinesOf(t)) \subseteq Texts
  /\ \A t \in Valid : t # Absent /\ Prefixes(t) \subseteq Texts
  /\ \A t : Torn(t) \subseteq Prefixes(t)
<1>1. Valid \subseteq Texts /\ Absent \in Texts
  BY ValidAssumption DEF Texts
<1>2. \A t \in Texts : LinesOf(t) \in SUBSET Lines
  BY DEF Texts, LinesOf
<1>3. \A t \in SUBSET Lines : Prefixes(t) \subseteq Texts
  BY DEF Prefixes, Texts
<1>4. \A t \in Texts : Prefixes(LinesOf(t)) \subseteq Texts
  BY <1>2, <1>3
<1>5. \A t \in Valid : t # Absent /\ Prefixes(t) \subseteq Texts
  BY <1>3, ValidAssumption, LinesAssumption
<1>6. \A t : Torn(t) \subseteq Prefixes(t)
  BY DEF Torn
<1> QED BY <1>1, <1>2, <1>4, <1>5, <1>6

LEMMA CandidateText ==
  ASSUME TypeOK, NEW a \in Actors
  PROVE  /\ job[a].candidate \in Texts
         /\ Prefixes(job[a].candidate) \subseteq Texts
<1>1. job[a].candidate \in SUBSET Lines
  BY DEF TypeOK, Jobs, NoJob
<1> QED BY <1>1 DEF Prefixes, Texts

LEMMA InitIInv == Init => IInv
<1> SUFFICES ASSUME Init PROVE IInv
  OBVIOUS
<1>1. TypeOK
  BY TextFacts, BoundAssumption, ActorsAssumption
     DEF Init, TypeOK, NoJob, Jobs, Actors, Answers
<1>2. Mutex /\ BackupHolds /\ RowsValid /\ Carried
  BY DEF Init, NoJob, Mutex, BackupHolds, RowsValid, Carried, At, Actors,
         NativePcs
<1> QED BY <1>1, <1>2 DEF IInv

-----------------------------------------------------------------------------
(* Each action preserves it.  Most give one actor a new job.               *)
JobsTyped ==
  /\ job \in [Actors -> Jobs(RecordPcs) \cup Jobs(SavePcs)]
  /\ \A r \in Recorders : job[r] \in Jobs(RecordPcs)
  /\ \A e \in Editors : job[e] \in Jobs(SavePcs)

LEMMA NewJob ==
  ASSUME TypeOK, NEW a \in Actors, NEW new, job' = [job EXCEPT ![a] = new],
         a \in Recorders => new \in Jobs(RecordPcs),
         a \in Editors => new \in Jobs(SavePcs)
  PROVE  /\ JobsTyped'
         /\ job'[a] = new
         /\ \A x \in Actors : x # a => job'[x] = job[x]
<1>1. job \in [Actors -> Jobs(RecordPcs) \cup Jobs(SavePcs)]
  BY DEF TypeOK
<1>2. job'[a] = new /\ \A x \in Actors : x # a => job'[x] = job[x]
  BY <1>1
<1>3. new \in Jobs(RecordPcs) \cup Jobs(SavePcs)
  BY DEF Actors
<1>4. job' \in [Actors -> Jobs(RecordPcs) \cup Jobs(SavePcs)]
  BY <1>1, <1>3
<1>5. ASSUME NEW r \in Recorders PROVE job'[r] \in Jobs(RecordPcs)
  BY <1>2 DEF Actors, TypeOK
<1>6. ASSUME NEW e \in Editors PROVE job'[e] \in Jobs(SavePcs)
  BY <1>2 DEF Actors, TypeOK
<1> QED BY <1>2, <1>4, <1>5, <1>6 DEF JobsTyped

\* A job that is not idle is a full record of its type.
Working(pcs) == [pc : pcs, arg : SUBSET Lines, before : Texts,
                 candidate : SUBSET Lines, backup : Texts,
                 flushed : BOOLEAN, text : Texts]

LEMMA WorkingJob ==
  ASSUME TypeOK, NEW a \in Actors, ~At(a, "idle")
  PROVE  /\ a \in Recorders => job[a] \in Working(RecordPcs)
         /\ a \in Editors => job[a] \in Working(SavePcs)
BY DEF TypeOK, Jobs, Working, NoJob, At

LEMMA WorkingIsJob ==
  ASSUME NEW pcs PROVE Working(pcs) \subseteq Jobs(pcs)
BY DEF Working, Jobs

\* A recorder that moves on, keeping its backup.
LEMMA RecorderMoves ==
  ASSUME IInv, NEW r \in Recorders, native = Nobody \/ native = r,
         native' = r, UNCHANGED <<rows, stamp>>, NEW new,
         job' = [job EXCEPT ![r] = new], new \in Jobs(RecordPcs),
         new.pc \in {"read", "backup", "write", "ingest"},
         new.pc \in {"write", "ingest"} /\ new.flushed =>
           new.backup = new.before
  PROVE  Mutex' /\ BackupHolds' /\ RowsValid' /\ Carried' /\ JobsTyped'
<1>0. r \in Actors /\ r \notin Editors /\ TypeOK
  BY ActorsAssumption DEF Actors, IInv
<1>1. /\ JobsTyped' /\ job'[r] = new
      /\ \A x \in Actors : x # r => job'[x] = job[x]
  BY <1>0, NewJob
<1>2. Mutex'
  BY <1>0, <1>1, ActorsAssumption DEF IInv, Mutex, At, Actors, NativePcs
<1>3. BackupHolds'
  BY <1>0, <1>1 DEF IInv, BackupHolds, Actors
<1>4. RowsValid' /\ Carried'
  BY <1>0, <1>1 DEF IInv, RowsValid, Carried, At
<1> QED BY <1>1, <1>2, <1>3, <1>4

LEMMA SubmitIInv ==
  ASSUME IInv, NEW r \in Recorders, NEW line \in Lines, Submit(r, line)
  PROVE  IInv'
<1> DEFINE new == [NoJob EXCEPT !.pc = "read", !.arg = {line}]
<1>1. new \in Jobs(RecordPcs) /\ new.pc = "read"
  BY TextFacts DEF NoJob, Jobs, RecordPcs
<1>2. job' = [job EXCEPT ![r] = new]
  BY DEF Submit
<1> HIDE DEF new
<1>3. Mutex' /\ BackupHolds' /\ RowsValid' /\ Carried' /\ JobsTyped'
  <2>1. new.pc \in {"read", "backup", "write", "ingest"}
        /\ (new.pc \in {"write", "ingest"} /\ new.flushed =>
              new.backup = new.before)
    BY <1>1
  <2>2. native = Nobody /\ native' = r /\ UNCHANGED <<rows, stamp>>
    BY DEF Submit
  <2> QED BY <1>1, <1>2, <2>1, <2>2, RecorderMoves
<1>4. calls' \in 0..MaxCalls /\ native' \in Actors
  BY BoundAssumption DEF Submit, IInv, TypeOK, Actors
<1> QED BY <1>3, <1>4 DEF Submit, IInv, TypeOK, JobsTyped

LEMMA ProposeIInv ==
  ASSUME IInv, NEW r \in Recorders, NEW texts, Propose(r, texts),
         calm' \in BOOLEAN
  PROVE  IInv'
<1>1. PICK text \in Valid :
        /\ text \in SUBSET Lines
        /\ job' = [job EXCEPT ![r] = [job[r] EXCEPT !.pc = "backup",
                                                    !.before = official,
                                                    !.candidate = text]]
  BY ValidAssumption DEF Propose
<1> DEFINE new == [job[r] EXCEPT !.pc = "backup", !.before = official,
                                 !.candidate = text]
<1>2. new \in Jobs(RecordPcs) /\ new.pc = "backup"
  <2>1. job[r] \in Working(RecordPcs) /\ official \in Texts
    BY WorkingJob DEF Propose, At, Actors, IInv, TypeOK
  <2>2. new \in Working(RecordPcs) /\ new.pc = "backup"
    BY <1>1, <2>1 DEF Working, RecordPcs
  <2> QED BY <2>2, WorkingIsJob
<1>3. job' = [job EXCEPT ![r] = new] /\ native = r /\ native' = r
  BY <1>1 DEF Propose, At, IInv, Mutex
<1> HIDE DEF new
<1>4. Mutex' /\ BackupHolds' /\ RowsValid' /\ Carried' /\ JobsTyped'
  <2>1. new.pc \in {"read", "backup", "write", "ingest"}
        /\ (new.pc \in {"write", "ingest"} /\ new.flushed =>
              new.backup = new.before)
    BY <1>2
  <2>2. UNCHANGED <<rows, stamp>>
    BY DEF Propose
  <2> QED BY <1>2, <1>3, <2>1, <2>2, RecorderMoves
<1> QED BY <1>4 DEF Propose, IInv, TypeOK, JobsTyped

LEMMA CandidateIInv ==
  ASSUME IInv, NEW r \in Recorders, BuildCandidate(r) \/ TornCandidate(r)
  PROVE  IInv'
<1>1. calm' \in BOOLEAN
  BY DEF BuildCandidate, TornCandidate, IInv, TypeOK
<1> QED BY <1>1, ProposeIInv DEF BuildCandidate, TornCandidate

LEMMA BackUpIInv ==
  ASSUME IInv, NEW r \in Recorders, BackUp(r) \/ TornBackUp(r)
  PROVE  IInv'
<1>1. job[r] \in Working(RecordPcs)
  BY WorkingJob DEF BackUp, TornBackUp, At, Actors, IInv
<1>2. PICK new : /\ new \in Working(RecordPcs) /\ new.pc = "write"
                 /\ new.flushed => new.backup = new.before
                 /\ job' = [job EXCEPT ![r] = new]
  <2>1. CASE BackUp(r)
    <3> DEFINE new == [job[r] EXCEPT !.pc = "write", !.backup = job[r].before]
    <3>1. /\ new \in Working(RecordPcs) /\ new.pc = "write"
          /\ new.backup = new.before
      BY <1>1 DEF Working, RecordPcs
    <3>2. job' = [job EXCEPT ![r] = new]
      BY <2>1 DEF BackUp
    <3> HIDE DEF new
    <3> QED BY <3>1, <3>2
  <2>2. CASE TornBackUp(r)
    <3>1. PICK text \in Torn(LinesOf(job[r].before)) :
            job' = [job EXCEPT ![r] = [job[r] EXCEPT !.pc = "write",
                                                     !.backup = text,
                                                     !.flushed = FALSE]]
      BY <2>2 DEF TornBackUp
    <3>2. text \in Texts
      BY <1>1, <3>1, TextFacts DEF Working
    <3> DEFINE new == [job[r] EXCEPT !.pc = "write", !.backup = text,
                                     !.flushed = FALSE]
    <3>3. new \in Working(RecordPcs) /\ new.pc = "write" /\ ~new.flushed
      BY <1>1, <3>2 DEF Working, RecordPcs
    <3>4. job' = [job EXCEPT ![r] = new]
      BY <3>1
    <3> HIDE DEF new
    <3> QED BY <3>3, <3>4
  <2> QED BY <2>1, <2>2
<1>3. native = r /\ native' = r /\ new \in Jobs(RecordPcs)
  BY <1>2, WorkingIsJob DEF BackUp, TornBackUp, At, IInv, Mutex
<1>4. Mutex' /\ BackupHolds' /\ RowsValid' /\ Carried' /\ JobsTyped'
  <2>1. UNCHANGED <<rows, stamp>>
    BY DEF BackUp, TornBackUp
  <2> QED BY <1>2, <1>3, <2>1, RecorderMoves
<1>5. calm' \in BOOLEAN
  BY DEF BackUp, TornBackUp, IInv, TypeOK
<1> QED BY <1>4, <1>5 DEF BackUp, TornBackUp, IInv, TypeOK, JobsTyped

LEMMA WriteOfficialIInv ==
  ASSUME IInv, NEW r \in Recorders, WriteOfficial(r) \/ TornOfficial(r)
  PROVE  IInv'
<1> DEFINE new == [job[r] EXCEPT !.pc = "ingest"]
<1>0. At(r, "write") /\ r \in Actors /\ TypeOK
  BY DEF WriteOfficial, TornOfficial, Actors, IInv
<1>1. /\ new \in Jobs(RecordPcs) /\ new.pc = "ingest"
      /\ new.flushed => new.backup = new.before
  BY <1>0 DEF IInv, TypeOK, Jobs, RecordPcs, NoJob, At, BackupHolds
<1>2. job' = [job EXCEPT ![r] = new] /\ native = r /\ native' = r
  BY <1>0 DEF WriteOfficial, TornOfficial, At, Goto, IInv, Mutex
<1> HIDE DEF new
<1>3. Mutex' /\ BackupHolds' /\ RowsValid' /\ Carried' /\ JobsTyped'
  <2>1. UNCHANGED <<rows, stamp>>
    BY DEF WriteOfficial, TornOfficial
  <2> QED BY <1>1, <1>2, <2>1, RecorderMoves
<1>4. official' \in Texts
  <2>1. CASE WriteOfficial(r)
    BY <1>0, <2>1, CandidateText DEF WriteOfficial
  <2>2. CASE TornOfficial(r)
    BY <1>0, <2>2, CandidateText, TextFacts DEF TornOfficial
  <2> QED BY <2>1, <2>2 DEF WriteOfficial, TornOfficial
<1>5. calm' \in BOOLEAN
  BY DEF WriteOfficial, TornOfficial, IInv, TypeOK
<1> QED BY <1>3, <1>4, <1>5 DEF WriteOfficial, TornOfficial, IInv, TypeOK, JobsTyped

\* Every way a call returns.
LEMMA Returns ==
  ASSUME IInv, NEW a \in Actors, Return(a), UNCHANGED rows
  PROVE  /\ Mutex' /\ BackupHolds' /\ RowsValid' /\ Carried' /\ JobsTyped'
         /\ native' \in Actors \cup {Nobody}
<1>1. NoJob \in Jobs(RecordPcs) /\ NoJob \in Jobs(SavePcs)
  BY DEF Jobs
<1>2. /\ JobsTyped' /\ job'[a] = NoJob
      /\ \A x \in Actors : x # a => job'[x] = job[x]
  BY <1>1, NewJob DEF Return, IInv
<1>3. Mutex'
  BY <1>2, ActorsAssumption
     DEF IInv, Return, Mutex, At, Actors, NativePcs, NoJob
<1>4. BackupHolds'
  BY <1>2 DEF IInv, BackupHolds, Actors, NoJob
<1>5. RowsValid' /\ Carried'
  BY <1>2 DEF IInv, RowsValid, Carried, At, NoJob
<1> QED BY <1>2, <1>3, <1>4, <1>5 DEF Return, IInv, TypeOK

LEMMA RecordEndIInv ==
  ASSUME IInv, NEW r \in Recorders,
         Reject(r) \/ WriteFailure(r) \/ Restore(r) \/ RestoreFailure(r)
  PROVE  IInv'
<1>0. r \in Actors /\ ~At(r, "idle")
  BY DEF Actors, Reject, WriteFailure, Restore, RestoreFailure, At
<1>1. /\ Mutex' /\ BackupHolds' /\ RowsValid' /\ Carried' /\ JobsTyped'
      /\ native' \in Actors \cup {Nobody}
  BY <1>0, Returns DEF Reject, WriteFailure, Restore, RestoreFailure
<1>2. /\ job[r].backup \in Texts /\ job[r].before \in Texts
      /\ Prefixes(LinesOf(job[r].backup)) \subseteq Texts
  BY <1>0, TextFacts DEF IInv, TypeOK, Jobs, NoJob, At
<1>3. official' \in Texts /\ kept' \subseteq Texts
  <2>1. CASE Reject(r)
    BY <2>1 DEF Reject, IInv, TypeOK
  <2>2. CASE WriteFailure(r)
    BY <1>0, <2>2, CandidateText DEF WriteFailure, IInv, TypeOK
  <2>3. CASE Restore(r)
    BY <1>2, <2>3, TextFacts DEF Restore, IInv, TypeOK
  <2>4. CASE RestoreFailure(r)
    BY <1>2, <2>4 DEF RestoreFailure, IInv, TypeOK
  <2> QED BY <2>1, <2>2, <2>3, <2>4
<1>4. UNCHANGED <<stamp, calls>> /\ answer' \in Answers
  BY DEF Reject, WriteFailure, Restore, RestoreFailure, Answers
<1>5. rows' \in Texts /\ stamp' \in Texts /\ calls' \in 0..MaxCalls
  BY <1>4 DEF IInv, TypeOK, Reject, WriteFailure, Restore, RestoreFailure
<1>6. calm' \in BOOLEAN
  BY DEF IInv, TypeOK, Reject, WriteFailure, Restore, RestoreFailure
<1> QED BY <1>1, <1>3, <1>4, <1>5, <1>6 DEF IInv, TypeOK, JobsTyped

-----------------------------------------------------------------------------
(* The save flow and the ingest.                                           *)

\* An actor outside the record-only steps moves on, keeping what it holds.
LEMMA SaveIInv ==
  ASSUME IInv, NEW e \in Editors, NEW text \in Continuous,
         NEW flow \in {"save", "promote"}, Save(e, text, flow)
  PROVE  IInv'
<1> DEFINE new == [NoJob EXCEPT !.pc = flow, !.arg = text]
<1>0. e \in Actors /\ e \notin Recorders /\ TypeOK
  BY ActorsAssumption DEF Actors, IInv
<1>1. new \in Jobs(SavePcs) /\ new.pc \in {"save", "promote"}
  BY ValidAssumption DEF NoJob, Jobs, SavePcs, Texts
<1>2. job' = [job EXCEPT ![e] = new]
  BY DEF Save
<1> HIDE DEF new
<1>3. /\ JobsTyped' /\ job'[e] = new
      /\ \A x \in Actors : x # e => job'[x] = job[x]
  BY <1>0, <1>1, <1>2, NewJob
<1>4. Mutex' /\ BackupHolds' /\ RowsValid' /\ Carried'
  <2>1. Mutex'
    BY <1>0, <1>1, <1>3 DEF Save, IInv, Mutex, At, Actors, NativePcs
  <2>2. BackupHolds'
    BY <1>0, <1>3 DEF IInv, BackupHolds, Actors
  <2>3. RowsValid' /\ Carried'
    BY <1>1, <1>3 DEF Save, IInv, RowsValid, Carried, At
  <2> QED BY <2>1, <2>2, <2>3
<1>5. calls' \in 0..MaxCalls
  BY BoundAssumption DEF Save, IInv, TypeOK
<1> QED BY <1>3, <1>4, <1>5 DEF Save, IInv, TypeOK, JobsTyped

LEMMA SaveTextIInv ==
  ASSUME IInv, NEW e \in Editors, SaveText(e)
  PROVE  IInv'
<1> DEFINE new == [job[e] EXCEPT !.pc = "enter"]
<1>0. e \in Actors /\ e \notin Recorders /\ TypeOK
  BY ActorsAssumption DEF Actors, IInv
<1>1. new \in Jobs(SavePcs) /\ new.pc = "enter" /\ job[e].arg \in Texts
  BY <1>0 DEF TypeOK, NoJob, Jobs, SavePcs, Texts, SaveText, Writable,
              At
<1>2. job' = [job EXCEPT ![e] = new]
  BY DEF SaveText, Goto
<1> HIDE DEF new
<1>3. /\ JobsTyped' /\ job'[e] = new
      /\ \A x \in Actors : x # e => job'[x] = job[x]
  BY <1>0, <1>1, <1>2, NewJob
<1>4. Mutex' /\ BackupHolds' /\ RowsValid' /\ Carried'
  <2>1. Mutex'
    BY <1>0, <1>1, <1>3 DEF SaveText, Writable, IInv, Mutex, At, Actors, NativePcs
  <2>2. BackupHolds'
    BY <1>0, <1>3 DEF IInv, BackupHolds, Actors
  <2>3. RowsValid' /\ Carried'
    BY <1>1, <1>3 DEF SaveText, Writable, IInv, RowsValid, Carried, At
  <2> QED BY <2>1, <2>2, <2>3
<1> QED BY <1>1, <1>3, <1>4 DEF SaveText, IInv, TypeOK, JobsTyped

LEMMA EnterIInv ==
  ASSUME IInv, NEW e \in Editors, Enter(e)
  PROVE  IInv'
<1> DEFINE new == [job[e] EXCEPT !.pc = "ingest"]
<1>0. e \in Actors /\ e \notin Recorders /\ TypeOK
  BY ActorsAssumption DEF Actors, IInv
<1>1. new \in Jobs(SavePcs) /\ new.pc = "ingest"
  BY <1>0 DEF TypeOK, NoJob, Jobs, SavePcs, Enter, At
<1>2. job' = [job EXCEPT ![e] = new]
  BY DEF Enter, Goto
<1> HIDE DEF new
<1>3. /\ JobsTyped' /\ job'[e] = new
      /\ \A x \in Actors : x # e => job'[x] = job[x]
  BY <1>0, <1>1, <1>2, NewJob
<1>4. Mutex' /\ BackupHolds' /\ RowsValid' /\ Carried'
  <2>1. Mutex'
    BY <1>0, <1>1, <1>3, ActorsAssumption
       DEF Enter, IInv, Mutex, At, Actors, NativePcs
  <2>2. BackupHolds'
    BY <1>0, <1>3 DEF IInv, BackupHolds, Actors
  <2>3. RowsValid' /\ Carried'
    BY <1>1, <1>3 DEF Enter, IInv, RowsValid, Carried, At
  <2> QED BY <2>1, <2>2, <2>3
<1> QED BY <1>0, <1>3, <1>4 DEF Enter, IInv, TypeOK, JobsTyped

LEMMA SaveFailureIInv ==
  ASSUME IInv, NEW e \in Editors, SaveFailure(e)
  PROVE  IInv'
<1>0. e \in Actors
  BY DEF Actors
<1>1. /\ Mutex' /\ BackupHolds' /\ RowsValid' /\ Carried' /\ JobsTyped'
      /\ native' \in Actors \cup {Nobody}
  <2>1. Return(e) /\ ~At(e, "idle") /\ UNCHANGED <<rows, stamp>>
    BY DEF SaveFailure, Writable, At
  <2> QED BY <1>0, <2>1, Returns DEF SaveFailure
<1>2. Prefixes(job[e].arg) \subseteq Texts
  <2>1. job[e].arg \in SUBSET Lines
    BY DEF SaveFailure, Writable, At, IInv, TypeOK, Jobs, NoJob
  <2> QED BY <2>1 DEF Prefixes, Texts
<1> QED BY <1>1, <1>2 DEF SaveFailure, IInv, TypeOK, JobsTyped

\* While an actor is inside an ingest it holds the runtime mutex.
LEMMA NativeHolder ==
  ASSUME IInv, NEW a \in Actors, job[a].pc \in NativePcs
  PROVE  /\ native = a
         /\ \A x \in Actors : job[x].pc \in NativePcs => x = a
BY DEF IInv, Mutex, Actors, At, NativePcs

\* One step further inside the ingest.
LEMMA IngestMoves ==
  ASSUME IInv, NEW a \in Actors, job[a].pc \in NativePcs,
         UNCHANGED native, NEW new, job' = [job EXCEPT ![a] = new],
         new = [job[a] EXCEPT !.pc = new.pc, !.text = new.text],
         new.pc \in {"import", "stamp"}, new.text \in Valid,
         rows' \in {rows, new.text}, new.pc = "stamp" => rows' = new.text
  PROVE  Mutex' /\ BackupHolds' /\ RowsValid' /\ Carried' /\ JobsTyped'
<1>1. /\ a \in Recorders => new \in Jobs(RecordPcs)
      /\ a \in Editors => new \in Jobs(SavePcs)
  <2>1. /\ a \in Recorders => job[a] \in Working(RecordPcs)
        /\ a \in Editors => job[a] \in Working(SavePcs)
    BY WorkingJob DEF At, IInv, NativePcs
  <2>2. /\ a \in Recorders => new \in Working(RecordPcs)
        /\ a \in Editors => new \in Working(SavePcs)
    BY <2>1, TextFacts DEF Working, RecordPcs, SavePcs
  <2> QED BY <2>2, WorkingIsJob
<1>2. /\ JobsTyped' /\ job'[a] = new
      /\ \A x \in Actors : x # a => job'[x] = job[x]
  BY <1>1, NewJob DEF IInv
<1>3. /\ native = a /\ new.backup = job[a].backup /\ new.before = job[a].before
      /\ new.flushed = job[a].flushed
      /\ \A x \in Actors : job[x].pc \in NativePcs => x = a
  <2>1. job[a] \in Jobs(RecordPcs) \cup Jobs(SavePcs)
    BY DEF IInv, TypeOK
  <2> QED BY <2>1, NativeHolder DEF Jobs, NoJob
<1>4. Mutex'
  BY <1>2, <1>3 DEF IInv, Mutex, At, Actors, NativePcs
<1>5. BackupHolds'
  BY <1>2, <1>3 DEF IInv, BackupHolds, Actors, NativePcs
<1>6. RowsValid' /\ Carried'
  BY <1>2, <1>3 DEF IInv, RowsValid, Carried, At, NativePcs
<1> QED BY <1>2, <1>4, <1>5, <1>6

LEMMA CollectIInv ==
  ASSUME IInv, NEW a \in Actors, Collect(a)
  PROVE  IInv'
<1> DEFINE new == [job[a] EXCEPT !.pc = "import", !.text = official]
<1>1. /\ new.pc = "import" /\ new.text = official /\ official \in Valid
      /\ new = [job[a] EXCEPT !.pc = new.pc, !.text = new.text]
      /\ job[a].pc \in NativePcs
  BY ValidAssumption
     DEF Collect, Accepted, IInv, TypeOK, Jobs, NoJob, At, NativePcs
<1>2. job' = [job EXCEPT ![a] = new]
  BY DEF Collect
<1> HIDE DEF new
<1>3. Mutex' /\ BackupHolds' /\ RowsValid' /\ Carried' /\ JobsTyped'
  <2>1. UNCHANGED native /\ rows' \in {rows, new.text}
    BY DEF Collect
  <2> QED BY <1>1, <1>2, <2>1, IngestMoves
<1> QED BY <1>3 DEF Collect, IInv, TypeOK, JobsTyped

LEMMA ReplaceMonthIInv ==
  ASSUME IInv, NEW a \in Actors, ReplaceMonth(a)
  PROVE  IInv'
<1> DEFINE new == [job[a] EXCEPT !.pc = "stamp"]
<1>1. /\ new.pc = "stamp" /\ new.text = job[a].text /\ new.text \in Valid
      /\ new = [job[a] EXCEPT !.pc = new.pc, !.text = new.text]
      /\ job[a].pc \in NativePcs
  <2>1. job[a] \in Working(RecordPcs) \cup Working(SavePcs)
    BY WorkingJob DEF ReplaceMonth, At, IInv, Actors
  <2> QED BY <2>1 DEF ReplaceMonth, IInv, Carried, Working, At, NativePcs
<1>2. job' = [job EXCEPT ![a] = new]
  BY DEF ReplaceMonth, Goto
<1>3. rows' = new.text
  BY <1>1 DEF ReplaceMonth
<1> HIDE DEF new
<1>4. Mutex' /\ BackupHolds' /\ RowsValid' /\ Carried' /\ JobsTyped'
  <2>1. UNCHANGED native
    BY DEF ReplaceMonth
  <2> QED BY <1>1, <1>2, <1>3, <2>1, IngestMoves
<1>5. rows' \in Texts
  BY <1>1, <1>3, TextFacts
<1> QED BY <1>4, <1>5 DEF ReplaceMonth, IInv, TypeOK, JobsTyped

LEMMA StampIInv ==
  ASSUME IInv, NEW a \in Actors, Stamp(a)
  PROVE  IInv' /\ stamp' = rows'
<1>1. /\ Mutex' /\ BackupHolds' /\ RowsValid' /\ Carried' /\ JobsTyped'
      /\ native' \in Actors \cup {Nobody}
  BY Returns DEF Stamp
<1>2. stamp' \in Texts /\ stamp' = rows'
  BY TextFacts DEF Stamp, IInv, Carried, At
<1>3. answer' \in Answers
  BY DEF Stamp, IInv, TypeOK, Answers
<1> QED BY <1>1, <1>2, <1>3 DEF Stamp, IInv, TypeOK, JobsTyped

LEMMA IngestFailureIInv ==
  ASSUME IInv, NEW a \in Actors, IngestFailure(a)
  PROVE  IInv'
<1>0. job[a].pc \in NativePcs
  BY DEF IngestFailure, At, NativePcs
<1>1. CASE a \in Recorders
  <2> DEFINE new == [job[a] EXCEPT !.pc = "restore"]
  <2>1. /\ new \in Jobs(RecordPcs) /\ new.pc = "restore"
        /\ new.flushed => new.backup = new.before
    BY <1>0, <1>1 DEF IInv, TypeOK, Jobs, RecordPcs, NoJob, NativePcs,
       BackupHolds
  <2>2. job' = [job EXCEPT ![a] = new]
    BY <1>1 DEF IngestFailure, Goto
  <2> HIDE DEF new
  <2>3. /\ JobsTyped' /\ job'[a] = new
        /\ \A x \in Actors : x # a => job'[x] = job[x]
    BY <1>1, <2>1, <2>2, NewJob, ActorsAssumption DEF IInv
  <2>4. native = a /\ native' = a
    BY <1>0, <1>1, NativeHolder DEF IngestFailure
  <2>5. Mutex'
    BY <1>1, <2>1, <2>3, <2>4, ActorsAssumption
       DEF IInv, Mutex, At, Actors, NativePcs
  <2>6. BackupHolds'
    BY <2>1, <2>3 DEF IInv, BackupHolds, Actors
  <2>7. RowsValid' /\ Carried'
    BY <2>1, <2>3 DEF IngestFailure, IInv, RowsValid, Carried, At
  <2> QED BY <2>3, <2>4, <2>5, <2>6, <2>7
          DEF IngestFailure, IInv, TypeOK, JobsTyped
<1>2. CASE a \notin Recorders
  <2>1. /\ Mutex' /\ BackupHolds' /\ RowsValid' /\ Carried' /\ JobsTyped'
        /\ native' \in Actors \cup {Nobody}
    BY <1>2, Returns DEF IngestFailure
  <2> QED BY <2>1 DEF IngestFailure, IInv, TypeOK, JobsTyped
<1> QED BY <1>1, <1>2

LEMMA CrashIInv ==
  ASSUME IInv, Crash
  PROVE  IInv'
<1>1. ASSUME NEW a \in Actors
      PROVE  /\ Prefixes(job[a].candidate) \subseteq Texts
             /\ Prefixes(LinesOf(job[a].backup)) \subseteq Texts
             /\ Writable(a) => Prefixes(job[a].arg) \subseteq Texts
             /\ job[a].backup \in Texts
  <2>1. job[a] \in Jobs(RecordPcs) \cup Jobs(SavePcs)
    BY DEF IInv, TypeOK
  <2>2. job[a].backup \in Texts
    BY <2>1, TextFacts DEF Jobs, NoJob
  <2>3. ASSUME Writable(a) PROVE Prefixes(job[a].arg) \subseteq Texts
    <3>1. job[a].arg \in SUBSET Lines
      BY <2>1, <2>3 DEF Jobs, NoJob, At, Writable
    <3> QED BY <3>1 DEF Prefixes, Texts
  <2>4. Prefixes(job[a].candidate) \subseteq Texts
    BY CandidateText DEF IInv
  <2> QED BY <2>2, <2>3, <2>4, TextFacts
<1>2. official' \in Texts
  <2> DEFINE torn(a) == CASE At(a, "write") -> Prefixes(job[a].candidate)
                          [] At(a, "restore") -> Prefixes(LinesOf(job[a].backup))
                          [] Writable(a) -> Prefixes(job[a].arg)
                          [] OTHER -> {}
  <2>1. official' \in {official} \cup UNION {torn(a) : a \in Actors}
    BY DEF Crash
  <2>2. \A a \in Actors : torn(a) \subseteq Texts
    BY <1>1 DEF At
  <2> HIDE DEF torn
  <2> QED BY <2>1, <2>2 DEF IInv, TypeOK
<1>3. kept' \subseteq Texts
  BY <1>1 DEF Crash, IInv, TypeOK, Actors
<1>4. JobsTyped' /\ \A a \in Actors : job'[a] = NoJob
  BY DEF Crash, JobsTyped, Jobs, Actors
<1>5. Mutex' /\ BackupHolds' /\ RowsValid' /\ Carried'
  BY <1>4 DEF Crash, IInv, Mutex, BackupHolds, RowsValid, Carried, At, NoJob,
              NativePcs, Actors
<1>6. answer' \in Answers /\ native' \in Actors \cup {Nobody}
  BY DEF Crash, Answers
<1> QED BY <1>2, <1>3, <1>4, <1>5, <1>6 DEF Crash, IInv, TypeOK, JobsTyped

LEMMA StutterIInv ==
  ASSUME IInv, UNCHANGED vars
  PROVE  IInv'
BY DEF vars, IInv, TypeOK, Mutex, BackupHolds, RowsValid, Carried, At

LEMMA NextIInv == IInv /\ [Next]_vars => IInv'
<1> SUFFICES ASSUME IInv, [Next]_vars PROVE IInv'
  OBVIOUS
<1>1. ASSUME NEW r \in Recorders, RecordStep(r) PROVE IInv'
  BY <1>1, CandidateIInv, BackUpIInv, WriteOfficialIInv, RecordEndIInv
     DEF RecordStep
<1>2. ASSUME NEW r \in Recorders, NEW line \in Lines, Submit(r, line)
      PROVE  IInv'
  BY <1>2, SubmitIInv
<1>3. ASSUME NEW e \in Editors, SaveStep(e) PROVE IInv'
  BY <1>3, SaveTextIInv, SaveFailureIInv, EnterIInv DEF SaveStep
<1>4. ASSUME NEW e \in Editors, NEW text \in Continuous,
             NEW flow \in {"save", "promote"}, Save(e, text, flow)
      PROVE  IInv'
  BY <1>4, SaveIInv
<1>5. ASSUME NEW a \in Actors, IngestStep(a) PROVE IInv'
  BY <1>5, CollectIInv, ReplaceMonthIInv, StampIInv, IngestFailureIInv
     DEF IngestStep
<1>6. CASE Done \/ UNCHANGED vars
  BY <1>6, StutterIInv DEF Done
<1> QED BY <1>1, <1>2, <1>3, <1>4, <1>5, <1>6, CrashIInv DEF Next

LEMMA IInvHolds == Spec => []IInv
BY InitIInv, NextIInv, PTL DEF Spec

-----------------------------------------------------------------------------
(* The theorems.                                                           *)

\* Type correctness of the record call, the save flow and the ingest.
THEOREM TypeCorrect == Spec => []TypeOK
<1>1. IInv => TypeOK
  BY DEF IInv
<1> QED BY <1>1, IInvHolds, PTL

\* From the moment it may have to restore the official TXT until it returns,
\* a record call has the text it started from in its workspace, whole unless
\* the tail of the backup was lost at the flush.
THEOREM BackupAlwaysHolds == Spec => []BackupHolds
<1>1. IInv => BackupHolds
  BY DEF IInv
<1> QED BY <1>1, IInvHolds, PTL

\* Text that validation rejects never reaches the database, whatever was
\* torn by a failed write or a crash and whoever edits at the same time.
THEOREM DatabaseAlwaysValid == Spec => []RowsValid
<1>1. IInv => RowsValid
  BY DEF IInv
<1> QED BY <1>1, IInvHolds, PTL

\* A step that sets the sync status sets it to the text of the rows.
THEOREM StatusFollowsRows == Spec => StampFollowsRows
<1>1. IInv /\ [Next]_vars => [stamp' # stamp => stamp' = rows']_stamp
  <2> SUFFICES ASSUME IInv, [Next]_vars, stamp' # stamp PROVE stamp' = rows'
    OBVIOUS
  <2>0. Next
    BY DEF vars
  <2>1. \E a \in Actors : Stamp(a)
    BY <2>0, ZenonT(30) DEF Next, RecordStep, SaveStep, IngestStep, Submit, BuildCandidate,
       TornCandidate, Propose, Reject, BackUp, TornBackUp, WriteOfficial,
       TornOfficial, WriteFailure, Restore, RestoreFailure,
       Save, SaveText, SaveFailure, Enter, Collect, ReplaceMonth,
       IngestFailure, Crash, Done, vars
  <2> QED BY <2>1, StampIInv
<1> QED BY <1>1, IInvHolds, PTL DEF Spec, StampFollowsRows

\* However a call that has replaced the official TXT ends, short of success,
\* the text it replaced is back in the TXT or in a workspace left on disk,
\* whatever was torn unseen but its backup.
THEOREM OldTextAlwaysSurvives == Spec => OldTextSurvives
<1> DEFINE Kept ==
      \A r \in Recorders :
        (job[r].pc \in {"ingest", "import", "stamp", "restore"}
           /\ job[r].flushed /\ job'[r].pc = "idle" /\ answer' # "ok")
        => job[r].before \in {Absent, official'} \cup kept'
<1>1. IInv /\ [Next]_vars => [Kept]_vars
  <2> SUFFICES ASSUME IInv, Next, NEW r \in Recorders,
                      job[r].pc \in {"ingest", "import", "stamp", "restore"},
                      job[r].flushed, job'[r].pc = "idle", answer' # "ok"
               PROVE  job[r].before \in {Absent, official'} \cup kept'
    BY DEF Kept
  <2>0. /\ r \in Actors /\ r \notin Editors
        /\ job[r].backup = job[r].before /\ job[r].pc # "idle"
    BY ActorsAssumption DEF Actors, IInv, BackupHolds
  <2>1. CASE Crash
    BY <2>0, <2>1 DEF Crash, At
  <2>2. CASE Done
    BY <2>0, <2>2 DEF Done, vars
  <2>3. ASSUME NEW a \in Actors, a # r,
               \/ RecordStep(a) \/ SaveStep(a) \/ IngestStep(a)
               \/ \E line \in Lines : Submit(a, line)
               \/ \E text \in Continuous, flow \in {"save", "promote"} :
                     Save(a, text, flow)
        PROVE  FALSE
    <3>1. job'[r] = job[r]
      <4>1. \E j : job' = [job EXCEPT ![a] = j]
        BY <2>3 DEF RecordStep, SaveStep, IngestStep, Submit, BuildCandidate,
           TornCandidate, Propose, Reject, BackUp, TornBackUp,
           WriteOfficial, TornOfficial, WriteFailure, Restore,
           RestoreFailure, Save, SaveText, SaveFailure, Enter, Collect,
           ReplaceMonth, Stamp, IngestFailure, Goto, Return
      <4> QED BY <2>0, <2>3, <4>1 DEF IInv, TypeOK
    <3> QED BY <2>0, <3>1
  <2>4. CASE RecordStep(r)
    <3>1. Restore(r) \/ RestoreFailure(r)
      BY <2>0, <2>4 DEF RecordStep, BuildCandidate, TornCandidate, Propose,
         Reject, BackUp, TornBackUp, WriteOfficial, TornOfficial,
         WriteFailure, At
    <3> QED BY <2>0, <3>1 DEF Restore, RestoreFailure
  <2>5. CASE IngestStep(r)
    <3>1. Collect(r) \/ ReplaceMonth(r) \/ IngestFailure(r)
      BY <2>5 DEF IngestStep, Stamp
    <3>2. job[r] \in Working(RecordPcs)
      BY <2>0, WorkingJob DEF IInv, At
    <3>3. /\ job = [x \in Actors |-> job[x]]
          /\ "pc" \in DOMAIN job[r] /\ "text" \in DOMAIN job[r]
      BY <2>0, <3>2 DEF IInv, TypeOK, Working
    <3>4. CASE Collect(r)
      BY <2>0, <3>3, <3>4 DEF Collect, Goto
    <3>5. CASE ReplaceMonth(r)
      BY <2>0, <3>3, <3>5 DEF ReplaceMonth, Goto
    <3>6. CASE IngestFailure(r)
      BY <2>0, <3>3, <3>6 DEF IngestFailure, Goto
    <3> QED BY <3>1, <3>4, <3>5, <3>6
  <2>6. CASE \E line \in Lines : Submit(r, line)
    BY <2>0, <2>6 DEF Submit, At
  <2> QED BY <2>0, <2>1, <2>2, <2>3, <2>4, <2>5, <2>6 DEF Next, Actors
<1> QED BY <1>1, IInvHolds, PTL DEF Spec, OldTextSurvives

-----------------------------------------------------------------------------
(* The refinement.  While a call is calm no editor is at work, the official*)
(* TXT is known at every step, the text the call found until it is written *)
(* and the candidate from then on, and the status is behind the rows only  *)
(* between the two transactions of the ingest.                             *)
Quiet == \A e \in Editors : At(e, "idle")

Tracked ==
  \A r \in Recorders :
    /\ ~At(r, "idle") => \E l \in Lines : job[r].arg = {l}
    /\ job[r].pc \in {"backup", "write"} => official = job[r].before
    /\ job[r].pc \in {"ingest", "import", "stamp", "restore"} =>
         official = Candidate(r)
    /\ job[r].pc \in {"import", "stamp"} => job[r].text = official
    /\ job[r].pc \in {"backup", "write"} => job[r].candidate = Candidate(r)
    /\ job[r].pc \in {"write", "ingest", "import", "stamp", "restore"} =>
         job[r].backup = job[r].before

InStep == (\A r \in Recorders : ~At(r, "stamp")) => stamp = rows

Calm == IInv /\ Quiet /\ Tracked /\ InStep

HInv == IInv /\ (calm => Calm)

LEMMA InitHInv == Init => HInv
<1>1. Init => Quiet /\ Tracked /\ InStep
  BY DEF Init, Quiet, Tracked, InStep, At, NoJob, Actors
<1> QED BY <1>1, InitIInv DEF HInv, Calm

\* The job of the call that holds the runtime; every other recorder is idle.
LEMMA Alone ==
  ASSUME IInv, NEW r \in Recorders, ~At(r, "idle")
  PROVE  /\ r \in Actors /\ native = r
         /\ job[r] \in Working(RecordPcs)
         /\ \A x \in Recorders : x # r => At(x, "idle")
<1>1. r \in Actors /\ native = r
  BY DEF Actors, IInv, Mutex
<1>2. \A x \in Recorders : x # r => At(x, "idle")
  BY <1>1 DEF IInv, Mutex
<1>3. job[r] \in Working(RecordPcs)
  BY <1>1, WorkingJob DEF IInv
<1> QED BY <1>1, <1>2, <1>3

\* What each step of a handled call does, in the terms of the refinement.
Moves(r, new) ==
  /\ job' = [job EXCEPT ![r] = new]
  /\ new \in Working(RecordPcs)
  /\ new.arg = job[r].arg

Begins(r) ==
  /\ \A x \in Recorders : At(x, "idle")
  /\ \E new : /\ job' = [job EXCEPT ![r] = new]
              /\ new \in Working(RecordPcs)
              /\ new.pc = "read"
              /\ \E l \in Lines : new.arg = {l}
  /\ UNCHANGED <<official, rows, stamp, kept>>
  /\ Quiet /\ stamp = rows

Advances(r) ==
  /\ ~At(r, "idle")
  /\ \E new : Moves(r, new) /\
       \/ /\ At(r, "read") /\ new.pc = "backup" /\ new.before = official
          /\ new.candidate = LinesOf(new.before) \cup new.arg
          /\ UNCHANGED <<official, rows>>
       \/ /\ At(r, "backup") /\ new.pc = "write"
          /\ new.before = job[r].before /\ new.candidate = job[r].candidate
          /\ new.backup = new.before
          /\ UNCHANGED <<official, rows>>
       \/ /\ At(r, "write") /\ new.pc = "ingest"
          /\ new.before = job[r].before /\ new.backup = job[r].backup
          /\ official' = Candidate(r) /\ UNCHANGED rows
       \/ /\ At(r, "ingest") /\ new.pc = "import"
          /\ new.before = job[r].before /\ new.backup = job[r].backup
          /\ new.text = official
          /\ UNCHANGED <<official, rows>>
       \/ /\ job[r].pc \in {"ingest", "import"} /\ new.pc = "restore"
          /\ new.before = job[r].before /\ new.backup = job[r].backup
          /\ UNCHANGED <<official, rows>>
       \/ /\ At(r, "import") /\ new.pc = "stamp"
          /\ new.before = job[r].before /\ new.backup = job[r].backup
          /\ new.text = job[r].text
          /\ rows' = job[r].text /\ UNCHANGED official
  /\ UNCHANGED <<stamp, kept>>

Ends(r) ==
  /\ ~At(r, "idle")
  /\ job' = [job EXCEPT ![r] = NoJob]
  /\ UNCHANGED rows
  /\ \/ /\ job[r].pc \in {"read", "backup", "write"}
        /\ UNCHANGED <<official, stamp, kept>> /\ answer' = "rejected"
     \/ /\ At(r, "restore")
        /\ official' = job[r].before
        /\ UNCHANGED <<stamp, kept>> /\ answer' = "rolledBack"
     \/ /\ At(r, "restore")
        /\ official' \in Texts /\ kept' = kept \cup {job[r].before}
        /\ UNCHANGED stamp /\ answer' = "rollbackFailed"
     \/ /\ At(r, "stamp")
        /\ stamp' = job[r].text
        /\ UNCHANGED <<official, kept>> /\ answer' = "ok"

\* A call stays calm, and a call that is not becomes calm only at its start.
LEMMA StaysCalm ==
  ASSUME Next, calm'
  PROVE  calm \/ \E r \in Recorders, line \in Lines : Submit(r, line)
<1>1. ASSUME NEW r \in Recorders, RecordStep(r) PROVE calm
  BY <1>1 DEF RecordStep, BuildCandidate, TornCandidate, Reject, BackUp,
              TornBackUp, WriteOfficial, TornOfficial, WriteFailure, Restore, RestoreFailure
<1>2. ASSUME NEW e \in Editors, SaveStep(e) PROVE calm
  BY <1>2 DEF SaveStep, SaveText, SaveFailure, Enter
<1>3. ASSUME NEW a \in Actors, IngestStep(a) PROVE calm
  BY <1>3 DEF IngestStep, Collect, ReplaceMonth, Stamp, IngestFailure
<1>4. ~Crash /\ \A e, text, flow : ~Save(e, text, flow)
  BY DEF Crash, Save
<1>5. Done => calm
  BY DEF Done, vars
<1> QED BY <1>1, <1>2, <1>3, <1>4, <1>5 DEF Next

LEMMA HandledSteps ==
  ASSUME HInv, Next, calm'
  PROVE  \/ \E r \in Recorders : Begins(r)
         \/ Calm /\ UNCHANGED vars
         \/ Calm /\ \E r \in Recorders : Advances(r) \/ Ends(r)
<1>0. Recorders \subseteq Actors /\ IInv /\ IInv'
  BY NextIInv DEF Actors, HInv
<1>1. ASSUME NEW r \in Recorders, NEW line \in Lines, Submit(r, line)
      PROVE  Begins(r)
  <2> DEFINE new == [NoJob EXCEPT !.pc = "read", !.arg = {line}]
  <2>1. /\ new \in Working(RecordPcs) /\ new.pc = "read" /\ new.arg = {line}
        /\ job' = [job EXCEPT ![r] = new]
        /\ UNCHANGED <<official, rows, stamp, kept>>
    BY <1>1, TextFacts DEF Submit, NoJob, Working, RecordPcs
  <2>2. \A x \in Recorders : At(x, "idle")
    BY <1>0, <1>1, ActorsAssumption DEF Submit, IInv, Mutex, Actors
  <2>3. Quiet /\ stamp = rows
    BY <1>1 DEF Submit, Quiet
  <2> HIDE DEF new
  <2> QED BY <2>1, <2>2, <2>3 DEF Begins
<1>2. ASSUME NEW r \in Recorders, BuildCandidate(r) PROVE Advances(r)
  <2> DEFINE text == LinesOf(official) \cup job[r].arg
             new  == [job[r] EXCEPT !.pc = "backup", !.before = official,
                                    !.candidate = text]
  <2>1. At(r, "read") /\ ~At(r, "idle") /\ job[r] \in Working(RecordPcs)
    BY <1>0, <1>2, Alone DEF BuildCandidate, Propose, At
  <2>2. text \in SUBSET Lines /\ official \in Texts
    BY <1>0, <2>1, TextFacts DEF Working, IInv, TypeOK
  <2>3. /\ job' = [job EXCEPT ![r] = new]
        /\ UNCHANGED <<official, rows, stamp, kept>>
    BY <1>2 DEF BuildCandidate, Propose
  <2>4. /\ new \in Working(RecordPcs) /\ new.pc = "backup"
        /\ new.before = official /\ new.arg = job[r].arg
        /\ new.candidate = LinesOf(new.before) \cup new.arg
    BY <2>1, <2>2 DEF Working, RecordPcs
  <2> HIDE DEF new
  <2> QED BY <2>1, <2>3, <2>4 DEF Advances, Moves
<1>3. ASSUME NEW r \in Recorders, BackUp(r) PROVE Advances(r)
  <2> DEFINE new == [job[r] EXCEPT !.pc = "write", !.backup = job[r].before]
  <2>1. At(r, "backup") /\ ~At(r, "idle") /\ job[r] \in Working(RecordPcs)
    BY <1>0, <1>3, Alone DEF BackUp, At
  <2>2. /\ new \in Working(RecordPcs) /\ new.pc = "write"
        /\ new.before = job[r].before /\ new.arg = job[r].arg
        /\ new.candidate = job[r].candidate /\ new.backup = new.before
    BY <1>0, <2>1 DEF Working, RecordPcs
  <2>3. /\ job' = [job EXCEPT ![r] = new]
        /\ UNCHANGED <<official, rows, stamp, kept>>
    BY <1>3 DEF BackUp
  <2> HIDE DEF new
  <2> QED BY <2>1, <2>2, <2>3 DEF Advances, Moves
<1>4. ASSUME NEW r \in Recorders, WriteOfficial(r) PROVE Advances(r)
  <2> DEFINE new == [job[r] EXCEPT !.pc = "ingest"]
  <2>1. At(r, "write") /\ ~At(r, "idle") /\ job[r] \in Working(RecordPcs)
    BY <1>0, <1>4, Alone DEF WriteOfficial, At
  <2>2. /\ new \in Working(RecordPcs) /\ new.pc = "ingest"
        /\ new.before = job[r].before /\ new.arg = job[r].arg
        /\ new.backup = job[r].backup
    BY <1>0, <2>1 DEF Working, RecordPcs
  <2>3. /\ job' = [job EXCEPT ![r] = new] /\ official' = Candidate(r)
        /\ UNCHANGED <<rows, stamp, kept>>
    BY <1>4, <2>1 DEF WriteOfficial, Goto, HInv, Calm, Tracked, At
  <2> HIDE DEF new
  <2> QED BY <2>1, <2>2, <2>3 DEF Advances, Moves
<1>5. ASSUME NEW r \in Recorders, Collect(r) PROVE Advances(r)
  <2> DEFINE new == [job[r] EXCEPT !.pc = "import", !.text = official]
  <2>1. At(r, "ingest") /\ ~At(r, "idle") /\ job[r] \in Working(RecordPcs)
    BY <1>0, <1>5, Alone DEF Collect, At
  <2>2. /\ new \in Working(RecordPcs) /\ new.pc = "import"
        /\ new.before = job[r].before /\ new.arg = job[r].arg
        /\ new.backup = job[r].backup
        /\ new.text = official
    BY <1>0, <2>1 DEF Working, RecordPcs, IInv, TypeOK
  <2>3. /\ job' = [job EXCEPT ![r] = new]
        /\ UNCHANGED <<official, rows, stamp, kept>>
    BY <1>5 DEF Collect
  <2> HIDE DEF new
  <2> QED BY <2>1, <2>2, <2>3 DEF Advances, Moves
<1>6. ASSUME NEW r \in Recorders, ReplaceMonth(r) PROVE Advances(r)
  <2> DEFINE new == [job[r] EXCEPT !.pc = "stamp"]
  <2>1. At(r, "import") /\ ~At(r, "idle") /\ job[r] \in Working(RecordPcs)
    BY <1>0, <1>6, Alone DEF ReplaceMonth, At
  <2>2. /\ new \in Working(RecordPcs) /\ new.pc = "stamp"
        /\ new.before = job[r].before /\ new.arg = job[r].arg
        /\ new.backup = job[r].backup
        /\ new.text = job[r].text
    BY <1>0, <2>1 DEF Working, RecordPcs
  <2>3. /\ job' = [job EXCEPT ![r] = new] /\ rows' = job[r].text
        /\ UNCHANGED <<official, stamp, kept>>
    BY <1>6 DEF ReplaceMonth, Goto
  <2> HIDE DEF new
  <2> QED BY <2>1, <2>2, <2>3 DEF Advances, Moves
<1>7. ASSUME NEW r \in Recorders, IngestFailure(r) PROVE Advances(r)
  <2> DEFINE new == [job[r] EXCEPT !.pc = "restore"]
  <2>1. job[r].pc \in {"ingest", "import"}
    BY <1>7 DEF IngestFailure, At
  <2>2. ~At(r, "idle") /\ job[r] \in Working(RecordPcs)
    BY <1>0, <2>1, Alone DEF At
  <2>3. /\ new \in Working(RecordPcs) /\ new.pc = "restore"
        /\ new.before = job[r].before /\ new.arg = job[r].arg
        /\ new.backup = job[r].backup
    BY <1>0, <2>2 DEF Working, RecordPcs
  <2>4. /\ job' = [job EXCEPT ![r] = new]
        /\ UNCHANGED <<official, rows, stamp, kept>>
    BY <1>7 DEF IngestFailure, Goto
  <2> HIDE DEF new
  <2> QED BY <2>1, <2>2, <2>3, <2>4 DEF Advances, Moves
<1>8. ASSUME NEW r \in Recorders, Reject(r) PROVE Ends(r)
  BY <1>8 DEF Reject, Return, Ends, At
<1>9. ASSUME NEW r \in Recorders, Restore(r) PROVE Ends(r)
  <2>1. At(r, "restore") /\ ~At(r, "idle") /\ job[r].backup = job[r].before
    BY <1>9 DEF Restore, At, HInv, Calm, Tracked
  <2> QED BY <1>9, <2>1 DEF Restore, Return, Ends
<1>10. ASSUME NEW r \in Recorders, RestoreFailure(r) PROVE Ends(r)
  <2>1. At(r, "restore") /\ ~At(r, "idle") /\ job[r].backup = job[r].before
    BY <1>10 DEF RestoreFailure, At, HInv, Calm, Tracked
  <2>2. official' \in Texts
    BY <1>0 DEF IInv, TypeOK
  <2> QED BY <1>10, <2>1, <2>2 DEF RestoreFailure, Return, Ends
<1>11. ASSUME NEW r \in Recorders, Stamp(r) PROVE Ends(r)
  BY <1>11 DEF Stamp, Return, Ends, At
<1>12. ASSUME NEW r \in Recorders, RecordStep(r) PROVE Advances(r) \/ Ends(r)
  BY <1>2, <1>3, <1>4, <1>8, <1>9, <1>10, <1>12
     DEF RecordStep, TornCandidate, TornBackUp, TornOfficial, WriteFailure
<1>13. ASSUME NEW r \in Recorders, IngestStep(r) PROVE Advances(r) \/ Ends(r)
  BY <1>5, <1>6, <1>7, <1>11, <1>13 DEF IngestStep
<1>14. CASE calm
  <2>1. Calm /\ Quiet
    BY <1>14 DEF HInv, Calm
  <2>2. ASSUME NEW e \in Editors
        PROVE  ~SaveStep(e) /\ ~IngestStep(e)
    BY <2>1 DEF Quiet, At, SaveStep, SaveText, Writable, SaveFailure, Enter,
                IngestStep, Collect, ReplaceMonth, Stamp, IngestFailure
  <2>3. ~Crash /\ \A e, text, flow : ~Save(e, text, flow)
    BY DEF Crash, Save
  <2> QED BY <1>1, <1>12, <1>13, <2>1, <2>2, <2>3 DEF Next, Actors, Done
<1>15. CASE ~calm
  BY <1>1, <1>15, StaysCalm
<1> QED BY <1>14, <1>15

\* An editor is not the recorder that moves.
LEMMA StaysQuiet ==
  ASSUME IInv, Quiet, NEW r \in Recorders, NEW new,
         job' = [job EXCEPT ![r] = new]
  PROVE  Quiet'
BY ActorsAssumption DEF IInv, TypeOK, Quiet, At, Actors

LEMMA NextHInv ==
  ASSUME HInv, [Next]_vars
  PROVE  HInv'
<1> SUFFICES ASSUME calm' PROVE Calm'
  BY NextIInv DEF HInv
<1>0. IInv /\ IInv'
  BY NextIInv DEF HInv
<1>1. ASSUME Calm, UNCHANGED vars PROVE Calm'
  BY <1>0, <1>1 DEF vars, Calm, Quiet, Tracked, InStep, At, Candidate
<1>2. ASSUME NEW r \in Recorders, Begins(r)
      PROVE  Quiet' /\ Tracked' /\ InStep'
  <2>1. PICK new : /\ job' = [job EXCEPT ![r] = new]
                   /\ new \in Working(RecordPcs)
                   /\ new.pc = "read"
                   /\ \E l \in Lines : new.arg = {l}
    BY <1>2 DEF Begins
  <2>2. /\ job'[r] = new /\ \A x \in Recorders : x # r => job'[x] = job[x]
        /\ UNCHANGED <<official, rows, stamp>>
    BY <1>0, <1>2, <2>1 DEF Begins, IInv, TypeOK, Actors
  <2>3. Quiet /\ stamp = rows /\ \A x \in Recorders : At(x, "idle")
    BY <1>2 DEF Begins
  <2>4. Quiet'
    BY <1>0, <2>1, <2>3, StaysQuiet
  <2> QED BY <2>1, <2>2, <2>3, <2>4 DEF Tracked, InStep, At
<1>3. ASSUME Calm, NEW r \in Recorders, Advances(r)
      PROVE  Quiet' /\ Tracked' /\ InStep'
  <2>1. PICK new : Moves(r, new) /\
       \/ /\ At(r, "read") /\ new.pc = "backup" /\ new.before = official
          /\ new.candidate = LinesOf(new.before) \cup new.arg
          /\ UNCHANGED <<official, rows>>
       \/ /\ At(r, "backup") /\ new.pc = "write"
          /\ new.before = job[r].before /\ new.candidate = job[r].candidate
          /\ new.backup = new.before
          /\ UNCHANGED <<official, rows>>
       \/ /\ At(r, "write") /\ new.pc = "ingest"
          /\ new.before = job[r].before /\ new.backup = job[r].backup
          /\ official' = Candidate(r) /\ UNCHANGED rows
       \/ /\ At(r, "ingest") /\ new.pc = "import"
          /\ new.before = job[r].before /\ new.backup = job[r].backup
          /\ new.text = official
          /\ UNCHANGED <<official, rows>>
       \/ /\ job[r].pc \in {"ingest", "import"} /\ new.pc = "restore"
          /\ new.before = job[r].before /\ new.backup = job[r].backup
          /\ UNCHANGED <<official, rows>>
       \/ /\ At(r, "import") /\ new.pc = "stamp"
          /\ new.before = job[r].before /\ new.backup = job[r].backup
          /\ new.text = job[r].text
          /\ rows' = job[r].text /\ UNCHANGED official
    BY <1>3 DEF Advances
  <2>2. /\ job'[r] = new /\ \A x \in Recorders : x # r => job'[x] = job[x]
        /\ new.arg = job[r].arg /\ UNCHANGED stamp /\ ~At(r, "idle")
    BY <1>0, <1>3, <2>1 DEF Advances, Moves, IInv, TypeOK, Actors
  <2>3. \A x \in Recorders : x # r => At(x, "idle")
    BY <1>0, <2>2, Alone
  <2>4. /\ Candidate(r)' = LinesOf(new.before) \cup new.arg
        /\ ~At(r, "read") => Candidate(r)' = Candidate(r)
    BY <2>1, <2>2 DEF Candidate, At
  <2>5. Tracked'
    <3>1. /\ \E l \in Lines : job[r].arg = {l}
          /\ job[r].pc \in {"backup", "write"} => official = job[r].before
          /\ job[r].pc \in {"ingest", "import", "stamp", "restore"} =>
               official = Candidate(r)
          /\ job[r].pc \in {"import", "stamp"} => job[r].text = official
          /\ job[r].pc \in {"backup", "write"} =>
               job[r].candidate = Candidate(r)
          /\ job[r].pc \in {"write", "ingest", "import", "stamp", "restore"}
               => job[r].backup = job[r].before
      BY <1>3, <2>2 DEF Calm, Tracked
    <3>2. /\ \E l \in Lines : new.arg = {l}
          /\ new.pc \in {"backup", "write"} => official' = new.before
          /\ new.pc \in {"ingest", "import", "stamp", "restore"} =>
               official' = Candidate(r)'
      BY <2>1, <2>2, <2>4, <3>1 DEF At
    <3>3. /\ new.pc \in {"import", "stamp"} => new.text = official'
          /\ new.pc \in {"backup", "write"} =>
               new.candidate = Candidate(r)'
          /\ new.pc \in {"write", "ingest", "import", "stamp", "restore"} =>
               new.backup = new.before
      BY <2>1, <2>2, <2>4, <3>1 DEF At
    <3> QED BY <2>2, <2>3, <3>2, <3>3 DEF Tracked, At
  <2>6. InStep'
    BY <1>3, <2>1, <2>2, <2>3 DEF Calm, InStep, At
  <2>7. Quiet'
    BY <1>0, <1>3, <2>1, StaysQuiet DEF Calm, Moves
  <2> QED BY <2>5, <2>6, <2>7
<1>4. ASSUME Calm, NEW r \in Recorders, Ends(r)
      PROVE  Quiet' /\ Tracked' /\ InStep'
  <2>1. \A x \in Recorders : At(x, "idle")'
    <3>1. ~At(r, "idle") /\ r \in Actors /\ job' = [job EXCEPT ![r] = NoJob]
      BY <1>4 DEF Ends, Actors
    <3>2. \A x \in Recorders : x # r => At(x, "idle")
      BY <1>0, <3>1, Alone
    <3> QED BY <1>0, <3>1, <3>2 DEF IInv, TypeOK, At, NoJob, Actors
  <2>2. Tracked'
    BY <2>1 DEF Tracked, At
  <2>3. rows' = rows /\ stamp' = rows
    <3>1. \A x \in Recorders : x # r => At(x, "idle")
      BY <1>0, <1>4, Alone DEF Ends
    <3>2. CASE At(r, "stamp")
      BY <1>0, <1>4, <3>2 DEF Ends, IInv, Carried, At, Actors
    <3>3. CASE ~At(r, "stamp")
      BY <1>4, <3>1, <3>3 DEF Ends, Calm, InStep, At
    <3> QED BY <3>2, <3>3
  <2>4. Quiet'
    BY <1>0, <1>4, StaysQuiet DEF Calm, Ends
  <2> QED BY <2>2, <2>3, <2>4 DEF InStep
<1>5. CASE UNCHANGED vars
  BY <1>1, <1>5 DEF HInv, vars
<1>6. CASE Next
  BY <1>0, <1>1, <1>2, <1>3, <1>4, <1>6, HandledSteps DEF Calm
<1> QED BY <1>5, <1>6

LEMMA HInvHolds == Spec => []HInv
<1>1. HInv /\ [Next]_vars => HInv'
  BY NextHInv
<1> QED BY <1>1, InitHInv, PTL DEF Spec

\* What the promise sees while the call r is in progress, and when none is.
LEMMA MappedIdle ==
  ASSUME \A r \in Recorders : At(r, "idle")
  PROVE  PromisedText = official /\ PromisedLine = Absent
BY DEF PromisedText, PromisedLine, Recording

Mapped(r) ==
  /\ PromisedText = IF job[r].pc \in {"write", "ingest", "import", "restore"}
                    THEN job[r].before ELSE official
  /\ At(r, "stamp") => PromisedLine = Absent
  /\ ~At(r, "stamp") => /\ PromisedLine \in Lines
                        /\ job[r].arg = {PromisedLine}

MappedCalls == \A r \in Recorders : ~At(r, "idle") => Mapped(r)

LEMMA MappedCall == Calm => MappedCalls
<1> SUFFICES ASSUME Calm, NEW r \in Recorders, ~At(r, "idle") PROVE Mapped(r)
  BY DEF MappedCalls
<1>1. Recording = {r}
  BY Alone DEF Calm, Recording
<1>2. PromisedText = IF job[r].pc \in {"write", "ingest", "import", "restore"}
                     THEN job[r].before ELSE official
  BY <1>1 DEF PromisedText
<1>3. At(r, "stamp") => PromisedLine = Absent
  BY <1>1 DEF PromisedLine, Committed
<1>4. ASSUME ~At(r, "stamp")
      PROVE  PromisedLine \in Lines /\ job[r].arg = {PromisedLine}
  <2>1. PICK l \in Lines : job[r].arg = {l}
    BY DEF Calm, Tracked
  <2>2. PromisedLine = CHOOSE k \in Lines : job[r].arg = {k}
    BY <1>1, <1>4 DEF PromisedLine, Committed
  <2> QED BY <2>1, <2>2
<1> QED BY <1>2, <1>3, <1>4 DEF Mapped

LEMMA MappedNextCall == Calm' => MappedCalls'
BY MappedCall, PTL

LEMMA MappedNextIdle ==
  ASSUME (\A r \in Recorders : At(r, "idle"))'
  PROVE  PromisedText' = official' /\ PromisedLine' = Absent
BY DEF PromisedText, PromisedLine, Recording

LEMMA HandledStepIsPromised ==
  ASSUME HInv, Next, calm'
  PROVE  Promise!Next \/ UNCHANGED Promise!vars
<1>0. IInv /\ IInv' /\ MappedCalls' /\ (Calm => MappedCalls)
  BY NextIInv, NextHInv, MappedCall, MappedNextCall DEF HInv
<1>1. CASE UNCHANGED vars
  BY <1>1 DEF vars, Promise!vars, PromisedText, PromisedLine, Recording,
              Committed, At
<1>2. ASSUME NEW r \in Recorders, Begins(r) PROVE Promise!Submit
  <2>1. ~At(r, "idle")' /\ ~At(r, "stamp")' /\ job'[r].pc = "read"
        /\ UNCHANGED <<official, rows, kept>>
    BY <1>0, <1>2 DEF Begins, IInv, TypeOK, At, Actors
  <2>2. PromisedText = official /\ PromisedLine = Absent
    BY <1>2, MappedIdle DEF Begins
  <2>3. PromisedText' = official' /\ PromisedLine' \in Lines
    BY <1>0, <2>1 DEF MappedCalls, Mapped
  <2> QED BY <2>1, <2>2, <2>3 DEF Promise!Submit
<1>3. ASSUME Calm, NEW r \in Recorders, Advances(r)
      PROVE  Promise!Accept \/ UNCHANGED Promise!vars
  <2>0. /\ Mapped(r) /\ UNCHANGED kept
        /\ job[r].pc \in {"backup", "write"} => official = job[r].before
        /\ job[r].pc \in {"import", "stamp"} =>
             job[r].text = official /\ official = Candidate(r)
    BY <1>0, <1>3 DEF MappedCalls, Advances, Calm, Tracked
  <2>1. job'[r].pc # "idle" /\ job'[r].arg = job[r].arg
    BY <1>0, <1>3 DEF Advances, Moves, IInv, TypeOK, Actors
  <2>2. Mapped(r)'
    BY <1>0, <2>1 DEF MappedCalls, At
  <2>3. CASE job'[r].pc = "stamp"
    <3>1. /\ At(r, "import") /\ rows' = job[r].text /\ UNCHANGED official
      BY <1>0, <1>3, <2>3 DEF Advances, Moves, IInv, TypeOK, Actors
    <3>2. /\ PromisedText' = official /\ PromisedLine' = Absent
          /\ PromisedText = job[r].before
          /\ PromisedLine \in Lines /\ job[r].arg = {PromisedLine}
      BY <2>0, <2>2, <2>3, <3>1 DEF Mapped, At
    <3>3. official = LinesOf(PromisedText) \cup {PromisedLine}
      BY <2>0, <3>1, <3>2 DEF Candidate, At
    <3>4. PromisedLine # Absent
      BY <3>2, LinesAssumption
    <3> QED BY <2>0, <3>1, <3>2, <3>3, <3>4
            DEF Promise!Accept, Promise!LinesOf, LinesOf, At
  <2>4. CASE job'[r].pc # "stamp"
    <3>1. /\ ~At(r, "stamp") /\ UNCHANGED rows
          /\ \/ /\ At(r, "read") /\ job'[r].pc = "backup" /\ UNCHANGED official
             \/ /\ At(r, "backup") /\ job'[r].pc = "write"
                /\ job'[r].before = job[r].before
             \/ /\ job[r].pc \in {"write", "ingest", "import"}
                /\ job'[r].pc \in {"ingest", "import", "restore"}
                /\ job'[r].before = job[r].before
      BY <1>0, <1>3, <2>4 DEF Advances, Moves, IInv, TypeOK, Actors, At
    <3>2. PromisedLine' = PromisedLine
      <4>1. job[r].arg = {PromisedLine} /\ job[r].arg = {PromisedLine'}
        BY <2>0, <2>1, <2>2, <2>4, <3>1 DEF Mapped, At
      <4> QED BY <4>1
    <3>3. PromisedText' = PromisedText
      BY <2>0, <2>2, <2>4, <3>1 DEF Mapped, At
    <3> QED BY <2>0, <3>1, <3>2, <3>3 DEF Promise!vars
  <2> QED BY <2>3, <2>4
<1>4. ASSUME Calm, NEW r \in Recorders, Ends(r)
      PROVE  Promise!Next \/ UNCHANGED Promise!vars
  <2>0. /\ Mapped(r) /\ UNCHANGED rows
        /\ job[r].pc \in {"backup", "write"} => official = job[r].before
        /\ job[r] \in Working(RecordPcs)
    BY <1>0, <1>4, Alone DEF MappedCalls, Ends, Calm, Tracked
  <2>1. \A x \in Recorders : At(x, "idle")'
    <3>1. ~At(r, "idle") /\ r \in Actors /\ job' = [job EXCEPT ![r] = NoJob]
      BY <1>4 DEF Ends, Actors
    <3>2. \A x \in Recorders : x # r => At(x, "idle")
      BY <1>0, <3>1, Alone
    <3> QED BY <1>0, <3>1, <3>2 DEF IInv, TypeOK, At, NoJob, Actors
  <2>2. PromisedText' = official' /\ PromisedLine' = Absent
    BY <2>1, MappedNextIdle
  <2>3. CASE At(r, "stamp")
    BY <1>4, <2>0, <2>2, <2>3 DEF Ends, Mapped, Promise!vars, At
  <2>4. CASE ~At(r, "stamp")
    <3>1. PromisedLine # Absent
      BY <2>0, <2>4, LinesAssumption DEF Mapped
    <3>2. CASE answer' = "rollbackFailed"
      <4>1. /\ kept' = kept \cup {job[r].before} /\ At(r, "restore")
            /\ official' \in Texts
        BY <1>4, <2>4, <3>2 DEF Ends, At
      <4>2. PromisedText = job[r].before
        BY <2>0, <4>1 DEF Mapped, At
      <4>3. Promise!GetStuck
        BY <2>0, <2>2, <3>1, <4>1, <4>2
           DEF Promise!GetStuck, Promise!Texts, Texts
      <4> QED BY <4>3 DEF Promise!Next
    <3>3. CASE answer' # "rollbackFailed"
      <4>1. UNCHANGED kept /\ official' = PromisedText
        BY <1>4, <2>0, <2>4, <3>3 DEF Ends, Mapped, At
      <4>2. Promise!Refuse
        BY <2>0, <2>2, <3>1, <4>1 DEF Promise!Refuse
      <4> QED BY <4>2 DEF Promise!Next
    <3> QED BY <3>2, <3>3
  <2> QED BY <2>3, <2>4
<1> QED BY <1>1, <1>2, <1>3, <1>4, HandledSteps DEF Promise!Next

\* A record call that met no editor at work and no failure but those it
\* handles is one step of the promise or none, whatever befell the calls
\* before it: the TXT and the database change together.
THEOREM RecordKeepsItsPromise == Spec => ImplementsPromise
<1>1. Init => Promise!Init
  <2> SUFFICES ASSUME Init PROVE Promise!Init
    OBVIOUS
  <2>1. PromisedText = official /\ PromisedLine = Absent
    BY MappedIdle DEF Init, At, NoJob, Actors
  <2> QED BY <2>1, TextFacts DEF Init, Promise!Init, Promise!Texts, Texts
<1>2. HInv /\ [Next]_vars => [calm' => Promise!Next]_(Promise!vars)
  <2>1. CASE UNCHANGED vars
    BY <2>1 DEF vars, Promise!vars, PromisedText, PromisedLine, Recording,
                Committed, At
  <2> QED BY <2>1, HandledStepIsPromised
<1> QED BY <1>1, <1>2, HInvHolds, PTL DEF Spec, ImplementsPromise

\* Likewise, the answer of a record call tells what happened to the TXT, the
\* rows and the sync status.
THEOREM AnswerAlwaysTells == Spec => AnswerTellsTheOutcome
<1> DEFINE Told ==
      calm' => \A r \in Recorders :
        ~At(r, "idle") /\ job'[r].pc = "idle" =>
          \/ /\ answer' = "ok"
             /\ official' = Candidate(r)
             /\ rows' = official' /\ stamp' = official'
          \/ answer' = "rollbackFailed"
          \/ /\ answer' \in {"rejected", "rolledBack"}
             /\ official' = IF At(r, "read") THEN official ELSE job[r].before
             /\ stamp' = rows'
<1>1. HInv /\ [Next]_vars => [Told]_vars
  <2> SUFFICES ASSUME HInv, Next, calm', NEW r \in Recorders,
                      ~At(r, "idle"), job'[r].pc = "idle"
               PROVE  \/ /\ answer' = "ok"
                         /\ official' = Candidate(r)
                         /\ rows' = official' /\ stamp' = official'
                      \/ answer' = "rollbackFailed"
                      \/ /\ answer' \in {"rejected", "rolledBack"}
                         /\ official' = IF At(r, "read") THEN official
                                        ELSE job[r].before
                         /\ stamp' = rows'
    BY DEF Told
  <2>0. IInv /\ HInv'
    BY NextHInv DEF HInv
  <2>1. Calm /\ Ends(r)
    <3>0. \A x \in Recorders : ~Begins(x)
      BY DEF Begins
    <3>1. ~UNCHANGED vars
      BY DEF vars, At
    <3>2. PICK x \in Recorders : Calm /\ (Advances(x) \/ Ends(x))
      BY <3>0, <3>1, HandledSteps
    <3>3. CASE x = r
      BY <2>0, <3>2, <3>3
         DEF Advances, Moves, At, IInv, TypeOK, Actors
    <3>4. CASE x # r
      BY <2>0, <3>2, <3>4
         DEF Advances, Ends, Moves, At, IInv, TypeOK, Actors
    <3> QED BY <3>3, <3>4
  <2>2. /\ \A x \in Recorders : x # r => At(x, "idle")
        /\ job[r].pc \in {"backup", "write"} => official = job[r].before
        /\ job[r].pc = "stamp" =>
             job[r].text = official /\ official = Candidate(r)
        /\ At(r, "stamp") => rows = job[r].text
    BY <2>0, <2>1, Alone DEF Calm, Tracked, IInv, Carried, Actors
  <2>3. ~At(r, "stamp") => stamp = rows
    BY <2>1, <2>2 DEF Calm, InStep, At
  <2> QED BY <2>1, <2>2, <2>3 DEF Ends, At
<1> QED BY <1>1, HInvHolds, PTL DEF Spec, AnswerTellsTheOutcome
=============================================================================
