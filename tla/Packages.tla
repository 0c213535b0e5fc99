------------------------------ MODULE Packages ------------------------------
(***************************************************************************)
(* Encryption: TXTs turned into .tracer files and back, one by one or a     *)
(* directory at a time, and the exchange package, one .tracer file that     *)
(* holds every TXT with the converter configuration and is exported,        *)
(* inspected and unpacked.  Every step may fail; the observer may cancel    *)
(* whenever it is told something, and another thread at any time, where the *)
(* operation carries a token.                                              *)
(***************************************************************************)
EXTENDS ProgressReport, PackageKeys, FiniteSets, PathOrder

CONSTANTS Files,        \* the TXTs, numbered in the order of their paths
          Config,       \* the converter configuration, as an entry of a package
          Passphrases,
          Planned,      \* the size of each input when the operation is planned
          Lengths,      \* what the size may be when the input is read
          NoFile,       \* no TXT is there
          Torn,         \* a TXT that a failed write left
          Beginnings,   \* which TXTs may be there at first
          Earlier,      \* .tracer files that may be there from before
          MaxCalls      \* bound on the operations that are run

Entries == Files \cup {Config}

ASSUME FilesAssumption == /\ Files \subseteq Nat /\ IsFiniteSet(Files)
                          /\ Config \notin Files
ASSUME PlannedAssumption == Planned \in [Entries -> Nat]
ASSUME LengthsAssumption == Lengths \subseteq Nat /\ MaxCalls \in Nat

\* What is there from before was sealed, and with nonces of its own.
ASSUME EarlierAssumption ==
    \A there \in Earlier :
        /\ there = [n \in Files |-> there[n]]
        /\ \A n \in Files : Readable(there[n]) =>
              /\ WellSealed(there[n])
              /\ \A k \in 1..MaxCalls : there[n].nonce # <<k, n>>

VARIABLES txt,    \* the TXTs
          pkg,    \* their .tracer files
          pack,   \* the exchange package
          root,   \* the directory a package is unpacked to
          job,    \* the operation that runs, or ran last
          rep,    \* its reporter
          seen,   \* what the observer was told last
          token,  \* another thread asked the operation to stop
          calls   \* how many operations were begun

disk == <<txt, pkg, pack, root>>
told == <<rep, seen, token>>
vars == <<disk, job, told, calls>>

Empty == [e \in Entries |-> NoFile]

Directory == {"encrypt", "decrypt"}      \* operations on files or directories
Sealing == {"encrypt", "export"}

NoAnswer == [status |-> "none", failed |-> 0, succeeded |-> 0]
Idle == [step |-> "idle", op |-> "none", answer |-> NoAnswer]

Init ==
    /\ \E there \in Beginnings : txt = [n \in Files |-> IF n \in there THEN n ELSE NoFile]
    /\ pkg \in Earlier
    /\ pack = NoTracer
    /\ root \in {Empty} \cup {[Empty EXCEPT ![n] = Torn] : n \in Files}
    /\ job = Idle
    /\ rep = NewReporter
    /\ seen = NothingSeen
    /\ token = FALSE
    /\ calls = 0

(***************************************************************************)
(* Beginning.                                                              *)
(***************************************************************************)

\* BuildDirectoryTaskPlan: the files with the extension, sorted.
There(op) == IF op = "encrypt" THEN {n \in Files : txt[n] # NoFile}
             ELSE {n \in Files : pkg[n] # NoTracer}
Scanned(op) == InPathOrder(There(op))

\* CollectInputPayloadFilesFromRoot.
Payloads == {n \in Files : txt[n] # NoFile}

\* RunExport wants TXTs, and all of them to pass validation.
ExportReady == Payloads # {} /\ \A n \in Files : txt[n] # Torn

\* RunInspect reads the header before anything else.
InspectReady == Readable(pack)

\* Mutant: unpack into whatever is there.
UnpackAnywhere == pack # NoTracer

\* EnsureUnpackOutputRootReady.
UnpackReady == pack # NoTracer /\ root = Empty

Ready(op) ==
    CASE op = "export" -> ExportReady
      [] op = "inspect" -> InspectReady
      [] op = "unpack" -> UnpackReady

Job(op, batch, goOn, pass, plan) ==
    [step |-> "scan", op |-> op, batch |-> batch, goOn |-> goOn, pass |-> pass,
     plan |-> plan, at |-> 0, salt |-> <<calls'>>, keys |-> NoKeys,
     length |-> 0, read |-> 0, error |-> "none", asked |-> "none",
     lost |-> {}, answer |-> NoAnswer]

Started(newJob) ==
    /\ job.step = "idle"
    /\ calls < MaxCalls
    /\ calls' = calls + 1
    /\ job' = newJob
    /\ rep' = NewReporter
    /\ seen' = NothingSeen
    /\ token' = FALSE
    /\ UNCHANGED disk

\* EncryptFile and DecryptFile: a plan of one file, which must be there.
BeginFile(op, name, pass) ==
    /\ op \in Directory
    /\ name \in There(op)
    /\ Started(Job(op, FALSE, FALSE, pass, <<name>>))

\* EncryptDirectory and DecryptDirectory.
BeginDirectory(op, goOn, pass) ==
    /\ op \in Directory
    /\ Started(Job(op, TRUE, goOn, pass, Scanned(op)))

\* RunExport, RunInspect and RunUnpack; the file they work on is the package.
BeginExchange(op, pass) ==
    /\ op \notin Directory
    /\ Ready(op)
    /\ Started(Job(op, FALSE, FALSE, pass, <<Config>>))

\* FileCryptoCancelToken: any time, from another thread.
RequestCancel ==
    /\ job.step # "idle"
    /\ job.op \in Directory
    /\ ~token
    /\ token' = TRUE
    /\ job' = [job EXCEPT !.asked = job.step]
    /\ UNCHANGED <<disk, rep, seen, calls>>

(***************************************************************************)
(* Telling, and ending.                                                    *)
(***************************************************************************)
Hear(e) == rep' = e.rep /\ seen' = e.seen /\ token' = e.token

\* MarkCancelled and MarkFailed after an emission: nobody waits for the answer.
Mark(e, phase) ==
    \E last \in Emissions(InPhase(e.rep, phase), e.seen, e.token, TRUE) : Hear(last)

Ended(status) == [job EXCEPT !.step = "idle", !.answer.status = status]

\* Which cancellations are marked: those of a batch but the first, and of one
\* file those of its own steps; package bytes are read and written outside them.
Marks(step) ==
    CASE step = "scan" -> FALSE
      [] step \in {"totals", "select"} -> job.batch
      [] step \in {"read", "write"} -> job.op \in Directory
      [] OTHER -> TRUE

\* Tell the observer and go on, or stop where it or the token asks for that.
\* A file that was written whole when that happens is not counted.
TellThen(next, forced, then) ==
    \E e \in Emissions(next, seen, token, forced) :
        IF e.ok THEN Hear(e) /\ job' = then
        ELSE /\ job' = Ended("cancelled")
             /\ IF Marks(job.step) THEN Mark(e, "cancelled") ELSE Hear(e)

\* Mutant: what failed is counted with what succeeded.
AfterFailureCounted(error) ==
    LET counted == [job EXCEPT !.answer.failed = @ + 1, !.answer.succeeded = @ + 1,
                               !.error = IF @ = "none" THEN error ELSE @]
    IN  IF job.goOn THEN [counted EXCEPT !.step = "select"]
        ELSE [counted EXCEPT !.step = "idle", !.answer.status = counted.error]

\* A file failed: a batch may go on with the next; the first error is reported.
AfterFailure(error) ==
    LET counted == [job EXCEPT !.answer.failed = @ + 1,
                               !.error = IF @ = "none" THEN error ELSE @]
    IN  IF job.goOn THEN [counted EXCEPT !.step = "select"]
        ELSE [counted EXCEPT !.step = "idle", !.answer.status = counted.error]

Fails(error) ==
    /\ job' = AfterFailure(error)
    /\ Mark(Emission(rep, seen, token, TRUE), "failed")

(***************************************************************************)
(* RunDirectoryCrypto, and the same steps for one file.                     *)
(***************************************************************************)
\* BeginScan.
Scan ==
    /\ job.step = "scan"
    /\ TellThen(rep, TRUE, [job EXCEPT !.step = "totals"])
    /\ UNCHANGED <<disk, calls>>

\* The plan may fail, as it does when there is no file.
PlanFails ==
    /\ job.step = "totals"
    /\ job.batch
    /\ job' = Ended("plan_failed")
    /\ Mark(Emission(rep, seen, token, TRUE), "failed")
    /\ UNCHANGED <<disk, calls>>

\* The sizes of the first files of a plan, added up.
PlannedUpTo(plan) ==
    LET upTo[i \in 0..Len(plan)] ==
            IF i = 0 THEN 0 ELSE upTo[i - 1] + Planned[plan[i]]
    IN  upTo
PlannedTotal == PlannedUpTo(job.plan)[Len(job.plan)]

\* SetAggregateTotals.
Totals ==
    /\ job.step = "totals"
    /\ job.plan # <<>>
    /\ TellThen(WithTotals(rep, PlannedTotal), TRUE,
                [job EXCEPT !.step = IF job.batch /\ job.op = "encrypt" THEN "session"
                                     ELSE "select"])
    /\ UNCHANGED <<disk, calls>>

\* BuildEncryptBatchCryptoSession: the one slow derivation of a batch.
Session ==
    /\ job.step = "session"
    /\ \/ /\ job' = [job EXCEPT !.step = "select"]
          /\ UNCHANGED told
       \/ /\ job' = Ended("operation_failed")
          /\ Mark(Emission(rep, seen, token, TRUE), "failed")
    /\ UNCHANGED <<disk, calls>>

\* SetCurrentFile, from where the files before have brought the reporter.
Select ==
    /\ job.step = "select"
    /\ job.at < Len(job.plan)
    /\ TellThen(AtFile(rep, Planned[job.plan[job.at + 1]], rep.done), TRUE,
                [job EXCEPT !.at = @ + 1,
                            !.step = IF job.op = "export" THEN "compress" ELSE "read"])
    /\ UNCHANGED <<disk, calls>>

\* No file is left: a batch with failures fails, another operation is
\* completed, if not quite: the entries of an unpacked package are yet to write.
Conclude ==
    /\ job.step = "select"
    /\ job.at = Len(job.plan)
    /\ IF job.answer.failed > 0
       THEN job' = Ended(job.error) /\ Mark(Emission(rep, seen, token, TRUE), "failed")
       ELSE /\ job' = IF job.op = "unpack" THEN [job EXCEPT !.step = "entries"] ELSE Ended("ok")
            /\ \E e \in Emissions(Completed(rep), seen, token, TRUE) : Hear(e)
    /\ UNCHANGED <<disk, calls>>

(***************************************************************************)
(* EncryptFileInternal and DecryptFileInternal, and what the package has in *)
(* common with them: EncryptBytesToWriter and DecryptFileToBytes.           *)
(***************************************************************************)
Current == job.plan[job.at]
Seals == job.op \in Sealing

\* The .tracer file that is opened.
Source == IF job.op = "decrypt" THEN pkg[Current] ELSE pack

\* What is sealed: a TXT, or all of them with the configuration.
Content == IF job.op = "encrypt" THEN txt[Current]
           ELSE [e \in Payloads \cup {Config} |->
                    IF e = Config THEN Config ELSE txt[e]]

\* SetPhase, at the beginning of a phase.
Phase(step, then) ==
    /\ job.step = step
    /\ TellThen(InPhase(rep, step), TRUE, then)
    /\ UNCHANGED <<disk, calls>>

\* ReadAllBytes: the length is what the file has now; of an empty one the
\* observer is told, too.
Read ==
    \E length \in Lengths :
        Phase("read", [job EXCEPT !.step = "chunks", !.length = length, !.read = 0])

ReadChunk ==
    /\ job.step = "chunks"
    /\ LET now == Least(job.read + 1, job.length)
       IN  TellThen(ReadSoFar(rep, now), FALSE,
                    [job EXCEPT !.read = now,
                                !.step = IF now < job.length THEN "chunks"
                                         ELSE IF Seals THEN "compress" ELSE "derive"])
    /\ UNCHANGED <<disk, calls>>

Compress == Phase("compress", [job EXCEPT !.step = "derive"])

\* ParseHeader comes before the phase, DeriveDecryptKey after it.
Derive ==
    /\ job.step = "derive"
    /\ Seals \/ Readable(Source)
    /\ Phase("derive", [job EXCEPT !.step = "crypt",
                                   !.keys = IF job.op = "decrypt" /\ job.batch
                                            THEN WithMasterKey(@, job.pass, Source) ELSE @])

Crypt == Phase("crypt", [job EXCEPT !.step = IF Seals THEN "write" ELSE "open"])

\* DecryptCiphertext; what the first format holds is not compressed.
Open ==
    /\ job.step = "open"
    /\ IF Opens(job.keys, job.pass, Source)
       THEN /\ job' = [job EXCEPT !.step = IF Source.version = 1 THEN "write" ELSE "decompress"]
            /\ UNCHANGED told
       ELSE Fails("decrypt_failed")
    /\ UNCHANGED <<disk, calls>>

Decompress == Phase("decompress", [job EXCEPT !.step = "write"])

\* The bytes of an inspected or unpacked package stay in memory.
Write == Phase("write", [job EXCEPT !.step = IF Seals \/ job.op \in Directory THEN "store"
                                             ELSE "select"])

\* What is done between two phases fails: reading a file, compressing, deriving
\* a key, encrypting; or the header is not one.
StepFails ==
    /\ \/ job.step \in {"chunks", "derive", "crypt", "write"} /\ Fails("operation_failed")
       \/ job.step = "derive" /\ ~Seals /\ ~Readable(Source) /\ Fails("unsupported_format")
    /\ UNCHANGED <<disk, calls>>

(***************************************************************************)
(* WriteAllBytes and what comes after.                                     *)
(***************************************************************************)

\* The outputs of the operation when the one it is at holds what is given.
Holding(file) ==
    CASE job.op = "encrypt" -> /\ pkg' = [pkg EXCEPT ![Current] = file]
                               /\ UNCHANGED <<txt, pack, root>>
      [] job.op = "decrypt" -> /\ txt' = [txt EXCEPT ![Current] = file]
                               /\ UNCHANGED <<pkg, pack, root>>
      [] job.op = "export" -> /\ pack' = file
                              /\ UNCHANGED <<txt, pkg, root>>

\* EncryptBytesInternal: in a batch the salt is that of the session.
Output ==
    IF ~Seals THEN Source.content
    ELSE IF job.batch
         THEN SealedInBatch(MasterKey(job.pass, job.salt), job.salt, <<calls, Current>>, Content)
         ELSE Sealed(job.pass, job.salt, <<calls, Current>>, Content)

TornOutput == IF Seals THEN TornTracer ELSE Torn

\* A file is also told to be finished, and a cancel then finds it written.
Stored(file, lost) ==
    /\ job.step = "store"
    /\ Holding(file)
    /\ IF job.op \in Directory
       THEN TellThen(FileFinished(rep), TRUE,
                     [job EXCEPT !.step = "select", !.answer.succeeded = @ + 1,
                                 !.lost = lost])
       ELSE job' = [job EXCEPT !.step = "select", !.lost = lost] /\ UNCHANGED told
    /\ UNCHANGED calls

Store == Stored(Output, job.lost)

\* What is written last leaves the buffer when the stream is closed, after it
\* was asked how it is: the end of a file may be lost, and the answer is ok.
StoreTorn == Stored(TornOutput, job.lost \cup {Current})

\* The file cannot be opened, or has lost what it held when the write fails.
StoreFails ==
    /\ job.step = "store"
    /\ UNCHANGED disk \/ Holding(TornOutput)
    /\ Fails("output_write_failed")
    /\ UNCHANGED calls

\* WriteDecodedPackageToRoot, entry by entry; it may throw at each.
Unwritten == {e \in DOMAIN pack.content \ job.lost : root[e] # pack.content[e]}
UnpackEntry ==
    /\ job.step = "entries"
    /\ IF Unwritten = {}
       THEN job' = Ended("ok") /\ UNCHANGED disk
       ELSE /\ \E e \in Unwritten : root' = [root EXCEPT ![e] = pack.content[e]]
            /\ UNCHANGED <<txt, pkg, pack, job>>
    /\ UNCHANGED <<told, calls>>

\* WriteFileBytes closes its stream as WriteAllBytes does.
UnpackTorn ==
    /\ job.step = "entries"
    /\ \E e \in Unwritten : /\ root' = [root EXCEPT ![e] = Torn]
                             /\ job' = [job EXCEPT !.lost = @ \cup {e}]
    /\ UNCHANGED <<txt, pkg, pack, told, calls>>

UnpackFails ==
    /\ job.step = "entries"
    /\ \E e \in Unwritten : root' \in {root, [root EXCEPT ![e] = Torn]}
    /\ job' = Ended("write_failed")
    /\ UNCHANGED <<txt, pkg, pack, told, calls>>

Begin ==
    \E pass \in Passphrases :
        \/ \E op \in Directory, n \in Files : BeginFile(op, n, pass)
        \/ \E op \in Directory, goOn \in BOOLEAN : BeginDirectory(op, goOn, pass)
        \/ \E op \in {"export", "inspect", "unpack"} : BeginExchange(op, pass)

\* A caller may be done with its calls, never an operation with its steps.
Rest == job.step = "idle" /\ calls = MaxCalls /\ UNCHANGED vars

Next ==
    \/ Begin \/ RequestCancel
    \/ Scan \/ PlanFails \/ Totals \/ Session \/ Select \/ Conclude
    \/ Read \/ ReadChunk \/ Compress \/ Derive \/ Crypt \/ Open \/ Decompress \/ Write
    \/ StepFails \/ Store \/ StoreTorn \/ StoreFails
    \/ UnpackEntry \/ UnpackTorn \/ UnpackFails
    \/ Rest

Spec == Init /\ [][Next]_vars

(***************************************************************************)
(* Properties.                                                             *)
(***************************************************************************)

\* While an operation runs, what the observer is told never goes back and never
\* exceeds the total, whatever the files' lengths have become since the plan
\* was made, whichever of them fail, and over all files of a batch.
ProgressOnlyGrows ==
    [][calls' = calls =>
          /\ seen'.done >= seen.done
          /\ seen'.total # 0 => seen'.done <= seen'.total]_vars

\* The .tracer files that the running operation, or the last one, wrote.
WrittenNow == {n \in Files : Readable(pkg[n]) /\ pkg[n].nonce = <<calls, n>>}

\* The numbers an operation answers are those of the disk: a batch that
\* encrypts counts the files it wrote, but for one whose cancel came while it
\* was told to be finished; and an operation on files that answers ok has every
\* TXT equal to what its .tracer file holds.  Only the outputs whose end was
\* lost when they were closed are counted as written and are not.
AnswerMatchesDisk ==
    job.step = "idle" /\ job.op \in Directory =>
        /\ job.op = "encrypt" =>
              LET counted == Cardinality(WrittenNow) + Cardinality(job.lost)
              IN  \/ counted = job.answer.succeeded
                  \/ /\ job.answer.status = "cancelled"
                     /\ counted = job.answer.succeeded + 1
        /\ job.answer.status = "ok" =>
              \A i \in DOMAIN job.plan :
                 LET n == job.plan[i]
                 IN  n \in job.lost \/ (Readable(pkg[n]) /\ pkg[n].content = txt[n])

\* Once another thread has asked an operation to stop, no output changes any
\* more, except that of the file whose writing had already begun.
CancelStopsWriting ==
    [][job.step # "idle" /\ token => disk' = disk \/ job.asked = "store"]_vars

\* A .tracer file opens for the passphrase it was sealed with and for no other,
\* alone or in a batch whose earlier files left their master keys behind.
OpensForItsOwn ==
    job.step = "open" =>
        (Opens(job.keys, job.pass, Source) <=> job.pass = SealedFor(Source))

\* What an unpack that answers ok leaves is the package and nothing besides,
\* each entry whole unless its end was lost when it was closed.
UnpackedIsPackage ==
    job.step = "idle" /\ job.op = "unpack" /\ job.answer.status = "ok" =>
        /\ job.lost \subseteq DOMAIN pack.content
        /\ root = [e \in Entries |-> IF e \in job.lost THEN Torn
                                     ELSE IF e \in DOMAIN pack.content
                                     THEN pack.content[e] ELSE NoFile]
=============================================================================
