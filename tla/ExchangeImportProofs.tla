------------------------ MODULE ExchangeImportProofs ------------------------
(***************************************************************************)
(* What holds of the import for every set of months, contents and          *)
(* configurations, every rule of validation and every combination of       *)
(* faults.                                                                 *)
(***************************************************************************)
EXTENDS ExchangeImport, TLAPS

-----------------------------------------------------------------------------
(* The inductive invariant: TypeOK; the backups are those of the files the *)
(* import found; only the payloads' canonical files, and the legacy files  *)
(* they replace, may differ from what was found; up to the first phase that*)
(* writes a store, and once it is restored, that store is as it was found; *)
(* what is written and rebuilt was accepted.                               *)

Backed ==
  job.pc \notin {"idle", "collect"} =>
    /\ job.backup.texts = BackupManagedTextFiles(job.before.texts)
    /\ job.backup.config = job.before.config

Untouched(root) ==
  \A mp \in Months \X Places :
    \/ root[mp] = job.before.texts[mp]
    \/ mp[1] \in Imported /\ (mp[2] = "canonical" \/ root[mp] = Absent)

OthersUntouched == ~At("idle") => Untouched(texts)

TextsKept ==
  job.pc \in {"collect", "install", "validate", "write", "restoreConfig"} =>
    texts = job.before.texts

ConfigKept ==
  job.pc \in {"collect", "install"} =>
    config = job.before.config /\ strays = job.before.strays

Validated ==
  job.pc \in {"write", "rebuild"} => <<job.effective, Loaded>> \in Accepted

IInv == TypeOK /\ Backed /\ OthersUntouched /\ TextsKept /\ ConfigKept
          /\ Validated /\ RowsAccepted

-----------------------------------------------------------------------------
(* The operators stay within their types.                                  *)

LEMMA WholeType == \A c \in Configs \cup {Torn} : Whole(c) \in Configurations
BY DEF Whole, Configurations

LEMMA PartInstallType ==
  ASSUME config \in Configurations, strays \subseteq Strays,
         NEW new \in Configurations, PartInstall(new)
  PROVE  config' \in Configurations /\ strays' \subseteq Strays
<1>1. PICK at \in Parts : \E x \in {config[at], Torn} :
        config' = [p \in Parts |-> IF p < at THEN new[p]
                                   ELSE IF p = at THEN x ELSE config[p]]
  BY DEF PartInstall
<1>2. PICK x \in {config[at], Torn} :
        config' = [p \in Parts |-> IF p < at THEN new[p]
                                   ELSE IF p = at THEN x ELSE config[p]]
  BY <1>1
<1>3. x \in Configs \cup {Torn}
  BY DEF Configurations
<1>4. config' \in Configurations
  BY <1>2, <1>3 DEF Configurations
<1>5. strays' \subseteq Strays
  BY DEF PartInstall
<1> QED BY <1>4, <1>5

LEMMA NoCache == {} \in Caches
BY DEF Caches

LEMMA NoJobType == NoJob \in Jobs /\ NoBackup \in Backups /\ NoJob.pc = "idle"
                     /\ NoJob.backup = NoBackup
<1>1. Absent \in Files
  BY DEF Files
<1>2. NoMonths \in Views /\ NoMonths \in [Months -> Contents \cup {Absent}]
  BY <1>1 DEF NoMonths, Views
<1>3. NoBackup.texts \in TextRoots /\ NoBackup.config \in Configurations
      /\ NoBackup \in Backups
  BY <1>1, WholeType DEF NoBackup, TextRoots, Backups
<1> QED BY <1>2, <1>3, NoCache, WholeType DEF NoJob, Jobs, Pcs, Database

\* The operators read the import in progress; this is what is known of it.
LEMMA JobFacts ==
  ASSUME TypeOK, ~At("idle")
  PROVE  /\ Payload \in [Months -> Contents \cup {Absent}]
         /\ job.package.config \in Configs
         /\ Imported \subseteq Months
         /\ job.backup \in Backups /\ job.effective \in Views
         /\ job.before.texts \in TextRoots
         /\ job.before.config \in Configurations
BY DEF TypeOK, Packages, Payload, Imported, Jobs

LEMMA WrittenFacts ==
  ASSUME TypeOK, ~At("idle"), NEW root \in TextRoots, NEW done \in SUBSET Months
  PROVE  /\ Written(root, done) \in TextRoots
         /\ Untouched(root) => Untouched(Written(root, done))
<1>1. Payload \in [Months -> Files]
  BY JobFacts DEF Files
<1>2. Written(root, done) \in TextRoots
  BY <1>1 DEF Written, TextRoots, Places, Files
<1>3. ASSUME Untouched(root) PROVE Untouched(Written(root, done))
  BY <1>3 DEF Untouched, Written, Places
<1> QED BY <1>2, <1>3

LEMMA PartlyWrittenFacts ==
  ASSUME TypeOK, ~At("idle"), NEW root \in PartlyWritten(texts)
  PROVE  root \in TextRoots /\ (Untouched(texts) => Untouched(root))
<1>1. PICK at \in Imported :
        \E x \in {texts[<<at, "canonical">>], Torn, Payload[at]} :
          root = [Written(texts, {m \in Months : m < at})
                    EXCEPT ![<<at, "canonical">>] = x]
  BY ZenonT(30) DEF PartlyWritten
<1>2. PICK x \in {texts[<<at, "canonical">>], Torn, Payload[at]} :
          root = [Written(texts, {m \in Months : m < at})
                    EXCEPT ![<<at, "canonical">>] = x]
  BY <1>1
<1> DEFINE base == Written(texts, {m \in Months : m < at})
<1>3. at \in Months /\ <<at, "canonical">> \in Months \X Places /\ x \in Files
  BY JobFacts DEF TypeOK, TextRoots, Places, Files
<1>4. base \in TextRoots /\ (Untouched(texts) => Untouched(base))
  BY WrittenFacts DEF TypeOK
<1> HIDE DEF base
<1>5. root = [base EXCEPT ![<<at, "canonical">>] = x]
  BY <1>2 DEF base
<1>6. root \in TextRoots
  BY <1>3, <1>4, <1>5 DEF TextRoots
<1>7. ASSUME Untouched(base) PROVE Untouched(root)
  <2> SUFFICES ASSUME NEW mp \in Months \X Places
               PROVE  \/ root[mp] = job.before.texts[mp]
                      \/ mp[1] \in Imported
                           /\ (mp[2] = "canonical" \/ root[mp] = Absent)
    BY DEF Untouched
  <2>1. CASE mp = <<at, "canonical">>
    BY <2>1
  <2>2. CASE mp # <<at, "canonical">>
    BY <1>4, <1>5, <1>7, <2>2 DEF Untouched, TextRoots
  <2> QED BY <2>1, <2>2
<1> QED BY <1>4, <1>6, <1>7

LEMMA RestoredFacts ==
  ASSUME TypeOK, ~At("idle"), Backed, ~At("collect"), Untouched(texts),
         NEW gone \in SUBSET Months, NEW back \in SUBSET (Months \X Places)
  PROVE  Restored(texts, gone, back) \in TextRoots
           /\ Untouched(Restored(texts, gone, back))
<1>1. job.backup.texts \in TextRoots
  BY JobFacts DEF Backups
<1>2. Restored(texts, gone, back) \in TextRoots
  BY <1>1 DEF Restored, TextRoots, TypeOK, Files
<1>3. \A mp \in Months \X Places :
        job.backup.texts[mp] # Absent =>
          mp[1] \in Imported /\ job.backup.texts[mp] = job.before.texts[mp]
  BY DEF Backed, At, BackupManagedTextFiles
<1>4. Untouched(Restored(texts, gone, back))
  BY <1>3 DEF Untouched, Restored, Places
<1> QED BY <1>2, <1>4

LEMMA PartlyRestoredFacts ==
  ASSUME TypeOK, ~At("idle"), Backed, ~At("collect"), Untouched(texts),
         NEW root \in PartlyRestored(texts)
  PROVE  /\ root \in TextRoots
         /\ \A mp \in Months \X Places :
              mp[1] \notin Imported => root[mp] = job.before.texts[mp]
<1>1. CASE root \in {Restored(texts, {m \in Months : m < at}, {}) : at \in Imported}
  <2>1. PICK at \in Imported :
          root = Restored(texts, {m \in Months : m < at}, {})
    BY <1>1
  <2>2. {m \in Months : m < at} \in SUBSET Months
          /\ {} \in SUBSET (Months \X Places)
    OBVIOUS
  <2>3. root \in TextRoots /\ Untouched(root)
    BY <2>1, <2>2, RestoredFacts
  <2> QED BY <2>3 DEF Untouched
<1>2. CASE \E back \in SUBSET (Imported \X Places),
              mp \in {q \in Months \X Places : job.backup.texts[q] # Absent} :
              \E x \in {Torn, Restored(texts, Months, back)[mp]} :
                root = [Restored(texts, Months, back) EXCEPT ![mp] = x]
  <2>1. PICK back \in SUBSET (Imported \X Places),
              mp \in {q \in Months \X Places : job.backup.texts[q] # Absent} :
              \E x \in {Torn, Restored(texts, Months, back)[mp]} :
                root = [Restored(texts, Months, back) EXCEPT ![mp] = x]
    BY <1>2
  <2>2. PICK x \in {Torn, Restored(texts, Months, back)[mp]} :
                root = [Restored(texts, Months, back) EXCEPT ![mp] = x]
    BY <2>1
  <2> DEFINE base == Restored(texts, Months, back)
  <2>3. back \in SUBSET (Months \X Places)
    BY JobFacts
  <2>4. base \in TextRoots /\ Untouched(base)
    BY <2>3, RestoredFacts
  <2> HIDE DEF base
  <2>5. root = [base EXCEPT ![mp] = x] /\ x \in {Torn, base[mp]}
    BY <2>2 DEF base
  <2>6. mp \in Months \X Places /\ mp[1] \in Imported
    BY DEF Backed, At, BackupManagedTextFiles
  <2>7. root \in TextRoots
    BY <2>4, <2>5, <2>6 DEF TextRoots, Files
  <2>8. ASSUME NEW q \in Months \X Places, q[1] \notin Imported
        PROVE  root[q] = job.before.texts[q]
    <3>1. root[q] = base[q]
      BY <2>4, <2>5, <2>6, <2>8 DEF TextRoots
    <3> QED BY <2>4, <2>8, <3>1 DEF Untouched
  <2> QED BY <2>7, <2>8
<1>3. root \in PartlyCopied(texts) =>
         \E back \in SUBSET (Imported \X Places),
              mp \in {q \in Months \X Places : job.backup.texts[q] # Absent} :
              \E x \in {Torn, Restored(texts, Months, back)[mp]} :
                root = [Restored(texts, Months, back) EXCEPT ![mp] = x]
  BY DEF PartlyCopied
<1> QED BY <1>1, <1>2, <1>3 DEF PartlyRestored, PartlyRemoved

\* After a whole restore the root is the one the import found.
LEMMA RestoredIsBefore ==
  ASSUME TypeOK, ~At("idle"), Backed, ~At("collect"), Untouched(texts)
  PROVE  Restored(texts, Months, Months \X Places) = job.before.texts
<1> DEFINE root == Restored(texts, Months, Months \X Places)
<1>1. root \in TextRoots /\ job.before.texts \in TextRoots
  BY RestoredFacts, JobFacts
<1>2. ASSUME NEW mp \in Months \X Places PROVE root[mp] = job.before.texts[mp]
  <2>1. job.backup.texts[mp] =
          IF mp[1] \in Imported THEN job.before.texts[mp] ELSE Absent
    BY DEF Backed, At, BackupManagedTextFiles
  <2>2. mp[1] \in Months /\ mp[2] \in {"canonical", "legacy"}
    BY DEF Places
  <2>3. root[mp] = IF job.backup.texts[mp] # Absent THEN job.backup.texts[mp]
                   ELSE IF mp[1] \in Imported /\ mp[2] = "canonical"
                   THEN Absent ELSE texts[mp]
    BY <2>2 DEF Restored
  <2>4. \/ texts[mp] = job.before.texts[mp]
        \/ mp[1] \in Imported /\ (mp[2] = "canonical" \/ texts[mp] = Absent)
    BY DEF Untouched
  <2> HIDE DEF root
  <2> QED BY <2>1, <2>2, <2>3, <2>4
<1> HIDE DEF root
<1>3. root = job.before.texts
  BY <1>1, <1>2 DEF TextRoots
<1> QED BY <1>3 DEF root

-----------------------------------------------------------------------------
(* Every step of an import either goes on to another phase or ends it.     *)

LEMMA GoOn ==
  ASSUME IInv, ~At("idle"), ~At("collect"),
         NEW pc \in Pcs \ {"idle", "collect", "install"}, Goto(pc),
         texts' \in TextRoots, Untouched(texts'),
         config' \in Configurations, strays' \subseteq Strays,
         cached' \in Caches, rows' \in Database, stamps' \in Views,
         retained' = retained, answer' = answer, calls' = calls,
         pc \in {"validate", "write", "restoreConfig"} =>
           texts' = job.before.texts,
         pc \in {"write", "rebuild"} => <<job.effective, Loaded'>> \in Accepted,
         <<rows'.view, rows'.config>> \in Accepted
  PROVE  IInv'
<1>1. job \in Jobs /\ job.package \in Packages /\ Imported # {}
  BY DEF IInv, TypeOK
<1>2. /\ job' \in Jobs /\ job'.pc = pc /\ job'.package = job.package
      /\ job'.effective = job.effective /\ job'.backup = job.backup
      /\ job'.before = job.before
  BY <1>1 DEF Goto, Jobs
<1>3. Imported' = Imported /\ Payload' = Payload
  BY <1>2 DEF Imported, Payload
<1>4. TypeOK'
  BY <1>1, <1>2, <1>3 DEF TypeOK, IInv, Caches, At
<1>5. Backed'
  BY <1>2, <1>3 DEF IInv, Backed, At, BackupManagedTextFiles
<1>6. OthersUntouched'
  BY <1>2, <1>3 DEF OthersUntouched, Untouched
<1>7. TextsKept' /\ ConfigKept'
  BY <1>2 DEF TextsKept, ConfigKept
<1>8. Validated' /\ RowsAccepted'
  BY <1>2 DEF Validated, RowsAccepted
<1> QED BY <1>4, <1>5, <1>6, <1>7, <1>8 DEF IInv

LEMMA EndStep ==
  ASSUME IInv, job' = NoJob, texts' \in TextRoots, config' \in Configurations,
         strays' \subseteq Strays, cached' \in Caches, rows' = rows, stamps' = stamps,
         retained' \in Backups, answer' \in Answers, calls' = calls
  PROVE  IInv'
<1>1. job' \in Jobs /\ job'.pc = "idle"
  BY NoJobType
<1>2. TypeOK'
  BY <1>1 DEF IInv, TypeOK, At, Caches
<1> QED BY <1>1, <1>2 DEF IInv, Backed, OthersUntouched, TextsKept,
          ConfigKept, Validated, RowsAccepted, At

\* What holds of the state a step of an import starts from.
LEMMA Before ==
  ASSUME IInv, ~At("idle")
  PROVE  /\ TypeOK /\ Backed /\ Untouched(texts)
         /\ texts \in TextRoots /\ config \in Configurations
         /\ strays \subseteq Strays
         /\ cached \in Caches /\ rows \in Database /\ stamps \in Views
         /\ Loaded \in Configurations
         /\ <<rows.view, rows.config>> \in Accepted
<1>1. cached \in Caches /\ config \in Configurations
  BY DEF IInv, TypeOK, Caches
<1>2. Loaded \in Configurations
  <2>1. CASE cached = {}
    BY <1>1, <2>1 DEF Loaded
  <2>2. CASE cached # {}
    <3>1. PICK c \in Configurations : cached = {c}
      BY <1>1, <2>2 DEF Caches
    <3>2. (CHOOSE x \in cached : TRUE) = c
      BY <3>1
    <3> QED BY <2>2, <3>1, <3>2 DEF Loaded
  <2> QED BY <2>1, <2>2
<1> QED BY <1>1, <1>2 DEF IInv, TypeOK, OthersUntouched, RowsAccepted

LEMMA InitIInv == Init => IInv
<1> SUFFICES ASSUME Init PROVE IInv
  OBVIOUS
<1>1. texts \in TextRoots
  BY DEF Init, TextRoots, Files
<1>2. config \in Configurations
  BY WholeType DEF Init
<1>3. ViewOf(texts) \in Views
  <2>1. \A m \in Months : <<m, "canonical">> \in Months \X Places
                            /\ <<m, "legacy">> \in Months \X Places
    BY DEF Places
  <2> QED BY <1>1, <2>1 DEF ViewOf, Views, TextRoots
<1>4. TypeOK
  BY <1>1, <1>2, <1>3, NoCache, NoJobType, BoundAssumption
     DEF Init, TypeOK, Database, At, Answers
<1>5. RowsAccepted
  BY DEF Init, RowsAccepted
<1>6. Backed /\ OthersUntouched /\ TextsKept /\ ConfigKept /\ Validated
  BY NoJobType DEF Init, Backed, OthersUntouched, TextsKept, ConfigKept,
     Validated, At
<1> QED BY <1>4, <1>5, <1>6 DEF IInv

LEMMA BeginIInv ==
  ASSUME IInv, NEW package \in Packages, Begin(package) PROVE IInv'
<1>1. /\ texts \in TextRoots /\ config \in Configurations
      /\ strays \in SUBSET Strays /\ cached \in Caches /\ rows \in Database
  BY DEF IInv, TypeOK
<1>2. /\ job' \in Jobs /\ job'.pc = "collect" /\ job'.package = package
      /\ job'.before.texts = texts /\ job'.before.config = config
      /\ job'.before.strays = strays
  BY <1>1, NoJobType DEF Begin, Jobs, Packages, Pcs
<1>3. Imported' # {}
  BY <1>2 DEF Imported, Payload, Packages
<1>4. TypeOK'
  BY <1>2, <1>3, NoJobType, BoundAssumption
     DEF Begin, IInv, TypeOK, stores, Answers
<1>5. texts' = texts /\ config' = config /\ strays' = strays /\ rows' = rows
  BY DEF Begin, stores
<1> QED BY <1>2, <1>4, <1>5 DEF IInv, Backed, OthersUntouched, Untouched,
          TextsKept, ConfigKept, Validated, RowsAccepted

LEMMA PrepareIInv == ASSUME IInv, Prepare PROVE IInv'
<1>0. ~At("idle") /\ At("collect")
  BY DEF Prepare, At
<1>1. job \in Jobs /\ job.package \in Packages /\ Imported # {}
  BY <1>0 DEF IInv, TypeOK
<1>2. BackupManagedTextFiles(texts) \in TextRoots
  BY <1>0, Before DEF BackupManagedTextFiles, TextRoots, Files
<1>3. EffectiveView(texts) \in Views
  <2>1. \A m \in Months : <<m, "canonical">> \in Months \X Places
                            /\ <<m, "legacy">> \in Months \X Places
    BY DEF Places
  <2>2. \A m \in Months : ViewOf(texts)[m] \in Files
    BY <1>0, <2>1, Before DEF ViewOf, TextRoots
  <2> QED BY <1>0, <2>2, JobFacts DEF EffectiveView, Views, Files, IInv
<1> DEFINE backup == [texts |-> BackupManagedTextFiles(texts),
                      config |-> config]
<1>4. backup \in Backups /\ backup.texts = BackupManagedTextFiles(texts)
        /\ backup.config = config
  BY <1>0, <1>2, Before DEF Backups
<1>5. job' = [job EXCEPT !.pc = "install", !.effective = EffectiveView(texts),
                         !.backup = backup]
  BY DEF Prepare
<1> HIDE DEF backup
<1>6. /\ job' \in Jobs /\ job'.pc = "install" /\ job'.package = job.package
      /\ job'.backup = backup /\ job'.before = job.before
  BY <1>1, <1>3, <1>4, <1>5 DEF Jobs, Pcs
<1>7. Imported' = Imported /\ UNCHANGED <<stores, retained, answer, calls>>
  BY <1>6 DEF Imported, Payload, Prepare
<1>8. TypeOK'
  BY <1>1, <1>6, <1>7 DEF IInv, TypeOK, stores
<1>9. /\ texts = job.before.texts /\ config = job.before.config
      /\ strays = job.before.strays
  BY <1>0 DEF IInv, TextsKept, ConfigKept, At
<1>10. Backed'
  BY <1>4, <1>6, <1>7, <1>9 DEF Backed, BackupManagedTextFiles
<1> QED BY <1>6, <1>7, <1>8, <1>9, <1>10 DEF IInv, OthersUntouched,
          Untouched, TextsKept, ConfigKept, Validated, RowsAccepted, stores

LEMMA ConfigStepIInv ==
  ASSUME IInv, Install \/ InstallFailure PROVE IInv'
<1>0. ~At("idle") /\ ~At("collect") /\ job.pc = "install"
  BY DEF Install, InstallFailure, At
<1>1. Whole(job.package.config) \in Configurations
  BY <1>0, Before, JobFacts, WholeType
<1>2. texts' = texts /\ rows' = rows /\ stamps' = stamps /\ retained' = retained
        /\ answer' = answer /\ calls' = calls
  BY DEF Install, InstallFailure
<1>3. texts = job.before.texts
  BY <1>0 DEF IInv, TextsKept
<1>4. /\ config' \in Configurations /\ strays' \subseteq Strays
      /\ cached' \in Caches
  BY <1>0, <1>1, Before, PartInstallType DEF Install, InstallFailure, Caches
<1>5. CASE Goto("validate")
  BY <1>0, <1>2, <1>3, <1>4, <1>5, Before, GoOn DEF Pcs
<1>6. CASE Goto("restoreConfig")
  BY <1>0, <1>2, <1>3, <1>4, <1>6, Before, GoOn DEF Pcs
<1> QED BY <1>5, <1>6 DEF Install, InstallFailure

LEMMA ValidateIInv ==
  ASSUME IInv, Validate \/ Invalid PROVE IInv'
<1>0. ~At("idle") /\ ~At("collect") /\ job.pc = "validate"
  BY DEF Validate, Invalid, At
<1>1. /\ texts' = texts /\ config' = config /\ strays' = strays
      /\ rows' = rows /\ stamps' = stamps /\ retained' = retained /\ answer' = answer
      /\ calls' = calls /\ cached' = {Loaded}
  BY DEF Validate, Invalid
<1>2. cached' \in Caches
  BY <1>0, <1>1, Before DEF Caches
<1>3. Loaded' = Loaded
  BY <1>1 DEF Loaded
<1>4. texts = job.before.texts
  BY <1>0 DEF IInv, TextsKept
<1>5. CASE Validate
  BY <1>0, <1>1, <1>2, <1>3, <1>4, <1>5, Before, GoOn DEF Validate, Pcs
<1>6. CASE Invalid
  BY <1>0, <1>1, <1>2, <1>4, <1>6, Before, GoOn DEF Invalid, Pcs
<1> QED BY <1>5, <1>6

LEMMA TextStepIInv ==
  ASSUME IInv, WriteTexts \/ WriteFailure PROVE IInv'
<1>0. ~At("idle") /\ ~At("collect") /\ job.pc = "write"
  BY DEF WriteTexts, WriteFailure, At
<1>1. /\ config' = config /\ strays' = strays /\ cached' = cached
      /\ rows' = rows /\ stamps' = stamps /\ retained' = retained /\ answer' = answer
      /\ calls' = calls
  BY DEF WriteTexts, WriteFailure
<1>2. Loaded' = Loaded /\ <<job.effective, Loaded>> \in Accepted
  BY <1>0, <1>1 DEF Loaded, IInv, Validated
<1>3. CASE WriteTexts
  <2>1. texts' = Written(texts, Months)
    BY <1>3 DEF WriteTexts
  <2>2. texts' \in TextRoots /\ Untouched(texts')
    BY <1>0, <2>1, Before, WrittenFacts
  <2> QED BY <1>0, <1>1, <1>2, <1>3, <2>2, Before, GoOn DEF WriteTexts, Pcs
<1>4. CASE WriteFailure
  <2>1. texts' \in TextRoots /\ Untouched(texts')
    BY <1>0, <1>4, Before, PartlyWrittenFacts DEF WriteFailure
  <2> QED BY <1>0, <1>1, <1>4, <2>1, Before, GoOn DEF WriteFailure, Pcs
<1> QED BY <1>3, <1>4

LEMMA DatabaseStepIInv ==
  ASSUME IInv, Rebuild \/ RebuildFailure \/ Sync \/ SyncFailure PROVE IInv'
<1>0. ~At("idle") /\ ~At("collect")
  BY DEF Rebuild, RebuildFailure, Sync, SyncFailure, At
<1>1. /\ texts' = texts /\ config' = config /\ strays' = strays
      /\ cached' = cached
      /\ retained' = retained /\ answer' = answer /\ calls' = calls
  BY DEF Rebuild, RebuildFailure, Sync, SyncFailure, stores
<1>2. job.effective \in Views
  BY <1>0, Before, JobFacts
<1>3. CASE Rebuild
  <2>1. <<job.effective, Loaded>> \in Accepted
    BY <1>3 DEF Rebuild, IInv, Validated, At
  <2>2. rows' \in Database /\ rows'.view = job.effective
          /\ rows'.config = Loaded
    BY <1>0, <1>2, <1>3, Before DEF Rebuild, Database
  <2> QED BY <1>0, <1>1, <1>3, <2>1, <2>2, Before, GoOn DEF Rebuild, Pcs
<1>4. CASE Sync
  BY <1>0, <1>1, <1>2, <1>4, Before, GoOn DEF Sync, Pcs
<1>5. CASE RebuildFailure \/ SyncFailure
  <2>1. rows' = rows /\ stamps' = stamps /\ Goto("restoreTexts")
    BY <1>5 DEF RebuildFailure, SyncFailure, stores
  <2> QED BY <1>0, <1>1, <2>1, Before, GoOn DEF Pcs
<1> QED BY <1>3, <1>4, <1>5

LEMMA CancelIInv == ASSUME IInv, Cancel PROVE IInv'
<1>0. ~At("idle") /\ ~At("collect")
  BY DEF Cancel, At
<1>1. /\ texts' = texts /\ config' = config /\ strays' = strays
      /\ cached' = cached
      /\ rows' = rows /\ stamps' = stamps /\ calls' = calls
  BY DEF Cancel, stores
<1>2. CASE At("install") /\ Fail("failed")
  BY <1>0, <1>1, <1>2, Before, JobFacts, EndStep DEF Fail, Answers
<1>3. CASE At("validate") /\ Goto("restoreConfig") /\ UNCHANGED <<retained, answer>>
  <2>1. texts = job.before.texts
    BY <1>3 DEF IInv, TextsKept, At
  <2> QED BY <1>0, <1>1, <1>3, <2>1, Before, GoOn DEF Pcs
<1>4. CASE At("write") /\ Goto("restoreConfig") /\ UNCHANGED <<retained, answer>>
  <2>1. texts = job.before.texts
    BY <1>4 DEF IInv, TextsKept, At
  <2> QED BY <1>0, <1>1, <1>4, <2>1, Before, GoOn DEF Pcs
<1>5. CASE Goto("restoreTexts") /\ UNCHANGED <<retained, answer>>
  BY <1>0, <1>1, <1>5, Before, GoOn DEF Pcs
<1> QED BY <1>2, <1>3, <1>4, <1>5 DEF Cancel

LEMMA RestoreTextsIInv ==
  ASSUME IInv, RestoreTexts \/ RestoreTextsFailure PROVE IInv'
<1>0. ~At("idle") /\ ~At("collect")
  BY DEF RestoreTexts, RestoreTextsFailure, At
<1>1. /\ config' = config /\ strays' = strays /\ cached' = cached
      /\ rows' = rows /\ stamps' = stamps /\ calls' = calls
  BY DEF RestoreTexts, RestoreTextsFailure
<1>2. CASE RestoreTexts
  <2>1. texts' = job.before.texts
    BY <1>0, <1>2, Before, RestoredIsBefore DEF RestoreTexts
  <2>2. texts' \in TextRoots /\ Untouched(texts')
    BY <1>0, <2>1, Before, JobFacts DEF Untouched
  <2> QED BY <1>0, <1>1, <1>2, <2>1, <2>2, Before, GoOn DEF RestoreTexts, Pcs
<1>3. CASE RestoreTextsFailure
  BY <1>0, <1>1, <1>3, Before, PartlyRestoredFacts, JobFacts, EndStep
     DEF RestoreTextsFailure, Fail, Answers
<1> QED BY <1>2, <1>3

LEMMA RestoreConfigIInv ==
  ASSUME IInv, RestoreConfig \/ RestoreConfigFailure PROVE IInv'
<1>0. ~At("idle")
  BY DEF RestoreConfig, RestoreConfigFailure, At
<1>1. job.backup \in Backups /\ job.backup.config \in Configurations
  BY <1>0, Before, JobFacts DEF Backups
<1>2. CASE RestoreConfig
  BY <1>0, <1>1, <1>2, Before, EndStep DEF RestoreConfig, Fail, Answers, Caches
<1>3. CASE RestoreConfigFailure
  <2>1. config' \in Configurations /\ strays' \subseteq Strays
    BY <1>0, <1>1, <1>3, Before, PartInstallType DEF RestoreConfigFailure
  <2> QED BY <1>0, <1>1, <1>3, <2>1, Before, EndStep
          DEF RestoreConfigFailure, Fail, Answers
<1> QED BY <1>2, <1>3

LEMMA CrashIInv == ASSUME IInv, Crash PROVE IInv'
<1>0. ~At("idle")
  BY DEF Crash
<1>1. job.backup \in Backups /\ job.backup.config \in Configurations
        /\ Whole(job.package.config) \in Configurations
  BY <1>0, Before, JobFacts, WholeType DEF Backups
<1>2. texts' \in TextRoots
  <2>1. CASE At("restoreTexts")
    BY <1>0, <2>1, Before, PartlyRestoredFacts DEF Crash, At
  <2>2. CASE ~At("restoreTexts")
    BY <1>0, <2>2, Before, PartlyWrittenFacts DEF Crash
  <2> QED BY <2>1, <2>2
<1>3. config' \in Configurations /\ strays' \subseteq Strays
  BY <1>0, <1>1, Before, PartInstallType DEF Crash
<1> QED BY <1>1, <1>2, <1>3, EndStep DEF Crash, Caches, Answers

LEMMA OtherIInv ==
  ASSUME IInv, Refuse \/ Finish \/ LoadConfig \/ NewRuntime PROVE IInv'
<1>0. /\ texts \in TextRoots /\ config \in Configurations
      /\ strays \subseteq Strays /\ cached \in Caches /\ retained \in Backups
  BY DEF IInv, TypeOK, Caches
<1>1. CASE Refuse \/ Finish
  BY <1>0, <1>1, EndStep DEF Refuse, Finish, stores, Answers
<1>2. CASE LoadConfig \/ NewRuntime
  <2>1. cached' \in Caches
    BY <1>0, <1>2 DEF LoadConfig, NewRuntime, Caches
  <2>2. /\ texts' = texts /\ config' = config /\ strays' = strays
        /\ rows' = rows /\ stamps' = stamps /\ job' = job /\ retained' = retained
        /\ answer' = answer /\ calls' = calls /\ job.pc = "idle"
    BY <1>2 DEF LoadConfig, NewRuntime, At
  <2>3. TypeOK'
    BY <2>1, <2>2 DEF IInv, TypeOK, Caches, At
  <2> QED BY <2>2, <2>3 DEF IInv, Backed, OthersUntouched, TextsKept,
            ConfigKept, Validated, RowsAccepted, At
<1> QED BY <1>1, <1>2

LEMMA StutterIInv == ASSUME IInv, UNCHANGED vars PROVE IInv'
BY DEF IInv, vars, TypeOK, Backed, OthersUntouched, Untouched, TextsKept,
   ConfigKept, Validated, RowsAccepted, At, Imported, Payload, Loaded,
   BackupManagedTextFiles

THEOREM IInvHolds == Spec => []IInv
<1>1. ASSUME IInv, [Next]_vars PROVE IInv'
  <2>1. ASSUME Next PROVE IInv'
    BY <1>1, <2>1, BeginIInv, PrepareIInv, ConfigStepIInv, ValidateIInv,
       TextStepIInv, DatabaseStepIInv, CancelIInv, RestoreTextsIInv,
       RestoreConfigIInv, CrashIInv, OtherIInv DEF Next
  <2> QED BY <1>1, <2>1, StutterIInv
<1> QED BY <1>1, InitIInv, PTL DEF Spec

-----------------------------------------------------------------------------
(* The theorems.                                                           *)

\* The variables of an import keep their types.
THEOREM TypeCorrect == Spec => []TypeOK
<1>1. IInv => TypeOK
  BY DEF IInv
<1> QED BY <1>1, IInvHolds, PTL

\* The database is only ever built from what the validations accept.
THEOREM DatabaseAlwaysAccepted == Spec => []RowsAccepted
<1>1. IInv => RowsAccepted
  BY DEF IInv
<1> QED BY <1>1, IInvHolds, PTL

\* The ways an import ends.
Ends ==
  \/ Refuse \/ Finish \/ RestoreTextsFailure \/ RestoreConfig
  \/ RestoreConfigFailure \/ Crash
  \/ At("install") /\ Cancel /\ Fail("failed")

LEMMA OnlyEnds ==
  ASSUME IInv, Next, ~At("idle"), job'.pc = "idle" PROVE Ends
<1>1. job \in Jobs
  BY DEF IInv, TypeOK
<1>2. \A pc : Goto(pc) => job'.pc = pc
  BY <1>1 DEF Goto, Jobs
<1>3. ~Prepare
  BY <1>1 DEF Prepare, Jobs
<1>4. /\ ~Install /\ ~InstallFailure /\ ~Validate /\ ~Invalid /\ ~WriteTexts
      /\ ~WriteFailure /\ ~Rebuild /\ ~RebuildFailure /\ ~Sync
      /\ ~SyncFailure /\ ~RestoreTexts
  BY <1>2 DEF Install, InstallFailure, Validate, Invalid, WriteTexts,
     WriteFailure, Rebuild, RebuildFailure, Sync, SyncFailure, RestoreTexts
<1>5. Cancel => At("install") /\ Fail("failed")
  BY <1>2 DEF Cancel
<1>6. ~LoadConfig /\ ~NewRuntime /\ \A package : ~Begin(package)
  BY DEF LoadConfig, NewRuntime, Begin
<1> QED BY <1>3, <1>4, <1>5, <1>6 DEF Next, Ends

\* A failure that reports no failed rollback has put back every TXT and all of
\* the converter config that its alias index names, whatever phase failed; the
\* files it does not name are all there, or all gone.
THEOREM FailureAlwaysRestores == Spec => FailureRestores
<1> DEFINE Kept == (~At("idle") /\ job'.pc = "idle" /\ answer' = "failed")
                     => /\ texts' = job.before.texts
                        /\ config' = job.before.config
                        /\ strays' \in {{}, job.before.strays}
<1>1. IInv /\ [Next]_vars => [Kept]_vars
  <2> SUFFICES ASSUME IInv, Next, ~At("idle"), job'.pc = "idle",
                      answer' = "failed"
               PROVE  /\ texts' = job.before.texts
                      /\ config' = job.before.config
                      /\ strays' \in {{}, job.before.strays}
    OBVIOUS
  <2>1. Refuse \/ RestoreConfig \/ (At("install") /\ Cancel)
    BY OnlyEnds DEF Ends, Finish, RestoreTextsFailure, RestoreConfigFailure,
       Crash, Fail
  <2>2. CASE Refuse
    BY <2>2 DEF Refuse, stores, IInv, TextsKept, ConfigKept, At
  <2>3. CASE RestoreConfig
    BY <2>3 DEF RestoreConfig, IInv, TextsKept, Backed, At
  <2>4. CASE At("install") /\ Cancel
    BY <2>4 DEF Cancel, stores, IInv, TextsKept, ConfigKept, At
  <2> QED BY <2>1, <2>2, <2>3, <2>4
<1> QED BY <1>1, IInvHolds, PTL DEF Spec, FailureRestores

\* However an import ends, short of success, every TXT and every part of the
\* config it found is in place or in the transaction directory it leaves.
THEOREM OldFilesAlwaysSurvive == Spec => OldFilesSurvive
<1> DEFINE Kept ==
      (~At("idle") /\ job'.pc = "idle" /\ answer' # "ok")
       => /\ \A mp \in Months \X Places :
               job.before.texts[mp] \in
                 {Absent, texts'[mp], retained'.texts[mp]}
          /\ \A p \in Parts :
               job.before.config[p] \in {config'[p], retained'.config[p]}
<1>1. IInv /\ [Next]_vars => [Kept]_vars
  <2> SUFFICES ASSUME IInv, Next, ~At("idle"), job'.pc = "idle", answer' # "ok"
               PROVE  /\ \A mp \in Months \X Places :
                           job.before.texts[mp] \in
                             {Absent, texts'[mp], retained'.texts[mp]}
                      /\ \A p \in Parts : job.before.config[p] \in
                                            {config'[p], retained'.config[p]}
    OBVIOUS
  <2>1. Ends /\ ~Finish
    BY OnlyEnds DEF Finish
  <2>2. CASE Refuse \/ (Crash /\ At("collect"))
    <3>1. texts = job.before.texts /\ config = job.before.config
      BY <2>2 DEF Refuse, IInv, TextsKept, ConfigKept, At
    <3>2. texts' = texts /\ config' = config
      BY <2>2 DEF Refuse, Crash, stores, At
    <3> QED BY <3>1, <3>2
  <2>3. CASE ~Refuse /\ ~(Crash /\ At("collect"))
    <3>1. ~At("collect") /\ retained' = job.backup
      BY <2>1, <2>3 DEF Ends, RestoreTextsFailure, RestoreConfig,
         RestoreConfigFailure, Crash, Fail, At
    <3>2. /\ job.backup.texts = BackupManagedTextFiles(job.before.texts)
          /\ job.backup.config = job.before.config
      BY <3>1 DEF IInv, Backed, At
    <3>3. \A mp \in Months \X Places :
            mp[1] \notin Imported => texts'[mp] = job.before.texts[mp]
      <4>1. CASE texts' = texts
        BY <4>1, Before DEF Untouched
      <4>2. CASE texts' \in PartlyRestored(texts)
        BY <3>1, <4>2, Before, PartlyRestoredFacts
      <4>3. CASE texts' \in PartlyWritten(texts)
        BY <4>3, Before, PartlyWrittenFacts DEF Untouched
      <4> QED BY <2>1, <2>3, <4>1, <4>2, <4>3 DEF Ends, RestoreTextsFailure,
                RestoreConfig, RestoreConfigFailure, Crash, Cancel, stores
    <3>4. \A mp \in Months \X Places :
            mp[1] \in Imported => retained'.texts[mp] = job.before.texts[mp]
      BY <3>1, <3>2 DEF BackupManagedTextFiles
    <3> QED BY <3>1, <3>2, <3>3, <3>4
  <2> QED BY <2>2, <2>3
<1> QED BY <1>1, IInvHolds, PTL DEF Spec, OldFilesSurvive
-----------------------------------------------------------------------------
(* What the import has made so far: the view it installs is the package's  *)
(* months over those found, the provider reads the package's config from   *)
(* its installation on, and each store follows in its phase.               *)

ViewKept ==
  job.pc \in {"install", "validate", "write", "rebuild", "sync", "cleanup"} =>
    job.effective = EffectiveView(job.before.texts)

ConfigInstalled ==
  job.pc \in {"validate", "write", "rebuild", "sync", "cleanup"} =>
    config = Whole(job.package.config) /\ cached \subseteq {config}

TextsWritten ==
  job.pc \in {"rebuild", "sync", "cleanup"} =>
    texts = Written(job.before.texts, Months)

RowsBuilt ==
  job.pc \in {"sync", "cleanup"} =>
    rows = [view |-> job.effective, config |-> config]

StampsWritten == At("cleanup") => stamps = job.effective

Phases == IInv /\ ViewKept /\ ConfigInstalled /\ TextsWritten /\ RowsBuilt
            /\ StampsWritten

LEMMA LoadedIsActive ==
  ASSUME cached \subseteq {config} PROVE Loaded = config
<1>1. CASE cached = {}
  BY <1>1 DEF Loaded
<1>2. CASE cached = {config}
  <2>1. \A x \in cached : x = config
    BY <1>2
  <2> QED BY <1>2, <2>1 DEF Loaded
<1> QED BY <1>1, <1>2

\* What was written is the view that was validated.
LEMMA WrittenIsEffective ==
  ASSUME TypeOK, ~At("idle"), NEW root \in TextRoots
  PROVE  ViewOf(Written(root, Months)) = EffectiveView(root)
<1>1. ASSUME NEW m \in Months
      PROVE  LET view == ViewOf(Written(root, Months))
             IN  view[m] = EffectiveView(root)[m]
  <2>1. /\ <<m, "canonical">> \in Months \X Places
        /\ <<m, "legacy">> \in Months \X Places
    BY DEF Places
  <2>2. CASE m \in Imported
    <3>1. Payload[m] # Absent
      BY <2>2 DEF Imported
    <3>2. Written(root, Months)[<<m, "canonical">>] = Payload[m]
      BY <2>1, <2>2 DEF Written
    <3> QED BY <2>2, <3>1, <3>2 DEF ViewOf, EffectiveView
  <2>3. CASE m \notin Imported
    <3>1. /\ Written(root, Months)[<<m, "canonical">>] = root[<<m, "canonical">>]
          /\ Written(root, Months)[<<m, "legacy">>] = root[<<m, "legacy">>]
      BY <2>1, <2>3 DEF Written
    <3> QED BY <2>3, <3>1 DEF ViewOf, EffectiveView
  <2> QED BY <2>2, <2>3
<1> QED BY <1>1 DEF ViewOf, EffectiveView

LEMMA PhasesInit == Init => Phases
BY InitIInv, NoJobType
   DEF Init, Phases, ViewKept, ConfigInstalled, TextsWritten, RowsBuilt,
       StampsWritten, At

\* A step that goes on keeps the package and what was found.
LEMMA SameImport ==
  ASSUME TypeOK, ~At("idle"), NEW pc \in Pcs, Goto(pc)
  PROVE  /\ job'.pc = pc /\ job'.package = job.package
         /\ job'.before = job.before /\ job'.effective = job.effective
         /\ EffectiveView(job.before.texts)' = EffectiveView(job.before.texts)
         /\ Written(job.before.texts, Months)'
              = Written(job.before.texts, Months)
<1>1. job \in Jobs
  BY DEF TypeOK
<1>2. /\ job'.pc = pc /\ job'.package = job.package
      /\ job'.before = job.before /\ job'.effective = job.effective
  BY <1>1 DEF Goto, Jobs
<1> QED BY <1>2 DEF EffectiveView, Written, Imported, Payload

\* Nothing is claimed of an import that is given up or only begins.
Claimless == {"idle", "collect", "restoreTexts", "restoreConfig"}

LEMMA PhasesClaimless ==
  ASSUME IInv', job'.pc \in Claimless PROVE Phases'
BY DEF Phases, ViewKept, ConfigInstalled, TextsWritten, RowsBuilt,
       StampsWritten, At, Claimless

LEMMA PhasesNext ==
  ASSUME Phases, IInv', [Next]_vars PROVE Phases'
<1> USE DEF Phases
<1>0. TypeOK /\ IInv
  BY DEF IInv
<1>1. CASE UNCHANGED vars \/ LoadConfig \/ NewRuntime
  <2>1. CASE UNCHANGED vars
    BY <2>1 DEF vars, ViewKept, ConfigInstalled, TextsWritten, RowsBuilt,
                StampsWritten, At, EffectiveView, Written, Imported, Payload
  <2>2. CASE LoadConfig \/ NewRuntime
    BY <2>2, PhasesClaimless DEF LoadConfig, NewRuntime, At, Claimless
  <2> QED BY <1>1, <2>1, <2>2
<1>2. ASSUME NEW package \in Packages, Begin(package) PROVE Phases'
  BY <1>2, PhasesClaimless, NoJobType DEF Begin, Jobs, Claimless
<1>3. CASE Ends
  BY <1>3, PhasesClaimless, NoJobType
     DEF Ends, Refuse, Finish, RestoreTextsFailure, RestoreConfig,
         RestoreConfigFailure, Crash, Fail, Claimless
<1>4. CASE Prepare
  <2>1. job \in Jobs /\ At("collect")
    BY <1>0, <1>4 DEF TypeOK, Prepare
  <2>2. /\ job'.pc = "install" /\ job'.package = job.package
        /\ job'.before = job.before /\ job'.effective = EffectiveView(texts)
    BY <1>4, <2>1 DEF Prepare, Jobs
  <2>3. EffectiveView(job.before.texts)' = EffectiveView(job.before.texts)
    BY <2>2 DEF EffectiveView, Imported, Payload
  <2>4. texts = job.before.texts
    BY <1>0, <2>1 DEF IInv, TextsKept, At
  <2> QED BY <2>2, <2>3, <2>4 DEF ViewKept, ConfigInstalled, TextsWritten,
                                  RowsBuilt, StampsWritten, At
<1>5. ASSUME NEW pc \in {"restoreTexts", "restoreConfig"}, Goto(pc),
             ~At("idle")
      PROVE  Phases'
  BY <1>0, <1>5, SameImport, PhasesClaimless DEF Pcs, Claimless
<1>6. CASE Install
  <2>1. ~At("idle") /\ Goto("validate") /\ job.pc = "install"
    BY <1>6 DEF Install, At
  <2>2. config' = Whole(job.package.config) /\ cached' = {}
    BY <1>6 DEF Install
  <2> QED BY <1>0, <2>1, <2>2, SameImport
          DEF Pcs, ViewKept, ConfigInstalled, TextsWritten, RowsBuilt,
              StampsWritten, At
<1>7. CASE Validate
  <2>1. ~At("idle") /\ Goto("write") /\ job.pc = "validate"
    BY <1>7 DEF Validate, At
  <2>2. config' = config /\ cached' = {config}
    BY <1>7, <2>1, LoadedIsActive DEF Validate, ConfigInstalled
  <2> QED BY <1>0, <2>1, <2>2, SameImport
          DEF Pcs, ViewKept, ConfigInstalled, TextsWritten, RowsBuilt,
              StampsWritten, At
<1>8. CASE WriteTexts
  <2>1. ~At("idle") /\ Goto("rebuild") /\ job.pc = "write"
    BY <1>8 DEF WriteTexts, At
  <2>2. /\ config' = config /\ cached' = cached
        /\ texts' = Written(texts, Months)
    BY <1>8 DEF WriteTexts
  <2>3. texts = job.before.texts
    BY <1>0, <2>1 DEF IInv, TextsKept
  <2> QED BY <1>0, <2>1, <2>2, <2>3, SameImport
          DEF Pcs, ViewKept, ConfigInstalled, TextsWritten, RowsBuilt,
              StampsWritten, At
<1>9. CASE Rebuild
  <2>1. ~At("idle") /\ Goto("sync") /\ job.pc = "rebuild"
    BY <1>9 DEF Rebuild, At
  <2>2. /\ config' = config /\ cached' = cached /\ texts' = texts
        /\ rows' = [view |-> job.effective, config |-> config]
    BY <1>9, <2>1, LoadedIsActive DEF Rebuild, ConfigInstalled
  <2> QED BY <1>0, <2>1, <2>2, SameImport
          DEF Pcs, ViewKept, ConfigInstalled, TextsWritten, RowsBuilt,
              StampsWritten, At
<1>10. CASE Sync
  <2>1. ~At("idle") /\ Goto("cleanup") /\ job.pc = "sync"
    BY <1>10 DEF Sync, At
  <2>2. /\ config' = config /\ cached' = cached /\ texts' = texts
        /\ rows' = rows /\ stamps' = job.effective
    BY <1>10 DEF Sync
  <2> QED BY <1>0, <2>1, <2>2, SameImport
          DEF Pcs, ViewKept, ConfigInstalled, TextsWritten, RowsBuilt,
              StampsWritten, At
<1>11. CASE InstallFailure \/ Invalid \/ WriteFailure \/ RebuildFailure
              \/ SyncFailure \/ RestoreTexts
  BY <1>5, <1>11 DEF InstallFailure, Invalid, WriteFailure, RebuildFailure,
                     SyncFailure, RestoreTexts, At
<1>12. CASE Cancel
  BY <1>3, <1>5, <1>12 DEF Cancel, Ends, At
<1> QED BY <1>1, <1>2, <1>3, <1>4, <1>6, <1>7, <1>8, <1>9, <1>10, <1>11,
           <1>12 DEF Next, Ends

LEMMA PhasesHold == Spec => []Phases
<1>1. Phases => IInv
  BY DEF Phases
<1> QED BY <1>1, PhasesInit, PhasesNext, IInvHolds, PTL DEF Spec

\* After a successful import TXTs, config, database and sync status agree,
\* and the months the package does not hold are still there.
THEOREM SuccessAlwaysAgrees == Spec => SuccessAgrees
<1> DEFINE Agree ==
      (At("cleanup") /\ answer' = "ok" /\ job'.pc = "idle")
       => /\ rows' = [view |-> ViewOf(texts'), config |-> config']
          /\ stamps' = rows'.view
          /\ \A m \in Months \ Imported :
               rows'.view[m] = ViewOf(job.before.texts)[m]
<1>1. Phases /\ [Next]_vars => [Agree]_vars
  <2> SUFFICES ASSUME Phases, Next, At("cleanup"), answer' = "ok",
                      job'.pc = "idle"
               PROVE  /\ rows' = [view |-> ViewOf(texts'), config |-> config']
                      /\ stamps' = rows'.view
                      /\ \A m \in Months \ Imported :
                           rows'.view[m] = ViewOf(job.before.texts)[m]
    OBVIOUS
  <2>0. IInv /\ TypeOK /\ ~At("idle")
    BY DEF Phases, IInv, At
  <2>1. UNCHANGED stores
    BY <2>0, OnlyEnds DEF Ends, Refuse, Finish, RestoreTextsFailure,
       RestoreConfig, RestoreConfigFailure, Crash, Fail, At
  <2>2. /\ rows = [view |-> job.effective, config |-> config]
        /\ stamps = job.effective /\ texts = Written(job.before.texts, Months)
        /\ job.effective = EffectiveView(job.before.texts)
    BY DEF Phases, ViewKept, TextsWritten, RowsBuilt, StampsWritten, At
  <2>3. ViewOf(texts) = job.effective
    BY <2>0, <2>2, JobFacts, WrittenIsEffective
  <2>4. \A m \in Months \ Imported :
          job.effective[m] = ViewOf(job.before.texts)[m]
    BY <2>2 DEF EffectiveView
  <2> QED BY <2>1, <2>2, <2>3, <2>4 DEF stores, ViewOf
<1> QED BY <1>1, PhasesHold, PTL DEF Spec, SuccessAgrees

-----------------------------------------------------------------------------
(* The provider's cache, which a failed rollback leaves behind.            *)

\* Up to the installation the provider has loaded what it had when the import
\* began.
CacheKept == job.pc \in {"collect", "install"} => cached = job.before.cached

LEMMA CacheNext ==
  ASSUME IInv, CacheKept, [Next]_vars PROVE CacheKept'
<1>0. TypeOK /\ job \in Jobs
  BY DEF IInv, TypeOK
<1>1. CASE job'.pc \notin {"collect", "install"}
  BY <1>1 DEF CacheKept
<1>2. ASSUME NEW package \in Packages, Begin(package) PROVE CacheKept'
  <2>1. job'.before.cached = cached /\ cached' = cached
    BY <1>2, NoJobType DEF Begin, Jobs, stores
  <2> QED BY <2>1 DEF CacheKept
<1>3. CASE Prepare
  <2>1. job'.before = job.before /\ cached' = cached /\ job.pc = "collect"
    BY <1>0, <1>3 DEF Prepare, Jobs, stores, At
  <2> QED BY <2>1 DEF CacheKept
<1>4. ASSUME NEW pc \in Pcs \ {"idle", "collect", "install"}, Goto(pc)
      PROVE  CacheKept'
  <2>1. job'.pc = pc
    BY <1>0, <1>4 DEF Goto, Jobs
  <2> QED BY <1>1, <2>1
<1>5. CASE job' = NoJob
  BY <1>1, <1>5, NoJobType
<1>6. CASE Refuse \/ Finish \/ RestoreTextsFailure \/ RestoreConfig
             \/ RestoreConfigFailure \/ Crash
  BY <1>5, <1>6 DEF Refuse, Finish, RestoreTextsFailure, RestoreConfig,
                    RestoreConfigFailure, Crash, Fail
<1>7. CASE Install \/ InstallFailure \/ Validate \/ Invalid \/ WriteTexts
             \/ WriteFailure
  BY <1>4, <1>7 DEF Install, InstallFailure, Validate, Invalid, WriteTexts,
                    WriteFailure, Pcs
<1>8. CASE Rebuild \/ RebuildFailure \/ Sync \/ SyncFailure \/ RestoreTexts
  BY <1>4, <1>8 DEF Rebuild, RebuildFailure, Sync, SyncFailure, RestoreTexts,
                    Pcs
<1>9. CASE Cancel
  BY <1>4, <1>5, <1>9 DEF Cancel, Fail, Pcs
<1>10. CASE LoadConfig \/ NewRuntime
  BY <1>1, <1>10 DEF LoadConfig, NewRuntime, At
<1>11. CASE UNCHANGED vars
  BY <1>11 DEF vars, CacheKept
<1> QED BY <1>2, <1>3, <1>6, <1>7, <1>8, <1>9, <1>10, <1>11 DEF Next

LEMMA CacheKeptHolds == Spec => []CacheKept
<1>1. Init => CacheKept
  BY NoJobType DEF Init, CacheKept
<1> QED BY <1>1, CacheNext, IInvHolds, PTL DEF Spec

\* Unless its rollback fails half-way, an import that finds the provider's
\* cache in step with the active configuration leaves it so, whatever else
\* fails and wherever a crash strikes.
THEOREM CacheAlwaysFresh == Spec => CacheFresh
<1> DEFINE Fresh ==
      (~At("idle") /\ job'.pc = "idle" /\ answer' # "rollbackFailed"
         /\ job.before.cached \subseteq {job.before.config})
        => cached' \subseteq {config'}
<1>1. Phases /\ CacheKept /\ [Next]_vars => [Fresh]_vars
  <2> SUFFICES ASSUME Phases, CacheKept, Next, ~At("idle"), job'.pc = "idle",
                      answer' # "rollbackFailed",
                      job.before.cached \subseteq {job.before.config}
               PROVE  cached' \subseteq {config'}
    OBVIOUS
  <2>1. IInv /\ Ends
    BY OnlyEnds DEF Phases
  <2>2. CASE Refuse \/ (At("install") /\ Cancel)
    <3>1. job.pc \in {"collect", "install"} /\ UNCHANGED <<config, cached>>
      BY <2>2 DEF Refuse, Cancel, stores, At
    <3>2. cached = job.before.cached /\ config = job.before.config
      BY <2>1, <3>1 DEF CacheKept, IInv, ConfigKept
    <3> QED BY <3>1, <3>2
  <2>3. CASE Finish
    BY <2>3 DEF Finish, stores, Phases, ConfigInstalled, At
  <2>4. CASE RestoreConfig \/ Crash
    BY <2>4 DEF RestoreConfig, Crash
  <2> QED BY <2>1, <2>2, <2>3, <2>4
          DEF Ends, RestoreTextsFailure, RestoreConfigFailure, Fail
<1> QED BY <1>1, PhasesHold, CacheKeptHolds, PTL DEF Spec, CacheFresh

-----------------------------------------------------------------------------
(* The refinement: the import happens when the rebuild commits; before it, *)
(* and once it has been rolled back, the stores are those found.           *)

\* What the promise sees of the stores.
SeenTexts  == IF Undecided THEN job.before.texts ELSE texts
SeenConfig == IF Undecided THEN job.before.config ELSE config
SeenStamps == IF At("sync") THEN job.effective ELSE stamps
Seen == <<SeenTexts, SeenConfig, rows, SeenStamps>>

LEMMA SeenIsPromised ==
  ASSUME UNCHANGED Seen PROVE UNCHANGED Promise!vars
BY DEF Seen, SeenTexts, SeenConfig, SeenStamps, Promise!vars, ViewOf

LEMMA Undone ==
  ASSUME Phases, Next, ~Rebuild, ~Unrecovered PROVE UNCHANGED Seen
<1>0. IInv /\ TypeOK /\ job \in Jobs
  BY DEF Phases, IInv, TypeOK
<1> USE DEF Seen, SeenTexts, SeenConfig, SeenStamps, Undecided, At
<1>1. ASSUME NEW package \in Packages, Begin(package) PROVE UNCHANGED Seen
  BY <1>0, <1>1, NoJobType DEF Begin, stores
<1>2. CASE Refuse \/ Finish
  BY <1>2, NoJobType DEF Refuse, Finish, stores
<1>3. CASE Prepare
  <2>1. job'.pc = "install" /\ job'.before = job.before /\ job.pc = "collect"
    BY <1>0, <1>3 DEF Prepare, Jobs
  <2>2. texts = job.before.texts /\ config = job.before.config
    BY <1>0, <2>1 DEF IInv, TextsKept, ConfigKept
  <2> QED BY <1>3, <2>1, <2>2 DEF Prepare, stores
<1>4. ASSUME Undecided, NEW pc \in {"validate", "write", "rebuild",
                                    "restoreTexts", "restoreConfig"},
             Goto(pc), UNCHANGED <<rows, stamps>>
      PROVE  UNCHANGED Seen
  <2>1. job'.pc = pc /\ job'.before = job.before
    BY <1>0, <1>4 DEF Goto, Jobs
  <2> QED BY <1>4, <2>1
<1>5. CASE Install \/ InstallFailure \/ Validate \/ Invalid \/ WriteTexts
             \/ WriteFailure \/ RebuildFailure \/ RestoreTexts
  BY <1>4, <1>5 DEF Install, InstallFailure, Validate, Invalid, WriteTexts,
     WriteFailure, RebuildFailure, RestoreTexts, stores
<1>6. CASE Sync
  <2>1. job'.pc = "cleanup" /\ job.pc = "sync" /\ stamps' = job.effective
    BY <1>0, <1>6 DEF Sync, Goto, Jobs
  <2> QED BY <1>6, <2>1 DEF Sync
<1>7. CASE RestoreConfig
  <2>1. job'.pc = "idle" /\ job.pc = "restoreConfig" /\ texts' = texts
        /\ config' = job.backup.config /\ UNCHANGED <<rows, stamps>>
    BY <1>7, NoJobType DEF RestoreConfig, Fail
  <2>2. texts = job.before.texts /\ job.backup.config = job.before.config
    BY <1>0, <2>1 DEF IInv, TextsKept, Backed
  <2> QED BY <2>1, <2>2
<1>8. CASE LoadConfig \/ NewRuntime
  BY <1>8 DEF LoadConfig, NewRuntime
<1>9. CASE Cancel
  <2>1. CASE At("install") /\ Fail("failed")
    <3>1. job'.pc = "idle" /\ texts' = texts /\ config' = config
            /\ UNCHANGED <<rows, stamps>>
      BY <1>9, <2>1, NoJobType DEF Cancel, Fail, stores
    <3>2. texts = job.before.texts /\ config = job.before.config
      BY <1>0, <2>1 DEF IInv, TextsKept, ConfigKept
    <3> QED BY <2>1, <3>1, <3>2
  <2>2. ~At("cleanup")
    BY <1>9 DEF Unrecovered
  <2> QED BY <1>4, <1>9, <2>1, <2>2 DEF Cancel, stores
<1> QED BY <1>1, <1>2, <1>3, <1>5, <1>6, <1>7, <1>8, <1>9
        DEF Next, Unrecovered

\* The commit of the rebuild is the import.
LEMMA RebuildImports ==
  ASSUME Phases, Rebuild
  PROVE  Promise!Import(Payload, job.package.config)
<1>0. IInv /\ TypeOK /\ job \in Jobs /\ job.pc = "rebuild" /\ ~At("idle")
  BY DEF Phases, IInv, TypeOK, Rebuild, At
<1>1. /\ job'.pc = "sync" /\ job'.effective = job.effective
      /\ texts' = texts /\ config' = config /\ stamps' = stamps
      /\ rows' = [view |-> job.effective, config |-> Loaded]
  BY <1>0 DEF Rebuild, Goto, Jobs
<1>2. /\ config = Whole(job.package.config) /\ Loaded = config
      /\ texts = Written(job.before.texts, Months)
      /\ job.effective = EffectiveView(job.before.texts)
      /\ <<job.effective, Loaded>> \in Accepted
  BY <1>0, LoadedIsActive
     DEF Phases, ConfigInstalled, TextsWritten, ViewKept, IInv, Validated
<1>3. ViewOf(texts) = job.effective
  BY <1>0, <1>2, JobFacts, WrittenIsEffective
<1>4. SeenTexts = job.before.texts /\ SeenConfig = job.before.config
  BY <1>0 DEF SeenTexts, SeenConfig, Undecided
<1>5. SeenTexts' = texts /\ SeenConfig' = config /\ SeenStamps' = job.effective
  BY <1>1 DEF SeenTexts, SeenConfig, SeenStamps, Undecided, At
<1>6. EffectiveView(job.before.texts)
        = [m \in Months |-> IF Payload[m] = Absent
                            THEN ViewOf(job.before.texts)[m] ELSE Payload[m]]
  BY DEF EffectiveView, Imported
<1>7. ViewOf(SeenTexts)' = job.effective
  BY <1>3, <1>5 DEF ViewOf
<1> QED BY <1>1, <1>2, <1>4, <1>5, <1>6, <1>7
        DEF Promise!Import, Promise!Overlay, Promise!Whole, Whole, Parts,
            SeenTexts, SeenConfig, SeenStamps

\* Apart from the failures no rollback undoes, every step of an import
\* implements ExchangePromise: text root, config, database and sync status
\* change at one instant or not at all.
THEOREM ImportKeepsItsPromise == Spec => ImplementsPromise
<1>1. Init => Promise!Init
  <2> SUFFICES ASSUME Init PROVE Promise!Init
    OBVIOUS
  <2>1. ~Undecided /\ ~At("sync")
    BY NoJobType DEF Init, Undecided, At
  <2>2. \A m \in Months : <<m, "canonical">> \in Months \X Places
                            /\ <<m, "legacy">> \in Months \X Places
    BY DEF Places
  <2>3. ViewOf(texts) \in [Months -> Contents \cup {Absent}]
    BY <2>2 DEF Init, ViewOf
  <2> QED BY <2>1, <2>3
          DEF Init, Promise!Init, Promise!Whole, Whole, Parts
<1>2. Phases /\ [Next]_vars => [Promise!Next \/ Unrecovered]_(Promise!vars)
  <2> SUFFICES ASSUME Phases, [Next]_vars
               PROVE  \/ Promise!Next \/ Unrecovered
                      \/ UNCHANGED Promise!vars
    OBVIOUS
  <2>1. CASE UNCHANGED vars
    <3>1. UNCHANGED Seen
      BY <2>1 DEF vars, Seen, SeenTexts, SeenConfig, SeenStamps, Undecided, At
    <3> QED BY <3>1, SeenIsPromised
  <2>2. CASE Rebuild
    <3>1. Payload \in [Months -> Contents \cup {Absent}]
            /\ job.package.config \in Configs
      BY <2>2, JobFacts DEF Phases, IInv, Rebuild, At
    <3> QED BY <2>2, <3>1, RebuildImports DEF Promise!Next
  <2>3. CASE Next /\ ~Rebuild /\ ~Unrecovered
    BY <2>3, Undone, SeenIsPromised
  <2> QED BY <2>1, <2>2, <2>3
<1> QED BY <1>1, <1>2, PhasesHold, PTL
        DEF Spec, ImplementsPromise
=============================================================================
