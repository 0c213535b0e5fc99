--------------------------- MODULE ExchangeImport ---------------------------
(***************************************************************************)
(* Importing a tracer exchange package, TracerExchangeService::RunImport:  *)
(* the package's converter config and month TXTs replace the active ones,  *)
(* the database is rebuilt from the months of the package and the months   *)
(* it does not hold, and a failure is rolled back from the backups of a    *)
(* transaction directory.  The call runs under the runtime mutex.          *)
(*                                                                         *)
(* A month's TXT is a content; it lies at its canonical path or at an older*)
(* ("legacy") one.  A configuration is what its four parts, installed one  *)
(* after the other, hold; the alias directory may hold strays besides,     *)
(* files no alias index names.  Rows are abstracted to the TXTs and the    *)
(* configuration they were converted from.  A package is what was extracted*)
(* of it: a file whose end was lost then is one of Contents or Configs.    *)
(***************************************************************************)
EXTENDS Naturals

CONSTANTS
  Months,     \* numbers: the payloads are written in month order
  Contents,   \* what a month TXT may hold
  Configs,    \* the configurations a package may carry
  Strays,     \* alias files that no alias index names
  Absent, Torn,
  Accepted,   \* <<view, configuration>>: what the two validations accept
  Faults,     \* what may go wrong
  MaxCalls    \* bound: imports in one behaviour

Kinds  == {"copy", "database", "sync", "cancel", "restore", "crash"}
Places == {"canonical", "legacy"}
Parts  == 1..4   \* main, alias mapping, duration rules, the alias files named
Mapping == 2
Aliases == 4

Files == Contents \cup {Absent, Torn}
Views == [Months -> Files]
TextRoots == [Months \X Places -> Files]
Configurations == [Parts -> Configs \cup {Torn}]
Whole(c) == [p \in Parts |-> c]

\* The payloads of a package: contents for some of the months.
Packages ==
  {pkg \in [payload : [Months -> Contents \cup {Absent}], config : Configs] :
     \E m \in Months : pkg.payload[m] # Absent}

ASSUME MonthsAssumption == Months \subseteq Nat
ASSUME FilesAssumption == Absent \notin Contents /\ Torn \notin Contents
                            /\ Absent # Torn /\ Torn \notin Configs
ASSUME AcceptedAssumption == Accepted \subseteq Views \X Configurations
ASSUME FaultsAssumption == Faults \subseteq Kinds
ASSUME BoundAssumption == MaxCalls \in Nat

VARIABLES
  texts,    \* the active text root
  config,   \* the active converter config
  strays,   \* the strays in its alias directory
  cached,   \* the configurations the provider has loaded: none or one
  rows,     \* the database: [view, config] it was built from
  stamps,   \* the sync status of every month
  job,      \* the import in progress
  retained, \* the backups in the directory the last import left on disk
  answer,   \* how the last import ended
  calls     \* imports made so far

vars == <<texts, config, strays, cached, rows, stamps, job, retained, answer,
          calls>>
stores == <<texts, config, strays, cached, rows, stamps>>

NoBackup == [texts |-> [mp \in Months \X Places |-> Absent],
             config |-> Whole(Torn)]
NoMonths == [m \in Months |-> Absent]
NoJob == [pc |-> "idle", package |-> [payload |-> NoMonths, config |-> Torn],
          effective |-> NoMonths, backup |-> NoBackup,
          before |-> [texts |-> NoBackup.texts, config |-> NoBackup.config,
                      strays |-> {}, cached |-> {},
                      rows |-> [view |-> NoMonths, config |-> Whole(Torn)]]]

\* CollectManagedMonthFiles refuses a root with two files for one month.
Unambiguous(root) ==
  \A m \in Months : Absent \in {root[<<m, "canonical">>], root[<<m, "legacy">>]}

ViewOf(root) ==
  [m \in Months |-> IF root[<<m, "canonical">>] = Absent THEN root[<<m, "legacy">>]
                    ELSE root[<<m, "canonical">>]]

Init ==
  /\ texts \in {root \in [Months \X Places -> Contents \cup {Absent}] :
                  Unambiguous(root)}
  /\ config \in {Whole(c) : c \in Configs}
  /\ strays \in SUBSET Strays
  /\ <<ViewOf(texts), config>> \in Accepted
  /\ cached = {}
  /\ rows = [view |-> ViewOf(texts), config |-> config]
  /\ stamps = ViewOf(texts)
  /\ job = NoJob
  /\ retained = NoBackup
  /\ answer = "none"
  /\ calls = 0

At(pc) == job.pc = pc
Goto(pc) == job' = [job EXCEPT !.pc = pc]
Payload == job.package.payload
Imported == {m \in Months : Payload[m] # Absent}

\* A failed import retains its transaction directory.
Fail(how) ==
  /\ job' = NoJob
  /\ answer' = how
  /\ retained' = job.backup

-----------------------------------------------------------------------------
(* Up to the backups nothing but the transaction directory is written.     *)

Begin(package) ==
  /\ At("idle") /\ calls < MaxCalls
  /\ calls' = calls + 1
  /\ retained' = NoBackup
  /\ answer' = "none"
  /\ job' = [NoJob EXCEPT !.pc = "collect", !.package = package,
               !.before = [texts |-> texts, config |-> config,
                          strays |-> strays, cached |-> cached, rows |-> rows]]
  /\ UNCHANGED stores

\* Wrong passphrase, bad package, bad package config, a month with two TXTs,
\* an unreadable active config, a failed copy, a cancel.
Refuse ==
  /\ At("collect")
  /\ job' = NoJob
  /\ answer' = "failed"
  /\ UNCHANGED <<stores, retained, calls>>

BackupCanonicalOnly(root) ==              \* mutant: legacy files not saved
  [mp \in Months \X Places |->
     IF mp[1] \in Imported /\ mp[2] = "canonical" THEN root[mp] ELSE Absent]

BackupManagedTextFiles(root) ==
  [mp \in Months \X Places |->
     IF mp[1] \in Imported THEN root[mp] ELSE Absent]

\* The package's months over the active ones.
EffectiveView(root) ==
  [m \in Months |-> IF m \in Imported THEN Payload[m] ELSE ViewOf(root)[m]]

\* Of the alias directory the backup takes what the index names.
Prepare ==
  /\ At("collect")
  /\ Unambiguous(texts)
  /\ config[Mapping] # Torn
  /\ job' = [job EXCEPT !.pc = "install",
               !.effective = EffectiveView(texts),
               !.backup = [texts |-> BackupManagedTextFiles(texts),
                           config |-> config]]
  /\ UNCHANGED <<stores, retained, answer, calls>>

-----------------------------------------------------------------------------
(* InstallActiveConverterConfig copies the parts in order, and empties the *)
(* alias directory before it copies the last; the provider's cache is      *)
(* dropped at the end.                                                     *)

\* The installation of new stops at one of the parts.
PartInstall(new) ==
  \E at \in Parts :
    /\ \E x \in {config[at], Torn} :
         config' = [p \in Parts |-> IF p < at THEN new[p]
                                    ELSE IF p = at THEN x ELSE config[p]]
    /\ strays' \in IF at = Aliases THEN SUBSET strays ELSE {strays}

\* What LoadConverterConfig returns: the cache, or the files.
Loaded == IF cached = {} THEN config ELSE CHOOSE c \in cached : TRUE

InstallKeepsCache ==                      \* mutant: cache not invalidated
  /\ At("install")
  /\ config' = Whole(job.package.config)
  /\ strays' = {}
  /\ Goto("validate")
  /\ UNCHANGED <<texts, cached, rows, stamps, retained, answer, calls>>

Install ==
  /\ At("install")
  /\ config' = Whole(job.package.config)
  /\ strays' = {}
  /\ cached' = {}
  /\ Goto("validate")
  /\ UNCHANGED <<texts, rows, stamps, retained, answer, calls>>

InstallFailure ==
  /\ At("install") /\ "copy" \in Faults
  /\ PartInstall(Whole(job.package.config))
  /\ Goto("restoreConfig")
  /\ UNCHANGED <<texts, cached, rows, stamps, retained, answer, calls>>

\* RunValidateStructure and RunValidateLogic over the effective view.
ValidateNothing ==                        \* mutant: verdict not consulted
  /\ At("validate")
  /\ cached' = {Loaded}
  /\ Goto("write")
  /\ UNCHANGED <<texts, config, strays, rows, stamps, retained, answer, calls>>

Validate ==
  /\ At("validate")
  /\ <<job.effective, Loaded>> \in Accepted
  /\ cached' = {Loaded}
  /\ Goto("write")
  /\ UNCHANGED <<texts, config, strays, rows, stamps, retained, answer, calls>>

Invalid ==
  /\ At("validate")
  /\ <<job.effective, Loaded>> \notin Accepted
  /\ cached' = {Loaded}
  /\ Goto("restoreConfig")
  /\ UNCHANGED <<texts, config, strays, rows, stamps, retained, answer, calls>>

-----------------------------------------------------------------------------
(* WriteImportedPayloadsToActiveTextRoot, then RunIngestReplacingAll.      *)

\* The root when the payloads of the months in done have been written.
Written(root, done) ==
  [mp \in Months \X Places |->
     IF mp[1] \in Imported \cap done
     THEN IF mp[2] = "canonical" THEN Payload[mp[1]] ELSE Absent
     ELSE root[mp]]

WriteTexts ==
  /\ At("write")
  /\ texts' = Written(texts, Months)
  /\ Goto("rebuild")
  /\ UNCHANGED <<config, strays, cached, rows, stamps, retained, answer,
                 calls>>

\* Month at fails: before its copy, within it, or when its legacy file is
\* to be removed.
PartlyWritten(root) == UNION
  {{[Written(root, {m \in Months : m < at}) EXCEPT ![<<at, "canonical">>] = x] :
      x \in {root[<<at, "canonical">>], Torn, Payload[at]}} : at \in Imported}

WriteFailure ==
  /\ At("write") /\ "copy" \in Faults
  /\ texts' \in PartlyWritten(texts)
  /\ Goto("restoreTexts")
  /\ UNCHANGED <<config, strays, cached, rows, stamps, retained, answer,
                 calls>>

RebuildPayloadsOnly ==                    \* mutant: ingests the payloads only
  /\ At("rebuild")
  /\ rows' = [view |-> Payload, config |-> Loaded]
  /\ Goto("sync")
  /\ UNCHANGED <<texts, config, strays, cached, stamps, retained, answer,
                 calls>>

\* The view is validated again, with the same verdict; the database is
\* replaced in one transaction.
Rebuild ==
  /\ At("rebuild")
  /\ rows' = [view |-> job.effective, config |-> Loaded]
  /\ Goto("sync")
  /\ UNCHANGED <<texts, config, strays, cached, stamps, retained, answer,
                 calls>>

RebuildFailure ==
  /\ At("rebuild") /\ "database" \in Faults
  /\ Goto("restoreTexts")
  /\ UNCHANGED <<stores, retained, answer, calls>>

\* ReplaceIngestSyncStatuses, in a transaction of its own.
Sync ==
  /\ At("sync")
  /\ stamps' = job.effective
  /\ Goto("cleanup")
  /\ UNCHANGED <<texts, config, strays, cached, rows, retained, answer, calls>>

SyncFailure ==
  /\ At("sync") /\ "sync" \in Faults
  /\ Goto("restoreTexts")
  /\ UNCHANGED <<stores, retained, answer, calls>>

\* The transaction directory is removed.
Finish ==
  /\ At("cleanup")
  /\ job' = NoJob
  /\ answer' = "ok"
  /\ UNCHANGED <<stores, retained, calls>>

\* The progress observer answers "cancel" before a phase begins: what is
\* rolled back depends on the phases already begun.
Cancel ==
  /\ "cancel" \in Faults
  /\ \/ At("install") /\ Fail("failed")
     \/ At("validate") /\ Goto("restoreConfig") /\ UNCHANGED <<retained, answer>>
     \/ At("write") /\ Goto("restoreConfig") /\ UNCHANGED <<retained, answer>>
     \/ At("rebuild") /\ Goto("restoreTexts") /\ UNCHANGED <<retained, answer>>
     \/ At("cleanup") /\ Goto("restoreTexts") /\ UNCHANGED <<retained, answer>>
  /\ UNCHANGED <<stores, calls>>

-----------------------------------------------------------------------------
(* TryRollbackImportTransaction: the TXTs, then the config; a failure ends *)
(* the rollback where it is.  The database is not rolled back.             *)

\* The root when the payloads of gone have been removed and the backups of
\* back copied.
Restored(root, gone, back) ==
  [mp \in Months \X Places |->
     IF mp \in back /\ job.backup.texts[mp] # Absent THEN job.backup.texts[mp]
     ELSE IF mp[1] \in Imported \cap gone /\ mp[2] = "canonical" THEN Absent
     ELSE root[mp]]

RestoreBackupsOnly ==                     \* mutant: new months not removed
  /\ At("restoreTexts")
  /\ texts' = Restored(texts, {}, Months \X Places)
  /\ Goto("restoreConfig")
  /\ UNCHANGED <<config, strays, cached, rows, stamps, retained, answer,
                 calls>>

RestoreTexts ==
  /\ At("restoreTexts")
  /\ texts' = Restored(texts, Months, Months \X Places)
  /\ Goto("restoreConfig")
  /\ UNCHANGED <<config, strays, cached, rows, stamps, retained, answer,
                 calls>>

\* Removals go in month order, copies in the order of the directory.
PartlyRemoved(root) ==
  {Restored(root, {m \in Months : m < at}, {}) : at \in Imported}

PartlyCopied(root) == UNION
  {{[Restored(root, Months, back) EXCEPT ![mp] = x] :
      x \in {Torn, Restored(root, Months, back)[mp]}} :
     back \in SUBSET (Imported \X Places),
     mp \in {q \in Months \X Places : job.backup.texts[q] # Absent}}

PartlyRestored(root) == PartlyRemoved(root) \cup PartlyCopied(root)

RestoreTextsFailure ==
  /\ At("restoreTexts") /\ "restore" \in Faults
  /\ texts' \in PartlyRestored(texts)
  /\ Fail("rollbackFailed")
  /\ UNCHANGED <<config, strays, cached, rows, stamps, calls>>

RestoreConfig ==
  /\ At("restoreConfig")
  /\ config' = job.backup.config
  /\ strays' = {}
  /\ cached' = {}
  /\ Fail("failed")
  /\ UNCHANGED <<texts, rows, stamps, calls>>

RestoreConfigFailure ==
  /\ At("restoreConfig") /\ "restore" \in Faults
  /\ PartInstall(job.backup.config)
  /\ Fail("rollbackFailed")
  /\ UNCHANGED <<texts, cached, rows, stamps, calls>>

-----------------------------------------------------------------------------

\* The process dies; the transaction directory stays, and nothing reads it.
Crash ==
  /\ "crash" \in Faults
  /\ ~At("idle")
  /\ texts' \in {texts} \cup
       (IF At("write") THEN PartlyWritten(texts)
        ELSE IF At("restoreTexts") THEN PartlyRestored(texts) ELSE {})
  /\ \/ UNCHANGED <<config, strays>>
     \/ At("install") /\ PartInstall(Whole(job.package.config))
     \/ At("restoreConfig") /\ PartInstall(job.backup.config)
  /\ cached' = {}
  /\ job' = NoJob
  /\ retained' = job.backup
  /\ answer' = "none"
  /\ UNCHANGED <<rows, stamps, calls>>

\* Between imports other calls of the runtime load the config, and a new
\* runtime begins with nothing loaded.
LoadConfig ==
  /\ At("idle") /\ cached = {}
  /\ \A p \in Parts : config[p] # Torn
  /\ cached' = {config}
  /\ UNCHANGED <<texts, config, strays, rows, stamps, job, retained, answer,
                 calls>>

NewRuntime ==
  /\ At("idle")
  /\ cached' = {}
  /\ UNCHANGED <<texts, config, strays, rows, stamps, job, retained, answer,
                 calls>>

Next ==
  \/ \E package \in Packages : Begin(package)
  \/ Refuse \/ Prepare \/ Install \/ InstallFailure \/ Validate \/ Invalid
  \/ WriteTexts \/ WriteFailure \/ Rebuild \/ RebuildFailure
  \/ Sync \/ SyncFailure \/ Finish \/ Cancel
  \/ RestoreTexts \/ RestoreTextsFailure
  \/ RestoreConfig \/ RestoreConfigFailure
  \/ Crash \/ LoadConfig \/ NewRuntime

Spec == Init /\ [][Next]_vars
-----------------------------------------------------------------------------
(* Properties.                                                             *)

Pcs == {"idle", "collect", "install", "validate", "write", "rebuild", "sync",
        "cleanup", "restoreTexts", "restoreConfig"}
Answers  == {"none", "ok", "failed", "rollbackFailed"}
Database == [view : Views, config : Configurations]
Caches   == {{}} \cup {{c} : c \in Configurations}
Backups  == [texts : TextRoots, config : Configurations]
Jobs ==
  [pc : Pcs,
   package : [payload : [Months -> Contents \cup {Absent}],
              config : Configs \cup {Torn}],
   effective : Views, backup : Backups,
   before : [texts : TextRoots, config : Configurations,
             strays : SUBSET Strays, cached : Caches, rows : Database]]

\* The variables range over the values the code can give them; an import
\* that has begun has a payload.
TypeOK ==
  /\ texts \in TextRoots /\ config \in Configurations
  /\ strays \subseteq Strays
  /\ cached \in Caches
  /\ rows \in Database /\ stamps \in Views
  /\ job \in Jobs
  /\ ~At("idle") => job.package \in Packages /\ Imported # {}
  /\ retained \in Backups
  /\ answer \in Answers /\ calls \in 0..MaxCalls

\* The database is only ever built from TXTs the validations accept under
\* the configuration they are converted with.
RowsAccepted == <<rows.view, rows.config>> \in Accepted

\* An import that fails and does not report a failed rollback leaves the
\* text root and the converter config as they were, to the last file the
\* configuration names.  Alias files it does not name are the exception: they
\* are all there or, once the installation has begun, all gone.
FailureRestores ==
  [][(~At("idle") /\ job'.pc = "idle" /\ answer' = "failed")
       => /\ texts' = job.before.texts /\ config' = job.before.config
          /\ strays' \in {{}, job.before.strays}]_vars

\* Whatever ends an import that does not succeed, a crash included, every
\* month TXT and every file of the configuration it found is where it was or
\* in a transaction directory left on disk (alias files no index names are
\* not: nothing keeps them).
OldFilesSurvive ==
  [][(~At("idle") /\ job'.pc = "idle" /\ answer' # "ok")
       => /\ \A mp \in Months \X Places :
               job.before.texts[mp] \in
                 {Absent, texts'[mp], retained'.texts[mp]}
          /\ \A p \in Parts :
               job.before.config[p] \in {config'[p], retained'.config[p]}]_vars

\* After a successful import the text root, the config, the database and the
\* sync status tell the same story, and the database still has the months
\* the package does not hold.
SuccessAgrees ==
  [][(At("cleanup") /\ answer' = "ok" /\ job'.pc = "idle")
       => /\ rows' = [view |-> ViewOf(texts'), config |-> config']
          /\ stamps' = rows'.view
          /\ \A m \in Months \ Imported :
               rows'.view[m] = ViewOf(job.before.texts)[m]]_vars

\* An import that finds the provider's cache in step with the active config
\* leaves it so, whatever phase fails or dies, unless its rollback fails: the
\* provider does not answer with a configuration that is no longer there.
CacheFresh ==
  [][(~At("idle") /\ job'.pc = "idle" /\ answer' # "rollbackFailed"
        /\ job.before.cached \subseteq {job.before.config})
       => cached' \subseteq {config'}]_vars

\* The failures no rollback undoes: the sync or a cancel after the commit of
\* the rebuild, which leave a new database behind old files; a rollback that
\* fails; the end of the process.
Unrecovered ==
  \/ SyncFailure
  \/ At("cleanup") /\ Cancel
  \/ RestoreTextsFailure \/ RestoreConfigFailure \/ Crash

\* Every other step of an import implements ExchangePromise, after a failure
\* of an import before it, too: text root, config, database and sync status
\* change at one instant, the commit of the rebuild, or not at all.
Undecided == job.pc \in {"install", "validate", "write", "rebuild",
                         "restoreTexts", "restoreConfig"}

Promise == INSTANCE ExchangePromise
  WITH view   <- ViewOf(IF Undecided THEN job.before.texts ELSE texts),
       config <- IF Undecided THEN job.before.config ELSE config,
       stamps <- IF At("sync") THEN job.effective ELSE stamps

ImplementsPromise ==
  Promise!Init /\ [][Promise!Next \/ Unrecovered]_(Promise!vars)
=============================================================================
