# time_tracer: a verification project

TLA+ models of time_tracer, the TLC runs that check them on small instances, and
TLAPS proofs of the most important properties of the parts that change the user's
data. Paths are relative to the repository root; `core/` stands for
`src/libs/tracer_core/src/`, `runtime/` for
`src/apps/android/runtime/src/main/java/com/example/tracer/runtime/`.

Contents: 1 the system; 2 the modules and the code they model; 3 the runs; 4 the
bounds; 5 fairness; 6 what is proved; 7 what is only model-checked; 8 findings;
9 what the models show besides; 10 what is not modelled; 11 what is left to do.

## 1. The system

time_tracer keeps a person's activity log as plain TXT files, one per month, and
derives a SQLite database from them for queries and reports. The TXT is the
source of truth; the database can be rebuilt. The core is a C++ library with a
C API; a Rust command line and an Android application call it.

| component | state it keeps | operations | behaviour that is hard |
|---|---|---|---|
| import repository (`core/infra/persistence/importer`) | tables `days`, `projects`, `time_records`, `ingest_month_sync`; the open transaction; prepared statements; the resolver's tree and path cache | ImportData, ReplaceMonthData, ReplaceAllData, sync-status upsert and replace, clear | several processes on one database without a busy timeout, failures in the middle of a transaction, memory that outlives a rollback |
| ingest pipeline (`core/application/pipeline`) | none between calls; the run's context | collect, validate structure, convert, validate logic, link across days, import, stamp | data and sync status are in separate transactions; the three modes treat the rest of the database differently |
| atomic record (`pipeline_record_atomic_support_impl.inc`) | the month TXT, a transaction workspace with candidate and backup | record one activity | every step may fail; the database commits in the middle of the call |
| Android save-and-sync (`runtime/controller`) | the month TXT, the runtime handle behind a mutex | save an edited TXT and ingest it | the TXT is written outside the mutex |
| text rules, parser and validators (`core/domain/logic`) | none (folds over lines) | validate a text, parse it, validate structure and logic | two readers of one grammar that share no code |
| converter (`core/domain/logic/converter`) | none (pure) | link logs, place the sleep across midnight, durations | boundaries at midnight, gaps, the first day of a month |
| day-block editing (`txt_day_block_support.cpp`, the Android TXT screen) | the month draft, the day shown, mode and marker | cut a day out, merge it back, save | the cut is asynchronous; the marker may have changed when the text is merged |
| log generator (`src/apps/tools/log_generator`) | the month under way | write a month | times that run past midnight and must leave room for what follows |
| exchange import (`core/infra/exchange`) | TXT root, active converter config and the provider's cache of it, database, sync status; backups in a transaction root | import a `.tracer` package | a transaction over four stores, a rollback that may fail itself, cancellation, crashes |
| packages and encryption (`core/infra/exchange`, `core/infra/crypto`) | `.tracer` files, the master keys of a batch, the progress reporter, the cancel token | encrypt and decrypt a file or directory; export, inspect, unpack a package | cancellation by observer and by token between any two steps, file sizes that change after the plan, files of many batches |
| Android native session (`runtime/NativeCallExecutor.kt`, `native_bridge_calls.cpp`) | the global runtime handle and its mutex, the cached paths | initialise, then act, in two native calls | another call may replace the runtime between the two |
| ingest sync status, Android synchronisation and cleanup | the sync status of every month, compared with path and hash of every TXT | inspect; clear and ingest all months; import a picked file; delete data | conflicts block every month; the loop stops half-way; files are deleted outside the mutex |
| configuration (`core/infra/config`, `src/apps/tracer_core_shell`) | the folder of TOML files; the provider's cache | resolve the bundle, load the converter config with aliases and rules, fill the report texts, answer the command line | two readers of one bundle, alias files read twice, five copies of each setting |
| queries (`core/infra/query`) | none | lists, statistics, trees, charts, compositions, suggestions | the same sums through many SQL builders |
| reports (`core/infra/reporting`, `report_api.cpp`) | exported files | one report, all reports of a kind, recent reports | three kinds of date arithmetic; files named apart from the query; other processes ingest meanwhile |
| transport, C API, JNI bridge, use cases, command line | none but a thread's last answer | encode, decode, call, answer | a field passes five hand-written hands; failures arrive as values, exceptions and empty texts |
| Android screens, file adapters, build tools | what they show | | see section 10 |

Who calls whom: the Android flows and the command line spell a request as codes
or JSON and enter the C API (on Android under the mutex `g_runtime_mutex`); the use
cases call `PipelineWorkflow`, the exchange service or the query and report
services. The workflow runs the stages and then the repository through
`ImportService`. The atomic record and the exchange import write the TXT files
themselves and call back into the same ingest. TXT files and the database meet
only in the caller: nothing makes a change of both atomic. Queries and reports
open connections of their own, and read what other processes commit meanwhile.

What makes each component correct, in one line. The **repository** does all of a
request or nothing, and what reports read is what was written. The **record call**
changes TXT and database together or not at all, and never loses the old TXT. The
**exchange import** does so over TXTs, config, database and status. **Conversion and
ingest** make rows that are those of the TXT, tile each day, and do not depend on
the way a month is taken in. The **readers** of a TXT agree, and an edit of a day
changes that day. A **package** opens for its passphrase and no other, holds what it
is said to hold, and stops when told to. The **session** works with the configuration
on disk, and the **synchronisation** can be repeated until it succeeds. A loaded
**configuration** has one meaning. All routes to the same recorded time give the same
**figures**, and a file holds the report of its name. What a host **asks** is what the
core does, and what it did is what the host is told.

## 2. The modules

| module | models | source |
|---|---|---|
| `ImportRequests` | the requests to the repository and what they make of the tables | `importer/repository_ingest_sync_sql.cpp`, `import_service.cpp` |
| `ImportPromise` | abstract: each call happens at one instant or not at all | `docs/.../infrastructure_persistence.md` |
| `ImportRepository` | the write side of the database, statement by statement | `importer/repository.module.cpp`, `importer/sqlite/*` |
| `RecordPromise` | abstract: "success or rollback" of a record | `docs/.../record_input_atomic_flow.md` |
| `RecordAtomic` | the record call, the ingest it makes, and the editor's save-and-sync | `pipeline_record_atomic_support_impl.inc`, `pipeline_workflow.cpp`, `RuntimeTxtSaveAndSyncFlow.kt` |
| `ExchangePromise` | abstract: the import happens at one instant or not at all | `docs/.../runtime_crypto_json_contract_v1.md` |
| `ExchangeImport` | the phases of an import, its rollback and its crashes | `tracer_exchange_service_import.cpp`, its `detail/`, `pipeline_converter_config_install.cpp` |
| `TxtConversion` | pure: from the TXT of a month to rows; the link to the month before; the validation | `converter_core*.cpp`, `structure_validator.cpp`, `memory_parser.cpp` |
| `MonthIngest` | EXTENDS it: several months, edits, the three ingest modes | `pipeline_workflow.cpp`, `pipeline_replace_month_support_impl.inc`, `pipeline_orchestrator.module.cpp` |
| `TxtRules` | EXTENDS `TxtConversion`: the text validator and the parser, two folds over lines | `text_validator.cpp`, `text_parser.cpp` |
| `LogGenerator`, `DayBlocks` | EXTEND it: the generated month and its average; cutting out and merging a day | `src/apps/tools/log_generator`, `txt_day_block_support.cpp` |
| `Diary` | composes them: a month generated, or edited whole or by day, then saved | `TxtEditorSession.kt`, `TxtEditorRuntimeCoordinator.kt`, `RuntimeTxtSaveAndSyncFlow.kt` |
| `PathOrder` | pure: the files of a directory in the order of their paths | the sorted directory walks of both languages |
| `PackageKeys`, `ProgressReport` | keys, salts and batches; the reporter and its two ways to cancel | `file_crypto_kdf.cpp`, `file_crypto_progress_control.cpp` |
| `Packages` | EXTENDS all three: encryption of files and directories; export, inspect, unpack | `file_crypto_*.cpp`, `tracer_exchange_service_{export,inspect,unpack}.cpp` |
| `AndroidSession` | two native calls of each flow, inspection, synchronisation, import, cleanup, configuration saves | `NativeCallExecutor.kt`, `native_bridge_calls.cpp`, `TxtInspectionService.kt`, `RuntimeRecordSyncFlow.kt` |
| `TomlFiles`, `ConfigBundle`, `CliSettings` | TOML tables and paths; the bundle in both readers, the report files; `config.toml` on its way to the command line | `config_parser_bundle.cpp`, `config_loader*.cpp`, `android_bundle*.cpp`, `cli_config_snapshot.cpp` |
| `ConverterConfig` | EXTENDS them: the converter's files, loaded one by one while others are saved | `converter_config_loader.cpp`, `alias_*`, `query_runtime_service_report_mapping.cpp` |
| `Calendar`, `ReportQueries` | dates, ISO weeks; the queriers of every report and the batch readers | `period_utils.cpp`, `core/infra/reporting/data/queriers` |
| `DataQueries` | EXTENDS it: the data queries | `core/infra/query/data` |
| `ReportLayout` | EXTENDS it: a report as a Markdown, LaTeX and Typst document | `core/infra/reporting/{daily,monthly,range,shared}` |
| `ReportExport` | composes them: exports to files while others ingest | `report_api.cpp` |
| `HostCalls` | one call of a host and its answer, field by field | `src/libs/tracer_transport`, `src/apps/tracer_core_shell`, `runtime/translators`, `src/apps/cli` |
| `...Proofs` | theorems of `ImportRepository`, `RecordAtomic`, `ExchangeImport`, `MonthIngest`, `AndroidSession`, `Packages`, `Diary` (with `TxtRules`, `DayBlocks` and `LogGenerator`), `ConverterConfig` (with `ConfigBundle` and `CliSettings`) | |
| `MC...` | the constants of the small instances | |

### ImportRepository

Variables and their code: `db` is the committed file; `writer` and `tx` are the
write lock and the uncommitted pages of the host that holds it; `repo[h]` is
what a `Repository` object remembers between calls, that is the resolver's
`root_` (`tree`) and `cache_` (`cache`), and the bindings left in the two
prepared statements (`heldDay`, `heldRecord`); `job[h]` is the call in progress
and `result[h]` the answer of the last one.
One action stands for one statement: `DeleteRecords`, `DeleteDays`,
`DeleteProjects`, `InsertDay` (per day), `ResolvePath` (the two `EnsurePath`
steps of one path, inside one statement sequence no other writer can enter),
`InsertRecord` (per row), `Commit`. Each has its failure: `PlainFailure`,
`DayFailure`, `ProjectFailure`, `RecordFailure`, `CommitFailure`, and `Crash`.

Abstracted: a record is its logical id, its day and its project path; durations
and remarks are left out. Paths have one or two segments; longer ones repeat the
child step. `RuntimePerCall` tells the two lives of a repository apart: the
Android bridge and the command line create a runtime per call; the C API also
lets a host make many calls on one runtime.

### RecordAtomic

A TXT is the set of its event lines, ordered as numbers; a write cut short
leaves a proper prefix (`Prefixes`). `official` is the month's file, `rows` the
text its rows were made from, `stamp` the text whose hash the sync table holds,
`native` the runtime mutex, `job` the call in progress with its candidate,
backup and validated text, `kept` the backups in workspaces left on disk.
The record call is `Submit`, `BuildCandidate`, `BackUp`, `WriteOfficial`, then
the ingest `Collect`, `ReplaceMonth`, `Stamp`, and on a failure `Restore` or
`RestoreFailure`. The editor is `Save`, `SaveText`, `Enter` and the same ingest;
it comes in two flows, the save of a file that is there and the promotion of a
picked file that need not be.
The record call tests its streams before their buffers are flushed, so a tail that
the disk has no room for is lost without an error: `TornCandidate`, `TornBackUp` and
`TornOfficial` are the three writes going on like that, and `flushed` in `job` is a
history variable, FALSE when it befell the backup.
`Valid` is what structure and logic validation accept, `Continuous` what they
accept with the date check on: a record is made without it, a save with it.

`calm` is a history variable for what is only promised of some calls: it is TRUE
from the start of a record call that finds the sync status in step with the rows
and no editor at work, and FALSE from the first editor or the first failure that
the call does not handle or see (a torn write, a failed status, a crash). No action
reads it but those that keep it.

Abstracted: two writers of the same file are not torn within one another (a
write is one action); replacing a month is one action here because
`ImportRepository` shows it is all or nothing.

### ExchangeImport

`texts` gives the content of each month at each of its two places, the canonical
path and an older ("legacy") one; `config` is what the four parts of the active
configuration hold, which an install writes one after the other; `strays` are the
files in its alias directory that the alias index does not name: the backup has the
named ones only, and every installation, that of a rollback too, removes the whole
directory first; `cached` is the
provider's cache; `rows` is the view and the configuration the database was built
from and `stamps` the view the sync table describes; `job` is the import in
progress with its package, its effective view and its backups; `retained` are the
backups in the transaction directory a failed import leaves; `answer` is how the
last one ended. The actions follow the phases of `RunImport`: `Begin`, `Prepare`
(collect, back up, compute the effective view), `Install`, `Validate`,
`WriteTexts`, `Rebuild`, `Sync`, `Finish`; each has its failure, `Cancel` is the
progress observer's answer between two phases, and the rollback is `RestoreTexts`
then `RestoreConfig`, each of which may fail half-way. `Crash` may come anywhere,
`NewRuntime` starts over with an empty cache, `LoadConfig` is any other call that
fills it. `before` in `job` is what the import found, kept for the properties.
`Unrecovered` names the steps no rollback undoes: the status or a late cancel after
the commit of the rebuild, a rollback that fails, a crash. The refinement covers
every other step.

Abstracted: a TXT is a content, a torn TXT is one content; a package is what was
extracted of it (its entries are written like those of an unpack, see `Packages`),
so that the package of the model need not be the one that was sent; `Accepted` is any
relation of views and configurations, as the two validations are functions of
them. The replace-all transaction is one action because `ImportRepository` shows
it is all or nothing.

### TxtConversion and MonthIngest

A text is a sequence of day blocks: the date, the time of its wake line if its
first event is one, and its other events with the time each *ended*, whether its
name maps to the path generated sleep is booked under (the code compares that
path, not the origin), and whether its remark allows a long activity. `Convert`
gives the days with their activities: each event lasts from the end of the one
before it, a block without a wake line continues the block before it in the file,
and the night between two blocks is generated. `LinkFirstDay` is
`ProcessCrossDay` with the conditions of its two callers; `LogicValid` and
`StructureValid` the validations; `Stored` the rows, one per date and place in the
day, as `logical_id` and the upsert make them.

`texts`, `rows` and `stamps` of `MonthIngest` are per month; `mixed` is a history
variable, the months that the standard mode has added rows to since they were last
replaced. `IngestMonth`
(`kSingleTxtReplaceMonth`) validates the month as the file stands, asks database
and sibling file for the last activity before it, links and replaces;
`IngestAll` and `IngestStandard` link all months of the source, validate the
result, and replace or upsert. A source is the directory or one file. The three
tails are kept apart because the code has three: the database's (any earlier
month), the sibling's (the month right before, unvalidated) and `LinkLogs`' own.

Abstracted: one file per month; a whole call is one action (its interleavings are
the subject of the other modules); names, remarks and the flags of a day.
### TxtRules, LogGenerator, DayBlocks and Diary

A text is a sequence of lines, and a line what its characters make of it: a year
or month header, four digits, an event with its time and kind of name, a remark,
the bare remark prefix, nothing, or anything else. `TxtRules` has the validator
(`StructureRules` as the state of a fold, with the errors it collects) and the
parser (the state of a fold that stops at the first line it throws at), and what
the parser hands to `TxtConversion`. `LogGenerator` writes a month day by day;
`NextDays(g)` is the set of all its continuations, a random choice being any of
its outcomes. `DayBlocks` has the functions behind the DAY mode.

`Diary` composes them: `gen` is the month under way, `file` the TXT, `ui` the editor
(`all` and `day` drafts, the marker, the mode, the block shown and the marker of
a cut still under way), `edits` a count. `Resolve` is the coroutine that cuts the
day out; it ends after any later typing unless `Patient`. A save keeps what both
validations accept. `DayEditIsLocal` is about files the parser can read: where it
throws it hands over no further day, and an edit before that line may remove it.

### PackageKeys, ProgressReport and Packages

A `.tracer` file is its salt, its nonce, the key it was sealed with and its
content; a key is equal to another exactly when all that it is derived from is
(`PackageKeys`). `ProgressReport` is `ProgressReporter` with the token and the
observer's answer. `Packages` has the disk (`txt`, `pkg`, `pack`, `root`), the
operation (`job`, with its plan, its step, its keys and its answer), the reporter
`rep`, what the observer was told last (`seen`) and the `token`. The steps are
those of the code: plan, then for each file read, derive or find the key, seal or
open, write, tell; each step may fail, the observer may cancel whenever told, and
another thread may set the token at any time where a token is passed. `StoreTorn` and
`UnpackTorn` are outputs whose end is lost when the stream is closed, after the last
test of it: the operation goes on and counts them; `lost` in `job` remembers which.

Abstracted: Argon2id, XChaCha20-Poly1305 and zstd are what they promise; a size is
a small number and not the length of the content.

### AndroidSession

`txt`, `rows` and `stamp` are the files, the rows and the sync status by month;
`config` the configuration on disk with its edition; `paths` whether
`RuntimeSession` has its paths; `runtime` the handle `g_runtime` with who built it
and from which edition; `native` the holder of `g_runtime_mutex`; `cut` the ingests
whose open connection is to a database file that has been deleted; `job` and
`answer` the flows. `StartSync` and `StartFlow` ask for a flow; `Create`, `Swap` and `Enter` are
`nativeInit` (outside, then under the mutex) and the call's own lock; `Inspect`,
`ClearStatuses`, `WriteTxt`, `Collect`, `ReplaceMonth`, `Stamp` are the native work;
`DropDatabase`, `EraseTxts`, `Wipe` and `SaveConfig` touch files outside the mutex;
every statement may fail. An ingest is one month's, all or nothing in each of its
two transactions, as `ImportRepository` shows.

### TomlFiles, ConfigBundle, CliSettings and ConverterConfig

A folder is a function from paths to documents; a document is a table of nodes
or not TOML. `ConfigBundle` has the bundle twice, as the command line reads it
(`CliBundleHolds`) and as the Android runtime does (`AndroidResolves`), and the
report files twice, as the check asks (`ReportHolds`) and as the filling takes them
(`Fills`). `CliSettings` copies each setting as often as the code does.
`ConverterConfig` loads in steps - main file, rules, index, each alias file to be
checked, each to be used - with `Save` of any file between two of them; `cached` is
the provider's copy. `FilesAssumption` is what `toml::parse` guarantees of a folder's
documents: a value has one of TOML's types. Item lists are given by the set of lists
they hold (`ItemLists`), however deep they are nested.

A field read by its type takes what toml++ takes for it (`TakenFor`): a number where
a Boolean is asked for (`AsFlag`) and the reverse, nothing else.

Abstracted: a text is the sequence of its segments; TOML syntax, fonts, numbers
other than duration bounds, floating-point numbers among them (toml++ takes one
without a fraction for an integer).

### Calendar, ReportQueries, DataQueries, ReportLayout and ReportExport

`Calendar` has the three kinds of date arithmetic of the code: comparison of texts,
SQLite's `strftime` (for which 30 February is in March), and `chrono`, which
rejects it. A report is the record of its figures; `ReportQueries` has one operator
per querier and per batch reader, `DataQueries` one per query. `ReportLayout`
makes of a report the sequence of the lines of each format, with the lists that
LaTeX opens and closes. `ReportExport` has the database other processes fill
(`db`), the clock (`today`), the exported `files`, the export under way (`job`), its
answer (`ack`) and the bounds (`used`). A write may go wrong with and without being
noticed (`WriteGoesWrong`), and the list of what to export may be cut short by a row
that cannot be read (`ListCutShort`), which nobody notices.

Abstracted: SQL is what it selects; the order SQLite may choose among equals is one
fixed order; fonts, colours, escapes and wording are left out.

### HostCalls

`ask` is what a host wants: the host, the call and its fields; `wire` the text it
becomes, `done` the request the use case runs, `service` how the service behind it
ended, `reply` the answer's text, `shown` what the host makes of it, and `first` the
failed tree call that the present call is asked for in place of. The path there is
by host: the app's codes and sentinels (`KotlinCode`, `Sentinel`, `IsSet`), the
command line's words (`SpokenWord`, `Spelled`), or JSON a host writes itself; then
the decoder, the words the C API takes for enumerators, and the defaults of the
request type. An integer beyond 32 bits is cut by the decoder
(`Narrowed`). The path back is the use case's answer (`UseCase`), the response of
each call, the envelope, and `KotlinReads`, `NativeTreeAnswer` or `CliReads`.

Abstracted: a value is its own text, but for the integers that are cut; case folding, hashes and the wording of
messages.

## 3. The runs

Runs that pass (distinct states; time with two workers and coverage):

| run | instance | states, time | shows |
|---|---|---|---|
| `import_repository` | two hosts, two days in two months, two names, three batches, three calls, symmetry of hosts | 39,903; 18 s | every record points at the project it was written with, and the promise is kept: each call happens at one instant or not at all, whatever fails |
| `record` | two recorders, an editor, three lines, four calls, every failure, files torn unseen and a crash at every step | 1,426,535; 120 s | only valid text reaches the rows; the old text is never lost after the write unless its backup was torn unseen; a call that met no editor and no failure but those it handles keeps the promise, and its answer says what became of TXT, rows and status |
| `exchange` | two months, two contents, two configurations, an alias file no index names, one import, every failure, cancels, failing rollbacks, crashes | 89,622; 83 s | after a success the four stores agree; a failure without a failed rollback restores TXTs and config, and the alias files no index names are then all there or all gone; old TXTs and the files of the old configuration survive in place or in the transaction directory; unless a rollback fails the provider's cache stays fresh; every step but those no rollback undoes keeps the promise |
| `months` | two months of two dates, nine diaries, replaced one by one, all at once, or added to with the standard mode, one edit | 24,333; 154 s | no activity is too long; a synced month has every row of its TXT and, unless it was added to, no other and no gap in its days; taking months in one by one agrees with taking all in at once wherever the tail rule finds the last event |
| `diary_text` | a month of four days of eight clock times, generated or edited twice, seven files to start with, three of which do not validate | 198,515; 82 s | what the validator accepts is read whole by the parser; what the generator writes is accepted; its average is that of the ingest; an edit of a day changes that day alone |
| `packages` | two TXTs, two passphrases, `.tracer` files of two batches and both formats, two operations, every failure and cancel, outputs torn unseen | 1,683,719; 153 s | the numbers answered are those of the disk, the outputs torn unseen being counted as written; a file opens for its own passphrase and no other; an unpacked directory is the package but for those; progress only grows; a cancel stops the writing |
| `reports` | up to two of five dates around the end of an ISO year, one of which no calendar has, and one more ingested; eight kinds of day, one ingest, one midnight, one fault (a write, seen to fail or not, or a list cut short) | 67,230; 150 s | every route to the same time gives the same figures; the three formats say the same; a file holds the report of its name; a finished export covers every listed target |
| `android_session` | two months, a stray path, one edit of the configuration, one import or clearing beside the synchroniser, one failing statement | 90,963; 113 s | calls work with a current configuration; an undisturbed success is true; every flow answers; a synchronisation repeated for ever brings everything in sync unless the user must act |
| `configuration` | the shipped folder and 62 that depart from it in one file, one more file saved during the load | 10,873; 56 s | what is loaded has one meaning; the two readers agree; every setting reaches the command line; what is offered is accepted |
| `host_calls` | every call with each field by itself, none and all, from three hosts; request texts with one fault or an integer beyond 32 bits; every way a service ends, a tree that is not found included | 9,814; 11 s | the request that was meant runs, but for the integers that are cut; the host learns what came of it |

Runs that show a violation (section 8 says what they mean):

| run | violates |
|---|---|
| `months_link_alike` | `MonthsLinkAlike`, with ordinary diaries |
| `suggest_prefix` | `SuggestsWithPrefix`, on any database that has a record |

Some properties speak of some behaviours only, and say of which by what the model
remembers: `AnswerTellsTheOutcome` and `ImplementsPromise` of the record call by
`calm`, its `OldTextSurvives` by `flushed`, `ImplementsPromise` of the import by
`Unrecovered`, `AnswerMatchesDisk` and `UnpackedIsPackage` by `lost`, `SyncedMeansSame`
and `DaysTile` by `mixed`. What they leave out is in the model all the same and goes
wrong, as section 8 says. So one instance has every failure and every mode, and the
theorems assume nothing of either.

Every property of a passing run has a mutant in `PROJECT.json`: a change of one
definition, of the kind a bug would make, under which TLC finds it violated.

## 4. Bounds, and why they are enough

- `MaxCalls` bounds the calls of a behaviour. Three calls of the repository let a
  call commit or fail, a second run on what it left in memory or on disk, and a
  third run beside the second. Four records let a month be created, extended,
  refused and rolled back. One import begins from every good state, with months at
  either place and the provider's cache empty or loaded; what a second one finds
  after a failure is covered by the proofs, which have no bound. Two operations on packages let the second read what
  the first wrote, or be refused by what it left.
- Two hosts are enough for the lock: a third one waits as the second does. Two
  callers are enough for the session: one is between its two native calls, the
  other does whatever may be done then.
- Two days in two months give every pattern of a month replacement: a row inside
  and a row outside. Two names give a root, a child, and the same name at both.
- Three lines give prefixes of every kind: invalid ones and valid ones, with a gap
  in the dates and without. `MCValid` rejects the text without its first line, and
  the full one. `MCAccepted` makes acceptance depend on the month, the content and
  the configuration, and accepts one torn TXT: validation is no checksum.
- Clock times of `months` are hours; limits are the code's 16 hours and 24 hours.
  The diaries hold each case the code branches on: wake at midnight, wake alone,
  continuation first and second, late night, authored sleep, long activity allowed,
  night that would be too long, two blocks of one date, no block at all, and two
  texts validation rejects. With two months the month right before may be empty,
  absent or rejected. In `diary_text` a time is three hours and a day eight of them: enough for
  a wake, three events, a continued day and a carry past midnight.
- Two TXTs are enough for a batch whose first file leaves a key or a failure
  behind. A file may be read longer (3) or shorter (0) than planned (1 or 2).
- The dates of `reports` are a Sunday and a Monday around which the ISO year changes
  before the calendar year does, a month's last day and the next month's first, and
  30 February. A day with nine roots is one more than a composition shows; a tree of
  three levels is one more than a statistics item has.
- In `android_session` one edit of the configuration makes an old body unacceptable,
  one statement fails at any point, and only one flow runs beside the synchroniser,
  which asks without bound: the liveness properties need an unbounded behaviour.
- The folders of `configuration` depart from the shipped one in one file, and a save
  adds another departure during the load, so that every pair of a file read before
  and one read after is there.
- `host_calls` takes one field at a time and all at once: a crossed or dropped field
  shows with one, a shadowed one with all.

The repository, record, exchange, package and host runs check deadlock: a call in
progress always has a next step, and a disjunct of `Next` that changes nothing says
where all calls have been made. The other
runs say `CHECK_DEADLOCK FALSE`, as the user may stop at any point: a text that is
refused, a folder that does not load, a clock that does not go on.

## 5. Fairness

Only `AndroidSession` assumes fairness; safety of all others has to stand a call
that is interrupted at any point. Its `Fairness` is, for every caller, weak fairness
of the next step of the flow it runs (`Step`) and strong fairness of entering the
mutex (`TakesMutex`). The first is what a thread is: the flows are coroutines on
`Dispatchers.IO` and every step is a system call or a statement that returns. The
second is because a mutex is free between any two native calls of the others, so
that weak fairness would let a caller wait for ever beside one that synchronises
for ever; Android's `std::mutex` (a futex) wakes a waiter each time it is released
and a waiting thread is not overtaken without end. Nothing is assumed of the user
(`StartSync`, `StartFlow`, `SaveConfig`), of failures, or of the synchroniser being asked again:
`SyncConverges` has "asked again and again" as its hypothesis.

## 6. What is proved

The theorems hold for every value of the constants that satisfies the named
assumptions; they are proved with SMT (Z3), Zenon and, for the temporal step, LS4.
Where a run checks the same property, `PROJECT.json` names it; the others
(types, locks, backups, what validation guarantees of the database) are steps of
the same argument that say something by themselves.

**`ImportRepositoryProofs`**, for any hosts, days, months, names and batches.
`TypeOK` is inductive together with `PathsCached` (what a call is about to insert
has its path in the cache). `LockInv` ties the lock holder to the program counter
and gives `NoOrphanTransaction` (`LockReleased`); `DeletesAccepted` needs both, as
the order of the deletes is in the program counter. `SnapshotsAlwaysAgree` assumes
`RuntimePerCall`; its `SnapInv` says of the tree and the cache of the call in
progress that they spell the same paths as the uncommitted project rows, which is
exactly what a repository kept over a rollback loses. `RepositoryKeepsItsPromise`
is the refinement of `ImportPromise`, step by step: what a host sees of the database
while its call is under way is what it was when the call took the write lock, and
the uncommitted rows are at each program counter the request carried out so far.

**`RecordAtomicProofs`**, for any number of recorders and editors, any set of
lines and any validation. `IInv` is `TypeOK`, `Mutex` (at most one native call, by
program counter), `BackupHolds` (whole, if it was flushed), `RowsValid` and `Carried` (between the replacement
of the month and the status, the rows are those of the text in hand). The action
properties follow from one step of it: `OldTextAlwaysSurvives`, crashes included and
whatever was torn unseen but the backup, and `StatusFollowsRows`. `HInv` adds what is known while a call is calm: no editor
is at work (`Quiet`), the TXT is at each step the text found or the candidate
(`Tracked`), and the status is behind the rows only between the two transactions
(`InStep`). `HandledSteps` says what a step is then, in the terms of the
refinement; `RecordKeepsItsPromise` and `AnswerAlwaysTells` follow.

**`ExchangeImportProofs`**, for any months, contents, configurations, acceptance
and faults. `IInv` is `TypeOK`, `Backed` (the backups are the files before),
`OthersUntouched` (months the package does not hold), `TextsKept` and `ConfigKept`
(what has not been written yet is as before, the alias files no index names
included), `Validated` (past the validation the
effective view is accepted under what the provider loads) and `RowsAccepted`.
`FailureAlwaysRestores` and `OldFilesAlwaysSurvive` follow. `Phases` adds what the
import has made so far, store by store and phase by phase, which gives
`SuccessAlwaysAgrees`; with `CacheKept` (up to the installation the provider holds
what it held at first) `CacheAlwaysFresh`; and `ImportKeepsItsPromise`, where the
commit of the rebuild is the promised import and every other step that is not
`Unrecovered` leaves what the promise sees unchanged. None of them assumes anything
of the faults, or that the import finds the stores in good order.

**`MonthIngestProofs`**, for any length of day, limits, months and texts. `IInv` is
`TypeOK`, `NoLongActivity` and `AllPresent` (in every mode a month in sync has all rows
of its TXT); type correctness includes what
conversion and link return. `NoLongActivity` rests on `MaxSleep <= MaxActivity`: the
cap of the link is what stands in for the validation that ran before it.
`SameUnlessMixed`, of the months the standard mode has not added to, is inductive with
`TypeOK`; the two give `SyncedMeansSame`, and `DaysTile` follows by a lemma on
`LinkFirstDay`. `IncrementalAlwaysAgrees` shows that
the tail found in the database is the one `LinkLogs` uses, under `TailFaithful`.

**`AndroidSessionProofs`**, for any callers, flows, configurations and faults, and
without fairness. `ConfigIsCurrent` alone is not inductive: nothing in it says what
a call will find when it enters. `IInv` adds where the runtime can come from: no
floor exceeds the edition on disk (`Floors`), every runtime that is built and not
yet swapped in, whoever built it, is above the floor of every running call
(`BuiltAboveFloors`), and so is the one in place for a call about to enter
(`RuntimeAboveFloors`); `HolderActs` ties the mutex to the phase, which gives
`MutexAlwaysGivenBack`. That a call started late inherits the floor of those it runs
beside is what keeps `BuiltAboveFloors` true in `Start`, and is the reason why the
property cannot promise more. The proof needs no type for what the flows read and
write (`Shape` only says that a job is a record of its fields).

The second half of the module proves `SyncTellsTheTruth` on top of it. A flow's plan is a
sequence of steps made from sorted paths, so the invariant is about what is still to
come: `FlowsFit` says which steps may be left in a plan, and that the months to be
read or ingested are exactly those the flow has not been past; `SyncInv` says of a
calm synchronisation that every TXT is read as it is on disk, that the statuses it
compares with are those of the database, and that each path it is past is in sync
under the configuration it began with. The one fact about sorting it needs is
`PathsInOrder`: `InPathOrder` goes through every member of a finite set.

**`PackagesProofs`**, for any TXTs, sizes, passphrases, earlier files and faults.
`PackagesInv` says where an operation is: what its files on disk hold (`DiskFits`),
that each step has the material it needs and from the right file (`StepFits`,
`SourceFits`), that the keys it has found are those of its passphrase (`KeysFit`),
what the directory it unpacks to has so far (`RootFits`), what the files it is past
have become and how the counts of the answer add up (`DoneFits`), how far the
reporter stands and what the observer knows (`ProgressFits`), and what may still be
written once the token is set (`TokenFits`). A file in `lost` is one of those past, holds
what was left of it, and counts as written. All five properties follow. Sums over a
plan are functions defined by recursion over its places; what they add up to is
proved by taking the least place at which it would fail (`EveryNumberUpTo`).

**`DiaryProofs`**, for any files, bodies and markers made of lines (`LinesAssumption`)
and any calendar. A reader is a fold over a text, and a fold a recursive function of
the place it has come to. That such a function exists and has values of the right
kind (`WalkExists`, `ParserWalk` and its like) is proved by the least line at which it
would not (`EveryLineUpTo`), which also takes the place of induction in all that
follows. `Agree` is what validator and parser have in common before a line: the
headers, whether a day is open, and that the days and events of the one are the dates
and event lines the other has passed. Each line that the validator does not report
keeps it (`LineKeepsAgreement`), which gives `AcceptedTextsAreRead` for every text
there is; `MadeOfLines` says that files, drafts and cuts are texts, and
`AcceptedAlwaysRead` follows for every state. `DayEditsStayLocal` assumes `Patient`. It
reads the file before and after the save side by side: alike up to the marker
(`SameBeginning`), both within the same day while the lines are headless
(`HeadlessRun`), and then as `Twins`, that differ in that day only and stay so over the
lines they share (`LineKeepsTwins`, `SameEnd`). `ReplacedResolves` says that the block,
cut out again, is the text that was typed.

Of the generator, two things are proved from one invariant, `GenInv`, which assumes
nothing of the settings: a month is at any time a `SoundMonth`, a text both readers have
followed without a complaint (`Stands`), whose days have the dates 1, 2, ... and begin
with the only waking they may have, the first day with one, and whose last event is at
the clock time the generator goes on from. `GeneratedMonthsAreAccepted` assumes
`Generous`: an activity may last from one minute to less than a day, the longest day
(its length, the largest jitter and the largest carry) is at most twice that and a
minute, and a day has more than `kMinItemsPerDay` items. The values of the program (24
and 16 hours, 45 and 180 minutes) satisfy it from three items on; with the two items its
command line allows, the one activity between waking and the end of the day can be
longer than 16 hours (section 8). Under it each activity of a day is paced
(`EventsArePaced`), that is, `Near` in clock time to the one before, over midnight too
(`PacedIsNear`), which is what the logic validation asks of the converted days
(`DayActivities`, `ChainIsValid`).

`AveragesAreTracked` is about any text, generated or not: the generator's own reader
sees the days the parser sees (`Alike`, kept by every line: `LineKeepsAlike`), and its
sum and that of the stored activities grow by the same minutes with every event
(`DayIsTracked`) and every night (`BothSumsAgree`). A text must be accepted and `Lived`,
for the two do differ otherwise: after a day without an event the conversion makes no
night and the average counts one, and of a first day without a waking the conversion
leaves out the first activity and the average all of them.
`GeneratedAveragesAreTracked` follows, as a sound month is lived after every day.

**`ConverterConfigProofs`**, for any folders, saves and lengths of an activity, under
`FilesAssumption`: what `toml::parse` returns is typed (a string is a text, an array a
sequence, an integer an integer) in the sections that are read. That the readers agree
(`BothReadersAgree`) and that every setting reaches the command line
(`EverySettingReachesTheCli`) hold of any one folder: item lists nested to any depth
need no induction because check and filling go through one set of lists (`ItemLists`).
For the loaded configuration, `ConfigInv` says that the files read so far are typed,
that a configuration is kept only while nothing is being loaded, and that it is
`Sound`: no key, name or path is empty, and the rules of a name are `InOrder`. Sorting
is by rank, and ranks of bounds that differ are 1 to n (`RanksSort`), so that the
first rule above a length is the tightest. `KeysHaveOnePath` is what the second reading
of the alias files has to check for itself: between it and the first anyone may save.

## 7. What is only model-checked

The liveness properties of `AndroidSession` (`EveryFlowAnswers`, `SyncConverges`): fairness
and ENABLED are out of the prover's reach. `ReportExport`
and what it is composed of: its layouts are `RECURSIVE` operators, and its figures are
folds over records whose sums would have to be rearranged for every input.
`HostCalls`, whose fields and words are a finite table that TLC goes through whole.

## 8. Findings

1. **The night between two months starts at the wrong time**
   (`months_link_alike`). When one month is replaced, the end of the last activity
   before it is looked up by date and then by `end_timestamp`. Activities are
   anchored to the date of their block, so the night a day begins with (23:00 to
   07:00) has a later end than all that follows it. A month whose last day is
   `7:00 ... 23:00` is therefore continued at 07:00: the next month, waking at 8:00,
   is given one hour of sleep instead of nine. Taking in all months at once gives
   nine. `TailFaithful` names the texts for which both agree.
2. **Suggestions with a prefix fail** (`suggest_prefix`). The SQL says `ESCAPE` with
   two backslashes, and SQLite wants one character: the query throws on the first
   row, and the last recorded day always has one.

Seen in the models and not made a run, because no single line of the repository
says otherwise or because the failure it takes is rare:

- Sync status apart from the data: the status is written in a transaction of its
  own after the month, or everything, has been committed (`pipeline_workflow.cpp:411`,
  `:464`). If that fails, TXT (and config) are rolled back and the database is not,
  against `record_input_atomic_flow.md:236-238` and
  `runtime_crypto_json_contract_v1.md:79`. A cancel that comes after the rebuild does
  the same to an import.
- The record call writes candidate, backup and TXT with `WriteCanonicalTextFile`,
  which asks the stream whether it failed before its buffer is flushed
  (`pipeline_record_atomic_support_impl.inc:49-53`): a tail that cannot be written is
  lost, and nobody knows. A torn candidate or TXT that still validates is ingested as
  it is, its other lines gone. A torn backup is copied over the TXT by the rollback of
  a failed ingest, and the workspace is removed: the rest of the month is lost,
  against `record_input_atomic_flow.md:236-238`.
- A failed import restores the configuration, and with it empties the alias directory
  (`pipeline_converter_config_install.cpp:57-71`), of which the backup took only what the
  alias index names (`tracer_exchange_service_common_converter_config_impl.inc:58`).
  Other files there, say those of an index the user will switch back to, are lost by
  a rollback that is reported as complete, although
  `runtime_crypto_json_contract_v1.md:79` wants the configuration rolled back.
- Outputs of encryption and the entries of an unpacked package are torn without an
  error in the same way as the candidate (`file_crypto_io.cpp:83-100`,
  `tracer_exchange_service_common_package_support_impl.inc:172-183`): the answer is ok.
- A write of the TXT that fails half-way is not rolled back: the handler that would
  restore the backup only covers the ingest, the outer one deletes the workspace
  (`pipeline_record_atomic_support_impl.inc:422`).
- A repository kept over a failed call (`RuntimePerCall = FALSE`) hands out project
  ids that were never committed; one whose row failed executes that row again in
  place of the first row of the next call (`StepRow` with `heldRecord`). The Android
  bridge and the command line do not keep it; hosts of the C API may.
- The night before a replaced month is added after the validation and may have
  length zero, which `user_manual/input_format_cn.md:56` calls an error.
- An editor who does not wait for the screen (`Patient = FALSE`) may have the typed
  day merged under a marker typed after the text was shown, over another day.
- The generator's `--items 2`, which its parser allows, gives days with nothing
  between wake and sleep that an ingest refuses.

## 9. What the models show besides

Behaviour that the models make visible; none of it is contradicted by a document
of the repository, and a maintainer may want to know it.

**Months.** The standard mode never removes a row and replaces the whole sync
table, so that a standard ingest of one file drops the status of all others, shifts
the rows of its first day if the month before is not in the source, and leaves the
last one of them behind. A continuation that begins a file loses its first
activity. A night between two months is not linked again when the earlier month
changes. The sibling TXT is read for its tail unvalidated. Of two blocks of one date
the later one overwrites the activities of the earlier one.

**TXT and editor.** The validator takes any four digits after the first date for a
date. An ingest in DAY mode marks the session as saved even when the save failed
or the marker was not found; a typed DAY draft is lost when marker or mode change;
of several blocks of one day only the first is edited; coroutines of the view model
overwrite newer screen states.

**Packages.** With a token, a cancelled operation tells its observer nothing final. A
phase entered for a failed file suppresses cancels until the next phase. The plan
takes file sizes twice, for the total and for each file
(`file_crypto_directory_plan.cpp:99`, `:152`); the model takes them once, and progress may
pass the total when a file grows between them. `a.TXT` and `a.txt` collide in one package. A failed write
truncates the previous package. The Android export of payloads does not validate
texts, and the export of a root reads the files again after their validation. An
unpack that fails leaves a directory the next unpack refuses. An export reads its
own manifest back, so that alias files outside `aliases/` make it fail. The runtime
mutex is held during an export whose progress callback enters Java.

**Reports and queries.** An impossible date (30 February, possible without the
continuity check) is in February by text comparison and in March for `strftime`: an
export of all months stops there, one of all weeks at `0000-W00`. A batch of periods
counts days dated after today. A day of which the remark quotes "No time records" is
never exported. The list of recent periods reads the clock for each item; "recent"
has three meanings in three places. A report's statements are not one transaction.
The list of what there is to export ends
at a row that cannot be read as if it were the last
(`sqlite_report_data_query_service.module.cpp:53`), and the export answers ok over
fewer files. The file of a target that has vanished stays. A day whose only record lasts 0
seconds counts for a range and is empty as a day. A LaTeX list of a root whose only
child has no time is empty, and one nested deeper than four does not compile.
Markdown and Typst do not escape what the user wrote. The third level of
statistics looks like the second.

**Android session.** A runtime built before a configuration was saved may be swapped
in between the two native calls of another flow. A `RuntimeSession.reset` between
them gives a spurious "Runtime paths are not initialized." One TXT that differs from
its status blocks the synchronisation of all months. A month whose TXT is deleted
keeps its rows. `DB_PATH_MISMATCH` cannot happen, and `syncLiveToDatabase` has no
caller on a screen. The months of one synchronisation are ingested by runtimes built
one after the other, and a configuration saved between gives rows of mixed
editions (and no `calm`). The status listing answers ok and nothing when the
database cannot be opened.

**Configuration.** The shipped duration rules for `rest` and `insomnia` never apply,
as the aliases map to `rest_rest` and `rest_insomnia` first. A wake keyword that is
also an alias never becomes its path. An offered name with a remark mark or blanks
in it cannot be written. The alias files are read twice, and their editions may
differ. The main file's own duration rules are merged unvalidated. Without a bundle
Android falls back to legacy paths and the command line refuses; the command line
takes bundles Android refuses. `[general]` is ignored where `[system]` exists. An
alias changed after an ingest leaves the old project paths.

**Hosts.** An integer of a request beyond 32 bits is cut without an error
(`fields.cpp:121`, `:151`); the hosts of the repository send none. Tree, status and record responses always carry the generic error code, and
`NativeTree` drops even that. `reporting.target.not_found` gets its own exit code for
texts and lists and not for exports. A batch with failed items answers ok. A call
that took effect but whose text is not UTF-8 is answered as a failure. A failed
structured tree is asked for again as text. Year or month 0, -1 and the empty text
cannot be said through JNI. `sync_status` with no months asks for all.

## 10. What is not modelled, and why

- Android screens and view models but for the TXT editor: they set fields of a
  screen state. The Rust command line's parsing, menus and exit codes: no state.
- Calls for packages, day blocks and the runtime configuration through C API and
  JNI: what they do is in `Packages`, `Diary` and `CliSettings`; their transport
  repeats the pattern of `HostCalls`. Registration of JNI methods and callbacks.
- Query, report and export calls in `AndroidSession`: they have the two native calls
  of the flows that are there, and change nothing.
- An editor that writes while an import of a package runs: the import holds no lock
  on the TXTs, and overwrites what it finds changed. This is how the code is, there
  is nothing to check it against.
- Wording, fonts, colours, escapes, formatter registration and its caches; JSON and
  TOML syntax; the heatmap file beyond being there and readable; the environment
  check; the primitives of encryption and compression.
- The log generator's `WorkflowHandler`: one generator per year, each in a task with
  its own file; its settings files.
- Read errors among the rows of a report: the row loops of the queriers, too, take any
  end for the last row. A report is made in one step of the model.
- The standard library's file operations and SQLite's own durability and isolation:
  `db` is what it promises, and their failures are actions of the callers.
- File access adapters, build and test tools.

## 11. What is left to do

1. Of `ReportExport`, proofs of the two properties about files
   (`FilesNameTheirReports`, `FinishedExportCovers`), which do not need the layouts
   but a lemma of the calendar: that the day of a date's number is that date.
2. The package and configuration calls in `HostCalls`.
3. An import beside an editor, once the code says what is to happen.
