---------------------------- MODULE AndroidSession ----------------------------
(***************************************************************************)
(* The native session of the Android runtime and the flows that use it.    *)
(* Every operation is two native calls, nativeInit and the call itself     *)
(* (NativeCallExecutor.kt).  nativeInit builds a runtime outside the        *)
(* bridge's mutex and swaps it in under the mutex; the call takes the       *)
(* mutex again and acts on whatever runtime is there by then               *)
(* (native_bridge_calls.cpp).  The flows also touch files outside the mutex:*)
(* the month TXTs, the configuration, and, when data is cleared, the        *)
(* database file an ingest may hold open.                                  *)
(*                                                                         *)
(* A TXT is the month of its header and a body; the rows and the sync      *)
(* status of a month are the body they were made from (the status is its   *)
(* hash), the rows also the edition of the configuration that mapped them. *)
(* The path a status holds is always the canonical one, so the inspection's*)
(* DB_PATH_MISMATCH does not occur.                                        *)
(***************************************************************************)
EXTENDS Naturals, Sequences, FiniteSets, FiniteSetsExt, PathOrder

CONSTANTS
  Callers,      \* threads that run flows, one at a time each
  Months, NoMonth,
  Paths,        \* paths under the input root, as numbers: the order of names
  Home,         \* Home[m]: the canonical path of a month
  Bodies, None,
  Accepts,      \* Accepts[e]: the bodies edition e of the configuration accepts
  InitialTxts,  \* the TXTs there may be at the start
  Flows,        \* what callers ask for, besides synchronising
  Syncers,      \* the callers that synchronise
  MaxEdition,   \* bound: configurations saved or wiped
  MaxCalls,     \* bound: flows other than synchronising
  MaxFaults     \* bound: database statements that fail

TxtFiles == [month : Months \cup {NoMonth}, body : Bodies]
Editions == 0..MaxEdition

ASSUME NamesAssumption ==
  /\ NoMonth \notin Months
  /\ None \notin Bodies \cup TxtFiles \cup Callers
  /\ Paths \subseteq Nat /\ IsFiniteSet(Paths)
  /\ Home \in [Months -> Paths]
  /\ \A m, n \in Months : Home[m] = Home[n] => m = n
ASSUME BoundAssumption ==
  MaxEdition \in Nat /\ MaxCalls \in Nat /\ MaxFaults \in Nat
ASSUME ConfigAssumption == Accepts \in [Editions -> SUBSET Bodies]
FlowNames == {"sync", "import", "clearDb", "clearTxt", "wipe"}
ASSUME FlowsAssumption ==
  \A f \in Flows :
    /\ f.flow \in FlowNames
    /\ f.flow = "import" => f.file \in [month : Months, body : Bodies]
ASSUME InitialAssumption ==
  InitialTxts \subseteq [Paths -> TxtFiles \cup {None}]

VARIABLES
  txt,      \* txt[p]: the TXT at a path, or None
  rows,     \* rows[m]: what the rows of a month were made from
  stamp,    \* stamp[m]: the body its sync status names
  config,   \* the configuration on disk: its edition, is it there, does it load
  paths,    \* RuntimeSession has its paths
  runtime,  \* g_runtime.core_runtime: who built it, from which edition
  native,   \* who holds g_runtime_mutex
  cut,      \* those whose open connection is to a database file now removed
  job,      \* job[c]: the flow c is running
  answer,   \* answer[c]: what c's last flow answered
  calls, faults

disk == <<txt, rows, stamp, config>>
counts == <<calls, faults>>
vars == <<txt, rows, stamp, config, paths, runtime, native, cut, job, answer,
          calls, faults>>

Idle == [flow |-> "none", plan |-> <<>>, phase |-> "init", made |-> 0,
         using |-> None, draft |-> {}, text |-> None, floor |-> 0,
         calm |-> TRUE]

Busy(c) == job[c].flow # "none"
Op(c)   == Head(job[c].plan).op
Path(c) == Head(job[c].plan).path

Local(op) == [op |-> op, path |-> None]
At(op, p) == [op |-> op, path |-> p]

Natives == {"structure", "logic", "ingest", "list", "clear"}

Each(op, P) == [i \in DOMAIN InPathOrder(P) |-> At(op, InPathOrder(P)[i])]

Init ==
  /\ txt \in InitialTxts
  /\ \E stored \in BOOLEAN :
       LET Seen(m) == stored /\ txt[Home[m]] # None /\ txt[Home[m]].month = m
                             /\ txt[Home[m]].body \in Accepts[0]
       IN /\ rows = [m \in Months |-> IF Seen(m)
                       THEN [body |-> txt[Home[m]].body, edition |-> 0] ELSE None]
          /\ stamp = [m \in Months |-> IF Seen(m) THEN txt[Home[m]].body ELSE None]
  /\ config = [edition |-> 0, there |-> TRUE, loads |-> TRUE]
  /\ paths = FALSE
  /\ runtime = None /\ native = None /\ cut = {}
  /\ job = [c \in Callers |-> Idle]
  /\ answer = [c \in Callers |-> "none"]
  /\ calls = 0 /\ faults = 0

-----------------------------------------------------------------------------
(* Flows.  Whoever works while another call or an editor does is not calm. *)

Present == {p \in Paths : txt[p] # None}

PlanOf(f) ==
  CASE f.flow = "sync"     -> Each("read", Present) \o <<Local("list")>>
    [] f.flow = "import"   -> <<Local("structure"), Local("logic"),
                                At("write", Home[f.file.month]),
                                At("ingest", Home[f.file.month])>>
    [] f.flow = "clearDb"  -> <<Local("drop"), Local("reset")>>
    [] f.flow = "clearTxt" -> <<Local("erase"), Local("clear")>>
    [] f.flow = "wipe"     -> <<Local("wipe"), Local("reset"), Local("init")>>

Start(c, f) ==
  /\ ~Busy(c)
  /\ LET others == {d \in Callers : Busy(d)}
         since  == Min({config.edition} \cup {job[d].floor : d \in others})
     IN job' = [d \in Callers |->
                  IF d = c
                  THEN [Idle EXCEPT !.flow = f.flow, !.plan = PlanOf(f),
                                    !.text = f.file, !.floor = since,
                                    !.calm = (others = {})]
                  ELSE [job[d] EXCEPT !.calm = ~Busy(d)]]
  /\ answer' = [answer EXCEPT ![c] = "none"]
  /\ UNCHANGED <<disk, paths, runtime, native, cut>>

StartSync(c) ==
  /\ c \in Syncers
  /\ Start(c, [flow |-> "sync", file |-> None])
  /\ UNCHANGED counts

StartFlow(c) ==
  /\ calls < MaxCalls
  /\ \E f \in Flows :
       /\ f.flow = "wipe" => config.edition < MaxEdition
       /\ Start(c, f)
  /\ calls' = calls + 1
  /\ UNCHANGED faults

Return(c, result) ==
  /\ job' = [job EXCEPT ![c] = Idle]
  /\ answer' = [answer EXCEPT ![c] = result]
  /\ native' = IF native = c THEN None ELSE native
  /\ cut' = cut \ {c}

FailHolding(c) ==                         \* mutant: an early return keeps the mutex
  /\ job' = [job EXCEPT ![c] = Idle]
  /\ answer' = [answer EXCEPT ![c] = "failed"]
  /\ cut' = cut \ {c}
  /\ UNCHANGED native

\* The flow stops at its first failure.
Fail(c) == Return(c, "failed")

\* The step is done; the flow goes on with the rest, or is over.
Proceed(c, rest) ==
  IF rest = <<>> THEN Return(c, "ok")
  ELSE /\ job' = [job EXCEPT ![c].plan = rest, ![c].phase = "init",
                             ![c].using = None]
       /\ native' = IF native = c THEN None ELSE native
       /\ cut' = cut \ {c}
       /\ UNCHANGED answer

Done(c) == Proceed(c, Tail(job[c].plan))

-----------------------------------------------------------------------------
(* nativeInit, then the mutex.                                             *)

Calling(c, phase) ==
  /\ Busy(c) /\ Op(c) \in Natives \cup {"init"}
  /\ job[c].phase = phase

\* Runtime paths are prepared when they are not known: missing assets are
\* copied again.
Loadable == IF config.there THEN config.loads ELSE ~paths

Prepared ==
  /\ paths' = TRUE
  /\ config' = [config EXCEPT !.there = @ \/ ~paths]

CreateOnce(c) ==                          \* mutant: a runtime once built is kept
  /\ Calling(c, "init")
  /\ Prepared
  /\ Loadable
  /\ job' = [job EXCEPT ![c].phase = "swap",
                        ![c].made = IF runtime = None THEN config.edition
                                    ELSE runtime.edition]
  /\ UNCHANGED <<txt, rows, stamp, runtime, native, cut, answer, counts>>

\* The runtime reads its configuration as it is built, outside the mutex.
Create(c) ==
  /\ Calling(c, "init")
  /\ Prepared
  /\ Loadable
  /\ job' = [job EXCEPT ![c].phase = "swap", ![c].made = config.edition]
  /\ UNCHANGED <<txt, rows, stamp, runtime, native, cut, answer, counts>>

CreateFails(c) ==
  /\ Calling(c, "init")
  /\ Prepared
  /\ ~Loadable
  /\ Fail(c)
  /\ UNCHANGED <<txt, rows, stamp, runtime, counts>>

\* Destroys the runtime that was there.
Swap(c) ==
  /\ Calling(c, "swap")
  /\ native = None
  /\ runtime' = [by |-> c, edition |-> job[c].made]
  /\ IF Op(c) = "init" THEN Done(c)
     ELSE /\ job' = [job EXCEPT ![c].phase = "enter"]
          /\ UNCHANGED <<native, cut, answer>>
  /\ UNCHANGED <<disk, paths, counts>>

\* Another flow has reset the session in between.
PathsGone(c) ==
  /\ Calling(c, "enter")
  /\ ~paths
  /\ Fail(c)
  /\ UNCHANGED <<disk, paths, runtime, counts>>

Enter(c) ==
  /\ Calling(c, "enter")
  /\ paths
  /\ native = None
  /\ native' = c
  /\ job' = [job EXCEPT ![c].phase = "act", ![c].using = runtime]
  /\ UNCHANGED <<disk, paths, runtime, cut, answer, counts>>

Acting(c, op) == Calling(c, "act") /\ Op(c) = op

\* A statement of the database fails, whatever the call.
StatementFails(c) ==
  /\ faults < MaxFaults
  /\ Busy(c)
  /\ \/ Acting(c, "list") \/ Acting(c, "clear")
     \/ Op(c) = "ingest" /\ job[c].phase \in {"import", "stamp"}
  /\ faults' = faults + 1
  /\ Fail(c)
  /\ UNCHANGED <<disk, paths, runtime, calls>>

-----------------------------------------------------------------------------
(* Inspection and synchronisation (TxtInspectionService.kt,                 *)
(* RuntimeRecordSyncFlow.kt): the TXTs are read one by one, their statuses  *)
(* asked for in a native call, and nothing is written unless every one of   *)
(* them may be opened.                                                     *)

Read(c) ==
  /\ Busy(c) /\ Op(c) = "read"
  /\ IF txt[Path(c)] = None
     THEN Fail(c)
     ELSE /\ job' = [job EXCEPT ![c].plan = Tail(@),
                       ![c].draft = @ \cup {[path |-> Path(c),
                                             file |-> txt[Path(c)]]}]
          /\ UNCHANGED <<native, cut, answer>>
  /\ UNCHANGED <<disk, paths, runtime, counts>>

SyncState(d, draft) ==
  CASE d.file.month = NoMonth                             -> "HEADER_INVALID"
    [] \E e \in draft \ {d} : e.file.month = d.file.month -> "DUPLICATE_MONTH"
    [] OTHER ->
       IF d.path # Home[d.file.month] THEN "PATH_MISMATCH"
       ELSE CASE stamp[d.file.month] = None        -> "NOT_INGESTED"
              [] stamp[d.file.month] # d.file.body -> "DB_HASH_MISMATCH"
              [] OTHER                             -> "SYNCED"

CanOpenSynced(state) == state = "SYNCED"  \* mutant: only what was ingested
CanOpen(state) == state \in {"NOT_INGESTED", "SYNCED"}

\* What is left when the inspection lets the flow go on.
SyncPlan(draft) ==
  <<Local("clear")>> \o Each("ingest", {d.path : d \in draft})

Verdict(c) ==
  IF \A d \in job[c].draft : CanOpen(SyncState(d, job[c].draft))
  THEN Proceed(c, SyncPlan(job[c].draft))
  ELSE Return(c, "blocked")

\* Without a month in any header the database is not asked.
InspectUnasked(c) ==
  /\ Calling(c, "init") /\ Op(c) = "list"
  /\ \A d \in job[c].draft : d.file.month = NoMonth
  /\ Verdict(c)
  /\ UNCHANGED <<disk, paths, runtime, counts>>

Inspect(c) ==
  /\ Acting(c, "list")
  /\ Verdict(c)
  /\ UNCHANGED <<disk, paths, runtime, counts>>

ClearNothing(c) ==                        \* mutant: the statuses stay
  /\ Acting(c, "clear")
  /\ Done(c)
  /\ UNCHANGED <<disk, paths, runtime, counts>>

ClearStatuses(c) ==
  /\ Acting(c, "clear")
  /\ stamp' = [m \in Months |-> None]
  /\ Done(c)
  /\ UNCHANGED <<txt, rows, config, paths, runtime, counts>>

-----------------------------------------------------------------------------
(* Import of a picked file (RuntimeIngestService.kt) and the ingest.        *)

Edition(c) == job[c].using.edition

Validate(c) ==
  /\ Acting(c, "structure") \/ Acting(c, "logic")
  /\ IF job[c].text.body \in Accepts[Edition(c)] THEN Done(c) ELSE Fail(c)
  /\ UNCHANGED <<disk, paths, runtime, counts>>

WriteTxt(c) ==
  /\ Busy(c) /\ Op(c) = "write"
  /\ txt' = [txt EXCEPT ![Path(c)] = job[c].text]
  /\ Done(c)
  /\ UNCHANGED <<rows, stamp, config, paths, runtime, counts>>

\* The TXT is read and validated once; what was read is what is stored.
Collect(c) ==
  /\ Acting(c, "ingest")
  /\ LET file == txt[Path(c)]
     IN IF file = None THEN Fail(c)
        ELSE IF file.month = NoMonth \/ file.body \notin Accepts[Edition(c)]
        THEN Fail(c)
        ELSE /\ job' = [job EXCEPT ![c].phase = "import", ![c].text = file]
             /\ UNCHANGED <<native, cut, answer>>
  /\ UNCHANGED <<disk, paths, runtime, counts>>

\* Opens the database, or makes it, and replaces the month.
ReplaceMonth(c) ==
  /\ Busy(c) /\ Op(c) = "ingest" /\ job[c].phase = "import"
  /\ rows' = [rows EXCEPT ![job[c].text.month] =
                [body |-> job[c].text.body, edition |-> Edition(c)]]
  /\ job' = [job EXCEPT ![c].phase = "stamp"]
  /\ UNCHANGED <<txt, stamp, config, paths, runtime, native, cut, answer, counts>>

\* The same connection: when the file it is open on has been removed, the
\* statement either fails or writes where nobody reads.
Stamp(c) ==
  /\ Busy(c) /\ Op(c) = "ingest" /\ job[c].phase = "stamp"
  /\ IF c \in cut
     THEN UNCHANGED stamp /\ (Done(c) \/ Fail(c))
     ELSE /\ stamp' = [stamp EXCEPT ![job[c].text.month] = job[c].text.body]
          /\ Done(c)
  /\ UNCHANGED <<txt, rows, config, paths, runtime, counts>>

-----------------------------------------------------------------------------
(* Clearing data: files are deleted outside the mutex.                     *)

Stamping == {c \in Callers : Busy(c) /\ Op(c) = "ingest" /\ job[c].phase = "stamp"}
Nothing == [m \in Months |-> None]

\* The database file and its companions.
DropDatabase(c) ==
  /\ Busy(c) /\ Op(c) = "drop"
  /\ rows' = Nothing /\ stamp' = Nothing
  /\ cut' = cut \cup Stamping
  /\ job' = [job EXCEPT ![c].plan = Tail(@)]
  /\ UNCHANGED <<txt, config, paths, runtime, native, answer, counts>>

\* The whole runtime root, the configuration with it.
Wipe(c) ==
  /\ Busy(c) /\ Op(c) = "wipe"
  /\ txt' = [p \in Paths |-> None]
  /\ rows' = Nothing /\ stamp' = Nothing
  /\ config' = [edition |-> Min({config.edition + 1, MaxEdition}),
                there |-> FALSE, loads |-> TRUE]
  /\ cut' = cut \cup Stamping
  /\ job' = [job EXCEPT ![c].plan = Tail(@)]
  /\ UNCHANGED <<paths, runtime, native, answer, counts>>

EraseTxts(c) ==
  /\ Busy(c) /\ Op(c) = "erase"
  /\ txt' = [p \in Paths |-> None]
  /\ Done(c)
  /\ UNCHANGED <<rows, stamp, config, paths, runtime, counts>>

\* RuntimeSession.reset.
Reset(c) ==
  /\ Busy(c) /\ Op(c) = "reset"
  /\ paths' = FALSE
  /\ Done(c)
  /\ UNCHANGED <<disk, runtime, counts>>

\* The configuration screen saves a TOML, which is not checked; nothing else
\* is told.
SaveConfig ==
  /\ config.there /\ config.edition < MaxEdition
  /\ \E loads \in BOOLEAN :
       config' = [config EXCEPT !.edition = @ + 1, !.loads = loads]
  /\ job' = [c \in Callers |-> [job[c] EXCEPT !.calm = ~Busy(c)]]
  /\ UNCHANGED <<txt, rows, stamp, paths, runtime, native, cut, answer, counts>>

TakesMutex(c) == Swap(c) \/ Enter(c)

Step(c) ==
  \/ Create(c) \/ CreateFails(c) \/ PathsGone(c)
  \/ Read(c) \/ InspectUnasked(c) \/ Inspect(c) \/ ClearStatuses(c)
  \/ Validate(c) \/ WriteTxt(c) \/ Collect(c) \/ ReplaceMonth(c) \/ Stamp(c)
  \/ DropDatabase(c) \/ Wipe(c) \/ EraseTxts(c) \/ Reset(c)

Next ==
  \/ \E c \in Callers :
       \/ StartSync(c) \/ StartFlow(c)
       \/ Step(c) \/ TakesMutex(c) \/ StatementFails(c)
  \/ SaveConfig

\* A flow, once begun, runs on; a thread that waits for the mutex is not
\* overtaken for ever.  Nothing has to be begun.
Fairness ==
  \A c \in Callers : WF_vars(Step(c)) /\ SF_vars(TakesMutex(c))

Spec == Init /\ [][Next]_vars /\ Fairness

-----------------------------------------------------------------------------
(* Properties.                                                             *)

\* A call works with a configuration that was on disk at some moment since it
\* began, or since a call began that was running then.  (Not: since it began.
\* Another thread's runtime, built from an older configuration and swapped in
\* between the two native calls, is the one it gets.)
ConfigIsCurrent ==
  \A c \in Callers : native = c => job[c].using.edition >= job[c].floor

\* What every TXT, the rows and the statuses look like after a synchronisation.
InSync ==
  /\ \A p \in Present : txt[p].month # NoMonth /\ p = Home[txt[p].month]
  /\ \A m \in Months :
       LET file == txt[Home[m]]
       IN IF file = None THEN stamp[m] = None
          ELSE /\ stamp[m] = file.body
               /\ rows[m] = [body |-> file.body, edition |-> config.edition]

\* A synchronisation that answers ok, and that nothing else disturbed, leaves
\* every TXT, the rows made from it and its status equal, all of them mapped by
\* the configuration on disk, and no status for a month without TXT.
SyncTellsTheTruth ==
  [][\A c \in Callers :
       (job[c].flow = "sync" /\ job[c].calm /\ answer'[c] = "ok")
         => InSync']_vars

\* Every flow that is begun answers, whatever fails and whoever interferes.
EveryFlowAnswers ==
  \A c \in Callers : Busy(c) ~> ~Busy(c)

\* What only the user can put right: a file that may not be opened, or that
\* the configuration does not accept, or no configuration.
Hopeless ==
  \/ ~config.there \/ ~config.loads
  \/ \E p \in Present :
       \/ txt[p].month = NoMonth
       \/ p # Home[txt[p].month]
       \/ txt[p].body \notin Accepts[config.edition]
       \/ stamp[txt[p].month] \notin {None, txt[p].body}

\* A synchronisation can be repeated until it succeeds: wherever failures stop
\* it, and whatever else had happened before, asking again and again brings TXTs
\* and database together, unless the user has to put something right.
SyncConverges ==
  \A c \in Syncers :
    ([]<>(job[c].flow = "sync")) => (<>[]Hopeless \/ []<>InSync)
=============================================================================
