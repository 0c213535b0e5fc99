-------------------------- MODULE ImportRepository --------------------------
(***************************************************************************)
(* The write side of the SQLite database: the three import transactions of *)
(* infra/persistence/importer/repository.module.cpp over the connection,   *)
(* the prepared statements, the row writer and the project resolver of     *)
(* importer/sqlite.  Several processes (hosts) may have the same database  *)
(* file open; SQLite lets one of them write at a time and answers the      *)
(* others SQLITE_BUSY at once (no busy timeout is ever set).               *)
(*                                                                         *)
(* A repository keeps between calls three things the database does not:    *)
(* the resolver's project tree, its path -> id cache, and, in the prepared *)
(* statements, the bindings of a row whose step failed (the writer resets  *)
(* a statement only after success).  RuntimePerCall says whether the host  *)
(* creates a runtime, and so a repository, for every call, as the CLI and  *)
(* the Android bridge do, or keeps one.                                    *)
(***************************************************************************)
EXTENDS Naturals, ImportRequests

CONSTANTS
  NoHost,          \* "nobody holds the write lock"
  RuntimePerCall,  \* does every call start with a new repository?
  MaxCalls         \* bound: calls made in one behaviour

ASSUME HostsAssumption == NoHost \notin Hosts
ASSUME IdleAssumption == Idle \notin Requests
ASSUME BoundAssumption == MaxCalls \in Nat
ASSUME ModeAssumption == RuntimePerCall \in BOOLEAN

VARIABLES
  db,       \* the committed database: [days, projects, records, seq]
  writer,   \* the host with the write lock, or NoHost
  tx,       \* that host's uncommitted database
  repo,     \* repo[h]: what the repository of h remembers between calls
  job,      \* job[h]: the call h is executing
  result,   \* result[h]: what the last call of h returned
  calls     \* calls made so far

vars == <<db, writer, tx, repo, job, result, calls>>

EmptyDb == [days |-> {}, projects |-> {}, records |-> {}, seq |-> 0]

FreshRepo == [tree |-> {}, cache |-> {}, heldDay |-> {}, heldRecord |-> {}]

NoJob == [pc |-> "idle", req |-> Idle, days |-> {}, paths |-> {},
          records |-> {}]

Init ==
  /\ db = EmptyDb
  /\ writer = NoHost
  /\ tx = EmptyDb
  /\ repo = [h \in Hosts |-> FreshRepo]
  /\ job = [h \in Hosts |-> NoJob]
  /\ result = [h \in Hosts |-> "none"]
  /\ calls = 0

-----------------------------------------------------------------------------
(* Reading the projects table.                                             *)

\* Walking the parent links up from row id spells path p: how the reports
\* name a project (ProjectNameCache::GetPathParts), and where LoadFromDb
\* puts a row in its tree.
SpelledBy(projects, id, p) ==
  \E row \in projects :
    /\ row.id = id
    /\ row.name = NameOf(p)
    /\ IF p \in RootPaths
       THEN row.parent = 0
       ELSE \E up \in projects : /\ up.id = row.parent
                                 /\ up.name = p[1]
                                 /\ up.parent = 0

\* LoadFromDb: the breadth-first walk from the virtual root.
LoadedTree(projects) ==
  {n \in [path : Paths, id : {row.id : row \in projects}] :
     SpelledBy(projects, n.id, n.path)}

Has(nodes, p)  == \E n \in nodes : n.path = p
IdIn(nodes, p) == (CHOOSE n \in nodes : n.path = p).id

(* EnsurePath, one segment: nothing when the tree has the node, else a     *)
(* row whose parent is the id the tree gives, then the node.               *)
NewRowOrphan(st, p) ==                    \* mutant: parent_id never bound
  [id |-> st.seq + 1, name |-> NameOf(p), full |-> p, parent |-> 0]

NewRow(st, p) ==
  [id |-> st.seq + 1,                     \* AUTOINCREMENT
   name |-> NameOf(p), full |-> p,
   parent |-> IF p \in RootPaths THEN 0 ELSE IdIn(st.tree, RootOf(p))]

EnsureNode(st, p) ==
  IF Has(st.tree, p) THEN st
  ELSE [projects |-> st.projects \cup {NewRow(st, p)},
        seq      |-> st.seq + 1,
        tree     |-> st.tree \cup {[path |-> p, id |-> st.seq + 1]}]

\* The foreign key on parent_id and the two unique indexes of projects
\* (SQL's NULL parents are never equal).
NodeAllowed(st, p) ==
  \/ Has(st.tree, p)
  \/ LET new == NewRow(st, p)
     IN /\ \A row \in st.projects : row.full # p
        /\ new.parent # 0 =>
             /\ \E row \in st.projects : row.id = new.parent
             /\ \A row \in st.projects :
                  ~(row.parent = new.parent /\ row.name = new.name)

\* A record's foreign keys.
RecordAllowed(s, row) ==
  /\ row.day \in s.days
  /\ \E p \in s.projects : p.id = row.project

-----------------------------------------------------------------------------
(* The transaction.  A deferred BEGIN takes no lock: the first statement   *)
(* that writes does, and until then the host sees the committed database.  *)
View(h)     == IF writer = h THEN tx ELSE db
CanWrite(h) == writer \in {h, NoHost}
Write(h, s) == writer' = h /\ tx' = s

At(h, pc) == job[h].pc = pc
Goto(h, pc) == job' = [job EXCEPT ![h].pc = pc]

Answer(h, r) == result' = [result EXCEPT ![h] = r]

\* ROLLBACK, and the end of the call.
Abandon(h) ==
  /\ writer' = IF writer = h THEN NoHost ELSE writer
  /\ tx' = IF writer = h THEN EmptyDb ELSE tx
  /\ job' = [job EXCEPT ![h] = NoJob]

-----------------------------------------------------------------------------
\* A host calls ImportData, ReplaceMonthData or ReplaceAllData.
Call(h, req) ==
  /\ calls < MaxCalls
  /\ At(h, "idle")
  /\ calls' = calls + 1
  /\ job' = [job EXCEPT ![h] =
               [pc |-> "begin", req |-> req, days |-> req.batch.days,
                paths |-> {r.path : r \in req.batch.records},
                records |-> req.batch.records]]
  /\ repo' = IF RuntimePerCall THEN [repo EXCEPT ![h] = FreshRepo] ELSE repo
  /\ UNCHANGED <<db, writer, tx, result>>

\* EnsureWriteRepositoryReady and BEGIN.
Begin(h) ==
  /\ At(h, "begin")
  /\ Goto(h, IF job[h].req.kind = "import" THEN "days" ELSE "deleteRecords")
  /\ UNCHANGED <<db, writer, tx, repo, result, calls>>

DeleteRecords(h) ==
  /\ At(h, "deleteRecords") /\ CanWrite(h)
  /\ Write(h, [View(h) EXCEPT !.records =
                 {r \in @ : ~Removes(job[h].req, r.day)}])
  /\ Goto(h, "deleteDays")
  /\ UNCHANGED <<db, repo, result, calls>>

\* The foreign keys refuse to delete a row another one points at.
DeleteDays(h) ==
  /\ At(h, "deleteDays") /\ CanWrite(h)
  /\ \A r \in View(h).records : ~Removes(job[h].req, r.day)
  /\ Write(h, [View(h) EXCEPT !.days = {d \in @ : ~Removes(job[h].req, d)}])
  /\ Goto(h, IF job[h].req.kind = "all" THEN "deleteProjects" ELSE "days")
  /\ UNCHANGED <<db, repo, result, calls>>

\* sqlite_sequence, and so the next id, survives the DELETE.
DeleteProjects(h) ==
  /\ At(h, "deleteProjects") /\ CanWrite(h)
  /\ View(h).records = {}
  /\ Write(h, [View(h) EXCEPT !.projects = {}])
  /\ Goto(h, "days")
  /\ UNCHANGED <<db, repo, result, calls>>

(* InsertDays, one row.  On a statement that still holds a failed row the  *)
(* binds are refused (their result is ignored) and the step writes the     *)
(* held row again: the day itself is not written.                          *)
InsertDay(h) ==
  /\ At(h, "days") /\ CanWrite(h)
  /\ \E d \in job[h].days :
       /\ Write(h, [View(h) EXCEPT !.days =
                      @ \cup IF repo[h].heldDay = {} THEN {d}
                             ELSE repo[h].heldDay])
       /\ job' = [job EXCEPT ![h].days = @ \ {d}]
  /\ repo' = [repo EXCEPT ![h].heldDay = {}]
  /\ UNCHANGED <<db, result, calls>>

\* InsertRecords begins: nothing to do for no records, else
\* PreloadAndResolve, which loads the tree only while the cache is empty.
StartRecords(h) ==
  /\ At(h, "days")
  /\ job[h].days = {}
  /\ IF job[h].records = {}
     THEN Goto(h, "commit") /\ UNCHANGED repo
     ELSE /\ Goto(h, "resolve")
          /\ repo' = IF repo[h].cache # {} THEN repo
                     ELSE [repo EXCEPT ![h].tree =
                             LoadedTree(View(h).projects)]
  /\ UNCHANGED <<db, writer, tx, result, calls>>

\* What EnsurePath starts from.
Resolver(h) == [projects |-> View(h).projects, seq |-> View(h).seq,
                tree |-> repo[h].tree]

\* One path: cached, or ensured from the root down and cached.
ResolvePath(h) ==
  /\ At(h, "resolve") /\ CanWrite(h)
  /\ \E p \in job[h].paths :
       /\ job' = [job EXCEPT ![h].paths = @ \ {p}]
       /\ IF Has(repo[h].cache, p) THEN UNCHANGED <<writer, tx, repo>>
          ELSE LET mid == EnsureNode(Resolver(h), RootOf(p))
                   end == EnsureNode(mid, p)
               IN /\ NodeAllowed(Resolver(h), RootOf(p))
                  /\ NodeAllowed(mid, p)
                  /\ Write(h, [View(h) EXCEPT !.projects = end.projects,
                                              !.seq = end.seq])
                  /\ repo' = [repo EXCEPT ![h] =
                                [repo[h] EXCEPT !.tree = end.tree,
                                          !.cache = @ \cup {
                                            [path |-> p,
                                             id |-> IdIn(end.tree, p)]}]]
  /\ UNCHANGED <<db, result, calls>>

AllResolved(h) ==
  /\ At(h, "resolve")
  /\ job[h].paths = {}
  /\ Goto(h, "records")
  /\ UNCHANGED <<db, writer, tx, repo, result, calls>>

\* The row InsertRecords binds for record r: the project id comes from the
\* cache, the path snapshot from the record.
RowOf(h, r) == [id |-> r.id, day |-> r.day, snap |-> r.path,
                project |-> IdIn(repo[h].cache, r.path)]

\* The row the step really writes.
StepRow(h, r) == IF repo[h].heldRecord = {} THEN RowOf(h, r)
                 ELSE CHOOSE row \in repo[h].heldRecord : TRUE

InsertOrIgnore(rows, row) ==              \* mutant: conflicts keep the old row
  IF \E old \in rows : old.id = row.id THEN rows ELSE rows \cup {row}

Upsert(rows, row) == {old \in rows : old.id # row.id} \cup {row}

InsertRecord(h) ==
  /\ At(h, "records") /\ CanWrite(h)
  /\ \E r \in job[h].records :
       /\ RecordAllowed(View(h), StepRow(h, r))
       /\ Write(h, [View(h) EXCEPT !.records = Upsert(@, StepRow(h, r))])
       /\ job' = [job EXCEPT ![h].records = @ \ {r}]
  /\ repo' = [repo EXCEPT ![h].heldRecord = {}]
  /\ UNCHANGED <<db, result, calls>>

\* COMMIT; the call returns success.
Commit(h) ==
  /\ \/ At(h, "commit")
     \/ At(h, "records") /\ job[h].records = {}
  /\ db' = View(h)
  /\ Abandon(h)
  /\ Answer(h, "ok")
  /\ UNCHANGED <<repo, calls>>

-----------------------------------------------------------------------------
(* Failures.  Any statement may fail (disk, lock, constraint); the call    *)
(* then rolls back and returns the error.                                  *)

\* Opening, BEGIN, a DELETE, the load of the tree, or COMMIT (a reader still
\* holds its shared lock): nothing remembers it.
PlainFailure(h) ==
  /\ job[h].pc \in {"begin", "deleteRecords", "deleteDays", "deleteProjects",
                    "commit"}
  /\ Abandon(h)
  /\ Answer(h, "failed")
  /\ UNCHANGED <<db, repo, calls>>

CommitFailure(h) ==
  /\ At(h, "records")
  /\ job[h].records = {}
  /\ Abandon(h)
  /\ Answer(h, "failed")
  /\ UNCHANGED <<db, repo, calls>>

\* The step of a day fails and its statement keeps the row it was given.
DayFailure(h) ==
  /\ At(h, "days")
  /\ \E d \in job[h].days :
       repo' = [repo EXCEPT ![h].heldDay = IF @ = {} THEN {d} ELSE @]
  /\ Abandon(h)
  /\ Answer(h, "failed")
  /\ UNCHANGED <<db, calls>>

\* A project row fails.  Nodes inserted before it stay in the tree.
ProjectFailure(h) ==
  /\ At(h, "resolve")
  /\ \E p \in job[h].paths :
       /\ ~Has(repo[h].cache, p)
       /\ LET root == EnsureNode(Resolver(h), RootOf(p))
          IN \/ /\ ~Has(repo[h].tree, RootOf(p))
                /\ UNCHANGED repo
             \/ /\ NodeAllowed(Resolver(h), RootOf(p))
                /\ ~Has(root.tree, p)
                /\ repo' = [repo EXCEPT ![h].tree = root.tree]
  /\ Abandon(h)
  /\ Answer(h, "failed")
  /\ UNCHANGED <<db, calls>>

\* The step of a record fails and its statement keeps the row.
RecordFailure(h) ==
  /\ At(h, "records")
  /\ \E r \in job[h].records :
       repo' = [repo EXCEPT ![h].heldRecord = {StepRow(h, r)}]
  /\ Abandon(h)
  /\ Answer(h, "failed")
  /\ UNCHANGED <<db, calls>>

\* The process dies; the next open rolls the journal back.
Crash(h) ==
  /\ ~At(h, "idle")
  /\ Abandon(h)
  /\ Answer(h, "none")
  /\ repo' = [repo EXCEPT ![h] = FreshRepo]
  /\ UNCHANGED <<db, calls>>

\* The behaviours end with the last call.
Done ==
  /\ calls = MaxCalls
  /\ \A h \in Hosts : At(h, "idle")
  /\ UNCHANGED vars

Step(h) ==
  \/ Begin(h) \/ DeleteRecords(h) \/ DeleteDays(h) \/ DeleteProjects(h)
  \/ InsertDay(h) \/ StartRecords(h) \/ ResolvePath(h) \/ AllResolved(h)
  \/ InsertRecord(h) \/ Commit(h)

Failure(h) ==
  \/ PlainFailure(h) \/ CommitFailure(h) \/ DayFailure(h)
  \/ ProjectFailure(h) \/ RecordFailure(h) \/ Crash(h)

Next ==
  \/ \E h \in Hosts : \/ \E req \in Requests : Call(h, req)
                      \/ Step(h)
                      \/ Failure(h)
  \/ Done

Spec == Init /\ [][Next]_vars

-----------------------------------------------------------------------------
(* Properties.                                                             *)

ProjectRows == [id : Nat \ {0}, name : Names, full : Paths, parent : Nat]
RecordIds   == UNION {{r.id : r \in b.records} : b \in Batches}
RecordRows  == [id : RecordIds, day : Days, snap : Paths, project : Nat]
Databases   == [days : SUBSET Days, projects : SUBSET ProjectRows,
                records : SUBSET RecordRows, seq : Nat]
Nodes       == [path : Paths, id : Nat]
Repos       == [tree : SUBSET Nodes, cache : SUBSET Nodes,
                heldDay : SUBSET Days, heldRecord : SUBSET RecordRows]
WorkPcs     == {"begin", "deleteRecords", "deleteDays", "deleteProjects",
                "days", "resolve", "records", "commit"}
BatchRecords == UNION {b.records : b \in Batches}
Jobs        == [pc : WorkPcs, req : Requests, days : SUBSET Days,
                paths : SUBSET Paths, records : SUBSET BatchRecords]

Results     == {"none", "ok", "failed"}

\* The variables range over the values the code can give them.
TypeOK ==
  /\ db \in Databases
  /\ writer \in Hosts \cup {NoHost}
  /\ tx \in Databases
  /\ repo \in [Hosts -> Repos]
  /\ job \in [Hosts -> Jobs \cup {NoJob}]
  /\ result \in [Hosts -> Results]
  /\ calls \in 0..MaxCalls

\* The deletes of a replacement are never refused by a foreign key: no
\* record is left on a day, or on a project, that the next statement deletes.
DeletesAccepted ==
  \A h \in Hosts :
    /\ At(h, "deleteDays") =>
         \A r \in tx.records : ~Removes(job[h].req, r.day)
    /\ At(h, "deleteProjects") => tx.records = {}

\* The project a record points at, spelled through the parent links as the
\* reports spell it, is the path the record was written with: no report
\* books the time of one activity under another.
SnapshotAgrees ==
  \A r \in db.records : SpelledBy(db.projects, r.project, r.snap)

\* A host that is not in the middle of a call holds no write lock: every
\* way out of a transaction commits it or rolls it back.
NoOrphanTransaction ==
  writer # NoHost => job[writer].pc \notin {"idle", "begin"}

\* A call that changes the database changes it to exactly what the request
\* says, and one that fails or dies changes nothing: the repository
\* implements ImportPromise, reading the records as the reports do.
ReportedTable ==
  {[id |-> x[1].id, day |-> x[1].day, path |-> x[2]] :
     x \in {y \in db.records \X Paths :
              SpelledBy(db.projects, y[1].project, y[2])}}

Promise == INSTANCE ImportPromise
  WITH days <- db.days, table <- ReportedTable,
       pending <- [h \in Hosts |-> job[h].req], result <- result

ImplementsPromise == Promise!Spec
=============================================================================
