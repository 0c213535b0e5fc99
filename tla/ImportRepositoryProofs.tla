----------------------- MODULE ImportRepositoryProofs -----------------------
(***************************************************************************)
(* Proofs about ImportRepository, for every set of hosts, days, months,    *)
(* project names and batches.                                              *)
(***************************************************************************)
EXTENDS ImportRepository, TLAPS

-----------------------------------------------------------------------------
(* The resolver, whatever its tree holds.                                  *)

\* A path is a root or a child, and its root is a root path.
LEMMA PathShape ==
  ASSUME NEW p \in Paths
  PROVE  /\ RootOf(p) \in RootPaths /\ RootOf(p) \in Paths
         /\ NameOf(p) \in Names /\ NameOf(RootOf(p)) = p[1]
         /\ p[1] \in Names
         /\ p \in RootPaths => RootOf(p) = p
         /\ p \notin RootPaths => p \in ChildPaths
BY DEF Paths, RootPaths, ChildPaths, RootOf, NameOf

\* The id of a node that is there.
LEMMA IdInNode ==
  ASSUME NEW nodes, NEW p, Has(nodes, p)
  PROVE  \E n \in nodes : n.path = p /\ IdIn(nodes, p) = n.id
BY DEF Has, IdIn

ResolverStates == [projects : SUBSET ProjectRows, seq : Nat,
                   tree : SUBSET Nodes]

\* EnsurePath, one segment: the rows only grow, the tree only grows and
\* gains the node, and the types are kept, provided a child's root is there.
LEMMA EnsureNodeType ==
  ASSUME NEW st \in ResolverStates, NEW p \in Paths,
         p \in RootPaths \/ Has(st.tree, RootOf(p))
  PROVE  /\ EnsureNode(st, p) \in ResolverStates
         /\ Has(EnsureNode(st, p).tree, p)
         /\ st.tree \subseteq EnsureNode(st, p).tree
         /\ st.projects \subseteq EnsureNode(st, p).projects
<1>1. CASE Has(st.tree, p)
  BY <1>1 DEF EnsureNode
<1>2. CASE ~Has(st.tree, p)
  <2> DEFINE row == NewRow(st, p)
  <2>1. row.parent \in Nat
    <3>1. CASE p \in RootPaths
      BY <3>1 DEF NewRow
    <3>2. CASE p \notin RootPaths
      <4>1. PICK n \in st.tree : IdIn(st.tree, RootOf(p)) = n.id
        BY <3>2, IdInNode
      <4> QED BY <4>1, <3>2 DEF NewRow, ResolverStates, Nodes
    <3> QED BY <3>1, <3>2
  <2>2. row \in ProjectRows
    BY <2>1, PathShape DEF NewRow, ProjectRows, ResolverStates
  <2>3. [path |-> p, id |-> st.seq + 1] \in Nodes
    BY DEF Nodes, ResolverStates
  <2>4. EnsureNode(st, p) =
          [projects |-> st.projects \cup {row}, seq |-> st.seq + 1,
           tree |-> st.tree \cup {[path |-> p, id |-> st.seq + 1]}]
    BY <1>2 DEF EnsureNode
  <2> HIDE DEF row
  <2> QED BY <2>2, <2>3, <2>4 DEF ResolverStates, Has
<1> QED BY <1>1, <1>2

\* EnsurePath, a whole path.
LEMMA EnsurePathType ==
  ASSUME NEW st \in ResolverStates, NEW p \in Paths
  PROVE  LET mid == EnsureNode(st, RootOf(p))
             end == EnsureNode(mid, p)
         IN /\ mid \in ResolverStates /\ end \in ResolverStates
            /\ Has(mid.tree, RootOf(p)) /\ Has(end.tree, p)
            /\ st.projects \subseteq mid.projects
            /\ mid.projects \subseteq end.projects
            /\ IdIn(end.tree, p) \in Nat
<1> DEFINE mid == EnsureNode(st, RootOf(p))
           end == EnsureNode(mid, p)
<1>1. /\ mid \in ResolverStates /\ Has(mid.tree, RootOf(p))
      /\ st.projects \subseteq mid.projects
  BY EnsureNodeType, PathShape
<1> HIDE DEF mid
<1>2. /\ end \in ResolverStates /\ Has(end.tree, p)
      /\ mid.projects \subseteq end.projects
  BY <1>1, EnsureNodeType
<1> HIDE DEF end
<1>3. IdIn(end.tree, p) \in Nat
  BY <1>2, IdInNode DEF ResolverStates, Nodes
<1> QED BY <1>1, <1>2, <1>3 DEF mid, end

-----------------------------------------------------------------------------
(* Type correctness.  A record row takes its project id from the cache, so *)
(* the types need the cache to know every path still to be written.        *)

PathsCached ==
  \A h \in Hosts :
    /\ \A r \in job[h].records :
         r.path \in job[h].paths \/ Has(repo[h].cache, r.path)
    /\ At(h, "records") => job[h].paths = {}

TypeInv == TypeOK /\ PathsCached

LEMMA RequestType ==
  ASSUME NEW req \in Requests
  PROVE  /\ req.batch \in Batches
         /\ req.batch.days \subseteq Days
         /\ req.batch.records \subseteq BatchRecords
         /\ {r.path : r \in req.batch.records} \subseteq Paths
         /\ \A r \in req.batch.records : r.day \in req.batch.days
BY BatchesAssumption DEF Requests, BatchRecords

LEMMA BatchRecordType ==
  ASSUME NEW r \in BatchRecords
  PROVE  r.id \in RecordIds /\ r.day \in Days /\ r.path \in Paths
BY BatchesAssumption DEF BatchRecords, RecordIds

LEMMA ViewType ==
  ASSUME TypeOK, NEW h \in Hosts
  PROVE  View(h) \in Databases
BY DEF TypeOK, View

\* The row a record step writes is typed, when the cache has its path.
LEMMA StepRowType ==
  ASSUME TypeOK, NEW h \in Hosts, NEW r \in BatchRecords,
         Has(repo[h].cache, r.path)
  PROVE  StepRow(h, r) \in RecordRows
<1>1. repo[h].heldRecord \subseteq RecordRows /\ repo[h].cache \subseteq Nodes
  BY DEF TypeOK, Repos
<1>2. CASE repo[h].heldRecord = {}
  <2>1. IdIn(repo[h].cache, r.path) \in Nat
    BY <1>1, IdInNode DEF Nodes
  <2> QED BY <1>2, <2>1, BatchRecordType DEF StepRow, RowOf, RecordRows
<1>3. CASE repo[h].heldRecord # {}
  BY <1>1, <1>3 DEF StepRow
<1> QED BY <1>2, <1>3

LEMMA TypeInit == Init => TypeInv
BY BoundAssumption
   DEF Init, TypeInv, TypeOK, Results, PathsCached, EmptyDb, Databases,
       FreshRepo,
       Repos, NoJob, At

LEMMA AbandonType ==
  ASSUME TypeOK, NEW h \in Hosts, Abandon(h)
  PROVE  /\ writer' \in Hosts \cup {NoHost} /\ tx' \in Databases
         /\ job' \in [Hosts -> Jobs \cup {NoJob}]
BY DEF TypeOK, Abandon, EmptyDb, Databases

LEMMA AnswerType ==
  ASSUME TypeOK, NEW h \in Hosts, NEW r \in Results, Answer(h, r)
  PROVE  result' \in [Hosts -> Results]
BY DEF TypeOK, Answer

\* A host at work has a job record.
LEMMA AtWork ==
  ASSUME TypeOK, NEW h \in Hosts, ~At(h, "idle")
  PROVE  job[h] \in Jobs
BY DEF TypeOK, At, NoJob

LEMMA RepoChanged ==
  ASSUME TypeOK, NEW h \in Hosts, NEW new \in Repos,
         repo' = [repo EXCEPT ![h] = new]
  PROVE  repo' \in [Hosts -> Repos]
BY DEF TypeOK

\* One lemma per group of actions: the working steps that touch no cache,
LEMMA TypePlainStep ==
  ASSUME TypeInv, NEW h \in Hosts,
         \/ Begin(h) \/ DeleteRecords(h) \/ DeleteDays(h)
         \/ DeleteProjects(h) \/ InsertDay(h) \/ Commit(h)
  PROVE  TypeInv'
<1> USE DEF TypeInv
<1>0. View(h) \in Databases
  BY ViewType
<1>1. CASE Begin(h)
  BY <1>1, AtWork DEF Begin, TypeOK, PathsCached, At, Goto, Jobs, WorkPcs
<1>2. CASE DeleteRecords(h)
  <2>1. tx' \in Databases /\ writer' = h
    BY <1>0, <1>2 DEF DeleteRecords, Write, Databases
  <2>2. job[h] \in Jobs
    BY <1>2, AtWork DEF DeleteRecords, At
  <2>3. job' \in [Hosts -> Jobs \cup {NoJob}]
    BY <1>2, <2>2 DEF DeleteRecords, TypeOK, Goto, Jobs, WorkPcs
  <2>4. PathsCached'
    BY <1>2, <2>2 DEF DeleteRecords, TypeOK, PathsCached, Goto, At, Jobs
  <2> QED BY <1>2, <2>1, <2>3, <2>4 DEF DeleteRecords, TypeOK
<1>3. CASE DeleteDays(h)
  <2>1. tx' \in Databases /\ writer' = h
    BY <1>0, <1>3 DEF DeleteDays, Write, Databases
  <2>2. job[h] \in Jobs
    BY <1>3, AtWork DEF DeleteDays, At
  <2>3. job' \in [Hosts -> Jobs \cup {NoJob}]
    BY <1>3, <2>2 DEF DeleteDays, TypeOK, Goto, Jobs, WorkPcs
  <2>4. PathsCached'
    BY <1>3, <2>2 DEF DeleteDays, TypeOK, PathsCached, Goto, At, Jobs
  <2> QED BY <1>3, <2>1, <2>3, <2>4 DEF DeleteDays, TypeOK
<1>4. CASE DeleteProjects(h)
  <2>1. tx' \in Databases /\ writer' = h
    BY <1>0, <1>4 DEF DeleteProjects, Write, Databases
  <2>2. job[h] \in Jobs
    BY <1>4, AtWork DEF DeleteProjects, At
  <2>3. job' \in [Hosts -> Jobs \cup {NoJob}]
    BY <1>4, <2>2 DEF DeleteProjects, TypeOK, Goto, Jobs, WorkPcs
  <2>4. PathsCached'
    BY <1>4, <2>2 DEF DeleteProjects, TypeOK, PathsCached, Goto, At, Jobs
  <2> QED BY <1>4, <2>1, <2>3, <2>4 DEF DeleteProjects, TypeOK
<1>5. CASE InsertDay(h)
  <2>1. PICK d \in job[h].days :
          /\ Write(h, [View(h) EXCEPT !.days =
                         @ \cup IF repo[h].heldDay = {} THEN {d}
                                ELSE repo[h].heldDay])
          /\ job' = [job EXCEPT ![h].days = @ \ {d}]
    BY <1>5 DEF InsertDay
  <2>2. job[h] \in Jobs
    BY <1>5, AtWork DEF InsertDay, At
  <2>3. tx' \in Databases /\ writer' = h
    BY <1>0, <2>1, <2>2 DEF Write, Databases, Jobs, TypeOK, Repos
  <2>4. repo' \in [Hosts -> Repos]
    <3>1. [repo[h] EXCEPT !.heldDay = {}] \in Repos
      BY DEF TypeOK, Repos
    <3> QED BY <1>5, <3>1, RepoChanged DEF InsertDay
  <2>5. [job[h] EXCEPT !.days = @ \ {d}] \in Jobs
    BY <2>2 DEF Jobs
  <2>6. job' \in [Hosts -> Jobs \cup {NoJob}]
    BY <2>1, <2>5 DEF TypeOK
  <2>7. \A g \in Hosts : /\ job'[g].records = job[g].records
                         /\ job'[g].paths = job[g].paths
                         /\ job'[g].pc = job[g].pc
    BY <2>1, <2>2 DEF TypeOK, Jobs
  <2>8. \A g \in Hosts : repo'[g].cache = repo[g].cache
    BY <1>5 DEF InsertDay, TypeOK, Repos
  <2>9. PathsCached'
    BY <2>7, <2>8 DEF PathsCached, At
  <2> QED BY <1>5, <2>3, <2>4, <2>6, <2>9 DEF InsertDay, TypeOK
<1>6. CASE Commit(h)
  <2>1. result' \in [Hosts -> Results]
    BY <1>6, AnswerType DEF Commit, Results, TypeOK
  <2>2. db' \in Databases /\ UNCHANGED <<repo, calls>> /\ Abandon(h)
    BY <1>0, <1>6 DEF Commit
  <2>3. PathsCached'
    BY <2>2 DEF Abandon, TypeOK, PathsCached, At, NoJob
  <2> QED BY <2>1, <2>2, <2>3, AbandonType DEF TypeOK
<1> QED BY <1>1, <1>2, <1>3, <1>4, <1>5, <1>6

\* the calls and the failures,
LEMMA TypeCall ==
  ASSUME TypeInv, NEW h \in Hosts, NEW req \in Requests, Call(h, req)
  PROVE  TypeInv'
<1>1. calls' \in 0..MaxCalls
  BY BoundAssumption DEF Call, TypeInv, TypeOK
<1>2. job'[h] \in Jobs
  BY RequestType DEF Call, Jobs, WorkPcs, TypeInv, TypeOK
<1>3. repo' \in [Hosts -> Repos]
  BY DEF Call, TypeInv, TypeOK, FreshRepo, Repos
<1>4. TypeOK'
  BY <1>1, <1>2, <1>3 DEF Call, TypeInv, TypeOK
<1>5. PathsCached'
  BY DEF Call, TypeInv, TypeOK, PathsCached, At, FreshRepo
<1> QED BY <1>4, <1>5 DEF TypeInv

LEMMA TypeFailure ==
  ASSUME TypeInv, NEW h \in Hosts, Failure(h)
  PROVE  TypeInv'
<1> USE DEF TypeInv
<1>1. /\ writer' \in Hosts \cup {NoHost} /\ tx' \in Databases
      /\ job' \in [Hosts -> Jobs \cup {NoJob}]
      /\ Abandon(h) /\ UNCHANGED <<db, calls>>
      /\ result' \in [Hosts -> Results]
  <2>1. /\ Abandon(h) /\ UNCHANGED <<db, calls>>
        /\ Answer(h, "failed") \/ Answer(h, "none")
    BY DEF Failure, PlainFailure, CommitFailure, DayFailure, ProjectFailure,
           RecordFailure, Crash
  <2>2. result' \in [Hosts -> Results]
    BY <2>1, AnswerType DEF Results
  <2> QED BY <2>1, <2>2, AbandonType
<1>2. ASSUME repo' \in [Hosts -> Repos],
             \A g \in Hosts \ {h} : repo'[g] = repo[g]
      PROVE  TypeInv'
  BY <1>1, <1>2 DEF TypeOK, PathsCached, Abandon, At, NoJob
<1>3. CASE PlainFailure(h) \/ CommitFailure(h)
  BY <1>2, <1>3 DEF PlainFailure, CommitFailure, TypeOK
<1>4. CASE DayFailure(h)
  <2>1. job[h] \in Jobs
    BY <1>4, AtWork DEF DayFailure, At
  <2> QED BY <1>2, <1>4, <2>1 DEF DayFailure, TypeOK, Repos, Jobs
<1>5. CASE ProjectFailure(h)
  <2>1. job[h] \in Jobs
    BY <1>5, AtWork DEF ProjectFailure, At
  <2>2. PICK p \in job[h].paths :
          \/ UNCHANGED repo
          \/ repo' = [repo EXCEPT ![h].tree =
                        EnsureNode(Resolver(h), RootOf(p)).tree]
    BY <1>5 DEF ProjectFailure
  <2>3. p \in Paths /\ Resolver(h) \in ResolverStates
    BY <2>1, ViewType
       DEF Jobs, Resolver, ResolverStates, Databases, TypeOK, Repos
  <2>4. EnsureNode(Resolver(h), RootOf(p)) \in ResolverStates
    BY <2>3, EnsurePathType
  <2>5. repo \in [Hosts -> Repos]
    BY DEF TypeOK
  <2>6. /\ repo' \in [Hosts -> Repos]
        /\ \A g \in Hosts \ {h} : repo'[g] = repo[g]
    <3>1. CASE UNCHANGED repo
      BY <2>5, <3>1
    <3>2. CASE repo' = [repo EXCEPT ![h].tree =
                          EnsureNode(Resolver(h), RootOf(p)).tree]
      BY <2>4, <2>5, <3>2 DEF Repos, ResolverStates
    <3> QED BY <2>2, <3>1, <3>2
  <2> QED BY <1>2, <2>6
<1>6. CASE RecordFailure(h)
  <2>1. job[h] \in Jobs
    BY <1>6, AtWork DEF RecordFailure, At
  <2>2. PICK r \in job[h].records :
          repo' = [repo EXCEPT ![h].heldRecord = {StepRow(h, r)}]
    BY <1>6 DEF RecordFailure
  <2>3. StepRow(h, r) \in RecordRows
    BY <1>6, <2>1, StepRowType DEF RecordFailure, Jobs, PathsCached
  <2> QED BY <1>2, <2>2, <2>3 DEF TypeOK, Repos
<1>7. CASE Crash(h)
  BY <1>2, <1>7 DEF Crash, TypeOK, FreshRepo, Repos
<1> QED BY <1>3, <1>4, <1>5, <1>6, <1>7 DEF Failure

\* and the steps that fill and use the cache.
LEMMA TypeRecordsStep ==
  ASSUME TypeInv, NEW h \in Hosts,
         \/ StartRecords(h) \/ ResolvePath(h) \/ AllResolved(h)
         \/ InsertRecord(h)
  PROVE  TypeInv'
<1> USE DEF TypeInv
<1>0. View(h) \in Databases /\ job[h] \in Jobs
  BY ViewType, AtWork
     DEF StartRecords, ResolvePath, AllResolved, InsertRecord, At
<1>1. CASE StartRecords(h)
  <2>1. LoadedTree(View(h).projects) \subseteq Nodes
    BY <1>0 DEF LoadedTree, Nodes, Databases, ProjectRows
  <2>2. repo' \in [Hosts -> Repos]
    <3>1. [repo[h] EXCEPT !.tree = LoadedTree(View(h).projects)] \in Repos
      BY <2>1 DEF TypeOK, Repos
    <3> QED BY <1>1, <3>1, RepoChanged DEF StartRecords, TypeOK
  <2>3. job' \in [Hosts -> Jobs \cup {NoJob}]
    BY <1>0, <1>1 DEF StartRecords, TypeOK, Goto, Jobs, WorkPcs
  <2>4. \A g \in Hosts : /\ job'[g].records = job[g].records
                         /\ job'[g].paths = job[g].paths
                         /\ repo'[g].cache = repo[g].cache
                         /\ At(g, "records")' => At(g, "records")
    BY <1>0, <1>1 DEF StartRecords, TypeOK, Goto, Jobs, Repos, At
  <2>5. PathsCached'
    BY <2>4 DEF PathsCached
  <2> QED BY <1>1, <2>2, <2>3, <2>5 DEF StartRecords, TypeOK
<1>2. CASE ResolvePath(h)
  <2> DEFINE mid(p) == EnsureNode(Resolver(h), RootOf(p))
             end(p) == EnsureNode(mid(p), p)
  <2>1. PICK p \in job[h].paths :
          /\ job' = [job EXCEPT ![h].paths = @ \ {p}]
          /\ \/ Has(repo[h].cache, p) /\ UNCHANGED <<writer, tx, repo>>
             \/ /\ Write(h, [View(h) EXCEPT !.projects = end(p).projects,
                                            !.seq = end(p).seq])
                /\ repo' = [repo EXCEPT ![h] =
                              [repo[h] EXCEPT !.tree = end(p).tree,
                                        !.cache = @ \cup {
                                          [path |-> p,
                                           id |-> IdIn(end(p).tree, p)]}]]
    BY <1>2 DEF ResolvePath
  <2>2. p \in Paths /\ Resolver(h) \in ResolverStates
    BY <1>0 DEF Jobs, Resolver, ResolverStates, Databases, TypeOK, Repos
  <2>3. end(p) \in ResolverStates /\ IdIn(end(p).tree, p) \in Nat
    BY <2>2, EnsurePathType
  <2> HIDE DEF mid, end
  <2>4. /\ tx' \in Databases /\ writer' \in Hosts \cup {NoHost}
        /\ repo' \in [Hosts -> Repos]
        /\ repo[h].cache \subseteq repo'[h].cache
        /\ Has(repo'[h].cache, p)
        /\ \A g \in Hosts \ {h} : repo'[g] = repo[g]
    <3>1. CASE Has(repo[h].cache, p) /\ UNCHANGED <<writer, tx, repo>>
      BY <3>1 DEF TypeOK
    <3>2. CASE /\ Write(h, [View(h) EXCEPT !.projects = end(p).projects,
                                           !.seq = end(p).seq])
               /\ repo' = [repo EXCEPT ![h] =
                             [repo[h] EXCEPT !.tree = end(p).tree,
                                       !.cache = @ \cup {
                                         [path |-> p,
                                          id |-> IdIn(end(p).tree, p)]}]]
      <4>1. tx' \in Databases /\ writer' \in Hosts \cup {NoHost}
        BY <1>0, <2>3, <3>2 DEF Write, Databases, ResolverStates
      <4>2. [path |-> p, id |-> IdIn(end(p).tree, p)] \in Nodes
        BY <2>2, <2>3 DEF Nodes
      <4> DEFINE node == [path |-> p, id |-> IdIn(end(p).tree, p)]
      <4> DEFINE after == [repo[h] EXCEPT !.tree = end(p).tree,
                                          !.cache = @ \cup {node}]
      <4>3. node.path = p /\ repo' = [repo EXCEPT ![h] = after]
        BY <3>2
      <4>4. node \in Nodes /\ repo[h] \in Repos
        BY <4>2 DEF TypeOK
      <4> HIDE DEF node
      <4>5. after \in Repos /\ after.cache = repo[h].cache \cup {node}
        BY <2>3, <4>4 DEF Repos, ResolverStates
      <4> HIDE DEF after
      <4>6. repo' \in [Hosts -> Repos] /\ repo'[h] = after
        BY <4>3, <4>5 DEF TypeOK
      <4> QED BY <4>1, <4>3, <4>5, <4>6 DEF Has
    <3> QED BY <2>1, <3>1, <3>2
  <2>5. job' = [job EXCEPT ![h] = [job[h] EXCEPT !.paths = @ \ {p}]]
    BY <2>1
  <2>6. [job[h] EXCEPT !.paths = @ \ {p}] \in Jobs
    BY <1>0 DEF Jobs
  <2>7. \A g \in Hosts : /\ job'[g].records = job[g].records
                         /\ job'[g].pc = job[g].pc
                         /\ g # h => job'[g].paths = job[g].paths
    BY <1>0, <2>5 DEF Jobs, TypeOK
  <2>8. job'[h].paths = job[h].paths \ {p} /\ ~At(h, "records")
    BY <1>0, <1>2, <2>5 DEF Jobs, TypeOK, ResolvePath, At
  <2>9. \A q : Has(repo[h].cache, q) => Has(repo'[h].cache, q)
    BY <2>4 DEF Has
  <2>10. PathsCached'
    BY <2>4, <2>7, <2>8, <2>9 DEF PathsCached, At
  <2> QED BY <1>2, <2>4, <2>5, <2>6, <2>10 DEF ResolvePath, TypeOK
<1>3. CASE AllResolved(h)
  <2>1. job' \in [Hosts -> Jobs \cup {NoJob}]
    BY <1>0, <1>3 DEF AllResolved, TypeOK, Goto, Jobs, WorkPcs
  <2>2. PathsCached'
    BY <1>0, <1>3 DEF AllResolved, TypeOK, PathsCached, Goto, At, Jobs
  <2> QED BY <1>3, <2>1, <2>2 DEF AllResolved, TypeOK
<1>4. CASE InsertRecord(h)
  <2>1. PICK r \in job[h].records :
          /\ Write(h, [View(h) EXCEPT !.records = Upsert(@, StepRow(h, r))])
          /\ job' = [job EXCEPT ![h].records = @ \ {r}]
    BY <1>4 DEF InsertRecord
  <2>2. StepRow(h, r) \in RecordRows
    BY <1>0, <1>4, StepRowType DEF InsertRecord, PathsCached, Jobs
  <2>3. tx' \in Databases /\ writer' = h
    BY <1>0, <2>1, <2>2 DEF Write, Databases, Upsert
  <2>4. repo' \in [Hosts -> Repos]
    <3>1. [repo[h] EXCEPT !.heldRecord = {}] \in Repos
      BY DEF TypeOK, Repos
    <3> QED BY <1>4, <3>1, RepoChanged DEF InsertRecord
  <2>5. [job[h] EXCEPT !.records = @ \ {r}] \in Jobs
    BY <1>0 DEF Jobs
  <2>6. job' \in [Hosts -> Jobs \cup {NoJob}]
    BY <2>1, <2>5 DEF TypeOK
  <2>7. \A g \in Hosts : /\ job'[g].records \subseteq job[g].records
                         /\ job'[g].paths = job[g].paths
                         /\ job'[g].pc = job[g].pc
                         /\ repo'[g].cache = repo[g].cache
    BY <1>0, <1>4, <2>1 DEF InsertRecord, TypeOK, Jobs, Repos
  <2>8. PathsCached'
    BY <2>7 DEF PathsCached, At
  <2> QED BY <1>4, <2>3, <2>4, <2>6, <2>8 DEF InsertRecord, TypeOK
<1> QED BY <1>1, <1>2, <1>3, <1>4

LEMMA TypeNext == TypeInv /\ [Next]_vars => TypeInv'
<1> SUFFICES ASSUME TypeInv, [Next]_vars PROVE TypeInv'
  OBVIOUS
<1>1. CASE UNCHANGED vars
  BY <1>1 DEF vars, TypeInv, TypeOK, PathsCached, At
<1>2. ASSUME NEW h \in Hosts, Step(h) PROVE TypeInv'
  BY <1>2, TypePlainStep, TypeRecordsStep DEF Step
<1> QED BY <1>1, <1>2, TypeCall, TypeFailure DEF Next, Done

\* The variables stay within the values the code can give them.
THEOREM TypeCorrect == Spec => []TypeOK
<1>1. TypeInv => TypeOK
  BY DEF TypeInv
<1> QED BY <1>1, TypeInit, TypeNext, PTL DEF Spec

-----------------------------------------------------------------------------
(* The write lock.  Which steps hold it, and why: every transaction writes *)
(* before it resolves a project, since records come with their days.       *)

LockInv ==
  \A h \in Hosts :
    /\ writer = h => ~At(h, "idle") /\ ~At(h, "begin")
    /\ job[h].pc \in {"deleteDays", "deleteProjects", "resolve", "records"}
         => writer = h
    /\ At(h, "begin") => job[h].days = job[h].req.batch.days
    /\ At(h, "days") => \/ writer = h
                        \/ /\ job[h].req.kind = "import"
                           /\ job[h].days = job[h].req.batch.days
    /\ ~At(h, "idle") => job[h].records \subseteq job[h].req.batch.records

LEMMA LockInit == Init => LockInv
<1> SUFFICES ASSUME Init PROVE LockInv
  OBVIOUS
<1>1. \A h \in Hosts : job[h].pc = "idle" /\ writer # h
  BY HostsAssumption DEF Init, NoJob
<1> QED BY <1>1 DEF LockInv, At

\* What a step of h that keeps the lock must show about h.
LEMMA LockKept ==
  ASSUME LockInv, TypeOK, NEW h \in Hosts,
         writer \in {h, NoHost},
         writer' = h,
         NEW new, job' = [job EXCEPT ![h] = new],
         new.pc \notin {"idle", "begin"},
         new.records \subseteq new.req.batch.records
  PROVE  LockInv'
<1>1. job'[h] = new /\ \A g \in Hosts \ {h} : job'[g] = job[g]
  BY DEF TypeOK
<1>2. \A g \in Hosts \ {h} : writer # g /\ writer' # g
  BY HostsAssumption
<1> QED BY <1>1, <1>2 DEF LockInv, At

\* What a step of h that does not touch the lock must show about h.
LEMMA LockUntouched ==
  ASSUME LockInv, TypeOK, NEW h \in Hosts,
         writer' = writer,
         NEW new, job' = [job EXCEPT ![h] = new],
         writer = h => new.pc \notin {"idle", "begin"},
         new.pc \notin {"deleteDays", "deleteProjects", "resolve", "records"}
           \/ writer = h,
         new.pc = "days" => \/ writer = h
                            \/ /\ new.req.kind = "import"
                               /\ new.days = new.req.batch.days,
         new.pc = "begin" => new.days = new.req.batch.days,
         new.pc # "idle" => new.records \subseteq new.req.batch.records
  PROVE  LockInv'
<1>1. job'[h] = new /\ \A g \in Hosts \ {h} : job'[g] = job[g]
  BY DEF TypeOK
<1> QED BY <1>1 DEF LockInv, At

LEMMA LockAbandoned ==
  ASSUME LockInv, TypeOK, NEW h \in Hosts, Abandon(h)
  PROVE  LockInv'
BY HostsAssumption DEF LockInv, TypeOK, Abandon, At, NoJob

LEMMA LockNext == TypeInv /\ LockInv /\ [Next]_vars => LockInv'
<1> SUFFICES ASSUME TypeInv, LockInv, [Next]_vars PROVE LockInv'
  OBVIOUS
<1> USE DEF TypeInv
<1>1. CASE UNCHANGED vars
  BY <1>1 DEF vars, LockInv, At
<1>2. ASSUME NEW h \in Hosts, NEW req \in Requests, Call(h, req)
      PROVE  LockInv'
  <2> DEFINE new == [pc |-> "begin", req |-> req, days |-> req.batch.days,
                     paths |-> {r.path : r \in req.batch.records},
                     records |-> req.batch.records]
  <2>1. writer # h
    BY <1>2 DEF Call, LockInv
  <2>2. job' = [job EXCEPT ![h] = new] /\ writer' = writer
    BY <1>2 DEF Call
  <2>3. /\ new.pc = "begin" /\ new.records = new.req.batch.records
        /\ new.days = new.req.batch.days
    OBVIOUS
  <2> HIDE DEF new
  <2> QED BY <2>1, <2>2, <2>3, LockUntouched
<1>3. ASSUME NEW h \in Hosts, Failure(h) PROVE LockInv'
  <2>1. Abandon(h)
    BY <1>3 DEF Failure, PlainFailure, CommitFailure, DayFailure,
                ProjectFailure, RecordFailure, Crash
  <2> QED BY <2>1, LockAbandoned
<1>4. ASSUME NEW h \in Hosts, Step(h) PROVE LockInv'
  <2>0. ASSUME ~At(h, "idle")
        PROVE  /\ job[h] \in Jobs /\ job[h].req \in Requests
               /\ job[h].records \subseteq job[h].req.batch.records
    BY <2>0, AtWork DEF LockInv, Jobs
  <2>1. CASE Begin(h)
    <3> DEFINE new == [job[h] EXCEPT !.pc =
               IF job[h].req.kind = "import" THEN "days" ELSE "deleteRecords"]
    <3>1. /\ job[h] \in Jobs /\ ~At(h, "idle")
          /\ writer # h /\ writer' = writer
      BY <2>0, <2>1 DEF Begin, At, LockInv
    <3>2. job[h].days = job[h].req.batch.days
      BY <2>1 DEF Begin, LockInv, At
    <3>3. /\ new.pc \in {"days", "deleteRecords"}
          /\ new.pc = "days" => new.req.kind = "import"
          /\ new.records = job[h].records /\ new.days = job[h].days
          /\ new.req = job[h].req /\ job' = [job EXCEPT ![h] = new]
      BY <2>1, <3>1 DEF Begin, Goto, Jobs
    <3> HIDE DEF new
    <3> QED BY <2>0, <3>1, <3>2, <3>3, LockUntouched
  <2>2. CASE DeleteRecords(h) \/ DeleteDays(h) \/ DeleteProjects(h)
    <3>1. PICK pc \in {"deleteDays", "deleteProjects", "days"} :
            Goto(h, pc) /\ CanWrite(h) /\ writer' = h
      BY <2>2 DEF DeleteRecords, DeleteDays, DeleteProjects, Write
    <3>2. job[h] \in Jobs
      BY <2>0, <2>2 DEF DeleteRecords, DeleteDays, DeleteProjects, At
    <3> DEFINE new == [job[h] EXCEPT !.pc = pc]
    <3>3. /\ new.pc = pc /\ new.records = job[h].records
          /\ new.req = job[h].req /\ job' = [job EXCEPT ![h] = new]
      BY <3>1, <3>2 DEF Jobs, Goto
    <3> HIDE DEF new
    <3>4. ~At(h, "idle")
      BY <2>2 DEF DeleteRecords, DeleteDays, DeleteProjects, At
    <3> QED BY <2>0, <3>1, <3>3, <3>4, LockKept DEF CanWrite
  <2>3. CASE InsertDay(h)
    <3>1. PICK d \in job[h].days : /\ writer' = h
                                   /\ job' = [job EXCEPT ![h].days = @ \ {d}]
      BY <2>3 DEF InsertDay, Write
    <3>2. job[h] \in Jobs /\ ~At(h, "idle") /\ job[h].pc = "days"
      BY <2>0, <2>3 DEF InsertDay, At
    <3> DEFINE new == [job[h] EXCEPT !.days = @ \ {d}]
    <3>3. /\ new.pc = "days" /\ new.records = job[h].records
          /\ new.req = job[h].req /\ job' = [job EXCEPT ![h] = new]
      BY <3>1, <3>2 DEF Jobs
    <3> HIDE DEF new
    <3> QED BY <2>0, <2>3, <3>1, <3>2, <3>3, LockKept DEF InsertDay, CanWrite
  <2>4. CASE StartRecords(h)
    <3>1. PICK pc \in {"commit", "resolve"} :
            /\ Goto(h, pc) /\ writer' = writer
            /\ pc = "resolve" => job[h].records # {}
      BY <2>4 DEF StartRecords
    <3>2. job[h] \in Jobs /\ ~At(h, "idle")
      BY <2>0, <2>4 DEF StartRecords, At
    <3>3. pc = "resolve" => writer = h
      <4> SUFFICES ASSUME pc = "resolve" PROVE writer = h
        OBVIOUS
      <4>1. job[h].req.batch.records # {}
        BY <2>0, <3>1, <3>2
      <4>2. job[h].req.batch.days # {}
        BY <2>0, <3>2, <4>1, RequestType
      <4> QED BY <2>4, <4>2 DEF StartRecords, LockInv
    <3> DEFINE new == [job[h] EXCEPT !.pc = pc]
    <3>4. /\ new.pc = pc /\ new.records = job[h].records
          /\ new.req = job[h].req /\ job' = [job EXCEPT ![h] = new]
      BY <3>1, <3>2 DEF Jobs, Goto
    <3> HIDE DEF new
    <3> QED BY <2>0, <3>1, <3>2, <3>3, <3>4, LockUntouched
  <2>5. CASE ResolvePath(h)
    <3>1. PICK p \in job[h].paths : job' = [job EXCEPT ![h].paths = @ \ {p}]
      BY <2>5 DEF ResolvePath
    <3>2. /\ job[h] \in Jobs /\ ~At(h, "idle") /\ job[h].pc = "resolve"
          /\ writer = h /\ writer' = h
      BY <2>0, <2>5 DEF ResolvePath, At, Write, LockInv
    <3> DEFINE new == [job[h] EXCEPT !.paths = @ \ {p}]
    <3>3. /\ new.pc = "resolve" /\ new.records = job[h].records
          /\ new.req = job[h].req /\ job' = [job EXCEPT ![h] = new]
      BY <3>1, <3>2 DEF Jobs
    <3> HIDE DEF new
    <3> QED BY <2>0, <3>2, <3>3, LockKept
  <2>6. CASE AllResolved(h)
    <3>1. /\ job[h] \in Jobs /\ ~At(h, "idle")
          /\ writer = h /\ writer' = h /\ Goto(h, "records")
      BY <2>0, <2>6 DEF AllResolved, At, LockInv
    <3> DEFINE new == [job[h] EXCEPT !.pc = "records"]
    <3>3. /\ new.pc = "records" /\ new.records = job[h].records
          /\ new.req = job[h].req /\ job' = [job EXCEPT ![h] = new]
      BY <3>1 DEF Jobs, Goto
    <3> HIDE DEF new
    <3> QED BY <2>0, <3>1, <3>3, LockKept
  <2>7. CASE InsertRecord(h)
    <3>1. PICK r \in job[h].records :
            /\ writer' = h
            /\ job' = [job EXCEPT ![h].records = @ \ {r}]
      BY <2>7 DEF InsertRecord, Write
    <3>2. job[h] \in Jobs /\ ~At(h, "idle") /\ job[h].pc = "records"
      BY <2>0, <2>7 DEF InsertRecord, At
    <3> DEFINE new == [job[h] EXCEPT !.records = @ \ {r}]
    <3>3. /\ new.pc = "records" /\ new.records \subseteq job[h].records
          /\ new.req = job[h].req /\ job' = [job EXCEPT ![h] = new]
      BY <3>1, <3>2 DEF Jobs
    <3> HIDE DEF new
    <3> QED BY <2>0, <2>7, <3>1, <3>2, <3>3, LockKept
            DEF InsertRecord, CanWrite
  <2>8. CASE Commit(h)
    BY <2>8, LockAbandoned DEF Commit
  <2> QED BY <1>4, <2>1, <2>2, <2>3, <2>4, <2>5, <2>6, <2>7, <2>8 DEF Step
<1> QED BY <1>1, <1>2, <1>3, <1>4 DEF Next, Done

\* A host that is not in the middle of a call holds no write lock.
THEOREM LockReleased == Spec => []NoOrphanTransaction
<1>1. TypeInv /\ LockInv => NoOrphanTransaction
  BY DEF TypeInv, TypeOK, LockInv, NoOrphanTransaction, At
<1>2. Init => TypeInv /\ LockInv
  BY TypeInit, LockInit
<1>3. TypeInv /\ LockInv /\ [Next]_vars => (TypeInv /\ LockInv)'
  BY TypeNext, LockNext
<1> QED BY <1>1, <1>2, <1>3, PTL DEF Spec

-----------------------------------------------------------------------------
(* Deletes.  A replacement deletes the records before their days, and all  *)
(* records before the projects; nobody else writes in between.             *)

LEMMA DeletesInit == Init => DeletesAccepted
<1> SUFFICES ASSUME Init PROVE DeletesAccepted
  OBVIOUS
<1>1. \A h \in Hosts : job[h].pc = "idle"
  BY DEF Init, NoJob
<1> QED BY <1>1 DEF DeletesAccepted, At

\* What a step of h that may write must show about h.
LEMMA DeletesWritten ==
  ASSUME DeletesAccepted, LockInv, NEW h \in Hosts, CanWrite(h),
         \A g \in Hosts \ {h} : job'[g] = job[g],
         job'[h].pc = "deleteDays" =>
           \A r \in tx'.records : ~Removes(job'[h].req, r.day),
         job'[h].pc = "deleteProjects" => tx'.records = {}
  PROVE  DeletesAccepted'
<1>1. \A g \in Hosts \ {h} : writer # g
  BY HostsAssumption DEF CanWrite
<1> QED BY <1>1 DEF DeletesAccepted, LockInv, At

\* A step of h that leaves the transactions of the others alone.
LEMMA DeletesElsewhere ==
  ASSUME DeletesAccepted, LockInv, NEW h \in Hosts,
         tx' = tx \/ writer = h,
         \A g \in Hosts \ {h} : job'[g] = job[g],
         job'[h].pc \notin {"deleteDays", "deleteProjects"}
  PROVE  DeletesAccepted'
<1>1. ASSUME NEW g \in Hosts, g # h
      PROVE  /\ At(g, "deleteDays")' =>
                  \A r \in tx'.records : ~Removes(job'[g].req, r.day)
             /\ At(g, "deleteProjects")' => tx'.records = {}
  <2>1. job'[g] = job[g]
    BY <1>1
  <2>2. At(g, "deleteDays") \/ At(g, "deleteProjects") => tx' = tx
    BY <1>1 DEF LockInv, At
  <2> QED BY <1>1, <2>1, <2>2 DEF DeletesAccepted, At
<1> QED BY <1>1 DEF DeletesAccepted, At

LEMMA DeletesNext ==
  ASSUME TypeInv, LockInv, DeletesAccepted, [Next]_vars
  PROVE  DeletesAccepted'
<1> USE DEF TypeInv
<1>1. CASE UNCHANGED vars
  BY <1>1 DEF vars, DeletesAccepted, At
<1>2. ASSUME NEW h \in Hosts, NEW req \in Requests, Call(h, req)
      PROVE  DeletesAccepted'
  <2>1. /\ tx' = tx /\ job'[h].pc = "begin"
        /\ \A g \in Hosts \ {h} : job'[g] = job[g]
    BY <1>2 DEF Call, TypeOK
  <2> QED BY <2>1, DeletesElsewhere
<1>3. ASSUME NEW h \in Hosts, Abandon(h) PROVE DeletesAccepted'
  <2>1. /\ tx' = tx \/ writer = h
        /\ job'[h].pc = "idle" /\ \A g \in Hosts \ {h} : job'[g] = job[g]
    BY <1>3 DEF Abandon, NoJob, TypeOK
  <2> QED BY <2>1, DeletesElsewhere
<1>4. ASSUME NEW h \in Hosts, Failure(h) PROVE DeletesAccepted'
  BY <1>3, <1>4 DEF Failure, PlainFailure, CommitFailure, DayFailure,
                    ProjectFailure, RecordFailure, Crash
<1>5. ASSUME NEW h \in Hosts, Step(h) PROVE DeletesAccepted'
  <2>0. View(h) \in Databases
    BY ViewType
  <2>1. CASE DeleteRecords(h)
    <3>1. /\ CanWrite(h) /\ job[h] \in Jobs /\ Goto(h, "deleteDays")
          /\ \A r \in tx'.records : ~Removes(job[h].req, r.day)
      BY <2>0, <2>1, AtWork DEF DeleteRecords, Write, Databases, At
    <3>2. /\ job'[h].pc = "deleteDays" /\ job'[h].req = job[h].req
          /\ \A g \in Hosts \ {h} : job'[g] = job[g]
      BY <3>1 DEF Goto, TypeOK, Jobs
    <3> QED BY <3>1, <3>2, DeletesWritten
  <2>2. CASE DeleteDays(h)
    <3> DEFINE pc == IF job[h].req.kind = "all" THEN "deleteProjects" ELSE "days"
    <3>1. /\ CanWrite(h) /\ job[h] \in Jobs /\ Goto(h, pc)
          /\ tx'.records = View(h).records
          /\ \A r \in tx'.records : ~Removes(job[h].req, r.day)
      BY <2>0, <2>2, AtWork DEF DeleteDays, Write, Databases, At
    <3>2. /\ job'[h].pc = pc /\ \A g \in Hosts \ {h} : job'[g] = job[g]
      BY <3>1 DEF Goto, TypeOK, Jobs
    <3>3. pc = "deleteProjects" => tx'.records = {}
      BY <3>1 DEF Removes
    <3> QED BY <3>1, <3>2, <3>3, DeletesWritten
  <2>3. CASE DeleteProjects(h)
    <3>1. /\ CanWrite(h) /\ job[h] \in Jobs /\ Goto(h, "days")
      BY <2>3, AtWork DEF DeleteProjects, At
    <3>2. job'[h].pc = "days" /\ \A g \in Hosts \ {h} : job'[g] = job[g]
      BY <3>1 DEF Goto, TypeOK, Jobs
    <3> QED BY <3>1, <3>2, DeletesWritten
  <2>4. CASE Begin(h) \/ StartRecords(h) \/ AllResolved(h)
    <3>1. PICK pc \in {"days", "deleteRecords", "commit", "resolve",
                       "records"} : Goto(h, pc) /\ tx' = tx
      BY <2>4 DEF Begin, StartRecords, AllResolved
    <3>2. job[h] \in Jobs
      BY <2>4, AtWork DEF Begin, StartRecords, AllResolved, At
    <3>3. job'[h].pc = pc /\ \A g \in Hosts \ {h} : job'[g] = job[g]
      BY <3>1, <3>2 DEF Goto, TypeOK, Jobs
    <3> QED BY <3>1, <3>3, DeletesElsewhere
  <2>5. CASE InsertDay(h) \/ ResolvePath(h) \/ InsertRecord(h)
    <3>1. /\ CanWrite(h) /\ job[h] \in Jobs
          /\ job[h].pc \in {"days", "resolve", "records"}
      BY <2>5, AtWork DEF InsertDay, ResolvePath, InsertRecord, At
    <3>2. \/ \E d : job' = [job EXCEPT ![h].days = @ \ {d}]
          \/ \E p : job' = [job EXCEPT ![h].paths = @ \ {p}]
          \/ \E r : job' = [job EXCEPT ![h].records = @ \ {r}]
      BY <2>5 DEF InsertDay, ResolvePath, InsertRecord
    <3>3. job'[h].pc = job[h].pc /\ \A g \in Hosts \ {h} : job'[g] = job[g]
      BY <3>1, <3>2 DEF TypeOK, Jobs
    <3> QED BY <3>1, <3>3, DeletesWritten
  <2>6. CASE Commit(h)
    BY <1>3, <2>6 DEF Commit
  <2> QED BY <1>5, <2>1, <2>2, <2>3, <2>4, <2>5, <2>6 DEF Step
<1> QED BY <1>1, <1>2, <1>4, <1>5 DEF Next, Done

IInv == TypeInv /\ LockInv /\ DeletesAccepted

LEMMA IInvInit == Init => IInv
BY TypeInit, LockInit, DeletesInit DEF IInv

LEMMA IInvNext == IInv /\ [Next]_vars => IInv'
BY TypeNext, LockNext, DeletesNext DEF IInv

\* No replacement is ever refused by a foreign key, whatever failed before
\* and whatever the other hosts do.
THEOREM DeletesAlwaysAccepted == Spec => []DeletesAccepted
<1>1. IInv => DeletesAccepted
  BY DEF IInv
<1> QED BY <1>1, IInvInit, IInvNext, PTL DEF Spec

-----------------------------------------------------------------------------
(* Snapshots.  With a new repository for every call, what the resolver     *)
(* remembers was learnt inside the transaction that uses it, so each node  *)
(* spells its path in the rows the transaction sees.                       *)

NodesSpelled(nodes, projects) ==
  \A n \in nodes : SpelledBy(projects, n.id, n.path)

RecordsSpelled(s) ==
  \A r \in s.records : SpelledBy(s.projects, r.project, r.snap)

ResolverInv ==
  \A h \in Hosts :
    /\ job[h].pc \in {"begin", "deleteRecords", "deleteDays",
                      "deleteProjects", "days"} => repo[h].cache = {}
    /\ ~At(h, "idle") => repo[h].heldRecord = {}
    /\ job[h].pc \in {"resolve", "records"} =>
         /\ NodesSpelled(repo[h].tree, tx.projects)
         /\ NodesSpelled(repo[h].cache, tx.projects)

SnapInv ==
  /\ RecordsSpelled(db)
  /\ writer # NoHost => RecordsSpelled(tx)
  /\ ResolverInv

\* New rows never change how an existing id is spelled.
LEMMA SpelledMonotone ==
  ASSUME NEW some, NEW more, some \subseteq more, NEW id, NEW p,
         SpelledBy(some, id, p)
  PROVE  SpelledBy(more, id, p)
BY DEF SpelledBy

LEMMA EnsureNodeSpelled ==
  ASSUME NEW st \in ResolverStates, NEW p \in Paths,
         NodesSpelled(st.tree, st.projects),
         p \in RootPaths \/ Has(st.tree, RootOf(p))
  PROVE  NodesSpelled(EnsureNode(st, p).tree, EnsureNode(st, p).projects)
<1>1. CASE Has(st.tree, p)
  BY <1>1 DEF EnsureNode
<1>2. CASE ~Has(st.tree, p)
  <2> DEFINE row  == NewRow(st, p)
             node == [path |-> p, id |-> st.seq + 1]
             rows == st.projects \cup {row}
  <2>1. /\ EnsureNode(st, p).projects = rows
        /\ EnsureNode(st, p).tree = st.tree \cup {node}
    BY <1>2 DEF EnsureNode
  <2>2. row \in rows /\ row.id = st.seq + 1 /\ row.name = NameOf(p)
    BY DEF NewRow
  <2>3. SpelledBy(rows, st.seq + 1, p)
    <3>1. CASE p \in RootPaths
      <4>1. row.parent = 0
        BY <3>1 DEF NewRow
      <4> HIDE DEF row
      <4> QED BY <2>2, <3>1, <4>1 DEF SpelledBy
    <3>2. CASE p \notin RootPaths
      <4>1. PICK n \in st.tree :
              n.path = RootOf(p) /\ IdIn(st.tree, RootOf(p)) = n.id
        BY <3>2, IdInNode
      <4>2. row.parent = n.id
        BY <3>2, <4>1 DEF NewRow
      <4>3. SpelledBy(st.projects, n.id, RootOf(p))
        BY <4>1 DEF NodesSpelled
      <4>4. \E up \in st.projects :
              up.id = n.id /\ up.name = p[1] /\ up.parent = 0
        BY <4>3, PathShape DEF SpelledBy
      <4> HIDE DEF row
      <4> QED BY <2>2, <3>2, <4>2, <4>4 DEF SpelledBy
    <3> QED BY <3>1, <3>2
  <2>4. node.id = st.seq + 1 /\ node.path = p
    OBVIOUS
  <2>5. \A n \in st.tree : SpelledBy(rows, n.id, n.path)
    BY SpelledMonotone DEF NodesSpelled
  <2> HIDE DEF row, node, rows
  <2> QED BY <2>1, <2>3, <2>4, <2>5 DEF NodesSpelled
<1> QED BY <1>1, <1>2

LEMMA SnapInit == Init => SnapInv
<1> SUFFICES ASSUME Init PROVE SnapInv
  OBVIOUS
<1>1. \A h \in Hosts : job[h].pc = "idle"
  BY DEF Init, NoJob
<1>2. RecordsSpelled(db) /\ RecordsSpelled(tx)
  BY DEF Init, EmptyDb, RecordsSpelled
<1> QED BY <1>1, <1>2 DEF SnapInv, ResolverInv, At

\* What a step of h must show about h, when it writes s,
LEMMA SnapWritten ==
  ASSUME SnapInv, LockInv, TypeOK, NEW h \in Hosts, CanWrite(h),
         NEW s, Write(h, s), RecordsSpelled(s), db' = db,
         \A g \in Hosts \ {h} : job'[g] = job[g] /\ repo'[g] = repo[g],
         job'[h].pc \in {"deleteRecords", "deleteDays", "deleteProjects",
                         "days"} => repo'[h].cache = {},
         job'[h].pc # "begin",
         repo'[h].heldRecord = {},
         job'[h].pc \in {"resolve", "records"} =>
           /\ NodesSpelled(repo'[h].tree, s.projects)
           /\ NodesSpelled(repo'[h].cache, s.projects)
  PROVE  SnapInv'
<1>1. RecordsSpelled(db') /\ (writer' # NoHost => RecordsSpelled(tx'))
  BY DEF SnapInv, Write
<1>2. \A g \in Hosts \ {h} : writer # g
  BY HostsAssumption DEF CanWrite
<1>3. ResolverInv'
  BY <1>2 DEF SnapInv, ResolverInv, LockInv, At, Write
<1> QED BY <1>1, <1>3 DEF SnapInv

\* and when it ends the call.
LEMMA SnapAbandoned ==
  ASSUME SnapInv, LockInv, TypeOK, NEW h \in Hosts, Abandon(h),
         db' = db \/ db' = View(h),
         \A g \in Hosts \ {h} : repo'[g] = repo[g]
  PROVE  SnapInv'
<1>1. RecordsSpelled(db')
  BY HostsAssumption DEF SnapInv, View
<1>2. writer' # NoHost => RecordsSpelled(tx')
  BY DEF Abandon, SnapInv
<1>3. job'[h].pc = "idle" /\ \A g \in Hosts \ {h} : job'[g] = job[g]
  BY DEF Abandon, TypeOK, NoJob
<1>4. ASSUME NEW g \in Hosts, g # h, job[g].pc \in {"resolve", "records"}
      PROVE  tx' = tx
  BY <1>4 DEF LockInv, Abandon
<1>5. ResolverInv'
  BY <1>3, <1>4 DEF SnapInv, ResolverInv, At
<1> QED BY <1>1, <1>2, <1>5 DEF SnapInv

\* A step of h that changes no table.
LEMMA SnapUntouched ==
  ASSUME SnapInv, TypeOK, NEW h \in Hosts,
         UNCHANGED <<db, writer, tx>>,
         \A g \in Hosts \ {h} : job'[g] = job[g] /\ repo'[g] = repo[g],
         job'[h].pc \in {"begin", "deleteRecords", "deleteDays",
                         "deleteProjects", "days"} => repo'[h].cache = {},
         repo'[h].heldRecord = {},
         job'[h].pc \in {"resolve", "records"} =>
           /\ NodesSpelled(repo'[h].tree, tx.projects)
           /\ NodesSpelled(repo'[h].cache, tx.projects)
  PROVE  SnapInv'
<1>1. RecordsSpelled(db') /\ (writer' # NoHost => RecordsSpelled(tx'))
  BY DEF SnapInv
<1>2. ResolverInv'
  BY DEF SnapInv, ResolverInv, At
<1> QED BY <1>1, <1>2 DEF SnapInv

LEMMA SnapStep ==
  ASSUME TypeInv, LockInv, SnapInv, NEW h \in Hosts, Step(h)
  PROVE  SnapInv'
<1> USE DEF TypeInv
<1>1. View(h) \in Databases /\ RecordsSpelled(View(h))
  BY ViewType, HostsAssumption DEF SnapInv, View
<1>2. /\ ~At(h, "idle") /\ job[h] \in Jobs /\ repo[h].heldRecord = {}
      /\ repo[h] \in Repos
  BY AtWork
     DEF Step, Begin, DeleteRecords, DeleteDays, DeleteProjects, InsertDay,
         StartRecords, ResolvePath, AllResolved, InsertRecord, Commit, At,
         SnapInv, ResolverInv, TypeOK
<1>3. CASE Begin(h)
  <2>1. PICK pc \in {"days", "deleteRecords"} :
          Goto(h, pc) /\ UNCHANGED <<db, writer, tx, repo>>
    BY <1>3 DEF Begin
  <2>2. /\ job'[h].pc = pc /\ repo[h].cache = {}
        /\ \A g \in Hosts \ {h} : job'[g] = job[g]
    BY <1>2, <1>3, <2>1 DEF Begin, At, Goto, TypeOK, Jobs, SnapInv, ResolverInv
  <2> QED BY <1>2, <2>1, <2>2, SnapUntouched
<1>4. CASE DeleteRecords(h) \/ DeleteDays(h) \/ DeleteProjects(h)
  <2>1. repo[h].cache = {}
    BY <1>4 DEF DeleteRecords, DeleteDays, DeleteProjects, At, SnapInv,
                ResolverInv
  <2>2. ASSUME NEW s, NEW pc \in {"deleteDays", "deleteProjects", "days"},
               CanWrite(h), Write(h, s), Goto(h, pc), UNCHANGED <<db, repo>>,
               RecordsSpelled(s)
        PROVE  SnapInv'
    <3>1. job'[h].pc = pc /\ \A g \in Hosts \ {h} : job'[g] = job[g]
      BY <1>2, <2>2 DEF Goto, TypeOK, Jobs
    <3> QED BY <1>2, <2>1, <2>2, <3>1, SnapWritten
  <2>3. CASE DeleteRecords(h)
    <3> DEFINE s == [View(h) EXCEPT !.records =
                       {r \in @ : ~Removes(job[h].req, r.day)}]
    <3>1. RecordsSpelled(s)
      BY <1>1 DEF RecordsSpelled, Databases
    <3>2. /\ CanWrite(h) /\ Write(h, s) /\ UNCHANGED <<db, repo>>
          /\ Goto(h, "deleteDays")
      BY <2>3 DEF DeleteRecords
    <3> HIDE DEF s
    <3> QED BY <2>2, <3>1, <3>2
  <2>4. CASE DeleteDays(h)
    <3> DEFINE s == [View(h) EXCEPT !.days = {d \in @ : ~Removes(job[h].req, d)}]
               pc == IF job[h].req.kind = "all" THEN "deleteProjects" ELSE "days"
    <3>1. RecordsSpelled(s)
      BY <1>1 DEF RecordsSpelled, Databases
    <3>2. /\ CanWrite(h) /\ Write(h, s) /\ UNCHANGED <<db, repo>>
          /\ Goto(h, pc) /\ pc \in {"deleteProjects", "days"}
      BY <2>4 DEF DeleteDays
    <3> HIDE DEF s, pc
    <3> QED BY <2>2, <3>1, <3>2
  <2>5. CASE DeleteProjects(h)
    <3> DEFINE s == [View(h) EXCEPT !.projects = {}]
    <3>1. View(h) = tx /\ tx.records = {}
      BY <2>5 DEF DeleteProjects, LockInv, View, At
    <3>2. RecordsSpelled(s)
      BY <1>1, <3>1 DEF RecordsSpelled, Databases
    <3>3. /\ CanWrite(h) /\ Write(h, s) /\ UNCHANGED <<db, repo>>
          /\ Goto(h, "days")
      BY <2>5 DEF DeleteProjects
    <3> HIDE DEF s
    <3> QED BY <2>2, <3>2, <3>3
  <2> QED BY <1>4, <2>3, <2>4, <2>5
<1>5. CASE InsertDay(h)
  <2>1. PICK more : /\ Write(h, [View(h) EXCEPT !.days = @ \cup more])
                    /\ \E d \in job[h].days :
                         job' = [job EXCEPT ![h].days = @ \ {d}]
    BY <1>5 DEF InsertDay
  <2> DEFINE s == [View(h) EXCEPT !.days = @ \cup more]
  <2>2. RecordsSpelled(s)
    BY <1>1 DEF RecordsSpelled, Databases
  <2>3. /\ CanWrite(h) /\ db' = db /\ job[h].pc = "days"
        /\ repo' = [repo EXCEPT ![h].heldDay = {}]
    BY <1>5 DEF InsertDay, At
  <2>4. /\ job'[h].pc = "days"
        /\ repo'[h].cache = {} /\ repo'[h].heldRecord = {}
        /\ \A g \in Hosts \ {h} : job'[g] = job[g] /\ repo'[g] = repo[g]
    BY <1>2, <2>1, <2>3 DEF TypeOK, Jobs, Repos, SnapInv, ResolverInv
  <2> HIDE DEF s
  <2> QED BY <2>1, <2>2, <2>3, <2>4, SnapWritten DEF s
<1>6. CASE StartRecords(h)
  <2>1. CASE job[h].records = {}
    <3>1. Goto(h, "commit") /\ UNCHANGED <<repo, db, writer, tx>>
      BY <1>6, <2>1 DEF StartRecords
    <3>2. job'[h].pc = "commit" /\ \A g \in Hosts \ {h} : job'[g] = job[g]
      BY <1>2, <3>1 DEF Goto, TypeOK, Jobs
    <3> QED BY <1>2, <3>1, <3>2, SnapUntouched
  <2>2. CASE job[h].records # {}
    <3>1. repo[h].cache = {}
      BY <1>6 DEF StartRecords, At, SnapInv, ResolverInv
    <3>2. /\ Goto(h, "resolve") /\ UNCHANGED <<db, writer, tx>>
          /\ repo' = [repo EXCEPT ![h].tree = LoadedTree(View(h).projects)]
      BY <1>6, <2>2, <3>1 DEF StartRecords
    <3>3. View(h) = tx
      <4>1. job[h].req \in Requests
        BY <1>2 DEF Jobs
      <4>2. job[h].req.batch.days # {}
        BY <1>2, <2>2, <4>1, RequestType DEF LockInv
      <4> QED BY <1>6, <4>2 DEF StartRecords, LockInv, At, View
    <3>4. NodesSpelled(LoadedTree(tx.projects), tx.projects)
      BY DEF NodesSpelled, LoadedTree
    <3>5. /\ job'[h].pc = "resolve" /\ repo'[h].cache = {}
          /\ repo'[h].heldRecord = {} /\ repo'[h].tree = LoadedTree(tx.projects)
          /\ \A g \in Hosts \ {h} : job'[g] = job[g] /\ repo'[g] = repo[g]
      BY <1>2, <3>1, <3>2, <3>3 DEF Goto, TypeOK, Jobs, Repos
    <3>6. NodesSpelled(repo'[h].cache, tx.projects)
      BY <3>5 DEF NodesSpelled
    <3> QED BY <3>2, <3>4, <3>5, <3>6, SnapUntouched
  <2> QED BY <2>1, <2>2
<1>7. CASE ResolvePath(h)
  <2> DEFINE mid(p) == EnsureNode(Resolver(h), RootOf(p))
             end(p) == EnsureNode(mid(p), p)
             node(p) == [path |-> p, id |-> IdIn(end(p).tree, p)]
  <2>1. PICK p \in job[h].paths :
          /\ job' = [job EXCEPT ![h].paths = @ \ {p}]
          /\ \/ UNCHANGED <<writer, tx, repo>>
             \/ /\ Write(h, [View(h) EXCEPT !.projects = end(p).projects,
                                            !.seq = end(p).seq])
                /\ repo' = [repo EXCEPT ![h] =
                              [repo[h] EXCEPT !.tree = end(p).tree,
                                              !.cache = @ \cup {node(p)}]]
    BY <1>7 DEF ResolvePath
  <2>2. /\ CanWrite(h) /\ db' = db /\ job[h].pc = "resolve" /\ View(h) = tx
        /\ NodesSpelled(repo[h].tree, tx.projects)
        /\ NodesSpelled(repo[h].cache, tx.projects)
    BY <1>7 DEF ResolvePath, At, LockInv, View, SnapInv, ResolverInv
  <2>3. (\A g \in Hosts \ {h} : job'[g] = job[g]) /\ job'[h].pc = "resolve"
    BY <1>2, <2>1, <2>2 DEF TypeOK, Jobs
  <2>4. CASE UNCHANGED <<writer, tx, repo>>
    BY <1>2, <2>2, <2>3, <2>4, SnapUntouched
  <2>5. CASE /\ Write(h, [View(h) EXCEPT !.projects = end(p).projects,
                                         !.seq = end(p).seq])
             /\ repo' = [repo EXCEPT ![h] =
                           [repo[h] EXCEPT !.tree = end(p).tree,
                                           !.cache = @ \cup {node(p)}]]
    <3>1. p \in Paths /\ Resolver(h) \in ResolverStates
      BY <1>1, <1>2 DEF Jobs, Resolver, ResolverStates, Databases, Repos
    <3>2. NodesSpelled(Resolver(h).tree, Resolver(h).projects)
      BY <2>2 DEF Resolver
    <3>3. NodesSpelled(mid(p).tree, mid(p).projects)
      BY <3>1, <3>2, EnsureNodeSpelled, PathShape
    <3>4. /\ mid(p) \in ResolverStates /\ Has(mid(p).tree, RootOf(p))
          /\ tx.projects \subseteq end(p).projects /\ Has(end(p).tree, p)
      BY <2>2, <3>1, EnsurePathType DEF Resolver
    <3> HIDE DEF mid
    <3>5. NodesSpelled(end(p).tree, end(p).projects)
      BY <3>1, <3>3, <3>4, EnsureNodeSpelled
    <3> HIDE DEF end
    <3>6. node(p).path = p /\ SpelledBy(end(p).projects, node(p).id, p)
      BY <3>4, <3>5, IdInNode DEF NodesSpelled
    <3> HIDE DEF node
    <3>7. NodesSpelled(repo[h].cache \cup {node(p)}, end(p).projects)
      BY <2>2, <3>4, <3>6, SpelledMonotone DEF NodesSpelled
    <3> DEFINE s == [View(h) EXCEPT !.projects = end(p).projects,
                                    !.seq = end(p).seq]
    <3>8. s.projects = end(p).projects /\ s.records = tx.records
      BY <1>1, <2>2 DEF Databases
    <3>9. RecordsSpelled(s)
      BY <1>1, <2>2, <3>4, <3>8, SpelledMonotone DEF RecordsSpelled
    <3>10. /\ repo'[h].tree = end(p).tree
           /\ repo'[h].cache = repo[h].cache \cup {node(p)}
           /\ repo'[h].heldRecord = {}
           /\ \A g \in Hosts \ {h} : repo'[g] = repo[g]
      BY <1>2, <2>5 DEF Repos, TypeOK
    <3>11. Write(h, s)
      BY <2>5
    <3> HIDE DEF s
    <3> QED BY <2>2, <2>3, <3>5, <3>7, <3>8, <3>9, <3>10, <3>11, SnapWritten
  <2> QED BY <2>1, <2>4, <2>5
<1>8. CASE AllResolved(h)
  <2>1. Goto(h, "records") /\ UNCHANGED <<db, writer, tx, repo>>
    BY <1>8 DEF AllResolved
  <2>2. /\ job'[h].pc = "records" /\ job[h].pc = "resolve"
        /\ \A g \in Hosts \ {h} : job'[g] = job[g]
    BY <1>2, <1>8, <2>1 DEF AllResolved, At, Goto, TypeOK, Jobs
  <2>3. /\ NodesSpelled(repo[h].tree, tx.projects)
        /\ NodesSpelled(repo[h].cache, tx.projects)
    BY <2>2 DEF SnapInv, ResolverInv
  <2> QED BY <1>2, <2>1, <2>2, <2>3, SnapUntouched
<1>9. CASE InsertRecord(h)
  <2>1. PICK r \in job[h].records :
          /\ Write(h, [View(h) EXCEPT !.records = Upsert(@, StepRow(h, r))])
          /\ job' = [job EXCEPT ![h].records = @ \ {r}]
    BY <1>9 DEF InsertRecord
  <2>2. /\ CanWrite(h) /\ db' = db /\ job[h].pc = "records" /\ View(h) = tx
        /\ repo' = [repo EXCEPT ![h].heldRecord = {}]
        /\ NodesSpelled(repo[h].tree, tx.projects)
        /\ NodesSpelled(repo[h].cache, tx.projects)
    BY <1>9 DEF InsertRecord, At, LockInv, View, SnapInv, ResolverInv
  <2>3. Has(repo[h].cache, r.path)
    BY <2>2 DEF PathsCached, At
  <2>4. /\ StepRow(h, r).snap = r.path
        /\ SpelledBy(tx.projects, StepRow(h, r).project, r.path)
    BY <1>2, <2>2, <2>3, IdInNode DEF StepRow, RowOf, NodesSpelled
  <2> DEFINE s == [View(h) EXCEPT !.records = Upsert(@, StepRow(h, r))]
  <2>5. RecordsSpelled(s) /\ s.projects = tx.projects
    BY <1>1, <2>2, <2>4 DEF RecordsSpelled, Upsert, Databases
  <2>6. /\ job'[h].pc = "records" /\ repo'[h].heldRecord = {}
        /\ repo'[h].tree = repo[h].tree /\ repo'[h].cache = repo[h].cache
        /\ \A g \in Hosts \ {h} : job'[g] = job[g] /\ repo'[g] = repo[g]
    BY <1>2, <2>1, <2>2 DEF TypeOK, Jobs, Repos
  <2>7. Write(h, s)
    BY <2>1
  <2> HIDE DEF s
  <2> QED BY <2>2, <2>5, <2>6, <2>7, SnapWritten
<1>10. CASE Commit(h)
  <2>1. db' = View(h) /\ Abandon(h) /\ repo' = repo
    BY <1>10 DEF Commit
  <2> QED BY <2>1, SnapAbandoned
<1> QED BY <1>3, <1>4, <1>5, <1>6, <1>7, <1>8, <1>9, <1>10 DEF Step

LEMMA SnapNext ==
  ASSUME RuntimePerCall, TypeInv, LockInv, SnapInv, [Next]_vars
  PROVE  SnapInv'
<1> USE DEF TypeInv
<1>1. CASE UNCHANGED vars
  BY <1>1 DEF vars, SnapInv, RecordsSpelled, ResolverInv, At
<1>2. ASSUME NEW h \in Hosts, NEW req \in Requests, Call(h, req)
      PROVE  SnapInv'
  <2>1. /\ job'[h].pc = "begin" /\ repo'[h] = FreshRepo
        /\ \A g \in Hosts \ {h} : job'[g] = job[g] /\ repo'[g] = repo[g]
        /\ UNCHANGED <<db, writer, tx>>
    BY <1>2 DEF Call, TypeOK
  <2> QED BY <2>1, SnapUntouched DEF FreshRepo
<1>3. ASSUME NEW h \in Hosts, Failure(h) PROVE SnapInv'
  <2>1. Abandon(h) /\ db' = db
    BY <1>3 DEF Failure, PlainFailure, CommitFailure, DayFailure,
                ProjectFailure, RecordFailure, Crash
  <2>2. \A g \in Hosts \ {h} : repo'[g] = repo[g]
    BY <1>3 DEF Failure, PlainFailure, CommitFailure, DayFailure,
                ProjectFailure, RecordFailure, Crash, TypeOK
  <2> QED BY <2>1, <2>2, SnapAbandoned
<1> QED BY <1>1, <1>2, <1>3, SnapStep DEF Next, Done

\* On a host that creates a runtime for every call, no report ever books the
\* time of one activity under another.
THEOREM SnapshotsAlwaysAgree ==
  ASSUME RuntimePerCall PROVE Spec => []SnapshotAgrees
<1>1. Init => IInv /\ SnapInv
  BY IInvInit, SnapInit
<1>2. IInv /\ SnapInv /\ [Next]_vars => (IInv /\ SnapInv)'
  BY IInvNext, SnapNext DEF IInv
<1>3. SnapInv => SnapshotAgrees
  BY DEF SnapInv, RecordsSpelled, SnapshotAgrees
<1> QED BY <1>1, <1>2, <1>3, PTL DEF Spec
-----------------------------------------------------------------------------
(* The refinement.  What the transaction of a call has made of the tables  *)
(* it found, read by what is left of the call; nobody else commits while   *)
(* it holds the lock, so that what it found is still the database.         *)

\* The records of s under the paths they were written with.
TableOf(s) == {[id |-> r.id, day |-> r.day, path |-> r.snap] : r \in s.records}

\* The table when the request has been served but for the records not done.
PartlyDone(req, done, old) ==
       {r \in old : ~Removes(req, r.day) /\ \A new \in done : new.id # r.id}
  \cup done

\* What is left to do, by the step a call is at: j is its job, held what the
\* day statement holds.
BeforeDays == {"begin", "deleteRecords", "deleteDays", "deleteProjects"}

Remaining(j, held) ==
  /\ j.pc # "idle" => held = {}
  /\ j.pc \in BeforeDays => j.days = j.req.batch.days
  /\ j.pc = "days" => j.days \subseteq j.req.batch.days
  /\ j.pc \in BeforeDays \cup {"days", "resolve"} =>
       j.records = j.req.batch.records
  /\ j.pc \in {"resolve", "records", "commit"} => j.days = {}
  /\ j.pc = "commit" => j.records = {}

\* What has been made of the database found.
Made(j, found, made) ==
  /\ TableOf(made) =
       PartlyDone(j.req, j.req.batch.records \ j.records, TableOf(found))
  /\ made.days = IF j.pc = "deleteDays" THEN found.days
                 ELSE {d \in found.days : ~Removes(j.req, d)}
                      \cup (j.req.batch.days \ j.days)

Progress(h) ==
  /\ Remaining(job[h], repo[h].heldDay)
  /\ At(h, "deleteRecords") => writer # h
  /\ At(h, "commit") /\ writer # h =>
       job[h].req.kind = "import" /\ job[h].req.batch.days = {}
  /\ writer = h => Made(job[h], db, tx)

\* An id names one row, and ids still to be given are larger.
UniqueIds(s) ==
  /\ \A a, b \in s.projects : a.id = b.id => a = b
  /\ \A a \in s.projects : a.id <= s.seq

ProgressInv ==
  /\ \A h \in Hosts : Progress(h)
  /\ UniqueIds(db)
  /\ writer # NoHost => UniqueIds(tx)

\* An id spells at most one path.
LEMMA SpelledOnce ==
  ASSUME NEW s \in Databases, UniqueIds(s), NEW id,
         NEW p \in Paths, NEW q \in Paths,
         SpelledBy(s.projects, id, p), SpelledBy(s.projects, id, q)
  PROVE  p = q
<1>0. s.projects \subseteq ProjectRows
  BY DEF Databases
<1>1. PICK row \in s.projects :
        /\ row.id = id /\ row.name = NameOf(p) /\ row.name = NameOf(q)
        /\ p \in RootPaths => row.parent = 0
        /\ q \in RootPaths => row.parent = 0
        /\ p \notin RootPaths => \E up \in s.projects :
                                   up.id = row.parent /\ up.name = p[1]
        /\ q \notin RootPaths => \E up \in s.projects :
                                   up.id = row.parent /\ up.name = q[1]
  BY DEF SpelledBy, UniqueIds
<1>2. CASE row.parent = 0
  <2>1. \A up \in s.projects : up.id # row.parent
    BY <1>0, <1>2 DEF ProjectRows
  <2>2. p \in RootPaths /\ q \in RootPaths
    BY <1>1, <2>1
  <2>3. PICK m \in Names, n \in Names : p = <<m>> /\ q = <<n>>
    BY <2>2 DEF RootPaths
  <2>4. NameOf(p) = m /\ NameOf(q) = n
    BY <2>3 DEF NameOf
  <2> QED BY <1>1, <2>3, <2>4
<1>3. CASE row.parent # 0
  <2>1. p \in ChildPaths /\ q \in ChildPaths
    BY <1>1, <1>3, PathShape
  <2>2. p[1] = q[1]
    BY <1>1, <1>3 DEF UniqueIds
  <2>3. PICK m \in Names, n \in Names, k \in Names, l \in Names :
          p = <<m, n>> /\ q = <<k, l>>
    BY <2>1 DEF ChildPaths
  <2>4. NameOf(p) = n /\ NameOf(q) = l /\ p[1] = m /\ q[1] = k
    BY <2>3 DEF NameOf
  <2> QED BY <1>1, <2>2, <2>3, <2>4
<1> QED BY <1>2, <1>3

\* What the reports read is what was written.
LEMMA TableIsReported ==
  ASSUME TypeOK, RecordsSpelled(db), UniqueIds(db)
  PROVE  ReportedTable = TableOf(db)
<1>0. db \in Databases /\ \A r \in db.records : r.snap \in Paths
  BY DEF TypeOK, Databases, RecordRows
<1>1. ASSUME NEW r \in db.records, NEW p \in Paths,
             SpelledBy(db.projects, r.project, p)
      PROVE  p = r.snap
  BY <1>0, <1>1, SpelledOnce DEF RecordsSpelled
<1>2. ASSUME NEW t \in ReportedTable PROVE t \in TableOf(db)
  <2>1. PICK x \in db.records \X Paths :
          /\ SpelledBy(db.projects, x[1].project, x[2])
          /\ t = [id |-> x[1].id, day |-> x[1].day, path |-> x[2]]
    BY <1>2 DEF ReportedTable
  <2>2. x[1] \in db.records /\ x[2] = x[1].snap
    BY <1>1, <2>1
  <2> QED BY <2>1, <2>2 DEF TableOf
<1>3. ASSUME NEW t \in TableOf(db) PROVE t \in ReportedTable
  <2>1. PICK r \in db.records : t = [id |-> r.id, day |-> r.day, path |-> r.snap]
    BY <1>3 DEF TableOf
  <2> DEFINE x == <<r, r.snap>>
  <2>2. x \in {y \in db.records \X Paths :
                 SpelledBy(db.projects, y[1].project, y[2])}
    BY <1>0 DEF RecordsSpelled
  <2>3. t = [id |-> x[1].id, day |-> x[1].day, path |-> x[2]]
    BY <2>1
  <2> HIDE DEF x
  <2> QED BY <2>2, <2>3 DEF ReportedTable
<1> QED BY <1>2, <1>3

LEMMA EnsureNodeUnique ==
  ASSUME NEW st \in ResolverStates, NEW p \in Paths, UniqueIds(st)
  PROVE  UniqueIds(EnsureNode(st, p))
<1>1. CASE Has(st.tree, p)
  BY <1>1 DEF EnsureNode
<1>2. CASE ~Has(st.tree, p)
  <2> DEFINE row == NewRow(st, p)
  <2>1. row.id = st.seq + 1
    BY DEF NewRow
  <2>2. EnsureNode(st, p).projects = st.projects \cup {row}
        /\ EnsureNode(st, p).seq = st.seq + 1
    BY <1>2 DEF EnsureNode
  <2>3. st.seq \in Nat /\ \A a \in st.projects : a.id \in Nat
    BY DEF ResolverStates, ProjectRows
  <2> HIDE DEF row
  <2> QED BY <2>1, <2>2, <2>3 DEF UniqueIds
<1> QED BY <1>1, <1>2

LEMMA ProgressInit == Init => ProgressInv
<1> SUFFICES ASSUME Init PROVE ProgressInv
  OBVIOUS
<1>1. \A h \in Hosts : job[h].pc = "idle" /\ writer # h
  BY HostsAssumption DEF Init, NoJob
<1>2. \A h \in Hosts : Progress(h)
  BY <1>1 DEF Progress, Remaining, At, BeforeDays
<1> QED BY <1>2 DEF Init, ProgressInv, UniqueIds, EmptyDb

\* What a step of h must show about h, when it writes s,
LEMMA ProgressWritten ==
  ASSUME ProgressInv, NEW h \in Hosts, CanWrite(h), NEW s, Write(h, s),
         UniqueIds(s), db' = db,
         \A g \in Hosts \ {h} : job'[g] = job[g] /\ repo'[g] = repo[g],
         Progress(h)'
  PROVE  ProgressInv'
<1>1. ASSUME NEW g \in Hosts, g # h PROVE Progress(g)'
  <2>1. writer # g /\ writer' # g /\ job'[g] = job[g] /\ repo'[g] = repo[g]
    BY <1>1, HostsAssumption DEF CanWrite, Write
  <2> QED BY <2>1 DEF ProgressInv, Progress, At
<1> QED BY <1>1 DEF ProgressInv, Write

\* when it changes no table,
LEMMA ProgressUntouched ==
  ASSUME ProgressInv, NEW h \in Hosts, UNCHANGED <<db, writer, tx>>,
         \A g \in Hosts \ {h} : job'[g] = job[g] /\ repo'[g] = repo[g],
         Progress(h)'
  PROVE  ProgressInv'
<1>1. ASSUME NEW g \in Hosts, g # h PROVE Progress(g)'
  BY <1>1 DEF ProgressInv, Progress, At
<1> QED BY <1>1 DEF ProgressInv

\* and when it ends the call.
LEMMA ProgressAbandoned ==
  ASSUME ProgressInv, TypeOK, NEW h \in Hosts, Abandon(h),
         db' = db \/ db' = View(h),
         \A g \in Hosts \ {h} : repo'[g] = repo[g]
  PROVE  ProgressInv'
<1>1. job'[h].pc = "idle" /\ \A g \in Hosts \ {h} : job'[g] = job[g]
  BY DEF Abandon, TypeOK, NoJob
<1>2. writer' # h /\ UniqueIds(db')
  BY HostsAssumption DEF Abandon, ProgressInv, View
<1>3. Progress(h)'
  BY <1>1, <1>2 DEF Progress, Remaining, At, BeforeDays
<1>4. ASSUME NEW g \in Hosts, g # h PROVE Progress(g)'
  <2>1. job'[g] = job[g] /\ repo'[g] = repo[g] /\ (writer' = g <=> writer = g)
    BY <1>1, <1>4, HostsAssumption DEF Abandon
  <2>2. writer = g => db' = db /\ tx' = tx
    BY <1>4 DEF Abandon, View
  <2> QED BY <2>1, <2>2 DEF ProgressInv, Progress, At
<1>5. writer' # NoHost => UniqueIds(tx')
  BY DEF Abandon, ProgressInv
<1> QED BY <1>2, <1>3, <1>4, <1>5 DEF ProgressInv

\* The table part of what a step makes.
LEMMA TableKept ==
  ASSUME NEW s, NEW t, t.records = s.records
  PROVE  TableOf(t) = TableOf(s)
BY DEF TableOf

LEMMA NothingDone ==
  ASSUME NEW s, NEW t, NEW req, NEW batch,
         t.records = {r \in s.records : ~Removes(req, r.day)}
  PROVE  TableOf(t) = PartlyDone(req, batch \ batch, TableOf(s))
<1>1. TableOf(t) = {r \in TableOf(s) : ~Removes(req, r.day)}
  BY DEF TableOf
<1> QED BY <1>1 DEF PartlyDone

\* The job of a host at work, and the job it has after a step.
LEMMA JobFields ==
  ASSUME TypeOK, NEW h \in Hosts, NEW new, job' = [job EXCEPT ![h] = new]
  PROVE  job'[h] = new /\ \A g \in Hosts \ {h} : job'[g] = job[g]
BY DEF TypeOK

LEMMA ProgressBegins ==
  ASSUME TypeInv, LockInv, ProgressInv, NEW h \in Hosts, Begin(h)
  PROVE  ProgressInv'
<1> DEFINE pc == IF job[h].req.kind = "import" THEN "days" ELSE "deleteRecords"
           new == [job[h] EXCEPT !.pc = pc]
<1>1. job[h] \in Jobs /\ job[h].pc = "begin" /\ writer # h
  BY AtWork DEF Begin, At, TypeInv, LockInv
<1>2. /\ job'[h] = new /\ UNCHANGED <<db, writer, tx, repo>>
      /\ \A g \in Hosts \ {h} : job'[g] = job[g]
  BY JobFields DEF Begin, Goto, TypeInv
<1>3. /\ new.pc = pc /\ new.req = job[h].req /\ new.days = job[h].days
      /\ new.records = job[h].records
  BY <1>1 DEF Jobs
<1> HIDE DEF new
<1>4. Remaining(new, repo[h].heldDay)
  BY <1>1, <1>3 DEF ProgressInv, Progress, Remaining, BeforeDays
<1>5. Progress(h)'
  BY <1>1, <1>2, <1>3, <1>4 DEF Progress, At
<1> QED BY <1>2, <1>5, ProgressUntouched

LEMMA ProgressDeletes ==
  ASSUME TypeInv, LockInv, ProgressInv, NEW h \in Hosts,
         DeleteRecords(h) \/ DeleteDays(h) \/ DeleteProjects(h)
  PROVE  ProgressInv'
<1>0. View(h) \in Databases /\ UniqueIds(View(h)) /\ TypeOK
  BY ViewType, HostsAssumption DEF TypeInv, ProgressInv, View
<1>1. job[h] \in Jobs /\ Progress(h)
  BY AtWork DEF DeleteRecords, DeleteDays, DeleteProjects, At, TypeInv,
                ProgressInv
<1>2. ASSUME NEW s, NEW pc \in {"deleteDays", "deleteProjects", "days"},
             CanWrite(h), Write(h, s), Goto(h, pc), UNCHANGED <<db, repo>>,
             UniqueIds(s), job[h].pc \in BeforeDays \ {"begin"},
             ASSUME NEW new, new.pc = pc, new.req = job[h].req,
                    new.days = job[h].req.batch.days,
                    new.records = job[h].req.batch.records
             PROVE  Made(new, db, s)
      PROVE  ProgressInv'
  <2> DEFINE new == [job[h] EXCEPT !.pc = pc]
  <2>1. /\ job'[h] = new /\ repo' = repo
        /\ \A g \in Hosts \ {h} : job'[g] = job[g]
    BY <1>0, <1>2, JobFields DEF Goto
  <2>2. /\ new.pc = pc /\ new.req = job[h].req /\ new.days = job[h].days
        /\ new.records = job[h].records
    BY <1>1 DEF Jobs
  <2> HIDE DEF new
  <2>3. Remaining(new, repo[h].heldDay)
    BY <1>1, <1>2, <2>2 DEF Progress, Remaining, BeforeDays
  <2>4. new.days = job[h].req.batch.days /\ new.records = job[h].req.batch.records
    BY <1>1, <1>2, <2>2 DEF Progress, Remaining
  <2>5. Made(new, db, s)
    BY <1>2, <2>2, <2>4
  <2>6. tx' = s /\ writer' = h /\ db' = db
    BY <1>2 DEF Write
  <2>7. Progress(h)'
    BY <1>2, <2>1, <2>2, <2>3, <2>5, <2>6 DEF Progress, At
  <2> QED BY <1>2, <2>1, <2>7, ProgressWritten
<1>3. CASE DeleteRecords(h)
  <2> DEFINE s == [View(h) EXCEPT !.records =
                     {r \in @ : ~Removes(job[h].req, r.day)}]
  <2>1. View(h) = db
    BY <1>1, <1>3 DEF DeleteRecords, Progress, View
  <2>2. /\ s.records = {r \in db.records : ~Removes(job[h].req, r.day)}
        /\ s.days = db.days /\ s.projects = db.projects /\ s.seq = db.seq
    BY <1>0, <2>1 DEF Databases
  <2>3. /\ CanWrite(h) /\ Write(h, s) /\ Goto(h, "deleteDays")
        /\ UNCHANGED <<db, repo>> /\ job[h].pc \in BeforeDays \ {"begin"}
    BY <1>3 DEF DeleteRecords, At, BeforeDays
  <2> HIDE DEF s
  <2>4. UniqueIds(s)
    BY <1>0, <2>1, <2>2 DEF UniqueIds
  <2>5. ASSUME NEW new, new.pc = "deleteDays", new.req = job[h].req,
               new.days = job[h].req.batch.days,
               new.records = job[h].req.batch.records
        PROVE  Made(new, db, s)
    BY <2>2, <2>5, NothingDone DEF Made
  <2> QED BY <1>2, <2>3, <2>4, <2>5
<1>4. CASE DeleteDays(h)
  <2> DEFINE s == [View(h) EXCEPT !.days = {d \in @ : ~Removes(job[h].req, d)}]
             pc == IF job[h].req.kind = "all" THEN "deleteProjects" ELSE "days"
  <2>1. /\ writer = h /\ View(h) = tx /\ Made(job[h], db, tx)
        /\ job[h].pc = "deleteDays"
        /\ job[h].records = job[h].req.batch.records
    BY <1>1, <1>4
       DEF DeleteDays, At, LockInv, View, Progress, Remaining, BeforeDays
  <2>2. /\ s.records = tx.records /\ s.projects = tx.projects /\ s.seq = tx.seq
        /\ s.days = {d \in tx.days : ~Removes(job[h].req, d)}
    BY <1>0, <2>1 DEF Databases
  <2>3. /\ CanWrite(h) /\ Write(h, s) /\ Goto(h, pc)
        /\ UNCHANGED <<db, repo>> /\ job[h].pc \in BeforeDays \ {"begin"}
        /\ pc \in {"deleteProjects", "days"}
    BY <1>4 DEF DeleteDays, At, BeforeDays
  <2> HIDE DEF s, pc
  <2>4. UniqueIds(s)
    BY <1>0, <2>1, <2>2 DEF UniqueIds
  <2>5. ASSUME NEW new, new.pc = pc, new.req = job[h].req,
               new.days = job[h].req.batch.days,
               new.records = job[h].req.batch.records
        PROVE  Made(new, db, s)
    <3>1. TableOf(s) = TableOf(tx)
      BY <2>2, TableKept
    <3>2. s.days = {d \in db.days : ~Removes(job[h].req, d)}
      BY <2>1, <2>2 DEF Made
    <3> QED BY <2>1, <2>3, <2>5, <3>1, <3>2 DEF Made
  <2> QED BY <1>2, <2>3, <2>4, <2>5
<1>5. CASE DeleteProjects(h)
  <2> DEFINE s == [View(h) EXCEPT !.projects = {}]
  <2>1. /\ writer = h /\ View(h) = tx /\ Made(job[h], db, tx)
        /\ job[h].pc = "deleteProjects"
        /\ job[h].records = job[h].req.batch.records
        /\ job[h].days = job[h].req.batch.days
    BY <1>1, <1>5
       DEF DeleteProjects, At, LockInv, View, Progress, Remaining, BeforeDays
  <2>2. s.records = tx.records /\ s.projects = {} /\ s.days = tx.days
    BY <1>0, <2>1 DEF Databases
  <2>3. /\ CanWrite(h) /\ Write(h, s) /\ Goto(h, "days")
        /\ UNCHANGED <<db, repo>> /\ job[h].pc \in BeforeDays \ {"begin"}
    BY <1>5 DEF DeleteProjects, At, BeforeDays
  <2> HIDE DEF s
  <2>4. UniqueIds(s)
    BY <2>2 DEF UniqueIds
  <2>5. ASSUME NEW new, new.pc = "days", new.req = job[h].req,
               new.days = job[h].req.batch.days,
               new.records = job[h].req.batch.records
        PROVE  Made(new, db, s)
    <3>1. TableOf(s) = TableOf(tx)
      BY <2>2, TableKept
    <3> QED BY <2>1, <2>2, <2>5, <3>1 DEF Made
  <2> QED BY <1>2, <2>3, <2>4, <2>5
<1> QED BY <1>3, <1>4, <1>5

LEMMA ProgressInsertsDay ==
  ASSUME TypeInv, LockInv, ProgressInv, NEW h \in Hosts, InsertDay(h)
  PROVE  ProgressInv'
<1>0. View(h) \in Databases /\ UniqueIds(View(h)) /\ TypeOK
  BY ViewType, HostsAssumption DEF TypeInv, ProgressInv, View
<1>1. /\ job[h] \in Jobs /\ repo[h] \in Repos /\ job[h].pc = "days"
      /\ repo[h].heldDay = {}
      /\ job[h].records = job[h].req.batch.records /\ Progress(h)
      /\ job[h].days \subseteq job[h].req.batch.days
  BY AtWork DEF InsertDay, At, TypeInv, TypeOK, ProgressInv, Progress,
                Remaining
<1>2. PICK d \in job[h].days :
        /\ Write(h, [View(h) EXCEPT !.days = @ \cup {d}])
        /\ job' = [job EXCEPT ![h].days = @ \ {d}]
  BY <1>1 DEF InsertDay
<1> DEFINE s == [View(h) EXCEPT !.days = @ \cup {d}]
           new == [job[h] EXCEPT !.days = @ \ {d}]
<1>3. /\ s.days = View(h).days \cup {d} /\ s.records = View(h).records
      /\ s.projects = View(h).projects /\ s.seq = View(h).seq
  BY <1>0 DEF Databases
<1>4. /\ new.pc = "days" /\ new.req = job[h].req
      /\ new.days = job[h].days \ {d} /\ new.records = job[h].records
  BY <1>1 DEF Jobs
<1>5. Write(h, s) /\ job' = [job EXCEPT ![h] = new]
  BY <1>2
<1> HIDE DEF s, new
<1>6. job'[h] = new /\ \A g \in Hosts \ {h} : job'[g] = job[g]
  BY <1>0, <1>5, JobFields
<1>7. /\ repo'[h].heldDay = {} /\ CanWrite(h) /\ db' = db
      /\ \A g \in Hosts \ {h} : repo'[g] = repo[g]
  BY <1>0, <1>1 DEF InsertDay, TypeOK, Repos
<1>8. Remaining(new, {})
  BY <1>1, <1>4 DEF Remaining, BeforeDays
<1>9. TableOf(s) = PartlyDone(new.req, new.req.batch.records \ new.records,
                              TableOf(db))
  <2>1. CASE writer = h
    <3>1. View(h) = tx /\ TableOf(s) = TableOf(tx)
      BY <1>3, <2>1, TableKept DEF View
    <3> QED BY <1>1, <1>4, <2>1, <3>1 DEF Progress, Made
  <2>2. CASE writer # h
    <3>1. View(h) = db /\ job[h].req.kind = "import"
      BY <1>1, <2>2 DEF View, LockInv, At
    <3>2. s.records = {r \in db.records : ~Removes(new.req, r.day)}
      BY <1>3, <1>4, <3>1 DEF Removes
    <3>3. new.req.batch.records = new.records
      BY <1>1, <1>4
    <3> QED BY <3>2, <3>3, NothingDone
  <2> QED BY <2>1, <2>2
<1>10. s.days = {x \in db.days : ~Removes(new.req, x)}
                \cup (new.req.batch.days \ new.days)
  <2>1. CASE writer = h
    <3>1. View(h).days = {x \in db.days : ~Removes(job[h].req, x)}
                    \cup (job[h].req.batch.days \ job[h].days)
      BY <1>1, <2>1 DEF View, Progress, Made
    <3> QED BY <1>1, <1>2, <1>3, <1>4, <3>1
  <2>2. CASE writer # h
    <3>1. /\ View(h) = db /\ job[h].req.kind = "import"
          /\ job[h].days = job[h].req.batch.days
      BY <1>1, <2>2 DEF View, LockInv, At
    <3> QED BY <1>2, <1>3, <1>4, <3>1 DEF Removes
  <2> QED BY <2>1, <2>2
<1>11. Made(new, db, s)
  BY <1>4, <1>9, <1>10 DEF Made
<1>12. UniqueIds(s)
  BY <1>0, <1>3 DEF UniqueIds
<1>13. tx' = s /\ writer' = h
  BY <1>5 DEF Write
<1>14. Progress(h)'
  BY <1>4, <1>6, <1>7, <1>8, <1>11, <1>13 DEF Progress, At
<1> QED BY <1>5, <1>6, <1>7, <1>12, <1>14, ProgressWritten

LEMMA ProgressStartsRecords ==
  ASSUME TypeInv, LockInv, ProgressInv, NEW h \in Hosts,
         StartRecords(h) \/ AllResolved(h)
  PROVE  ProgressInv'
<1>0. TypeOK
  BY DEF TypeInv
<1>1. job[h] \in Jobs /\ repo[h] \in Repos /\ Progress(h)
  BY AtWork DEF StartRecords, AllResolved, At, TypeInv, TypeOK, ProgressInv
<1>2. PICK pc \in {"commit", "resolve", "records"} :
        /\ Goto(h, pc) /\ UNCHANGED <<db, writer, tx>>
        /\ job[h].pc \in {"days", "resolve"} /\ job[h].days = {}
        /\ pc = "commit" => job[h].records = {} /\ job[h].pc = "days"
  BY <1>1 DEF StartRecords, AllResolved, At, Progress, Remaining
<1>3. /\ repo'[h].heldDay = repo[h].heldDay
      /\ \A g \in Hosts \ {h} : repo'[g] = repo[g]
  <2>1. \/ UNCHANGED repo
        \/ repo' = [repo EXCEPT ![h].tree = LoadedTree(View(h).projects)]
    BY DEF StartRecords, AllResolved
  <2> QED BY <1>0, <1>1, <2>1 DEF TypeOK, Repos
<1> DEFINE new == [job[h] EXCEPT !.pc = pc]
<1>4. /\ new.pc = pc /\ new.req = job[h].req /\ new.days = {}
      /\ new.records = job[h].records
  BY <1>1, <1>2 DEF Jobs
<1>5. job'[h] = new /\ \A g \in Hosts \ {h} : job'[g] = job[g]
  BY <1>0, <1>2, JobFields DEF Goto
<1> HIDE DEF new
<1>6. /\ repo[h].heldDay = {} /\ job[h].records = job[h].req.batch.records
  BY <1>1, <1>2 DEF Progress, Remaining
<1>7. Remaining(new, repo[h].heldDay)
  BY <1>2, <1>4, <1>6 DEF Remaining, BeforeDays
<1>8. writer = h => Made(new, db, tx)
  BY <1>1, <1>2, <1>4 DEF Progress, Made
<1>9. pc = "commit" /\ writer # h =>
        new.req.kind = "import" /\ new.req.batch.days = {}
  BY <1>2, <1>4 DEF LockInv, At
<1>10. Progress(h)'
  BY <1>2, <1>3, <1>4, <1>5, <1>7, <1>8, <1>9 DEF Progress, At
<1> QED BY <1>2, <1>3, <1>5, <1>10, ProgressUntouched

LEMMA ProgressResolves ==
  ASSUME TypeInv, LockInv, ProgressInv, NEW h \in Hosts, ResolvePath(h)
  PROVE  ProgressInv'
<1>0. TypeOK /\ View(h) \in Databases
  BY ViewType DEF TypeInv
<1>1. /\ job[h] \in Jobs /\ repo[h] \in Repos /\ Progress(h)
      /\ job[h].pc = "resolve" /\ writer = h /\ View(h) = tx
      /\ UniqueIds(tx) /\ CanWrite(h) /\ db' = db
  BY AtWork, HostsAssumption
     DEF ResolvePath, At, TypeInv, TypeOK, ProgressInv, LockInv, View
<1> DEFINE mid(p) == EnsureNode(Resolver(h), RootOf(p))
           end(p) == EnsureNode(mid(p), p)
           node(p) == [path |-> p, id |-> IdIn(end(p).tree, p)]
<1>2. PICK p \in job[h].paths :
        /\ job' = [job EXCEPT ![h].paths = @ \ {p}]
        /\ \/ UNCHANGED <<writer, tx, repo>>
           \/ /\ Write(h, [View(h) EXCEPT !.projects = end(p).projects,
                                          !.seq = end(p).seq])
              /\ repo' = [repo EXCEPT ![h] =
                            [repo[h] EXCEPT !.tree = end(p).tree,
                                            !.cache = @ \cup {node(p)}]]
  BY DEF ResolvePath
<1>3. p \in Paths /\ Resolver(h) \in ResolverStates /\ UniqueIds(Resolver(h))
  BY <1>0, <1>1
     DEF Jobs, Resolver, ResolverStates, Databases, Repos, UniqueIds
<1>4. UniqueIds(end(p))
  <2>1. mid(p) \in ResolverStates /\ UniqueIds(mid(p))
    BY <1>3, EnsurePathType, EnsureNodeUnique, PathShape
  <2> HIDE DEF mid
  <2> QED BY <1>3, <2>1, EnsureNodeUnique
<1> DEFINE new == [job[h] EXCEPT !.paths = @ \ {p}]
<1>5. /\ new.pc = "resolve" /\ new.req = job[h].req /\ new.days = job[h].days
      /\ new.records = job[h].records /\ job' = [job EXCEPT ![h] = new]
  BY <1>1, <1>2 DEF Jobs
<1> HIDE DEF new, end, node
<1>6. job'[h] = new /\ \A g \in Hosts \ {h} : job'[g] = job[g]
  BY <1>0, <1>5, JobFields
<1>7. Remaining(new, repo[h].heldDay)
  BY <1>1, <1>5 DEF Progress, Remaining, BeforeDays
<1>8. ASSUME NEW s, s.records = tx.records, s.days = tx.days
      PROVE  Made(new, db, s)
  <2>1. TableOf(s) = TableOf(tx)
    BY <1>8, TableKept
  <2> QED BY <1>1, <1>5, <1>8, <2>1 DEF Progress, Made
<1>9. CASE UNCHANGED <<writer, tx, repo>>
  <2>1. Made(new, db, tx)
    BY <1>8
  <2>2. Progress(h)'
    BY <1>1, <1>5, <1>6, <1>7, <1>9, <2>1 DEF Progress, At
  <2> QED BY <1>1, <1>6, <1>9, <2>2, ProgressUntouched
<1>10. CASE /\ Write(h, [View(h) EXCEPT !.projects = end(p).projects,
                                        !.seq = end(p).seq])
            /\ repo' = [repo EXCEPT ![h] =
                          [repo[h] EXCEPT !.tree = end(p).tree,
                                          !.cache = @ \cup {node(p)}]]
  <2> DEFINE s == [View(h) EXCEPT !.projects = end(p).projects,
                                  !.seq = end(p).seq]
  <2>1. /\ s.records = tx.records /\ s.days = tx.days
        /\ s.projects = end(p).projects /\ s.seq = end(p).seq
    BY <1>0, <1>1 DEF Databases
  <2>2. Write(h, s)
    BY <1>10
  <2> HIDE DEF s
  <2>3. UniqueIds(s)
    BY <1>4, <2>1 DEF UniqueIds
  <2>4. /\ repo'[h].heldDay = repo[h].heldDay
        /\ \A g \in Hosts \ {h} : repo'[g] = repo[g]
    BY <1>0, <1>1, <1>10 DEF TypeOK, Repos
  <2>5. Made(new, db, s)
    BY <1>8, <2>1
  <2>6. tx' = s /\ writer' = h
    BY <2>2 DEF Write
  <2>7. Progress(h)'
    BY <1>1, <1>5, <1>6, <1>7, <2>4, <2>5, <2>6 DEF Progress, At
  <2> QED BY <1>1, <1>6, <2>2, <2>3, <2>4, <2>7, ProgressWritten
<1> QED BY <1>2, <1>9, <1>10

\* One record more: distinct records of a batch have distinct ids.
LEMMA OneMoreDone ==
  ASSUME NEW req \in Requests, NEW todo \in SUBSET req.batch.records,
         NEW r \in todo, NEW old
  PROVE  {x \in PartlyDone(req, req.batch.records \ todo, old) : x.id # r.id}
             \cup {r}
           = PartlyDone(req, req.batch.records \ (todo \ {r}), old)
<1> DEFINE all  == req.batch.records
           done == all \ todo
<1>1. \A x \in all : x.id = r.id => x = r
  BY RequestType, BatchesAssumption
<1>2. all \ (todo \ {r}) = done \cup {r} /\ r \notin done
  OBVIOUS
<1>3. {x \in done : x.id # r.id} = done
  BY <1>1, <1>2
<1> HIDE DEF all, done
<1>4. {x \in {y \in old : /\ ~Removes(req, y.day)
                          /\ \A new \in done : new.id # y.id} : x.id # r.id}
      = {y \in old : /\ ~Removes(req, y.day)
                     /\ \A new \in done \cup {r} : new.id # y.id}
  OBVIOUS
<1>5. {x \in PartlyDone(req, done, old) : x.id # r.id} \cup {r}
      = PartlyDone(req, done \cup {r}, old)
  BY <1>3, <1>4 DEF PartlyDone
<1> QED BY <1>2, <1>5 DEF all, done

LEMMA ProgressInsertsRecord ==
  ASSUME TypeInv, LockInv, SnapInv, ProgressInv, NEW h \in Hosts,
         InsertRecord(h)
  PROVE  ProgressInv'
<1>0. TypeOK /\ View(h) \in Databases
  BY ViewType DEF TypeInv
<1>1. /\ job[h] \in Jobs /\ repo[h] \in Repos /\ Progress(h)
      /\ job[h].pc = "records" /\ writer = h /\ View(h) = tx
      /\ UniqueIds(tx) /\ CanWrite(h) /\ db' = db
      /\ repo[h].heldRecord = {}
      /\ job[h].records \subseteq job[h].req.batch.records
  BY AtWork, HostsAssumption
     DEF InsertRecord, At, TypeInv, TypeOK, ProgressInv, LockInv, View,
         SnapInv, ResolverInv
<1>2. PICK r \in job[h].records :
        /\ Write(h, [View(h) EXCEPT !.records = Upsert(@, StepRow(h, r))])
        /\ job' = [job EXCEPT ![h].records = @ \ {r}]
  BY DEF InsertRecord
<1> DEFINE row == StepRow(h, r)
           s == [View(h) EXCEPT !.records = Upsert(@, row)]
           new == [job[h] EXCEPT !.records = @ \ {r}]
<1>3. row.id = r.id /\ row.day = r.day /\ row.snap = r.path
  BY <1>1 DEF StepRow, RowOf
<1> HIDE DEF row
<1>4. /\ s.records = {old \in tx.records : old.id # row.id} \cup {row}
      /\ s.days = tx.days /\ s.projects = tx.projects /\ s.seq = tx.seq
  BY <1>0, <1>1 DEF Databases, Upsert
<1>5. /\ new.pc = "records" /\ new.req = job[h].req /\ new.days = job[h].days
      /\ new.records = job[h].records \ {r}
  BY <1>1 DEF Jobs
<1>6. Write(h, s) /\ job' = [job EXCEPT ![h] = new]
  BY <1>2 DEF row
<1> HIDE DEF s, new
<1>7. job'[h] = new /\ \A g \in Hosts \ {h} : job'[g] = job[g]
  BY <1>0, <1>6, JobFields
<1>8. /\ repo'[h].heldDay = repo[h].heldDay
      /\ \A g \in Hosts \ {h} : repo'[g] = repo[g]
  BY <1>0, <1>1 DEF InsertRecord, TypeOK, Repos
<1>9. Remaining(new, repo[h].heldDay)
  BY <1>1, <1>5 DEF Progress, Remaining, BeforeDays
<1>10. TableOf(s) = {x \in TableOf(tx) : x.id # r.id} \cup {r}
  <2>1. r = [id |-> r.id, day |-> r.day, path |-> r.path]
    BY <1>1, RequestType, BatchesAssumption DEF Jobs
  <2>2. TableOf(s) = {[id |-> x.id, day |-> x.day, path |-> x.snap] :
                        x \in {old \in tx.records : old.id # r.id}} \cup {r}
    BY <1>3, <1>4, <2>1 DEF TableOf
  <2>3. {[id |-> x.id, day |-> x.day, path |-> x.snap] :
           x \in {old \in tx.records : old.id # r.id}}
        = {x \in TableOf(tx) : x.id # r.id}
    BY DEF TableOf
  <2> QED BY <2>2, <2>3
<1>11. Made(new, db, s)
  <2>1. TableOf(tx) = PartlyDone(job[h].req,
                        job[h].req.batch.records \ job[h].records, TableOf(db))
    BY <1>1 DEF Progress, Made
  <2>2. job[h].req \in Requests
    BY <1>1 DEF Jobs
  <2> DEFINE req  == job[h].req
             todo == job[h].records
  <2>3. todo \in SUBSET req.batch.records /\ r \in todo
    BY <1>1, <1>2
  <2>4. \A old : {x \in PartlyDone(req, req.batch.records \ todo, old) :
                    x.id # r.id} \cup {r}
                = PartlyDone(req, req.batch.records \ (todo \ {r}), old)
    <3> HIDE DEF req, todo
    <3> QED BY <2>2, <2>3, OneMoreDone DEF req
  <2>5. TableOf(s) = PartlyDone(req, req.batch.records \ (todo \ {r}),
                                TableOf(db))
    BY <1>10, <2>1, <2>4
  <2>6. TableOf(s) = PartlyDone(new.req, new.req.batch.records \ new.records,
                                TableOf(db))
    BY <1>5, <2>5
  <2> QED BY <1>1, <1>4, <1>5, <2>6 DEF Progress, Made
<1>12. UniqueIds(s)
  BY <1>1, <1>4 DEF UniqueIds
<1>13. tx' = s /\ writer' = h
  BY <1>6 DEF Write
<1>14. Progress(h)'
  BY <1>1, <1>5, <1>7, <1>8, <1>9, <1>11, <1>13 DEF Progress, At
<1> QED BY <1>1, <1>6, <1>7, <1>8, <1>12, <1>14, ProgressWritten

LEMMA ProgressNext ==
  ASSUME RuntimePerCall, TypeInv, LockInv, SnapInv, ProgressInv, [Next]_vars
  PROVE  ProgressInv'
<1>0. TypeOK
  BY DEF TypeInv
<1>1. CASE UNCHANGED vars
  BY <1>1 DEF vars, ProgressInv, Progress, At
<1>2. ASSUME NEW h \in Hosts, NEW req \in Requests, Call(h, req)
      PROVE  ProgressInv'
  <2> DEFINE new == [pc |-> "begin", req |-> req, days |-> req.batch.days,
                     paths |-> {r.path : r \in req.batch.records},
                     records |-> req.batch.records]
  <2>1. job' = [job EXCEPT ![h] = new] /\ UNCHANGED <<db, writer, tx>>
    BY <1>2 DEF Call
  <2>2. Remaining(new, {}) /\ new.pc = "begin"
    BY DEF Remaining, BeforeDays
  <2> HIDE DEF new
  <2>3. job'[h] = new /\ \A g \in Hosts \ {h} : job'[g] = job[g]
    BY <1>0, <2>1, JobFields
  <2>4. /\ repo'[h].heldDay = {} /\ writer # h
        /\ \A g \in Hosts \ {h} : repo'[g] = repo[g]
    BY <1>0, <1>2 DEF Call, TypeOK, FreshRepo, LockInv
  <2>5. Progress(h)'
    BY <2>1, <2>2, <2>3, <2>4 DEF Progress, At
  <2> QED BY <2>1, <2>3, <2>4, <2>5, ProgressUntouched
<1>3. ASSUME NEW h \in Hosts, Failure(h) PROVE ProgressInv'
  <2>1. Abandon(h) /\ db' = db
    BY <1>3 DEF Failure, PlainFailure, CommitFailure, DayFailure,
                ProjectFailure, RecordFailure, Crash
  <2>2. \A g \in Hosts \ {h} : repo'[g] = repo[g]
    BY <1>0, <1>3 DEF Failure, PlainFailure, CommitFailure, DayFailure,
                ProjectFailure, RecordFailure, Crash, TypeOK
  <2> QED BY <1>0, <2>1, <2>2, ProgressAbandoned
<1>4. ASSUME NEW h \in Hosts, Commit(h) PROVE ProgressInv'
  BY <1>0, <1>4, ProgressAbandoned DEF Commit
<1> QED
  BY <1>1, <1>2, <1>3, <1>4, ProgressBegins, ProgressDeletes,
     ProgressInsertsDay, ProgressStartsRecords, ProgressResolves,
     ProgressInsertsRecord DEF Next, Step, Done

-----------------------------------------------------------------------------
(* Each step is a step of the promise or none.                             *)

PromiseInv == IInv /\ SnapInv /\ ProgressInv

LEMMA PromiseInvHolds ==
  ASSUME RuntimePerCall PROVE Spec => []PromiseInv
<1>1. Init => PromiseInv
  BY IInvInit, SnapInit, ProgressInit DEF PromiseInv
<1>2. PromiseInv /\ [Next]_vars => PromiseInv'
  BY IInvNext, SnapNext, ProgressNext DEF PromiseInv, IInv
<1> QED BY <1>1, <1>2, PTL DEF Spec

\* The reports agree with the table, before a step and after it.
ReportsAgree == ReportedTable = TableOf(db)

LEMMA ReportsAgreeNow == PromiseInv => ReportsAgree
BY TableIsReported
   DEF PromiseInv, IInv, TypeInv, SnapInv, ProgressInv, ReportsAgree

LEMMA ReportsAgreeNext == PromiseInv' => ReportsAgree'
BY ReportsAgreeNow, PTL

LEMMA TableReported == PromiseInv => ReportedTable = TableOf(db)
BY ReportsAgreeNow DEF ReportsAgree

LEMMA TableReportedNext == PromiseInv' => ReportedTable' = TableOf(db')
<1> SUFFICES ASSUME PromiseInv' PROVE ReportedTable' = TableOf(db')
  OBVIOUS
<1>1. ReportsAgree'
  BY ReportsAgreeNext
<1> QED BY <1>1 DEF ReportsAgree, TableOf

LEMMA CommitSucceeds ==
  ASSUME PromiseInv, PromiseInv', NEW h \in Hosts, Commit(h)
  PROVE  Promise!Succeed(h)
<1>0. /\ TypeOK /\ LockInv /\ Progress(h) /\ ReportedTable = TableOf(db)
      /\ ReportedTable' = TableOf(db')
  BY TableReported, TableReportedNext
     DEF PromiseInv, IInv, TypeInv, ProgressInv
<1>1. /\ job[h] \in Jobs /\ job[h].pc \in {"commit", "records"}
      /\ job[h].records = {} /\ job[h].days = {}
      /\ db' = View(h) /\ Abandon(h) /\ Answer(h, "ok")
  BY <1>0, AtWork DEF Commit, At, Progress, Remaining
<1> DEFINE req == job[h].req
<1>2. req \in Requests /\ req # Idle
  BY <1>1, IdleAssumption DEF Jobs
<1>3. /\ db'.days = DaysAfter(req, db.days)
      /\ TableOf(db') = RecordsAfter(req, TableOf(db))
  <2>1. CASE writer = h
    <3>1. View(h) = tx /\ Made(job[h], db, tx)
      BY <1>0, <2>1 DEF View, Progress
    <3> QED BY <1>1, <3>1 DEF Made, PartlyDone, DaysAfter, RecordsAfter
  <2>2. CASE writer # h
    <3>1. /\ View(h) = db /\ req.kind = "import" /\ req.batch.days = {}
      BY <1>0, <1>1, <2>2 DEF View, Progress, LockInv, At
    <3>2. req.batch.records = {}
      BY <1>2, <3>1, RequestType
    <3> QED BY <1>1, <3>1, <3>2 DEF DaysAfter, RecordsAfter, Removes
  <2> QED BY <2>1, <2>2
<1>4. [x \in Hosts |-> job[x].req]'
        = [[x \in Hosts |-> job[x].req] EXCEPT ![h] = Idle]
  BY <1>0, <1>1 DEF Abandon, NoJob, TypeOK
<1>5. result' = [result EXCEPT ![h] = "ok"]
  BY <1>1 DEF Answer
<1> QED BY <1>0, <1>2, <1>3, <1>4, <1>5
        DEF Promise!Succeed, Promise!DaysAfter, Promise!RecordsAfter,
            Promise!Removes, DaysAfter, RecordsAfter, Removes

LEMMA StepIsPromised ==
  ASSUME PromiseInv, PromiseInv', Next
  PROVE  Promise!Next \/ UNCHANGED Promise!promiseVars
<1>0. TypeOK /\ ReportedTable = TableOf(db) /\ ReportedTable' = TableOf(db')
  BY TableReported, TableReportedNext DEF PromiseInv, IInv, TypeInv
<1>1. ASSUME NEW h \in Hosts, NEW req \in Requests, Call(h, req)
      PROVE  Promise!Call(h, req)
  <2>1. job[h].req = Idle /\ UNCHANGED <<db, result>>
    BY <1>0, <1>1 DEF Call, At, TypeOK, Jobs, WorkPcs, NoJob
  <2>2. [x \in Hosts |-> job[x].req]'
          = [[x \in Hosts |-> job[x].req] EXCEPT ![h] = req]
    BY <1>0, <1>1 DEF Call, TypeOK
  <2> QED BY <1>0, <2>1, <2>2 DEF Promise!Call
<1>2. ASSUME NEW h \in Hosts, Failure(h) PROVE Promise!GiveUp(h)
  <2>1. /\ Abandon(h) /\ db' = db /\ ~At(h, "idle")
        /\ Answer(h, "failed") \/ Answer(h, "none")
    BY <1>2 DEF Failure, PlainFailure, CommitFailure, DayFailure,
                ProjectFailure, RecordFailure, Crash, At
  <2>2. job[h].req # Idle
    BY <1>0, <2>1, AtWork, IdleAssumption DEF Jobs
  <2>3. [x \in Hosts |-> job[x].req]'
          = [[x \in Hosts |-> job[x].req] EXCEPT ![h] = Idle]
    BY <1>0, <2>1 DEF Abandon, NoJob, TypeOK
  <2>4. \E r \in {"failed", "none"} : result' = [result EXCEPT ![h] = r]
    BY <2>1 DEF Answer
  <2> QED BY <1>0, <2>1, <2>2, <2>3, <2>4 DEF Promise!GiveUp
<1>3. ASSUME NEW h \in Hosts, Step(h), ~Commit(h)
      PROVE  UNCHANGED Promise!promiseVars
  <2>1. UNCHANGED <<db, result>>
    BY <1>3 DEF Step, Begin, DeleteRecords, DeleteDays, DeleteProjects,
       InsertDay, StartRecords, ResolvePath, AllResolved, InsertRecord
  <2>2. job[h] \in Jobs
    BY <1>0, <1>3, AtWork DEF Step, Begin, DeleteRecords, DeleteDays,
       DeleteProjects, InsertDay, StartRecords, ResolvePath, AllResolved,
       InsertRecord, At
  <2>3. \/ \E pc : job' = [job EXCEPT ![h].pc = pc]
        \/ \E days : job' = [job EXCEPT ![h].days = days]
        \/ \E paths : job' = [job EXCEPT ![h].paths = paths]
        \/ \E records : job' = [job EXCEPT ![h].records = records]
    BY <1>3 DEF Step, Begin, DeleteRecords, DeleteDays, DeleteProjects,
       InsertDay, StartRecords, ResolvePath, AllResolved, InsertRecord, Goto
  <2>4. \A g \in Hosts : job'[g].req = job[g].req
    BY <1>0, <2>2, <2>3 DEF TypeOK, Jobs
  <2>5. [g \in Hosts |-> job[g].req]' = [g \in Hosts |-> job[g].req]
    BY <2>4
  <2> QED BY <1>0, <2>1, <2>5 DEF Promise!promiseVars
<1>4. CASE UNCHANGED vars
  BY <1>0, <1>4 DEF vars, Promise!promiseVars
<1>5. ASSUME NEW h \in Hosts, Commit(h) PROVE Promise!Succeed(h)
  BY <1>5, CommitSucceeds
<1> QED BY <1>1, <1>2, <1>3, <1>4, <1>5
        DEF Next, Done, Promise!Next, Promise!Requests, Requests

\* On a host that creates a runtime for every call the repository implements
\* ImportPromise: each call happens at one instant or not at all, whatever
\* fails, whoever else has the database open.
THEOREM RepositoryKeepsItsPromise ==
  ASSUME RuntimePerCall PROVE Spec => ImplementsPromise
<1>1. Init => Promise!Init
  BY DEF Init, Promise!Init, EmptyDb, ReportedTable, NoJob
<1>2. PromiseInv /\ PromiseInv' /\ [Next]_vars
        => [Promise!Next]_(Promise!promiseVars)
  <2> SUFFICES ASSUME PromiseInv, PromiseInv', [Next]_vars
               PROVE  [Promise!Next]_(Promise!promiseVars)
    OBVIOUS
  <2>1. CASE UNCHANGED vars
    <3>1. ReportedTable' = ReportedTable
      BY <2>1, TableReported, TableReportedNext DEF vars
    <3> QED BY <2>1, <3>1 DEF vars, Promise!promiseVars
  <2> QED BY <2>1, StepIsPromised
<1> QED BY <1>1, <1>2, PromiseInvHolds, PTL
        DEF Spec, ImplementsPromise, Promise!Spec
=============================================================================
