--------------------------- MODULE PackagesProofs ---------------------------
(***************************************************************************)
(* Encryption and the exchange package, for any TXTs, sizes, passphrases    *)
(* and earlier files.  PackagesInv says where each operation is: what it    *)
(* has done to the files it is past, which keys it has found, how far its   *)
(* reporter stands, what is in the directory it unpacks to.  The proofs say  *)
(* first what a step may do to the operation and to what the observer was   *)
(* told (...Does), then that the invariant is kept (...Keeps), and last     *)
(* that the properties of Packages follow.                                 *)
(***************************************************************************)
EXTENDS Packages, FiniteSetTheorems, FunctionTheorems, SequenceTheorems,
        NaturalsInduction, TLAPS

-----------------------------------------------------------------------------
(* Sums over a plan.                                                       *)

LEMMA EveryNumberUpTo ==
  ASSUME NEW n \in Nat, NEW S, 0 \in S,
         \A k \in 0..(n - 1) : k \in S => k + 1 \in S
  PROVE  \A k \in 0..n : k \in S
<1> DEFINE Less == {p \in Nat \X Nat : p[1] < p[2]}
           Bad == (0..n) \ S
<1>1. SUFFICES ASSUME Bad # {} PROVE FALSE
  OBVIOUS
<1>2. IsWellFoundedOn(Less, Nat)
  BY NatLessThanWellFounded DEF OpToRel
<1>3. Bad \subseteq Nat
  OBVIOUS
<1>4. PICK k \in Bad : \A j \in Bad : <<j, k>> \notin Less
  <2> HIDE DEF Bad, Less
  <2> QED BY <1>1, <1>2, <1>3, WFMin
<1>5. k \in 0..n /\ k # 0
  BY <1>4
<1>6. k - 1 \in 0..(n - 1) /\ <<k - 1, k>> \in Less /\ k - 1 \in 0..n
  BY <1>5
<1>7. k - 1 \in S
  BY <1>4, <1>6
<1> QED BY <1>4, <1>5, <1>6, <1>7

SumsTo(plan, m) ==
  {up \in [0..m -> Nat] :
     \A i \in 0..m : up[i] = IF i = 0 THEN 0 ELSE up[i - 1] + Planned[plan[i]]}

LEMMA SumsExist ==
  ASSUME NEW plan \in Seq(Entries)
  PROVE  \A m \in 0..Len(plan) : SumsTo(plan, m) # {}
<1> DEFINE S == {k \in 0..Len(plan) : SumsTo(plan, k) # {}}
<1>1. 0 \in S
  <2>1. [i \in 0..0 |-> 0] \in SumsTo(plan, 0)
    BY DEF SumsTo
  <2> QED BY <2>1
<1>2. ASSUME NEW k \in 0..(Len(plan) - 1), k \in S
      PROVE  k + 1 \in S
  <2>1. PICK up \in SumsTo(plan, k) : TRUE
    BY <1>2
  <2> DEFINE more == [i \in 0..(k + 1) |-> IF i < k + 1 THEN up[i]
                                           ELSE up[k] + Planned[plan[k + 1]]]
  <2>2. Planned[plan[k + 1]] \in Nat
    <3>1. plan[k + 1] \in Entries
      OBVIOUS
    <3> QED BY <3>1, PlannedAssumption
  <2>3. more \in [0..(k + 1) -> Nat]
    BY <2>1, <2>2 DEF SumsTo
  <2>4. ASSUME NEW i \in 0..(k + 1)
        PROVE  more[i] = IF i = 0 THEN 0 ELSE more[i - 1] + Planned[plan[i]]
    BY <2>1, <2>2 DEF SumsTo
  <2>5. more \in SumsTo(plan, k + 1)
    BY <2>3, <2>4 DEF SumsTo
  <2> QED BY <2>5
<1> HIDE DEF S
<1>3. \A m \in 0..Len(plan) : m \in S
  BY <1>1, <1>2, EveryNumberUpTo, SMTT(30)
<1> QED BY <1>3 DEF S

LEMMA PlannedSums ==
  ASSUME NEW plan \in Seq(Entries)
  PROVE  PlannedUpTo(plan) \in SumsTo(plan, Len(plan))
<1> DEFINE n == Len(plan)
           Sums(f) == f = [i \in 0..n |-> IF i = 0 THEN 0
                                          ELSE f[i - 1] + Planned[plan[i]]]
<1>1. n \in Nat
  OBVIOUS
<1>2. PICK up \in SumsTo(plan, n) : TRUE
  BY <1>1, SumsExist
<1>3. Sums(up)
  BY <1>2 DEF SumsTo
<1>4. PlannedUpTo(plan) = CHOOSE f : Sums(f)
  BY DEF PlannedUpTo
<1>5. Sums(PlannedUpTo(plan))
  <2> HIDE DEF Sums
  <2> QED BY <1>3, <1>4
<1>6. ASSUME NEW f, Sums(f)
      PROVE  f = up
  <2> DEFINE S == {k \in 0..n : f[k] = up[k]}
  <2>1. 0 \in S /\ \A k \in 0..(n - 1) : k \in S => k + 1 \in S
    BY <1>1, <1>3, <1>6, SMTT(30)
  <2> HIDE DEF S, n
  <2>2. \A k \in 0..n : k \in S
    BY <1>1, <2>1, EveryNumberUpTo
  <2>3. \A k \in 0..n : f[k] = up[k]
    BY <2>2 DEF S
  <2>4. f = [k \in 0..n |-> f[k]]
    BY <1>6
  <2>5. up = [k \in 0..n |-> up[k]]
    BY <1>3
  <2> QED BY <2>3, <2>4, <2>5
<1>7. PlannedUpTo(plan) = up
  <2> HIDE DEF Sums
  <2> QED BY <1>5, <1>6
<1> QED BY <1>2, <1>7

LEMMA SumsGrow ==
  ASSUME NEW plan \in Seq(Entries)
  PROVE  /\ Len(plan) \in Nat
         /\ PlannedUpTo(plan)[0] = 0
         /\ \A i \in 0..Len(plan) :
              /\ PlannedUpTo(plan)[i] \in Nat
              /\ PlannedUpTo(plan)[i] <= PlannedUpTo(plan)[Len(plan)]
         /\ \A i \in 1..Len(plan) :
              /\ Planned[plan[i]] \in Nat
              /\ PlannedUpTo(plan)[i] = PlannedUpTo(plan)[i - 1] + Planned[plan[i]]
<1> DEFINE n == Len(plan)
           up == PlannedUpTo(plan)
           S == {k \in 0..n : up[n - k] <= up[n]}
<1>1. n \in Nat
  OBVIOUS
<1>2. \A i \in 1..n : Planned[plan[i]] \in Nat
  <2>1. \A i \in 1..n : plan[i] \in Entries
    OBVIOUS
  <2> QED BY <2>1, PlannedAssumption
<1>3. up \in SumsTo(plan, n)
  BY PlannedSums
<1> HIDE DEF up, n
<1>4. /\ \A i \in 0..n : up[i] \in Nat
      /\ up[0] = 0
      /\ \A i \in 1..n : up[i] = up[i - 1] + Planned[plan[i]]
  BY <1>1, <1>3 DEF SumsTo
<1>5. 0 \in S
  BY <1>1, <1>4
<1>6. ASSUME NEW k \in 0..(n - 1), k \in S
      PROVE  k + 1 \in S
  <2>1. n - k \in 1..n /\ n - (k + 1) = (n - k) - 1 /\ (n - k) - 1 \in 0..n
    BY <1>1
  <2>2. up[n - k] = up[(n - k) - 1] + Planned[plan[n - k]]
    BY <1>4, <2>1
  <2>3. up[(n - k) - 1] <= up[n - k]
    BY <1>2, <1>4, <2>1, <2>2, SMTT(30)
  <2>4. up[(n - k) - 1] <= up[n]
    BY <1>1, <1>4, <1>6, <2>1, <2>3
  <2> QED BY <1>1, <2>1, <2>4
<1> HIDE DEF S
<1>7. \A k \in 0..n : k \in S
  BY <1>1, <1>5, <1>6, EveryNumberUpTo
<1>8. \A i \in 0..n : up[i] <= up[n]
  <2>1. \A i \in 0..n : n - i \in 0..n /\ n - (n - i) = i
    BY <1>1
  <2> QED BY <1>7, <2>1 DEF S
<1> QED BY <1>1, <1>2, <1>4, <1>8 DEF up, n
-----------------------------------------------------------------------------
(* The invariant, part by part.                                            *)

Fields == {"step", "op", "batch", "goOn", "pass", "plan", "at", "salt", "keys",
           "length", "read", "error", "asked", "lost", "answer"}
Exchanging == {"export", "inspect", "unpack"}

\* The steps of one file, and all of them.
Opened == {"crypt", "open", "decompress", "write", "store"}
InFile == {"read", "chunks", "compress", "derive"} \cup Opened
Steps == {"scan", "totals", "session", "select", "entries"} \cup InFile
Runs == job.step # "idle"

\* How many files of the plan the operation is done with.
Past == IF job.step \in InFile THEN job.at - 1 ELSE job.at

\* The disk: a .tracer file that can be read was sealed for somebody, and no
\* operation to come will use its nonce.
DiskFits ==
  /\ txt = [n \in Files |-> txt[n]]
  /\ pkg = [n \in Files |-> pkg[n]]
  /\ root = [e \in Entries |-> root[e]]
  /\ calls \in 0..MaxCalls
  /\ \A n \in Files : Readable(pkg[n]) =>
       /\ WellSealed(pkg[n])
       /\ \A k \in 1..MaxCalls : pkg[n].nonce = <<k, n>> => k <= calls
  /\ Readable(pack) => WellSealed(pack) /\ DOMAIN pack.content \subseteq Entries

Reporter(r) ==
  /\ r = [phase |-> r.phase, total |-> r.total, base |-> r.base,
          fileTotal |-> r.fileTotal, done |-> r.done]
  /\ r.total \in Nat /\ r.base \in Nat /\ r.fileTotal \in Nat /\ r.done \in Nat
ToldFits == Reporter(rep) /\ seen.done \in Nat /\ seen.total \in Nat

\* The operation: its data,
JobFits ==
  /\ job = [f \in Fields |-> job[f]]
  /\ job.step \in Steps
  /\ job.op \in Directory \cup Exchanging
  /\ job.goOn => job.op \in Directory
  /\ job.plan \in Seq(Entries) /\ job.at \in 0..Len(job.plan)
  /\ \A i, k \in 1..Len(job.plan) : job.plan[i] = job.plan[k] => i = k
  /\ job.op \in Directory => \A i \in 1..Len(job.plan) : job.plan[i] \in Files
  /\ job.op \notin Directory => Len(job.plan) = 1
  /\ job.length \in Nat /\ job.read \in Nat
  /\ job.error # "ok"
  /\ IsFiniteSet(job.lost)
  /\ job.answer = [status |-> job.answer.status, failed |-> job.answer.failed,
                   succeeded |-> job.answer.succeeded]
  /\ job.answer.failed \in Nat /\ job.answer.succeeded \in Nat

\* where it may be,
StepFits ==
  /\ job.step \in {"scan", "totals", "session"} => job.at = 0
  /\ job.step \in InFile => job.at >= 1
  /\ job.step \in {"open", "decompress"} => job.op \notin Sealing
  /\ job.step = "store" => job.op \in Sealing \cup Directory
  /\ job.step = "entries" => job.op = "unpack"

\* and that the file it opens could be read.
SourceFits ==
  /\ job.step \in Opened /\ job.op \notin Sealing => Readable(Source)
  /\ job.op = "unpack" =>
       ((job.step = "entries" \/ (job.step = "select" /\ job.at # 0)) => Readable(pack))

Fits == DiskFits /\ ToldFits /\ (Runs => JobFits /\ StepFits /\ SourceFits)

\* The master keys a batch has found belong to its passphrase.
KeysFit == \A s \in DOMAIN job.keys : job.keys[s] = MasterKey(job.pass, s)

\* What the directory holds that a package is unpacked to.
RootFits ==
  job.op = "unpack" =>
    /\ job.step # "entries" => job.lost = {}
    /\ \A e \in job.lost : e \in DOMAIN pack.content /\ root[e] = Torn
    /\ \A e \in Entries \ job.lost :
         \/ root[e] = NoFile
         \/ /\ job.step = "entries" /\ e \in DOMAIN pack.content
            /\ root[e] = pack.content[e]

\* The files a batch that encrypts has written, or whose end it has lost.
Counted == Cardinality(WrittenNow) + Cardinality(job.lost)

\* What the operation has done to the files it is past.
DoneFits ==
  /\ job.op = "encrypt" =>
       /\ Counted = job.answer.succeeded
       /\ \A n \in WrittenNow : \E i \in 1..Past : n = job.plan[i]
  /\ job.op \in Directory =>
       \A n \in job.lost : \E i \in 1..Past : n = job.plan[i]
  /\ job.op \in Directory /\ job.answer.failed = 0 =>
       \A i \in 1..Past :
          LET n == job.plan[i]
          IN  n \in job.lost \/ (Readable(pkg[n]) /\ pkg[n].content = txt[n])

\* The reporter is where the operation is: the files before took no more than
\* they were planned with, and this one does not.
ProgressFits ==
  LET up == PlannedUpTo(job.plan)
  IN  /\ seen.done <= rep.done
      /\ seen.total # 0 => seen.done <= seen.total
      /\ IF job.step \in {"scan", "totals"} THEN rep.total = 0 ELSE rep.total = up[Len(job.plan)]
      /\ job.step \in {"scan", "totals", "session"} => rep.done = 0
      /\ job.step = "select" => rep.done <= up[job.at]
      /\ job.step \in InFile =>
           /\ rep.base <= up[job.at - 1] /\ rep.fileTotal = Planned[job.plan[job.at]]
           /\ rep.base <= rep.done /\ rep.done <= rep.base + rep.fileTotal
      /\ job.step = "read" => rep.done = rep.base
      /\ job.step = "chunks" =>
           job.read <= job.length /\ rep.done = rep.base + Least(job.read, rep.fileTotal)

\* Only operations on files carry a token, and one that was asked to stop
\* writes only if it was writing.
TokenFits ==
  token => job.op \in Directory /\ (job.step = "store" => job.asked = "store")

-----------------------------------------------------------------------------
(* Telling: whatever comes of it, the reporter stands where it was put, and *)
(* the observer has heard that, or what it had heard before.               *)

Tells(next) ==
  /\ Reporter(rep')
  /\ rep'.total = next.total /\ rep'.base = next.base
  /\ rep'.fileTotal = next.fileTotal /\ rep'.done = next.done
  /\ \/ seen' = seen
     \/ seen'.done = next.done /\ seen'.total = next.total
  /\ token' = token

LEMMA EmissionsTell ==
  ASSUME NEW r, Reporter(r), NEW s, NEW t, NEW forced,
         NEW e \in Emissions(r, s, t, forced)
  PROVE  /\ Reporter(e.rep) /\ e.token = t
         /\ e.rep.total = r.total /\ e.rep.base = r.base
         /\ e.rep.fileTotal = r.fileTotal /\ e.rep.done = r.done
         /\ e.seen = s \/ (e.seen.done = r.done /\ e.seen.total = r.total)
         /\ e.ok => e.rep = r /\ (t => r.phase \in Settled)
<1>1. e \in {Emission(r, Snapshot(r), t, TRUE), Emission(r, s, t, TRUE),
             Cancelled(r, Snapshot(r), t), Cancelled(r, s, t)}
  BY DEF Emissions
<1>2. e.ok => ~(t /\ r.phase \notin Settled)
  BY DEF Emissions, Cancelled, Emission
<1>3. InPhase(r, "cancelled") = [phase |-> "cancelled", total |-> r.total,
         base |-> r.base, fileTotal |-> r.fileTotal, done |-> r.done]
  BY DEF Reporter, InPhase
<1>4. Reporter(InPhase(r, "cancelled"))
  BY <1>3 DEF Reporter
<1>5. Snapshot(r).done = r.done /\ Snapshot(r).total = r.total
  BY DEF Snapshot
<1> DEFINE stopped == InPhase(r, "cancelled")
           shown == Snapshot(r)
<1>6. stopped.total = r.total /\ stopped.base = r.base
      /\ stopped.fileTotal = r.fileTotal /\ stopped.done = r.done
  BY <1>3
<1>7. e.rep \in {r, stopped} /\ e.seen \in {s, shown} /\ e.token = t
      /\ (e.ok => e.rep = r)
  <2> HIDE DEF stopped, shown
  <2>1. e \in {[rep |-> r, seen |-> shown, token |-> t, ok |-> TRUE],
               [rep |-> r, seen |-> s, token |-> t, ok |-> TRUE],
               [rep |-> stopped, seen |-> shown, token |-> t, ok |-> FALSE],
               [rep |-> stopped, seen |-> s, token |-> t, ok |-> FALSE]}
    BY <1>1 DEF Emission, Cancelled, stopped, shown
  <2> QED BY <2>1
<1> HIDE DEF stopped
<1>8. Reporter(stopped)
  BY <1>4 DEF stopped
<1> QED BY <1>2, <1>5, <1>6, <1>7, <1>8

LEMMA PhaseKept ==
  ASSUME NEW r, Reporter(r), NEW phase
  PROVE  /\ Reporter(InPhase(r, phase)) /\ InPhase(r, phase).phase = phase
         /\ InPhase(r, phase).total = r.total /\ InPhase(r, phase).base = r.base
         /\ InPhase(r, phase).fileTotal = r.fileTotal
         /\ InPhase(r, phase).done = r.done
<1>1. InPhase(r, phase) = [phase |-> phase, total |-> r.total,
         base |-> r.base, fileTotal |-> r.fileTotal, done |-> r.done]
  BY DEF Reporter, InPhase
<1> QED BY <1>1 DEF Reporter

LEMMA ReporterMoves ==
  ASSUME NEW r, NEW p, NEW t, NEW b, NEW f, NEW d, NEW size,
         r = [phase |-> p, total |-> t, base |-> b, fileTotal |-> f, done |-> d]
  PROVE  /\ AtFile(r, size, d) = [phase |-> p, total |-> t, base |-> d,
                                  fileTotal |-> size, done |-> d]
         /\ Completed(r) = [phase |-> "completed", total |-> t, base |-> b,
                            fileTotal |-> f, done |-> t]
         /\ FileFinished(r) = [phase |-> p, total |-> t, base |-> b,
                               fileTotal |-> f, done |-> b + f]
<1>1. r.total = t /\ r.base = b /\ r.fileTotal = f
  OBVIOUS
<1>2. ASSUME NEW x
      PROVE  [r EXCEPT !.done = x] = [phase |-> p, total |-> t, base |-> b,
                                      fileTotal |-> f, done |-> x]
  OBVIOUS
<1>3. FileFinished(r) = [phase |-> p, total |-> t, base |-> b, fileTotal |-> f,
                         done |-> b + f]
  BY <1>1, <1>2 DEF FileFinished
<1>4. Completed(r) = [phase |-> "completed", total |-> t, base |-> b,
                      fileTotal |-> f, done |-> t]
  <2> DEFINE q == [r EXCEPT !.phase = "completed"]
  <2>1. q = [phase |-> "completed", total |-> t, base |-> b, fileTotal |-> f, done |-> d]
    OBVIOUS
  <2>2. Completed(r) = [q EXCEPT !.done = t]
    BY <1>1 DEF Completed
  <2> HIDE DEF q
  <2> QED BY <2>1, <2>2
<1>5. AtFile(r, size, d) = [phase |-> p, total |-> t, base |-> d,
                            fileTotal |-> size, done |-> d]
  <2> DEFINE q == [r EXCEPT !.base = d]
             s == [q EXCEPT !.fileTotal = size]
  <2>1. AtFile(r, size, d) = [s EXCEPT !.done = d]
    BY DEF AtFile
  <2>2. q = [phase |-> p, total |-> t, base |-> d, fileTotal |-> f, done |-> d]
    OBVIOUS
  <2> HIDE DEF q
  <2>3. s = [phase |-> p, total |-> t, base |-> d, fileTotal |-> size, done |-> d]
    BY <2>2
  <2> HIDE DEF s
  <2> QED BY <2>1, <2>3
<1> QED BY <1>3, <1>4, <1>5

LEMMA MarkTells ==
  ASSUME NEW e, Reporter(e.rep), NEW phase, Mark(e, phase)
  PROVE  /\ Reporter(rep') /\ token' = e.token
         /\ rep'.total = e.rep.total /\ rep'.base = e.rep.base
         /\ rep'.fileTotal = e.rep.fileTotal /\ rep'.done = e.rep.done
         /\ seen' = e.seen \/ (seen'.done = e.rep.done /\ seen'.total = e.rep.total)
<1> DEFINE marked == InPhase(e.rep, phase)
           forced == TRUE
<1>1. PICK last \in Emissions(marked, e.seen, e.token, forced) :
        rep' = last.rep /\ seen' = last.seen /\ token' = last.token
  BY DEF Mark, Hear
<1>2. Reporter(marked) /\ marked.total = e.rep.total /\ marked.base = e.rep.base
      /\ marked.fileTotal = e.rep.fileTotal /\ marked.done = e.rep.done
  BY PhaseKept
<1> HIDE DEF marked, forced
<1>3. /\ Reporter(last.rep) /\ last.token = e.token
      /\ last.rep.total = marked.total /\ last.rep.base = marked.base
      /\ last.rep.fileTotal = marked.fileTotal /\ last.rep.done = marked.done
      /\ last.seen = e.seen
         \/ (last.seen.done = marked.done /\ last.seen.total = marked.total)
  BY <1>1, <1>2, EmissionsTell
<1> QED BY <1>1, <1>2, <1>3

LEMMA TellThenTells ==
  ASSUME NEW next, Reporter(next), NEW forced,
         NEW then, TellThen(next, forced, then)
  PROVE  /\ Tells(next)
         /\ \/ job' = Ended("cancelled")
            \/ job' = then /\ (token => next.phase \in Settled)
<1>1. PICK e \in Emissions(next, seen, token, forced) :
        IF e.ok THEN Hear(e) /\ job' = then
        ELSE /\ job' = Ended("cancelled")
             /\ IF Marks(job.step) THEN Mark(e, "cancelled") ELSE Hear(e)
  BY DEF TellThen
<1>2. /\ Reporter(e.rep) /\ e.token = token
      /\ e.rep.total = next.total /\ e.rep.base = next.base
      /\ e.rep.fileTotal = next.fileTotal /\ e.rep.done = next.done
      /\ e.seen = seen \/ (e.seen.done = next.done /\ e.seen.total = next.total)
      /\ e.ok => e.rep = next /\ (token => next.phase \in Settled)
  BY EmissionsTell
<1>3. CASE Hear(e)
  BY <1>1, <1>2, <1>3 DEF Hear, Tells
<1>4. CASE ~e.ok /\ Mark(e, "cancelled")
  <2>1. /\ Reporter(rep') /\ token' = e.token
        /\ rep'.total = e.rep.total /\ rep'.base = e.rep.base
        /\ rep'.fileTotal = e.rep.fileTotal /\ rep'.done = e.rep.done
        /\ seen' = e.seen
           \/ (seen'.done = e.rep.done /\ seen'.total = e.rep.total)
    BY <1>2, <1>4, MarkTells
  <2> QED BY <1>1, <1>2, <1>4, <2>1 DEF Tells
<1> QED BY <1>1, <1>3, <1>4

LEMMA MarkedTells ==
  ASSUME Reporter(rep), NEW phase,
         Mark(Emission(rep, seen, token, TRUE), phase)
  PROVE  Tells(rep)
<1> DEFINE e == Emission(rep, seen, token, TRUE)
<1>1. e.rep = rep /\ e.seen = seen /\ e.token = token
  BY DEF Emission
<1>2. Mark(e, phase)
  OBVIOUS
<1> HIDE DEF e
<1>3. /\ Reporter(rep') /\ token' = e.token
      /\ rep'.total = e.rep.total /\ rep'.base = e.rep.base
      /\ rep'.fileTotal = e.rep.fileTotal /\ rep'.done = e.rep.done
      /\ seen' = e.seen \/ (seen'.done = e.rep.done /\ seen'.total = e.rep.total)
  BY <1>1, <1>2, MarkTells
<1> QED BY <1>1, <1>3 DEF Tells

LEMMA NothingTells ==
  ASSUME Reporter(rep), UNCHANGED told
  PROVE  Tells(rep)
BY DEF told, Tells

-----------------------------------------------------------------------------
(* What a step makes of the operation.  It stops, and is not answered ok,  *)
(* or it goes to another step and changes some more of its data.           *)

Stops ==
  /\ job'.step = "idle" /\ job'.op = job.op /\ job'.plan = job.plan
  /\ job'.asked = job.asked /\ job'.lost = job.lost
  /\ job'.answer.status # "ok"
  /\ job'.answer.succeeded = job.answer.succeeded

Goes(changed, step) ==
  /\ job' = [f \in Fields |-> job'[f]]
  /\ \A f \in Fields \ (changed \cup {"step"}) : job'[f] = job[f]
  /\ job'.step = step

\* A failed file is counted, and a batch may go on.
Counts ==
  /\ Goes({"answer", "error"}, "select")
  /\ job.goOn
  /\ job'.error # "ok"
  /\ job'.answer = [job.answer EXCEPT !.failed = @ + 1]

LEMMA EndedStops ==
  ASSUME JobFits, NEW status, status # "ok", job' = Ended(status)
  PROVE  Stops /\ job'.answer.status = status
<1> DEFINE a == job.answer
<1>1. job' = [job EXCEPT !.step = "idle", !.answer = [a EXCEPT !.status = status]]
  BY DEF Ended
<1>2. a = [status |-> a.status, failed |-> a.failed, succeeded |-> a.succeeded]
  BY DEF JobFits
<1> HIDE DEF a
<1>3. job = [f \in Fields |-> job[f]]
  BY DEF JobFits
<1>4. /\ job'.step = "idle" /\ job'.op = job.op /\ job'.plan = job.plan
      /\ job'.asked = job.asked /\ job'.lost = job.lost
      /\ job'.answer = [a EXCEPT !.status = status]
  BY <1>1, <1>3 DEF Fields
<1>5. job'.answer.status = status /\ job'.answer.succeeded = a.succeeded
  BY <1>2, <1>4
<1> QED BY <1>4, <1>5 DEF Stops, a

LEMMA WellEnded ==
  ASSUME JobFits, job' = Ended("ok")
  PROVE  /\ job'.step = "idle" /\ job'.op = job.op /\ job'.plan = job.plan
         /\ job'.lost = job.lost
         /\ job'.answer.succeeded = job.answer.succeeded
<1> DEFINE a == job.answer
           b == [a EXCEPT !.status = "ok"]
<1>1. job' = [job EXCEPT !.step = "idle", !.answer = b]
  BY DEF Ended
<1>2. a = [status |-> a.status, failed |-> a.failed, succeeded |-> a.succeeded]
  BY DEF JobFits
<1>3. job = [f \in Fields |-> job[f]]
  BY DEF JobFits
<1> HIDE DEF a
<1>4. b.succeeded = a.succeeded
  BY <1>2
<1> HIDE DEF b
<1>5. /\ job'.step = "idle" /\ job'.op = job.op /\ job'.plan = job.plan
      /\ job'.lost = job.lost /\ job'.answer = b
  BY <1>1, <1>3 DEF Fields
<1> QED BY <1>4, <1>5 DEF a

LEMMA FailureStopsOrCounts ==
  ASSUME JobFits, NEW error, error # "ok", error # "none", job' = AfterFailure(error)
  PROVE  Stops \/ Counts
<1> DEFINE a == job.answer
           b == [a EXCEPT !.failed = @ + 1]
           first == IF job.error = "none" THEN error ELSE job.error
           counted == [job EXCEPT !.answer.failed = @ + 1,
                                  !.error = IF @ = "none" THEN error ELSE @]
<1>1. job' = IF job.goOn THEN [counted EXCEPT !.step = "select"]
             ELSE [counted EXCEPT !.step = "idle", !.answer.status = counted.error]
  BY DEF AfterFailure
<1>2. counted = [job EXCEPT !.answer = b, !.error = first]
  OBVIOUS
<1>3. a = [status |-> a.status, failed |-> a.failed, succeeded |-> a.succeeded]
  BY DEF JobFits
<1>4. first # "ok"
  BY DEF JobFits
<1>5. job = [f \in Fields |-> job[f]]
  BY DEF JobFits
<1>6. b = [status |-> a.status, failed |-> a.failed + 1, succeeded |-> a.succeeded]
  BY <1>3
<1> HIDE DEF a, b, first, counted
<1>7. /\ counted = [f \in Fields |-> counted[f]]
      /\ counted.answer = b /\ counted.error = first
      /\ \A f \in Fields \ {"answer", "error"} : counted[f] = job[f]
  BY <1>2, <1>5 DEF Fields
<1>8. CASE job.goOn
  <2>1. job' = [counted EXCEPT !.step = "select"]
    BY <1>1, <1>8
  <2>2. Goes({"answer", "error"}, "select")
    BY <1>7, <2>1 DEF Goes, Fields
  <2>3. job'.error = first /\ job'.answer = b
    BY <1>7, <2>1 DEF Fields
  <2> QED BY <1>4, <1>8, <2>2, <2>3 DEF Counts, b, a
<1>9. CASE ~job.goOn
  <2>1. job' = [counted EXCEPT !.step = "idle", !.answer = [b EXCEPT !.status = first]]
    BY <1>1, <1>7, <1>9
  <2>2. /\ job'.step = "idle" /\ job'.op = counted.op /\ job'.plan = counted.plan
        /\ job'.asked = counted.asked /\ job'.lost = counted.lost
        /\ job'.answer = [b EXCEPT !.status = first]
    BY <1>7, <2>1 DEF Fields
  <2>3. job'.answer.status = first /\ job'.answer.succeeded = a.succeeded
    BY <1>6, <2>2
  <2>4. counted.op = job.op /\ counted.plan = job.plan /\ counted.asked = job.asked
        /\ counted.lost = job.lost
    BY <1>7 DEF Fields
  <2> QED BY <1>4, <2>2, <2>3, <2>4 DEF Stops, a
<1> QED BY <1>8, <1>9

LEMMA FailsDoes ==
  ASSUME JobFits, Reporter(rep), NEW error, error # "ok", error # "none", Fails(error)
  PROVE  Tells(rep) /\ (Stops \/ Counts)
<1>1. /\ job' = AfterFailure(error)
      /\ Mark(Emission(rep, seen, token, TRUE), "failed")
  BY DEF Fails
<1> QED BY <1>1, FailureStopsOrCounts, MarkedTells

LEMMA StepGoes ==
  ASSUME JobFits, NEW s, job' = [job EXCEPT !.step = s]
  PROVE  Goes({}, s)
<1>1. job = [f \in Fields |-> job[f]]
  BY DEF JobFits
<1> QED BY <1>1 DEF Goes, Fields

-----------------------------------------------------------------------------
(* The steps, one by one.                                                  *)
Steady == UNCHANGED <<disk, calls>>

LEMMA ScanDoes ==
  ASSUME Fits, Scan
  PROVE  /\ job.step = "scan" /\ Steady /\ Tells(rep)
         /\ Stops \/ Goes({}, "totals")
<1>1. /\ job.step = "scan" /\ Steady
      /\ TellThen(rep, TRUE, [job EXCEPT !.step = "totals"])
  BY DEF Scan, Steady
<1>2. Reporter(rep) /\ JobFits
  BY <1>1 DEF Fits, ToldFits, Runs
<1>3. /\ Tells(rep)
      /\ job' = Ended("cancelled") \/ job' = [job EXCEPT !.step = "totals"]
  BY <1>1, <1>2, TellThenTells
<1>4. Stops \/ Goes({}, "totals")
  BY <1>2, <1>3, EndedStops, StepGoes
<1> QED BY <1>1, <1>3, <1>4

LEMMA PlanFailsDoes ==
  ASSUME Fits, PlanFails
  PROVE  job.step = "totals" /\ Steady /\ Tells(rep) /\ Stops
<1>1. /\ job.step = "totals" /\ Steady /\ job' = Ended("plan_failed")
      /\ Mark(Emission(rep, seen, token, TRUE), "failed")
  BY DEF PlanFails, Steady
<1>2. Reporter(rep) /\ JobFits
  BY <1>1 DEF Fits, ToldFits, Runs
<1>3. Tells(rep)
  BY <1>1, <1>2, MarkedTells
<1>4. Stops
  BY <1>1, <1>2, EndedStops
<1> QED BY <1>1, <1>3, <1>4

LEMMA TotalsDoes ==
  ASSUME Fits, Totals
  PROVE  /\ job.step = "totals" /\ Steady /\ Tells(WithTotals(rep, PlannedTotal))
         /\ \/ Stops
            \/ Goes({}, IF job.batch /\ job.op = "encrypt" THEN "session" ELSE "select")
<1> DEFINE next == WithTotals(rep, PlannedTotal)
           s == IF job.batch /\ job.op = "encrypt" THEN "session" ELSE "select"
<1>1. /\ job.step = "totals" /\ Steady
      /\ TellThen(next, TRUE, [job EXCEPT !.step = s])
  BY DEF Totals, Steady
<1>2. Reporter(rep) /\ JobFits
  BY <1>1 DEF Fits, ToldFits, Runs
<1>3. Reporter(next)
  <2>1. PlannedTotal \in Nat
    BY <1>2, SumsGrow DEF PlannedTotal, JobFits
  <2> HIDE DEF PlannedTotal
  <2>2. next = [phase |-> rep.phase, total |-> PlannedTotal, base |-> rep.base,
                fileTotal |-> rep.fileTotal, done |-> rep.done]
    BY <1>2 DEF Reporter, WithTotals
  <2> QED BY <1>2, <2>1, <2>2 DEF Reporter
<1> HIDE DEF next, s
<1>4. Tells(next) /\ (job' = Ended("cancelled") \/ job' = [job EXCEPT !.step = s])
  BY <1>1, <1>3, TellThenTells
<1>5. Stops \/ Goes({}, s)
  BY <1>2, <1>4, EndedStops, StepGoes
<1> QED BY <1>1, <1>4, <1>5 DEF next, s

LEMMA SessionDoes ==
  ASSUME Fits, Session
  PROVE  /\ job.step = "session" /\ Steady /\ Tells(rep)
         /\ Stops \/ Goes({}, "select")
<1>1. /\ job.step = "session" /\ Steady
      /\ \/ job' = [job EXCEPT !.step = "select"] /\ UNCHANGED told
         \/ /\ job' = Ended("operation_failed")
            /\ Mark(Emission(rep, seen, token, TRUE), "failed")
  BY DEF Session, Steady
<1>2. Reporter(rep) /\ JobFits
  BY <1>1 DEF Fits, ToldFits, Runs
<1>3. Tells(rep)
  BY <1>1, <1>2, MarkedTells, NothingTells
<1>4. Stops \/ Goes({}, "select")
  BY <1>1, <1>2, EndedStops, StepGoes
<1> QED BY <1>1, <1>3, <1>4

LEMMA SelectDoes ==
  ASSUME Fits, Select
  PROVE  /\ job.step = "select" /\ job.at < Len(job.plan) /\ Steady
         /\ Tells(AtFile(rep, Planned[job.plan[job.at + 1]], rep.done))
         /\ \/ Stops
            \/ /\ Goes({"at"}, IF job.op = "export" THEN "compress" ELSE "read")
               /\ job'.at = job.at + 1
<1> DEFINE size == Planned[job.plan[job.at + 1]]
           next == AtFile(rep, size, rep.done)
           s == IF job.op = "export" THEN "compress" ELSE "read"
           then == [job EXCEPT !.at = @ + 1, !.step = s]
<1>1. /\ job.step = "select" /\ job.at < Len(job.plan) /\ Steady
      /\ TellThen(next, TRUE, then)
  BY DEF Select, Steady
<1>2. Reporter(rep) /\ JobFits
  BY <1>1 DEF Fits, ToldFits, Runs
<1>3. Reporter(next)
  <2>1. job.at + 1 \in 1..Len(job.plan) /\ job.plan \in Seq(Entries)
    BY <1>1, <1>2 DEF JobFits
  <2>2. size \in Nat
    BY <2>1, SumsGrow
  <2> HIDE DEF size
  <2>3. next = [phase |-> rep.phase, total |-> rep.total, base |-> rep.done,
                fileTotal |-> size, done |-> rep.done]
    BY <1>2, ReporterMoves DEF Reporter
  <2> QED BY <1>2, <2>2, <2>3 DEF Reporter
<1>4. job' = then => Goes({"at"}, s) /\ job'.at = job.at + 1
  <2>1. job = [f \in Fields |-> job[f]]
    BY <1>2 DEF JobFits
  <2> HIDE DEF s
  <2> QED BY <2>1 DEF Goes, Fields
<1> HIDE DEF next, s, then
<1>5. Tells(next) /\ (job' = Ended("cancelled") \/ job' = then)
  BY <1>1, <1>3, TellThenTells
<1>6. Stops \/ (Goes({"at"}, s) /\ job'.at = job.at + 1)
  BY <1>2, <1>4, <1>5, EndedStops
<1> QED BY <1>1, <1>5, <1>6 DEF next, s

\* It ends well only when no file failed and none is left.
LEMMA ConcludeDoes ==
  ASSUME Fits, Conclude
  PROVE  /\ job.step = "select" /\ job.at = Len(job.plan) /\ Steady
         /\ \/ Stops /\ Tells(rep)
            \/ /\ Tells(Completed(rep)) /\ job.answer.failed = 0
               /\ \/ job.op = "unpack" /\ Goes({}, "entries")
                  \/ job.op # "unpack" /\ job' = Ended("ok")
<1>1. /\ job.step = "select" /\ job.at = Len(job.plan) /\ Steady
      /\ IF job.answer.failed > 0
         THEN job' = Ended(job.error) /\ Mark(Emission(rep, seen, token, TRUE), "failed")
         ELSE /\ job' = IF job.op = "unpack" THEN [job EXCEPT !.step = "entries"] ELSE Ended("ok")
              /\ \E e \in Emissions(Completed(rep), seen, token, TRUE) : Hear(e)
  BY DEF Conclude, Steady
<1>2. Reporter(rep) /\ JobFits
  BY <1>1 DEF Fits, ToldFits, Runs
<1>3. job.answer.failed \in Nat /\ job.error # "ok"
  BY <1>2 DEF JobFits
<1>4. CASE job.answer.failed > 0
  <2>1. Tells(rep)
    BY <1>1, <1>2, <1>4, MarkedTells
  <2>2. Stops
    BY <1>1, <1>2, <1>3, <1>4, EndedStops
  <2> QED BY <1>1, <2>1, <2>2
<1>5. CASE ~(job.answer.failed > 0)
  <2> DEFINE next == Completed(rep)
             forced == TRUE
  <2>1. next = [phase |-> "completed", total |-> rep.total, base |-> rep.base,
                fileTotal |-> rep.fileTotal, done |-> rep.total]
    BY <1>2, ReporterMoves DEF Reporter
  <2>2. Reporter(next)
    BY <1>2, <2>1 DEF Reporter
  <2>3. PICK e \in Emissions(next, seen, token, forced) : Hear(e)
    BY <1>1, <1>5
  <2> HIDE DEF next, forced
  <2>4. /\ Reporter(e.rep) /\ e.token = token
        /\ e.rep.total = next.total /\ e.rep.base = next.base
        /\ e.rep.fileTotal = next.fileTotal /\ e.rep.done = next.done
        /\ e.seen = seen \/ (e.seen.done = next.done /\ e.seen.total = next.total)
    BY <2>2, <2>3, EmissionsTell
  <2>5. Tells(next)
    BY <2>3, <2>4 DEF Hear, Tells
  <2>6. job.op = "unpack" => Goes({}, "entries")
    BY <1>1, <1>2, <1>5, StepGoes
  <2>7. job.op # "unpack" => job' = Ended("ok")
    BY <1>1, <1>5
  <2>8. job.answer.failed = 0
    BY <1>3, <1>5
  <2>9. Tells(Completed(rep))
    BY <2>5 DEF next
  <2> HIDE <1>1
  <2>10. job.step = "select" /\ job.at = Len(job.plan) /\ Steady
    BY <1>1
  <2> QED BY <2>6, <2>7, <2>8, <2>9, <2>10
<1> QED BY <1>4, <1>5

\* What the phases have in common.
LEMMA PhaseDoes ==
  ASSUME Fits, NEW s \in Steps, NEW then, Phase(s, then)
  PROVE  /\ job.step = s /\ Steady /\ Tells(InPhase(rep, s))
         /\ Stops \/ (job' = then /\ (token => s \in Settled))
<1> DEFINE next == InPhase(rep, s)
<1>1. job.step = s /\ Steady /\ TellThen(next, TRUE, then)
  BY DEF Phase, Steady
<1>2. Reporter(rep) /\ JobFits
  BY <1>1 DEF Fits, ToldFits, Runs, Steps, InFile, Opened
<1>3. Reporter(next) /\ next.phase = s
  BY <1>2, PhaseKept
<1> HIDE DEF next
<1>4. /\ Tells(next)
      /\ \/ job' = Ended("cancelled")
         \/ job' = then /\ (token => next.phase \in Settled)
  BY <1>1, <1>3, TellThenTells
<1>5. job' = Ended("cancelled") => Stops
  BY <1>2, EndedStops
<1> QED BY <1>1, <1>3, <1>4, <1>5 DEF next

LEMMA ReadDoes ==
  ASSUME Fits, Read
  PROVE  /\ job.step = "read" /\ Steady /\ Tells(InPhase(rep, "read"))
         /\ \/ Stops
            \/ /\ Goes({"length", "read"}, "chunks")
               /\ job'.length \in Nat /\ job'.read = 0
<1>1. PICK length \in Lengths :
        Phase("read", [job EXCEPT !.step = "chunks", !.length = length, !.read = 0])
  BY DEF Read
<1> DEFINE then == [job EXCEPT !.step = "chunks", !.length = length, !.read = 0]
<1>2. /\ job.step = "read" /\ Steady /\ Tells(InPhase(rep, "read"))
      /\ Stops \/ job' = then
  BY <1>1, PhaseDoes DEF Steps, InFile
<1>3. job = [f \in Fields |-> job[f]]
  BY <1>2 DEF Fits, Runs, JobFits
<1>4. job' = then => Goes({"length", "read"}, "chunks") /\ job'.length = length /\ job'.read = 0
  BY <1>3 DEF Goes, Fields
<1>5. length \in Nat
  BY LengthsAssumption
<1> HIDE DEF then
<1> QED BY <1>2, <1>4, <1>5

LEMMA ReadChunkDoes ==
  ASSUME Fits, ReadChunk
  PROVE  LET now == Least(job.read + 1, job.length)
         IN  /\ job.step = "chunks" /\ Steady /\ Tells(ReadSoFar(rep, now))
             /\ \/ Stops
                \/ /\ Goes({"read"}, job'.step)
                   /\ job'.step \in {"chunks", "compress", "derive"}
                   /\ job'.step = "compress" => job.op \in Sealing
                   /\ job'.read = now
<1> DEFINE now == Least(job.read + 1, job.length)
           next == ReadSoFar(rep, now)
           s == IF now < job.length THEN "chunks" ELSE IF Seals THEN "compress" ELSE "derive"
           then == [job EXCEPT !.read = now, !.step = s]
<1>1. job.step = "chunks" /\ Steady /\ TellThen(next, FALSE, then)
  BY DEF ReadChunk, Steady
<1>2. Reporter(rep) /\ JobFits
  BY <1>1 DEF Fits, ToldFits, Runs
<1>3. now \in Nat
  BY <1>2 DEF JobFits, Least
<1>4. Reporter(next)
  <2>1. Least(now, rep.fileTotal) \in Nat
    BY <1>2, <1>3 DEF Least, Reporter
  <2> HIDE DEF now
  <2>2. next = [phase |-> rep.phase, total |-> rep.total, base |-> rep.base,
                fileTotal |-> rep.fileTotal, done |-> rep.base + Least(now, rep.fileTotal)]
    BY <1>2 DEF Reporter, ReadSoFar
  <2> QED BY <1>2, <2>1, <2>2 DEF Reporter
<1>5. s \in {"chunks", "compress", "derive"} /\ (s = "compress" => job.op \in Sealing)
  BY DEF Seals
<1>6. job' = then => Goes({"read"}, s) /\ job'.step = s /\ job'.read = now
  <2>1. job = [f \in Fields |-> job[f]]
    BY <1>2 DEF JobFits
  <2> HIDE DEF s, now
  <2> QED BY <2>1 DEF Goes, Fields
<1> HIDE DEF next, s, then, now
<1>7. Tells(next) /\ (job' = Ended("cancelled") \/ job' = then)
  BY <1>1, <1>4, TellThenTells
<1>8. Stops \/ (Goes({"read"}, s) /\ job'.step = s /\ job'.read = now)
  BY <1>2, <1>6, <1>7, EndedStops
<1> QED BY <1>1, <1>5, <1>7, <1>8 DEF next, now

LEMMA CompressDoes ==
  ASSUME Fits, Compress
  PROVE  /\ job.step = "compress" /\ Steady /\ Tells(InPhase(rep, "compress"))
         /\ Stops \/ Goes({}, "derive")
<1> DEFINE then == [job EXCEPT !.step = "derive"]
<1>1. Phase("compress", then)
  BY DEF Compress
<1> HIDE DEF then
<1>2. /\ job.step = "compress" /\ Steady /\ Tells(InPhase(rep, "compress"))
      /\ Stops \/ job' = then
  BY <1>1, PhaseDoes DEF Steps, InFile
<1>3. JobFits
  BY <1>2 DEF Fits, Runs
<1>4. job' = then => Goes({}, "derive")
  BY <1>3, StepGoes DEF then
<1> QED BY <1>2, <1>4

LEMMA CryptDoes ==
  ASSUME Fits, Crypt
  PROVE  /\ job.step = "crypt" /\ Steady /\ Tells(InPhase(rep, "crypt"))
         /\ Stops \/ Goes({}, IF Seals THEN "write" ELSE "open")
<1> DEFINE s == IF Seals THEN "write" ELSE "open"
           then == [job EXCEPT !.step = s]
<1>1. Phase("crypt", then)
  BY DEF Crypt
<1> HIDE DEF then, s
<1>2. /\ job.step = "crypt" /\ Steady /\ Tells(InPhase(rep, "crypt"))
      /\ Stops \/ job' = then
  BY <1>1, PhaseDoes DEF Steps, InFile, Opened
<1>3. JobFits
  BY <1>2 DEF Fits, Runs
<1>4. job' = then => Goes({}, s)
  BY <1>3, StepGoes DEF then
<1> QED BY <1>2, <1>4 DEF s

LEMMA DecompressDoes ==
  ASSUME Fits, Decompress
  PROVE  /\ job.step = "decompress" /\ Steady /\ Tells(InPhase(rep, "decompress"))
         /\ Stops \/ Goes({}, "write")
<1> DEFINE then == [job EXCEPT !.step = "write"]
<1>1. Phase("decompress", then)
  BY DEF Decompress
<1> HIDE DEF then
<1>2. /\ job.step = "decompress" /\ Steady /\ Tells(InPhase(rep, "decompress"))
      /\ Stops \/ job' = then
  BY <1>1, PhaseDoes DEF Steps, InFile, Opened
<1>3. JobFits
  BY <1>2 DEF Fits, Runs
<1>4. job' = then => Goes({}, "write")
  BY <1>3, StepGoes DEF then
<1> QED BY <1>2, <1>4

\* The token stops an operation before it begins to write a file.
LEMMA WriteDoes ==
  ASSUME Fits, Write
  PROVE  /\ job.step = "write" /\ Steady /\ Tells(InPhase(rep, "write"))
         /\ \/ Stops
            \/ /\ ~token
               /\ Goes({}, IF Seals \/ job.op \in Directory THEN "store" ELSE "select")
<1> DEFINE s == IF Seals \/ job.op \in Directory THEN "store" ELSE "select"
           then == [job EXCEPT !.step = s]
<1>1. Phase("write", then)
  BY DEF Write
<1> HIDE DEF then, s
<1>2. /\ job.step = "write" /\ Steady /\ Tells(InPhase(rep, "write"))
      /\ Stops \/ (job' = then /\ (token => "write" \in Settled))
  BY <1>1, PhaseDoes DEF Steps, InFile, Opened
<1>3. JobFits
  BY <1>2 DEF Fits, Runs
<1>4. job' = then => Goes({}, s)
  BY <1>3, StepGoes DEF then
<1>5. "write" \notin Settled
  BY DEF Settled
<1> QED BY <1>2, <1>4, <1>5 DEF s

LEMMA DeriveDoes ==
  ASSUME Fits, Derive
  PROVE  /\ job.step = "derive" /\ Steady /\ Tells(InPhase(rep, "derive"))
         /\ \/ Stops
            \/ /\ Seals \/ Readable(Source)
               /\ Goes({"keys"}, "crypt")
               /\ job'.keys = IF job.op = "decrypt" /\ job.batch
                              THEN WithMasterKey(job.keys, job.pass, Source) ELSE job.keys
<1> DEFINE keys == IF job.op = "decrypt" /\ job.batch
                   THEN WithMasterKey(job.keys, job.pass, Source) ELSE job.keys
           then == [job EXCEPT !.step = "crypt", !.keys = keys]
<1>1. (Seals \/ Readable(Source)) /\ Phase("derive", then)
  BY DEF Derive
<1> HIDE DEF then, keys
<1>2. /\ job.step = "derive" /\ Steady /\ Tells(InPhase(rep, "derive"))
      /\ Stops \/ job' = then
  BY <1>1, PhaseDoes DEF Steps, InFile, Opened
<1>3. job = [f \in Fields |-> job[f]]
  BY <1>2 DEF Fits, Runs, JobFits
<1>4. job' = then => Goes({"keys"}, "crypt") /\ job'.keys = keys
  BY <1>3 DEF Goes, Fields, then
<1> QED BY <1>1, <1>2, <1>4 DEF keys

LEMMA OpenDoes ==
  ASSUME Fits, Open
  PROVE  /\ job.step = "open" /\ Steady /\ Tells(rep)
         /\ \/ Stops \/ Counts
            \/ Goes({}, IF Source.version = 1 THEN "write" ELSE "decompress")
<1> DEFINE s == IF Source.version = 1 THEN "write" ELSE "decompress"
<1>1. /\ job.step = "open" /\ Steady
      /\ \/ job' = [job EXCEPT !.step = s] /\ UNCHANGED told
         \/ Fails("decrypt_failed")
  BY DEF Open, Steady
<1> HIDE DEF s
<1>2. Reporter(rep) /\ JobFits
  BY <1>1 DEF Fits, ToldFits, Runs
<1>3. CASE job' = [job EXCEPT !.step = s] /\ UNCHANGED told
  <2>1. Tells(rep) /\ Goes({}, s)
    BY <1>2, <1>3, NothingTells, StepGoes
  <2> QED BY <1>1, <2>1 DEF s
<1>4. CASE Fails("decrypt_failed")
  <2>1. Tells(rep) /\ (Stops \/ Counts)
    BY <1>2, <1>4, FailsDoes
  <2> QED BY <1>1, <2>1
<1> QED BY <1>1, <1>3, <1>4

LEMMA StepFailsDoes ==
  ASSUME Fits, StepFails
  PROVE  /\ job.step \in {"chunks", "derive", "crypt", "write"}
         /\ Steady /\ Tells(rep) /\ (Stops \/ Counts)
<1>1. /\ job.step \in {"chunks", "derive", "crypt", "write"} /\ Steady
      /\ Fails("operation_failed") \/ Fails("unsupported_format")
  BY DEF StepFails, Steady
<1>2. Reporter(rep) /\ JobFits
  BY <1>1 DEF Fits, ToldFits, Runs
<1>3. Tells(rep) /\ (Stops \/ Counts)
  BY <1>1, <1>2, FailsDoes
<1> QED BY <1>1, <1>3

\* A file on disk that is told to be finished, and may be called off then.
LEMMA StoredDoes ==
  ASSUME Fits, NEW file, NEW lost, Stored(file, lost)
  PROVE  /\ job.step = "store" /\ Holding(file) /\ calls' = calls
         /\ \/ /\ job.op \in Directory /\ Tells(FileFinished(rep))
               /\ \/ Stops /\ job'.answer.status = "cancelled"
                  \/ /\ Goes({"answer", "lost"}, "select") /\ job'.lost = lost
                     /\ job'.answer = [job.answer EXCEPT !.succeeded = @ + 1]
            \/ /\ job.op \notin Directory /\ Tells(rep)
               /\ Goes({"lost"}, "select") /\ job'.lost = lost
<1> DEFINE a == job.answer
           b == [a EXCEPT !.succeeded = @ + 1]
           then == [job EXCEPT !.step = "select", !.answer = b, !.lost = lost]
           next == FileFinished(rep)
<1>1. /\ job.step = "store" /\ Holding(file) /\ calls' = calls
      /\ IF job.op \in Directory
         THEN TellThen(next, TRUE, [job EXCEPT !.step = "select", !.answer.succeeded = @ + 1,
                                               !.lost = lost])
         ELSE job' = [job EXCEPT !.step = "select", !.lost = lost] /\ UNCHANGED told
  BY DEF Stored
<1>2. Reporter(rep) /\ JobFits
  BY <1>1 DEF Fits, ToldFits, Runs
<1>3. CASE job.op \in Directory
  <2>1. TellThen(next, TRUE, then)
    BY <1>1, <1>3
  <2>2. Reporter(next)
    <3>1. next = [phase |-> rep.phase, total |-> rep.total, base |-> rep.base,
                  fileTotal |-> rep.fileTotal, done |-> rep.base + rep.fileTotal]
      BY <1>2, ReporterMoves DEF Reporter
    <3> QED BY <1>2, <3>1 DEF Reporter
  <2>3. job' = then => /\ Goes({"answer", "lost"}, "select")
                       /\ job'.answer = b /\ job'.lost = lost
    <3>1. job = [f \in Fields |-> job[f]]
      BY <1>2 DEF JobFits
    <3> HIDE DEF b
    <3> QED BY <3>1 DEF Goes, Fields
  <2> HIDE DEF next, then
  <2>4. Tells(next) /\ (job' = Ended("cancelled") \/ job' = then)
    BY <2>1, <2>2, TellThenTells
  <2>5. \/ Stops /\ job'.answer.status = "cancelled"
        \/ /\ Goes({"answer", "lost"}, "select")
           /\ job'.answer = b /\ job'.lost = lost
    BY <1>2, <2>3, <2>4, EndedStops
  <2> HIDE DEF b
  <2>6. job.step = "store" /\ Holding(file) /\ calls' = calls
    BY <1>1
  <2> QED BY <1>3, <2>4, <2>5, <2>6 DEF next, b, a
<1>4. CASE job.op \notin Directory
  <2>1. job = [f \in Fields |-> job[f]]
    BY <1>2 DEF JobFits
  <2>2. Tells(rep)
    BY <1>1, <1>2, <1>4, NothingTells
  <2>3. Goes({"lost"}, "select") /\ job'.lost = lost
    BY <1>1, <1>4, <2>1 DEF Goes, Fields
  <2> QED BY <1>1, <1>4, <2>2, <2>3
<1> QED BY <1>3, <1>4

LEMMA StoreFailsDoes ==
  ASSUME Fits, StoreFails
  PROVE  /\ job.step = "store" /\ calls' = calls
         /\ UNCHANGED disk \/ Holding(TornOutput)
         /\ Tells(rep) /\ (Stops \/ Counts)
<1>1. /\ job.step = "store" /\ calls' = calls
      /\ UNCHANGED disk \/ Holding(TornOutput)
      /\ Fails("output_write_failed")
  BY DEF StoreFails
<1>2. Reporter(rep) /\ JobFits
  BY <1>1 DEF Fits, ToldFits, Runs
<1>3. Tells(rep) /\ (Stops \/ Counts)
  BY <1>1, <1>2, FailsDoes
<1> QED BY <1>1, <1>3

-----------------------------------------------------------------------------
(* The invariant, and what a step of an operation has to keep of it.       *)

Good == /\ JobFits /\ StepFits /\ SourceFits /\ KeysFit
        /\ RootFits /\ DoneFits /\ ProgressFits /\ TokenFits

PackagesInv ==
  /\ DiskFits /\ ToldFits /\ (Runs => Good)
  /\ AnswerMatchesDisk /\ UnpackedIsPackage

\* The observer hears of no less than before, and of no more than there is.
Growing ==
  /\ seen'.done >= seen.done
  /\ seen'.total # 0 => seen'.done <= seen'.total

LEMMA InvFits ==
  ASSUME PackagesInv
  PROVE  Fits /\ (Runs => Good)
BY DEF PackagesInv, Fits, Good

LEMMA ToldStays ==
  ASSUME ToldFits, NEW next, Tells(next)
  PROVE  ToldFits'
BY DEF ToldFits, Tells, Reporter

\* Where the reporter may be put.
Ahead(next) ==
  /\ seen.done <= next.done
  /\ next.total # 0 => next.done <= next.total

LEMMA TellsGrowing ==
  ASSUME ToldFits, seen.total # 0 => seen.done <= seen.total,
         NEW next, Ahead(next), Tells(next)
  PROVE  /\ Growing /\ seen'.done <= rep'.done
         /\ seen'.total # 0 => seen'.done <= seen'.total
<1>1. /\ seen.done \in Nat /\ rep'.done = next.done /\ next.done \in Nat
      /\ seen' = seen \/ (seen'.done = next.done /\ seen'.total = next.total)
  BY DEF ToldFits, Tells, Reporter
<1> QED BY <1>1 DEF Ahead, Growing

LEMMA DiskStays ==
  ASSUME DiskFits, Steady
  PROVE  DiskFits'
BY DEF DiskFits, Steady, disk

LEMMA StoppedKeeps ==
  ASSUME PackagesInv, Runs, Steady, Stops, NEW next, Tells(next), Ahead(next)
  PROVE  PackagesInv' /\ Growing
<1>1. Good /\ DiskFits /\ ToldFits
  BY DEF PackagesInv
<1>2. DiskFits' /\ ToldFits'
  BY <1>1, DiskStays, ToldStays
<1>3. Growing
  BY <1>1, TellsGrowing DEF Good, ProgressFits
<1>4. ~Runs' /\ job'.answer.status # "ok" /\ job'.op = job.op
  BY DEF Stops, Runs
<1>5. AnswerMatchesDisk'
  <2>1. WrittenNow' = WrittenNow
    BY DEF WrittenNow, Steady, disk
  <2>2. job.op = "encrypt" => Counted = job.answer.succeeded
    BY <1>1 DEF Good, DoneFits
  <2>3. job'.op = "encrypt" => Counted' = job'.answer.succeeded
    BY <1>4, <2>1, <2>2 DEF Stops, Counted
  <2> QED BY <1>4, <2>3 DEF AnswerMatchesDisk, Counted
<1>6. UnpackedIsPackage'
  BY <1>4 DEF UnpackedIsPackage
<1> QED BY <1>2, <1>3, <1>4, <1>5, <1>6 DEF PackagesInv

LEMMA GoingKeeps ==
  ASSUME PackagesInv, Good', Steady, NEW next, Tells(next), Ahead(next), Runs
  PROVE  PackagesInv' /\ Growing
<1>1. Good /\ DiskFits /\ ToldFits
  BY DEF PackagesInv
<1>2. DiskFits' /\ ToldFits'
  BY <1>1, DiskStays, ToldStays
<1>3. Growing
  BY <1>1, TellsGrowing DEF Good, ProgressFits
<1>4. job'.step # "idle"
  BY DEF Good, JobFits, Steps, InFile, Opened
<1>5. AnswerMatchesDisk' /\ UnpackedIsPackage'
  BY <1>4 DEF AnswerMatchesDisk, UnpackedIsPackage
<1> QED BY <1>2, <1>3, <1>5 DEF PackagesInv

\* The data of an operation, but for what the step says of it.
LEMMA DataStays ==
  ASSUME JobFits, NEW s \in Steps, Goes({"at", "length", "read", "keys"}, s),
         job'.at \in 0..Len(job.plan), job'.length \in Nat, job'.read \in Nat
  PROVE  JobFits'
<1>1. /\ job' = [f \in Fields |-> job'[f]] /\ job'.step = s
      /\ job'.op = job.op /\ job'.goOn = job.goOn /\ job'.plan = job.plan
      /\ job'.error = job.error /\ job'.answer = job.answer
      /\ job'.lost = job.lost
  BY DEF Goes, Fields
<1> QED BY <1>1 DEF JobFits

LEMMA GoesMore ==
  ASSUME NEW s, NEW few, NEW many, few \subseteq many, Goes(few, s)
  PROVE  Goes(many, s)
BY DEF Goes

\* What a step inside a file cannot touch.
LEMMA InsideStays ==
  ASSUME PackagesInv, Steady, job.step \in InFile, NEW s \in InFile,
         Goes({"length", "read", "keys"}, s), job'.length \in Nat, job'.read \in Nat
  PROVE  /\ JobFits' /\ RootFits' /\ DoneFits' /\ Source' = Source
         /\ job'.step = s /\ job'.op = job.op /\ job'.at = job.at
         /\ job'.plan = job.plan /\ job'.pass = job.pass /\ job'.asked = job.asked
         /\ job'.batch = job.batch
<1>1. Runs /\ Good
  BY DEF PackagesInv, Runs, InFile, Opened
<1>2. /\ job'.step = s /\ job'.op = job.op /\ job'.at = job.at
      /\ job'.plan = job.plan /\ job'.pass = job.pass /\ job'.asked = job.asked
      /\ job'.batch = job.batch /\ job'.answer = job.answer
      /\ job'.lost = job.lost
  BY DEF Goes, Fields
<1>3. UNCHANGED <<txt, pkg, pack, root, calls>>
  BY DEF Steady, disk
<1>4. JobFits'
  <2>1. Goes({"at", "length", "read", "keys"}, s)
    BY GoesMore
  <2>2. s \in Steps /\ JobFits /\ job'.at \in 0..Len(job.plan)
    BY <1>1, <1>2 DEF Good, JobFits, Steps
  <2> QED BY <2>1, <2>2, DataStays
<1>5. Source' = Source
  BY <1>2, <1>3 DEF Source, Current
<1>6. RootFits'
  <2>1. job.step # "entries" /\ s # "entries"
    BY DEF InFile, Opened
  <2> QED BY <1>1, <1>2, <1>3, <2>1 DEF Good, RootFits
<1>7. DoneFits'
  <2>1. Past' = Past /\ WrittenNow' = WrittenNow
    BY <1>2, <1>3 DEF Past, WrittenNow
  <2>2. DoneFits
    BY <1>1 DEF Good
  <2> QED BY <1>2, <1>3, <2>1, <2>2 DEF DoneFits, Counted
<1> QED BY <1>2, <1>4, <1>5, <1>6, <1>7

-----------------------------------------------------------------------------
(* The reporter never passes the total.                                    *)

LEMMA ReporterAhead ==
  ASSUME PackagesInv, Runs, job.step # "entries"
  PROVE  /\ Ahead(rep)
         /\ job.step \in InFile =>
              /\ rep.done <= PlannedUpTo(job.plan)[job.at]
              /\ rep.base + rep.fileTotal <= PlannedUpTo(job.plan)[job.at]
              /\ PlannedUpTo(job.plan)[job.at] <= PlannedUpTo(job.plan)[Len(job.plan)]
<1> DEFINE up == PlannedUpTo(job.plan)
           n == Len(job.plan)
<1>1. /\ ToldFits /\ JobFits /\ StepFits /\ ProgressFits
  BY DEF PackagesInv, Good
<1>2. /\ n \in Nat
      /\ \A i \in 0..n : up[i] \in Nat /\ up[i] <= up[n]
      /\ \A i \in 1..n : Planned[job.plan[i]] \in Nat
                         /\ up[i] = up[i - 1] + Planned[job.plan[i]]
  <2>1. job.plan \in Seq(Entries)
    BY <1>1 DEF JobFits
  <2> QED BY <2>1, SumsGrow
<1>3. job.at \in 0..n
  BY <1>1 DEF JobFits
<1>4. /\ rep.done \in Nat /\ rep.total \in Nat /\ rep.base \in Nat /\ rep.fileTotal \in Nat
      /\ seen.done <= rep.done
      /\ IF job.step \in {"scan", "totals"} THEN rep.total = 0 ELSE rep.total = up[n]
      /\ job.step \in {"scan", "totals", "session"} => rep.done = 0
      /\ job.step = "select" => rep.done <= up[job.at]
      /\ job.step \in InFile =>
           /\ rep.base <= up[job.at - 1] /\ rep.fileTotal = Planned[job.plan[job.at]]
           /\ rep.done <= rep.base + rep.fileTotal
  BY <1>1 DEF ToldFits, Reporter, ProgressFits
<1> HIDE DEF up, n
<1>5. CASE job.step \in {"scan", "totals", "session"}
  <2>1. job.step \notin InFile
    BY <1>5 DEF InFile, Opened
  <2> QED BY <1>2, <1>4, <1>5, <2>1 DEF Ahead
<1>6. CASE job.step = "select"
  <2>1. job.step \notin InFile
    BY <1>6 DEF InFile, Opened
  <2>2. rep.done <= up[n]
    BY <1>2, <1>3, <1>4, <1>6
  <2> QED BY <1>4, <1>6, <2>1, <2>2 DEF Ahead
<1>7. CASE job.step \in InFile
  <2>1. job.at \in 1..n /\ job.at - 1 \in 0..n
    BY <1>1, <1>2, <1>3, <1>7 DEF StepFits
  <2>2. rep.base + rep.fileTotal <= up[job.at]
    BY <1>2, <1>4, <1>7, <2>1
  <2>3. up[job.at] <= up[n] /\ up[job.at] \in Nat /\ up[n] \in Nat
    BY <1>2, <1>3
  <2>4. rep.done <= up[job.at] /\ rep.done <= up[n]
    BY <1>2, <1>4, <1>7, <2>2, <2>3
  <2>5. rep.total = up[n]
    BY <1>4, <1>7 DEF InFile, Opened
  <2> QED BY <1>4, <2>2, <2>3, <2>4, <2>5 DEF Ahead, up, n
<1> QED BY <1>1, <1>5, <1>6, <1>7 DEF JobFits, Steps

\* A step inside a file at which nothing is read.
LEMMA InsideProgress ==
  ASSUME PackagesInv, job.step \in InFile, job'.step \in InFile \ {"read", "chunks"},
         job'.at = job.at, job'.plan = job.plan, NEW next, Tells(next),
         next.total = rep.total, next.base = rep.base,
         next.fileTotal = rep.fileTotal, next.done = rep.done
  PROVE  ProgressFits' /\ Ahead(next)
<1>1. Runs /\ job.step # "entries"
  BY DEF Runs, InFile, Opened
<1>2. Ahead(next)
  BY <1>1, ReporterAhead DEF Ahead
<1>3. ToldFits /\ ProgressFits
  BY <1>1 DEF PackagesInv, Good
<1>4. /\ seen'.done <= rep'.done
      /\ seen'.total # 0 => seen'.done <= seen'.total
  BY <1>2, <1>3, TellsGrowing DEF ProgressFits
<1>5. /\ job'.step \notin {"scan", "totals", "session", "select", "read", "chunks"}
      /\ job.step \notin {"scan", "totals"}
  BY DEF InFile, Opened
<1>6. rep'.total = rep.total /\ rep'.base = rep.base
      /\ rep'.fileTotal = rep.fileTotal /\ rep'.done = rep.done
  BY DEF Tells
<1>7. ProgressFits'
  BY <1>3, <1>4, <1>5, <1>6 DEF ProgressFits
<1> QED BY <1>2, <1>7

\* The moves inside a file that are good whatever was read.
LEMMA InsideKeeps ==
  ASSUME PackagesInv, Steady, job.step \in InFile, NEW s \in InFile \ {"read", "chunks"},
         Goes({"keys"}, s), KeysFit', StepFits', SourceFits',
         s = "store" => ~token,
         NEW next, Tells(next), next.total = rep.total, next.base = rep.base,
         next.fileTotal = rep.fileTotal, next.done = rep.done
  PROVE  PackagesInv' /\ Growing
<1>1. Runs /\ Good
  BY DEF PackagesInv, Runs, InFile, Opened
<1>2. job'.length \in Nat /\ job'.read \in Nat
  BY <1>1 DEF Goes, Fields, Good, JobFits
<1>3. Goes({"length", "read", "keys"}, s)
  BY GoesMore
<1>4. /\ JobFits' /\ RootFits' /\ DoneFits'
      /\ job'.step = s /\ job'.op = job.op /\ job'.at = job.at
      /\ job'.plan = job.plan /\ job'.asked = job.asked
  BY <1>2, <1>3, InsideStays
<1>5. ProgressFits' /\ Ahead(next)
  BY <1>4, InsideProgress
<1>6. TokenFits'
  BY <1>1, <1>4 DEF Good, TokenFits, Tells
<1>7. Good'
  BY <1>4, <1>5, <1>6 DEF Good
<1> QED BY <1>1, <1>5, <1>7, GoingKeeps

\* The same where the operation stops instead.
LEMMA InsideStops ==
  ASSUME PackagesInv, Steady, Runs, job.step # "entries", Stops,
         NEW next, Tells(next), next.total = rep.total, next.done = rep.done
  PROVE  PackagesInv' /\ Growing
<1>1. Ahead(next)
  BY ReporterAhead DEF Ahead
<1> QED BY <1>1, StoppedKeeps

LEMMA PhaseNumbers ==
  ASSUME PackagesInv, NEW phase
  PROVE  /\ InPhase(rep, phase).total = rep.total /\ InPhase(rep, phase).base = rep.base
         /\ InPhase(rep, phase).fileTotal = rep.fileTotal
         /\ InPhase(rep, phase).done = rep.done
BY PhaseKept DEF PackagesInv, ToldFits

-----------------------------------------------------------------------------
(* Inside a file.                                                          *)

LEMMA GoodInside ==
  ASSUME PackagesInv, job.step \in InFile
  PROVE  /\ Fits /\ Runs /\ Good /\ job.step # "entries"
         /\ job.at >= 1 /\ job.op \in Directory \cup Exchanging
<1>1. Runs /\ job.step # "entries"
  BY DEF Runs, InFile, Opened
<1> QED BY <1>1, InvFits DEF Good, StepFits, JobFits

LEMMA CompressKeeps ==
  ASSUME PackagesInv, Compress
  PROVE  PackagesInv' /\ Growing
<1>1. job.step = "compress" /\ job.step \in InFile
  BY DEF Compress, Phase, InFile
<1>2. Fits /\ Runs /\ Good /\ job.at >= 1
  BY <1>1, GoodInside
<1>3. Steady /\ Tells(InPhase(rep, "compress")) /\ (Stops \/ Goes({}, "derive"))
  BY <1>2, CompressDoes
<1>4. CASE Stops
  BY <1>1, <1>2, <1>3, <1>4, InsideStops, PhaseNumbers
<1>5. CASE Goes({}, "derive")
  <2>1. "derive" \in InFile \ {"read", "chunks"} /\ "derive" # "store"
    BY DEF InFile
  <2>2. Goes({"keys"}, "derive")
    BY <1>5, GoesMore
  <2>3. /\ job'.step = "derive" /\ job'.op = job.op /\ job'.at = job.at
        /\ job'.keys = job.keys /\ job'.pass = job.pass
    BY <1>5 DEF Goes, Fields
  <2>4. StepFits' /\ SourceFits' /\ KeysFit'
    BY <1>2, <2>3 DEF Good, StepFits, SourceFits, KeysFit, Opened
  <2> QED BY <1>1, <1>3, <2>1, <2>2, <2>4, InsideKeeps, PhaseNumbers
<1> QED BY <1>3, <1>4, <1>5

LEMMA CryptKeeps ==
  ASSUME PackagesInv, Crypt
  PROVE  PackagesInv' /\ Growing
<1> DEFINE s == IF Seals THEN "write" ELSE "open"
<1>1. job.step = "crypt" /\ job.step \in InFile
  BY DEF Crypt, Phase, InFile, Opened
<1>2. Fits /\ Runs /\ Good /\ job.at >= 1
  BY <1>1, GoodInside
<1>3. Steady /\ Tells(InPhase(rep, "crypt")) /\ (Stops \/ Goes({}, s))
  BY <1>2, CryptDoes
<1>4. s \in InFile \ {"read", "chunks"} /\ s # "store"
  BY DEF InFile, Opened
<1>5. s = "open" => job.op \notin Sealing
  BY DEF Seals
<1>6. s \in {"write", "open"}
  OBVIOUS
<1> HIDE DEF s
<1>7. CASE Stops
  BY <1>1, <1>2, <1>3, <1>7, InsideStops, PhaseNumbers
<1>8. CASE Goes({}, s)
  <2>1. Goes({"keys"}, s)
    BY <1>8, GoesMore
  <2>2. /\ job'.step = s /\ job'.op = job.op /\ job'.at = job.at /\ job'.plan = job.plan
        /\ job'.keys = job.keys /\ job'.pass = job.pass
    BY <1>8 DEF Goes, Fields
  <2>3. Source' = Source
    BY <1>3, <2>2 DEF Source, Current, Steady, disk
  <2>4. StepFits' /\ KeysFit'
    BY <1>2, <1>5, <1>6, <2>2 DEF Good, StepFits, KeysFit
  <2>5. SourceFits'
    BY <1>1, <1>2, <1>6, <2>2, <2>3 DEF Good, SourceFits, Opened
  <2> QED BY <1>1, <1>3, <1>4, <2>1, <2>4, <2>5, InsideKeeps, PhaseNumbers
<1> QED BY <1>3, <1>7, <1>8

LEMMA DecompressKeeps ==
  ASSUME PackagesInv, Decompress
  PROVE  PackagesInv' /\ Growing
<1>1. job.step = "decompress" /\ job.step \in InFile
  BY DEF Decompress, Phase, InFile, Opened
<1>2. Fits /\ Runs /\ Good /\ job.at >= 1
  BY <1>1, GoodInside
<1>3. Steady /\ Tells(InPhase(rep, "decompress")) /\ (Stops \/ Goes({}, "write"))
  BY <1>2, DecompressDoes
<1>4. CASE Stops
  BY <1>1, <1>2, <1>3, <1>4, InsideStops, PhaseNumbers
<1>5. CASE Goes({}, "write")
  <2>1. "write" \in InFile \ {"read", "chunks"} /\ "write" # "store"
    BY DEF InFile, Opened
  <2>2. Goes({"keys"}, "write")
    BY <1>5, GoesMore
  <2>3. /\ job'.step = "write" /\ job'.op = job.op /\ job'.at = job.at
        /\ job'.plan = job.plan /\ job'.keys = job.keys /\ job'.pass = job.pass
    BY <1>5 DEF Goes, Fields
  <2>4. Source' = Source
    BY <1>3, <2>3 DEF Source, Current, Steady, disk
  <2>5. StepFits' /\ KeysFit'
    BY <1>2, <2>3 DEF Good, StepFits, KeysFit
  <2>6. SourceFits'
    BY <1>1, <1>2, <2>3, <2>4 DEF Good, SourceFits, Opened
  <2> QED BY <1>1, <1>3, <2>1, <2>2, <2>5, <2>6, InsideKeeps, PhaseNumbers
<1> QED BY <1>3, <1>4, <1>5

\* A key that is found was derived for the same passphrase, and so is a new one.
LEMMA DeriveKeeps ==
  ASSUME PackagesInv, Derive
  PROVE  PackagesInv' /\ Growing
<1> DEFINE more == WithMasterKey(job.keys, job.pass, Source)
           keys == IF job.op = "decrypt" /\ job.batch THEN more ELSE job.keys
<1>1. job.step = "derive" /\ job.step \in InFile
  BY DEF Derive, Phase, InFile
<1>2. Fits /\ Runs /\ Good /\ job.at >= 1
  BY <1>1, GoodInside
<1>3. /\ Steady /\ Tells(InPhase(rep, "derive"))
      /\ \/ Stops
         \/ /\ Seals \/ Readable(Source)
            /\ Goes({"keys"}, "crypt") /\ job'.keys = keys
  BY <1>2, DeriveDoes
<1>4. CASE Stops
  BY <1>1, <1>2, <1>3, <1>4, InsideStops, PhaseNumbers
<1>5. CASE /\ Seals \/ Readable(Source)
           /\ Goes({"keys"}, "crypt") /\ job'.keys = keys
  <2>1. "crypt" \in InFile \ {"read", "chunks"} /\ "crypt" # "store"
    BY DEF InFile, Opened
  <2>2. /\ job'.step = "crypt" /\ job'.op = job.op /\ job'.at = job.at
        /\ job'.plan = job.plan /\ job'.pass = job.pass
    BY <1>5 DEF Goes, Fields
  <2>3. Source' = Source
    BY <1>3, <2>2 DEF Source, Current, Steady, disk
  <2>4. \A k \in DOMAIN job.keys : job.keys[k] = MasterKey(job.pass, k)
    BY <1>2 DEF Good, KeysFit
  <2>5. \A k \in DOMAIN more : more[k] = MasterKey(job.pass, k)
    BY <2>4 DEF WithMasterKey, FoundMasterKey
  <2>6. KeysFit'
    BY <1>5, <2>2, <2>4, <2>5 DEF KeysFit
  <2>7. StepFits'
    BY <1>2, <2>2 DEF Good, StepFits
  <2>8. SourceFits'
    BY <1>5, <2>2, <2>3 DEF SourceFits, Seals
  <2> QED BY <1>1, <1>3, <1>5, <2>1, <2>6, <2>7, <2>8, InsideKeeps, PhaseNumbers
<1> QED BY <1>3, <1>4, <1>5

\* What a failed file leaves when the batch goes on.
LEMMA CountsKeeps ==
  ASSUME PackagesInv, job.step \in InFile, Counts, Tells(rep), DiskFits',
         UNCHANGED <<pack, root, calls>>, WrittenNow' = WrittenNow
  PROVE  PackagesInv' /\ Growing
<1> DEFINE a == job.answer
<1>1. Fits /\ Runs /\ Good /\ job.at >= 1 /\ job.step # "entries"
  BY GoodInside
<1>2. Ahead(rep) /\ rep.done <= PlannedUpTo(job.plan)[job.at]
  BY <1>1, ReporterAhead
<1>3. /\ job' = [f \in Fields |-> job'[f]] /\ job'.step = "select"
      /\ job'.op = job.op /\ job'.at = job.at /\ job'.plan = job.plan
      /\ job'.goOn = job.goOn /\ job'.length = job.length /\ job'.read = job.read
      /\ job'.keys = job.keys /\ job'.pass = job.pass
      /\ job'.lost = job.lost
      /\ job.goOn /\ job'.error # "ok" /\ job'.answer = [a EXCEPT !.failed = @ + 1]
  BY DEF Counts, Goes, Fields
<1>4. /\ JobFits /\ ToldFits /\ ProgressFits /\ StepFits /\ KeysFit /\ DoneFits /\ TokenFits
  BY <1>1 DEF Fits, Good
<1>5. /\ job'.answer = [status |-> a.status, failed |-> a.failed + 1,
                        succeeded |-> a.succeeded]
      /\ a.failed \in Nat /\ a.succeeded \in Nat
  BY <1>3, <1>4 DEF JobFits
<1> HIDE DEF a
<1>6. job.op \in Directory
  BY <1>3, <1>4 DEF JobFits
<1>7. ToldFits' /\ Growing
      /\ seen'.done <= rep'.done
  BY <1>2, <1>4, ToldStays, TellsGrowing DEF ProgressFits
<1>8. JobFits'
  <2> DEFINE b == job'.answer
  <2>1. /\ b = [status |-> b.status, failed |-> b.failed, succeeded |-> b.succeeded]
        /\ b.failed \in Nat /\ b.succeeded \in Nat
    BY <1>5
  <2> HIDE DEF b
  <2>2. /\ job' = [f \in Fields |-> job'[f]] /\ job'.step \in Steps
        /\ job'.op = job.op /\ job'.at = job.at /\ job'.plan = job.plan
        /\ job'.goOn = job.goOn /\ job'.length = job.length /\ job'.read = job.read
        /\ job'.error # "ok" /\ job'.answer = b /\ job'.lost = job.lost
    BY <1>3 DEF Steps, b
  <2> QED BY <1>4, <2>1, <2>2 DEF JobFits
<1>9. StepFits' /\ SourceFits' /\ KeysFit' /\ RootFits'
  BY <1>3, <1>4, <1>6 DEF StepFits, SourceFits, KeysFit, RootFits, InFile, Opened,
                          Directory, Sealing
<1>10. DoneFits'
  <2>1. job'.answer.failed # 0 /\ job'.answer.succeeded = a.succeeded
    BY <1>5
  <2>2. Past = job.at - 1 /\ Past' = job.at
    BY <1>3 DEF Past, InFile, Opened
  <2>3. job.at \in Nat
    BY <1>4 DEF JobFits
  <2>4. \A i \in 1..(job.at - 1) : i \in 1..job.at
    BY <2>3
  <2> QED BY <1>3, <1>4, <2>1, <2>2, <2>4 DEF DoneFits, Counted, a
<1>11. ProgressFits'
  <2>1. seen'.total # 0 => seen'.done <= seen'.total
    BY <1>7 DEF Growing
  <2>2. rep'.total = rep.total /\ rep'.done = rep.done
    BY DEF Tells
  <2>3. rep.total = PlannedUpTo(job.plan)[Len(job.plan)]
    BY <1>4 DEF ProgressFits, InFile, Opened
  <2> QED BY <1>2, <1>3, <1>7, <2>1, <2>2, <2>3 DEF ProgressFits, InFile, Opened
<1>12. TokenFits'
  BY <1>3, <1>6 DEF TokenFits
<1>13. AnswerMatchesDisk' /\ UnpackedIsPackage'
  BY <1>3 DEF AnswerMatchesDisk, UnpackedIsPackage
<1> QED BY <1>7, <1>8, <1>9, <1>10, <1>11, <1>12, <1>13 DEF PackagesInv, Good

LEMMA SteadyCounts ==
  ASSUME PackagesInv, job.step \in InFile, Steady, Counts, Tells(rep)
  PROVE  PackagesInv' /\ Growing
<1>1. UNCHANGED <<pack, root, calls>> /\ WrittenNow' = WrittenNow
  BY DEF Steady, disk, WrittenNow
<1>2. DiskFits'
  BY DiskStays DEF PackagesInv
<1> QED BY <1>1, <1>2, CountsKeeps

LEMMA StepFailsKeeps ==
  ASSUME PackagesInv, StepFails
  PROVE  PackagesInv' /\ Growing
<1>1. job.step \in InFile
  BY DEF StepFails, InFile, Opened
<1>2. Fits /\ Runs /\ job.step # "entries"
  BY <1>1, GoodInside
<1>3. Steady /\ Tells(rep) /\ (Stops \/ Counts)
  BY <1>2, StepFailsDoes
<1>4. CASE Stops
  BY <1>2, <1>3, <1>4, InsideStops
<1>5. CASE Counts
  BY <1>1, <1>3, <1>5, SteadyCounts
<1> QED BY <1>3, <1>4, <1>5

LEMMA OpenKeeps ==
  ASSUME PackagesInv, Open
  PROVE  PackagesInv' /\ Growing
<1> DEFINE s == IF Source.version = 1 THEN "write" ELSE "decompress"
<1>1. job.step = "open" /\ job.step \in InFile
  BY DEF Open, InFile, Opened
<1>2. Fits /\ Runs /\ Good /\ job.at >= 1 /\ job.step # "entries"
  BY <1>1, GoodInside
<1>3. Steady /\ Tells(rep) /\ (Stops \/ Counts \/ Goes({}, s))
  BY <1>2, OpenDoes
<1>4. s \in {"write", "decompress"}
  OBVIOUS
<1> HIDE DEF s
<1>5. CASE Stops
  BY <1>2, <1>3, <1>5, InsideStops
<1>6. CASE Counts
  BY <1>1, <1>3, <1>6, SteadyCounts
<1>7. CASE Goes({}, s)
  <2>1. s \in InFile \ {"read", "chunks"} /\ s # "store"
    BY <1>4 DEF InFile, Opened
  <2>2. Goes({"keys"}, s)
    BY <1>7, GoesMore
  <2>3. /\ job'.step = s /\ job'.op = job.op /\ job'.at = job.at
        /\ job'.plan = job.plan /\ job'.keys = job.keys /\ job'.pass = job.pass
    BY <1>7 DEF Goes, Fields
  <2>4. Source' = Source
    BY <1>3, <2>3 DEF Source, Current, Steady, disk
  <2>5. StepFits' /\ KeysFit'
    BY <1>1, <1>2, <1>4, <2>3 DEF Good, StepFits, KeysFit
  <2>6. SourceFits'
    BY <1>1, <1>2, <1>4, <2>3, <2>4 DEF Good, SourceFits, Opened
  <2> QED BY <1>1, <1>3, <2>1, <2>2, <2>5, <2>6, InsideKeeps
<1> QED BY <1>3, <1>5, <1>6, <1>7

LEMMA ReadKeeps ==
  ASSUME PackagesInv, Read
  PROVE  PackagesInv' /\ Growing
<1> DEFINE next == InPhase(rep, "read")
<1>1. job.step = "read" /\ job.step \in InFile
  BY DEF Read, Phase, InFile
<1>2. Fits /\ Runs /\ Good /\ job.at >= 1 /\ job.step # "entries"
  BY <1>1, GoodInside
<1>3. /\ Steady /\ Tells(next)
      /\ \/ Stops
         \/ Goes({"length", "read"}, "chunks") /\ job'.length \in Nat /\ job'.read = 0
  BY <1>2, ReadDoes
<1>4. next.total = rep.total /\ next.base = rep.base
      /\ next.fileTotal = rep.fileTotal /\ next.done = rep.done
  BY PhaseNumbers
<1> HIDE DEF next
<1>5. CASE Stops
  BY <1>2, <1>3, <1>4, <1>5, InsideStops
<1>6. CASE Goes({"length", "read"}, "chunks") /\ job'.length \in Nat /\ job'.read = 0
  <2>1. Goes({"length", "read", "keys"}, "chunks") /\ "chunks" \in InFile
        /\ job'.read \in Nat
    BY <1>6, GoesMore DEF InFile
  <2>2. /\ JobFits' /\ RootFits' /\ DoneFits'
        /\ job'.step = "chunks" /\ job'.op = job.op /\ job'.at = job.at
        /\ job'.plan = job.plan /\ job'.pass = job.pass /\ job'.asked = job.asked
    BY <1>1, <1>3, <1>6, <2>1, InsideStays
  <2>3. job'.keys = job.keys
    BY <1>6 DEF Goes, Fields
  <2>4. StepFits' /\ SourceFits' /\ KeysFit'
    BY <1>2, <2>2, <2>3 DEF Good, StepFits, SourceFits, KeysFit, Opened
  <2>5. TokenFits'
    BY <1>2, <1>3, <2>2 DEF Good, TokenFits, Tells
  <2>6. Ahead(next)
    BY <1>2, <1>4, ReporterAhead DEF Ahead
  <2>7. ProgressFits'
    <3>1. ToldFits /\ ProgressFits
      BY <1>2 DEF Fits, Good
    <3>2. /\ seen'.done <= rep'.done
          /\ seen'.total # 0 => seen'.done <= seen'.total
      BY <1>3, <2>6, <3>1, TellsGrowing DEF ProgressFits
    <3>3. rep'.total = rep.total /\ rep'.base = rep.base
          /\ rep'.fileTotal = rep.fileTotal /\ rep'.done = rep.done
      BY <1>3, <1>4 DEF Tells
    <3>4. rep.base \in Nat /\ rep.fileTotal \in Nat
      BY <3>1 DEF ToldFits, Reporter
    <3>5. rep.base = rep.base + Least(0, rep.fileTotal)
      BY <3>4 DEF Least
    <3> QED BY <1>1, <1>6, <2>2, <3>1, <3>2, <3>3, <3>5 DEF ProgressFits, InFile
  <2>8. Good'
    BY <2>2, <2>4, <2>5, <2>7 DEF Good
  <2> QED BY <1>2, <1>3, <2>6, <2>8, GoingKeeps
<1> QED BY <1>3, <1>5, <1>6

LEMMA ReadingOn ==
  ASSUME NEW read \in Nat, NEW length \in Nat, read <= length, NEW total \in Nat
  PROVE  LET now == Least(read + 1, length)
         IN  /\ now \in Nat /\ now <= length
             /\ Least(read, total) <= Least(now, total)
             /\ Least(now, total) <= total /\ Least(now, total) \in Nat
             /\ Least(read, total) \in Nat
BY DEF Least

LEMMA ReadChunkKeeps ==
  ASSUME PackagesInv, ReadChunk
  PROVE  PackagesInv' /\ Growing
<1> DEFINE now == Least(job.read + 1, job.length)
           next == ReadSoFar(rep, now)
           s == job'.step
<1>1. job.step = "chunks" /\ job.step \in InFile
  BY DEF ReadChunk, InFile
<1>2. Fits /\ Runs /\ Good /\ job.at >= 1 /\ job.step # "entries"
  BY <1>1, GoodInside
<1>3. /\ Steady /\ Tells(next)
      /\ \/ Stops
         \/ /\ Goes({"read"}, s) /\ s \in {"chunks", "compress", "derive"}
            /\ s = "compress" => job.op \in Sealing
            /\ job'.read = now
  BY <1>2, ReadChunkDoes
<1>4. /\ JobFits /\ ToldFits /\ ProgressFits
  BY <1>2 DEF Fits, Good
<1>5. /\ job.read \in Nat /\ job.length \in Nat /\ job.read <= job.length
      /\ rep.base \in Nat /\ rep.fileTotal \in Nat /\ rep.total \in Nat /\ rep.done \in Nat
      /\ seen.done \in Nat /\ seen.done <= rep.done
      /\ rep.done = rep.base + Least(job.read, rep.fileTotal)
      /\ rep.total = PlannedUpTo(job.plan)[Len(job.plan)]
      /\ rep.fileTotal = Planned[job.plan[job.at]]
      /\ rep.base <= PlannedUpTo(job.plan)[job.at - 1]
  BY <1>1, <1>4 DEF JobFits, ToldFits, Reporter, ProgressFits
<1>6. next.total = rep.total /\ next.base = rep.base /\ next.fileTotal = rep.fileTotal
      /\ next.done = rep.base + Least(now, rep.fileTotal)
  <2> HIDE DEF now
  <2>1. rep = [phase |-> rep.phase, total |-> rep.total, base |-> rep.base,
               fileTotal |-> rep.fileTotal, done |-> rep.done]
    BY <1>4 DEF ToldFits, Reporter
  <2> QED BY <2>1 DEF ReadSoFar
<1>7. /\ now \in Nat /\ now <= job.length
      /\ Least(job.read, rep.fileTotal) <= Least(now, rep.fileTotal)
      /\ Least(now, rep.fileTotal) <= rep.fileTotal /\ Least(now, rep.fileTotal) \in Nat
      /\ Least(job.read, rep.fileTotal) \in Nat
  BY <1>5, ReadingOn
<1> HIDE DEF now, next
<1>8. Ahead(next)
  <2> DEFINE top == PlannedUpTo(job.plan)[job.at]
  <2>1. rep.base + rep.fileTotal <= top /\ top <= rep.total /\ top \in Nat
    <3>1. job.plan \in Seq(Entries) /\ job.at \in 0..Len(job.plan)
      BY <1>4 DEF JobFits
    <3>2. top \in Nat
      BY <3>1, SumsGrow
    <3> QED BY <1>1, <1>2, <1>5, <3>2, ReporterAhead
  <2> DEFINE before == Least(job.read, rep.fileTotal)
             after == Least(now, rep.fileTotal)
             base == rep.base
             size == rep.fileTotal
  <2>2. /\ before \in Nat /\ after \in Nat /\ base \in Nat /\ size \in Nat
        /\ before <= after /\ after <= size /\ base + size <= top
        /\ rep.total \in Nat /\ seen.done \in Nat
    BY <1>5, <1>7, <2>1
  <2>3. seen.done <= base + before /\ next.done = base + after /\ next.total = rep.total
    BY <1>5, <1>6
  <2> HIDE DEF top, before, after, base, size
  <2>4. base + before <= base + after /\ base + after <= base + size
    BY <2>2
  <2>5. base + after <= rep.total
    BY <2>1, <2>2, <2>4
  <2>6. seen.done <= base + after
    BY <2>2, <2>3, <2>4
  <2> QED BY <2>3, <2>5, <2>6 DEF Ahead
<1>9. CASE Stops
  BY <1>2, <1>3, <1>8, <1>9, StoppedKeeps
<1>10. CASE /\ Goes({"read"}, s) /\ s \in {"chunks", "compress", "derive"}
            /\ s = "compress" => job.op \in Sealing
            /\ job'.read = now
  <2>1. Goes({"length", "read", "keys"}, s) /\ s \in InFile
    BY <1>10, GoesMore DEF InFile
  <2>2. job'.length = job.length /\ job'.keys = job.keys
    BY <1>10 DEF Goes, Fields
  <2> HIDE DEF s
  <2>3. /\ JobFits' /\ RootFits' /\ DoneFits'
        /\ job'.step = s /\ job'.op = job.op /\ job'.at = job.at
        /\ job'.plan = job.plan /\ job'.pass = job.pass /\ job'.asked = job.asked
    BY <1>1, <1>3, <1>5, <1>7, <1>10, <2>1, <2>2, InsideStays
  <2>4. StepFits' /\ SourceFits' /\ KeysFit'
    BY <1>2, <1>10, <2>2, <2>3 DEF Good, StepFits, SourceFits, KeysFit, Opened
  <2>5. TokenFits'
    BY <1>2, <1>3, <1>10, <2>3 DEF Good, TokenFits, Tells
  <2>6. ProgressFits'
    <3>1. /\ seen'.done <= rep'.done
          /\ seen'.total # 0 => seen'.done <= seen'.total
      BY <1>3, <1>4, <1>8, TellsGrowing DEF ProgressFits
    <3>2. /\ rep'.total = rep.total /\ rep'.base = rep.base
          /\ rep'.fileTotal = rep.fileTotal
          /\ rep'.done = rep.base + Least(now, rep.fileTotal)
      BY <1>3, <1>6 DEF Tells
    <3>3. rep'.base <= rep'.done /\ rep'.done <= rep'.base + rep'.fileTotal
      <4> DEFINE after == Least(now, rep.fileTotal)
                 base == rep.base
                 size == rep.fileTotal
      <4>1. after \in Nat /\ base \in Nat /\ size \in Nat /\ after <= size
        BY <1>5, <1>7
      <4>2. rep'.base = base /\ rep'.done = base + after /\ rep'.fileTotal = size
        BY <3>2
      <4> HIDE DEF after, base, size
      <4>3. base <= base + after /\ base + after <= base + size
        BY <4>1
      <4> QED BY <4>2, <4>3
    <3>4. job'.step \in {"chunks", "compress", "derive"} /\ job'.step \in InFile
          /\ job'.read = now /\ job'.length = job.length
      BY <1>10, <2>1, <2>2, <2>3
    <3> QED BY <1>5, <1>7, <2>3, <3>1, <3>2, <3>3, <3>4 DEF ProgressFits
  <2>7. Good'
    BY <2>3, <2>4, <2>5, <2>6 DEF Good
  <2> QED BY <1>2, <1>3, <1>8, <2>7, GoingKeeps
<1> QED BY <1>3, <1>9, <1>10

\* The bytes of a package are read, or there is a file to write.
LEMMA WriteKeeps ==
  ASSUME PackagesInv, Write
  PROVE  PackagesInv' /\ Growing
<1> DEFINE s == IF Seals \/ job.op \in Directory THEN "store" ELSE "select"
           next == InPhase(rep, "write")
<1>1. job.step = "write" /\ job.step \in InFile
  BY DEF Write, Phase, InFile, Opened
<1>2. Fits /\ Runs /\ Good /\ job.at >= 1 /\ job.step # "entries"
  BY <1>1, GoodInside
<1>3. Steady /\ Tells(next) /\ (Stops \/ (~token /\ Goes({}, s)))
  BY <1>2, WriteDoes
<1>4. next.total = rep.total /\ next.base = rep.base
      /\ next.fileTotal = rep.fileTotal /\ next.done = rep.done
  BY PhaseNumbers
<1> HIDE DEF next
<1>5. CASE Stops
  BY <1>2, <1>3, <1>4, <1>5, InsideStops
<1>6. CASE (Seals \/ job.op \in Directory) /\ ~token /\ Goes({}, s)
  <2>1. "store" \in InFile \ {"read", "chunks"}
    BY DEF InFile, Opened
  <2>2. Goes({"keys"}, "store")
    BY <1>6, GoesMore
  <2>3. /\ job'.step = "store" /\ job'.op = job.op /\ job'.at = job.at
        /\ job'.plan = job.plan /\ job'.keys = job.keys /\ job'.pass = job.pass
    BY <1>6 DEF Goes, Fields
  <2>4. Source' = Source
    BY <1>3, <2>3 DEF Source, Current, Steady, disk
  <2>5. StepFits' /\ KeysFit'
    BY <1>2, <1>6, <2>3 DEF Good, StepFits, KeysFit, Seals
  <2>6. SourceFits'
    BY <1>1, <1>2, <2>3, <2>4 DEF Good, SourceFits, Opened
  <2> QED BY <1>1, <1>3, <1>4, <1>6, <2>1, <2>2, <2>5, <2>6, InsideKeeps
<1>7. CASE ~(Seals \/ job.op \in Directory) /\ Goes({}, s)
  <2>1. Goes({}, "select")
    BY <1>7
  <2>2. /\ job'.step = "select" /\ job'.op = job.op /\ job'.at = job.at
        /\ job'.plan = job.plan /\ job'.keys = job.keys /\ job'.pass = job.pass
        /\ job'.length = job.length /\ job'.read = job.read
        /\ job'.lost = job.lost
    BY <2>1 DEF Goes, Fields
  <2>3. JobFits'
    <3>1. Goes({"at", "length", "read", "keys"}, "select") /\ "select" \in Steps
      BY <2>1, GoesMore DEF Steps
    <3>2. JobFits
      BY <1>2 DEF Good
    <3>3. job'.at \in 0..Len(job.plan) /\ job'.length \in Nat /\ job'.read \in Nat
      BY <2>2, <3>2 DEF JobFits
    <3> QED BY <3>1, <3>2, <3>3, DataStays
  <2>4. StepFits' /\ KeysFit'
    BY <1>2, <2>2 DEF Good, StepFits, KeysFit, InFile, Opened
  <2>5. SourceFits'
    <3>1. job.op = "unpack" => Readable(pack)
      BY <1>1, <1>2 DEF Good, SourceFits, Source, Opened, Sealing
    <3> QED BY <1>3, <2>2, <3>1 DEF SourceFits, Opened, Steady, disk
  <2>6. RootFits'
    BY <1>1, <1>2, <1>3, <2>2 DEF Good, RootFits, Steady, disk
  <2>7. DoneFits' /\ TokenFits'
    BY <1>2, <1>3, <1>7, <2>2 DEF DoneFits, Directory, Good, TokenFits, Tells
  <2>8. Ahead(next) /\ rep.done <= PlannedUpTo(job.plan)[job.at]
    BY <1>1, <1>2, <1>4, ReporterAhead DEF Ahead
  <2>9. ProgressFits'
    <3>1. ToldFits /\ ProgressFits
      BY <1>2 DEF Fits, Good
    <3>2. /\ seen'.done <= rep'.done
          /\ seen'.total # 0 => seen'.done <= seen'.total
      BY <1>3, <2>8, <3>1, TellsGrowing DEF ProgressFits
    <3>3. rep'.total = rep.total /\ rep'.done = rep.done
      BY <1>3, <1>4 DEF Tells
    <3> QED BY <1>1, <2>2, <2>8, <3>1, <3>2, <3>3 DEF ProgressFits, InFile, Opened
  <2>10. Good'
    BY <2>3, <2>4, <2>5, <2>6, <2>7, <2>9 DEF Good
  <2> QED BY <1>2, <1>3, <2>8, <2>10, GoingKeeps
<1> QED BY <1>3, <1>5, <1>6, <1>7

-----------------------------------------------------------------------------
(* Between files.                                                          *)

\* A step outside any file that is past as many files as before.
LEMMA OutsideStays ==
  ASSUME PackagesInv, Runs, job.step \in {"scan", "totals", "session"}, Steady,
         NEW s \in {"totals", "session", "select"}, Goes({}, s)
  PROVE  /\ JobFits' /\ StepFits' /\ SourceFits' /\ KeysFit' /\ RootFits' /\ DoneFits'
         /\ job'.step = s /\ job'.op = job.op /\ job'.at = job.at
         /\ job'.plan = job.plan /\ job'.asked = job.asked
<1>1. Good
  BY DEF PackagesInv
<1>2. /\ job'.step = s /\ job'.op = job.op /\ job'.at = job.at
      /\ job'.plan = job.plan /\ job'.keys = job.keys /\ job'.pass = job.pass
      /\ job'.length = job.length /\ job'.read = job.read
      /\ job'.asked = job.asked /\ job'.answer = job.answer
      /\ job'.lost = job.lost
  BY DEF Goes, Fields
<1>3. UNCHANGED <<txt, pkg, pack, root, calls>>
  BY DEF Steady, disk
<1>4. JobFits'
  <2>1. Goes({"at", "length", "read", "keys"}, s) /\ s \in Steps
    BY GoesMore DEF Steps
  <2>2. JobFits
    BY <1>1 DEF Good
  <2>3. job'.at \in 0..Len(job.plan) /\ job'.length \in Nat /\ job'.read \in Nat
    BY <1>2, <2>2 DEF JobFits
  <2> QED BY <2>1, <2>2, <2>3, DataStays
<1>5. job.at = 0
  BY <1>1 DEF Good, StepFits
<1>6. StepFits' /\ SourceFits' /\ KeysFit' /\ RootFits'
  BY <1>1, <1>2, <1>3, <1>5 DEF Good, StepFits, SourceFits, KeysFit, RootFits, InFile,
                                Opened
<1>7. DoneFits'
  <2>1. Past' = Past /\ WrittenNow' = WrittenNow
    BY <1>2, <1>3 DEF Past, WrittenNow, InFile, Opened
  <2>2. DoneFits
    BY <1>1 DEF Good
  <2> QED BY <1>2, <1>3, <2>1, <2>2 DEF DoneFits, Counted
<1> QED BY <1>2, <1>4, <1>6, <1>7

LEMMA ScanKeeps ==
  ASSUME PackagesInv, Scan
  PROVE  PackagesInv' /\ Growing
<1>1. job.step = "scan" /\ Runs /\ job.step # "entries"
  BY DEF Scan, Runs
<1>2. Fits /\ Good /\ Ahead(rep)
  BY <1>1, InvFits, ReporterAhead
<1>3. Steady /\ Tells(rep) /\ (Stops \/ Goes({}, "totals"))
  BY <1>2, ScanDoes
<1>4. CASE Stops
  BY <1>1, <1>2, <1>3, <1>4, StoppedKeeps
<1>5. CASE Goes({}, "totals")
  <2>1. /\ JobFits' /\ StepFits' /\ SourceFits' /\ KeysFit' /\ RootFits' /\ DoneFits'
        /\ job'.step = "totals" /\ job'.op = job.op /\ job'.at = job.at
        /\ job'.plan = job.plan /\ job'.asked = job.asked
    BY <1>1, <1>3, <1>5, OutsideStays
  <2>2. TokenFits'
    BY <1>2, <1>3, <2>1 DEF Good, TokenFits, Tells
  <2>3. ProgressFits'
    <3>1. ToldFits /\ ProgressFits
      BY <1>2 DEF Fits, Good
    <3>2. /\ seen'.done <= rep'.done
          /\ seen'.total # 0 => seen'.done <= seen'.total
      BY <1>2, <1>3, <3>1, TellsGrowing DEF ProgressFits
    <3>3. rep'.total = rep.total /\ rep'.done = rep.done
      BY <1>3 DEF Tells
    <3> QED BY <1>1, <2>1, <3>1, <3>2, <3>3 DEF ProgressFits, InFile, Opened
  <2>4. Good'
    BY <2>1, <2>2, <2>3 DEF Good
  <2> QED BY <1>1, <1>2, <1>3, <2>4, GoingKeeps
<1> QED BY <1>3, <1>4, <1>5

LEMMA PlanFailsKeeps ==
  ASSUME PackagesInv, PlanFails
  PROVE  PackagesInv' /\ Growing
<1>1. job.step = "totals" /\ Runs /\ job.step # "entries"
  BY DEF PlanFails, Runs
<1>2. Fits /\ Ahead(rep)
  BY <1>1, InvFits, ReporterAhead
<1> QED BY <1>1, <1>2, PlanFailsDoes, StoppedKeeps

LEMMA TotalsKeeps ==
  ASSUME PackagesInv, Totals
  PROVE  PackagesInv' /\ Growing
<1> DEFINE next == WithTotals(rep, PlannedTotal)
           s == IF job.batch /\ job.op = "encrypt" THEN "session" ELSE "select"
<1>1. job.step = "totals" /\ Runs /\ job.step # "entries"
  BY DEF Totals, Runs
<1>2. Fits /\ Good
  BY <1>1, InvFits
<1>3. Steady /\ Tells(next) /\ (Stops \/ Goes({}, s))
  BY <1>2, TotalsDoes
<1>4. ToldFits /\ ProgressFits /\ JobFits
  BY <1>2 DEF Fits, Good
<1>5. PlannedTotal \in Nat /\ PlannedUpTo(job.plan)[0] = 0
  <2>1. job.plan \in Seq(Entries)
    BY <1>4 DEF JobFits
  <2> QED BY <2>1, SumsGrow DEF PlannedTotal
<1>6. rep.done = 0 /\ rep.done \in Nat /\ seen.done <= rep.done /\ seen.done \in Nat
  BY <1>1, <1>4 DEF ProgressFits, ToldFits, Reporter
<1>7. next.total = PlannedTotal /\ next.done = rep.done
  <2> HIDE DEF PlannedTotal
  <2>1. rep = [phase |-> rep.phase, total |-> rep.total, base |-> rep.base,
               fileTotal |-> rep.fileTotal, done |-> rep.done]
    BY <1>4 DEF ToldFits, Reporter
  <2> QED BY <2>1 DEF WithTotals
<1>8. s \in {"totals", "session", "select"} /\ s # "totals"
  OBVIOUS
<1> HIDE DEF next, s
<1>9. Ahead(next)
  BY <1>5, <1>6, <1>7 DEF Ahead
<1>10. CASE Stops
  BY <1>1, <1>3, <1>9, <1>10, StoppedKeeps
<1>11. CASE Goes({}, s)
  <2>1. /\ JobFits' /\ StepFits' /\ SourceFits' /\ KeysFit' /\ RootFits' /\ DoneFits'
        /\ job'.step = s /\ job'.op = job.op /\ job'.at = job.at
        /\ job'.plan = job.plan /\ job'.asked = job.asked
    BY <1>1, <1>3, <1>8, <1>11, OutsideStays
  <2>2. TokenFits'
    BY <1>2, <1>3, <1>8, <2>1 DEF Good, TokenFits, Tells
  <2>3. ProgressFits'
    <3>1. /\ seen'.done <= rep'.done
          /\ seen'.total # 0 => seen'.done <= seen'.total
      BY <1>3, <1>4, <1>9, TellsGrowing DEF ProgressFits
    <3>2. rep'.total = PlannedUpTo(job.plan)[Len(job.plan)] /\ rep'.done = 0
      BY <1>3, <1>6, <1>7 DEF Tells, PlannedTotal
    <3>3. job.at = 0
      BY <1>1, <1>2 DEF Good, StepFits
    <3>4. job'.step \in {"session", "select"}
      BY <1>8, <2>1
    <3> HIDE DEF PlannedTotal
    <3> QED BY <1>5, <2>1, <3>1, <3>2, <3>3, <3>4 DEF ProgressFits, InFile, Opened
  <2>4. Good'
    BY <2>1, <2>2, <2>3 DEF Good
  <2> QED BY <1>1, <1>3, <1>9, <2>4, GoingKeeps
<1> QED BY <1>3, <1>10, <1>11

LEMMA SessionKeeps ==
  ASSUME PackagesInv, Session
  PROVE  PackagesInv' /\ Growing
<1>1. job.step = "session" /\ Runs /\ job.step # "entries"
  BY DEF Session, Runs
<1>2. Fits /\ Good /\ Ahead(rep)
  BY <1>1, InvFits, ReporterAhead
<1>3. Steady /\ Tells(rep) /\ (Stops \/ Goes({}, "select"))
  BY <1>2, SessionDoes
<1>4. CASE Stops
  BY <1>1, <1>2, <1>3, <1>4, StoppedKeeps
<1>5. CASE Goes({}, "select")
  <2>1. /\ JobFits' /\ StepFits' /\ SourceFits' /\ KeysFit' /\ RootFits' /\ DoneFits'
        /\ job'.step = "select" /\ job'.op = job.op /\ job'.at = job.at
        /\ job'.plan = job.plan /\ job'.asked = job.asked
    BY <1>1, <1>3, <1>5, OutsideStays
  <2>2. TokenFits'
    BY <1>2, <1>3, <2>1 DEF Good, TokenFits, Tells
  <2>3. ProgressFits'
    <3>1. ToldFits /\ ProgressFits /\ JobFits /\ StepFits
      BY <1>2 DEF Fits, Good
    <3>2. /\ seen'.done <= rep'.done
          /\ seen'.total # 0 => seen'.done <= seen'.total
      BY <1>2, <1>3, <3>1, TellsGrowing DEF ProgressFits
    <3>3. rep'.total = rep.total /\ rep'.done = 0 /\ job.at = 0
      BY <1>1, <1>3, <3>1 DEF Tells, ProgressFits, StepFits
    <3>4. PlannedUpTo(job.plan)[0] = 0
      BY <3>1, SumsGrow DEF JobFits
    <3> QED BY <1>1, <2>1, <3>1, <3>2, <3>3, <3>4 DEF ProgressFits, InFile, Opened
  <2>4. Good'
    BY <2>1, <2>2, <2>3 DEF Good
  <2> QED BY <1>1, <1>2, <1>3, <2>4, GoingKeeps
<1> QED BY <1>3, <1>4, <1>5

LEMMA SelectKeeps ==
  ASSUME PackagesInv, Select
  PROVE  PackagesInv' /\ Growing
<1> DEFINE size == Planned[job.plan[job.at + 1]]
           next == AtFile(rep, size, rep.done)
           s == IF job.op = "export" THEN "compress" ELSE "read"
<1>1. job.step = "select" /\ Runs /\ job.step # "entries"
  BY DEF Select, Runs
<1>2. Fits /\ Good /\ Ahead(rep)
  BY <1>1, InvFits, ReporterAhead
<1>3. /\ job.at < Len(job.plan) /\ Steady /\ Tells(next)
      /\ Stops \/ (Goes({"at"}, s) /\ job'.at = job.at + 1)
  BY <1>2, SelectDoes
<1>4. ToldFits /\ ProgressFits /\ JobFits
  BY <1>2 DEF Fits, Good
<1>5. /\ next.total = rep.total /\ next.done = rep.done /\ next.base = rep.done
      /\ next.fileTotal = size
  <2> HIDE DEF size
  <2>1. rep = [phase |-> rep.phase, total |-> rep.total, base |-> rep.base,
               fileTotal |-> rep.fileTotal, done |-> rep.done]
    BY <1>4 DEF ToldFits, Reporter
  <2>2. next = [phase |-> rep.phase, total |-> rep.total, base |-> rep.done,
                fileTotal |-> size, done |-> rep.done]
    BY <2>1, ReporterMoves
  <2> HIDE DEF next
  <2> QED BY <2>2
<1>6. s \in {"compress", "read"} /\ (s = "read" => job.op # "export")
  OBVIOUS
<1> HIDE DEF next, s
<1>7. Ahead(next)
  BY <1>2, <1>5 DEF Ahead
<1>8. CASE Stops
  BY <1>1, <1>3, <1>7, <1>8, StoppedKeeps
<1>9. CASE Goes({"at"}, s) /\ job'.at = job.at + 1
  <2>1. /\ job'.step = s /\ job'.op = job.op /\ job'.keys = job.keys
        /\ job'.plan = job.plan /\ job'.pass = job.pass
        /\ job'.length = job.length /\ job'.read = job.read
        /\ job'.asked = job.asked /\ job'.answer = job.answer
        /\ job'.lost = job.lost
    BY <1>9 DEF Goes, Fields
  <2>2. UNCHANGED <<txt, pkg, pack, root, calls>>
    BY <1>3 DEF Steady, disk
  <2>3. job.at \in Nat /\ Len(job.plan) \in Nat /\ job'.at \in 1..Len(job.plan)
    BY <1>3, <1>4, <1>9 DEF JobFits
  <2>4. JobFits'
    <3>1. Goes({"at", "length", "read", "keys"}, s) /\ s \in Steps
      BY <1>6, <1>9, GoesMore DEF Steps, InFile
    <3>2. job'.at \in 0..Len(job.plan) /\ job'.length \in Nat /\ job'.read \in Nat
      BY <1>4, <2>1, <2>3 DEF JobFits
    <3> QED BY <1>4, <3>1, <3>2, DataStays
  <2>5. StepFits' /\ SourceFits' /\ KeysFit' /\ RootFits'
    BY <1>1, <1>2, <1>6, <2>1, <2>2, <2>3
       DEF Good, StepFits, SourceFits, KeysFit, RootFits, Opened
  <2>6. DoneFits'
    <3>1. Past = job.at
      BY <1>1 DEF Past, InFile, Opened
    <3>2. Past' = job.at
      BY <1>6, <1>9, <2>1, <2>3 DEF Past, InFile
    <3>3. WrittenNow' = WrittenNow
      BY <2>2 DEF WrittenNow
    <3> QED BY <1>2, <2>1, <2>2, <3>1, <3>2, <3>3 DEF Good, DoneFits, Counted
  <2>7. TokenFits'
    BY <1>2, <1>3, <1>6, <2>1 DEF Good, TokenFits, Tells
  <2>8. ProgressFits'
    <3>1. /\ seen'.done <= rep'.done
          /\ seen'.total # 0 => seen'.done <= seen'.total
      BY <1>3, <1>4, <1>7, TellsGrowing DEF ProgressFits
    <3>2. /\ rep'.total = rep.total /\ rep'.done = rep.done /\ rep'.base = rep.done
          /\ rep'.fileTotal = size
      BY <1>3, <1>5 DEF Tells
    <3>3. rep.done <= PlannedUpTo(job.plan)[job'.at - 1]
          /\ rep.total = PlannedUpTo(job.plan)[Len(job.plan)]
      BY <1>1, <1>4, <1>9, <2>3 DEF ProgressFits
    <3>4. size \in Nat /\ size = Planned[job.plan[job'.at]]
      <4>1. job.plan \in Seq(Entries)
        BY <1>4 DEF JobFits
      <4> QED BY <1>9, <2>3, <4>1, SumsGrow
    <3>5. rep.done \in Nat
      BY <1>4 DEF ToldFits, Reporter
    <3> HIDE DEF size
    <3>6. rep'.base <= rep'.done /\ rep'.done <= rep'.base + rep'.fileTotal
      BY <3>2, <3>4, <3>5
    <3> QED BY <1>6, <2>1, <3>1, <3>2, <3>3, <3>4, <3>6 DEF ProgressFits
  <2>9. Good'
    BY <2>4, <2>5, <2>6, <2>7, <2>8 DEF Good
  <2> QED BY <1>1, <1>3, <1>7, <2>9, GoingKeeps
<1> QED BY <1>3, <1>8, <1>9

\* An operation that is answered ok is past every file of its plan.
LEMMA ConcludeKeeps ==
  ASSUME PackagesInv, Conclude
  PROVE  PackagesInv' /\ Growing
<1> DEFINE next == Completed(rep)
           n == Len(job.plan)
<1>1. job.step = "select" /\ Runs /\ job.step # "entries"
  BY DEF Conclude, Runs
<1>2. Fits /\ Good /\ Ahead(rep)
  BY <1>1, InvFits, ReporterAhead
<1>3. /\ job.at = n /\ Steady
      /\ \/ Stops /\ Tells(rep)
         \/ /\ Tells(next) /\ job.answer.failed = 0
            /\ \/ job.op = "unpack" /\ Goes({}, "entries")
               \/ job.op # "unpack" /\ job' = Ended("ok")
  BY <1>2, ConcludeDoes
<1>4. ToldFits /\ ProgressFits /\ JobFits /\ DiskFits
  BY <1>2 DEF Fits, Good
<1>5. next.total = rep.total /\ next.done = rep.total
  <2>1. rep = [phase |-> rep.phase, total |-> rep.total, base |-> rep.base,
               fileTotal |-> rep.fileTotal, done |-> rep.done]
    BY <1>4 DEF ToldFits, Reporter
  <2>2. next = [phase |-> "completed", total |-> rep.total, base |-> rep.base,
                fileTotal |-> rep.fileTotal, done |-> rep.total]
    BY <2>1, ReporterMoves
  <2> HIDE DEF next
  <2> QED BY <2>2
<1> HIDE DEF next
<1>6. Ahead(next)
  <2>1. rep.done <= rep.total
    <3>1. job.plan \in Seq(Entries)
      BY <1>4 DEF JobFits
    <3> QED BY <1>1, <1>3, <1>4 DEF ProgressFits
  <2>2. seen.done <= rep.done /\ rep.done \in Nat /\ rep.total \in Nat /\ seen.done \in Nat
    BY <1>4 DEF ProgressFits, ToldFits, Reporter
  <2> QED BY <1>5, <2>1, <2>2 DEF Ahead
<1>7. UNCHANGED <<txt, pkg, pack, root, calls>>
  BY <1>3 DEF Steady, disk
<1>8. CASE Stops /\ Tells(rep)
  BY <1>1, <1>2, <1>3, <1>8, StoppedKeeps
<1>9. CASE /\ Tells(next) /\ job.answer.failed = 0
           /\ job.op # "unpack" /\ job' = Ended("ok")
  <2>1. DiskFits' /\ ToldFits' /\ Growing
    BY <1>3, <1>4, <1>6, <1>9, DiskStays, ToldStays, TellsGrowing DEF ProgressFits
  <2>2. /\ job'.step = "idle" /\ job'.op = job.op /\ job'.plan = job.plan
        /\ job'.answer.succeeded = job.answer.succeeded
        /\ job'.lost = job.lost
    BY <1>4, <1>9, WellEnded
  <2>3. Past = n
    BY <1>1, <1>3 DEF Past, InFile, Opened
  <2>4. DOMAIN job.plan = 1..n
    BY <1>4 DEF JobFits
  <2>5. WrittenNow' = WrittenNow
    BY <1>7 DEF WrittenNow
  <2>6. AnswerMatchesDisk'
    <3>1. job.op = "encrypt" => Counted = job.answer.succeeded
      BY <1>2 DEF Good, DoneFits
    <3>2. job.op \in Directory =>
            \A i \in DOMAIN job.plan :
              \/ job.plan[i] \in job.lost
              \/ Readable(pkg[job.plan[i]])
                   /\ pkg[job.plan[i]].content = txt[job.plan[i]]
      BY <1>2, <1>9, <2>3, <2>4 DEF Good, DoneFits
    <3>3. job'.op \in Directory =>
            \A i \in DOMAIN job'.plan :
              \/ job'.plan[i] \in job'.lost
              \/ Readable(pkg'[job'.plan[i]])
                   /\ pkg'[job'.plan[i]].content = txt'[job'.plan[i]]
      BY <1>7, <2>2, <3>2
    <3> HIDE DEF n
    <3> QED BY <2>2, <2>5, <3>1, <3>3 DEF AnswerMatchesDisk, Counted
  <2>7. UnpackedIsPackage' /\ ~Runs'
    BY <1>9, <2>2 DEF UnpackedIsPackage, Runs
  <2> QED BY <2>1, <2>6, <2>7 DEF PackagesInv
<1>10. CASE /\ Tells(next) /\ job.answer.failed = 0
            /\ job.op = "unpack" /\ Goes({}, "entries")
  <2>1. /\ job'.step = "entries" /\ job'.op = job.op /\ job'.at = job.at
        /\ job'.plan = job.plan /\ job'.keys = job.keys /\ job'.pass = job.pass
        /\ job'.length = job.length /\ job'.read = job.read
        /\ job'.lost = job.lost
    BY <1>10 DEF Goes, Fields
  <2>2. JobFits'
    <3>1. Goes({"at", "length", "read", "keys"}, "entries") /\ "entries" \in Steps
      BY <1>10, GoesMore DEF Steps
    <3>2. job'.at \in 0..Len(job.plan) /\ job'.length \in Nat /\ job'.read \in Nat
      BY <1>4, <2>1 DEF JobFits
    <3> QED BY <1>4, <3>1, <3>2, DataStays
  <2>3. Readable(pack)
    <3>1. job.at # 0
      <4>1. job.op \notin Directory
        BY <1>10 DEF Directory
      <4>2. Len(job.plan) = 1
        BY <1>4, <4>1 DEF JobFits
      <4> QED BY <1>3, <4>2
    <3> QED BY <1>1, <1>2, <1>10, <3>1 DEF Good, SourceFits
  <2>4. StepFits' /\ SourceFits' /\ KeysFit'
    BY <1>2, <1>7, <1>10, <2>1, <2>3
       DEF Good, StepFits, SourceFits, KeysFit, InFile, Opened
  <2>5. RootFits'
    BY <1>1, <1>2, <1>7, <2>1 DEF Good, RootFits
  <2>6. DoneFits' /\ TokenFits'
    BY <1>2, <1>10, <2>1 DEF DoneFits, TokenFits, Directory, Good, Tells
  <2>7. ProgressFits'
    <3>1. /\ seen'.done <= rep'.done
          /\ seen'.total # 0 => seen'.done <= seen'.total
      BY <1>4, <1>6, <1>10, TellsGrowing DEF ProgressFits
    <3>2. rep'.total = rep.total
      BY <1>5, <1>10 DEF Tells
    <3> QED BY <1>1, <1>4, <2>1, <3>1, <3>2 DEF ProgressFits, InFile, Opened
  <2>8. Good'
    BY <2>2, <2>4, <2>5, <2>6, <2>7 DEF Good
  <2> QED BY <1>1, <1>3, <1>6, <1>10, <2>8, GoingKeeps
<1> QED BY <1>3, <1>8, <1>9, <1>10

-----------------------------------------------------------------------------
(* Writing a file.                                                         *)

\* What may be written to a .tracer file: something torn, or what was sealed
\* for the operation.
Writable(file) ==
  job.op # "decrypt" /\ Readable(file) =>
     /\ WellSealed(file)
     /\ job.op = "encrypt" => file.nonce = <<calls, Current>>
     /\ job.op = "export" => DOMAIN file.content \subseteq Entries

LEMMA CurrentIsNew ==
  ASSUME PackagesInv, job.step = "store"
  PROVE  /\ job.at \in 1..Len(job.plan) /\ job.at \in Nat /\ Past = job.at - 1
         /\ job.op \in Directory => Current \in Files
         /\ \A i \in 1..Past : job.plan[i] # Current
         /\ job.op = "encrypt" => Current \notin WrittenNow
<1>1. job.step \in InFile
  BY DEF InFile, Opened
<1>2. Good /\ job.at >= 1
  BY <1>1, GoodInside
<1>3. JobFits /\ DoneFits
  BY <1>2 DEF Good
<1>4. Len(job.plan) \in Nat /\ job.at \in 1..Len(job.plan) /\ job.at \in Nat
  BY <1>2, <1>3 DEF JobFits
<1>5. Past = job.at - 1
  BY <1>1 DEF Past
<1>6. job.op \in Directory => Current \in Files
  BY <1>3, <1>4 DEF JobFits, Current
<1>7. \A i \in 1..Past : job.plan[i] # Current
  <2>1. \A i, k \in 1..Len(job.plan) : job.plan[i] = job.plan[k] => i = k
    BY <1>3 DEF JobFits
  <2>2. \A i \in 1..Past : i \in 1..Len(job.plan) /\ i # job.at
    BY <1>4, <1>5
  <2> QED BY <1>4, <2>1, <2>2 DEF Current
<1>8. job.op = "encrypt" => Current \notin WrittenNow
  BY <1>3, <1>7 DEF DoneFits
<1> QED BY <1>4, <1>5, <1>6, <1>7, <1>8

LEMMA HoldingDoes ==
  ASSUME PackagesInv, job.step = "store", calls' = calls, NEW file,
         Holding(file), Writable(file)
  PROVE  /\ DiskFits' /\ root' = root
         /\ job.op \in Directory => pack' = pack
         /\ job.op \in Sealing \cup Directory
         /\ job.op = "encrypt" =>
              /\ txt' = txt /\ pkg'[Current] = file
              /\ \A n \in Files \ {Current} : pkg'[n] = pkg[n]
              /\ WrittenNow' = IF Readable(file) THEN WrittenNow \cup {Current}
                               ELSE WrittenNow
         /\ job.op = "decrypt" =>
              /\ pkg' = pkg /\ txt'[Current] = file
              /\ \A n \in Files \ {Current} : txt'[n] = txt[n]
         /\ job.op # "encrypt" => WrittenNow' = WrittenNow
<1>1. DiskFits /\ Good
  BY DEF PackagesInv, Runs
<1>2. job.op \in Sealing \cup Directory
  BY <1>1 DEF Good, StepFits
<1>3. /\ job.op \in Directory => Current \in Files
      /\ job.op = "encrypt" => Current \notin WrittenNow
  BY CurrentIsNew
<1>4. CASE job.op = "encrypt"
  <2>1. pkg' = [pkg EXCEPT ![Current] = file] /\ UNCHANGED <<txt, pack, root>>
    BY <1>4 DEF Holding
  <2>2. Current \in Files /\ Current \notin WrittenNow
    BY <1>3, <1>4 DEF Directory
  <2>3. pkg = [n \in Files |-> pkg[n]]
    BY <1>1 DEF DiskFits
  <2>4. pkg'[Current] = file /\ \A n \in Files \ {Current} : pkg'[n] = pkg[n]
    BY <2>1, <2>2, <2>3
  <2>5. pkg' = [n \in Files |-> pkg'[n]]
    BY <2>1, <2>3
  <2>6. Readable(file) => WellSealed(file) /\ file.nonce = <<calls, Current>>
    BY <1>4 DEF Writable
  <2>7. \A n \in Files : Readable(pkg'[n]) =>
          /\ WellSealed(pkg'[n])
          /\ \A k \in 1..MaxCalls : pkg'[n].nonce = <<k, n>> => k <= calls
    <3>1. \A n \in Files : Readable(pkg[n]) =>
            /\ WellSealed(pkg[n])
            /\ \A k \in 1..MaxCalls : pkg[n].nonce = <<k, n>> => k <= calls
      BY <1>1 DEF DiskFits
    <3>2. ASSUME NEW k \in 1..MaxCalls, <<calls, Current>> = <<k, Current>>
          PROVE  k <= calls
      BY <3>2
    <3>3. Readable(file) => \A k \in 1..MaxCalls : file.nonce = <<k, Current>> => k <= calls
      BY <2>6, <3>2
    <3>4. ASSUME NEW n \in Files, n # Current
          PROVE  Readable(pkg'[n]) =>
                   /\ WellSealed(pkg'[n])
                   /\ \A k \in 1..MaxCalls : pkg'[n].nonce = <<k, n>> => k <= calls
      <4>1. pkg'[n] = pkg[n]
        BY <2>4, <3>4
      <4> QED BY <3>1, <4>1
    <3> QED BY <2>4, <2>6, <3>3, <3>4
  <2>8. DiskFits'
    BY <1>1, <2>1, <2>5, <2>7 DEF DiskFits
  <2>9. WrittenNow' = IF Readable(file) THEN WrittenNow \cup {Current} ELSE WrittenNow
    <3>1. \A n \in Files \ {Current} : n \in WrittenNow' <=> n \in WrittenNow
      BY <2>4 DEF WrittenNow
    <3>2. Current \in WrittenNow' <=> Readable(file)
      BY <2>2, <2>4, <2>6 DEF WrittenNow
    <3>3. WrittenNow \subseteq Files /\ WrittenNow' \subseteq Files
      BY DEF WrittenNow
    <3> QED BY <2>2, <3>1, <3>2, <3>3
  <2> QED BY <1>2, <1>4, <2>1, <2>4, <2>8, <2>9
<1>5. CASE job.op = "decrypt"
  <2>1. txt' = [txt EXCEPT ![Current] = file] /\ UNCHANGED <<pkg, pack, root>>
    BY <1>5 DEF Holding
  <2>2. Current \in Files
    BY <1>3, <1>5 DEF Directory
  <2>3. txt = [n \in Files |-> txt[n]]
    BY <1>1 DEF DiskFits
  <2>4. txt'[Current] = file /\ \A n \in Files \ {Current} : txt'[n] = txt[n]
    BY <2>1, <2>2, <2>3
  <2>5. txt' = [n \in Files |-> txt'[n]]
    BY <2>1, <2>3
  <2>6. DiskFits'
    BY <1>1, <2>1, <2>5 DEF DiskFits
  <2>7. WrittenNow' = WrittenNow
    BY <2>1 DEF WrittenNow
  <2> QED BY <1>2, <1>5, <2>1, <2>4, <2>6, <2>7
<1>6. CASE job.op = "export"
  <2>1. pack' = file /\ UNCHANGED <<txt, pkg, root>>
    BY <1>6 DEF Holding
  <2>2. DiskFits'
    BY <1>1, <1>6, <2>1 DEF DiskFits, Writable
  <2>3. WrittenNow' = WrittenNow
    BY <2>1 DEF WrittenNow
  <2>4. job.op \notin Directory
    BY <1>6 DEF Directory
  <2> QED BY <1>2, <1>6, <2>1, <2>2, <2>3, <2>4
<1> QED BY <1>2, <1>4, <1>5, <1>6 DEF Sealing, Directory

LEMMA SealedWell ==
  ASSUME NEW p, NEW salt, NEW nonce, NEW content
  PROVE  /\ Readable(Sealed(p, salt, nonce, content))
         /\ WellSealed(Sealed(p, salt, nonce, content))
         /\ Readable(SealedInBatch(MasterKey(p, salt), salt, nonce, content))
         /\ WellSealed(SealedInBatch(MasterKey(p, salt), salt, nonce, content))
<1>1. Readable(Sealed(p, salt, nonce, content))
      /\ Readable(SealedInBatch(MasterKey(p, salt), salt, nonce, content))
  BY DEF Readable, Sealed, SealedInBatch
<1>2. WellSealed(Sealed(p, salt, nonce, content))
  BY DEF WellSealed, Sealed, SealedFor, MasterKey
<1>3. WellSealed(SealedInBatch(MasterKey(p, salt), salt, nonce, content))
  BY DEF WellSealed, SealedInBatch, SealedFor, MasterKey, Subkey
<1> QED BY <1>1, <1>2, <1>3

LEMMA OutputWritable ==
  ASSUME PackagesInv, job.step = "store"
  PROVE  /\ Writable(Output)
         /\ job.op = "encrypt" =>
              /\ Readable(Output) /\ Output.content = txt[Current]
         /\ job.op = "decrypt" =>
              /\ Readable(pkg[Current]) /\ Output = pkg[Current].content
<1>1. Good
  BY DEF PackagesInv, Runs
<1>2. job.op \in Sealing \cup Directory
  BY <1>1 DEF Good, StepFits
<1>3. CASE job.op = "decrypt"
  <2>1. ~Seals /\ Source = pkg[Current]
    BY <1>3 DEF Seals, Sealing, Source
  <2>2. Readable(Source)
    BY <1>1, <1>3 DEF Good, SourceFits, Opened, Sealing
  <2> QED BY <1>3, <2>1, <2>2 DEF Output, Writable
<1>4. CASE job.op \in Sealing
  <2> DEFINE alone == Sealed(job.pass, job.salt, <<calls, Current>>, Content)
             batch == SealedInBatch(MasterKey(job.pass, job.salt), job.salt,
                                    <<calls, Current>>, Content)
  <2>1. Output = alone \/ Output = batch
    BY <1>4 DEF Output, Seals
  <2>2. Readable(alone) /\ WellSealed(alone) /\ Readable(batch) /\ WellSealed(batch)
    BY SealedWell
  <2>3. /\ alone.nonce = <<calls, Current>> /\ batch.nonce = <<calls, Current>>
        /\ alone.content = Content /\ batch.content = Content
    BY DEF Sealed, SealedInBatch
  <2> HIDE DEF alone, batch
  <2>4. /\ Readable(Output) /\ WellSealed(Output) /\ Output.content = Content
        /\ Output.nonce = <<calls, Current>>
    BY <2>1, <2>2, <2>3
  <2>5. job.op = "encrypt" => Content = txt[Current]
    BY DEF Content
  <2>6. job.op = "export" => DOMAIN Content \subseteq Entries
    BY DEF Content, Payloads, Entries
  <2>7. job.op # "decrypt"
    BY <1>4 DEF Sealing
  <2> QED BY <2>4, <2>5, <2>6, <2>7 DEF Writable
<1> QED BY <1>2, <1>3, <1>4 DEF Sealing, Directory

LEMMA WrittenIsFinite == IsFiniteSet(WrittenNow)
<1>1. WrittenNow \subseteq Files
  BY DEF WrittenNow
<1> QED BY <1>1, FilesAssumption, FS_Subset

LEMMA OneMoreWritten ==
  ASSUME PackagesInv, job.step = "store", job.op = "encrypt",
         WrittenNow' = WrittenNow \cup {Current}
  PROVE  /\ Cardinality(WrittenNow') + Cardinality(job.lost)
                = job.answer.succeeded + 1
         /\ \A n \in WrittenNow' : \E i \in 1..job.at : n = job.plan[i]
<1>1. Good
  BY DEF PackagesInv, Runs
<1>2. /\ job.at \in Nat /\ Past = job.at - 1 /\ job.at \in 1..Len(job.plan)
      /\ Current \notin WrittenNow
  BY CurrentIsNew
<1>3. /\ Cardinality(WrittenNow) + Cardinality(job.lost) = job.answer.succeeded
      /\ \A n \in WrittenNow : \E i \in 1..Past : n = job.plan[i]
  BY <1>1 DEF Good, DoneFits, Counted
<1>4. IsFiniteSet(WrittenNow) /\ IsFiniteSet(job.lost)
  BY <1>1, WrittenIsFinite DEF Good, JobFits
<1>5. Cardinality(WrittenNow \cup {Current}) = Cardinality(WrittenNow) + 1
  <2> HIDE DEF Current, WrittenNow
  <2> QED BY <1>2, <1>4, FS_AddElement
<1> DEFINE written == Cardinality(WrittenNow)
           lost == Cardinality(job.lost)
<1>6. written \in Nat /\ lost \in Nat
  BY <1>4, FS_CardinalityType
<1>7. Cardinality(WrittenNow') + lost = job.answer.succeeded + 1
  <2>1. written + lost = job.answer.succeeded
    BY <1>3
  <2>2. Cardinality(WrittenNow') = written + 1
    BY <1>5
  <2> HIDE DEF written, lost
  <2> QED BY <1>6, <2>1, <2>2
<1>8. \A i \in 1..Past : i \in 1..job.at
  BY <1>2
<1>9. Current = job.plan[job.at] /\ job.at \in 1..job.at
  BY <1>2 DEF Current
<1> QED BY <1>3, <1>8, <1>9, <1>7

\* One that is lost is counted as if it were written.
LEMMA OneMoreLost ==
  ASSUME PackagesInv, job.step = "store", job.op \in Directory
  PROVE  /\ IsFiniteSet(job.lost \cup {Current})
         /\ \A n \in job.lost \cup {Current} : \E i \in 1..job.at : n = job.plan[i]
         /\ job.op = "encrypt" =>
              Cardinality(WrittenNow) + Cardinality(job.lost \cup {Current})
                = job.answer.succeeded + 1
<1>1. Good
  BY DEF PackagesInv, Runs
<1>2. /\ job.at \in Nat /\ Past = job.at - 1 /\ job.at \in 1..Len(job.plan)
      /\ \A i \in 1..Past : job.plan[i] # Current
  BY CurrentIsNew
<1>3. /\ \A n \in job.lost : \E i \in 1..Past : n = job.plan[i]
      /\ job.op = "encrypt" =>
           Cardinality(WrittenNow) + Cardinality(job.lost) = job.answer.succeeded
  BY <1>1 DEF Good, DoneFits, Counted
<1>4. IsFiniteSet(WrittenNow) /\ IsFiniteSet(job.lost)
  BY <1>1, WrittenIsFinite DEF Good, JobFits
<1>5. Current \notin job.lost
  BY <1>2, <1>3
<1>6. /\ IsFiniteSet(job.lost \cup {Current})
      /\ Cardinality(job.lost \cup {Current}) = Cardinality(job.lost) + 1
  <2> HIDE DEF Current
  <2> QED BY <1>4, <1>5, FS_AddElement
<1>7. \A n \in job.lost \cup {Current} : \E i \in 1..job.at : n = job.plan[i]
  <2>1. \A i \in 1..Past : i \in 1..job.at
    BY <1>2
  <2>2. Current = job.plan[job.at] /\ job.at \in 1..job.at
    BY <1>2 DEF Current
  <2> QED BY <1>3, <2>1, <2>2
<1> DEFINE written == Cardinality(WrittenNow)
           lost == Cardinality(job.lost)
<1>8. written \in Nat /\ lost \in Nat
  BY <1>4, FS_CardinalityType
<1>9. job.op = "encrypt" => written + (lost + 1) = job.answer.succeeded + 1
  <2>1. job.op = "encrypt" => written + lost = job.answer.succeeded
    BY <1>3
  <2> HIDE DEF written, lost
  <2> QED BY <1>8, <2>1
<1> QED BY <1>6, <1>7, <1>9

\* What is stored now leaves the files before alone.
LEMMA PastStays ==
  ASSUME PackagesInv, job.step = "store", job.op \in Directory,
         job.answer.failed = 0, NEW i \in 1..Past,
         job.op = "encrypt" =>
           txt' = txt /\ \A n \in Files \ {Current} : pkg'[n] = pkg[n],
         job.op = "decrypt" =>
           pkg' = pkg /\ \A n \in Files \ {Current} : txt'[n] = txt[n]
  PROVE  \/ job.plan[i] \in job.lost
         \/ Readable(pkg'[job.plan[i]])
              /\ pkg'[job.plan[i]].content = txt'[job.plan[i]]
<1> DEFINE n == job.plan[i]
<1>1. Good
  BY DEF PackagesInv, Runs
<1>2. /\ job.at \in Nat /\ Past = job.at - 1 /\ job.at \in 1..Len(job.plan)
      /\ \A k \in 1..Past : job.plan[k] # Current
  BY CurrentIsNew
<1>3. n \in Files \ {Current}
  <2>1. i \in 1..Len(job.plan)
    BY <1>1, <1>2 DEF Good, JobFits
  <2> QED BY <1>1, <1>2, <2>1 DEF Good, JobFits
<1>4. n \in job.lost \/ (Readable(pkg[n]) /\ pkg[n].content = txt[n])
  BY <1>1 DEF Good, DoneFits
<1> HIDE DEF n
<1>5. pkg'[n] = pkg[n] /\ txt'[n] = txt[n]
  BY <1>3 DEF Directory
<1> QED BY <1>4, <1>5 DEF n

\* The two ways a file is stored: whole, or with its end lost.
Stores(file, lost) ==
  \/ file = Output /\ lost = job.lost
  \/ file = TornOutput /\ lost = job.lost \cup {Current}

LEMMA TornIsUnreadable ==
  ASSUME PackagesInv, job.step = "store"
  PROVE  /\ Writable(TornOutput)
         /\ job.op # "decrypt" => ~Readable(TornOutput)
<1>1. job.op \in Sealing \cup Directory
  BY DEF PackagesInv, Runs, Good, StepFits
<1>2. ~Readable(TornTracer)
  BY DEF Readable, TornTracer
<1>3. job.op # "decrypt" => ~Readable(TornOutput)
  BY <1>1, <1>2 DEF TornOutput, Seals, Sealing, Directory
<1> QED BY <1>3 DEF Writable

\* The file the operation was at is done with.
LEMMA StoredDone ==
  ASSUME PackagesInv, NEW file, NEW lost, Stored(file, lost), Stores(file, lost),
         job.op \in Directory
  PROVE  /\ DiskFits' /\ root' = root /\ pack' = pack
         /\ IsFiniteSet(lost)
         /\ \A n \in lost : \E i \in 1..job.at : n = job.plan[i]
         /\ job.op = "encrypt" =>
              /\ Cardinality(WrittenNow') + Cardinality(lost)
                   = job.answer.succeeded + 1
              /\ Cardinality(WrittenNow') + Cardinality(job.lost)
                   \in {job.answer.succeeded, job.answer.succeeded + 1}
              /\ \A n \in WrittenNow' : \E i \in 1..job.at : n = job.plan[i]
         /\ job.answer.failed = 0 =>
              \A i \in 1..job.at :
                 LET n == job.plan[i]
                 IN  n \in lost \/ (Readable(pkg'[n]) /\ pkg'[n].content = txt'[n])
<1>1. job.step = "store" /\ Holding(file) /\ calls' = calls
  BY DEF Stored
<1>2. Good
  BY <1>1 DEF PackagesInv, Runs
<1>3. /\ job.at \in Nat /\ Past = job.at - 1 /\ job.at \in 1..Len(job.plan)
      /\ Current \in Files
      /\ \A i \in 1..Past : job.plan[i] # Current
  BY <1>1, CurrentIsNew
<1>4. /\ Writable(Output)
      /\ job.op = "encrypt" => Readable(Output) /\ Output.content = txt[Current]
      /\ job.op = "decrypt" => Readable(pkg[Current]) /\ Output = pkg[Current].content
  BY <1>1, OutputWritable
<1>5. Writable(TornOutput) /\ (job.op # "decrypt" => ~Readable(TornOutput))
  BY <1>1, TornIsUnreadable
<1>6. Writable(file)
  BY <1>4, <1>5 DEF Stores
<1>7. /\ DiskFits' /\ root' = root /\ pack' = pack
      /\ job.op = "encrypt" =>
           /\ txt' = txt /\ pkg'[Current] = file
           /\ \A n \in Files \ {Current} : pkg'[n] = pkg[n]
           /\ WrittenNow' = IF Readable(file) THEN WrittenNow \cup {Current}
                            ELSE WrittenNow
      /\ job.op = "decrypt" =>
           /\ pkg' = pkg /\ txt'[Current] = file
           /\ \A n \in Files \ {Current} : txt'[n] = txt[n]
  BY <1>1, <1>6, HoldingDoes
<1>8. /\ IsFiniteSet(job.lost)
      /\ \A n \in job.lost : \E i \in 1..Past : n = job.plan[i]
      /\ job.op = "encrypt" =>
           /\ Cardinality(WrittenNow) + Cardinality(job.lost) = job.answer.succeeded
           /\ \A n \in WrittenNow : \E i \in 1..Past : n = job.plan[i]
  BY <1>2 DEF Good, JobFits, DoneFits, Counted
<1>9. \A i \in 1..Past : i \in 1..job.at
  BY <1>3
<1>10. CASE file = Output /\ lost = job.lost
  <2>1. job.op = "encrypt" => WrittenNow' = WrittenNow \cup {Current}
    BY <1>4, <1>7, <1>10
  <2>2. job.op = "encrypt" =>
          /\ Cardinality(WrittenNow') + Cardinality(job.lost)
               = job.answer.succeeded + 1
          /\ \A n \in WrittenNow' : \E i \in 1..job.at : n = job.plan[i]
    BY <1>1, <2>1, OneMoreWritten
  <2>3. \A n \in lost : \E i \in 1..job.at : n = job.plan[i]
    BY <1>8, <1>9, <1>10
  <2>4. ASSUME job.answer.failed = 0, NEW i \in 1..job.at
        PROVE  \/ job.plan[i] \in lost
               \/ Readable(pkg'[job.plan[i]])
                    /\ pkg'[job.plan[i]].content = txt'[job.plan[i]]
    <3>1. CASE i = job.at
      <4>1. job.plan[i] = Current
        BY <3>1 DEF Current
      <4>2. Readable(pkg'[Current]) /\ pkg'[Current].content = txt'[Current]
        BY <1>4, <1>7, <1>10 DEF Directory
      <4> QED BY <4>1, <4>2
    <3>2. CASE i # job.at
      <4>1. i \in 1..Past
        BY <1>3, <3>2
      <4> QED BY <1>1, <1>7, <1>10, <2>4, <4>1, PastStays
    <3> QED BY <3>1, <3>2
  <2> QED BY <1>7, <1>8, <1>10, <2>2, <2>3, <2>4
<1>11. CASE file = TornOutput /\ lost = job.lost \cup {Current}
  <2>1. job.op = "encrypt" => WrittenNow' = WrittenNow
    BY <1>5, <1>7, <1>11
  <2>2. /\ IsFiniteSet(lost)
        /\ \A n \in lost : \E i \in 1..job.at : n = job.plan[i]
        /\ job.op = "encrypt" =>
             Cardinality(WrittenNow) + Cardinality(lost) = job.answer.succeeded + 1
    BY <1>1, <1>11, OneMoreLost
  <2>3. job.op = "encrypt" =>
          \A n \in WrittenNow' : \E i \in 1..job.at : n = job.plan[i]
    BY <1>8, <1>9, <2>1
  <2>4. job.op = "encrypt" =>
          Cardinality(WrittenNow') + Cardinality(job.lost) = job.answer.succeeded
    BY <1>8, <2>1
  <2>5. ASSUME job.answer.failed = 0, NEW i \in 1..job.at
        PROVE  \/ job.plan[i] \in lost
               \/ Readable(pkg'[job.plan[i]])
                    /\ pkg'[job.plan[i]].content = txt'[job.plan[i]]
    <3>1. CASE i = job.at
      BY <1>11, <3>1 DEF Current
    <3>2. CASE i # job.at
      <4>1. i \in 1..Past
        BY <1>3, <3>2
      <4> QED BY <1>1, <1>7, <1>11, <2>5, <4>1, PastStays
    <3> QED BY <3>1, <3>2
  <2> QED BY <1>7, <2>1, <2>2, <2>3, <2>4, <2>5
<1> QED BY <1>10, <1>11 DEF Stores

LEMMA FinishedNumbers ==
  ASSUME PackagesInv, job.step = "store"
  PROVE  /\ FileFinished(rep).total = rep.total
         /\ FileFinished(rep).done <= PlannedUpTo(job.plan)[job.at]
         /\ Ahead(FileFinished(rep))
<1> DEFINE next == FileFinished(rep)
           top == PlannedUpTo(job.plan)[job.at]
<1>1. job.step \in InFile
  BY DEF InFile, Opened
<1>2. Fits /\ Runs /\ Good /\ job.at >= 1 /\ job.step # "entries"
  BY <1>1, GoodInside
<1>3. ToldFits /\ ProgressFits /\ JobFits
  BY <1>2 DEF Fits, Good
<1>4. next.total = rep.total /\ next.done = rep.base + rep.fileTotal
  <2>1. rep = [phase |-> rep.phase, total |-> rep.total, base |-> rep.base,
               fileTotal |-> rep.fileTotal, done |-> rep.done]
    BY <1>3 DEF ToldFits, Reporter
  <2>2. next = [phase |-> rep.phase, total |-> rep.total, base |-> rep.base,
                fileTotal |-> rep.fileTotal, done |-> rep.base + rep.fileTotal]
    BY <2>1, ReporterMoves
  <2> HIDE DEF next
  <2> QED BY <2>2
<1>5. rep.base + rep.fileTotal <= top /\ top <= PlannedUpTo(job.plan)[Len(job.plan)]
  BY <1>1, <1>2, ReporterAhead
<1>6. /\ rep.total = PlannedUpTo(job.plan)[Len(job.plan)]
      /\ rep.done <= rep.base + rep.fileTotal /\ seen.done <= rep.done
      /\ rep.base \in Nat /\ rep.fileTotal \in Nat /\ rep.done \in Nat
      /\ rep.total \in Nat /\ seen.done \in Nat
  BY <1>1, <1>3 DEF ProgressFits, ToldFits, Reporter
<1>7. top \in Nat
  <2>1. job.plan \in Seq(Entries) /\ job.at \in 0..Len(job.plan)
    BY <1>3 DEF JobFits
  <2> QED BY <2>1, SumsGrow
<1> DEFINE whole == rep.base + rep.fileTotal
<1>8. whole <= top /\ top <= rep.total /\ rep.done <= whole /\ whole \in Nat
      /\ next.done = whole
  BY <1>4, <1>5, <1>6
<1> HIDE DEF next, top, whole
<1>9. seen.done <= whole /\ whole <= rep.total
  BY <1>6, <1>7, <1>8
<1> QED BY <1>4, <1>8, <1>9 DEF Ahead, next, top

\* The operation goes on with the next file.
LEMMA AfterStore ==
  ASSUME PackagesInv, job.step = "store", DiskFits', UNCHANGED <<root, calls>>,
         job.op \in Directory => pack' = pack,
         job'.answer = [status |-> job'.answer.status, failed |-> job'.answer.failed,
                        succeeded |-> job'.answer.succeeded],
         job'.answer.failed \in Nat, job'.answer.succeeded \in Nat,
         IsFiniteSet(job'.lost), Goes({"answer", "lost"}, "select"), DoneFits',
         NEW next, Tells(next), Ahead(next), next.total = rep.total,
         next.done <= PlannedUpTo(job.plan)[job.at]
  PROVE  PackagesInv' /\ Growing
<1>1. job.step \in InFile
  BY DEF InFile, Opened
<1>2. Fits /\ Runs /\ Good /\ job.at >= 1
  BY <1>1, GoodInside
<1>3. ToldFits /\ ProgressFits /\ JobFits /\ StepFits /\ KeysFit /\ RootFits /\ TokenFits
  BY <1>2 DEF Fits, Good
<1>4. /\ job' = [f \in Fields |-> job'[f]] /\ job'.step = "select"
      /\ job'.op = job.op /\ job'.at = job.at /\ job'.plan = job.plan
      /\ job'.goOn = job.goOn /\ job'.length = job.length /\ job'.read = job.read
      /\ job'.keys = job.keys /\ job'.pass = job.pass /\ job'.error = job.error
  BY DEF Goes, Fields
<1>5. JobFits'
  <2> DEFINE b == job'.answer
  <2>1. /\ b = [status |-> b.status, failed |-> b.failed, succeeded |-> b.succeeded]
        /\ b.failed \in Nat /\ b.succeeded \in Nat
    OBVIOUS
  <2> HIDE DEF b
  <2>2. job'.step \in Steps /\ job'.answer = b
    BY <1>4 DEF Steps, b
  <2> QED BY <1>3, <1>4, <2>1, <2>2, ZenonT(30) DEF JobFits
<1>6. job.op # "unpack"
  BY <1>3 DEF StepFits, Sealing, Directory
<1>7. StepFits' /\ SourceFits' /\ KeysFit' /\ RootFits' /\ TokenFits'
  BY <1>3, <1>4, <1>6 DEF StepFits, SourceFits, KeysFit, RootFits, TokenFits,
                          InFile, Opened, Tells
<1>8. ToldFits' /\ Growing /\ seen'.done <= rep'.done
  BY <1>3, ToldStays, TellsGrowing DEF ProgressFits
<1>9. ProgressFits'
  <2>1. seen'.total # 0 => seen'.done <= seen'.total
    BY <1>8 DEF Growing
  <2>2. rep'.total = rep.total /\ rep'.done = next.done
    BY DEF Tells
  <2>3. rep.total = PlannedUpTo(job.plan)[Len(job.plan)]
    BY <1>3 DEF ProgressFits
  <2> QED BY <1>4, <1>8, <2>1, <2>2, <2>3 DEF ProgressFits, InFile, Opened
<1>10. AnswerMatchesDisk' /\ UnpackedIsPackage'
  BY <1>4 DEF AnswerMatchesDisk, UnpackedIsPackage
<1> QED BY <1>5, <1>7, <1>8, <1>9, <1>10 DEF PackagesInv, Good

LEMMA StoredKeeps ==
  ASSUME PackagesInv, NEW file, NEW lost, Stored(file, lost), Stores(file, lost)
  PROVE  PackagesInv' /\ Growing
<1> DEFINE next == FileFinished(rep)
           a == job.answer
<1>1. job.step = "store" /\ job.step \in InFile
  BY DEF Stored, InFile, Opened
<1>2. Fits /\ Runs /\ Good /\ job.at >= 1 /\ job.step # "entries"
  BY <1>1, GoodInside
<1>3. /\ Holding(file) /\ calls' = calls
      /\ \/ /\ job.op \in Directory /\ Tells(next)
            /\ \/ Stops /\ job'.answer.status = "cancelled"
               \/ /\ Goes({"answer", "lost"}, "select") /\ job'.lost = lost
                  /\ job'.answer = [a EXCEPT !.succeeded = @ + 1]
         \/ /\ job.op \notin Directory /\ Tells(rep)
            /\ Goes({"lost"}, "select") /\ job'.lost = lost
  BY <1>2, StoredDoes
<1>4. /\ next.total = rep.total /\ next.done <= PlannedUpTo(job.plan)[job.at]
      /\ Ahead(next)
  BY <1>1, FinishedNumbers
<1>5. ToldFits /\ ProgressFits /\ JobFits
  BY <1>2 DEF Fits, Good
<1>6. /\ a = [status |-> a.status, failed |-> a.failed, succeeded |-> a.succeeded]
      /\ a.failed \in Nat /\ a.succeeded \in Nat /\ IsFiniteSet(job.lost)
  BY <1>5 DEF JobFits
<1> HIDE DEF next, a
<1>7. CASE /\ job.op \in Directory /\ Tells(next)
           /\ Stops /\ job'.answer.status = "cancelled"
  <2>1. DiskFits' /\ (job.op = "encrypt" =>
                        Cardinality(WrittenNow') + Cardinality(job.lost)
                          \in {job.answer.succeeded, job.answer.succeeded + 1})
    BY <1>7, StoredDone
  <2>2. ToldFits' /\ Growing
    BY <1>4, <1>5, <1>7, ToldStays, TellsGrowing DEF ProgressFits
  <2>3. AnswerMatchesDisk' /\ UnpackedIsPackage' /\ ~Runs'
    BY <1>7, <2>1 DEF Stops, AnswerMatchesDisk, UnpackedIsPackage, Runs
  <2> QED BY <2>1, <2>2, <2>3 DEF PackagesInv
<1>8. CASE /\ job.op \in Directory /\ Tells(next)
           /\ Goes({"answer", "lost"}, "select") /\ job'.lost = lost
           /\ job'.answer = [a EXCEPT !.succeeded = @ + 1]
  <2> DEFINE b == job'.answer
  <2>1. b = [status |-> a.status, failed |-> a.failed, succeeded |-> a.succeeded + 1]
    BY <1>6, <1>8
  <2> HIDE DEF b
  <2>2. /\ b = [status |-> b.status, failed |-> b.failed, succeeded |-> b.succeeded]
        /\ b.failed \in Nat /\ b.succeeded \in Nat
        /\ b.failed = a.failed /\ b.succeeded = a.succeeded + 1
    BY <1>6, <2>1
  <2>3. /\ job'.step = "select" /\ job'.op = job.op /\ job'.at = job.at
        /\ job'.plan = job.plan
    BY <1>8 DEF Goes, Fields
  <2>4. /\ DiskFits' /\ root' = root /\ pack' = pack
        /\ IsFiniteSet(lost)
        /\ \A n \in lost : \E i \in 1..job.at : n = job.plan[i]
        /\ job.op = "encrypt" =>
             /\ Cardinality(WrittenNow') + Cardinality(lost) = a.succeeded + 1
             /\ \A n \in WrittenNow' : \E i \in 1..job.at : n = job.plan[i]
        /\ a.failed = 0 =>
             \A i \in 1..job.at :
                LET n == job.plan[i]
                IN  n \in lost \/ (Readable(pkg'[n]) /\ pkg'[n].content = txt'[n])
    BY <1>8, StoredDone DEF a
  <2>5. Past' = job.at
    BY <2>3 DEF Past, InFile, Opened
  <2>6. DoneFits'
    BY <1>8, <2>2, <2>3, <2>4, <2>5 DEF DoneFits, Counted, b
  <2> QED BY <1>1, <1>3, <1>4, <1>8, <2>2, <2>4, <2>6, AfterStore DEF b
<1>9. CASE /\ job.op \notin Directory /\ Tells(rep)
           /\ Goes({"lost"}, "select") /\ job'.lost = lost
  <2>1. /\ job'.op = job.op /\ job'.answer = a
        /\ Goes({"answer", "lost"}, "select")
    BY <1>9, GoesMore DEF Goes, Fields, a
  <2>2. DiskFits' /\ root' = root
    BY <1>1, <1>3, HoldingDoes, OutputWritable, TornIsUnreadable DEF Stores
  <2>5. IsFiniteSet(job'.lost)
    <3>1. IsFiniteSet(job.lost \cup {Current})
      BY <1>6, FS_AddElement
    <3> QED BY <1>6, <1>9, <3>1 DEF Stores
  <2>3. DoneFits'
    BY <1>9, <2>1 DEF DoneFits, Directory
  <2>4. Ahead(rep) /\ rep.done <= PlannedUpTo(job.plan)[job.at]
    BY <1>1, <1>2, ReporterAhead
  <2> QED BY <1>1, <1>3, <1>6, <1>9, <2>1, <2>2, <2>3, <2>4, <2>5, AfterStore
<1> QED BY <1>3, <1>7, <1>8, <1>9

LEMMA StoreKeeps ==
  ASSUME PackagesInv, Store \/ StoreTorn
  PROVE  PackagesInv' /\ Growing
<1>1. CASE Store
  <2> DEFINE file == Output
             lost == job.lost
  <2>1. Stored(file, lost) /\ Stores(file, lost)
    BY <1>1 DEF Store, Stores
  <2> HIDE DEF file, lost
  <2> QED BY <2>1, StoredKeeps
<1>2. CASE StoreTorn
  <2> DEFINE file == TornOutput
             lost == job.lost \cup {Current}
  <2>1. Stored(file, lost) /\ Stores(file, lost)
    BY <1>2 DEF StoreTorn, Stores
  <2> HIDE DEF file, lost
  <2> QED BY <2>1, StoredKeeps
<1> QED BY <1>1, <1>2

LEMMA StoreFailsKeeps ==
  ASSUME PackagesInv, StoreFails
  PROVE  PackagesInv' /\ Growing
<1> DEFINE file == TornOutput
<1>1. job.step = "store" /\ job.step \in InFile
  BY DEF StoreFails, InFile, Opened
<1>2. Fits /\ Runs /\ Good /\ job.at >= 1 /\ job.step # "entries"
  BY <1>1, GoodInside
<1>3. /\ calls' = calls /\ Tells(rep) /\ (Stops \/ Counts)
      /\ UNCHANGED disk \/ Holding(file)
  BY <1>2, StoreFailsDoes
<1>4. DiskFits /\ ToldFits /\ ProgressFits /\ JobFits /\ Ahead(rep)
  BY <1>1, <1>2, ReporterAhead DEF Fits, Good
<1>5. /\ DiskFits' /\ root' = root /\ WrittenNow' = WrittenNow
      /\ job.op \in Directory => pack' = pack
  <2>1. CASE UNCHANGED disk
    BY <1>3, <1>4, <2>1, DiskStays DEF disk, Steady, WrittenNow
  <2>2. CASE Holding(file)
    <3>1. Writable(file) /\ (job.op # "decrypt" => ~Readable(file))
      BY <1>1, TornIsUnreadable
    <3> HIDE DEF file
    <3> QED BY <1>1, <1>3, <2>2, <3>1, HoldingDoes
  <2> QED BY <1>3, <2>1, <2>2
<1>6. CASE Stops
  <2>1. ToldFits' /\ Growing
    BY <1>3, <1>4, ToldStays, TellsGrowing DEF ProgressFits
  <2>2. job.op = "encrypt" => Counted = job.answer.succeeded
    BY <1>2 DEF Good, DoneFits
  <2>3. AnswerMatchesDisk' /\ UnpackedIsPackage' /\ ~Runs'
    <3> HIDE DEF file
    <3>1. /\ ~Runs' /\ job'.answer.status # "ok" /\ job'.op = job.op
          /\ job'.answer.succeeded = job.answer.succeeded
          /\ job'.lost = job.lost
      BY <1>6 DEF Stops, Runs
    <3> QED BY <1>5, <2>2, <3>1 DEF AnswerMatchesDisk, UnpackedIsPackage, Counted
  <2> QED BY <1>5, <2>1, <2>3 DEF PackagesInv
<1>7. CASE Counts
  <2>1. job.op \in Directory
    BY <1>4, <1>7 DEF Counts, JobFits
  <2> HIDE DEF file
  <2>2. UNCHANGED <<pack, root, calls>>
    BY <1>3, <1>5, <2>1
  <2> QED BY <1>1, <1>3, <1>5, <1>7, <2>2, CountsKeeps
<1> QED BY <1>3, <1>6, <1>7

-----------------------------------------------------------------------------
(* Unpacking, beginning, and the cancel from another thread.               *)

LEMMA UnpackEntryKeeps ==
  ASSUME PackagesInv, UnpackEntry
  PROVE  PackagesInv' /\ Growing
<1>1. job.step = "entries" /\ Runs /\ UNCHANGED <<rep, seen, token, calls>>
  BY DEF UnpackEntry, Runs, told
<1>2. DiskFits /\ ToldFits /\ Good
  BY <1>1 DEF PackagesInv
<1>3. job.op = "unpack" /\ Readable(pack)
  BY <1>1, <1>2 DEF Good, StepFits, SourceFits
<1>4. DOMAIN pack.content \subseteq Entries /\ root = [e \in Entries |-> root[e]]
  BY <1>2, <1>3 DEF DiskFits
<1>5. /\ ToldFits' /\ Growing
      /\ seen.done <= rep.done /\ (seen.total # 0 => seen.done <= seen.total)
  BY <1>1, <1>2 DEF ToldFits, Reporter, Growing, Good, ProgressFits
<1>6. /\ \A e \in job.lost : e \in DOMAIN pack.content /\ root[e] = Torn
      /\ \A e \in Entries \ job.lost :
           \/ root[e] = NoFile
           \/ e \in DOMAIN pack.content /\ root[e] = pack.content[e]
  BY <1>2, <1>3 DEF Good, RootFits
<1>7. CASE Unwritten = {}
  <2>1. job' = Ended("ok") /\ UNCHANGED <<txt, pkg, pack, root>>
    BY <1>7 DEF UnpackEntry, disk
  <2>2. job'.step = "idle" /\ job'.op = job.op /\ job'.lost = job.lost
    BY <1>2, <2>1, WellEnded DEF Good
  <2>3. \A e \in DOMAIN pack.content \ job.lost : root[e] = pack.content[e]
    BY <1>7 DEF Unwritten
  <2>4. /\ job.lost \subseteq DOMAIN pack.content
        /\ root = [e \in Entries |-> IF e \in job.lost THEN Torn
                                     ELSE IF e \in DOMAIN pack.content
                                     THEN pack.content[e] ELSE NoFile]
    BY <1>4, <1>6, <2>3
  <2>5. UnpackedIsPackage'
    BY <2>1, <2>2, <2>4 DEF UnpackedIsPackage
  <2>6. AnswerMatchesDisk' /\ ~Runs'
    BY <1>3, <2>2 DEF AnswerMatchesDisk, Directory, Runs
  <2>7. DiskFits'
    BY <1>1, <1>2, <2>1 DEF DiskFits
  <2> QED BY <1>5, <2>5, <2>6, <2>7 DEF PackagesInv
<1>8. CASE Unwritten # {}
  <2>1. PICK e \in Unwritten : root' = [root EXCEPT ![e] = pack.content[e]]
    BY <1>8 DEF UnpackEntry
  <2>2. UNCHANGED <<txt, pkg, pack, job>>
    BY <1>8 DEF UnpackEntry
  <2>3. e \in DOMAIN pack.content /\ e \in Entries /\ e \notin job.lost
    BY <1>4 DEF Unwritten
  <2>4. root' = [f \in Entries |-> root'[f]]
        /\ \A f \in Entries : root'[f] = IF f = e THEN pack.content[e] ELSE root[f]
    BY <1>4, <2>1, <2>3
  <2>5. DiskFits'
    BY <1>1, <1>2, <2>2, <2>4 DEF DiskFits
  <2>6. RootFits'
    BY <1>1, <1>4, <1>6, <2>2, <2>3, <2>4 DEF RootFits
  <2>7. JobFits' /\ StepFits' /\ KeysFit'
    BY <1>2, <2>2 DEF Good, JobFits, StepFits, KeysFit
  <2>8. SourceFits'
    BY <1>3, <2>2, <1>1 DEF SourceFits, Opened
  <2>9. DoneFits' /\ TokenFits'
    BY <1>1, <1>2, <1>3, <2>2 DEF DoneFits, Counted, Directory, Good, TokenFits
  <2>10. ProgressFits'
    BY <1>1, <1>2, <2>2 DEF Good, ProgressFits
  <2>11. AnswerMatchesDisk' /\ UnpackedIsPackage'
    BY <1>1, <2>2 DEF AnswerMatchesDisk, UnpackedIsPackage
  <2> QED BY <1>5, <2>5, <2>6, <2>7, <2>8, <2>9, <2>10, <2>11 DEF PackagesInv, Good
<1> QED BY <1>7, <1>8

LEMMA UnpackTornKeeps ==
  ASSUME PackagesInv, UnpackTorn
  PROVE  PackagesInv' /\ Growing
<1>1. /\ job.step = "entries" /\ Runs
      /\ UNCHANGED <<txt, pkg, pack, rep, seen, token, calls>>
  BY DEF UnpackTorn, Runs, told
<1>2. DiskFits /\ ToldFits /\ Good
  BY <1>1 DEF PackagesInv
<1>3. job.op = "unpack" /\ Readable(pack)
  BY <1>1, <1>2 DEF Good, StepFits, SourceFits
<1>4. DOMAIN pack.content \subseteq Entries /\ root = [e \in Entries |-> root[e]]
  BY <1>2, <1>3 DEF DiskFits
<1>5. /\ ToldFits' /\ Growing
      /\ seen.done <= rep.done /\ (seen.total # 0 => seen.done <= seen.total)
  BY <1>1, <1>2 DEF ToldFits, Reporter, Growing, Good, ProgressFits
<1>6. /\ \A e \in job.lost : e \in DOMAIN pack.content /\ root[e] = Torn
      /\ \A e \in Entries \ job.lost :
           \/ root[e] = NoFile
           \/ e \in DOMAIN pack.content /\ root[e] = pack.content[e]
  BY <1>2, <1>3 DEF Good, RootFits
<1>7. PICK e \in Unwritten : /\ root' = [root EXCEPT ![e] = Torn]
                             /\ job' = [job EXCEPT !.lost = @ \cup {e}]
  BY DEF UnpackTorn
<1>8. e \in DOMAIN pack.content /\ e \in Entries
  BY <1>4 DEF Unwritten
<1>9. root' = [f \in Entries |-> root'[f]]
      /\ \A f \in Entries : root'[f] = IF f = e THEN Torn ELSE root[f]
  BY <1>4, <1>7, <1>8
<1>10. job = [f \in Fields |-> job[f]]
  BY <1>2 DEF Good, JobFits
<1>11. /\ Goes({"lost"}, "entries") /\ job'.lost = job.lost \cup {e}
  BY <1>1, <1>7, <1>10 DEF Goes, Fields
<1>12. /\ job'.step = job.step /\ job'.op = job.op /\ job'.goOn = job.goOn
       /\ job'.pass = job.pass /\ job'.plan = job.plan /\ job'.at = job.at
       /\ job'.keys = job.keys /\ job'.length = job.length /\ job'.read = job.read
       /\ job'.error = job.error /\ job'.answer = job.answer
       /\ job' = [f \in Fields |-> job'[f]]
  BY <1>1, <1>11 DEF Goes, Fields
<1>13. DiskFits'
  BY <1>1, <1>2, <1>9 DEF DiskFits
<1>14. IsFiniteSet(job'.lost)
  <2>1. IsFiniteSet(job.lost)
    BY <1>2 DEF Good, JobFits
  <2>2. IsFiniteSet(job.lost \cup {e})
    BY <2>1, FS_AddElement
  <2> QED BY <1>11, <2>2
<1>15. JobFits'
  BY <1>2, <1>12, <1>14 DEF Good, JobFits
<1>16. StepFits' /\ KeysFit'
  BY <1>2, <1>12 DEF Good, StepFits, KeysFit
<1>17. SourceFits'
  BY <1>1, <1>3, <1>12 DEF SourceFits, Opened
<1>18. RootFits'
  BY <1>1, <1>4, <1>6, <1>8, <1>9, <1>11, <1>12 DEF RootFits
<1>19. DoneFits' /\ TokenFits'
  BY <1>1, <1>2, <1>3, <1>12 DEF DoneFits, Directory, Good, TokenFits
<1>20. ProgressFits'
  BY <1>1, <1>2, <1>12 DEF Good, ProgressFits
<1>21. AnswerMatchesDisk' /\ UnpackedIsPackage'
  BY <1>1, <1>12 DEF AnswerMatchesDisk, UnpackedIsPackage
<1> QED BY <1>5, <1>13, <1>15, <1>16, <1>17, <1>18, <1>19, <1>20, <1>21
        DEF PackagesInv, Good

LEMMA UnpackFailsKeeps ==
  ASSUME PackagesInv, UnpackFails
  PROVE  PackagesInv' /\ Growing
<1>1. /\ job.step = "entries" /\ Runs /\ UNCHANGED <<rep, seen, token, calls>>
      /\ UNCHANGED <<txt, pkg, pack>> /\ job' = Ended("write_failed")
      /\ root' = root \/ \E e \in Unwritten : root' = [root EXCEPT ![e] = Torn]
  BY DEF UnpackFails, Runs, told
<1>2. DiskFits /\ ToldFits /\ Good
  BY <1>1 DEF PackagesInv
<1>3. job.op = "unpack"
  BY <1>1, <1>2 DEF Good, StepFits
<1>4. Stops
  BY <1>1, <1>2, EndedStops DEF Good
<1>5. ToldFits' /\ Growing
  BY <1>1, <1>2 DEF ToldFits, Reporter, Growing, Good, ProgressFits
<1>6. root' = [e \in Entries |-> root'[e]]
  BY <1>1, <1>2 DEF DiskFits
<1>7. DiskFits'
  BY <1>1, <1>2, <1>6 DEF DiskFits
<1>8. AnswerMatchesDisk' /\ UnpackedIsPackage' /\ ~Runs'
  BY <1>3, <1>4 DEF Stops, AnswerMatchesDisk, UnpackedIsPackage, Directory, Runs
<1> QED BY <1>5, <1>7, <1>8 DEF PackagesInv

LEMMA RequestCancelKeeps ==
  ASSUME PackagesInv, RequestCancel
  PROVE  PackagesInv' /\ Growing
<1>1. /\ Runs /\ job.op \in Directory /\ token'
      /\ job' = [job EXCEPT !.asked = job.step]
      /\ UNCHANGED <<txt, pkg, pack, root, rep, seen, calls>>
  BY DEF RequestCancel, Runs, disk
<1>2. DiskFits /\ ToldFits /\ Good
  BY <1>1 DEF PackagesInv
<1>3. job = [f \in Fields |-> job[f]]
  BY <1>2 DEF Good, JobFits
<1>4. /\ job' = [f \in Fields |-> job'[f]] /\ job'.asked = job.step
      /\ \A f \in Fields \ {"asked"} : job'[f] = job[f]
  BY <1>1, <1>3 DEF Fields
<1>5. /\ job'.step = job.step /\ job'.op = job.op /\ job'.goOn = job.goOn
      /\ job'.pass = job.pass /\ job'.plan = job.plan /\ job'.at = job.at
      /\ job'.keys = job.keys /\ job'.length = job.length /\ job'.read = job.read
      /\ job'.error = job.error /\ job'.answer = job.answer
      /\ job'.lost = job.lost
  BY <1>4 DEF Fields
<1>6. DiskFits' /\ ToldFits' /\ Growing
  BY <1>1, <1>2 DEF DiskFits, ToldFits, Reporter, Growing, Good, ProgressFits
<1>7. JobFits' /\ StepFits'
  BY <1>2, <1>4, <1>5, ZenonT(30) DEF Good, JobFits, StepFits
<1>8. SourceFits'
  <2>1. Source' = Source
    BY <1>1, <1>5 DEF Source, Current
  <2> QED BY <1>1, <1>2, <1>5, <2>1 DEF Good, SourceFits
<1>9. KeysFit' /\ RootFits'
  BY <1>1, <1>2, <1>5 DEF Good, KeysFit, RootFits
<1>10. DoneFits'
  <2>1. Past' = Past /\ WrittenNow' = WrittenNow
    BY <1>1, <1>5 DEF Past, WrittenNow
  <2> QED BY <1>1, <1>2, <1>5, <2>1 DEF Good, DoneFits, Counted
<1>11. ProgressFits'
  BY <1>1, <1>2, <1>5 DEF Good, ProgressFits
<1>12. TokenFits'
  BY <1>1, <1>4, <1>5 DEF TokenFits
<1>13. AnswerMatchesDisk' /\ UnpackedIsPackage'
  BY <1>1, <1>5 DEF AnswerMatchesDisk, UnpackedIsPackage, Runs
<1> QED BY <1>6, <1>7, <1>8, <1>9, <1>10, <1>11, <1>12, <1>13 DEF PackagesInv, Good

\* A path has as many before it as no other has.
LEMMA RankIsInjective ==
  ASSUME NEW P \in SUBSET Nat, IsFiniteSet(P), NEW p \in P, NEW r \in P,
         Cardinality({q \in P : q < p}) = Cardinality({q \in P : q < r})
  PROVE  p = r
<1>1. ASSUME NEW a \in P, NEW b \in P, a < b
      PROVE  Cardinality({q \in P : q < a}) # Cardinality({q \in P : q < b})
  <2> DEFINE A == {q \in P : q < a}
             B == {q \in P : q < b}
  <2>1. A \in SUBSET B /\ a \in B /\ a \notin A
    <3>1. P \subseteq Nat
      OBVIOUS
    <3>2. \A q \in P : q < a => q < b
      BY <1>1, <3>1
    <3>3. ~(a < a)
      BY <3>1
    <3> QED BY <1>1, <3>2, <3>3
  <2>2. IsFiniteSet(B)
    BY FS_Subset
  <2>3. A # B
    BY <2>1
  <2> HIDE DEF A, B
  <2>4. Cardinality(A) # Cardinality(B)
    BY <2>1, <2>2, <2>3, FS_Subset
  <2> QED BY <2>4 DEF A, B
<1>2. p < r \/ r < p \/ p = r
  OBVIOUS
<1> QED BY <1>1, <1>2

\* The files of a finite set in their order: none of them is gone through twice.
LEMMA PathsInOrder ==
  ASSUME NEW P \in SUBSET Nat, IsFiniteSet(P)
  PROVE  /\ Cardinality(P) \in Nat
         /\ InPathOrder(P) \in [1..Cardinality(P) -> P]
         /\ \A i, k \in 1..Cardinality(P) :
              InPathOrder(P)[i] = InPathOrder(P)[k] => i = k
<1> DEFINE n == Cardinality(P)
           rank == [p \in P |-> Cardinality({q \in P : q < p})]
<1>1. n \in Nat
  BY FS_CardinalityType
<1>2. ASSUME NEW p \in P
      PROVE  rank[p] \in 0..(n - 1)
  <2> DEFINE A == {q \in P : q < p}
  <2>1. A \in SUBSET P /\ p \notin A
    OBVIOUS
  <2>2. A # P
    BY <2>1
  <2> HIDE DEF A
  <2>3. Cardinality(A) \in Nat /\ Cardinality(A) <= n /\ Cardinality(A) # n
    BY <2>1, <2>2, FS_Subset, FS_CardinalityType
  <2>4. rank[p] = Cardinality(A)
    BY DEF A
  <2> HIDE DEF n, rank
  <2> QED BY <1>1, <2>3, <2>4
<1>3. \A p, r \in P : rank[p] = rank[r] => p = r
  BY RankIsInjective
<1>4. rank \in [P -> 0..(n - 1)]
  BY <1>2
<1>5. rank \in Surjection(P, 0..(n - 1))
  <2>1. rank \in Injection(P, 0..(n - 1))
    <3> HIDE DEF rank, n
    <3> QED BY <1>3, <1>4, Fun_IsInj
  <2>2. IsFiniteSet(0..(n - 1)) /\ Cardinality(0..(n - 1)) = n
    <3> HIDE DEF n
    <3> QED BY <1>1, FS_Interval
  <2> HIDE DEF rank
  <2> QED BY <2>1, <2>2, FS_Injection
<1>6. ASSUME NEW i \in 1..n
      PROVE  \E p \in P : Cardinality({q \in P : q < p}) = i - 1
  <2> HIDE DEF n
  <2>1. i - 1 \in 0..(n - 1)
    BY <1>1
  <2>2. PICK p \in P : rank[p] = i - 1
    <3> HIDE DEF rank
    <3> QED BY <1>5, <2>1 DEF Surjection
  <2> QED BY <2>2
<1>7. InPathOrder(P) \in [1..n -> P]
  BY <1>6 DEF InPathOrder
<1>8. ASSUME NEW i \in 1..n
      PROVE  rank[InPathOrder(P)[i]] = i - 1
  <2> HIDE DEF n
  <2>1. InPathOrder(P)[i] \in P
    BY <1>7
  <2>2. InPathOrder(P)[i] = CHOOSE p \in P : Cardinality({q \in P : q < p}) = i - 1
    BY DEF InPathOrder, n
  <2>3. Cardinality({q \in P : q < InPathOrder(P)[i]}) = i - 1
    BY <1>6, <2>2
  <2> QED BY <2>1, <2>3
<1>9. \A i, k \in 1..n : InPathOrder(P)[i] = InPathOrder(P)[k] => i = k
  <2> HIDE DEF rank, n
  <2> QED BY <1>1, <1>8
<1> QED BY <1>1, <1>7, <1>9

LEMMA ScannedPlan ==
  ASSUME NEW op \in Directory
  PROVE  /\ Scanned(op) \in Seq(Entries)
         /\ \A i \in 1..Len(Scanned(op)) : Scanned(op)[i] \in Files
         /\ \A i, k \in 1..Len(Scanned(op)) : Scanned(op)[i] = Scanned(op)[k] => i = k
<1> DEFINE P == There(op)
           plan == InPathOrder(P)
           n == Cardinality(P)
<1>1. P \subseteq Files /\ Files \subseteq Nat
  BY FilesAssumption DEF There
<1>2. IsFiniteSet(P)
  BY <1>1, FilesAssumption, FS_Subset
<1>3. P \in SUBSET Nat
  BY <1>1
<1> HIDE DEF P
<1>4. /\ n \in Nat /\ plan \in [1..n -> P]
      /\ \A i, k \in 1..n : plan[i] = plan[k] => i = k
  BY <1>2, <1>3, PathsInOrder
<1> HIDE DEF plan, n
<1>5. plan \in Seq(P) /\ Len(plan) = n
  BY <1>4
<1>6. \A i \in 1..n : plan[i] \in Files
  BY <1>1, <1>4
<1>7. plan \in [1..n -> Entries]
  BY <1>4, <1>6 DEF Entries
<1>8. plan \in Seq(Entries)
  BY <1>4, <1>7
<1>9. Scanned(op) = plan
  BY DEF Scanned, plan, P
<1> QED BY <1>4, <1>5, <1>6, <1>8, <1>9

\* A beginning, of an operation whose plan is as it should be.
LEMMA StartedKeeps ==
  ASSUME PackagesInv, NEW op \in Directory \cup Exchanging, NEW batch,
         NEW goOn, NEW pass, NEW plan \in Seq(Entries),
         goOn => op \in Directory,
         \A i, k \in 1..Len(plan) : plan[i] = plan[k] => i = k,
         op \in Directory => \A i \in 1..Len(plan) : plan[i] \in Files,
         op \notin Directory => Len(plan) = 1,
         op = "unpack" => root = Empty,
         Started(Job(op, batch, goOn, pass, plan))
  PROVE  PackagesInv' /\ calls' # calls
<1>1. /\ ~Runs /\ calls < MaxCalls /\ calls' = calls + 1
      /\ job' = Job(op, batch, goOn, pass, plan)
      /\ rep' = NewReporter /\ seen' = NothingSeen /\ token' = FALSE
      /\ UNCHANGED <<txt, pkg, pack, root>>
  BY DEF Started, Runs, disk
<1>2. DiskFits
  BY DEF PackagesInv
<1>3. calls \in Nat /\ MaxCalls \in Nat
  BY <1>2, LengthsAssumption DEF DiskFits
<1>4. calls' \in 0..MaxCalls /\ calls' # calls
  BY <1>1, <1>3
<1>5. DiskFits'
  <2>1. \A k \in 1..MaxCalls : k <= calls => k <= calls'
    BY <1>1, <1>3
  <2> QED BY <1>1, <1>2, <1>4, <2>1 DEF DiskFits
<1>6. ToldFits'
  BY <1>1 DEF ToldFits, Reporter, NewReporter, NothingSeen
<1>7. /\ job'.step = "scan" /\ job'.op = op /\ job'.goOn = goOn /\ job'.pass = pass
      /\ job'.plan = plan /\ job'.at = 0 /\ job'.keys = NoKeys
      /\ job'.length = 0 /\ job'.read = 0 /\ job'.error = "none"
      /\ job'.lost = {} /\ job'.answer = NoAnswer
  BY <1>1 DEF Job
<1>8. job' = [f \in Fields |-> job'[f]]
  BY <1>1 DEF Job, Fields
<1>9. JobFits'
  <2>1. /\ NoAnswer = [status |-> NoAnswer.status, failed |-> NoAnswer.failed,
                       succeeded |-> NoAnswer.succeeded]
        /\ NoAnswer.failed \in Nat /\ NoAnswer.succeeded \in Nat
    BY DEF NoAnswer
  <2>2. Len(plan) \in Nat
    OBVIOUS
  <2> HIDE DEF NoAnswer
  <2>3. IsFiniteSet({})
    BY FS_EmptySet
  <2> QED BY <1>7, <1>8, <2>1, <2>2, <2>3 DEF JobFits, Steps
<1>10. StepFits' /\ SourceFits'
  BY <1>7 DEF StepFits, SourceFits, InFile, Opened
<1>11. KeysFit'
  BY <1>7 DEF KeysFit, NoKeys
<1>12. RootFits'
  BY <1>1, <1>7 DEF RootFits, Empty
<1>13. DoneFits'
  <2>1. WrittenNow' = {}
    <3>1. \A n \in Files : Readable(pkg[n]) =>
            \A k \in 1..MaxCalls : pkg[n].nonce = <<k, n>> => k <= calls
      BY <1>2 DEF DiskFits
    <3>2. calls' \in 1..MaxCalls /\ ~(calls' <= calls)
      BY <1>1, <1>3
    <3> QED BY <1>1, <3>1, <3>2 DEF WrittenNow
  <2>2. Past' = 0
    BY <1>7 DEF Past, InFile, Opened
  <2>3. NoAnswer.succeeded = 0
    BY DEF NoAnswer
  <2>4. Cardinality({}) = 0
    BY FS_EmptySet
  <2> QED BY <1>7, <2>1, <2>2, <2>3, <2>4 DEF DoneFits, Counted
<1>14. ProgressFits'
  BY <1>1, <1>7 DEF ProgressFits, NewReporter, NothingSeen, InFile, Opened
<1>15. TokenFits'
  BY <1>1 DEF TokenFits
<1>16. AnswerMatchesDisk' /\ UnpackedIsPackage'
  BY <1>7 DEF AnswerMatchesDisk, UnpackedIsPackage
<1> QED BY <1>4, <1>5, <1>6, <1>9, <1>10, <1>11, <1>12, <1>13, <1>14, <1>15, <1>16
        DEF PackagesInv, Good

LEMMA BeginKeeps ==
  ASSUME PackagesInv, Begin
  PROVE  PackagesInv' /\ calls' # calls
<1>1. PICK pass \in Passphrases :
        \/ \E op \in Directory, n \in Files : BeginFile(op, n, pass)
        \/ \E op \in Directory, goOn \in BOOLEAN : BeginDirectory(op, goOn, pass)
        \/ \E op \in {"export", "inspect", "unpack"} : BeginExchange(op, pass)
  BY DEF Begin
<1>2. ASSUME NEW op \in Directory, NEW n \in Files, BeginFile(op, n, pass)
      PROVE  PackagesInv' /\ calls' # calls
  <2> DEFINE plan == <<n>>
             no == FALSE
  <2>1. Started(Job(op, no, no, pass, plan))
    BY <1>2 DEF BeginFile
  <2>2. plan \in Seq(Entries) /\ Len(plan) = 1 /\ plan[1] = n
    BY DEF Entries
  <2>3. ~no /\ op # "unpack"
    BY DEF Directory
  <2> HIDE DEF plan, no
  <2>4. /\ \A i, k \in 1..Len(plan) : plan[i] = plan[k] => i = k
        /\ \A i \in 1..Len(plan) : plan[i] \in Files
    BY <2>2
  <2> QED BY <2>1, <2>2, <2>3, <2>4, StartedKeeps
<1>3. ASSUME NEW op \in Directory, NEW goOn \in BOOLEAN, BeginDirectory(op, goOn, pass)
      PROVE  PackagesInv' /\ calls' # calls
  <2> DEFINE plan == Scanned(op)
             yes == TRUE
  <2>1. Started(Job(op, yes, goOn, pass, plan))
    BY <1>3 DEF BeginDirectory
  <2>2. op # "unpack"
    BY DEF Directory
  <2>3. /\ plan \in Seq(Entries)
        /\ \A i \in 1..Len(plan) : plan[i] \in Files
        /\ \A i, k \in 1..Len(plan) : plan[i] = plan[k] => i = k
    BY ScannedPlan
  <2> HIDE DEF plan, yes
  <2> QED BY <2>1, <2>2, <2>3, StartedKeeps
<1>4. ASSUME NEW op \in {"export", "inspect", "unpack"}, BeginExchange(op, pass)
      PROVE  PackagesInv' /\ calls' # calls
  <2> DEFINE plan == <<Config>>
             no == FALSE
  <2>1. Started(Job(op, no, no, pass, plan)) /\ op \notin Directory /\ Ready(op)
    BY <1>4 DEF BeginExchange
  <2>2. plan \in Seq(Entries) /\ Len(plan) = 1
    BY DEF Entries
  <2>3. ~no /\ op \in Exchanging
    BY DEF Exchanging
  <2>4. op = "unpack" => root = Empty
    BY <2>1 DEF Ready, UnpackReady
  <2> HIDE DEF plan, no
  <2>5. \A i, k \in 1..Len(plan) : plan[i] = plan[k] => i = k
    BY <2>2
  <2> QED BY <2>1, <2>2, <2>3, <2>4, <2>5, StartedKeeps
<1> QED BY <1>1, <1>2, <1>3, <1>4

LEMMA InitHolds ==
  ASSUME Init
  PROVE  PackagesInv
<1>1. /\ pkg \in Earlier /\ pack = NoTracer /\ job = Idle /\ rep = NewReporter
      /\ seen = NothingSeen /\ calls = 0
      /\ root \in {Empty} \cup {[Empty EXCEPT ![n] = Torn] : n \in Files}
      /\ \E there \in Beginnings : txt = [n \in Files |-> IF n \in there THEN n ELSE NoFile]
  BY DEF Init
<1>2. root = [e \in Entries |-> root[e]] /\ txt = [n \in Files |-> txt[n]]
  BY <1>1 DEF Empty
<1>3. /\ pkg = [n \in Files |-> pkg[n]]
      /\ \A n \in Files : Readable(pkg[n]) =>
           /\ WellSealed(pkg[n])
           /\ \A k \in 1..MaxCalls : pkg[n].nonce # <<k, n>>
  BY <1>1, EarlierAssumption
<1>4. ~Readable(pack)
  BY <1>1 DEF Readable, NoTracer
<1>5. DiskFits
  BY <1>1, <1>2, <1>3, <1>4, LengthsAssumption DEF DiskFits
<1>6. ToldFits
  BY <1>1 DEF ToldFits, Reporter, NewReporter, NothingSeen
<1>7. ~Runs /\ AnswerMatchesDisk /\ UnpackedIsPackage
  BY <1>1 DEF Idle, Runs, AnswerMatchesDisk, UnpackedIsPackage, Directory
<1> QED BY <1>5, <1>6, <1>7 DEF PackagesInv

-----------------------------------------------------------------------------
(* Every step keeps the invariant.                                         *)

LEMMA RestKeeps ==
  ASSUME PackagesInv, UNCHANGED vars
  PROVE  PackagesInv'
<1>1. UNCHANGED <<txt, pkg, pack, root, job, rep, seen, token, calls>>
  BY DEF vars, disk, told
<1>2. DiskFits' /\ ToldFits' /\ (Runs' => Runs)
  BY <1>1 DEF PackagesInv, DiskFits, ToldFits, Reporter, Runs
<1>3. /\ Good => JobFits' /\ StepFits'
      /\ AnswerMatchesDisk' /\ UnpackedIsPackage'
  BY <1>1 DEF PackagesInv, Good, JobFits, StepFits, AnswerMatchesDisk, WrittenNow,
              UnpackedIsPackage
<1>4. Good => SourceFits' /\ KeysFit' /\ RootFits'
  BY <1>1 DEF Good, SourceFits, Source, Current, KeysFit, RootFits
<1>5. Good => DoneFits'
  <2>1. Past' = Past /\ WrittenNow' = WrittenNow
    BY <1>1 DEF Past, WrittenNow
  <2> QED BY <1>1, <2>1 DEF Good, DoneFits, Counted
<1>6. Good => ProgressFits' /\ TokenFits'
  BY <1>1 DEF Good, ProgressFits, TokenFits
<1> QED BY <1>2, <1>3, <1>4, <1>5, <1>6 DEF PackagesInv, Good

LEMMA NextKeeps ==
  ASSUME PackagesInv, Next
  PROVE  PackagesInv' /\ (calls' = calls => Growing \/ UNCHANGED vars)
<1>1. CASE Begin
  BY <1>1, BeginKeeps
<1>2. CASE RequestCancel \/ Scan \/ PlanFails \/ Totals \/ Session \/ Select \/ Conclude
  BY <1>2, RequestCancelKeeps, ScanKeeps, PlanFailsKeeps, TotalsKeeps, SessionKeeps,
     SelectKeeps, ConcludeKeeps
<1>3. CASE Read \/ ReadChunk \/ Compress \/ Derive \/ Crypt \/ Open \/ Decompress \/ Write
  BY <1>3, ReadKeeps, ReadChunkKeeps, CompressKeeps, DeriveKeeps, CryptKeeps, OpenKeeps,
     DecompressKeeps, WriteKeeps
<1>4. CASE StepFails \/ Store \/ StoreTorn \/ StoreFails
  BY <1>4, StepFailsKeeps, StoreKeeps, StoreFailsKeeps
<1>5. CASE UnpackEntry \/ UnpackTorn \/ UnpackFails
  BY <1>5, UnpackEntryKeeps, UnpackTornKeeps, UnpackFailsKeeps
<1>6. CASE Rest
  BY <1>6, RestKeeps DEF Rest
<1> QED BY <1>1, <1>2, <1>3, <1>4, <1>5, <1>6 DEF Next

\* The invariant, of every operation at every step, with every failure.
THEOREM PackagesAlwaysFit == Spec => []PackagesInv
<1>1. Init => PackagesInv
  BY InitHolds
<1>2. PackagesInv /\ [Next]_vars => PackagesInv'
  BY NextKeeps, RestKeeps
<1> QED BY <1>1, <1>2, PTL DEF Spec

\* What a batch or a single call answers about the files it wrote, and what the
\* TXTs hold when it answers ok, is so.
THEOREM AnswerAlwaysMatches == Spec => []AnswerMatchesDisk
<1>1. PackagesInv => AnswerMatchesDisk
  BY DEF PackagesInv
<1> QED BY <1>1, PackagesAlwaysFit, PTL

\* WriteDecodedPackageToRoot leaves the entries of the package and no other file.
THEOREM UnpackedAlwaysPackage == Spec => []UnpackedIsPackage
<1>1. PackagesInv => UnpackedIsPackage
  BY DEF PackagesInv
<1> QED BY <1>1, PackagesAlwaysFit, PTL

\* The file that is opened was sealed by this code, and so opens with the key
\* derived from its own passphrase alone.
LEMMA SealedOpens ==
  ASSUME PackagesInv
  PROVE  OpensForItsOwn
<1> SUFFICES ASSUME job.step = "open"
             PROVE  Opens(job.keys, job.pass, Source) <=> job.pass = SealedFor(Source)
  BY DEF OpensForItsOwn
<1>1. DiskFits /\ JobFits /\ StepFits /\ SourceFits /\ KeysFit
  BY DEF PackagesInv, Good, Runs
<1>2. job.op \notin Sealing /\ Readable(Source)
  BY <1>1 DEF StepFits, SourceFits, Opened
<1>3. WellSealed(Source)
  <2>1. CASE job.op = "decrypt"
    <3>1. job.at \in 1..Len(job.plan)
      BY <1>1 DEF JobFits, StepFits, InFile, Opened
    <3>2. Current \in Files
      BY <1>1, <2>1, <3>1 DEF JobFits, Current, Directory
    <3> QED BY <1>1, <1>2, <2>1, <3>2 DEF DiskFits, Source
  <2>2. CASE job.op # "decrypt"
    BY <1>1, <1>2, <2>2 DEF DiskFits, Source
  <2> QED BY <2>1, <2>2
<1> DEFINE file == Source
           keys == job.keys
           pass == job.pass
<1>4. FoundMasterKey(keys, pass, file.salt) = MasterKey(pass, file.salt)
  BY <1>1 DEF KeysFit, FoundMasterKey
<1>5. MasterKey(pass, file.salt) = MasterKey(SealedFor(file), file.salt)
      <=> pass = SealedFor(file)
  BY DEF MasterKey
<1> DEFINE mine == MasterKey(pass, file.salt)
           its == MasterKey(SealedFor(file), file.salt)
<1>6. file.key = IF file.kdf = "batch" THEN Subkey(its, file.nonce) ELSE its
  BY <1>3 DEF WellSealed
<1>7. DerivedKey(keys, pass, file)
        = IF file.kdf = "batch" THEN Subkey(mine, file.nonce) ELSE mine
  BY <1>4 DEF DerivedKey
<1> HIDE DEF mine, its
<1>8. Subkey(mine, file.nonce) = Subkey(its, file.nonce) <=> mine = its
  BY DEF Subkey
<1>9. Opens(keys, pass, file) <=> mine = its
  BY <1>6, <1>7, <1>8 DEF Opens
<1> QED BY <1>5, <1>9 DEF mine, its

\* DeriveDecryptKey and its cache of master keys: no file opens for a passphrase
\* it was not sealed with, and every one opens for its own.
THEOREM AlwaysOpensForItsOwn == Spec => []OpensForItsOwn
<1>1. PackagesInv => OpensForItsOwn
  BY SealedOpens
<1> QED BY <1>1, PackagesAlwaysFit, PTL

\* ProgressReporter: within an operation the numbers go up, and not past the total.
THEOREM ProgressAlwaysGrows == Spec => ProgressOnlyGrows
<1> DEFINE Forward == calls' = calls =>
             /\ seen'.done >= seen.done
             /\ seen'.total # 0 => seen'.done <= seen'.total
<1>1. PackagesInv /\ [Next]_vars => [Forward]_vars
  BY NextKeeps DEF Growing
<1> HIDE DEF Forward
<1>2. Spec => [][Forward]_vars
  BY <1>1, PackagesAlwaysFit, PTL DEF Spec
<1> QED BY <1>2 DEF ProgressOnlyGrows, Forward

-----------------------------------------------------------------------------
(* Cancelling.                                                             *)

\* With the token set, the one file that may change is the one being written.
LEMMA AskedWritesNoMore ==
  ASSUME PackagesInv, Next, Runs, token
  PROVE  disk' = disk \/ job.asked = "store"
<1>1. Fits /\ job.op \in Directory /\ (job.step = "store" => job.asked = "store")
  BY InvFits DEF Good, TokenFits
<1>2. CASE Begin \/ Rest
  BY <1>2 DEF Begin, BeginFile, BeginDirectory, BeginExchange, Started, Rest, vars, Runs
<1>3. CASE RequestCancel \/ Scan \/ PlanFails \/ Totals \/ Session \/ Select \/ Conclude
  BY <1>3 DEF RequestCancel, Scan, PlanFails, Totals, Session, Select, Conclude
<1>4. CASE Read \/ ReadChunk \/ Compress \/ Derive \/ Crypt \/ Open \/ Decompress \/ Write
  BY <1>4 DEF Read, ReadChunk, Compress, Derive, Crypt, Open, Decompress, Write, Phase
<1>5. CASE StepFails
  BY <1>5 DEF StepFails
<1>6. CASE Store \/ StoreTorn \/ StoreFails
  BY <1>1, <1>6 DEF Store, StoreTorn, Stored, StoreFails
<1>7. CASE UnpackEntry \/ UnpackTorn \/ UnpackFails
  <2>1. job.op = "unpack"
    BY <1>7, InvFits DEF UnpackEntry, UnpackTorn, UnpackFails, Good, StepFits
  <2> QED BY <1>1, <2>1 DEF Directory
<1> QED BY <1>2, <1>3, <1>4, <1>5, <1>6, <1>7 DEF Next

\* FileCryptoCancelToken: once it is set nothing is written that was not begun.
THEOREM CancelAlwaysStops == Spec => CancelStopsWriting
<1> DEFINE Quiet == job.step # "idle" /\ token => disk' = disk \/ job.asked = "store"
<1>1. PackagesInv /\ [Next]_vars => [Quiet]_vars
  BY AskedWritesNoMore DEF Runs
<1> HIDE DEF Quiet
<1>2. Spec => [][Quiet]_vars
  BY <1>1, PackagesAlwaysFit, PTL DEF Spec
<1> QED BY <1>2 DEF CancelStopsWriting, Quiet
=============================================================================
