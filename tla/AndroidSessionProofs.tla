------------------------ MODULE AndroidSessionProofs ------------------------
(***************************************************************************)
(* What holds of the Android session for any number of callers, flows and  *)
(* configurations, and without any fairness.  First, which configuration a  *)
(* native call works with and who holds the mutex; what the flows read and  *)
(* write needs no invariant for that.  Then the data: a synchronisation     *)
(* that nothing disturbed tells the truth.  The plan of a flow is a         *)
(* sequence of steps, so the second invariant says what the steps still to  *)
(* come will do: which TXTs are yet to be read, or yet to be ingested.      *)
(***************************************************************************)
EXTENDS AndroidSession, FiniteSetTheorems, FunctionTheorems, SequenceTheorems,
         WellFoundedInduction, TLAPS

-----------------------------------------------------------------------------
(* The inductive invariant.  The floor of a call bounds every runtime that *)
(* can still come into its hands: those built and not swapped in yet,      *)
(* whoever builds them, and the one in place.                              *)
Fields == {"flow", "plan", "phase", "made", "using", "draft", "text", "floor",
           "calm"}

Shape ==
  /\ DOMAIN job = Callers
  /\ job = [c \in Callers |-> job[c]]
  /\ \A c \in Callers :
       /\ job[c] = [f \in Fields |-> job[c][f]]
       /\ job[c].floor \in Nat /\ job[c].made \in Nat
  /\ config = [edition |-> config.edition, there |-> config.there,
               loads |-> config.loads]
  /\ config.edition \in 0..MaxEdition

Floors == \A c \in Callers : Busy(c) => job[c].floor <= config.edition

BuiltAboveFloors ==
  \A c, d \in Callers :
    (Busy(c) /\ Busy(d) /\ job[d].phase = "swap") => job[c].floor <= job[d].made

RuntimeAboveFloors ==
  \A c \in Callers :
    (Busy(c) /\ job[c].phase = "enter")
      => runtime.edition \in Nat /\ job[c].floor <= runtime.edition

HolderActs ==
  /\ native \in Callers \cup {None}
  /\ \A c \in Callers :
       native = c => /\ Busy(c) /\ job[c].phase \in {"act", "import", "stamp"}
                     /\ job[c].using.edition \in Nat
                     /\ job[c].floor <= job[c].using.edition

IInv == Shape /\ Floors /\ BuiltAboveFloors /\ RuntimeAboveFloors /\ HolderActs

LEMMA MinOfNaturals ==
  ASSUME NEW S \in SUBSET Nat, S # {}
  PROVE  Min(S) \in S /\ \A x \in S : Min(S) <= x
<1> DEFINE Less == {p \in Nat \X Nat : p[1] < p[2]}
<1>1. IsWellFoundedOn(Less, Nat)
  BY NatLessThanWellFounded DEF OpToRel
<1>2. PICK m \in S : \A y \in S : <<y, m>> \notin Less
  BY <1>1, WFMin
<1>3. ASSUME NEW y \in S PROVE m <= y
  <2>1. ~ (y < m)
    BY <1>2
  <2> QED BY <2>1
<1> QED BY <1>3 DEF Min
-----------------------------------------------------------------------------
(* The three shapes of a step: the caller leaves its native call, it goes  *)
(* on inside it, or it crosses from one native call to the next.           *)
ConfigGrows ==
  /\ config' = [edition |-> config'.edition, there |-> config'.there,
                loads |-> config'.loads]
  /\ config'.edition \in 0..MaxEdition
  /\ config.edition <= config'.edition

Alone(c, next) == job' = [job EXCEPT ![c] = next]

Keeps(c, next) ==
  /\ next = [f \in Fields |-> next[f]]
  /\ next.floor = job[c].floor /\ next.flow = job[c].flow

Leaves(c) ==
  /\ \E next : /\ Alone(c, next)
               /\ next.phase = "init"
               /\ (Keeps(c, next) /\ next.made = job[c].made) \/ next = Idle
  /\ native' = IF native = c THEN None ELSE native

GoesOn(c) ==
  /\ \E next : /\ Alone(c, next) /\ Keeps(c, next)
               /\ next.made = job[c].made /\ next.using = job[c].using
               /\ \/ next.phase = job[c].phase
                  \/ next.phase \in {"import", "stamp"}
  /\ native' = native

LEMMA OthersUntouched ==
  ASSUME Shape, NEW c \in Callers, NEW next, Alone(c, next)
  PROVE  /\ DOMAIN job' = Callers /\ job' = [d \in Callers |-> job'[d]]
         /\ job'[c] = next
         /\ \A d \in Callers \ {c} : job'[d] = job[d]
  BY DEF Shape, Alone

LEMMA LeavingKeepsIInv ==
  ASSUME IInv, NEW c \in Callers, Leaves(c), ConfigGrows,
         \/ runtime' = runtime
         \/ /\ runtime'.edition \in Nat
            /\ \A d \in Callers : Busy(d) => job[d].floor <= runtime'.edition
  PROVE  IInv'
<1>1. PICK next : /\ Alone(c, next) /\ next.phase = "init"
                  /\ (Keeps(c, next) /\ next.made = job[c].made) \/ next = Idle
  BY DEF Leaves
<1>2. /\ DOMAIN job' = Callers /\ job' = [d \in Callers |-> job'[d]]
      /\ job'[c] = next
      /\ \A d \in Callers \ {c} : job'[d] = job[d]
  BY <1>1, OthersUntouched DEF IInv
<1>3. /\ next = [f \in Fields |-> next[f]]
      /\ next.floor \in Nat /\ next.made \in Nat
      /\ next.flow # "none" => /\ next.floor = job[c].floor
                               /\ next.flow = job[c].flow
  BY <1>1 DEF Keeps, Idle, Fields, IInv, Shape
<1>4. Shape'
  BY <1>2, <1>3 DEF Shape, IInv, ConfigGrows
<1>5. Floors'
  BY <1>2, <1>3, <1>4 DEF Floors, Busy, IInv, Shape, ConfigGrows
<1>6. BuiltAboveFloors'
  BY <1>1, <1>2, <1>3 DEF BuiltAboveFloors, Busy, IInv
<1>7. RuntimeAboveFloors'
  BY <1>1, <1>2, <1>3 DEF RuntimeAboveFloors, Busy, IInv
<1>8. HolderActs'
  BY <1>2, NamesAssumption DEF HolderActs, Busy, IInv, Leaves
<1> QED BY <1>4, <1>5, <1>6, <1>7, <1>8 DEF IInv

LEMMA GoingOnKeepsIInv ==
  ASSUME IInv, NEW c \in Callers, GoesOn(c), ConfigGrows, UNCHANGED runtime
  PROVE  IInv'
<1>1. PICK next : /\ Alone(c, next) /\ Keeps(c, next)
                  /\ next.made = job[c].made /\ next.using = job[c].using
                  /\ next.phase = job[c].phase \/ next.phase \in {"import", "stamp"}
  BY DEF GoesOn
<1>2. /\ DOMAIN job' = Callers /\ job' = [d \in Callers |-> job'[d]]
      /\ job'[c] = next
      /\ \A d \in Callers \ {c} : job'[d] = job[d]
  BY <1>1, OthersUntouched DEF IInv
<1>3. /\ next = [f \in Fields |-> next[f]]
      /\ next.floor = job[c].floor /\ next.flow = job[c].flow
  BY <1>1 DEF Keeps
<1>4. Shape'
  BY <1>1, <1>2, <1>3 DEF Shape, IInv, ConfigGrows
<1>5. Floors'
  BY <1>2, <1>3 DEF Floors, Busy, IInv, Shape, ConfigGrows
<1>6. BuiltAboveFloors'
  BY <1>1, <1>2, <1>3 DEF BuiltAboveFloors, Busy, IInv
<1>7. RuntimeAboveFloors'
  BY <1>1, <1>2, <1>3 DEF RuntimeAboveFloors, Busy, IInv
<1>8. HolderActs'
  BY <1>1, <1>2, <1>3 DEF HolderActs, Busy, IInv, GoesOn
<1> QED BY <1>4, <1>5, <1>6, <1>7, <1>8 DEF IInv

LEMMA ReturnLeaves ==
  ASSUME IInv, NEW c \in Callers, NEW result, Return(c, result)
  PROVE  Leaves(c)
  BY DEF Return, Leaves, Alone, Idle

LEMMA ProceedLeaves ==
  ASSUME IInv, NEW c \in Callers, NEW rest, Proceed(c, rest)
  PROVE  Leaves(c)
<1>1. CASE rest = <<>>
  BY <1>1, ReturnLeaves DEF Proceed
<1>2. CASE rest # <<>>
  <2> DEFINE next == [job[c] EXCEPT !.plan = rest, !.phase = "init",
                                    !.using = None]
  <2>1. job[c] = [f \in Fields |-> job[c][f]]
    BY DEF IInv, Shape
  <2>2. /\ next = [f \in Fields |-> next[f]] /\ next.phase = "init"
        /\ next.floor = job[c].floor /\ next.flow = job[c].flow
        /\ next.made = job[c].made
    BY <2>1 DEF Fields
  <2>3. Alone(c, next) /\ native' = IF native = c THEN None ELSE native
    BY <1>2 DEF Proceed, Alone
  <2> HIDE DEF next
  <2> QED BY <2>2, <2>3 DEF Leaves, Keeps
<1> QED BY <1>1, <1>2
-----------------------------------------------------------------------------
(* Every step keeps the invariant.                                         *)

LEMMA InitIInv == Init => IInv
<1> SUFFICES ASSUME Init PROVE IInv
  OBVIOUS
<1>1. job = [c \in Callers |-> Idle]
  BY DEF Init
<1>2. Idle = [f \in Fields |-> Idle[f]] /\ Idle.floor = 0 /\ Idle.made = 0
      /\ Idle.flow = "none"
  BY DEF Idle, Fields
<1>3. \A c \in Callers : job[c] = Idle /\ ~Busy(c)
  BY <1>1, <1>2 DEF Busy
<1>4. Shape
  BY <1>1, <1>2, <1>3, BoundAssumption DEF Shape, Init
<1>5. Floors /\ BuiltAboveFloors /\ RuntimeAboveFloors
  BY <1>3 DEF Floors, BuiltAboveFloors, RuntimeAboveFloors
<1>6. HolderActs
  BY NamesAssumption DEF HolderActs, Init
<1> QED BY <1>4, <1>5, <1>6 DEF IInv

LEMMA ConfigStays ==
  ASSUME IInv, UNCHANGED config
  PROVE  ConfigGrows
  BY DEF IInv, Shape, ConfigGrows

LEMMA PreparedGrows ==
  ASSUME IInv, Prepared
  PROVE  ConfigGrows
  BY DEF IInv, Shape, ConfigGrows, Prepared

\* The floor of a call that starts is below every configuration it can meet.
LEMMA StartIInv ==
  ASSUME IInv, NEW c \in Callers, NEW f, Start(c, f)
  PROVE  IInv'
<1> DEFINE others == {d \in Callers : Busy(d)}
           known  == {config.edition} \cup {job[d].floor : d \in others}
           since  == Min(known)
           begun  == [Idle EXCEPT !.flow = f.flow, !.plan = PlanOf(f),
                                  !.text = f.file, !.floor = since,
                                  !.calm = (others = {})]
<1>1. known \in SUBSET Nat /\ known # {}
  BY BoundAssumption DEF IInv, Shape
<1>2. since \in Nat /\ \A x \in known : since <= x
  BY <1>1, MinOfNaturals
<1>3. since <= config.edition /\ \A d \in others : since <= job[d].floor
  BY <1>2
<1>4. job' = [d \in Callers |-> IF d = c THEN begun
                                ELSE [job[d] EXCEPT !.calm = ~Busy(d)]]
  BY DEF Start
<1>5. /\ begun = [g \in Fields |-> begun[g]] /\ begun.floor = since
      /\ begun.phase = "init" /\ begun.made = 0
  BY DEF Idle, Fields
<1>6. \A d \in Callers : job[d] = [g \in Fields |-> job[d][g]]
  BY DEF IInv, Shape
<1>7. \A d \in Callers \ {c} :
        /\ job'[d] = [g \in Fields |-> job'[d][g]]
        /\ job'[d].floor = job[d].floor /\ job'[d].made = job[d].made
        /\ job'[d].flow = job[d].flow /\ job'[d].phase = job[d].phase
        /\ job'[d].using = job[d].using
  BY <1>4, <1>6 DEF Fields
<1>8. job'[c] = begun
  BY <1>4
<1> HIDE DEF begun, since
<1>9. UNCHANGED <<config, runtime, native>> /\ ~Busy(c)
  BY DEF Start, disk
<1>10. Shape'
  BY <1>2, <1>4, <1>5, <1>7, <1>8, <1>9 DEF IInv, Shape
<1>11. Floors'
  BY <1>3, <1>5, <1>7, <1>8, <1>9 DEF IInv, Floors, Busy
<1>12. BuiltAboveFloors'
  <2> SUFFICES ASSUME NEW d \in Callers, NEW e \in Callers,
                      Busy(d)', Busy(e)', job'[e].phase = "swap"
               PROVE  job'[d].floor <= job'[e].made
    BY DEF BuiltAboveFloors
  <2>1. e # c
    BY <1>5, <1>8
  <2>2. Busy(e) /\ job[e].phase = "swap" /\ job'[e].made = job[e].made
    BY <1>7, <2>1 DEF Busy
  <2>3. CASE d = c
    <3>1. job[e].floor <= job[e].made /\ since <= job[e].floor
      BY <1>3, <2>2 DEF IInv, BuiltAboveFloors
    <3>2. job[e].floor \in Nat /\ job[e].made \in Nat
      BY DEF IInv, Shape
    <3> QED BY <1>2, <1>5, <1>8, <2>2, <2>3, <3>1, <3>2
  <2>4. CASE d # c
    BY <1>7, <2>2, <2>4 DEF IInv, BuiltAboveFloors, Busy
  <2> QED BY <2>3, <2>4
<1>13. RuntimeAboveFloors'
  BY <1>5, <1>7, <1>8, <1>9 DEF IInv, RuntimeAboveFloors, Busy
<1>14. HolderActs'
  BY <1>7, <1>9 DEF IInv, HolderActs, Busy
<1> QED BY <1>10, <1>11, <1>12, <1>13, <1>14 DEF IInv

LEMMA CreateIInv ==
  ASSUME IInv, NEW c \in Callers, Create(c)
  PROVE  IInv'
<1> DEFINE next == [job[c] EXCEPT !.phase = "swap", !.made = config.edition]
<1>1. job[c] = [f \in Fields |-> job[c][f]] /\ config.edition \in Nat
  BY BoundAssumption DEF IInv, Shape
<1>2. /\ next = [f \in Fields |-> next[f]] /\ next.phase = "swap"
      /\ next.made = config.edition /\ next.floor = job[c].floor
      /\ next.flow = job[c].flow /\ next.using = job[c].using
  BY <1>1 DEF Fields
<1>3. Alone(c, next)
  BY DEF Create, Alone
<1> HIDE DEF next
<1>4. /\ DOMAIN job' = Callers /\ job' = [d \in Callers |-> job'[d]]
      /\ job'[c] = next
      /\ \A d \in Callers \ {c} : job'[d] = job[d]
  BY <1>3, OthersUntouched DEF IInv
<1>5. ConfigGrows /\ UNCHANGED <<runtime, native>>
  BY PreparedGrows DEF Create
<1>6. config'.edition = config.edition
  BY DEF Create, Prepared, IInv, Shape
<1>7. job[c].phase = "init"
  BY DEF Create, Calling
<1>8. Shape'
  BY <1>1, <1>2, <1>4, <1>5 DEF IInv, Shape, ConfigGrows
<1>9. Floors'
  BY <1>2, <1>4, <1>6 DEF IInv, Floors, Busy
<1>10. BuiltAboveFloors'
  BY <1>2, <1>4 DEF IInv, BuiltAboveFloors, Floors, Busy
<1>11. RuntimeAboveFloors'
  BY <1>2, <1>4, <1>5 DEF IInv, RuntimeAboveFloors, Busy
<1>12. HolderActs'
  BY <1>2, <1>4, <1>5, <1>7 DEF IInv, HolderActs, Busy
<1> QED BY <1>8, <1>9, <1>10, <1>11, <1>12 DEF IInv

LEMMA SwapIInv ==
  ASSUME IInv, NEW c \in Callers, Swap(c)
  PROVE  IInv'
<1>1. /\ Busy(c) /\ job[c].phase = "swap" /\ native = None
      /\ runtime' = [by |-> c, edition |-> job[c].made]
      /\ UNCHANGED config
  BY DEF Swap, Calling, disk
<1>2. /\ runtime'.edition = job[c].made /\ job[c].made \in Nat
      /\ \A d \in Callers : Busy(d) => job[d].floor <= job[c].made
  BY <1>1 DEF IInv, Shape, BuiltAboveFloors
<1>3. ConfigGrows
  BY <1>1, ConfigStays
<1>4. CASE Op(c) = "init"
  <2>1. Leaves(c)
    BY <1>4, ProceedLeaves DEF Swap, Done
  <2> QED BY <1>2, <1>3, <2>1, LeavingKeepsIInv
<1>5. CASE Op(c) # "init"
  <2> DEFINE next == [job[c] EXCEPT !.phase = "enter"]
  <2>1. job[c] = [f \in Fields |-> job[c][f]]
    BY DEF IInv, Shape
  <2>2. /\ next = [f \in Fields |-> next[f]] /\ next.phase = "enter"
        /\ next.made = job[c].made /\ next.floor = job[c].floor
        /\ next.flow = job[c].flow
    BY <2>1 DEF Fields
  <2>3. Alone(c, next) /\ native' = None
    BY <1>1, <1>5 DEF Swap, Alone
  <2> HIDE DEF next
  <2>4. /\ DOMAIN job' = Callers /\ job' = [d \in Callers |-> job'[d]]
        /\ job'[c] = next
        /\ \A d \in Callers \ {c} : job'[d] = job[d]
    BY <2>3, OthersUntouched DEF IInv
  <2>5. Shape'
    BY <2>2, <2>4, <1>3 DEF IInv, Shape, ConfigGrows
  <2>6. Floors'
    BY <1>1, <2>2, <2>4 DEF IInv, Floors, Busy
  <2>7. BuiltAboveFloors'
    BY <2>2, <2>4 DEF IInv, BuiltAboveFloors, Busy
  <2>8. RuntimeAboveFloors'
    BY <1>2, <2>2, <2>4 DEF RuntimeAboveFloors, Busy
  <2>9. HolderActs'
    BY <2>3, NamesAssumption DEF HolderActs
  <2> QED BY <2>5, <2>6, <2>7, <2>8, <2>9 DEF IInv
<1> QED BY <1>4, <1>5

LEMMA EnterIInv ==
  ASSUME IInv, NEW c \in Callers, Enter(c)
  PROVE  IInv'
<1> DEFINE next == [job[c] EXCEPT !.phase = "act", !.using = runtime]
<1>1. /\ Busy(c) /\ job[c].phase = "enter" /\ native' = c
      /\ UNCHANGED <<config, runtime>>
  BY DEF Enter, Calling, disk
<1>2. job[c] = [f \in Fields |-> job[c][f]]
  BY DEF IInv, Shape
<1>3. /\ next = [f \in Fields |-> next[f]] /\ next.phase = "act"
      /\ next.using = runtime /\ next.made = job[c].made
      /\ next.floor = job[c].floor /\ next.flow = job[c].flow
  BY <1>2 DEF Fields
<1>4. Alone(c, next)
  BY DEF Enter, Alone
<1> HIDE DEF next
<1>5. /\ DOMAIN job' = Callers /\ job' = [d \in Callers |-> job'[d]]
      /\ job'[c] = next
      /\ \A d \in Callers \ {c} : job'[d] = job[d]
  BY <1>4, OthersUntouched DEF IInv
<1>6. Shape'
  BY <1>1, <1>3, <1>5 DEF IInv, Shape
<1>7. Floors'
  BY <1>1, <1>3, <1>5 DEF IInv, Floors, Busy
<1>8. BuiltAboveFloors'
  BY <1>3, <1>5 DEF IInv, BuiltAboveFloors, Busy
<1>9. RuntimeAboveFloors'
  BY <1>1, <1>3, <1>5 DEF IInv, RuntimeAboveFloors, Busy
<1>10. HolderActs'
  BY <1>1, <1>3, <1>5 DEF IInv, HolderActs, RuntimeAboveFloors, Busy
<1> QED BY <1>6, <1>7, <1>8, <1>9, <1>10 DEF IInv
\* A file is deleted between two native calls, or within one of another caller.
LEMMA DeletingGoesOn ==
  ASSUME IInv, NEW c \in Callers,
         job' = [job EXCEPT ![c].plan = Tail(@)], UNCHANGED native
  PROVE  GoesOn(c)
<1> DEFINE next == [job[c] EXCEPT !.plan = Tail(job[c].plan)]
<1>1. job[c] = [f \in Fields |-> job[c][f]]
  BY DEF IInv, Shape
<1>2. /\ next = [f \in Fields |-> next[f]]
      /\ next.floor = job[c].floor /\ next.flow = job[c].flow
      /\ next.made = job[c].made /\ next.using = job[c].using
      /\ next.phase = job[c].phase
  BY <1>1 DEF Fields
<1>3. Alone(c, next)
  BY DEF Alone
<1> HIDE DEF next
<1> QED BY <1>2, <1>3 DEF GoesOn, Keeps

LEMMA ReadIInv ==
  ASSUME IInv, NEW c \in Callers, Read(c)
  PROVE  IInv'
<1>1. UNCHANGED <<config, runtime>>
  BY DEF Read, disk
<1>2. CASE txt[Path(c)] = None
  <2>1. Leaves(c)
    BY <1>2, ReturnLeaves DEF Read, Fail
  <2> QED BY <1>1, <2>1, ConfigStays, LeavingKeepsIInv
<1>3. CASE txt[Path(c)] # None
  <2> DEFINE read == [path |-> Path(c), file |-> txt[Path(c)]]
             next == [job[c] EXCEPT !.plan = Tail(job[c].plan),
                                    !.draft = job[c].draft \cup {read}]
  <2>1. job[c] = [f \in Fields |-> job[c][f]]
    BY DEF IInv, Shape
  <2>2. /\ next = [f \in Fields |-> next[f]]
        /\ next.floor = job[c].floor /\ next.flow = job[c].flow
        /\ next.made = job[c].made /\ next.using = job[c].using
        /\ next.phase = job[c].phase
    BY <2>1 DEF Fields
  <2>3. Alone(c, next) /\ UNCHANGED native
    BY <1>3 DEF Read, Alone
  <2> HIDE DEF next
  <2>4. GoesOn(c)
    BY <2>2, <2>3 DEF GoesOn, Keeps
  <2> QED BY <1>1, <2>4, ConfigStays, GoingOnKeepsIInv
<1> QED BY <1>2, <1>3

LEMMA CollectIInv ==
  ASSUME IInv, NEW c \in Callers, Collect(c)
  PROVE  IInv'
<1>1. UNCHANGED <<config, runtime>>
  BY DEF Collect, disk
<1>2. CASE Fail(c)
  <2>1. Leaves(c)
    BY <1>2, ReturnLeaves DEF Fail
  <2> QED BY <1>1, <2>1, ConfigStays, LeavingKeepsIInv
<1>3. CASE ~Fail(c)
  <2> DEFINE next == [job[c] EXCEPT !.phase = "import", !.text = txt[Path(c)]]
  <2>1. job[c] = [f \in Fields |-> job[c][f]]
    BY DEF IInv, Shape
  <2>2. /\ next = [f \in Fields |-> next[f]]
        /\ next.floor = job[c].floor /\ next.flow = job[c].flow
        /\ next.made = job[c].made /\ next.using = job[c].using
        /\ next.phase = "import"
    BY <2>1 DEF Fields
  <2>3. Alone(c, next) /\ UNCHANGED native
    BY <1>3 DEF Collect, Alone
  <2> HIDE DEF next
  <2>4. GoesOn(c)
    BY <2>2, <2>3 DEF GoesOn, Keeps
  <2> QED BY <1>1, <2>4, ConfigStays, GoingOnKeepsIInv
<1> QED BY <1>2, <1>3

LEMMA ReplaceMonthIInv ==
  ASSUME IInv, NEW c \in Callers, ReplaceMonth(c)
  PROVE  IInv'
<1> DEFINE next == [job[c] EXCEPT !.phase = "stamp"]
<1>1. job[c] = [f \in Fields |-> job[c][f]]
  BY DEF IInv, Shape
<1>2. /\ next = [f \in Fields |-> next[f]]
      /\ next.floor = job[c].floor /\ next.flow = job[c].flow
      /\ next.made = job[c].made /\ next.using = job[c].using
      /\ next.phase = "stamp"
  BY <1>1 DEF Fields
<1>3. Alone(c, next) /\ UNCHANGED <<config, runtime, native>>
  BY DEF ReplaceMonth, Alone
<1> HIDE DEF next
<1>4. GoesOn(c)
  BY <1>2, <1>3 DEF GoesOn, Keeps
<1> QED BY <1>3, <1>4, ConfigStays, GoingOnKeepsIInv

LEMMA WipeIInv ==
  ASSUME IInv, NEW c \in Callers, Wipe(c)
  PROVE  IInv'
<1> DEFINE bounded == {config.edition + 1, MaxEdition}
<1>1. config.edition \in Nat /\ config.edition <= MaxEdition
  BY BoundAssumption DEF IInv, Shape
<1>2. bounded \in SUBSET Nat /\ bounded # {}
  BY <1>1, BoundAssumption
<1>3. Min(bounded) \in bounded /\ Min(bounded) <= MaxEdition
  BY <1>2, MinOfNaturals
<1>4. config' = [edition |-> Min(bounded), there |-> FALSE, loads |-> TRUE]
  BY DEF Wipe
<1> HIDE DEF bounded
<1>5. /\ Min(bounded) \in 0..MaxEdition
      /\ config.edition <= Min(bounded)
  BY <1>1, <1>3, BoundAssumption DEF bounded
<1>6. ConfigGrows
  BY <1>4, <1>5 DEF ConfigGrows
<1>7. GoesOn(c)
  BY DeletingGoesOn DEF Wipe
<1> QED BY <1>6, <1>7, GoingOnKeepsIInv DEF Wipe

LEMMA SaveConfigIInv ==
  ASSUME IInv, SaveConfig
  PROVE  IInv'
<1>1. PICK loads \in BOOLEAN :
        config' = [config EXCEPT !.edition = @ + 1, !.loads = loads]
  BY DEF SaveConfig
<1>2. config = [edition |-> config.edition, there |-> config.there,
                loads |-> config.loads]
  BY DEF IInv, Shape
<1>3. config' = [edition |-> config.edition + 1, there |-> config.there,
                 loads |-> loads]
  BY <1>1, <1>2
<1>4. ConfigGrows
  <2>1. /\ config'.edition = config.edition + 1 /\ config'.there = config.there
        /\ config'.loads = loads
    BY <1>3
  <2>2. config.edition \in Nat /\ config.edition < MaxEdition
    BY BoundAssumption DEF SaveConfig, IInv, Shape
  <2> QED BY <1>3, <2>1, <2>2, BoundAssumption DEF ConfigGrows
<1>5. job' = [c \in Callers |-> [job[c] EXCEPT !.calm = ~Busy(c)]]
  BY DEF SaveConfig
<1>6. \A c \in Callers : job[c] = [f \in Fields |-> job[c][f]]
  BY DEF IInv, Shape
<1>7. \A c \in Callers :
        /\ job'[c] = [f \in Fields |-> job'[c][f]]
        /\ job'[c].floor = job[c].floor /\ job'[c].made = job[c].made
        /\ job'[c].flow = job[c].flow /\ job'[c].phase = job[c].phase
        /\ job'[c].using = job[c].using
  BY <1>5, <1>6 DEF Fields
<1>8. UNCHANGED <<runtime, native>>
  BY DEF SaveConfig
<1>9. Shape'
  BY <1>4, <1>5, <1>7 DEF IInv, Shape, ConfigGrows
<1>10. Floors'
  <2>1. config.edition \in Nat /\ config'.edition \in Nat
        /\ config.edition <= config'.edition
    BY <1>4, BoundAssumption DEF IInv, Shape, ConfigGrows
  <2>2. ASSUME NEW c \in Callers, Busy(c)
        PROVE  job[c].floor <= config'.edition
    BY <2>1, <2>2 DEF IInv, Shape, Floors
  <2>3. \A c \in Callers : Busy(c)' <=> Busy(c)
    BY <1>7 DEF Busy
  <2> QED BY <1>7, <2>2, <2>3 DEF Floors
<1>11. BuiltAboveFloors' /\ RuntimeAboveFloors'
  BY <1>7, <1>8 DEF IInv, BuiltAboveFloors, RuntimeAboveFloors, Busy
<1>12. HolderActs'
  BY <1>7, <1>8 DEF IInv, HolderActs, Busy
<1> QED BY <1>9, <1>10, <1>11, <1>12 DEF IInv

\* The steps of a flow that only work on files and the database, or end it.
LEMMA StepIInv ==
  ASSUME IInv, NEW c \in Callers, Step(c)
  PROVE  IInv'
<1> USE DEF disk, counts
<1>1. CASE Create(c)
  BY <1>1, CreateIInv
<1>2. CASE CreateFails(c)
  <2>1. Leaves(c) /\ ConfigGrows
    BY <1>2, ReturnLeaves, PreparedGrows DEF CreateFails, Fail
  <2> QED BY <1>2, <2>1, LeavingKeepsIInv DEF CreateFails
<1>3. CASE PathsGone(c) \/ InspectUnasked(c) \/ Inspect(c) \/ ClearStatuses(c)
           \/ Validate(c) \/ WriteTxt(c) \/ EraseTxts(c) \/ Reset(c)
  <2>1. Leaves(c)
    BY <1>3, ReturnLeaves, ProceedLeaves
       DEF PathsGone, InspectUnasked, Inspect, Verdict, ClearStatuses, Validate,
           WriteTxt, EraseTxts, Reset, Done, Fail
  <2>2. UNCHANGED <<config, runtime>>
    BY <1>3 DEF PathsGone, InspectUnasked, Inspect, ClearStatuses, Validate,
                WriteTxt, EraseTxts, Reset
  <2> QED BY <2>1, <2>2, ConfigStays, LeavingKeepsIInv
<1>4. CASE Read(c)
  BY <1>4, ReadIInv
<1>5. CASE Collect(c)
  BY <1>5, CollectIInv
<1>6. CASE ReplaceMonth(c)
  BY <1>6, ReplaceMonthIInv
<1>7. CASE Stamp(c)
  <2>1. Leaves(c)
    BY <1>7, ReturnLeaves, ProceedLeaves DEF Stamp, Done, Fail
  <2> QED BY <1>7, <2>1, ConfigStays, LeavingKeepsIInv DEF Stamp
<1>8. CASE DropDatabase(c)
  <2>1. GoesOn(c)
    BY <1>8, DeletingGoesOn DEF DropDatabase
  <2> QED BY <1>8, <2>1, ConfigStays, GoingOnKeepsIInv DEF DropDatabase
<1>9. CASE Wipe(c)
  BY <1>9, WipeIInv
<1> QED
  BY <1>1, <1>2, <1>3, <1>4, <1>5, <1>6, <1>7, <1>8, <1>9 DEF Step

LEMMA NextIInv == IInv /\ [Next]_vars => IInv'
<1> SUFFICES ASSUME IInv, [Next]_vars PROVE IInv'
  OBVIOUS
<1>1. ASSUME NEW c \in Callers, StartSync(c) \/ StartFlow(c) PROVE IInv'
  BY <1>1, StartIInv DEF StartSync, StartFlow
<1>2. ASSUME NEW c \in Callers, Step(c) PROVE IInv'
  BY <1>2, StepIInv
<1>3. ASSUME NEW c \in Callers, TakesMutex(c) PROVE IInv'
  BY <1>3, SwapIInv, EnterIInv DEF TakesMutex
<1>4. ASSUME NEW c \in Callers, StatementFails(c) PROVE IInv'
  <2>1. Leaves(c)
    BY <1>4, ReturnLeaves DEF StatementFails, Fail
  <2> QED BY <1>4, <2>1, ConfigStays, LeavingKeepsIInv DEF StatementFails, disk
<1>5. CASE SaveConfig
  BY <1>5, SaveConfigIInv
<1>6. CASE UNCHANGED vars
  BY <1>6 DEF IInv, Shape, Floors, BuiltAboveFloors, RuntimeAboveFloors,
              HolderActs, Busy, vars
<1> QED BY <1>1, <1>2, <1>3, <1>4, <1>5, <1>6 DEF Next

-----------------------------------------------------------------------------
(* Theorems.                                                               *)

LEMMA SpecIInv == Spec => []IInv
  BY InitIInv, NextIInv, PTL DEF Spec

\* A native call works with a configuration no older than the oldest that a
\* call running at its start had been able to meet: the two native calls of
\* NativeCallExecutor.kt may be parted by any number of other callers.
THEOREM ConfigAlwaysCurrent == Spec => []ConfigIsCurrent
<1>1. IInv => ConfigIsCurrent
  BY DEF IInv, HolderActs, ConfigIsCurrent, Shape
<1> QED BY <1>1, SpecIInv, PTL

\* Whoever holds g_runtime_mutex is inside a native call: every way out of one,
\* the failures included, gives the mutex back.
MutexGivenBack ==
  /\ native \in Callers \cup {None}
  /\ \A c \in Callers :
       native = c => Busy(c) /\ job[c].phase \in {"act", "import", "stamp"}

THEOREM MutexAlwaysGivenBack == Spec => []MutexGivenBack
<1>1. IInv => MutexGivenBack
  BY DEF IInv, HolderActs, MutexGivenBack
<1> QED BY <1>1, SpecIInv, PTL

-----------------------------------------------------------------------------
(* Plans.                                                                  *)

Ops == {"read", "list", "clear", "ingest", "structure", "logic", "write",
        "drop", "reset", "erase", "wipe", "init"}
PlanSteps == [op : Ops, path : Paths \cup {None}]

\* The paths at which a plan still has a step to make.
Left(op, plan) ==
  {p \in Paths : \E i \in 1..Len(plan) : plan[i].op = op /\ plan[i].path = p}

\* A path has as many before it as no other has.
LEMMA RankIsInjective ==
  ASSUME NEW P \in SUBSET Nat, IsFiniteSet(P), NEW p \in P, NEW r \in P,
         Cardinality({q \in P : q < p}) = Cardinality({q \in P : q < r})
  PROVE  p = r
<1>1. ASSUME NEW a \in P, NEW b \in P, a < b
      PROVE  Cardinality({q \in P : q < a}) # Cardinality({q \in P : q < b})
  <2> DEFINE A == {q \in P : q < a}
             B == {q \in P : q < b}
  <2>1. A \in SUBSET B /\ a \in B /\ a \notin A
    <3>1. P \subseteq Nat
      OBVIOUS
    <3>2. \A q \in P : q < a => q < b
      BY <1>1, <3>1
    <3>3. ~(a < a)
      BY <3>1
    <3> QED BY <1>1, <3>2, <3>3
  <2>2. IsFiniteSet(B)
    BY FS_Subset
  <2>3. A # B
    BY <2>1
  <2> HIDE DEF A, B
  <2>4. Cardinality(A) # Cardinality(B)
    BY <2>1, <2>2, <2>3, FS_Subset
  <2> QED BY <2>4 DEF A, B
<1>2. p < r \/ r < p \/ p = r
  OBVIOUS
<1> QED BY <1>1, <1>2

\* The paths of a finite set in their order: every one of them is gone through.
LEMMA PathsInOrder ==
  ASSUME NEW P \in SUBSET Nat, IsFiniteSet(P)
  PROVE  /\ Cardinality(P) \in Nat
         /\ InPathOrder(P) \in [1..Cardinality(P) -> P]
         /\ \A p \in P : \E i \in 1..Cardinality(P) : InPathOrder(P)[i] = p
<1> DEFINE n == Cardinality(P)
           rank == [p \in P |-> Cardinality({q \in P : q < p})]
<1>1. n \in Nat
  BY FS_CardinalityType
<1>2. ASSUME NEW p \in P
      PROVE  rank[p] \in 0..(n - 1)
  <2> DEFINE A == {q \in P : q < p}
  <2>1. A \in SUBSET P /\ p \notin A
    OBVIOUS
  <2>2. A # P
    BY <2>1
  <2> HIDE DEF A
  <2>3. Cardinality(A) \in Nat /\ Cardinality(A) <= n /\ Cardinality(A) # n
    BY <2>1, <2>2, FS_Subset, FS_CardinalityType
  <2>4. rank[p] = Cardinality(A)
    BY DEF A
  <2> HIDE DEF n, rank
  <2> QED BY <1>1, <2>3, <2>4
<1>3. \A p, r \in P : rank[p] = rank[r] => p = r
  BY RankIsInjective
<1>4. rank \in [P -> 0..(n - 1)]
  BY <1>2
<1>5. rank \in Surjection(P, 0..(n - 1))
  <2>1. rank \in Injection(P, 0..(n - 1))
    <3> HIDE DEF rank, n
    <3> QED BY <1>3, <1>4, Fun_IsInj
  <2>2. IsFiniteSet(0..(n - 1)) /\ Cardinality(0..(n - 1)) = n
    <3> HIDE DEF n
    <3> QED BY <1>1, FS_Interval
  <2> HIDE DEF rank
  <2> QED BY <2>1, <2>2, FS_Injection
<1>6. ASSUME NEW i \in 1..n
      PROVE  \E p \in P : Cardinality({q \in P : q < p}) = i - 1
  <2> HIDE DEF n
  <2>1. i - 1 \in 0..(n - 1)
    BY <1>1
  <2>2. PICK p \in P : rank[p] = i - 1
    <3> HIDE DEF rank
    <3> QED BY <1>5, <2>1 DEF Surjection
  <2> QED BY <2>2
<1>7. InPathOrder(P) \in [1..n -> P]
  BY <1>6 DEF InPathOrder
<1>8. ASSUME NEW p \in P
      PROVE  \E i \in 1..n : InPathOrder(P)[i] = p
  <2> DEFINE i == rank[p] + 1
  <2>1. i \in 1..n /\ i - 1 = rank[p]
    <3> HIDE DEF rank, n
    <3> QED BY <1>1, <1>2
  <2>2. \A r \in P : Cardinality({q \in P : q < r}) = i - 1 => r = p
    <3>1. i - 1 = Cardinality({q \in P : q < p})
      BY <2>1
    <3> HIDE DEF i
    <3> QED BY <3>1, RankIsInjective
  <2>3. \E r \in P : Cardinality({q \in P : q < r}) = i - 1
    BY <1>6, <2>1
  <2> HIDE DEF i
  <2>4. (CHOOSE r \in P : Cardinality({q \in P : q < r}) = i - 1) = p
    BY <2>2, <2>3
  <2> HIDE DEF rank
  <2> QED BY <2>1, <2>4 DEF InPathOrder
<1> QED BY <1>1, <1>7, <1>8

LEMMA EachOnPaths ==
  ASSUME NEW op \in Ops, NEW P \in SUBSET Paths
  PROVE  /\ Each(op, P) \in Seq(PlanSteps)
         /\ \A i \in 1..Len(Each(op, P)) :
              Each(op, P)[i].op = op /\ Each(op, P)[i].path \in P
         /\ \A p \in P : \E i \in 1..Len(Each(op, P)) : Each(op, P)[i].path = p
<1> DEFINE n == Cardinality(P)
           each == Each(op, P)
<1>1. P \in SUBSET Nat /\ IsFiniteSet(P)
  BY NamesAssumption, FS_Subset
<1>2. /\ n \in Nat /\ InPathOrder(P) \in [1..n -> P]
      /\ \A p \in P : \E i \in 1..n : InPathOrder(P)[i] = p
  BY <1>1, PathsInOrder
<1>3. each = [i \in 1..n |-> [op |-> op, path |-> InPathOrder(P)[i]]]
  BY <1>2 DEF Each, At
<1> HIDE DEF n, each
<1>4. \A i \in 1..n : each[i] \in PlanSteps /\ each[i].op = op /\ each[i].path \in P
  BY <1>2, <1>3 DEF PlanSteps
<1>5. each \in [1..n -> PlanSteps]
  BY <1>3, <1>4
<1>6. each \in Seq(PlanSteps) /\ Len(each) = n
  BY <1>2, <1>5
<1>7. \A p \in P : \E i \in 1..n : each[i].path = p
  BY <1>2, <1>3
<1> QED BY <1>4, <1>6, <1>7 DEF each

LEMMA TailOfPlan ==
  ASSUME NEW plan \in Seq(PlanSteps), plan # <<>>
  PROVE  /\ Len(plan) \in Nat /\ Len(plan) >= 1
         /\ Head(plan) = plan[1] /\ plan[1] \in PlanSteps
         /\ Tail(plan) \in Seq(PlanSteps)
         /\ Len(Tail(plan)) = Len(plan) - 1
         /\ \A i \in 1..(Len(plan) - 1) : Tail(plan)[i] = plan[i + 1]
         /\ Tail(plan) # <<>> <=> Len(plan) # 1
         /\ \A op : Left(op, Tail(plan)) \subseteq Left(op, plan)
         /\ \A op : Left(op, plan) \subseteq
              Left(op, Tail(plan)) \cup {p \in {plan[1].path} : plan[1].op = op}
<1>1. /\ Len(plan) \in Nat /\ Len(plan) >= 1
      /\ Head(plan) = plan[1] /\ plan[1] \in PlanSteps
      /\ Tail(plan) \in Seq(PlanSteps)
      /\ Len(Tail(plan)) = Len(plan) - 1
      /\ \A i \in 1..(Len(plan) - 1) : Tail(plan)[i] = plan[i + 1]
      /\ Tail(plan) # <<>> <=> Len(plan) # 1
  <2>1. /\ Len(plan) \in Nat /\ Len(plan) # 0
        /\ plan \in [1..Len(plan) -> PlanSteps]
    BY EmptySeq, LenProperties
  <2>2. Head(plan) = plan[1] /\ plan[1] \in PlanSteps
    BY <2>1
  <2>3. /\ Tail(plan) \in Seq(PlanSteps) /\ Len(Tail(plan)) = Len(plan) - 1
        /\ \A i \in 1..(Len(plan) - 1) : Tail(plan)[i] = plan[i + 1]
    BY <2>1, HeadTailProperties
  <2>4. Tail(plan) # <<>> <=> Len(plan) # 1
    BY <2>1, <2>3, EmptySeq
  <2> QED BY <2>1, <2>2, <2>3, <2>4
<1>2. ASSUME NEW op, NEW p \in Left(op, Tail(plan))
      PROVE  p \in Left(op, plan)
  <2>1. PICK i \in 1..(Len(plan) - 1) : Tail(plan)[i].op = op /\ Tail(plan)[i].path = p
    BY <1>1, <1>2 DEF Left
  <2>2. i + 1 \in 1..Len(plan) /\ plan[i + 1].op = op /\ plan[i + 1].path = p
    BY <1>1, <2>1
  <2> QED BY <2>2, <1>2 DEF Left
<1>3. ASSUME NEW op, NEW p \in Left(op, plan), ~(plan[1].op = op /\ plan[1].path = p)
      PROVE  p \in Left(op, Tail(plan))
  <2>1. PICK i \in 1..Len(plan) : plan[i].op = op /\ plan[i].path = p
    BY <1>3 DEF Left
  <2>2. i - 1 \in 1..(Len(plan) - 1) /\ (i - 1) + 1 = i
    BY <1>1, <1>3, <2>1
  <2>3. Tail(plan)[i - 1] = plan[i]
    BY <1>1, <2>2
  <2> QED BY <1>1, <1>3, <2>1, <2>2, <2>3 DEF Left
<1> QED BY <1>1, <1>2, <1>3

-----------------------------------------------------------------------------
(* What every flow respects, disturbed or not.                             *)

\* A file deleted, a configuration wiped or a TXT read is never the last step.
PlanFits(plan) ==
  /\ plan \in Seq(PlanSteps) /\ plan # <<>>
  /\ plan[Len(plan)].op \notin {"read", "drop", "wipe"}
  /\ \A i \in 1..Len(plan) :
       plan[i].op \in {"read", "ingest"} => plan[i].path \in Paths

JobFits(j) ==
  j.flow # "none" =>
    /\ PlanFits(j.plan)
    /\ \A d \in j.draft : d.path \in Paths
    /\ (\E i \in 1..Len(j.plan) : j.plan[i].op = "write") => j.text \in TxtFiles

DataFits ==
  /\ txt \in [Paths -> TxtFiles \cup {None}]
  /\ rows = [m \in Months |-> rows[m]]
  /\ stamp = [m \in Months |-> stamp[m]]

\* A flow is calm only while it is alone.
Lonely ==
  \A c, d \in Callers : (Busy(c) /\ job[c].calm /\ Busy(d)) => c = d

CutWhileStamping ==
  \A c \in cut : /\ c \in Callers /\ Busy(c) /\ ~job[c].calm
                 /\ Op(c) = "ingest" /\ job[c].phase = "stamp"

Unanswered ==
  /\ answer = [c \in Callers |-> answer[c]]
  /\ \A c \in Callers : Busy(c) => answer[c] = "none"

FlowsFit ==
  /\ IInv /\ DataFits /\ Lonely /\ CutWhileStamping /\ Unanswered
  /\ \A c \in Callers : JobFits(job[c])

\* What a step of c may do to c and to the others.
Work(c, next) ==
  /\ Alone(c, next)
  /\ \/ /\ next = Idle
        /\ \E result : answer' = [answer EXCEPT ![c] = result]
     \/ /\ JobFits(next) /\ next.flow = job[c].flow /\ next.calm = job[c].calm
        /\ UNCHANGED answer
  /\ cut' \subseteq (cut \cup Stamping) \ {c}

LEMMA WorkFits ==
  ASSUME FlowsFit, IInv', NEW c \in Callers, Busy(c), NEW next, Work(c, next),
         DataFits'
  PROVE  FlowsFit'
<1>1. /\ job'[c] = next
      /\ \A d \in Callers \ {c} : job'[d] = job[d]
  BY OthersUntouched DEF Work, FlowsFit, IInv
<1>2. next = Idle \/ (JobFits(next) /\ next.flow = job[c].flow
                      /\ next.calm = job[c].calm)
  BY DEF Work
<1>3. Idle.flow = "none"
  BY DEF Idle
<1>4. \A d \in Callers : JobFits(job[d])'
  <2>1. JobFits(next)
    BY <1>2, <1>3 DEF JobFits
  <2>2. \A d \in Callers : JobFits(job'[d])
    BY <1>1, <2>1 DEF FlowsFit
  <2> QED BY <2>2 DEF JobFits, PlanFits, Left
<1>5. Lonely'
  BY <1>1, <1>2, <1>3 DEF Lonely, Busy, FlowsFit
<1>6. CutWhileStamping'
  <2> SUFFICES ASSUME NEW d \in cut'
               PROVE  /\ d \in Callers /\ Busy(d)' /\ ~job'[d].calm
                      /\ Op(d)' = "ingest" /\ job'[d].phase = "stamp"
    BY DEF CutWhileStamping
  <2>1. d # c /\ (d \in cut \/ d \in Stamping)
    BY DEF Work
  <2>2. /\ d \in Callers /\ Busy(d)
        /\ Op(d) = "ingest" /\ job[d].phase = "stamp"
    BY <2>1 DEF Stamping, CutWhileStamping, FlowsFit
  <2>3. ~job[d].calm
    BY <2>1, <2>2 DEF Lonely, FlowsFit
  <2>4. job'[d] = job[d]
    BY <1>1, <2>1, <2>2
  <2> QED BY <2>2, <2>3, <2>4 DEF Busy, Op
<1>7. Unanswered'
  <2>1. CASE next = Idle
    BY <1>1, <1>3, <2>1 DEF Unanswered, FlowsFit, Work, Busy
  <2>2. CASE next # Idle
    BY <1>1, <1>2, <2>2 DEF Unanswered, FlowsFit, Work, Busy
  <2> QED BY <2>1, <2>2
<1> QED BY <1>4, <1>5, <1>6, <1>7 DEF FlowsFit

\* The two ways out of a native call.
LEMMA ReturnWorks ==
  ASSUME FlowsFit, NEW c \in Callers, NEW result, Return(c, result)
  PROVE  Work(c, Idle)
  BY DEF Return, Work, Alone, Stamping

LEMMA ProceedWorks ==
  ASSUME FlowsFit, NEW c \in Callers, Busy(c), NEW rest, Proceed(c, rest),
         rest # <<>> =>
           /\ PlanFits(rest)
           /\ (\E i \in 1..Len(rest) : rest[i].op = "write")
                => job[c].text \in TxtFiles
  PROVE  \E next : Work(c, next)
<1>1. CASE rest = <<>>
  BY <1>1, ReturnWorks DEF Proceed
<1>2. CASE rest # <<>>
  <2> DEFINE next == [job[c] EXCEPT !.plan = rest, !.phase = "init",
                                    !.using = None]
  <2>1. job[c] = [f \in Fields |-> job[c][f]]
    BY DEF FlowsFit, IInv, Shape
  <2>2. /\ next.plan = rest /\ next.flow = job[c].flow
        /\ next.draft = job[c].draft /\ next.text = job[c].text
        /\ next.calm = job[c].calm
    BY <2>1 DEF Fields
  <2>3. Alone(c, next) /\ UNCHANGED answer /\ cut' = cut \ {c}
    BY <1>2 DEF Proceed, Alone
  <2> HIDE DEF next
  <2>4. JobFits(next)
    BY <1>2, <2>2 DEF JobFits, FlowsFit, Busy
  <2> QED BY <2>2, <2>3, <2>4 DEF Work
<1> QED BY <1>1, <1>2

LEMMA DoneWorks ==
  ASSUME FlowsFit, NEW c \in Callers, Busy(c), Done(c)
  PROVE  \E next : Work(c, next)
<1> DEFINE plan == job[c].plan
<1>1. /\ PlanFits(plan)
      /\ (\E i \in 1..Len(plan) : plan[i].op = "write") => job[c].text \in TxtFiles
  BY DEF FlowsFit, JobFits, Busy
<1>2. Proceed(c, Tail(plan))
  BY DEF Done
<1> HIDE DEF plan
<1>3. /\ Len(plan) \in Nat /\ Len(plan) >= 1
      /\ Tail(plan) \in Seq(PlanSteps)
      /\ Len(Tail(plan)) = Len(plan) - 1
      /\ \A i \in 1..(Len(plan) - 1) : Tail(plan)[i] = plan[i + 1]
      /\ Tail(plan) # <<>> <=> Len(plan) # 1
  BY <1>1, TailOfPlan DEF PlanFits
<1>4. Tail(plan) # <<>> => PlanFits(Tail(plan))
  BY <1>1, <1>3 DEF PlanFits
<1>5. (\E i \in 1..Len(Tail(plan)) : Tail(plan)[i].op = "write")
        => job[c].text \in TxtFiles
  BY <1>1, <1>3
<1> QED BY <1>2, <1>4, <1>5, ProceedWorks

LEMMA InitFits == Init => FlowsFit
<1> SUFFICES ASSUME Init PROVE FlowsFit
  OBVIOUS
<1>1. \A c \in Callers : job[c].flow = "none"
  BY DEF Init, Idle
<1>2. DataFits
  BY InitialAssumption DEF Init, DataFits
<1>3. Lonely /\ Unanswered /\ \A c \in Callers : JobFits(job[c])
  BY <1>1 DEF Lonely, Unanswered, JobFits, Busy, Init
<1>4. CutWhileStamping
  BY DEF Init, CutWhileStamping
<1> QED BY <1>2, <1>3, <1>4, InitIInv DEF FlowsFit

\* What a synchronisation sets out to do: read every TXT there is, then ask
\* for the statuses.
LEMMA SyncSetsOut ==
  ASSUME DataFits
  PROVE  LET plan == Each("read", Present) \o <<Local("list")>>
         IN /\ PlanFits(plan)
            /\ plan[Len(plan)].op = "list"
            /\ \A i \in 1..(Len(plan) - 1) : plan[i].op = "read"
            /\ Present \subseteq Left("read", plan)
<1> DEFINE reads == Each("read", Present)
           last  == Local("list")
           plan  == reads \o <<last>>
           n     == Len(reads)
<1>1. Present \in SUBSET Paths
  BY DEF Present
<1>2. /\ reads \in Seq(PlanSteps)
      /\ \A i \in 1..n : reads[i].op = "read" /\ reads[i].path \in Present
      /\ \A p \in Present : \E i \in 1..n : reads[i].path = p
  BY <1>1, EachOnPaths DEF Ops
<1>3. last \in PlanSteps /\ last.op = "list"
  BY DEF Local, PlanSteps, Ops
<1> HIDE DEF reads, last
<1>4. /\ n \in Nat /\ Len(plan) = n + 1 /\ plan \in Seq(PlanSteps)
      /\ \A i \in 1..n : plan[i] = reads[i]
      /\ plan[n + 1] = last
  BY <1>2, <1>3
<1> HIDE DEF plan, n
<1>5. /\ plan[Len(plan)].op = "list"
      /\ \A i \in 1..(Len(plan) - 1) : plan[i].op = "read" /\ plan[i].path \in Present
  BY <1>2, <1>3, <1>4
<1>6. \A i \in 1..Len(plan) : i = Len(plan) \/ i \in 1..(Len(plan) - 1)
  BY <1>4
<1>7. PlanFits(plan)
  <2>1. plan # <<>>
    BY <1>4, EmptySeq
  <2> QED BY <1>1, <1>4, <1>5, <1>6, <2>1 DEF PlanFits
<1>8. Present \subseteq Left("read", plan)
  <2> SUFFICES ASSUME NEW p \in Present PROVE p \in Left("read", plan)
    OBVIOUS
  <2>1. PICK i \in 1..n : reads[i].path = p
    BY <1>2
  <2>2. i \in 1..Len(plan) /\ plan[i].op = "read" /\ plan[i].path = p
    BY <1>2, <1>4, <2>1
  <2> QED BY <1>1, <2>2 DEF Left
<1>9. plan = Each("read", Present) \o <<Local("list")>>
  BY DEF plan, reads, last
<1> QED BY <1>5, <1>7, <1>8, <1>9

LEMMA FlowSetsOut ==
  ASSUME DataFits, NEW f,
         f.flow = "sync" \/ f \in Flows
  PROVE  /\ PlanFits(PlanOf(f))
         /\ (\E i \in 1..Len(PlanOf(f)) : PlanOf(f)[i].op = "write")
              => f.file \in TxtFiles
<1> DEFINE plan == PlanOf(f)
<1>1. CASE f.flow = "sync"
  <2>1. plan = Each("read", Present) \o <<Local("list")>>
    BY <1>1 DEF PlanOf
  <2>2. /\ PlanFits(plan) /\ plan[Len(plan)].op = "list"
        /\ \A i \in 1..(Len(plan) - 1) : plan[i].op = "read"
    BY <2>1, SyncSetsOut
  <2> HIDE DEF plan
  <2>3. \A i \in 1..Len(plan) : i = Len(plan) \/ i \in 1..(Len(plan) - 1)
    <3>1. Len(plan) \in Nat
      BY <2>2, LenProperties DEF PlanFits
    <3> QED BY <3>1
  <2>4. \A i \in 1..Len(plan) : plan[i].op # "write"
    BY <2>2, <2>3
  <2> QED BY <2>2, <2>4 DEF plan
<1>2. CASE f.flow = "import" /\ f \in Flows
  <2>1. f.file \in [month : Months, body : Bodies]
    BY <1>2, FlowsAssumption
  <2>2. f.file \in TxtFiles
    BY <2>1 DEF TxtFiles
  <2>3. Home[f.file.month] \in Paths
    BY <2>1, NamesAssumption
  <2>4. plan = <<Local("structure"), Local("logic"),
                 At("write", Home[f.file.month]), At("ingest", Home[f.file.month])>>
    BY <1>2 DEF PlanOf
  <2> HIDE DEF plan
  <2>5. PlanFits(plan)
    BY <2>3, <2>4 DEF PlanFits, PlanSteps, Ops, Local, At
  <2> QED BY <2>2, <2>5 DEF plan
<1>3. CASE f.flow = "clearDb"
  <2>1. plan = <<Local("drop"), Local("reset")>>
    BY <1>3 DEF PlanOf
  <2> HIDE DEF plan
  <2>2. PlanFits(plan) /\ \A i \in 1..Len(plan) : plan[i].op # "write"
    BY <2>1 DEF PlanFits, PlanSteps, Ops, Local
  <2> QED BY <2>2 DEF plan
<1>4. CASE f.flow = "clearTxt"
  <2>1. plan = <<Local("erase"), Local("clear")>>
    BY <1>4 DEF PlanOf
  <2> HIDE DEF plan
  <2>2. PlanFits(plan) /\ \A i \in 1..Len(plan) : plan[i].op # "write"
    BY <2>1 DEF PlanFits, PlanSteps, Ops, Local
  <2> QED BY <2>2 DEF plan
<1>5. CASE f.flow = "wipe"
  <2>1. plan = <<Local("wipe"), Local("reset"), Local("init")>>
    BY <1>5 DEF PlanOf
  <2> HIDE DEF plan
  <2>2. PlanFits(plan) /\ \A i \in 1..Len(plan) : plan[i].op # "write"
    BY <2>1 DEF PlanFits, PlanSteps, Ops, Local
  <2> QED BY <2>2 DEF plan
<1> HIDE DEF plan
<1> QED BY <1>1, <1>2, <1>3, <1>4, <1>5, FlowsAssumption DEF FlowNames, plan

\* An edit, or another flow that starts, only takes the calm of a flow.
LEMMA CalmOnly ==
  ASSUME NEW j, NEW k, NEW calm, j = [g \in Fields |-> j[g]],
         k = [j EXCEPT !.calm = calm]
  PROVE  /\ k.flow = j.flow /\ k.plan = j.plan /\ k.draft = j.draft
         /\ k.text = j.text /\ k.phase = j.phase /\ k.calm = calm
  BY DEF Fields

LEMMA OthersOnlyCalmed ==
  ASSUME FlowsFit, NEW c \in Callers, NEW f, Start(c, f), NEW d \in Callers \ {c}
  PROVE  /\ job'[d].flow = job[d].flow /\ job'[d].plan = job[d].plan
         /\ job'[d].draft = job[d].draft /\ job'[d].text = job[d].text
         /\ job'[d].phase = job[d].phase /\ job'[d].calm = ~Busy(d)
<1>1. job'[d] = [job[d] EXCEPT !.calm = ~Busy(d)]
  BY DEF Start
<1>2. job[d] = [g \in Fields |-> job[d][g]]
  BY DEF FlowsFit, IInv, Shape
<1> QED BY <1>1, <1>2, CalmOnly

LEMMA StartFits ==
  ASSUME FlowsFit, NEW c \in Callers, NEW f, Start(c, f), IInv',
         f.flow = "sync" \/ f \in Flows
  PROVE  FlowsFit'
<1> DEFINE others == {d \in Callers : Busy(d)}
           since  == Min({config.edition} \cup {job[d].floor : d \in others})
           begun  == [Idle EXCEPT !.flow = f.flow, !.plan = PlanOf(f),
                                  !.text = f.file, !.floor = since,
                                  !.calm = (others = {})]
<1>1. job' = [d \in Callers |-> IF d = c THEN begun
                                ELSE [job[d] EXCEPT !.calm = ~Busy(d)]]
  BY DEF Start
<1>2. /\ begun.plan = PlanOf(f) /\ begun.draft = {} /\ begun.text = f.file
      /\ begun.calm <=> (others = {})
  BY DEF Idle
<1>4. \A d \in Callers \ {c} :
        /\ job'[d].flow = job[d].flow /\ job'[d].plan = job[d].plan
        /\ job'[d].draft = job[d].draft /\ job'[d].text = job[d].text
        /\ job'[d].phase = job[d].phase /\ job'[d].calm = ~Busy(d)
  BY OthersOnlyCalmed
<1>5. job'[c] = begun
  BY <1>1
<1> HIDE DEF begun
<1>6. /\ UNCHANGED <<txt, rows, stamp, cut>> /\ ~Busy(c)
      /\ answer' = [answer EXCEPT ![c] = "none"]
  BY DEF Start, disk
<1>7. DataFits'
  BY <1>6 DEF FlowsFit, DataFits
<1>8. \A d \in Callers : JobFits(job[d])'
  <2>1. JobFits(begun)
    BY <1>2, FlowSetsOut DEF JobFits, FlowsFit
  <2>2. \A d \in Callers \ {c} : JobFits(job'[d])
    BY <1>4 DEF JobFits, FlowsFit
  <2>3. \A d \in Callers : JobFits(job'[d])
    BY <1>5, <2>1, <2>2
  <2> QED BY <2>3 DEF JobFits, PlanFits, Left
<1>9. Lonely'
  <2> SUFFICES ASSUME NEW d \in Callers, NEW e \in Callers, Busy(d)', Busy(e)',
                      job'[d].calm, d # e
               PROVE  FALSE
    BY DEF Lonely
  <2>1. CASE d = c
    <3>1. others = {}
      BY <1>2, <1>5, <2>1
    <3>2. Busy(e)
      BY <1>4, <2>1 DEF Busy
    <3> QED BY <3>1, <3>2
  <2>2. CASE d # c
    BY <1>4, <2>2 DEF Busy
  <2> QED BY <2>1, <2>2
<1>10. CutWhileStamping'
  <2> SUFFICES ASSUME NEW d \in cut'
               PROVE  /\ d \in Callers /\ Busy(d)' /\ ~job'[d].calm
                      /\ Op(d)' = "ingest" /\ job'[d].phase = "stamp"
    BY DEF CutWhileStamping
  <2>1. /\ d \in Callers /\ Busy(d) /\ Op(d) = "ingest"
        /\ job[d].phase = "stamp"
    BY <1>6 DEF CutWhileStamping, FlowsFit
  <2>2. d # c
    BY <1>6, <2>1
  <2> QED BY <1>4, <2>1, <2>2 DEF Busy, Op
<1>11. Unanswered'
  BY <1>4, <1>6 DEF Unanswered, FlowsFit, Busy
<1> QED BY <1>7, <1>8, <1>9, <1>10, <1>11 DEF FlowsFit

LEMMA SaveConfigFits ==
  ASSUME FlowsFit, SaveConfig, IInv'
  PROVE  FlowsFit'
<1>1. \A d \in Callers : job[d] = [g \in Fields |-> job[d][g]]
  BY DEF FlowsFit, IInv, Shape
<1>2. \A d \in Callers :
        /\ job'[d].flow = job[d].flow /\ job'[d].plan = job[d].plan
        /\ job'[d].draft = job[d].draft /\ job'[d].text = job[d].text
        /\ job'[d].phase = job[d].phase /\ job'[d].calm = ~Busy(d)
  <2> TAKE d \in Callers
  <2>1. job'[d] = [job[d] EXCEPT !.calm = ~Busy(d)]
    BY DEF SaveConfig
  <2>2. job[d] = [g \in Fields |-> job[d][g]]
    BY <1>1
  <2> QED BY <2>1, <2>2, CalmOnly
<1>3. UNCHANGED <<txt, rows, stamp, cut, answer>>
  BY DEF SaveConfig
<1>4. DataFits'
  BY <1>3 DEF FlowsFit, DataFits
<1>5. \A d \in Callers : JobFits(job[d])'
  <2>1. \A d \in Callers : JobFits(job'[d])
    BY <1>2 DEF JobFits, FlowsFit
  <2> QED BY <2>1 DEF JobFits, PlanFits, Left
<1>6. Lonely'
  BY <1>2 DEF Lonely, Busy
<1>7. CutWhileStamping'
  BY <1>2, <1>3 DEF CutWhileStamping, FlowsFit, Busy, Op
<1>8. Unanswered'
  BY <1>2, <1>3 DEF Unanswered, FlowsFit, Busy
<1> QED BY <1>4, <1>5, <1>6, <1>7, <1>8 DEF FlowsFit

LEMMA FirstStep ==
  ASSUME FlowsFit, NEW c \in Callers, Busy(c)
  PROVE  /\ job[c].plan \in Seq(PlanSteps) /\ job[c].plan # <<>>
         /\ Len(job[c].plan) \in Nat /\ Len(job[c].plan) >= 1
         /\ Head(job[c].plan) = job[c].plan[1]
         /\ Op(c) = job[c].plan[1].op /\ Path(c) = job[c].plan[1].path
<1>1. job[c].plan \in Seq(PlanSteps) /\ job[c].plan # <<>>
  BY DEF FlowsFit, JobFits, PlanFits, Busy
<1> QED BY <1>1, TailOfPlan DEF Op, Path

\* The files and rows a step leaves behind are still TXTs and rows.
LEMMA StepKeepsData ==
  ASSUME FlowsFit, NEW c \in Callers, Step(c) \/ TakesMutex(c) \/ StatementFails(c)
  PROVE  DataFits' /\ Busy(c)
<1> USE DEF disk
<1>1. Busy(c)
  BY DEF Step, TakesMutex, StatementFails, Create, CreateFails, PathsGone, Read,
         InspectUnasked, Inspect, ClearStatuses, Validate, WriteTxt, Collect,
         ReplaceMonth, Stamp, DropDatabase, Wipe, EraseTxts, Reset, Swap, Enter,
         Acting, Calling
<1>2. CASE UNCHANGED <<txt, rows, stamp>>
  BY <1>1, <1>2 DEF DataFits, FlowsFit
<1>3. CASE ClearStatuses(c) \/ ReplaceMonth(c) \/ Stamp(c) \/ DropDatabase(c)
  BY <1>1, <1>3 DEF ClearStatuses, ReplaceMonth, Stamp, DropDatabase, Nothing,
              DataFits, FlowsFit
<1>4. CASE Wipe(c) \/ EraseTxts(c)
  BY <1>1, <1>4 DEF Wipe, EraseTxts, Nothing, DataFits, FlowsFit
<1>5. CASE WriteTxt(c)
  <2>1. Len(job[c].plan) >= 1 /\ job[c].plan[1].op = "write"
        /\ Len(job[c].plan) \in Nat
    BY <1>1, <1>5, FirstStep DEF WriteTxt
  <2>2. job[c].text \in TxtFiles
    BY <1>1, <2>1 DEF FlowsFit, JobFits, Busy
  <2>3. txt' = [txt EXCEPT ![Path(c)] = job[c].text] /\ UNCHANGED <<rows, stamp>>
    BY <1>5 DEF WriteTxt
  <2> QED BY <1>1, <2>2, <2>3 DEF DataFits, FlowsFit
<1>6. Create(c) \/ CreateFails(c) \/ PathsGone(c) \/ Read(c) \/ InspectUnasked(c)
      \/ Inspect(c) \/ Validate(c) \/ Collect(c) \/ Reset(c) \/ TakesMutex(c)
      \/ StatementFails(c) => UNCHANGED <<txt, rows, stamp>>
  BY DEF TakesMutex, StatementFails, Create, CreateFails, PathsGone, Read,
         InspectUnasked, Inspect, Validate, Collect, Reset, Swap, Enter
<1> QED BY <1>1, <1>2, <1>3, <1>4, <1>5, <1>6 DEF Step

\* A step inside a native call changes nothing of what is still to be done.
LEMMA InsideWorks ==
  ASSUME FlowsFit, NEW c \in Callers, Busy(c), NEW next, Alone(c, next),
         next.flow = job[c].flow, next.calm = job[c].calm,
         next.plan = job[c].plan, next.draft = job[c].draft,
         next.text = job[c].text \/ next.text \in TxtFiles,
         UNCHANGED <<answer, cut>>, c \notin cut
  PROVE  Work(c, next)
<1>1. JobFits(next)
  BY DEF FlowsFit, JobFits
<1> QED BY <1>1 DEF Work

\* A file or a TXT is gone through, outside of any native call.
LEMMA GoneThroughWorks ==
  ASSUME FlowsFit, NEW c \in Callers, Busy(c), NEW next, Alone(c, next),
         Op(c) \in {"read", "drop", "wipe"},
         next.flow = job[c].flow, next.calm = job[c].calm,
         next.plan = Tail(job[c].plan), next.text = job[c].text,
         \A d \in next.draft :
           d \in job[c].draft \/ (d.path = Path(c) /\ Op(c) = "read"),
         UNCHANGED answer, cut' \subseteq cut \cup Stamping
  PROVE  Work(c, next)
<1> DEFINE plan == job[c].plan
<1>1. /\ PlanFits(plan)
      /\ (\E i \in 1..Len(plan) : plan[i].op = "write") => job[c].text \in TxtFiles
      /\ \A d \in job[c].draft : d.path \in Paths
  BY DEF FlowsFit, JobFits, Busy
<1>2. Op(c) = plan[1].op /\ Path(c) = plan[1].path
  BY FirstStep
<1> HIDE DEF plan
<1>3. /\ Len(plan) \in Nat /\ Len(plan) >= 1
      /\ Tail(plan) \in Seq(PlanSteps)
      /\ Len(Tail(plan)) = Len(plan) - 1
      /\ \A i \in 1..(Len(plan) - 1) : Tail(plan)[i] = plan[i + 1]
      /\ Tail(plan) # <<>> <=> Len(plan) # 1
  BY <1>1, TailOfPlan DEF PlanFits
<1>4. Len(plan) # 1
  BY <1>1, <1>2 DEF PlanFits
<1>5. PlanFits(Tail(plan))
  BY <1>1, <1>3, <1>4 DEF PlanFits
<1>6. (\E i \in 1..Len(Tail(plan)) : Tail(plan)[i].op = "write")
        => job[c].text \in TxtFiles
  BY <1>1, <1>3
<1>7. \A d \in next.draft : d.path \in Paths
  <2>1. plan[1].op = "read" => plan[1].path \in Paths
    BY <1>1, <1>3 DEF PlanFits
  <2> QED BY <1>1, <1>2, <2>1
<1>8. JobFits(next)
  BY <1>5, <1>6, <1>7 DEF JobFits, plan
<1>9. c \notin cut /\ c \notin Stamping
  BY DEF FlowsFit, CutWhileStamping, Stamping
<1> QED BY <1>8, <1>9 DEF Work

\* The inspection lets the flow clear the statuses and ingest what was read.
LEMMA SyncPlanFits ==
  ASSUME NEW draft, \A d \in draft : d.path \in Paths
  PROVE  LET plan == SyncPlan(draft)
             P    == {d.path : d \in draft}
         IN /\ PlanFits(plan) /\ plan # <<>>
            /\ plan[1].op = "clear"
            /\ \A i \in 2..Len(plan) : plan[i].op = "ingest" /\ plan[i].path \in P
            /\ Left("ingest", plan) = P
<1> DEFINE P     == {d.path : d \in draft}
           each  == Each("ingest", P)
           first == Local("clear")
           plan  == <<first>> \o each
           n     == Len(each)
<1>1. P \in SUBSET Paths
  OBVIOUS
<1> HIDE DEF P
<1>2. /\ each \in Seq(PlanSteps)
      /\ \A i \in 1..n : each[i].op = "ingest" /\ each[i].path \in P
      /\ \A p \in P : \E i \in 1..n : each[i].path = p
  <2>1. "ingest" \in Ops
    BY DEF Ops
  <2> QED BY <1>1, <2>1, EachOnPaths
<1>3. first \in PlanSteps /\ first.op = "clear"
  BY DEF Local, PlanSteps, Ops
<1> HIDE DEF each, first
<1>4. /\ n \in Nat /\ Len(plan) = n + 1 /\ plan \in Seq(PlanSteps)
      /\ \A i \in 2..(n + 1) : plan[i] = each[i - 1]
      /\ plan[1] = first
  BY <1>2, <1>3
<1> HIDE DEF plan, n
<1>5. /\ plan[1].op = "clear"
      /\ \A i \in 2..Len(plan) : plan[i].op = "ingest" /\ plan[i].path \in P
  <2>1. \A i \in 2..(n + 1) : i - 1 \in 1..n
    BY <1>4
  <2>2. ASSUME NEW i \in 2..(n + 1)
        PROVE  plan[i].op = "ingest" /\ plan[i].path \in P
    <3>1. plan[i] = each[i - 1] /\ i - 1 \in 1..n
      BY <1>4, <2>1
    <3> QED BY <1>2, <3>1
  <2> QED BY <1>3, <1>4, <2>2
<1>6. \A i \in 1..Len(plan) : i = 1 \/ i \in 2..Len(plan)
  BY <1>4
<1>7. plan # <<>>
  BY <1>4, EmptySeq
<1>8. PlanFits(plan)
  <2>1. \A i \in 1..Len(plan) : plan[i].op \in {"clear", "ingest"}
    BY <1>5, <1>6
  <2>2. Len(plan) \in 1..Len(plan)
    BY <1>4
  <2>3. \A i \in 1..Len(plan) : plan[i].op \in {"read", "ingest"} => plan[i].path \in Paths
    BY <1>1, <1>5, <1>6
  <2> QED BY <1>4, <1>7, <2>1, <2>2, <2>3 DEF PlanFits
<1>9. ASSUME NEW p \in P PROVE p \in Left("ingest", plan)
  <2>1. PICK i \in 1..n : each[i].path = p
    BY <1>2
  <2>2. i + 1 \in 2..(n + 1) /\ (i + 1) - 1 = i /\ i + 1 \in 1..Len(plan)
    BY <1>4
  <2>3. plan[i + 1].op = "ingest" /\ plan[i + 1].path = p
    BY <1>2, <1>4, <2>1, <2>2
  <2> QED BY <1>1, <2>2, <2>3 DEF Left
<1>10. ASSUME NEW p \in Left("ingest", plan) PROVE p \in P
  <2>1. PICK i \in 1..Len(plan) : plan[i].op = "ingest" /\ plan[i].path = p
    BY <1>10 DEF Left
  <2> QED BY <1>5, <1>6, <2>1
<1>11. plan = SyncPlan(draft)
  BY DEF SyncPlan, plan, first, each, P
<1> QED BY <1>5, <1>7, <1>8, <1>9, <1>10, <1>11 DEF P

LEMMA CreateWorks ==
  ASSUME FlowsFit, NEW c \in Callers, Create(c)
  PROVE  \E next : Work(c, next)
<1> DEFINE next == [job[c] EXCEPT !.phase = "swap", !.made = config.edition]
<1>1. job[c] = [f \in Fields |-> job[c][f]]
  BY DEF FlowsFit, IInv, Shape
<1>2. /\ next.flow = job[c].flow /\ next.calm = job[c].calm
      /\ next.plan = job[c].plan /\ next.draft = job[c].draft
      /\ next.text = job[c].text
  BY <1>1 DEF Fields
<1>3. /\ Busy(c) /\ Alone(c, next) /\ UNCHANGED <<answer, cut>>
      /\ job[c].phase = "init"
  BY DEF Create, Calling, Alone
<1> HIDE DEF next
<1>4. c \notin cut
  BY <1>3 DEF FlowsFit, CutWhileStamping
<1> QED BY <1>2, <1>3, <1>4, InsideWorks

LEMMA SwapWorks ==
  ASSUME FlowsFit, NEW c \in Callers, Swap(c)
  PROVE  \E next : Work(c, next)
<1>1. CASE Op(c) = "init"
  BY <1>1, DoneWorks DEF Swap, Calling
<1>2. CASE Op(c) # "init"
  <2> DEFINE next == [job[c] EXCEPT !.phase = "enter"]
  <2>1. job[c] = [f \in Fields |-> job[c][f]]
    BY DEF FlowsFit, IInv, Shape
  <2>2. /\ next.flow = job[c].flow /\ next.calm = job[c].calm
        /\ next.plan = job[c].plan /\ next.draft = job[c].draft
        /\ next.text = job[c].text
    BY <2>1 DEF Fields
  <2>3. /\ Busy(c) /\ Alone(c, next) /\ UNCHANGED <<answer, cut>>
        /\ job[c].phase = "swap"
    BY <1>2 DEF Swap, Calling, Alone
  <2> HIDE DEF next
  <2>4. c \notin cut
    BY <2>3 DEF FlowsFit, CutWhileStamping
  <2> QED BY <2>2, <2>3, <2>4, InsideWorks
<1> QED BY <1>1, <1>2

LEMMA EnterWorks ==
  ASSUME FlowsFit, NEW c \in Callers, Enter(c)
  PROVE  \E next : Work(c, next)
<1> DEFINE next == [job[c] EXCEPT !.phase = "act", !.using = runtime]
<1>1. job[c] = [f \in Fields |-> job[c][f]]
  BY DEF FlowsFit, IInv, Shape
<1>2. /\ next.flow = job[c].flow /\ next.calm = job[c].calm
      /\ next.plan = job[c].plan /\ next.draft = job[c].draft
      /\ next.text = job[c].text
  BY <1>1 DEF Fields
<1>3. /\ Busy(c) /\ Alone(c, next) /\ UNCHANGED <<answer, cut>>
      /\ job[c].phase = "enter"
  BY DEF Enter, Calling, Alone
<1> HIDE DEF next
<1>4. c \notin cut
  BY <1>3 DEF FlowsFit, CutWhileStamping
<1> QED BY <1>2, <1>3, <1>4, InsideWorks

LEMMA ReadWorks ==
  ASSUME FlowsFit, NEW c \in Callers, Read(c)
  PROVE  \E next : Work(c, next)
<1>1. CASE txt[Path(c)] = None
  BY <1>1, ReturnWorks DEF Read, Fail
<1>2. CASE txt[Path(c)] # None
  <2> DEFINE read == [path |-> Path(c), file |-> txt[Path(c)]]
             next == [job[c] EXCEPT !.plan = Tail(job[c].plan),
                                    !.draft = job[c].draft \cup {read}]
  <2>1. job[c] = [f \in Fields |-> job[c][f]]
    BY DEF FlowsFit, IInv, Shape
  <2>2. /\ next.flow = job[c].flow /\ next.calm = job[c].calm
        /\ next.plan = Tail(job[c].plan) /\ next.text = job[c].text
        /\ next.draft = job[c].draft \cup {read}
    BY <2>1 DEF Fields
  <2>3. Busy(c) /\ Op(c) = "read" /\ Alone(c, next) /\ UNCHANGED <<answer, cut>>
    BY <1>2 DEF Read, Alone
  <2>4. read.path = Path(c)
    OBVIOUS
  <2> HIDE DEF next, read
  <2>5. \A d \in next.draft : d \in job[c].draft \/ (d.path = Path(c) /\ Op(c) = "read")
    BY <2>2, <2>3, <2>4
  <2> QED BY <2>2, <2>3, <2>5, GoneThroughWorks
<1> QED BY <1>1, <1>2

LEMMA CollectWorks ==
  ASSUME FlowsFit, NEW c \in Callers, Collect(c)
  PROVE  \E next : Work(c, next)
<1>1. CASE Fail(c)
  BY <1>1, ReturnWorks DEF Fail
<1>2. CASE ~Fail(c)
  <2> DEFINE next == [job[c] EXCEPT !.phase = "import", !.text = txt[Path(c)]]
  <2>1. job[c] = [f \in Fields |-> job[c][f]]
    BY DEF FlowsFit, IInv, Shape
  <2>2. /\ next.flow = job[c].flow /\ next.calm = job[c].calm
        /\ next.plan = job[c].plan /\ next.draft = job[c].draft
        /\ next.text = txt[Path(c)]
    BY <2>1 DEF Fields
  <2>3. /\ Busy(c) /\ Alone(c, next) /\ UNCHANGED <<answer, cut>>
        /\ job[c].phase = "act" /\ Op(c) = "ingest" /\ txt[Path(c)] # None
    BY <1>2 DEF Collect, Acting, Calling, Alone
  <2> HIDE DEF next
  <2>4. c \notin cut
    BY <2>3 DEF FlowsFit, CutWhileStamping
  <2>5. txt[Path(c)] \in TxtFiles
    <3>1. Path(c) \in Paths
      BY <2>3, FirstStep DEF FlowsFit, JobFits, PlanFits, Busy
    <3> QED BY <2>3, <3>1 DEF FlowsFit, DataFits
  <2> QED BY <2>2, <2>3, <2>4, <2>5, InsideWorks
<1> QED BY <1>1, <1>2

LEMMA ReplaceMonthWorks ==
  ASSUME FlowsFit, NEW c \in Callers, ReplaceMonth(c)
  PROVE  \E next : Work(c, next)
<1> DEFINE next == [job[c] EXCEPT !.phase = "stamp"]
<1>1. job[c] = [f \in Fields |-> job[c][f]]
  BY DEF FlowsFit, IInv, Shape
<1>2. /\ next.flow = job[c].flow /\ next.calm = job[c].calm
      /\ next.plan = job[c].plan /\ next.draft = job[c].draft
      /\ next.text = job[c].text
  BY <1>1 DEF Fields
<1>3. /\ Busy(c) /\ Alone(c, next) /\ UNCHANGED <<answer, cut>>
      /\ job[c].phase = "import"
  BY DEF ReplaceMonth, Alone
<1> HIDE DEF next
<1>4. c \notin cut
  BY <1>3 DEF FlowsFit, CutWhileStamping
<1> QED BY <1>2, <1>3, <1>4, InsideWorks

LEMMA DeletingWorks ==
  ASSUME FlowsFit, NEW c \in Callers, DropDatabase(c) \/ Wipe(c)
  PROVE  \E next : Work(c, next)
<1> DEFINE next == [job[c] EXCEPT !.plan = Tail(job[c].plan)]
<1>1. job[c] = [f \in Fields |-> job[c][f]]
  BY DEF FlowsFit, IInv, Shape
<1>2. /\ next.flow = job[c].flow /\ next.calm = job[c].calm
      /\ next.plan = Tail(job[c].plan) /\ next.draft = job[c].draft
      /\ next.text = job[c].text
  BY <1>1 DEF Fields
<1>3. /\ Busy(c) /\ Alone(c, next) /\ UNCHANGED answer
      /\ cut' = cut \cup Stamping /\ Op(c) \in {"drop", "wipe"}
  BY DEF DropDatabase, Wipe, Alone
<1> HIDE DEF next
<1> QED BY <1>2, <1>3, GoneThroughWorks

LEMMA VerdictWorks ==
  ASSUME FlowsFit, NEW c \in Callers, Busy(c), Verdict(c)
  PROVE  \E next : Work(c, next)
<1>1. \A d \in job[c].draft : d.path \in Paths
  BY DEF FlowsFit, JobFits, Busy
<1>2. CASE Return(c, "blocked")
  BY <1>2, ReturnWorks
<1>3. CASE Proceed(c, SyncPlan(job[c].draft))
  <2> DEFINE plan == SyncPlan(job[c].draft)
  <2>1. /\ PlanFits(plan) /\ plan # <<>>
        /\ plan[1].op = "clear"
        /\ \A i \in 2..Len(plan) : plan[i].op = "ingest"
    BY <1>1, SyncPlanFits
  <2> HIDE DEF plan
  <2>2. Len(plan) \in Nat
    BY <2>1, LenProperties DEF PlanFits
  <2>3. \A i \in 1..Len(plan) : i = 1 \/ i \in 2..Len(plan)
    BY <2>2
  <2>4. \A i \in 1..Len(plan) : plan[i].op # "write"
    BY <2>1, <2>3
  <2>5. Proceed(c, plan)
    BY <1>3 DEF plan
  <2> QED BY <2>1, <2>4, <2>5, ProceedWorks
<1> QED BY <1>2, <1>3 DEF Verdict

LEMMA StepWorks ==
  ASSUME FlowsFit, NEW c \in Callers,
         Step(c) \/ TakesMutex(c) \/ StatementFails(c)
  PROVE  \E next : Work(c, next)
<1>1. Busy(c)
  BY StepKeepsData
<1>2. CASE Create(c) \/ Swap(c) \/ Enter(c) \/ Read(c) \/ Collect(c)
           \/ ReplaceMonth(c) \/ DropDatabase(c) \/ Wipe(c)
  BY <1>2, CreateWorks, SwapWorks, EnterWorks, ReadWorks, CollectWorks,
     ReplaceMonthWorks, DeletingWorks
<1>3. CASE CreateFails(c) \/ PathsGone(c) \/ StatementFails(c)
  BY <1>3, ReturnWorks DEF CreateFails, PathsGone, StatementFails, Fail
<1>4. CASE InspectUnasked(c) \/ Inspect(c)
  BY <1>1, <1>4, VerdictWorks DEF InspectUnasked, Inspect
<1>5. CASE ClearStatuses(c) \/ WriteTxt(c) \/ EraseTxts(c) \/ Reset(c)
  BY <1>1, <1>5, DoneWorks DEF ClearStatuses, WriteTxt, EraseTxts, Reset
<1>6. CASE Validate(c) \/ Stamp(c)
  <2>1. Done(c) \/ Fail(c)
    BY <1>6 DEF Validate, Stamp
  <2> QED BY <1>1, <2>1, DoneWorks, ReturnWorks DEF Fail
<1> QED BY <1>2, <1>3, <1>4, <1>5, <1>6 DEF Step, TakesMutex

LEMMA NextFits == FlowsFit /\ [Next]_vars => FlowsFit'
<1> SUFFICES ASSUME FlowsFit, [Next]_vars PROVE FlowsFit'
  OBVIOUS
<1>1. IInv'
  BY NextIInv DEF FlowsFit
<1>2. ASSUME NEW c \in Callers, StartSync(c) \/ StartFlow(c) PROVE FlowsFit'
  <2>1. PICK f : Start(c, f) /\ (f.flow = "sync" \/ f \in Flows)
    BY <1>2 DEF StartSync, StartFlow
  <2> QED BY <1>1, <2>1, StartFits
<1>3. ASSUME NEW c \in Callers,
             Step(c) \/ TakesMutex(c) \/ StatementFails(c)
      PROVE  FlowsFit'
  BY <1>1, <1>3, StepWorks, StepKeepsData, WorkFits
<1>4. CASE SaveConfig
  BY <1>1, <1>4, SaveConfigFits
<1>5. CASE UNCHANGED vars
  <2>1. \A d \in Callers : JobFits(job[d])'
    BY <1>5 DEF FlowsFit, JobFits, PlanFits, vars
  <2> QED BY <1>1, <1>5, <2>1 DEF FlowsFit, DataFits, Lonely, CutWhileStamping,
             Unanswered, Busy, Op, vars
<1> QED BY <1>2, <1>3, <1>4, <1>5 DEF Next

-----------------------------------------------------------------------------
(* A synchronisation that nothing disturbed.                               *)

\* Every configuration it gets to see is the one on disk.
ReadsDisk(j) ==
  /\ j.phase = "swap" => j.made = config.edition
  /\ j.phase = "enter" => runtime.edition = config.edition
  /\ j.phase \in {"act", "import", "stamp"} => j.using.edition = config.edition

\* It reads what there is, and then asks for the statuses.
Reading(j) ==
  /\ j.plan[Len(j.plan)].op = "list"
  /\ \A i \in 1..(Len(j.plan) - 1) : j.plan[i].op = "read"
  /\ Present \subseteq {d.path : d \in j.draft} \cup Left("read", j.plan)
  /\ \A d \in j.draft : d.path \in Present /\ d.file = txt[d.path]

\* What the inspection has made sure of.
Openable ==
  \A p \in Present : txt[p].month \in Months /\ p = Home[txt[p].month]

Clearing(j) ==
  /\ j.plan[1].op = "clear"
  /\ \A i \in 2..Len(j.plan) : j.plan[i].op = "ingest"
  /\ Left("ingest", j.plan) = Present
  /\ Openable

\* A TXT whose rows and whose status are made from it.
Taken(p) ==
  /\ stamp[txt[p].month] = txt[p].body
  /\ rows[txt[p].month] = [body |-> txt[p].body, edition |-> config.edition]

Ingesting(j) ==
  /\ \A i \in 1..Len(j.plan) : j.plan[i].op = "ingest"
  /\ Left("ingest", j.plan) \subseteq Present
  /\ Openable
  /\ \A p \in Present \ Left("ingest", j.plan) : Taken(p)
  /\ \A m \in Months : stamp[m] # None => txt[Home[m]] # None
  /\ j.phase \in {"import", "stamp"} => j.text = txt[j.plan[1].path]
  /\ j.phase = "stamp" =>
       rows[j.text.month] = [body |-> j.text.body, edition |-> config.edition]

Syncing(j) == ReadsDisk(j) /\ (Reading(j) \/ Clearing(j) \/ Ingesting(j))

CalmSyncs ==
  \A c \in Callers : (job[c].flow = "sync" /\ job[c].calm) => Syncing(job[c])

SyncInv == FlowsFit /\ CalmSyncs

\* What a step of a calm synchronisation has to show.
GoesWell(c) ==
  /\ job'[c].flow = "sync" => Syncing(job[c])'
  /\ answer'[c] = "ok" => InSync'

CalmSync(c) ==
  /\ c \in Callers /\ job[c].flow = "sync" /\ job[c].calm /\ SyncInv

\* It is done when nothing is left to ingest.
NothingLeft ==
  /\ DataFits /\ Openable /\ \A p \in Present : Taken(p)
  /\ \A m \in Months : stamp[m] # None => txt[Home[m]] # None

LEMMA AllTaken == NothingLeft => InSync
<1> SUFFICES ASSUME NothingLeft PROVE InSync
  OBVIOUS
<1> USE DEF NothingLeft
<1>1. ASSUME NEW p \in Present PROVE txt[p].month # NoMonth /\ p = Home[txt[p].month]
  BY NamesAssumption DEF Openable
<1>2. ASSUME NEW m \in Months, txt[Home[m]] # None
      PROVE  /\ stamp[m] = txt[Home[m]].body
             /\ rows[m] = [body |-> txt[Home[m]].body, edition |-> config.edition]
  <2>1. Home[m] \in Present
    BY <1>2, NamesAssumption DEF Present
  <2>2. txt[Home[m]].month = m
    BY <2>1, NamesAssumption DEF Openable
  <2> QED BY <2>1, <2>2 DEF Taken
<1> QED BY <1>1, <1>2 DEF InSync

LEMMA FailingGoesWell ==
  ASSUME NEW c \in Callers, FlowsFit, NEW result, Return(c, result), result # "ok"
  PROVE  GoesWell(c)
<1>1. job'[c] = Idle /\ answer'[c] = result
  BY DEF Return, FlowsFit, IInv, Shape, Unanswered
<1> QED BY <1>1 DEF GoesWell, Idle

\* A native call begins or goes on: the plan stays, and what it reads is on disk.
LEMMA StayingGoesWell ==
  ASSUME NEW c, CalmSync(c), NEW next, Alone(c, next),
         next.plan = job[c].plan, next.draft = job[c].draft,
         next.text = job[c].text,
         UNCHANGED <<txt, rows, stamp, answer>>, config'.edition = config.edition,
         next.phase = "swap" => next.made = config.edition,
         next.phase = "enter" => runtime'.edition = config.edition,
         next.phase = "act" => next.using.edition = config.edition,
         next.phase \in {"swap", "enter", "act"}
  PROVE  GoesWell(c)
<1>1. job'[c] = next
  BY OthersUntouched DEF CalmSync, SyncInv, FlowsFit, IInv
<1>2. Syncing(job[c])
  BY DEF CalmSync, SyncInv, CalmSyncs
<1>3. Present' = Present /\ (Openable => Openable')
      /\ \A p : Taken(p) => Taken(p)'
  BY DEF Present, Openable, Taken
<1>4. Reading(job[c]) => Reading(job[c])'
  BY <1>1, <1>3 DEF Reading, Left
<1>5. Clearing(job[c]) => Clearing(job[c])'
  BY <1>1, <1>3 DEF Clearing, Left
<1>6. Ingesting(job[c]) => Ingesting(job[c])'
  BY <1>1, <1>3 DEF Ingesting, Left
<1>7. ReadsDisk(job[c])'
  BY <1>1 DEF ReadsDisk
<1>8. answer'[c] # "ok"
  BY DEF CalmSync, SyncInv, FlowsFit, Unanswered, Busy
<1> QED BY <1>2, <1>4, <1>5, <1>6, <1>7, <1>8 DEF Syncing, GoesWell

\* What the next step of a calm synchronisation is says how far it has come.
LEMMA CalmSteps ==
  ASSUME NEW c, CalmSync(c)
  PROVE  /\ c \in Callers /\ Busy(c) /\ FlowsFit /\ answer[c] = "none"
         /\ Syncing(job[c])
         /\ Op(c) \in {"read", "list", "clear", "ingest"}
         /\ Op(c) = "read" => Reading(job[c])
         /\ Op(c) = "list" => Reading(job[c]) /\ Len(job[c].plan) = 1
         /\ Op(c) = "clear" => Clearing(job[c])
         /\ Op(c) = "ingest" => Ingesting(job[c])
<1>1. /\ c \in Callers /\ Busy(c) /\ FlowsFit /\ answer[c] = "none"
      /\ Syncing(job[c])
  BY DEF CalmSync, SyncInv, CalmSyncs, FlowsFit, Unanswered, Busy
<1>2. Len(job[c].plan) \in Nat /\ Len(job[c].plan) >= 1 /\ Op(c) = job[c].plan[1].op
  BY <1>1, FirstStep
<1>3. CASE Reading(job[c])
  <2>1. CASE Len(job[c].plan) = 1
    BY <1>1, <1>2, <1>3, <2>1 DEF Reading
  <2>2. CASE Len(job[c].plan) # 1
    <3>1. 1 \in 1..(Len(job[c].plan) - 1)
      <4> DEFINE n == Len(job[c].plan)
      <4>1. n \in Nat /\ n >= 1 /\ n # 1
        BY <1>2, <2>2
      <4> HIDE DEF n
      <4>2. 1 \in 1..(n - 1)
        BY <4>1
      <4> QED BY <4>2 DEF n
    <3>2. Op(c) = "read"
      BY <1>2, <1>3, <3>1 DEF Reading
    <3> QED BY <1>1, <1>3, <3>2
  <2> QED BY <2>1, <2>2
<1>4. CASE Clearing(job[c])
  BY <1>1, <1>2, <1>4 DEF Clearing
<1>5. CASE Ingesting(job[c])
  <2>1. 1 \in 1..Len(job[c].plan)
    BY <1>2
  <2> QED BY <1>1, <1>2, <1>5, <2>1 DEF Ingesting
<1> QED BY <1>1, <1>3, <1>4, <1>5 DEF Syncing

LEMMA CreateGoesWell ==
  ASSUME NEW c, CalmSync(c), Create(c)
  PROVE  GoesWell(c)
<1> DEFINE next == [job[c] EXCEPT !.phase = "swap", !.made = config.edition]
<1>1. job[c] = [f \in Fields |-> job[c][f]]
  BY CalmSteps DEF FlowsFit, IInv, Shape
<1>2. /\ next.plan = job[c].plan /\ next.draft = job[c].draft
      /\ next.text = job[c].text /\ next.phase = "swap"
      /\ next.made = config.edition
  BY <1>1 DEF Fields
<1>3. Alone(c, next) /\ UNCHANGED <<txt, rows, stamp, answer>>
  BY DEF Create, Alone
<1> HIDE DEF next
<1>4. config'.edition = config.edition
  BY CalmSteps DEF Create, Prepared, FlowsFit, IInv, Shape
<1> QED BY <1>2, <1>3, <1>4, StayingGoesWell

LEMMA SwapGoesWell ==
  ASSUME NEW c, CalmSync(c), Swap(c)
  PROVE  GoesWell(c)
<1> DEFINE next == [job[c] EXCEPT !.phase = "enter"]
<1>1. job[c] = [f \in Fields |-> job[c][f]]
  BY CalmSteps DEF FlowsFit, IInv, Shape
<1>2. /\ next.plan = job[c].plan /\ next.draft = job[c].draft
      /\ next.text = job[c].text /\ next.phase = "enter"
  BY <1>1 DEF Fields
<1>3. Alone(c, next) /\ UNCHANGED <<txt, rows, stamp, answer, config>>
  BY CalmSteps DEF Swap, Alone, disk
<1> HIDE DEF next
<1>4. runtime'.edition = config.edition
  BY <1>3, CalmSteps DEF Swap, Calling, Syncing, ReadsDisk
<1> QED BY <1>2, <1>3, <1>4, StayingGoesWell

LEMMA EnterGoesWell ==
  ASSUME NEW c, CalmSync(c), Enter(c)
  PROVE  GoesWell(c)
<1> DEFINE next == [job[c] EXCEPT !.phase = "act", !.using = runtime]
<1>1. job[c] = [f \in Fields |-> job[c][f]]
  BY CalmSteps DEF FlowsFit, IInv, Shape
<1>2. /\ next.plan = job[c].plan /\ next.draft = job[c].draft
      /\ next.text = job[c].text /\ next.phase = "act" /\ next.using = runtime
  BY <1>1 DEF Fields
<1>3. Alone(c, next) /\ UNCHANGED <<txt, rows, stamp, answer, config>>
  BY DEF Enter, Alone, disk
<1> HIDE DEF next
<1>4. runtime.edition = config.edition
  BY CalmSteps DEF Enter, Calling, Syncing, ReadsDisk
<1> QED BY <1>2, <1>3, <1>4, StayingGoesWell

LEMMA ReadGoesWell ==
  ASSUME NEW c, CalmSync(c), Read(c)
  PROVE  GoesWell(c)
<1>1. CASE txt[Path(c)] = None
  BY <1>1, CalmSteps, FailingGoesWell DEF Read, Fail
<1>2. CASE txt[Path(c)] # None
  <2> DEFINE read == [path |-> Path(c), file |-> txt[Path(c)]]
             plan == job[c].plan
             next == [job[c] EXCEPT !.plan = Tail(plan),
                                    !.draft = job[c].draft \cup {read}]
  <2>1. job[c] = [f \in Fields |-> job[c][f]]
    BY CalmSteps DEF FlowsFit, IInv, Shape
  <2>2. /\ next.plan = Tail(plan) /\ next.draft = job[c].draft \cup {read}
        /\ next.phase = job[c].phase /\ next.made = job[c].made
        /\ next.using = job[c].using
    BY <2>1 DEF Fields
  <2>3. /\ Alone(c, next) /\ Op(c) = "read"
        /\ UNCHANGED <<txt, rows, stamp, config, runtime, answer>>
    BY <1>2 DEF Read, Alone, disk
  <2>4. read.path = Path(c) /\ read.file = txt[Path(c)]
    OBVIOUS
  <2> HIDE DEF next, read
  <2>5. job'[c] = next
    BY <2>3, CalmSteps, OthersUntouched DEF FlowsFit, IInv
  <2>6. /\ PlanFits(plan) /\ plan[1].op = "read" /\ Path(c) = plan[1].path
        /\ Reading(job[c])
    BY <2>3, CalmSteps, FirstStep DEF FlowsFit, JobFits, Busy
  <2>7. /\ plan[Len(plan)].op = "list"
        /\ \A i \in 1..(Len(plan) - 1) : plan[i].op = "read"
        /\ Present \subseteq {d.path : d \in job[c].draft} \cup Left("read", plan)
        /\ \A d \in job[c].draft : d.path \in Present /\ d.file = txt[d.path]
    BY <2>6 DEF Reading
  <2> HIDE DEF plan
  <2>8. /\ Len(plan) \in Nat /\ Len(plan) >= 1
        /\ Len(Tail(plan)) = Len(plan) - 1
        /\ \A i \in 1..(Len(plan) - 1) : Tail(plan)[i] = plan[i + 1]
        /\ Left("read", plan) \subseteq Left("read", Tail(plan)) \cup {plan[1].path}
    BY <2>6, TailOfPlan DEF PlanFits
  <2>9. Len(plan) # 1
    BY <2>6, <2>7
  <2>10. /\ Tail(plan)[Len(Tail(plan))].op = "list"
         /\ \A i \in 1..(Len(Tail(plan)) - 1) : Tail(plan)[i].op = "read"
    <3> DEFINE n == Len(plan)
    <3>1. n \in Nat /\ n >= 1 /\ n # 1 /\ Len(Tail(plan)) = n - 1
      BY <2>8, <2>9
    <3>2. \A i \in 1..(n - 1) : Tail(plan)[i] = plan[i + 1]
      BY <2>8
    <3>3. plan[n].op = "list" /\ \A i \in 1..(n - 1) : plan[i].op = "read"
      BY <2>7
    <3> HIDE DEF n
    <3>4. n - 1 \in 1..(n - 1) /\ (n - 1) + 1 = n
      BY <3>1
    <3>5. \A i \in 1..((n - 1) - 1) : i \in 1..(n - 1) /\ i + 1 \in 1..(n - 1)
      BY <3>1
    <3>6. Tail(plan)[n - 1] = plan[n]
      BY <3>2, <3>4
    <3> QED BY <3>1, <3>2, <3>3, <3>5, <3>6
  <2>11. Path(c) \in Present
    <3>1. Path(c) \in Paths
      BY <2>6, <2>8 DEF PlanFits
    <3> QED BY <1>2, <3>1 DEF Present
  <2>12. Present \subseteq {d.path : d \in next.draft} \cup Left("read", Tail(plan))
    <3> SUFFICES ASSUME NEW p \in Present, p \notin Left("read", Tail(plan))
                 PROVE  \E d \in next.draft : d.path = p
      OBVIOUS
    <3>1. CASE p = Path(c)
      BY <2>2, <2>4, <3>1
    <3>2. CASE p # Path(c)
      BY <2>2, <2>6, <2>7, <2>8, <3>2
    <3> QED BY <3>1, <3>2
  <2>13. \A d \in next.draft : d.path \in Present /\ d.file = txt[d.path]
    BY <2>2, <2>4, <2>7, <2>11
  <2>14. Present' = Present
    BY <2>3 DEF Present
  <2>15. Reading(job[c])'
    <3>1. job'[c].plan = Tail(plan) /\ job'[c].draft = next.draft
      BY <2>2, <2>5
    <3>2. /\ job'[c].plan[Len(job'[c].plan)].op = "list"
          /\ \A i \in 1..(Len(job'[c].plan) - 1) : job'[c].plan[i].op = "read"
      BY <2>10, <3>1
    <3>3. Present' \subseteq {d.path : d \in job'[c].draft} \cup Left("read", job'[c].plan)
      BY <2>12, <2>14, <3>1
    <3>4. \A d \in job'[c].draft : d.path \in Present' /\ d.file = txt'[d.path]
      BY <2>3, <2>13, <2>14, <3>1
    <3> QED BY <3>2, <3>3, <3>4 DEF Reading, Left
  <2>16. ReadsDisk(job[c])'
    BY <2>2, <2>3, <2>5, CalmSteps DEF ReadsDisk, Syncing
  <2>17. answer'[c] # "ok"
    BY <2>3, CalmSteps
  <2> QED BY <2>15, <2>16, <2>17 DEF GoesWell, Syncing
<1> QED BY <1>1, <1>2

\* What is left of the flow when a native call is over.
LEMMA ProceedMoves ==
  ASSUME FlowsFit, NEW c \in Callers, NEW rest, Proceed(c, rest)
  PROVE  IF rest = <<>> THEN job'[c] = Idle /\ answer'[c] = "ok"
         ELSE /\ job'[c].plan = rest /\ job'[c].phase = "init"
              /\ job'[c].draft = job[c].draft /\ job'[c].text = job[c].text
              /\ UNCHANGED answer
<1>1. CASE rest = <<>>
  BY <1>1 DEF Proceed, Return, FlowsFit, IInv, Shape, Unanswered
<1>2. CASE rest # <<>>
  <2> DEFINE next == [job[c] EXCEPT !.plan = rest, !.phase = "init",
                                    !.using = None]
  <2>1. job[c] = [f \in Fields |-> job[c][f]]
    BY DEF FlowsFit, IInv, Shape
  <2>2. /\ next.plan = rest /\ next.phase = "init"
        /\ next.draft = job[c].draft /\ next.text = job[c].text
    BY <2>1 DEF Fields
  <2>3. Alone(c, next) /\ UNCHANGED answer
    BY <1>2 DEF Proceed, Alone
  <2> HIDE DEF next
  <2>4. job'[c] = next
    BY <2>3, OthersUntouched DEF FlowsFit, IInv
  <2> QED BY <1>2, <2>2, <2>3, <2>4
<1> QED BY <1>1, <1>2

LEMMA VerdictGoesWell ==
  ASSUME NEW c, CalmSync(c), Op(c) = "list", Verdict(c), UNCHANGED <<disk>>
  PROVE  GoesWell(c)
<1> DEFINE draft == job[c].draft
           plan  == SyncPlan(draft)
<1>1. CASE Return(c, "blocked")
  BY <1>1, CalmSteps, FailingGoesWell
<1>2. CASE ~Return(c, "blocked")
  <2>1. /\ \A d \in draft : CanOpen(SyncState(d, draft))
        /\ Proceed(c, plan)
    BY <1>2 DEF Verdict
  <2>2. /\ c \in Callers /\ FlowsFit /\ answer[c] = "none"
        /\ Len(job[c].plan) = 1 /\ job[c].plan[1].op = "list"
        /\ Present \subseteq {d.path : d \in draft} \cup Left("read", job[c].plan)
        /\ \A d \in draft : d.path \in Present /\ d.file = txt[d.path]
    BY CalmSteps, FirstStep DEF Reading
  <2>3. Left("read", job[c].plan) = {}
    BY <2>2 DEF Left
  <2>4. Present = {d.path : d \in draft}
    BY <2>2, <2>3
  <2>5. Openable
    <3> SUFFICES ASSUME NEW p \in Present
                 PROVE  txt[p].month \in Months /\ p = Home[txt[p].month]
      BY DEF Openable
    <3>1. PICK d \in draft : d.path = p
      BY <2>4
    <3>2. d.file = txt[p] /\ SyncState(d, draft) \in {"NOT_INGESTED", "SYNCED"}
      BY <2>1, <2>2, <3>1 DEF CanOpen
    <3>3. d.file.month # NoMonth /\ p = Home[d.file.month]
      BY <3>1, <3>2 DEF SyncState
    <3>4. txt[p].month \in Months \cup {NoMonth}
      BY <2>2 DEF FlowsFit, DataFits, TxtFiles, Present
    <3> QED BY <3>2, <3>3, <3>4
  <2>6. \A d \in draft : d.path \in Paths
    BY <2>2 DEF Present
  <2>7. /\ plan # <<>> /\ plan[1].op = "clear"
        /\ \A i \in 2..Len(plan) : plan[i].op = "ingest"
        /\ Left("ingest", plan) = Present
    BY <2>4, <2>6, SyncPlanFits
  <2> HIDE DEF plan
  <2>8. job'[c].plan = plan /\ job'[c].phase = "init" /\ UNCHANGED answer
    BY <2>1, <2>2, <2>7, ProceedMoves
  <2>9. Present' = Present /\ Openable'
    BY <2>5 DEF disk, Present, Openable
  <2>10. Left("ingest", job'[c].plan) = Present'
    BY <2>7, <2>8, <2>9
  <2>11. Clearing(job[c])'
    BY <2>7, <2>8, <2>9, <2>10 DEF Clearing, Left
  <2>12. ReadsDisk(job[c])'
    BY <2>8 DEF ReadsDisk
  <2> QED BY <2>2, <2>8, <2>11, <2>12 DEF GoesWell, Syncing
<1> QED BY <1>1, <1>2

LEMMA ClearStatusesGoesWell ==
  ASSUME NEW c, CalmSync(c), ClearStatuses(c), DataFits'
  PROVE  GoesWell(c)
<1> DEFINE plan == job[c].plan
<1>1. /\ c \in Callers /\ FlowsFit /\ answer[c] = "none" /\ Busy(c)
      /\ plan \in Seq(PlanSteps) /\ plan # <<>>
      /\ Clearing(job[c])
  BY CalmSteps, FirstStep DEF ClearStatuses, Acting, Calling
<1>2. /\ plan[1].op = "clear"
      /\ \A i \in 2..Len(plan) : plan[i].op = "ingest"
      /\ Left("ingest", plan) = Present
      /\ Openable
  BY <1>1 DEF Clearing
<1>3. /\ Proceed(c, Tail(plan)) /\ stamp' = [m \in Months |-> None]
      /\ UNCHANGED <<txt, rows, config>>
  BY DEF ClearStatuses, Done
<1> HIDE DEF plan
<1>4. /\ Len(plan) \in Nat /\ Len(plan) >= 1
      /\ Tail(plan) \in Seq(PlanSteps)
      /\ Len(Tail(plan)) = Len(plan) - 1
      /\ \A i \in 1..(Len(plan) - 1) : Tail(plan)[i] = plan[i + 1]
      /\ Left("ingest", Tail(plan)) \subseteq Left("ingest", plan)
      /\ Left("ingest", plan) \subseteq
           Left("ingest", Tail(plan)) \cup {p \in {plan[1].path} : plan[1].op = "ingest"}
  BY <1>1, TailOfPlan
<1>5. Left("ingest", Tail(plan)) = Present
  BY <1>2, <1>4
<1>6. Present' = Present /\ Openable'
  BY <1>2, <1>3 DEF Present, Openable
<1>7. \A m \in Months : stamp'[m] = None
  BY <1>3
<1>8. CASE Tail(plan) = <<>>
  <2>1. Len(Tail(plan)) = 0
    BY <1>8, EmptySeq
  <2>2. Present' = {}
    BY <1>5, <1>6, <2>1 DEF Left
  <2>3. NothingLeft'
    BY <1>6, <1>7, <2>2 DEF NothingLeft
  <2>4. (NothingLeft => InSync)'
    BY AllTaken, PTL
  <2>5. job'[c] = Idle
    BY <1>1, <1>3, <1>8, ProceedMoves
  <2> QED BY <2>3, <2>4, <2>5 DEF GoesWell, Idle
<1>9. CASE Tail(plan) # <<>>
  <2>1. job'[c].plan = Tail(plan) /\ job'[c].phase = "init" /\ UNCHANGED answer
    BY <1>1, <1>3, <1>9, ProceedMoves
  <2>2. \A i \in 1..Len(Tail(plan)) : Tail(plan)[i].op = "ingest"
    <3> DEFINE n == Len(plan)
    <3>1. n \in Nat /\ n >= 1 /\ Len(Tail(plan)) = n - 1
      BY <1>4
    <3>2. /\ \A i \in 1..(n - 1) : Tail(plan)[i] = plan[i + 1]
          /\ \A i \in 2..n : plan[i].op = "ingest"
      BY <1>2, <1>4
    <3> HIDE DEF n
    <3>3. \A i \in 1..(n - 1) : i + 1 \in 2..n
      BY <3>1
    <3> QED BY <3>1, <3>2, <3>3
  <2>3. /\ \A i \in 1..Len(job'[c].plan) : job'[c].plan[i].op = "ingest"
        /\ Left("ingest", job'[c].plan) = Present'
    BY <1>5, <1>6, <2>1, <2>2
  <2>4. Ingesting(job[c])'
    BY <1>6, <1>7, <2>1, <2>3 DEF Ingesting, Left
  <2>5. ReadsDisk(job[c])'
    BY <2>1 DEF ReadsDisk
  <2> QED BY <1>1, <2>1, <2>4, <2>5 DEF GoesWell, Syncing
<1> QED BY <1>8, <1>9

\* The TXT being ingested is one of those there are.
LEMMA IngestStep ==
  ASSUME NEW c, CalmSync(c), Op(c) = "ingest"
  PROVE  /\ c \in Callers /\ FlowsFit /\ answer[c] = "none" /\ Ingesting(job[c])
         /\ ReadsDisk(job[c])
         /\ Path(c) = job[c].plan[1].path
         /\ Path(c) \in Present /\ Path(c) \in Left("ingest", job[c].plan)
         /\ txt[Path(c)] \in TxtFiles
         /\ txt[Path(c)].month \in Months
<1> DEFINE plan == job[c].plan
<1>1. /\ c \in Callers /\ FlowsFit /\ answer[c] = "none" /\ Ingesting(job[c])
      /\ Busy(c) /\ ReadsDisk(job[c])
  BY CalmSteps DEF Syncing
<1>2. /\ Len(plan) \in Nat /\ Len(plan) >= 1 /\ plan[1].op = "ingest"
      /\ Path(c) = plan[1].path
  BY <1>1, FirstStep
<1>3. PlanFits(plan)
  BY <1>1 DEF FlowsFit, JobFits, Busy
<1>4. Left("ingest", plan) \subseteq Present /\ Openable
  BY <1>1 DEF Ingesting
<1> HIDE DEF plan
<1>5. 1 \in 1..Len(plan)
  BY <1>2
<1>6. Path(c) \in Paths
  BY <1>2, <1>3, <1>5 DEF PlanFits
<1>7. Path(c) \in Left("ingest", plan)
  BY <1>2, <1>5, <1>6 DEF Left
<1>8. Path(c) \in Present
  BY <1>4, <1>7
<1>9. txt[Path(c)] \in TxtFiles /\ txt[Path(c)].month \in Months
  BY <1>1, <1>4, <1>8 DEF FlowsFit, DataFits, Openable, Present
<1> QED BY <1>1, <1>2, <1>7, <1>8, <1>9 DEF plan

LEMMA CollectGoesWell ==
  ASSUME NEW c, CalmSync(c), Collect(c)
  PROVE  GoesWell(c)
<1>1. CASE Fail(c)
  BY <1>1, CalmSteps, FailingGoesWell DEF Fail
<1>2. CASE ~Fail(c)
  <2> DEFINE next == [job[c] EXCEPT !.phase = "import", !.text = txt[Path(c)]]
  <2>1. /\ c \in Callers /\ FlowsFit /\ answer[c] = "none" /\ Ingesting(job[c])
        /\ ReadsDisk(job[c]) /\ Path(c) = job[c].plan[1].path
    BY IngestStep DEF Collect, Acting
  <2>2. job[c] = [f \in Fields |-> job[c][f]]
    BY <2>1 DEF FlowsFit, IInv, Shape
  <2>3. /\ next.plan = job[c].plan /\ next.phase = "import"
        /\ next.text = txt[Path(c)] /\ next.using = job[c].using
    BY <2>2 DEF Fields
  <2>4. /\ Alone(c, next) /\ job[c].phase = "act"
        /\ UNCHANGED <<txt, rows, stamp, config, runtime, answer>>
    BY <1>2 DEF Collect, Acting, Calling, Alone, disk
  <2> HIDE DEF next
  <2>5. job'[c] = next
    BY <2>1, <2>4, OthersUntouched DEF FlowsFit, IInv
  <2>6. Present' = Present /\ (Openable => Openable')
        /\ \A p : Taken(p) => Taken(p)'
    BY <2>4 DEF Present, Openable, Taken
  <2>7. Ingesting(job[c])'
    BY <2>1, <2>3, <2>4, <2>5, <2>6 DEF Ingesting, Left
  <2>8. ReadsDisk(job[c])'
    BY <2>1, <2>3, <2>4, <2>5 DEF ReadsDisk
  <2> QED BY <2>1, <2>4, <2>7, <2>8 DEF GoesWell, Syncing
<1> QED BY <1>1, <1>2

LEMMA ReplaceMonthGoesWell ==
  ASSUME NEW c, CalmSync(c), ReplaceMonth(c), DataFits'
  PROVE  GoesWell(c)
<1> DEFINE next == [job[c] EXCEPT !.phase = "stamp"]
           file == txt[Path(c)]
<1>1. /\ c \in Callers /\ FlowsFit /\ answer[c] = "none" /\ Ingesting(job[c])
      /\ ReadsDisk(job[c]) /\ Path(c) = job[c].plan[1].path
      /\ Path(c) \in Present /\ Path(c) \in Left("ingest", job[c].plan)
      /\ file.month \in Months
  BY IngestStep DEF ReplaceMonth
<1>2. job[c] = [f \in Fields |-> job[c][f]]
  BY <1>1 DEF FlowsFit, IInv, Shape
<1>3. /\ next.plan = job[c].plan /\ next.phase = "stamp"
      /\ next.text = job[c].text /\ next.using = job[c].using
  BY <1>2 DEF Fields
<1>4. /\ Alone(c, next) /\ job[c].phase = "import"
      /\ UNCHANGED <<txt, stamp, config, runtime, answer>>
      /\ rows' = [rows EXCEPT ![job[c].text.month] =
                    [body |-> job[c].text.body, edition |-> Edition(c)]]
  BY DEF ReplaceMonth, Alone
<1> HIDE DEF next
<1>5. job'[c] = next
  BY <1>1, <1>4, OthersUntouched DEF FlowsFit, IInv
<1>6. job[c].text = file /\ Edition(c) = config.edition
  BY <1>1, <1>4 DEF Ingesting, ReadsDisk, Edition
<1> HIDE DEF file
<1>7. /\ rows'[file.month] = [body |-> file.body, edition |-> config.edition]
      /\ \A m \in Months \ {file.month} : rows'[m] = rows[m]
  BY <1>1, <1>4, <1>6 DEF FlowsFit, DataFits
<1>8. Present' = Present /\ Openable /\ Openable'
  BY <1>1, <1>4 DEF Present, Openable, Ingesting
<1>9. ASSUME NEW p \in Present \ Left("ingest", job[c].plan)
      PROVE  Taken(p)'
  <2>1. Taken(p)
    BY <1>1, <1>9 DEF Ingesting
  <2>2. txt[p].month \in Months /\ p = Home[txt[p].month]
    BY <1>8, <1>9 DEF Openable
  <2>3. Path(c) = Home[file.month] /\ p # Path(c)
    <3>1. p # Path(c)
      BY <1>1, <1>9
    <3> QED BY <1>1, <1>8, <3>1 DEF Openable, file
  <2>4. rows'[txt[p].month] = rows[txt[p].month]
    <3> DEFINE month == txt[p].month
    <3>1. p = Home[month] /\ month \in Months
      BY <2>2
    <3> HIDE DEF month
    <3>2. month \in Months \ {file.month}
      BY <2>3, <3>1
    <3>3. rows'[month] = rows[month]
      BY <1>7, <3>2
    <3> QED BY <3>3 DEF month
  <2> QED BY <1>4, <2>1, <2>4 DEF Taken
<1>10. Ingesting(job[c])'
  <2>1. /\ job'[c].plan = job[c].plan /\ job'[c].text = file
        /\ file = txt'[job'[c].plan[1].path]
    <3>1. job'[c].plan = job[c].plan /\ job'[c].text = file
      BY <1>3, <1>5, <1>6
    <3>2. Path(c) = job[c].plan[1].path /\ txt' = txt
      BY <1>1, <1>4
    <3>3. file = txt'[job[c].plan[1].path]
      BY <3>2 DEF file
    <3> QED BY <3>1, <3>3
  <2>2. /\ \A i \in 1..Len(job[c].plan) : job[c].plan[i].op = "ingest"
        /\ Left("ingest", job[c].plan) \subseteq Present
        /\ \A m \in Months : stamp[m] # None => txt[Home[m]] # None
    BY <1>1 DEF Ingesting
  <2>3. \A p \in Present' \ Left("ingest", job'[c].plan) : Taken(p)'
    BY <1>8, <1>9, <2>1
  <2>4. \A m \in Months : stamp'[m] # None => txt'[Home[m]] # None
    BY <1>4, <2>2
  <2>5. Left("ingest", job'[c].plan) \subseteq Present'
    BY <1>8, <2>1, <2>2
  <2>6. rows'[job'[c].text.month] =
          [body |-> job'[c].text.body, edition |-> config'.edition]
    <3>1. config' = config /\ job'[c].text = file
      BY <1>4, <2>1
    <3> QED BY <1>7, <3>1
  <2>7. /\ \A i \in 1..Len(job'[c].plan) : job'[c].plan[i].op = "ingest"
        /\ job'[c].text = txt'[job'[c].plan[1].path]
    BY <2>1, <2>2
  <2> QED BY <1>8, <2>3, <2>4, <2>5, <2>6, <2>7 DEF Ingesting, Left
<1>11. ReadsDisk(job[c])'
  BY <1>1, <1>3, <1>4, <1>5 DEF ReadsDisk
<1> QED BY <1>1, <1>4, <1>10, <1>11 DEF GoesWell, Syncing

LEMMA StampGoesWell ==
  ASSUME NEW c, CalmSync(c), Stamp(c), DataFits'
  PROVE  GoesWell(c)
<1> DEFINE plan == job[c].plan
           file == txt[Path(c)]
<1>1. /\ c \in Callers /\ FlowsFit /\ answer[c] = "none" /\ Ingesting(job[c])
      /\ Path(c) = plan[1].path
      /\ Path(c) \in Present /\ file.month \in Months
  BY IngestStep DEF Stamp
<1>2. c \notin cut
  BY <1>1 DEF CalmSync, FlowsFit, CutWhileStamping
<1>3. /\ job[c].text = file
      /\ rows[file.month] = [body |-> file.body, edition |-> config.edition]
  BY <1>1 DEF Ingesting, Stamp
<1>4. /\ stamp' = [stamp EXCEPT ![file.month] = file.body]
      /\ Proceed(c, Tail(plan))
      /\ UNCHANGED <<txt, rows, config>>
  BY <1>2, <1>3 DEF Stamp, Done
<1>5. plan \in Seq(PlanSteps) /\ plan # <<>>
  BY <1>1, FirstStep DEF CalmSync, Busy
<1>6. /\ \A i \in 1..Len(plan) : plan[i].op = "ingest"
      /\ Left("ingest", plan) \subseteq Present
      /\ Openable
      /\ \A p \in Present \ Left("ingest", plan) : Taken(p)
      /\ \A m \in Months : stamp[m] # None => txt[Home[m]] # None
  BY <1>1 DEF Ingesting
<1> HIDE DEF plan
<1>7. /\ Len(plan) \in Nat /\ Len(plan) >= 1
      /\ Len(Tail(plan)) = Len(plan) - 1
      /\ \A i \in 1..(Len(plan) - 1) : Tail(plan)[i] = plan[i + 1]
      /\ Left("ingest", Tail(plan)) \subseteq Left("ingest", plan)
      /\ Left("ingest", plan) \subseteq Left("ingest", Tail(plan)) \cup {plan[1].path}
  BY <1>5, TailOfPlan
<1>8. /\ stamp'[file.month] = file.body
      /\ \A m \in Months \ {file.month} : stamp'[m] = stamp[m]
  <2> HIDE DEF file
  <2> QED BY <1>1, <1>4 DEF FlowsFit, DataFits
<1>9. Present' = Present /\ Openable'
  BY <1>4, <1>6 DEF Present, Openable
<1>10. ASSUME NEW p \in Present \ Left("ingest", Tail(plan))
       PROVE  Taken(p)'
  <2>1. CASE p = Path(c)
    <3>1. txt[p] = file
      BY <2>1
    <3> HIDE DEF file
    <3> QED BY <1>3, <1>4, <1>8, <3>1 DEF Taken
  <2>2. CASE p # Path(c)
    <3>1. Taken(p)
      BY <1>1, <1>6, <1>7, <1>10, <2>2
    <3>2. txt[p].month \in Months /\ p = Home[txt[p].month]
      BY <1>6, <1>10 DEF Openable
    <3>3. Path(c) = Home[file.month]
      BY <1>1, <1>6 DEF Openable
    <3> HIDE DEF file
    <3>4. stamp'[txt[p].month] = stamp[txt[p].month]
      BY <1>8, <2>2, <3>2, <3>3
    <3> QED BY <1>4, <3>1, <3>4 DEF Taken
  <2> QED BY <2>1, <2>2
<1>11. \A m \in Months : stamp'[m] # None => txt'[Home[m]] # None
  <2>1. Home[file.month] = Path(c) /\ txt[Path(c)] # None
    BY <1>1, <1>6 DEF Openable, Present
  <2> HIDE DEF file
  <2>2. ASSUME NEW m \in Months, stamp'[m] # None PROVE txt[Home[m]] # None
    <3>1. CASE m = file.month
      BY <2>1, <3>1
    <3>2. CASE m # file.month
      BY <1>6, <1>8, <2>2, <3>2
    <3> QED BY <3>1, <3>2
  <2> QED BY <1>4, <2>2
<1>12. CASE Tail(plan) = <<>>
  <2>1. Left("ingest", Tail(plan)) = {}
    <3>1. Len(Tail(plan)) = 0
      BY <1>12, EmptySeq
    <3> QED BY <3>1 DEF Left
  <2>2. NothingLeft'
    BY <1>9, <1>10, <1>11, <2>1 DEF NothingLeft
  <2>3. (NothingLeft => InSync)'
    BY AllTaken, PTL
  <2>4. job'[c] = Idle
    BY <1>1, <1>4, <1>12, ProceedMoves
  <2> QED BY <2>2, <2>3, <2>4 DEF GoesWell, Idle
<1>13. CASE Tail(plan) # <<>>
  <2>1. job'[c].plan = Tail(plan) /\ job'[c].phase = "init" /\ UNCHANGED answer
    <3> DEFINE rest == Tail(plan)
    <3>1. c \in Callers /\ FlowsFit /\ Proceed(c, rest) /\ rest # <<>>
      BY <1>1, <1>4, <1>13
    <3> HIDE DEF rest
    <3>2. job'[c].plan = rest /\ job'[c].phase = "init" /\ UNCHANGED answer
      BY <3>1, ProceedMoves
    <3> QED BY <3>2 DEF rest
  <2>2. \A i \in 1..Len(Tail(plan)) : Tail(plan)[i].op = "ingest"
    <3> DEFINE n == Len(plan)
    <3>1. n \in Nat /\ n >= 1 /\ Len(Tail(plan)) = n - 1
      BY <1>7
    <3>2. /\ \A i \in 1..(n - 1) : Tail(plan)[i] = plan[i + 1]
          /\ \A i \in 1..n : plan[i].op = "ingest"
      BY <1>6, <1>7
    <3> HIDE DEF n
    <3>3. \A i \in 1..(n - 1) : i + 1 \in 1..n
      BY <3>1
    <3> QED BY <3>1, <3>2, <3>3
  <2>3. /\ \A i \in 1..Len(job'[c].plan) : job'[c].plan[i].op = "ingest"
        /\ Left("ingest", job'[c].plan) \subseteq Present'
        /\ \A p \in Present' \ Left("ingest", job'[c].plan) : Taken(p)'
    BY <1>6, <1>7, <1>9, <1>10, <2>1, <2>2
  <2>4. Ingesting(job[c])'
    BY <1>9, <1>11, <2>1, <2>3 DEF Ingesting, Left
  <2>5. ReadsDisk(job[c])'
    BY <2>1 DEF ReadsDisk
  <2> QED BY <1>1, <2>1, <2>4, <2>5 DEF GoesWell, Syncing
<1> QED BY <1>12, <1>13

LEMMA StepGoesWell ==
  ASSUME NEW c, CalmSync(c), Step(c) \/ TakesMutex(c) \/ StatementFails(c)
  PROVE  GoesWell(c)
<1>1. /\ c \in Callers /\ FlowsFit /\ DataFits'
      /\ Op(c) \in {"read", "list", "clear", "ingest"}
  BY CalmSteps, StepKeepsData
<1>2. CASE Create(c) \/ Swap(c) \/ Enter(c) \/ Read(c) \/ ClearStatuses(c)
           \/ Collect(c) \/ ReplaceMonth(c) \/ Stamp(c)
  BY <1>1, <1>2, CreateGoesWell, SwapGoesWell, EnterGoesWell, ReadGoesWell,
     ClearStatusesGoesWell, CollectGoesWell, ReplaceMonthGoesWell, StampGoesWell
<1>3. CASE CreateFails(c) \/ PathsGone(c) \/ StatementFails(c)
  BY <1>1, <1>3, FailingGoesWell DEF CreateFails, PathsGone, StatementFails, Fail
<1>4. CASE InspectUnasked(c) \/ Inspect(c)
  BY <1>4, VerdictGoesWell DEF InspectUnasked, Inspect, Acting
<1>5. ~(\/ Validate(c) \/ WriteTxt(c) \/ DropDatabase(c) \/ Wipe(c)
        \/ EraseTxts(c) \/ Reset(c))
  BY <1>1 DEF Validate, WriteTxt, DropDatabase, Wipe, EraseTxts, Reset, Acting
<1> QED BY <1>2, <1>3, <1>4, <1>5 DEF Step, TakesMutex

\* A synchronisation is calm at its start when nobody else is at work: what it
\* is to read is what there is.
LEMMA StartCalm ==
  ASSUME SyncInv, NEW c \in Callers, NEW f, Start(c, f), FlowsFit'
  PROVE  SyncInv'
<1> SUFFICES ASSUME NEW d \in Callers, job'[d].flow = "sync", job'[d].calm
             PROVE  Syncing(job[d])'
  BY DEF SyncInv, CalmSyncs
<1> DEFINE others == {e \in Callers : Busy(e)}
           since  == Min({config.edition} \cup {job[e].floor : e \in others})
           begun  == [Idle EXCEPT !.flow = f.flow, !.plan = PlanOf(f),
                                  !.text = f.file, !.floor = since,
                                  !.calm = (others = {})]
<1>1. job' = [e \in Callers |-> IF e = c THEN begun
                                ELSE [job[e] EXCEPT !.calm = ~Busy(e)]]
  BY DEF Start
<1>2. /\ begun.flow = f.flow /\ begun.plan = PlanOf(f) /\ begun.draft = {}
      /\ begun.phase = "init"
  BY DEF Idle
<1>3. CASE d # c
  <2>1. job'[d].flow = job[d].flow /\ job'[d].calm = ~Busy(d)
    BY <1>3, OthersOnlyCalmed DEF SyncInv
  <2> QED BY <2>1 DEF Busy
<1>4. CASE d = c
  <2>1. job'[c] = begun
    BY <1>1
  <2> HIDE DEF begun
  <2>2. /\ job'[c].plan = Each("read", Present) \o <<Local("list")>>
        /\ job'[c].draft = {} /\ job'[c].phase = "init"
    BY <1>2, <1>4, <2>1 DEF PlanOf
  <2>3. /\ job'[c].plan[Len(job'[c].plan)].op = "list"
        /\ \A i \in 1..(Len(job'[c].plan) - 1) : job'[c].plan[i].op = "read"
        /\ Present \subseteq Left("read", job'[c].plan)
    BY <2>2, SyncSetsOut DEF SyncInv, FlowsFit
  <2>4. Present' = Present
    BY DEF Start, disk, Present
  <2>5. Reading(job[c])'
    BY <2>2, <2>3, <2>4 DEF Reading, Left
  <2>6. ReadsDisk(job[c])'
    BY <2>2 DEF ReadsDisk
  <2> QED BY <1>4, <2>5, <2>6 DEF Syncing
<1> QED BY <1>3, <1>4

\* The others do nothing while it is calm.
LEMMA StepCalm ==
  ASSUME SyncInv, NEW c \in Callers,
         Step(c) \/ TakesMutex(c) \/ StatementFails(c), FlowsFit'
  PROVE  SyncInv'
<1> SUFFICES ASSUME NEW d \in Callers, job'[d].flow = "sync", job'[d].calm
             PROVE  Syncing(job[d])'
  BY DEF SyncInv, CalmSyncs
<1>1. FlowsFit /\ Busy(c)
  BY StepKeepsData DEF SyncInv
<1>2. PICK next : Work(c, next)
  BY <1>1, StepWorks
<1>3. /\ job'[c] = next
      /\ \A e \in Callers \ {c} : job'[e] = job[e]
  BY <1>1, <1>2, OthersUntouched DEF Work, FlowsFit, IInv
<1>4. CASE d # c
  <2>1. Busy(d) /\ job[d].calm
    BY <1>3, <1>4 DEF Busy
  <2> QED BY <1>1, <1>4, <2>1 DEF FlowsFit, Lonely
<1>5. CASE d = c
  <2>1. next # Idle
    BY <1>3, <1>5 DEF Idle
  <2>2. job[c].flow = "sync" /\ job[c].calm
    BY <1>2, <1>3, <1>5, <2>1 DEF Work
  <2>3. GoesWell(c)
    BY <2>2, StepGoesWell DEF CalmSync
  <2> QED BY <1>5, <2>3 DEF GoesWell
<1> QED BY <1>4, <1>5

LEMMA NextSyncInv == SyncInv /\ [Next]_vars => SyncInv'
<1> SUFFICES ASSUME SyncInv, [Next]_vars PROVE SyncInv'
  OBVIOUS
<1>1. FlowsFit'
  BY NextFits DEF SyncInv
<1>2. ASSUME NEW c \in Callers, StartSync(c) \/ StartFlow(c) PROVE SyncInv'
  BY <1>1, <1>2, StartCalm DEF StartSync, StartFlow
<1>3. ASSUME NEW c \in Callers,
             Step(c) \/ TakesMutex(c) \/ StatementFails(c)
      PROVE  SyncInv'
  BY <1>1, <1>3, StepCalm
<1>4. CASE SaveConfig
  <2>1. \A c \in Callers : job[c] = [g \in Fields |-> job[c][g]]
    BY DEF SyncInv, FlowsFit, IInv, Shape
  <2>2. \A c \in Callers : job'[c] = [job[c] EXCEPT !.calm = ~Busy(c)]
    BY <1>4 DEF SaveConfig
  <2>3. \A c \in Callers : job'[c].flow = job[c].flow /\ job'[c].calm = ~Busy(c)
    <3> TAKE c \in Callers
    <3>1. job[c] = [g \in Fields |-> job[c][g]]
      BY <2>1
    <3>2. job'[c] = [job[c] EXCEPT !.calm = ~Busy(c)]
      BY <2>2
    <3> QED BY <3>1, <3>2, CalmOnly
  <2> QED BY <1>1, <2>3 DEF SyncInv, CalmSyncs, Busy
<1>5. CASE UNCHANGED vars
  BY <1>1, <1>5 DEF SyncInv, CalmSyncs, Syncing, ReadsDisk, Reading, Clearing,
     Ingesting, Openable, Taken, Present, Left, vars
<1> QED BY <1>2, <1>3, <1>4, <1>5 DEF Next

-----------------------------------------------------------------------------
(* Theorem.                                                                *)

\* A synchronisation that answers ok and that no other flow and no editor has
\* disturbed leaves every TXT, its rows and its status equal, the rows mapped
\* by the configuration on disk (RuntimeRecordSyncFlow.kt), for any TXTs,
\* months, callers and configurations, however often statements fail.
THEOREM SyncAlwaysTellsTheTruth == Spec => SyncTellsTheTruth
<1>1. Init => SyncInv
  <2> SUFFICES ASSUME Init PROVE SyncInv
    OBVIOUS
  <2>1. \A c \in Callers : job[c].flow = "none"
    BY DEF Init, Idle
  <2> QED BY <2>1, InitFits DEF SyncInv, CalmSyncs
<1> DEFINE Truthful ==
      \A c \in Callers :
        (job[c].flow = "sync" /\ job[c].calm /\ answer'[c] = "ok") => InSync'
<1>2. SyncInv /\ [Next]_vars => [Truthful]_vars
  <2> SUFFICES ASSUME SyncInv, Next, NEW c \in Callers,
                      job[c].flow = "sync", job[c].calm, answer'[c] = "ok"
               PROVE  InSync'
    OBVIOUS
  <2>1. Busy(c) /\ answer[c] = "none" /\ FlowsFit
    BY DEF SyncInv, FlowsFit, Unanswered, Busy
  <2>2. ASSUME NEW d \in Callers, StartSync(d) \/ StartFlow(d) PROVE FALSE
    <3>1. answer' = [answer EXCEPT ![d] = "none"]
      BY <2>2 DEF StartSync, StartFlow, Start
    <3> QED BY <2>1, <3>1 DEF FlowsFit, Unanswered
  <2>3. ~SaveConfig
    BY <2>1 DEF SaveConfig
  <2>4. ASSUME NEW d \in Callers,
               Step(d) \/ TakesMutex(d) \/ StatementFails(d)
        PROVE  InSync'
    <3>1. d = c
      BY <2>1, <2>4, StepKeepsData DEF FlowsFit, Lonely
    <3>2. GoesWell(c)
      BY <2>4, <3>1, StepGoesWell DEF CalmSync
    <3> QED BY <3>2 DEF GoesWell
  <2> QED BY <2>2, <2>3, <2>4 DEF Next
<1> QED BY <1>1, <1>2, NextSyncInv, PTL DEF Spec, SyncTellsTheTruth
=============================================================================
