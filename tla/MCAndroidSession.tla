--------------------------- MODULE MCAndroidSession ---------------------------
(***************************************************************************)
(* Two months and a stray path; a configuration that is edited once so     *)
(* that an old body is no longer accepted; a synchroniser, and a second    *)
(* caller that imports and clears.                                         *)
(***************************************************************************)
EXTENDS AndroidSession, TLC

CONSTANTS jan, feb, old, new, sam, ivy

MCHome == jan :> 1 @@ feb :> 2
File(m, b) == [month |-> m, body |-> b]

MCInitialTxts ==
  {1 :> File(jan, old) @@ 2 :> File(feb, new) @@ 3 :> None,
   1 :> File(jan, new) @@ 2 :> None @@ 3 :> File(NoMonth, old)}

MCAccepts == 0 :> {old, new} @@ 1 :> {new}

MCFlows ==
  {[flow |-> "import", file |-> File(jan, new)],
   [flow |-> "clearDb", file |-> None],
   [flow |-> "clearTxt", file |-> None],
   [flow |-> "wipe", file |-> None]}
=============================================================================
