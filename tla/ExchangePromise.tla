-------------------------- MODULE ExchangePromise --------------------------
(***************************************************************************)
(* What importing an exchange package promises (core/contracts/crypto/     *)
(* runtime_crypto_json_contract_v1.md, section 4.2): the months of the     *)
(* package replace the local ones and the others are kept, the package's   *)
(* config becomes the active one, and the database is rebuilt from all of  *)
(* them under it; or nothing changes.                                      *)
(***************************************************************************)
EXTENDS Naturals

CONSTANTS Months, Contents, Configs, Absent, Torn, Accepted

Whole(c) == [p \in 1..4 |-> c]

VARIABLES
  view,     \* the TXT of every month
  config,   \* the active converter config
  rows,     \* what the database was built from
  stamps    \* the sync status of every month

vars == <<view, config, rows, stamps>>

Init ==
  /\ view \in [Months -> Contents \cup {Absent}]
  /\ \E c \in Configs : config = Whole(c)
  /\ rows = [view |-> view, config |-> config]
  /\ stamps = view

Overlay(payload) ==
  [m \in Months |-> IF payload[m] = Absent THEN view[m] ELSE payload[m]]

Import(payload, c) ==
  /\ <<Overlay(payload), Whole(c)>> \in Accepted
  /\ view' = Overlay(payload)
  /\ config' = Whole(c)
  /\ rows' = [view |-> view', config |-> config']
  /\ stamps' = view'

Next ==
  \E payload \in [Months -> Contents \cup {Absent}], c \in Configs :
    Import(payload, c)

Spec == Init /\ [][Next]_vars
=============================================================================
