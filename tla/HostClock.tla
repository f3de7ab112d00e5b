---- MODULE HostClock ----
(***************************************************************************)
(* The clock of the ledger the contract runs on, as the contract sees it.  *)
(*                                                                         *)
(* Transactions execute one at a time and each is atomic: a call that      *)
(* returns Err leaves every storage key as it was.  env.ledger() shows the *)
(* close time of the current ledger; several transactions may share it, so *)
(* time advances in a step of its own and never goes back.  One unit of    *)
(* `now` stands for however many seconds the constants of a model make it. *)
(***************************************************************************)
EXTENDS Naturals

CONSTANT MaxLedger   \* bound on the clock, in the guard of CloseLedger

ASSUME MaxLedgerAssumption == MaxLedger \in Nat \ {0}

VARIABLE now         \* env.ledger().timestamp()

CloseLedger ==
  /\ now < MaxLedger
  /\ now' = now + 1

====
