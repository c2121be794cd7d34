----------------------------- MODULE TradeLedger -----------------------------
(***************************************************************************)
(* What the paper book promises, with every trade an indivisible event:    *)
(* entering a trade takes its cost from cash, leaving it pays the proceeds *)
(* and books the result, and each key is entered and left at most once.    *)
(* The program performs the same trade as two or three separate database   *)
(* commits (module Booking); on a machine where nothing fails it has to be *)
(* indistinguishable from this.                                            *)
(***************************************************************************)
EXTENDS Integers

CONSTANTS
  Keys,     \* idempotency keys, MARKET:UNDERLYING:DIRECTION:SESSION
  Gross,    \* the cash amounts a fill can have
  FeeOf,    \* [Gross -> Nat], the fee charged on a fill
  Capitals  \* the sizes the account can be given

VARIABLES
  stage,    \* [Keys -> {"none", "held", "done"}]
  cost,     \* [Keys -> Int], the amount paid for the trade, fees excluded
  cash,     \* ledger.cash
  realized  \* ledger.realized_pnl

vars == <<stage, cost, cash, realized>>

Init ==
  /\ stage = [k \in Keys |-> "none"]
  /\ cost = [k \in Keys |-> 0]
  /\ cash \in Capitals
  /\ realized = 0

Enter(k, g) ==
  /\ stage[k] = "none"
  /\ stage' = [stage EXCEPT ![k] = "held"]
  /\ cost' = [cost EXCEPT ![k] = g]
  /\ cash' = cash - (g + FeeOf[g])
  /\ UNCHANGED realized

Leave(k, g) ==
  /\ stage[k] = "held"
  /\ stage' = [stage EXCEPT ![k] = "done"]
  /\ cash' = cash + (g - FeeOf[g])
  /\ realized' = realized + (g - cost[k] - FeeOf[g])
  /\ UNCHANGED cost

(* A resize of the account: what is held is left at its cost, and the new  *)
(* capital is the new cash.                                                *)
Rebase(c) ==
  /\ stage' = [k \in Keys |-> IF stage[k] = "held" THEN "done" ELSE stage[k]]
  /\ cash' = c
  /\ UNCHANGED <<cost, realized>>

Next ==
  \/ \E k \in Keys, g \in Gross : Enter(k, g) \/ Leave(k, g)
  \/ \E c \in Capitals : Rebase(c)

Spec == Init /\ [][Next]_vars
==============================================================================
