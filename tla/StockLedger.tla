----------------------------- MODULE StockLedger -----------------------------
(***************************************************************************)
(* What inventory tracking promises, one atomic step per event: the owner  *)
(* declares how much of a product there is, and each item that is sold     *)
(* takes its quantity out of the stock, which stops at zero.               *)
(* OrderFulfilment.tla is the code's way of doing this.                    *)
(***************************************************************************)
EXTENDS Naturals

CONSTANTS Products, None

VARIABLES
  stock,  \* the stock of each product, None while it is not in the catalogue
  sold    \* how much of each product has been sold

vars == <<stock, sold>>

Init ==
  /\ stock = [p \in Products |-> None]
  /\ sold = [p \in Products |-> 0]

\* The product enters the catalogue, is counted anew, or is withdrawn.
Declare(p) ==
  /\ \/ stock'[p] \in Nat
     \/ stock'[p] = None
  /\ stock' = [stock EXCEPT ![p] = stock'[p]]
  /\ UNCHANGED sold

Sell(p) ==
  LET quantity == sold'[p] - sold[p] IN
  /\ stock[p] # None
  /\ sold'[p] \in Nat
  /\ quantity > 0
  /\ sold' = [sold EXCEPT ![p] = sold'[p]]
  /\ stock' = [stock EXCEPT ![p] = IF quantity > stock[p] THEN 0 ELSE stock[p] - quantity]

Next == \E p \in Products : Declare(p) \/ Sell(p)

Spec == Init /\ [][Next]_vars
=============================================================================
