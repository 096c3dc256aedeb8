---------------------------- MODULE InvoiceLedger ----------------------------
(***************************************************************************)
(* What the billing services promise, as one atomic step per handler: an   *)
(* invoice bills a set of orders that no other invoice bills, its total    *)
(* never changes, and payments add up to at most that total.  Billing.tla  *)
(* is the code's way of doing this.                                        *)
(***************************************************************************)
EXTENDS Naturals

CONSTANTS Orders, Invoices, None

VARIABLES
  billedOn,  \* the invoices that bill each order
  total,     \* the total of each invoice, None before it is issued
  paid       \* what has been paid of each invoice

vars == <<billedOn, total, paid>>

Init ==
  /\ billedOn = [o \in Orders |-> {}]
  /\ total = [i \in Invoices |-> None]
  /\ paid = [i \in Invoices |-> 0]

Issue(i) ==
  /\ total[i] = None
  /\ \E S \in SUBSET Orders :
       /\ S # {}
       /\ \A o \in S : billedOn[o] = {}
       /\ billedOn' = [o \in Orders |-> IF o \in S THEN {i} ELSE billedOn[o]]
  /\ total'[i] \in Nat
  /\ total' = [total EXCEPT ![i] = total'[i]]
  /\ UNCHANGED paid

Pay(i) ==
  /\ total[i] # None
  /\ paid'[i] \in paid[i] .. total[i]
  /\ paid' = [paid EXCEPT ![i] = paid'[i]]
  /\ UNCHANGED <<billedOn, total>>

Next == \E i \in Invoices : Issue(i) \/ Pay(i)

Spec == Init /\ [][Next]_vars
=============================================================================
