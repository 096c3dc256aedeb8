------------------------------ MODULE MCBilling ------------------------------
(***************************************************************************)
(* Instances of Billing for TLC.  Business b1 has the customers c1 (orders *)
(* o1 and o2) and c2 (order o3); b2 has c3 (order o4).  o1 is worth two    *)
(* cents before tax and the others one, so o1 can be paid in parts.        *)
(***************************************************************************)
EXTENDS Billing, TLC

CONSTANTS u1, u2, b1, b2, c1, c2, c3, o1, o2, o3, o4

MCBusinessOwner == [b \in Businesses |-> IF b = b1 THEN u1 ELSE u2]
MCCustomerBusiness == [c \in Customers |-> IF c = c3 THEN b2 ELSE b1]
MCOrderBusiness == [o \in Orders |-> IF o = o4 THEN b2 ELSE b1]
MCOrderCustomer == [o \in Orders |-> CASE o = o3 -> c2 [] o = o4 -> c3 [] OTHER -> c1]
MCOrderTotal == [o \in Orders |-> IF o = o1 THEN 20 ELSE 10]

\* No order, one order, two orders, the same order twice; orders of two
\* customers, of two businesses.
SerialLists == {<<>>, <<o1>>, <<o1, o2>>, <<o1, o1>>}
OverlappingLists == {<<o1>>, <<o1, o2>>, <<o1, o3>>, <<o1, o4>>}
SingleList == {<<o1>>}

\* Bound: behaviours with overlapping lists go no further once an invoice is
\* paid or given a status; what follows concerns that invoice alone, and the
\* behaviours that bill o1 once go through it.
Paying ==
  \/ invoiceSaves # {}
  \/ \E i \in Invoices : Exists(i) /\ (invoices[i].amountPaid # 0 \/ invoices[i].status # "DRAFT")
OneOrderBilled ==
  /\ \A o \in Orders : orders[o].status = "pending"
  /\ \A o \in Orders \ {o1} : orders[o].invoiceId = None
  /\ \A r \in Requests : request[r].orderIds \in {<<>>, <<o1>>}
  /\ \A i \in Invoices : Exists(i) => invoices[i].billed = <<o1>>
  /\ \A s \in orderSaves : s.order = o1 /\ s.status = "pending"
  /\ Cardinality({i \in Invoices : Exists(i)}) = 1
OnePaidInvoice == Paying => OneOrderBilled

RequestSymmetry == Permutations(Requests)
=============================================================================
