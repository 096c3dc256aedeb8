------------------------------ MODULE Billing ------------------------------
(***************************************************************************)
(* Invoicing and payment: invoice.service.ts together with the parts of    *)
(* order.service.ts that share the Order table with it (updateOrderStatus  *)
(* and linkOrdersToInvoice).                                               *)
(*                                                                         *)
(* Nothing in these services runs in a transaction.  A handler that        *)
(* changes a row reads the entity, changes the copy and saves it, and      *)
(* every await in between lets another request run.  A save is two         *)
(* database calls as well: TypeORM loads the row, compares it with the     *)
(* copy, and updates the columns that differ.  Hence each change of a row  *)
(* is three steps here (read, compare, write), and the copies in flight    *)
(* are the sets orderSaves and invoiceSaves.                               *)
(*                                                                         *)
(* Money is counted in tenths of a cent: every decimal(10,2) column holds  *)
(* a multiple of Cent, while amountPaid of a payment request may be any    *)
(* number >= 0.  JavaScript's binary rounding error is left out.           *)
(***************************************************************************)
EXTENDS Naturals, Sequences, FiniteSets

CONSTANTS
  Users, Businesses, Customers,
  Orders,         \* ids of the orders, all of them already created
  Invoices,       \* ids that uuid generation can hand out
  Requests,       \* requests the server can have in progress at once
  OrderLists,     \* orderIds arrays that clients send to createInvoice
  InvoiceTypeInputs,    \* what clients send: types of createInvoice,
  OrderStatusInputs,    \* statuses of updateOrderStatus,
  InvoiceStatusInputs,  \* statuses of updateInvoiceStatus,
  Payments,             \* and amounts of updateInvoicePayment
  BusinessOwner,     \* [Businesses -> Users]
  CustomerBusiness,  \* [Customers -> Businesses]
  OrderBusiness,  \* [Orders -> Businesses]
  OrderCustomer,  \* [Orders -> Customers]
  OrderTotal,     \* [Orders -> Nat], the column Order.totalAmount
  MayFail,        \* whether database calls and the process may fail
  ReceivedBound,  \* bound: clients pay an invoice no more than this sum
  None

Cent == 10

OrderStatus == {"pending", "completed", "cancelled"}
InvoiceStatus == {"DRAFT", "SENT", "PAID", "PARTIALLY_PAID", "OVERDUE", "CANCELLED"}
InvoiceType == {"STANDARD", "PROFORMA", "RECEIPT"}

ASSUME BillingAssumption ==
  /\ OrderLists \subseteq Seq(Orders)
  /\ InvoiceTypeInputs \subseteq InvoiceType
  /\ OrderStatusInputs \subseteq OrderStatus
  /\ InvoiceStatusInputs \subseteq InvoiceStatus
  /\ Payments \subseteq Nat
  /\ BusinessOwner \in [Businesses -> Users]
  /\ CustomerBusiness \in [Customers -> Businesses]
  /\ OrderBusiness \in [Orders -> Businesses]
  /\ OrderCustomer \in [Orders -> Customers]
  /\ OrderTotal \in [Orders -> Nat]
  /\ \A o \in Orders : OrderTotal[o] % Cent = 0
  /\ MayFail \in BOOLEAN
  /\ ReceivedBound \in Nat

VARIABLES
  orders,        \* the Order table
  invoices,      \* the Invoice table; None where no row has the id
  request,       \* progress of each request
  orderSaves,    \* Order entities read and not yet written back
  invoiceSaves,  \* Invoice entities read and not yet written back
  received       \* history: the accepted payments that were written, see Receipts

vars == <<orders, invoices, request, orderSaves, invoiceSaves, received>>

----------------------------------------------------------------------------
(***************************************************************************)
(* Rows, copies and requests.                                              *)
(***************************************************************************)

OrderRow == [status : OrderStatus, invoiceId : Invoices \union {None}]

\* billed is history: the orders whose totals went into subtotal.
InvoiceRow ==
  [businessId : Businesses, customerId : Customers, invoiceType : InvoiceType,
   billed : Seq(Orders), totalAmount : Nat, amountPaid : Nat, status : InvoiceStatus]

\* slot tells apart the entities that one request saves in parallel; columns
\* is meaningful once phase is "compared": the columns the UPDATE will set.
OrderSave ==
  [request : Requests, slot : Nat, order : Orders, phase : {"read", "compared"},
   status : OrderStatus, invoiceId : Invoices \union {None},
   columns : SUBSET {"status", "invoiceId"}]

InvoiceSave ==
  [request : Requests, invoice : Invoices, phase : {"read", "compared"},
   status : InvoiceStatus, amountPaid : Nat, amount : Nat,
   columns : SUBSET {"status", "amountPaid"}]

\* createInvoice goes through "fetch" (reading its orders) and "link"
\* (writing them); every other handler is "saving" its one entity.
Request ==
  [pc : {"idle", "fetch", "link", "saving"}, businessId : Businesses \union {None},
   customerId : Customers \union {None}, invoiceType : InvoiceType \union {None},
   orderIds : Seq(Orders), todo : SUBSET Nat, subtotal : Nat,
   invoiceId : Invoices \union {None}]

Idle ==
  [pc |-> "idle", businessId |-> None, customerId |-> None, invoiceType |-> None,
   orderIds |-> <<>>, todo |-> {}, subtotal |-> 0, invoiceId |-> None]

Saving == [Idle EXCEPT !.pc = "saving"]

\* What clients have paid on an invoice, to the tenth of a cent, and how many
\* of these payments were no whole number of cents.
Receipts == [sum : Nat, fractions : Nat]

ASSUME NoneAssumption == None \notin Invoices /\ None \notin InvoiceRow /\ None \notin Nat

Exists(i) == invoices[i] # None

\* What a decimal(10,2) column stores for an amount.
Round(amount) == ((amount + Cent \div 2) \div Cent) * Cent

\* One for a payment that is no whole number of cents.
Fraction(amount) == IF amount % Cent = 0 THEN 0 ELSE 1

verifyBusinessOwnership(user, business) == BusinessOwner[business] = user

Init ==
  /\ orders = [o \in Orders |-> [status |-> "pending", invoiceId |-> None]]
  /\ invoices = [i \in Invoices |-> None]
  /\ request = [r \in Requests |-> Idle]
  /\ orderSaves = {}
  /\ invoiceSaves = {}
  /\ received = [i \in Invoices |-> [sum |-> 0, fractions |-> 0]]

----------------------------------------------------------------------------
(***************************************************************************)
(* createInvoice.                                                          *)
(***************************************************************************)

CreateInvoice(r) ==
  /\ request[r].pc = "idle"
  /\ \E u \in Users, b \in Businesses, c \in Customers, t \in InvoiceTypeInputs, ids \in OrderLists :
       /\ verifyBusinessOwnership(u, b)
       /\ ids # <<>>
       /\ request' = [request EXCEPT ![r] =
            [Idle EXCEPT !.pc = "fetch", !.businessId = b, !.customerId = c,
                         !.invoiceType = t, !.orderIds = ids, !.todo = DOMAIN ids]]
  /\ UNCHANGED <<orders, invoices, orderSaves, invoiceSaves, received>>

\* Mutants of Billable: a validation forgotten.
BillableThoughInvoiced(req, o) ==
  /\ OrderBusiness[o] = req.businessId
  /\ OrderCustomer[o] = req.customerId
  /\ req.invoiceType \in {"PROFORMA", "RECEIPT"} \/ orders[o].status = "completed"
BillableToAnyCustomer(req, o) ==
  /\ OrderBusiness[o] = req.businessId
  /\ orders[o].invoiceId = None
  /\ req.invoiceType \in {"PROFORMA", "RECEIPT"} \/ orders[o].status = "completed"

\* getOrderById finds the order in the caller's business, and it passes the
\* validation loop.
Billable(req, o) ==
  /\ OrderBusiness[o] = req.businessId
  /\ OrderCustomer[o] = req.customerId
  /\ orders[o].invoiceId = None
  /\ req.invoiceType \in {"PROFORMA", "RECEIPT"} \/ orders[o].status = "completed"

FetchOrder(r, k) ==
  LET req == request[r]
      o == req.orderIds[k]
  IN
  /\ req.pc = "fetch"
  /\ k \in req.todo
  /\ Billable(req, o)
  /\ request' = [request EXCEPT ![r] =
       [req EXCEPT !.todo = req.todo \ {k}, !.subtotal = req.subtotal + OrderTotal[o]]]
  /\ UNCHANGED <<orders, invoices, orderSaves, invoiceSaves, received>>

\* A fetched order is refused, the customer is not of this business, or a call
\* before the invoice is saved rejects: the caller gets an error and no row has
\* been written.
RefuseInvoice(r) ==
  /\ request[r].pc = "fetch"
  /\ \/ \E k \in request[r].todo : ~Billable(request[r], request[r].orderIds[k])
     \/ CustomerBusiness[request[r].customerId] # request[r].businessId
     \/ MayFail
  /\ request' = [request EXCEPT ![r] = Idle]
  /\ UNCHANGED <<orders, invoices, orderSaves, invoiceSaves, received>>

\* subtotal plus 15% VAT, 2.5% NHIL and 2.5% GETFund, as the column stores it.
\* The subtotal is a whole number of cents, so a fifth of it is exact.
TotalAmount(subtotal) == Round((subtotal \div 5) * 6)

\* The orders that linkOrdersToInvoice is told to link: validOrders, which is
\* every order of the request.  The mutant links the first one only.
LinkFirst(orderIds) == {1}
LinkPositions(orderIds) == DOMAIN orderIds

SaveInvoice(r, i) ==
  LET req == request[r] IN
  /\ req.pc = "fetch"
  /\ req.todo = {}
  /\ CustomerBusiness[req.customerId] = req.businessId
  /\ ~Exists(i)
  /\ invoices' = [invoices EXCEPT ![i] =
       [businessId |-> req.businessId, customerId |-> req.customerId,
        invoiceType |-> req.invoiceType, billed |-> req.orderIds,
        totalAmount |-> TotalAmount(req.subtotal), amountPaid |-> 0, status |-> "DRAFT"]]
  /\ request' = [request EXCEPT ![r] =
       [@ EXCEPT !.pc = "link", !.invoiceId = i, !.todo = LinkPositions(req.orderIds)]]
  /\ UNCHANGED <<orders, orderSaves, invoiceSaves, received>>

\* linkOrdersToInvoice, for the order at position k of orderIds.
ReadOrderToLink(r, k) ==
  LET req == request[r] IN
  /\ req.pc = "link"
  /\ k \in req.todo
  /\ OrderBusiness[req.orderIds[k]] = req.businessId
  /\ request' = [request EXCEPT ![r].todo = @ \ {k}]
  /\ orderSaves' = orderSaves \union
       {[request |-> r, slot |-> k, order |-> req.orderIds[k], phase |-> "read",
         status |-> orders[req.orderIds[k]].status, invoiceId |-> req.invoiceId,
         columns |-> {}]}
  /\ UNCHANGED <<orders, invoices, invoiceSaves, received>>

\* Every link has been tried: re-fetch the invoice, emit invoice.created and
\* answer, or answer with the error of the link that failed.
FinishInvoice(r) ==
  /\ request[r].pc = "link"
  /\ request[r].todo = {}
  /\ \A s \in orderSaves : s.request # r
  /\ request' = [request EXCEPT ![r] = Idle]
  /\ UNCHANGED <<orders, invoices, orderSaves, invoiceSaves, received>>

----------------------------------------------------------------------------
(***************************************************************************)
(* updateOrderStatus, updateInvoicePayment and updateInvoiceStatus: each   *)
(* reads its entity and changes the copy in one step, and saves the copy   *)
(* in the two that follow.  A request that is refused (wrong owner, no     *)
(* such row, payment above the total) changes nothing.                     *)
(***************************************************************************)

UpdateOrderStatus(r) ==
  /\ request[r].pc = "idle"
  /\ \E u \in Users, b \in Businesses, o \in Orders, status \in OrderStatusInputs :
       /\ verifyBusinessOwnership(u, b)
       /\ OrderBusiness[o] = b
       /\ orderSaves' = orderSaves \union
            {[request |-> r, slot |-> 0, order |-> o, phase |-> "read", status |-> status,
              invoiceId |-> orders[o].invoiceId, columns |-> {}]}
  /\ request' = [request EXCEPT ![r] = Saving]
  /\ UNCHANGED <<orders, invoices, invoiceSaves, received>>

\* Mutants: any payment settles the invoice; a status that is no enum value.
PaidByAnyPayment(status, totalAmountPaid, totalAmount) ==
  IF totalAmountPaid > 0 THEN "PAID" ELSE status
PaidInLowerCase(status, totalAmountPaid, totalAmount) ==
  IF totalAmountPaid = totalAmount THEN "paid" ELSE status

StatusAfterPayment(status, totalAmountPaid, totalAmount) ==
  CASE totalAmountPaid = totalAmount -> "PAID"
    [] totalAmountPaid > 0 /\ totalAmountPaid < totalAmount -> "PARTIALLY_PAID"
    [] OTHER -> status

\* The mutant has lost the comparison with the invoice's total.
AnyPaymentAccepted(totalAmountPaid, totalAmount) == TRUE
PaymentAccepted(totalAmountPaid, totalAmount) == totalAmountPaid <= totalAmount

\* The Invoice entity that request r is about to save.  The mutant settles an
\* invoice whose status is set to PAID.
SettlingInvoiceCopy(r, i, status, paid, amount) ==
  [request |-> r, invoice |-> i, phase |-> "read", status |-> status,
   amountPaid |-> IF status = "PAID" THEN invoices[i].totalAmount ELSE paid,
   amount |-> amount, columns |-> {}]
InvoiceCopy(r, i, status, paid, amount) ==
  [request |-> r, invoice |-> i, phase |-> "read", status |-> status,
   amountPaid |-> paid, amount |-> amount, columns |-> {}]

UpdateInvoicePayment(r) ==
  /\ request[r].pc = "idle"
  /\ \E u \in Users, b \in Businesses, i \in Invoices, amount \in Payments :
       /\ verifyBusinessOwnership(u, b)
       /\ Exists(i)
       /\ invoices[i].businessId = b
       /\ received[i].sum + amount <= ReceivedBound
       /\ LET paid == invoices[i].amountPaid + amount
              total == invoices[i].totalAmount
          IN /\ PaymentAccepted(paid, total)
             /\ invoiceSaves' = invoiceSaves \union
                  {InvoiceCopy(r, i, StatusAfterPayment(invoices[i].status, paid, total),
                               paid, amount)}
  /\ request' = [request EXCEPT ![r] = Saving]
  /\ UNCHANGED <<orders, invoices, orderSaves, received>>

UpdateInvoiceStatus(r) ==
  /\ request[r].pc = "idle"
  /\ \E u \in Users, b \in Businesses, i \in Invoices, status \in InvoiceStatusInputs :
       /\ verifyBusinessOwnership(u, b)
       /\ Exists(i)
       /\ invoices[i].businessId = b
       /\ invoiceSaves' = invoiceSaves \union
            {InvoiceCopy(r, i, status, invoices[i].amountPaid, 0)}
  /\ request' = [request EXCEPT ![r] = Saving]
  /\ UNCHANGED <<orders, invoices, orderSaves, received>>

----------------------------------------------------------------------------
(***************************************************************************)
(* repository.save(entity), and its failure.                               *)
(***************************************************************************)

\* A request whose only save has ended answers; createInvoice goes on.
Answer(r) ==
  request' = IF request[r].pc = "saving" THEN [request EXCEPT ![r] = Idle] ELSE request

CompareOrder(s) ==
  /\ s \in orderSaves
  /\ s.phase = "read"
  /\ orderSaves' = (orderSaves \ {s}) \union
       {[s EXCEPT !.phase = "compared",
                  !.columns = {c \in {"status", "invoiceId"} : s[c] # orders[s.order][c]}]}
  /\ UNCHANGED <<orders, invoices, request, invoiceSaves, received>>

WriteOrder(s) ==
  /\ s \in orderSaves
  /\ s.phase = "compared"
  /\ orders' = [orders EXCEPT ![s.order] =
       [status |-> IF "status" \in s.columns THEN s.status ELSE @.status,
        invoiceId |-> IF "invoiceId" \in s.columns THEN s.invoiceId ELSE @.invoiceId]]
  /\ orderSaves' = orderSaves \ {s}
  /\ Answer(s.request)
  /\ UNCHANGED <<invoices, invoiceSaves, received>>

\* The driver returns decimals as strings, and a payment has set amountPaid to
\* a number: an amount equal to the stored one may still count as different.
CompareInvoice(s) ==
  /\ s \in invoiceSaves
  /\ s.phase = "read"
  /\ \E retyped \in SUBSET {"amountPaid"} :
       invoiceSaves' = (invoiceSaves \ {s}) \union
         {[s EXCEPT !.phase = "compared",
                    !.columns = retyped \union
                      {c \in {"status", "amountPaid"} : s[c] # invoices[s.invoice][c]}]}
  /\ UNCHANGED <<orders, invoices, request, orderSaves, received>>

WriteInvoice(s) ==
  LET row == invoices[s.invoice] IN
  /\ s \in invoiceSaves
  /\ s.phase = "compared"
  /\ invoices' = [invoices EXCEPT ![s.invoice] =
       [row EXCEPT
          !.status = IF "status" \in s.columns THEN s.status ELSE row.status,
          !.amountPaid = IF "amountPaid" \in s.columns THEN Round(s.amountPaid) ELSE row.amountPaid]]
  /\ invoiceSaves' = invoiceSaves \ {s}
  /\ received' = [received EXCEPT ![s.invoice] =
       [sum |-> @.sum + s.amount, fractions |-> @.fractions + Fraction(s.amount)]]
  /\ Answer(s.request)
  /\ UNCHANGED <<orders, orderSaves>>

\* A call of the save rejects.  The other links of the same createInvoice go
\* on: Promise.all does not cancel them.
FailOrderSave(s) ==
  /\ MayFail
  /\ s \in orderSaves
  /\ orderSaves' = orderSaves \ {s}
  /\ Answer(s.request)
  /\ UNCHANGED <<orders, invoices, invoiceSaves, received>>

FailInvoiceSave(s) ==
  /\ MayFail
  /\ s \in invoiceSaves
  /\ invoiceSaves' = invoiceSaves \ {s}
  /\ Answer(s.request)
  /\ UNCHANGED <<orders, invoices, orderSaves, received>>

\* The process stops and is started again: what was in memory is gone.
Crash ==
  /\ MayFail
  /\ request' = [r \in Requests |-> Idle]
  /\ orderSaves' = {}
  /\ invoiceSaves' = {}
  /\ UNCHANGED <<orders, invoices, received>>

----------------------------------------------------------------------------
CreateStep(r) ==
  \/ RefuseInvoice(r)
  \/ \E k \in request[r].todo : FetchOrder(r, k)
  \/ \E i \in Invoices : SaveInvoice(r, i)
  \/ \E k \in request[r].todo : ReadOrderToLink(r, k)
  \/ FinishInvoice(r)

SaveStep(r) ==
  \/ \E s \in orderSaves : s.request = r /\ (CompareOrder(s) \/ WriteOrder(s))
  \/ \E s \in invoiceSaves : s.request = r /\ (CompareInvoice(s) \/ WriteInvoice(s))

Next ==
  \/ \E r \in Requests :
       \/ CreateInvoice(r)
       \/ CreateStep(r)
       \/ UpdateOrderStatus(r)
       \/ UpdateInvoicePayment(r)
       \/ UpdateInvoiceStatus(r)
       \/ SaveStep(r)
  \/ \E s \in orderSaves : FailOrderSave(s)
  \/ \E s \in invoiceSaves : FailInvoiceSave(s)
  \/ Crash

Spec == Init /\ [][Next]_vars

\* The event loop runs every continuation and the database answers every
\* call, so a request that has started goes on; no client has to start one.
Fairness ==
  \A r \in Requests : WF_vars(CreateStep(r)) /\ WF_vars(SaveStep(r))

FairSpec == Spec /\ Fairness

----------------------------------------------------------------------------
(***************************************************************************)
(* Properties.                                                             *)
(***************************************************************************)

BilledOn(i) == {invoices[i].billed[k] : k \in DOMAIN invoices[i].billed}

\* The rows, the copies in flight and the requests have the shape that the
\* entities and handlers give them.
TypeOK ==
  /\ orders \in [Orders -> OrderRow]
  /\ invoices \in [Invoices -> InvoiceRow \union {None}]
  /\ request \in [Requests -> Request]
  /\ orderSaves \subseteq OrderSave
  /\ invoiceSaves \subseteq InvoiceSave
  /\ received \in [Invoices -> Receipts]

\* Whatever requests overlap, fail or are lost in a crash, the stored payment
\* of an invoice stays between zero and the invoice's total, although it is
\* checked on a copy and rounded when it is written (updateInvoicePayment).
AmountPaidWithinTotal ==
  \A i \in Invoices : Exists(i) => invoices[i].amountPaid <= invoices[i].totalAmount

\* The rounding of the column gains or loses at most half a cent for each
\* payment that is no whole number of cents.
RoundingAllowance(i) == received[i].fractions * (Cent \div 2)

\* No more is stored than clients have paid, but for half a cent of rounding
\* for each payment that is no whole number of cents: a stale copy may lose a
\* payment but never invents one (updateInvoicePayment and updateInvoiceStatus
\* both write the whole entity).
NoInventedPayment ==
  \A i \in Invoices : Exists(i) => invoices[i].amountPaid <= received[i].sum + RoundingAllowance(i)

\* An order points only to an invoice that exists, billed that order, and
\* belongs to the order's own business and customer, also when a stale Order
\* entity is written back (linkOrdersToInvoice, updateOrderStatus).
LinksAreBacked ==
  \A o \in Orders : orders[o].invoiceId # None =>
    LET i == orders[o].invoiceId IN
    /\ Exists(i)
    /\ o \in BilledOn(i)
    /\ invoices[i].businessId = OrderBusiness[o]
    /\ invoices[i].customerId = OrderCustomer[o]

\* No order is billed on two invoices: what the check "Order is already
\* invoiced" of createInvoice is for.
EachOrderBilledOnce ==
  \A i, j \in Invoices : Exists(i) /\ Exists(j) /\ i # j => BilledOn(i) \intersect BilledOn(j) = {}

\* What clients have paid on an invoice never exceeds its total, but for half
\* a cent for each payment that is no whole number of cents, since the check
\* "exceeds invoice total" of updateInvoicePayment adds the new payment to a
\* sum that the column has rounded.
NoOverpayment ==
  \A i \in Invoices : Exists(i) => received[i].sum <= invoices[i].totalAmount + RoundingAllowance(i)

\* Once createInvoice is over, every order it billed points to the invoice,
\* and goes on pointing to it through later status updates of the order.
BilledOrdersLinkBack ==
  \A i \in Invoices :
    Exists(i) /\ (\A r \in Requests : request[r].invoiceId # i) =>
      \A o \in BilledOn(i) : orders[o].invoiceId = i

\* PAID means paid in full; PARTIALLY_PAID means that something but not all
\* has been paid, unless the column has rounded a payment: the automatic status
\* of updateInvoicePayment is decided on the unrounded sum.
StatusMatchesAmount ==
  \A i \in Invoices : Exists(i) =>
    /\ invoices[i].status = "PAID" => invoices[i].amountPaid = invoices[i].totalAmount
    /\ invoices[i].status = "PARTIALLY_PAID" /\ received[i].fractions = 0 =>
         0 < invoices[i].amountPaid /\ invoices[i].amountPaid < invoices[i].totalAmount

\* If nothing fails, the orders of an invoice that has been saved are
\* eventually linked to it (the second half of createInvoice).
BilledOrdersGetLinked ==
  \A i \in Invoices : Exists(i) ~> Exists(i) /\ \A o \in BilledOn(i) : orders[o].invoiceId = i

(***************************************************************************)
(* What billing promises its clients, with every handler atomic: see       *)
(* InvoiceLedger.  An order counts as billed from the moment the invoice   *)
(* row is saved.                                                           *)
(***************************************************************************)
Ledger == INSTANCE InvoiceLedger WITH
  billedOn <- [o \in Orders |-> {i \in Invoices : Exists(i) /\ o \in BilledOn(i)}],
  total <- [i \in Invoices |-> IF Exists(i) THEN invoices[i].totalAmount ELSE None],
  paid <- [i \in Invoices |-> IF Exists(i) THEN invoices[i].amountPaid ELSE 0]

\* Requests that do not overlap and do not fail behave as the atomic ledger.
ImplementsLedger == Ledger!Spec
=============================================================================
