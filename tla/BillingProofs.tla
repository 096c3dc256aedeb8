---------------------------- MODULE BillingProofs ----------------------------
(***************************************************************************)
(* Theorems about Billing, for every number of users, businesses, orders,  *)
(* invoices and overlapping requests, and with failures and crashes.       *)
(***************************************************************************)
EXTENDS Billing, TLAPS

\* What a request in progress remembers: its arguments are set, and the
\* positions still to do are positions of its orderIds.
RequestsInOrder ==
  \A r \in Requests :
    /\ request[r].todo \subseteq DOMAIN request[r].orderIds
    /\ request[r].pc \in {"fetch", "link"} =>
         /\ request[r].businessId \in Businesses
         /\ request[r].customerId \in Customers
         /\ request[r].invoiceType \in InvoiceType
    /\ request[r].pc = "link" => request[r].invoiceId \in Invoices

\* Invoices are never deleted, so a copy in flight has its row.
SavesHaveRows == \A s \in invoiceSaves : Exists(s.invoice)

TypeInv == TypeOK /\ RequestsInOrder /\ SavesHaveRows

----------------------------------------------------------------------------
(***************************************************************************)
(* Rounding to whole cents.                                                *)
(***************************************************************************)

\* A rounded amount is a whole number of cents.
LEMMA RoundType ==
  ASSUME NEW x \in Nat
  PROVE  Round(x) \in Nat /\ Round(x) % Cent = 0
BY DEF Round, Cent

\* Rounding does not carry an amount over a whole number of cents.
LEMMA RoundBelow ==
  ASSUME NEW x \in Nat, NEW t \in Nat, t % Cent = 0, x <= t
  PROVE  Round(x) <= t
BY DEF Round, Cent

\* A whole number of cents passes through the rounding.
LEMMA RoundPlus ==
  ASSUME NEW a \in Nat, NEW p \in Nat, a % Cent = 0
  PROVE  Round(a + p) = a + Round(p)
BY DEF Round, Cent

LEMMA TotalAmountType ==
  ASSUME NEW x \in Nat
  PROVE  TotalAmount(x) \in Nat /\ TotalAmount(x) % Cent = 0
<1>1. (x \div 5) * 6 \in Nat
  OBVIOUS
<1>2. QED
  BY <1>1, RoundType DEF TotalAmount

\* What rounding an amount gains or loses.
LEMMA RoundAllowance ==
  ASSUME NEW x \in Nat
  PROVE  LET half == Fraction(x) * (Cent \div 2) IN
         half \in Nat /\ Round(x) <= x + half /\ x <= Round(x) + half
BY DEF Round, Cent, Fraction

\* The receipts once a payment has been added to them.
LEMMA ReceiptsGrow ==
  ASSUME NEW q \in Receipts, NEW amount \in Nat
  PROVE  LET q2 == [sum |-> q.sum + amount, fractions |-> q.fractions + Fraction(amount)]
         IN  /\ q2 \in Receipts
             /\ q2.sum = q.sum + amount
             /\ q2.fractions = q.fractions + Fraction(amount)
             /\ q2.fractions * (Cent \div 2) =
                  q.fractions * (Cent \div 2) + Fraction(amount) * (Cent \div 2)
BY DEF Receipts, Cent, Fraction

----------------------------------------------------------------------------
LEMMA InitTypeInv == Init => TypeInv
BY BillingAssumption DEF Init, TypeInv, TypeOK, RequestsInOrder, SavesHaveRows, Idle,
   Request, OrderRow, OrderStatus, Receipts

(***************************************************************************)
(* The records that the actions build are well typed.                      *)
(***************************************************************************)

LEMMA RequestSteps ==
  ASSUME NEW q \in Request, NEW todo \in SUBSET Nat, NEW n \in Nat, NEW i \in Invoices
  PROVE  /\ [q EXCEPT !.pc = "saving"] \in Request
         /\ [q EXCEPT !.todo = todo] \in Request
         /\ [q EXCEPT !.todo = todo, !.subtotal = n] \in Request
         /\ [q EXCEPT !.pc = "link", !.invoiceId = i, !.todo = todo] \in Request
<1>1. [q EXCEPT !.pc = "saving"] \in Request
  BY DEF Request
<1>2. [q EXCEPT !.todo = todo] \in Request
  BY DEF Request
<1>3. [q EXCEPT !.todo = todo, !.subtotal = n] \in Request
  BY DEF Request
<1>4. [q EXCEPT !.pc = "link", !.invoiceId = i, !.todo = todo] \in Request
  BY DEF Request
<1>5. QED
  BY <1>1, <1>2, <1>3, <1>4

LEMMA FetchRequestType ==
  ASSUME NEW q \in Request, NEW b \in Businesses, NEW c \in Customers, NEW t \in InvoiceType,
         NEW ids \in Seq(Orders), NEW todo \in SUBSET Nat
  PROVE  [q EXCEPT !.pc = "fetch", !.businessId = b, !.customerId = c, !.invoiceType = t,
                   !.orderIds = ids, !.todo = todo] \in Request
BY DEF Request

LEMMA IdleTypes == Idle \in Request /\ Saving \in Request
<1>1. Idle \in Request
  BY DEF Idle, Request
<1>2. [Idle EXCEPT !.pc = "saving"] \in Request
  BY <1>1 DEF Request
<1>3. QED
  BY <1>1, <1>2 DEF Saving

LEMMA CopySteps ==
  /\ \A s \in OrderSave, columns \in SUBSET {"status", "invoiceId"} :
       [s EXCEPT !.phase = "compared", !.columns = columns] \in OrderSave
  /\ \A s \in InvoiceSave, columns \in SUBSET {"status", "amountPaid"} :
       [s EXCEPT !.phase = "compared", !.columns = columns] \in InvoiceSave
BY DEF OrderSave, InvoiceSave

LEMMA RowSteps ==
  ASSUME NEW row \in InvoiceRow, NEW status \in InvoiceStatus, NEW paid \in Nat
  PROVE  [row EXCEPT !.status = status, !.amountPaid = paid] \in InvoiceRow
BY DEF InvoiceRow

LEMMA InvoiceCopyType ==
  ASSUME NEW r \in Requests, NEW i \in Invoices, NEW status \in InvoiceStatus,
         NEW paid \in Nat, NEW amount \in Nat
  PROVE  InvoiceCopy(r, i, status, paid, amount) \in InvoiceSave
BY DEF InvoiceCopy, InvoiceSave

LEMMA StatusAfterPaymentType ==
  ASSUME NEW status \in InvoiceStatus, NEW paid \in Nat, NEW total \in Nat
  PROVE  StatusAfterPayment(status, paid, total) \in InvoiceStatus
BY DEF StatusAfterPayment, InvoiceStatus

LEMMA StepTypeInv == TypeInv /\ [Next]_vars => TypeInv'
<1> SUFFICES ASSUME TypeInv, [Next]_vars
             PROVE  TypeInv'
  OBVIOUS
<1> USE BillingAssumption DEF TypeInv
<1>1. ASSUME NEW r \in Requests, CreateInvoice(r)
      PROVE  TypeInv'
  <2>1. PICK u \in Users, b \in Businesses, c \in Customers, t \in InvoiceTypeInputs, ids \in OrderLists :
          /\ verifyBusinessOwnership(u, b)
          /\ ids # <<>>
          /\ request' = [request EXCEPT ![r] =
               [Idle EXCEPT !.pc = "fetch", !.businessId = b, !.customerId = c,
                            !.invoiceType = t, !.orderIds = ids, !.todo = DOMAIN ids]]
    BY <1>1 DEF CreateInvoice
  <2>2. ids \in Seq(Orders) /\ DOMAIN ids \subseteq Nat
    OBVIOUS
  <2>3. request' \in [Requests -> Request]
    BY <2>1, <2>2, IdleTypes, FetchRequestType DEF TypeOK
  <2>4. RequestsInOrder'
    BY <2>1 DEF TypeOK, RequestsInOrder, Request, Idle
  <2>5. QED
    BY <1>1, <2>3, <2>4 DEF CreateInvoice, TypeOK, SavesHaveRows, Exists
<1>2. ASSUME NEW r \in Requests, RefuseInvoice(r)
      PROVE  TypeInv'
  BY <1>2 DEF RefuseInvoice, TypeOK, RequestsInOrder, Idle, Request, SavesHaveRows, Exists
<1>3. ASSUME NEW r \in Requests, NEW k \in request[r].todo, FetchOrder(r, k)
      PROVE  TypeInv'
  <2>1. request[r].orderIds[k] \in Orders
    BY DEF TypeOK, RequestsInOrder, Request
  <2> DEFINE todo == request[r].todo \ {k}
             n == request[r].subtotal + OrderTotal[request[r].orderIds[k]]
             q == [request[r] EXCEPT !.todo = todo, !.subtotal = n]
  <2>2. request' = [request EXCEPT ![r] = q]
    BY <1>3 DEF FetchOrder
  <2>3. request[r] \in Request /\ todo \in SUBSET Nat /\ n \in Nat
    BY <2>1 DEF TypeOK, Request
  <2> HIDE DEF todo, n
  <2>4. /\ q \in Request
        /\ q.todo = todo
        /\ \A f \in {"pc", "businessId", "customerId", "invoiceType", "orderIds", "invoiceId"} :
             q[f] = request[r][f]
    BY <2>3, RequestSteps DEF Request
  <2>5. todo \subseteq request[r].todo
    BY DEF todo
  <2> HIDE DEF q
  <2>6. request' \in [Requests -> Request]
    BY <2>2, <2>4 DEF TypeOK
  <2>7. RequestsInOrder'
    BY <2>2, <2>4, <2>5 DEF TypeOK, RequestsInOrder
  <2>8. QED
    BY <1>3, <2>6, <2>7 DEF FetchOrder, TypeOK, SavesHaveRows, Exists
<1>4. ASSUME NEW r \in Requests, NEW i \in Invoices, SaveInvoice(r, i)
      PROVE  TypeInv'
  <2>1. TotalAmount(request[r].subtotal) \in Nat
    BY TotalAmountType DEF TypeOK, Request
  <2>2. invoices' \in [Invoices -> InvoiceRow \union {None}]
    BY <1>4, <2>1 DEF SaveInvoice, TypeOK, RequestsInOrder, InvoiceRow, InvoiceStatus, Request
  <2>3. DOMAIN request[r].orderIds \subseteq Nat
    BY DEF TypeOK, Request
  <2>4. request' \in [Requests -> Request]
    BY <1>4, <2>3, RequestSteps DEF SaveInvoice, LinkPositions, TypeOK
  <2>5. RequestsInOrder'
    BY <1>4 DEF SaveInvoice, LinkPositions, TypeOK, RequestsInOrder, Request
  <2>6. QED
    BY <1>4, <2>2, <2>4, <2>5 DEF SaveInvoice, TypeOK, SavesHaveRows, Exists
<1>5. ASSUME NEW r \in Requests, NEW k \in request[r].todo, ReadOrderToLink(r, k)
      PROVE  TypeInv'
  <2>1. request[r].orderIds[k] \in Orders /\ k \in Nat
    BY DEF TypeOK, RequestsInOrder, Request
  <2>2. orderSaves' \subseteq OrderSave
    BY <1>5, <2>1 DEF ReadOrderToLink, TypeOK, RequestsInOrder, OrderSave, OrderRow
  <2>3. request' \in [Requests -> Request]
    <3> DEFINE todo == request[r].todo \ {k}
               q == [request[r] EXCEPT !.todo = todo]
    <3>1. request' = [request EXCEPT ![r] = q]
      BY <1>5 DEF ReadOrderToLink
    <3>2. request[r] \in Request /\ todo \in SUBSET Nat
      BY DEF TypeOK, Request
    <3> HIDE DEF todo
    <3>3. q \in Request
      BY <3>2 DEF Request
    <3>4. QED
      BY <3>1, <3>3 DEF TypeOK
  <2>4. RequestsInOrder'
    BY <1>5 DEF ReadOrderToLink, TypeOK, RequestsInOrder, Request
  <2>5. QED
    BY <1>5, <2>2, <2>3, <2>4 DEF ReadOrderToLink, TypeOK, SavesHaveRows, Exists
<1>6. ASSUME NEW r \in Requests, FinishInvoice(r)
      PROVE  TypeInv'
  BY <1>6 DEF FinishInvoice, TypeOK, RequestsInOrder, Idle, Request, SavesHaveRows, Exists
<1>7. ASSUME NEW r \in Requests, request' = [request EXCEPT ![r] = Saving]
      PROVE  request' \in [Requests -> Request] /\ RequestsInOrder'
  <2>1. request' \in [Requests -> Request]
    BY <1>7, IdleTypes DEF TypeOK
  <2>2. Saving.todo = {} /\ Saving.pc = "saving"
    BY DEF Saving, Idle
  <2>3. RequestsInOrder'
    BY <1>7, <2>2 DEF TypeOK, RequestsInOrder
  <2>4. QED
    BY <2>1, <2>3
<1>8. ASSUME NEW r \in Requests, UpdateOrderStatus(r)
      PROVE  TypeInv'
  <2>1. orderSaves' \subseteq OrderSave
    BY <1>8 DEF UpdateOrderStatus, TypeOK, OrderSave, OrderRow
  <2>2. QED
    BY <1>7, <1>8, <2>1 DEF UpdateOrderStatus, TypeOK, SavesHaveRows, Exists
<1>9. ASSUME NEW r \in Requests, UpdateInvoicePayment(r)
      PROVE  TypeInv'
  <2>1. PICK i \in Invoices, amount \in Payments :
          /\ Exists(i)
          /\ invoiceSaves' = invoiceSaves \union
               {InvoiceCopy(r, i, StatusAfterPayment(invoices[i].status,
                                    invoices[i].amountPaid + amount, invoices[i].totalAmount),
                            invoices[i].amountPaid + amount, amount)}
    BY <1>9 DEF UpdateInvoicePayment
  <2>2. invoices[i] \in InvoiceRow /\ amount \in Nat
    BY <2>1 DEF TypeOK, Exists
  <2>3. invoiceSaves' \subseteq InvoiceSave
    <3>1. /\ invoices[i].status \in InvoiceStatus
          /\ invoices[i].amountPaid + amount \in Nat
          /\ invoices[i].totalAmount \in Nat
      BY <2>2 DEF InvoiceRow
    <3>2. QED
      BY <2>1, <2>2, <3>1, StatusAfterPaymentType, InvoiceCopyType DEF TypeOK
  <2>4. SavesHaveRows'
    BY <1>9, <2>1 DEF UpdateInvoicePayment, InvoiceCopy, SavesHaveRows, Exists
  <2>5. QED
    BY <1>7, <1>9, <2>3, <2>4 DEF UpdateInvoicePayment, TypeOK
<1>10. ASSUME NEW r \in Requests, UpdateInvoiceStatus(r)
       PROVE  TypeInv'
  <2>1. PICK i \in Invoices, status \in InvoiceStatusInputs :
          /\ Exists(i)
          /\ invoiceSaves' = invoiceSaves \union
               {InvoiceCopy(r, i, status, invoices[i].amountPaid, 0)}
    BY <1>10 DEF UpdateInvoiceStatus
  <2>2. invoices[i] \in InvoiceRow
    BY <2>1 DEF TypeOK, Exists
  <2>3. invoiceSaves' \subseteq InvoiceSave
    BY <2>1, <2>2 DEF TypeOK, InvoiceCopy, InvoiceRow, InvoiceSave
  <2>4. SavesHaveRows'
    BY <1>10, <2>1 DEF UpdateInvoiceStatus, InvoiceCopy, SavesHaveRows, Exists
  <2>5. QED
    BY <1>7, <1>10, <2>3, <2>4 DEF UpdateInvoiceStatus, TypeOK
<1>11. ASSUME NEW r \in Requests, Answer(r)
       PROVE  request' \in [Requests -> Request] /\ RequestsInOrder'
  BY <1>11 DEF Answer, TypeOK, RequestsInOrder, Idle, Request
<1>12. ASSUME NEW s \in orderSaves, CompareOrder(s)
       PROVE  TypeInv'
  <2>1. orderSaves' \subseteq OrderSave
    <3>1. PICK columns \in SUBSET {"status", "invoiceId"} :
            orderSaves' = (orderSaves \ {s}) \union
              {[s EXCEPT !.phase = "compared", !.columns = columns]}
      BY <1>12 DEF CompareOrder
    <3>2. s \in OrderSave
      BY DEF TypeOK
    <3>3. QED
      BY <3>1, <3>2, CopySteps DEF TypeOK
  <2>2. QED
    BY <1>12, <2>1 DEF CompareOrder, TypeOK, RequestsInOrder, SavesHaveRows, Exists
<1>13. ASSUME NEW s \in orderSaves, WriteOrder(s)
       PROVE  TypeInv'
  <2>1. s \in OrderSave
    BY DEF TypeOK
  <2>2. orders' \in [Orders -> OrderRow]
    <3>1. s.order \in Orders /\ s.status \in OrderStatus /\ s.invoiceId \in Invoices \union {None}
      BY <2>1 DEF OrderSave
    <3>2. orders[s.order].status \in OrderStatus /\ orders[s.order].invoiceId \in Invoices \union {None}
      BY <3>1 DEF TypeOK, OrderRow
    <3>3. QED
      BY <1>13, <3>1, <3>2 DEF WriteOrder, TypeOK, OrderRow, SavesHaveRows, Exists
  <2>3. request' \in [Requests -> Request] /\ RequestsInOrder'
    BY <1>11, <1>13, <2>1 DEF WriteOrder, OrderSave
  <2>4. QED
    BY <1>13, <2>2, <2>3 DEF WriteOrder, TypeOK, SavesHaveRows, Exists
<1>14. ASSUME NEW s \in invoiceSaves, CompareInvoice(s)
       PROVE  TypeInv'
  <2>1. invoiceSaves' \subseteq InvoiceSave
    <3>1. PICK columns \in SUBSET {"status", "amountPaid"} :
            invoiceSaves' = (invoiceSaves \ {s}) \union
              {[s EXCEPT !.phase = "compared", !.columns = columns]}
      BY <1>14 DEF CompareInvoice
    <3>2. s \in InvoiceSave
      BY DEF TypeOK
    <3>3. QED
      BY <3>1, <3>2, CopySteps DEF TypeOK
  <2>2. \A t \in invoiceSaves' : \E u \in invoiceSaves : t.invoice = u.invoice
    <3>1. s \in InvoiceSave
      BY DEF TypeOK
    <3>2. PICK columns :
            invoiceSaves' = (invoiceSaves \ {s}) \union
              {[s EXCEPT !.phase = "compared", !.columns = columns]}
      BY <1>14 DEF CompareInvoice
    <3>3. [s EXCEPT !.phase = "compared", !.columns = columns].invoice = s.invoice
      BY <3>1 DEF InvoiceSave
    <3>4. QED
      BY <3>2, <3>3
  <2>3. SavesHaveRows'
    BY <1>14, <2>2 DEF CompareInvoice, SavesHaveRows, Exists
  <2>4. QED
    BY <1>14, <2>1, <2>3 DEF CompareInvoice, TypeOK, RequestsInOrder
<1>15. ASSUME NEW s \in invoiceSaves, WriteInvoice(s)
       PROVE  TypeInv'
  <2>1. s \in InvoiceSave /\ Round(s.amountPaid) \in Nat /\ Round(s.amount) \in Nat
    BY RoundType DEF TypeOK, InvoiceSave
  <2>2. /\ s.invoice \in Invoices
        /\ \E row \in InvoiceRow : invoices' = [invoices EXCEPT ![s.invoice] = row]
    <3> DEFINE row == invoices[s.invoice]
               status == IF "status" \in s.columns THEN s.status ELSE row.status
               paid == IF "amountPaid" \in s.columns THEN Round(s.amountPaid) ELSE row.amountPaid
    <3>1. row \in InvoiceRow /\ status \in InvoiceStatus /\ paid \in Nat
      BY <2>1 DEF TypeOK, SavesHaveRows, Exists, InvoiceSave, InvoiceRow
    <3>2. invoices' = [invoices EXCEPT ![s.invoice] =
            [row EXCEPT !.status = status, !.amountPaid = paid]]
      BY <1>15 DEF WriteInvoice
    <3> HIDE DEF row, status, paid
    <3>3. QED
      BY <2>1, <3>1, <3>2, RowSteps DEF InvoiceSave
  <2>3. invoices' \in [Invoices -> InvoiceRow \union {None}]
    BY <2>2 DEF TypeOK
  <2>4. received' \in [Invoices -> Receipts]
    BY <1>15, <2>1, ReceiptsGrow DEF WriteInvoice, TypeOK, InvoiceSave
  <2>5. request' \in [Requests -> Request] /\ RequestsInOrder'
    BY <1>11, <1>15, <2>1 DEF WriteInvoice, InvoiceSave
  <2>6. SavesHaveRows'
    <3>1. \A row \in InvoiceRow : row # None
      BY NoneAssumption
    <3>2. \A i \in Invoices : invoices[i] # None => invoices'[i] # None
      BY <1>15, <2>2, <3>1 DEF WriteInvoice, TypeOK
    <3>3. QED
      BY <1>15, <2>1, <3>2 DEF WriteInvoice, SavesHaveRows, Exists, InvoiceSave, TypeOK
  <2>7. QED
    BY <1>15, <2>3, <2>4, <2>5, <2>6 DEF WriteInvoice, TypeOK
<1>16. ASSUME NEW s \in orderSaves, FailOrderSave(s)
       PROVE  TypeInv'
  <2>1. s.request \in Requests
    BY DEF TypeOK, OrderSave
  <2>2. QED
    BY <1>11, <1>16, <2>1 DEF FailOrderSave, TypeOK, SavesHaveRows, Exists
<1>17. ASSUME NEW s \in invoiceSaves, FailInvoiceSave(s)
       PROVE  TypeInv'
  <2>1. s.request \in Requests
    BY DEF TypeOK, InvoiceSave
  <2>2. QED
    BY <1>11, <1>17, <2>1 DEF FailInvoiceSave, TypeOK, SavesHaveRows, Exists
<1>18. CASE Crash
  BY <1>18 DEF Crash, TypeOK, RequestsInOrder, Idle, Request, SavesHaveRows, Exists
<1>19. CASE UNCHANGED vars
  BY <1>19 DEF vars, TypeOK, RequestsInOrder, SavesHaveRows, Exists
<1>20. QED
  BY <1>1, <1>2, <1>3, <1>4, <1>5, <1>6, <1>8, <1>9, <1>10, <1>12, <1>13, <1>14, <1>15, <1>16,
     <1>17, <1>18, <1>19 DEF Next, CreateStep, SaveStep

\* Rows, copies in flight and requests keep their shape in every state.
THEOREM TypeCorrect == Spec => []TypeOK
<1>1. Spec => []TypeInv
  BY InitTypeInv, StepTypeInv, PTL DEF Spec
<1>2. TypeInv => TypeOK
  BY DEF TypeInv
<1>3. QED
  BY <1>1, <1>2, PTL

----------------------------------------------------------------------------
(***************************************************************************)
(* An invoice that exists goes on existing, and only its payment and its   *)
(* status change.                                                          *)
(***************************************************************************)

SameIdentity(old, new) ==
  /\ new.businessId = old.businessId
  /\ new.customerId = old.customerId
  /\ new.billed = old.billed
  /\ new.totalAmount = old.totalAmount

LEMMA RowsKeepIdentity ==
  ASSUME TypeInv, [Next]_vars
  PROVE  \A i \in Invoices : Exists(i) => Exists(i)' /\ SameIdentity(invoices[i], invoices'[i])
<1>1. ASSUME NEW r \in Requests, NEW j \in Invoices, SaveInvoice(r, j)
      PROVE  \A i \in Invoices : Exists(i) => invoices'[i] = invoices[i]
  BY <1>1 DEF SaveInvoice, Exists, TypeInv, TypeOK
<1>2. ASSUME NEW s \in invoiceSaves, WriteInvoice(s)
      PROVE  \A i \in Invoices : Exists(i) => Exists(i)' /\ SameIdentity(invoices[i], invoices'[i])
  <2> DEFINE row == invoices[s.invoice]
             status == IF "status" \in s.columns THEN s.status ELSE row.status
             paid == IF "amountPaid" \in s.columns THEN Round(s.amountPaid) ELSE row.amountPaid
             new == [row EXCEPT !.status = status, !.amountPaid = paid]
  <2>1. s \in InvoiceSave /\ Exists(s.invoice)
    BY DEF TypeInv, TypeOK, SavesHaveRows
  <2>2. row \in InvoiceRow /\ s.invoice \in Invoices
    BY <2>1 DEF TypeInv, TypeOK, Exists, InvoiceSave
  <2>3. invoices' = [invoices EXCEPT ![s.invoice] = new]
    BY <1>2 DEF WriteInvoice
  <2>4. status \in InvoiceStatus /\ paid \in Nat
    BY <2>1, <2>2, RoundType DEF InvoiceSave, InvoiceRow
  <2> HIDE DEF row, status, paid
  <2>5. SameIdentity(row, new)
    BY <2>2 DEF SameIdentity, InvoiceRow
  <2>6. new \in InvoiceRow
    BY <2>2, <2>4, RowSteps
  <2>7. new # None
    BY <2>6, NoneAssumption
  <2> HIDE DEF new
  <2>8. QED
    BY <2>2, <2>3, <2>5, <2>7 DEF TypeInv, TypeOK, Exists, SameIdentity, row
<1>3. ASSUME UNCHANGED invoices
      PROVE  \A i \in Invoices : Exists(i) => Exists(i)' /\ SameIdentity(invoices[i], invoices'[i])
  BY <1>3 DEF Exists, SameIdentity
<1>4. QED
  BY <1>1, <1>2, <1>3 DEF Exists, SameIdentity, Next, vars, CreateInvoice, CreateStep, RefuseInvoice,
     FetchOrder, ReadOrderToLink, FinishInvoice, UpdateOrderStatus, UpdateInvoicePayment,
     UpdateInvoiceStatus, SaveStep, CompareOrder, WriteOrder, CompareInvoice, FailOrderSave,
     FailInvoiceSave, Crash

----------------------------------------------------------------------------
(***************************************************************************)
(* Payments.  The inductive invariant speaks of the copies in flight: each *)
(* was within the total when it was checked, and rounding cannot carry it  *)
(* over because the total is a whole number of cents.                      *)
(***************************************************************************)

WholeCents ==
  \A i \in Invoices : Exists(i) =>
    invoices[i].amountPaid % Cent = 0 /\ invoices[i].totalAmount % Cent = 0

\* What has been paid, with the rounding that these payments allow.
Recordable(i) == received[i].sum + RoundingAllowance(i)

CopiesWithinTotal ==
  \A s \in invoiceSaves :
    /\ s.amountPaid <= invoices[s.invoice].totalAmount
    /\ Round(s.amountPaid) <= Recordable(s.invoice) + Round(s.amount)

PaymentInv ==
  WholeCents /\ AmountPaidWithinTotal /\ NoInventedPayment /\ CopiesWithinTotal

LEMMA InitPaymentInv == Init => PaymentInv
BY DEF Init, PaymentInv, WholeCents, AmountPaidWithinTotal, NoInventedPayment, CopiesWithinTotal, Exists

LEMMA RecordableType ==
  ASSUME TypeInv, NEW i \in Invoices
  PROVE  /\ received[i] \in Receipts /\ received[i].sum \in Nat
         /\ RoundingAllowance(i) \in Nat /\ Recordable(i) \in Nat
<1>1. received[i] \in Receipts
  BY DEF TypeInv, TypeOK
<1>2. received[i].sum \in Nat /\ received[i].fractions \in Nat
  BY <1>1 DEF Receipts
<1>3. RoundingAllowance(i) \in Nat
  BY <1>2 DEF RoundingAllowance, Cent
<1>4. QED
  BY <1>1, <1>2, <1>3 DEF Recordable

\* A payment that is written adds its amount to what has been paid, and what
\* may be recorded grows at least by the rounded amount.
LEMMA WrittenReceipts ==
  ASSUME TypeInv, NEW s \in invoiceSaves, WriteInvoice(s)
  PROVE  LET i == s.invoice
             half == Fraction(s.amount) * (Cent \div 2)
         IN  /\ i \in Invoices /\ s.amount \in Nat
             /\ received'[i].sum = received[i].sum + s.amount
             /\ received'[i].fractions = received[i].fractions + Fraction(s.amount)
             /\ RoundingAllowance(i)' = RoundingAllowance(i) + half
             /\ Recordable(i)' \in Nat
             /\ Recordable(i) + Round(s.amount) <= Recordable(i)'
             /\ \A j \in Invoices \ {i} : received'[j] = received[j] /\ Recordable(j)' = Recordable(j)
<1> DEFINE i == s.invoice
           half == Fraction(s.amount) * (Cent \div 2)
           q == [sum |-> received[i].sum + s.amount,
                 fractions |-> received[i].fractions + Fraction(s.amount)]
<1>1. i \in Invoices /\ s.amount \in Nat
  BY DEF TypeInv, TypeOK, InvoiceSave
<1>2. received[i] \in Receipts /\ received[i].sum \in Nat /\ RoundingAllowance(i) \in Nat
  BY <1>1, RecordableType
<1>3. received' = [received EXCEPT ![i] = q]
  BY DEF WriteInvoice
<1>4. /\ q \in Receipts /\ q.sum = received[i].sum + s.amount
      /\ q.fractions = received[i].fractions + Fraction(s.amount)
      /\ q.fractions * (Cent \div 2) = received[i].fractions * (Cent \div 2) + half
  BY <1>1, <1>2, ReceiptsGrow
<1> HIDE DEF q
<1>5. received'[i] = q /\ \A j \in Invoices \ {i} : received'[j] = received[j]
  BY <1>1, <1>3 DEF TypeInv, TypeOK
<1>6. RoundingAllowance(i)' = RoundingAllowance(i) + half
  BY <1>4, <1>5 DEF RoundingAllowance
<1>7. \A j \in Invoices \ {i} : Recordable(j)' = Recordable(j)
  BY <1>5 DEF Recordable, RoundingAllowance
<1>8. half \in Nat /\ Round(s.amount) <= s.amount + half /\ Round(s.amount) \in Nat
  BY <1>1, RoundAllowance, RoundType
<1> HIDE DEF half
<1>9. Recordable(i)' = received[i].sum + s.amount + (RoundingAllowance(i) + half)
  BY <1>4, <1>5, <1>6 DEF Recordable
<1>10. Recordable(i)' \in Nat /\ Recordable(i) + Round(s.amount) <= Recordable(i)'
  BY <1>1, <1>2, <1>8, <1>9 DEF Recordable
<1>11. QED
  BY <1>1, <1>4, <1>5, <1>6, <1>7, <1>10 DEF half

\* As long as no payment is written, what may be recorded stays.
LEMMA RecordableKept == ASSUME UNCHANGED received PROVE \A i : Recordable(i)' = Recordable(i)
BY DEF Recordable, RoundingAllowance

\* A new copy of an invoice that satisfies the bounds keeps the invariant.
LEMMA NewCopyPaymentInv ==
  ASSUME TypeInv, PaymentInv, NEW r \in Requests, NEW i \in Invoices, Exists(i),
         NEW status \in InvoiceStatus, NEW amount \in Nat,
         invoices[i].amountPaid + amount <= invoices[i].totalAmount,
         invoiceSaves' = invoiceSaves \union
           {InvoiceCopy(r, i, status, invoices[i].amountPaid + amount, amount)},
         UNCHANGED <<invoices, received>>
  PROVE  PaymentInv'
<1> DEFINE s == InvoiceCopy(r, i, status, invoices[i].amountPaid + amount, amount)
<1>1. invoices[i] \in InvoiceRow /\ Recordable(i) \in Nat
  BY RecordableType DEF TypeInv, TypeOK, Exists
<1>2. invoices[i].amountPaid \in Nat /\ invoices[i].amountPaid % Cent = 0
  BY <1>1 DEF InvoiceRow, PaymentInv, WholeCents
<1>3. Round(invoices[i].amountPaid + amount) = invoices[i].amountPaid + Round(amount)
  BY <1>2, RoundPlus
<1>4. invoices[i].amountPaid <= Recordable(i)
  BY DEF PaymentInv, NoInventedPayment, Recordable
<1>5. s.invoice = i /\ s.amountPaid = invoices[i].amountPaid + amount /\ s.amount = amount
  BY DEF InvoiceCopy
<1>6. Round(s.amountPaid) <= Recordable(i) + Round(amount)
  BY <1>1, <1>2, <1>3, <1>4, <1>5, RoundType
<1> HIDE DEF s
<1>7. CopiesWithinTotal'
  BY <1>5, <1>6, RecordableKept DEF PaymentInv, CopiesWithinTotal, s
<1>8. QED
  BY <1>7, RecordableKept DEF PaymentInv, WholeCents, AmountPaidWithinTotal, NoInventedPayment,
     Recordable, Exists

LEMMA StepPaymentInv == TypeInv /\ PaymentInv /\ [Next]_vars => PaymentInv'
<1> SUFFICES ASSUME TypeInv, PaymentInv, [Next]_vars
             PROVE  PaymentInv'
  OBVIOUS
<1>1. ASSUME UNCHANGED <<invoices, received>>, invoiceSaves' \subseteq invoiceSaves
      PROVE  PaymentInv'
  BY <1>1, RecordableKept DEF PaymentInv, WholeCents, AmountPaidWithinTotal, NoInventedPayment,
     CopiesWithinTotal, Recordable, Exists
<1>2. ASSUME NEW r \in Requests, NEW i \in Invoices, SaveInvoice(r, i)
      PROVE  PaymentInv'
  <2> DEFINE total == TotalAmount(request[r].subtotal)
  <2>1. total \in Nat /\ total % Cent = 0
    BY TotalAmountType DEF TypeInv, TypeOK, Request
  <2>2. invoices'[i].amountPaid = 0 /\ invoices'[i].totalAmount = total
    BY <1>2 DEF SaveInvoice, TypeInv, TypeOK
  <2>3. \A j \in Invoices \ {i} : invoices'[j] = invoices[j]
    BY <1>2 DEF SaveInvoice, TypeInv, TypeOK
  <2>4. 0 % Cent = 0 /\ Recordable(i) \in Nat
    BY RecordableType DEF Cent
  <2>5. UNCHANGED <<received, invoiceSaves>> /\ ~Exists(i)
    BY <1>2 DEF SaveInvoice
  <2>6. \A s \in invoiceSaves : s.invoice \in Invoices \ {i}
    BY <2>5 DEF TypeInv, TypeOK, SavesHaveRows, InvoiceSave
  <2> HIDE DEF total
  <2>7. WholeCents' /\ AmountPaidWithinTotal' /\ NoInventedPayment'
    BY <2>1, <2>2, <2>3, <2>4, <2>5, RecordableKept DEF PaymentInv, WholeCents, AmountPaidWithinTotal,
       NoInventedPayment, Recordable, Exists
  <2>8. CopiesWithinTotal'
    BY <2>3, <2>5, <2>6, RecordableKept DEF PaymentInv, CopiesWithinTotal
  <2>9. QED
    BY <2>7, <2>8 DEF PaymentInv
<1>3. ASSUME NEW r \in Requests, UpdateInvoicePayment(r)
      PROVE  PaymentInv'
  <2>1. PICK i \in Invoices, amount \in Payments :
          /\ Exists(i)
          /\ invoices[i].amountPaid + amount <= invoices[i].totalAmount
          /\ invoiceSaves' = invoiceSaves \union
               {InvoiceCopy(r, i, StatusAfterPayment(invoices[i].status,
                                    invoices[i].amountPaid + amount, invoices[i].totalAmount),
                            invoices[i].amountPaid + amount, amount)}
    BY <1>3 DEF UpdateInvoicePayment, PaymentAccepted
  <2>2. amount \in Nat /\ invoices[i] \in InvoiceRow
    BY <2>1, BillingAssumption DEF TypeInv, TypeOK, Exists
  <2>3. StatusAfterPayment(invoices[i].status, invoices[i].amountPaid + amount, invoices[i].totalAmount)
          \in InvoiceStatus
    <3>1. /\ invoices[i].status \in InvoiceStatus
          /\ invoices[i].amountPaid + amount \in Nat
          /\ invoices[i].totalAmount \in Nat
      BY <2>2 DEF InvoiceRow
    <3>2. QED
      BY <3>1, StatusAfterPaymentType
  <2>4. UNCHANGED <<invoices, received>>
    BY <1>3 DEF UpdateInvoicePayment
  <2>5. QED
    BY <2>1, <2>2, <2>3, <2>4, NewCopyPaymentInv
<1>4. ASSUME NEW r \in Requests, UpdateInvoiceStatus(r)
      PROVE  PaymentInv'
  <2>1. PICK i \in Invoices, status \in InvoiceStatusInputs :
          /\ Exists(i)
          /\ invoiceSaves' = invoiceSaves \union {InvoiceCopy(r, i, status, invoices[i].amountPaid, 0)}
    BY <1>4 DEF UpdateInvoiceStatus
  <2>2. status \in InvoiceStatus /\ invoices[i] \in InvoiceRow
    BY <2>1, BillingAssumption DEF TypeInv, TypeOK, Exists
  <2>3. /\ invoices[i].amountPaid + 0 = invoices[i].amountPaid
        /\ invoices[i].amountPaid + 0 <= invoices[i].totalAmount
    BY <2>1, <2>2 DEF InvoiceRow, PaymentInv, AmountPaidWithinTotal
  <2>4. UNCHANGED <<invoices, received>>
    BY <1>4 DEF UpdateInvoiceStatus
  <2>5. QED
    BY <2>1, <2>2, <2>3, <2>4, NewCopyPaymentInv
<1>5. ASSUME NEW s \in invoiceSaves, CompareInvoice(s)
      PROVE  PaymentInv'
  <2>1. s \in InvoiceSave
    BY DEF TypeInv, TypeOK
  <2>2. PICK columns :
          invoiceSaves' = (invoiceSaves \ {s}) \union
            {[s EXCEPT !.phase = "compared", !.columns = columns]}
    BY <1>5 DEF CompareInvoice
  <2> DEFINE t == [s EXCEPT !.phase = "compared", !.columns = columns]
  <2>3. t.invoice = s.invoice /\ t.amountPaid = s.amountPaid /\ t.amount = s.amount
    BY <2>1 DEF InvoiceSave
  <2>4. UNCHANGED <<invoices, received>>
    BY <1>5 DEF CompareInvoice
  <2>5. invoiceSaves' = (invoiceSaves \ {s}) \union {t}
    BY <2>2
  <2> HIDE DEF t
  <2>6. CopiesWithinTotal'
    BY <2>3, <2>4, <2>5, RecordableKept DEF PaymentInv, CopiesWithinTotal
  <2>7. QED
    BY <2>4, <2>6, RecordableKept DEF PaymentInv, WholeCents, AmountPaidWithinTotal, NoInventedPayment,
       Recordable, Exists
<1>6. ASSUME NEW s \in invoiceSaves, WriteInvoice(s)
      PROVE  PaymentInv'
  <2> DEFINE i == s.invoice
             row == invoices[s.invoice]
             status == IF "status" \in s.columns THEN s.status ELSE row.status
             paid == IF "amountPaid" \in s.columns THEN Round(s.amountPaid) ELSE row.amountPaid
             new == [row EXCEPT !.status = status, !.amountPaid = paid]
  <2>1. s \in InvoiceSave /\ Exists(i)
    BY DEF TypeInv, TypeOK, SavesHaveRows
  <2>2. row \in InvoiceRow /\ i \in Invoices /\ Recordable(i) \in Nat
    BY <2>1, RecordableType DEF TypeInv, TypeOK, Exists, InvoiceSave
  <2>3. invoices' = [invoices EXCEPT ![i] = new]
    BY <1>6 DEF WriteInvoice
  <2>4. /\ Recordable(i)' \in Nat
        /\ Recordable(i) + Round(s.amount) <= Recordable(i)'
        /\ \A j \in Invoices \ {i} : Recordable(j)' = Recordable(j)
    BY <1>6, WrittenReceipts
  <2>5. Round(s.amount) \in Nat /\ s.amountPaid \in Nat
    BY <2>1, RoundType DEF InvoiceSave
  <2>6. row.totalAmount \in Nat /\ row.amountPaid \in Nat /\ row.totalAmount % Cent = 0
    BY <2>1, <2>2 DEF InvoiceRow, PaymentInv, WholeCents
  <2>7. Round(s.amountPaid) \in Nat /\ Round(s.amountPaid) % Cent = 0 /\ Round(s.amountPaid) <= row.totalAmount
    BY <2>5, <2>6, RoundType, RoundBelow DEF PaymentInv, CopiesWithinTotal
  <2>8. Round(s.amountPaid) <= Recordable(i) + Round(s.amount)
    BY DEF PaymentInv, CopiesWithinTotal
  <2>9. /\ paid \in Nat
        /\ paid % Cent = 0
        /\ paid <= row.totalAmount
        /\ paid <= Recordable(i) + Round(s.amount)
    BY <2>1, <2>2, <2>5, <2>6, <2>7, <2>8 DEF PaymentInv, WholeCents, AmountPaidWithinTotal, NoInventedPayment,
       Recordable
  <2> HIDE DEF paid, status
  <2>10. new.amountPaid = paid /\ new.totalAmount = row.totalAmount
    BY <2>2 DEF InvoiceRow
  <2> HIDE DEF new
  <2>11. /\ invoices'[i] = new
         /\ \A j \in Invoices \ {i} : invoices'[j] = invoices[j]
    BY <2>2, <2>3 DEF TypeInv, TypeOK
  <2>12. paid <= Recordable(i)'
    BY <2>2, <2>4, <2>5, <2>9
  <2>13. WholeCents' /\ AmountPaidWithinTotal'
    BY <2>1, <2>6, <2>9, <2>10, <2>11 DEF PaymentInv, WholeCents, AmountPaidWithinTotal, Exists
  <2>14. NoInventedPayment'
    BY <2>4, <2>10, <2>11, <2>12 DEF PaymentInv, NoInventedPayment, Recordable, Exists
  <2>15. ASSUME NEW t \in invoiceSaves'
         PROVE  /\ t.amountPaid <= invoices'[t.invoice].totalAmount
                /\ Round(t.amountPaid) <= Recordable(t.invoice)' + Round(t.amount)
    <3>1. t \in invoiceSaves /\ t \in InvoiceSave
      BY <1>6, <2>15 DEF WriteInvoice, TypeInv, TypeOK
    <3>2. PICK j \in Invoices : j = t.invoice
      BY <3>1 DEF InvoiceSave
    <3>3. Recordable(j) \in Nat /\ Round(t.amountPaid) \in Nat /\ Round(t.amount) \in Nat
      BY <3>1, RoundType, RecordableType DEF InvoiceSave
    <3>4. invoices'[j].totalAmount = invoices[j].totalAmount
      BY <2>10, <2>11
    <3>5. Recordable(j) <= Recordable(j)' /\ Recordable(j)' \in Nat
      BY <2>2, <2>4, <2>5, <3>3
    <3>6. /\ t.amountPaid <= invoices[j].totalAmount
          /\ Round(t.amountPaid) <= Recordable(j) + Round(t.amount)
      BY <3>1, <3>2 DEF PaymentInv, CopiesWithinTotal
    <3>7. Round(t.amountPaid) <= Recordable(j)' + Round(t.amount)
      BY <3>3, <3>5, <3>6
    <3>8. QED
      BY <3>2, <3>4, <3>6, <3>7
  <2>16. QED
    BY <2>13, <2>14, <2>15 DEF PaymentInv, CopiesWithinTotal
<1>7. QED
  BY <1>1, <1>2, <1>3, <1>4, <1>5, <1>6 DEF Next, vars, CreateInvoice, CreateStep, RefuseInvoice, FetchOrder,
     ReadOrderToLink, FinishInvoice, UpdateOrderStatus, SaveStep, CompareOrder, WriteOrder, FailOrderSave,
     FailInvoiceSave, Crash

\* Whatever requests overlap, fail or are lost in a crash, the stored payment
\* of every invoice stays within the invoice's total.
THEOREM PaymentWithinTotal == Spec => []AmountPaidWithinTotal
<1>1. Spec => []TypeInv
  BY InitTypeInv, StepTypeInv, PTL DEF Spec
<1>2. Spec => []PaymentInv
  BY <1>1, InitPaymentInv, StepPaymentInv, PTL DEF Spec
<1>3. PaymentInv => AmountPaidWithinTotal
  BY DEF PaymentInv
<1>4. QED
  BY <1>2, <1>3, PTL

\* No interleaving of stale copies stores more than clients have paid, but for
\* half a cent for each payment that is no whole number of cents.
THEOREM PaymentNotInvented == Spec => []NoInventedPayment
<1>1. Spec => []TypeInv
  BY InitTypeInv, StepTypeInv, PTL DEF Spec
<1>2. Spec => []PaymentInv
  BY <1>1, InitPaymentInv, StepPaymentInv, PTL DEF Spec
<1>3. PaymentInv => NoInventedPayment
  BY DEF PaymentInv
<1>4. QED
  BY <1>2, <1>3, PTL

----------------------------------------------------------------------------
(***************************************************************************)
(* Links.  A stale Order entity may overwrite a link, but the link it      *)
(* writes was valid when it was read, and invoices keep their identity, so *)
(* it still is.                                                            *)
(***************************************************************************)

Backed(o, i) ==
  /\ i \in Invoices
  /\ Exists(i)
  /\ o \in BilledOn(i)
  /\ invoices[i].businessId = OrderBusiness[o]
  /\ invoices[i].customerId = OrderCustomer[o]

RowsBacked == \A o \in Orders : orders[o].invoiceId # None => Backed(o, orders[o].invoiceId)

CopiesBacked == \A s \in orderSaves : s.invoiceId # None => Backed(s.order, s.invoiceId)

\* The position k of request r holds an order of r's business and customer.
Verified(r, k) ==
  /\ OrderBusiness[request[r].orderIds[k]] = request[r].businessId
  /\ OrderCustomer[request[r].orderIds[k]] = request[r].customerId

FetchedVerified ==
  \A r \in Requests : request[r].pc = "fetch" =>
    \A k \in DOMAIN request[r].orderIds \ request[r].todo : Verified(r, k)

LinkingBacked ==
  \A r \in Requests : request[r].pc = "link" =>
    \A k \in DOMAIN request[r].orderIds : Backed(request[r].orderIds[k], request[r].invoiceId)

LinkInv == RowsBacked /\ CopiesBacked /\ FetchedVerified /\ LinkingBacked

LEMMA InitLinkInv == Init => LinkInv
BY DEF Init, LinkInv, RowsBacked, CopiesBacked, FetchedVerified, LinkingBacked, Idle

LEMMA BackedStable ==
  ASSUME TypeInv, [Next]_vars, NEW o, NEW i, Backed(o, i)
  PROVE  Backed(o, i)'
BY RowsKeepIdentity DEF Backed, BilledOn, SameIdentity

LEMMA StepLinkInv == TypeInv /\ LinkInv /\ [Next]_vars => LinkInv'
<1> SUFFICES ASSUME TypeInv, LinkInv, [Next]_vars
             PROVE  LinkInv'
  OBVIOUS
<1> DEFINE RequestsKept == FetchedVerified' /\ LinkingBacked'
<1>1. orders' = orders => RowsBacked'
  BY BackedStable DEF LinkInv, RowsBacked
<1>2. orderSaves' \subseteq orderSaves => CopiesBacked'
  BY BackedStable DEF LinkInv, CopiesBacked
<1>3. ASSUME \A r \in Requests : request'[r] = request[r] \/ request'[r].pc \in {"idle", "saving"}
      PROVE  RequestsKept
  <2>1. FetchedVerified'
    BY <1>3 DEF LinkInv, FetchedVerified, Verified
  <2>2. LinkingBacked'
    BY <1>3, BackedStable DEF LinkInv, LinkingBacked
  <2>3. QED
    BY <2>1, <2>2
<1>4. Idle.pc = "idle" /\ Saving.pc = "saving"
  BY DEF Idle, Saving
<1>5. ASSUME NEW r \in Requests, CreateInvoice(r)
      PROVE  LinkInv'
  <2>1. PICK u \in Users, b \in Businesses, c \in Customers, t \in InvoiceTypeInputs, ids \in OrderLists :
          /\ verifyBusinessOwnership(u, b)
          /\ ids # <<>>
          /\ request' = [request EXCEPT ![r] =
               [Idle EXCEPT !.pc = "fetch", !.businessId = b, !.customerId = c,
                            !.invoiceType = t, !.orderIds = ids, !.todo = DOMAIN ids]]
    BY <1>5 DEF CreateInvoice
  <2>2. /\ request'[r].pc = "fetch"
        /\ request'[r].todo = DOMAIN request'[r].orderIds
        /\ \A q \in Requests \ {r} : request'[q] = request[q]
    BY <2>1 DEF TypeInv, TypeOK, Idle
  <2>3. FetchedVerified'
    BY <2>2 DEF LinkInv, FetchedVerified, Verified
  <2>4. LinkingBacked'
    BY <2>2, BackedStable DEF LinkInv, LinkingBacked
  <2>5. QED
    BY <1>1, <1>2, <1>5, <2>3, <2>4 DEF CreateInvoice, LinkInv
<1>6. ASSUME NEW r \in Requests, NEW k \in request[r].todo, FetchOrder(r, k)
      PROVE  LinkInv'
  <2>1. /\ request'[r].pc = "fetch"
        /\ request'[r].todo = request[r].todo \ {k}
        /\ request'[r].orderIds = request[r].orderIds
        /\ request'[r].businessId = request[r].businessId
        /\ request'[r].customerId = request[r].customerId
        /\ \A q \in Requests \ {r} : request'[q] = request[q]
    BY <1>6 DEF FetchOrder, TypeInv, TypeOK, Request
  <2>2. Verified(r, k) /\ request[r].pc = "fetch"
    BY <1>6 DEF FetchOrder, Billable, Verified
  <2>3. FetchedVerified'
    BY <2>1, <2>2 DEF LinkInv, FetchedVerified, Verified
  <2>4. LinkingBacked'
    BY <2>1, BackedStable DEF LinkInv, LinkingBacked
  <2>5. QED
    BY <1>1, <1>2, <1>6, <2>3, <2>4 DEF FetchOrder, LinkInv
<1>7. ASSUME NEW r \in Requests, NEW i \in Invoices, SaveInvoice(r, i)
      PROVE  LinkInv'
  <2>1. /\ request'[r].pc = "link"
        /\ request'[r].invoiceId = i
        /\ request'[r].orderIds = request[r].orderIds
        /\ \A q \in Requests \ {r} : request'[q] = request[q]
    BY <1>7 DEF SaveInvoice, TypeInv, TypeOK, Request
  <2>2. /\ invoices'[i].billed = request[r].orderIds
        /\ invoices'[i].businessId = request[r].businessId
        /\ invoices'[i].customerId = request[r].customerId
    BY <1>7 DEF SaveInvoice, TypeInv, TypeOK
  <2>3. invoices'[i] \in InvoiceRow \union {None}
    BY StepTypeInv DEF TypeInv, TypeOK
  <2>4. invoices'[i] # None
    <3>1. TotalAmount(request[r].subtotal) \in Nat
      BY TotalAmountType DEF TypeInv, TypeOK, Request
    <3>2. [businessId |-> request[r].businessId, customerId |-> request[r].customerId,
           invoiceType |-> request[r].invoiceType, billed |-> request[r].orderIds,
           totalAmount |-> TotalAmount(request[r].subtotal), amountPaid |-> 0, status |-> "DRAFT"]
             \in InvoiceRow
      BY <1>7, <3>1 DEF SaveInvoice, TypeInv, TypeOK, RequestsInOrder, InvoiceRow, InvoiceStatus, Request
    <3>3. QED
      BY <1>7, <3>2, NoneAssumption DEF SaveInvoice, TypeInv, TypeOK
  <2>5. \A k \in DOMAIN request[r].orderIds : Verified(r, k)
    BY <1>7 DEF SaveInvoice, LinkInv, FetchedVerified
  <2>6. ASSUME NEW k \in DOMAIN request[r].orderIds, NEW o, o = request[r].orderIds[k]
        PROVE  Backed(o, i)'
    <3>1. o \in BilledOn(i)'
      BY <2>2, <2>6 DEF BilledOn
    <3>2. OrderBusiness[o] = invoices'[i].businessId /\ OrderCustomer[o] = invoices'[i].customerId
      BY <2>2, <2>5, <2>6 DEF Verified
    <3>3. QED
      BY <2>4, <3>1, <3>2 DEF Backed, Exists
  <2>7. LinkingBacked'
    <3>1. \A k \in DOMAIN request'[r].orderIds : Backed(request[r].orderIds[k], request[r].invoiceId)'
      BY <2>1, <2>6
    <3>2. QED
      BY <2>1, <3>1, BackedStable DEF LinkInv, LinkingBacked
  <2>8. FetchedVerified'
    BY <2>1 DEF LinkInv, FetchedVerified, Verified
  <2>9. QED
    BY <1>1, <1>2, <1>7, <2>7, <2>8 DEF SaveInvoice, LinkInv
<1>8. ASSUME NEW r \in Requests, NEW k \in request[r].todo, ReadOrderToLink(r, k)
      PROVE  LinkInv'
  <2>1. /\ request'[r].pc = "link"
        /\ request'[r].invoiceId = request[r].invoiceId
        /\ request'[r].orderIds = request[r].orderIds
        /\ \A q \in Requests \ {r} : request'[q] = request[q]
    BY <1>8 DEF ReadOrderToLink, TypeInv, TypeOK, Request
  <2>2. k \in DOMAIN request[r].orderIds /\ request[r].pc = "link"
    BY <1>8 DEF ReadOrderToLink, TypeInv, RequestsInOrder
  <2>3. PICK o, i : o = request[r].orderIds[k] /\ i = request[r].invoiceId
    OBVIOUS
  <2>4. Backed(o, i)'
    BY <2>2, <2>3, BackedStable DEF LinkInv, LinkingBacked
  <2>5. PICK status :
          orderSaves' = orderSaves \union
            {[request |-> r, slot |-> k, order |-> o, phase |-> "read", status |-> status,
              invoiceId |-> i, columns |-> {}]}
    BY <1>8, <2>3 DEF ReadOrderToLink
  <2>6. CopiesBacked'
    BY <2>4, <2>5, BackedStable DEF LinkInv, CopiesBacked
  <2>7. LinkingBacked'
    BY <2>1, <2>2, BackedStable DEF LinkInv, LinkingBacked
  <2>8. FetchedVerified'
    BY <2>1 DEF LinkInv, FetchedVerified, Verified
  <2>9. QED
    BY <1>1, <1>8, <2>6, <2>7, <2>8 DEF ReadOrderToLink, LinkInv
<1>9. ASSUME NEW r \in Requests, UpdateOrderStatus(r)
      PROVE  LinkInv'
  <2>1. PICK o \in Orders, status \in OrderStatusInputs :
          orderSaves' = orderSaves \union
            {[request |-> r, slot |-> 0, order |-> o, phase |-> "read", status |-> status,
              invoiceId |-> orders[o].invoiceId, columns |-> {}]}
    BY <1>9 DEF UpdateOrderStatus
  <2>2. CopiesBacked'
    BY <2>1, BackedStable DEF LinkInv, RowsBacked, CopiesBacked
  <2>3. RequestsKept
    BY <1>3, <1>4, <1>9 DEF UpdateOrderStatus, TypeInv, TypeOK
  <2>4. QED
    BY <1>1, <1>9, <2>2, <2>3 DEF UpdateOrderStatus, LinkInv
<1>10. ASSUME NEW s \in orderSaves, CompareOrder(s)
       PROVE  LinkInv'
  <2>1. s \in OrderSave
    BY DEF TypeInv, TypeOK
  <2>2. PICK columns :
          orderSaves' = (orderSaves \ {s}) \union
            {[s EXCEPT !.phase = "compared", !.columns = columns]}
    BY <1>10 DEF CompareOrder
  <2> DEFINE t == [s EXCEPT !.phase = "compared", !.columns = columns]
  <2>3. t.order = s.order /\ t.invoiceId = s.invoiceId
    BY <2>1 DEF OrderSave
  <2>4. orderSaves' = (orderSaves \ {s}) \union {t}
    BY <2>2
  <2> HIDE DEF t
  <2>5. CopiesBacked'
    BY <2>3, <2>4, BackedStable DEF LinkInv, CopiesBacked
  <2>6. RequestsKept
    BY <1>3, <1>10 DEF CompareOrder
  <2>7. QED
    BY <1>1, <1>10, <2>5, <2>6 DEF CompareOrder, LinkInv
<1>11. ASSUME NEW r \in Requests, Answer(r)
       PROVE  RequestsKept
  BY <1>3, <1>4, <1>11 DEF Answer, TypeInv, TypeOK
<1>12. ASSUME NEW s \in orderSaves, WriteOrder(s)
       PROVE  LinkInv'
  <2>1. s.order \in Orders /\ s.request \in Requests
    BY DEF TypeInv, TypeOK, OrderSave
  <2>2. /\ \A o \in Orders \ {s.order} : orders'[o] = orders[o]
        /\ orders'[s.order].invoiceId \in {s.invoiceId, orders[s.order].invoiceId}
    BY <1>12, <2>1 DEF WriteOrder, TypeInv, TypeOK
  <2>3. RowsBacked'
    BY <2>1, <2>2, BackedStable DEF LinkInv, RowsBacked, CopiesBacked
  <2>4. QED
    BY <1>2, <1>11, <1>12, <2>1, <2>3 DEF WriteOrder, LinkInv
<1>13. ASSUME NEW s \in orderSaves, FailOrderSave(s)
       PROVE  LinkInv'
  <2>1. s.request \in Requests
    BY DEF TypeInv, TypeOK, OrderSave
  <2>2. QED
    BY <1>1, <1>2, <1>11, <1>13, <2>1 DEF FailOrderSave, LinkInv
<1>14. ASSUME NEW s \in invoiceSaves, WriteInvoice(s) \/ FailInvoiceSave(s)
       PROVE  LinkInv'
  <2>1. s.request \in Requests
    BY DEF TypeInv, TypeOK, InvoiceSave
  <2>2. QED
    BY <1>1, <1>2, <1>11, <1>14, <2>1 DEF WriteInvoice, FailInvoiceSave, LinkInv
<1>15. ASSUME NEW r \in Requests,
              RefuseInvoice(r) \/ FinishInvoice(r) \/ UpdateInvoicePayment(r) \/ UpdateInvoiceStatus(r)
       PROVE  LinkInv'
  <2>1. request' = [request EXCEPT ![r] = Idle] \/ request' = [request EXCEPT ![r] = Saving]
    BY <1>15 DEF RefuseInvoice, FinishInvoice, UpdateInvoicePayment, UpdateInvoiceStatus
  <2>2. RequestsKept
    BY <1>3, <1>4, <2>1 DEF TypeInv, TypeOK
  <2>3. UNCHANGED <<orders, orderSaves>>
    BY <1>15 DEF RefuseInvoice, FinishInvoice, UpdateInvoicePayment, UpdateInvoiceStatus
  <2>4. QED
    BY <1>1, <1>2, <2>2, <2>3 DEF LinkInv
<1>16. CASE Crash
  BY <1>1, <1>2, <1>3, <1>4, <1>16 DEF Crash, LinkInv
<1>17. ASSUME UNCHANGED <<orders, orderSaves, request>>
       PROVE  LinkInv'
  BY <1>1, <1>2, <1>3, <1>17 DEF LinkInv
<1>18. QED
  BY <1>5, <1>6, <1>7, <1>8, <1>9, <1>10, <1>12, <1>13, <1>14, <1>15, <1>16, <1>17
  DEF Next, vars, CreateStep, SaveStep, CompareInvoice

\* An order only ever points to an invoice that billed it, of its own
\* business and customer, even when stale entities are written back.
THEOREM LinksBacked == Spec => []LinksAreBacked
<1>1. Spec => []TypeInv
  BY InitTypeInv, StepTypeInv, PTL DEF Spec
<1>2. Spec => []LinkInv
  BY <1>1, InitLinkInv, StepLinkInv, PTL DEF Spec
<1>3. LinkInv => LinksAreBacked
  BY DEF LinkInv, RowsBacked, Backed, LinksAreBacked
<1>4. QED
  BY <1>2, <1>3, PTL

----------------------------------------------------------------------------
(***************************************************************************)
(* Requests that do not overlap.  The counterexamples to the properties that *)
(* follow all need a second request.                                       *)
(***************************************************************************)
\* There is one request at a time.
Serial == \A r, s \in Requests : r = s

\* What is in flight belongs to the phase that the request is in.
SavesInOrder ==
  \A r \in Requests :
    /\ request[r].pc \in {"idle", "fetch"} => orderSaves = {} /\ invoiceSaves = {}
    /\ request[r].pc = "link" => invoiceSaves = {}
    /\ request[r].pc = "saving" =>
         \/ invoiceSaves = {} /\ \E s \in OrderSave : orderSaves = {s}
         \/ orderSaves = {} /\ \E s \in InvoiceSave : invoiceSaves = {s}

\* What clients have paid is stored, but for the rounding, and the copy of a
\* payment has the stored amount and its own.
PaymentsRecorded ==
  \A i \in Invoices :
    received[i].sum <= (IF Exists(i) THEN invoices[i].amountPaid ELSE 0) + RoundingAllowance(i)

CopiesCurrent ==
  \A s \in invoiceSaves :
    /\ s.amountPaid = invoices[s.invoice].amountPaid + s.amount
    /\ s.phase = "compared" =>
         /\ "amountPaid" \notin s.columns => s.amountPaid = invoices[s.invoice].amountPaid
         /\ "status" \notin s.columns => s.status = invoices[s.invoice].status

RecordInv == PaymentsRecorded /\ CopiesCurrent

Matches(status, paid, total, fractions) ==
  /\ status = "PAID" => paid = total
  /\ status = "PARTIALLY_PAID" /\ fractions = 0 => 0 < paid /\ paid < total

StatusInv ==
  /\ \A i \in Invoices : Exists(i) =>
       Matches(invoices[i].status, invoices[i].amountPaid, invoices[i].totalAmount, received[i].fractions)
  /\ \A s \in invoiceSaves :
       Matches(s.status, s.amountPaid, invoices[s.invoice].totalAmount,
               received[s.invoice].fractions + Fraction(s.amount))

\* What createInvoice has fetched can still be billed.
FetchInv ==
  \A r \in Requests : request[r].pc = "fetch" =>
    /\ request[r].orderIds # <<>>
    /\ \A k \in DOMAIN request[r].orderIds \ request[r].todo :
         Billable(request[r], request[r].orderIds[k])

\* Every order is linked to the invoice that bills it, or will be by the
\* request that created the invoice.
Linking(r, i) == request[r].pc = "link" /\ request[r].invoiceId = i

OrdersLinked ==
  \A i \in Invoices : Exists(i) =>
    \/ \E r \in Requests : Linking(r, i)
    \/ \A o \in BilledOn(i) : orders[o].invoiceId = i

LinksUnderWay ==
  \A r \in Requests : request[r].pc = "link" =>
    /\ Exists(request[r].invoiceId)
    /\ invoices[request[r].invoiceId].billed = request[r].orderIds
    /\ \A k \in DOMAIN request[r].orderIds :
         \/ k \in request[r].todo
         \/ orders[request[r].orderIds[k]].invoiceId = request[r].invoiceId
         \/ \E s \in orderSaves : s.order = request[r].orderIds[k]

\* A save of an order links it to the invoice that bills it, or leaves its
\* link alone.
OrderCopiesCurrent ==
  \A s \in orderSaves :
    /\ request[s.request].pc = "link" =>
         s.invoiceId = request[s.request].invoiceId /\ s.order \in BilledOn(s.invoiceId)
    /\ request[s.request].pc = "saving" => s.invoiceId = orders[s.order].invoiceId
    /\ s.phase = "compared" =>
         ("invoiceId" \notin s.columns => s.invoiceId = orders[s.order].invoiceId)

LinkedInv == EachOrderBilledOnce /\ OrdersLinked /\ LinksUnderWay /\ OrderCopiesCurrent

----------------------------------------------------------------------------
(***************************************************************************)
(* What is in flight.                                                      *)
(***************************************************************************)

LEMMA OneRequest ==
  ASSUME Serial, TypeInv, NEW r \in Requests
  PROVE  /\ \A q \in Requests : q = r
         /\ \A s \in orderSaves : s.request = r /\ s \in OrderSave
         /\ \A s \in invoiceSaves : s.request = r /\ s \in InvoiceSave
BY DEF Serial, TypeInv, TypeOK, OrderSave, InvoiceSave

LEMMA InitSaves == Init => SavesInOrder
BY DEF Init, SavesInOrder, Idle

\* A save has the request to itself: nothing else is in flight with it, unless
\* it is a link of createInvoice.
LEMMA SavePhase ==
  ASSUME Serial, TypeInv, SavesInOrder
  PROVE  /\ \A s \in invoiceSaves : /\ request[s.request].pc = "saving" /\ orderSaves = {}
                                    /\ invoiceSaves = {s}
         /\ \A s \in orderSaves : /\ request[s.request].pc \in {"link", "saving"}
                                  /\ invoiceSaves = {}
                                  /\ request[s.request].pc = "saving" => orderSaves = {s}
<1>1. \A s \in orderSaves : s.request \in Requests
  BY DEF TypeInv, TypeOK, OrderSave
<1>2. \A s \in invoiceSaves : s.request \in Requests
  BY DEF TypeInv, TypeOK, InvoiceSave
<1>3. \A r \in Requests : request[r].pc \in {"idle", "fetch", "link", "saving"}
  BY DEF TypeInv, TypeOK, Request
<1>4. QED
  BY <1>1, <1>2, <1>3 DEF SavesInOrder

LEMMA StepSaves ==
  ASSUME Serial, TypeInv, SavesInOrder, [Next]_vars
  PROVE  SavesInOrder'
<1>1. TypeInv'
  BY StepTypeInv
<1>2. Idle.pc = "idle" /\ Saving.pc = "saving"
  BY DEF Idle, Saving
<1>3. ASSUME NEW r \in Requests,
             CreateInvoice(r) \/ RefuseInvoice(r) \/ (\E i \in Invoices : SaveInvoice(r, i))
               \/ (\E k \in request[r].todo : FetchOrder(r, k))
      PROVE  SavesInOrder'
  <2>1. request[r].pc \in {"idle", "fetch"} /\ UNCHANGED <<orderSaves, invoiceSaves>>
    BY <1>3 DEF CreateInvoice, RefuseInvoice, SaveInvoice, FetchOrder
  <2>2. request'[r].pc \in {"idle", "fetch", "link"}
    <3>1. CASE CreateInvoice(r)
      BY <3>1 DEF CreateInvoice, TypeInv, TypeOK, Idle
    <3>2. CASE RefuseInvoice(r)
      BY <1>2, <3>2 DEF RefuseInvoice, TypeInv, TypeOK
    <3>3. CASE \E i \in Invoices : SaveInvoice(r, i)
      BY <3>3 DEF SaveInvoice, TypeInv, TypeOK, Request
    <3>4. CASE \E k \in request[r].todo : FetchOrder(r, k)
      BY <3>4 DEF FetchOrder, TypeInv, TypeOK, Request
    <3>5. QED
      BY <1>3, <3>1, <3>2, <3>3, <3>4
  <2>3. QED
    BY <2>1, <2>2, OneRequest DEF SavesInOrder
<1>4. ASSUME NEW r \in Requests, NEW k \in request[r].todo, ReadOrderToLink(r, k)
      PROVE  SavesInOrder'
  <2>1. request[r].pc = "link" /\ invoiceSaves' = invoiceSaves
    BY <1>4 DEF ReadOrderToLink
  <2>2. request'[r].pc = "link"
    BY <1>4 DEF ReadOrderToLink, TypeInv, TypeOK, Request
  <2>3. QED
    BY <2>1, <2>2, OneRequest DEF SavesInOrder
<1>5. ASSUME NEW r \in Requests, FinishInvoice(r)
      PROVE  SavesInOrder'
  <2>1. orderSaves' = {} /\ invoiceSaves' = {} /\ request'[r].pc = "idle"
    BY <1>2, <1>5, OneRequest DEF FinishInvoice, SavesInOrder, TypeInv, TypeOK
  <2>2. QED
    BY <2>1, OneRequest DEF SavesInOrder
<1>6. ASSUME NEW r \in Requests, UpdateOrderStatus(r)
      PROVE  SavesInOrder'
  <2>1. PICK s : orderSaves' = orderSaves \union {s}
    BY <1>6 DEF UpdateOrderStatus
  <2>2. orderSaves' = {s} /\ invoiceSaves' = {} /\ request'[r].pc = "saving"
    BY <1>2, <1>6, <2>1 DEF UpdateOrderStatus, SavesInOrder, TypeInv, TypeOK
  <2>3. s \in OrderSave
    BY <1>1, <2>2 DEF TypeInv, TypeOK
  <2>4. QED
    BY <2>2, <2>3, OneRequest DEF SavesInOrder
<1>7. ASSUME NEW r \in Requests, UpdateInvoicePayment(r) \/ UpdateInvoiceStatus(r)
      PROVE  SavesInOrder'
  <2>1. PICK s : invoiceSaves' = invoiceSaves \union {s}
    BY <1>7 DEF UpdateInvoicePayment, UpdateInvoiceStatus
  <2>2. invoiceSaves' = {s} /\ orderSaves' = {} /\ request'[r].pc = "saving"
    BY <1>2, <1>7, <2>1 DEF UpdateInvoicePayment, UpdateInvoiceStatus, SavesInOrder, TypeInv, TypeOK
  <2>3. s \in InvoiceSave
    BY <1>1, <2>2 DEF TypeInv, TypeOK
  <2>4. QED
    BY <2>2, <2>3, OneRequest DEF SavesInOrder
<1>8. ASSUME NEW s \in orderSaves, CompareOrder(s)
      PROVE  SavesInOrder'
  <2>1. PICK t : orderSaves' = (orderSaves \ {s}) \union {t}
    BY <1>8 DEF CompareOrder
  <2>2. s.request \in Requests /\ t \in OrderSave
    BY <1>1, <2>1 DEF TypeInv, TypeOK, OrderSave
  <2>3. UNCHANGED <<request, invoiceSaves>>
    BY <1>8 DEF CompareOrder
  <2>4. request[s.request].pc = "saving" => orderSaves' = {t}
    BY <2>1, SavePhase
  <2>5. QED
    BY <2>2, <2>3, <2>4, SavePhase, OneRequest DEF SavesInOrder
<1>9. ASSUME NEW s \in orderSaves, WriteOrder(s) \/ FailOrderSave(s)
      PROVE  SavesInOrder'
  <2>1. orderSaves' = orderSaves \ {s} /\ invoiceSaves' = invoiceSaves /\ Answer(s.request)
    BY <1>9 DEF WriteOrder, FailOrderSave
  <2>2. s.request \in Requests
    BY DEF TypeInv, TypeOK, OrderSave
  <2>3. CASE request[s.request].pc = "saving"
    <3>1. orderSaves' = {} /\ invoiceSaves' = {} /\ request'[s.request].pc = "idle"
      BY <1>2, <2>1, <2>2, <2>3, SavePhase DEF Answer, TypeInv, TypeOK
    <3>2. QED
      BY <2>2, <3>1, OneRequest DEF SavesInOrder
  <2>4. CASE request[s.request].pc = "link"
    <3>1. invoiceSaves' = {} /\ request' = request
      BY <2>1, <2>4, SavePhase DEF Answer
    <3>2. QED
      BY <2>2, <2>4, <3>1, OneRequest DEF SavesInOrder
  <2>5. QED
    BY <2>3, <2>4, SavePhase
<1>10. ASSUME NEW s \in invoiceSaves, CompareInvoice(s)
       PROVE  SavesInOrder'
  <2>1. PICK t : invoiceSaves' = (invoiceSaves \ {s}) \union {t}
    BY <1>10 DEF CompareInvoice
  <2>2. s.request \in Requests /\ t \in InvoiceSave
    BY <1>1, <2>1 DEF TypeInv, TypeOK, InvoiceSave
  <2>3. UNCHANGED <<request, orderSaves>>
    BY <1>10 DEF CompareInvoice
  <2>4. request[s.request].pc = "saving" /\ orderSaves' = {} /\ invoiceSaves' = {t}
    BY <2>1, <2>3, SavePhase
  <2>5. QED
    BY <2>2, <2>3, <2>4, OneRequest DEF SavesInOrder
<1>11. ASSUME NEW s \in invoiceSaves, WriteInvoice(s) \/ FailInvoiceSave(s)
       PROVE  SavesInOrder'
  <2>1. invoiceSaves' = invoiceSaves \ {s} /\ orderSaves' = orderSaves /\ Answer(s.request)
    BY <1>11 DEF WriteInvoice, FailInvoiceSave
  <2>2. s.request \in Requests
    BY DEF TypeInv, TypeOK, InvoiceSave
  <2>3. orderSaves' = {} /\ invoiceSaves' = {} /\ request'[s.request].pc = "idle"
    BY <1>2, <2>1, <2>2, SavePhase DEF Answer, TypeInv, TypeOK
  <2>4. QED
    BY <2>2, <2>3, OneRequest DEF SavesInOrder
<1>12. CASE Crash
  BY <1>2, <1>12 DEF Crash, SavesInOrder
<1>13. CASE UNCHANGED vars
  BY <1>13 DEF vars, SavesInOrder
<1>14. QED
  BY <1>3, <1>4, <1>5, <1>6, <1>7, <1>8, <1>9, <1>10, <1>11, <1>12, <1>13
  DEF Next, CreateStep, SaveStep

----------------------------------------------------------------------------
(***************************************************************************)
(* Payments.                                                               *)
(***************************************************************************)

LEMMA RoundExact ==
  ASSUME NEW x \in Nat, x % Cent = 0
  PROVE  Round(x) = x
BY DEF Round, Cent

LEMMA RowFacts ==
  ASSUME TypeInv, PaymentInv, NEW i \in Invoices, Exists(i)
  PROVE  /\ invoices[i] \in InvoiceRow
         /\ invoices[i].amountPaid \in Nat /\ invoices[i].amountPaid % Cent = 0
         /\ invoices[i].totalAmount \in Nat /\ invoices[i].totalAmount % Cent = 0
         /\ invoices[i].amountPaid <= invoices[i].totalAmount
         /\ invoices[i].status \in InvoiceStatus
<1>1. invoices[i] \in InvoiceRow
  BY DEF TypeInv, TypeOK, Exists
<1>2. QED
  BY <1>1 DEF InvoiceRow, PaymentInv, WholeCents, AmountPaidWithinTotal

\* The row that a save leaves: it has the copy's status, and the payment with
\* its amount rounded.
LEMMA WrittenRow ==
  ASSUME TypeInv, PaymentInv, RecordInv, NEW s \in invoiceSaves, WriteInvoice(s)
  PROVE  LET i == s.invoice IN
         /\ i \in Invoices /\ s.amount \in Nat /\ Exists(i) /\ Exists(i)'
         /\ SameIdentity(invoices[i], invoices'[i])
         /\ invoices'[i].amountPaid = invoices[i].amountPaid + Round(s.amount)
         /\ invoices'[i].status = s.status
         /\ \A j \in Invoices \ {i} : invoices'[j] = invoices[j] /\ received'[j] = received[j]
<1> DEFINE i == s.invoice
           row == invoices[s.invoice]
           status == IF "status" \in s.columns THEN s.status ELSE row.status
           paid == IF "amountPaid" \in s.columns THEN Round(s.amountPaid) ELSE row.amountPaid
           new == [row EXCEPT !.status = status, !.amountPaid = paid]
<1>1. s \in InvoiceSave /\ i \in Invoices /\ s.amount \in Nat /\ s.amountPaid \in Nat /\ Exists(i)
  BY DEF TypeInv, TypeOK, SavesHaveRows, InvoiceSave
<1>2. row \in InvoiceRow /\ row.amountPaid \in Nat /\ row.amountPaid % Cent = 0
  BY <1>1, RowFacts
<1>3. Exists(i)' /\ SameIdentity(invoices[i], invoices'[i])
  <2>1. [Next]_vars
    BY <1>1 DEF Next, SaveStep, InvoiceSave
  <2>2. QED
    BY <1>1, <2>1, RowsKeepIdentity
<1>4. invoices' = [invoices EXCEPT ![i] = new]
  BY DEF WriteInvoice
<1>5. status = s.status
  BY DEF WriteInvoice, RecordInv, CopiesCurrent
<1>6. paid = row.amountPaid + Round(s.amount)
  <2>1. s.amountPaid = row.amountPaid + s.amount
    BY DEF RecordInv, CopiesCurrent
  <2>2. CASE "amountPaid" \in s.columns
    BY <1>1, <1>2, <2>1, <2>2, RoundPlus
  <2>3. CASE "amountPaid" \notin s.columns
    <3>1. s.amountPaid = row.amountPaid
      BY <2>3 DEF WriteInvoice, RecordInv, CopiesCurrent
    <3>2. s.amount = 0
      BY <1>1, <1>2, <2>1, <3>1
    <3>3. Round(0) = 0
      BY DEF Round, Cent
    <3>4. QED
      BY <1>2, <2>3, <3>2, <3>3
  <2>4. QED
    BY <2>2, <2>3
<1> HIDE DEF status, paid
<1>7. new.amountPaid = paid /\ new.status = status
  BY <1>2 DEF InvoiceRow
<1> HIDE DEF new
<1>8. invoices'[i] = new /\ \A j \in Invoices \ {i} : invoices'[j] = invoices[j]
  BY <1>1, <1>4 DEF TypeInv, TypeOK
<1>9. \A j \in Invoices \ {i} : received'[j] = received[j]
  BY WrittenReceipts
<1>10. QED
  BY <1>1, <1>3, <1>5, <1>6, <1>7, <1>8, <1>9

LEMMA SavedRow ==
  ASSUME TypeInv, NEW r \in Requests, NEW i \in Invoices, SaveInvoice(r, i)
  PROVE  /\ ~Exists(i) /\ Exists(i)'
         /\ invoices'[i].billed = request[r].orderIds
         /\ invoices'[i].invoiceType = request[r].invoiceType
         /\ invoices'[i].amountPaid = 0 /\ invoices'[i].status = "DRAFT"
         /\ invoices'[i].totalAmount \in Nat
         /\ \A j \in Invoices \ {i} : invoices'[j] = invoices[j]
<1>1. TotalAmount(request[r].subtotal) \in Nat
  BY TotalAmountType DEF TypeInv, TypeOK, Request
<1>2. [businessId |-> request[r].businessId, customerId |-> request[r].customerId,
       invoiceType |-> request[r].invoiceType, billed |-> request[r].orderIds,
       totalAmount |-> TotalAmount(request[r].subtotal), amountPaid |-> 0, status |-> "DRAFT"]
         \in InvoiceRow
  BY <1>1 DEF SaveInvoice, TypeInv, TypeOK, RequestsInOrder, InvoiceRow, InvoiceStatus, Request
<1>3. Exists(i)'
  BY <1>2, NoneAssumption DEF SaveInvoice, TypeInv, TypeOK, Exists
<1>4. QED
  BY <1>1, <1>3 DEF SaveInvoice, TypeInv, TypeOK

\* The comparison changes nothing but what the update will write.
LEMMA ComparedCopy ==
  ASSUME TypeInv, NEW s \in invoiceSaves, CompareInvoice(s)
  PROVE  \E t : /\ invoiceSaves' = (invoiceSaves \ {s}) \union {t}
                /\ t.invoice = s.invoice /\ t.amount = s.amount
                /\ t.amountPaid = s.amountPaid /\ t.status = s.status
                /\ "amountPaid" \notin t.columns => s.amountPaid = invoices[s.invoice].amountPaid
                /\ "status" \notin t.columns => s.status = invoices[s.invoice].status
<1>1. PICK retyped \in SUBSET {"amountPaid"} :
        invoiceSaves' = (invoiceSaves \ {s}) \union
          {[s EXCEPT !.phase = "compared",
                     !.columns = retyped \union
                       {c \in {"status", "amountPaid"} : s[c] # invoices[s.invoice][c]}]}
  BY DEF CompareInvoice
<1> DEFINE columns == retyped \union {c \in {"status", "amountPaid"} : s[c] # invoices[s.invoice][c]}
<1>2. s \in InvoiceSave
  BY DEF TypeInv, TypeOK
<1> DEFINE t == [s EXCEPT !.phase = "compared", !.columns = columns]
<1>3. /\ "status" \notin columns => s["status"] = invoices[s.invoice]["status"]
      /\ "amountPaid" \notin columns => s["amountPaid"] = invoices[s.invoice]["amountPaid"]
  OBVIOUS
<1>4. invoiceSaves' = (invoiceSaves \ {s}) \union {t}
  BY <1>1
<1> HIDE DEF columns
<1>5. /\ t.invoice = s.invoice /\ t.amount = s.amount
      /\ t.amountPaid = s.amountPaid /\ t.status = s.status /\ t.columns = columns
  BY <1>2 DEF InvoiceSave
<1> HIDE DEF t
<1>6. QED
  BY <1>3, <1>4, <1>5

LEMMA CopyFields ==
  ASSUME NEW r, NEW i, NEW status, NEW paid, NEW amount
  PROVE  LET s == InvoiceCopy(r, i, status, paid, amount) IN
         /\ s.invoice = i /\ s.status = status /\ s.amountPaid = paid /\ s.amount = amount
         /\ s.phase = "read"
BY DEF InvoiceCopy

\* The handlers that start a save of an invoice, with what the copy contains.
LEMMA NewCopy ==
  ASSUME TypeInv, SavesInOrder, NEW r \in Requests, UpdateInvoicePayment(r) \/ UpdateInvoiceStatus(r)
  PROVE  \E i \in Invoices, status \in InvoiceStatus, amount \in Nat :
           /\ Exists(i)
           /\ invoiceSaves' = {InvoiceCopy(r, i, status, invoices[i].amountPaid + amount, amount)}
           /\ \/ /\ amount \in Payments
                 /\ invoices[i].amountPaid + amount <= invoices[i].totalAmount
                 /\ status = StatusAfterPayment(invoices[i].status, invoices[i].amountPaid + amount,
                                                invoices[i].totalAmount)
              \/ amount = 0 /\ status \in InvoiceStatusInputs
<1>1. CASE UpdateInvoicePayment(r)
  <2>1. invoiceSaves = {}
    BY <1>1 DEF UpdateInvoicePayment, SavesInOrder
  <2>2. PICK i \in Invoices, amount \in Payments :
          /\ Exists(i)
          /\ invoices[i].amountPaid + amount <= invoices[i].totalAmount
          /\ invoiceSaves' = invoiceSaves \union
               {InvoiceCopy(r, i, StatusAfterPayment(invoices[i].status,
                                    invoices[i].amountPaid + amount, invoices[i].totalAmount),
                            invoices[i].amountPaid + amount, amount)}
    BY <1>1 DEF UpdateInvoicePayment, PaymentAccepted
  <2>3. amount \in Nat /\ invoices[i] \in InvoiceRow
    BY <2>2, BillingAssumption DEF TypeInv, TypeOK, Exists
  <2>4. /\ invoices[i].status \in InvoiceStatus
        /\ invoices[i].amountPaid + amount \in Nat
        /\ invoices[i].totalAmount \in Nat
    BY <2>3 DEF InvoiceRow
  <2>5. StatusAfterPayment(invoices[i].status, invoices[i].amountPaid + amount, invoices[i].totalAmount)
          \in InvoiceStatus
    BY <2>4, StatusAfterPaymentType
  <2>6. QED
    BY <2>1, <2>2, <2>3, <2>5
<1>2. CASE UpdateInvoiceStatus(r)
  <2>1. invoiceSaves = {}
    BY <1>2 DEF UpdateInvoiceStatus, SavesInOrder
  <2>2. PICK i \in Invoices, status \in InvoiceStatusInputs :
          /\ Exists(i)
          /\ invoiceSaves' = invoiceSaves \union {InvoiceCopy(r, i, status, invoices[i].amountPaid, 0)}
    BY <1>2 DEF UpdateInvoiceStatus
  <2>3. status \in InvoiceStatus /\ invoices[i].amountPaid + 0 = invoices[i].amountPaid
    BY <2>2, BillingAssumption DEF TypeInv, TypeOK, Exists, InvoiceRow
  <2>4. QED
    BY <2>1, <2>2, <2>3
<1>3. QED
  BY <1>1, <1>2

LEMMA StepRecord ==
  ASSUME Serial, TypeInv, PaymentInv, SavesInOrder, RecordInv, [Next]_vars
  PROVE  RecordInv'
<1>1. ASSUME UNCHANGED <<invoices, received>>, invoiceSaves' \subseteq invoiceSaves
      PROVE  RecordInv'
  BY <1>1 DEF RecordInv, PaymentsRecorded, RoundingAllowance, CopiesCurrent, Exists
<1>2. ASSUME NEW r \in Requests, NEW i \in Invoices, SaveInvoice(r, i)
      PROVE  RecordInv'
  <2>1. invoiceSaves' = {} /\ received' = received
    BY <1>2 DEF SaveInvoice, SavesInOrder
  <2>2. PaymentsRecorded'
    BY <1>2, <2>1, SavedRow DEF RecordInv, PaymentsRecorded, RoundingAllowance, Exists
  <2>3. QED
    BY <2>1, <2>2 DEF RecordInv, CopiesCurrent
<1>3. ASSUME NEW r \in Requests, UpdateInvoicePayment(r) \/ UpdateInvoiceStatus(r)
      PROVE  RecordInv'
  <2>1. UNCHANGED <<invoices, received>>
    BY <1>3 DEF UpdateInvoicePayment, UpdateInvoiceStatus
  <2>2. PICK i \in Invoices, status \in InvoiceStatus, amount \in Nat :
          invoiceSaves' = {InvoiceCopy(r, i, status, invoices[i].amountPaid + amount, amount)}
    BY <1>3, NewCopy
  <2>3. CopiesCurrent'
    BY <2>1, <2>2, CopyFields DEF CopiesCurrent
  <2>4. QED
    BY <2>1, <2>3 DEF RecordInv, PaymentsRecorded, RoundingAllowance, Exists
<1>4. ASSUME NEW s \in invoiceSaves, CompareInvoice(s)
      PROVE  RecordInv'
  <2>1. UNCHANGED <<invoices, received>>
    BY <1>4 DEF CompareInvoice
  <2>2. PICK t :
          /\ invoiceSaves' = (invoiceSaves \ {s}) \union {t}
          /\ t.invoice = s.invoice /\ t.amount = s.amount
          /\ t.amountPaid = s.amountPaid /\ t.status = s.status
          /\ "amountPaid" \notin t.columns => s.amountPaid = invoices[s.invoice].amountPaid
          /\ "status" \notin t.columns => s.status = invoices[s.invoice].status
    BY <1>4, ComparedCopy
  <2>3. CopiesCurrent'
    BY <2>1, <2>2 DEF RecordInv, CopiesCurrent
  <2>4. QED
    BY <2>1, <2>3 DEF RecordInv, PaymentsRecorded, RoundingAllowance, Exists
<1>5. ASSUME NEW s \in invoiceSaves, WriteInvoice(s)
      PROVE  RecordInv'
  <2>1. invoiceSaves' = {}
    BY <1>5, SavePhase DEF WriteInvoice
  <2>2. PaymentsRecorded'
    <3>1. PICK i : i = s.invoice
      OBVIOUS
    <3> DEFINE half == Fraction(s.amount) * (Cent \div 2)
    <3>2. /\ i \in Invoices /\ s.amount \in Nat /\ Exists(i) /\ Exists(i)'
          /\ invoices'[i].amountPaid = invoices[i].amountPaid + Round(s.amount)
          /\ \A j \in Invoices \ {i} : invoices'[j] = invoices[j]
      BY <1>5, <3>1, WrittenRow
    <3>3. /\ received'[i].sum = received[i].sum + s.amount
          /\ RoundingAllowance(i)' = RoundingAllowance(i) + half
          /\ \A j \in Invoices \ {i} : received'[j] = received[j]
      BY <1>5, <3>1, WrittenReceipts
    <3>4. half \in Nat /\ s.amount <= Round(s.amount) + half /\ Round(s.amount) \in Nat
      BY <3>2, RoundAllowance, RoundType
    <3> HIDE DEF half
    <3>5. /\ received[i].sum \in Nat /\ RoundingAllowance(i) \in Nat /\ invoices[i].amountPaid \in Nat
          /\ received[i].sum <= invoices[i].amountPaid + RoundingAllowance(i)
      BY <3>2, RecordableType, RowFacts DEF RecordInv, PaymentsRecorded
    <3>6. received'[i].sum <= invoices'[i].amountPaid + RoundingAllowance(i)'
      BY <3>2, <3>3, <3>4, <3>5
    <3>7. \A j \in Invoices \ {i} : RoundingAllowance(j)' = RoundingAllowance(j) /\ (Exists(j)' <=> Exists(j))
      BY <3>2, <3>3 DEF RoundingAllowance, Exists
    <3>8. QED
      BY <3>2, <3>3, <3>6, <3>7 DEF RecordInv, PaymentsRecorded
  <2>3. QED
    BY <2>1, <2>2 DEF RecordInv, CopiesCurrent
<1>6. QED
  BY <1>1, <1>2, <1>3, <1>4, <1>5 DEF Next, vars, CreateInvoice, CreateStep, RefuseInvoice, FetchOrder,
     ReadOrderToLink, FinishInvoice, UpdateOrderStatus, SaveStep, CompareOrder, WriteOrder, FailOrderSave,
     FailInvoiceSave, Crash

LEMMA InitRecord == Init => RecordInv /\ StatusInv
BY DEF Init, RecordInv, PaymentsRecorded, RoundingAllowance, Cent, CopiesCurrent, StatusInv, Exists

\* Without overlaps, what clients have paid is stored, but for the rounding,
\* and so within the total, although calls and the process may fail.
THEOREM SerialNoOverpayment ==
  ASSUME Serial
  PROVE  Spec => []NoOverpayment
<1> DEFINE Inv == TypeInv /\ PaymentInv /\ SavesInOrder /\ RecordInv
<1>1. Init => Inv
  BY InitTypeInv, InitPaymentInv, InitSaves, InitRecord
<1>2. Inv /\ [Next]_vars => Inv'
  BY StepTypeInv, StepPaymentInv, StepSaves, StepRecord
<1>3. Inv => NoOverpayment
  <2> SUFFICES ASSUME Inv, NEW i \in Invoices, Exists(i)
               PROVE  received[i].sum <= invoices[i].totalAmount + RoundingAllowance(i)
    BY DEF NoOverpayment
  <2>1. /\ invoices[i].amountPaid \in Nat /\ invoices[i].totalAmount \in Nat
        /\ invoices[i].amountPaid <= invoices[i].totalAmount
    BY RowFacts
  <2>2. /\ received[i].sum \in Nat /\ RoundingAllowance(i) \in Nat
        /\ received[i].sum <= invoices[i].amountPaid + RoundingAllowance(i)
    BY RecordableType DEF RecordInv, PaymentsRecorded
  <2>3. QED
    BY <2>1, <2>2
<1> HIDE DEF Inv
<1>4. QED
  BY <1>1, <1>2, <1>3, PTL DEF Spec

\* PAID and PARTIALLY_PAID come from payments only.
OrdinaryInputs == InvoiceStatusInputs \intersect {"PAID", "PARTIALLY_PAID"} = {}

LEMMA PaymentMatches ==
  ASSUME NEW status \in InvoiceStatus, NEW paid \in Nat, NEW amount \in Nat, NEW total \in Nat,
         NEW fractions \in Nat, NEW fraction \in Nat,
         Matches(status, paid, total, fractions), paid + amount <= total
  PROVE  Matches(StatusAfterPayment(status, paid + amount, total), paid + amount, total,
                 fractions + fraction)
<1>1. CASE paid + amount = total
  BY <1>1 DEF Matches, StatusAfterPayment
<1>2. CASE paid + amount < total /\ paid + amount > 0
  BY <1>2 DEF Matches, StatusAfterPayment
<1>3. CASE paid + amount < total /\ paid + amount = 0
  BY <1>3 DEF Matches, StatusAfterPayment
<1>4. QED
  BY <1>1, <1>2, <1>3

LEMMA StepStatus ==
  ASSUME Serial, OrdinaryInputs, TypeInv, PaymentInv, SavesInOrder, RecordInv, StatusInv, [Next]_vars
  PROVE  StatusInv'
<1>1. ASSUME UNCHANGED <<invoices, received>>, invoiceSaves' \subseteq invoiceSaves
      PROVE  StatusInv'
  BY <1>1 DEF StatusInv, Exists
<1>2. ASSUME NEW r \in Requests, NEW i \in Invoices, SaveInvoice(r, i)
      PROVE  StatusInv'
  <2>1. invoiceSaves' = {} /\ received' = received
    BY <1>2 DEF SaveInvoice, SavesInOrder
  <2>2. QED
    BY <1>2, <2>1, SavedRow DEF StatusInv, Matches, Exists
<1>3. ASSUME NEW r \in Requests, UpdateInvoicePayment(r) \/ UpdateInvoiceStatus(r)
      PROVE  StatusInv'
  <2>1. UNCHANGED <<invoices, received>>
    BY <1>3 DEF UpdateInvoicePayment, UpdateInvoiceStatus
  <2>2. PICK i \in Invoices, status \in InvoiceStatus, amount \in Nat :
          /\ Exists(i)
          /\ invoiceSaves' = {InvoiceCopy(r, i, status, invoices[i].amountPaid + amount, amount)}
          /\ \/ /\ amount \in Payments
                /\ invoices[i].amountPaid + amount <= invoices[i].totalAmount
                /\ status = StatusAfterPayment(invoices[i].status, invoices[i].amountPaid + amount,
                                               invoices[i].totalAmount)
             \/ amount = 0 /\ status \in InvoiceStatusInputs
    BY <1>3, NewCopy
  <2>3. received[i].fractions \in Nat /\ Fraction(amount) \in Nat
    BY RecordableType DEF Receipts, Fraction
  <2>4. Matches(status, invoices[i].amountPaid + amount, invoices[i].totalAmount,
                received[i].fractions + Fraction(amount))
    <3>1. CASE amount = 0 /\ status \in InvoiceStatusInputs
      BY <3>1 DEF OrdinaryInputs, Matches
    <3>2. CASE /\ invoices[i].amountPaid + amount <= invoices[i].totalAmount
               /\ status = StatusAfterPayment(invoices[i].status, invoices[i].amountPaid + amount,
                                              invoices[i].totalAmount)
      BY <2>2, <2>3, <3>2, RowFacts, PaymentMatches DEF StatusInv
    <3>3. QED
      BY <2>2, <3>1, <3>2
  <2>5. QED
    BY <2>1, <2>2, <2>4, CopyFields DEF StatusInv, Exists
<1>4. ASSUME NEW s \in invoiceSaves, CompareInvoice(s)
      PROVE  StatusInv'
  <2>1. UNCHANGED <<invoices, received>>
    BY <1>4 DEF CompareInvoice
  <2>2. PICK t :
          /\ invoiceSaves' = (invoiceSaves \ {s}) \union {t}
          /\ t.invoice = s.invoice /\ t.amount = s.amount
          /\ t.amountPaid = s.amountPaid /\ t.status = s.status
    BY <1>4, ComparedCopy
  <2>3. QED
    BY <2>1, <2>2 DEF StatusInv, Exists
<1>5. ASSUME NEW s \in invoiceSaves, WriteInvoice(s)
      PROVE  StatusInv'
  <2>1. invoiceSaves' = {}
    BY <1>5, SavePhase DEF WriteInvoice
  <2>2. PICK i : i = s.invoice
    OBVIOUS
  <2>3. /\ i \in Invoices /\ s.amount \in Nat /\ Exists(i) /\ SameIdentity(invoices[i], invoices'[i])
        /\ invoices'[i].amountPaid = invoices[i].amountPaid + Round(s.amount)
        /\ invoices'[i].status = s.status
        /\ \A j \in Invoices \ {i} : invoices'[j] = invoices[j] /\ received'[j] = received[j]
    BY <1>5, <2>2, WrittenRow
  <2>4. /\ invoices'[i].totalAmount = invoices[i].totalAmount
        /\ received'[i].fractions = received[i].fractions + Fraction(s.amount)
        /\ received[i].fractions \in Nat
    BY <1>5, <2>2, <2>3, WrittenReceipts, RecordableType DEF SameIdentity, Receipts
  <2>5. /\ invoices[i].amountPaid \in Nat /\ invoices[i].amountPaid % Cent = 0
        /\ invoices[i].totalAmount \in Nat /\ invoices[i].totalAmount % Cent = 0
        /\ s.amountPaid = invoices[i].amountPaid + s.amount
    BY <2>2, <2>3, RowFacts DEF RecordInv, CopiesCurrent
  <2>6. Matches(s.status, s.amountPaid, invoices[i].totalAmount, received'[i].fractions)
    BY <2>2, <2>4 DEF StatusInv
  <2>7. Matches(s.status, invoices'[i].amountPaid, invoices[i].totalAmount, received'[i].fractions)
    <3>1. ASSUME s.amountPaid = invoices[i].totalAmount
          PROVE  invoices'[i].amountPaid = invoices[i].totalAmount
      <4>1. Round(s.amountPaid) = invoices[i].amountPaid + Round(s.amount)
        BY <2>3, <2>5, RoundPlus
      <4>2. Round(s.amountPaid) = invoices[i].totalAmount
        BY <2>5, <3>1, RoundExact
      <4>3. QED
        BY <2>3, <4>1, <4>2
    <3>2. ASSUME received'[i].fractions = 0
          PROVE  invoices'[i].amountPaid = s.amountPaid
      <4>1. s.amount % Cent = 0
        BY <2>4, <3>2 DEF Fraction
      <4>2. QED
        BY <2>3, <2>5, <4>1, RoundExact
    <3>3. QED
      BY <2>6, <3>1, <3>2 DEF Matches
  <2>8. \A j \in Invoices : Exists(j)' =>
          Matches(invoices'[j].status, invoices'[j].amountPaid, invoices'[j].totalAmount, received'[j].fractions)
    BY <2>3, <2>4, <2>7 DEF StatusInv, Exists
  <2>9. QED
    BY <2>1, <2>8 DEF StatusInv
<1>6. QED
  BY <1>1, <1>2, <1>3, <1>4, <1>5 DEF Next, vars, CreateInvoice, CreateStep, RefuseInvoice, FetchOrder,
     ReadOrderToLink, FinishInvoice, UpdateOrderStatus, SaveStep, CompareOrder, WriteOrder, FailOrderSave,
     FailInvoiceSave, Crash

\* Without overlaps, the automatic status tells what has been paid; a payment
\* that the column rounds leaves only PAID exact.
THEOREM SerialStatusMatches ==
  ASSUME Serial, OrdinaryInputs
  PROVE  Spec => []StatusMatchesAmount
<1> DEFINE Inv == TypeInv /\ PaymentInv /\ SavesInOrder /\ RecordInv /\ StatusInv
<1>1. Init => Inv
  BY InitTypeInv, InitPaymentInv, InitSaves, InitRecord
<1>2. Inv /\ [Next]_vars => Inv'
  BY StepTypeInv, StepPaymentInv, StepSaves, StepRecord, StepStatus
<1>3. Inv => StatusMatchesAmount
  BY DEF StatusInv, Matches, StatusMatchesAmount
<1> HIDE DEF Inv
<1>4. QED
  BY <1>1, <1>2, <1>3, PTL DEF Spec

----------------------------------------------------------------------------
(***************************************************************************)
(* Orders and the invoices that bill them.                                 *)
(***************************************************************************)

LEMMA InitFetch == Init => FetchInv
BY DEF Init, FetchInv, Idle

LEMMA StepFetch ==
  ASSUME Serial, TypeInv, SavesInOrder, FetchInv, [Next]_vars
  PROVE  FetchInv'
<1>1. Idle.pc = "idle" /\ Saving.pc = "saving"
  BY DEF Idle, Saving
<1>2. ASSUME orders' = orders,
             \A r \in Requests : request'[r] = request[r] \/ request'[r].pc # "fetch"
      PROVE  FetchInv'
  BY <1>2 DEF FetchInv, Billable
<1>3. ASSUME NEW r \in Requests, CreateInvoice(r)
      PROVE  FetchInv'
  <2>1. PICK u \in Users, b \in Businesses, c \in Customers, t \in InvoiceTypeInputs, ids \in OrderLists :
          /\ verifyBusinessOwnership(u, b)
          /\ ids # <<>>
          /\ request' = [request EXCEPT ![r] =
               [Idle EXCEPT !.pc = "fetch", !.businessId = b, !.customerId = c,
                            !.invoiceType = t, !.orderIds = ids, !.todo = DOMAIN ids]]
    BY <1>3 DEF CreateInvoice
  <2>2. request'[r].orderIds # <<>> /\ request'[r].todo = DOMAIN request'[r].orderIds
    BY <2>1 DEF TypeInv, TypeOK, Idle
  <2>3. \A q \in Requests : q = r
    BY OneRequest
  <2>4. QED
    BY <2>2, <2>3 DEF FetchInv
<1>4. ASSUME NEW r \in Requests, NEW k \in request[r].todo, FetchOrder(r, k)
      PROVE  FetchInv'
  <2>1. /\ request'[r].todo = request[r].todo \ {k}
        /\ request'[r].orderIds = request[r].orderIds
        /\ request'[r].businessId = request[r].businessId
        /\ request'[r].customerId = request[r].customerId
        /\ request'[r].invoiceType = request[r].invoiceType
    BY <1>4 DEF FetchOrder, TypeInv, TypeOK, Request
  <2>2. /\ request[r].pc = "fetch" /\ orders' = orders
        /\ Billable(request[r], request[r].orderIds[k])
    BY <1>4 DEF FetchOrder
  <2>3. \A q \in Requests : q = r
    BY OneRequest
  <2>4. QED
    BY <2>1, <2>2, <2>3 DEF FetchInv, Billable
<1>5. ASSUME NEW r \in Requests, NEW i \in Invoices, SaveInvoice(r, i)
      PROVE  FetchInv'
  <2>1. request'[r].pc = "link"
    BY <1>5 DEF SaveInvoice, TypeInv, TypeOK, Request
  <2>2. QED
    BY <1>2, <1>5, <2>1, OneRequest DEF SaveInvoice
<1>6. ASSUME NEW r \in Requests, NEW k \in request[r].todo, ReadOrderToLink(r, k)
      PROVE  FetchInv'
  <2>1. request'[r].pc = "link"
    BY <1>6 DEF ReadOrderToLink, TypeInv, TypeOK, Request
  <2>2. QED
    BY <1>2, <1>6, <2>1, OneRequest DEF ReadOrderToLink
<1>7. ASSUME NEW r \in Requests,
             request' = [request EXCEPT ![r] = Idle] \/ request' = [request EXCEPT ![r] = Saving]
      PROVE  request'[r].pc # "fetch" /\ \A q \in Requests : q = r
  BY <1>1, <1>7, OneRequest DEF TypeInv, TypeOK
<1>8. ASSUME NEW r \in Requests,
             \/ RefuseInvoice(r) \/ FinishInvoice(r) \/ UpdateOrderStatus(r)
             \/ UpdateInvoicePayment(r) \/ UpdateInvoiceStatus(r)
      PROVE  FetchInv'
  <2>1. /\ orders' = orders
        /\ request' = [request EXCEPT ![r] = Idle] \/ request' = [request EXCEPT ![r] = Saving]
    BY <1>8 DEF RefuseInvoice, FinishInvoice, UpdateOrderStatus, UpdateInvoicePayment, UpdateInvoiceStatus
  <2>2. QED
    BY <1>2, <1>7, <2>1
<1>9. ASSUME NEW r \in Requests, Answer(r), request[r].pc # "fetch"
      PROVE  \A q \in Requests : request'[q].pc # "fetch"
  BY <1>1, <1>9, OneRequest DEF Answer, TypeInv, TypeOK
<1>10. ASSUME NEW s \in orderSaves, WriteOrder(s) \/ FailOrderSave(s)
       PROVE  FetchInv'
  <2>1. s.request \in Requests /\ Answer(s.request) /\ request[s.request].pc # "fetch"
    BY <1>10, SavePhase DEF WriteOrder, FailOrderSave, TypeInv, TypeOK, OrderSave
  <2>2. QED
    BY <1>9, <2>1 DEF FetchInv
<1>11. ASSUME NEW s \in invoiceSaves, WriteInvoice(s) \/ FailInvoiceSave(s)
       PROVE  FetchInv'
  <2>1. s.request \in Requests /\ Answer(s.request) /\ request[s.request].pc # "fetch"
    BY <1>11, SavePhase DEF WriteInvoice, FailInvoiceSave, TypeInv, TypeOK, InvoiceSave
  <2>2. QED
    BY <1>9, <2>1 DEF FetchInv
<1>12. CASE Crash
  BY <1>1, <1>12 DEF Crash, FetchInv
<1>13. ASSUME UNCHANGED <<orders, request>>
       PROVE  FetchInv'
  BY <1>2, <1>13
<1>14. QED
  BY <1>3, <1>4, <1>5, <1>6, <1>8, <1>10, <1>11, <1>12, <1>13
  DEF Next, vars, CreateStep, SaveStep, CompareOrder, CompareInvoice

\* When an invoice is saved, all its orders can still be billed.
LEMMA SavedBillable ==
  ASSUME TypeInv, FetchInv, NEW r \in Requests, NEW i \in Invoices, SaveInvoice(r, i)
  PROVE  /\ request[r].orderIds # <<>>
         /\ \A o \in BilledOn(i)' : o \in Orders /\ Billable(request[r], o)
<1>1. invoices'[i].billed = request[r].orderIds
  BY SavedRow
<1>2. request[r].orderIds \in Seq(Orders)
  BY DEF TypeInv, TypeOK, Request
<1>3. request[r].pc = "fetch" /\ request[r].todo = {}
  BY DEF SaveInvoice
<1>4. QED
  BY <1>1, <1>2, <1>3 DEF FetchInv, BilledOn

----------------------------------------------------------------------------
(***************************************************************************)
(* The links that createInvoice makes.  Here nothing may fail: a failing   *)
(* link stays away, and the next request bills the order again.            *)
(***************************************************************************)

LEMMA InitLinked == Init => LinkedInv
BY DEF Init, LinkedInv, EachOrderBilledOnce, OrdersLinked, LinksUnderWay, OrderCopiesCurrent, Exists, Idle

LEMMA BilledOnKept ==
  ASSUME TypeInv, [Next]_vars, NEW i \in Invoices, Exists(i)
  PROVE  Exists(i)' /\ BilledOn(i)' = BilledOn(i) /\ invoices'[i].billed = invoices[i].billed
BY RowsKeepIdentity DEF SameIdentity, BilledOn

\* Steps that make no invoice and write no order, and leave the request where
\* it is, unless it has no order in flight.
LEMMA QuietLinked ==
  ASSUME TypeInv, [Next]_vars, LinkedInv, UNCHANGED <<orders, orderSaves>>,
         \A i \in Invoices : Exists(i)' => Exists(i),
         \A r \in Requests :
           \/ request'[r] = request[r]
           \/ request[r].pc # "link" /\ request'[r].pc # "link" /\ orderSaves = {}
  PROVE  LinkedInv'
<1> USE DEF LinkedInv
<1>1. EachOrderBilledOnce'
  BY BilledOnKept DEF EachOrderBilledOnce
<1>2. OrdersLinked'
  <2>1. \A r \in Requests, i \in Invoices : Linking(r, i) => Linking(r, i)'
    BY DEF Linking
  <2>2. QED
    BY <2>1, BilledOnKept DEF OrdersLinked
<1>3. LinksUnderWay'
  <2> SUFFICES ASSUME NEW r \in Requests, request'[r].pc = "link"
               PROVE  LinksUnderWay!(r)'
    BY DEF LinksUnderWay
  <2>1. request'[r] = request[r] /\ request[r].invoiceId \in Invoices
    BY DEF TypeInv, RequestsInOrder
  <2>2. QED
    BY <2>1, BilledOnKept DEF LinksUnderWay
<1>4. OrderCopiesCurrent'
  <2> SUFFICES ASSUME NEW s \in orderSaves
               PROVE  OrderCopiesCurrent!(s)'
    BY DEF OrderCopiesCurrent
  <2>1. s.request \in Requests
    BY DEF TypeInv, TypeOK, OrderSave
  <2>2. request'[s.request] = request[s.request]
    BY <2>1
  <2>3. request[s.request].pc = "link" => BilledOn(s.invoiceId)' = BilledOn(s.invoiceId)
    BY <2>1, BilledOnKept DEF OrderCopiesCurrent, LinksUnderWay, TypeInv, RequestsInOrder
  <2>4. QED
    BY <2>2, <2>3 DEF OrderCopiesCurrent
<1>5. QED
  BY <1>1, <1>2, <1>3, <1>4

LEMMA SaveInvoiceLinked ==
  ASSUME Serial, TypeInv, [Next]_vars, SavesInOrder, FetchInv, LinkedInv,
         NEW r \in Requests, NEW i \in Invoices, SaveInvoice(r, i)
  PROVE  /\ LinkedInv'
         /\ \A o \in BilledOn(i)' : o \in Orders /\ \A j \in Invoices : Exists(j) => o \notin BilledOn(j)
<1> USE DEF LinkedInv
<1>1. /\ request'[r].pc = "link" /\ request'[r].invoiceId = i
      /\ request'[r].orderIds = request[r].orderIds
      /\ request'[r].todo = DOMAIN request[r].orderIds
  BY DEF SaveInvoice, LinkPositions, TypeInv, TypeOK, Request
<1>2. /\ request[r].pc = "fetch" /\ orders' = orders /\ orderSaves' = orderSaves
      /\ \A q \in Requests : q = r
  BY OneRequest DEF SaveInvoice
<1>3. orderSaves = {}
  BY <1>2 DEF SavesInOrder
<1>4. \A j \in Invoices : Exists(j) => \A o \in BilledOn(j) : orders[o].invoiceId = j
  BY <1>2 DEF OrdersLinked, Linking
<1>5. \A o \in BilledOn(i)' : o \in Orders /\ orders[o].invoiceId = None
  BY SavedBillable DEF Billable
<1>6. \A o \in BilledOn(i)' : o \in Orders /\ \A j \in Invoices : Exists(j) => o \notin BilledOn(j)
  BY <1>4, <1>5, NoneAssumption
<1>7. /\ Exists(i)' /\ invoices'[i].billed = request[r].orderIds
      /\ \A j \in Invoices \ {i} : (Exists(j)' <=> Exists(j)) /\ BilledOn(j)' = BilledOn(j)
  BY SavedRow DEF Exists, BilledOn
<1>8. EachOrderBilledOnce'
  <2> SUFFICES ASSUME NEW j \in Invoices, NEW k \in Invoices, Exists(j)', Exists(k)', j # k,
                      NEW o \in BilledOn(j)', o \in BilledOn(k)'
               PROVE  FALSE
    BY DEF EachOrderBilledOnce
  <2>1. CASE j = i
    BY <1>6, <1>7, <2>1
  <2>2. CASE k = i
    BY <1>6, <1>7, <2>2
  <2>3. CASE j # i /\ k # i
    BY <1>7, <2>3 DEF EachOrderBilledOnce
  <2>4. QED
    BY <2>1, <2>2, <2>3
<1>9. OrdersLinked'
  <2>1. Linking(r, i)'
    BY <1>1 DEF Linking
  <2>2. QED
    BY <1>2, <1>4, <1>7, <2>1 DEF OrdersLinked
<1>10. LinksUnderWay'
  BY <1>1, <1>2, <1>7 DEF LinksUnderWay
<1>11. OrderCopiesCurrent'
  BY <1>2, <1>3 DEF OrderCopiesCurrent
<1>12. QED
  BY <1>6, <1>8, <1>9, <1>10, <1>11

LEMMA ReadOrderLinked ==
  ASSUME Serial, TypeInv, [Next]_vars, LinkedInv,
         NEW r \in Requests, NEW k \in request[r].todo, ReadOrderToLink(r, k)
  PROVE  LinkedInv'
<1> USE DEF LinkedInv
<1>1. /\ request[r].pc = "link" /\ UNCHANGED <<orders, invoices>>
      /\ request'[r].pc = "link" /\ request'[r].invoiceId = request[r].invoiceId
      /\ request'[r].orderIds = request[r].orderIds
      /\ request'[r].todo = request[r].todo \ {k}
      /\ \A q \in Requests : q = r
  BY OneRequest DEF ReadOrderToLink, TypeInv, TypeOK, Request
<1>2. PICK s :
        /\ orderSaves' = orderSaves \union {s}
        /\ s.request = r /\ s.phase = "read"
        /\ s.order = request[r].orderIds[k] /\ s.invoiceId = request[r].invoiceId
  <2> DEFINE t == [request |-> r, slot |-> k, order |-> request[r].orderIds[k], phase |-> "read",
                   status |-> orders[request[r].orderIds[k]].status, invoiceId |-> request[r].invoiceId,
                   columns |-> {}]
  <2>1. orderSaves' = orderSaves \union {t}
    BY DEF ReadOrderToLink
  <2>2. /\ t.request = r /\ t.phase = "read"
        /\ t.order = request[r].orderIds[k] /\ t.invoiceId = request[r].invoiceId
    OBVIOUS
  <2> HIDE DEF t
  <2>3. QED
    BY <2>1, <2>2
<1>3. s.order \in BilledOn(s.invoiceId)
  BY <1>1, <1>2 DEF LinksUnderWay, BilledOn, TypeInv, RequestsInOrder
<1>4. \A i : (Exists(i)' <=> Exists(i)) /\ BilledOn(i)' = BilledOn(i)
  BY <1>1 DEF Exists, BilledOn
<1>5. EachOrderBilledOnce'
  BY <1>4 DEF EachOrderBilledOnce
<1>6. OrdersLinked'
  BY <1>1, <1>4 DEF OrdersLinked, Linking
<1>7. LinksUnderWay'
  BY <1>1, <1>2, <1>4 DEF LinksUnderWay
<1>8. OrderCopiesCurrent'
  <2> SUFFICES ASSUME NEW t \in orderSaves'
               PROVE  OrderCopiesCurrent!(t)'
    BY DEF OrderCopiesCurrent
  <2>1. CASE t = s
    BY <1>1, <1>2, <1>3, <1>4, <2>1
  <2>2. CASE t \in orderSaves
    <3>1. t.request = r
      BY <2>2, OneRequest
    <3>2. QED
      BY <1>1, <1>4, <2>2, <3>1 DEF OrderCopiesCurrent
  <2>3. QED
    BY <1>2, <2>1, <2>2
<1>9. QED
  BY <1>5, <1>6, <1>7, <1>8

\* When createInvoice is over, every order has its link.
LEMMA FinishLinked ==
  ASSUME Serial, TypeInv, [Next]_vars, LinkedInv, NEW r \in Requests, FinishInvoice(r)
  PROVE  LinkedInv'
<1> USE DEF LinkedInv
<1>1. /\ request[r].pc = "link" /\ request[r].todo = {} /\ UNCHANGED <<orders, invoices, orderSaves>>
      /\ request'[r].pc = "idle"
      /\ \A q \in Requests : q = r
  BY OneRequest DEF FinishInvoice, TypeInv, TypeOK, Idle
<1>2. orderSaves = {}
  BY OneRequest DEF FinishInvoice
<1>3. \A i : (Exists(i)' <=> Exists(i)) /\ BilledOn(i)' = BilledOn(i)
  BY <1>1 DEF Exists, BilledOn
<1>4. \A o \in BilledOn(request[r].invoiceId) : orders[o].invoiceId = request[r].invoiceId
  BY <1>1, <1>2 DEF LinksUnderWay, BilledOn
<1>5. EachOrderBilledOnce'
  BY <1>3 DEF EachOrderBilledOnce
<1>6. OrdersLinked'
  BY <1>1, <1>3, <1>4 DEF OrdersLinked, Linking
<1>7. LinksUnderWay' /\ OrderCopiesCurrent'
  BY <1>1, <1>2 DEF LinksUnderWay, OrderCopiesCurrent
<1>8. QED
  BY <1>5, <1>6, <1>7

LEMMA UpdateOrderLinked ==
  ASSUME Serial, TypeInv, [Next]_vars, SavesInOrder, LinkedInv, NEW r \in Requests, UpdateOrderStatus(r)
  PROVE  LinkedInv'
<1> USE DEF LinkedInv
<1>1. /\ request[r].pc = "idle" /\ UNCHANGED <<orders, invoices>>
      /\ request'[r].pc = "saving"
      /\ \A q \in Requests : q = r
  BY OneRequest DEF UpdateOrderStatus, TypeInv, TypeOK, Saving, Idle
<1>2. PICK s :
        /\ orderSaves' = orderSaves \union {s}
        /\ s.request = r /\ s.phase = "read" /\ s.invoiceId = orders[s.order].invoiceId
  <2>1. PICK o \in Orders, status \in OrderStatusInputs :
          orderSaves' = orderSaves \union
            {[request |-> r, slot |-> 0, order |-> o, phase |-> "read", status |-> status,
              invoiceId |-> orders[o].invoiceId, columns |-> {}]}
    BY DEF UpdateOrderStatus
  <2> DEFINE t == [request |-> r, slot |-> 0, order |-> o, phase |-> "read", status |-> status,
                   invoiceId |-> orders[o].invoiceId, columns |-> {}]
  <2>2. t.request = r /\ t.phase = "read" /\ t.invoiceId = orders[t.order].invoiceId
    OBVIOUS
  <2>3. orderSaves' = orderSaves \union {t}
    BY <2>1
  <2> HIDE DEF t
  <2>4. QED
    BY <2>2, <2>3
<1>3. orderSaves' = {s}
  BY <1>1, <1>2 DEF SavesInOrder
<1>4. \A i : (Exists(i)' <=> Exists(i)) /\ BilledOn(i)' = BilledOn(i)
  BY <1>1 DEF Exists, BilledOn
<1>5. EachOrderBilledOnce'
  BY <1>4 DEF EachOrderBilledOnce
<1>6. OrdersLinked'
  BY <1>1, <1>4 DEF OrdersLinked, Linking
<1>7. LinksUnderWay'
  BY <1>1 DEF LinksUnderWay
<1>8. OrderCopiesCurrent'
  BY <1>1, <1>2, <1>3 DEF OrderCopiesCurrent
<1>9. QED
  BY <1>5, <1>6, <1>7, <1>8

LEMMA CompareOrderLinked ==
  ASSUME TypeInv, [Next]_vars, LinkedInv, NEW s \in orderSaves, CompareOrder(s)
  PROVE  LinkedInv'
<1> USE DEF LinkedInv
<1>1. UNCHANGED <<orders, invoices, request>>
  BY DEF CompareOrder
<1>2. PICK t :
        /\ orderSaves' = (orderSaves \ {s}) \union {t}
        /\ t.request = s.request /\ t.order = s.order /\ t.invoiceId = s.invoiceId
        /\ "invoiceId" \notin t.columns => s.invoiceId = orders[s.order].invoiceId
  <2> DEFINE columns == {c \in {"status", "invoiceId"} : s[c] # orders[s.order][c]}
             t == [s EXCEPT !.phase = "compared", !.columns = columns]
  <2>1. s \in OrderSave
    BY DEF TypeInv, TypeOK
  <2>2. "invoiceId" \notin columns => s["invoiceId"] = orders[s.order]["invoiceId"]
    OBVIOUS
  <2>3. orderSaves' = (orderSaves \ {s}) \union {t}
    BY DEF CompareOrder
  <2> HIDE DEF columns
  <2>4. /\ t.request = s.request /\ t.order = s.order /\ t.invoiceId = s.invoiceId
        /\ t.columns = columns
    BY <2>1 DEF OrderSave
  <2> HIDE DEF t
  <2>5. QED
    BY <2>2, <2>3, <2>4
<1>3. \A i : (Exists(i)' <=> Exists(i)) /\ BilledOn(i)' = BilledOn(i)
  BY <1>1 DEF Exists, BilledOn
<1>4. EachOrderBilledOnce'
  BY <1>3 DEF EachOrderBilledOnce
<1>5. OrdersLinked'
  BY <1>1, <1>3 DEF OrdersLinked, Linking
<1>6. LinksUnderWay'
  BY <1>1, <1>2, <1>3 DEF LinksUnderWay
<1>7. OrderCopiesCurrent'
  BY <1>1, <1>2, <1>3 DEF OrderCopiesCurrent
<1>8. QED
  BY <1>4, <1>5, <1>6, <1>7

\* A link overwrites no other invoice's link, because the order is billed once.
LEMMA WriteOrderLinked ==
  ASSUME Serial, TypeInv, [Next]_vars, SavesInOrder, LinkedInv, NEW s \in orderSaves, WriteOrder(s)
  PROVE  LinkedInv'
<1> USE DEF LinkedInv
<1>1. PICK r \in Requests, o \in Orders : r = s.request /\ o = s.order
  BY DEF TypeInv, TypeOK, OrderSave
<1>2. /\ orderSaves' = orderSaves \ {s} /\ invoices' = invoices /\ Answer(r)
      /\ \A q \in Requests : q = r
  BY <1>1, OneRequest DEF WriteOrder
<1>3. /\ orders'[o].invoiceId = s.invoiceId
      /\ \A p \in Orders \ {o} : orders'[p] = orders[p]
  <2>1. "invoiceId" \notin s.columns => s.invoiceId = orders[o].invoiceId
    BY <1>1 DEF WriteOrder, OrderCopiesCurrent
  <2>2. QED
    BY <1>1, <2>1 DEF WriteOrder, TypeInv, TypeOK
<1>4. \A i : (Exists(i)' <=> Exists(i)) /\ BilledOn(i)' = BilledOn(i)
  BY <1>2 DEF Exists, BilledOn
<1>5. \A i \in Invoices : Exists(i) => BilledOn(i) \subseteq Orders
  BY DEF TypeInv, TypeOK, Exists, InvoiceRow, BilledOn
<1>6. EachOrderBilledOnce'
  BY <1>4 DEF EachOrderBilledOnce
<1>7. CASE request[r].pc = "saving"
  <2>1. request'[r].pc = "idle" /\ orderSaves' = {}
    BY <1>1, <1>2, <1>7, SavePhase DEF Answer, TypeInv, TypeOK, Idle
  <2>2. \A p \in Orders : orders'[p].invoiceId = orders[p].invoiceId
    BY <1>1, <1>3, <1>7 DEF OrderCopiesCurrent
  <2>3. OrdersLinked'
    BY <1>2, <1>4, <1>5, <1>7, <2>2 DEF OrdersLinked, Linking
  <2>4. LinksUnderWay' /\ OrderCopiesCurrent'
    BY <1>2, <2>1 DEF LinksUnderWay, OrderCopiesCurrent
  <2>5. QED
    BY <1>6, <2>3, <2>4
<1>8. CASE request[r].pc = "link"
  <2>1. request' = request
    BY <1>2, <1>8 DEF Answer
  <2>2. PICK i \in Invoices : i = request[r].invoiceId
    BY <1>8 DEF TypeInv, RequestsInOrder
  <2>3. s.invoiceId = i /\ o \in BilledOn(i) /\ Exists(i)
    BY <1>1, <1>8, <2>2 DEF OrderCopiesCurrent, LinksUnderWay
  <2>4. Linking(r, i)'
    BY <1>8, <2>1, <2>2 DEF Linking
  <2>5. \A j \in Invoices \ {i} : Exists(j) =>
          ~Linking(r, j) /\ \A p \in BilledOn(j) : orders'[p] = orders[p]
    <3>1. \A j \in Invoices \ {i} : Exists(j) => o \notin BilledOn(j)
      BY <2>3 DEF EachOrderBilledOnce
    <3>2. QED
      BY <1>3, <1>5, <2>2, <3>1 DEF Linking
  <2>6. OrdersLinked'
    BY <1>2, <1>4, <2>4, <2>5 DEF OrdersLinked
  <2>7. \A k \in DOMAIN request[r].orderIds : request[r].orderIds[k] \in Orders
    BY DEF TypeInv, TypeOK, Request
  <2>8. LinksUnderWay'
    <3> SUFFICES ASSUME NEW k \in DOMAIN request[r].orderIds, k \notin request[r].todo
                 PROVE  \/ orders'[request[r].orderIds[k]].invoiceId = i
                        \/ \E t \in orderSaves' : t.order = request[r].orderIds[k]
      BY <1>2, <1>4, <1>8, <2>1, <2>2 DEF LinksUnderWay
    <3>1. CASE request[r].orderIds[k] = o
      BY <1>3, <2>3, <3>1
    <3>2. CASE request[r].orderIds[k] # o
      BY <1>1, <1>2, <1>3, <1>8, <2>2, <2>7, <3>2 DEF LinksUnderWay
    <3>3. QED
      BY <3>1, <3>2
  <2>9. OrderCopiesCurrent'
    <3> SUFFICES ASSUME NEW t \in orderSaves'
                 PROVE  OrderCopiesCurrent!(t)'
      BY DEF OrderCopiesCurrent
    <3>1. t \in orderSaves /\ t.request = r /\ t.order \in Orders
      BY <1>2, OneRequest DEF OrderSave
    <3>2. t.invoiceId = i /\ t.order \in BilledOn(i)
      BY <1>8, <2>2, <3>1 DEF OrderCopiesCurrent
    <3>3. orders[t.order].invoiceId = i => orders'[t.order].invoiceId = i
      BY <1>3, <2>3, <3>1
    <3>4. QED
      BY <1>4, <1>8, <2>1, <2>2, <3>1, <3>2, <3>3 DEF OrderCopiesCurrent
  <2>10. QED
    BY <1>6, <2>6, <2>8, <2>9
<1>9. QED
  BY <1>1, <1>7, <1>8, SavePhase

LEMMA StepLinked ==
  ASSUME Serial, MayFail = FALSE, TypeInv, SavesInOrder, FetchInv, LinkedInv, [Next]_vars
  PROVE  LinkedInv'
<1>1. Idle.pc = "idle" /\ Saving.pc = "saving"
  BY DEF Idle, Saving
<1>2. ASSUME UNCHANGED <<orders, orderSaves>>, \A i \in Invoices : Exists(i)' => Exists(i),
             NEW r \in Requests, request[r].pc \in {"idle", "fetch"}, request'[r].pc # "link"
      PROVE  LinkedInv'
  BY <1>2, QuietLinked, OneRequest DEF SavesInOrder
<1>3. ASSUME NEW r \in Requests, CreateInvoice(r)
      PROVE  LinkedInv'
  <2>1. request[r].pc = "idle" /\ UNCHANGED <<orders, invoices, orderSaves>>
    BY <1>3 DEF CreateInvoice
  <2>2. request'[r].pc = "fetch"
    BY <1>3 DEF CreateInvoice, TypeInv, TypeOK, Idle
  <2>3. QED
    BY <1>2, <2>1, <2>2 DEF Exists
<1>4. ASSUME NEW r \in Requests, NEW k \in request[r].todo, FetchOrder(r, k)
      PROVE  LinkedInv'
  <2>1. request[r].pc = "fetch" /\ UNCHANGED <<orders, invoices, orderSaves>>
    BY <1>4 DEF FetchOrder
  <2>2. request'[r].pc = "fetch"
    BY <1>4 DEF FetchOrder, TypeInv, TypeOK, Request
  <2>3. QED
    BY <1>2, <2>1, <2>2 DEF Exists
<1>5. ASSUME NEW r \in Requests, RefuseInvoice(r) \/ UpdateInvoicePayment(r) \/ UpdateInvoiceStatus(r)
      PROVE  LinkedInv'
  <2>1. request[r].pc \in {"idle", "fetch"} /\ UNCHANGED <<orders, invoices, orderSaves>>
    BY <1>5 DEF RefuseInvoice, UpdateInvoicePayment, UpdateInvoiceStatus
  <2>2. request'[r].pc # "link"
    BY <1>1, <1>5 DEF RefuseInvoice, UpdateInvoicePayment, UpdateInvoiceStatus, TypeInv, TypeOK
  <2>3. QED
    BY <1>2, <2>1, <2>2 DEF Exists
<1>6. ASSUME NEW s \in invoiceSaves, CompareInvoice(s)
      PROVE  LinkedInv'
  BY <1>6, QuietLinked DEF CompareInvoice, Exists
<1>7. ASSUME NEW s \in invoiceSaves, WriteInvoice(s)
      PROVE  LinkedInv'
  <2>1. s.request \in Requests /\ s.invoice \in Invoices /\ Exists(s.invoice)
    BY DEF TypeInv, TypeOK, SavesHaveRows, InvoiceSave
  <2>2. \A i \in Invoices : Exists(i)' => Exists(i)
    BY <1>7, <2>1 DEF WriteInvoice, TypeInv, TypeOK, Exists
  <2>3. request[s.request].pc = "saving" /\ orderSaves = {} /\ UNCHANGED <<orders, orderSaves>>
    BY <1>7, SavePhase DEF WriteInvoice
  <2>4. request'[s.request].pc # "link"
    BY <1>1, <1>7, <2>1, <2>3 DEF WriteInvoice, Answer, TypeInv, TypeOK
  <2>5. QED
    BY <2>1, <2>2, <2>3, <2>4, QuietLinked, OneRequest
<1>8. CASE UNCHANGED vars
  BY <1>8, QuietLinked DEF vars, Exists
<1>9. QED
  BY <1>3, <1>4, <1>5, <1>6, <1>7, <1>8, SaveInvoiceLinked, ReadOrderLinked, FinishLinked,
     UpdateOrderLinked, CompareOrderLinked, WriteOrderLinked
  DEF Next, CreateStep, SaveStep, FailOrderSave, FailInvoiceSave, Crash

SerialInv == TypeInv /\ PaymentInv /\ SavesInOrder /\ RecordInv /\ FetchInv /\ LinkedInv

LEMMA InitSerial == Init => SerialInv
BY InitTypeInv, InitPaymentInv, InitSaves, InitRecord, InitFetch, InitLinked DEF SerialInv

LEMMA StepSerial ==
  ASSUME Serial, MayFail = FALSE
  PROVE  SerialInv /\ [Next]_vars => SerialInv'
BY StepTypeInv, StepPaymentInv, StepSaves, StepRecord, StepFetch, StepLinked DEF SerialInv

\* Without overlaps and failures, every order that an invoice bills points to
\* it once createInvoice is over, and for good.
THEOREM SerialOrdersLinked ==
  ASSUME Serial, MayFail = FALSE
  PROVE  Spec => []BilledOrdersLinkBack
<1>1. Init => SerialInv
  BY InitSerial
<1>2. SerialInv /\ [Next]_vars => SerialInv'
  BY StepSerial
<1>3. SerialInv => BilledOrdersLinkBack
  BY DEF SerialInv, LinkedInv, OrdersLinked, Linking, BilledOrdersLinkBack
<1>4. QED
  BY <1>1, <1>2, <1>3, PTL DEF Spec

----------------------------------------------------------------------------
(***************************************************************************)
(* The ledger.  createInvoice takes effect when its invoice is saved, and  *)
(* a payment when its copy is written.                                     *)
(***************************************************************************)

BilledOnMap == [o \in Orders |-> {i \in Invoices : Exists(i) /\ o \in BilledOn(i)}]
TotalMap == [i \in Invoices |-> IF Exists(i) THEN invoices[i].totalAmount ELSE None]
PaidMap == [i \in Invoices |-> IF Exists(i) THEN invoices[i].amountPaid ELSE 0]

LedgerStep == [Ledger!Next]_(Ledger!vars)

LEMMA LedgerStutters ==
  ASSUME BilledOnMap' = BilledOnMap, TotalMap' = TotalMap, PaidMap' = PaidMap
  PROVE  LedgerStep
BY DEF LedgerStep, Ledger!vars, BilledOnMap, TotalMap, PaidMap

LEMMA LedgerIssues ==
  ASSUME NEW i \in Invoices, NEW S \in SUBSET Orders, S # {}, TotalMap[i] = None,
         \A o \in S : BilledOnMap[o] = {},
         BilledOnMap' = [o \in Orders |-> IF o \in S THEN {i} ELSE BilledOnMap[o]],
         TotalMap'[i] \in Nat,
         TotalMap' = [TotalMap EXCEPT ![i] = TotalMap'[i]],
         PaidMap' = PaidMap
  PROVE  LedgerStep
<1>1. Ledger!Issue(i)
  BY DEF Ledger!Issue, BilledOnMap, TotalMap, PaidMap
<1>2. QED
  BY <1>1 DEF LedgerStep, Ledger!Next

LEMMA LedgerPays ==
  ASSUME NEW i \in Invoices, TotalMap[i] # None, PaidMap'[i] \in PaidMap[i] .. TotalMap[i],
         PaidMap' = [PaidMap EXCEPT ![i] = PaidMap'[i]],
         BilledOnMap' = BilledOnMap, TotalMap' = TotalMap
  PROVE  LedgerStep
<1>1. Ledger!Pay(i)
  BY DEF Ledger!Pay, BilledOnMap, TotalMap, PaidMap
<1>2. QED
  BY <1>1 DEF LedgerStep, Ledger!Next

LEMMA SaveInvoiceLedger ==
  ASSUME Serial, SerialInv, [Next]_vars, NEW r \in Requests, NEW i \in Invoices, SaveInvoice(r, i)
  PROVE  LedgerStep
<1> USE DEF SerialInv
<1>1. /\ ~Exists(i) /\ Exists(i)'
      /\ invoices'[i].billed = request[r].orderIds
      /\ invoices'[i].amountPaid = 0 /\ invoices'[i].totalAmount \in Nat
      /\ \A j \in Invoices \ {i} : invoices'[j] = invoices[j]
  BY SavedRow
<1>2. \A o \in BilledOn(i)' : o \in Orders /\ \A j \in Invoices : Exists(j) => o \notin BilledOn(j)
  BY SaveInvoiceLinked
<1>3. \A j \in Invoices \ {i} : (Exists(j)' <=> Exists(j)) /\ BilledOn(j)' = BilledOn(j)
  BY <1>1 DEF Exists, BilledOn
<1> DEFINE S == BilledOn(i)'
<1>4. S \in SUBSET Orders /\ S # {}
  <2>1. request[r].orderIds # <<>> /\ request[r].orderIds \in Seq(Orders)
    BY SavedBillable DEF TypeInv, TypeOK, Request
  <2>2. 1 \in DOMAIN request[r].orderIds
    BY <2>1
  <2>3. request[r].orderIds[1] \in S
    BY <1>1, <2>2 DEF BilledOn
  <2>4. QED
    BY <1>2, <2>3
<1>5. TotalMap[i] = None /\ TotalMap'[i] \in Nat /\ TotalMap' = [TotalMap EXCEPT ![i] = TotalMap'[i]]
  BY <1>1, <1>3 DEF TotalMap
<1>6. PaidMap' = PaidMap
  BY <1>1, <1>3 DEF PaidMap
<1>7. \A o \in S : BilledOnMap[o] = {}
  BY <1>2 DEF BilledOnMap
<1>8. BilledOnMap' = [o \in Orders |-> IF o \in S THEN {i} ELSE BilledOnMap[o]]
  <2>1. ASSUME NEW o \in Orders, o \in S
        PROVE  {j \in Invoices : Exists(j) /\ o \in BilledOn(j)}' = {i}
    BY <1>1, <1>2, <1>3, <2>1
  <2>2. ASSUME NEW o \in Orders, o \notin S
        PROVE  {j \in Invoices : Exists(j) /\ o \in BilledOn(j)}' =
               {j \in Invoices : Exists(j) /\ o \in BilledOn(j)}
    BY <1>1, <1>3, <2>2
  <2> HIDE DEF S
  <2>3. QED
    BY <2>1, <2>2 DEF BilledOnMap
<1> HIDE DEF S
<1>9. QED
  BY <1>4, <1>5, <1>6, <1>7, <1>8, LedgerIssues

LEMMA WriteInvoiceLedger ==
  ASSUME SerialInv, SerialInv', NEW s \in invoiceSaves, WriteInvoice(s)
  PROVE  LedgerStep
<1> USE DEF SerialInv
<1>1. PICK i : i = s.invoice
  OBVIOUS
<1>2. /\ i \in Invoices /\ s.amount \in Nat /\ Exists(i) /\ Exists(i)'
      /\ SameIdentity(invoices[i], invoices'[i])
      /\ invoices'[i].amountPaid = invoices[i].amountPaid + Round(s.amount)
      /\ \A j \in Invoices \ {i} : invoices'[j] = invoices[j]
  BY <1>1, WrittenRow
<1>3. /\ invoices[i].amountPaid \in Nat /\ invoices[i].totalAmount \in Nat
      /\ invoices'[i].amountPaid \in Nat /\ invoices'[i].amountPaid <= invoices'[i].totalAmount
  <2>1. invoices[i].amountPaid \in Nat /\ invoices[i].totalAmount \in Nat
    BY <1>2, RowFacts
  <2>2. invoices'[i].amountPaid <= invoices'[i].totalAmount
    BY <1>2 DEF PaymentInv, AmountPaidWithinTotal
  <2>3. QED
    BY <1>2, <2>1, <2>2, RoundType
<1>4. /\ invoices'[i].totalAmount = invoices[i].totalAmount
      /\ BilledOn(i)' = BilledOn(i)
      /\ \A j \in Invoices : (Exists(j)' <=> Exists(j)) /\ BilledOn(j)' = BilledOn(j)
  BY <1>2 DEF SameIdentity, BilledOn, Exists
<1>5. invoices[i].amountPaid <= invoices'[i].amountPaid
  BY <1>2, <1>3, RoundType
<1>6. BilledOnMap' = BilledOnMap
  BY <1>4 DEF BilledOnMap
<1>7. TotalMap' = TotalMap /\ TotalMap[i] = invoices[i].totalAmount /\ TotalMap[i] # None
  <2>1. \A j \in Invoices : invoices'[j].totalAmount = invoices[j].totalAmount
    BY <1>2, <1>4
  <2>2. QED
    BY <1>2, <1>3, <1>4, <2>1, NoneAssumption DEF TotalMap
<1>8. /\ PaidMap[i] = invoices[i].amountPaid /\ PaidMap'[i] = invoices'[i].amountPaid
      /\ PaidMap' = [PaidMap EXCEPT ![i] = PaidMap'[i]]
  BY <1>2, <1>4 DEF PaidMap
<1>9. PaidMap'[i] \in PaidMap[i] .. TotalMap[i]
  BY <1>3, <1>4, <1>5, <1>7, <1>8
<1>10. QED
  BY <1>2, <1>6, <1>7, <1>8, <1>9, LedgerPays

LEMMA StepLedger ==
  ASSUME Serial, MayFail = FALSE, SerialInv, [Next]_vars
  PROVE  LedgerStep
<1>1. SerialInv'
  BY StepSerial
<1>2. ASSUME UNCHANGED invoices
      PROVE  LedgerStep
  <2>1. BilledOnMap' = BilledOnMap /\ TotalMap' = TotalMap /\ PaidMap' = PaidMap
    BY <1>2 DEF BilledOnMap, TotalMap, PaidMap, Exists, BilledOn
  <2>2. QED
    BY <2>1, LedgerStutters
<1>3. QED
  BY <1>1, <1>2, SaveInvoiceLedger, WriteInvoiceLedger DEF Next, vars, CreateInvoice, CreateStep,
     RefuseInvoice, FetchOrder, ReadOrderToLink, FinishInvoice, UpdateOrderStatus, UpdateInvoicePayment,
     UpdateInvoiceStatus, SaveStep, CompareOrder, WriteOrder, CompareInvoice, FailOrderSave,
     FailInvoiceSave, Crash

\* Requests that do not overlap and do not fail behave as the atomic ledger: an
\* order is billed by one invoice, for ever, and payments only go up, to the
\* invoice's total at most.
THEOREM SerialLedger ==
  ASSUME Serial, MayFail = FALSE
  PROVE  Spec => ImplementsLedger
<1>1. Init => SerialInv /\ Ledger!Init
  <2> SUFFICES ASSUME Init
               PROVE  SerialInv /\ Ledger!Init
    OBVIOUS
  <2>1. \A i \in Invoices : ~Exists(i)
    BY DEF Init, Exists
  <2>2. Ledger!Init
    BY <2>1 DEF Ledger!Init
  <2>3. QED
    BY <2>2, InitSerial
<1>2. SerialInv /\ [Next]_vars => SerialInv' /\ [Ledger!Next]_(Ledger!vars)
  BY StepSerial, StepLedger DEF LedgerStep
<1>3. QED
  BY <1>1, <1>2, PTL DEF Spec, ImplementsLedger, Ledger!Spec
=============================================================================
