---------------------------- MODULE ReportsProofs ----------------------------
(***************************************************************************)
(* Theorems about Reports, for every number of orders, invoices, products  *)
(* and customers, for every opening and for any writes in between.         *)
(*                                                                         *)
(* The sums of the queries are reasoned about with SumTheorems, by         *)
(* induction over the set that is summed.                                  *)
(***************************************************************************)
EXTENDS Reports, SumTheorems, SequenceTheorems

----------------------------------------------------------------------------
(***************************************************************************)
(* The columns of an invoice.                                              *)
(***************************************************************************)

\* A rounded share misses the exact one by half a cent at most.
LEMMA RoundedShares ==
  ASSUME NEW s \in Nat
  PROVE  /\ \A v \in Rounded(3 * s, 20) : v \in Nat /\ 40 * v - 6 * s \in -20 .. 20
         /\ \A l \in Rounded(s, 40) : l \in Nat /\ 40 * l - s \in -20 .. 20
         /\ \A t \in Rounded(s, 5) : t \in Nat /\ 5 * t - s \in -2 .. 2
         /\ \A a \in Rounded(6 * s, 5) : a \in Nat /\ 5 * a - 6 * s \in -2 .. 2
<1>1. \A v \in Rounded(3 * s, 20) : v \in Nat /\ 40 * v - 6 * s \in -20 .. 20
  BY DEF Rounded
<1>2. \A l \in Rounded(s, 40) : l \in Nat /\ 40 * l - s \in -20 .. 20
  BY DEF Rounded
<1>3. \A t \in Rounded(s, 5) : t \in Nat /\ 5 * t - s \in -2 .. 2
  BY DEF Rounded
<1>4. \A a \in Rounded(6 * s, 5) : a \in Nat /\ 5 * a - 6 * s \in -2 .. 2
  BY DEF Rounded
<1>5. QED
  BY <1>1, <1>2, <1>3, <1>4

\* Whatever the subtotal: the total is the subtotal with the tax, to the
\* cent, and the parts miss the tax by a cent at most, because the errors of
\* the four columns come to less than two cents (createInvoice).
THEOREM TaxAddsUp ==
  ASSUME NEW s \in Nat, NEW t \in Taxed(s)
  PROVE  /\ AddsUp(t)
         /\ t.subtotal = s
         /\ {t.vatAmount, t.nhilAmount, t.getfundAmount, t.totalTax, t.totalAmount} \subseteq Nat
<1>1. PICK v \in Rounded(3 * s, 20), l \in Rounded(s, 40), x \in Rounded(s, 5),
           a \in Rounded(6 * s, 5) :
        t = [subtotal |-> s, vatAmount |-> v, nhilAmount |-> l, getfundAmount |-> l,
             totalTax |-> x, totalAmount |-> a]
  BY DEF Taxed
<1>2. /\ v \in Nat /\ 40 * v - 6 * s \in -20 .. 20
      /\ l \in Nat /\ 40 * l - s \in -20 .. 20
      /\ x \in Nat /\ 5 * x - s \in -2 .. 2
      /\ a \in Nat /\ 5 * a - 6 * s \in -2 .. 2
  BY RoundedShares
<1>3. a = s + x
  BY <1>2
<1>4. v + l + l - x \in -1 .. 1
  BY <1>2
<1>5. QED
  BY <1>1, <1>2, <1>3, <1>4 DEF AddsUp

----------------------------------------------------------------------------
(***************************************************************************)
(* Tables.                                                                 *)
(***************************************************************************)

\* The total of a basket is a sum of natural numbers.
LEMMA TotalType ==
  ASSUME NEW items \in Seq(OrderItem)
  PROVE  TotalAmount(items) \in Nat
<1> DEFINE f == [k \in DOMAIN items |-> items[k].price * items[k].quantity]
<1>1. IsFiniteSet(DOMAIN items)
  <2>1. DOMAIN items = 1 .. Len(items) /\ Len(items) \in Nat
    OBVIOUS
  <2>2. IsFiniteSet(1 .. Len(items))
    BY <2>1, FS_Interval
  <2>3. QED
    BY <2>1, <2>2
<1>2. ASSUME NEW k \in DOMAIN items
      PROVE  f[k] \in Nat
  <2>1. items[k] \in OrderItem
    OBVIOUS
  <2>2. items[k].price \in Nat /\ items[k].quantity \in Nat
    BY <2>1 DEF OrderItem
  <2>3. \A x, y \in Nat : x * y \in Nat
    OBVIOUS
  <2>4. QED
    BY <2>2, <2>3
<1> HIDE DEF f
<1>3. SumFunctionOnSet(f, DOMAIN items) \in Nat
  BY <1>1, <1>2, SumNat
<1>4. QED
  BY <1>3 DEF TotalAmount, SumOf, f

LEMMA OrderType ==
  ASSUME NEW c \in Customers, NEW items \in Baskets, NEW s \in OrderStatus, NEW t \in Int
  PROVE  Order(c, items, s, t) \in OrderRow
<1>1. items \in Seq(OrderItem) /\ TotalAmount(items) \in Nat
  BY BooksAssumption, TotalType
<1>2. QED
  BY <1>1 DEF Order, OrderRow, OrderItem

LEMMA InvoiceType ==
  ASSUME NEW c \in Customers, NEW s \in Nat, NEW t \in Taxed(s), NEW n \in Nat,
         NEW status \in InvoiceStatus, NEW due \in Int, NEW at \in Int
  PROVE  LET i == Invoice(c, t, n, status, due, at) IN i \in InvoiceRow /\ AddsUp(i)
<1>1. /\ AddsUp(t)
      /\ {t.subtotal, t.vatAmount, t.nhilAmount, t.getfundAmount, t.totalTax, t.totalAmount}
           \subseteq Nat
  BY TaxAddsUp
<1>2. QED
  BY <1>1 DEF Invoice, InvoiceRow, AddsUp

\* The total of an order is the total of its items.
Priced == \A o \in DOMAIN orders : orders[o].totalAmount = TotalAmount(orders[o].items)

\* Nobody has paid more than the invoice says.
PaidWithinTotal == \A i \in DOMAIN invoices : invoices[i].amountPaid <= invoices[i].totalAmount

\* No transaction that is still to come stamps a row with t.
Past(t) == t < Now - 3 \/ (t < Now /\ \E n \in Int : t = 2 * n)

Stamped(rows) ==
  /\ \A i \in DOMAIN rows : Past(rows[i].createdAt)
  /\ \A i, j \in DOMAIN rows : rows[i].createdAt = rows[j].createdAt => i = j

\* Every write keeps the types and the amounts of orders and invoices, and no
\* two rows are stamped alike.
TablesInv ==
  /\ TablesOK
  /\ InvoicesAddUp
  /\ Priced
  /\ PaidWithinTotal
  /\ Stamped(orders) /\ Stamped(invoices)

LEMMA OpenedTables ==
  ASSUME NEW opening \in Openings, Opened(opening)
  PROVE  TablesInv
<1>1. TablesOK
  BY OpeningsAssumption DEF Opened, TablesOK
<1>2. ASSUME NEW i \in DOMAIN invoices
      PROVE  AddsUp(invoices[i])
  <2>1. invoices[i] \in InvoiceRow
    BY <1>1 DEF TablesOK
  <2>2. TaxColumns(invoices[i]) \in Taxed(invoices[i].subtotal)
    BY OpeningsAssumption DEF Opened
  <2>3. AddsUp(TaxColumns(invoices[i]))
    BY <2>1, <2>2, TaxAddsUp DEF InvoiceRow
  <2>4. QED
    BY <2>3 DEF AddsUp, TaxColumns
<1>3. Priced /\ PaidWithinTotal
  BY OpeningsAssumption DEF Opened, Priced, PaidWithinTotal
<1>4. Stamped(orders) /\ Stamped(invoices)
  <2>1. Before(orders) /\ Before(invoices) /\ Now = 0
    BY OpeningsAssumption DEF Opened, Now
  <2>2. QED
    BY <2>1 DEF Before, Stamped, Past
<1>5. QED
  BY <1>1, <1>2, <1>3, <1>4 DEF TablesInv, InvoicesAddUp

\* Time passes, and a new row is stamped unlike those that are there.
LEMMA StampsPass ==
  ASSUME commits \in Nat, Commit
  PROVE  /\ \A t \in Int : Past(t) => Past(t)'
         /\ \A t \in Stamps : t \in Int /\ Past(t)' /\ ~Past(t)
<1>1. commits' = commits + 1
  BY DEF Commit
<1>2. ASSUME NEW t \in Int, Past(t)
      PROVE  Past(t)'
  BY <1>1, <1>2 DEF Past, Now
<1>3. ASSUME NEW t \in Stamps
      PROVE  t \in Int /\ Past(t)' /\ ~Past(t)
  <2>1. CASE t = 2 * commits
    BY <1>1, <2>1 DEF Past, Now
  <2>2. CASE t = 2 * commits - 3
    <3>1. t \in Int /\ \A n \in Int : t # 2 * n
      BY <2>2
    <3>2. QED
      BY <1>1, <2>2, <3>1 DEF Past, Now
  <2>3. QED
    BY <2>1, <2>2 DEF Stamps, Now
<1>4. QED
  BY <1>2, <1>3

\* Rows that are as they were but for columns other than their stamp.
LEMMA StampedKept ==
  ASSUME commits \in Nat, Commit, NEW old, NEW new, Stamped(old), DOMAIN new = DOMAIN old,
         \A i \in DOMAIN old : old[i].createdAt \in Int /\ new[i].createdAt = old[i].createdAt
  PROVE  /\ \A i \in DOMAIN new : Past(new[i].createdAt)'
         /\ \A i, j \in DOMAIN new : new[i].createdAt = new[j].createdAt => i = j
BY StampsPass DEF Stamped

LEMMA StampedAppended ==
  ASSUME commits \in Nat, Commit, NEW R, NEW old \in Seq(R), NEW row, Stamped(old),
         row.createdAt \in Stamps, \A i \in DOMAIN old : old[i].createdAt \in Int,
         NEW new, new = Append(old, row)
  PROVE  /\ \A i \in DOMAIN new : Past(new[i].createdAt)'
         /\ \A i, j \in DOMAIN new : new[i].createdAt = new[j].createdAt => i = j
<1> DEFINE last == Len(old) + 1
<1>1. /\ DOMAIN new = DOMAIN old \union {last} /\ last \notin DOMAIN old
      /\ new[last] = row /\ \A i \in DOMAIN old : new[i] = old[i]
  OBVIOUS
<1>2. Past(row.createdAt)' /\ \A i \in DOMAIN old : Past(old[i].createdAt)'
  BY StampsPass DEF Stamped
<1>3. \A i \in DOMAIN old : old[i].createdAt # row.createdAt
  BY StampsPass DEF Stamped
<1> HIDE DEF last
<1>4. QED
  BY <1>1, <1>2, <1>3 DEF Stamped

LEMMA WriteTables ==
  ASSUME TablesInv, Written
  PROVE  TablesInv'
<1> USE DEF TablesInv
<1>0. commits \in Nat /\ commits' \in Nat /\ Now \in Int /\ Commit
  <2>1. Commit
    BY DEF Written, SaveOrder, UpdateOrderStatus, SaveInvoice, UpdateInvoicePayment,
       UpdateInvoiceStatus, UpdateProduct, CreateCustomer, DeleteCustomer
  <2>2. commits' = commits + 1 /\ commits \in Nat
    BY <2>1 DEF Commit, TablesOK
  <2>3. QED
    BY <2>1, <2>2 DEF Now
<1>a. /\ orders \in Seq(OrderRow) /\ \A o \in DOMAIN orders : orders[o] \in OrderRow
      /\ invoices \in Seq(InvoiceRow) /\ \A i \in DOMAIN invoices : invoices[i] \in InvoiceRow
  BY DEF TablesOK
<1>b. /\ \A o \in DOMAIN orders : orders[o].createdAt \in Int
      /\ \A i \in DOMAIN invoices : invoices[i].createdAt \in Int
  BY <1>a DEF OrderRow, InvoiceRow
\* What the writes to one table leave as it was.
<1>c. ASSUME UNCHANGED orders
      PROVE  orders' \in Seq(OrderRow) /\ Priced' /\ Stamped(orders)'
  <2>1. Stamped(orders)'
    BY <1>0, <1>b, <1>c, StampedKept DEF Stamped
  <2>2. QED
    BY <1>a, <1>c, <2>1 DEF Priced
<1>d. ASSUME UNCHANGED invoices
      PROVE  invoices' \in Seq(InvoiceRow) /\ InvoicesAddUp' /\ PaidWithinTotal' /\ Stamped(invoices)'
  <2>1. Stamped(invoices)'
    BY <1>0, <1>b, <1>d, StampedKept DEF Stamped
  <2>2. QED
    BY <1>a, <1>d, <2>1 DEF InvoicesAddUp, PaidWithinTotal
<1>1. CASE SaveOrder
  <2>1. PICK c \in members, items \in Baskets, t \in Stamps :
          orders' = Append(orders, Order(c, items, "pending", t))
    BY <1>1 DEF SaveOrder
  <2> DEFINE row == Order(c, items, "pending", t)
  <2>2. row \in OrderRow /\ row.createdAt = t /\ row.totalAmount = TotalAmount(row.items)
    <3>1. c \in Customers /\ t \in Int /\ "pending" \in OrderStatus
      BY <1>0, StampsPass DEF OrderStatus, TablesOK
    <3>2. QED
      BY <3>1, OrderType DEF Order
  <2> HIDE DEF row
  <2>3. orders' = Append(orders, row)
    BY <2>1 DEF row
  <2>4. orders' \in Seq(OrderRow)
    BY <1>a, <2>2, <2>3
  <2>5. Priced'
    BY <1>a, <2>2, <2>3 DEF Priced
  <2>6. Stamped(orders)'
    <3>1. Stamped(orders) /\ row.createdAt \in Stamps
      BY <2>2
    <3>2. /\ \A i \in DOMAIN orders' : Past(orders[i].createdAt)'
          /\ \A i, j \in DOMAIN orders' : orders'[i].createdAt = orders'[j].createdAt => i = j
      BY <1>0, <1>a, <1>b, <2>3, <3>1, StampedAppended
    <3>3. QED
      BY <3>2 DEF Stamped
  <2>7. QED
    BY <1>0, <1>1, <1>d, <2>4, <2>5, <2>6 DEF SaveOrder, TablesOK
<1>2. CASE UpdateOrderStatus
  <2>1. PICK o \in DOMAIN orders, s \in OrderStatus :
          orders' = [orders EXCEPT ![o].status = s, ![o].updatedAt = Now]
    BY <1>2 DEF UpdateOrderStatus
  <2> DEFINE old == orders[o]
             row == [old EXCEPT !.status = s, !.updatedAt = Now]
  <2>2. /\ row \in OrderRow /\ row.createdAt = orders[o].createdAt
        /\ row.totalAmount = orders[o].totalAmount /\ row.items = orders[o].items
    <3>1. old \in OrderRow
      BY <1>a
    <3>2. old.createdAt = orders[o].createdAt /\ old.totalAmount = orders[o].totalAmount
          /\ old.items = orders[o].items
      OBVIOUS
    <3> HIDE DEF old
    <3>3. QED
      BY <1>0, <3>1, <3>2 DEF OrderRow
  <2>3. orders' = [orders EXCEPT ![o] = row]
    BY <2>1
  <2> HIDE DEF row
  <2>4. orders' \in Seq(OrderRow)
    BY <1>a, <2>2, <2>3
  <2>5. Priced'
    BY <2>2, <2>3 DEF Priced
  <2>6. Stamped(orders)'
    BY <1>0, <1>b, <2>2, <2>3, StampedKept DEF Stamped
  <2>7. QED
    BY <1>0, <1>2, <1>d, <2>4, <2>5, <2>6 DEF UpdateOrderStatus, TablesOK
<1>3. CASE SaveInvoice
  <2>1. PICK o \in DOMAIN orders, t \in Stamps, due \in {Now - 2, Now + 2} :
          \E taxed \in Taxed(orders[o].totalAmount) :
            invoices' = Append(invoices, Invoice(orders[o].customer, taxed, 0, "DRAFT", due, t))
    BY <1>3 DEF SaveInvoice
  <2>2. PICK taxed \in Taxed(orders[o].totalAmount) :
          invoices' = Append(invoices, Invoice(orders[o].customer, taxed, 0, "DRAFT", due, t))
    BY <2>1
  <2>3. orders[o] \in OrderRow
    BY <1>a
  <2>4. orders[o].customer \in Customers /\ orders[o].totalAmount \in Nat
    BY <2>3 DEF OrderRow
  <2> DEFINE row == Invoice(orders[o].customer, taxed, 0, "DRAFT", due, t)
  <2>5. "DRAFT" \in InvoiceStatus /\ due \in Int /\ t \in Int
    BY <1>0, StampsPass DEF InvoiceStatus
  <2>6. row \in InvoiceRow /\ AddsUp(row)
    BY <2>4, <2>5, InvoiceType
  <2>7. row.createdAt = t /\ row.amountPaid = 0
    BY DEF Invoice
  <2> HIDE DEF row
  <2>8. row.amountPaid <= row.totalAmount
    BY <2>6, <2>7 DEF InvoiceRow
  <2>9. invoices' = Append(invoices, row)
    BY <2>2 DEF row
  <2>10. invoices' \in Seq(InvoiceRow)
    BY <1>a, <2>6, <2>9
  <2>11. InvoicesAddUp' /\ PaidWithinTotal'
    BY <1>a, <2>6, <2>8, <2>9 DEF InvoicesAddUp, PaidWithinTotal
  <2>12. Stamped(invoices)'
    <3>1. Stamped(invoices) /\ row.createdAt \in Stamps
      BY <2>7
    <3>2. /\ \A i \in DOMAIN invoices' : Past(invoices[i].createdAt)'
          /\ \A i, j \in DOMAIN invoices' : invoices'[i].createdAt = invoices'[j].createdAt => i = j
      BY <1>0, <1>a, <1>b, <2>9, <3>1, StampedAppended
    <3>3. QED
      BY <3>2 DEF Stamped
  <2>13. QED
    BY <1>0, <1>3, <1>c, <2>10, <2>11, <2>12 DEF SaveInvoice, TablesOK
<1>4. ASSUME NEW i \in DOMAIN invoices, NEW n \in Nat, NEW s \in InvoiceStatus,
             n <= invoices[i].totalAmount,
             invoices' = [invoices EXCEPT ![i] =
                            [invoices[i] EXCEPT !.amountPaid = n, !.status = s]],
             UNCHANGED <<orders, stock, members>>
      PROVE  TablesInv'
  <2> DEFINE row == [invoices[i] EXCEPT !.amountPaid = n, !.status = s]
  <2>1. invoices[i] \in InvoiceRow /\ AddsUp(invoices[i])
    BY <1>a DEF InvoicesAddUp
  <2>2. row \in InvoiceRow
    BY <2>1 DEF InvoiceRow
  <2>3. AddsUp(row)
    BY <2>1 DEF InvoiceRow, AddsUp
  <2>4. row.amountPaid <= row.totalAmount /\ row.createdAt = invoices[i].createdAt
    BY <1>4, <2>1 DEF InvoiceRow
  <2> HIDE DEF row
  <2>5. invoices' = [invoices EXCEPT ![i] = row]
    BY <1>4 DEF row
  <2>6. invoices' \in Seq(InvoiceRow)
    BY <1>a, <2>2, <2>5
  <2>7. InvoicesAddUp' /\ PaidWithinTotal'
    BY <2>3, <2>4, <2>5 DEF InvoicesAddUp, PaidWithinTotal
  <2>8. Stamped(invoices)'
    BY <1>0, <1>b, <2>4, <2>5, StampedKept DEF Stamped
  <2>9. QED
    BY <1>0, <1>4, <1>c, <2>6, <2>7, <2>8 DEF TablesOK
<1>5. CASE UpdateInvoicePayment
  <2>1. PICK i \in DOMAIN invoices, amount \in Payments :
          /\ PaymentFits(invoices[i], amount)
          /\ invoices' = [invoices EXCEPT ![i].amountPaid = invoices[i].amountPaid + amount,
               ![i].status = IF invoices[i].amountPaid + amount = invoices[i].totalAmount
                             THEN "PAID" ELSE "PARTIALLY_PAID"]
    BY <1>5 DEF UpdateInvoicePayment
  <2> DEFINE n == invoices[i].amountPaid + amount
             s == IF n = invoices[i].totalAmount THEN "PAID" ELSE "PARTIALLY_PAID"
  <2>2. invoices[i] \in InvoiceRow
    BY <1>a
  <2>3. n \in Nat /\ s \in InvoiceStatus /\ n <= invoices[i].totalAmount
    <3>1. invoices[i].amountPaid \in Nat
      BY <2>2 DEF InvoiceRow
    <3>2. amount \in Nat
      BY BooksAssumption
    <3>3. QED
      BY <2>1, <3>1, <3>2 DEF InvoiceStatus, PaymentFits
  <2>4. invoices' = [invoices EXCEPT ![i] = [invoices[i] EXCEPT !.amountPaid = n, !.status = s]]
    BY <2>1
  <2>5. QED
    BY <1>4, <1>5, <2>3, <2>4 DEF UpdateInvoicePayment
<1>6. CASE UpdateInvoiceStatus
  <2>1. PICK i \in DOMAIN invoices, s \in InvoiceStatus :
          invoices' = [invoices EXCEPT ![i].status = s]
    BY <1>6 DEF UpdateInvoiceStatus
  <2>2. invoices[i] \in InvoiceRow /\ invoices[i].amountPaid <= invoices[i].totalAmount
    BY <1>a DEF PaidWithinTotal
  <2>3. invoices[i].amountPaid \in Nat
    BY <2>2 DEF InvoiceRow
  <2>4. invoices' = [invoices EXCEPT ![i] =
          [invoices[i] EXCEPT !.amountPaid = invoices[i].amountPaid, !.status = s]]
    BY <2>1, <2>2 DEF InvoiceRow
  <2>5. QED
    BY <1>4, <1>6, <2>2, <2>3, <2>4 DEF UpdateInvoiceStatus
<1>7. CASE UpdateProduct
  BY <1>0, <1>7, <1>c, <1>d, BooksAssumption DEF UpdateProduct, TablesOK
<1>8. CASE CreateCustomer
  BY <1>0, <1>8, <1>c, <1>d DEF CreateCustomer, TablesOK
<1>9. CASE DeleteCustomer
  BY <1>0, <1>9, <1>c, <1>d DEF DeleteCustomer, TablesOK
<1>10. QED
  BY <1>1, <1>2, <1>3, <1>5, <1>6, <1>7, <1>8, <1>9 DEF Written

LEMMA InitTables == Init => TablesInv
<1> SUFFICES ASSUME Init PROVE TablesInv
  OBVIOUS
<1>1. workload \in Workloads /\ Opened(workload.opening)
  BY DEF Init
<1>2. workload.opening \in Openings
  BY <1>1, ReportsAssumption
<1>3. QED
  BY <1>1, <1>2, OpenedTables

\* Only a write changes the tables; readers only read.
LEMMA ReadersReadOnly ==
  ASSUME [Next]_vars, ~CommitWrite
  PROVE  UNCHANGED <<tables, workload>>
BY DEF Next, vars, tables, StartWalk, ReadIds, ReadRows, ReadPage, ReadTotal, AskReport,
   FinishReport, Leave, AnswerQuery

LEMMA NextTables == TablesInv /\ [Next]_vars => TablesInv'
<1> SUFFICES ASSUME TablesInv, [Next]_vars PROVE TablesInv'
  OBVIOUS
<1>1. CASE CommitWrite
  BY <1>1, WriteTables DEF CommitWrite
<1>2. CASE ~CommitWrite
  BY <1>2, ReadersReadOnly DEF tables, TablesInv, TablesOK, InvoicesAddUp, Priced,
     PaidWithinTotal, Stamped, Past, Now
<1>3. QED
  BY <1>1, <1>2

\* The total of every invoice is its subtotal with the tax, and the parts of
\* the tax miss it by a cent at most, for every basket, price and payment
\* (createInvoice, updateInvoicePayment, updateInvoiceStatus).
THEOREM InvoicesAlwaysAddUp == Spec => []InvoicesAddUp
<1>1. Init => TablesInv
  BY InitTables
<1>2. TablesInv /\ [Next]_vars => TablesInv'
  BY NextTables
<1>3. TablesInv => InvoicesAddUp
  BY DEF TablesInv
<1>4. QED
  BY <1>1, <1>2, <1>3, PTL DEF Spec

----------------------------------------------------------------------------
(***************************************************************************)
(* Lists of the elements of a set.                                         *)
(***************************************************************************)

LEMMA MinOfTwo ==
  ASSUME NEW a \in Nat, NEW b \in Nat
  PROVE  Min({a, b}) = IF a <= b THEN a ELSE b
<1> DEFINE m == IF a <= b THEN a ELSE b
<1>1. m \in {a, b} /\ \A y \in {a, b} : m <= y
  BY SMT
<1>2. \A x \in {a, b} : (\A y \in {a, b} : x <= y) => x = m
  BY SMT
<1>3. QED
  BY <1>1, <1>2 DEF Min

\* The first entries of a list are entries of it.
LEMMA FirstEntries ==
  ASSUME NEW T, NEW s \in Seq(T), NEW limit \in Nat
  PROVE  First(limit, s) \in Seq(T) /\ ToSet(First(limit, s)) \subseteq ToSet(s)
<1> DEFINE n == Min({limit, Len(s)})
<1>1. n \in 0 .. Len(s)
  BY MinOfTwo
<1> HIDE DEF n
<1>2. SubSeq(s, 1, n) \in Seq(T) /\ Len(SubSeq(s, 1, n)) = n
  BY <1>1, SubSeqProperties
<1>3. \A k \in 1 .. n : SubSeq(s, 1, n)[k] = s[k]
  BY <1>1, SubSeqProperties
<1>4. ToSet(SubSeq(s, 1, n)) \subseteq ToSet(s)
  BY <1>1, <1>2, <1>3 DEF ToSet
<1>5. QED
  BY <1>2, <1>4 DEF First, n

\* A sorted list of the set S has the elements of S as its entries.
LEMMA SortedEntries ==
  ASSUME NEW S, IsFiniteSet(S), NEW s \in SetToSeqs(S)
  PROVE  s \in Seq(S) /\ ToSet(s) \subseteq S
<1>1. Cardinality(S) \in Nat
  BY FS_CardinalityType
<1>2. s \in [1 .. Cardinality(S) -> S]
  BY DEF SetToSeqs
<1>3. QED
  BY <1>1, <1>2 DEF ToSet

\* A list of the set S has each of its elements once, and the first of them
\* are all if they are fewer than asked for.
LEMMA FirstOfSet ==
  ASSUME NEW S, IsFiniteSet(S), NEW s \in SetToSeqs(S), NEW limit \in Nat,
         NEW t, t = First(limit, s)
  PROVE  /\ t \in Seq(S) /\ DOMAIN t = 1 .. Len(t)
         /\ Len(t) = Min({limit, Cardinality(S)})
         /\ t \in Injection(DOMAIN t, S)
         /\ Len(t) < limit => t \in Bijection(DOMAIN t, S)
<1> DEFINE n == Cardinality(S)
           m == Min({limit, n})
<1>1. n \in Nat
  BY FS_CardinalityType
<1>2. s \in Seq(S) /\ Len(s) = n /\ \A i, j \in 1 .. n : i # j => s[i] # s[j]
  BY <1>1 DEF SetToSeqs
<1>3. m = (IF limit <= n THEN limit ELSE n) /\ m \in 0 .. n
  BY <1>1, MinOfTwo
<1> HIDE DEF n, m
<1>4. t = SubSeq(s, 1, m)
  BY <1>2 DEF First, m, n
<1>5. t \in Seq(S) /\ Len(t) = m /\ \A k \in 1 .. m : t[k] = s[k]
  BY <1>1, <1>2, <1>3, <1>4, SubSeqProperties
<1>6. DOMAIN t = 1 .. m /\ t \in [1 .. m -> S]
  BY <1>5
<1>7. \A i, j \in 1 .. m : t[i] = t[j] => i = j
  BY <1>1, <1>2, <1>3, <1>5
<1>8. t \in Injection(1 .. m, S)
  BY <1>6, <1>7 DEF Injection, IsInjective
<1>9. ASSUME m < limit
      PROVE  t \in Surjection(1 .. m, S)
  <2>1. m = n
    BY <1>1, <1>3, <1>9
  <2>2. Cardinality(1 .. m) = n
    BY <1>1, <2>1, FS_Interval
  <2>3. QED
    BY <1>8, <2>2, FS_Injection DEF n
<1>10. QED
  BY <1>5, <1>6, <1>8, <1>9 DEF Bijection, m, n

\* The values of a function on a finite set are finitely many.
LEMMA FiniteValues ==
  ASSUME NEW S, IsFiniteSet(S), NEW f, DOMAIN f = S
  PROVE  IsFiniteSet({f[x] : x \in S})
<1> DEFINE T == {f[x] : x \in S}
           g == [x \in S |-> f[x]]
<1>1. g \in Surjection(S, T)
  BY DEF Surjection
<1>2. QED
  BY <1>1, FS_Surjection

\* Entries of a list.
IsList(a) == a \in Seq(ToSet(a))

LEMMA ListOf ==
  ASSUME NEW T, NEW a \in Seq(T)
  PROVE  IsList(a) /\ IsFiniteSet(ToSet(a)) /\ ToSet(a) \subseteq T
<1>1. DOMAIN a = 1 .. Len(a) /\ Len(a) \in Nat /\ \A k \in DOMAIN a : a[k] \in T
  OBVIOUS
<1>2. IsFiniteSet(1 .. Len(a))
  BY <1>1, FS_Interval
<1>3. IsFiniteSet(ToSet(a))
  BY <1>1, <1>2, FiniteValues DEF ToSet
<1>4. a \in Seq(ToSet(a))
  BY <1>1 DEF ToSet
<1>5. QED
  BY <1>1, <1>3, <1>4 DEF IsList, ToSet

LEMMA OrdersFinite ==
  ASSUME TablesOK, NEW S
  PROVE  IsFiniteSet(OrdersWith(S)) /\ OrdersWith(S) \subseteq DOMAIN orders
<1>1. DOMAIN orders = 1 .. Len(orders) /\ Len(orders) \in Nat
  BY DEF TablesOK
<1>2. OrdersWith(S) \subseteq DOMAIN orders
  BY DEF OrdersWith
<1>3. IsFiniteSet(DOMAIN orders)
  <2>1. IsFiniteSet(1 .. Len(orders))
    BY <1>1, FS_Interval
  <2>2. QED
    BY <1>1, <2>1
<1>4. QED
  BY <1>2, <1>3, FS_Subset

LEMMA InvoicesFinite ==
  ASSUME TablesOK, NEW S
  PROVE  IsFiniteSet(InvoicesWith(S)) /\ InvoicesWith(S) \subseteq DOMAIN invoices
<1>1. DOMAIN invoices = 1 .. Len(invoices) /\ Len(invoices) \in Nat
  BY DEF TablesOK
<1>2. InvoicesWith(S) \subseteq DOMAIN invoices
  BY DEF InvoicesWith
<1>3. IsFiniteSet(DOMAIN invoices)
  <2>1. IsFiniteSet(1 .. Len(invoices))
    BY <1>1, FS_Interval
  <2>2. QED
    BY <1>1, <2>1
<1>4. QED
  BY <1>2, <1>3, FS_Subset

----------------------------------------------------------------------------
(***************************************************************************)
(* Sums over the tables.                                                   *)
(***************************************************************************)

LEMMA DueType ==
  ASSUME TablesInv, NEW i \in DOMAIN invoices
  PROVE  /\ invoices[i] \in InvoiceRow
         /\ Due(i) \in Nat /\ Due(i) <= invoices[i].totalAmount
<1>1. invoices[i] \in InvoiceRow /\ invoices[i].amountPaid <= invoices[i].totalAmount
  BY DEF TablesInv, TablesOK, PaidWithinTotal
<1>2. invoices[i].amountPaid \in Nat /\ invoices[i].totalAmount \in Nat
  BY <1>1 DEF InvoiceRow
<1>3. QED
  BY <1>1, <1>2 DEF Due

\* The columns of the invoices that are summed add up, so the sums do.
LEMMA FinancialAnswer ==
  ASSUME TablesInv, NEW f, f = getFinancialSummary
  PROVE  /\ \A k \in DOMAIN f : f[k] \in Nat
         /\ f.totalRevenue = f.netRevenue + f.totalTax
         /\ Near(f.vatAmount + f.nhilAmount + f.getfundAmount, f.totalTax, f.count)
<1> DEFINE S == InvoicesWith(InvoiceStatus \ {"CANCELLED"})
           total == [i \in S |-> invoices[i].totalAmount]
           tax == [i \in S |-> invoices[i].totalTax]
           vat == [i \in S |-> invoices[i].vatAmount]
           nhil == [i \in S |-> invoices[i].nhilAmount]
           getfund == [i \in S |-> invoices[i].getfundAmount]
           net == [i \in S |-> invoices[i].subtotal]
           ones == [i \in S |-> 1]
           levies == [i \in S |-> vat[i] + nhil[i]]
           parts == [i \in S |-> levies[i] + getfund[i]]
           upper == [i \in S |-> tax[i] + ones[i]]
           lower == [i \in S |-> parts[i] + ones[i]]
           Sum(g) == SumFunctionOnSet(g, S)
<1>1. IsFiniteSet(S)
  BY InvoicesFinite DEF TablesInv
<1>2. ASSUME NEW i \in S
      PROVE  /\ total[i] \in Nat /\ tax[i] \in Nat /\ vat[i] \in Nat /\ nhil[i] \in Nat
             /\ getfund[i] \in Nat /\ net[i] \in Nat /\ ones[i] = 1
             /\ levies[i] = vat[i] + nhil[i] /\ parts[i] = levies[i] + getfund[i]
             /\ upper[i] = tax[i] + ones[i] /\ lower[i] = parts[i] + ones[i]
             /\ total[i] = net[i] + tax[i]
             /\ parts[i] <= upper[i] /\ tax[i] <= lower[i]
  <2>1. i \in DOMAIN invoices
    BY DEF InvoicesWith
  <2>2. invoices[i] \in InvoiceRow /\ AddsUp(invoices[i])
    BY <2>1 DEF TablesInv, TablesOK, InvoicesAddUp
  <2>3. QED
    BY <2>2 DEF InvoiceRow, AddsUp
<1>3. f = [count |-> Cardinality(S), totalRevenue |-> Sum(total), totalTax |-> Sum(tax),
           vatAmount |-> Sum(vat), nhilAmount |-> Sum(nhil), getfundAmount |-> Sum(getfund),
           netRevenue |-> Sum(net)]
  BY DEF getFinancialSummary, SumOf
<1> HIDE DEF S, total, tax, vat, nhil, getfund, net, ones, levies, parts, upper, lower
<1>4. /\ Sum(total) \in Nat /\ Sum(tax) \in Nat /\ Sum(vat) \in Nat /\ Sum(nhil) \in Nat
      /\ Sum(getfund) \in Nat /\ Sum(net) \in Nat /\ Cardinality(S) \in Nat
  BY <1>1, <1>2, SumNat, FS_CardinalityType
<1>5. Sum(total) = Sum(net) + Sum(tax)
  BY <1>1, <1>2, SumLinear
<1>6. Sum(parts) = Sum(vat) + Sum(nhil) + Sum(getfund)
  <2>1. Sum(levies) = Sum(vat) + Sum(nhil)
    BY <1>1, <1>2, SumLinear
  <2>2. \A i \in S : levies[i] \in Int
    BY <1>2
  <2>3. Sum(parts) = Sum(levies) + Sum(getfund)
    BY <1>1, <1>2, <2>2, SumLinear
  <2>4. QED
    BY <2>1, <2>3
<1>7. Sum(ones) = Cardinality(S)
  BY <1>1, <1>2, SumOfOnes
<1>8. \A i \in S : parts[i] \in Int /\ upper[i] \in Int /\ lower[i] \in Int
  BY <1>2
<1>9. Sum(upper) = Sum(tax) + Cardinality(S)
  <2>1. Sum(upper) = Sum(tax) + Sum(ones)
    BY <1>1, <1>2, SumLinear
  <2>2. QED
    BY <1>7, <2>1
<1>10. Sum(lower) = Sum(parts) + Cardinality(S)
  <2>1. Sum(lower) = Sum(parts) + Sum(ones)
    BY <1>1, <1>2, <1>8, SumLinear
  <2>2. QED
    BY <1>7, <2>1
<1>11. Sum(parts) <= Sum(upper) /\ Sum(tax) <= Sum(lower)
  BY <1>1, <1>2, <1>8, SumMonotone
<1> HIDE DEF Sum
<1>12. QED
  BY <1>3, <1>4, <1>5, <1>6, <1>9, <1>10, <1>11 DEF Near

\* What is unpaid is part of the revenue.
LEMMA UnpaidAnswer ==
  ASSUME TablesInv
  PROVE  /\ getUnpaidInvoices \in [amount : Nat, count : Nat]
         /\ getUnpaidInvoices.amount <= getFinancialSummary.totalRevenue
<1> DEFINE S == InvoicesWith(Unpaid)
           R == InvoicesWith(InvoiceStatus \ {"CANCELLED"})
           due == [i \in S |-> Due(i)]
           total == [i \in R |-> invoices[i].totalAmount]
           part == [i \in S |-> invoices[i].totalAmount]
<1>1. IsFiniteSet(S) /\ IsFiniteSet(R) /\ Cardinality(S) \in Nat
  BY InvoicesFinite, FS_CardinalityType DEF TablesInv
<1>2. S \in SUBSET R
  BY DEF InvoicesWith, Unpaid, InvoiceStatus
<1>3. \A i \in S : due[i] \in Nat /\ part[i] \in Nat /\ due[i] <= part[i] /\ part[i] = total[i]
  BY <1>2, DueType DEF InvoiceRow, InvoicesWith
<1>4. \A i \in R : total[i] \in Nat
  BY DueType DEF InvoiceRow, InvoicesWith
<1>5. /\ getUnpaidInvoices = [amount |-> SumFunctionOnSet(due, S), count |-> Cardinality(S)]
      /\ getFinancialSummary.totalRevenue = SumFunctionOnSet(total, R)
  BY DEF getUnpaidInvoices, getFinancialSummary, SumOf
<1> HIDE DEF S, R, due, total, part
<1>6. SumFunctionOnSet(due, S) \in Nat /\ SumFunctionOnSet(total, S) \in Nat
  BY <1>1, <1>2, <1>3, <1>4, SumNat
<1>7. SumFunctionOnSet(due, S) <= SumFunctionOnSet(part, S)
  BY <1>1, <1>3, SumMonotone
<1>8. SumFunctionOnSet(part, S) = SumFunctionOnSet(total, S)
  BY <1>1, <1>3, SumSame
<1>9. SumFunctionOnSet(total, S) <= SumFunctionOnSet(total, R)
  BY <1>1, <1>2, <1>4, SumSubset
<1>10. SumFunctionOnSet(total, R) \in Nat
  BY <1>1, <1>4, SumNat
<1>11. QED
  BY <1>1, <1>5, <1>6, <1>7, <1>8, <1>9, <1>10

LEMMA CancelledInvoicesAnswer ==
  ASSUME TablesInv
  PROVE  /\ getCancelledInvoicesAnalytics \in [total : Nat, totalRevenueLost : Nat]
         /\ getUnpaidInvoices.count + getCancelledInvoicesAnalytics.total <= Len(invoices)
<1> DEFINE S == InvoicesWith({"CANCELLED"})
           U == InvoicesWith(Unpaid)
           total == [i \in S |-> invoices[i].totalAmount]
<1>1. /\ IsFiniteSet(S) /\ IsFiniteSet(U) /\ Cardinality(S) \in Nat /\ Cardinality(U) \in Nat
      /\ S \union U \subseteq DOMAIN invoices
  BY InvoicesFinite, FS_CardinalityType DEF TablesInv
<1>2. \A i \in S : total[i] \in Nat
  BY <1>1, DueType DEF InvoiceRow
<1>3. /\ getCancelledInvoicesAnalytics =
           [total |-> Cardinality(S), totalRevenueLost |-> SumFunctionOnSet(total, S)]
      /\ getUnpaidInvoices.count = Cardinality(U)
  BY DEF getCancelledInvoicesAnalytics, getUnpaidInvoices, SumOf
<1>4. S \intersect U = {}
  BY DEF InvoicesWith, Unpaid
<1> HIDE DEF S, U, total
<1>5. SumFunctionOnSet(total, S) \in Nat
  BY <1>1, <1>2, SumNat
<1>6. Cardinality(U) + Cardinality(S) <= Len(invoices)
  <2>1. Len(invoices) \in Nat /\ DOMAIN invoices = 1 .. Len(invoices)
    BY DEF TablesInv, TablesOK
  <2>2. IsFiniteSet(1 .. Len(invoices)) /\ Cardinality(1 .. Len(invoices)) = Len(invoices)
    BY <2>1, CountUpTo
  <2>3. Cardinality(S \union U) = Cardinality(S) + Cardinality(U)
    BY <1>1, <1>4, CountApart
  <2>4. S \union U \in SUBSET (1 .. Len(invoices))
    BY <1>1, <2>1
  <2>5. Cardinality(S \union U) <= Len(invoices)
    BY <2>2, <2>4, FS_Subset
  <2>6. QED
    BY <1>1, <2>3, <2>5
<1>7. QED
  BY <1>1, <1>3, <1>5, <1>6

\* The overdue invoices that are listed are unpaid ones.
LEMMA OverdueAnswer ==
  ASSUME TablesInv, NEW a \in getOverdueInvoices
  PROVE  /\ IsList(a)
         /\ \A k \in DOMAIN a : a[k].amount \in Nat
         /\ SumOf(LAMBDA k : a[k].amount, DOMAIN a) <= getUnpaidInvoices.amount
<1> DEFINE late == {i \in InvoicesWith(InvoiceStatus \ {"PAID", "CANCELLED"}) :
                      invoices[i].dueDate < Now}
           S == InvoicesWith(Unpaid)
           row(i) == [id |-> i, amount |-> Due(i), dueDate |-> invoices[i].dueDate]
           due == [i \in S |-> Due(i)]
           amount == [k \in DOMAIN a |-> a[k].amount]
<1>1. PICK t \in SetToSeqs(late) :
        \E s \in {First(ListLimit, t)} : a = [k \in DOMAIN s |-> row(s[k])]
  <2>1. PICK s \in {First(ListLimit, t) :
                     t \in Sorted(late, LAMBDA i : invoices[i].dueDate, Oldest)} :
          a = [k \in DOMAIN s |-> row(s[k])]
    BY DEF getOverdueInvoices
  <2>2. PICK t \in Sorted(late, LAMBDA i : invoices[i].dueDate, Oldest) :
          s = First(ListLimit, t)
    BY <2>1
  <2>3. t \in SetToSeqs(late)
    BY <2>2 DEF Sorted
  <2>4. QED
    BY <2>1, <2>2, <2>3
<1> DEFINE s == First(ListLimit, t)
<1>2. late \subseteq S /\ IsFiniteSet(S) /\ IsFiniteSet(late)
  <2>1. IsFiniteSet(S)
    BY InvoicesFinite DEF TablesInv
  <2>2. late \subseteq S
    BY DEF InvoicesWith, Unpaid, InvoiceStatus
  <2>3. QED
    BY <2>1, <2>2, FS_Subset
<1>3. \A i \in S : due[i] = Due(i) /\ Due(i) \in Nat
  BY DueType DEF InvoicesWith
<1>4. \A i : row(i).amount = Due(i)
  OBVIOUS
<1>5. getUnpaidInvoices.amount = SumFunctionOnSet(due, S)
  BY DEF getUnpaidInvoices, SumOf
<1>6. SumOf(LAMBDA k : a[k].amount, DOMAIN a) = SumFunctionOnSet(amount, DOMAIN a)
  BY DEF SumOf
<1>7. a = [k \in DOMAIN s |-> row(s[k])]
  BY <1>1
<1> HIDE DEF late, S, row, due, s
<1>8. s \in Seq(late) /\ DOMAIN s = 1 .. Len(s) /\ s \in Injection(DOMAIN s, late)
  BY <1>2, FirstOfSet, ReportsAssumption DEF s
<1>9. s \in Injection(DOMAIN s, S)
  BY <1>2, <1>8 DEF Injection
<1>10. DOMAIN a = DOMAIN s /\ \A k \in DOMAIN a : a[k].amount = due[s[k]] /\ a[k].amount \in Nat
  BY <1>2, <1>3, <1>4, <1>7, <1>8
<1>11. \A k \in DOMAIN s : amount[k] = due[s[k]]
  BY <1>10
<1> HIDE DEF amount
<1>12. SumFunctionOnSet(amount, DOMAIN s) <= SumFunctionOnSet(due, S)
  BY <1>2, <1>3, <1>9, <1>11, SumInjected
<1>13. IsList(a)
  <2>1. Len(s) \in Nat
    BY <1>8
  <2>2. a \in Seq({row(s[k]) : k \in DOMAIN s})
    BY <1>7, <1>8, <2>1
  <2>3. QED
    BY <2>2, ListOf
<1>14. QED
  BY <1>5, <1>6, <1>10, <1>12, <1>13

----------------------------------------------------------------------------
(***************************************************************************)
(* Numbers of orders, and rows grouped by product or by customer.          *)
(***************************************************************************)

LEMMA OrderRows ==
  ASSUME TablesInv, NEW o \in DOMAIN orders
  PROVE  /\ orders[o] \in OrderRow
         /\ orders[o].totalAmount \in Nat
         /\ orders[o].items \in Seq(OrderItem)
         /\ orders[o].totalAmount = TotalAmount(orders[o].items)
         /\ orders[o].status \in OrderStatus
         /\ orders[o].customer \in Customers
<1>1. orders[o] \in OrderRow /\ orders[o].totalAmount = TotalAmount(orders[o].items)
  BY DEF TablesInv, TablesOK, Priced
<1>2. QED
  BY <1>1 DEF OrderRow

LEMMA OrderIds ==
  ASSUME TablesInv
  PROVE  /\ Len(orders) \in Nat /\ DOMAIN orders = 1 .. Len(orders)
         /\ IsFiniteSet(DOMAIN orders) /\ Cardinality(DOMAIN orders) = Len(orders)
<1>1. Len(orders) \in Nat /\ DOMAIN orders = 1 .. Len(orders)
  BY DEF TablesInv, TablesOK
<1>2. IsFiniteSet(1 .. Len(orders)) /\ Cardinality(1 .. Len(orders)) = Len(orders)
  BY <1>1, CountUpTo
<1>3. QED
  BY <1>1, <1>2

\* Every order has one of the three states.
LEMMA OrdersCounted ==
  ASSUME TablesInv
  PROVE  /\ \A s : Counted(s) \in Nat
         /\ Cardinality(Sold) = Counted("pending") + Counted("completed")
         /\ Len(orders) = Counted("pending") + Counted("completed") + Counted("cancelled")
<1> DEFINE P == OrdersWith({"pending"})
           C == OrdersWith({"completed"})
           X == OrdersWith({"cancelled"})
<1>1. \A S : IsFiniteSet(OrdersWith(S)) /\ Cardinality(OrdersWith(S)) \in Nat
  BY OrdersFinite, FS_CardinalityType DEF TablesInv
<1>2. P \intersect C = {} /\ Sold \intersect X = {} /\ P \union C = Sold
  BY DEF OrdersWith, Sold, OrderStatus
<1>3. Sold \union X = DOMAIN orders
  BY OrderRows DEF OrdersWith, Sold
<1>4. /\ Counted("pending") = Cardinality(P) /\ Counted("completed") = Cardinality(C)
      /\ Counted("cancelled") = Cardinality(X)
  BY DEF Counted
<1>5. IsFiniteSet(P) /\ IsFiniteSet(C) /\ IsFiniteSet(X) /\ IsFiniteSet(Sold)
  BY <1>1 DEF Sold
<1> HIDE DEF P, C, X
<1>6. Cardinality(Sold) = Cardinality(P) + Cardinality(C)
  BY <1>2, <1>5, CountApart
<1>7. Cardinality(DOMAIN orders) = Cardinality(Sold) + Cardinality(X)
  BY <1>2, <1>3, <1>5, CountApart
<1>8. QED
  BY <1>1, <1>4, <1>6, <1>7, OrderIds DEF Counted

\* The first rows of a table that is grouped by the elements of X: each row
\* has an element of its own, and together they have all unless the list is
\* full.
LEMMA FirstRows ==
  ASSUME NEW X, IsFiniteSet(X), NEW row, DOMAIN row = X,
         \A x, y \in X : row[x] = row[y] => x = y,
         NEW rows, rows = {row[x] : x \in X},
         NEW s \in SetToSeqs(rows), NEW limit \in Nat, NEW t, t = First(limit, s)
  PROVE  /\ t \in Seq(rows) /\ DOMAIN t = 1 .. Len(t) /\ IsList(t)
         /\ \E b \in Injection(DOMAIN t, X) :
              /\ \A k \in DOMAIN t : t[k] = row[b[k]]
              /\ Len(t) < limit => b \in Bijection(DOMAIN t, X)
<1>1. IsFiniteSet(rows)
  BY FiniteValues
<1>2. /\ t \in Seq(rows) /\ DOMAIN t = 1 .. Len(t) /\ t \in Injection(DOMAIN t, rows)
      /\ Len(t) < limit => t \in Bijection(DOMAIN t, rows)
  BY <1>1, FirstOfSet
<1> DEFINE b == [k \in DOMAIN t |-> CHOOSE x \in X : row[x] = t[k]]
<1>3. \A k \in DOMAIN t : b[k] \in X /\ t[k] = row[b[k]]
  BY <1>2
<1>4. \A j, k \in DOMAIN t : t[j] = t[k] => j = k
  BY <1>2 DEF Injection, IsInjective
<1>5. b \in [DOMAIN t -> X]
  BY <1>3
<1>6. ASSUME t \in Bijection(DOMAIN t, rows), NEW x \in X
      PROVE  \E k \in DOMAIN t : b[k] = x
  <2>1. PICK k \in DOMAIN t : t[k] = row[x]
    BY <1>6 DEF Bijection, Surjection
  <2>2. b[k] \in X /\ row[b[k]] = row[x]
    BY <1>3, <2>1
  <2>3. QED
    BY <2>2
<1> HIDE DEF b
<1>7. b \in Injection(DOMAIN t, X)
  BY <1>3, <1>4, <1>5 DEF Injection, IsInjective
<1>8. Len(t) < limit => b \in Bijection(DOMAIN t, X)
  BY <1>2, <1>5, <1>6, <1>7 DEF Bijection, Surjection
<1>9. IsList(t)
  BY <1>2, ListOf
<1>10. QED
  BY <1>2, <1>3, <1>7, <1>8, <1>9

\* All items of the orders S, and what one of them comes to.
ItemsOf(S) == UNION {{<<o, k>> : k \in DOMAIN orders[o].items} : o \in S}

Amount(n) == orders[n[1]].items[n[2]].price * orders[n[1]].items[n[2]].quantity

Resource(n) == orders[n[1]].items[n[2]].resource

LEMMA ItemRows ==
  ASSUME TablesInv, NEW S \in SUBSET DOMAIN orders
  PROVE  /\ IsFiniteSet(S) /\ IsFiniteSet(ItemsOf(S))
         /\ \A n \in ItemsOf(S) :
              /\ n[1] \in S /\ n[2] \in DOMAIN orders[n[1]].items /\ n = <<n[1], n[2]>>
              /\ Amount(n) \in Nat
              /\ Resource(n) \in Products \union Services
         /\ \A x : ItemsFor(x, S) = {n \in ItemsOf(S) : Resource(n) = x}
<1> DEFINE items(o) == {<<o, k>> : k \in DOMAIN orders[o].items}
<1>1. IsFiniteSet(S)
  BY OrderIds, FS_Subset
<1>2. ASSUME NEW o \in S
      PROVE  IsFiniteSet(items(o))
  <2> DEFINE f == [k \in DOMAIN orders[o].items |-> <<o, k>>]
  <2>1. orders[o].items \in Seq(OrderItem)
    BY OrderRows
  <2>2. DOMAIN orders[o].items = 1 .. Len(orders[o].items) /\ Len(orders[o].items) \in Nat
    BY <2>1
  <2>3. IsFiniteSet(DOMAIN orders[o].items)
    <3>1. IsFiniteSet(1 .. Len(orders[o].items))
      BY <2>2, CountUpTo
    <3>2. QED
      BY <2>2, <3>1
  <2>4. items(o) = {f[k] : k \in DOMAIN orders[o].items}
    OBVIOUS
  <2>5. DOMAIN f = DOMAIN orders[o].items
    OBVIOUS
  <2> HIDE DEF f, items
  <2>6. QED
    BY <2>3, <2>4, <2>5, FiniteValues
<1>3. IsFiniteSet(ItemsOf(S))
  <2> DEFINE f == [o \in S |-> items(o)]
             T == {f[o] : o \in S}
  <2>1. \A U \in T : IsFiniteSet(U)
    BY <1>2
  <2>2. IsFiniteSet(T)
    <3>1. DOMAIN f = S
      OBVIOUS
    <3> HIDE DEF f
    <3>2. QED
      BY <1>1, <3>1, FiniteValues
  <2>3. ItemsOf(S) = UNION T
    BY DEF ItemsOf
  <2> HIDE DEF T
  <2>4. QED
    BY <2>1, <2>2, <2>3, FS_UNION
<1>4. \A n \in ItemsOf(S) :
        n[1] \in S /\ n[2] \in DOMAIN orders[n[1]].items /\ n = <<n[1], n[2]>>
  BY DEF ItemsOf
<1>5. ASSUME NEW n \in ItemsOf(S)
      PROVE  Amount(n) \in Nat /\ Resource(n) \in Products \union Services
  <2> DEFINE i == orders[n[1]].items[n[2]]
  <2>1. i \in OrderItem
    BY <1>4, OrderRows
  <2>2. i.price \in Nat /\ i.quantity \in Nat /\ i.resource \in Products \union Services
    BY <2>1 DEF OrderItem
  <2>3. \A x, y \in Nat : x * y \in Nat
    OBVIOUS
  <2>4. QED
    BY <2>2, <2>3 DEF Amount, Resource
<1>6. \A x : ItemsFor(x, S) = {n \in ItemsOf(S) : Resource(n) = x}
  BY DEF ItemsFor, ItemsOf, Resource
<1>7. QED
  BY <1>1, <1>3, <1>4, <1>5, <1>6

\* The items of the orders come to what the orders come to.
LEMMA ItemsComeToRevenue ==
  ASSUME TablesInv, NEW S \in SUBSET DOMAIN orders,
         NEW f, f = [n \in ItemsOf(S) |-> Amount(n)]
  PROVE  SumFunctionOnSet(f, ItemsOf(S)) = Revenue(S)
<1> DEFINE I == ItemsOf(S)
           total == [o \in S |-> orders[o].totalAmount]
           order == [n \in I |-> n[1]]
           part == [o \in S |-> {n \in I : order[n] = o}]
<1>1. /\ IsFiniteSet(S) /\ IsFiniteSet(I)
      /\ \A n \in I : n[1] \in S /\ f[n] \in Int
  BY ItemRows
<1>2. ASSUME NEW o \in S
      PROVE  total[o] = SumFunctionOnSet(f, part[o])
  <2> DEFINE K == DOMAIN orders[o].items
             g == [k \in K |-> orders[o].items[k].price * orders[o].items[k].quantity]
             b == [k \in K |-> <<o, k>>]
             T == part[o]
  <2>1. orders[o].items \in Seq(OrderItem) /\ total[o] = TotalAmount(orders[o].items)
    BY OrderRows
  <2>2. IsFiniteSet(K)
    <3>1. K = 1 .. Len(orders[o].items) /\ Len(orders[o].items) \in Nat
      BY <2>1
    <3>2. IsFiniteSet(1 .. Len(orders[o].items))
      BY <3>1, CountUpTo
    <3>3. QED
      BY <3>1, <3>2
  <2>3. T = {<<o, k>> : k \in K}
    BY ItemRows DEF ItemsOf
  <2>4. b \in Bijection(K, T)
    BY <2>3 DEF Bijection, Injection, Surjection, IsInjective
  <2>5. \A k \in K : g[k] = f[b[k]] /\ g[k] \in Int
    <3>1. \A k \in K : b[k] = <<o, k>> /\ b[k] \in I
      BY DEF ItemsOf
    <3>2. \A k \in K : g[k] = Amount(<<o, k>>)
      BY DEF Amount
    <3>3. ASSUME NEW k \in K
          PROVE  Amount(<<o, k>>) \in Int /\ f[b[k]] = Amount(<<o, k>>)
      <4>1. b[k] = <<o, k>> /\ <<o, k>> \in ItemsOf(S)
        BY <3>1
      <4>2. Amount(<<o, k>>) \in Nat
        BY <4>1, ItemRows
      <4>3. f[<<o, k>>] = Amount(<<o, k>>)
        BY <4>1
      <4>4. QED
        BY <4>1, <4>2, <4>3
    <3>4. QED
      BY <3>2, <3>3
  <2>6. TotalAmount(orders[o].items) = SumFunctionOnSet(g, K)
    BY DEF TotalAmount, SumOf
  <2> HIDE DEF b, g, K, T
  <2>7. SumFunctionOnSet(g, K) = SumFunctionOnSet(f, T)
    BY <2>2, <2>4, <2>5, SumReindexed
  <2>8. QED
    BY <2>1, <2>6, <2>7 DEF T
<1>3. /\ \A n \in I : order[n] \in S
      /\ \A o \in S : part[o] \in SUBSET I /\ \A n \in I : n \in part[o] <=> order[n] = o
  BY <1>1
<1>4. Revenue(S) = SumFunctionOnSet(total, S)
  BY DEF Revenue, SumOf
<1> HIDE DEF I, total, order, part
<1>5. SumFunctionOnSet(f, I) = SumFunctionOnSet(total, S)
  BY <1>1, <1>2, <1>3, SumByKey
<1>6. QED
  BY <1>4, <1>5 DEF I

\* So do the amounts of the products and services in them.
LEMMA ResourcesComeToRevenue ==
  ASSUME TablesInv, NEW S \in SUBSET DOMAIN orders,
         NEW X, \A x : x \in X <=> x \in Products \union Services /\ ItemsFor(x, S) # {},
         NEW g, \A x \in X : g[x] = RevenueOf(x, S)
  PROVE  /\ IsFiniteSet(X)
         /\ \A x \in X : g[x] \in Nat
         /\ SumFunctionOnSet(g, X) = Revenue(S)
<1> DEFINE I == ItemsOf(S)
           f == [n \in I |-> Amount(n)]
           key == [n \in I |-> Resource(n)]
           part == [x \in X |-> {n \in I : key[n] = x}]
<1>1. /\ IsFiniteSet(I)
      /\ \A n \in I : f[n] \in Nat /\ key[n] \in Products \union Services
      /\ \A x : ItemsFor(x, S) = {n \in I : key[n] = x}
  BY ItemRows
<1>2. X = {key[n] : n \in I}
  BY <1>1
<1>3. IsFiniteSet(X)
  <2>1. DOMAIN key = I
    OBVIOUS
  <2> HIDE DEF key, I
  <2>2. QED
    BY <1>1, <1>2, <2>1, FiniteValues
<1>4. ASSUME NEW x \in X
      PROVE  g[x] = SumFunctionOnSet(f, part[x]) /\ g[x] \in Nat
  <2> DEFINE P == part[x]
             h == [n \in P |-> orders[n[1]].items[n[2]].price * orders[n[1]].items[n[2]].quantity]
  <2>1. g[x] = SumFunctionOnSet(h, P)
    BY <1>1 DEF RevenueOf, SumOf
  <2>2. IsFiniteSet(P) /\ \A n \in P : h[n] = f[n] /\ f[n] \in Nat
    BY <1>1, FS_Subset DEF Amount
  <2> HIDE DEF P, h, f
  <2>3. SumFunctionOnSet(h, P) = SumFunctionOnSet(f, P)
    BY <2>2, SumSame
  <2>4. SumFunctionOnSet(f, P) \in Nat
    BY <2>2, SumNat
  <2>5. QED
    BY <2>1, <2>3, <2>4 DEF P
<1>5. /\ \A n \in I : key[n] \in X /\ f[n] \in Int
      /\ \A x \in X : part[x] \in SUBSET I /\ \A n \in I : n \in part[x] <=> key[n] = x
  BY <1>1, <1>2
<1>6. SumFunctionOnSet(f, I) = Revenue(S)
  BY ItemsComeToRevenue
<1> HIDE DEF f, key, I, part
<1>7. SumFunctionOnSet(f, I) = SumFunctionOnSet(g, X)
  <2>1. IsFiniteSet(I) /\ \A x \in X : g[x] = SumFunctionOnSet(f, part[x])
    BY <1>1, <1>4
  <2>2. QED
    BY <1>3, <1>5, <2>1, SumByKey
<1>8. QED
  BY <1>3, <1>4, <1>6, <1>7

\* No product is in more orders than are not cancelled.
LEMMA TopProductsAnswer ==
  ASSUME TablesInv, NEW a \in getTopSellingProducts
  PROVE  IsList(a) /\ \A p \in ToSet(a) : p.orders <= Cardinality(Sold)
<1> DEFINE X == {x \in Products : Ordering(x, Sold) # {}}
           entry(p) == [id |-> p, revenue |-> RevenueOf(p, Sold), orders |-> Cardinality(Ordering(p, Sold))]
           row == [p \in X |-> entry(p)]
           rows == {row[p] : p \in X}
<1>1. PICK s \in SetToSeqs(rows) : a = First(ListLimit, s)
  <2>1. {entry(p) : p \in X} = rows
    OBVIOUS
  <2>2. PICK s \in SetToSeqs({entry(p) : p \in X}) : a = First(ListLimit, s)
    BY DEF getTopSellingProducts, Sorted
  <2>3. QED
    BY <2>1, <2>2
<1>2. IsFiniteSet(X) /\ IsFiniteSet(Sold) /\ Sold \subseteq DOMAIN orders
  BY BooksAssumption, OrdersFinite, FS_Subset DEF TablesInv, Sold
<1>3. ASSUME NEW p \in X
      PROVE  row[p].orders <= Cardinality(Sold)
  <2>1. row[p].orders = Cardinality(Ordering(p, Sold))
    OBVIOUS
  <2>2. Ordering(p, Sold) \in SUBSET Sold
    BY DEF Ordering, ItemsFor
  <2>3. QED
    BY <1>2, <2>1, <2>2, FS_Subset
<1>4. DOMAIN row = X /\ \A x, y \in X : row[x] = row[y] => x = y
  <2>1. \A x \in X : row[x].id = x
    OBVIOUS
  <2>2. QED
    BY <2>1
<1> HIDE DEF X, row
<1>5. IsList(a) /\ a \in Seq(rows) /\ DOMAIN a = 1 .. Len(a)
  BY <1>1, <1>2, <1>4, FirstRows, ReportsAssumption
<1>6. \A k \in DOMAIN a : a[k] \in rows
  BY <1>5
<1>7. QED
  BY <1>3, <1>5, <1>6 DEF ToSet

\* The best customers have different orders.
LEMMA TopCustomersAnswer ==
  ASSUME TablesInv, NEW a \in getTopCustomers
  PROVE  IsList(a) /\ SumOf(LAMBDA k : a[k].orders, DOMAIN a) <= Cardinality(Sold)
<1> DEFINE of(c) == {o \in Sold : orders[o].customer = c}
           X == {m \in members : of(m) # {}}
           entry(c) == [id |-> c, revenue |-> SumOf(LAMBDA o : orders[o].totalAmount, of(c)),
                        orders |-> Cardinality(of(c))]
           row == [c \in X |-> entry(c)]
           rows == {row[c] : c \in X}
           count == [k \in DOMAIN a |-> a[k].orders]
           number == [c \in X |-> Cardinality(of(c))]
           theirs == {o \in Sold : orders[o].customer \in X}
           ones == [o \in theirs |-> 1]
           key == [o \in theirs |-> orders[o].customer]
           part == [c \in X |-> of(c)]
<1>1. PICK s \in SetToSeqs(rows) : a = First(ListLimit, s)
  <2>1. {entry(c) : c \in X} = rows
    OBVIOUS
  <2>2. PICK s \in SetToSeqs({entry(c) : c \in X}) : a = First(ListLimit, s)
    BY DEF getTopCustomers, Sorted
  <2>3. QED
    BY <2>1, <2>2
<1>2. IsFiniteSet(Sold) /\ IsFiniteSet(X) /\ IsFiniteSet(theirs)
  BY OrdersFinite, BooksAssumption, FS_Subset DEF TablesInv, TablesOK, Sold
<1>3. SumOf(LAMBDA k : a[k].orders, DOMAIN a) = SumFunctionOnSet(count, DOMAIN a)
  BY DEF SumOf
<1>4. /\ DOMAIN row = X
      /\ \A x \in X : row[x].id = x /\ row[x].orders = number[x] /\ number[x] = Cardinality(of(x))
  OBVIOUS
<1>5. \A c \in X : part[c] \in SUBSET theirs /\ \A o \in theirs : o \in part[c] <=> key[o] = c
  OBVIOUS
<1>6. \A o \in theirs : ones[o] = 1 /\ ones[o] \in Int /\ key[o] \in X
  OBVIOUS
<1>7. ASSUME NEW c \in X
      PROVE  number[c] \in Nat /\ number[c] = SumFunctionOnSet(ones, part[c])
  <2>1. IsFiniteSet(part[c])
    BY <1>2, <1>5, FS_Subset
  <2>2. SumFunctionOnSet(ones, part[c]) = Cardinality(part[c])
    BY <1>5, <1>6, <2>1, SumOfOnes
  <2>3. number[c] = Cardinality(part[c]) /\ Cardinality(part[c]) \in Nat
    BY <2>1, FS_CardinalityType
  <2>4. QED
    BY <2>2, <2>3
<1>8. \A k \in DOMAIN a : count[k] = a[k].orders
  OBVIOUS
<1>9. theirs \in SUBSET Sold
  OBVIOUS
<1> HIDE DEF X, row, count, number, theirs, ones, key, part
<1>10. IsList(a) /\ \E b \in Injection(DOMAIN a, X) : \A k \in DOMAIN a : a[k] = row[b[k]]
  <2>1. \A x, y \in X : row[x] = row[y] => x = y
    BY <1>4
  <2>2. QED
    BY <1>1, <1>2, <1>4, <2>1, FirstRows, ReportsAssumption
<1>11. PICK b \in Injection(DOMAIN a, X) : \A k \in DOMAIN a : a[k] = row[b[k]]
  BY <1>10
<1>12. \A k \in DOMAIN a : count[k] = number[b[k]] /\ count[k] \in Int
  <2>1. \A x \in X : row[x].orders = number[x] /\ number[x] \in Nat
    BY <1>4, <1>7
  <2>2. \A k \in DOMAIN a : b[k] \in X
    BY <1>11 DEF Injection
  <2>3. QED
    BY <1>8, <1>11, <2>1, <2>2
<1>13. /\ SumFunctionOnSet(count, DOMAIN a) <= SumFunctionOnSet(number, X)
       /\ SumFunctionOnSet(count, DOMAIN a) \in Int
  <2>1. /\ SumFunctionOnSet(count, DOMAIN a) <= SumFunctionOnSet(number, X)
        /\ IsFiniteSet(DOMAIN a)
    BY <1>2, <1>7, <1>12, SumInjected
  <2>2. QED
    BY <1>12, <2>1, SumInt
<1>14. SumFunctionOnSet(ones, theirs) = SumFunctionOnSet(number, X)
  <2>1. \A c \in X : number[c] = SumFunctionOnSet(ones, part[c])
    BY <1>7
  <2>2. QED
    BY <1>2, <1>5, <1>6, <2>1, SumByKey
<1>15. SumFunctionOnSet(ones, theirs) = Cardinality(theirs)
  BY <1>2, <1>6, SumOfOnes
<1>16. /\ Cardinality(theirs) <= Cardinality(Sold)
       /\ Cardinality(theirs) \in Nat /\ Cardinality(Sold) \in Nat
  BY <1>2, <1>9, FS_Subset, FS_CardinalityType
<1>17. QED
  BY <1>3, <1>10, <1>13, <1>14, <1>15, <1>16

LEMMA RevenueType ==
  ASSUME TablesInv, NEW S \in SUBSET DOMAIN orders
  PROVE  IsFiniteSet(S) /\ Cardinality(S) \in Nat /\ Revenue(S) \in Nat
<1> DEFINE total == [o \in S |-> orders[o].totalAmount]
<1>1. IsFiniteSet(S) /\ Cardinality(S) \in Nat
  BY OrderIds, FS_Subset, FS_CardinalityType
<1>2. \A o \in S : total[o] \in Nat
  BY OrderRows
<1>3. Revenue(S) = SumFunctionOnSet(total, S)
  BY DEF Revenue, SumOf
<1> HIDE DEF total
<1>4. QED
  BY <1>1, <1>2, <1>3, SumNat

\* The resources that are listed come to no more than the orders, and to as
\* much if they are all.
LEMMA TopItemsAnswer ==
  ASSUME TablesInv, NEW days, NEW a \in topItems(days)
  PROVE  /\ IsList(a)
         /\ LET revenue == SumOf(LAMBDA k : a[k].revenue, DOMAIN a) IN
            /\ revenue <= Revenue(InItems(days))
            /\ Len(a) < ListLimit => revenue = Revenue(InItems(days))
<1> DEFINE S == InItems(days)
           X == {y \in Products \union Services : ItemsFor(y, S) # {}}
           entry(x) == [name |-> x, revenue |-> RevenueOf(x, S), orderCount |-> Cardinality(ItemsFor(x, S))]
           row == [x \in X |-> entry(x)]
           rows == {row[x] : x \in X}
           amount == [k \in DOMAIN a |-> a[k].revenue]
           total == [x \in X |-> RevenueOf(x, S)]
<1>1. PICK s \in SetToSeqs(rows) : a = First(ListLimit, s)
  <2>1. {entry(x) : x \in X} = rows
    OBVIOUS
  <2>2. PICK s \in SetToSeqs({entry(x) : x \in X}) : a = First(ListLimit, s)
    BY DEF topItems, Sorted
  <2>3. QED
    BY <2>1, <2>2
<1>2. S \in SUBSET DOMAIN orders
  BY DEF InItems
<1>3. /\ IsFiniteSet(X) /\ \A x \in X : total[x] \in Nat
      /\ SumFunctionOnSet(total, X) = Revenue(S)
  <2>1. /\ \A x : x \in X <=> x \in Products \union Services /\ ItemsFor(x, S) # {}
        /\ \A x \in X : total[x] = RevenueOf(x, S)
    OBVIOUS
  <2> HIDE DEF X, total, S
  <2>2. QED
    BY <1>2, <2>1, ResourcesComeToRevenue
<1>4. /\ DOMAIN row = X
      /\ \A x \in X : row[x].name = x /\ row[x].revenue = total[x]
  OBVIOUS
<1>5. SumOf(LAMBDA k : a[k].revenue, DOMAIN a) = SumFunctionOnSet(amount, DOMAIN a)
  BY DEF SumOf
<1>6. \A k \in DOMAIN a : amount[k] = a[k].revenue
  OBVIOUS
<1> HIDE DEF S, X, row, amount, total
<1>7. \A x, y \in X : row[x] = row[y] => x = y
  BY <1>4
<1>8. /\ IsList(a) /\ DOMAIN a = 1 .. Len(a)
      /\ \E b \in Injection(DOMAIN a, X) :
           /\ \A k \in DOMAIN a : a[k] = row[b[k]]
           /\ Len(a) < ListLimit => b \in Bijection(DOMAIN a, X)
  BY <1>1, <1>3, <1>4, <1>7, FirstRows, ReportsAssumption
<1>9. PICK b \in Injection(DOMAIN a, X) :
        /\ \A k \in DOMAIN a : a[k] = row[b[k]]
        /\ Len(a) < ListLimit => b \in Bijection(DOMAIN a, X)
  BY <1>8
<1>10. \A k \in DOMAIN a : b[k] \in X /\ amount[k] = total[b[k]] /\ amount[k] \in Int
  BY <1>3, <1>4, <1>6, <1>9 DEF Injection
<1>11. /\ IsFiniteSet(DOMAIN a)
       /\ SumFunctionOnSet(amount, DOMAIN a) <= SumFunctionOnSet(total, X)
  BY <1>3, <1>10, SumInjected
<1>12. ASSUME Len(a) < ListLimit
       PROVE  SumFunctionOnSet(amount, DOMAIN a) = SumFunctionOnSet(total, X)
  <2>1. b \in Bijection(DOMAIN a, X)
    BY <1>9, <1>12
  <2>2. QED
    BY <1>10, <1>11, <2>1, SumReindexed
<1>13. QED
  BY <1>3, <1>5, <1>8, <1>11, <1>12 DEF S

\* A mean is no more than the sum.
LEMMA AverageAnswer ==
  ASSUME TablesInv, NEW days
  PROVE  avgOrderValue(days) \in Nat /\ avgOrderValue(days) <= Revenue(InTotals(days))
<1> DEFINE S == InTotals(days)
           n == Revenue(S)
           c == Cardinality(S)
<1>1. n \in Nat /\ c \in Nat /\ IsFiniteSet(S)
  BY RevenueType DEF InTotals
<1>2. S # {} => c # 0
  BY <1>1, FS_EmptySet
<1>3. avgOrderValue(days) = IF S = {} THEN 0 ELSE n \div c
  BY DEF avgOrderValue
<1> HIDE DEF S, n, c
<1>4. ASSUME c # 0
      PROVE  n \div c \in Nat /\ n \div c <= n
  <2> DEFINE q == n \div c
  <2>1. q \in Int /\ c * q <= n /\ n < c * (q + 1)
    BY <1>1, <1>4
  <2> HIDE DEF q
  <2>2. q >= 0
    <3>1. q < 0 => c * (q + 1) <= 0
      BY <1>1, <1>4, <2>1
    <3>2. QED
      BY <1>1, <2>1, <3>1
  <2>3. q <= c * q
    BY <1>1, <1>4, <2>1, <2>2
  <2>4. QED
    BY <1>1, <2>1, <2>2, <2>3 DEF q
<1>5. QED
  BY <1>1, <1>2, <1>3, <1>4 DEF S, n

LEMMA StatusCountsAnswer ==
  ASSUME TablesInv, NEW days, NEW s \in DOMAIN orderCountByStatus(days)
  PROVE  orderCountByStatus(days)[s] \in Nat
<1> DEFINE rows == {[status |-> x, count |-> Cardinality(InCounts(days) \intersect OrdersWith({x}))] :
                      x \in OrderStatus}
<1>1. \A r \in rows : r.count \in Nat
  <2>1. InCounts(days) \in SUBSET DOMAIN orders
    BY DEF InCounts
  <2>2. \A x : Cardinality(InCounts(days) \intersect OrdersWith({x})) \in Nat
    BY <2>1, OrderIds, FS_Subset, FS_CardinalityType, FS_Intersection
  <2>3. \A r \in rows : \E x : r.count = Cardinality(InCounts(days) \intersect OrdersWith({x}))
    OBVIOUS
  <2> HIDE DEF rows
  <2>4. QED
    BY <2>2, <2>3
<1>2. /\ s \in {"PENDING", "COMPLETED", "CANCELLED"}
      /\ orderCountByStatus(days)[s] =
           IF \E r \in rows : r.status = s THEN (CHOOSE r \in rows : r.status = s).count ELSE 0
  BY DEF orderCountByStatus
<1> HIDE DEF rows
<1>3. QED
  BY <1>1, <1>2

----------------------------------------------------------------------------
(***************************************************************************)
(* Numbers of orders while a summary is read.                              *)
(***************************************************************************)

LEMMA PendingList ==
  ASSUME TablesInv, NEW a \in getPendingOrders
  PROVE  Len(a) = Min({ListLimit, Counted("pending")})
<1>1. PICK s \in SetToSeqs(OrdersWith({"pending"})) : a = First(ListLimit, s)
  BY DEF getPendingOrders, Sorted
<1>2. IsFiniteSet(OrdersWith({"pending"}))
  BY OrdersFinite DEF TablesInv
<1>3. QED
  BY <1>1, <1>2, FirstOfSet, ReportsAssumption DEF Counted

LEMMA CancelledList ==
  ASSUME TablesInv, NEW a \in getCancelledOrdersAnalytics
  PROVE  Len(a) = Counted("cancelled")
<1>1. PICK s \in SetToSeqs(CancelledOrders) :
        a = [k \in DOMAIN s |-> [id |-> s[k], amount |-> orders[s[k]].totalAmount,
                                 cancelledAt |-> orders[s[k]].updatedAt]]
  BY DEF getCancelledOrdersAnalytics
<1>2. Counted("cancelled") = Cardinality(CancelledOrders) /\ Counted("cancelled") \in Nat
  BY OrdersCounted DEF Counted, CancelledOrders
<1>3. DOMAIN s = 1 .. Counted("cancelled")
  BY <1>2 DEF SetToSeqs
<1>4. DOMAIN a = 1 .. Counted("cancelled")
  BY <1>1, <1>3
<1>5. QED
  BY <1>2, <1>4

\* A write adds a pending order or moves one order from one state to another,
\* if it touches the orders at all.
LEMMA CountsStep ==
  ASSUME TablesInv, TablesInv', Written
  PROVE  \/ /\ Len(orders') = Len(orders) + 1
            /\ Counted("pending")' = Counted("pending") + 1
            /\ Counted("completed")' = Counted("completed")
            /\ Counted("cancelled")' = Counted("cancelled")
         \/ /\ Len(orders') = Len(orders)
            /\ \E s, t \in OrderStatus :
                 /\ s # t
                 /\ Counted(s)' = Counted(s) - 1
                 /\ Counted(t)' = Counted(t) + 1
                 /\ \A u \in OrderStatus \ {s, t} : Counted(u)' = Counted(u)
         \/ /\ Len(orders') = Len(orders)
            /\ \A u \in OrderStatus : Counted(u)' = Counted(u)
<1>1. \A s : /\ IsFiniteSet(OrdersWith({s})) /\ Counted(s) = Cardinality(OrdersWith({s}))
             /\ Counted(s) \in Nat
  BY OrdersFinite, FS_CardinalityType DEF TablesInv, Counted
<1>2. \A s : Counted(s)' = Cardinality(OrdersWith({s})')
  BY DEF Counted
<1>3. CASE SaveOrder
  <2>1. PICK c \in members, items \in Baskets, t \in Stamps :
          orders' = Append(orders, Order(c, items, "pending", t))
    BY <1>3 DEF SaveOrder
  <2> DEFINE row == Order(c, items, "pending", t)
             last == Len(orders) + 1
  <2>2. row.status = "pending"
    BY DEF Order
  <2> HIDE DEF row
  <2>3. /\ Len(orders') = last /\ DOMAIN orders' = DOMAIN orders \union {last}
        /\ last \notin DOMAIN orders /\ orders'[last] = row
        /\ \A o \in DOMAIN orders : orders'[o] = orders[o]
    <3>1. orders \in Seq(OrderRow) /\ orders' = Append(orders, row)
      BY <2>1 DEF TablesInv, TablesOK, row
    <3>2. QED
      BY <3>1
  <2> HIDE DEF last
  <2>4. OrdersWith({"pending"})' = OrdersWith({"pending"}) \union {last}
    BY <2>2, <2>3 DEF OrdersWith
  <2>5. \A s : s # "pending" => OrdersWith({s})' = OrdersWith({s})
    BY <2>2, <2>3 DEF OrdersWith
  <2>6. last \notin OrdersWith({"pending"})
    BY <2>3 DEF OrdersWith
  <2>7. Cardinality(OrdersWith({"pending"}) \union {last}) = Cardinality(OrdersWith({"pending"})) + 1
    BY <1>1, <2>6, FS_AddElement
  <2>8. Counted("pending")' = Counted("pending") + 1
    BY <1>1, <1>2, <2>4, <2>7
  <2>9. Counted("completed")' = Counted("completed") /\ Counted("cancelled")' = Counted("cancelled")
    BY <1>1, <1>2, <2>5
  <2>10. QED
    BY <2>3, <2>8, <2>9 DEF last
<1>4. CASE UpdateOrderStatus
  <2>1. PICK o \in DOMAIN orders, t \in OrderStatus :
          /\ t # orders[o].status
          /\ orders' = [orders EXCEPT ![o].status = t, ![o].updatedAt = Now]
    BY <1>4 DEF UpdateOrderStatus
  <2>a. PICK s \in OrderStatus : s = orders[o].status
    BY OrderRows
  <2>2. /\ Len(orders') = Len(orders) /\ DOMAIN orders' = DOMAIN orders
        /\ \A p \in DOMAIN orders : orders'[p].status = IF p = o THEN t ELSE orders[p].status
    <3>1. orders \in Seq(OrderRow) /\ DOMAIN orders[o] = DOMAIN orders[o]
      BY DEF TablesInv, TablesOK
    <3>2. DOMAIN orders' = DOMAIN orders
      BY <2>1
    <3>3. Len(orders') = Len(orders)
      <4>1. Len(orders) \in Nat /\ DOMAIN orders' = 1 .. Len(orders)
        BY <3>2, OrderIds
      <4>2. Len(orders') \in Nat /\ DOMAIN orders' = 1 .. Len(orders')
        BY DEF TablesInv, TablesOK
      <4>3. QED
        BY <4>1, <4>2
    <3>4. ASSUME NEW p \in DOMAIN orders
          PROVE  orders'[p].status = IF p = o THEN t ELSE orders[p].status
      <4>1. orders[p] \in OrderRow
        BY OrderRows
      <4>2. QED
        BY <2>1, <4>1 DEF OrderRow
    <3>5. QED
      BY <3>2, <3>3, <3>4
  <2>3. s # t
    BY <2>1, <2>a
  <2>4. OrdersWith({t})' = OrdersWith({t}) \union {o} /\ o \notin OrdersWith({t})
    BY <2>1, <2>2 DEF OrdersWith
  <2>5. OrdersWith({s})' = OrdersWith({s}) \ {o} /\ o \in OrdersWith({s})
    BY <2>a, <2>2, <2>3 DEF OrdersWith
  <2>6. \A u : u # s /\ u # t => OrdersWith({u})' = OrdersWith({u})
    BY <2>a, <2>2 DEF OrdersWith
  <2>7. Counted(t)' = Counted(t) + 1
    <3>1. Cardinality(OrdersWith({t}) \union {o}) = Cardinality(OrdersWith({t})) + 1
      BY <1>1, <2>4, FS_AddElement
    <3>2. QED
      BY <1>1, <1>2, <2>4, <3>1
  <2>8. Counted(s)' = Counted(s) - 1
    <3>1. Cardinality(OrdersWith({s}) \ {o}) = Cardinality(OrdersWith({s})) - 1
      BY <1>1, <2>5, FS_RemoveElement
    <3>2. QED
      BY <1>1, <1>2, <2>5, <3>1
  <2>9. \A u \in OrderStatus \ {s, t} : Counted(u)' = Counted(u)
    BY <1>1, <1>2, <2>6
  <2>10. QED
    BY <2>2, <2>3, <2>7, <2>8, <2>9
<1>5. CASE UNCHANGED orders
  BY <1>5 DEF Counted, OrdersWith
<1>6. QED
  BY <1>3, <1>4, <1>5 DEF Written, SaveInvoice, UpdateInvoicePayment,
     UpdateInvoiceStatus, UpdateProduct, CreateCustomer, DeleteCustomer

----------------------------------------------------------------------------
(***************************************************************************)
(* Recent activity.                                                        *)
(***************************************************************************)

\* Order o had the status when it was read, and has it still unless it is
\* among those that moved.
Remembered(o, status) ==
  /\ o \in DOMAIN orders
  /\ orders[o].status = status \/ o \in report.moved

\* What has been answered of pending and of cancelled orders, while a report
\* is being read.
AnswersInv ==
  report.pc = "asking" =>
    /\ "pendingOrders" \in DOMAIN report.answers =>
         \A o \in ToSet(report.answers["pendingOrders"]) : Remembered(o, "pending")
    /\ \A q \in ActivityQuery \intersect DOMAIN report.answers : IsList(report.answers[q])
    /\ "cancelledOrders" \in DOMAIN report.answers =>
         /\ \A a \in ToSet(report.answers["cancelledOrders"]) : Remembered(a.id, "cancelled")

ReportShape == DOMAIN report = {"pc", "days", "answers", "activity", "commits", "moved"}

ActivityInv == TablesInv /\ ReportShape /\ AnswersInv /\ ActivityShowsOrdersOnce

LEMMA PendingAnswers ==
  ASSUME TablesOK, NEW a \in getPendingOrders
  PROVE  /\ IsList(a)
         /\ \A o \in ToSet(a) : o \in DOMAIN orders /\ orders[o].status = "pending"
<1> DEFINE S == OrdersWith({"pending"})
<1>1. PICK s \in SetToSeqs(S) : a = First(ListLimit, s)
  BY DEF getPendingOrders, Sorted
<1>2. IsFiniteSet(S) /\ S \subseteq Int
  BY OrdersFinite DEF TablesOK
<1>3. s \in Seq(S) /\ ToSet(s) \subseteq S
  BY <1>2, SortedEntries
<1>4. a \in Seq(S) /\ ToSet(a) \subseteq S
  BY <1>1, <1>3, FirstEntries, ReportsAssumption
<1>5. QED
  BY <1>2, <1>4, ListOf DEF OrdersWith

LEMMA CancelledAnswers ==
  ASSUME TablesOK, NEW a \in getCancelledOrdersAnalytics
  PROVE  /\ IsList(a)
         /\ \A e \in ToSet(a) : e.id \in DOMAIN orders /\ orders[e.id].status = "cancelled"
<1>1. PICK s \in SetToSeqs(CancelledOrders) :
        a = [k \in DOMAIN s |-> [id |-> s[k], amount |-> orders[s[k]].totalAmount,
                                 cancelledAt |-> orders[s[k]].updatedAt]]
  BY DEF getCancelledOrdersAnalytics
<1>2. s \in Seq(CancelledOrders)
  BY OrdersFinite, SortedEntries DEF CancelledOrders
<1>3. \A k \in DOMAIN s : s[k] \in CancelledOrders
  BY <1>2
<1>4. \A o \in CancelledOrders :
        o \in DOMAIN orders /\ orders[o].status = "cancelled" /\ orders[o] \in OrderRow
  BY DEF CancelledOrders, OrdersWith, TablesOK
<1>5. \A o \in CancelledOrders :
        [id |-> o, amount |-> orders[o].totalAmount, cancelledAt |-> orders[o].updatedAt]
          \in [id : Int, amount : Nat, cancelledAt : Int]
  BY SMTT(30), <1>4 DEF OrderRow, TablesOK
<1>6. DOMAIN a = 1 .. Len(s) /\ Len(s) \in Nat
  BY <1>1, <1>2
<1>7. a \in Seq([id : Int, amount : Nat, cancelledAt : Int])
  BY <1>1, <1>2, <1>3, <1>5, <1>6
<1>8. IsList(a)
  BY <1>7, ListOf
<1>9. ASSUME NEW k \in DOMAIN a
      PROVE  a[k].id \in DOMAIN orders /\ orders[a[k].id].status = "cancelled"
  <2>1. k \in DOMAIN s
    BY <1>1
  <2>2. a[k].id = s[k]
    BY <1>1, <2>1
  <2>3. s[k] \in CancelledOrders
    BY <1>3, <2>1
  <2>4. QED
    BY <1>4, <2>2, <2>3
<1>10. QED
  BY <1>8, <1>9 DEF ToSet

LEMMA OutOfStockAnswers ==
  ASSUME NEW a \in getOutOfStockProducts
  PROVE  IsList(a)
<1> DEFINE stamps(p) == {orders[o].createdAt : o \in Ordering(p, DOMAIN orders)}
           row(p) == [id |-> p, lastSold |-> IF stamps(p) = {} THEN None ELSE Max(stamps(p))]
           empty == {x \in Products : stock[x] = 0}
           rows == {row(p) : p \in empty}
<1>1. PICK s \in SetToSeqs(rows) : a = First(ListLimit, s)
  BY DEF getOutOfStockProducts
<1> HIDE DEF row
<1>2. IsFiniteSet(rows)
  <2> DEFINE f == [p \in empty |-> row(p)]
  <2>1. IsFiniteSet(empty)
    BY BooksAssumption, FS_Subset
  <2>2. DOMAIN f = empty /\ rows = {f[p] : p \in empty}
    OBVIOUS
  <2> HIDE DEF f, empty, rows
  <2>3. QED
    BY <2>1, <2>2, FiniteValues
<1> HIDE DEF rows
<1>3. a \in Seq(rows)
  BY <1>1, <1>2, SortedEntries, FirstEntries, ReportsAssumption
<1>4. QED
  BY <1>3, ListOf

\* A write leaves what is remembered remembered.
LEMMA WriteRemembers ==
  ASSUME TablesInv, ReportShape, CommitWrite, report.pc = "asking"
  PROVE  /\ report'.pc = "asking" /\ report'.answers = report.answers /\ ReportShape'
         /\ \A o : \A s \in OrderStatus : Remembered(o, s) => Remembered(o, s)'
<1>1. report' = [report EXCEPT !.commits = @ + 1,
        !.moved = @ \union {o \in DOMAIN orders : orders'[o].status # orders[o].status}]
  BY DEF CommitWrite
<1>2. /\ report'.pc = "asking" /\ report'.answers = report.answers /\ ReportShape'
      /\ report'.moved = report.moved \union
           {o \in DOMAIN orders : orders'[o].status # orders[o].status}
  BY <1>1 DEF ReportShape
<1>3. DOMAIN orders \subseteq DOMAIN orders'
  <2>1. Written
    BY DEF CommitWrite
  <2>2. CASE SaveOrder
    <3>1. \E row : orders' = Append(orders, row)
      BY <2>2 DEF SaveOrder
    <3>2. QED
      BY <3>1 DEF TablesInv, TablesOK
  <2>3. CASE UpdateOrderStatus
    BY <2>3 DEF UpdateOrderStatus
  <2>4. CASE UNCHANGED orders
    BY <2>4
  <2>5. QED
    BY <2>1, <2>2, <2>3, <2>4 DEF Written, SaveInvoice, UpdateInvoicePayment,
       UpdateInvoiceStatus, UpdateProduct, CreateCustomer, DeleteCustomer
<1>4. QED
  BY <1>2, <1>3 DEF Remembered

LEMMA ActivityInit == Init => ActivityInv
<1> SUFFICES ASSUME Init PROVE ActivityInv
  OBVIOUS
<1>1. TablesInv
  BY InitTables
<1>2. ReportShape /\ report.pc = "idle"
  BY DEF Init, NoReport, ReportShape
<1>3. QED
  BY <1>1, <1>2 DEF ActivityInv, AnswersInv, ActivityShowsOrdersOnce, Finished

LEMMA ActivityCommit ==
  ASSUME ActivityInv, CommitWrite
  PROVE  ReportShape' /\ AnswersInv' /\ ActivityShowsOrdersOnce'
<1> USE DEF ActivityInv
<1>0. workload' = workload
  BY DEF CommitWrite
<1>1. CASE report.pc = "asking"
  <2>1. /\ report'.pc = "asking" /\ report'.answers = report.answers /\ ReportShape'
        /\ \A o : \A s \in OrderStatus : Remembered(o, s) => Remembered(o, s)'
    BY <1>1, WriteRemembers
  <2>2. AnswersInv'
    BY <1>1, <2>1 DEF AnswersInv, OrderStatus
  <2>3. ActivityShowsOrdersOnce'
    BY <2>1 DEF ActivityShowsOrdersOnce, Finished
  <2>4. QED
    BY <2>1, <2>2, <2>3
<1>2. CASE report.pc # "asking"
  <2>1. report' = report
    BY <1>2 DEF CommitWrite
  <2>2. QED
    BY <1>0, <1>2, <2>1 DEF ReportShape, AnswersInv, ActivityShowsOrdersOnce, Finished
<1>3. QED
  BY <1>1, <1>2

LEMMA ActivityAnswer ==
  ASSUME ActivityInv, NEW q, AnswerQuery(q)
  PROVE  ReportShape' /\ AnswersInv' /\ ActivityShowsOrdersOnce'
<1> USE DEF ActivityInv
<1>1. PICK a \in Answers(q, report.days) :
        report' = [report EXCEPT !.answers = Noted(report.answers, q, a)]
  BY DEF AnswerQuery
<1>2. report.pc = "asking" /\ UNCHANGED orders
  BY DEF AnswerQuery, tables
<1> DEFINE old == report.answers
           new == Noted(old, q, a)
<1>3. /\ report'.answers = new /\ report'.pc = "asking" /\ report'.moved = report.moved
      /\ ReportShape'
  BY <1>1, <1>2 DEF ReportShape
<1>4. /\ DOMAIN new = {q} \union DOMAIN old
      /\ new[q] = a
      /\ \A k \in DOMAIN old : k # q => new[k] = old[k]
  BY DEF Noted
<1>5. \A o, s : Remembered(o, s)' <=> Remembered(o, s)
  BY <1>2, <1>3 DEF Remembered
<1> HIDE DEF new
<1>6. ASSUME q = "pendingOrders"
      PROVE  \A o \in ToSet(a) : Remembered(o, "pending")
  <2>1. a \in getPendingOrders
    BY <1>6 DEF Answers, OrderStatus
  <2>2. QED
    BY <2>1, PendingAnswers DEF TablesInv, Remembered
<1>7. ASSUME q = "cancelledOrders"
      PROVE  \A e \in ToSet(a) : Remembered(e.id, "cancelled")
  <2>1. a \in getCancelledOrdersAnalytics
    BY <1>7 DEF Answers, OrderStatus
  <2>2. QED
    BY <2>1, CancelledAnswers DEF TablesInv, Remembered
<1>8. q \in ActivityQuery => IsList(a)
  <2>1. TablesOK
    BY DEF TablesInv
  <2>2. CASE q = "overdue"
    BY <2>2, OverdueAnswer DEF Answers, OrderStatus
  <2>3. CASE q = "outOfStock"
    BY <2>3, OutOfStockAnswers DEF Answers, OrderStatus
  <2>4. CASE q = "pendingOrders"
    BY <2>1, <2>4, PendingAnswers DEF Answers, OrderStatus
  <2>5. CASE q = "cancelledOrders"
    BY <2>1, <2>5, CancelledAnswers DEF Answers, OrderStatus
  <2>6. QED
    BY <2>2, <2>3, <2>4, <2>5 DEF ActivityQuery
<1>9. AnswersInv'
  BY <1>2, <1>3, <1>4, <1>5, <1>6, <1>7, <1>8 DEF AnswersInv
<1>10. ActivityShowsOrdersOnce'
  BY <1>3 DEF ActivityShowsOrdersOnce, Finished
<1>11. QED
  BY <1>3, <1>9, <1>10

\* The entries of the recent activity come from the answers.
LEMMA ActivityEntries ==
  ASSUME NEW answers, \A q \in ActivityQuery : IsList(answers[q]),
         NEW activity \in RecentActivity(answers), NEW e \in ToSet(activity)
  PROVE  /\ e.type = "new_order" => e.id \in ToSet(answers["pendingOrders"])
         /\ e.type = "order_cancelled" =>
              \E a \in ToSet(answers["cancelledOrders"]) : e.id = a.id
<1> DEFINE pending == First(Shown, answers["pendingOrders"])
           overdue == First(Shown, answers["overdue"])
           empty == First(Shown, answers["outOfStock"])
           cancelled == First(CancelledShown, answers["cancelledOrders"])
           E1 == {Entry("new_order", o, orders[o].createdAt) : o \in ToSet(pending)}
           E2 == {Entry("invoice_overdue", i.id, i.dueDate) : i \in ToSet(overdue)}
           E3 == {Entry("product_out_of_stock", p.id,
                    IF p.lastSold = None THEN Now ELSE p.lastSold) : p \in ToSet(empty)}
           E4 == {Entry("order_cancelled", o.id, o.cancelledAt) : o \in ToSet(cancelled)}
           entries == E1 \union E2 \union E3 \union E4
<1>1. PICK s \in SetToSeqs(entries) : activity = First(ActivityLimit, s)
  BY DEF RecentActivity, Sorted
<1>2. ASSUME NEW limit \in Nat, NEW q \in ActivityQuery
      PROVE  /\ IsFiniteSet(ToSet(First(limit, answers[q])))
             /\ ToSet(First(limit, answers[q])) \subseteq ToSet(answers[q])
  BY FirstEntries, ListOf DEF IsList
<1>3. /\ IsFiniteSet(ToSet(pending)) /\ IsFiniteSet(ToSet(overdue))
      /\ IsFiniteSet(ToSet(empty)) /\ IsFiniteSet(ToSet(cancelled))
      /\ ToSet(pending) \subseteq ToSet(answers["pendingOrders"])
      /\ ToSet(cancelled) \subseteq ToSet(answers["cancelledOrders"])
  BY <1>2, ReportsAssumption DEF ActivityQuery
<1>4. \A x \in E1 \union E2 \union E3 \union E4 :
        /\ x.type = "new_order" => x.id \in ToSet(pending)
        /\ x.type = "order_cancelled" => \E a \in ToSet(cancelled) : x.id = a.id
  BY DEF Entry
<1> HIDE DEF pending, overdue, empty, cancelled
<1>5. IsFiniteSet(E1) /\ IsFiniteSet(E2) /\ IsFiniteSet(E3) /\ IsFiniteSet(E4)
  <2> DEFINE f1 == [o \in ToSet(pending) |-> Entry("new_order", o, orders[o].createdAt)]
             f2 == [i \in ToSet(overdue) |-> Entry("invoice_overdue", i.id, i.dueDate)]
             f3 == [p \in ToSet(empty) |-> Entry("product_out_of_stock", p.id,
                      IF p.lastSold = None THEN Now ELSE p.lastSold)]
             f4 == [o \in ToSet(cancelled) |-> Entry("order_cancelled", o.id, o.cancelledAt)]
  <2>1. /\ E1 = {f1[o] : o \in ToSet(pending)} /\ DOMAIN f1 = ToSet(pending)
        /\ E2 = {f2[o] : o \in ToSet(overdue)} /\ DOMAIN f2 = ToSet(overdue)
        /\ E3 = {f3[o] : o \in ToSet(empty)} /\ DOMAIN f3 = ToSet(empty)
        /\ E4 = {f4[o] : o \in ToSet(cancelled)} /\ DOMAIN f4 = ToSet(cancelled)
    OBVIOUS
  <2> HIDE DEF E1, E2, E3, E4, f1, f2, f3, f4
  <2>2. QED
    BY <1>3, <2>1, FiniteValues
<1> HIDE DEF E1, E2, E3, E4
<1>6. IsFiniteSet(entries)
  BY <1>5, FS_Union
<1>7. s \in Seq(entries) /\ ToSet(s) \subseteq entries
  BY <1>6, SortedEntries
<1>8. e \in entries
  BY <1>1, <1>7, FirstEntries, ReportsAssumption
<1>9. QED
  BY <1>3, <1>4, <1>8

LEMMA ActivityFinish ==
  ASSUME ActivityInv, FinishReport
  PROVE  ReportShape' /\ AnswersInv' /\ ActivityShowsOrdersOnce'
<1> USE DEF ActivityInv
<1>1. report.pc = "asking" /\ DOMAIN report.answers = workload.queries /\ workload' = workload
  BY DEF FinishReport
<1>2. CASE ActivityQuery \subseteq workload.queries
  <2>1. PICK activity \in RecentActivity(report.answers) :
          report' = [report EXCEPT !.pc = "done", !.activity = activity]
    BY <1>2 DEF FinishReport
  <2>2. /\ report'.pc = "done" /\ report'.activity = activity /\ report'.moved = report.moved
        /\ ReportShape'
    BY <2>1 DEF ReportShape
  <2>3. /\ \A q \in ActivityQuery : IsList(report.answers[q])
        /\ \A o \in ToSet(report.answers["pendingOrders"]) : Remembered(o, "pending")
        /\ \A a \in ToSet(report.answers["cancelledOrders"]) : Remembered(a.id, "cancelled")
    BY <1>1, <1>2 DEF AnswersInv, ActivityQuery
  <2>4. ASSUME NEW e \in ToSet(activity), NEW f \in ToSet(activity),
               e.type = "new_order", f.type = "order_cancelled", e.id = f.id
        PROVE  e.id \in report.moved
    <3>1. e.id \in ToSet(report.answers["pendingOrders"])
      BY <2>3, <2>4, ActivityEntries
    <3>2. PICK a \in ToSet(report.answers["cancelledOrders"]) : f.id = a.id
      BY <2>3, <2>4, ActivityEntries
    <3>3. Remembered(e.id, "pending") /\ Remembered(e.id, "cancelled")
      BY <2>3, <2>4, <3>1, <3>2
    <3>4. QED
      BY <3>3 DEF Remembered
  <2>5. ActivityShowsOrdersOnce'
    BY <2>2, <2>4 DEF ActivityShowsOrdersOnce
  <2>6. QED
    BY <2>2, <2>5 DEF AnswersInv
<1>3. CASE ~(ActivityQuery \subseteq workload.queries)
  <2>1. report' = [report EXCEPT !.pc = "done"]
    BY <1>3 DEF FinishReport
  <2>2. report'.pc = "done" /\ ReportShape'
    BY <2>1 DEF ReportShape
  <2>3. QED
    BY <1>1, <1>3, <2>2 DEF AnswersInv, ActivityShowsOrdersOnce, Finished
<1>4. QED
  BY <1>2, <1>3

LEMMA ActivityNext == ActivityInv /\ [Next]_vars => ActivityInv'
<1> SUFFICES ASSUME ActivityInv, [Next]_vars PROVE ActivityInv'
  OBVIOUS
<1>1. TablesInv'
  BY NextTables DEF ActivityInv
<1>2. ReportShape' /\ AnswersInv' /\ ActivityShowsOrdersOnce'
  <2>1. CASE CommitWrite
    BY <2>1, ActivityCommit
  <2>2. ASSUME \E pc \in {"idle", "asking"} :
                 report'.pc = pc /\ DOMAIN report'.answers = {} /\ ReportShape'
        PROVE  ReportShape' /\ AnswersInv' /\ ActivityShowsOrdersOnce'
    BY <2>2 DEF AnswersInv, ActivityShowsOrdersOnce, Finished
  <2>3. CASE AskReport
    <3>1. PICK days \in Dates : report' = [NoReport EXCEPT !.pc = "asking", !.days = days]
      BY <2>3 DEF AskReport
    <3>2. report'.pc = "asking" /\ DOMAIN report'.answers = {} /\ ReportShape'
      BY <3>1 DEF NoReport, ReportShape
    <3>3. QED
      BY <2>2, <3>2
  <2>4. CASE \E q \in SummaryQuery \union StatsQuery : AnswerQuery(q)
    BY <2>4, ActivityAnswer
  <2>5. CASE FinishReport
    BY <2>5, ActivityFinish
  <2>6. ASSUME UNCHANGED <<tables, workload, report>>
        PROVE  ReportShape' /\ AnswersInv' /\ ActivityShowsOrdersOnce'
    BY <2>6 DEF ActivityInv, tables, ReportShape, AnswersInv, Remembered,
       ActivityShowsOrdersOnce, Finished
  <2>7. CASE StartWalk \/ ReadIds \/ ReadRows \/ ReadPage \/ ReadTotal
    <3>1. UNCHANGED <<tables, workload, report>>
      BY <2>7 DEF StartWalk, ReadIds, ReadRows, ReadPage, ReadTotal
    <3>2. QED
      BY <2>6, <3>1
  <2>8. CASE Leave
    <3>1. report' = NoReport \/ UNCHANGED <<tables, workload, report>>
      BY <2>8 DEF Leave
    <3>2. CASE report' = NoReport
      <4>1. report'.pc = "idle" /\ DOMAIN report'.answers = {} /\ ReportShape'
        BY <3>2 DEF NoReport, ReportShape
      <4>2. QED
        BY <2>2, <4>1
    <3>3. CASE UNCHANGED <<tables, workload, report>>
      BY <2>6, <3>3
    <3>4. QED
      BY <3>1, <3>2, <3>3
  <2>9. CASE UNCHANGED vars
    <3>1. UNCHANGED <<tables, workload, report>>
      BY <2>9 DEF vars
    <3>2. QED
      BY <2>6, <3>1
  <2>10. QED
    BY <2>1, <2>3, <2>4, <2>5, <2>7, <2>8, <2>9 DEF Next
<1>3. QED
  BY <1>1, <1>2 DEF ActivityInv

\* The recent activity shows an order as new and as cancelled only if it
\* moved while the summary was read, for every opening and any writes
\* (buildRecentActivity over four queries).
THEOREM ActivityTellsOnce == Spec => []ActivityShowsOrdersOnce
<1>1. Init => ActivityInv
  BY ActivityInit
<1>2. ActivityInv /\ [Next]_vars => ActivityInv'
  BY ActivityNext
<1>3. ActivityInv => ActivityShowsOrdersOnce
  BY DEF ActivityInv
<1>4. QED
  BY <1>1, <1>2, <1>3, PTL DEF Spec

----------------------------------------------------------------------------
(***************************************************************************)
(* Answers to the queries.                                                 *)
(***************************************************************************)

LEMMA AnswersOf ==
  ASSUME NEW days
  PROVE  /\ Answers("financial", days) = {getFinancialSummary}
         /\ Answers("unpaid", days) = {getUnpaidInvoices}
         /\ Answers("total", days) = {Len(orders)}
         /\ \A s \in OrderStatus : Answers(s, days) = {Counted(s)}
         /\ Answers("customerCount", days) = {Cardinality(members)}
         /\ Answers("productCount", days) = {Cardinality(Products)}
         /\ Answers("invoiceCount", days) = {Len(invoices)}
         /\ Answers("pendingOrders", days) = getPendingOrders
         /\ Answers("outOfStock", days) = getOutOfStockProducts
         /\ Answers("overdue", days) = getOverdueInvoices
         /\ Answers("topProducts", days) = getTopSellingProducts
         /\ Answers("topCustomers", days) = getTopCustomers
         /\ Answers("cancelledOrders", days) = getCancelledOrdersAnalytics
         /\ Answers("cancelledInvoices", days) = {getCancelledInvoicesAnalytics}
         /\ Answers("totalRevenue", days) = {Revenue(InTotals(days))}
         /\ Answers("orderCountByStatus", days) = {orderCountByStatus(days)}
         /\ Answers("avgOrderValue", days) = {avgOrderValue(days)}
         /\ Answers("topItems", days) = topItems(days)
BY DEF Answers, OrderStatus

\* Every answer has its shape, and no amount in it is negative.
LEMMA AnswersOK ==
  ASSUME TablesInv, NEW q \in SummaryQuery \union StatsQuery, NEW days,
         NEW a \in Answers(q, days)
  PROVE  AnswerOK(q, a)
<1>1. CASE q = "financial"
  BY <1>1, AnswersOf, FinancialAnswer DEF AnswerOK
<1>2. CASE q = "unpaid"
  BY <1>2, AnswersOf, UnpaidAnswer DEF AnswerOK
<1>3. CASE q = "total"
  BY <1>3, AnswersOf, OrderIds DEF AnswerOK
<1>4. CASE q \in OrderStatus
  <2>1. a = Counted(q)
    BY <1>4 DEF Answers, OrderStatus
  <2>2. a \in Nat
    BY <2>1, OrdersCounted
  <2>3. QED
    BY <1>4, <2>2 DEF AnswerOK, OrderStatus
<1>5. CASE q = "customerCount"
  <2>1. Cardinality(members) \in Nat
    BY BooksAssumption, FS_Subset, FS_CardinalityType DEF TablesInv, TablesOK
  <2>2. QED
    BY <1>5, <2>1, AnswersOf DEF AnswerOK
<1>6. CASE q = "productCount"
  BY <1>6, AnswersOf, BooksAssumption, FS_CardinalityType DEF AnswerOK
<1>7. CASE q = "invoiceCount"
  BY <1>7, AnswersOf DEF AnswerOK, TablesInv, TablesOK
<1>8. CASE q = "pendingOrders"
  BY <1>8, AnswersOf, PendingAnswers DEF AnswerOK, TablesInv, IsList, ToSet
<1>9. CASE q = "outOfStock"
  BY <1>9, AnswersOf, OutOfStockAnswers DEF AnswerOK, IsList, ToSet
<1>10. CASE q = "overdue"
  BY <1>10, AnswersOf, OverdueAnswer DEF AnswerOK
<1>11. CASE q = "topProducts"
  BY <1>11, AnswersOf, TopProductsAnswer DEF AnswerOK, IsList, ToSet
<1>12. CASE q = "topCustomers"
  <2>1. IsList(a)
    BY <1>12, AnswersOf, TopCustomersAnswer
  <2>2. QED
    BY <1>12, <2>1 DEF AnswerOK, IsList, ToSet
<1>13. CASE q = "cancelledOrders"
  BY <1>13, AnswersOf, CancelledAnswers DEF AnswerOK, TablesInv, IsList, ToSet
<1>14. CASE q = "cancelledInvoices"
  BY <1>14, AnswersOf, CancelledInvoicesAnswer DEF AnswerOK
<1>15. CASE q = "totalRevenue"
  <2>1. a = Revenue(InTotals(days))
    BY <1>15, AnswersOf
  <2>2. InTotals(days) \in SUBSET DOMAIN orders
    BY DEF InTotals
  <2>3. a \in Nat
    BY <2>1, <2>2, RevenueType
  <2>4. QED
    BY <1>15, <2>3 DEF AnswerOK
<1>16. CASE q = "orderCountByStatus"
  BY <1>16, AnswersOf, StatusCountsAnswer DEF AnswerOK
<1>17. CASE q = "avgOrderValue"
  BY <1>17, AnswersOf, AverageAnswer DEF AnswerOK
<1>18. CASE q = "topItems"
  <2>1. a \in topItems(days)
    BY <1>18, AnswersOf
  <2>2. IsList(a)
    BY <2>1, TopItemsAnswer
  <2>3. QED
    BY <1>18, <2>2 DEF AnswerOK, IsList, ToSet
<1>19. QED
  BY <1>1, <1>2, <1>3, <1>4, <1>5, <1>6, <1>7, <1>8, <1>9, <1>10, <1>11, <1>12, <1>13,
     <1>14, <1>15, <1>16, <1>17, <1>18 DEF SummaryQuery, StatsQuery, OrderStatus

\* As long as the tables stay the same, so does what is answered.
LEMMA AnswersStay ==
  ASSUME UNCHANGED tables, NEW q, NEW days
  PROVE  Answers(q, days)' = Answers(q, days)
BY SMTT(60) DEF tables, Answers, getFinancialSummary, getUnpaidInvoices, Counted,
   getPendingOrders, getOutOfStockProducts, getOverdueInvoices, getTopSellingProducts,
   getTopCustomers, getCancelledOrdersAnalytics, getCancelledInvoicesAnalytics, Revenue,
   InTotals, InCounts, InItems, orderCountByStatus, avgOrderValue, topItems, OrdersWith,
   InvoicesWith, CancelledOrders, Unpaid, Due, Ordering, ItemsFor, RevenueOf, Sold, SumOf,
   Within, Given, First, Sorted, Newest, Oldest, SetToSeqs, Now

----------------------------------------------------------------------------
(***************************************************************************)
(* Reports.                                                                *)
(***************************************************************************)

\* A number of orders that was answered, or that would be answered now.
Value(q) ==
  IF q \in DOMAIN report.answers THEN report.answers[q]
  ELSE IF q = "total" THEN Len(orders) ELSE Counted(q)

Length(q, now) == IF q \in DOMAIN report.answers THEN Len(report.answers[q]) ELSE now

\* While a summary is read, each write takes the numbers apart by one at most.
DriftInv ==
  report.pc = "asking" =>
    /\ Near(Value("total"), Value("pending") + Value("completed") + Value("cancelled"),
            report.commits)
    /\ Near(Length("pendingOrders", Min({ListLimit, Counted("pending")})),
            Min({ListLimit, Value("pending")}), report.commits)
    /\ Near(Length("cancelledOrders", Counted("cancelled")), Value("cancelled"), report.commits)

\* With nothing written, what was answered is what would be answered now.
RestInv ==
  report.pc = "asking" /\ report.commits = 0 =>
    \A q \in DOMAIN report.answers : report.answers[q] \in Answers(q, report.days)

ReportInv ==
  /\ TablesInv
  /\ ReportShape
  /\ workload \in Workloads
  /\ report.pc \in {"idle", "asking", "done"}
  /\ report.commits \in Nat
  /\ DOMAIN report.answers \subseteq workload.queries
  /\ \A q \in DOMAIN report.answers : AnswerOK(q, report.answers[q])
  /\ FinancialAddsUp
  /\ RestInv /\ DriftInv
  /\ CountsDriftByCommits /\ AmountsAgreeAtRest /\ StatsAgreeAtRest

ReportDone == CountsDriftByCommits /\ AmountsAgreeAtRest /\ StatsAgreeAtRest

LEMMA NotDone ==
  ASSUME report.pc # "done"
  PROVE  ReportDone
BY DEF ReportDone, CountsDriftByCommits, AmountsAgreeAtRest, StatsAgreeAtRest, Finished

\* The numbers are natural ones.
LEMMA ValueTypes ==
  ASSUME ReportInv
  PROVE  /\ \A q \in {"total", "pending", "completed", "cancelled"} : Value(q) \in Nat
         /\ \A q \in {"pendingOrders", "cancelledOrders"}, n \in Nat : Length(q, n) \in Nat
<1>1. ASSUME NEW q \in {"total", "pending", "completed", "cancelled"}
      PROVE  Value(q) \in Nat
  <2>1. q \in DOMAIN report.answers => report.answers[q] \in Nat
    <3>1. q \in DOMAIN report.answers => AnswerOK(q, report.answers[q])
      BY DEF ReportInv
    <3>2. QED
      BY <3>1 DEF AnswerOK
  <2>2. Len(orders) \in Nat /\ Counted(q) \in Nat
    BY OrderIds, OrdersCounted DEF ReportInv
  <2>3. QED
    BY <2>1, <2>2 DEF Value
<1>2. ASSUME NEW q \in {"pendingOrders", "cancelledOrders"}, NEW n \in Nat
      PROVE  Length(q, n) \in Nat
  <2>1. ASSUME q \in DOMAIN report.answers
        PROVE  Len(report.answers[q]) \in Nat
    <3>1. AnswerOK(q, report.answers[q])
      BY <2>1 DEF ReportInv
    <3>2. report.answers[q] \in Seq({report.answers[q][k] : k \in DOMAIN report.answers[q]})
      BY <3>1 DEF AnswerOK
    <3>3. QED
      BY <3>2
  <2>2. QED
    BY <2>1 DEF Length
<1>3. QED
  BY <1>1, <1>2

LEMMA CountedNext ==
  ASSUME TablesInv'
  PROVE  \A s : Counted(s)' \in Nat
<1>1. Len(orders') \in Nat /\ DOMAIN orders' = 1 .. Len(orders')
  BY DEF TablesInv, TablesOK
<1>2. IsFiniteSet(DOMAIN orders')
  BY <1>1, CountUpTo
<1> SUFFICES ASSUME NEW s PROVE Counted(s)' \in Nat
  OBVIOUS
<1> DEFINE S == {o \in DOMAIN orders' : orders'[o].status \in {s}}
<1>3. Counted(s)' = Cardinality(S) /\ S \subseteq DOMAIN orders'
  BY DEF Counted, OrdersWith
<1> HIDE DEF S
<1>4. QED
  BY <1>2, <1>3, FS_Subset, FS_CardinalityType

\* One more or one less does not move a minimum by more.
LEMMA MinMoves ==
  ASSUME NEW n \in Nat, NEW p \in Nat, NEW q \in Nat, Near(p, q, 1)
  PROVE  Min({n, p}) \in Nat /\ Min({n, q}) \in Nat /\ Near(Min({n, p}), Min({n, q}), 1)
<1>1. /\ Min({n, p}) = IF n <= p THEN n ELSE p
      /\ Min({n, q}) = IF n <= q THEN n ELSE q
  BY MinOfTwo
<1>2. QED
  BY <1>1 DEF Near

LEMMA NearMoves ==
  ASSUME NEW a \in Int, NEW b \in Int, NEW c \in Int, NEW d \in Nat,
         Near(a, b, d), Near(b, c, 1)
  PROVE  Near(a, c, d + 1)
BY DEF Near

\* A number that is answered does not change with the tables, one that is
\* not changes with them.
LEMMA CommitDrifts ==
  ASSUME ReportInv, CommitWrite, report.pc = "asking"
  PROVE  DriftInv'
<1>1. /\ report'.pc = "asking" /\ report'.answers = report.answers
      /\ report'.commits = report.commits + 1 /\ report.commits \in Nat
  BY DEF CommitWrite, ReportInv, ReportShape
<1>2. TablesInv /\ TablesInv' /\ Written
  <2>1. TablesInv /\ Written
    BY DEF ReportInv, CommitWrite
  <2>2. QED
    BY <2>1, WriteTables
<1> DEFINE A(q) == q \in DOMAIN report.answers
           T == Len(orders)
           P == Counted("pending")
           C == Counted("completed")
           X == Counted("cancelled")
<1>3. /\ T \in Nat /\ P \in Nat /\ C \in Nat /\ X \in Nat
      /\ T' \in Nat /\ P' \in Nat /\ C' \in Nat /\ X' \in Nat
      /\ T = P + C + X
  <2>1. T \in Nat /\ P \in Nat /\ C \in Nat /\ X \in Nat /\ T = P + C + X
    BY <1>2, OrdersCounted, OrderIds
  <2>2. T' \in Nat
    BY <1>2 DEF TablesInv, TablesOK
  <2>3. P' \in Nat /\ C' \in Nat /\ X' \in Nat
    BY <1>2, CountedNext
  <2>4. QED
    BY <2>1, <2>2, <2>3
<1>4. /\ A("total") => Value("total")' = Value("total")
      /\ ~A("total") => Value("total") = T /\ Value("total")' = T'
      /\ A("pending") => Value("pending")' = Value("pending")
      /\ ~A("pending") => Value("pending") = P /\ Value("pending")' = P'
      /\ A("completed") => Value("completed")' = Value("completed")
      /\ ~A("completed") => Value("completed") = C /\ Value("completed")' = C'
      /\ A("cancelled") => Value("cancelled")' = Value("cancelled")
      /\ ~A("cancelled") => Value("cancelled") = X /\ Value("cancelled")' = X'
  BY <1>1 DEF Value
<1> DEFINE L == Length("pendingOrders", Min({ListLimit, P}))
           K == Length("cancelledOrders", X)
<1>5. /\ A("pendingOrders") => L' = L
      /\ ~A("pendingOrders") => L = Min({ListLimit, P}) /\ L' = Min({ListLimit, P'})
      /\ A("cancelledOrders") => K' = K
      /\ ~A("cancelledOrders") => K = X /\ K' = X'
  BY <1>1 DEF Length
<1>6. /\ Value("total") \in Nat /\ Value("pending") \in Nat /\ Value("completed") \in Nat
      /\ Value("cancelled") \in Nat
      /\ L \in Nat /\ K \in Nat
  <2>1. ListLimit \in Nat
    BY ReportsAssumption
  <2>2. Min({ListLimit, P}) \in Nat
    BY <1>3, <2>1, MinOfTwo
  <2> HIDE DEF P, X
  <2>3. QED
    BY <1>3, <2>2, ValueTypes
<1>7. \/ T' = T + 1 /\ P' = P + 1 /\ C' = C /\ X' = X
      \/ T' = T /\ P' = P /\ C' = C /\ X' = X
      \/ T' = T /\ P' = P - 1 /\ C' = C + 1 /\ X' = X
      \/ T' = T /\ P' = P - 1 /\ C' = C /\ X' = X + 1
      \/ T' = T /\ P' = P + 1 /\ C' = C - 1 /\ X' = X
      \/ T' = T /\ P' = P /\ C' = C - 1 /\ X' = X + 1
      \/ T' = T /\ P' = P + 1 /\ C' = C /\ X' = X - 1
      \/ T' = T /\ P' = P /\ C' = C + 1 /\ X' = X - 1
  BY <1>2, CountsStep DEF OrderStatus
<1>9. /\ Near(Value("total"), Value("pending") + Value("completed") + Value("cancelled"),
              report.commits)
      /\ Near(L, Min({ListLimit, Value("pending")}), report.commits)
      /\ Near(K, Value("cancelled"), report.commits)
  BY DEF ReportInv, DriftInv
<1> HIDE DEF A, T, P, C, X, L, K
<1>10. Near(Value("total")', Value("pending")' + Value("completed")' + Value("cancelled")',
            report.commits + 1)
  BY <1>1, <1>3, <1>4, <1>6, <1>7, <1>9 DEF Near
<1>11. Near(L', Min({ListLimit, Value("pending")'}), report.commits + 1)
  <2>1. ListLimit \in Nat
    BY ReportsAssumption
  <2>2. Near(P, P', 1)
    <3>1. P \in Nat /\ (P' = P + 1 \/ P' = P \/ P' = P - 1)
      BY <1>3, <1>7
    <3>2. QED
      BY <3>1 DEF Near
  <2>3. CASE A("pendingOrders")
    <3>1. Near(Value("pending"), Value("pending")', 1) /\ Value("pending")' \in Nat
      <4>1. CASE A("pending")
        BY <1>4, <1>6, <4>1 DEF Near
      <4>2. CASE ~A("pending")
        BY <1>3, <1>4, <2>2, <4>2
      <4>3. QED
        BY <4>1, <4>2
    <3>2. /\ Near(Min({ListLimit, Value("pending")}), Min({ListLimit, Value("pending")'}), 1)
          /\ Min({ListLimit, Value("pending")}) \in Nat
          /\ Min({ListLimit, Value("pending")'}) \in Nat
      BY <1>6, <2>1, <3>1, MinMoves
    <3>3. PICK a, b, c :
            a = L /\ b = Min({ListLimit, Value("pending")}) /\ c = Min({ListLimit, Value("pending")'})
      OBVIOUS
    <3>4. a \in Nat /\ b \in Nat /\ c \in Nat /\ Near(a, b, report.commits) /\ Near(b, c, 1)
      BY <1>6, <1>9, <3>2, <3>3
    <3>5. Near(a, c, report.commits + 1)
      BY <1>1, <3>4, NearMoves
    <3>6. QED
      BY <1>5, <2>3, <3>3, <3>5
  <2>4. CASE ~A("pendingOrders") /\ ~A("pending")
    <3>1. L' = Min({ListLimit, P'}) /\ Value("pending")' = P' /\ L' \in Nat
      BY <1>3, <1>4, <1>5, <2>1, <2>2, <2>4, MinMoves
    <3>2. QED
      BY <1>1, <3>1 DEF Near
  <2>5. CASE ~A("pendingOrders") /\ A("pending")
    <3>1. L = Min({ListLimit, P}) /\ L' = Min({ListLimit, P'}) /\ Value("pending")' = Value("pending")
      BY <1>4, <1>5, <2>5
    <3>2. Near(L, L', 1) /\ L \in Nat /\ L' \in Nat
      BY <1>3, <2>1, <2>2, <3>1, MinMoves
    <3>3. Min({ListLimit, Value("pending")}) \in Nat
      BY <1>6, <2>1, MinOfTwo
    <3>4. QED
      BY <1>1, <1>9, <3>1, <3>2, <3>3 DEF Near
  <2>6. QED
    BY <2>3, <2>4, <2>5
<1>12. Near(K', Value("cancelled")', report.commits + 1)
  BY <1>1, <1>3, <1>4, <1>5, <1>6, <1>7, <1>9 DEF Near
<1>13. QED
  BY <1>1, <1>10, <1>11, <1>12 DEF DriftInv, L, K, P, X

LEMMA NextNotDone ==
  ASSUME report'.pc # "done"
  PROVE  ReportDone'
BY DEF ReportDone, CountsDriftByCommits, AmountsAgreeAtRest, StatsAgreeAtRest, Finished

LEMMA ReportStays ==
  ASSUME ReportInv, TablesInv', UNCHANGED <<report, workload>>,
         report.pc = "asking" => UNCHANGED tables
  PROVE  ReportInv'
<1>1. /\ ReportShape' /\ workload' \in Workloads
      /\ report'.pc \in {"idle", "asking", "done"} /\ report'.commits \in Nat
      /\ DOMAIN report'.answers \subseteq workload'.queries
      /\ \A q \in DOMAIN report'.answers : AnswerOK(q, report'.answers[q])
  BY DEF ReportInv, ReportShape
<1>2. FinancialAddsUp' /\ ReportDone'
  <2>1. FinancialAddsUp' /\ CountsDriftByCommits'
    BY DEF ReportInv, FinancialAddsUp, CountsDriftByCommits, Finished, Answered
  <2>2. AmountsAgreeAtRest'
    BY DEF ReportInv, AmountsAgreeAtRest, Finished, Answered, SumOf
  <2>3. StatsAgreeAtRest'
    BY DEF ReportInv, StatsAgreeAtRest, Finished, Answered, SumOf
  <2>4. QED
    BY <2>1, <2>2, <2>3 DEF ReportDone
<1>3. RestInv'
  BY AnswersStay DEF ReportInv, RestInv
<1>4. DriftInv'
  <2>1. report.pc = "asking" => UNCHANGED orders
    BY DEF tables
  <2>2. QED
    BY <2>1 DEF ReportInv, DriftInv, Value, Length, Counted, OrdersWith
<1>5. QED
  BY <1>1, <1>2, <1>3, <1>4 DEF ReportInv, ReportDone

\* A report that nothing has been answered of.
Unanswered ==
  /\ TablesInv
  /\ workload \in Workloads
  /\ ReportShape
  /\ report.answers = <<>>
  /\ report.commits = 0
  /\ report.pc \in {"idle", "asking"}

LEMMA NewReport == Unanswered => ReportInv
<1> SUFFICES ASSUME Unanswered PROVE ReportInv
  OBVIOUS
<1> USE DEF Unanswered
<1>1. DOMAIN report.answers = {}
  OBVIOUS
<1>2. FinancialAddsUp /\ RestInv /\ ReportDone
  BY <1>1, NotDone DEF FinancialAddsUp, RestInv
<1>3. DriftInv
  <2>1. /\ Counted("pending") \in Nat /\ Counted("completed") \in Nat /\ Counted("cancelled") \in Nat
        /\ Len(orders) = Counted("pending") + Counted("completed") + Counted("cancelled")
    BY OrdersCounted
  <2>2. Min({ListLimit, Counted("pending")}) \in Nat
    BY <2>1, MinOfTwo, ReportsAssumption
  <2>3. QED
    BY <1>1, <2>1, <2>2 DEF DriftInv, Value, Length, Near
<1>4. QED
  BY <1>1, <1>2, <1>3 DEF ReportInv, ReportDone

LEMMA ReportCommit ==
  ASSUME ReportInv, TablesInv', CommitWrite
  PROVE  ReportInv'
<1>1. CASE report.pc = "asking"
  <2>1. /\ report'.pc = "asking" /\ report'.answers = report.answers
        /\ report'.commits = report.commits + 1 /\ ReportShape' /\ workload' = workload
    BY <1>1 DEF CommitWrite, ReportInv, ReportShape
  <2>2. report.commits \in Nat
    BY DEF ReportInv
  <2>3. RestInv' /\ DriftInv' /\ ReportDone'
    BY <1>1, <2>1, <2>2, CommitDrifts, NextNotDone DEF RestInv
  <2>4. FinancialAddsUp'
    BY <2>1 DEF ReportInv, FinancialAddsUp, Answered
  <2>5. QED
    BY <2>1, <2>2, <2>3, <2>4 DEF ReportInv, ReportDone
<1>2. CASE report.pc # "asking"
  <2>1. UNCHANGED <<report, workload>>
    BY <1>2 DEF CommitWrite
  <2>2. QED
    BY <1>2, <2>1, ReportStays
<1>3. QED
  BY <1>1, <1>2

LEMMA ReportAnswer ==
  ASSUME ReportInv, TablesInv', NEW q \in SummaryQuery \union StatsQuery, AnswerQuery(q)
  PROVE  ReportInv'
<1>1. PICK a \in Answers(q, report.days) :
        report' = [report EXCEPT !.answers = Noted(report.answers, q, a)]
  BY DEF AnswerQuery
<1>2. /\ report.pc = "asking" /\ UNCHANGED tables /\ UNCHANGED orders /\ workload' = workload
      /\ q \in workload.queries \ DOMAIN report.answers
  BY DEF AnswerQuery, tables
<1> DEFINE old == report.answers
           new == Noted(old, q, a)
<1>3. /\ report'.answers = new /\ report'.pc = "asking" /\ report'.days = report.days
      /\ report'.commits = report.commits /\ ReportShape'
  BY <1>1, <1>2 DEF ReportInv, ReportShape
<1>4. /\ DOMAIN new = {q} \union DOMAIN old
      /\ new[q] = a
      /\ \A k \in DOMAIN old : k # q => new[k] = old[k]
  BY DEF Noted
<1> HIDE DEF new
<1>5. TablesInv
  BY DEF ReportInv
<1>6. \A k \in DOMAIN new : AnswerOK(k, new[k])
  BY <1>4, <1>5, AnswersOK DEF ReportInv
<1>7. FinancialAddsUp'
  <2>1. CASE q = "financial"
    <3>1. a = getFinancialSummary
      BY <2>1, AnswersOf
    <3>2. QED
      BY <1>3, <1>4, <1>5, <2>1, <3>1, FinancialAnswer DEF FinancialAddsUp, Answered
  <2>2. CASE q # "financial"
    BY <1>3, <1>4, <2>2 DEF ReportInv, FinancialAddsUp, Answered
  <2>3. QED
    BY <2>1, <2>2
<1>8. RestInv'
  <2> SUFFICES ASSUME report.commits = 0, NEW k \in DOMAIN new
               PROVE  new[k] \in Answers(k, report.days)'
    BY <1>3 DEF RestInv
  <2>1. new[k] \in Answers(k, report.days)
    BY <1>1, <1>2, <1>4 DEF ReportInv, RestInv
  <2>2. QED
    BY <1>2, <1>3, <2>1, AnswersStay
<1>9. DriftInv'
  <2>1. Counted("pending")' = Counted("pending") /\ Counted("cancelled")' = Counted("cancelled")
        /\ Counted("completed")' = Counted("completed")
    BY <1>2 DEF Counted, OrdersWith
  <2>2. Value("total")' = Value("total")
    <3>1. q = "total" => a = Len(orders)
      BY <1>1, AnswersOf
    <3>2. QED
      BY <1>2, <1>3, <1>4, <3>1 DEF Value
  <2>3. Value("pending")' = Value("pending")
    <3>1. q = "pending" => a = Counted("pending")
      BY <1>1, AnswersOf DEF OrderStatus
    <3>2. QED
      BY <1>2, <1>3, <1>4, <2>1, <3>1 DEF Value
  <2>4. Value("completed")' = Value("completed")
    <3>1. q = "completed" => a = Counted("completed")
      BY <1>1, AnswersOf DEF OrderStatus
    <3>2. QED
      BY <1>2, <1>3, <1>4, <2>1, <3>1 DEF Value
  <2>5. Value("cancelled")' = Value("cancelled")
    <3>1. q = "cancelled" => a = Counted("cancelled")
      BY <1>1, AnswersOf DEF OrderStatus
    <3>2. QED
      BY <1>2, <1>3, <1>4, <2>1, <3>1 DEF Value
  <2>6. Length("pendingOrders", Min({ListLimit, Counted("pending")}))'
          = Length("pendingOrders", Min({ListLimit, Counted("pending")}))
    <3>1. q = "pendingOrders" => Len(a) = Min({ListLimit, Counted("pending")})
      BY <1>1, <1>5, AnswersOf, PendingList
    <3>2. QED
      BY <1>2, <1>3, <1>4, <2>1, <3>1 DEF Length
  <2>7. Length("cancelledOrders", Counted("cancelled"))'
          = Length("cancelledOrders", Counted("cancelled"))
    <3>1. q = "cancelledOrders" => Len(a) = Counted("cancelled")
      BY <1>1, <1>5, AnswersOf, CancelledList
    <3>2. QED
      BY <1>2, <1>3, <1>4, <2>1, <3>1 DEF Length
  <2>8. QED
    BY <1>2, <1>3, <2>2, <2>3, <2>4, <2>5, <2>6, <2>7 DEF ReportInv, DriftInv
<1>10. ReportDone'
  BY <1>3, NextNotDone
<1>11. /\ workload' \in Workloads /\ report'.commits \in Nat
       /\ DOMAIN report'.answers \subseteq workload'.queries
  BY <1>2, <1>3, <1>4 DEF ReportInv
<1>12. QED
  BY <1>3, <1>6, <1>7, <1>8, <1>9, <1>10, <1>11 DEF ReportInv, ReportDone

LEMMA ReportFinish ==
  ASSUME ReportInv, TablesInv', FinishReport
  PROVE  ReportInv'
<1>1. /\ report'.pc = "done" /\ report'.answers = report.answers /\ report'.days = report.days
      /\ report'.commits = report.commits /\ ReportShape' /\ workload' = workload
  <2>1. \E activity : \/ report' = [report EXCEPT !.pc = "done", !.activity = activity]
                      \/ report' = [report EXCEPT !.pc = "done"]
    BY DEF FinishReport
  <2>2. workload' = workload
    BY DEF FinishReport
  <2>3. QED
    BY <2>1, <2>2 DEF ReportInv, ReportShape
<1>2. report.pc = "asking" /\ DOMAIN report.answers = workload.queries /\ TablesInv
  BY DEF FinishReport, ReportInv
<1> DEFINE asked == workload.queries
           answer(q) == report.answers[q]
<1>3. \A Q : Finished(Q)' <=> Q \subseteq asked
  BY <1>1 DEF Finished
<1>4. \A q : Answered(q)' = answer(q)
  BY <1>1 DEF Answered
<1>5. CountsDriftByCommits'
  <2>1. DriftInv /\ \A q \in asked : Value(q) = answer(q) /\ \A n : Length(q, n) = Len(answer(q))
    BY <1>2 DEF ReportInv, Value, Length
  <2>2. /\ {"total", "pending", "completed", "cancelled"} \subseteq asked =>
             Near(answer("total"), answer("pending") + answer("completed") + answer("cancelled"),
                  report.commits)
        /\ {"pending", "pendingOrders"} \subseteq asked =>
             Near(Len(answer("pendingOrders")), Min({ListLimit, answer("pending")}), report.commits)
        /\ {"cancelled", "cancelledOrders"} \subseteq asked =>
             Near(Len(answer("cancelledOrders")), answer("cancelled"), report.commits)
    BY <1>2, <2>1 DEF DriftInv
  <2> HIDE DEF asked, answer
  <2>3. QED
    BY <1>1, <1>3, <1>4, <2>2 DEF CountsDriftByCommits
<1>6. report.commits = 0 => \A q \in asked : answer(q) \in Answers(q, report.days)
  BY <1>2 DEF ReportInv, RestInv
<1>7. AmountsAgreeAtRest'
  <2> SUFFICES ASSUME report.commits = 0
               PROVE  AmountsAgreeAtRest'
    BY <1>1 DEF AmountsAgreeAtRest
  <2>1. \A q \in asked : answer(q) \in Answers(q, report.days)
    BY <1>6
  <2> HIDE DEF asked, answer
  <2>2. /\ "unpaid" \in asked => answer("unpaid") = getUnpaidInvoices
        /\ "financial" \in asked => answer("financial") = getFinancialSummary
        /\ "overdue" \in asked => answer("overdue") \in getOverdueInvoices
        /\ "cancelledInvoices" \in asked => answer("cancelledInvoices") = getCancelledInvoicesAnalytics
        /\ "invoiceCount" \in asked => answer("invoiceCount") = Len(invoices)
        /\ "topProducts" \in asked => answer("topProducts") \in getTopSellingProducts
        /\ "topCustomers" \in asked => answer("topCustomers") \in getTopCustomers
    BY <2>1, AnswersOf
  <2>3. {"pending", "completed"} \subseteq asked =>
          answer("pending") + answer("completed") = Cardinality(Sold)
    <3>1. /\ "pending" \in asked => answer("pending") = Counted("pending")
          /\ "completed" \in asked => answer("completed") = Counted("completed")
      BY <2>1, AnswersOf DEF OrderStatus
    <3>2. QED
      BY <1>2, <3>1, OrdersCounted
  <2>4. ASSUME "unpaid" \in asked, "overdue" \in asked
        PROVE  SumOf(LAMBDA k : answer("overdue")[k].amount, DOMAIN answer("overdue"))
                 <= answer("unpaid").amount
    BY <1>2, <2>2, <2>4, OverdueAnswer
  <2>5. ASSUME "unpaid" \in asked, "financial" \in asked
        PROVE  answer("unpaid").amount <= answer("financial").totalRevenue
    BY <1>2, <2>2, <2>5, UnpaidAnswer
  <2>6. ASSUME {"unpaid", "cancelledInvoices", "invoiceCount"} \subseteq asked
        PROVE  answer("unpaid").count + answer("cancelledInvoices").total <= answer("invoiceCount")
    BY <1>2, <2>2, <2>6, CancelledInvoicesAnswer
  <2>7. ASSUME {"topProducts", "pending", "completed"} \subseteq asked
        PROVE  \A p \in ToSet(answer("topProducts")) :
                 p.orders <= answer("pending") + answer("completed")
    BY <1>2, <2>2, <2>3, <2>7, TopProductsAnswer
  <2>8. ASSUME {"topCustomers", "pending", "completed"} \subseteq asked
        PROVE  SumOf(LAMBDA k : answer("topCustomers")[k].orders, DOMAIN answer("topCustomers"))
                 <= answer("pending") + answer("completed")
    BY <1>2, <2>2, <2>3, <2>8, TopCustomersAnswer
  <2>9. QED
    BY <1>3, <1>4, <2>4, <2>5, <2>6, <2>7, <2>8 DEF AmountsAgreeAtRest, SumOf
<1>8. StatsAgreeAtRest'
  <2> SUFFICES ASSUME report.commits = 0, StatsQuery \subseteq asked
               PROVE  StatsAgreeAtRest'
    BY <1>1, <1>3 DEF StatsAgreeAtRest
  <2> DEFINE days == report.days
             top == answer("topItems")
             revenue == SumOf(LAMBDA k : top[k].revenue, DOMAIN top)
  <2>1. \A q \in StatsQuery : answer(q) \in Answers(q, days)
    BY <1>6
  <2> HIDE DEF answer, days
  <2>2. /\ answer("totalRevenue") = Revenue(InTotals(days))
        /\ answer("avgOrderValue") = avgOrderValue(days)
        /\ top \in topItems(days)
    BY <2>1, AnswersOf DEF StatsQuery
  <2>3. InTotals(days) = InItems(days)
    BY DEF InTotals, InItems
  <2>4. /\ revenue <= answer("totalRevenue")
        /\ Len(top) < ListLimit => revenue = answer("totalRevenue")
    <3> HIDE DEF top
    <3>1. /\ SumOf(LAMBDA k : top[k].revenue, DOMAIN top) <= Revenue(InItems(days))
          /\ Len(top) < ListLimit =>
               SumOf(LAMBDA k : top[k].revenue, DOMAIN top) = Revenue(InItems(days))
      BY <1>2, <2>2, TopItemsAnswer
    <3>2. QED
      BY <2>2, <2>3, <3>1
  <2>5. answer("avgOrderValue") <= answer("totalRevenue")
    BY <1>2, <2>2, AverageAnswer
  <2>6. QED
    BY <1>3, <1>4, <2>4, <2>5 DEF StatsAgreeAtRest, SumOf
<1>9. /\ FinancialAddsUp' /\ RestInv' /\ DriftInv'
  BY <1>1 DEF ReportInv, FinancialAddsUp, Answered, RestInv, DriftInv
<1>10. /\ workload' \in Workloads /\ report'.commits \in Nat
       /\ DOMAIN report'.answers \subseteq workload'.queries
       /\ \A q \in DOMAIN report'.answers : AnswerOK(q, report'.answers[q])
  BY <1>1 DEF ReportInv
<1>11. QED
  BY <1>1, <1>5, <1>7, <1>8, <1>9, <1>10 DEF ReportInv

LEMMA ReportInit == Init => ReportInv
<1> SUFFICES ASSUME Init PROVE ReportInv
  OBVIOUS
<1>1. TablesInv /\ workload \in Workloads
  BY InitTables DEF Init
<1>2. ReportShape /\ report.answers = <<>> /\ report.commits = 0 /\ report.pc = "idle"
  BY DEF Init, NoReport, ReportShape
<1>3. QED
  BY <1>1, <1>2, NewReport DEF Unanswered

LEMMA ReportNext == ReportInv /\ [Next]_vars => ReportInv'
<1> SUFFICES ASSUME ReportInv, [Next]_vars PROVE ReportInv'
  OBVIOUS
<1>1. TablesInv'
  BY NextTables DEF ReportInv
<1>2. ASSUME report'.pc \in {"idle", "asking"}, report'.answers = <<>>, report'.commits = 0,
             ReportShape', workload' = workload
      PROVE  ReportInv'
  <2>1. Unanswered'
    BY <1>1, <1>2 DEF Unanswered, ReportInv
  <2>2. QED
    BY <2>1, NewReport, PTL
<1>3. CASE CommitWrite
  BY <1>1, <1>3, ReportCommit
<1>4. CASE AskReport
  <2>1. \E days : report' = [NoReport EXCEPT !.pc = "asking", !.days = days]
    BY <1>4 DEF AskReport
  <2>2. /\ report'.pc = "asking" /\ report'.answers = <<>> /\ report'.commits = 0
        /\ ReportShape'
    BY <2>1 DEF NoReport, ReportShape
  <2>3. QED
    BY <1>2, <1>4, <2>2 DEF AskReport
<1>5. CASE \E q \in SummaryQuery \union StatsQuery : AnswerQuery(q)
  BY <1>1, <1>5, ReportAnswer
<1>6. CASE FinishReport
  BY <1>1, <1>6, ReportFinish
<1>7. ASSUME UNCHANGED <<tables, workload, report>>
      PROVE  ReportInv'
  BY <1>1, <1>7, ReportStays
<1>8. CASE StartWalk \/ ReadIds \/ ReadRows \/ ReadPage \/ ReadTotal
  <2>1. UNCHANGED <<tables, workload, report>>
    BY <1>8 DEF StartWalk, ReadIds, ReadRows, ReadPage, ReadTotal
  <2>2. QED
    BY <1>7, <2>1
<1>9. CASE Leave
  <2>1. CASE report' = NoReport /\ UNCHANGED <<tables, workload, walk>>
    <3>1. /\ report'.pc = "idle" /\ report'.answers = <<>> /\ report'.commits = 0
          /\ ReportShape'
      BY <2>1 DEF NoReport, ReportShape
    <3>2. QED
      BY <1>2, <2>1, <3>1
  <2>2. CASE UNCHANGED <<tables, workload, report>>
    BY <1>7, <2>2
  <2>3. QED
    BY <1>9, <2>1, <2>2 DEF Leave
<1>10. CASE UNCHANGED vars
  <2>1. UNCHANGED <<tables, workload, report>>
    BY <1>10 DEF vars
  <2>2. QED
    BY <1>7, <2>1
<1>11. QED
  BY <1>3, <1>4, <1>5, <1>6, <1>8, <1>9, <1>10 DEF Next

LEMMA ReportAlways == Spec => []ReportInv
<1>1. Init => ReportInv
  BY ReportInit
<1>2. ReportInv /\ [Next]_vars => ReportInv'
  BY ReportNext
<1>3. QED
  BY <1>1, <1>2, PTL DEF Spec

\* The money on the dashboard adds up for any invoices, whenever the one query
\* is answered: every column is summed over the same rows, and each row adds
\* up (getFinancialSummary).
THEOREM DashboardMoneyAddsUp == Spec => []FinancialAddsUp
<1>1. ReportInv => FinancialAddsUp
  BY DEF ReportInv
<1>2. QED
  BY <1>1, ReportAlways, PTL

\* The numbers of orders in a summary are apart by no more than the writes
\* that were committed between its queries, for any writes at any moment
\* (getDashboardSummary, Promise.all without a transaction).
THEOREM SummaryDriftsByCommits == Spec => []CountsDriftByCommits
<1>1. ReportInv => CountsDriftByCommits
  BY DEF ReportInv
<1>2. QED
  BY <1>1, ReportAlways, PTL

\* A summary that nothing was written during agrees with itself: overdue is
\* part of unpaid, unpaid part of the revenue, and products and customers
\* sold no more than was ordered, for all tables.
THEOREM SummaryAgreesAtRest == Spec => []AmountsAgreeAtRest
<1>1. ReportInv => AmountsAgreeAtRest
  BY DEF ReportInv
<1>2. QED
  BY <1>1, ReportAlways, PTL

\* The statistics of a range of days agree with each other when nothing is
\* written meanwhile: the items come to the revenue unless their list is
\* full, for all baskets, prices and ranges (getOrderStats).
THEOREM StatisticsAgreeAtRest == Spec => []StatsAgreeAtRest
<1>1. ReportInv => StatsAgreeAtRest
  BY DEF ReportInv
<1>2. QED
  BY <1>1, ReportAlways, PTL

----------------------------------------------------------------------------
(***************************************************************************)
(* Types.                                                                  *)
(***************************************************************************)

WalkShape ==
  /\ DOMAIN walk = {"pc", "list", "page", "ids", "start", "seen", "repeats", "departed",
                    "departures", "arrivals", "cut"}
  /\ walk.pc \in {"idle", "ids", "rows", "total", "done"}

\* What a page may lead to: a query for the total, the next page, the end.
LEMMA AfterPage ==
  ASSUME NEW w, NEW n
  PROVE  \/ Totalled(w, n) = [w EXCEPT !.pc = "total"]
         \/ Totalled(w, n) = [w EXCEPT !.pc = "ids", !.page = w.page + 1]
         \/ Totalled(w, n) = [w EXCEPT !.pc = "done"]
BY DEF Totalled, Onward

LEMMA WalkShapeNext == WalkShape /\ [Next]_vars => WalkShape'
<1> SUFFICES ASSUME WalkShape, [Next]_vars PROVE WalkShape'
  OBVIOUS
<1> USE DEF WalkShape
<1>1. CASE CommitWrite
  <2>1. \/ walk' = walk
        \/ \E d, n, m : walk' = [walk EXCEPT !.departed = d, !.departures = n, !.arrivals = m]
    BY <1>1 DEF CommitWrite
  <2>2. QED
    BY <2>1
<1>2. CASE StartWalk
  <2>1. \E l, s : walk' = [NoWalk EXCEPT !.pc = "ids", !.list = l, !.page = 1, !.start = s]
    BY <1>2 DEF StartWalk
  <2>2. QED
    BY <2>1 DEF NoWalk
<1>3. CASE ReadIds
  <2>1. \E ids : walk' = [walk EXCEPT !.pc = "rows", !.ids = ids]
    BY <1>3 DEF ReadIds
  <2>2. QED
    BY <2>1
<1>4. CASE ReadRows
  <2>1. PICK rows, b :
          walk' = Show([Totalled(walk, Cardinality(rows)) EXCEPT !.cut = b], rows)
    BY <1>4 DEF ReadRows
  <2>2. PICK w : w = Totalled(walk, Cardinality(rows))
    OBVIOUS
  <2>3. \/ w = [walk EXCEPT !.pc = "total"]
        \/ w = [walk EXCEPT !.pc = "ids", !.page = walk.page + 1]
        \/ w = [walk EXCEPT !.pc = "done"]
    BY <2>2, AfterPage
  <2>4. DOMAIN w = DOMAIN walk /\ w.pc \in {"ids", "total", "done"}
    BY <2>3
  <2>5. walk' = Show([w EXCEPT !.cut = b], rows)
    BY <2>1, <2>2
  <2>6. QED
    BY <2>4, <2>5 DEF Show
<1>5. CASE ReadPage
  <2>1. \E seen, n, w : /\ walk' = [w EXCEPT !.seen = seen, !.repeats = n, !.ids = {}]
                        /\ DOMAIN w = DOMAIN walk
                        /\ w.pc \in {"idle", "ids", "rows", "total", "done"}
    <3>1. PICK ids :
            walk' = Show(
              CASE walk.list.of = "find" -> Totalled(walk, Cardinality(ids))
                [] walk.list.of = "searchProducts" /\ ids = {} -> [walk EXCEPT !.pc = "done"]
                [] OTHER -> [walk EXCEPT !.page = walk.page + 1], ids)
      BY <1>5 DEF ReadPage
    <3> DEFINE w == CASE walk.list.of = "find" -> Totalled(walk, Cardinality(ids))
                      [] walk.list.of = "searchProducts" /\ ids = {} -> [walk EXCEPT !.pc = "done"]
                      [] OTHER -> [walk EXCEPT !.page = walk.page + 1]
    <3>2. walk' = Show(w, ids)
      BY <3>1
    <3>3. \/ w = [walk EXCEPT !.pc = "total"]
          \/ w = [walk EXCEPT !.pc = "ids", !.page = walk.page + 1]
          \/ w = [walk EXCEPT !.pc = "done"]
          \/ w = [walk EXCEPT !.page = walk.page + 1]
      BY AfterPage
    <3> HIDE DEF w
    <3>4. DOMAIN w = DOMAIN walk /\ w.pc \in {"idle", "ids", "rows", "total", "done"}
      BY <3>3
    <3>5. QED
      BY ZenonT(30), <3>2, <3>4 DEF Show
  <2>2. QED
    BY <2>1
<1>6. CASE ReadTotal
  <2>1. \/ walk' = [walk EXCEPT !.pc = "ids", !.page = walk.page + 1]
        \/ walk' = [walk EXCEPT !.pc = "done"]
    BY <1>6 DEF ReadTotal, Onward
  <2>2. QED
    BY <2>1
<1>7. CASE walk' = NoWalk
  BY <1>7 DEF NoWalk
<1>8. CASE UNCHANGED walk
  BY <1>8
<1>9. QED
  BY <1>1, <1>2, <1>3, <1>4, <1>5, <1>6, <1>7, <1>8
     DEF Next, AskReport, FinishReport, AnswerQuery, Leave, vars

\* Tables, answers and walks keep their shape for all openings, writes and
\* lists, and no amount in an answer is ever negative.
THEOREM TypesOK == Spec => []TypeOK
<1>1. Init => WalkShape
  BY DEF Init, NoWalk, WalkShape
<1>2. WalkShape /\ [Next]_vars => WalkShape'
  BY WalkShapeNext
<1>3. ReportInv /\ WalkShape => TypeOK
  BY DEF ReportInv, TablesInv, WalkShape, TypeOK
<1>4. QED
  BY <1>1, <1>2, <1>3, ReportAlways, PTL DEF Spec
=============================================================================
