-------------------------------- MODULE Books --------------------------------
(***************************************************************************)
(* The tables that lists, statistics and the dashboard are read from, and  *)
(* the writes that other requests commit to them.  The requests that lead  *)
(* to these writes are modelled in Billing, OrderFulfilment and Directory; *)
(* here a write is the one transaction that changes the table.  All rows   *)
(* belong to one business, the one that every query here is restricted to. *)
(*                                                                         *)
(* Amounts are whole cents: prices have two decimals at most and           *)
(* quantities are integers.                                                *)
(***************************************************************************)
EXTENDS Integers, Sequences, FiniteSets, Functions

CONSTANTS
  Products,
  Services,
  Customers,
  Baskets,      \* what one order can contain
  Openings,     \* orders, invoices, stock and customers that a behaviour begins with
  Payments,
  Stocks,       \* quantities that the owner can set a product to
  MaxOrders,    \* bound
  MaxInvoices,  \* bound
  MaxCommits,   \* bound
  None

OrderStatus == {"pending", "completed", "cancelled"}

InvoiceStatus == {"DRAFT", "SENT", "PAID", "PARTIALLY_PAID", "OVERDUE", "CANCELLED"}

OrderItem == [resource : Products \union Services, price : Nat, quantity : Nat \ {0}]

ASSUME BooksAssumption ==
  /\ IsFiniteSet(Products) /\ IsFiniteSet(Customers)
  /\ Baskets \subseteq Seq(OrderItem)
  /\ Payments \subseteq Nat \ {0}
  /\ Stocks \subseteq Nat
  /\ {MaxOrders, MaxInvoices, MaxCommits} \subseteq Nat

VARIABLES
  orders,    \* the Order table with its items; an id is a position
  invoices,  \* the Invoice table
  stock,     \* availableQuantity of each product
  members,   \* the Customer table
  commits    \* writes so far

tables == <<orders, invoices, stock, members, commits>>

----------------------------------------------------------------------------
(***************************************************************************)
(* Rows.                                                                   *)
(***************************************************************************)

\* Time passes with the commits.
Now == 2 * commits

\* A row is stamped when its transaction begins, so it may be stamped before
\* a row that is already there.  No two rows have the same stamp.
Stamps == {Now, Now - 3}

\* The rows of an opening were stamped before the first transaction began.
Before(rows) ==
  /\ \A i \in DOMAIN rows : rows[i].createdAt < -3
  /\ \A i, j \in DOMAIN rows : rows[i].createdAt = rows[j].createdAt => i = j

OrderRow ==
  [customer : Customers, items : Seq(OrderItem), totalAmount : Nat,
   status : OrderStatus, createdAt : Int, updatedAt : Int]

InvoiceRow ==
  [customer : Customers, subtotal : Nat, vatAmount : Nat, nhilAmount : Nat,
   getfundAmount : Nat, totalTax : Nat, totalAmount : Nat, amountPaid : Nat,
   status : InvoiceStatus, dueDate : Int, createdAt : Int]

SumOf(f(_), S) == SumFunctionOnSet([x \in S |-> f(x)], S)

TotalAmount(items) == SumOf(LAMBDA k : items[k].price * items[k].quantity, DOMAIN items)

Order(customer, items, status, createdAt) ==
  [customer |-> customer, items |-> items, totalAmount |-> TotalAmount(items),
   status |-> status, createdAt |-> createdAt, updatedAt |-> createdAt]

\* What a column with two decimals can make of n / d cents.  The service
\* computes in binary floating point, so a half may arrive above or below.
Rounded(n, d) ==
  {k \in {n \div d, n \div d + 1} : 2 * (k * d - n) <= d /\ 2 * (n - k * d) <= d}

\* The invoice columns for a subtotal: 15, 2.5, 2.5, 20 and 120 percent of it,
\* each rounded for itself.  The two levies are one expression.  The mutant
\* leaves the last levy out of the tax.
TaxWithoutGetfund(subtotal) ==
  {[subtotal |-> subtotal, vatAmount |-> vat, nhilAmount |-> levy, getfundAmount |-> levy,
    totalTax |-> tax, totalAmount |-> subtotal + tax] :
     vat \in Rounded(3 * subtotal, 20), levy \in Rounded(subtotal, 40),
     tax \in Rounded(7 * subtotal, 40)}
Taxed(subtotal) ==
  {[subtotal |-> subtotal, vatAmount |-> vat, nhilAmount |-> levy, getfundAmount |-> levy,
    totalTax |-> tax, totalAmount |-> total] :
     vat \in Rounded(3 * subtotal, 20), levy \in Rounded(subtotal, 40),
     tax \in Rounded(subtotal, 5), total \in Rounded(6 * subtotal, 5)}

Invoice(customer, t, amountPaid, status, dueDate, createdAt) ==
  [customer |-> customer, subtotal |-> t.subtotal, vatAmount |-> t.vatAmount,
   nhilAmount |-> t.nhilAmount, getfundAmount |-> t.getfundAmount,
   totalTax |-> t.totalTax, totalAmount |-> t.totalAmount, amountPaid |-> amountPaid,
   status |-> status, dueDate |-> dueDate, createdAt |-> createdAt]

\* The amounts that an invoice was stored with.
TaxColumns(invoice) ==
  [subtotal |-> invoice.subtotal, vatAmount |-> invoice.vatAmount,
   nhilAmount |-> invoice.nhilAmount, getfundAmount |-> invoice.getfundAmount,
   totalTax |-> invoice.totalTax, totalAmount |-> invoice.totalAmount]

\* A behaviour begins with rows that the services have stored.
ASSUME OpeningsAssumption ==
  \A opening \in Openings :
    /\ opening.orders \in Seq(OrderRow)
    /\ \A o \in DOMAIN opening.orders :
         opening.orders[o].totalAmount = TotalAmount(opening.orders[o].items)
    /\ opening.invoices \in Seq(InvoiceRow)
    /\ \A i \in DOMAIN opening.invoices :
         /\ TaxColumns(opening.invoices[i]) \in Taxed(opening.invoices[i].subtotal)
         /\ opening.invoices[i].amountPaid <= opening.invoices[i].totalAmount
    /\ Before(opening.orders) /\ Before(opening.invoices)
    /\ opening.stock \in [Products -> Nat]
    /\ opening.members \in SUBSET Customers

Opened(opening) ==
  /\ orders = opening.orders
  /\ invoices = opening.invoices
  /\ stock = opening.stock
  /\ members = opening.members
  /\ commits = 0

----------------------------------------------------------------------------
(***************************************************************************)
(* Writes.                                                                 *)
(***************************************************************************)

Commit ==
  /\ commits < MaxCommits
  /\ commits' = commits + 1

\* The last save of createOrder.
SaveOrder ==
  /\ Commit
  /\ Len(orders) < MaxOrders
  /\ \E c \in members, items \in Baskets, t \in Stamps :
       orders' = Append(orders, Order(c, items, "pending", t))
  /\ UNCHANGED <<invoices, stock, members>>

\* A save without a change writes nothing, not even the time.
UpdateOrderStatus ==
  /\ Commit
  /\ \E o \in DOMAIN orders, s \in OrderStatus :
       /\ s # orders[o].status
       /\ orders' = [orders EXCEPT ![o].status = s, ![o].updatedAt = Now]
  /\ UNCHANGED <<invoices, stock, members>>

\* createInvoice of one order; what it may bill is in Billing.
SaveInvoice ==
  /\ Commit
  /\ Len(invoices) < MaxInvoices
  /\ \E o \in DOMAIN orders, t \in Stamps, due \in {Now - 2, Now + 2} :
       \E taxed \in Taxed(orders[o].totalAmount) :
         invoices' = Append(invoices,
           Invoice(orders[o].customer, taxed, 0, "DRAFT", due, t))
  /\ UNCHANGED <<orders, stock, members>>

\* The mutant takes any payment.
AnyPayment(invoice, amount) == TRUE
PaymentFits(invoice, amount) == invoice.amountPaid + amount <= invoice.totalAmount

UpdateInvoicePayment ==
  /\ Commit
  /\ \E i \in DOMAIN invoices, amount \in Payments :
       LET paid == invoices[i].amountPaid + amount IN
       /\ PaymentFits(invoices[i], amount)
       /\ invoices' = [invoices EXCEPT ![i].amountPaid = paid,
            ![i].status = IF paid = invoices[i].totalAmount THEN "PAID" ELSE "PARTIALLY_PAID"]
  /\ UNCHANGED <<orders, stock, members>>

UpdateInvoiceStatus ==
  /\ Commit
  /\ \E i \in DOMAIN invoices, s \in InvoiceStatus :
       /\ s # invoices[i].status
       /\ invoices' = [invoices EXCEPT ![i].status = s]
  /\ UNCHANGED <<orders, stock, members>>

\* Updates of a product and the stock that orders take.
UpdateProduct ==
  /\ Commit
  /\ \E p \in Products, n \in Stocks :
       /\ n # stock[p]
       /\ stock' = [stock EXCEPT ![p] = n]
  /\ UNCHANGED <<orders, invoices, members>>

CreateCustomer ==
  /\ Commit
  /\ \E c \in Customers \ members : members' = members \union {c}
  /\ UNCHANGED <<orders, invoices, stock>>

\* Orders and invoices keep the id and the name of a deleted customer.
DeleteCustomer ==
  /\ Commit
  /\ \E c \in members : members' = members \ {c}
  /\ UNCHANGED <<orders, invoices, stock>>

----------------------------------------------------------------------------
TablesOK ==
  /\ orders \in Seq(OrderRow)
  /\ invoices \in Seq(InvoiceRow)
  /\ stock \in [Products -> Nat]
  /\ members \in SUBSET Customers
  /\ commits \in Nat

(***************************************************************************)
(* The columns of an invoice are rounded one by one, and still the total   *)
(* is exactly the subtotal with the tax, and the three parts of the tax    *)
(* that the dashboard breaks it down to miss it by one cent at most        *)
(* (InvoiceService.createInvoice; the decimal columns of the entity).      *)
(***************************************************************************)
AddsUp(invoice) ==
  LET parts == invoice.vatAmount + invoice.nhilAmount + invoice.getfundAmount IN
  /\ invoice.totalAmount = invoice.subtotal + invoice.totalTax
  /\ parts - invoice.totalTax \in -1 .. 1

InvoicesAddUp == \A i \in DOMAIN invoices : AddsUp(invoices[i])
=============================================================================
