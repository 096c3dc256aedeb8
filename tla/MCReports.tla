------------------------------ MODULE MCReports ------------------------------
(***************************************************************************)
(* Instances of Reports for TLC.  A behaviour takes one of the workloads:  *)
(* lists and reports read different tables, and readers do not disturb one *)
(* another, so the workloads together show what one large instance would.  *)
(***************************************************************************)
EXTENDS Reports

CONSTANTS p1, p2, s1, c1, c2

Item(resource, price, quantity) ==
  [resource |-> resource, price |-> price, quantity |-> quantity]

\* 10, 30 and 20 cents: the first two make VAT end in half a cent, the last
\* one the levies.
MCBaskets == {<<Item(p1, 10, 1)>>, <<Item(p1, 10, 2), Item(s1, 10, 1)>>, <<Item(p2, 20, 1)>>}

\* Four orders, the newest one last but for one stamp.
FourOrders ==
  <<Order(c1, <<Item(p1, 10, 1)>>, "pending", -10),
    Order(c2, <<Item(p1, 10, 2), Item(s1, 10, 1)>>, "completed", -8),
    Order(c1, <<Item(p2, 20, 1)>>, "pending", -4),
    Order(c1, <<Item(p1, 10, 1)>>, "cancelled", -6)>>

\* The same with every order pending: more than a page of them.
PendingOrders == [o \in DOMAIN FourOrders |-> [FourOrders[o] EXCEPT !.status = "pending"]]

Opening(Orders, Invoices) ==
  [orders |-> Orders, invoices |-> Invoices, stock |-> [p \in Products |-> IF p = p1 THEN 0 ELSE 2],
   members |-> Customers]

ThreeInvoices ==
  {<<Invoice(c1, x, 0, "DRAFT", -2, -9), Invoice(c2, y, 0, "OVERDUE", -5, -7),
     Invoice(c1, z, 0, "SENT", 2, -5)>> :
     x \in Taxed(10), y \in Taxed(30), z \in Taxed(20)}

Filter == [of |-> "getOrders", status |-> None, customer |-> None, from |-> None, to |-> None,
           min |-> None, max |-> None]

OrderLists ==
  {Filter, [Filter EXCEPT !.status = "pending"], [Filter EXCEPT !.customer = c1],
   [Filter EXCEPT !.of = "getCustomerOrders", !.customer = c1],
   [Filter EXCEPT !.of = "searchOrders", !.from = -3, !.to = 0, !.min = 10, !.max = 20]}

InvoiceLists ==
  {[Filter EXCEPT !.of = "getInvoices"],
   [Filter EXCEPT !.of = "getInvoices", !.status = "DRAFT", !.customer = c1],
   [Filter EXCEPT !.of = "getCustomerInvoices", !.customer = c1]}

NameLists == {[Filter EXCEPT !.of = "find"], [Filter EXCEPT !.of = "searchProducts"]}

Orders == Opening(FourOrders, <<>>)
Pending == Opening(PendingOrders, <<>>)
Bills == {Opening(FourOrders, i) : i \in ThreeInvoices}
Bill == CHOOSE b \in Bills : TRUE

MCOpenings == {Orders, Pending} \union Bills

Workload(opening, writes, n, queries, lists) ==
  [opening |-> opening, writes |-> writes, commits |-> n, queries |-> queries, lists |-> lists]

OrderWrites == {"SaveOrder", "UpdateOrderStatus"}
InvoiceWrites == {"SaveInvoice", "UpdateInvoicePayment", "UpdateInvoiceStatus"}

MCWorkloads ==
  {Workload(Orders, OrderWrites, 2, {}, OrderLists),
   Workload(Pending, OrderWrites, 2, {}, {[Filter EXCEPT !.status = "pending"]}),
   Workload(Orders, {"CreateCustomer", "DeleteCustomer"}, 2, {}, NameLists),
   Workload(Orders, OrderWrites, 2, {"total", "pending", "completed", "cancelled"}, {}),
   Workload(Orders, OrderWrites, 1, {"pending", "cancelled", "pendingOrders", "cancelledOrders"}, {}),
   Workload(Orders, {"SaveOrder"}, 1, StatsQuery, {}),
   Workload(Orders, {"UpdateOrderStatus", "UpdateProduct", "DeleteCustomer"}, 1,
     {"topProducts", "topCustomers", "outOfStock", "pending", "completed",
      "customerCount", "productCount"}, {}),
   Workload(Bill, InvoiceWrites, 2, {}, InvoiceLists),
   Workload(Bill, {"UpdateOrderStatus", "UpdateProduct"}, 2, ActivityQuery, {})}
  \union {Workload(b, InvoiceWrites, 1,
            {"financial", "unpaid", "overdue", "cancelledInvoices", "invoiceCount"}, {}) : b \in Bills}

MCDates == {[from |-> None, to |-> None], [from |-> -2, to |-> -2], [from |-> None, to |-> -2]}
=============================================================================
