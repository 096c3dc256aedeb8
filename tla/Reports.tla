------------------------------- MODULE Reports -------------------------------
(***************************************************************************)
(* What is read from the tables of Books: lists by page, the statistics of *)
(* orders and the summary of the dashboard.                                *)
(*                                                                         *)
(* A report is several queries at once (Promise.all) and a list several    *)
(* requests one after another; nothing holds the tables still in between,  *)
(* so every query sees the tables of its own moment.  Readers write        *)
(* nothing: one report and one walk through a list are enough.             *)
(***************************************************************************)
EXTENDS Books, SequencesExt

CONSTANTS
  Workloads,      \* bound: what a behaviour begins with, writes and reads
  Dates,          \* ranges of days that statistics are asked for
  TicksPerDay,
  PageSize,       \* limit of the lists (10 or 20 unless the client says more)
  ListLimit,      \* limit of the lists in a report (10)
  Shown,          \* entries of each list in the recent activity (2)
  CancelledShown, \* cancelled orders in the recent activity (5)
  ActivityLimit   \* entries of the recent activity (10)

Write ==
  {"SaveOrder", "UpdateOrderStatus", "SaveInvoice", "UpdateInvoicePayment",
   "UpdateInvoiceStatus", "UpdateProduct", "CreateCustomer", "DeleteCustomer"}

\* The queries behind getDashboardSummary and behind getOrderStats.
SummaryQuery ==
  {"financial", "unpaid", "total", "pending", "completed", "cancelled",
   "customerCount", "productCount", "invoiceCount", "pendingOrders", "outOfStock",
   "overdue", "topProducts", "topCustomers", "cancelledOrders", "cancelledInvoices"}

StatsQuery == {"totalRevenue", "orderCountByStatus", "avgOrderValue", "topItems"}

\* The lists, by the service method that reads them, and their parameters.
OrderList == {"getOrders", "getCustomerOrders", "searchOrders"}
InvoiceList == {"getInvoices", "getCustomerInvoices"}
UnorderedList == {"find", "searchProducts"}

ASSUME ReportsAssumption ==
  /\ \A w \in Workloads :
       /\ w.opening \in Openings
       /\ w.commits \in 0 .. MaxCommits
       /\ w.writes \subseteq Write
       /\ w.queries \in (SUBSET SummaryQuery) \union {StatsQuery}
       /\ \A l \in w.lists : l.of \in OrderList \union InvoiceList \union UnorderedList
  /\ {TicksPerDay, PageSize, ListLimit, Shown, CancelledShown, ActivityLimit}
       \subseteq Nat \ {0}

VARIABLES
  workload,
  report,  \* the report that is being read
  walk     \* the list that a client is walking through

vars == <<tables, workload, report, walk>>

----------------------------------------------------------------------------
(***************************************************************************)
(* Lists.                                                                  *)
(***************************************************************************)

Newest(a, b) == a > b
Oldest(a, b) == a < b

\* The orders in which ORDER BY may return the rows S: each of them that is
\* sorted by the key, and any order at all without a key.
Sorted(S, key(_), before(_, _)) ==
  {s \in SetToSeqs(S) : \A j \in 1 .. Len(s) - 1 : ~before(key(s[j + 1]), key(s[j]))}

First(limit, s) == SubSeq(s, 1, Min({limit, Len(s)}))

Given(parameter) == parameter # None

getOrders(l) ==
  {o \in DOMAIN orders :
     /\ Given(l.status) => orders[o].status = l.status
     /\ Given(l.customer) => orders[o].customer = l.customer}

getCustomerOrders(l) == {o \in DOMAIN orders : orders[o].customer = l.customer}

\* A range of days takes its last day in.
Within(t, days) ==
  /\ Given(days.from) => t >= days.from * TicksPerDay
  /\ Given(days.to) => t < (days.to + 1) * TicksPerDay

\* The text is looked for in the order's number and in the customer's name.
searchOrders(l) ==
  {o \in DOMAIN orders :
     /\ Given(l.customer) => orders[o].customer = l.customer
     /\ Within(orders[o].createdAt, l)
     /\ Given(l.min) => orders[o].totalAmount >= l.min
     /\ Given(l.max) => orders[o].totalAmount <= l.max}

getInvoices(l) ==
  {i \in DOMAIN invoices :
     /\ Given(l.status) => invoices[i].status = l.status
     /\ Given(l.customer) => invoices[i].customer = l.customer}

getCustomerInvoices(l) == {i \in DOMAIN invoices : invoices[i].customer = l.customer}

\* Names and prices of products are not modelled: what the filters let pass is
\* every product.
searchProductsAndServices(l) == Products

Matching(l) ==
  CASE l.of = "getOrders" -> getOrders(l)
    [] l.of = "getCustomerOrders" -> getCustomerOrders(l)
    [] l.of = "searchOrders" -> searchOrders(l)
    [] l.of = "getInvoices" -> getInvoices(l)
    [] l.of = "getCustomerInvoices" -> getCustomerInvoices(l)
    [] l.of = "find" -> members
    [] l.of = "searchProducts" -> searchProductsAndServices(l)

\* createdAt DESC.  The mutant sorts by updatedAt.
LastChangedFirst(l) ==
  CASE l.of \in OrderList ->
         Sorted(Matching(l), LAMBDA o : orders[o].updatedAt, Newest)
    [] l.of \in InvoiceList ->
         Sorted(Matching(l), LAMBDA i : invoices[i].createdAt, Newest)
    [] OTHER -> SetToSeqs(Matching(l))
Listed(l) ==
  CASE l.of \in OrderList ->
         Sorted(Matching(l), LAMBDA o : orders[o].createdAt, Newest)
    [] l.of \in InvoiceList ->
         Sorted(Matching(l), LAMBDA i : invoices[i].createdAt, Newest)
    [] OTHER -> SetToSeqs(Matching(l))

\* Pages are numbered from 1.  The mutant numbers them from 0.
SkippedFromZero(page) == page * PageSize
Skipped(page) == (page - 1) * PageSize

Page(s, page) == SubSeq(s, Skipped(page) + 1, Min({Skipped(page) + PageSize, Len(s)}))

TotalPages(total) == (total + PageSize - 1) \div PageSize

NoWalk ==
  [pc |-> "idle", list |-> None, page |-> 0, ids |-> {}, start |-> {}, seen |-> {},
   repeats |-> 0, departed |-> {}, departures |-> 0, arrivals |-> 0, cut |-> FALSE]

StartWalk ==
  /\ walk.pc = "idle"
  /\ \E l \in workload.lists :
       walk' = [NoWalk EXCEPT !.pc = "ids", !.list = l, !.page = 1, !.start = Matching(l)]
  /\ UNCHANGED <<tables, workload, report>>

\* Rows that reach the client.
Show(w, ids) ==
  [w EXCEPT !.seen = @ \union ids, !.repeats = @ + Cardinality(ids \intersect w.seen),
            !.ids = {}]

\* A page of n rows answers for the total by itself, with the rows skipped
\* before it, unless it is full, or empty behind the first page.
NeedsCount(page, n) == n = PageSize \/ (n = 0 /\ page > 1)

\* The client goes on to the last page that the answer speaks of.
Onward(w, total) ==
  IF w.page < TotalPages(total) THEN [w EXCEPT !.pc = "ids", !.page = @ + 1]
  ELSE [w EXCEPT !.pc = "done"]

Totalled(w, n) ==
  IF NeedsCount(w.page, n) THEN [w EXCEPT !.pc = "total"]
  ELSE Onward(w, Skipped(w.page) + n)

\* getManyAndCount with joins asks for the ids of the page, for their rows
\* where the conditions still hold, and where it needs to for the total.
ReadIds ==
  /\ walk.pc = "ids"
  /\ walk.list.of \notin UnorderedList
  /\ \E s \in Listed(walk.list) :
       walk' = [walk EXCEPT !.pc = "rows", !.ids = ToSet(Page(s, walk.page))]
  /\ UNCHANGED <<tables, workload, report>>

\* A full page of ids whose rows are fewer by then ends the walk: history.
ReadRows ==
  /\ walk.pc = "rows"
  /\ \E rows \in {walk.ids \intersect Matching(walk.list)} :
       \E w \in {Totalled(walk, Cardinality(rows))} :
         walk' = Show([w EXCEPT !.cut = w.pc = "done" /\ Cardinality(walk.ids) = PageSize], rows)
  /\ UNCHANGED <<tables, workload, report>>

\* Customers, products and services have no joins and no ORDER BY.  A search
\* for products and services gives no total; the client goes on until a page
\* is empty.
ReadPage ==
  /\ walk.pc = "ids"
  /\ walk.list.of \in UnorderedList
  /\ \E s \in Listed(walk.list) :
       LET ids == ToSet(Page(s, walk.page)) IN
       walk' = Show(
         CASE walk.list.of = "find" -> Totalled(walk, Cardinality(ids))
           [] walk.list.of = "searchProducts" /\ ids = {} -> [walk EXCEPT !.pc = "done"]
           [] OTHER -> [walk EXCEPT !.page = @ + 1], ids)
  /\ UNCHANGED <<tables, workload, report>>

ReadTotal ==
  /\ walk.pc = "total"
  /\ walk' = Onward(walk, Cardinality(Matching(walk.list)))
  /\ UNCHANGED <<tables, workload, report>>

----------------------------------------------------------------------------
(***************************************************************************)
(* Queries of the dashboard.                                               *)
(***************************************************************************)

OrdersWith(S) == {o \in DOMAIN orders : orders[o].status \in S}
InvoicesWith(S) == {i \in DOMAIN invoices : invoices[i].status \in S}

\* getOrderAnalytics.  The mutant spells a status as the interfaces do.
CountedByName(status) ==
  IF status = "completed" THEN 0 ELSE Cardinality(OrdersWith({status}))
Counted(status) == Cardinality(OrdersWith({status}))

\* SUM over the invoices that are not cancelled.  The mutant sums one column
\* over all of them.
FinancialWithAllTax ==
  LET S == InvoicesWith(InvoiceStatus \ {"CANCELLED"}) IN
  [count |-> Cardinality(S),
   totalRevenue |-> SumOf(LAMBDA i : invoices[i].totalAmount, S),
   totalTax |-> SumOf(LAMBDA i : invoices[i].totalTax, DOMAIN invoices),
   vatAmount |-> SumOf(LAMBDA i : invoices[i].vatAmount, S),
   nhilAmount |-> SumOf(LAMBDA i : invoices[i].nhilAmount, S),
   getfundAmount |-> SumOf(LAMBDA i : invoices[i].getfundAmount, S),
   netRevenue |-> SumOf(LAMBDA i : invoices[i].subtotal, S)]
getFinancialSummary ==
  LET S == InvoicesWith(InvoiceStatus \ {"CANCELLED"}) IN
  [count |-> Cardinality(S),
   totalRevenue |-> SumOf(LAMBDA i : invoices[i].totalAmount, S),
   totalTax |-> SumOf(LAMBDA i : invoices[i].totalTax, S),
   vatAmount |-> SumOf(LAMBDA i : invoices[i].vatAmount, S),
   nhilAmount |-> SumOf(LAMBDA i : invoices[i].nhilAmount, S),
   getfundAmount |-> SumOf(LAMBDA i : invoices[i].getfundAmount, S),
   netRevenue |-> SumOf(LAMBDA i : invoices[i].subtotal, S)]

Due(i) == invoices[i].totalAmount - invoices[i].amountPaid

\* The mutant forgets that an invoice may be overdue.
UnpaidBeforeDue == {"DRAFT", "SENT", "PARTIALLY_PAID"}
Unpaid == {"DRAFT", "SENT", "PARTIALLY_PAID", "OVERDUE"}

getUnpaidInvoices ==
  [amount |-> SumOf(Due, InvoicesWith(Unpaid)), count |-> Cardinality(InvoicesWith(Unpaid))]

getOverdueInvoices ==
  LET late == {i \in InvoicesWith(InvoiceStatus \ {"PAID", "CANCELLED"}) :
                 invoices[i].dueDate < Now}
  IN {[k \in DOMAIN s |-> [id |-> s[k], amount |-> Due(s[k]), dueDate |-> invoices[s[k]].dueDate]] :
        s \in {First(ListLimit, t) : t \in Sorted(late, LAMBDA i : invoices[i].dueDate, Oldest)}}

getCancelledInvoicesAnalytics ==
  [total |-> Cardinality(InvoicesWith({"CANCELLED"})),
   totalRevenueLost |-> SumOf(LAMBDA i : invoices[i].totalAmount, InvoicesWith({"CANCELLED"}))]

getPendingOrders ==
  {First(ListLimit, s) : s \in Sorted(OrdersWith({"pending"}), LAMBDA o : orders[o].createdAt, Newest)}

\* The mutant forgets the condition on the status.
AnyOrders == DOMAIN orders
CancelledOrders == OrdersWith({"cancelled"})

\* All of them, in no particular order.
getCancelledOrdersAnalytics ==
  {[k \in DOMAIN s |-> [id |-> s[k], amount |-> orders[s[k]].totalAmount,
                        cancelledAt |-> orders[s[k]].updatedAt]] :
     s \in SetToSeqs(CancelledOrders)}

\* The items for resource x in the orders S, and what they come to.
ItemsFor(x, S) ==
  UNION {{<<o, k>> : k \in {j \in DOMAIN orders[o].items : orders[o].items[j].resource = x}} :
           o \in S}

Ordering(x, S) == {n[1] : n \in ItemsFor(x, S)}

RevenueOf(x, S) ==
  SumOf(LAMBDA n : orders[n[1]].items[n[2]].price * orders[n[1]].items[n[2]].quantity,
        ItemsFor(x, S))

Sold == OrdersWith(OrderStatus \ {"cancelled"})

\* The left joins end as inner ones: status <> 'cancelled' drops the products
\* that nobody ordered.
getTopSellingProducts ==
  LET row(p) == [id |-> p, revenue |-> RevenueOf(p, Sold), orders |-> Cardinality(Ordering(p, Sold))]
      rows == {row(p) : p \in {x \in Products : Ordering(x, Sold) # {}}}
  IN {First(ListLimit, s) : s \in Sorted(rows, LAMBDA r : r.revenue, Newest)}

\* The last sale counts cancelled orders too.
getOutOfStockProducts ==
  LET stamps(p) == {orders[o].createdAt : o \in Ordering(p, DOMAIN orders)}
      row(p) == [id |-> p, lastSold |-> IF stamps(p) = {} THEN None ELSE Max(stamps(p))]
  IN {First(ListLimit, s) : s \in SetToSeqs({row(p) : p \in {x \in Products : stock[x] = 0}})}

getTopCustomers ==
  LET of(c) == {o \in Sold : orders[o].customer = c}
      row(c) == [id |-> c, revenue |-> SumOf(LAMBDA o : orders[o].totalAmount, of(c)),
                 orders |-> Cardinality(of(c))]
  IN {First(ListLimit, s) :
        s \in Sorted({row(c) : c \in {m \in members : of(m) # {}}}, LAMBDA r : r.revenue, Newest)}

----------------------------------------------------------------------------
(***************************************************************************)
(* Statistics of orders: four queries, each with the range of days.        *)
(***************************************************************************)

InTotals(days) == {o \in DOMAIN orders : Within(orders[o].createdAt, days)}

InCounts(days) == {o \in DOMAIN orders : Within(orders[o].createdAt, days)}

\* The mutant leaves the last day out.
ItemsBeforeLastDay(days) ==
  {o \in DOMAIN orders :
     /\ Given(days.from) => orders[o].createdAt >= days.from * TicksPerDay
     /\ Given(days.to) => orders[o].createdAt < days.to * TicksPerDay}
InItems(days) == {o \in DOMAIN orders : Within(orders[o].createdAt, days)}

Revenue(S) == SumOf(LAMBDA o : orders[o].totalAmount, S)

\* Rows are grouped by the status in the table, in lower case; the object they
\* are entered into has the names in upper case.
orderCountByStatus(days) ==
  LET statusCounts == [s \in {"PENDING", "COMPLETED", "CANCELLED"} |-> 0]
      rows == {[status |-> s, count |-> Cardinality(InCounts(days) \intersect OrdersWith({s}))] :
                 s \in OrderStatus}
  IN [s \in DOMAIN statusCounts |->
        IF \E r \in rows : r.status = s THEN (CHOOSE r \in rows : r.status = s).count
        ELSE statusCounts[s]]

avgOrderValue(days) ==
  IF InTotals(days) = {} THEN 0 ELSE Revenue(InTotals(days)) \div Cardinality(InTotals(days))

topItems(days) ==
  LET row(x) == [name |-> x, revenue |-> RevenueOf(x, InItems(days)),
                 orderCount |-> Cardinality(ItemsFor(x, InItems(days)))]
      rows == {row(x) : x \in {y \in Products \union Services : ItemsFor(y, InItems(days)) # {}}}
  IN {First(ListLimit, s) : s \in Sorted(rows, LAMBDA r : r.revenue, Newest)}

----------------------------------------------------------------------------
(***************************************************************************)
(* Reports.                                                                *)
(***************************************************************************)

Answers(q, days) ==
  CASE q = "financial" -> {getFinancialSummary}
    [] q = "unpaid" -> {getUnpaidInvoices}
    [] q = "total" -> {Len(orders)}
    [] q \in OrderStatus -> {Counted(q)}
    [] q = "customerCount" -> {Cardinality(members)}
    [] q = "productCount" -> {Cardinality(Products)}
    [] q = "invoiceCount" -> {Len(invoices)}
    [] q = "pendingOrders" -> getPendingOrders
    [] q = "outOfStock" -> getOutOfStockProducts
    [] q = "overdue" -> getOverdueInvoices
    [] q = "topProducts" -> getTopSellingProducts
    [] q = "topCustomers" -> getTopCustomers
    [] q = "cancelledOrders" -> getCancelledOrdersAnalytics
    [] q = "cancelledInvoices" -> {getCancelledInvoicesAnalytics}
    [] q = "totalRevenue" -> {Revenue(InTotals(days))}
    [] q = "orderCountByStatus" -> {orderCountByStatus(days)}
    [] q = "avgOrderValue" -> {avgOrderValue(days)}
    [] q = "topItems" -> topItems(days)

NoReport ==
  [pc |-> "idle", days |-> None, answers |-> <<>>, activity |-> <<>>,
   commits |-> 0, moved |-> {}]

\* getDashboardSummary and getOrderStats ask all their queries; a behaviour
\* follows some of them, and the others are of no account.
AskReport ==
  /\ report.pc = "idle"
  /\ workload.queries # {}
  /\ \E days \in Dates : report' = [NoReport EXCEPT !.pc = "asking", !.days = days]
  /\ UNCHANGED <<tables, workload, walk>>

Noted(answers, q, a) ==
  [k \in DOMAIN answers \union {q} |-> IF k = q THEN a ELSE answers[k]]

AnswerQuery(q) ==
  /\ report.pc = "asking"
  /\ q \in workload.queries \ DOMAIN report.answers
  /\ \E a \in Answers(q, report.days) :
       report' = [report EXCEPT !.answers = Noted(@, q, a)]
  /\ UNCHANGED <<tables, workload, walk>>

\* buildRecentActivity: the first entries of four lists, newest first.  A
\* product that was never sold is out of stock since now.
Entry(type, id, timestamp) == [type |-> type, id |-> id, timestamp |-> timestamp]

RecentActivity(answers) ==
  LET pending == First(Shown, answers["pendingOrders"])
      overdue == First(Shown, answers["overdue"])
      empty == First(Shown, answers["outOfStock"])
      cancelled == First(CancelledShown, answers["cancelledOrders"])
      entries ==
        {Entry("new_order", o, orders[o].createdAt) : o \in ToSet(pending)}
          \union {Entry("invoice_overdue", i.id, i.dueDate) : i \in ToSet(overdue)}
          \union {Entry("product_out_of_stock", p.id,
                        IF p.lastSold = None THEN Now ELSE p.lastSold) : p \in ToSet(empty)}
          \union {Entry("order_cancelled", o.id, o.cancelledAt) : o \in ToSet(cancelled)}
  IN {First(ActivityLimit, s) : s \in Sorted(entries, LAMBDA e : e.timestamp, Newest)}

ActivityQuery == {"pendingOrders", "overdue", "outOfStock", "cancelledOrders"}

FinishReport ==
  /\ report.pc = "asking"
  /\ DOMAIN report.answers = workload.queries
  /\ IF ActivityQuery \subseteq workload.queries
     THEN \E activity \in RecentActivity(report.answers) :
            report' = [report EXCEPT !.pc = "done", !.activity = activity]
     ELSE report' = [report EXCEPT !.pc = "done"]
  /\ UNCHANGED <<tables, workload, walk>>

\* The client has the answer and may ask again.
Leave ==
  \/ report.pc = "done" /\ report' = NoReport /\ UNCHANGED <<tables, workload, walk>>
  \/ walk.pc = "done" /\ walk' = NoWalk /\ UNCHANGED <<tables, workload, report>>

----------------------------------------------------------------------------
Init ==
  /\ workload \in Workloads
  /\ Opened(workload.opening)
  /\ report = NoReport
  /\ walk = NoWalk

Written ==
  \/ "SaveOrder" \in workload.writes /\ SaveOrder
  \/ "UpdateOrderStatus" \in workload.writes /\ UpdateOrderStatus
  \/ "SaveInvoice" \in workload.writes /\ SaveInvoice
  \/ "UpdateInvoicePayment" \in workload.writes /\ UpdateInvoicePayment
  \/ "UpdateInvoiceStatus" \in workload.writes /\ UpdateInvoiceStatus
  \/ "UpdateProduct" \in workload.writes /\ UpdateProduct
  \/ "CreateCustomer" \in workload.writes /\ CreateCustomer
  \/ "DeleteCustomer" \in workload.writes /\ DeleteCustomer

\* A write, and what the readers in progress miss of it: history only.
CommitWrite ==
  /\ commits < workload.commits
  /\ Written
  /\ workload' = workload
  /\ report' =
       IF report.pc = "asking"
       THEN [report EXCEPT !.commits = @ + 1,
              !.moved = @ \union {o \in DOMAIN orders : orders'[o].status # orders[o].status}]
       ELSE report
  /\ IF walk.pc \in {"ids", "rows", "total"}
     THEN \E l \in {walk.list}, before \in {Matching(walk.list)} :
            walk' = [walk EXCEPT !.departed = @ \union (before \ Matching(l)'),
                                 !.departures = @ + Cardinality(before \ Matching(l)'),
                                 !.arrivals = @ + Cardinality(Matching(l)' \ before)]
     ELSE walk' = walk

Next ==
  \/ CommitWrite
  \/ StartWalk \/ ReadIds \/ ReadRows \/ ReadPage \/ ReadTotal
  \/ AskReport \/ FinishReport \/ Leave
  \/ \E q \in SummaryQuery \union StatsQuery : AnswerQuery(q)

Spec == Init /\ [][Next]_vars

----------------------------------------------------------------------------
(***************************************************************************)
(* Properties.                                                             *)
(***************************************************************************)

AnswerOK(q, a) ==
  CASE q \in {"total", "pending", "completed", "cancelled", "customerCount", "productCount",
             "invoiceCount", "totalRevenue", "avgOrderValue"} -> a \in Nat
    [] q = "unpaid" -> a \in [amount : Nat, count : Nat]
    [] q = "cancelledInvoices" -> a \in [total : Nat, totalRevenueLost : Nat]
    [] q = "overdue" -> \A k \in DOMAIN a : a[k].amount \in Nat
    [] q \in {"financial", "orderCountByStatus"} -> \A f \in DOMAIN a : a[f] \in Nat
    [] OTHER -> a \in Seq({a[k] : k \in DOMAIN a})

\* Tables, answers and walks have the shape that entities and services give
\* them; no amount in an answer is negative.
TypeOK ==
  /\ TablesOK
  /\ workload \in Workloads
  /\ report.pc \in {"idle", "asking", "done"}
  /\ DOMAIN report.answers \subseteq workload.queries
  /\ \A q \in DOMAIN report.answers : AnswerOK(q, report.answers[q])
  /\ walk.pc \in {"idle", "ids", "rows", "total", "done"}

\* A client that walks through a list page by page while orders and invoices
\* are written misses a row that was in the list all the time only if another
\* row left the list meanwhile: a list without a filter on the status misses
\* nothing (getOrders, getCustomerOrders, searchOrders, getInvoices,
\* getCustomerInvoices: createdAt DESC with skip).  It misses no more rows than
\* left, unless one left between the ids and the rows of a full page: that page
\* is short then, the total is worked out from it, and the client stops there
\* with all later pages unread.
PagesMissOnlyWhatLeft ==
  walk.pc = "done" /\ walk.list.of \notin UnorderedList =>
    IF walk.cut THEN walk.departed # {}
    ELSE Cardinality(walk.start \ (walk.departed \union walk.seen)) <= walk.departures

\* Such a client sees a row twice at most once for each row that came into
\* the list meanwhile, wherever among the others its timestamp puts it.
PagesRepeatOnlyForArrivals ==
  walk.list # None /\ walk.list.of \notin UnorderedList => walk.repeats <= walk.arrivals

Finished(queries) == report.pc = "done" /\ queries \subseteq workload.queries
Answered(q) == report.answers[q]

Near(a, b, d) == a - b <= d /\ b - a <= d

\* The numbers of orders in one summary differ by what was committed while it
\* was read, and not by more: the total from the sum of the states, the
\* list of pending orders from their number up to its limit, the list of
\* cancelled orders from theirs (getDashboardSummary asks seven queries).
CountsDriftByCommits ==
  /\ Finished({"total", "pending", "completed", "cancelled"}) =>
       Near(Answered("total"), Answered("pending") + Answered("completed") + Answered("cancelled"),
            report.commits)
  /\ Finished({"pending", "pendingOrders"}) =>
       Near(Len(Answered("pendingOrders")), Min({ListLimit, Answered("pending")}), report.commits)
  /\ Finished({"cancelled", "cancelledOrders"}) =>
       Near(Len(Answered("cancelledOrders")), Answered("cancelled"), report.commits)

\* With nothing written while it is read, a summary's amounts agree across
\* the queries: what is overdue is part of what is unpaid, what is unpaid part
\* of the revenue, unpaid and cancelled invoices are different ones, and
\* neither the best products nor the best customers sold more than is ordered.
AmountsAgreeAtRest ==
  report.commits = 0 =>
    /\ Finished({"unpaid", "overdue"}) =>
         SumOf(LAMBDA k : Answered("overdue")[k].amount, DOMAIN Answered("overdue"))
           <= Answered("unpaid").amount
    /\ Finished({"unpaid", "financial"}) =>
         Answered("unpaid").amount <= Answered("financial").totalRevenue
    /\ Finished({"unpaid", "cancelledInvoices", "invoiceCount"}) =>
         Answered("unpaid").count + Answered("cancelledInvoices").total <= Answered("invoiceCount")
    /\ Finished({"topProducts", "pending", "completed"}) =>
         \A p \in ToSet(Answered("topProducts")) :
           p.orders <= Answered("pending") + Answered("completed")
    /\ Finished({"topCustomers", "pending", "completed"}) =>
         SumOf(LAMBDA k : Answered("topCustomers")[k].orders, DOMAIN Answered("topCustomers"))
           <= Answered("pending") + Answered("completed")

\* The money on the dashboard adds up whenever it is read: revenue is net
\* revenue and tax, and the three taxes of the breakdown miss the total tax by
\* a cent for each invoice at most (getFinancialSummary, one query over
\* columns that were rounded one by one).
FinancialAddsUp ==
  "financial" \in DOMAIN report.answers =>
    LET f == Answered("financial") IN
    /\ f.totalRevenue = f.netRevenue + f.totalTax
    /\ Near(f.vatAmount + f.nhilAmount + f.getfundAmount, f.totalTax, f.count)

\* With nothing written meanwhile, the four answers of getOrderStats, which
\* build the range of days three times, are about the same orders: the items
\* come to the total revenue unless their list is full.
StatsAgreeAtRest ==
  Finished(StatsQuery) /\ report.commits = 0 =>
    LET top == Answered("topItems")
        revenue == SumOf(LAMBDA k : top[k].revenue, DOMAIN top)
    IN /\ revenue <= Answered("totalRevenue")
       /\ Len(top) < ListLimit => revenue = Answered("totalRevenue")
       /\ Answered("avgOrderValue") <= Answered("totalRevenue")

\* The recent activity tells of one order both that it is new and that it was
\* cancelled only when its status changed while the summary was read.
ActivityShowsOrdersOnce ==
  Finished(ActivityQuery) =>
    \A e, f \in ToSet(report.activity) :
      e.type = "new_order" /\ f.type = "order_cancelled" /\ e.id = f.id => e.id \in report.moved

\* docs/ORDER_SEARCH_AND_STATS.md: orderCountByStatus is the breakdown of
\* orders by status.  It says nothing of orders: all its numbers are zero.
OrdersCountedByStatus ==
  Finished(StatsQuery) /\ report.commits = 0 =>
    LET counts == Answered("orderCountByStatus") IN
    counts["PENDING"] + counts["COMPLETED"] + counts["CANCELLED"]
      = Cardinality(InCounts(report.days))
=============================================================================
