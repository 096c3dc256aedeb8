SPECIFICATION Spec

CONSTANTS
  None = None
  p1 = p1
  p2 = p2
  s1 = s1
  c1 = c1
  c2 = c2
  Products = {p1, p2}
  Services = {s1}
  Customers = {c1, c2}
  Baskets <- MCBaskets
  Openings <- MCOpenings
  Payments = {12, 24}
  Stocks = {0, 2}
  MaxOrders = 5
  MaxInvoices = 4
  MaxCommits = 2
  Workloads <- MCWorkloads
  Dates <- MCDates
  TicksPerDay = 4
  PageSize = 2
  ListLimit = 3
  Shown = 1
  CancelledShown = 2
  ActivityLimit = 4

INVARIANT TypeOK
INVARIANT InvoicesAddUp
INVARIANT PagesMissOnlyWhatLeft
INVARIANT PagesRepeatOnlyForArrivals
INVARIANT CountsDriftByCommits
INVARIANT AmountsAgreeAtRest
INVARIANT FinancialAddsUp
INVARIANT StatsAgreeAtRest
INVARIANT ActivityShowsOrdersOnce
