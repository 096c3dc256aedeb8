SPECIFICATION FairSpec

CONSTANTS
  u1 = u1
  u2 = u2
  b1 = b1
  b2 = b2
  c1 = c1
  c2 = c2
  c3 = c3
  o1 = o1
  o2 = o2
  o3 = o3
  o4 = o4
  None = None
  Users = {u1, u2}
  Businesses = {b1, b2}
  Customers = {c1, c2, c3}
  Orders = {o1, o2}
  Invoices = {i1, i2}
  Requests = {r1}
  InvoiceTypeInputs = {"STANDARD", "PROFORMA"}
  OrderStatusInputs = {"pending", "completed"}
  InvoiceStatusInputs = {"SENT", "CANCELLED"}
  Payments = {0, 4, 5, 20}
  MayFail = FALSE
  ReceivedBound = 50
  OrderLists <- SerialLists
  BusinessOwner <- MCBusinessOwner
  CustomerBusiness <- MCCustomerBusiness
  OrderBusiness <- MCOrderBusiness
  OrderCustomer <- MCOrderCustomer
  OrderTotal <- MCOrderTotal

INVARIANT BilledOrdersLinkBack
INVARIANT NoOverpayment
INVARIANT StatusMatchesAmount
PROPERTY ImplementsLedger
PROPERTY BilledOrdersGetLinked
