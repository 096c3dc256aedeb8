SPECIFICATION Spec

CONSTANTS
  u1 = u1
  u2 = u2
  b1 = b1
  b2 = b2
  c1 = c1
  c2 = c2
  c3 = c3
  o1 = o1
  o2 = o2
  o3 = o3
  o4 = o4
  None = None
  Users = {u1, u2}
  Businesses = {b1, b2}
  Customers = {c1, c2, c3}
  Orders = {o1, o2, o3, o4}
  Invoices = {i1, i2}
  Requests = {r1, r2}
  InvoiceTypeInputs = {"PROFORMA"}
  OrderStatusInputs = {"completed"}
  InvoiceStatusInputs = {"PAID", "CANCELLED"}
  Payments = {5, 10, 20}
  MayFail = TRUE
  ReceivedBound = 60
  OrderLists <- OverlappingLists
  BusinessOwner <- MCBusinessOwner
  CustomerBusiness <- MCCustomerBusiness
  OrderBusiness <- MCOrderBusiness
  OrderCustomer <- MCOrderCustomer
  OrderTotal <- MCOrderTotal

INVARIANT TypeOK
INVARIANT AmountPaidWithinTotal
INVARIANT NoInventedPayment
INVARIANT LinksAreBacked
CONSTRAINT OnePaidInvoice
SYMMETRY RequestSymmetry
