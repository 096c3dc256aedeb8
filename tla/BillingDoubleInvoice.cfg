SPECIFICATION Spec

CONSTANTS
  u1 = u1
  u2 = u2
  b1 = b1
  b2 = b2
  c1 = c1
  c2 = c2
  c3 = c3
  o1 = o1
  o2 = o2
  o3 = o3
  o4 = o4
  None = None
  Users = {u1, u2}
  Businesses = {b1, b2}
  Customers = {c1, c2, c3}
  Orders = {o1}
  Invoices = {i1, i2}
  Requests = {r1, r2}
  InvoiceTypeInputs = {"STANDARD"}
  OrderStatusInputs = {"completed"}
  InvoiceStatusInputs = {}
  Payments = {}
  MayFail = FALSE
  ReceivedBound = 0
  OrderLists <- SingleList
  BusinessOwner <- MCBusinessOwner
  CustomerBusiness <- MCCustomerBusiness
  OrderBusiness <- MCOrderBusiness
  OrderCustomer <- MCOrderCustomer
  OrderTotal <- MCOrderTotal

INVARIANT EachOrderBilledOnce
