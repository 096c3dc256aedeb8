SPECIFICATION FairSpec

CONSTANTS
  u1 = u1
  u2 = u2
  b1 = b1
  b2 = b2
  c1 = c1
  c2 = c2
  p1 = p1
  p2 = p2
  s1 = s1
  None = None
  Users = {u1}
  Businesses = {b1}
  Customers = {c1}
  Products = {p1, p2}
  Services = {s1}
  Items = {n1, n2}
  Orders = {o1, o2}
  Requests = {r1}
  ItemLists <- SerialLists
  CustomerInputs = {c1}
  QuantityInputs = {1, 3}
  MayFail = FALSE
  BusinessOwner <- MCBusinessOwner
  CustomerBusiness <- MCCustomerBusiness

PROPERTY ImplementsStock
PROPERTY TakenGoodsGetOrdered
CHECK_DEADLOCK FALSE
