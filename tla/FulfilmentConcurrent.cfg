SPECIFICATION Spec

CONSTANTS
  u1 = u1
  u2 = u2
  b1 = b1
  b2 = b2
  c1 = c1
  c2 = c2
  p1 = p1
  p2 = p2
  s1 = s1
  None = None
  Users = {u1, u2}
  Businesses = {b1, b2}
  Customers = {c1, c2}
  Products = {p1}
  Services = {s1}
  Items = {n1, n2}
  Orders = {o1}
  Requests = {r1, r2}
  ItemLists <- ShortLists
  CustomerInputs = {c1, c2}
  QuantityInputs = {1, 2}
  MayFail = TRUE
  BusinessOwner <- MCBusinessOwner
  CustomerBusiness <- MCCustomerBusiness

INVARIANT TypeOK
INVARIANT NoInventedStock
INVARIANT OrdersFollowUpdates
INVARIANT OrderedGoodsExist
SYMMETRY Symmetry
