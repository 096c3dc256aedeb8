-------------------------- MODULE MCOrderFulfilment --------------------------
(***************************************************************************)
(* Instances of OrderFulfilment for TLC.  Business b1 of u1 has customer   *)
(* c1, business b2 of u2 has customer c2.                                  *)
(***************************************************************************)
EXTENDS OrderFulfilment, TLC

CONSTANTS u1, u2, b1, b2, c1, c2, p1, p2, s1

MCBusinessOwner == [b \in Businesses |-> IF b = b1 THEN u1 ELSE u2]
MCCustomerBusiness == [c \in Customers |-> IF c = c1 THEN b1 ELSE b2]

ProductItem(p, q) == [itemType |-> "product", resource |-> p, quantity |-> q]
ServiceItem(s) == [itemType |-> "service", resource |-> s, quantity |-> 1]

\* No item, one product, a product and a service, two products, a product
\* whose productId is absent.
SerialLists ==
  {<<>>, <<ProductItem(p1, 2)>>, <<ProductItem(p1, 1), ServiceItem(s1)>>,
   <<ProductItem(p1, 1), ProductItem(p2, 1)>>, <<ProductItem(None, 1)>>}

ShortLists == {<<ProductItem(p1, 1)>>, <<ProductItem(p1, 1), ProductItem(p1, 2)>>, <<ServiceItem(s1)>>}

SameProductTwice == {<<ProductItem(p1, 1), ProductItem(p1, 1)>>}

RequestSymmetry == Permutations(Requests)
ItemSymmetry == Permutations(Items)
Symmetry == RequestSymmetry \union ItemSymmetry
=============================================================================
