--------------------------- MODULE OrderFulfilment ---------------------------
(***************************************************************************)
(* Taking an order: createOrder of order.service.ts, with the part of      *)
(* resource.service.ts that it shares the catalogue with (products,        *)
(* services and updateProductInventory).                                   *)
(*                                                                         *)
(* createOrder goes through phases.  In each of them Promise.all starts    *)
(* one call per item, and the calls interleave with one another as well as *)
(* with other requests: the items are validated, stored, and taken out of  *)
(* the stock, and then the order is saved.  Nothing undoes a phase when a  *)
(* later one fails.  As in Billing.tla, changing a catalogue row takes     *)
(* three steps (read, compare, write), and resourceSaves holds the copies  *)
(* in flight.  A save whose row has gone inserts it again.                 *)
(*                                                                         *)
(* Left out: names, prices, images and snapshots; the status of orders     *)
(* (see Billing.tla).                                                      *)
(***************************************************************************)
EXTENDS Naturals, Sequences, FiniteSets, Functions

CONSTANTS
  Users, Businesses, Customers,
  Products, Services,  \* ids that uuid generation can hand out, for catalogue
  Items, Orders,       \* rows, order items and orders
  Requests,        \* requests the server can have in progress at once
  ItemLists,       \* items arrays that clients send to createOrder
  CustomerInputs,  \* customerIds that clients send to createOrder
  QuantityInputs,  \* availableQuantity of createProduct and updateProduct
  BusinessOwner,     \* [Businesses -> Users]
  CustomerBusiness,  \* [Customers -> Businesses]
  MayFail,         \* whether database calls and the process may fail
  None

Resources == Products \union Services

ItemType == {"product", "service"}

\* One element of the items array: None stands for an absent productId or
\* serviceId.
ItemInput ==
  [itemType : ItemType, resource : Resources \union {None}, quantity : Nat \ {0}]

ASSUME FulfilmentAssumption ==
  /\ Products \intersect Services = {}
  /\ ItemLists \subseteq Seq(ItemInput)
  /\ CustomerInputs \subseteq Customers
  /\ QuantityInputs \subseteq Nat
  /\ BusinessOwner \in [Businesses -> Users]
  /\ CustomerBusiness \in [Customers -> Businesses]
  /\ MayFail \in BOOLEAN

VARIABLES
  resources,      \* the Product and Service tables; None where no row has the id
  items,          \* the OrderItem table
  orders,         \* the Order table
  request,        \* progress of each request
  resourceSaves,  \* Product and Service entities read and not yet written back
  updated,        \* history: the items whose inventory update has been saved
  declared,       \* history: the largest quantity that was ever declared
  deleted         \* history: the rows that were deleted

vars == <<resources, items, orders, request, resourceSaves, updated, declared, deleted>>

----------------------------------------------------------------------------
(***************************************************************************)
(* Rows, copies and requests.                                              *)
(***************************************************************************)

\* A service has no quantity: it keeps 0.
ResourceRow == [businessId : Businesses, availableQuantity : Nat]

ItemRow ==
  [itemType : ItemType, resource : Resources \union {None}, quantity : Nat,
   orderId : Orders \union {None}]

OrderRow == [businessId : Businesses, customerId : Customers]

\* item is the OrderItem that a copy takes stock for, None for updateProduct
\* and updateService; write is what the save does once it has compared.
ResourceSave ==
  [request : Requests, slot : Nat, resource : Resources, item : Items \union {None},
   phase : {"read", "compared"}, businessId : Businesses, availableQuantity : Nat,
   write : {"nothing", "update", "insert"}]

Request ==
  [pc : {"idle", "validate", "store", "stock", "order", "saving"},
   businessId : Businesses \union {None}, customerId : Customers \union {None},
   items : Seq(ItemInput), orderItems : Seq(Items \union {None}),
   todo : SUBSET Nat, failed : BOOLEAN]

Idle ==
  [pc |-> "idle", businessId |-> None, customerId |-> None, items |-> <<>>,
   orderItems |-> <<>>, todo |-> {}, failed |-> FALSE]

Saving == [Idle EXCEPT !.pc = "saving"]

ASSUME NoneAssumption ==
  /\ None \notin Items \union Orders \union Resources \union Nat
  /\ None \notin ResourceRow \union ItemRow \union OrderRow

verifyBusinessOwnership(user, business) == BusinessOwner[business] = user

TableOf(itemType) == IF itemType = "product" THEN Products ELSE Services

\* findOne with { id, businessId }.  TypeORM ignores a condition whose value
\* is undefined: without an id any row of the business will do.
Found(item, business) ==
  \E x \in TableOf(item.itemType) :
    /\ item.resource \in {x, None}
    /\ resources[x] # None
    /\ resources[x].businessId = business

Init ==
  /\ resources = [x \in Resources |-> None]
  /\ items = [n \in Items |-> None]
  /\ orders = [o \in Orders |-> None]
  /\ request = [r \in Requests |-> Idle]
  /\ resourceSaves = {}
  /\ updated = {}
  /\ declared = [x \in Resources |-> 0]
  /\ deleted = {}

----------------------------------------------------------------------------
(***************************************************************************)
(* The catalogue.  A request that is refused changes nothing.              *)
(***************************************************************************)

AtLeast(n, m) == IF n < m THEN m ELSE n

\* createProduct and createService: one INSERT with a new id.
CreateResource(x) ==
  /\ resources[x] = None
  /\ x \notin deleted
  /\ \E u \in Users, b \in Businesses, q \in IF x \in Products THEN QuantityInputs ELSE {0} :
       /\ verifyBusinessOwnership(u, b)
       /\ resources' = [resources EXCEPT ![x] = [businessId |-> b, availableQuantity |-> q]]
       /\ declared' = [declared EXCEPT ![x] = AtLeast(@, q)]
  /\ UNCHANGED <<items, orders, request, resourceSaves, updated, deleted>>

\* updateProduct and updateService: None stands for an update of other columns
\* only, which keeps the quantity that was read.
UpdateResource(r, x) ==
  /\ request[r].pc = "idle"
  /\ resources[x] # None
  /\ \E u \in Users, b \in Businesses, q \in {None} \union (IF x \in Products THEN QuantityInputs ELSE {}) :
       /\ verifyBusinessOwnership(u, b)
       /\ resources[x].businessId = b
       /\ LET quantity == IF q = None THEN resources[x].availableQuantity ELSE q IN
            /\ resourceSaves' = resourceSaves \union
                 {[request |-> r, slot |-> 0, resource |-> x, item |-> None, phase |-> "read",
                   businessId |-> b, availableQuantity |-> quantity, write |-> "nothing"]}
            /\ declared' = [declared EXCEPT ![x] = AtLeast(@, quantity)]
  /\ request' = [request EXCEPT ![r] = Saving]
  /\ UNCHANGED <<resources, items, orders, updated, deleted>>

\* deleteProduct and deleteService: the foreign key of OrderItem has no
\* ON DELETE, so a row that an item refers to stays.
DeleteResource(x) ==
  /\ resources[x] # None
  /\ \E u \in Users : verifyBusinessOwnership(u, resources[x].businessId)
  /\ \A n \in Items : items[n] # None => items[n].resource # x
  /\ resources' = [resources EXCEPT ![x] = None]
  /\ deleted' = deleted \union {x}
  /\ UNCHANGED <<items, orders, request, resourceSaves, updated, declared>>

----------------------------------------------------------------------------
(***************************************************************************)
(* createOrder.                                                            *)
(***************************************************************************)

\* Bound: a request starts only while there are ids left for it.
IdsLeft(n) ==
  /\ \E o \in Orders : orders[o] = None
  /\ Cardinality({i \in Items : items[i] = None}) >= n

CreateOrder(r) ==
  /\ request[r].pc = "idle"
  /\ \E u \in Users, b \in Businesses, c \in CustomerInputs, list \in ItemLists :
       /\ verifyBusinessOwnership(u, b)
       /\ IdsLeft(Len(list))
       /\ request' = [request EXCEPT ![r] =
            [Idle EXCEPT !.pc = "validate", !.businessId = b, !.customerId = c, !.items = list,
                         !.orderItems = [k \in DOMAIN list |-> None], !.todo = DOMAIN list]]
  /\ UNCHANGED <<resources, items, orders, resourceSaves, updated, declared, deleted>>

ValidateItem(r, k) ==
  LET req == request[r] IN
  /\ req.pc = "validate"
  /\ k \in req.todo
  /\ Found(req.items[k], req.businessId)
  /\ request' = [request EXCEPT ![r] = [req EXCEPT !.todo = req.todo \ {k}]]
  /\ UNCHANGED <<resources, items, orders, resourceSaves, updated, declared, deleted>>

\* createOrderItem: the row it refers to must still be there.
StoreItem(r, k, n) ==
  LET req == request[r]
      item == req.items[k]
  IN
  /\ req.pc = "store"
  /\ k \in req.todo
  /\ item.resource # None => Found(item, req.businessId)
  /\ items[n] = None
  /\ items' = [items EXCEPT ![n] =
       [itemType |-> item.itemType, resource |-> item.resource,
        quantity |-> item.quantity, orderId |-> None]]
  /\ request' = [request EXCEPT ![r] =
       [req EXCEPT !.todo = req.todo \ {k}, !.orderItems = [req.orderItems EXCEPT ![k] = n]]]
  /\ UNCHANGED <<resources, orders, resourceSaves, updated, declared, deleted>>

\* The items that updateProductInventory is called for.  The mutant forgets
\* those whose quantity is one.
BulkPositions(list) ==
  {k \in DOMAIN list : list[k].itemType = "product" /\ list[k].resource # None /\ list[k].quantity > 1}
StockPositions(list) ==
  {k \in DOMAIN list : list[k].itemType = "product" /\ list[k].resource # None}

\* The new availableQuantity.  The mutants have lost the sign of quantityChange
\* and the stop at zero.
QuantityAdded(available, quantity) == available + quantity
QuantityBelowZero(available, quantity) == available - quantity
QuantityAfter(available, quantity) == IF quantity > available THEN 0 ELSE available - quantity

\* updateProductInventory, for the item at position k.
TakeStock(r, k) ==
  LET req == request[r]
      x == req.items[k].resource
  IN
  /\ req.pc = "stock"
  /\ k \in req.todo
  /\ Found(req.items[k], req.businessId)
  /\ resourceSaves' = resourceSaves \union
       {[request |-> r, slot |-> k, resource |-> x, item |-> req.orderItems[k],
         phase |-> "read", businessId |-> req.businessId,
         availableQuantity |-> QuantityAfter(resources[x].availableQuantity, req.items[k].quantity),
         write |-> "nothing"]}
  /\ request' = [request EXCEPT ![r] = [req EXCEPT !.todo = req.todo \ {k}]]
  /\ UNCHANGED <<resources, items, orders, updated, declared, deleted>>

\* The call for position k rejects: the row has gone or the database fails.
\* The caller has its answer, but the other calls of the phase still run.
FailItem(r, k) ==
  LET req == request[r] IN
  /\ req.pc \in {"store", "stock"}
  /\ k \in req.todo
  /\ MayFail \/ (req.items[k].resource # None /\ ~Found(req.items[k], req.businessId))
  /\ request' = [request EXCEPT ![r] = [req EXCEPT !.todo = req.todo \ {k}, !.failed = TRUE]]
  /\ UNCHANGED <<resources, items, orders, resourceSaves, updated, declared, deleted>>

\* Every call of the phase has ended.
Settled(r) == request[r].todo = {} /\ \A s \in resourceSaves : s.request # r

NextPhase(req) ==
  CASE req.pc = "validate" -> [req EXCEPT !.pc = "store", !.todo = DOMAIN req.items]
    [] req.pc = "store" -> [req EXCEPT !.pc = "stock", !.todo = StockPositions(req.items)]
    [] req.pc = "stock" -> [req EXCEPT !.pc = "order"]

AwaitAll(r) ==
  /\ request[r].pc \in {"validate", "store", "stock"}
  /\ Settled(r)
  /\ request' = [request EXCEPT ![r] = IF request[r].failed THEN Idle ELSE NextPhase(request[r])]
  /\ UNCHANGED <<resources, items, orders, resourceSaves, updated, declared, deleted>>

\* An item is not valid, the customer is not of this business, or a call
\* rejects: the caller gets an error, and what is stored stays.
RefuseOrder(r) ==
  LET req == request[r] IN
  /\ \/ req.pc = "validate" /\ (MayFail \/ \E k \in req.todo : ~Found(req.items[k], req.businessId))
     \/ req.pc = "order" /\ (MayFail \/ CustomerBusiness[req.customerId] # req.businessId)
  /\ request' = [request EXCEPT ![r] = Idle]
  /\ UNCHANGED <<resources, items, orders, resourceSaves, updated, declared, deleted>>

\* The rows of the order's items.  The mutants take every row without an order
\* and the first item only.
UnorderedItems(req) == {n \in Items : items[n] # None /\ items[n].orderId = None}
FirstItem(req) == {req.orderItems[k] : k \in DOMAIN req.orderItems \intersect {1}}
OrderedItems(req) == {req.orderItems[k] : k \in DOMAIN req.orderItems}

\* save(newOrder) inserts the order and sets orderId of its items, in one
\* database transaction.
SaveOrder(r, o) ==
  LET req == request[r] IN
  /\ req.pc = "order"
  /\ CustomerBusiness[req.customerId] = req.businessId
  /\ orders[o] = None
  /\ orders' = [orders EXCEPT ![o] = [businessId |-> req.businessId, customerId |-> req.customerId]]
  /\ items' = [n \in Items |->
       IF n \in OrderedItems(req) THEN [items[n] EXCEPT !.orderId = o] ELSE items[n]]
  /\ request' = [request EXCEPT ![r] = Idle]
  /\ UNCHANGED <<resources, resourceSaves, updated, declared, deleted>>

----------------------------------------------------------------------------
(***************************************************************************)
(* repository.save(entity) for a catalogue row, and its failure.           *)
(***************************************************************************)

\* A request whose only save has ended answers; createOrder notes a failure.
AfterSave(s, failed) ==
  LET req == request[s.request] IN
  request' = [request EXCEPT ![s.request] =
    IF req.pc = "saving" THEN Idle ELSE [req EXCEPT !.failed = req.failed \/ failed]]

CompareResource(s) ==
  LET row == resources[s.resource] IN
  /\ s \in resourceSaves
  /\ s.phase = "read"
  /\ resourceSaves' = (resourceSaves \ {s}) \union
       {[s EXCEPT !.phase = "compared",
                  !.write = IF row = None THEN "insert"
                            ELSE IF row.availableQuantity # s.availableQuantity THEN "update"
                            ELSE "nothing"]}
  /\ UNCHANGED <<resources, items, orders, request, updated, declared, deleted>>

\* An UPDATE that finds no row changes nothing and is no error.
WriteResource(s) ==
  /\ s \in resourceSaves
  /\ s.phase = "compared"
  /\ s.write = "insert" => resources[s.resource] = None
  /\ resources' =
       IF s.write = "insert" \/ (s.write = "update" /\ resources[s.resource] # None)
       THEN [resources EXCEPT ![s.resource] =
               [businessId |-> s.businessId, availableQuantity |-> s.availableQuantity]]
       ELSE resources
  /\ resourceSaves' = resourceSaves \ {s}
  /\ updated' = updated \union ({s.item} \ {None})
  /\ AfterSave(s, FALSE)
  /\ UNCHANGED <<items, orders, declared, deleted>>

\* The save rejects: the database fails, or the row to insert exists again.
FailResource(s) ==
  /\ s \in resourceSaves
  /\ MayFail \/ (s.write = "insert" /\ resources[s.resource] # None)
  /\ resourceSaves' = resourceSaves \ {s}
  /\ AfterSave(s, TRUE)
  /\ UNCHANGED <<resources, items, orders, updated, declared, deleted>>

\* The process stops and is started again: what was in memory is gone.
Crash ==
  /\ MayFail
  /\ request' = [r \in Requests |-> Idle]
  /\ resourceSaves' = {}
  /\ UNCHANGED <<resources, items, orders, updated, declared, deleted>>

----------------------------------------------------------------------------
OrderStep(r) ==
  \/ \E k \in request[r].todo : ValidateItem(r, k)
  \/ \E k \in request[r].todo, n \in Items : StoreItem(r, k, n)
  \/ \E k \in request[r].todo : TakeStock(r, k)
  \/ \E k \in request[r].todo : FailItem(r, k)
  \/ AwaitAll(r)
  \/ RefuseOrder(r)
  \/ \E o \in Orders : SaveOrder(r, o)

SaveStep(r) ==
  \E s \in resourceSaves : s.request = r /\ (CompareResource(s) \/ WriteResource(s) \/ FailResource(s))

Next ==
  \/ \E x \in Resources : CreateResource(x) \/ DeleteResource(x)
  \/ \E r \in Requests :
       \/ CreateOrder(r)
       \/ OrderStep(r)
       \/ \E x \in Resources : UpdateResource(r, x)
       \/ SaveStep(r)
  \/ Crash

Spec == Init /\ [][Next]_vars

\* The event loop runs every continuation and the database answers every
\* call, so a request that has started goes on; no client has to start one.
Fairness ==
  \A r \in Requests : WF_vars(OrderStep(r)) /\ WF_vars(SaveStep(r))

FairSpec == Spec /\ Fairness

----------------------------------------------------------------------------
(***************************************************************************)
(* Properties.                                                             *)
(***************************************************************************)

\* The rows, the copies in flight and the requests have the shape that the
\* entities and handlers give them.
TypeOK ==
  /\ resources \in [Resources -> ResourceRow \union {None}]
  /\ items \in [Items -> ItemRow \union {None}]
  /\ orders \in [Orders -> OrderRow \union {None}]
  /\ request \in [Requests -> Request]
  /\ resourceSaves \subseteq ResourceSave
  /\ updated \subseteq Items
  /\ declared \in [Resources -> Nat]
  /\ deleted \subseteq Resources

\* Stale copies may give sold units back, but the stock of a product never
\* exceeds the largest quantity its owner declared (updateProductInventory,
\* updateProduct).
NoInventedStock ==
  \A x \in Resources : resources[x] # None => resources[x].availableQuantity <= declared[x]

\* An order is stored only after the inventory update of each of its product
\* items has been saved: a failed call, a crash or an overlapping request never
\* leads to an order one of whose updates was left out (the phases of
\* createOrder, updateProductInventory).  An update that is saved may still be
\* overwritten by another that read the same stock: see ImplementsStock.
OrdersFollowUpdates ==
  \A n \in Items :
    items[n] # None /\ items[n].orderId # None /\ items[n].itemType = "product" /\ items[n].resource # None
      => n \in updated

\* An item of an order is a product or service of the order's own business,
\* and that row is still there: the order keeps its goods through deletions
\* and concurrent updates (validateOrderItemResources, deleteProduct).
OrderedGoodsExist ==
  \A n \in Items :
    items[n] # None /\ items[n].orderId # None =>
      /\ orders[items[n].orderId] # None
      /\ items[n].resource # None =>
           /\ resources[items[n].resource] # None
           /\ resources[items[n].resource].businessId = orders[items[n].orderId].businessId

\* If nothing fails, requests do not overlap and the customer exists, goods
\* that have been taken from the stock end up in an order (createOrder).
TakenGoodsGetOrdered == \A n \in Items : n \in updated ~> items[n] # None /\ items[n].orderId # None

(***************************************************************************)
(* What inventory tracking promises, with every event atomic: see          *)
(* StockLedger.  An item counts as sold once its inventory update has been saved.  *)
(***************************************************************************)
ItemsSold(p) == {n \in updated : items[n].resource = p}

Sold(p) == SumFunctionOnSet([n \in ItemsSold(p) |-> items[n].quantity], ItemsSold(p))

Ledger == INSTANCE StockLedger WITH
  stock <- [p \in Products |-> IF resources[p] = None THEN None ELSE resources[p].availableQuantity],
  sold <- [p \in Products |-> Sold(p)]

\* Requests that do not overlap, for orders that name each product once, behave
\* as the atomic ledger, even when some of them fail (createOrder,
\* updateProductInventory).
ImplementsStock == Ledger!Spec
=============================================================================
