------------------------ MODULE OrderFulfilmentProofs ------------------------
(***************************************************************************)
(* Theorems about OrderFulfilment, for every number of products, services, *)
(* items and overlapping requests, and with failures and crashes.          *)
(***************************************************************************)
EXTENDS OrderFulfilment, SumTheorems

\* What a request in progress remembers: its arguments are set, the positions
\* still to do are positions of its items, and orderItems has a place for each.
InOrder(req) ==
  /\ req.todo \subseteq DOMAIN req.items
  /\ DOMAIN req.orderItems = DOMAIN req.items
  /\ req.pc \in {"validate", "store", "stock", "order"} =>
       /\ req.businessId \in Businesses
       /\ req.customerId \in Customers
  /\ req.pc = "stock" => req.todo \subseteq StockPositions(req.items)

RequestsInOrder == \A r \in Requests : InOrder(request[r])

Typed == TypeOK /\ RequestsInOrder

\* The items that a request remembers are stored.
PlacesStored ==
  \A r \in Requests : \A k \in DOMAIN request[r].orderItems :
    request[r].orderItems[k] # None => items[request[r].orderItems[k]] # None

TypeInv == Typed /\ PlacesStored

----------------------------------------------------------------------------
(***************************************************************************)
(* The records that the actions build are well typed.                      *)
(***************************************************************************)

LEMMA IdleTypes == Idle \in Request /\ Saving \in Request
<1>1. Idle \in Request
  BY DEF Idle, Request
<1>2. [Idle EXCEPT !.pc = "saving"] \in Request
  BY <1>1 DEF Request
<1>3. QED
  BY <1>1, <1>2 DEF Saving

LEMMA IdleFields ==
  /\ InOrder(Idle) /\ InOrder(Saving)
  /\ Idle.pc = "idle" /\ Idle.todo = {} /\ Idle.items = <<>> /\ Idle.orderItems = <<>>
  /\ Saving.pc = "saving" /\ Saving.todo = {} /\ Saving.items = <<>> /\ Saving.orderItems = <<>>
BY DEF Idle, Saving, InOrder

LEMMA CreateRequestType ==
  ASSUME NEW q \in Request, NEW b \in Businesses, NEW c \in Customers, NEW list \in Seq(ItemInput),
         NEW places \in Seq(Items \union {None}), NEW todo \in SUBSET Nat
  PROVE  [q EXCEPT !.pc = "validate", !.businessId = b, !.customerId = c, !.items = list,
                   !.orderItems = places, !.todo = todo] \in Request
BY DEF Request

\* The ways in which createOrder changes its own record after it has started.
LEMMA TodoStep ==
  ASSUME NEW q \in Request, InOrder(q), NEW todo \in SUBSET q.todo, NEW p,
         p = [q EXCEPT !.todo = todo]
  PROVE  p \in Request /\ InOrder(p)
BY DEF Request, InOrder

LEMMA FailedStep ==
  ASSUME NEW q \in Request, InOrder(q), NEW failed \in BOOLEAN, NEW p,
         p = [q EXCEPT !.failed = failed]
  PROVE  p \in Request /\ InOrder(p)
BY DEF Request, InOrder

LEMMA TodoFailedStep ==
  ASSUME NEW q \in Request, InOrder(q), NEW todo \in SUBSET q.todo, NEW p,
         p = [q EXCEPT !.todo = todo, !.failed = TRUE]
  PROVE  p \in Request /\ InOrder(p)
BY DEF Request, InOrder

LEMMA PlaceStep ==
  ASSUME NEW q \in Request, InOrder(q), NEW todo \in SUBSET q.todo, NEW p,
         NEW k \in DOMAIN q.orderItems, NEW n \in Items,
         p = [q EXCEPT !.todo = todo, !.orderItems = [q.orderItems EXCEPT ![k] = n]]
  PROVE  p \in Request /\ InOrder(p)
<1> DEFINE places == [q.orderItems EXCEPT ![k] = n]
<1>1. places \in Seq(Items \union {None}) /\ DOMAIN places = DOMAIN q.orderItems
  BY DEF Request
<1>2. p = [q EXCEPT !.todo = todo, !.orderItems = places]
  OBVIOUS
<1> HIDE DEF places
<1>3. p \in Request
  BY <1>1, <1>2 DEF Request
<1>4. InOrder(p)
  BY <1>1, <1>2 DEF Request, InOrder
<1>5. QED
  BY <1>3, <1>4

LEMMA NextPhaseType ==
  ASSUME NEW q \in Request, InOrder(q), q.pc \in {"validate", "store", "stock"}, q.todo = {}
  PROVE  NextPhase(q) \in Request /\ InOrder(NextPhase(q))
<1>1. DOMAIN q.items \in SUBSET Nat /\ StockPositions(q.items) \in SUBSET Nat
  BY DEF Request, StockPositions
<1>2. StockPositions(q.items) \subseteq DOMAIN q.items
  BY DEF StockPositions
<1>3. CASE q.pc = "validate"
  <2> DEFINE p == [q EXCEPT !.pc = "store", !.todo = DOMAIN q.items]
  <2>1. p \in Request
    BY <1>1 DEF Request
  <2>2. InOrder(p)
    BY <1>3 DEF InOrder, Request
  <2>3. QED
    BY <1>3, <2>1, <2>2 DEF NextPhase
<1>4. CASE q.pc = "store"
  <2> DEFINE p == [q EXCEPT !.pc = "stock", !.todo = StockPositions(q.items)]
  <2>1. p \in Request
    BY <1>1 DEF Request
  <2>2. InOrder(p)
    BY <1>2, <1>4 DEF InOrder, Request
  <2>3. QED
    BY <1>4, <2>1, <2>2 DEF NextPhase
<1>5. CASE q.pc = "stock"
  BY <1>5 DEF NextPhase, Request, InOrder
<1>6. QED
  BY <1>3, <1>4, <1>5

\* A step that gives one request a well-formed record keeps them all so.
LEMMA RequestChange ==
  ASSUME TypeInv, NEW r \in Requests, NEW q \in Request, InOrder(q),
         request' = [request EXCEPT ![r] = q]
  PROVE  request' \in [Requests -> Request] /\ RequestsInOrder'
BY DEF TypeInv, Typed, TypeOK, RequestsInOrder, InOrder

LEMMA CompareStep ==
  \A s \in ResourceSave, w \in {"nothing", "update", "insert"} :
    [s EXCEPT !.phase = "compared", !.write = w] \in ResourceSave
BY DEF ResourceSave

LEMMA QuantityAfterType ==
  ASSUME NEW a \in Nat, NEW q \in Nat
  PROVE  QuantityAfter(a, q) \in Nat /\ QuantityAfter(a, q) <= a
BY DEF QuantityAfter

LEMMA LinkedItemType ==
  ASSUME NEW row \in ItemRow, NEW o \in Orders
  PROVE  /\ [row EXCEPT !.orderId = o] \in ItemRow
         /\ [row EXCEPT !.orderId = o].orderId = o
         /\ [row EXCEPT !.orderId = o].itemType = row.itemType
         /\ [row EXCEPT !.orderId = o].resource = row.resource
         /\ [row EXCEPT !.orderId = o].quantity = row.quantity
BY DEF ItemRow

LEMMA AtLeastBounds ==
  ASSUME NEW n \in Nat, NEW m \in Nat
  PROVE  AtLeast(n, m) \in Nat /\ n <= AtLeast(n, m) /\ m <= AtLeast(n, m)
BY DEF AtLeast

\* What TakeStock reads and the copy it makes.
LEMMA TakeStockCopy ==
  ASSUME TypeInv, NEW r \in Requests, NEW k \in request[r].todo, TakeStock(r, k)
  PROVE  \E s \in ResourceSave :
           /\ resourceSaves' = resourceSaves \union {s}
           /\ s.request = r
           /\ s.item = request[r].orderItems[k]
           /\ resources[s.resource] # None
           /\ s.businessId = resources[s.resource].businessId
           /\ s.availableQuantity <= resources[s.resource].availableQuantity
<1> DEFINE item == request[r].items[k]
           x == item.resource
           row == resources[x]
           quantity == QuantityAfter(row.availableQuantity, item.quantity)
           n == request[r].orderItems[k]
           b == request[r].businessId
           s == [request |-> r, slot |-> k, resource |-> x, item |-> n, phase |-> "read",
                 businessId |-> b, availableQuantity |-> quantity, write |-> "nothing"]
<1>1. /\ request[r].todo \subseteq StockPositions(request[r].items)
      /\ k \in DOMAIN request[r].orderItems /\ k \in DOMAIN request[r].items
      /\ b \in Businesses
  BY DEF TakeStock, TypeInv, Typed, TypeOK, RequestsInOrder, InOrder
<1>2. k \in Nat /\ n \in Items \union {None} /\ item \in ItemInput
  BY <1>1 DEF TypeInv, Typed, TypeOK, Request
<1>3. x # None
  BY <1>1 DEF StockPositions
<1>4. x \in Resources /\ row # None /\ row.businessId = b
  BY <1>3 DEF TakeStock, Found, TableOf, Resources
<1>5. row \in ResourceRow
  BY <1>4 DEF TypeInv, Typed, TypeOK
<1>6. row.availableQuantity \in Nat /\ item.quantity \in Nat
  BY <1>2, <1>5 DEF ResourceRow, ItemInput
<1>7. quantity \in Nat /\ quantity <= row.availableQuantity
  BY <1>6, QuantityAfterType
<1>8. resourceSaves' = resourceSaves \union {s}
  BY DEF TakeStock
<1> HIDE DEF x, row, quantity, n, b, item
<1>9. s \in ResourceSave
  BY <1>1, <1>2, <1>4, <1>7 DEF ResourceSave
<1>10. QED
  BY <1>4, <1>7, <1>8, <1>9 DEF row, n

\* SaveOrder changes only orderId, and only of its request's items.
LEMMA SaveOrderItems ==
  ASSUME TypeInv, NEW r \in Requests, NEW o \in Orders, SaveOrder(r, o), NEW n \in Items
  PROVE  /\ n \notin OrderedItems(request[r]) => items'[n] = items[n]
         /\ n \in OrderedItems(request[r]) =>
              /\ items[n] # None
              /\ items'[n] \in ItemRow
              /\ items'[n].orderId = o
              /\ items'[n].itemType = items[n].itemType
              /\ items'[n].resource = items[n].resource
              /\ items'[n].quantity = items[n].quantity
<1>1. n \notin OrderedItems(request[r]) => items'[n] = items[n]
  BY DEF SaveOrder
<1>2. ASSUME n \in OrderedItems(request[r])
      PROVE  items[n] # None
  <2>1. PICK k \in DOMAIN request[r].orderItems : request[r].orderItems[k] = n
    BY <1>2 DEF OrderedItems
  <2>2. n # None
    BY NoneAssumption
  <2>3. QED
    BY <2>1, <2>2 DEF TypeInv, PlacesStored
<1>3. ASSUME n \in OrderedItems(request[r])
      PROVE  items[n] \in ItemRow /\ items'[n] = [items[n] EXCEPT !.orderId = o]
  BY <1>2, <1>3 DEF SaveOrder, TypeInv, Typed, TypeOK
<1>4. ASSUME n \in OrderedItems(request[r]), NEW row, row = items[n]
      PROVE  /\ items'[n] \in ItemRow
             /\ items'[n].orderId = o
             /\ items'[n].itemType = row.itemType
             /\ items'[n].resource = row.resource
             /\ items'[n].quantity = row.quantity
  <2>1. row \in ItemRow /\ items'[n] = [row EXCEPT !.orderId = o]
    BY <1>3, <1>4
  <2>2. QED
    BY <2>1, LinkedItemType
<1>5. QED
  BY <1>1, <1>2, <1>4

----------------------------------------------------------------------------
LEMMA InitTypeInv == Init => TypeInv
BY IdleTypes, IdleFields DEF Init, TypeInv, Typed, TypeOK, RequestsInOrder, PlacesStored

LEMMA StepTyped == TypeInv /\ [Next]_vars => Typed'
<1> SUFFICES ASSUME TypeInv, [Next]_vars
             PROVE  Typed'
  OBVIOUS
<1> USE FulfilmentAssumption
<1>1. ASSUME NEW x \in Resources, CreateResource(x)
      PROVE  Typed'
  <2>1. PICK b \in Businesses, q \in IF x \in Products THEN QuantityInputs ELSE {0} :
          /\ resources' = [resources EXCEPT ![x] = [businessId |-> b, availableQuantity |-> q]]
          /\ declared' = [declared EXCEPT ![x] = AtLeast(@, q)]
    BY <1>1 DEF CreateResource
  <2>2. resources' \in [Resources -> ResourceRow \union {None}]
    BY <2>1 DEF TypeInv, Typed, TypeOK, ResourceRow
  <2>3. declared' \in [Resources -> Nat]
    BY <2>1, AtLeastBounds DEF TypeInv, Typed, TypeOK
  <2>4. QED
    BY <1>1, <2>2, <2>3 DEF CreateResource, TypeInv, Typed, TypeOK, RequestsInOrder, InOrder
<1>2. ASSUME NEW x \in Resources, DeleteResource(x)
      PROVE  Typed'
  BY <1>2 DEF DeleteResource, TypeInv, Typed, TypeOK, RequestsInOrder, InOrder
<1>3. ASSUME NEW r \in Requests, NEW x \in Resources, UpdateResource(r, x)
      PROVE  Typed'
  <2>1. PICK b \in Businesses, q \in {None} \union (IF x \in Products THEN QuantityInputs ELSE {}) :
          LET quantity == IF q = None THEN resources[x].availableQuantity ELSE q IN
            /\ resourceSaves' = resourceSaves \union
                 {[request |-> r, slot |-> 0, resource |-> x, item |-> None, phase |-> "read",
                   businessId |-> b, availableQuantity |-> quantity, write |-> "nothing"]}
            /\ declared' = [declared EXCEPT ![x] = AtLeast(@, quantity)]
    BY <1>3 DEF UpdateResource
  <2> DEFINE quantity == IF q = None THEN resources[x].availableQuantity ELSE q
  <2>2. quantity \in Nat
    BY <1>3 DEF UpdateResource, TypeInv, Typed, TypeOK, ResourceRow
  <2> HIDE DEF quantity
  <2>3. resourceSaves' \subseteq ResourceSave
    BY <2>1, <2>2 DEF TypeInv, Typed, TypeOK, ResourceSave, quantity
  <2>4. declared' \in [Resources -> Nat]
    BY <2>1, <2>2, AtLeastBounds DEF TypeInv, Typed, TypeOK, quantity
  <2>5. request' \in [Requests -> Request] /\ RequestsInOrder'
    BY <1>3, RequestChange, IdleTypes, IdleFields DEF UpdateResource
  <2>6. QED
    BY <1>3, <2>3, <2>4, <2>5 DEF UpdateResource, TypeInv, Typed, TypeOK
<1>4. ASSUME NEW r \in Requests, CreateOrder(r)
      PROVE  Typed'
  <2>1. PICK b \in Businesses, c \in CustomerInputs, list \in ItemLists :
          request' = [request EXCEPT ![r] =
            [Idle EXCEPT !.pc = "validate", !.businessId = b, !.customerId = c, !.items = list,
                         !.orderItems = [k \in DOMAIN list |-> None], !.todo = DOMAIN list]]
    BY <1>4 DEF CreateOrder
  <2> DEFINE places == [k \in DOMAIN list |-> None]
             todo == DOMAIN list
             q == [Idle EXCEPT !.pc = "validate", !.businessId = b, !.customerId = c,
                               !.items = list, !.orderItems = places, !.todo = todo]
  <2>2. /\ list \in Seq(ItemInput) /\ c \in Customers
        /\ places \in Seq(Items \union {None})
        /\ todo \in SUBSET Nat
    OBVIOUS
  <2>3. DOMAIN places = todo /\ DOMAIN list = todo
    OBVIOUS
  <2>4. request' = [request EXCEPT ![r] = q]
    BY <2>1
  <2> HIDE DEF places, todo
  <2>5. q \in Request
    BY <2>2, IdleTypes, CreateRequestType
  <2>6. InOrder(q)
    BY <2>2, <2>3, IdleTypes DEF InOrder, Request
  <2>7. QED
    BY <1>4, <2>4, <2>5, <2>6, RequestChange DEF CreateOrder, TypeInv, Typed, TypeOK
<1>5. ASSUME NEW r \in Requests, NEW k \in request[r].todo
      PROVE  /\ request[r] \in Request /\ InOrder(request[r])
             /\ k \in Nat /\ k \in DOMAIN request[r].items /\ k \in DOMAIN request[r].orderItems
             /\ request[r].items[k] \in ItemInput
             /\ request[r].orderItems[k] \in Items \union {None}
             /\ request[r].todo \ {k} \in SUBSET request[r].todo
  BY DEF TypeInv, Typed, TypeOK, RequestsInOrder, InOrder, Request
<1>6. ASSUME NEW r \in Requests, NEW k \in request[r].todo, ValidateItem(r, k)
      PROVE  Typed'
  <2>1. PICK p : p = [request[r] EXCEPT !.todo = request[r].todo \ {k}] /\ request' = [request EXCEPT ![r] = p]
    BY <1>6 DEF ValidateItem
  <2>2. request' \in [Requests -> Request] /\ RequestsInOrder'
    BY <1>5, <2>1, TodoStep, RequestChange
  <2>3. QED
    BY <1>6, <2>2 DEF ValidateItem, TypeInv, Typed, TypeOK
<1>7. ASSUME NEW r \in Requests, NEW k \in request[r].todo, NEW n \in Items, StoreItem(r, k, n)
      PROVE  Typed'
  <2>1. items' \in [Items -> ItemRow \union {None}]
    BY <1>5, <1>7 DEF StoreItem, TypeInv, Typed, TypeOK, ItemRow, ItemInput
  <2>2. PICK p : /\ p = [request[r] EXCEPT !.todo = request[r].todo \ {k},
                                        !.orderItems = [request[r].orderItems EXCEPT ![k] = n]]
                 /\ request' = [request EXCEPT ![r] = p]
    BY <1>7 DEF StoreItem
  <2>3. request' \in [Requests -> Request] /\ RequestsInOrder'
    BY <1>5, <2>2, PlaceStep, RequestChange
  <2>4. QED
    BY <1>7, <2>1, <2>3 DEF StoreItem, TypeInv, Typed, TypeOK
<1>8. ASSUME NEW r \in Requests, NEW k \in request[r].todo, TakeStock(r, k)
      PROVE  Typed'
  <2>1. PICK p : p = [request[r] EXCEPT !.todo = request[r].todo \ {k}] /\ request' = [request EXCEPT ![r] = p]
    BY <1>8 DEF TakeStock
  <2>2. request' \in [Requests -> Request] /\ RequestsInOrder'
    BY <1>5, <2>1, TodoStep, RequestChange
  <2>3. resourceSaves' \subseteq ResourceSave
    BY <1>8, TakeStockCopy DEF TypeInv, Typed, TypeOK
  <2>4. QED
    BY <1>8, <2>2, <2>3 DEF TakeStock, TypeInv, Typed, TypeOK
<1>9. ASSUME NEW r \in Requests, NEW k \in request[r].todo, FailItem(r, k)
      PROVE  Typed'
  <2>1. PICK p : /\ p = [request[r] EXCEPT !.todo = request[r].todo \ {k}, !.failed = TRUE]
                 /\ request' = [request EXCEPT ![r] = p]
    BY <1>9 DEF FailItem
  <2>2. request' \in [Requests -> Request] /\ RequestsInOrder'
    BY <1>5, <2>1, TodoFailedStep, RequestChange
  <2>3. QED
    BY <1>9, <2>2 DEF FailItem, TypeInv, Typed, TypeOK
<1>10. ASSUME NEW r \in Requests, AwaitAll(r)
       PROVE  Typed'
  <2>1. PICK p : /\ p = IF request[r].failed THEN Idle ELSE NextPhase(request[r])
                 /\ request' = [request EXCEPT ![r] = p]
    BY <1>10 DEF AwaitAll
  <2>2. /\ request[r] \in Request /\ InOrder(request[r]) /\ request[r].todo = {}
        /\ request[r].pc \in {"validate", "store", "stock"}
    BY <1>10 DEF AwaitAll, Settled, TypeInv, Typed, TypeOK, RequestsInOrder
  <2>3. p \in Request /\ InOrder(p)
    BY <2>1, <2>2, IdleTypes, IdleFields, NextPhaseType
  <2>4. request' \in [Requests -> Request] /\ RequestsInOrder'
    BY <2>1, <2>3, RequestChange
  <2>5. QED
    BY <1>10, <2>4 DEF AwaitAll, TypeInv, Typed, TypeOK
<1>11. ASSUME NEW r \in Requests, RefuseOrder(r)
       PROVE  Typed'
  <2>1. request' \in [Requests -> Request] /\ RequestsInOrder'
    BY <1>11, IdleTypes, IdleFields, RequestChange DEF RefuseOrder
  <2>2. QED
    BY <1>11, <2>1 DEF RefuseOrder, TypeInv, Typed, TypeOK
<1>12. ASSUME NEW r \in Requests, NEW o \in Orders, SaveOrder(r, o)
       PROVE  Typed'
  <2>1. request' \in [Requests -> Request] /\ RequestsInOrder'
    BY <1>12, IdleTypes, IdleFields, RequestChange DEF SaveOrder
  <2>2. orders' \in [Orders -> OrderRow \union {None}]
    BY <1>12 DEF SaveOrder, TypeInv, Typed, TypeOK, RequestsInOrder, InOrder, OrderRow
  <2>3. items' \in [Items -> ItemRow \union {None}]
    <3>1. \A n \in Items : items'[n] \in ItemRow \union {None}
      BY <1>12, SaveOrderItems DEF TypeInv, Typed, TypeOK
    <3>2. QED
      BY <1>12, <3>1 DEF SaveOrder
  <2>4. QED
    BY <1>12, <2>1, <2>2, <2>3 DEF SaveOrder, TypeInv, Typed, TypeOK
<1>13. ASSUME NEW s \in resourceSaves, NEW failed \in BOOLEAN, AfterSave(s, failed)
       PROVE  request' \in [Requests -> Request] /\ RequestsInOrder'
  <2>1. s.request \in Requests
    BY DEF TypeInv, Typed, TypeOK, ResourceSave
  <2>2. PICK q, p : /\ q = request[s.request]
                    /\ p = [q EXCEPT !.failed = q.failed \/ failed]
                    /\ request' = [request EXCEPT ![s.request] = IF q.pc = "saving" THEN Idle ELSE p]
    BY <1>13 DEF AfterSave
  <2>3. q \in Request /\ InOrder(q) /\ (q.failed \/ failed) \in BOOLEAN
    BY <2>1, <2>2 DEF TypeInv, Typed, TypeOK, RequestsInOrder, Request
  <2>4. p \in Request /\ InOrder(p)
    BY <2>2, <2>3, FailedStep
  <2>5. QED
    BY <2>1, <2>2, <2>4, IdleTypes, IdleFields, RequestChange
<1>14. ASSUME NEW s \in resourceSaves, CompareResource(s)
       PROVE  Typed'
  <2>1. PICK w \in {"nothing", "update", "insert"} :
          resourceSaves' = (resourceSaves \ {s}) \union {[s EXCEPT !.phase = "compared", !.write = w]}
    BY <1>14 DEF CompareResource
  <2>2. resourceSaves' \subseteq ResourceSave
    BY ZenonT(30), <2>1, CompareStep DEF TypeInv, Typed, TypeOK
  <2>3. QED
    BY <1>14, <2>2 DEF CompareResource, TypeInv, Typed, TypeOK, RequestsInOrder, InOrder
<1>15. ASSUME NEW s \in resourceSaves, WriteResource(s)
       PROVE  Typed'
  <2>1. request' \in [Requests -> Request] /\ RequestsInOrder'
    BY <1>13, <1>15 DEF WriteResource
  <2>2. resources' \in [Resources -> ResourceRow \union {None}] /\ updated' \subseteq Items
    BY <1>15 DEF WriteResource, TypeInv, Typed, TypeOK, ResourceSave, ResourceRow
  <2>3. QED
    BY <1>15, <2>1, <2>2 DEF WriteResource, TypeInv, Typed, TypeOK
<1>16. ASSUME NEW s \in resourceSaves, FailResource(s)
       PROVE  Typed'
  <2>1. request' \in [Requests -> Request] /\ RequestsInOrder'
    BY <1>13, <1>16 DEF FailResource
  <2>2. QED
    BY <1>16, <2>1 DEF FailResource, TypeInv, Typed, TypeOK
<1>17. CASE Crash
  BY <1>17, IdleTypes, IdleFields DEF Crash, TypeInv, Typed, TypeOK, RequestsInOrder
<1>18. CASE UNCHANGED vars
  BY <1>18 DEF vars, TypeInv, Typed, TypeOK, RequestsInOrder, InOrder
<1>19. QED
  BY <1>1, <1>2, <1>3, <1>4, <1>6, <1>7, <1>8, <1>9, <1>10, <1>11, <1>12, <1>14, <1>15, <1>16, <1>17, <1>18
  DEF Next, OrderStep, SaveStep

SameItem(n) ==
  /\ items'[n] # None
  /\ items'[n].itemType = items[n].itemType
  /\ items'[n].resource = items[n].resource
  /\ items'[n].quantity = items[n].quantity

\* A stored item stays, and keeps everything but its order.
LEMMA ItemsStay ==
  ASSUME TypeInv, [Next]_vars, NEW n \in Items, items[n] # None
  PROVE  SameItem(n)
<1>1. ASSUME items'[n] = items[n]
      PROVE  SameItem(n)
  BY <1>1 DEF SameItem
<1>2. ASSUME NEW r \in Requests, NEW k \in request[r].todo, NEW m \in Items, StoreItem(r, k, m)
      PROVE  items'[n] = items[n]
  BY <1>2 DEF StoreItem, TypeInv, Typed, TypeOK
<1>3. ASSUME NEW r \in Requests, NEW o \in Orders, SaveOrder(r, o)
      PROVE  SameItem(n)
  BY <1>1, <1>3, SaveOrderItems, NoneAssumption DEF SameItem
<1>4. QED
  BY ZenonT(30), <1>1, <1>2, <1>3 DEF Next, vars, OrderStep, SaveStep, CreateResource, DeleteResource, UpdateResource,
     CreateOrder, ValidateItem, TakeStock, FailItem, AwaitAll, RefuseOrder, CompareResource, WriteResource,
     FailResource, Crash

\* Stored items stay, and what a request remembers is either old, or absent, or
\* the row just stored.
LEMMA StepPlaces == TypeInv /\ Typed' /\ [Next]_vars => PlacesStored'
<1> SUFFICES ASSUME TypeInv, Typed', [Next]_vars
             PROVE  PlacesStored'
  OBVIOUS
<1>1. ASSUME NEW n \in Items, items[n] # None
      PROVE  items'[n] # None
  BY <1>1, ItemsStay DEF SameItem
<1>2. ASSUME \A r \in Requests : request'[r].orderItems \in {<<>>, request[r].orderItems}
      PROVE  PlacesStored'
  BY <1>1, <1>2 DEF TypeInv, Typed, TypeOK, PlacesStored, RequestsInOrder, InOrder, Request
<1>3. ASSUME NEW r \in Requests, CreateOrder(r)
      PROVE  PlacesStored'
  <2>1. PICK list :
          /\ request'[r].orderItems = [k \in DOMAIN list |-> None]
          /\ \A q \in Requests \ {r} : request'[q] = request[q]
    BY <1>3 DEF CreateOrder, TypeInv, Typed, TypeOK, Idle
  <2>2. \A k \in DOMAIN request'[r].orderItems : request'[r].orderItems[k] = None
    BY <2>1
  <2>3. ASSUME NEW q \in Requests \ {r}
        PROVE  \A j \in DOMAIN request'[q].orderItems :
                 request'[q].orderItems[j] # None => items'[request'[q].orderItems[j]] # None
    BY <1>1, <2>1, <2>3 DEF TypeInv, Typed, TypeOK, PlacesStored, Request
  <2>4. QED
    BY <2>2, <2>3 DEF PlacesStored
<1>4. ASSUME NEW r \in Requests, NEW k \in request[r].todo, NEW n \in Items, StoreItem(r, k, n)
      PROVE  PlacesStored'
  <2>1. /\ request'[r].orderItems = [request[r].orderItems EXCEPT ![k] = n]
        /\ \A q \in Requests \ {r} : request'[q] = request[q]
    BY <1>4 DEF StoreItem, TypeInv, Typed, TypeOK, Request
  <2>2. items'[n] # None
    <3>1. items'[n] = [itemType |-> request[r].items[k].itemType, resource |-> request[r].items[k].resource,
                       quantity |-> request[r].items[k].quantity, orderId |-> None]
      BY <1>4 DEF StoreItem, TypeInv, Typed, TypeOK
    <3>2. request[r].items[k] \in ItemInput
      BY DEF TypeInv, Typed, TypeOK, RequestsInOrder, InOrder, Request
    <3>3. items'[n] \in ItemRow
      BY <3>1, <3>2 DEF ItemRow, ItemInput
    <3>4. QED
      BY <3>3, NoneAssumption
  <2>3. request[r].orderItems \in Seq(Items \union {None}) /\ k \in DOMAIN request[r].orderItems
    BY DEF TypeInv, Typed, TypeOK, RequestsInOrder, InOrder, Request
  <2>4. ASSUME NEW j \in DOMAIN request'[r].orderItems, NEW m, m = request'[r].orderItems[j], m # None
        PROVE  items'[m] # None
    <3>1. j \in DOMAIN request[r].orderItems /\ (m = n \/ m = request[r].orderItems[j])
      BY <2>1, <2>3, <2>4
    <3>2. m \in Items \union {None}
      BY <2>3, <3>1
    <3>3. QED
      BY <1>1, <2>2, <2>4, <3>1, <3>2 DEF TypeInv, PlacesStored
  <2>5. ASSUME NEW q \in Requests \ {r}
        PROVE  \A j \in DOMAIN request'[q].orderItems :
                 request'[q].orderItems[j] # None => items'[request'[q].orderItems[j]] # None
    BY <1>1, <2>1, <2>5 DEF TypeInv, Typed, TypeOK, PlacesStored, Request
  <2>6. QED
    BY <2>4, <2>5 DEF PlacesStored
<1>5. ASSUME NEW r \in Requests, NEW k \in request[r].todo,
             ValidateItem(r, k) \/ TakeStock(r, k) \/ FailItem(r, k)
      PROVE  PlacesStored'
  <2>1. PICK q, p :
          /\ q = request[r]
          /\ \/ p = [q EXCEPT !.todo = q.todo \ {k}]
             \/ p = [q EXCEPT !.todo = q.todo \ {k}, !.failed = TRUE]
          /\ request' = [request EXCEPT ![r] = p]
    BY <1>5 DEF ValidateItem, TakeStock, FailItem
  <2>2. q \in Request
    BY <2>1 DEF TypeInv, Typed, TypeOK
  <2>3. p.orderItems = q.orderItems
    BY <2>1, <2>2 DEF Request
  <2>4. QED
    BY <1>2, <2>1, <2>3 DEF TypeInv, Typed, TypeOK
<1>6. ASSUME NEW r \in Requests, AwaitAll(r)
      PROVE  PlacesStored'
  <2>1. NextPhase(request[r]).orderItems = request[r].orderItems
    <3>1. request[r] \in Request /\ request[r].pc \in {"validate", "store", "stock"}
      BY <1>6 DEF AwaitAll, TypeInv, Typed, TypeOK
    <3>2. QED
      BY <3>1 DEF NextPhase, Request
  <2>2. QED
    BY <1>2, <1>6, <2>1, IdleFields DEF AwaitAll, TypeInv, Typed, TypeOK
<1>7. ASSUME NEW r \in Requests, RefuseOrder(r) \/ (\E o \in Orders : SaveOrder(r, o))
                               \/ (\E x \in Resources : UpdateResource(r, x))
      PROVE  PlacesStored'
  <2>1. request' = [request EXCEPT ![r] = Idle] \/ request' = [request EXCEPT ![r] = Saving]
    BY <1>7 DEF RefuseOrder, SaveOrder, UpdateResource
  <2>2. QED
    BY <1>2, <2>1, IdleFields DEF TypeInv, Typed, TypeOK
<1>8. ASSUME NEW s \in resourceSaves, NEW failed \in BOOLEAN, AfterSave(s, failed)
      PROVE  PlacesStored'
  <2>1. s.request \in Requests
    BY DEF TypeInv, Typed, TypeOK, ResourceSave
  <2>2. QED
    BY <1>2, <1>8, <2>1, IdleFields DEF AfterSave, TypeInv, Typed, TypeOK, Request
<1>9. CASE Crash
  BY <1>2, <1>9, IdleFields DEF Crash
<1>10. CASE UNCHANGED request
  BY <1>2, <1>10
<1>11. QED
  BY <1>3, <1>4, <1>5, <1>6, <1>7, <1>8, <1>9, <1>10 DEF Next, vars, OrderStep, SaveStep, CreateResource,
     DeleteResource, CompareResource, WriteResource, FailResource

LEMMA StepTypeInv == TypeInv /\ [Next]_vars => TypeInv'
BY StepTyped, StepPlaces DEF TypeInv

\* Rows, copies in flight and requests keep their types.
THEOREM TypeCorrect == Spec => []TypeOK
<1>1. Spec => []TypeInv
  BY InitTypeInv, StepTypeInv, PTL DEF Spec
<1>2. TypeInv => TypeOK
  BY DEF TypeInv, Typed
<1>3. QED
  BY <1>1, <1>2, PTL
----------------------------------------------------------------------------
(***************************************************************************)
(* Stock is never invented: a copy in flight holds at most what was        *)
(* declared, because it was read from a row that did.                      *)
(***************************************************************************)

StockInv ==
  /\ NoInventedStock
  /\ \A s \in resourceSaves : s.availableQuantity <= declared[s.resource]

LEMMA InitStockInv == Init => StockInv
BY DEF Init, StockInv, NoInventedStock

LEMMA StepStockInv == TypeInv /\ StockInv /\ [Next]_vars => StockInv'
<1> SUFFICES ASSUME TypeInv, StockInv, [Next]_vars
             PROVE  StockInv'
  OBVIOUS
<1> USE FulfilmentAssumption
<1>1. ASSUME NEW x \in Resources, CreateResource(x)
      PROVE  StockInv'
  <2>1. PICK b \in Businesses, q \in Nat :
          /\ resources' = [resources EXCEPT ![x] = [businessId |-> b, availableQuantity |-> q]]
          /\ declared' = [declared EXCEPT ![x] = AtLeast(@, q)]
    BY <1>1 DEF CreateResource
  <2>2. q <= declared'[x] /\ declared[x] <= declared'[x] /\ declared'[x] \in Nat
    BY <2>1, AtLeastBounds DEF TypeInv, Typed, TypeOK
  <2>3. \A y \in Resources \ {x} : resources'[y] = resources[y] /\ declared'[y] = declared[y]
    BY <2>1 DEF TypeInv, Typed, TypeOK
  <2>4. NoInventedStock'
    BY <2>1, <2>2, <2>3 DEF StockInv, NoInventedStock, TypeInv, Typed, TypeOK
  <2>5. \A s \in resourceSaves' : s.availableQuantity <= declared'[s.resource]
    BY <1>1, <2>2, <2>3 DEF CreateResource, StockInv, TypeInv, Typed, TypeOK, ResourceSave
  <2>6. QED
    BY <2>4, <2>5 DEF StockInv
<1>2. ASSUME NEW x \in Resources, DeleteResource(x)
      PROVE  StockInv'
  BY <1>2 DEF DeleteResource, StockInv, NoInventedStock, TypeInv, Typed, TypeOK
<1>3. ASSUME NEW r \in Requests, NEW x \in Resources, UpdateResource(r, x)
      PROVE  StockInv'
  <2>1. PICK b \in Businesses, q \in {None} \union (IF x \in Products THEN QuantityInputs ELSE {}) :
          LET quantity == IF q = None THEN resources[x].availableQuantity ELSE q IN
            /\ resourceSaves' = resourceSaves \union
                 {[request |-> r, slot |-> 0, resource |-> x, item |-> None, phase |-> "read",
                   businessId |-> b, availableQuantity |-> quantity, write |-> "nothing"]}
            /\ declared' = [declared EXCEPT ![x] = AtLeast(@, quantity)]
    BY <1>3 DEF UpdateResource
  <2> DEFINE quantity == IF q = None THEN resources[x].availableQuantity ELSE q
             s == [request |-> r, slot |-> 0, resource |-> x, item |-> None, phase |-> "read",
                   businessId |-> b, availableQuantity |-> quantity, write |-> "nothing"]
  <2>2. quantity \in Nat
    BY <1>3 DEF UpdateResource, TypeInv, Typed, TypeOK, ResourceRow
  <2>3. declared' = [declared EXCEPT ![x] = AtLeast(@, quantity)] /\ resourceSaves' = resourceSaves \union {s}
    BY <2>1
  <2> HIDE DEF quantity
  <2>4. quantity <= declared'[x] /\ declared[x] <= declared'[x] /\ declared'[x] \in Nat
    BY <2>2, <2>3, AtLeastBounds DEF TypeInv, Typed, TypeOK
  <2>5. \A y \in Resources \ {x} : declared'[y] = declared[y]
    BY <2>3 DEF TypeInv, Typed, TypeOK
  <2>6. NoInventedStock'
    BY <1>3, <2>4, <2>5 DEF UpdateResource, StockInv, NoInventedStock, TypeInv, Typed, TypeOK, ResourceRow
  <2>7. s.availableQuantity <= declared'[s.resource]
    BY <2>4
  <2> HIDE DEF s
  <2>8. \A t \in resourceSaves' : t.availableQuantity <= declared'[t.resource]
    BY <2>3, <2>4, <2>5, <2>7 DEF StockInv, TypeInv, Typed, TypeOK, ResourceSave
  <2>9. QED
    BY <2>6, <2>8 DEF StockInv
<1>4. ASSUME NEW r \in Requests, NEW k \in request[r].todo, TakeStock(r, k)
      PROVE  StockInv'
  <2>1. PICK s \in ResourceSave :
          /\ resourceSaves' = resourceSaves \union {s}
          /\ resources[s.resource] # None
          /\ s.availableQuantity <= resources[s.resource].availableQuantity
    BY <1>4, TakeStockCopy
  <2>2. s.availableQuantity <= declared[s.resource]
    BY <2>1 DEF StockInv, NoInventedStock, TypeInv, Typed, TypeOK, ResourceSave, ResourceRow
  <2>3. QED
    BY <1>4, <2>1, <2>2 DEF TakeStock, StockInv, NoInventedStock
<1>5. ASSUME NEW s \in resourceSaves, CompareResource(s)
      PROVE  StockInv'
  <2>1. PICK w : resourceSaves' = (resourceSaves \ {s}) \union {[s EXCEPT !.phase = "compared", !.write = w]}
    BY <1>5 DEF CompareResource
  <2>2. PICK t : t = [s EXCEPT !.phase = "compared", !.write = w]
    OBVIOUS
  <2>3. t.availableQuantity = s.availableQuantity /\ t.resource = s.resource
    BY <2>2 DEF TypeInv, Typed, TypeOK, ResourceSave
  <2>4. QED
    BY <1>5, <2>1, <2>2, <2>3 DEF CompareResource, StockInv, NoInventedStock
<1>6. ASSUME NEW s \in resourceSaves, WriteResource(s)
      PROVE  StockInv'
  BY <1>6 DEF WriteResource, StockInv, NoInventedStock, TypeInv, Typed, TypeOK, ResourceSave
<1>7. ASSUME UNCHANGED <<resources, declared>>, resourceSaves' \subseteq resourceSaves
      PROVE  StockInv'
  BY <1>7 DEF StockInv, NoInventedStock
<1>8. QED
  BY ZenonT(30), <1>1, <1>2, <1>3, <1>4, <1>5, <1>6, <1>7 DEF Next, vars, OrderStep, SaveStep, CreateOrder, ValidateItem,
     StoreItem, FailItem, AwaitAll, RefuseOrder, SaveOrder, FailResource, Crash

\* No interleaving of stale copies raises the stock of a product above what its
\* owner has declared.
THEOREM StockNotInvented == Spec => []NoInventedStock
<1>1. Spec => []TypeInv
  BY InitTypeInv, StepTypeInv, PTL DEF Spec
<1>2. Spec => []StockInv
  BY <1>1, InitStockInv, StepStockInv, PTL DEF Spec
<1>3. StockInv => NoInventedStock
  BY DEF StockInv
<1>4. QED
  BY <1>2, <1>3, PTL
----------------------------------------------------------------------------
(***************************************************************************)
(* Orders follow updates: what createOrder has done for each item when it  *)
(* reaches a phase.                                                        *)
(***************************************************************************)

\* The item at position k is stored as row n.
StoredAs(req, k, n) ==
  /\ n \in Items
  /\ items[n] # None
  /\ items[n].itemType = req.items[k].itemType
  /\ items[n].resource = req.items[k].resource

AllStored(req) ==
  req.pc = "order" \/ (req.pc \in {"store", "stock"} /\ ~req.failed) =>
    \A k \in DOMAIN req.items :
      (req.pc = "store" /\ k \in req.todo) \/ StoredAs(req, k, req.orderItems[k])

\* The update for row n has been saved, or its copy is in flight.
TakenOrInFlight(r, n) ==
  n \in updated \/ \E s \in resourceSaves : s.request = r /\ s.item = n

StockTaken(r) ==
  /\ request[r].pc = "stock" /\ ~request[r].failed =>
       \A k \in StockPositions(request[r].items) \ request[r].todo :
         TakenOrInFlight(r, request[r].orderItems[k])
  /\ request[r].pc = "order" =>
       \A k \in StockPositions(request[r].items) : request[r].orderItems[k] \in updated

SettleInv ==
  /\ OrdersFollowUpdates
  /\ \A r \in Requests : AllStored(request[r]) /\ StockTaken(r)

LEMMA InitSettleInv == Init => SettleInv
BY IdleFields DEF Init, SettleInv, OrdersFollowUpdates, AllStored, StockTaken

\* What is stored stays stored.
LEMMA StoredStays ==
  ASSUME TypeInv, [Next]_vars, NEW req, NEW k, NEW n, StoredAs(req, k, n)
  PROVE  StoredAs(req, k, n)'
BY ItemsStay DEF StoredAs, SameItem

\* A request that does not move, and whose copies stay or are written, keeps
\* what it has done.
LEMMA SettleFrame ==
  ASSUME TypeInv, SettleInv, [Next]_vars, NEW r \in Requests, request'[r] = request[r],
         updated \subseteq updated',
         \A s \in resourceSaves : s.request = r /\ s.item # None =>
           s.item \in updated' \/ \E t \in resourceSaves' : t.request = r /\ t.item = s.item
  PROVE  AllStored(request[r])' /\ StockTaken(r)'
<1>1. PICK q : q = request[r] /\ q = request'[r]
  OBVIOUS
<1>2. AllStored(q)'
  BY <1>1, StoredStays DEF SettleInv, AllStored
<1>3. ASSUME q.pc = "stock", ~q.failed, NEW k \in StockPositions(q.items) \ q.todo
      PROVE  TakenOrInFlight(r, q.orderItems[k])'
  <2>1. q.orderItems[k] \in Items
    BY <1>1, <1>3 DEF SettleInv, AllStored, StoredAs, StockPositions
  <2>2. q.orderItems[k] # None
    BY <2>1, NoneAssumption
  <2>3. QED
    BY <1>1, <1>3, <2>2 DEF SettleInv, StockTaken, TakenOrInFlight
<1>4. StockTaken(r)'
  BY <1>1, <1>3 DEF SettleInv, StockTaken
<1>5. QED
  BY <1>1, <1>2, <1>4

LEMMA StepSettleInv == TypeInv /\ SettleInv /\ [Next]_vars => SettleInv'
<1> SUFFICES ASSUME TypeInv, SettleInv, [Next]_vars
             PROVE  SettleInv'
  OBVIOUS
<1> DEFINE Kept(r) == AllStored(request[r])' /\ StockTaken(r)'
<1>1. ASSUME updated \subseteq updated', items' = items
      PROVE  OrdersFollowUpdates'
  BY <1>1 DEF SettleInv, OrdersFollowUpdates
<1>2. ASSUME NEW r \in Requests, request'[r].pc \in {"idle", "saving", "validate"}
      PROVE  Kept(r)
  BY <1>2 DEF AllStored, StockTaken
<1>3. ASSUME NEW r \in Requests, request'[r] = request[r],
             updated \subseteq updated', resourceSaves \subseteq resourceSaves'
      PROVE  Kept(r)
  BY <1>3, SettleFrame
<1>4. ASSUME NEW r \in Requests, NEW q \in Request, q.pc \in {"idle", "saving", "validate"},
             request' = [request EXCEPT ![r] = q],
             updated \subseteq updated', resourceSaves \subseteq resourceSaves'
      PROVE  \A t \in Requests : Kept(t)
  BY <1>2, <1>3, <1>4 DEF TypeInv, Typed, TypeOK
<1>5. ASSUME NEW r \in Requests, CreateOrder(r)
      PROVE  SettleInv'
  <2>1. PICK q : q.pc = "validate" /\ request' = [request EXCEPT ![r] = q]
    BY <1>5 DEF CreateOrder, Idle
  <2>2. QED
    BY <1>1, <1>2, <1>3, <1>5, <2>1 DEF CreateOrder, SettleInv, TypeInv, Typed, TypeOK
<1>6. ASSUME NEW r \in Requests, NEW k \in request[r].todo, ValidateItem(r, k)
      PROVE  SettleInv'
  <2>1. PICK q, p : /\ q = request[r] /\ q.pc = "validate"
                    /\ p = [q EXCEPT !.todo = q.todo \ {k}]
                    /\ request' = [request EXCEPT ![r] = p]
    BY <1>6 DEF ValidateItem
  <2>2. p.pc = "validate"
    BY <2>1 DEF TypeInv, Typed, TypeOK, Request
  <2>3. QED
    BY <1>1, <1>2, <1>3, <1>6, <2>1, <2>2 DEF ValidateItem, SettleInv, TypeInv, Typed, TypeOK
<1>7. ASSUME NEW r \in Requests, NEW k \in request[r].todo, NEW n \in Items, StoreItem(r, k, n)
      PROVE  SettleInv'
  <2>1. PICK q, p : /\ q = request[r] /\ q.pc = "store"
                    /\ p = [q EXCEPT !.todo = q.todo \ {k}, !.orderItems = [q.orderItems EXCEPT ![k] = n]]
                    /\ request' = [request EXCEPT ![r] = p]
    BY <1>7 DEF StoreItem
  <2>2. /\ q \in Request /\ InOrder(q)
        /\ p.pc = "store" /\ p.todo = q.todo \ {k} /\ p.failed = q.failed /\ p.items = q.items
        /\ p.orderItems = [q.orderItems EXCEPT ![k] = n]
        /\ request'[r] = p
    BY <2>1 DEF TypeInv, Typed, TypeOK, RequestsInOrder, Request
  <2>3. items'[n] = [itemType |-> q.items[k].itemType, resource |-> q.items[k].resource,
                     quantity |-> q.items[k].quantity, orderId |-> None]
    BY <1>7, <2>1 DEF StoreItem, TypeInv, Typed, TypeOK
  <2>4. items'[n] # None
    <3>1. q.items[k] \in ItemInput
      BY <2>1, <2>2 DEF InOrder, Request
    <3>2. items'[n] \in ItemRow
      BY <2>3, <3>1 DEF ItemRow, ItemInput
    <3>3. QED
      BY <3>2, NoneAssumption
  <2>5. StoredAs(p, k, n)'
    BY <2>2, <2>3, <2>4 DEF StoredAs
  <2>6. ASSUME ~p.failed, NEW j \in DOMAIN p.items, j \notin p.todo, j # k, NEW m, m = q.orderItems[j]
        PROVE  StoredAs(p, j, m)'
    <3>1. StoredAs(q, j, m)
      BY <2>1, <2>2, <2>6 DEF SettleInv, AllStored
    <3>2. StoredAs(q, j, m)'
      BY <3>1, StoredStays
    <3>3. QED
      BY <2>2, <3>2 DEF StoredAs
  <2>7. AllStored(p)'
    <3>1. \A j \in DOMAIN p.items : j = k => p.orderItems[j] = n
      BY <2>2 DEF InOrder, Request
    <3>2. \A j \in DOMAIN p.items : j # k => p.orderItems[j] = q.orderItems[j]
      BY <2>2 DEF InOrder, Request
    <3>3. QED
      BY <2>2, <2>5, <2>6, <3>1, <3>2 DEF AllStored
  <2>8. StockTaken(r)'
    BY <2>2 DEF StockTaken
  <2>9. \A u \in Requests \ {r} : Kept(u)
    BY <1>3, <1>7, <2>1 DEF StoreItem, TypeInv, Typed, TypeOK
  <2>10. OrdersFollowUpdates'
    <3>1. items'[n].orderId = None
      BY <2>3
    <3>2. \A m \in Items \ {n} : items'[m] = items[m]
      BY <1>7 DEF StoreItem
    <3>3. updated' = updated
      BY <1>7 DEF StoreItem
    <3>4. QED
      BY <3>1, <3>2, <3>3 DEF SettleInv, OrdersFollowUpdates
  <2>11. QED
    BY <2>2, <2>7, <2>8, <2>9, <2>10 DEF SettleInv
<1>8. ASSUME NEW r \in Requests, NEW k \in request[r].todo, TakeStock(r, k)
      PROVE  SettleInv'
  <2>1. PICK s \in ResourceSave :
          resourceSaves' = resourceSaves \union {s} /\ s.request = r /\ s.item = request[r].orderItems[k]
    BY <1>8, TakeStockCopy
  <2>2. PICK q, p : /\ q = request[r] /\ q.pc = "stock"
                    /\ p = [q EXCEPT !.todo = q.todo \ {k}]
                    /\ request' = [request EXCEPT ![r] = p]
    BY <1>8 DEF TakeStock
  <2>3. /\ p.pc = "stock" /\ p.todo = q.todo \ {k} /\ p.failed = q.failed
        /\ p.items = q.items /\ p.orderItems = q.orderItems
    BY <2>2 DEF TypeInv, Typed, TypeOK, Request
  <2>4. request'[r] = p
    BY <2>2 DEF TypeInv, Typed, TypeOK
  <2>5. AllStored(p)'
    <3>1. ~p.failed => \A j \in DOMAIN p.items : StoredAs(q, j, q.orderItems[j])
      BY <2>2, <2>3 DEF SettleInv, AllStored
    <3>2. ASSUME ~p.failed, NEW j \in DOMAIN p.items, NEW n, n = q.orderItems[j]
          PROVE  StoredAs(p, j, n)'
      <4>1. StoredAs(q, j, n)'
        BY <3>1, <3>2, StoredStays
      <4>2. QED
        BY <2>3, <4>1 DEF StoredAs
    <3>3. QED
      BY <2>3, <3>2 DEF AllStored
  <2>6. StockTaken(r)'
    <3>1. ~p.failed => \A j \in StockPositions(p.items) \ p.todo : TakenOrInFlight(r, p.orderItems[j])'
      BY <1>8, <2>1, <2>2, <2>3 DEF TakeStock, SettleInv, StockTaken, TakenOrInFlight
    <3>2. QED
      BY <2>3, <2>4, <3>1 DEF StockTaken
  <2>7. \A t \in Requests \ {r} : Kept(t)
    BY <1>3, <1>8, <2>1, <2>2 DEF TakeStock, TypeInv, Typed, TypeOK
  <2>8. QED
    BY <1>1, <1>8, <2>4, <2>5, <2>6, <2>7 DEF TakeStock, SettleInv
<1>9. ASSUME NEW r \in Requests, NEW k \in request[r].todo, FailItem(r, k)
      PROVE  SettleInv'
  <2>1. PICK q, p : /\ q = request[r] /\ q.pc \in {"store", "stock"}
                    /\ p = [q EXCEPT !.todo = q.todo \ {k}, !.failed = TRUE]
                    /\ request' = [request EXCEPT ![r] = p]
    BY <1>9 DEF FailItem
  <2>2. p.failed = TRUE /\ p.pc \in {"store", "stock"} /\ request'[r] = p
    BY <2>1 DEF TypeInv, Typed, TypeOK, Request
  <2>3. Kept(r)
    BY <2>2 DEF AllStored, StockTaken
  <2>4. QED
    BY <1>1, <1>3, <1>9, <2>1, <2>3 DEF FailItem, SettleInv, TypeInv, Typed, TypeOK
<1>10. ASSUME NEW r \in Requests, AwaitAll(r)
       PROVE  SettleInv'
  <2>1. PICK q, p : /\ q = request[r]
                    /\ p = IF q.failed THEN Idle ELSE NextPhase(q)
                    /\ request' = [request EXCEPT ![r] = p]
    BY <1>10 DEF AwaitAll
  <2>2. /\ q \in Request /\ request'[r] = p /\ q.todo = {}
        /\ q.pc \in {"validate", "store", "stock"}
        /\ \A s \in resourceSaves : s.request # r
        /\ UNCHANGED <<updated, items, resourceSaves>>
    BY <1>10, <2>1 DEF AwaitAll, Settled, TypeInv, Typed, TypeOK
  <2>3. CASE q.failed
    <3>1. Kept(r)
      BY <1>2, <2>1, <2>2, <2>3, IdleFields
    <3>2. QED
      BY <1>1, <1>3, <2>1, <2>2, <3>1 DEF SettleInv, TypeInv, Typed, TypeOK
  <2>4. ASSUME ~q.failed
        PROVE  /\ p.items = q.items /\ p.orderItems = q.orderItems /\ p.failed = q.failed
               /\ q.pc = "validate" => p.pc = "store" /\ p.todo = DOMAIN q.items
               /\ q.pc = "store" => p.pc = "stock" /\ p.todo = StockPositions(q.items)
               /\ q.pc = "stock" => p.pc = "order"
    BY <2>1, <2>2, <2>4 DEF NextPhase, Request
  <2>5. CASE ~q.failed
    <3>1. ASSUME q.pc # "validate", NEW j \in DOMAIN p.items, NEW n, n = q.orderItems[j]
          PROVE  StoredAs(p, j, n)'
      <4>1. StoredAs(q, j, n)
        BY <2>1, <2>2, <2>4, <2>5, <3>1 DEF SettleInv, AllStored
      <4>2. StoredAs(q, j, n)'
        BY <4>1, StoredStays
      <4>3. QED
        BY <2>4, <2>5, <4>2 DEF StoredAs
    <3>2. AllStored(p)'
      BY <2>2, <2>4, <2>5, <3>1 DEF AllStored
    <3>3. StockTaken(r)'
      BY <2>1, <2>2, <2>4, <2>5 DEF SettleInv, StockTaken, TakenOrInFlight
    <3>4. QED
      BY <1>1, <1>3, <2>1, <2>2, <3>2, <3>3 DEF SettleInv, TypeInv, Typed, TypeOK
  <2>6. QED
    BY <2>3, <2>5
<1>11. ASSUME NEW r \in Requests, RefuseOrder(r) \/ \E x \in Resources : UpdateResource(r, x)
       PROVE  SettleInv'
  <2>1. request' = [request EXCEPT ![r] = Idle] \/ request' = [request EXCEPT ![r] = Saving]
    BY <1>11 DEF RefuseOrder, UpdateResource
  <2>2. UNCHANGED <<updated, items>> /\ resourceSaves \subseteq resourceSaves'
    BY <1>11 DEF RefuseOrder, UpdateResource
  <2>3. QED
    BY <1>1, <1>4, <2>1, <2>2, IdleTypes, IdleFields DEF SettleInv
<1>12. ASSUME NEW r \in Requests, NEW o \in Orders, SaveOrder(r, o)
       PROVE  SettleInv'
  <2>1. \A t \in Requests : Kept(t)
    BY <1>4, <1>12, IdleTypes, IdleFields DEF SaveOrder
  <2>2. ASSUME NEW n \in OrderedItems(request[r]), n \in Items,
               items[n].itemType = "product", items[n].resource # None
        PROVE  n \in updated
    <3>1. PICK k \in DOMAIN request[r].orderItems : n = request[r].orderItems[k]
      BY DEF OrderedItems
    <3>2. k \in DOMAIN request[r].items /\ request[r].pc = "order"
      BY <1>12 DEF SaveOrder, TypeInv, Typed, TypeOK, RequestsInOrder, InOrder
    <3>3. k \in StockPositions(request[r].items)
      BY <2>2, <3>1, <3>2 DEF SettleInv, AllStored, StoredAs, StockPositions
    <3>4. QED
      BY <3>1, <3>2, <3>3 DEF SettleInv, StockTaken
  <2>3. OrdersFollowUpdates'
    BY <1>12, <2>2, SaveOrderItems DEF SaveOrder, SettleInv, OrdersFollowUpdates
  <2>4. QED
    BY <2>1, <2>3 DEF SettleInv
<1>13. ASSUME NEW s \in resourceSaves, CompareResource(s)
       PROVE  SettleInv'
  <2>1. PICK w : resourceSaves' = (resourceSaves \ {s}) \union {[s EXCEPT !.phase = "compared", !.write = w]}
    BY <1>13 DEF CompareResource
  <2>2. PICK t : t = [s EXCEPT !.phase = "compared", !.write = w]
    OBVIOUS
  <2>3. t.item = s.item /\ t.request = s.request
    BY <2>2 DEF TypeInv, Typed, TypeOK, ResourceSave
  <2>4. \A r \in Requests : Kept(r)
    BY ZenonT(30), <1>13, <2>1, <2>2, <2>3, SettleFrame DEF CompareResource
  <2>5. QED
    BY <1>1, <1>13, <2>4 DEF CompareResource, SettleInv
<1>14. ASSUME NEW s \in resourceSaves, WriteResource(s)
       PROVE  SettleInv'
  <2>1. s.request \in Requests
    BY DEF TypeInv, Typed, TypeOK, ResourceSave
  <2>2. PICK q, p : /\ q = request[s.request]
                    /\ p = [q EXCEPT !.failed = q.failed \/ FALSE]
                    /\ request' = [request EXCEPT ![s.request] = IF q.pc = "saving" THEN Idle ELSE p]
    BY <1>14 DEF WriteResource, AfterSave
  <2>3. q \in Request
    BY <2>1, <2>2 DEF TypeInv, Typed, TypeOK
  <2>4. p = q
    BY <2>2, <2>3 DEF Request
  <2>5. /\ updated' = updated \union ({s.item} \ {None}) /\ items' = items
        /\ resourceSaves' = resourceSaves \ {s}
    BY <1>14 DEF WriteResource
  <2>6. ASSUME NEW r \in Requests, request'[r] = request[r]
        PROVE  Kept(r)
    <3>1. \A t \in resourceSaves : t.request = r /\ t.item # None =>
            t.item \in updated' \/ \E u \in resourceSaves' : u.request = r /\ u.item = t.item
      BY <2>5
    <3>2. updated \subseteq updated'
      BY <2>5
    <3>3. QED
      BY <2>6, <3>1, <3>2, SettleFrame
  <2>7. ASSUME NEW r \in Requests
        PROVE  request'[r] = request[r] \/ request'[r] = Idle
    BY <2>1, <2>2, <2>4 DEF TypeInv, Typed, TypeOK
  <2>8. \A r \in Requests : Kept(r)
    BY <1>2, <2>6, <2>7, IdleFields
  <2>9. QED
    BY <1>1, <2>5, <2>8 DEF SettleInv
<1>15. ASSUME NEW s \in resourceSaves, FailResource(s)
       PROVE  SettleInv'
  <2>1. s.request \in Requests
    BY DEF TypeInv, Typed, TypeOK, ResourceSave
  <2>2. PICK q, p : /\ q = request[s.request]
                    /\ p = [q EXCEPT !.failed = q.failed \/ TRUE]
                    /\ request' = [request EXCEPT ![s.request] = IF q.pc = "saving" THEN Idle ELSE p]
    BY <1>15 DEF FailResource, AfterSave
  <2>3. q \in Request
    BY <2>1, <2>2 DEF TypeInv, Typed, TypeOK
  <2>4. p.failed /\ p.pc = q.pc /\ p.items = q.items /\ p.orderItems = q.orderItems
    BY <2>2, <2>3 DEF Request
  <2>5. updated' = updated /\ items' = items /\ resourceSaves' = resourceSaves \ {s}
    BY <1>15 DEF FailResource
  <2>6. ASSUME NEW r \in Requests \ {s.request}
        PROVE  Kept(r)
    <3>1. request'[r] = request[r]
      BY <2>1, <2>2 DEF TypeInv, Typed, TypeOK
    <3>2. \A t \in resourceSaves : t.request = r => t \in resourceSaves'
      BY <2>5, <2>6
    <3>3. QED
      BY <2>5, <3>1, <3>2, SettleFrame
  <2>7. Kept(s.request)
    <3>1. CASE q.pc = "saving"
      BY <1>2, <2>1, <2>2, <3>1, IdleFields DEF TypeInv, Typed, TypeOK
    <3>2. CASE q.pc # "saving"
      <4>1. request'[s.request] = p
        BY <2>1, <2>2, <3>2 DEF TypeInv, Typed, TypeOK
      <4>2. ASSUME p.pc = "order", NEW j \in DOMAIN p.items, NEW n, n = q.orderItems[j]
            PROVE  StoredAs(p, j, n)'
        <5>1. StoredAs(q, j, n)
          BY <2>1, <2>2, <2>4, <4>2 DEF SettleInv, AllStored
        <5>2. StoredAs(q, j, n)'
          BY <5>1, StoredStays
        <5>3. QED
          BY <2>4, <5>2 DEF StoredAs
      <4>3. AllStored(p)'
        BY <2>4, <4>2 DEF AllStored
      <4>4. q.pc = "order" => \A k \in StockPositions(q.items) : q.orderItems[k] \in updated
        BY <2>1, <2>2 DEF SettleInv, StockTaken
      <4>5. p.pc = "order" => \A k \in StockPositions(p.items) : p.orderItems[k] \in updated'
        BY <2>4, <2>5, <4>4
      <4>6. StockTaken(s.request)'
        BY <2>4, <4>1, <4>5 DEF StockTaken
      <4>7. QED
        BY <4>1, <4>3, <4>6
    <3>3. QED
      BY <3>1, <3>2
  <2>8. QED
    BY <1>1, <2>1, <2>5, <2>6, <2>7 DEF SettleInv
<1>16. CASE Crash
  BY <1>1, <1>2, <1>16, IdleFields DEF Crash, SettleInv
<1>17. ASSUME UNCHANGED <<items, request, resourceSaves, updated>>
       PROVE  SettleInv'
  BY <1>1, <1>3, <1>17 DEF SettleInv
<1>18. QED
  BY <1>5, <1>6, <1>7, <1>8, <1>9, <1>10, <1>11, <1>12, <1>13, <1>14, <1>15, <1>16, <1>17
  DEF Next, vars, OrderStep, SaveStep, CreateResource, DeleteResource

\* No failure, crash or interleaving leads to an order one of whose inventory
\* updates has not been saved.
THEOREM UpdatesPrecedeOrders == Spec => []OrdersFollowUpdates
<1>1. Spec => []TypeInv
  BY InitTypeInv, StepTypeInv, PTL DEF Spec
<1>2. Spec => []SettleInv
  BY <1>1, InitSettleInv, StepSettleInv, PTL DEF Spec
<1>3. SettleInv => OrdersFollowUpdates
  BY DEF SettleInv
<1>4. QED
  BY <1>2, <1>3, PTL
----------------------------------------------------------------------------
(***************************************************************************)
(* Ordered goods exist: a catalogue row never changes its business, not    *)
(* even when a late save brings a deleted row back, and a row that an item *)
(* refers to cannot go.                                                    *)
(***************************************************************************)

ItemRefs ==
  \A n \in Items : items[n] # None /\ items[n].resource # None => resources[items[n].resource] # None

\* A copy in flight is of the business of its row, and of any other copy.
SavesAgree ==
  /\ \A s \in resourceSaves :
       /\ resources[s.resource] # None => resources[s.resource].businessId = s.businessId
       /\ resources[s.resource] = None => s.resource \in deleted
  /\ \A s, t \in resourceSaves : s.resource = t.resource => s.businessId = t.businessId

\* What row n refers to is of the business of the request.
GoodsOf(req, n) ==
  items[n].resource # None => resources[items[n].resource].businessId = req.businessId

RequestedGoods ==
  \A r \in Requests : \A k \in DOMAIN request[r].orderItems :
    request[r].orderItems[k] # None => GoodsOf(request[r], request[r].orderItems[k])

GoodsInv == OrderedGoodsExist /\ ItemRefs /\ SavesAgree /\ RequestedGoods

LEMMA InitGoodsInv == Init => GoodsInv
BY IdleFields DEF Init, GoodsInv, OrderedGoodsExist, ItemRefs, SavesAgree, RequestedGoods, GoodsOf

\* A row keeps its business, and while an item refers to it, it stays.
LEMMA ResourcesStay ==
  ASSUME TypeInv, SavesAgree, [Next]_vars, NEW x \in Resources, resources[x] # None
  PROVE  /\ resources'[x] # None => resources'[x].businessId = resources[x].businessId
         /\ (\E n \in Items : items[n] # None /\ items[n].resource = x) => resources'[x] # None
<1> DEFINE Stays == /\ resources'[x] # None => resources'[x].businessId = resources[x].businessId
                    /\ (\E n \in Items : items[n] # None /\ items[n].resource = x) => resources'[x] # None
<1> SUFFICES Stays
  OBVIOUS
<1>1. ASSUME NEW y \in Resources, CreateResource(y)
      PROVE  Stays
  BY <1>1 DEF CreateResource, TypeInv, Typed, TypeOK
<1>2. ASSUME NEW y \in Resources, DeleteResource(y)
      PROVE  Stays
  BY <1>2 DEF DeleteResource, TypeInv, Typed, TypeOK
<1>3. ASSUME NEW s \in resourceSaves, WriteResource(s)
      PROVE  Stays
  <2>1. s \in ResourceSave /\ resources \in [Resources -> ResourceRow \union {None}]
    BY DEF TypeInv, Typed, TypeOK
  <2>2. CASE resources' = resources
    BY <2>2
  <2>3. CASE resources' # resources
    <3>1. PICK row : /\ row = [businessId |-> s.businessId, availableQuantity |-> s.availableQuantity]
                     /\ resources' = [resources EXCEPT ![s.resource] = row]
      BY <1>3, <2>3 DEF WriteResource
    <3>2. row \in ResourceRow /\ row.businessId = s.businessId
      BY <2>1, <3>1 DEF ResourceSave, ResourceRow
    <3>3. row # None
      BY <3>2, NoneAssumption
    <3>4. CASE x = s.resource
      BY <2>1, <3>1, <3>2, <3>3, <3>4 DEF SavesAgree
    <3>5. CASE x # s.resource
      BY <2>1, <3>1, <3>5
    <3>6. QED
      BY <3>4, <3>5
  <2>4. QED
    BY <2>2, <2>3
<1>4. CASE UNCHANGED resources
  BY <1>4
<1>5. ASSUME NEW r \in Requests
      PROVE  /\ \A y \in Resources : UpdateResource(r, y) => UNCHANGED resources
             /\ \A k \in request[r].todo : TakeStock(r, k) => UNCHANGED resources
             /\ \A s \in resourceSaves : CompareResource(s) \/ FailResource(s) => UNCHANGED resources
  BY DEF UpdateResource, TakeStock, CompareResource, FailResource
<1> HIDE DEF Stays
<1>6. QED
  BY ZenonT(30), <1>1, <1>2, <1>3, <1>4, <1>5 DEF Next, vars, OrderStep, SaveStep, CreateOrder, ValidateItem,
     StoreItem, FailItem, AwaitAll, RefuseOrder, SaveOrder, Crash

\* A stored item keeps its goods, and their business.
LEMMA GoodsStay ==
  ASSUME TypeInv, ItemRefs, SavesAgree, [Next]_vars, NEW n \in Items, items[n] # None, items[n].resource # None
  PROVE  /\ items[n].resource \in Resources
         /\ resources'[items[n].resource] # None
         /\ resources'[items[n].resource].businessId = resources[items[n].resource].businessId
<1>1. items[n].resource \in Resources
  BY DEF TypeInv, Typed, TypeOK, ItemRow
<1>2. resources[items[n].resource] # None
  BY DEF ItemRefs
<1>3. PICK x \in Resources : x = items[n].resource
  BY <1>1
<1>4. resources'[x] # None /\ resources'[x].businessId = resources[x].businessId
  BY <1>2, <1>3, ResourcesStay
<1>5. QED
  BY <1>3, <1>4

\* Only StoreItem makes an item: of goods that are there, and of the business
\* of its request.
LEMMA NewItem ==
  ASSUME TypeInv, NEW r \in Requests, NEW k \in request[r].todo, NEW n \in Items, StoreItem(r, k, n)
  PROVE  /\ items[n] = None
         /\ items'[n].orderId = None
         /\ items'[n].resource # None =>
              /\ resources[items'[n].resource] # None
              /\ resources[items'[n].resource].businessId = request[r].businessId
         /\ \A m \in Items \ {n} : items'[m] = items[m]
         /\ UNCHANGED <<resources, orders>>
<1>1. PICK q, item, x : q = request[r] /\ item = q.items[k] /\ x = item.resource
  OBVIOUS
<1>2. items'[n] = [itemType |-> item.itemType, resource |-> x, quantity |-> item.quantity, orderId |-> None]
  BY <1>1 DEF StoreItem, TypeInv, Typed, TypeOK
<1>3. items'[n].orderId = None /\ items'[n].resource = x
  BY <1>2
<1>4. x # None => resources[x] # None /\ resources[x].businessId = q.businessId
  BY <1>1 DEF StoreItem, Found
<1>5. QED
  BY <1>1, <1>3, <1>4 DEF StoreItem

LEMMA StepSavesAgree == TypeInv /\ SavesAgree /\ [Next]_vars => SavesAgree'
<1> SUFFICES ASSUME TypeInv, SavesAgree, [Next]_vars
             PROVE  SavesAgree'
  OBVIOUS
<1>1. ASSUME NEW x \in Resources, CreateResource(x)
      PROVE  SavesAgree'
  <2>1. /\ \A s \in resourceSaves : s.resource # x
        /\ \A y \in Resources \ {x} : resources'[y] = resources[y]
        /\ UNCHANGED <<resourceSaves, deleted>>
    BY <1>1 DEF CreateResource, SavesAgree, TypeInv, Typed, TypeOK
  <2>2. \A s \in resourceSaves : s.resource \in Resources
    BY DEF TypeInv, Typed, TypeOK, ResourceSave
  <2>3. QED
    BY <2>1, <2>2 DEF SavesAgree
<1>2. ASSUME NEW x \in Resources, DeleteResource(x)
      PROVE  SavesAgree'
  BY <1>2 DEF DeleteResource, SavesAgree, TypeInv, Typed, TypeOK, ResourceSave
<1>3. ASSUME NEW s, resourceSaves' = resourceSaves \union {s}, UNCHANGED <<resources, deleted>>,
             resources[s.resource] # None, s.businessId = resources[s.resource].businessId
      PROVE  SavesAgree'
  BY <1>3 DEF SavesAgree
<1>4. ASSUME NEW r \in Requests, NEW x \in Resources, UpdateResource(r, x)
      PROVE  SavesAgree'
  <2>1. PICK q, s :
          /\ s = [request |-> r, slot |-> 0, resource |-> x, item |-> None, phase |-> "read",
                  businessId |-> resources[x].businessId, availableQuantity |-> q, write |-> "nothing"]
          /\ resourceSaves' = resourceSaves \union {s}
    BY <1>4 DEF UpdateResource
  <2>2. s.resource = x /\ s.businessId = resources[x].businessId
    BY <2>1
  <2>3. QED
    BY <1>3, <1>4, <2>1, <2>2 DEF UpdateResource
<1>5. ASSUME NEW r \in Requests, NEW k \in request[r].todo, TakeStock(r, k)
      PROVE  SavesAgree'
  BY <1>3, <1>5, TakeStockCopy DEF TakeStock
<1>6. ASSUME NEW s \in resourceSaves, CompareResource(s)
      PROVE  SavesAgree'
  <2>1. PICK w : resourceSaves' = (resourceSaves \ {s}) \union {[s EXCEPT !.phase = "compared", !.write = w]}
    BY <1>6 DEF CompareResource
  <2>2. PICK t : t = [s EXCEPT !.phase = "compared", !.write = w]
    OBVIOUS
  <2>3. t.businessId = s.businessId /\ t.resource = s.resource
    BY <2>2 DEF TypeInv, Typed, TypeOK, ResourceSave
  <2>4. UNCHANGED <<resources, deleted>>
    BY <1>6 DEF CompareResource
  <2>5. \A u \in resourceSaves' : \E v \in resourceSaves : u.businessId = v.businessId /\ u.resource = v.resource
    BY <2>1, <2>2, <2>3
  <2>6. QED
    BY <2>4, <2>5 DEF SavesAgree
<1>7. ASSUME NEW s \in resourceSaves, WriteResource(s)
      PROVE  SavesAgree'
  <2>1. resourceSaves' \subseteq resourceSaves /\ deleted' = deleted
    BY <1>7 DEF WriteResource
  <2>2. s.resource \in Resources
    BY DEF TypeInv, Typed, TypeOK, ResourceSave
  <2>3. \/ resources' = resources
        \/ /\ \A y \in Resources \ {s.resource} : resources'[y] = resources[y]
           /\ resources'[s.resource] = [businessId |-> s.businessId, availableQuantity |-> s.availableQuantity]
    BY <1>7, <2>2 DEF WriteResource, TypeInv, Typed, TypeOK
  <2>4. CASE resources' = resources
    BY <2>1, <2>4 DEF SavesAgree
  <2>5. CASE resources' # resources
    <3>1. resources'[s.resource] # None
      <4>1. resources'[s.resource] \in ResourceRow
        BY <2>3, <2>5 DEF TypeInv, Typed, TypeOK, ResourceSave, ResourceRow
      <4>2. QED
        BY <4>1, NoneAssumption
    <3>2. resources'[s.resource].businessId = s.businessId
      BY <2>3, <2>5
    <3>3. ASSUME NEW t \in resourceSaves'
          PROVE  /\ resources'[t.resource] # None => resources'[t.resource].businessId = t.businessId
                 /\ resources'[t.resource] = None => t.resource \in deleted'
      <4>1. t \in resourceSaves /\ t.resource \in Resources
        BY <2>1, <3>3 DEF TypeInv, Typed, TypeOK, ResourceSave
      <4>2. CASE t.resource = s.resource
        BY <3>1, <3>2, <4>1, <4>2 DEF SavesAgree
      <4>3. CASE t.resource # s.resource
        BY <2>1, <2>3, <2>5, <4>1, <4>3 DEF SavesAgree
      <4>4. QED
        BY <4>2, <4>3
    <3>4. QED
      BY <2>1, <3>3 DEF SavesAgree
  <2>6. QED
    BY <2>4, <2>5
<1>8. ASSUME UNCHANGED <<resources, deleted>>, resourceSaves' \subseteq resourceSaves
      PROVE  SavesAgree'
  BY <1>8 DEF SavesAgree
<1>9. QED
  BY ZenonT(30), <1>1, <1>2, <1>4, <1>5, <1>6, <1>7, <1>8 DEF Next, vars, OrderStep, SaveStep, CreateOrder, ValidateItem,
     StoreItem, FailItem, AwaitAll, RefuseOrder, SaveOrder, FailResource, Crash

LEMMA StepItemRefs == TypeInv /\ ItemRefs /\ SavesAgree /\ [Next]_vars => ItemRefs'
<1> SUFFICES ASSUME TypeInv, ItemRefs, SavesAgree, [Next]_vars,
                    NEW n \in Items, items'[n] # None, items'[n].resource # None
             PROVE  resources'[items'[n].resource] # None
  BY DEF ItemRefs
<1>1. CASE items[n] # None
  BY <1>1, ItemsStay, GoodsStay DEF SameItem
<1>2. ASSUME NEW r \in Requests, NEW k \in request[r].todo, NEW m \in Items, StoreItem(r, k, m), items[n] = None
      PROVE  resources'[items'[n].resource] # None
  BY <1>2, NewItem
<1>3. ASSUME NEW r \in Requests, NEW o \in Orders, SaveOrder(r, o)
      PROVE  items[n] # None
  BY <1>3, SaveOrderItems
<1>4. CASE UNCHANGED items
  BY <1>1, <1>4
<1>5. QED
  BY ZenonT(30), <1>1, <1>2, <1>3, <1>4 DEF Next, vars, OrderStep, SaveStep, CreateResource, DeleteResource, UpdateResource,
     CreateOrder, ValidateItem, TakeStock, FailItem, AwaitAll, RefuseOrder, CompareResource, WriteResource,
     FailResource, Crash

\* What a request refers to stays of its business.
LEMMA GoodsOfStay ==
  ASSUME TypeInv, ItemRefs, SavesAgree, [Next]_vars, NEW n \in Items, items[n] # None,
         NEW q, NEW p, GoodsOf(q, n), p.businessId = q.businessId
  PROVE  GoodsOf(p, n)'
<1>1. PICK x, y : x = items[n].resource /\ y = items'[n].resource
  OBVIOUS
<1>2. y = x
  BY <1>1, ItemsStay DEF SameItem
<1>3. CASE x = None
  BY <1>1, <1>2, <1>3 DEF GoodsOf
<1>4. CASE x # None
  <2>1. resources'[x].businessId = resources[x].businessId
    BY <1>1, <1>4, GoodsStay
  <2>2. resources[x].businessId = p.businessId
    BY <1>1, <1>4 DEF GoodsOf
  <2>3. QED
    BY <1>1, <1>2, <2>1, <2>2 DEF GoodsOf
<1>5. QED
  BY <1>3, <1>4

\* A request that keeps its items and its business keeps its goods.
LEMMA GoodsFrame ==
  ASSUME TypeInv, ItemRefs, SavesAgree, RequestedGoods, [Next]_vars, NEW r \in Requests,
         \/ request'[r].orderItems = <<>>
         \/ /\ request'[r].orderItems = request[r].orderItems
            /\ request'[r].businessId = request[r].businessId,
         NEW k \in DOMAIN request'[r].orderItems, request'[r].orderItems[k] # None
  PROVE  GoodsOf(request[r], request[r].orderItems[k])'
<1>1. PICK q, p, n : q = request[r] /\ p = request'[r] /\ n = request'[r].orderItems[k]
  OBVIOUS
<1>2. k \in DOMAIN q.orderItems /\ n = q.orderItems[k] /\ p.businessId = q.businessId
  BY <1>1
<1>3. n \in Items /\ items[n] # None
  BY <1>1, <1>2 DEF TypeInv, Typed, TypeOK, Request, PlacesStored
<1>4. GoodsOf(q, n)
  BY <1>1, <1>2 DEF RequestedGoods
<1>5. GoodsOf(p, n)'
  BY <1>2, <1>3, <1>4, GoodsOfStay
<1>6. QED
  BY <1>1, <1>5

LEMMA StepRequestedGoods ==
  TypeInv /\ ItemRefs /\ SavesAgree /\ RequestedGoods /\ [Next]_vars => RequestedGoods'
<1> SUFFICES ASSUME TypeInv, ItemRefs, SavesAgree, RequestedGoods, [Next]_vars
             PROVE  RequestedGoods'
  OBVIOUS
<1> DEFINE Kept(r) == \A k \in DOMAIN request'[r].orderItems :
             request'[r].orderItems[k] # None => GoodsOf(request[r], request[r].orderItems[k])'
<1>1. (\A r \in Requests : Kept(r)) => RequestedGoods'
  BY DEF RequestedGoods
<1>2. ASSUME NEW r \in Requests,
             \/ request'[r].orderItems = <<>>
             \/ /\ request'[r].orderItems = request[r].orderItems
                /\ request'[r].businessId = request[r].businessId
      PROVE  Kept(r)
  BY <1>2, GoodsFrame
<1> HIDE DEF Kept
<1>3. ASSUME NEW r \in Requests, NEW q,
             q.orderItems = <<>> \/ (q.orderItems = request[r].orderItems /\ q.businessId = request[r].businessId),
             request' = [request EXCEPT ![r] = q]
      PROVE  RequestedGoods'
  BY <1>1, <1>2, <1>3 DEF TypeInv, Typed, TypeOK
<1>4. ASSUME NEW r \in Requests, CreateOrder(r)
      PROVE  RequestedGoods'
  <2>1. PICK list :
          /\ request'[r].orderItems = [k \in DOMAIN list |-> None]
          /\ \A q \in Requests \ {r} : request'[q] = request[q]
    BY <1>4 DEF CreateOrder, TypeInv, Typed, TypeOK, Idle
  <2>2. Kept(r)
    BY <2>1 DEF Kept
  <2>3. QED
    BY <1>1, <1>2, <2>1, <2>2
<1>5. ASSUME NEW r \in Requests, NEW k \in request[r].todo, NEW n \in Items, StoreItem(r, k, n)
      PROVE  RequestedGoods'
  <2>1. PICK q, p : /\ q = request[r]
                    /\ p = [q EXCEPT !.todo = q.todo \ {k}, !.orderItems = [q.orderItems EXCEPT ![k] = n]]
                    /\ request' = [request EXCEPT ![r] = p]
    BY <1>5 DEF StoreItem
  <2>2. /\ p.orderItems = [q.orderItems EXCEPT ![k] = n] /\ p.businessId = q.businessId
        /\ q.orderItems \in Seq(Items \union {None})
        /\ request'[r] = p
        /\ \A u \in Requests \ {r} : request'[u] = request[u]
    BY <2>1 DEF TypeInv, Typed, TypeOK, Request
  <2>3. ASSUME NEW j \in DOMAIN p.orderItems, NEW m, m = p.orderItems[j], m # None
        PROVE  GoodsOf(p, m)'
    <3>1. m = n \/ (j \in DOMAIN q.orderItems /\ m = q.orderItems[j])
      BY <2>2, <2>3
    <3>2. CASE m = n
      <4>1. PICK x : x = items'[n].resource
        OBVIOUS
      <4>2. x # None => resources'[x].businessId = q.businessId
        BY <1>5, <2>1, <4>1, NewItem
      <4>3. QED
        BY <2>2, <3>2, <4>1, <4>2 DEF GoodsOf
    <3>3. CASE j \in DOMAIN q.orderItems /\ m = q.orderItems[j]
      <4>1. m \in Items /\ items[m] # None
        BY <2>1, <2>2, <2>3, <3>3 DEF TypeInv, PlacesStored
      <4>2. GoodsOf(q, m)
        BY <2>1, <2>3, <3>3 DEF RequestedGoods
      <4>3. QED
        BY <2>2, <4>1, <4>2, GoodsOfStay
    <3>4. QED
      BY <3>1, <3>2, <3>3
  <2>4. Kept(r)
    BY <2>2, <2>3 DEF Kept
  <2>5. QED
    BY <1>1, <1>2, <2>2, <2>4
<1>6. ASSUME NEW r \in Requests, NEW k \in request[r].todo,
             ValidateItem(r, k) \/ TakeStock(r, k) \/ FailItem(r, k)
      PROVE  RequestedGoods'
  <2>1. PICK q, p :
          /\ q = request[r]
          /\ \/ p = [q EXCEPT !.todo = q.todo \ {k}]
             \/ p = [q EXCEPT !.todo = q.todo \ {k}, !.failed = TRUE]
          /\ request' = [request EXCEPT ![r] = p]
    BY <1>6 DEF ValidateItem, TakeStock, FailItem
  <2>2. q \in Request
    BY <2>1 DEF TypeInv, Typed, TypeOK
  <2>3. p.orderItems = q.orderItems /\ p.businessId = q.businessId
    BY <2>1, <2>2 DEF Request
  <2>4. QED
    BY <1>3, <2>1, <2>3
<1>7. ASSUME NEW r \in Requests, AwaitAll(r)
      PROVE  RequestedGoods'
  <2>1. PICK q, p : /\ q = request[r]
                    /\ p = IF q.failed THEN Idle ELSE NextPhase(q)
                    /\ request' = [request EXCEPT ![r] = p]
    BY <1>7 DEF AwaitAll
  <2>2. q \in Request /\ q.pc \in {"validate", "store", "stock"}
    BY <1>7, <2>1 DEF AwaitAll, TypeInv, Typed, TypeOK
  <2>3. NextPhase(q).orderItems = q.orderItems /\ NextPhase(q).businessId = q.businessId
    BY <2>2 DEF NextPhase, Request
  <2>4. QED
    BY <1>3, <2>1, <2>3, IdleFields
<1>8. ASSUME NEW r \in Requests, RefuseOrder(r) \/ (\E o \in Orders : SaveOrder(r, o))
                               \/ (\E x \in Resources : UpdateResource(r, x))
      PROVE  RequestedGoods'
  <2>1. request' = [request EXCEPT ![r] = Idle] \/ request' = [request EXCEPT ![r] = Saving]
    BY <1>8 DEF RefuseOrder, SaveOrder, UpdateResource
  <2>2. QED
    BY <1>3, <2>1, IdleFields
<1>9. ASSUME NEW s \in resourceSaves, NEW failed \in BOOLEAN, AfterSave(s, failed)
      PROVE  RequestedGoods'
  <2>1. PICK q, p : /\ q = request[s.request]
                    /\ p = [q EXCEPT !.failed = q.failed \/ failed]
                    /\ request' = [request EXCEPT ![s.request] = IF q.pc = "saving" THEN Idle ELSE p]
    BY <1>9 DEF AfterSave
  <2>2. s.request \in Requests /\ q \in Request
    BY <2>1 DEF TypeInv, Typed, TypeOK, ResourceSave
  <2>3. p.orderItems = q.orderItems /\ p.businessId = q.businessId
    BY <2>1, <2>2 DEF Request
  <2>4. QED
    BY <1>3, <2>1, <2>2, <2>3, IdleFields
<1>10. CASE Crash
  BY <1>1, <1>2, <1>10, IdleFields DEF Crash
<1>11. CASE UNCHANGED request
  BY <1>1, <1>2, <1>11
<1>12. QED
  BY <1>4, <1>5, <1>6, <1>7, <1>8, <1>9, <1>10, <1>11 DEF Next, vars, OrderStep, SaveStep, CreateResource,
     DeleteResource, CompareResource, WriteResource, FailResource

\* The goods of row n are those of a stored order.
Ordered(n) ==
  /\ orders[items[n].orderId] # None
  /\ items[n].resource # None =>
       /\ resources[items[n].resource] # None
       /\ resources[items[n].resource].businessId = orders[items[n].orderId].businessId

LEMMA StepOrderedGoods == TypeInv /\ GoodsInv /\ [Next]_vars => OrderedGoodsExist'
<1> SUFFICES ASSUME TypeInv, GoodsInv, [Next]_vars,
                    NEW n \in Items, items'[n] # None, items'[n].orderId # None
             PROVE  Ordered(n)'
  BY DEF OrderedGoodsExist, Ordered
<1> USE DEF GoodsInv
<1>1. ASSUME items[n] # None, items'[n].orderId = items[n].orderId,
             orders'[items[n].orderId] = orders[items[n].orderId]
      PROVE  Ordered(n)'
  <2>1. PICK o, x : o = items[n].orderId /\ x = items[n].resource
    OBVIOUS
  <2>2. items'[n].orderId = o /\ items'[n].resource = x
    BY <1>1, <2>1, ItemsStay DEF SameItem
  <2>3. orders'[o] = orders[o] /\ orders[o] # None
    BY <1>1, <2>1, <2>2 DEF OrderedGoodsExist
  <2>4. x # None => resources[x].businessId = orders[o].businessId
    BY <1>1, <2>1, <2>2 DEF OrderedGoodsExist
  <2>5. x # None => resources'[x] # None /\ resources'[x].businessId = resources[x].businessId
    BY <1>1, <2>1, GoodsStay
  <2>6. QED
    BY <2>2, <2>3, <2>4, <2>5 DEF Ordered
<1>2. ASSUME NEW r \in Requests, NEW o \in Orders, SaveOrder(r, o)
      PROVE  Ordered(n)'
  <2>1. PICK q, row : /\ q = request[r]
                      /\ row = [businessId |-> q.businessId, customerId |-> q.customerId]
                      /\ orders' = [orders EXCEPT ![o] = row]
    BY <1>2 DEF SaveOrder
  <2>2. orders[o] = None /\ UNCHANGED resources
    BY <1>2 DEF SaveOrder
  <2>3. row \in OrderRow /\ row.businessId = q.businessId /\ orders'[o] = row
    BY <1>2, <2>1 DEF SaveOrder, TypeInv, Typed, TypeOK, RequestsInOrder, InOrder, OrderRow
  <2>4. CASE n \in OrderedItems(q)
    <3>1. PICK k \in DOMAIN q.orderItems : n = q.orderItems[k]
      BY <2>4 DEF OrderedItems
    <3>2. items[n] # None /\ items'[n].orderId = o /\ items'[n].resource = items[n].resource
      BY <1>2, <2>1, <2>4, SaveOrderItems
    <3>3. n # None
      BY NoneAssumption
    <3>4. GoodsOf(q, n)
      BY <2>1, <3>1, <3>3 DEF RequestedGoods
    <3>5. row # None
      BY <2>3, NoneAssumption
    <3>6. PICK x : x = items[n].resource
      OBVIOUS
    <3>7. x # None => resources'[x] # None /\ resources'[x].businessId = q.businessId
      BY <2>2, <3>2, <3>4, <3>6 DEF ItemRefs, GoodsOf
    <3>8. QED
      BY <2>3, <3>2, <3>5, <3>6, <3>7 DEF Ordered
  <2>5. CASE n \notin OrderedItems(q)
    <3>1. items'[n] = items[n]
      BY <1>2, <2>1, <2>5, SaveOrderItems
    <3>2. items[n].orderId # o
      BY <2>2, <3>1 DEF OrderedGoodsExist
    <3>3. orders'[items[n].orderId] = orders[items[n].orderId]
      BY <2>1, <3>1, <3>2 DEF TypeInv, Typed, TypeOK, ItemRow
    <3>4. QED
      BY <1>1, <3>1, <3>3
  <2>6. QED
    BY <2>4, <2>5
<1>3. ASSUME NEW r \in Requests, NEW k \in request[r].todo, NEW m \in Items, StoreItem(r, k, m)
      PROVE  Ordered(n)'
  BY <1>1, <1>3, NewItem
<1>4. CASE UNCHANGED <<items, orders>>
  BY <1>1, <1>4
<1>5. QED
  BY ZenonT(30), <1>2, <1>3, <1>4 DEF Next, vars, OrderStep, SaveStep, CreateResource, DeleteResource, UpdateResource,
     CreateOrder, ValidateItem, TakeStock, FailItem, AwaitAll, RefuseOrder, CompareResource, WriteResource,
     FailResource, Crash

LEMMA StepGoodsInv == TypeInv /\ GoodsInv /\ [Next]_vars => GoodsInv'
BY StepOrderedGoods, StepItemRefs, StepSavesAgree, StepRequestedGoods DEF GoodsInv

\* The goods of a stored order are there and are its business's, whatever is
\* deleted, updated or brought back around it.
THEOREM GoodsExist == Spec => []OrderedGoodsExist
<1>1. Spec => []TypeInv
  BY InitTypeInv, StepTypeInv, PTL DEF Spec
<1>2. Spec => []GoodsInv
  BY <1>1, InitGoodsInv, StepGoodsInv, PTL DEF Spec
<1>3. GoodsInv => OrderedGoodsExist
  BY DEF GoodsInv
<1>4. QED
  BY <1>2, <1>3, PTL

----------------------------------------------------------------------------
(***************************************************************************)
(* Requests that do not overlap, for orders that name each product once:   *)
(* the stock follows the ledger, whatever fails.                           *)
(***************************************************************************)

\* There is one request at a time.
Serial == \A r, q \in Requests : r = q

NamedOnce(list) == \A j, k \in StockPositions(list) : list[j].resource = list[k].resource => j = k

ProductsOnce == \A list \in ItemLists : NamedOnce(list)

\* The item at position k is stored with its quantity.
Placed(q, k) ==
  /\ q.orderItems[k] \in Items
  /\ items[q.orderItems[k]] # None
  /\ items[q.orderItems[k]].resource = q.items[k].resource
  /\ items[q.orderItems[k]].quantity = q.items[k].quantity

AllPlaced(q) ==
  /\ q.pc = "store" /\ ~q.failed => \A k \in DOMAIN q.items \ q.todo : Placed(q, k)
  /\ q.pc = "stock" => \A k \in DOMAIN q.items : Placed(q, k)

PlacesApart(q) ==
  \A j, k \in DOMAIN q.orderItems :
    q.orderItems[j] = q.orderItems[k] /\ q.orderItems[j] # None => j = k

\* The copy for position k is in flight.
InFlight(k) == \E s \in resourceSaves : s.slot = k

\* What has been taken for an item is not taken again.
TakenOnce(q) ==
  \A k \in DOMAIN q.orderItems :
    q.pc \in {"validate", "store", "stock"} /\ q.orderItems[k] \in updated =>
      q.pc = "stock" /\ k \notin q.todo /\ ~InFlight(k)

\* The copy s is what the row becomes by taking the item: nobody else changes
\* the row meanwhile.
Takes(q, s) ==
  /\ q.pc = "stock"
  /\ s.slot \in StockPositions(q.items) \ q.todo
  /\ s.item = q.orderItems[s.slot]
  /\ s.resource = q.items[s.slot].resource
  /\ s.resource \in Products
  /\ resources[s.resource] # None
  /\ s.availableQuantity =
       QuantityAfter(resources[s.resource].availableQuantity, q.items[s.slot].quantity)
  /\ s.phase = "compared" =>
       \/ s.write = "update"
       \/ s.write = "nothing" /\ s.availableQuantity = resources[s.resource].availableQuantity

\* The copy s is an owner's.
Sets(q, s) == q.pc = "saving" /\ s.slot = 0 /\ s.item = None

CopiesTake ==
  /\ \A s \in resourceSaves : Sets(request[s.request], s) \/ Takes(request[s.request], s)
  /\ \A s, t \in resourceSaves : s.slot = t.slot => s = t

SettledStored == IsFiniteSet(updated) /\ \A n \in updated : items[n] # None

Proceeds(q) == NamedOnce(q.items) /\ AllPlaced(q) /\ PlacesApart(q) /\ TakenOnce(q)

SaleInv ==
  /\ \A r \in Requests : Proceeds(request[r])
  /\ CopiesTake
  /\ SettledStored

LEMMA IdleSale ==
  ASSUME NEW q, q \in {Idle, Saving}
  PROVE  Proceeds(q)
<1>1. q.pc \in {"idle", "saving"} /\ q.items = <<>> /\ q.orderItems = <<>>
  BY IdleFields
<1>2. DOMAIN q.items = {} /\ DOMAIN q.orderItems = {}
  BY <1>1
<1>3. StockPositions(q.items) = {}
  BY <1>2 DEF StockPositions
<1>4. QED
  BY <1>1, <1>2, <1>3 DEF Proceeds, NamedOnce, AllPlaced, PlacesApart, TakenOnce

LEMMA InitSale == Init => SaleInv
BY IdleSale, FS_EmptySet DEF Init, SaleInv, CopiesTake, SettledStored

\* Between its saves a request has no copies.
LEMMA NoCopies ==
  ASSUME Serial, TypeInv, SaleInv, NEW r \in Requests, request[r].pc \notin {"saving", "stock"}
  PROVE  resourceSaves = {}
BY DEF Serial, TypeInv, Typed, TypeOK, ResourceSave, SaleInv, CopiesTake, Sets, Takes

\* What is stored and what has been taken stays so.
LEMMA SettledStays ==
  ASSUME TypeInv, SaleInv, [Next]_vars, updated' = updated
  PROVE  SettledStored'
BY ItemsStay DEF SaleInv, SettledStored, SameItem, TypeInv, Typed, TypeOK

LEMMA PlacedStays ==
  ASSUME TypeInv, [Next]_vars, NEW q, NEW k, Placed(q, k),
         NEW p, p.items = q.items, p.orderItems[k] = q.orderItems[k]
  PROVE  Placed(p, k)'
BY ItemsStay DEF Placed, SameItem

\* A request that stays in its phase, and has done no less.
LEMMA PhaseKept ==
  ASSUME TypeInv, [Next]_vars, NEW q, NEW p, Proceeds(q),
         p.pc = q.pc, p.items = q.items, p.orderItems = q.orderItems, p.todo \subseteq q.todo,
         p.pc = "store" => p.failed \/ (p.failed = q.failed /\ p.todo = q.todo)
  PROVE  NamedOnce(p.items) /\ AllPlaced(p)' /\ PlacesApart(p)
<1>1. \A k : Placed(q, k) => Placed(p, k)'
  BY PlacedStays
<1>2. QED
  BY <1>1 DEF Proceeds, AllPlaced, PlacesApart

LEMMA TakesStays ==
  ASSUME NEW q, NEW p, NEW s, Takes(q, s),
         p.pc = q.pc, p.items = q.items, p.orderItems = q.orderItems, p.todo \subseteq q.todo,
         resources'[s.resource] = resources[s.resource]
  PROVE  Takes(p, s)'
BY DEF Takes

\* Catalogue rows come and go, but none that an item refers to.
LEMMA SaleCatalogue ==
  ASSUME TypeInv, SaleInv, [Next]_vars, NEW x \in Resources, CreateResource(x) \/ DeleteResource(x)
  PROVE  SaleInv'
<1>1. /\ UNCHANGED <<items, request, resourceSaves, updated>>
      /\ \A y \in Resources \ {x} : resources'[y] = resources[y]
  BY DEF CreateResource, DeleteResource, TypeInv, Typed, TypeOK
<1>2. ASSUME NEW s \in resourceSaves, NEW q, q = request[s.request], Takes(q, s)
      PROVE  Takes(q, s)'
  <2>1. s.resource \in Resources /\ s.request \in Requests
    BY DEF TypeInv, Typed, TypeOK, ResourceSave
  <2>2. s.resource # x
    <3>1. CASE CreateResource(x)
      BY <1>2, <3>1 DEF CreateResource, Takes
    <3>2. CASE DeleteResource(x)
      <4>1. s.slot \in DOMAIN q.items /\ q.pc = "stock" /\ Proceeds(q)
        BY <1>2, <2>1 DEF Takes, StockPositions, SaleInv
      <4>2. Placed(q, s.slot)
        BY <4>1 DEF Proceeds, AllPlaced
      <4>3. PICK n \in Items : items[n] # None /\ items[n].resource = s.resource
        BY <1>2, <4>2 DEF Placed, Takes
      <4>4. QED
        BY <3>2, <4>3 DEF DeleteResource
    <3>3. QED
      BY <3>1, <3>2
  <2>3. resources'[s.resource] = resources[s.resource]
    BY <1>1, <2>1, <2>2
  <2>4. QED
    BY <1>2, <2>3, TakesStays
<1>3. CopiesTake'
  <2>1. ASSUME NEW s \in resourceSaves'
        PROVE  Sets(request[s.request], s)' \/ Takes(request[s.request], s)'
    <3>1. PICK q : q = request[s.request] /\ q = request'[s.request]
      BY <1>1
    <3>2. Sets(q, s) \/ Takes(q, s)'
      BY <1>1, <1>2, <3>1 DEF SaleInv, CopiesTake
    <3>3. QED
      BY <3>1, <3>2 DEF Sets, Takes
  <2>2. \A s, t \in resourceSaves' : s.slot = t.slot => s = t
    BY <1>1 DEF SaleInv, CopiesTake
  <2>3. QED
    BY <2>1, <2>2 DEF CopiesTake
<1>4. \A r \in Requests : Proceeds(request[r])'
  BY <1>1 DEF SaleInv, Proceeds, AllPlaced, Placed, PlacesApart, TakenOnce, InFlight
<1>5. QED
  BY <1>1, <1>3, <1>4, SettledStays DEF SaleInv

\* With one request, it is enough to look at that.
LEMMA OneRequest ==
  ASSUME Serial, NEW r \in Requests, Proceeds(request[r])', CopiesTake', SettledStored'
  PROVE  SaleInv'
BY DEF Serial, SaleInv

LEMMA RequestIs ==
  ASSUME TypeInv, NEW r \in Requests, NEW q, request' = [request EXCEPT ![r] = q]
  PROVE  request'[r] = q
BY DEF TypeInv, Typed, TypeOK

\* Without copies in flight there is nothing to be said of them.
LEMMA NothingInFlight ==
  ASSUME resourceSaves' = {}
  PROVE  CopiesTake' /\ \A k : ~InFlight(k)'
BY DEF CopiesTake, InFlight

\* A request that ends or that is an owner's.
LEMMA SaleIdle ==
  ASSUME Serial, TypeInv, SaleInv, [Next]_vars, NEW r \in Requests,
         request' = [request EXCEPT ![r] = Idle], resourceSaves = {}, resourceSaves' = {},
         updated' = updated
  PROVE  SaleInv'
<1>1. request'[r] = Idle
  BY RequestIs
<1>2. Proceeds(Idle)'
  <2>1. \A q : q \in {Idle, Saving} => Proceeds(q)
    BY IdleSale
  <2>2. Idle.pc = "idle" /\ Idle.orderItems = <<>> /\ Proceeds(Idle)
    BY <2>1, IdleFields
  <2>3. QED
    BY <2>2 DEF Proceeds, AllPlaced, TakenOnce
<1>3. QED
  BY <1>1, <1>2, OneRequest, NothingInFlight, SettledStays

LEMMA SaleUpdateResource ==
  ASSUME Serial, TypeInv, SaleInv, [Next]_vars, NEW r \in Requests, NEW x \in Resources,
         UpdateResource(r, x)
  PROVE  SaleInv'
<1>1. request'[r] = Saving /\ resourceSaves = {} /\ updated' = updated
  BY RequestIs, NoCopies DEF UpdateResource
<1>2. PICK s : resourceSaves' = resourceSaves \union {s} /\ s.slot = 0 /\ s.item = None /\ s.request = r
  <2>1. PICK b, n : resourceSaves' = resourceSaves \union
          {[request |-> r, slot |-> 0, resource |-> x, item |-> None, phase |-> "read",
            businessId |-> b, availableQuantity |-> n, write |-> "nothing"]}
    BY DEF UpdateResource
  <2>2. PICK s : s = [request |-> r, slot |-> 0, resource |-> x, item |-> None, phase |-> "read",
                      businessId |-> b, availableQuantity |-> n, write |-> "nothing"]
    OBVIOUS
  <2>3. s.slot = 0 /\ s.item = None /\ s.request = r
    BY <2>2
  <2>4. QED
    BY <2>1, <2>2, <2>3
<1>3. Proceeds(Saving)'
  <2>1. Saving.pc = "saving" /\ Proceeds(Saving)
    BY IdleSale, IdleFields
  <2>2. QED
    BY <2>1 DEF Proceeds, AllPlaced, TakenOnce
<1>4. CopiesTake'
  BY <1>1, <1>2, IdleFields DEF CopiesTake, Sets
<1>5. QED
  BY <1>1, <1>3, <1>4, OneRequest, SettledStays

LEMMA SaleCreateOrder ==
  ASSUME Serial, ProductsOnce, TypeInv, SaleInv, [Next]_vars, NEW r \in Requests, CreateOrder(r)
  PROVE  SaleInv'
<1>1. PICK b \in Businesses, c \in CustomerInputs, list \in ItemLists :
        request' = [request EXCEPT ![r] =
          [Idle EXCEPT !.pc = "validate", !.businessId = b, !.customerId = c, !.items = list,
                       !.orderItems = [k \in DOMAIN list |-> None], !.todo = DOMAIN list]]
  BY DEF CreateOrder
<1>2. PICK q : q = [Idle EXCEPT !.pc = "validate", !.businessId = b, !.customerId = c, !.items = list,
                       !.orderItems = [k \in DOMAIN list |-> None], !.todo = DOMAIN list]
  OBVIOUS
<1>3. request'[r] = q /\ resourceSaves = {} /\ UNCHANGED <<updated, resourceSaves>>
  BY <1>1, <1>2, RequestIs, NoCopies DEF CreateOrder
<1>4. q.pc = "validate" /\ q.items = list /\ q.orderItems = [k \in DOMAIN list |-> None]
  BY <1>2 DEF Idle
<1>5. None \notin updated'
  BY <1>3, NoneAssumption DEF TypeInv, Typed, TypeOK
<1>6. Proceeds(q)'
  BY <1>4, <1>5 DEF Proceeds, ProductsOnce, AllPlaced, PlacesApart, TakenOnce
<1>7. QED
  BY <1>3, <1>6, OneRequest, NothingInFlight, SettledStays

LEMMA SaleValidateItem ==
  ASSUME Serial, TypeInv, SaleInv, [Next]_vars, NEW r \in Requests, NEW k \in request[r].todo,
         ValidateItem(r, k)
  PROVE  SaleInv'
<1>1. PICK q, p : q = request[r] /\ p = [q EXCEPT !.todo = q.todo \ {k}]
  OBVIOUS
<1>2. /\ request'[r] = p /\ q.pc = "validate" /\ resourceSaves = {}
      /\ UNCHANGED <<updated, resourceSaves>>
  BY <1>1, RequestIs, NoCopies DEF ValidateItem
<1>3. /\ p.pc = q.pc /\ p.items = q.items /\ p.orderItems = q.orderItems /\ p.todo \subseteq q.todo
      /\ Proceeds(q)
  BY <1>1 DEF TypeInv, Typed, TypeOK, Request, SaleInv
<1>4. NamedOnce(p.items) /\ AllPlaced(p)' /\ PlacesApart(p)
  BY <1>2, <1>3, PhaseKept
<1>5. TakenOnce(p)'
  BY <1>2, <1>3 DEF Proceeds, TakenOnce
<1>6. Proceeds(request[r])'
  BY <1>2, <1>4, <1>5 DEF Proceeds, PlacesApart
<1>7. QED
  BY <1>2, <1>6, OneRequest, NothingInFlight, SettledStays

\* The new row is no place yet, and nothing has been taken for it.
LEMMA SaleStoreItem ==
  ASSUME Serial, TypeInv, SaleInv, [Next]_vars, NEW r \in Requests, NEW k \in request[r].todo,
         NEW n \in Items, StoreItem(r, k, n)
  PROVE  SaleInv'
<1>1. PICK q, p : /\ q = request[r]
                  /\ p = [q EXCEPT !.todo = q.todo \ {k}, !.orderItems = [q.orderItems EXCEPT ![k] = n]]
  OBVIOUS
<1>2. /\ request'[r] = p /\ q.pc = "store" /\ resourceSaves = {}
      /\ UNCHANGED <<updated, resourceSaves>> /\ items[n] = None
  BY <1>1, RequestIs, NoCopies DEF StoreItem
<1>3. /\ q \in Request /\ InOrder(q) /\ Proceeds(q) /\ k \in DOMAIN q.items
      /\ \A j \in DOMAIN q.orderItems : q.orderItems[j] # None => items[q.orderItems[j]] # None
  BY <1>1 DEF TypeInv, Typed, TypeOK, RequestsInOrder, InOrder, PlacesStored, SaleInv
<1>4. /\ p.pc = q.pc /\ p.items = q.items /\ p.todo = q.todo \ {k} /\ p.failed = q.failed
      /\ p.orderItems = [q.orderItems EXCEPT ![k] = n]
  BY <1>1, <1>3 DEF Request
<1>5. /\ DOMAIN p.orderItems = DOMAIN q.orderItems /\ k \in DOMAIN q.orderItems
      /\ p.orderItems[k] = n /\ \A j \in DOMAIN q.orderItems \ {k} : p.orderItems[j] = q.orderItems[j]
  BY <1>3, <1>4 DEF InOrder
<1>6. n \notin updated /\ \A j \in DOMAIN q.orderItems : q.orderItems[j] # n
  BY <1>2, <1>3, NoneAssumption DEF SaleInv, SettledStored
<1>7. Placed(p, k)'
  <2>1. PICK item : item = q.items[k] /\ item \in ItemInput
    BY <1>3 DEF Request
  <2>2. items'[n] = [itemType |-> item.itemType, resource |-> item.resource,
                     quantity |-> item.quantity, orderId |-> None]
    BY <1>1, <2>1 DEF StoreItem, TypeInv, Typed, TypeOK
  <2>3. items'[n].resource = item.resource /\ items'[n].quantity = item.quantity
    BY <2>2
  <2>4. items'[n] \in ItemRow
    BY <2>1, <2>2 DEF ItemRow, ItemInput
  <2>5. QED
    BY <1>4, <1>5, <2>1, <2>3, <2>4, NoneAssumption DEF Placed
<1>8. AllPlaced(p)'
  <2>1. ASSUME ~p.failed, NEW j \in DOMAIN p.items \ p.todo
        PROVE  Placed(p, j)'
    <3>1. CASE j = k
      BY <1>7, <3>1
    <3>2. CASE j # k
      <4>1. Placed(q, j) /\ p.orderItems[j] = q.orderItems[j]
        BY <1>2, <1>3, <1>4, <1>5, <2>1, <3>2 DEF Proceeds, AllPlaced, InOrder
      <4>2. QED
        BY <1>4, <4>1, PlacedStays
    <3>3. QED
      BY <3>1, <3>2
  <2>2. QED
    BY <1>2, <1>4, <2>1 DEF AllPlaced
<1>9. NamedOnce(p.items) /\ PlacesApart(p)
  BY <1>3, <1>4, <1>5, <1>6 DEF Proceeds, PlacesApart
<1>10. TakenOnce(p)'
  BY <1>2, <1>3, <1>4, <1>5, <1>6 DEF Proceeds, TakenOnce
<1>11. Proceeds(request[r])'
  BY <1>2, <1>8, <1>9, <1>10 DEF Proceeds, PlacesApart
<1>12. QED
  BY <1>2, <1>11, OneRequest, NothingInFlight, SettledStays

LEMMA SaleFailItem ==
  ASSUME Serial, TypeInv, SaleInv, [Next]_vars, NEW r \in Requests, NEW k \in request[r].todo,
         FailItem(r, k)
  PROVE  SaleInv'
<1>1. PICK q, p : q = request[r] /\ p = [q EXCEPT !.todo = q.todo \ {k}, !.failed = TRUE]
  OBVIOUS
<1>2. /\ request'[r] = p /\ q.pc \in {"store", "stock"}
      /\ UNCHANGED <<resources, updated, resourceSaves>>
  BY <1>1, RequestIs DEF FailItem
<1>3. /\ p.pc = q.pc /\ p.items = q.items /\ p.orderItems = q.orderItems /\ p.todo = q.todo \ {k}
      /\ p.failed /\ Proceeds(q) /\ k \in q.todo
  BY <1>1 DEF TypeInv, Typed, TypeOK, Request, SaleInv
<1>4. NamedOnce(p.items) /\ AllPlaced(p)' /\ PlacesApart(p)
  BY <1>3, PhaseKept
<1>5. TakenOnce(p)'
  BY <1>2, <1>3 DEF Proceeds, TakenOnce, InFlight
<1>6. CopiesTake'
  <2>1. ASSUME NEW s \in resourceSaves
        PROVE  Takes(p, s)' /\ s.request = r
    <3>1. s.request = r
      BY DEF Serial, TypeInv, Typed, TypeOK, ResourceSave
    <3>2. Takes(q, s)
      BY <1>1, <1>2, <3>1 DEF SaleInv, CopiesTake, Sets
    <3>3. QED
      BY <1>2, <1>3, <3>1, <3>2, TakesStays
  <2>2. QED
    BY <1>2, <2>1 DEF SaleInv, CopiesTake, Takes
<1>7. Proceeds(request[r])'
  BY <1>2, <1>4, <1>5 DEF Proceeds, PlacesApart
<1>8. QED
  BY <1>2, <1>6, <1>7, OneRequest, SettledStays

LEMMA SaleTakeStock ==
  ASSUME Serial, TypeInv, SaleInv, [Next]_vars, NEW r \in Requests, NEW k \in request[r].todo,
         TakeStock(r, k)
  PROVE  SaleInv'
<1>1. PICK q, p : q = request[r] /\ p = [q EXCEPT !.todo = q.todo \ {k}]
  OBVIOUS
<1>2. /\ request'[r] = p /\ q.pc = "stock" /\ UNCHANGED <<resources, updated>>
  BY <1>1, RequestIs DEF TakeStock
<1>3. /\ p.pc = q.pc /\ p.items = q.items /\ p.orderItems = q.orderItems /\ p.todo = q.todo \ {k}
      /\ Proceeds(q) /\ k \in q.todo /\ InOrder(q) /\ q \in Request
  BY <1>1 DEF TypeInv, Typed, TypeOK, RequestsInOrder, InOrder, Request, SaleInv
<1>4. NamedOnce(p.items) /\ AllPlaced(p)' /\ PlacesApart(p)
  BY <1>2, <1>3, PhaseKept
<1>5. PICK x, s :
        /\ x = q.items[k].resource
        /\ s = [request |-> r, slot |-> k, resource |-> x, item |-> q.orderItems[k],
                phase |-> "read", businessId |-> q.businessId,
                availableQuantity |-> QuantityAfter(resources[x].availableQuantity, q.items[k].quantity),
                write |-> "nothing"]
  OBVIOUS
<1>6. resourceSaves' = resourceSaves \union {s}
  BY <1>1, <1>5 DEF TakeStock
<1>7. /\ s.request = r /\ s.slot = k /\ s.resource = x /\ s.item = q.orderItems[k] /\ s.phase = "read"
      /\ s.availableQuantity = QuantityAfter(resources[x].availableQuantity, q.items[k].quantity)
  BY <1>5
<1>8. /\ k \in StockPositions(q.items) \ p.todo /\ k \in DOMAIN q.orderItems
      /\ x \in Products /\ resources[x] # None
  <2>1. k \in StockPositions(q.items) /\ k \in DOMAIN q.orderItems
    BY <1>2, <1>3 DEF InOrder
  <2>2. q.items[k].itemType = "product" /\ x # None
    BY <1>5, <2>1 DEF StockPositions
  <2>3. Found(q.items[k], q.businessId)
    BY <1>1 DEF TakeStock
  <2>4. QED
    BY <1>3, <1>5, <2>1, <2>2, <2>3 DEF Found, TableOf
<1>9. Takes(p, s)'
  BY <1>2, <1>3, <1>5, <1>7, <1>8 DEF Takes
<1>10. \A t \in resourceSaves : t.request = r /\ Takes(q, t)
  BY <1>1, <1>2 DEF Serial, TypeInv, Typed, TypeOK, ResourceSave, SaleInv, CopiesTake, Sets
<1>11. \A t \in resourceSaves : Takes(p, t)' /\ t.slot # k
  <2> SUFFICES ASSUME NEW t \in resourceSaves
               PROVE  Takes(p, t)' /\ t.slot # k
    OBVIOUS
  <2>1. Takes(q, t)
    BY <1>10
  <2>2. Takes(p, t)'
    BY <1>2, <1>3, <2>1, TakesStays
  <2>3. QED
    BY <1>3, <2>1, <2>2 DEF Takes
<1>12. CopiesTake'
  <2>1. \A t \in resourceSaves' : t.request = r /\ Takes(p, t)'
    BY <1>6, <1>7, <1>9, <1>10, <1>11
  <2>2. \A t, u \in resourceSaves' : t.slot = u.slot => t = u
    BY <1>6, <1>7, <1>11 DEF SaleInv, CopiesTake
  <2>3. QED
    BY <1>2, <2>1, <2>2 DEF CopiesTake, Takes
<1>13. TakenOnce(p)'
  <2>1. ASSUME NEW j \in DOMAIN p.orderItems, p.orderItems[j] \in updated
        PROVE  j \notin p.todo /\ ~InFlight(j)'
    <3>1. j \notin q.todo /\ ~InFlight(j)
      BY <1>2, <1>3, <2>1 DEF Proceeds, TakenOnce
    <3>2. j # k
      BY <1>3, <3>1
    <3>3. QED
      BY <1>3, <1>6, <1>7, <3>1, <3>2 DEF InFlight
  <2>2. QED
    BY <1>2, <1>3, <2>1 DEF TakenOnce
<1>14. Proceeds(request[r])'
  BY <1>2, <1>4, <1>13 DEF Proceeds, PlacesApart
<1>15. QED
  BY <1>2, <1>12, <1>14, OneRequest, SettledStays

LEMMA SaleAwaitAll ==
  ASSUME Serial, TypeInv, SaleInv, [Next]_vars, NEW r \in Requests, AwaitAll(r)
  PROVE  SaleInv'
<1>1. /\ resourceSaves = {} /\ request[r].todo = {} /\ UNCHANGED <<resourceSaves, updated>>
      /\ request[r].pc \in {"validate", "store", "stock"}
  BY DEF AwaitAll, Settled, Serial, TypeInv, Typed, TypeOK, ResourceSave
<1>2. CASE request[r].failed
  <2>1. request' = [request EXCEPT ![r] = Idle]
    BY <1>2 DEF AwaitAll
  <2>2. QED
    BY <1>1, <2>1, SaleIdle
<1>3. CASE ~request[r].failed
  <2>1. PICK q, p : q = request[r] /\ p = NextPhase(q)
    OBVIOUS
  <2>2. request'[r] = p
    BY <1>3, <2>1, RequestIs DEF AwaitAll
  <2>3. q \in Request /\ InOrder(q) /\ Proceeds(q) /\ ~q.failed /\ q.todo = {}
    BY <1>1, <1>3, <2>1 DEF TypeInv, Typed, TypeOK, RequestsInOrder, SaleInv
  <2>4. /\ p.items = q.items /\ p.orderItems = q.orderItems
        /\ \/ q.pc = "validate" /\ p.pc = "store" /\ p.todo = DOMAIN q.items
           \/ q.pc = "store" /\ p.pc = "stock" /\ p.todo = StockPositions(q.items)
           \/ q.pc = "stock" /\ p.pc = "order"
    <3>1. CASE q.pc = "validate"
      BY <2>1, <2>3, <3>1 DEF NextPhase, Request
    <3>2. CASE q.pc = "store"
      BY <2>1, <2>3, <3>2 DEF NextPhase, Request
    <3>3. CASE q.pc = "stock"
      BY <2>1, <2>3, <3>3 DEF NextPhase, Request
    <3>4. QED
      BY <1>1, <2>1, <3>1, <3>2, <3>3
  <2>5. AllPlaced(p)'
    <3>1. ASSUME q.pc = "store", NEW k \in DOMAIN p.items
          PROVE  Placed(p, k)'
      <4>1. Placed(q, k)
        BY <2>3, <2>4, <3>1 DEF Proceeds, AllPlaced
      <4>2. QED
        BY <2>4, <4>1, PlacedStays
    <3>2. QED
      BY <2>4, <3>1 DEF AllPlaced
  <2>6. NamedOnce(p.items) /\ PlacesApart(p)
    BY <2>3, <2>4 DEF Proceeds, PlacesApart
  <2>7. TakenOnce(p)'
    BY <1>1, <2>3, <2>4 DEF Proceeds, TakenOnce
  <2>8. Proceeds(request[r])'
    BY <2>2, <2>5, <2>6, <2>7 DEF Proceeds, PlacesApart
  <2>9. QED
    BY <1>1, <2>8, OneRequest, NothingInFlight, SettledStays
<1>4. QED
  BY <1>2, <1>3

LEMMA SaleCompare ==
  ASSUME Serial, TypeInv, SaleInv, [Next]_vars, NEW s \in resourceSaves, CompareResource(s)
  PROVE  SaleInv'
<1>1. PICK w, v :
        /\ w = IF resources[s.resource] = None THEN "insert"
               ELSE IF resources[s.resource].availableQuantity # s.availableQuantity THEN "update"
               ELSE "nothing"
        /\ v = [s EXCEPT !.phase = "compared", !.write = w]
  OBVIOUS
<1>2. resourceSaves' = (resourceSaves \ {s}) \union {v} /\ UNCHANGED <<resources, items, request, updated>>
  BY <1>1 DEF CompareResource
<1>3. /\ v.slot = s.slot /\ v.item = s.item /\ v.resource = s.resource /\ v.request = s.request
      /\ v.availableQuantity = s.availableQuantity /\ v.phase = "compared" /\ v.write = w
  BY <1>1 DEF TypeInv, Typed, TypeOK, ResourceSave
<1>4. ASSUME NEW q, Takes(q, s)
      PROVE  Takes(q, v)
  BY <1>1, <1>3, <1>4 DEF Takes
<1>5. ASSUME NEW t \in resourceSaves'
      PROVE  Sets(request[t.request], t) \/ Takes(request[t.request], t)
  <2>1. CASE t = v
    BY <1>3, <1>4, <2>1 DEF SaleInv, CopiesTake, Sets
  <2>2. CASE t \in resourceSaves
    BY <2>2 DEF SaleInv, CopiesTake
  <2>3. QED
    BY <1>2, <2>1, <2>2
<1>6. CopiesTake'
  <2>1. \A t, u \in resourceSaves' : t.slot = u.slot => t = u
    BY <1>2, <1>3 DEF SaleInv, CopiesTake
  <2>2. QED
    BY <1>2, <1>5, <2>1 DEF CopiesTake, Sets, Takes
<1>7. \A k : InFlight(k)' <=> InFlight(k)
  BY <1>2, <1>3 DEF InFlight
<1>8. \A r \in Requests : Proceeds(request[r])'
  BY <1>2, <1>7 DEF SaleInv, Proceeds, AllPlaced, Placed, PlacesApart, TakenOnce
<1>9. QED
  BY <1>2, <1>6, <1>8, SettledStays DEF SaleInv

\* The save of an owner ends, and with it the request.
LEMMA SaleSet ==
  ASSUME Serial, TypeInv, SaleInv, [Next]_vars, NEW s \in resourceSaves, Sets(request[s.request], s),
         WriteResource(s) \/ FailResource(s)
  PROVE  SaleInv'
<1>1. PICK r \in Requests : r = s.request
  BY DEF TypeInv, Typed, TypeOK, ResourceSave
<1>2. request[r].pc = "saving" /\ s.item = None
  BY <1>1 DEF Sets
<1>3. request'[r] = Idle /\ resourceSaves' = resourceSaves \ {s} /\ updated' = updated
  BY <1>1, <1>2, RequestIs DEF WriteResource, FailResource, AfterSave
<1>4. resourceSaves' = {}
  BY <1>1, <1>2, <1>3 DEF Serial, TypeInv, Typed, TypeOK, ResourceSave, SaleInv, CopiesTake, Sets, Takes
<1>5. Proceeds(Idle)'
  <2>1. Idle.pc = "idle" /\ Proceeds(Idle)
    BY IdleSale, IdleFields
  <2>2. QED
    BY <2>1 DEF Proceeds, AllPlaced, TakenOnce
<1>6. QED
  BY <1>3, <1>4, <1>5, OneRequest, NothingInFlight, SettledStays

\* The request goes on when a save that takes stock has ended, and the other
\* copies are of other rows.
LEMMA SaleTaken ==
  ASSUME Serial, TypeInv, SaleInv, [Next]_vars, NEW s \in resourceSaves, Takes(request[s.request], s),
         NEW failed \in BOOLEAN, AfterSave(s, failed), resourceSaves' = resourceSaves \ {s},
         \A x \in Resources \ {s.resource} : resources'[x] = resources[x],
         updated' \in {updated, updated \union {s.item}}
  PROVE  SaleInv'
<1>1. PICK r \in Requests : r = s.request
  BY DEF TypeInv, Typed, TypeOK, ResourceSave
<1>2. PICK q, p : q = request[r] /\ p = [q EXCEPT !.failed = q.failed \/ failed]
  OBVIOUS
<1>3. request'[r] = p /\ q.pc = "stock" /\ Takes(q, s)
  BY ZenonT(30), <1>1, <1>2, RequestIs DEF AfterSave, Takes
<1>4. /\ p.pc = q.pc /\ p.items = q.items /\ p.orderItems = q.orderItems /\ p.todo = q.todo
      /\ Proceeds(q) /\ InOrder(q)
  BY <1>2 DEF TypeInv, Typed, TypeOK, RequestsInOrder, Request, SaleInv
<1>5. NamedOnce(p.items) /\ AllPlaced(p)' /\ PlacesApart(p)
  BY <1>3, <1>4, PhaseKept
<1>6. \A t \in resourceSaves : t.request = r /\ Takes(q, t)
  BY <1>2, <1>3 DEF Serial, TypeInv, Typed, TypeOK, ResourceSave, SaleInv, CopiesTake, Sets
<1>7. ASSUME NEW t \in resourceSaves'
      PROVE  Takes(p, t)' /\ t.slot # s.slot
  <2>1. Takes(q, t) /\ t.slot # s.slot
    BY <1>6, <1>7 DEF SaleInv, CopiesTake
  <2>2. t.resource # s.resource
    BY <1>3, <1>4, <2>1 DEF Proceeds, NamedOnce, Takes
  <2>3. t.resource \in Resources
    BY <1>7 DEF TypeInv, Typed, TypeOK, ResourceSave
  <2>4. QED
    BY <1>4, <2>1, <2>2, <2>3, TakesStays
<1>8. CopiesTake'
  <2>1. \A t, u \in resourceSaves' : t.slot = u.slot => t = u
    BY DEF SaleInv, CopiesTake
  <2>2. \A t \in resourceSaves' : t.request = r
    BY <1>6
  <2>3. ASSUME NEW t \in resourceSaves'
        PROVE  Takes(request[t.request], t)'
    <3>1. request'[t.request] = p
      BY <1>3, <2>2
    <3>2. Takes(p, t)'
      BY <1>7
    <3>3. QED
      BY <3>1, <3>2 DEF Takes
  <2>4. QED
    BY <2>1, <2>3 DEF CopiesTake
<1>9. /\ s.slot \in DOMAIN q.items /\ s.slot \in DOMAIN q.orderItems /\ s.slot \notin q.todo
      /\ s.item = q.orderItems[s.slot] /\ s.item \in Items /\ items[s.item] # None
  <2>1. s.slot \in DOMAIN q.items /\ s.slot \notin q.todo /\ s.item = q.orderItems[s.slot]
    BY <1>3 DEF Takes, StockPositions
  <2>2. Placed(q, s.slot)
    BY <1>3, <1>4, <2>1 DEF Proceeds, AllPlaced
  <2>3. QED
    BY <1>4, <2>1, <2>2 DEF Placed, InOrder
<1>10. TakenOnce(p)'
  <2>1. ASSUME NEW j \in DOMAIN p.orderItems, p.orderItems[j] \in updated'
        PROVE  j \notin p.todo /\ ~InFlight(j)'
    <3>1. CASE j = s.slot
      BY <1>4, <1>7, <1>9, <3>1 DEF InFlight
    <3>2. CASE j # s.slot
      <4>1. p.orderItems[j] # s.item
        BY <1>4, <1>9, <2>1, <3>2, NoneAssumption DEF Proceeds, PlacesApart
      <4>2. q.orderItems[j] \in updated
        BY <1>4, <2>1, <4>1
      <4>3. j \notin q.todo /\ ~InFlight(j)
        BY <1>3, <1>4, <2>1, <4>2 DEF Proceeds, TakenOnce
      <4>4. QED
        BY <1>4, <4>3 DEF InFlight
    <3>3. QED
      BY <3>1, <3>2
  <2>2. QED
    BY <1>3, <1>4, <2>1 DEF TakenOnce
<1>11. SettledStored'
  <2>1. IsFiniteSet(updated')
    BY FS_AddElement DEF SaleInv, SettledStored
  <2>2. \A n \in updated' : n \in Items /\ items[n] # None
    BY <1>9 DEF SaleInv, SettledStored, TypeInv, Typed, TypeOK
  <2>3. QED
    BY <2>1, <2>2, ItemsStay DEF SettledStored, SameItem
<1>12. Proceeds(request[r])'
  BY <1>3, <1>5, <1>10 DEF Proceeds, PlacesApart
<1>13. QED
  BY <1>8, <1>11, <1>12, OneRequest

LEMMA SaleSaves ==
  ASSUME Serial, TypeInv, SaleInv, [Next]_vars, NEW s \in resourceSaves,
         WriteResource(s) \/ FailResource(s)
  PROVE  SaleInv'
<1>1. CASE Sets(request[s.request], s)
  BY <1>1, SaleSet
<1>2. CASE Takes(request[s.request], s)
  <2>1. \A x \in Resources \ {s.resource} : resources'[x] = resources[x]
    BY DEF WriteResource, FailResource, TypeInv, Typed, TypeOK
  <2>2. CASE WriteResource(s)
    <3>1. s.item # None
      <4>1. s.request \in Requests /\ s.slot \in DOMAIN request[s.request].items
        BY <1>2 DEF Takes, StockPositions, TypeInv, Typed, TypeOK, ResourceSave
      <4>2. Placed(request[s.request], s.slot)
        BY <1>2, <4>1 DEF Takes, SaleInv, Proceeds, AllPlaced
      <4>3. QED
        BY <1>2, <4>2, NoneAssumption DEF Takes, Placed
    <3>2. updated' = updated \union {s.item} /\ AfterSave(s, FALSE) /\ resourceSaves' = resourceSaves \ {s}
      BY <2>2, <3>1 DEF WriteResource
    <3>3. QED
      BY <1>2, <2>1, <3>2, SaleTaken
  <2>3. CASE FailResource(s)
    <3>1. updated' = updated /\ AfterSave(s, TRUE) /\ resourceSaves' = resourceSaves \ {s}
      BY <2>3 DEF FailResource
    <3>2. QED
      BY <1>2, <2>1, <3>1, SaleTaken
  <2>4. QED
    BY <2>2, <2>3
<1>3. QED
  BY <1>1, <1>2 DEF SaleInv, CopiesTake

LEMMA SaleNext ==
  ASSUME Serial, ProductsOnce, TypeInv, SaleInv, [Next]_vars
  PROVE  SaleInv'
<1>1. ASSUME NEW r \in Requests, RefuseOrder(r) \/ \E o \in Orders : SaveOrder(r, o)
      PROVE  SaleInv'
  <2>1. /\ request' = [request EXCEPT ![r] = Idle] /\ updated' = updated
        /\ resourceSaves' = resourceSaves /\ request[r].pc \in {"validate", "order"}
    BY <1>1 DEF RefuseOrder, SaveOrder
  <2>2. resourceSaves = {}
    BY <2>1, NoCopies
  <2>3. QED
    BY <2>1, <2>2, SaleIdle
<1>2. CASE Crash
  <2>1. (\A r \in Requests : request'[r] = Idle) /\ resourceSaves' = {} /\ updated' = updated
    BY <1>2 DEF Crash
  <2>2. Proceeds(Idle)'
    <3>1. Idle.pc = "idle" /\ Proceeds(Idle)
      BY IdleSale, IdleFields
    <3>2. QED
      BY <3>1 DEF Proceeds, AllPlaced, TakenOnce
  <2>3. QED
    BY <2>1, <2>2, NothingInFlight, SettledStays DEF SaleInv
<1>3. CASE UNCHANGED vars
  BY <1>3 DEF vars, SaleInv, Proceeds, AllPlaced, Placed, PlacesApart, TakenOnce, InFlight, CopiesTake,
     Sets, Takes, SettledStored
<1>4. QED
  BY <1>1, <1>2, <1>3, SaleCatalogue, SaleUpdateResource, SaleCreateOrder, SaleValidateItem,
     SaleStoreItem, SaleTakeStock, SaleFailItem, SaleAwaitAll, SaleCompare, SaleSaves
  DEF Next, OrderStep, SaveStep

----------------------------------------------------------------------------
(***************************************************************************)
(* The ledger.  An item is sold when the save that takes it is written; an *)
(* owner declares the stock by creating, saving or deleting the row.       *)
(***************************************************************************)

StockOf(p) == IF resources[p] = None THEN None ELSE resources[p].availableQuantity
StockMap == [p \in Products |-> StockOf(p)]
SoldMap == [p \in Products |-> Sold(p)]

LedgerStep == [Ledger!Next]_(Ledger!vars)

LEMMA LedgerStutters ==
  ASSUME StockMap' = StockMap, SoldMap' = SoldMap
  PROVE  LedgerStep
BY DEF LedgerStep, Ledger!vars, StockMap, StockOf, SoldMap

LEMMA LedgerDeclares ==
  ASSUME NEW p \in Products, StockMap'[p] \in Nat \union {None},
         StockMap' = [StockMap EXCEPT ![p] = StockMap'[p]], SoldMap' = SoldMap
  PROVE  LedgerStep
<1>1. Ledger!Declare(p)
  BY DEF Ledger!Declare, StockMap, StockOf, SoldMap
<1>2. QED
  BY <1>1 DEF LedgerStep, Ledger!Next

LEMMA LedgerSells ==
  ASSUME NEW p \in Products, NEW n \in Nat \ {0}, StockMap[p] # None, SoldMap[p] \in Nat,
         SoldMap' = [SoldMap EXCEPT ![p] = SoldMap[p] + n],
         StockMap' = [StockMap EXCEPT ![p] = QuantityAfter(StockMap[p], n)]
  PROVE  LedgerStep
<1>1. p \in DOMAIN SoldMap
  BY DEF SoldMap
<1>2. SoldMap'[p] - SoldMap[p] = n /\ SoldMap'[p] \in Nat
  BY <1>1
<1>3. SoldMap' = [SoldMap EXCEPT ![p] = SoldMap'[p]]
  BY <1>1
<1>4. PICK d : d = SoldMap'[p] - SoldMap[p]
  OBVIOUS
<1>5. d > 0 /\ StockMap' = [StockMap EXCEPT ![p] = IF d > StockMap[p] THEN 0 ELSE StockMap[p] - d]
  <2>1. d = n
    BY <1>2, <1>4
  <2>2. QuantityAfter(StockMap[p], n) = IF n > StockMap[p] THEN 0 ELSE StockMap[p] - n
    BY DEF QuantityAfter
  <2>3. QED
    BY <2>1, <2>2
<1>6. Ledger!Sell(p)
  BY <1>2, <1>3, <1>4, <1>5 DEF Ledger!Sell, StockMap, StockOf, SoldMap
<1>7. QED
  BY <1>6 DEF LedgerStep, Ledger!Next

LEMMA SoldIsFinite ==
  ASSUME TypeInv, SaleInv, NEW p
  PROVE  IsFiniteSet(ItemsSold(p)) /\ \A n \in ItemsSold(p) : n \in Items /\ items[n].quantity \in Nat
<1>1. ItemsSold(p) \subseteq updated
  BY DEF ItemsSold
<1>2. IsFiniteSet(ItemsSold(p))
  BY <1>1, FS_Subset DEF SaleInv, SettledStored
<1>3. QED
  BY <1>1, <1>2 DEF SaleInv, SettledStored, TypeInv, Typed, TypeOK, ItemRow

\* The quantity of what is sold does not change afterwards.
LEMMA SoldSame ==
  ASSUME TypeInv, SaleInv, [Next]_vars, NEW p, ItemsSold(p)' = ItemsSold(p)
  PROVE  Sold(p)' = Sold(p)
<1> DEFINE S == ItemsSold(p)
           f == [n \in S |-> items[n].quantity]
           g == [n \in S |-> items'[n].quantity]
<1>1. IsFiniteSet(S) /\ \A n \in S : n \in Items /\ items[n] # None /\ items[n].quantity \in Nat
  BY SoldIsFinite DEF ItemsSold, SaleInv, SettledStored
<1>2. \A n \in S : items'[n].quantity = items[n].quantity
  BY <1>1, ItemsStay DEF SameItem
<1>3. \A n \in S : f[n] \in Int /\ f[n] = g[n]
  BY <1>1, <1>2
<1>4. Sold(p) = SumFunctionOnSet(f, S) /\ Sold(p)' = SumFunctionOnSet(g, S)
  BY DEF Sold
<1> HIDE DEF S, f, g
<1>5. QED
  BY <1>1, <1>3, <1>4, SumSame

LEMMA SoldStays ==
  ASSUME TypeInv, SaleInv, [Next]_vars, NEW p, updated' = updated
  PROVE  Sold(p)' = Sold(p)
<1>1. \A n \in updated : items'[n].resource = items[n].resource
  BY ItemsStay DEF SameItem, SaleInv, SettledStored, TypeInv, Typed, TypeOK
<1>2. QED
  BY <1>1, SoldSame DEF ItemsSold

LEMMA SoldGrows ==
  ASSUME TypeInv, SaleInv, [Next]_vars, NEW a \in Items \ updated, items[a] # None,
         updated' = updated \union {a}, NEW p, items[a].resource = p
  PROVE  Sold(p) \in Nat /\ Sold(p)' = Sold(p) + items[a].quantity
<1> DEFINE S == ItemsSold(p)
           f == [n \in S |-> items[n].quantity]
           g == [n \in S \union {a} |-> items'[n].quantity]
<1>1. IsFiniteSet(S) /\ \A n \in S : n \in Items /\ items[n] # None /\ items[n].quantity \in Nat
  BY SoldIsFinite DEF ItemsSold, SaleInv, SettledStored
<1>2. \A n \in updated \union {a} :
        items'[n].quantity = items[n].quantity /\ items'[n].resource = items[n].resource
  BY ItemsStay DEF SameItem, SaleInv, SettledStored, TypeInv, Typed, TypeOK
<1>3. a \notin S /\ S \subseteq updated
  BY DEF ItemsSold
<1>4. ItemsSold(p)' = S \union {a}
  BY <1>2 DEF ItemsSold
<1>5. items[a].quantity \in Nat
  BY DEF TypeInv, Typed, TypeOK, ItemRow
<1>6. /\ \A n \in S : f[n] \in Nat /\ f[n] = g[n]
      /\ \A n \in S \union {a} : g[n] \in Int
      /\ g[a] = items[a].quantity
  BY <1>1, <1>2, <1>3, <1>5
<1>7. Sold(p) = SumFunctionOnSet(f, S)
  BY DEF Sold
<1>8. Sold(p)' = SumFunctionOnSet(g, S \union {a})
  BY <1>4 DEF Sold
<1> HIDE DEF S, f, g
<1>9. SumFunctionOnSet(f, S) \in Nat
  BY <1>1, <1>6, SumNat
<1>10. SumFunctionOnSet(f, S) = SumFunctionOnSet(g, S)
  <2>1. \A n \in S : f[n] \in Int /\ f[n] = g[n]
    BY <1>6
  <2>2. QED
    BY <1>1, <2>1, SumSame
<1>11. SumFunctionOnSet(g, S \union {a}) = g[a] + SumFunctionOnSet(g, S)
  BY <1>1, <1>3, <1>6, SumAdd
<1>12. QED
  BY <1>5, <1>6, <1>7, <1>8, <1>9, <1>10, <1>11

\* Steps that leave the catalogue and what is taken alone.
LEMMA LedgerQuiet ==
  ASSUME TypeInv, SaleInv, [Next]_vars, updated' = updated,
         \A p \in Products : StockOf(p)' = StockOf(p)
  PROVE  LedgerStep
<1>1. SoldMap' = SoldMap
  BY SoldStays DEF SoldMap
<1>2. StockMap' = StockMap
  BY DEF StockMap
<1>3. QED
  BY <1>1, <1>2, LedgerStutters

\* The owner of row x has it changed.
LEMMA LedgerOwner ==
  ASSUME TypeInv, TypeOK', SaleInv, [Next]_vars, updated' = updated, NEW x \in Resources,
         \A y \in Resources \ {x} : resources'[y] = resources[y]
  PROVE  LedgerStep
<1>1. SoldMap' = SoldMap
  BY SoldStays DEF SoldMap
<1>2. \A p \in Products \ {x} : StockOf(p)' = StockOf(p)
  BY DEF StockOf, Resources
<1>3. CASE x \in Products
  <2>1. StockMap' = [StockMap EXCEPT ![x] = StockMap'[x]]
    <3>1. StockMap' = [p \in Products |-> StockOf(p)'] /\ StockMap = [p \in Products |-> StockOf(p)]
      BY DEF StockMap
    <3>2. \A p \in Products \ {x} : StockMap'[p] = StockMap[p]
      BY <1>2, <3>1
    <3>3. QED
      BY <3>1, <3>2
  <2>2. StockMap'[x] \in Nat \union {None}
    BY <1>3 DEF StockMap, StockOf, TypeOK, ResourceRow
  <2>3. QED
    BY <1>1, <1>3, <2>1, <2>2, LedgerDeclares
<1>4. CASE x \notin Products
  BY <1>2, <1>4, LedgerQuiet
<1>5. QED
  BY <1>3, <1>4

\* The save of updateProductInventory is written: the item is sold.
LEMMA LedgerTakes ==
  ASSUME TypeInv, SaleInv, [Next]_vars, NEW s \in resourceSaves, Takes(request[s.request], s),
         WriteResource(s)
  PROVE  LedgerStep
<1>1. PICK q, p, a, n : q = request[s.request] /\ p = s.resource /\ a = s.item /\ n = q.items[s.slot].quantity
  OBVIOUS
<1>2. /\ q \in Request /\ InOrder(q) /\ Proceeds(q)
      /\ s.phase = "compared" /\ s.slot \in DOMAIN q.items /\ s.slot \notin q.todo /\ q.pc = "stock"
  BY <1>1 DEF TypeInv, Typed, TypeOK, RequestsInOrder, ResourceSave, SaleInv, Takes, WriteResource, StockPositions
<1>3. Placed(q, s.slot)
  BY <1>2 DEF Proceeds, AllPlaced
<1>4. a \in Items /\ items[a] # None /\ items[a].resource = p /\ items[a].quantity = n
  BY <1>1, <1>3 DEF Placed, Takes
<1>5. n \in Nat \ {0}
  <2>1. q.items \in Seq(ItemInput)
    BY <1>2 DEF Request
  <2>2. q.items[s.slot] \in ItemInput
    BY <1>2, <2>1
  <2>3. QED
    BY <1>1, <2>2 DEF ItemInput
<1>6. a \notin updated
  BY <1>1, <1>2 DEF Proceeds, TakenOnce, InFlight, Takes, InOrder
<1>7. updated' = updated \union {a}
  BY <1>1, <1>4, NoneAssumption DEF WriteResource
<1>8. Sold(p) \in Nat /\ Sold(p)' = Sold(p) + n
  BY <1>4, <1>6, <1>7, SoldGrows
<1>9. \A x \in Products \ {p} : Sold(x)' = Sold(x)
  <2>1. \A m \in updated \union {a} : items'[m].resource = items[m].resource
    BY <1>4, ItemsStay DEF SameItem, SaleInv, SettledStored, TypeInv, Typed, TypeOK
  <2>2. \A x \in Products \ {p} : ItemsSold(x)' = ItemsSold(x)
    BY <1>4, <1>7, <2>1 DEF ItemsSold
  <2>3. QED
    BY <2>2, SoldSame
<1>10. p \in Products /\ p \in Resources /\ resources[p] # None
  BY <1>1 DEF Takes, Resources
<1>11. SoldMap' = [SoldMap EXCEPT ![p] = SoldMap[p] + n] /\ SoldMap[p] \in Nat
  BY <1>8, <1>9, <1>10 DEF SoldMap
<1>12. \A x \in Products \ {p} : StockOf(x)' = StockOf(x)
  BY <1>1 DEF WriteResource, StockOf, Resources, TypeInv, Typed, TypeOK
<1>13. StockOf(p)' = QuantityAfter(StockOf(p), n)
  <2>1. s.availableQuantity = QuantityAfter(StockOf(p), n) /\ s.availableQuantity \in Nat
    BY <1>1, <1>10 DEF Takes, StockOf, TypeInv, Typed, TypeOK, ResourceSave
  <2>2. CASE s.write = "update"
    <3>1. resources'[p].availableQuantity = s.availableQuantity /\ resources'[p] # None
      BY <1>1, <1>10, <2>2, NoneAssumption DEF WriteResource, TypeInv, Typed, TypeOK, ResourceSave, ResourceRow
    <3>2. QED
      BY <2>1, <3>1 DEF StockOf
  <2>3. CASE s.write = "nothing" /\ s.availableQuantity = resources[p].availableQuantity
    <3>1. resources' = resources
      BY <2>3 DEF WriteResource
    <3>2. QED
      BY <1>10, <2>1, <2>3, <3>1 DEF StockOf
  <2>4. QED
    BY <1>1, <1>2, <2>2, <2>3 DEF Takes
<1>14. /\ StockMap' = [StockMap EXCEPT ![p] = QuantityAfter(StockMap[p], n)]
       /\ StockMap[p] # None
  <2>1. StockMap[p] = StockOf(p) /\ StockOf(p) \in Nat
    BY <1>10 DEF StockMap, StockOf, TypeInv, Typed, TypeOK, ResourceRow
  <2>2. QED
    BY <1>10, <1>12, <1>13, <2>1, NoneAssumption DEF StockMap
<1>15. QED
  BY <1>5, <1>10, <1>11, <1>14, LedgerSells

LEMMA LedgerWrites ==
  ASSUME TypeInv, TypeOK', SaleInv, [Next]_vars, NEW s \in resourceSaves, WriteResource(s)
  PROVE  LedgerStep
<1>1. CASE Sets(request[s.request], s)
  <2>1. updated' = updated
    BY <1>1 DEF WriteResource, Sets
  <2>2. s.resource \in Resources /\ \A y \in Resources \ {s.resource} : resources'[y] = resources[y]
    BY DEF WriteResource, TypeInv, Typed, TypeOK, ResourceSave
  <2>3. QED
    BY <2>1, <2>2, LedgerOwner
<1>2. CASE Takes(request[s.request], s)
  BY <1>2, LedgerTakes
<1>3. QED
  BY <1>1, <1>2 DEF SaleInv, CopiesTake

LEMMA StepLedger ==
  ASSUME TypeInv, TypeOK', SaleInv, [Next]_vars
  PROVE  LedgerStep
<1>1. CASE resources' = resources /\ updated' = updated
  BY <1>1, LedgerQuiet DEF StockOf
<1>2. ASSUME NEW x \in Resources, CreateResource(x) \/ DeleteResource(x)
      PROVE  LedgerStep
  <2>1. updated' = updated /\ \A y \in Resources \ {x} : resources'[y] = resources[y]
    BY <1>2 DEF CreateResource, DeleteResource, TypeInv, Typed, TypeOK
  <2>2. QED
    BY <2>1, LedgerOwner
<1>3. ASSUME NEW r \in Requests, CreateOrder(r) \/ OrderStep(r) \/ \E x \in Resources : UpdateResource(r, x)
      PROVE  LedgerStep
  BY <1>1, <1>3
  DEF CreateOrder, OrderStep, ValidateItem, StoreItem, TakeStock, FailItem, AwaitAll, RefuseOrder,
      SaveOrder, UpdateResource
<1>4. ASSUME NEW s \in resourceSaves, CompareResource(s) \/ WriteResource(s) \/ FailResource(s)
      PROVE  LedgerStep
  BY <1>1, <1>4, LedgerWrites DEF CompareResource, FailResource
<1>5. CASE Crash \/ UNCHANGED vars
  BY <1>1, <1>5 DEF Crash, vars
<1>6. QED
  BY <1>2, <1>3, <1>4, <1>5 DEF Next, SaveStep

SerialInv == TypeInv /\ SaleInv

LEMMA StepSerial ==
  ASSUME Serial, ProductsOnce
  PROVE  SerialInv /\ [Next]_vars => SerialInv' /\ LedgerStep
<1>1. ASSUME TypeInv, SaleInv, [Next]_vars
      PROVE  TypeInv' /\ SaleInv' /\ TypeOK'
  <2>1. TypeInv'
    BY <1>1, StepTypeInv
  <2>2. SaleInv'
    BY <1>1, SaleNext
  <2>3. QED
    BY <2>1, <2>2 DEF TypeInv, Typed
<1>2. QED
  BY <1>1, StepLedger DEF SerialInv

\* If requests do not overlap and no order names a product twice, the catalogue
\* is the atomic ledger: each product item takes its quantity exactly once, in
\* one step, whatever fails or crashes between (updateProductInventory,
\* createOrder, createProduct, updateProduct, deleteProduct).
THEOREM SerialStock ==
  ASSUME Serial, ProductsOnce
  PROVE  Spec => ImplementsStock
<1>1. Init => SerialInv /\ Ledger!Init
  <2> SUFFICES ASSUME Init
               PROVE  SerialInv /\ Ledger!Init
    OBVIOUS
  <2>1. SerialInv
    BY InitTypeInv, InitSale DEF SerialInv
  <2>2. \A p \in Products : Sold(p) = 0
    BY SumEmpty DEF Init, Sold, ItemsSold
  <2>3. \A p \in Products : resources[p] = None
    BY DEF Init, Resources
  <2>4. Ledger!Init
    BY <2>2, <2>3 DEF Ledger!Init
  <2>5. QED
    BY <2>1, <2>4
<1>2. SerialInv /\ [Next]_vars => SerialInv' /\ [Ledger!Next]_(Ledger!vars)
  BY StepSerial DEF LedgerStep
<1>3. QED
  BY <1>1, <1>2, PTL DEF Spec, ImplementsStock, Ledger!Spec
=============================================================================
