-------------------------- MODULE DirectoryProofs --------------------------
(***************************************************************************)
(* Theorems about Directory, for every number of businesses, customers,    *)
(* appointments and overlapping requests, with failures and crashes.       *)
(***************************************************************************)
EXTENDS Directory, TLAPS

\* States in which a request works on an appointment that it has read.
AtWork == {"read", "compared", "details", "lookup", "link", "deleting"}

\* What a request has set at each of its states.
InOrder(q) ==
  /\ q.pc \in {"creating", "updating", "importing"} => q.business \in Businesses
  /\ q.pc = "creating" => q.customer = None
  /\ q.pc = "updating" => q.email \in Emails
  /\ q.pc \in {"updating", "removing", "lookup"} => q.customer \in Customers
  /\ q.pc = "importing" => q.left # 0
  /\ q.pc \in AtWork => q.appointment \in Appointments
  /\ q.pc \notin AtWork => q.appointment = None
  /\ q.pc \in {"booking", "read", "compared", "details", "lookup", "link"} =>
       q.copy \in AppointmentRow
  /\ q.pc = "booking" => q.copy.googleEventId = None

RequestsInOrder == \A r \in Requests : InOrder(request[r])

Typed == TypeOK /\ RequestsInOrder

----------------------------------------------------------------------------
(***************************************************************************)
(* The records that the actions build.                                     *)
(***************************************************************************)

LEMMA IdleRequest ==
  /\ Idle \in Request /\ InOrder(Idle)
  /\ Idle.pc = "idle" /\ Idle.business = None /\ Idle.customer = None /\ Idle.email = None
  /\ Idle.overtaken = FALSE /\ Idle.appointment = None /\ Idle.copy = None
<1>1. Idle \in Request
  BY DirectoryAssumption DEF Idle, Request, Maybe
<1>2. QED
  BY <1>1 DEF Idle, InOrder, AtWork

LEMMA NothingTyped == NothingExpected \in Expectation
BY DEF NothingExpected, Expectation

\* A request that changes alone.
LEMMA RequestChange ==
  ASSUME Typed, NEW r \in Requests, NEW q \in Request, InOrder(q), Become(r, q)
  PROVE  request' \in [Requests -> Request] /\ RequestsInOrder'
BY DEF Typed, TypeOK, RequestsInOrder, Become, InOrder

\* A request that is overtaken changes in nothing else.
LEMMA Overtaken ==
  ASSUME NEW q \in Request, InOrder(q)
  PROVE  /\ [q EXCEPT !.overtaken = TRUE] \in Request
         /\ InOrder([q EXCEPT !.overtaken = TRUE])
         /\ [q EXCEPT !.overtaken = TRUE].overtaken = TRUE
         /\ [q EXCEPT !.overtaken = TRUE].pc = q.pc
         /\ [q EXCEPT !.overtaken = TRUE].business = q.business
         /\ [q EXCEPT !.overtaken = TRUE].customer = q.customer
         /\ [q EXCEPT !.overtaken = TRUE].email = q.email
         /\ [q EXCEPT !.overtaken = TRUE].appointment = q.appointment
         /\ [q EXCEPT !.overtaken = TRUE].copy = q.copy
         /\ [q EXCEPT !.overtaken = TRUE].columns = q.columns
<1> DEFINE p == [q EXCEPT !.overtaken = TRUE]
<1>1. /\ p \in Request /\ p.overtaken = TRUE /\ p.pc = q.pc /\ p.business = q.business
      /\ p.customer = q.customer /\ p.email = q.email /\ p.appointment = q.appointment
      /\ p.copy = q.copy /\ p.columns = q.columns /\ p.left = q.left
  BY DEF Request
<1>2. InOrder(p)
  BY <1>1 DEF InOrder
<1>3. QED
  BY <1>1, <1>2

LEMMA OvertakeChange ==
  ASSUME Typed, NEW r \in Requests, NEW b, NEW e, NEW q \in Request, InOrder(q),
         Overtake(r, b, e, q)
  PROVE  request' \in [Requests -> Request] /\ RequestsInOrder'
<1>1. \A s \in Requests : request[s] \in Request /\ InOrder(request[s])
  BY DEF Typed, TypeOK, RequestsInOrder
<1>2. \A s \in Requests : /\ [request[s] EXCEPT !.overtaken = TRUE] \in Request
                          /\ InOrder([request[s] EXCEPT !.overtaken = TRUE])
  BY <1>1, Overtaken
<1>3. request' = [s \in Requests |->
        IF s = r THEN q
        ELSE IF /\ request[s].pc \in {"creating", "updating"}
                /\ request[s].business = b
                /\ request[s].email = e
             THEN [request[s] EXCEPT !.overtaken = TRUE]
             ELSE request[s]]
  BY DEF Overtake
<1>4. \A s \in Requests : request'[s] \in Request /\ InOrder(request'[s])
  BY <1>1, <1>2, <1>3
<1>5. QED
  BY <1>3, <1>4 DEF RequestsInOrder, InOrder

LEMMA BeginChange ==
  ASSUME Typed, NEW r \in Requests, NEW a \in Appointments, NEW q \in Request, q.pc \in AtWork,
         InOrder([q EXCEPT !.appointment = a]), Begin(r, a, q)
  PROVE  /\ request' \in [Requests -> Request] /\ RequestsInOrder'
         /\ expected' \in [Appointments -> Expectation]
<1> DEFINE others == {s \in Requests \ {r} : request[s].appointment = a}
<1>1. \A s \in Requests : request[s] \in Request /\ InOrder(request[s])
  BY DEF Typed, TypeOK, RequestsInOrder
<1>2. \A s \in Requests : /\ [request[s] EXCEPT !.overtaken = TRUE] \in Request
                          /\ InOrder([request[s] EXCEPT !.overtaken = TRUE])
  BY <1>1, Overtaken
<1>3. PICK o \in BOOLEAN :
        request' = [s \in Requests |->
          IF s = r THEN [q EXCEPT !.appointment = a, !.overtaken = o]
          ELSE IF s \in others THEN [request[s] EXCEPT !.overtaken = TRUE] ELSE request[s]]
  BY DEF Begin
<1>4. /\ [q EXCEPT !.appointment = a, !.overtaken = o] \in Request
      /\ InOrder([q EXCEPT !.appointment = a, !.overtaken = o])
  <2> DEFINE p == [q EXCEPT !.appointment = a]
  <2>1. p \in Request /\ InOrder(p)
    BY DEF Request, Maybe
  <2>2. [p EXCEPT !.overtaken = o] = [q EXCEPT !.appointment = a, !.overtaken = o]
    OBVIOUS
  <2> HIDE DEF p
  <2>3. [p EXCEPT !.overtaken = o] \in Request /\ InOrder([p EXCEPT !.overtaken = o])
    BY <2>1 DEF InOrder, Request
  <2>4. QED
    BY <2>2, <2>3
<1> HIDE DEF others
<1>5. \A s \in Requests : request'[s] \in Request /\ InOrder(request'[s])
  BY <1>1, <1>2, <1>3, <1>4
<1>6. expected' \in [Appointments -> Expectation]
  BY NothingTyped DEF Begin, Typed, TypeOK
<1>7. QED
  BY <1>3, <1>5, <1>6 DEF RequestsInOrder, InOrder

LEMMA StopChange ==
  ASSUME Typed, NEW R, Stop(R)
  PROVE  /\ request' \in [Requests -> Request] /\ RequestsInOrder'
         /\ expected' \in [Appointments -> Expectation]
<1>1. \A s \in Requests : request[s] \in Request /\ InOrder(request[s])
  BY DEF Typed, TypeOK, RequestsInOrder
<1>2. request' = [s \in Requests |-> IF s \in R THEN Idle ELSE request[s]]
  BY DEF Stop
<1>3. \A s \in Requests : request'[s] \in Request /\ InOrder(request'[s])
  BY <1>1, <1>2, IdleRequest
<1>4. \A x \in Expectation : [x EXCEPT !.details = Unknown] \in Expectation
  BY DEF Expectation
<1>5. expected' \in [Appointments -> Expectation]
  BY <1>4 DEF Stop, Typed, TypeOK
<1>6. QED
  BY <1>2, <1>3, <1>5 DEF RequestsInOrder, InOrder

LEMMA CreateOneStep ==
  ASSUME Typed, NEW r \in Requests, CreateOne(r)
  PROVE  \E q \in Request :
           /\ InOrder(q) /\ Become(r, q)
           /\ q.pc = "creating" /\ q.customer = None /\ q.appointment = None
           /\ q.business \in Businesses
           /\ EmailIsFree(q.business, q.email, None)
<1>1. PICK b \in Businesses, e \in Maybe(Emails) :
        /\ EmailIsFree(b, e, None)
        /\ Become(r, [Idle EXCEPT !.pc = "creating", !.business = b, !.email = e])
  BY DEF CreateOne
<1> DEFINE q == [Idle EXCEPT !.pc = "creating", !.business = b, !.customer = None, !.email = e]
<1>2. q = [Idle EXCEPT !.pc = "creating", !.business = b, !.email = e]
  BY IdleRequest DEF Request
<1>3. /\ q \in Request /\ InOrder(q) /\ q.pc = "creating" /\ q.business = b
      /\ q.customer = None /\ q.email = e /\ q.appointment = None
  <2>1. b \in Maybe(Businesses) /\ None \in Maybe(Customers)
    BY DEF Maybe
  <2>2. /\ q \in Request /\ q.pc = "creating" /\ q.business = b
        /\ q.customer = None /\ q.email = e /\ q.appointment = None
    BY <2>1, IdleRequest DEF Request
  <2>3. QED
    BY <2>2 DEF InOrder, AtWork
<1> HIDE DEF q
<1>4. QED
  BY <1>1, <1>2, <1>3

LEMMA UpdateOneStep ==
  ASSUME Typed, NEW r \in Requests, UpdateOne(r)
  PROVE  \E q \in Request :
           /\ InOrder(q) /\ Become(r, q)
           /\ q.pc = "updating" /\ q.appointment = None
           /\ q.customer \in Customers /\ IsCustomer(q.customer)
           /\ q.business = customers[q.customer].businessId
           /\ ~q.overtaken =>
                \E b \in {q.business, None} : EmailIsFree(b, q.email, q.customer)
<1>1. PICK c \in Customers, b \in Maybe(Businesses), e \in Emails :
        /\ IsCustomer(c)
        /\ EmailIsFree(b, e, c)
        /\ Become(r, [Idle EXCEPT !.pc = "updating", !.customer = c, !.email = e,
                                  !.business = customers[c].businessId,
                                  !.overtaken = b \notin {customers[c].businessId, None}])
  BY DEF UpdateOne
<1> DEFINE d == customers[c].businessId
           o == b \notin {d, None}
           q == [Idle EXCEPT !.pc = "updating", !.business = d, !.customer = c, !.email = e,
                             !.overtaken = o]
<1>2. d \in Businesses /\ o \in BOOLEAN
  BY <1>1 DEF IsCustomer, CustomerRow
<1>3. q = [Idle EXCEPT !.pc = "updating", !.customer = c, !.email = e, !.business = d,
                       !.overtaken = o]
  OBVIOUS
<1>4. ~o => b \in {d, None}
  OBVIOUS
<1>5. Become(r, q)
  BY <1>1, <1>3
<1> HIDE DEF d, o
<1>6. /\ q \in Request /\ InOrder(q) /\ q.pc = "updating" /\ q.business = d
      /\ q.customer = c /\ q.email = e /\ q.appointment = None /\ q.overtaken = o
  <2>1. d \in Maybe(Businesses) /\ c \in Maybe(Customers) /\ e \in Maybe(Emails)
    BY <1>2 DEF Maybe
  <2>2. /\ q \in Request /\ q.pc = "updating" /\ q.business = d
        /\ q.customer = c /\ q.email = e /\ q.appointment = None /\ q.overtaken = o
    BY <1>2, <2>1, IdleRequest DEF Request
  <2>3. QED
    BY <1>2, <2>2 DEF InOrder, AtWork
<1> HIDE DEF q
<1>7. QED
  BY <1>1, <1>4, <1>5, <1>6 DEF d

LEMMA DeleteCustomerStep ==
  ASSUME Typed, NEW r \in Requests, DeleteCustomer(r)
  PROVE  \E q \in Request :
           InOrder(q) /\ Become(r, q) /\ q.pc = "removing" /\ q.appointment = None
<1>1. PICK c \in Customers : Become(r, [Idle EXCEPT !.pc = "removing", !.customer = c])
  BY DEF DeleteCustomer
<1> DEFINE q == [Idle EXCEPT !.pc = "removing", !.customer = c]
<1>2. q \in Request /\ q.pc = "removing" /\ q.customer = c /\ q.appointment = None
  BY IdleRequest DEF Request, Maybe
<1>3. InOrder(q)
  BY <1>2 DEF InOrder, AtWork
<1> HIDE DEF q
<1>4. QED
  BY <1>1, <1>2, <1>3 DEF q

LEMMA ImportCustomersStep ==
  ASSUME Typed, NEW r \in Requests, ImportCustomers(r)
  PROVE  \E q \in Request :
           InOrder(q) /\ Become(r, q) /\ q.pc = "importing" /\ q.appointment = None
<1>1. PICK b \in Businesses, n \in 1 .. MaxImport :
        Become(r, [Idle EXCEPT !.pc = "importing", !.business = b, !.left = n])
  BY DEF ImportCustomers
<1> DEFINE q == [Idle EXCEPT !.pc = "importing", !.business = b, !.left = n]
<1>2. /\ q \in Request /\ q.pc = "importing" /\ q.business = b /\ q.left = n
      /\ q.appointment = None
  <2>1. n \in 0 .. MaxImport
    BY DirectoryAssumption
  <2>2. QED
    BY <2>1, IdleRequest DEF Request, Maybe
<1>3. InOrder(q)
  BY <1>2 DEF InOrder, AtWork
<1> HIDE DEF q
<1>4. QED
  BY <1>1, <1>2, <1>3 DEF q

LEMMA SettledStep ==
  ASSUME NEW q \in Request, InOrder(q), q.pc = "importing"
  PROVE  /\ Settled(q) \in Request /\ InOrder(Settled(q))
         /\ Settled(q).pc \in {"idle", "importing"} /\ Settled(q).appointment = None
<1>1. CASE q.left = 1
  BY <1>1, IdleRequest DEF Settled
<1>2. CASE q.left # 1
  <2> DEFINE p == [q EXCEPT !.left = @ - 1]
  <2>1. q.left - 1 \in 0 .. MaxImport /\ q.left - 1 # 0
    BY <1>2, DirectoryAssumption DEF Request, InOrder
  <2>2. /\ p \in Request /\ p.left = q.left - 1 /\ p.pc = q.pc /\ p.business = q.business
        /\ p.appointment = q.appointment
    BY <2>1 DEF Request
  <2>3. InOrder(p)
    BY <2>1, <2>2 DEF InOrder, AtWork
  <2>4. QED
    BY <1>2, <2>2, <2>3 DEF Settled, InOrder, AtWork
<1>3. QED
  BY <1>1, <1>2

LEMMA CreateStep ==
  ASSUME Typed, NEW r \in Requests, Create(r)
  PROVE  \E q \in Request :
           /\ InOrder(q) /\ Become(r, q)
           /\ q.pc = "booking" /\ q.appointment = None /\ q.copy \in AppointmentRow
           /\ q.copy.customerId # None =>
                q.copy.customerId \in Customers /\ FindCustomer(q.copy.businessId, q.copy.customerId)
<1>1. PICK b \in Businesses, d \in Details \ Incomplete, c \in Maybe(Customers) :
        /\ c # None => FindCustomer(b, c)
        /\ Become(r, [Idle EXCEPT !.pc = "booking",
             !.copy = [businessId |-> b, details |-> d, customerId |-> c, googleEventId |-> None]])
  BY DEF Create
<1> DEFINE row == [businessId |-> b, details |-> d, customerId |-> c, googleEventId |-> None]
           q == [Idle EXCEPT !.pc = "booking", !.copy = row]
<1>2. /\ row \in AppointmentRow /\ row.customerId = c /\ row.businessId = b
      /\ row.googleEventId = None
  BY DEF AppointmentRow, Maybe
<1> HIDE DEF row
<1>3. q \in Request /\ q.pc = "booking" /\ q.appointment = None /\ q.copy = row
  BY <1>2, IdleRequest DEF Request, Maybe
<1>4. InOrder(q)
  BY <1>2, <1>3 DEF InOrder, AtWork
<1>5. Become(r, q)
  BY <1>1 DEF row
<1> HIDE DEF q
<1>6. QED
  BY <1>1, <1>2, <1>3, <1>4, <1>5 DEF Maybe

\* A request begins to work on an appointment with a copy of it.
LEMMA WorkStep ==
  ASSUME NEW q \in Request, q.pc \in AtWork, NEW a \in Appointments,
         q.pc = "lookup" => q.customer \in Customers,
         q.pc # "deleting" => q.copy \in AppointmentRow
  PROVE  InOrder([q EXCEPT !.appointment = a])
<1> DEFINE p == [q EXCEPT !.appointment = a]
<1>1. p.pc = q.pc /\ p.appointment = a /\ p.customer = q.customer /\ p.copy = q.copy
  BY DEF Request
<1> HIDE DEF p
<1>2. InOrder(p)
  BY <1>1 DEF InOrder, AtWork
<1>3. QED
  BY <1>2 DEF p

LEMMA UpdateGoogleEventIdStep ==
  ASSUME Typed, NEW r \in Requests, UpdateGoogleEventId(r)
  PROVE  \E a \in Appointments, q \in Request :
           /\ IsAppointment(a) /\ Begin(r, a, q) /\ InOrder([q EXCEPT !.appointment = a])
           /\ q.pc = "read" /\ q.copy \in AppointmentRow
           /\ q.copy.businessId = appointments[a].businessId
           /\ q.copy.details = appointments[a].details
           /\ q.copy.customerId = appointments[a].customerId
<1>1. PICK a \in Appointments, id \in Maybe(EventIds) :
        /\ IsAppointment(a)
        /\ Begin(r, a, [Idle EXCEPT !.pc = "read",
                                    !.copy = [appointments[a] EXCEPT !.googleEventId = id]])
  BY DEF UpdateGoogleEventId
<1> DEFINE row == [appointments[a] EXCEPT !.googleEventId = id]
           q == [Idle EXCEPT !.pc = "read", !.copy = row]
<1>2. /\ row \in AppointmentRow
      /\ row.businessId = appointments[a].businessId
      /\ row.details = appointments[a].details
      /\ row.customerId = appointments[a].customerId
  BY <1>1 DEF IsAppointment, AppointmentRow
<1>3. Begin(r, a, q)
  BY <1>1
<1> HIDE DEF row
<1>4. q \in Request /\ q.pc = "read" /\ q.copy = row
  BY <1>2, IdleRequest DEF Request, Maybe
<1> HIDE DEF q
<1>5. InOrder([q EXCEPT !.appointment = a])
  BY <1>2, <1>4, WorkStep DEF AtWork
<1>6. QED
  BY <1>1, <1>2, <1>3, <1>4, <1>5

LEMMA UpdateStep ==
  ASSUME Typed, NEW r \in Requests, Update(r)
  PROVE  \E a \in Appointments, q \in Request :
           /\ IsAppointment(a) /\ Begin(r, a, q) /\ InOrder([q EXCEPT !.appointment = a])
           /\ q.pc = "details" /\ q.copy \in AppointmentRow
           /\ q.copy.businessId = appointments[a].businessId
           /\ q.copy.customerId = appointments[a].customerId
<1>1. PICK a \in Appointments, b \in Businesses, d \in Details, c \in Maybe(Customers) :
        /\ IsAppointment(a)
        /\ Begin(r, a, [Idle EXCEPT !.pc = "details", !.business = b, !.customer = c,
                                    !.copy = [appointments[a] EXCEPT !.details = d]])
  BY DEF Update
<1> DEFINE row == [appointments[a] EXCEPT !.details = d]
           q == [Idle EXCEPT !.pc = "details", !.business = b, !.customer = c, !.copy = row]
<1>2. /\ row \in AppointmentRow
      /\ row.businessId = appointments[a].businessId
      /\ row.customerId = appointments[a].customerId
      /\ b \in Maybe(Businesses)
  BY <1>1 DEF IsAppointment, AppointmentRow, Maybe
<1>3. Begin(r, a, q)
  BY <1>1
<1> HIDE DEF row
<1>4. q \in Request /\ q.pc = "details" /\ q.copy = row
  <2>1. row \in Maybe(AppointmentRow)
    BY <1>2 DEF Maybe
  <2>2. QED
    BY <1>2, <2>1, IdleRequest DEF Request
<1> HIDE DEF q
<1>5. InOrder([q EXCEPT !.appointment = a])
  BY <1>2, <1>4, WorkStep DEF AtWork
<1>6. QED
  BY <1>1, <1>2, <1>3, <1>4, <1>5

LEMMA DeleteStep ==
  ASSUME Typed, NEW r \in Requests, Delete(r)
  PROVE  \E a \in Appointments, q \in Request :
           /\ IsAppointment(a) /\ Begin(r, a, q) /\ InOrder([q EXCEPT !.appointment = a])
           /\ q.pc = "deleting" /\ q.copy = None
<1>1. PICK a \in Appointments :
        IsAppointment(a) /\ Begin(r, a, [Idle EXCEPT !.pc = "deleting"])
  BY DEF Delete
<1> DEFINE q == [Idle EXCEPT !.pc = "deleting"]
<1>2. q \in Request /\ q.pc = "deleting" /\ q.copy = None
  BY IdleRequest DEF Request
<1>3. Begin(r, a, q)
  BY <1>1
<1> HIDE DEF q
<1>4. InOrder([q EXCEPT !.appointment = a])
  BY <1>2, WorkStep DEF AtWork
<1>5. QED
  BY <1>1, <1>2, <1>3, <1>4

\* A request goes on with its work.
LEMMA PhaseStep ==
  ASSUME NEW q \in Request, InOrder(q), q.pc \in {"details", "lookup"},
         NEW pc \in {"lookup", "link"}, pc = "lookup" => q.customer # None,
         NEW p, p = [q EXCEPT !.pc = pc]
  PROVE  /\ p \in Request /\ InOrder(p)
         /\ p.pc = pc /\ p.business = q.business /\ p.customer = q.customer
         /\ p.copy = q.copy /\ p.appointment = q.appointment /\ p.overtaken = q.overtaken
<1>1. /\ p \in Request /\ p.pc = pc /\ p.business = q.business /\ p.customer = q.customer
      /\ p.copy = q.copy /\ p.appointment = q.appointment /\ p.overtaken = q.overtaken
  BY DEF Request
<1>2. pc = "lookup" => q.customer \in Customers
  BY DEF Request, Maybe
<1>3. QED
  BY <1>1, <1>2 DEF InOrder, AtWork

LEMMA CompareAppointmentStep ==
  ASSUME Typed, NEW r \in Requests, CompareAppointment(r)
  PROVE  \E q \in Request :
           /\ InOrder(q) /\ Become(r, q)
           /\ request[r].pc = "read" /\ q.pc = "compared"
           /\ q.copy = request[r].copy /\ q.appointment = request[r].appointment
           /\ q.overtaken = request[r].overtaken
           /\ q.columns = IF IsAppointment(request[r].appointment)
                          THEN {c \in Columns :
                                  request[r].copy[c] # appointments[request[r].appointment][c]}
                          ELSE {"insert"}
<1> DEFINE S == IF IsAppointment(request[r].appointment)
                THEN {c \in Columns :
                        request[r].copy[c] # appointments[request[r].appointment][c]}
                ELSE {"insert"}
           q == [request[r] EXCEPT !.pc = "compared", !.columns = S]
<1>1. request[r] \in Request /\ InOrder(request[r])
  BY DEF Typed, TypeOK, RequestsInOrder
<1>2. request[r].pc = "read" /\ Become(r, q)
  BY DEF CompareAppointment
<1>3. S \subseteq Columns \union {"insert"}
  OBVIOUS
<1> HIDE DEF S
<1>4. /\ q \in Request /\ InOrder(q)
      /\ q.pc = "compared" /\ q.columns = S
      /\ q.copy = request[r].copy /\ q.appointment = request[r].appointment
      /\ q.overtaken = request[r].overtaken
  <2>1. /\ q \in Request /\ q.pc = "compared" /\ q.columns = S
        /\ q.copy = request[r].copy /\ q.appointment = request[r].appointment
        /\ q.overtaken = request[r].overtaken
    BY <1>1, <1>3 DEF Request
  <2> HIDE DEF q
  <2>2. QED
    BY <1>1, <1>2, <2>1 DEF InOrder, AtWork
<1> HIDE DEF q
<1>5. QED
  BY <1>2, <1>4 DEF S

LEMMA WriteDetailsStep ==
  ASSUME Typed, NEW r \in Requests, WriteDetails(r)
  PROVE  \E q \in Request :
           /\ InOrder(q) /\ Become(r, q)
           /\ request[r].pc = "details" /\ q.pc \in {"lookup", "link"}
           /\ q.pc = "link" => q.customer = None
           /\ q.business = request[r].business /\ q.copy = request[r].copy
           /\ q.appointment = request[r].appointment /\ q.overtaken = request[r].overtaken
<1> DEFINE pc == IF request[r].customer = None THEN "link" ELSE "lookup"
           q == [request[r] EXCEPT !.pc = pc]
<1>1. request[r] \in Request /\ InOrder(request[r])
  BY DEF Typed, TypeOK, RequestsInOrder
<1>2. request[r].pc = "details" /\ Become(r, q)
  BY DEF WriteDetails
<1>3. /\ pc \in {"lookup", "link"}
      /\ pc = "lookup" => request[r].customer # None
      /\ pc = "link" => request[r].customer = None
  OBVIOUS
<1> HIDE DEF pc
<1>4. /\ q \in Request /\ InOrder(q)
      /\ q.pc = pc /\ q.business = request[r].business /\ q.customer = request[r].customer
      /\ q.copy = request[r].copy /\ q.appointment = request[r].appointment
      /\ q.overtaken = request[r].overtaken
  BY <1>1, <1>2, <1>3, PhaseStep
<1> HIDE DEF q
<1>5. QED
  BY <1>2, <1>3, <1>4

LEMMA LookUpCustomerStep ==
  ASSUME Typed, NEW r \in Requests, LookUpCustomer(r)
  PROVE  \E q \in Request :
           /\ InOrder(q) /\ Become(r, q)
           /\ request[r].pc = "lookup" /\ q.pc = "link"
           /\ q.customer \in Customers /\ FindCustomer(q.business, q.customer)
           /\ q.business = request[r].business /\ q.copy = request[r].copy
           /\ q.appointment = request[r].appointment /\ q.overtaken = request[r].overtaken
<1> DEFINE q == [request[r] EXCEPT !.pc = "link"]
<1>1. request[r] \in Request /\ InOrder(request[r])
  BY DEF Typed, TypeOK, RequestsInOrder
<1>2. /\ request[r].pc = "lookup" /\ Become(r, q)
      /\ FindCustomer(request[r].business, request[r].customer)
  BY DEF LookUpCustomer
<1>3. request[r].customer \in Customers
  BY <1>1, <1>2 DEF InOrder
<1>4. /\ q \in Request /\ InOrder(q)
      /\ q.pc = "link" /\ q.business = request[r].business /\ q.customer = request[r].customer
      /\ q.copy = request[r].copy /\ q.appointment = request[r].appointment
      /\ q.overtaken = request[r].overtaken
  BY <1>1, <1>2, PhaseStep
<1> HIDE DEF q
<1>5. QED
  BY <1>2, <1>3, <1>4

\* Whatever a stale save leaves is a row, and a row stays a row.
LEMMA SavedRow ==
  ASSUME Typed, NEW q \in Request, InOrder(q), q.pc = "compared"
  PROVE  /\ SavedAppointment(q) \in AppointmentRow \union {None, Gone}
         /\ IsAppointment(q.appointment) => SavedAppointment(q) \in AppointmentRow
         /\ "insert" \in q.columns => SavedAppointment(q) = q.copy
         /\ "insert" \notin q.columns /\ ~IsAppointment(q.appointment) =>
              SavedAppointment(q) = appointments[q.appointment]
         /\ "insert" \notin q.columns /\ IsAppointment(q.appointment) =>
              /\ SavedAppointment(q).businessId = appointments[q.appointment].businessId
              /\ \A c \in Columns :
                   SavedAppointment(q)[c] =
                     IF c \in q.columns THEN q.copy[c] ELSE appointments[q.appointment][c]
<1> DEFINE row == appointments[q.appointment]
<1>1. /\ q.copy \in AppointmentRow /\ q.appointment \in Appointments
      /\ row \in AppointmentRow \union {None, Gone}
  BY DEF InOrder, AtWork, Typed, TypeOK
<1>2. CASE "insert" \in q.columns
  BY <1>1, <1>2 DEF SavedAppointment
<1>3. CASE "insert" \notin q.columns /\ ~IsAppointment(q.appointment)
  BY <1>1, <1>3 DEF SavedAppointment, IsAppointment
<1>4. CASE "insert" \notin q.columns /\ IsAppointment(q.appointment)
  <2> DEFINE Of(c) == IF c \in q.columns THEN q.copy[c] ELSE row[c]
             new == [businessId |-> row.businessId, details |-> Of("details"),
                     customerId |-> Of("customerId"), googleEventId |-> Of("googleEventId")]
  <2>1. SavedAppointment(q) = new
    BY <1>4 DEF SavedAppointment
  <2>2. row \in AppointmentRow
    BY <1>4 DEF IsAppointment
  <2>3. new \in AppointmentRow
    BY <1>1, <2>2 DEF AppointmentRow
  <2>4. \A c \in Columns : new[c] = Of(c)
    BY DEF Columns
  <2>5. QED
    BY <1>4, <2>1, <2>3, <2>4
<1>5. QED
  BY <1>2, <1>3, <1>4

\* One column of a row is set by update(id, columns).
LEMMA ColumnSet ==
  ASSUME Typed, NEW a \in Appointments, NEW column \in {"details", "customerId"}, NEW v,
         column = "details" => v \in Details,
         column = "customerId" => v \in Maybe(Customers),
         SetColumn(a, column, v)
  PROVE  /\ appointments' \in [Appointments -> AppointmentRow \union {None, Gone}]
         /\ \A x \in Appointments : x # a => appointments'[x] = appointments[x]
         /\ ~IsAppointment(a) => appointments'[a] = appointments[a]
         /\ IsAppointment(a) =>
              /\ appointments'[a] \in AppointmentRow
              /\ appointments'[a].businessId = appointments[a].businessId
              /\ appointments'[a].googleEventId = appointments[a].googleEventId
              /\ appointments'[a].details =
                   IF column = "details" THEN v ELSE appointments[a].details
              /\ appointments'[a].customerId =
                   IF column = "customerId" THEN v ELSE appointments[a].customerId
<1>1. appointments \in [Appointments -> AppointmentRow \union {None, Gone}]
  BY DEF Typed, TypeOK
<1>2. CASE ~IsAppointment(a)
  BY <1>1, <1>2 DEF SetColumn
<1>3. CASE IsAppointment(a)
  <2> DEFINE row == appointments[a]
             new == [row EXCEPT ![column] = v]
  <2>1. row \in AppointmentRow
    BY <1>3 DEF IsAppointment
  <2>2. appointments' = [appointments EXCEPT ![a] = new]
    BY <1>3 DEF SetColumn
  <2>3. CASE column = "details"
    <3>1. new = [row EXCEPT !.details = v]
      BY <2>3
    <3>2. /\ new \in AppointmentRow
          /\ new.businessId = row.businessId /\ new.googleEventId = row.googleEventId
          /\ new.details = v /\ new.customerId = row.customerId
      BY <2>1, <2>3, <3>1 DEF AppointmentRow
    <3>3. QED
      BY <1>1, <1>3, <2>2, <2>3, <3>2
  <2>4. CASE column = "customerId"
    <3>1. new = [row EXCEPT !.customerId = v]
      BY <2>4
    <3>2. /\ new \in AppointmentRow
          /\ new.businessId = row.businessId /\ new.googleEventId = row.googleEventId
          /\ new.details = row.details /\ new.customerId = v
      BY <2>1, <2>4, <3>1 DEF AppointmentRow
    <3>3. QED
      BY <1>1, <1>3, <2>2, <2>4, <3>2
  <2>5. QED
    BY <2>3, <2>4
<1>4. QED
  BY <1>2, <1>3

LEMMA AnswerTyped ==
  ASSUME Typed, NEW q, NEW columns \in Expectation, Answer(q, columns)
  PROVE  expected' \in [Appointments -> Expectation]
BY DEF Answer, Typed, TypeOK

----------------------------------------------------------------------------
(***************************************************************************)
(* Types.                                                                  *)
(***************************************************************************)

LEMMA TypedInit == Init => Typed
<1> SUFFICES ASSUME Init PROVE Typed
  OBVIOUS
<1>1. PICK w \in Workloads :
        /\ routes = w.routes
        /\ \E business \in [w.members -> Businesses] :
             customers = [c \in Customers |->
               IF c \in w.members THEN [businessId |-> business[c], email |-> None] ELSE None]
  BY DEF Init
<1>2. routes \in SUBSET Operation
  BY <1>1, DirectoryAssumption
<1>3. PICK business \in [w.members -> Businesses] :
        customers = [c \in Customers |->
          IF c \in w.members THEN [businessId |-> business[c], email |-> None] ELSE None]
  BY <1>1
<1>4. customers \in [Customers -> CustomerRow \union {None, Gone}]
  BY <1>3 DEF CustomerRow, Maybe
<1>5. request \in [Requests -> Request] /\ RequestsInOrder
  BY IdleRequest DEF Init, RequestsInOrder
<1>6. expected \in [Appointments -> Expectation]
  BY DEF Init, Expectation
<1>7. QED
  BY <1>2, <1>4, <1>5, <1>6 DEF Init, Typed, TypeOK

\* The steps that change no row: what they do to requests.
Quiet == UNCHANGED <<customers, appointments, routes, excused, lent>>

LEMMA TypedQuiet ==
  ASSUME Typed, Quiet, request' \in [Requests -> Request], RequestsInOrder',
         expected' \in [Appointments -> Expectation]
  PROVE  Typed'
BY DEF Typed, TypeOK, Quiet

LEMMA TypedStart == ASSUME Typed, NEW r \in Requests, Start(r) PROVE Typed'
<1>1. CASE CreateOne(r)
  <2>1. \E q \in Request : InOrder(q) /\ Become(r, q)
    BY <1>1, CreateOneStep
  <2>2. Quiet /\ expected' \in [Appointments -> Expectation]
    BY <1>1 DEF CreateOne, Quiet, Typed, TypeOK
  <2>3. QED
    BY <2>1, <2>2, RequestChange, TypedQuiet
<1>2. CASE UpdateOne(r)
  <2>1. \E q \in Request : InOrder(q) /\ Become(r, q)
    BY <1>2, UpdateOneStep
  <2>2. Quiet /\ expected' \in [Appointments -> Expectation]
    BY <1>2 DEF UpdateOne, Quiet, Typed, TypeOK
  <2>3. QED
    BY <2>1, <2>2, RequestChange, TypedQuiet
<1>3. CASE DeleteCustomer(r)
  <2>1. \E q \in Request : InOrder(q) /\ Become(r, q)
    BY <1>3, DeleteCustomerStep
  <2>2. Quiet /\ expected' \in [Appointments -> Expectation]
    BY <1>3 DEF DeleteCustomer, Quiet, Typed, TypeOK
  <2>3. QED
    BY <2>1, <2>2, RequestChange, TypedQuiet
<1>4. CASE ImportCustomers(r)
  <2>1. \E q \in Request : InOrder(q) /\ Become(r, q)
    BY <1>4, ImportCustomersStep
  <2>2. Quiet /\ expected' \in [Appointments -> Expectation]
    BY <1>4 DEF ImportCustomers, Quiet, Typed, TypeOK
  <2>3. QED
    BY <2>1, <2>2, RequestChange, TypedQuiet
<1>5. CASE Create(r)
  <2>1. \E q \in Request : InOrder(q) /\ Become(r, q)
    BY <1>5, CreateStep
  <2>2. Quiet /\ expected' \in [Appointments -> Expectation]
    BY <1>5 DEF Create, Quiet, Typed, TypeOK
  <2>3. QED
    BY <2>1, <2>2, RequestChange, TypedQuiet
<1>6. ASSUME Quiet,
             \E a \in Appointments, q \in Request :
               q.pc \in AtWork /\ Begin(r, a, q) /\ InOrder([q EXCEPT !.appointment = a])
      PROVE  Typed'
  BY <1>6, BeginChange, TypedQuiet
<1>7. CASE UpdateGoogleEventId(r)
  <2>1. Quiet
    BY <1>7 DEF UpdateGoogleEventId, Quiet
  <2>2. QED
    BY <1>6, <1>7, <2>1, UpdateGoogleEventIdStep DEF AtWork
<1>8. CASE Update(r)
  <2>1. Quiet
    BY <1>8 DEF Update, Quiet
  <2>2. QED
    BY <1>6, <1>8, <2>1, UpdateStep DEF AtWork
<1>9. CASE Delete(r)
  <2>1. Quiet
    BY <1>9 DEF Delete, Quiet
  <2>2. QED
    BY <1>6, <1>9, <2>1, DeleteStep DEF AtWork
<1>10. QED
  BY <1>1, <1>2, <1>3, <1>4, <1>5, <1>7, <1>8, <1>9 DEF Start

LEMMA TypedStoreCustomer ==
  ASSUME Typed, NEW r \in Requests, NEW c \in Customers, StoreCustomer(r, c)
  PROVE  Typed'
<1>1. request[r] \in Request /\ InOrder(request[r]) /\ request[r].pc = "creating"
  BY DEF StoreCustomer, Typed, TypeOK, RequestsInOrder
<1>2. request[r].business \in Businesses /\ request[r].email \in Maybe(Emails)
  BY <1>1 DEF Request, InOrder
<1>3. [businessId |-> request[r].business, email |-> request[r].email] \in CustomerRow
  BY <1>2 DEF CustomerRow
<1>4. customers' \in [Customers -> CustomerRow \union {None, Gone}]
  BY <1>3 DEF StoreCustomer, Typed, TypeOK
<1>5. request' \in [Requests -> Request] /\ RequestsInOrder'
  <2>1. Overtake(r, request[r].business, request[r].email, Idle)
    BY DEF StoreCustomer
  <2>2. QED
    BY <2>1, IdleRequest, OvertakeChange
<1>6. QED
  BY <1>4, <1>5 DEF StoreCustomer, Typed, TypeOK

LEMMA TypedWriteCustomer ==
  ASSUME Typed, NEW r \in Requests, WriteCustomer(r)
  PROVE  Typed'
<1> DEFINE c == request[r].customer
<1>1. request[r] \in Request /\ InOrder(request[r]) /\ request[r].pc = "updating"
  BY DEF WriteCustomer, Typed, TypeOK, RequestsInOrder
<1>2. request[r].email \in Emails /\ c \in Customers
  BY <1>1 DEF InOrder
<1>3. customers' \in [Customers -> CustomerRow \union {None, Gone}]
  <2>1. CASE IsCustomer(c)
    <3>1. customers[c] \in CustomerRow
      BY <2>1 DEF IsCustomer
    <3>2. [customers[c] EXCEPT !.email = request[r].email] \in CustomerRow
      BY <1>2, <3>1 DEF CustomerRow, Maybe
    <3>3. QED
      BY <2>1, <3>2 DEF WriteCustomer, Typed, TypeOK
  <2>2. CASE ~IsCustomer(c)
    BY <2>2 DEF WriteCustomer, Typed, TypeOK
  <2>3. QED
    BY <2>1, <2>2
<1>4. request' \in [Requests -> Request] /\ RequestsInOrder'
  <2>1. Overtake(r, request[r].business, request[r].email, Idle) \/ Become(r, Idle)
    BY DEF WriteCustomer
  <2>2. QED
    BY <2>1, IdleRequest, OvertakeChange, RequestChange
<1>5. excused' \in SUBSET Customers
  BY <1>2 DEF WriteCustomer, Typed, TypeOK
<1>6. QED
  BY <1>3, <1>4, <1>5 DEF WriteCustomer, Typed, TypeOK

LEMMA TypedImportOne ==
  ASSUME Typed, NEW r \in Requests, NEW c \in Customers, ImportOne(r, c)
  PROVE  Typed'
<1>1. request[r] \in Request /\ InOrder(request[r]) /\ request[r].pc = "importing"
  BY DEF ImportOne, Typed, TypeOK, RequestsInOrder
<1>2. request[r].business \in Businesses
  BY <1>1 DEF InOrder
<1>3. PICK e \in Maybe(Emails) :
        /\ customers' = [customers EXCEPT ![c] = [businessId |-> request[r].business, email |-> e]]
        /\ Overtake(r, request[r].business, e, Settled(request[r]))
  BY DEF ImportOne
<1>4. [businessId |-> request[r].business, email |-> e] \in CustomerRow
  BY <1>2 DEF CustomerRow
<1>5. customers' \in [Customers -> CustomerRow \union {None, Gone}]
  BY <1>3, <1>4 DEF Typed, TypeOK
<1>6. request' \in [Requests -> Request] /\ RequestsInOrder'
  BY <1>1, <1>3, SettledStep, OvertakeChange
<1>7. QED
  BY <1>5, <1>6 DEF ImportOne, Typed, TypeOK

LEMMA TypedStoreAppointment ==
  ASSUME Typed, NEW r \in Requests, NEW a \in Appointments, StoreAppointment(r, a)
  PROVE  Typed'
<1> DEFINE row == request[r].copy
<1>1. row \in AppointmentRow
  BY DEF StoreAppointment, Typed, TypeOK, RequestsInOrder, InOrder
<1>2. [details |-> row.details, customerId |-> row.customerId, googleEventId |-> None]
        \in Expectation
  BY <1>1 DEF AppointmentRow, Expectation, Maybe
<1>3. request' \in [Requests -> Request] /\ RequestsInOrder'
  BY IdleRequest, RequestChange DEF StoreAppointment
<1>4. /\ appointments' \in [Appointments -> AppointmentRow \union {None, Gone}]
      /\ expected' \in [Appointments -> Expectation]
  BY <1>1, <1>2 DEF StoreAppointment, Typed, TypeOK
<1>5. QED
  BY <1>3, <1>4 DEF StoreAppointment, Typed, TypeOK

LEMMA TypedWriteAppointment ==
  ASSUME Typed, NEW r \in Requests, WriteAppointment(r)
  PROVE  Typed'
<1> DEFINE q == request[r]
           a == q.appointment
<1>1. q \in Request /\ InOrder(q) /\ q.pc = "compared"
  BY DEF WriteAppointment, Typed, TypeOK, RequestsInOrder
<1>2. a \in Appointments /\ q.copy \in AppointmentRow
  BY <1>1 DEF InOrder, AtWork
<1>3. appointments' \in [Appointments -> AppointmentRow \union {None, Gone}]
  BY <1>1, <1>2, SavedRow DEF WriteAppointment, Typed, TypeOK
<1>4. [expected[a] EXCEPT !.googleEventId = q.copy.googleEventId] \in Expectation
  <2>1. expected[a] \in Expectation /\ q.copy.googleEventId \in Maybe(EventIds)
    BY <1>2 DEF Typed, TypeOK, AppointmentRow
  <2>2. QED
    BY <2>1 DEF Expectation
<1>5. expected' \in [Appointments -> Expectation]
  BY <1>4, AnswerTyped DEF WriteAppointment
<1>6. request' \in [Requests -> Request] /\ RequestsInOrder'
  BY IdleRequest, RequestChange DEF WriteAppointment
<1>7. QED
  BY <1>3, <1>5, <1>6 DEF WriteAppointment, Typed, TypeOK

LEMMA TypedLinkCustomer ==
  ASSUME Typed, NEW r \in Requests, LinkCustomer(r)
  PROVE  Typed'
<1> DEFINE q == request[r]
           a == q.appointment
<1>1. q \in Request /\ InOrder(q) /\ q.pc = "link"
  BY DEF LinkCustomer, Typed, TypeOK, RequestsInOrder
<1>2. a \in Appointments /\ q.copy \in AppointmentRow /\ q.customer \in Maybe(Customers)
  BY <1>1 DEF InOrder, AtWork, Request
<1>3. SetColumn(a, "customerId", q.customer)
  BY DEF LinkCustomer, LinkedTo
<1>4. appointments' \in [Appointments -> AppointmentRow \union {None, Gone}]
  BY <1>2, <1>3, ColumnSet
<1>5. [expected[a] EXCEPT !.details = q.copy.details, !.customerId = q.customer] \in Expectation
  <2>1. expected[a] \in Expectation /\ q.copy.details \in Details
    BY <1>2 DEF Typed, TypeOK, AppointmentRow
  <2>2. QED
    BY <1>2, <2>1 DEF Expectation
<1>6. expected' \in [Appointments -> Expectation]
  BY <1>5, AnswerTyped DEF LinkCustomer
<1>7. request' \in [Requests -> Request] /\ RequestsInOrder'
  BY IdleRequest, RequestChange DEF LinkCustomer
<1>8. lent' \in SUBSET (Appointments \X Customers)
  <2>1. lent' = IF Lends(q) THEN lent \union {<<a, q.customer>>} ELSE lent
    BY DEF LinkCustomer
  <2>2. Lends(q) => <<a, q.customer>> \in Appointments \X Customers
    BY <1>2 DEF Lends, Maybe
  <2>3. QED
    BY <2>1, <2>2 DEF Typed, TypeOK
<1>9. QED
  BY <1>4, <1>6, <1>7, <1>8 DEF LinkCustomer, Typed, TypeOK

LEMMA TypedContinue == ASSUME Typed, NEW r \in Requests, Continue(r) PROVE Typed'
<1>1. ASSUME NEW c \in Customers, StoreCustomer(r, c) \/ ImportOne(r, c) PROVE Typed'
  BY <1>1, TypedStoreCustomer, TypedImportOne
<1>2. CASE RemoveCustomer(r)
  <2>1. request' \in [Requests -> Request] /\ RequestsInOrder'
    BY <1>2, IdleRequest, RequestChange DEF RemoveCustomer
  <2>2. QED
    BY <1>2, <2>1 DEF RemoveCustomer, Typed, TypeOK
<1>3. CASE FailOne(r)
  <2>1. request[r] \in Request /\ InOrder(request[r]) /\ request[r].pc = "importing"
    BY <1>3 DEF FailOne, Typed, TypeOK, RequestsInOrder
  <2>2. request' \in [Requests -> Request] /\ RequestsInOrder'
    BY <1>3, <2>1, SettledStep, RequestChange DEF FailOne
  <2>3. QED
    BY <1>3, <2>2 DEF FailOne, Typed, TypeOK
<1>4. CASE CompareAppointment(r)
  <2>1. request' \in [Requests -> Request] /\ RequestsInOrder'
    BY <1>4, CompareAppointmentStep, RequestChange
  <2>2. QED
    BY <1>4, <2>1 DEF CompareAppointment, Typed, TypeOK
<1>5. CASE WriteDetails(r)
  <2>1. request' \in [Requests -> Request] /\ RequestsInOrder'
    BY <1>5, WriteDetailsStep, RequestChange
  <2>2. /\ request[r].appointment \in Appointments /\ request[r].copy \in AppointmentRow
        /\ SetColumn(request[r].appointment, "details", request[r].copy.details)
    BY <1>5 DEF WriteDetails, Typed, TypeOK, RequestsInOrder, InOrder, AtWork
  <2>3. appointments' \in [Appointments -> AppointmentRow \union {None, Gone}]
    <3>1. request[r].copy.details \in Details
      BY <2>2 DEF AppointmentRow
    <3>2. QED
      BY <2>2, <3>1, ColumnSet
  <2>4. QED
    BY <1>5, <2>1, <2>3 DEF WriteDetails, Typed, TypeOK
<1>6. CASE LookUpCustomer(r)
  <2>1. request' \in [Requests -> Request] /\ RequestsInOrder'
    BY <1>6, LookUpCustomerStep, RequestChange
  <2>2. QED
    BY <1>6, <2>1 DEF LookUpCustomer, Typed, TypeOK
<1>7. CASE RemoveAppointment(r)
  <2>1. request' \in [Requests -> Request] /\ RequestsInOrder'
    BY <1>7, IdleRequest, RequestChange DEF RemoveAppointment
  <2>2. QED
    BY <1>7, <2>1 DEF RemoveAppointment, Typed, TypeOK
<1>8. CASE Refuse(r)
  BY <1>8, StopChange, TypedQuiet DEF Refuse, Quiet
<1>9. QED
  BY <1>1, <1>2, <1>3, <1>4, <1>5, <1>6, <1>7, <1>8, TypedWriteCustomer,
     TypedStoreAppointment, TypedWriteAppointment, TypedLinkCustomer DEF Continue

LEMMA TypedNext == Typed /\ [Next]_vars => Typed'
<1>1. ASSUME Typed, Crash PROVE Typed'
  BY <1>1, StopChange, TypedQuiet DEF Crash, Quiet
<1>2. ASSUME Typed, UNCHANGED vars PROVE Typed'
  BY <1>2 DEF vars, Typed, TypeOK, RequestsInOrder
<1>3. QED
  BY <1>1, <1>2, TypedStart, TypedContinue DEF Next

\* Tables, requests and histories keep their shape, whatever overlaps, fails
\* and crashes (customer.service.ts and appointment.service.ts).
THEOREM TypeCorrect == Spec => []TypeOK
<1>1. Typed => TypeOK
  BY DEF Typed
<1>2. QED
  BY <1>1, TypedInit, TypedNext, PTL DEF Spec

----------------------------------------------------------------------------
(***************************************************************************)
(* Emails.                                                                 *)
(*                                                                         *)
(* DuplicatesAreExcused is not inductive: it says nothing of the requests  *)
(* that have looked for an email and not stored it yet.  What they found   *)
(* holds until another request stores the same email.                      *)
(***************************************************************************)

Checking == {"creating", "updating"}

\* A customer with the email that request q has looked for: not q's own, and
\* neither it nor q's own is excused.
Clash(q, x) ==
  /\ x # q.customer
  /\ IsCustomer(x)
  /\ customers[x].businessId = q.business
  /\ customers[x].email = q.email
  /\ x \notin excused
  /\ q.customer \notin excused

Checked(q) ==
  /\ q.pc = "updating" =>
       /\ customers[q.customer] # None
       /\ IsCustomer(q.customer) => customers[q.customer].businessId = q.business
  /\ q.pc \in Checking /\ ~q.overtaken /\ q.email # None =>
       \A x \in Customers : ~Clash(q, x)

EmailsInv ==
  /\ Typed
  /\ DuplicatesAreExcused
  /\ \A r \in Requests : Checked(request[r])

\* A request that is still between its check and its save, or was never there.
KeepsCheck(q, p) ==
  p.pc \in Checking =>
    /\ p.pc = q.pc /\ p.business = q.business /\ p.customer = q.customer /\ p.email = q.email
    /\ q.overtaken => p.overtaken

LEMMA OvertakenKeeps ==
  ASSUME NEW q \in Request, InOrder(q)
  PROVE  KeepsCheck(q, [q EXCEPT !.overtaken = TRUE]) /\ KeepsCheck(q, q)
BY Overtaken DEF KeepsCheck

LEMMA EmailsQuiet ==
  ASSUME EmailsInv, Typed', UNCHANGED customers, excused \subseteq excused',
         \A s \in Requests : KeepsCheck(request[s], request'[s])
  PROVE  EmailsInv'
<1>1. DuplicatesAreExcused'
  BY DEF EmailsInv, DuplicatesAreExcused, IsCustomer
<1>2. ASSUME NEW s \in Requests PROVE Checked(request[s])'
  BY DEF EmailsInv, Checked, KeepsCheck, Clash, IsCustomer, Checking
<1>3. QED
  BY <1>1, <1>2 DEF EmailsInv

\* A request alone becomes q.
LEMMA EmailsBecome ==
  ASSUME EmailsInv, Typed', UNCHANGED customers, excused \subseteq excused',
         NEW r \in Requests, NEW q \in Request, Become(r, q), q.pc \notin Checking
  PROVE  EmailsInv'
<1>1. \A s \in Requests : request[s] \in Request /\ InOrder(request[s])
  BY DEF EmailsInv, Typed, TypeOK, RequestsInOrder
<1>2. \A s \in Requests : KeepsCheck(request[s], request'[s])
  <2>1. \A s \in Requests : request'[s] = IF s = r THEN q ELSE request[s]
    BY DEF Become, EmailsInv, Typed, TypeOK
  <2>2. QED
    BY <2>1 DEF KeepsCheck
<1>3. QED
  BY <1>2, EmailsQuiet

\* A request has looked for an email and becomes q.
LEMMA EmailsCheck ==
  ASSUME EmailsInv, Typed', UNCHANGED <<customers, excused>>,
         NEW r \in Requests, NEW q \in Request, Become(r, q), Checked(q)
  PROVE  EmailsInv'
<1>1. \A s \in Requests : request'[s] = IF s = r THEN q ELSE request[s]
  BY DEF Become, EmailsInv, Typed, TypeOK
<1>2. DuplicatesAreExcused'
  BY DEF EmailsInv, DuplicatesAreExcused, IsCustomer
<1>3. ASSUME NEW s \in Requests PROVE Checked(request[s])'
  <2>1. Checked(request'[s])
    BY <1>1 DEF EmailsInv
  <2>2. QED
    BY <2>1 DEF Checked, Clash, IsCustomer, Checking
<1>4. QED
  BY <1>2, <1>3 DEF EmailsInv

\* A row with business b and email e is stored for customer c.
LEMMA EmailsStore ==
  ASSUME EmailsInv, Typed', NEW r \in Requests, NEW c \in Customers, NEW b, NEW e,
         NEW row \in CustomerRow, row.businessId = b, row.email = e,
         customers' = [customers EXCEPT ![c] = row],
         customers[c] = None \/ (IsCustomer(c) /\ customers[c].businessId = b),
         NEW q \in Request, q.pc \notin Checking, Overtake(r, b, e, q),
         excused \subseteq excused',
         e # None => \A x \in Customers \ {c} :
           IsCustomer(x) /\ customers[x].businessId = b /\ customers[x].email = e =>
             x \in excused' \/ c \in excused'
  PROVE  EmailsInv'
<1> USE DEF EmailsInv
<1>1. /\ customers \in [Customers -> CustomerRow \union {None, Gone}]
      /\ \A s \in Requests : request[s] \in Request /\ InOrder(request[s])
  BY DEF Typed, TypeOK, RequestsInOrder
<1>2. /\ customers'[c] = row /\ row # None
      /\ \A x \in Customers : x # c => customers'[x] = customers[x]
  BY <1>1, SentinelAssumption
<1>3. DuplicatesAreExcused'
  <2> SUFFICES ASSUME NEW x \in Customers, NEW y \in Customers, x # y,
                      IsCustomer(x)', IsCustomer(y)',
                      customers'[x].businessId = customers'[y].businessId,
                      customers'[x].email = customers'[y].email,
                      customers'[x].email # None
               PROVE  x \in excused' \/ y \in excused'
    BY DEF DuplicatesAreExcused
  <2>1. CASE x # c /\ y # c
    BY <1>2, <2>1 DEF DuplicatesAreExcused, IsCustomer
  <2>2. CASE x = c
    BY <1>2, <2>2 DEF IsCustomer
  <2>3. CASE y = c
    BY <1>2, <2>3 DEF IsCustomer
  <2>4. QED
    BY <2>1, <2>2, <2>3
<1>4. ASSUME NEW s \in Requests PROVE Checked(request[s])'
  <2>1. PICK old, new : old = request[s] /\ new = request'[s]
    OBVIOUS
  <2>2. old \in Request /\ InOrder(old) /\ Checked(old)
    BY <1>1, <2>1
  <2>3. /\ KeepsCheck(old, new)
        /\ new.pc \in Checking /\ new.business = b /\ new.email = e => new.overtaken
    <3>1. CASE s = r
      <4>1. new = q
        BY <2>1, <3>1 DEF Overtake
      <4>2. QED
        BY <4>1 DEF KeepsCheck
    <3>2. CASE s # r /\ old.pc \in Checking /\ old.business = b /\ old.email = e
      <4>1. new = [old EXCEPT !.overtaken = TRUE]
        BY <2>1, <3>2 DEF Overtake, Checking
      <4>2. QED
        BY <2>2, <4>1, OvertakenKeeps, Overtaken
    <3>3. CASE s # r /\ ~(old.pc \in Checking /\ old.business = b /\ old.email = e)
      <4>1. new = old
        BY <2>1, <3>3 DEF Overtake, Checking
      <4>2. QED
        BY <3>3, <4>1 DEF KeepsCheck
    <3>4. QED
      BY <3>1, <3>2, <3>3
  <2>4. ASSUME new.pc = "updating"
        PROVE  /\ customers'[new.customer] # None
               /\ customers'[new.customer] \in CustomerRow =>
                    customers'[new.customer].businessId = new.business
    <3>1. /\ old.pc = "updating" /\ new.customer = old.customer /\ new.business = old.business
          /\ old.customer \in Customers
      BY <2>2, <2>3, <2>4 DEF KeepsCheck, Checking, InOrder
    <3>2. /\ customers[old.customer] # None
          /\ IsCustomer(old.customer) => customers[old.customer].businessId = old.business
      BY <2>2, <3>1 DEF Checked
    <3>3. CASE old.customer = c
      BY <1>2, <3>1, <3>2, <3>3
    <3>4. CASE old.customer # c
      BY <1>2, <3>1, <3>2, <3>4 DEF IsCustomer
    <3>5. QED
      BY <3>3, <3>4
  <2>5. ASSUME new.pc \in Checking, ~new.overtaken, new.email # None, NEW x \in Customers,
               x # new.customer, customers'[x] \in CustomerRow,
               customers'[x].businessId = new.business, customers'[x].email = new.email
        PROVE  x \in excused' \/ new.customer \in excused'
    <3>1. /\ old.pc \in Checking /\ ~old.overtaken /\ old.email = new.email
          /\ old.business = new.business /\ old.customer = new.customer
      BY <2>3, <2>5 DEF KeepsCheck
    <3>2. ~Clash(old, x)
      BY <2>2, <2>5, <3>1 DEF Checked
    <3>3. x # c
      BY <1>2, <2>3, <2>5
    <3>4. QED
      BY <1>2, <2>5, <3>1, <3>2, <3>3 DEF Clash, IsCustomer
  <2>6. QED
    BY <2>1, <2>4, <2>5 DEF Checked, Clash, IsCustomer
<1>5. QED
  BY <1>3, <1>4

LEMMA EmailsCreateOne ==
  ASSUME EmailsInv, Typed', NEW r \in Requests, CreateOne(r) PROVE EmailsInv'
<1>1. Typed
  BY DEF EmailsInv
<1>2. PICK q \in Request :
        /\ Become(r, q) /\ q.pc = "creating" /\ q.customer = None
        /\ q.business \in Businesses /\ EmailIsFree(q.business, q.email, None)
  BY <1>1, CreateOneStep
<1>3. q.email # None => WithEmail(q.business, q.email) = {}
  BY <1>2, SentinelAssumption DEF EmailIsFree, WithEmail
<1>4. Checked(q)
  BY <1>2, <1>3 DEF Checked, Clash, WithEmail
<1>5. QED
  BY <1>2, <1>4, EmailsCheck DEF CreateOne

LEMMA EmailsUpdateOne ==
  ASSUME EmailsInv, Typed', NEW r \in Requests, UpdateOne(r) PROVE EmailsInv'
<1>1. Typed /\ DuplicatesAreExcused
  BY DEF EmailsInv
<1>2. PICK q \in Request :
        /\ Become(r, q) /\ q.pc = "updating"
        /\ q.customer \in Customers /\ IsCustomer(q.customer)
        /\ q.business = customers[q.customer].businessId
        /\ ~q.overtaken =>
             \E b \in {q.business, None} : EmailIsFree(b, q.email, q.customer)
  BY <1>1, UpdateOneStep
<1>3. ASSUME ~q.overtaken, q.email # None, NEW x \in Customers, Clash(q, x) PROVE FALSE
  <2>1. PICK b \in {q.business, None} : EmailIsFree(b, q.email, q.customer)
    BY <1>2, <1>3
  <2>2. x \in WithEmail(b, q.email)
    BY <1>3, <2>1 DEF Clash, WithEmail
  <2>3. q.customer \in WithEmail(b, q.email)
    BY <1>3, <2>1, <2>2 DEF EmailIsFree
  <2>4. customers[q.customer].email = q.email
    BY <2>3 DEF WithEmail
  <2>5. QED
    BY <1>1, <1>2, <1>3, <2>4 DEF Clash, DuplicatesAreExcused
<1>4. customers[q.customer] # None
  BY <1>2, SentinelAssumption DEF IsCustomer
<1>5. Checked(q)
  BY <1>2, <1>3, <1>4 DEF Checked
<1>6. QED
  BY <1>2, <1>5, EmailsCheck DEF UpdateOne

LEMMA EmailsStoreCustomer ==
  ASSUME EmailsInv, Typed', NEW r \in Requests, NEW c \in Customers, StoreCustomer(r, c)
  PROVE  EmailsInv'
<1>1. PICK q : q = request[r]
  OBVIOUS
<1>2. q \in Request /\ InOrder(q) /\ Checked(q) /\ q.pc = "creating"
  BY <1>1 DEF EmailsInv, Typed, TypeOK, RequestsInOrder, StoreCustomer
<1>3. PICK row : row = [businessId |-> q.business, email |-> q.email]
  OBVIOUS
<1>4. row \in CustomerRow /\ row.businessId = q.business /\ row.email = q.email
  BY <1>2, <1>3 DEF InOrder, CustomerRow, Request
<1>5. /\ customers[c] = None
      /\ customers' = [customers EXCEPT ![c] = row]
      /\ Overtake(r, q.business, q.email, Idle)
      /\ excused' = IF q.overtaken THEN excused \union {c} ELSE excused
  BY <1>1, <1>3 DEF StoreCustomer
<1>6. q.email # None => \A x \in Customers \ {c} :
        IsCustomer(x) /\ customers[x].businessId = q.business /\ customers[x].email = q.email =>
          x \in excused' \/ c \in excused'
  <2>1. q.customer = None /\ None \notin Customers
    BY <1>2, SentinelAssumption DEF InOrder
  <2>2. None \notin excused
    BY <2>1 DEF EmailsInv, Typed, TypeOK
  <2>3. QED
    BY <1>2, <1>5, <2>1, <2>2 DEF Checked, Checking, Clash
<1>7. Idle \in Request /\ Idle.pc \notin Checking
  BY IdleRequest DEF Checking
<1>8. excused \subseteq excused'
  BY <1>5
<1>9. QED
  BY <1>4, <1>5, <1>6, <1>7, <1>8, EmailsStore

LEMMA EmailsWriteCustomer ==
  ASSUME EmailsInv, Typed', NEW r \in Requests, WriteCustomer(r)
  PROVE  EmailsInv'
<1>1. PICK q, c : q = request[r] /\ c = q.customer
  OBVIOUS
<1>2. q \in Request /\ InOrder(q) /\ Checked(q) /\ q.pc = "updating"
  BY <1>1 DEF EmailsInv, Typed, TypeOK, RequestsInOrder, WriteCustomer
<1>3. c \in Customers /\ q.email \in Emails /\ q.email # None
  BY <1>1, <1>2, SentinelAssumption DEF InOrder
<1>4. excused' = IF q.overtaken THEN excused \union {c} ELSE excused
  BY <1>1 DEF WriteCustomer
<1>5. Idle \in Request /\ Idle.pc \notin Checking
  BY IdleRequest DEF Checking
<1>6. CASE IsCustomer(c)
  <2>1. PICK row : row = [customers[c] EXCEPT !.email = q.email]
    OBVIOUS
  <2>2. /\ row \in CustomerRow /\ row.email = q.email
        /\ row.businessId = customers[c].businessId
    <3>1. customers[c] \in CustomerRow
      BY <1>6 DEF IsCustomer
    <3>2. QED
      BY <1>3, <2>1, <3>1 DEF CustomerRow, Maybe
  <2>3. customers[c].businessId = q.business
    BY <1>1, <1>2, <1>6 DEF Checked
  <2>4. /\ customers' = [customers EXCEPT ![c] = row]
        /\ Overtake(r, q.business, q.email, Idle)
    BY <1>1, <1>6, <2>1 DEF WriteCustomer
  <2>5. \A x \in Customers \ {c} :
          IsCustomer(x) /\ customers[x].businessId = q.business /\ customers[x].email = q.email =>
            x \in excused' \/ c \in excused'
    BY <1>1, <1>2, <1>3, <1>4 DEF Checked, Checking, Clash
  <2>6. excused \subseteq excused'
    BY <1>4
  <2>7. PICK b, e : b = q.business /\ e = q.email
    OBVIOUS
  <2>8. /\ row \in CustomerRow /\ row.businessId = b /\ row.email = e
        /\ customers[c].businessId = b
        /\ Overtake(r, b, e, Idle)
        /\ \A x \in Customers \ {c} :
             IsCustomer(x) /\ customers[x].businessId = b /\ customers[x].email = e =>
               x \in excused' \/ c \in excused'
    BY <2>2, <2>3, <2>4, <2>5, <2>7
  <2>9. QED
    BY <1>3, <1>5, <1>6, <2>4, <2>6, <2>8, EmailsStore
<1>7. CASE ~IsCustomer(c)
  <2>1. UNCHANGED customers /\ Become(r, Idle)
    BY <1>1, <1>7 DEF WriteCustomer
  <2>2. QED
    BY <1>4, <1>5, <2>1, EmailsBecome
<1>8. QED
  BY <1>6, <1>7

LEMMA EmailsImportOne ==
  ASSUME EmailsInv, Typed', NEW r \in Requests, NEW c \in Customers, ImportOne(r, c)
  PROVE  EmailsInv'
<1>1. request[r] \in Request /\ InOrder(request[r]) /\ request[r].pc = "importing"
  BY DEF EmailsInv, Typed, TypeOK, RequestsInOrder, ImportOne
<1>2. PICK e, b, row, q :
        /\ e \in Maybe(Emails)
        /\ b = request[r].business /\ row = [businessId |-> b, email |-> e]
        /\ q = Settled(request[r])
        /\ customers' = [customers EXCEPT ![c] = row]
        /\ Overtake(r, b, e, q)
  BY DEF ImportOne
<1>3. row \in CustomerRow /\ row.businessId = b /\ row.email = e
  BY <1>1, <1>2 DEF InOrder, CustomerRow
<1>4. q \in Request /\ q.pc \notin Checking
  BY <1>1, <1>2, SettledStep DEF Checking
<1>5. customers[c] = None /\ excused' = excused \union {c}
  BY DEF ImportOne
<1>6. QED
  BY <1>2, <1>3, <1>4, <1>5, EmailsStore

LEMMA EmailsRemoveCustomer ==
  ASSUME EmailsInv, Typed', NEW r \in Requests, RemoveCustomer(r)
  PROVE  EmailsInv'
<1>1. PICK c : c = request[r].customer
  OBVIOUS
<1>2. /\ \A x \in Customers : customers'[x] = IF x = c THEN Gone ELSE customers[x]
      /\ \A s \in Requests : request'[s] = IF s = r THEN Idle ELSE request[s]
      /\ excused' = excused
  BY <1>1 DEF RemoveCustomer, Become, EmailsInv, Typed, TypeOK
<1>3. \A x \in Customers : IsCustomer(x)' => IsCustomer(x) /\ customers'[x] = customers[x]
  BY <1>2, SentinelAssumption DEF IsCustomer
<1>4. DuplicatesAreExcused'
  BY <1>2, <1>3 DEF EmailsInv, DuplicatesAreExcused
<1>5. ASSUME NEW s \in Requests PROVE Checked(request[s])'
  <2>1. CASE s = r
    BY <1>2, <2>1, IdleRequest DEF Checked, Checking
  <2>2. CASE s # r
    <3>1. request'[s] = request[s] /\ Checked(request[s]) /\ InOrder(request[s])
      BY <1>2, <2>2 DEF EmailsInv, Typed, RequestsInOrder
    <3>2. request[s].pc = "updating" => request[s].customer \in Customers
      BY <3>1 DEF InOrder
    <3>3. QED
      BY <1>2, <1>3, <3>1, <3>2, SentinelAssumption DEF Checked, Clash
  <2>3. QED
    BY <2>1, <2>2
<1>6. QED
  BY <1>4, <1>5 DEF EmailsInv

\* The steps of appointments, of imports and of errors.
LEMMA EmailsBegin ==
  ASSUME EmailsInv, Typed', UNCHANGED <<customers, excused>>,
         NEW r \in Requests, NEW a \in Appointments, NEW q \in Request, q.pc \in AtWork,
         Begin(r, a, q)
  PROVE  EmailsInv'
<1>1. \A s \in Requests : request[s] \in Request /\ InOrder(request[s])
  BY DEF EmailsInv, Typed, TypeOK, RequestsInOrder
<1>2. ASSUME NEW s \in Requests PROVE KeepsCheck(request[s], request'[s])
  <2>1. CASE s = r
    <3>1. PICK o \in BOOLEAN : request'[s] = [q EXCEPT !.appointment = a, !.overtaken = o]
      BY <2>1 DEF Begin
    <3>2. request'[s].pc = q.pc
      BY <3>1 DEF Request
    <3>3. QED
      BY <3>2 DEF KeepsCheck, Checking, AtWork
  <2>2. CASE s # r
    <3>1. request'[s] \in {request[s], [request[s] EXCEPT !.overtaken = TRUE]}
      BY <2>2 DEF Begin
    <3>2. QED
      BY <1>1, <3>1, OvertakenKeeps
  <2>3. QED
    BY <2>1, <2>2
<1>3. QED
  BY <1>2, EmailsQuiet

LEMMA EmailsStop ==
  ASSUME EmailsInv, Typed', UNCHANGED <<customers, excused>>, NEW R, Stop(R)
  PROVE  EmailsInv'
<1>1. \A s \in Requests : request'[s] = Idle \/ request'[s] = request[s]
  BY DEF Stop
<1>2. \A s \in Requests : KeepsCheck(request[s], request'[s])
  BY <1>1, IdleRequest DEF KeepsCheck, Checking
<1>3. QED
  BY <1>2, EmailsQuiet

LEMMA EmailsNext == EmailsInv /\ [Next]_vars => EmailsInv'
<1> SUFFICES ASSUME EmailsInv, [Next]_vars PROVE EmailsInv'
  OBVIOUS
<1>1. Typed /\ Typed'
  BY TypedNext DEF EmailsInv
<1>2. ASSUME NEW r \in Requests, Start(r) PROVE EmailsInv'
  <2>1. ASSUME UNCHANGED <<customers, excused>>,
               \E q \in Request : Become(r, q) /\ q.pc \notin Checking
        PROVE  EmailsInv'
    BY <1>1, <2>1, EmailsBecome
  <2>2. ASSUME UNCHANGED <<customers, excused>>,
               \E a \in Appointments, q \in Request : q.pc \in AtWork /\ Begin(r, a, q)
        PROVE  EmailsInv'
    BY <1>1, <2>2, EmailsBegin
  <2>3. CASE CreateOne(r)
    BY <1>1, <2>3, EmailsCreateOne
  <2>4. CASE UpdateOne(r)
    BY <1>1, <2>4, EmailsUpdateOne
  <2>5. CASE DeleteCustomer(r)
    <3>1. UNCHANGED <<customers, excused>>
      BY <2>5 DEF DeleteCustomer
    <3>2. QED
      BY <1>1, <2>1, <2>5, <3>1, DeleteCustomerStep DEF Checking
  <2>6. CASE ImportCustomers(r)
    <3>1. UNCHANGED <<customers, excused>>
      BY <2>6 DEF ImportCustomers
    <3>2. QED
      BY <1>1, <2>1, <2>6, <3>1, ImportCustomersStep DEF Checking
  <2>7. CASE Create(r)
    <3>1. UNCHANGED <<customers, excused>>
      BY <2>7 DEF Create
    <3>2. QED
      BY <1>1, <2>1, <2>7, <3>1, CreateStep DEF Checking
  <2>8. CASE UpdateGoogleEventId(r)
    <3>1. UNCHANGED <<customers, excused>>
      BY <2>8 DEF UpdateGoogleEventId
    <3>2. QED
      BY <1>1, <2>2, <2>8, <3>1, UpdateGoogleEventIdStep DEF AtWork
  <2>9. CASE Update(r)
    <3>1. UNCHANGED <<customers, excused>>
      BY <2>9 DEF Update
    <3>2. QED
      BY <1>1, <2>2, <2>9, <3>1, UpdateStep DEF AtWork
  <2>10. CASE Delete(r)
    <3>1. UNCHANGED <<customers, excused>>
      BY <2>10 DEF Delete
    <3>2. QED
      BY <1>1, <2>2, <2>10, <3>1, DeleteStep DEF AtWork
  <2>11. QED
    BY <1>2, <2>3, <2>4, <2>5, <2>6, <2>7, <2>8, <2>9, <2>10 DEF Start
<1>3. ASSUME NEW r \in Requests, Continue(r) PROVE EmailsInv'
  <2>1. ASSUME UNCHANGED <<customers, excused>>,
               \E q \in Request : Become(r, q) /\ q.pc \notin Checking
        PROVE  EmailsInv'
    BY <1>1, <2>1, EmailsBecome
  <2>2. Idle \in Request /\ Idle.pc \notin Checking
    BY IdleRequest DEF Checking
  <2>3. ASSUME NEW c \in Customers, StoreCustomer(r, c) \/ ImportOne(r, c) PROVE EmailsInv'
    BY <1>1, <2>3, EmailsStoreCustomer, EmailsImportOne
  <2>4. CASE FailOne(r)
    <3>1. /\ UNCHANGED <<customers, excused>> /\ Become(r, Settled(request[r]))
          /\ request[r] \in Request /\ InOrder(request[r]) /\ request[r].pc = "importing"
      BY <1>1, <2>4 DEF FailOne, Typed, TypeOK, RequestsInOrder
    <3>2. Settled(request[r]) \in Request /\ Settled(request[r]).pc \notin Checking
      BY <3>1, SettledStep DEF Checking
    <3>3. QED
      BY <2>1, <3>1, <3>2
  <2>5. ASSUME NEW a \in Appointments, StoreAppointment(r, a) PROVE EmailsInv'
    BY <2>1, <2>2, <2>5 DEF StoreAppointment
  <2>6. CASE WriteAppointment(r)
    BY <2>1, <2>2, <2>6 DEF WriteAppointment
  <2>7. CASE LinkCustomer(r)
    BY <2>1, <2>2, <2>7 DEF LinkCustomer
  <2>8. CASE RemoveAppointment(r)
    BY <2>1, <2>2, <2>8 DEF RemoveAppointment
  <2>9. CASE CompareAppointment(r)
    <3>1. UNCHANGED <<customers, excused>>
      BY <2>9 DEF CompareAppointment
    <3>2. QED
      BY <1>1, <2>1, <2>9, <3>1, CompareAppointmentStep DEF Checking
  <2>10. CASE WriteDetails(r)
    <3>1. UNCHANGED <<customers, excused>>
      BY <2>10 DEF WriteDetails
    <3>2. QED
      BY <1>1, <2>1, <2>10, <3>1, WriteDetailsStep DEF Checking
  <2>11. CASE LookUpCustomer(r)
    <3>1. UNCHANGED <<customers, excused>>
      BY <2>11 DEF LookUpCustomer
    <3>2. QED
      BY <1>1, <2>1, <2>11, <3>1, LookUpCustomerStep DEF Checking
  <2>12. CASE Refuse(r)
    BY <1>1, <2>12, EmailsStop DEF Refuse
  <2>13. QED
    BY <1>1, <1>3, <2>3, <2>4, <2>5, <2>6, <2>7, <2>8, <2>9, <2>10, <2>11, <2>12,
       EmailsWriteCustomer, EmailsRemoveCustomer DEF Continue
<1>4. CASE Crash
  BY <1>1, <1>4, EmailsStop DEF Crash
<1>5. CASE UNCHANGED vars
  <2>1. \A s \in Requests : KeepsCheck(request[s], request'[s])
    BY <1>5 DEF vars, KeepsCheck
  <2>2. QED
    BY <1>1, <1>5, <2>1, EmailsQuiet DEF vars
<1>6. QED
  BY <1>2, <1>3, <1>4, <1>5 DEF Next

\* Two customers of a business share an email only if one of them was imported,
\* was updated by a request that named another business, or lost a race: for any
\* number of overlapping requests (createOne, updateOne and importCustomers
\* without the unique constraint).
THEOREM DuplicatesAlwaysExcused == Spec => []DuplicatesAreExcused
<1>1. Init => EmailsInv
  <2> SUFFICES ASSUME Init PROVE EmailsInv
    OBVIOUS
  <2>1. Typed
    BY TypedInit
  <2>2. \A r \in Requests : request[r] = Idle
    BY DEF Init
  <2>3. \A c \in Customers : IsCustomer(c) => customers[c].email = None
    BY SentinelAssumption DEF Init, IsCustomer
  <2>4. \A r \in Requests : Checked(request[r])
    BY <2>2, IdleRequest DEF Checked, Checking
  <2>5. QED
    BY <2>1, <2>3, <2>4 DEF EmailsInv, DuplicatesAreExcused
<1>2. EmailsInv => DuplicatesAreExcused
  BY DEF EmailsInv
<1>3. QED
  BY <1>1, <1>2, EmailsNext, PTL DEF Spec

----------------------------------------------------------------------------
(***************************************************************************)
(* Customers of appointments.                                              *)
(*                                                                         *)
(* Requests carry copies of appointments and customers that they have      *)
(* looked up.  A copy's customer stays one of the appointment's business   *)
(* or lent to it, and a customer that was looked up stays one of the       *)
(* business that the request names: no customer and no appointment ever    *)
(* changes its business, and no id is used twice.                          *)
(***************************************************************************)

Copying == {"read", "compared", "details", "lookup", "link"}

\* A customer that, if it still exists, is one of business b.
OwnCustomer(b, c) ==
  c # None =>
    /\ c \in Customers
    /\ customers[c] # None
    /\ IsCustomer(c) => customers[c].businessId = b

\* A customer of appointment a, which is one of business b: its own, or lent.
OwnOrLent(a, b, c) ==
  \/ OwnCustomer(b, c)
  \/ c \in Customers /\ customers[c] # None /\ <<a, c>> \in lent

HoldsOwn(q) ==
  /\ q.pc = "booking" => OwnCustomer(q.copy.businessId, q.copy.customerId)
  /\ q.pc \in Copying => OwnOrLent(q.appointment, q.copy.businessId, q.copy.customerId)
  /\ q.pc \in Copying =>
       /\ appointments[q.appointment] # None
       /\ IsAppointment(q.appointment) =>
            appointments[q.appointment].businessId = q.copy.businessId
  /\ q.pc = "link" => OwnCustomer(q.business, q.customer)

\* Copies of one appointment name one business, also when it is gone.
OneBusiness ==
  \A r, s \in Requests :
    /\ request[r].pc \in Copying
    /\ request[s].pc \in Copying
    /\ request[r].appointment = request[s].appointment
    => request[r].copy.businessId = request[s].copy.businessId

OwnInv ==
  /\ Typed
  /\ AppointmentCustomersAreOwn
  /\ \A r \in Requests : HoldsOwn(request[r])
  /\ OneBusiness

\* What request q may become in a step, apart from starting to copy.
GoesOn(q, p) ==
  /\ p.pc = "booking" => OwnCustomer(p.copy.businessId, p.copy.customerId)
  /\ p.pc \in Copying =>
       q.pc \in Copying /\ p.appointment = q.appointment /\ p.copy = q.copy
  /\ p.pc = "link" => OwnCustomer(p.business, p.customer)

LEMMA GoesOnAsIs ==
  ASSUME NEW q \in Request, InOrder(q), HoldsOwn(q)
  PROVE  GoesOn(q, q) /\ GoesOn(q, [q EXCEPT !.overtaken = TRUE])
BY Overtaken DEF GoesOn, HoldsOwn

\* What may become of the tables.
CustomersStay ==
  \A c \in Customers : customers[c] # None =>
    /\ customers'[c] # None
    /\ IsCustomer(c)' => IsCustomer(c) /\ customers'[c].businessId = customers[c].businessId

LEMMA OwnStays ==
  ASSUME CustomersStay, NEW b, NEW c, OwnCustomer(b, c)
  PROVE  OwnCustomer(b, c)'
BY DEF CustomersStay, OwnCustomer

LEMMA OwnOrLentStays ==
  ASSUME CustomersStay, lent \subseteq lent', NEW a, NEW b, NEW c, OwnOrLent(a, b, c)
  PROVE  OwnOrLent(a, b, c)'
<1>1. CASE OwnCustomer(b, c)
  BY <1>1, OwnStays DEF OwnOrLent
<1>2. CASE c \in Customers /\ customers[c] # None /\ <<a, c>> \in lent
  BY <1>2 DEF OwnOrLent, CustomersStay
<1>3. QED
  BY <1>1, <1>2 DEF OwnOrLent

AppointmentsStay ==
  \A a \in Appointments : appointments[a] # None =>
    /\ appointments'[a] # None
    /\ IsAppointment(a)' =>
         \/ IsAppointment(a) /\ appointments'[a].businessId = appointments[a].businessId
         \/ \E s \in Requests :
              /\ request[s].pc \in Copying /\ request[s].appointment = a
              /\ appointments'[a].businessId = request[s].copy.businessId

LEMMA OwnStep ==
  ASSUME OwnInv, Typed', CustomersStay, AppointmentsStay, AppointmentCustomersAreOwn',
         lent \subseteq lent',
         \A s \in Requests : GoesOn(request[s], request'[s])
  PROVE  OwnInv'
<1>1. \A s \in Requests : /\ request[s] \in Request /\ InOrder(request[s])
                          /\ HoldsOwn(request[s])
  BY DEF OwnInv, Typed, TypeOK, RequestsInOrder
<1>2. OneBusiness'
  BY DEF OwnInv, OneBusiness, GoesOn
<1>3. ASSUME NEW s \in Requests PROVE HoldsOwn(request[s])'
  <2>1. PICK q, p : q = request[s] /\ p = request'[s]
    OBVIOUS
  <2>2. InOrder(q) /\ HoldsOwn(q) /\ GoesOn(q, p)
    BY <1>1, <2>1
  <2>3. /\ p.pc = "booking" => OwnCustomer(p.copy.businessId, p.copy.customerId)'
        /\ p.pc \in Copying =>
             OwnOrLent(p.appointment, p.copy.businessId, p.copy.customerId)'
    <3>1. /\ p.pc = "booking" => OwnCustomer(p.copy.businessId, p.copy.customerId)
          /\ p.pc \in Copying =>
               OwnOrLent(p.appointment, p.copy.businessId, p.copy.customerId)
      BY <2>2 DEF HoldsOwn, GoesOn
    <3>2. QED
      BY <3>1, OwnStays, OwnOrLentStays
  <2>4. ASSUME p.pc \in Copying
        PROVE  /\ appointments'[p.appointment] # None
               /\ appointments'[p.appointment] \in AppointmentRow =>
                    appointments'[p.appointment].businessId = p.copy.businessId
    <3>1. /\ q.pc \in Copying /\ p.appointment = q.appointment /\ p.copy = q.copy
          /\ q.appointment \in Appointments
      BY <2>2, <2>4 DEF GoesOn, InOrder, Copying, AtWork
    <3>2. /\ appointments[q.appointment] # None
          /\ IsAppointment(q.appointment) =>
               appointments[q.appointment].businessId = q.copy.businessId
      BY <2>2, <3>1 DEF HoldsOwn
    <3>3. \A z \in Requests :
            request[z].pc \in Copying /\ request[z].appointment = q.appointment =>
              request[z].copy.businessId = q.copy.businessId
      BY <2>1, <3>1 DEF OwnInv, OneBusiness
    <3>4. QED
      BY <3>1, <3>2, <3>3 DEF AppointmentsStay, IsAppointment
  <2>5. p.pc = "link" => OwnCustomer(p.business, p.customer)'
    BY <2>2, OwnStays DEF GoesOn
  <2>6. QED
    BY <2>1, <2>3, <2>4, <2>5
       DEF HoldsOwn, IsAppointment, OwnOrLent, OwnCustomer, IsCustomer
<1>4. QED
  BY <1>2, <1>3 DEF OwnInv

LEMMA TablesStay ==
  /\ UNCHANGED customers => CustomersStay
  /\ UNCHANGED appointments => AppointmentsStay
BY DEF CustomersStay, AppointmentsStay, IsCustomer, IsAppointment

\* A request alone becomes q, and the tables stay.
LEMMA OwnBecome ==
  ASSUME OwnInv, Typed', UNCHANGED <<customers, appointments, lent>>,
         NEW r \in Requests, NEW q, Become(r, q), GoesOn(request[r], q)
  PROVE  OwnInv'
<1>1. \A s \in Requests : request[s] \in Request /\ InOrder(request[s]) /\ HoldsOwn(request[s])
  BY DEF OwnInv, Typed, TypeOK, RequestsInOrder
<1>2. \A s \in Requests : request'[s] = IF s = r THEN q ELSE request[s]
  BY DEF Become, OwnInv, Typed, TypeOK
<1>3. \A s \in Requests : GoesOn(request[s], request'[s])
  BY <1>1, <1>2, GoesOnAsIs
<1>4. AppointmentCustomersAreOwn'
  BY DEF OwnInv, AppointmentCustomersAreOwn, IsAppointment, IsCustomer
<1>5. QED
  BY <1>3, <1>4, TablesStay, OwnStep

\* Requests that are no longer, or not yet, about appointments.
LEMMA GoesOnElsewhere ==
  ASSUME NEW q, NEW p, p.pc \notin Copying \union {"booking"}
  PROVE  GoesOn(q, p)
BY DEF GoesOn, Copying

LEMMA IdleGoesOn == \A q : GoesOn(q, Idle)
BY IdleRequest, GoesOnElsewhere DEF Copying

\* Rows of customers change or are added; their appointments stay.
LEMMA OwnCustomersChange ==
  ASSUME OwnInv, Typed', UNCHANGED <<appointments, lent>>, CustomersStay,
         \A a \in Appointments : IsAppointment(a) /\ appointments[a].customerId # None =>
           IsCustomer(appointments[a].customerId)',
         \A s \in Requests : GoesOn(request[s], request'[s])
  PROVE  OwnInv'
<1>1. ASSUME NEW a \in Appointments, IsAppointment(a)', appointments'[a].customerId # None
      PROVE  /\ IsCustomer(appointments[a].customerId)'
             /\ \/ customers'[appointments[a].customerId].businessId
                      = appointments[a].businessId
                \/ <<a, appointments[a].customerId>> \in lent
  <2>1. PICK c, b : c = appointments[a].customerId /\ b = appointments[a].businessId
    OBVIOUS
  <2>2. IsAppointment(a) /\ c # None
    BY <1>1, <2>1 DEF IsAppointment
  <2>3. c \in Customers
    BY <2>1, <2>2 DEF IsAppointment, AppointmentRow, Maybe
  <2>4. IsCustomer(c) /\ (customers[c].businessId = b \/ <<a, c>> \in lent)
    BY <2>1, <2>2 DEF OwnInv, AppointmentCustomersAreOwn
  <2>5. customers[c] # None
    BY <2>4, SentinelAssumption DEF IsCustomer
  <2>6. (customers' )[c] \in CustomerRow
    BY <2>1, <2>2 DEF IsCustomer
  <2>7. (customers')[c].businessId = b \/ <<a, c>> \in lent
    BY <2>3, <2>4, <2>5, <2>6 DEF CustomersStay, IsCustomer
  <2>8. QED
    BY <2>1, <2>6, <2>7 DEF IsCustomer
<1>2. AppointmentCustomersAreOwn'
  BY <1>1 DEF AppointmentCustomersAreOwn
<1>3. QED
  BY <1>2, TablesStay, OwnStep

LEMMA OvertakeGoes ==
  ASSUME OwnInv, NEW r \in Requests, NEW b, NEW e, NEW q, q.pc \notin Copying \union {"booking"},
         Overtake(r, b, e, q)
  PROVE  \A s \in Requests : GoesOn(request[s], request'[s])
<1>1. \A s \in Requests : request[s] \in Request /\ InOrder(request[s]) /\ HoldsOwn(request[s])
  BY DEF OwnInv, Typed, TypeOK, RequestsInOrder
<1>2. \A s \in Requests :
        request'[s] \in {request[s], [request[s] EXCEPT !.overtaken = TRUE], q}
  BY DEF Overtake
<1>3. QED
  BY <1>1, <1>2, GoesOnAsIs, GoesOnElsewhere

LEMMA OwnNewCustomer ==
  ASSUME OwnInv, Typed', UNCHANGED <<appointments, lent>>,
         NEW c \in Customers, NEW row \in CustomerRow, customers[c] = None, customers' = [customers EXCEPT ![c] = row],
         \A s \in Requests : GoesOn(request[s], request'[s])
  PROVE  OwnInv'
<1>1. \A x \in Customers : customers'[x] = IF x = c THEN row ELSE customers[x]
  BY DEF OwnInv, Typed, TypeOK
<1>2. CustomersStay
  BY <1>1 DEF CustomersStay, IsCustomer
<1>3. ASSUME NEW a \in Appointments, IsAppointment(a), appointments[a].customerId # None
      PROVE  IsCustomer(appointments[a].customerId)'
  <2>1. IsCustomer(appointments[a].customerId) /\ appointments[a].customerId \in Customers
    BY <1>3 DEF OwnInv, AppointmentCustomersAreOwn, IsAppointment, AppointmentRow, Maybe
  <2>2. QED
    BY <1>1, <2>1 DEF IsCustomer
<1>4. QED
  BY <1>2, <1>3, OwnCustomersChange

LEMMA OwnStoreCustomer ==
  ASSUME OwnInv, Typed', NEW r \in Requests, NEW c \in Customers, StoreCustomer(r, c)
  PROVE  OwnInv'
<1>1. PICK row : row = [businessId |-> request[r].business, email |-> request[r].email]
  OBVIOUS
<1>2. /\ UNCHANGED <<appointments, lent>> /\ customers[c] = None
      /\ customers' = [customers EXCEPT ![c] = row]
      /\ Overtake(r, request[r].business, request[r].email, Idle)
  BY <1>1 DEF StoreCustomer
<1>3. row \in CustomerRow
  <2>1. request[r] \in Request /\ InOrder(request[r]) /\ request[r].pc = "creating"
    BY DEF OwnInv, Typed, TypeOK, RequestsInOrder, StoreCustomer
  <2>2. QED
    BY <1>1, <2>1 DEF CustomerRow, Request, InOrder
<1>4. \A s \in Requests : GoesOn(request[s], request'[s])
  BY <1>2, IdleRequest, OvertakeGoes DEF Copying
<1>5. QED
  BY <1>2, <1>3, <1>4, OwnNewCustomer

LEMMA OwnImportOne ==
  ASSUME OwnInv, Typed', NEW r \in Requests, NEW c \in Customers, ImportOne(r, c)
  PROVE  OwnInv'
<1>1. request[r] \in Request /\ InOrder(request[r]) /\ request[r].pc = "importing"
  BY DEF OwnInv, Typed, TypeOK, RequestsInOrder, ImportOne
<1>2. PICK e, b, row, q :
        /\ e \in Maybe(Emails)
        /\ b = request[r].business /\ row = [businessId |-> b, email |-> e]
        /\ q = Settled(request[r])
        /\ customers' = [customers EXCEPT ![c] = row]
        /\ Overtake(r, b, e, q)
  BY DEF ImportOne
<1>3. row \in CustomerRow
  BY <1>1, <1>2 DEF InOrder, CustomerRow
<1>4. q.pc \notin Copying \union {"booking"}
  BY <1>1, <1>2, SettledStep DEF Copying
<1>5. \A s \in Requests : GoesOn(request[s], request'[s])
  BY <1>2, <1>4, OvertakeGoes
<1>6. customers[c] = None /\ UNCHANGED <<appointments, lent>>
  BY DEF ImportOne
<1>7. QED
  BY <1>2, <1>3, <1>5, <1>6, OwnNewCustomer

LEMMA OwnWriteCustomer ==
  ASSUME OwnInv, Typed', NEW r \in Requests, WriteCustomer(r)
  PROVE  OwnInv'
<1>1. PICK q, c : q = request[r] /\ c = q.customer
  OBVIOUS
<1>2. q \in Request /\ InOrder(q) /\ q.pc = "updating"
  BY <1>1 DEF OwnInv, Typed, TypeOK, RequestsInOrder, WriteCustomer
<1>3. c \in Customers /\ q.email \in Emails
  BY <1>1, <1>2 DEF InOrder
<1>4. CASE IsCustomer(c)
  <2>1. PICK row : row = [customers[c] EXCEPT !.email = q.email]
    OBVIOUS
  <2>2. row \in CustomerRow /\ row.businessId = customers[c].businessId
    <3>1. customers[c] \in CustomerRow
      BY <1>4 DEF IsCustomer
    <3>2. QED
      BY <1>3, <2>1, <3>1 DEF CustomerRow, Maybe
  <2>3. /\ customers' = [customers EXCEPT ![c] = row]
        /\ Overtake(r, q.business, q.email, Idle)
    BY <1>1, <1>4, <2>1 DEF WriteCustomer
  <2>4. \A x \in Customers : customers'[x] = IF x = c THEN row ELSE customers[x]
    BY <2>3 DEF OwnInv, Typed, TypeOK
  <2>5. CustomersStay
    BY <1>4, <2>2, <2>4, SentinelAssumption DEF CustomersStay, IsCustomer
  <2>6. ASSUME NEW a \in Appointments, IsAppointment(a), appointments[a].customerId # None
        PROVE  IsCustomer(appointments[a].customerId)'
    <3>1. IsCustomer(appointments[a].customerId) /\ appointments[a].customerId \in Customers
      BY <2>6 DEF OwnInv, AppointmentCustomersAreOwn, IsAppointment, AppointmentRow, Maybe
    <3>2. UNCHANGED appointments
      BY DEF WriteCustomer
    <3>3. QED
      BY <2>2, <2>4, <3>1, <3>2 DEF IsCustomer
  <2>7. \A s \in Requests : GoesOn(request[s], request'[s])
    BY <2>3, IdleRequest, OvertakeGoes DEF Copying
  <2>8. QED
    BY <2>5, <2>6, <2>7, OwnCustomersChange DEF WriteCustomer
<1>5. CASE ~IsCustomer(c)
  <2>1. UNCHANGED <<customers, appointments, lent>> /\ Become(r, Idle)
    BY <1>1, <1>5 DEF WriteCustomer
  <2>2. QED
    BY <2>1, IdleGoesOn, OwnBecome
<1>6. QED
  BY <1>4, <1>5

LEMMA OwnRemoveCustomer ==
  ASSUME OwnInv, Typed', NEW r \in Requests, RemoveCustomer(r)
  PROVE  OwnInv'
<1>1. PICK c : c = request[r].customer
  OBVIOUS
<1>2. /\ \A x \in Customers : customers'[x] = IF x = c THEN Gone ELSE customers[x]
      /\ \A s \in Requests : request'[s] = IF s = r THEN Idle ELSE request[s]
      /\ UNCHANGED <<appointments, lent>> /\ ~Referenced(c)
  BY <1>1 DEF RemoveCustomer, Become, OwnInv, Typed, TypeOK
<1>3. CustomersStay
  BY <1>2, SentinelAssumption DEF CustomersStay, IsCustomer
<1>4. ASSUME NEW a \in Appointments, IsAppointment(a), appointments[a].customerId # None
      PROVE  IsCustomer(appointments[a].customerId)'
  <2>1. IsCustomer(appointments[a].customerId) /\ appointments[a].customerId \in Customers
    BY <1>4 DEF OwnInv, AppointmentCustomersAreOwn, IsAppointment, AppointmentRow, Maybe
  <2>2. appointments[a].customerId # c
    BY <1>2, <1>4 DEF Referenced
  <2>3. QED
    BY <1>2, <2>1, <2>2 DEF IsCustomer
<1>5. \A s \in Requests : request[s] \in Request /\ InOrder(request[s]) /\ HoldsOwn(request[s])
  BY DEF OwnInv, Typed, TypeOK, RequestsInOrder
<1>6. \A s \in Requests : GoesOn(request[s], request'[s])
  BY <1>2, <1>5, IdleGoesOn, GoesOnAsIs
<1>7. QED
  BY <1>2, <1>3, <1>4, <1>6, OwnCustomersChange

\* One appointment changes.
LEMMA OwnAppointmentChange ==
  ASSUME OwnInv, Typed', UNCHANGED customers, lent \subseteq lent', NEW a \in Appointments,
         \A x \in Appointments : x # a => appointments'[x] = appointments[x],
         appointments[a] # None =>
           /\ appointments'[a] # None
           /\ IsAppointment(a)' =>
                \/ IsAppointment(a) /\ appointments'[a].businessId = appointments[a].businessId
                \/ \E s \in Requests :
                     /\ request[s].pc \in Copying /\ request[s].appointment = a
                     /\ appointments'[a].businessId = request[s].copy.businessId,
         IsAppointment(a)' /\ appointments'[a].customerId # None =>
           /\ IsCustomer(appointments'[a].customerId)
           /\ \/ customers[appointments'[a].customerId].businessId = appointments'[a].businessId
              \/ <<a, appointments'[a].customerId>> \in lent',
         NEW r \in Requests, NEW q, Become(r, q), GoesOn(request[r], q)
  PROVE  OwnInv'
<1>1. AppointmentsStay
  BY DEF AppointmentsStay, IsAppointment
<1>2. AppointmentCustomersAreOwn'
  BY DEF OwnInv, AppointmentCustomersAreOwn, IsAppointment, IsCustomer
<1>3. \A s \in Requests : request[s] \in Request /\ InOrder(request[s]) /\ HoldsOwn(request[s])
  BY DEF OwnInv, Typed, TypeOK, RequestsInOrder
<1>4. \A s \in Requests : request'[s] = IF s = r THEN q ELSE request[s]
  BY DEF Become, OwnInv, Typed, TypeOK
<1>5. \A s \in Requests : GoesOn(request[s], request'[s])
  BY <1>3, <1>4, GoesOnAsIs
<1>6. QED
  BY <1>1, <1>2, <1>5, TablesStay, OwnStep

LEMMA OwnStoreAppointment ==
  ASSUME OwnInv, Typed', NEW r \in Requests, NEW a \in Appointments, StoreAppointment(r, a)
  PROVE  OwnInv'
<1>1. PICK row : row = request[r].copy
  OBVIOUS
<1>2. /\ OwnCustomer(row.businessId, row.customerId) /\ Storable(row.customerId)
      /\ appointments[a] = None /\ UNCHANGED <<customers, lent>> /\ Become(r, Idle)
  BY <1>1 DEF StoreAppointment, OwnInv, HoldsOwn
<1>3. \A x \in Appointments : appointments'[x] = IF x = a THEN row ELSE appointments[x]
  BY <1>1 DEF StoreAppointment, OwnInv, Typed, TypeOK
<1>4. row.customerId # None =>
        IsCustomer(row.customerId) /\ customers[row.customerId].businessId = row.businessId
  BY <1>2 DEF OwnCustomer, Storable
<1>5. QED
  BY <1>2, <1>3, <1>4, IdleGoesOn, OwnAppointmentChange

LEMMA OwnWriteAppointment ==
  ASSUME OwnInv, Typed', NEW r \in Requests, WriteAppointment(r)
  PROVE  OwnInv'
<1>1. PICK q, a, new : q = request[r] /\ a = q.appointment /\ new = SavedAppointment(q)
  OBVIOUS
<1>2. /\ Typed /\ q \in Request /\ InOrder(q) /\ q.pc = "compared" /\ HoldsOwn(q)
      /\ Saveable(q) /\ UNCHANGED <<customers, lent>> /\ Become(r, Idle)
      /\ a \in Appointments /\ q.copy \in AppointmentRow
  BY <1>1 DEF WriteAppointment, OwnInv, Typed, TypeOK, RequestsInOrder, InOrder, AtWork
<1>3. \A x \in Appointments : appointments'[x] = IF x = a THEN new ELSE appointments[x]
  BY <1>1 DEF WriteAppointment, OwnInv, Typed, TypeOK
<1>4. /\ q.pc \in Copying /\ appointments[a] # None
      /\ OwnOrLent(a, q.copy.businessId, q.copy.customerId)
  BY <1>1, <1>2 DEF HoldsOwn, Copying
<1>5. {"insert", "customerId"} \intersect q.columns # {} /\ q.copy.customerId # None =>
        /\ IsCustomer(q.copy.customerId)
        /\ \/ customers[q.copy.customerId].businessId = q.copy.businessId
           \/ <<a, q.copy.customerId>> \in lent
  BY <1>2, <1>4 DEF Saveable, Storable, OwnOrLent, OwnCustomer
<1>6. CASE "insert" \in q.columns
  <2>1. new = q.copy
    BY <1>1, <1>2, <1>6, SavedRow
  <2>2. new # None
    BY <1>2, <2>1, SentinelAssumption
  <2>3. QED
    BY <1>1, <1>2, <1>3, <1>4, <1>5, <1>6, <2>1, <2>2, IdleGoesOn, OwnAppointmentChange
<1>7. CASE "insert" \notin q.columns /\ ~IsAppointment(a)
  <2>1. new = appointments[a]
    BY <1>1, <1>2, <1>7, SavedRow
  <2>2. ~IsAppointment(a)'
    BY <1>2, <1>3, <1>7, <2>1 DEF IsAppointment
  <2>3. QED
    BY <1>2, <1>3, <1>4, <2>1, <2>2, IdleGoesOn, OwnAppointmentChange
<1>8. CASE "insert" \notin q.columns /\ IsAppointment(a)
  <2>1. /\ new \in AppointmentRow /\ new.businessId = appointments[a].businessId
        /\ \A c \in Columns : new[c] = IF c \in q.columns THEN q.copy[c] ELSE appointments[a][c]
    BY <1>1, <1>2, <1>8, SavedRow
  <2>2. new.customerId =
          IF "customerId" \in q.columns THEN q.copy.customerId ELSE appointments[a].customerId
    <3>1. new["customerId"] =
            IF "customerId" \in q.columns THEN q.copy["customerId"]
            ELSE appointments[a]["customerId"]
      BY <2>1 DEF Columns
    <3>2. QED
      BY <3>1
  <2>3. appointments[a].businessId = q.copy.businessId
    BY <1>1, <1>2, <1>4, <1>8 DEF HoldsOwn
  <2>4. appointments[a].customerId # None =>
          /\ IsCustomer(appointments[a].customerId)
          /\ \/ customers[appointments[a].customerId].businessId = appointments[a].businessId
             \/ <<a, appointments[a].customerId>> \in lent
    BY <1>2, <1>8 DEF OwnInv, AppointmentCustomersAreOwn
  <2>5. new.customerId # None =>
          /\ IsCustomer(new.customerId)
          /\ \/ customers[new.customerId].businessId = new.businessId
             \/ <<a, new.customerId>> \in lent
    BY <1>5, <2>1, <2>2, <2>3, <2>4
  <2>6. new # None
    BY <2>1, SentinelAssumption
  <2>7. QED
    BY <1>2, <1>3, <1>8, <2>1, <2>5, <2>6, IdleGoesOn, OwnAppointmentChange
<1>9. QED
  BY <1>6, <1>7, <1>8

LEMMA OwnWriteDetails ==
  ASSUME OwnInv, Typed', NEW r \in Requests, WriteDetails(r)
  PROVE  OwnInv'
<1>1. Typed
  BY DEF OwnInv
<1>2. PICK q \in Request :
        /\ Become(r, q) /\ request[r].pc = "details" /\ q.pc \in {"lookup", "link"}
        /\ q.pc = "link" => q.customer = None
        /\ q.copy = request[r].copy /\ q.appointment = request[r].appointment
  BY <1>1, WriteDetailsStep
<1>3. PICK a, d : a = request[r].appointment /\ d = request[r].copy.details
  OBVIOUS
<1>4. /\ a \in Appointments /\ d \in Details /\ SetColumn(a, "details", d)
      /\ HoldsOwn(request[r]) /\ UNCHANGED <<customers, lent>>
  <2>1. /\ a \in Appointments /\ request[r].copy \in AppointmentRow
        /\ SetColumn(a, "details", d) /\ UNCHANGED <<customers, lent>>
    BY <1>1, <1>2, <1>3 DEF WriteDetails, Typed, RequestsInOrder, InOrder, AtWork
  <2>2. d \in Details
    BY <1>3, <2>1 DEF AppointmentRow
  <2>3. QED
    BY <2>1, <2>2 DEF OwnInv
<1>5. /\ \A x \in Appointments : x # a => appointments'[x] = appointments[x]
      /\ ~IsAppointment(a) => appointments'[a] = appointments[a]
      /\ IsAppointment(a) =>
           /\ appointments'[a] \in AppointmentRow
           /\ appointments'[a].businessId = appointments[a].businessId
           /\ appointments'[a].customerId = appointments[a].customerId
  BY <1>1, <1>4, ColumnSet
<1>6. GoesOn(request[r], q)
  BY <1>2 DEF GoesOn, Copying, OwnCustomer
<1>7. appointments[a] # None =>
        /\ appointments'[a] # None
        /\ IsAppointment(a)' =>
             IsAppointment(a) /\ appointments'[a].businessId = appointments[a].businessId
  BY <1>5, SentinelAssumption DEF IsAppointment
<1>8. IsAppointment(a)' => IsAppointment(a)
  BY <1>5 DEF IsAppointment
<1>9. IsAppointment(a)' /\ appointments'[a].customerId # None =>
        /\ IsCustomer(appointments'[a].customerId)
        /\ \/ customers[appointments'[a].customerId].businessId = appointments'[a].businessId
           \/ <<a, appointments'[a].customerId>> \in lent'
  BY <1>4, <1>5, <1>8 DEF OwnInv, AppointmentCustomersAreOwn
<1>10. QED
  BY <1>2, <1>4, <1>5, <1>6, <1>7, <1>9, OwnAppointmentChange

LEMMA OwnLinkCustomer ==
  ASSUME OwnInv, Typed', NEW r \in Requests, LinkCustomer(r)
  PROVE  OwnInv'
<1>1. PICK q, a, c : q = request[r] /\ a = q.appointment /\ c = q.customer
  OBVIOUS
<1>2. /\ Typed /\ q \in Request /\ InOrder(q) /\ q.pc = "link" /\ HoldsOwn(q)
      /\ UNCHANGED customers /\ Become(r, Idle)
      /\ IsAppointment(a) => Storable(c)
      /\ SetColumn(a, "customerId", c)
      /\ lent' = IF Lends(q) THEN lent \union {<<a, c>>} ELSE lent
      /\ a \in Appointments /\ c \in Maybe(Customers)
  BY <1>1 DEF LinkCustomer, LinkedTo, OwnInv, Typed, TypeOK, RequestsInOrder, InOrder, AtWork,
     Request
<1>3. /\ \A x \in Appointments : x # a => appointments'[x] = appointments[x]
      /\ ~IsAppointment(a) => appointments'[a] = appointments[a]
      /\ IsAppointment(a) =>
           /\ appointments'[a] \in AppointmentRow
           /\ appointments'[a].businessId = appointments[a].businessId
           /\ appointments'[a].customerId = c
  BY <1>2, ColumnSet
<1>4. /\ OwnCustomer(q.business, c) /\ lent \subseteq lent'
      /\ IsAppointment(a) /\ c # None /\ q.business # appointments[a].businessId =>
           <<a, c>> \in lent'
  BY <1>1, <1>2 DEF HoldsOwn, Lends
<1>5. IsAppointment(a)' => IsAppointment(a)
  BY <1>3 DEF IsAppointment
<1>6. appointments[a] # None =>
        /\ appointments'[a] # None
        /\ IsAppointment(a)' =>
             IsAppointment(a) /\ appointments'[a].businessId = appointments[a].businessId
  BY <1>3, <1>5, SentinelAssumption DEF IsAppointment
<1>7. IsAppointment(a)' /\ appointments'[a].customerId # None =>
        /\ IsCustomer(appointments'[a].customerId)
        /\ \/ customers[appointments'[a].customerId].businessId = appointments'[a].businessId
           \/ <<a, appointments'[a].customerId>> \in lent'
  BY <1>2, <1>3, <1>4, <1>5 DEF OwnCustomer, Storable
<1>8. QED
  BY <1>2, <1>3, <1>4, <1>6, <1>7, IdleGoesOn, OwnAppointmentChange

LEMMA OwnRemoveAppointment ==
  ASSUME OwnInv, Typed', NEW r \in Requests, RemoveAppointment(r)
  PROVE  OwnInv'
<1>1. PICK a : a = request[r].appointment
  OBVIOUS
<1>2. /\ a \in Appointments /\ UNCHANGED <<customers, lent>> /\ Become(r, Idle)
      /\ \A x \in Appointments : appointments'[x] = IF x = a THEN Gone ELSE appointments[x]
  BY <1>1 DEF RemoveAppointment, OwnInv, Typed, TypeOK, RequestsInOrder, InOrder, AtWork
<1>3. ~IsAppointment(a)' /\ appointments'[a] # None
  BY <1>2, SentinelAssumption DEF IsAppointment
<1>4. QED
  BY <1>2, <1>3, IdleGoesOn, OwnAppointmentChange

\* A request begins to copy an appointment, or to delete it.
LEMMA OwnBegin ==
  ASSUME OwnInv, Typed', UNCHANGED <<customers, appointments, lent>>,
         NEW r \in Requests, NEW a \in Appointments, NEW q \in Request, IsAppointment(a),
         Begin(r, a, q), q.pc \in {"read", "details", "deleting"},
         q.pc # "deleting" =>
           /\ q.copy.businessId = appointments[a].businessId
           /\ q.copy.customerId = appointments[a].customerId
  PROVE  OwnInv'
<1>1. \A s \in Requests : request[s] \in Request /\ InOrder(request[s]) /\ HoldsOwn(request[s])
  BY DEF OwnInv, Typed, TypeOK, RequestsInOrder
<1>2. PICK p : p = request'[r]
  OBVIOUS
<1>3. /\ p.pc = q.pc /\ p.copy = q.copy /\ p.business = q.business /\ p.appointment = a
  <2>1. PICK o \in BOOLEAN : p = [q EXCEPT !.appointment = a, !.overtaken = o]
    BY <1>2 DEF Begin
  <2>2. QED
    BY <2>1 DEF Request
<1>4. \A s \in Requests : s # r =>
        /\ request'[s].pc = request[s].pc /\ request'[s].copy = request[s].copy
        /\ request'[s].business = request[s].business
        /\ request'[s].customer = request[s].customer
        /\ request'[s].appointment = request[s].appointment
  <2>1. \A s \in Requests : s # r =>
          request'[s] = request[s] \/ request'[s] = [request[s] EXCEPT !.overtaken = TRUE]
    BY DEF Begin
  <2> SUFFICES ASSUME NEW s \in Requests, s # r
               PROVE  /\ request'[s].pc = request[s].pc /\ request'[s].copy = request[s].copy
                      /\ request'[s].business = request[s].business
                      /\ request'[s].customer = request[s].customer
                      /\ request'[s].appointment = request[s].appointment
    OBVIOUS
  <2>2. PICK o : o = request[s]
    OBVIOUS
  <2>3. o \in Request /\ InOrder(o)
    BY <1>1, <2>2
  <2>4. request'[s] = o \/ request'[s] = [o EXCEPT !.overtaken = TRUE]
    BY <2>1, <2>2
  <2>5. QED
    BY <2>2, <2>3, <2>4, Overtaken
<1>5. /\ appointments[a] # None
      /\ OwnOrLent(a, appointments[a].businessId, appointments[a].customerId)
  <2>1. appointments[a] \in AppointmentRow /\ appointments[a].customerId \in Maybe(Customers)
    BY DEF IsAppointment, AppointmentRow
  <2>2. appointments[a].customerId # None =>
          /\ IsCustomer(appointments[a].customerId)
          /\ \/ customers[appointments[a].customerId].businessId = appointments[a].businessId
             \/ <<a, appointments[a].customerId>> \in lent
    BY DEF OwnInv, AppointmentCustomersAreOwn
  <2>3. QED
    BY <2>1, <2>2, SentinelAssumption DEF OwnOrLent, OwnCustomer, IsCustomer, Maybe
<1>6. HoldsOwn(p)
  BY <1>3, <1>5 DEF HoldsOwn, Copying
<1>7. ASSUME NEW s \in Requests PROVE HoldsOwn(request[s])'
  <2>1. HoldsOwn(request'[s])
    BY <1>1, <1>2, <1>4, <1>6 DEF HoldsOwn
  <2>2. QED
    BY <2>1 DEF HoldsOwn, OwnOrLent, OwnCustomer, IsCustomer, IsAppointment
<1>8. \A s \in Requests : s # r /\ request[s].pc \in Copying /\ request[s].appointment = a =>
        request[s].copy.businessId = appointments[a].businessId
  BY <1>1 DEF HoldsOwn
<1>9. OneBusiness'
  <2> SUFFICES ASSUME NEW s \in Requests, NEW t \in Requests,
                      request'[s].pc \in Copying, request'[t].pc \in Copying,
                      request'[s].appointment = request'[t].appointment
               PROVE  request'[s].copy.businessId = request'[t].copy.businessId
    BY DEF OneBusiness
  <2>1. CASE s # r /\ t # r
    BY <1>4, <2>1 DEF OwnInv, OneBusiness
  <2>2. CASE s = r
    BY <1>2, <1>3, <1>4, <1>8, <2>2 DEF Copying
  <2>3. CASE t = r
    BY <1>2, <1>3, <1>4, <1>8, <2>3 DEF Copying
  <2>4. QED
    BY <2>1, <2>2, <2>3
<1>10. AppointmentCustomersAreOwn'
  BY DEF OwnInv, AppointmentCustomersAreOwn, IsAppointment, IsCustomer
<1>11. QED
  BY <1>7, <1>9, <1>10 DEF OwnInv

LEMMA OwnStop ==
  ASSUME OwnInv, Typed', UNCHANGED <<customers, appointments, lent>>, NEW R, Stop(R)
  PROVE  OwnInv'
<1>1. \A s \in Requests : request[s] \in Request /\ InOrder(request[s]) /\ HoldsOwn(request[s])
  BY DEF OwnInv, Typed, TypeOK, RequestsInOrder
<1>2. \A s \in Requests : request'[s] = Idle \/ request'[s] = request[s]
  BY DEF Stop
<1>3. \A s \in Requests : GoesOn(request[s], request'[s])
  BY <1>1, <1>2, GoesOnAsIs, IdleGoesOn
<1>4. AppointmentCustomersAreOwn'
  BY DEF OwnInv, AppointmentCustomersAreOwn, IsAppointment, IsCustomer
<1>5. QED
  BY <1>3, <1>4, TablesStay, OwnStep

LEMMA OwnNext == OwnInv /\ [Next]_vars => OwnInv'
<1> SUFFICES ASSUME OwnInv, [Next]_vars PROVE OwnInv'
  OBVIOUS
<1>1. Typed /\ Typed'
  BY TypedNext DEF OwnInv
<1>2. ASSUME UNCHANGED <<customers, appointments, lent>>, NEW r \in Requests,
             \E q \in Request : Become(r, q) /\ q.pc \notin Copying \union {"booking"}
      PROVE  OwnInv'
  BY <1>1, <1>2, GoesOnElsewhere, OwnBecome
<1>3. ASSUME NEW r \in Requests, Start(r) PROVE OwnInv'
  <2>1. CASE CreateOne(r)
    <3>1. UNCHANGED <<customers, appointments, lent>>
      BY <2>1 DEF CreateOne
    <3>2. QED
      BY <1>1, <1>2, <2>1, <3>1, CreateOneStep DEF Copying
  <2>2. CASE UpdateOne(r)
    <3>1. UNCHANGED <<customers, appointments, lent>>
      BY <2>2 DEF UpdateOne
    <3>2. QED
      BY <1>1, <1>2, <2>2, <3>1, UpdateOneStep DEF Copying
  <2>3. CASE DeleteCustomer(r)
    <3>1. UNCHANGED <<customers, appointments, lent>>
      BY <2>3 DEF DeleteCustomer
    <3>2. QED
      BY <1>1, <1>2, <2>3, <3>1, DeleteCustomerStep DEF Copying
  <2>4. CASE ImportCustomers(r)
    <3>1. UNCHANGED <<customers, appointments, lent>>
      BY <2>4 DEF ImportCustomers
    <3>2. QED
      BY <1>1, <1>2, <2>4, <3>1, ImportCustomersStep DEF Copying
  <2>5. CASE Create(r)
    <3>1. UNCHANGED <<customers, appointments, lent>>
      BY <2>5 DEF Create
    <3>2. PICK q \in Request :
            /\ Become(r, q) /\ q.pc = "booking"
            /\ q.copy.customerId # None =>
                 /\ q.copy.customerId \in Customers
                 /\ FindCustomer(q.copy.businessId, q.copy.customerId)
      BY <1>1, <2>5, CreateStep
    <3>3. OwnCustomer(q.copy.businessId, q.copy.customerId)
      BY <3>2, SentinelAssumption DEF OwnCustomer, FindCustomer, IsCustomer
    <3>4. GoesOn(request[r], q)
      BY <3>2, <3>3 DEF GoesOn, Copying
    <3>5. QED
      BY <1>1, <3>1, <3>2, <3>4, OwnBecome
  <2>6. CASE UpdateGoogleEventId(r)
    <3>1. UNCHANGED <<customers, appointments, lent>>
      BY <2>6 DEF UpdateGoogleEventId
    <3>2. QED
      BY <1>1, <2>6, <3>1, UpdateGoogleEventIdStep, OwnBegin
  <2>7. CASE Update(r)
    <3>1. UNCHANGED <<customers, appointments, lent>>
      BY <2>7 DEF Update
    <3>2. QED
      BY <1>1, <2>7, <3>1, UpdateStep, OwnBegin
  <2>8. CASE Delete(r)
    <3>1. UNCHANGED <<customers, appointments, lent>>
      BY <2>8 DEF Delete
    <3>2. QED
      BY <1>1, <2>8, <3>1, DeleteStep, OwnBegin
  <2>9. QED
    BY <1>3, <2>1, <2>2, <2>3, <2>4, <2>5, <2>6, <2>7, <2>8 DEF Start
<1>4. ASSUME NEW r \in Requests, Continue(r) PROVE OwnInv'
  <2>1. ASSUME NEW c \in Customers, StoreCustomer(r, c) \/ ImportOne(r, c) PROVE OwnInv'
    BY <1>1, <2>1, OwnStoreCustomer, OwnImportOne
  <2>2. CASE FailOne(r)
    <3>1. /\ UNCHANGED <<customers, appointments, lent>> /\ Become(r, Settled(request[r]))
          /\ request[r] \in Request /\ InOrder(request[r]) /\ request[r].pc = "importing"
      BY <1>1, <2>2 DEF FailOne, Typed, TypeOK, RequestsInOrder
    <3>2. /\ Settled(request[r]) \in Request
          /\ Settled(request[r]).pc \notin Copying \union {"booking"}
      BY <3>1, SettledStep DEF Copying
    <3>3. QED
      BY <1>2, <3>1, <3>2
  <2>3. ASSUME NEW a \in Appointments, StoreAppointment(r, a) PROVE OwnInv'
    BY <1>1, <2>3, OwnStoreAppointment
  <2>4. CASE CompareAppointment(r)
    <3>1. UNCHANGED <<customers, appointments, lent>>
      BY <2>4 DEF CompareAppointment
    <3>2. PICK q \in Request :
            /\ Become(r, q) /\ request[r].pc = "read" /\ q.pc = "compared"
            /\ q.copy = request[r].copy /\ q.appointment = request[r].appointment
      BY <1>1, <2>4, CompareAppointmentStep
    <3>3. GoesOn(request[r], q)
      BY <3>2 DEF GoesOn, Copying
    <3>4. QED
      BY <1>1, <3>1, <3>2, <3>3, OwnBecome
  <2>5. CASE LookUpCustomer(r)
    <3>1. UNCHANGED <<customers, appointments, lent>>
      BY <2>5 DEF LookUpCustomer
    <3>2. PICK q \in Request :
            /\ Become(r, q) /\ request[r].pc = "lookup" /\ q.pc = "link"
            /\ q.customer \in Customers /\ FindCustomer(q.business, q.customer)
            /\ q.business = request[r].business /\ q.copy = request[r].copy
            /\ q.appointment = request[r].appointment
      BY <1>1, <2>5, LookUpCustomerStep
    <3>3. OwnCustomer(q.business, q.customer)
      BY <3>2, SentinelAssumption DEF OwnCustomer, FindCustomer, IsCustomer
    <3>4. GoesOn(request[r], q)
      BY <3>2, <3>3 DEF GoesOn, Copying
    <3>5. QED
      BY <1>1, <3>1, <3>2, <3>4, OwnBecome
  <2>6. CASE Refuse(r)
    BY <1>1, <2>6, OwnStop DEF Refuse
  <2>7. QED
    BY <1>1, <1>4, <2>1, <2>2, <2>3, <2>4, <2>5, <2>6, OwnWriteCustomer, OwnRemoveCustomer,
       OwnWriteAppointment, OwnWriteDetails, OwnLinkCustomer, OwnRemoveAppointment DEF Continue
<1>5. CASE Crash
  BY <1>1, <1>5, OwnStop DEF Crash
<1>6. CASE UNCHANGED vars
  BY <1>1, <1>6 DEF vars, OwnInv, AppointmentCustomersAreOwn, OneBusiness, HoldsOwn,
     OwnOrLent, OwnCustomer, IsCustomer, IsAppointment
<1>7. QED
  BY <1>3, <1>4, <1>5, <1>6 DEF Next

\* The customer of an appointment exists and is one of the appointment's own
\* business, or one that an update naming another business linked to it,
\* whatever deletions, stale saves and updates overlap (appointment.service.ts
\* and the foreign key of appointments).
THEOREM AppointmentCustomersAlwaysOwn == Spec => []AppointmentCustomersAreOwn
<1>1. Init => OwnInv
  <2> SUFFICES ASSUME Init PROVE OwnInv
    OBVIOUS
  <2>1. Typed
    BY TypedInit
  <2>2. \A r \in Requests : request[r].pc = "idle"
    BY IdleRequest DEF Init
  <2>3. \A a \in Appointments : ~IsAppointment(a)
    BY SentinelAssumption DEF Init, IsAppointment
  <2>4. QED
    BY <2>1, <2>2, <2>3
       DEF OwnInv, AppointmentCustomersAreOwn, OneBusiness, HoldsOwn, Copying
<1>2. OwnInv => AppointmentCustomersAreOwn
  BY DEF OwnInv
<1>3. QED
  BY <1>1, <1>2, OwnNext, PTL DEF Spec

----------------------------------------------------------------------------
(***************************************************************************)
(* What appointments hold.                                                 *)
(*                                                                         *)
(* A request that nobody overtakes works on its appointment alone: the     *)
(* appointment holds what was expected, apart from the details that the    *)
(* request has written and not answered yet.                               *)
(***************************************************************************)

HalfWay == {"lookup", "link"}

SaysDetails(a) == expected[a].details \in {Unknown, appointments[a].details}

SaysRest(a) ==
  /\ expected[a].customerId \in {Unknown, appointments[a].customerId}
  /\ expected[a].googleEventId \in {Unknown, appointments[a].googleEventId}

\* What a request that nobody has overtaken knows of its appointment.
Alone(q) ==
  /\ IsAppointment(q.appointment)
  /\ q.pc \in {"read", "compared"} =>
       /\ q.copy.details = appointments[q.appointment].details
       /\ q.copy.customerId = appointments[q.appointment].customerId
  /\ q.pc = "compared" =>
       /\ q.columns \subseteq {"googleEventId"}
       /\ "googleEventId" \notin q.columns =>
            q.copy.googleEventId = appointments[q.appointment].googleEventId
  /\ q.pc \in HalfWay => q.copy.details = appointments[q.appointment].details

Exclusive ==
  \A r, s \in Requests :
    /\ r # s
    /\ request[r].pc \in AtWork
    /\ request[s].pc \in AtWork
    /\ request[r].appointment = request[s].appointment
    => request[r].overtaken

WorkKnown ==
  \A r \in Requests : request[r].pc \in AtWork =>
    /\ appointments[request[r].appointment] # None
    /\ request[r].overtaken => expected[request[r].appointment] = NothingExpected
    /\ ~request[r].overtaken => Alone(request[r])

\* The requests that have written details of a and not answered.
HalfDone(a) == {r \in Requests : request[r].pc \in HalfWay /\ request[r].appointment = a}

RowsKnown ==
  \A a \in Appointments : IsAppointment(a) =>
    /\ SaysRest(a)
    /\ HalfDone(a) = {} => SaysDetails(a)

HoldsInv == Typed /\ Exclusive /\ WorkKnown /\ RowsKnown

\* Steps of requests that work on no appointment, before and after.
WorkSame(q, p) == q.pc \in AtWork \/ p.pc \in AtWork => p = q

LEMMA HoldsQuiet ==
  ASSUME HoldsInv, Typed', UNCHANGED <<appointments, expected>>,
         \A s \in Requests : WorkSame(request[s], request'[s])
  PROVE  HoldsInv'
<1>1. Exclusive'
  BY DEF HoldsInv, Exclusive, WorkSame
<1>2. WorkKnown'
  BY DEF HoldsInv, WorkKnown, WorkSame, Alone, IsAppointment
<1>3. \A a \in Appointments : HalfDone(a)' = HalfDone(a)
  BY DEF HalfDone, HalfWay, WorkSame, AtWork
<1>4. RowsKnown'
  BY <1>3 DEF HoldsInv, RowsKnown, SaysRest, SaysDetails, IsAppointment
<1>5. QED
  BY <1>1, <1>2, <1>4 DEF HoldsInv

LEMMA HoldsBecome ==
  ASSUME HoldsInv, Typed', UNCHANGED <<appointments, expected>>,
         NEW r \in Requests, NEW q, Become(r, q), request[r].pc \notin AtWork, q.pc \notin AtWork
  PROVE  HoldsInv'
<1>1. \A s \in Requests : request'[s] = IF s = r THEN q ELSE request[s]
  BY DEF Become, HoldsInv, Typed, TypeOK
<1>2. \A s \in Requests : WorkSame(request[s], request'[s])
  BY <1>1 DEF WorkSame
<1>3. QED
  BY <1>2, HoldsQuiet

LEMMA OvertakeWork ==
  ASSUME Typed, NEW r \in Requests, NEW b, NEW e, NEW q, Overtake(r, b, e, q),
         request[r].pc \notin AtWork, q.pc \notin AtWork
  PROVE  \A s \in Requests : WorkSame(request[s], request'[s])
<1> SUFFICES ASSUME NEW s \in Requests PROVE WorkSame(request[s], request'[s])
  OBVIOUS
<1>1. PICK o : o = request[s]
  OBVIOUS
<1>2. o \in Request /\ InOrder(o)
  BY <1>1 DEF Typed, TypeOK, RequestsInOrder
<1>3. CASE s = r
  BY <1>3 DEF Overtake, WorkSame
<1>4. CASE s # r /\ o.pc \in {"creating", "updating"} /\ request'[s] = [o EXCEPT !.overtaken = TRUE]
  <2>1. request'[s].pc = o.pc
    BY <1>2, <1>4, Overtaken
  <2>2. QED
    BY <1>1, <1>4, <2>1 DEF WorkSame, AtWork
<1>5. CASE request'[s] = o
  BY <1>1, <1>5 DEF WorkSame
<1>6. s = r \/ (o.pc \in {"creating", "updating"} /\ request'[s] = [o EXCEPT !.overtaken = TRUE])
        \/ request'[s] = o
  BY <1>1 DEF Overtake
<1>7. QED
  BY <1>3, <1>4, <1>5, <1>6

\* Request r goes on with its work on a, or ends it.
LEMMA HoldsWork ==
  ASSUME HoldsInv, Typed', NEW r \in Requests, NEW a \in Appointments, NEW o, NEW q,
         o = request[r], o.pc \in AtWork, o.appointment = a, Become(r, q),
         q.pc \in AtWork => q.appointment = a /\ q.overtaken = o.overtaken,
         \A x \in Appointments : x # a =>
           appointments'[x] = appointments[x] /\ expected'[x] = expected[x],
         appointments'[a] # None,
         o.overtaken => expected'[a] = expected[a],
         ~o.overtaken =>
           /\ IsAppointment(a)' => SaysRest(a)'
           /\ IsAppointment(a)' /\ q.pc \notin HalfWay => SaysDetails(a)'
           /\ q.pc \in AtWork => Alone(q)'
  PROVE  HoldsInv'
<1> USE DEF HoldsInv
<1>1. /\ \A s \in Requests : request'[s] = IF s = r THEN q ELSE request[s]
      /\ \A s \in Requests : InOrder(request[s]) /\ request[s] \in Request
  BY DEF Become, Typed, TypeOK, RequestsInOrder
<1>2. Exclusive'
  BY <1>1 DEF Exclusive
<1>3. o.overtaken \in BOOLEAN
  BY <1>1 DEF Request
<1>4. ASSUME ~o.overtaken, NEW s \in Requests, s # r, request[s].pc \in AtWork
      PROVE  request[s].appointment # a
  BY <1>4 DEF Exclusive
<1>5. o.overtaken => expected'[a] = NothingExpected
  BY DEF WorkKnown
<1>6. ASSUME NEW s \in Requests, request'[s].pc \in AtWork
      PROVE  /\ appointments'[request'[s].appointment] # None
             /\ request'[s].overtaken => expected'[request'[s].appointment] = NothingExpected
             /\ ~request'[s].overtaken => Alone(request[s])'
  <2>1. CASE s = r
    BY <1>1, <1>3, <1>5, <1>6, <2>1
  <2>2. CASE s # r
    <3>1. request'[s] = request[s] /\ request[s].pc \in AtWork
      BY <1>1, <1>6, <2>2
    <3>2. request[s].appointment \in Appointments
      BY <1>1, <3>1 DEF InOrder
    <3>3. CASE request[s].appointment # a
      BY <3>1, <3>2, <3>3 DEF WorkKnown, Alone, IsAppointment
    <3>4. CASE request[s].appointment = a
      <4>1. request[s].overtaken /\ o.overtaken
        BY <2>2, <3>1, <3>4 DEF Exclusive
      <4>2. QED
        BY <1>5, <3>1, <3>4, <4>1
    <3>5. QED
      BY <3>3, <3>4
  <2>3. QED
    BY <2>1, <2>2
<1>7. WorkKnown'
  BY <1>6 DEF WorkKnown
<1>8. RowsKnown'
  <2> SUFFICES ASSUME NEW x \in Appointments, IsAppointment(x)'
               PROVE  SaysRest(x)' /\ (HalfDone(x)' = {} => SaysDetails(x)')
    BY DEF RowsKnown
  <2>1. CASE x # a
    <3>1. HalfDone(x)' = HalfDone(x)
      BY <1>1, <2>1 DEF HalfDone, HalfWay, AtWork
    <3>2. QED
      BY <2>1, <3>1 DEF RowsKnown, SaysRest, SaysDetails, IsAppointment
  <2>2. CASE x = a /\ o.overtaken
    BY <1>5, <2>2 DEF NothingExpected, SaysDetails, SaysRest
  <2>3. CASE x = a /\ ~o.overtaken
    <3>1. SaysRest(x)'
      BY <2>3
    <3>2. ASSUME HalfDone(x)' = {} PROVE SaysDetails(x)'
      <4>1. q.pc \notin HalfWay
        BY <1>1, <2>3, <3>2 DEF HalfDone, HalfWay, AtWork
      <4>2. QED
        BY <2>3, <4>1
    <3>3. QED
      BY <3>1, <3>2
  <2>4. QED
    BY <1>3, <2>1, <2>2, <2>3
<1>9. QED
  BY <1>2, <1>7, <1>8

LEMMA HoldsStoreAppointment ==
  ASSUME HoldsInv, Typed', NEW r \in Requests, NEW a \in Appointments, StoreAppointment(r, a)
  PROVE  HoldsInv'
<1> USE DEF HoldsInv
<1>1. PICK row : row = request[r].copy
  OBVIOUS
<1>2. /\ \A x \in Appointments : x # a =>
           appointments'[x] = appointments[x] /\ expected'[x] = expected[x]
      /\ appointments[a] = None /\ appointments'[a] = row
      /\ expected'[a] =
           [details |-> row.details, customerId |-> row.customerId, googleEventId |-> None]
      /\ row \in AppointmentRow /\ row.googleEventId = None
      /\ \A s \in Requests : request'[s] = IF s = r THEN Idle ELSE request[s]
      /\ \A s \in Requests : InOrder(request[s])
      /\ request[r].pc = "booking"
  BY <1>1 DEF StoreAppointment, Become, Typed, TypeOK, RequestsInOrder, InOrder
<1>3. \A s \in Requests : request[s].pc \in AtWork =>
        request[s].appointment # a /\ request[s].appointment \in Appointments
  BY <1>2 DEF WorkKnown, InOrder
<1>4. \A s \in Requests : request'[s].pc \in AtWork => request'[s] = request[s]
  BY <1>2, IdleRequest DEF AtWork
<1>5. Exclusive'
  BY <1>4 DEF Exclusive
<1>6. WorkKnown'
  BY <1>2, <1>3, <1>4 DEF WorkKnown, Alone, IsAppointment
<1>7. \A x \in Appointments : HalfDone(x)' = HalfDone(x)
  BY <1>2, IdleRequest DEF HalfDone, HalfWay
<1>8. SaysRest(a)' /\ SaysDetails(a)'
  BY <1>2 DEF SaysRest, SaysDetails
<1>9. RowsKnown'
  BY <1>2, <1>7, <1>8 DEF RowsKnown, SaysRest, SaysDetails, IsAppointment
<1>10. QED
  BY <1>5, <1>6, <1>9

LEMMA HoldsBegin ==
  ASSUME HoldsInv, Typed', UNCHANGED appointments,
         NEW r \in Requests, NEW a \in Appointments, NEW q \in Request, IsAppointment(a),
         request[r].pc = "idle", Begin(r, a, q), q.pc \in {"read", "details", "deleting"},
         q.pc = "read" =>
           /\ q.copy.details = appointments[a].details
           /\ q.copy.customerId = appointments[a].customerId
  PROVE  HoldsInv'
<1> USE DEF HoldsInv
<1>1. \A s \in Requests : request[s] \in Request /\ InOrder(request[s])
  BY DEF Typed, TypeOK, RequestsInOrder
<1> DEFINE others == {s \in Requests \ {r} : request[s].appointment = a}
           o == others # {}
<1>2. /\ request' = [s \in Requests |->
            IF s = r THEN [q EXCEPT !.appointment = a, !.overtaken = o]
            ELSE IF s \in others THEN [request[s] EXCEPT !.overtaken = TRUE] ELSE request[s]]
      /\ expected' = IF others = {} THEN expected
                     ELSE [expected EXCEPT ![a] = NothingExpected]
  BY DEF Begin
<1>3. /\ \A s \in Requests : s # r => (s \in others <=> request[s].appointment = a)
      /\ o \in BOOLEAN /\ (o <=> others # {})
      /\ \A s \in Requests : s # r /\ s \in others => o
  OBVIOUS
<1> HIDE DEF others, o
<1>4. PICK p : p = request'[r]
  OBVIOUS
<1>5. /\ p.pc = q.pc /\ p.copy = q.copy /\ p.appointment = a /\ p.overtaken = o
  <2>1. p = [q EXCEPT !.appointment = a, !.overtaken = o]
    BY <1>2, <1>4
  <2>2. QED
    BY <1>3, <2>1 DEF Request
<1>6. ASSUME NEW s \in Requests, s # r
      PROVE  /\ s \notin others => request'[s] = request[s]
             /\ s \in others => request'[s].overtaken
             /\ request'[s].pc = request[s].pc
             /\ request'[s].appointment = request[s].appointment
  <2>1. PICK old : old = request[s]
    OBVIOUS
  <2>2. old \in Request /\ InOrder(old)
    BY <1>1, <2>1
  <2>3. request'[s] = IF s \in others THEN [old EXCEPT !.overtaken = TRUE] ELSE old
    BY <1>2, <1>6, <2>1
  <2>4. QED
    BY <2>1, <2>2, <2>3, Overtaken
<1>7. /\ \A x \in Appointments : x # a => expected'[x] = expected[x]
      /\ o => expected'[a] = NothingExpected
      /\ ~o => expected'[a] = expected[a]
  BY <1>2, <1>3 DEF Typed, TypeOK
<1>8. Exclusive'
  <2> SUFFICES ASSUME NEW s \in Requests, NEW t \in Requests, s # t,
                      request'[s].pc \in AtWork, request'[t].pc \in AtWork,
                      request'[s].appointment = request'[t].appointment
               PROVE  request'[s].overtaken
    BY DEF Exclusive
  <2>1. CASE s = r
    BY <1>4, <1>5, <1>3, <1>6, <2>1
  <2>2. CASE t = r
    BY <1>4, <1>5, <1>3, <1>6, <2>2
  <2>3. CASE s # r /\ t # r
    BY <1>6, <2>3 DEF Exclusive
  <2>4. QED
    BY <2>1, <2>2, <2>3
<1>9. ASSUME NEW s \in Requests, request'[s].pc \in AtWork
       PROVE  /\ appointments'[request'[s].appointment] # None
              /\ request'[s].overtaken => expected'[request'[s].appointment] = NothingExpected
              /\ ~request'[s].overtaken => Alone(request[s])'
  <2>1. CASE s = r
    <3>1. appointments[a] # None
      BY SentinelAssumption DEF IsAppointment
    <3>2. Alone(p)
      BY <1>5 DEF Alone, HalfWay
    <3>3. Alone(p)'
      BY <3>2 DEF Alone, IsAppointment
    <3>4. QED
      BY <1>4, <1>5, <1>7, <2>1, <3>1, <3>3
  <2>2. CASE s # r
    <3>1. request[s].pc \in AtWork /\ request'[s].appointment = request[s].appointment
      BY <1>6, <1>9, <2>2
    <3>2. request[s].appointment \in Appointments
      BY <1>1, <3>1 DEF InOrder
    <3>3. CASE s \in others
      BY <1>3, <1>6, <1>7, <2>2, <3>1, <3>3 DEF WorkKnown
    <3>4. CASE s \notin others
      <4>1. request'[s] = request[s] /\ request[s].appointment # a
        BY <1>3, <1>6, <2>2, <3>4
      <4>2. QED
        BY <1>7, <3>1, <3>2, <4>1 DEF WorkKnown, Alone, IsAppointment
    <3>5. QED
      BY <3>3, <3>4
  <2>3. QED
    BY <2>1, <2>2
<1>10. WorkKnown'
  BY <1>9 DEF WorkKnown
<1>11. \A x \in Appointments : HalfDone(x)' = HalfDone(x)
  <2>1. request'[r].pc \notin HalfWay /\ request[r].pc \notin HalfWay
    BY <1>4, <1>5 DEF HalfWay
  <2>2. QED
    BY <1>6, <2>1 DEF HalfDone
<1>12. RowsKnown'
  <2> SUFFICES ASSUME NEW x \in Appointments, IsAppointment(x)'
               PROVE  SaysRest(x)' /\ (HalfDone(x)' = {} => SaysDetails(x)')
    BY DEF RowsKnown
  <2>1. CASE x = a /\ o
    BY <1>7, <2>1 DEF NothingExpected, SaysDetails, SaysRest
  <2>2. CASE expected'[x] = expected[x]
    BY <1>11, <2>2 DEF RowsKnown, SaysRest, SaysDetails, IsAppointment
  <2>3. QED
    BY <1>7, <2>1, <2>2
<1>13. QED
  BY <1>8, <1>10, <1>12

LEMMA HoldsStop ==
  ASSUME HoldsInv, Typed', UNCHANGED appointments, NEW R \in SUBSET Requests, Stop(R)
  PROVE  HoldsInv'
<1> USE DEF HoldsInv
<1>1. /\ \A s \in Requests : request'[s] = IF s \in R THEN Idle ELSE request[s]
      /\ \A a \in Appointments : expected'[a] =
           IF \E s \in R : request[s].appointment = a /\ request[s].pc \in HalfWay
           THEN [expected[a] EXCEPT !.details = Unknown] ELSE expected[a]
      /\ \A s \in Requests : InOrder(request[s])
  BY DEF Stop, HalfWay, Typed, RequestsInOrder
<1>2. Idle.pc \notin AtWork
  BY IdleRequest DEF AtWork
<1>3. \A s \in Requests : request'[s].pc \in AtWork => request'[s] = request[s]
  BY <1>1, <1>2
<1>4. Exclusive'
  BY <1>3 DEF Exclusive
<1>5. \A x \in Expectation :
        /\ [x EXCEPT !.details = Unknown].details = Unknown
        /\ [x EXCEPT !.details = Unknown].customerId = x.customerId
        /\ [x EXCEPT !.details = Unknown].googleEventId = x.googleEventId
  BY DEF Expectation
<1>6. [NothingExpected EXCEPT !.details = Unknown] = NothingExpected
  BY DEF NothingExpected
<1>7. WorkKnown'
  <2> SUFFICES ASSUME NEW s \in Requests, request'[s].pc \in AtWork
               PROVE  /\ appointments'[request'[s].appointment] # None
                      /\ request'[s].overtaken =>
                           expected'[request'[s].appointment] = NothingExpected
                      /\ ~request'[s].overtaken => Alone(request[s])'
    BY DEF WorkKnown
  <2>1. request'[s] = request[s] /\ request[s].appointment \in Appointments
    BY <1>1, <1>3 DEF InOrder
  <2>2. QED
    BY <1>1, <1>6, <2>1 DEF WorkKnown, Alone, IsAppointment
<1>8. RowsKnown'
  <2> SUFFICES ASSUME NEW a \in Appointments, IsAppointment(a)'
               PROVE  SaysRest(a)' /\ (HalfDone(a)' = {} => SaysDetails(a)')
    BY DEF RowsKnown
  <2>1. IsAppointment(a) /\ SaysRest(a) /\ (HalfDone(a) = {} => SaysDetails(a))
    BY DEF RowsKnown, IsAppointment
  <2>2. expected[a] \in Expectation
    BY DEF Typed, TypeOK
  <2>3. CASE expected'[a] = [expected[a] EXCEPT !.details = Unknown]
    BY <1>5, <2>1, <2>2, <2>3 DEF SaysRest, SaysDetails
  <2>4. CASE /\ expected'[a] = expected[a]
             /\ ~\E s \in R : request[s].appointment = a /\ request[s].pc \in HalfWay
    <3>1. HalfDone(a) \subseteq HalfDone(a)'
      BY <1>1, <2>4 DEF HalfDone
    <3>2. QED
      BY <2>1, <2>4, <3>1 DEF SaysRest, SaysDetails
  <2>5. QED
    BY <1>1, <2>3, <2>4
<1>9. QED
  BY <1>4, <1>7, <1>8

\* What a request at work can rely on.
LEMMA AtWorkFacts ==
  ASSUME HoldsInv, NEW r \in Requests, NEW o, o = request[r], o.pc \in AtWork
  PROVE  /\ Typed /\ o \in Request /\ InOrder(o) /\ o.appointment \in Appointments
         /\ appointments[o.appointment] # None
         /\ expected[o.appointment] \in Expectation
         /\ ~o.overtaken => Alone(o)
         /\ IsAppointment(o.appointment) => SaysRest(o.appointment)
         /\ ~o.overtaken /\ o.pc \notin HalfWay => SaysDetails(o.appointment)
<1> USE DEF HoldsInv
<1>1. o \in Request /\ InOrder(o) /\ o.appointment \in Appointments
  BY DEF Typed, TypeOK, RequestsInOrder, InOrder
<1>2. /\ appointments[o.appointment] # None /\ (~o.overtaken => Alone(o))
      /\ IsAppointment(o.appointment) => SaysRest(o.appointment)
      /\ expected[o.appointment] \in Expectation
  BY <1>1 DEF WorkKnown, RowsKnown, Typed, TypeOK
<1>3. ASSUME ~o.overtaken, o.pc \notin HalfWay PROVE SaysDetails(o.appointment)
  <2>1. HalfDone(o.appointment) = {}
    BY <1>3 DEF HalfDone, Exclusive, HalfWay, AtWork
  <2>2. QED
    BY <1>1, <1>2, <1>3, <2>1 DEF Alone, RowsKnown
<1>4. QED
  BY <1>1, <1>2, <1>3

LEMMA HoldsCompareAppointment ==
  ASSUME HoldsInv, Typed', NEW r \in Requests, CompareAppointment(r)
  PROVE  HoldsInv'
<1>1. PICK q \in Request :
        /\ Become(r, q) /\ request[r].pc = "read" /\ q.pc = "compared"
        /\ q.copy = request[r].copy /\ q.appointment = request[r].appointment
        /\ q.overtaken = request[r].overtaken
        /\ q.columns = IF IsAppointment(request[r].appointment)
                       THEN {c \in Columns :
                               request[r].copy[c] # appointments[request[r].appointment][c]}
                       ELSE {"insert"}
  BY CompareAppointmentStep DEF HoldsInv
<1>2. PICK o, a : o = request[r] /\ a = o.appointment
  OBVIOUS
<1>3. o.pc \in AtWork /\ UNCHANGED <<appointments, expected>>
  BY <1>1, <1>2 DEF CompareAppointment, AtWork
<1>4. /\ a \in Appointments /\ appointments[a] # None
      /\ ~o.overtaken => Alone(o) /\ SaysDetails(a)
      /\ IsAppointment(a) => SaysRest(a)
  BY <1>1, <1>2, <1>3, AtWorkFacts DEF HalfWay
<1>5. ASSUME ~o.overtaken PROVE Alone(q)
  <2>1. /\ IsAppointment(a)
        /\ o.copy.details = appointments[a].details
        /\ o.copy.customerId = appointments[a].customerId
    BY <1>1, <1>2, <1>4, <1>5 DEF Alone
  <2>2. q.columns = {c \in Columns : o.copy[c] # appointments[a][c]}
    BY <1>1, <1>2, <2>1
  <2>3. /\ o.copy["details"] = appointments[a]["details"]
        /\ o.copy["customerId"] = appointments[a]["customerId"]
    BY <2>1
  <2>4. q.columns \subseteq {"googleEventId"}
    BY <2>2, <2>3 DEF Columns
  <2>5. "googleEventId" \notin q.columns =>
          o.copy["googleEventId"] = appointments[a]["googleEventId"]
    BY <2>2 DEF Columns
  <2>6. "googleEventId" \notin q.columns => o.copy.googleEventId = appointments[a].googleEventId
    BY <2>5
  <2>7. QED
    BY <1>1, <1>2, <2>1, <2>4, <2>6 DEF Alone, HalfWay
<1>6. /\ ~o.overtaken => Alone(q)'
      /\ IsAppointment(a)' => SaysRest(a)'
      /\ ~o.overtaken => SaysDetails(a)'
  BY <1>3, <1>4, <1>5 DEF Alone, IsAppointment, SaysRest, SaysDetails
<1>7. QED
  BY <1>1, <1>2, <1>3, <1>4, <1>6, HoldsWork

LEMMA HoldsWriteAppointment ==
  ASSUME HoldsInv, Typed', NEW r \in Requests, WriteAppointment(r)
  PROVE  HoldsInv'
<1>1. PICK o, a, new : o = request[r] /\ a = o.appointment /\ new = SavedAppointment(o)
  OBVIOUS
<1>2. /\ o.pc = "compared" /\ o.pc \in AtWork /\ Become(r, Idle)
      /\ Answer(o, [expected[a] EXCEPT !.googleEventId = o.copy.googleEventId])
  BY <1>1 DEF WriteAppointment, AtWork
<1>3. /\ Typed /\ o \in Request /\ InOrder(o) /\ a \in Appointments /\ appointments[a] # None
      /\ expected[a] \in Expectation
      /\ ~o.overtaken => Alone(o) /\ SaysDetails(a)
      /\ IsAppointment(a) => SaysRest(a)
  BY <1>1, <1>2, AtWorkFacts DEF HalfWay
<1>4. /\ \A x \in Appointments : appointments'[x] = IF x = a THEN new ELSE appointments[x]
      /\ \A x \in Appointments : x # a => expected'[x] = expected[x]
      /\ o.overtaken => expected'[a] = expected[a]
      /\ ~o.overtaken =>
           expected'[a] = [expected[a] EXCEPT !.googleEventId = o.copy.googleEventId]
  BY <1>1, <1>2, <1>3 DEF WriteAppointment, Answer, Typed, TypeOK
<1>5. new # None
  <2>1. o.copy \in AppointmentRow
    BY <1>2, <1>3 DEF InOrder
  <2>2. QED
    BY <1>1, <1>2, <1>3, <2>1, SavedRow, SentinelAssumption
<1>6. ASSUME ~o.overtaken
      PROVE  SaysRest(a)' /\ SaysDetails(a)'
  <2>1. /\ IsAppointment(a) /\ "insert" \notin o.columns
        /\ "details" \notin o.columns /\ "customerId" \notin o.columns
        /\ "googleEventId" \notin o.columns =>
             o.copy.googleEventId = appointments[a].googleEventId
    BY <1>1, <1>2, <1>3, <1>6 DEF Alone
  <2>2. \A c \in Columns :
          new[c] = IF c \in o.columns THEN o.copy[c] ELSE appointments[a][c]
    BY <1>1, <1>2, <1>3, <2>1, SavedRow
  <2>3. /\ new["details"] = appointments[a]["details"]
        /\ new["customerId"] = appointments[a]["customerId"]
        /\ new["googleEventId"] = IF "googleEventId" \in o.columns THEN o.copy["googleEventId"]
                                  ELSE appointments[a]["googleEventId"]
    BY <2>1, <2>2 DEF Columns
  <2>4. /\ new.details = appointments[a].details
        /\ new.customerId = appointments[a].customerId
        /\ new.googleEventId = o.copy.googleEventId
    BY <2>1, <2>3
  <2>5. /\ expected'[a].details = expected[a].details
        /\ expected'[a].customerId = expected[a].customerId
        /\ expected'[a].googleEventId = o.copy.googleEventId
    BY <1>3, <1>4, <1>6 DEF Expectation
  <2>6. appointments'[a] = new /\ SaysRest(a) /\ SaysDetails(a)
    BY <1>3, <1>4, <1>6, <2>1
  <2>7. QED
    BY <2>4, <2>5, <2>6 DEF SaysRest, SaysDetails
<1>7. Idle.pc \notin AtWork /\ Idle.pc \notin HalfWay
  BY IdleRequest DEF AtWork, HalfWay
<1>8. QED
  BY <1>1, <1>2, <1>3, <1>4, <1>5, <1>6, <1>7, HoldsWork

LEMMA HoldsWriteDetails ==
  ASSUME HoldsInv, Typed', NEW r \in Requests, WriteDetails(r)
  PROVE  HoldsInv'
<1>1. PICK q \in Request :
        /\ Become(r, q) /\ request[r].pc = "details" /\ q.pc \in {"lookup", "link"}
        /\ q.copy = request[r].copy
        /\ q.appointment = request[r].appointment /\ q.overtaken = request[r].overtaken
  BY WriteDetailsStep DEF HoldsInv
<1>2. PICK o, a, d : o = request[r] /\ a = o.appointment /\ d = o.copy.details
  OBVIOUS
<1>3. o.pc \in AtWork /\ UNCHANGED expected /\ SetColumn(a, "details", d)
  BY <1>1, <1>2 DEF WriteDetails, AtWork
<1>4. /\ Typed /\ InOrder(o) /\ a \in Appointments /\ appointments[a] # None
      /\ ~o.overtaken => Alone(o)
      /\ IsAppointment(a) => SaysRest(a)
  BY <1>1, <1>2, <1>3, AtWorkFacts
<1>5. d \in Details
  <2>1. o.copy \in AppointmentRow
    BY <1>1, <1>2, <1>4 DEF InOrder
  <2>2. QED
    BY <1>2, <2>1 DEF AppointmentRow
<1>6. /\ \A x \in Appointments : x # a => appointments'[x] = appointments[x]
      /\ ~IsAppointment(a) => appointments'[a] = appointments[a]
      /\ IsAppointment(a) =>
           /\ appointments'[a] \in AppointmentRow
           /\ appointments'[a].googleEventId = appointments[a].googleEventId
           /\ appointments'[a].details = d
           /\ appointments'[a].customerId = appointments[a].customerId
  BY <1>3, <1>4, <1>5, ColumnSet
<1>7. appointments'[a] # None
  BY <1>4, <1>6, SentinelAssumption
<1>8. ASSUME ~o.overtaken PROVE Alone(q)' /\ SaysRest(a)'
  <2>1. IsAppointment(a)
    BY <1>2, <1>4, <1>8 DEF Alone
  <2>2. SaysRest(a)'
    BY <1>3, <1>4, <1>6, <2>1 DEF SaysRest
  <2>3. Alone(q)'
    BY <1>1, <1>2, <1>6, <2>1 DEF Alone, IsAppointment
  <2>4. QED
    BY <2>2, <2>3
<1>9. q.pc \in HalfWay
  BY <1>1 DEF HalfWay
<1>10. QED
  BY <1>1, <1>2, <1>3, <1>4, <1>6, <1>7, <1>8, <1>9, HoldsWork

LEMMA HoldsLookUpCustomer ==
  ASSUME HoldsInv, Typed', NEW r \in Requests, LookUpCustomer(r)
  PROVE  HoldsInv'
<1>1. PICK q \in Request :
        /\ Become(r, q) /\ request[r].pc = "lookup" /\ q.pc = "link"
        /\ q.copy = request[r].copy
        /\ q.appointment = request[r].appointment /\ q.overtaken = request[r].overtaken
  BY LookUpCustomerStep DEF HoldsInv
<1>2. PICK o, a : o = request[r] /\ a = o.appointment
  OBVIOUS
<1>3. o.pc \in AtWork /\ UNCHANGED <<appointments, expected>>
  BY <1>1, <1>2 DEF LookUpCustomer, AtWork
<1>4. /\ a \in Appointments /\ appointments[a] # None
      /\ ~o.overtaken => Alone(o)
      /\ IsAppointment(a) => SaysRest(a)
  BY <1>1, <1>2, <1>3, AtWorkFacts
<1>5. ASSUME ~o.overtaken PROVE Alone(q)'
  BY <1>1, <1>2, <1>3, <1>4, <1>5 DEF Alone, HalfWay, IsAppointment
<1>6. IsAppointment(a)' => SaysRest(a)'
  BY <1>3, <1>4 DEF IsAppointment, SaysRest
<1>7. q.pc \in HalfWay
  BY <1>1 DEF HalfWay
<1>8. QED
  BY <1>1, <1>2, <1>3, <1>4, <1>5, <1>6, <1>7, HoldsWork

LEMMA HoldsLinkCustomer ==
  ASSUME HoldsInv, Typed', NEW r \in Requests, LinkCustomer(r)
  PROVE  HoldsInv'
<1>1. PICK o, a, c, d :
        o = request[r] /\ a = o.appointment /\ c = o.customer /\ d = o.copy.details
  OBVIOUS
<1>2. /\ o.pc = "link" /\ o.pc \in AtWork /\ Become(r, Idle)
      /\ SetColumn(a, "customerId", c)
      /\ Answer(o, [expected[a] EXCEPT !.details = d, !.customerId = c])
  BY <1>1 DEF LinkCustomer, LinkedTo, AtWork
<1>3. /\ Typed /\ o \in Request /\ a \in Appointments /\ appointments[a] # None
      /\ expected[a] \in Expectation
      /\ ~o.overtaken => Alone(o)
      /\ IsAppointment(a) => SaysRest(a)
  BY <1>1, <1>2, AtWorkFacts
<1>4. c \in Maybe(Customers)
  BY <1>1, <1>3 DEF Request
<1>5. /\ \A x \in Appointments : x # a => appointments'[x] = appointments[x]
      /\ ~IsAppointment(a) => appointments'[a] = appointments[a]
      /\ IsAppointment(a) =>
           /\ appointments'[a] \in AppointmentRow
           /\ appointments'[a].googleEventId = appointments[a].googleEventId
           /\ appointments'[a].details = appointments[a].details
           /\ appointments'[a].customerId = c
  BY <1>2, <1>3, <1>4, ColumnSet
<1>6. /\ \A x \in Appointments : x # a => expected'[x] = expected[x]
      /\ o.overtaken => expected'[a] = expected[a]
      /\ ~o.overtaken => expected'[a] = [expected[a] EXCEPT !.details = d, !.customerId = c]
  BY <1>1, <1>2, <1>3 DEF Answer, Typed, TypeOK
<1>7. appointments'[a] # None
  BY <1>3, <1>5, SentinelAssumption
<1>8. ASSUME ~o.overtaken PROVE SaysRest(a)' /\ SaysDetails(a)'
  <2>1. IsAppointment(a) /\ d = appointments[a].details
    BY <1>1, <1>2, <1>3, <1>8 DEF Alone, HalfWay
  <2>2. /\ expected'[a].details = d /\ expected'[a].customerId = c
        /\ expected'[a].googleEventId = expected[a].googleEventId
    BY <1>3, <1>6, <1>8 DEF Expectation
  <2>3. QED
    BY <1>3, <1>5, <2>1, <2>2 DEF SaysRest, SaysDetails
<1>9. Idle.pc \notin AtWork /\ Idle.pc \notin HalfWay
  BY IdleRequest DEF AtWork, HalfWay
<1>10. QED
  BY <1>1, <1>2, <1>3, <1>5, <1>6, <1>7, <1>8, <1>9, HoldsWork

LEMMA HoldsRemoveAppointment ==
  ASSUME HoldsInv, Typed', NEW r \in Requests, RemoveAppointment(r)
  PROVE  HoldsInv'
<1>1. PICK o, a : o = request[r] /\ a = o.appointment
  OBVIOUS
<1>2. o.pc \in AtWork /\ Become(r, Idle) /\ UNCHANGED expected
  BY <1>1 DEF RemoveAppointment, AtWork
<1>3. Typed /\ a \in Appointments
  BY <1>1, <1>2, AtWorkFacts
<1>4. \A x \in Appointments : appointments'[x] = IF x = a THEN Gone ELSE appointments[x]
  BY <1>1, <1>3 DEF RemoveAppointment, Typed, TypeOK
<1>5. appointments'[a] # None /\ ~IsAppointment(a)'
  BY <1>3, <1>4, SentinelAssumption DEF IsAppointment
<1>6. Idle.pc \notin AtWork /\ Idle.pc \notin HalfWay
  BY IdleRequest DEF AtWork, HalfWay
<1>7. QED
  BY <1>1, <1>2, <1>3, <1>4, <1>5, <1>6, HoldsWork

LEMMA HoldsNext == HoldsInv /\ [Next]_vars => HoldsInv'
<1> SUFFICES ASSUME HoldsInv, [Next]_vars PROVE HoldsInv'
  OBVIOUS
<1>1. Typed /\ Typed'
  BY TypedNext DEF HoldsInv
<1>2. ASSUME NEW r \in Requests, Start(r) PROVE HoldsInv'
  <2>1. request[r].pc = "idle" /\ request[r].pc \notin AtWork /\ UNCHANGED appointments
    BY <1>2 DEF Start, CreateOne, UpdateOne, DeleteCustomer, ImportCustomers, Create,
       UpdateGoogleEventId, Update, Delete, Called, AtWork
  <2>2. ASSUME UNCHANGED expected, \E q \in Request : Become(r, q) /\ q.pc \notin AtWork
        PROVE  HoldsInv'
    BY <1>1, <2>1, <2>2, HoldsBecome
  <2>3. CASE CreateOne(r)
    BY <1>1, <2>2, <2>3, CreateOneStep DEF CreateOne, AtWork
  <2>4. CASE UpdateOne(r)
    BY <1>1, <2>2, <2>4, UpdateOneStep DEF UpdateOne, AtWork
  <2>5. CASE DeleteCustomer(r)
    BY <1>1, <2>2, <2>5, DeleteCustomerStep DEF DeleteCustomer, AtWork
  <2>6. CASE ImportCustomers(r)
    BY <1>1, <2>2, <2>6, ImportCustomersStep DEF ImportCustomers, AtWork
  <2>7. CASE Create(r)
    BY <1>1, <2>2, <2>7, CreateStep DEF Create, AtWork
  <2>8. CASE UpdateGoogleEventId(r)
    BY <1>1, <2>1, <2>8, UpdateGoogleEventIdStep, HoldsBegin
  <2>9. CASE Update(r)
    BY <1>1, <2>1, <2>9, UpdateStep, HoldsBegin
  <2>10. CASE Delete(r)
    BY <1>1, <2>1, <2>10, DeleteStep, HoldsBegin
  <2>11. QED
    BY <1>2, <2>3, <2>4, <2>5, <2>6, <2>7, <2>8, <2>9, <2>10 DEF Start
<1>3. ASSUME NEW r \in Requests, Continue(r) PROVE HoldsInv'
  <2>1. request[r] \in Request /\ InOrder(request[r])
    BY <1>1 DEF Typed, TypeOK, RequestsInOrder
  <2>2. Idle.pc \notin AtWork
    BY IdleRequest DEF AtWork
  <2>3. ASSUME NEW c \in Customers, StoreCustomer(r, c) PROVE HoldsInv'
    <3>1. /\ UNCHANGED <<appointments, expected>> /\ request[r].pc \notin AtWork
          /\ Overtake(r, request[r].business, request[r].email, Idle)
      BY <2>3 DEF StoreCustomer, AtWork
    <3>2. \A s \in Requests : WorkSame(request[s], request'[s])
      BY <1>1, <2>2, <3>1, OvertakeWork
    <3>3. QED
      BY <1>1, <3>1, <3>2, HoldsQuiet
  <2>4. ASSUME NEW c \in Customers, ImportOne(r, c) PROVE HoldsInv'
    <3>1. PICK e : Overtake(r, request[r].business, e, Settled(request[r]))
      BY <2>4 DEF ImportOne
    <3>2. /\ UNCHANGED <<appointments, expected>>
          /\ request[r].pc = "importing" /\ request[r].pc \notin AtWork
      BY <2>4 DEF ImportOne, AtWork
    <3>3. Settled(request[r]).pc \notin AtWork
      BY <2>1, <3>2, SettledStep DEF AtWork
    <3>4. \A s \in Requests : WorkSame(request[s], request'[s])
      BY <1>1, <3>1, <3>2, <3>3, OvertakeWork
    <3>5. QED
      BY <1>1, <3>2, <3>4, HoldsQuiet
  <2>5. CASE WriteCustomer(r)
    <3>1. /\ UNCHANGED <<appointments, expected>> /\ request[r].pc \notin AtWork
          /\ \/ Overtake(r, request[r].business, request[r].email, Idle)
             \/ Become(r, Idle)
      BY <2>5 DEF WriteCustomer, AtWork
    <3>2. CASE Overtake(r, request[r].business, request[r].email, Idle)
      <4>1. \A s \in Requests : WorkSame(request[s], request'[s])
        BY <1>1, <2>2, <3>1, <3>2, OvertakeWork
      <4>2. QED
        BY <1>1, <3>1, <4>1, HoldsQuiet
    <3>3. CASE Become(r, Idle)
      BY <1>1, <2>2, <3>1, <3>3, HoldsBecome
    <3>4. QED
      BY <3>1, <3>2, <3>3
  <2>6. CASE RemoveCustomer(r)
    BY <1>1, <2>2, <2>6, HoldsBecome DEF RemoveCustomer, AtWork
  <2>7. CASE FailOne(r)
    <3>1. /\ UNCHANGED <<appointments, expected>> /\ Become(r, Settled(request[r]))
          /\ request[r].pc = "importing" /\ request[r].pc \notin AtWork
      BY <2>7 DEF FailOne, AtWork
    <3>2. Settled(request[r]).pc \notin AtWork
      BY <2>1, <3>1, SettledStep DEF AtWork
    <3>3. QED
      BY <1>1, <3>1, <3>2, HoldsBecome
  <2>8. ASSUME NEW a \in Appointments, StoreAppointment(r, a) PROVE HoldsInv'
    BY <1>1, <2>8, HoldsStoreAppointment
  <2>9. CASE Refuse(r)
    BY <1>1, <2>9, HoldsStop DEF Refuse
  <2>10. QED
    BY <1>1, <1>3, <2>3, <2>4, <2>5, <2>6, <2>7, <2>8, <2>9, HoldsCompareAppointment,
       HoldsWriteAppointment, HoldsWriteDetails, HoldsLookUpCustomer, HoldsLinkCustomer,
       HoldsRemoveAppointment DEF Continue
<1>4. CASE Crash
  BY <1>1, <1>4, HoldsStop DEF Crash
<1>5. CASE UNCHANGED vars
  <2>1. \A s \in Requests : WorkSame(request[s], request'[s])
    BY <1>5 DEF vars, WorkSame
  <2>2. QED
    BY <1>1, <1>5, <2>1, HoldsQuiet DEF vars
<1>6. QED
  BY <1>2, <1>3, <1>4, <1>5 DEF Next

\* An appointment holds, column by column, what the last request that wrote
\* the column was answered, apart from requests that overlapped or stopped
\* half way: for any number of appointments and requests
\* (AppointmentService.update, updateGoogleEventId and delete).
THEOREM AnswersAlwaysHold == Spec => []AnsweredUpdatesHold
<1>1. Init => HoldsInv
  <2> SUFFICES ASSUME Init PROVE HoldsInv
    OBVIOUS
  <2>1. Typed
    BY TypedInit
  <2>2. \A r \in Requests : request[r].pc \notin AtWork
    BY IdleRequest DEF Init, AtWork
  <2>3. \A a \in Appointments : ~IsAppointment(a)
    BY SentinelAssumption DEF Init, IsAppointment
  <2>4. QED
    BY <2>1, <2>2, <2>3 DEF HoldsInv, Exclusive, WorkKnown, RowsKnown
<1>2. HoldsInv => AnsweredUpdatesHold
  <2> SUFFICES ASSUME HoldsInv, NEW a \in Appointments, IsAppointment(a),
                      \A r \in Requests : request[r].appointment # a, NEW c \in Columns
               PROVE  expected[a][c] \in {Unknown, appointments[a][c]}
    BY DEF AnsweredUpdatesHold
  <2>1. HalfDone(a) = {}
    BY DEF HalfDone
  <2>2. SaysRest(a) /\ SaysDetails(a)
    BY <2>1 DEF HoldsInv, RowsKnown
  <2>3. /\ expected[a]["details"] \in {Unknown, appointments[a]["details"]}
        /\ expected[a]["customerId"] \in {Unknown, appointments[a]["customerId"]}
        /\ expected[a]["googleEventId"] \in {Unknown, appointments[a]["googleEventId"]}
    BY <2>2 DEF SaysRest, SaysDetails
  <2>4. QED
    BY <2>3 DEF Columns
<1>3. QED
  BY <1>1, <1>2, HoldsNext, PTL DEF Spec
=============================================================================
