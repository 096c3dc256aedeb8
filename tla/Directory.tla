----------------------------- MODULE Directory -----------------------------
(***************************************************************************)
(* Customers and appointments: customer.service.ts and                     *)
(* appointment.service.ts with their controllers.                          *)
(*                                                                         *)
(* A request names a business, and all but updateOne verify first that its *)
(* user owns it; owners do not change here, so the business stands for the *)
(* user.  Nothing ties the customer of updateOne, or an appointment that   *)
(* is updated or deleted, to that business: both are found by id alone.    *)
(* What a request reads (another customer with the email, the customer of  *)
(* an appointment, the appointment itself) it uses some awaits later, and  *)
(* other requests run in between.  Emails are kept unique by that check    *)
(* alone: the unique constraint was dropped by a migration.                *)
(***************************************************************************)
EXTENDS Naturals

CONSTANTS
  Businesses,
  Customers,     \* ids that uuid generation can hand out
  Appointments,  \* the same for appointments
  Emails,
  Details,       \* what an appointment says apart from its customer
  Incomplete,    \* the Details that recur without a frequency or an end
  EventIds,      \* ids of events in the user's Google calendar
  Requests,      \* requests the server can have in progress at once
  Workloads,     \* bound: what a behaviour calls, and the customers it begins with
  MaxImport,     \* bound: customers in one import
  MayFail,       \* whether database calls and the process may fail
  None, Gone, Unknown

Operation ==
  {"createOne", "updateOne", "deleteCustomer", "importCustomers",
   "create", "updateGoogleEventId", "update", "delete"}

ASSUME DirectoryAssumption ==
  /\ Incomplete \subseteq Details
  /\ MaxImport \in Nat
  /\ Workloads \subseteq [routes : SUBSET Operation, members : SUBSET Customers]
  /\ MayFail \in BOOLEAN

VARIABLES
  customers,     \* the Customer table: a row, None before its id is used, Gone after
  appointments,  \* the Appointment table
  request,       \* progress of each request
  routes,        \* the routes that the clients of this behaviour call
  excused,       \* history: customers imported, or whose email check was overtaken
                 \* or made in another business
  lent,          \* history: customers that an update which named another business
                 \* linked to an appointment
  expected       \* history: what each appointment should hold, column by column

vars == <<customers, appointments, request, routes, excused, lent, expected>>

----------------------------------------------------------------------------
(***************************************************************************)
(* Rows and requests.                                                      *)
(***************************************************************************)

Maybe(S) == S \union {None}

\* An email that is missing, empty or blank is None.
CustomerRow == [businessId : Businesses, email : Maybe(Emails)]

AppointmentRow ==
  [businessId : Businesses, details : Details, customerId : Maybe(Customers),
   googleEventId : Maybe(EventIds)]

Columns == {"details", "customerId", "googleEventId"}

Expectation ==
  [details : Details \union {Unknown}, customerId : Maybe(Customers) \union {Unknown},
   googleEventId : Maybe(EventIds) \union {Unknown}]

Request ==
  [pc : {"idle", "creating", "updating", "removing", "importing",
         "booking", "read", "compared", "details", "lookup", "link", "deleting"},
   business : Maybe(Businesses), customer : Maybe(Customers), email : Maybe(Emails),
   overtaken : BOOLEAN, left : 0 .. MaxImport,
   appointment : Maybe(Appointments), copy : Maybe(AppointmentRow),
   columns : SUBSET (Columns \union {"insert"})]

Idle ==
  [pc |-> "idle", business |-> None, customer |-> None, email |-> None,
   overtaken |-> FALSE, left |-> 0, appointment |-> None, copy |-> None, columns |-> {}]

ASSUME SentinelAssumption ==
  /\ None # Gone
  /\ None # Unknown
  /\ \A S \in {Businesses, Customers, Appointments, Emails, Details, EventIds} :
       None \notin S /\ Unknown \notin S
  /\ None \notin CustomerRow
  /\ Gone \notin CustomerRow
  /\ None \notin AppointmentRow
  /\ Gone \notin AppointmentRow

IsCustomer(c) == customers[c] \in CustomerRow
IsAppointment(a) == appointments[a] \in AppointmentRow

\* Customers that are there when a behaviour begins have no email.
Init ==
  /\ appointments = [a \in Appointments |-> None]
  /\ request = [r \in Requests |-> Idle]
  /\ \E w \in Workloads :
       /\ routes = w.routes
       /\ \E business \in [w.members -> Businesses] :
            customers = [c \in Customers |->
              IF c \in w.members THEN [businessId |-> business[c], email |-> None] ELSE None]
  /\ excused = {}
  /\ lent = {}
  /\ expected = [a \in Appointments |->
       [details |-> Unknown, customerId |-> Unknown, googleEventId |-> Unknown]]

Become(r, q) == request' = [request EXCEPT ![r] = q]

Called(r, operation) ==
  /\ request[r].pc = "idle"
  /\ operation \in routes

----------------------------------------------------------------------------
(***************************************************************************)
(* Customers.                                                              *)
(***************************************************************************)

\* Customers that a lookup of the email in the business may find; without a
\* business (an update may leave it out) the lookup is over all of them.
WithEmail(business, email) ==
  {c \in Customers :
     /\ IsCustomer(c)
     /\ customers[c].email = email
     /\ business # None => customers[c].businessId = business}

\* findOne returns one of the customers that match, or nothing; it may be the
\* customer c that is being updated.  The mutant does not look when the
\* request leaves the business out.
FreeWhereNamed(business, email, c) ==
  email # None /\ business # None /\ WithEmail(business, email) # {} =>
    c \in WithEmail(business, email)
EmailIsFree(business, email, c) ==
  email # None /\ WithEmail(business, email) # {} => c \in WithEmail(business, email)

CreateOne(r) ==
  /\ Called(r, "createOne")
  /\ \E b \in Businesses, e \in Maybe(Emails) :
       /\ EmailIsFree(b, e, None)
       /\ Become(r, [Idle EXCEPT !.pc = "creating", !.business = b, !.email = e])
  /\ UNCHANGED <<customers, appointments, routes, excused, lent, expected>>

\* Updates that leave the email as it is change nothing that is modelled.
\* The lookup is in the business b that the body names, whatever business the
\* customer belongs to; the request keeps the customer's, where the email will
\* be stored.  History: a lookup in another business has found nothing out.
UpdateOne(r) ==
  /\ Called(r, "updateOne")
  /\ \E c \in Customers, b \in Maybe(Businesses), e \in Emails :
       /\ IsCustomer(c)
       /\ EmailIsFree(b, e, c)
       /\ Become(r, [Idle EXCEPT !.pc = "updating", !.customer = c, !.email = e,
                                 !.business = customers[c].businessId,
                                 !.overtaken = b \notin {customers[c].businessId, None}])
  /\ UNCHANGED <<customers, appointments, routes, excused, lent, expected>>

\* The email e of business b is stored while others have checked that it is
\* not: history only.
Overtake(r, b, e, q) ==
  request' = [s \in Requests |->
    IF s = r THEN q
    ELSE IF /\ request[s].pc \in {"creating", "updating"}
            /\ request[s].business = b
            /\ request[s].email = e
         THEN [request[s] EXCEPT !.overtaken = TRUE]
         ELSE request[s]]

StoreCustomer(r, c) ==
  LET q == request[r] IN
  /\ q.pc = "creating"
  /\ customers[c] = None
  /\ customers' = [customers EXCEPT ![c] = [businessId |-> q.business, email |-> q.email]]
  /\ Overtake(r, q.business, q.email, Idle)
  /\ excused' = IF q.overtaken THEN excused \union {c} ELSE excused
  /\ UNCHANGED <<appointments, routes, lent, expected>>

\* The update goes first and findOne, which verifies the owner and may refuse
\* the request, second: the row is written either way, if it is still there.
WriteCustomer(r) ==
  LET q == request[r]
      c == q.customer
  IN
  /\ q.pc = "updating"
  /\ IF IsCustomer(c)
     THEN /\ customers' = [customers EXCEPT ![c].email = q.email]
          /\ Overtake(r, q.business, q.email, Idle)
     ELSE UNCHANGED customers /\ Become(r, Idle)
  /\ excused' = IF q.overtaken THEN excused \union {c} ELSE excused
  /\ UNCHANGED <<appointments, routes, lent, expected>>

DeleteCustomer(r) ==
  /\ Called(r, "deleteCustomer")
  /\ \E c \in Customers :
       /\ IsCustomer(c)
       /\ Become(r, [Idle EXCEPT !.pc = "removing", !.customer = c])
  /\ UNCHANGED <<customers, appointments, routes, excused, lent, expected>>

\* The foreign key of appointments.
Referenced(c) == \E a \in Appointments : IsAppointment(a) /\ appointments[a].customerId = c

RemoveCustomer(r) ==
  LET c == request[r].customer IN
  /\ request[r].pc = "removing"
  /\ ~Referenced(c)
  /\ customers' = [customers EXCEPT ![c] = Gone]
  /\ Become(r, Idle)
  /\ UNCHANGED <<appointments, routes, excused, lent, expected>>

ImportCustomers(r) ==
  /\ Called(r, "importCustomers")
  /\ \E b \in Businesses, n \in 1 .. MaxImport :
       Become(r, [Idle EXCEPT !.pc = "importing", !.business = b, !.left = n])
  /\ UNCHANGED <<customers, appointments, routes, excused, lent, expected>>

\* The saves run side by side and each succeeds or fails on its own; the
\* records' emails are not looked for.  The mutant never answers.
SettledForever(q) == [q EXCEPT !.left = @ - 1]
Settled(q) == IF q.left = 1 THEN Idle ELSE [q EXCEPT !.left = @ - 1]

ImportOne(r, c) ==
  LET q == request[r] IN
  /\ q.pc = "importing"
  /\ customers[c] = None
  /\ \E e \in Maybe(Emails) :
       /\ customers' = [customers EXCEPT ![c] = [businessId |-> q.business, email |-> e]]
       /\ Overtake(r, q.business, e, Settled(q))
  /\ excused' = excused \union {c}
  /\ UNCHANGED <<appointments, routes, lent, expected>>

FailOne(r) ==
  /\ request[r].pc = "importing"
  /\ MayFail
  /\ Become(r, Settled(request[r]))
  /\ UNCHANGED <<customers, appointments, routes, excused, lent, expected>>

----------------------------------------------------------------------------
(***************************************************************************)
(* Appointments.                                                           *)
(***************************************************************************)

NothingExpected ==
  [details |-> Unknown, customerId |-> Unknown, googleEventId |-> Unknown]

\* Request r begins to work on a.  History: if others do, neither they nor r
\* say any longer what a should hold.
Begin(r, a, q) ==
  LET others == {s \in Requests \ {r} : request[s].appointment = a} IN
  /\ request' = [s \in Requests |->
       IF s = r THEN [q EXCEPT !.appointment = a, !.overtaken = others # {}]
       ELSE IF s \in others THEN [request[s] EXCEPT !.overtaken = TRUE] ELSE request[s]]
  /\ expected' = IF others = {} THEN expected
                 ELSE [expected EXCEPT ![a] = NothingExpected]

\* Request q on its appointment has been answered: history only.
Answer(q, columns) ==
  expected' = IF q.overtaken THEN expected ELSE [expected EXCEPT ![q.appointment] = columns]

\* CustomerService.findOne.  The mutant looks the id up and no more.
FindAnyCustomer(business, c) == IsCustomer(c)
FindCustomer(business, c) == IsCustomer(c) /\ customers[c].businessId = business

Create(r) ==
  /\ Called(r, "create")
  /\ \E b \in Businesses, d \in Details \ Incomplete, c \in Maybe(Customers) :
       /\ c # None => FindCustomer(b, c)
       /\ Become(r, [Idle EXCEPT !.pc = "booking",
            !.copy = [businessId |-> b, details |-> d, customerId |-> c, googleEventId |-> None]])
  /\ UNCHANGED <<customers, appointments, routes, excused, lent, expected>>

\* The foreign key, when the row is written with this customer.
Storable(c) == c # None => IsCustomer(c)

StoreAppointment(r, a) ==
  LET row == request[r].copy IN
  /\ request[r].pc = "booking"
  /\ appointments[a] = None
  /\ Storable(row.customerId)
  /\ appointments' = [appointments EXCEPT ![a] = row]
  /\ expected' = [expected EXCEPT ![a] =
       [details |-> row.details, customerId |-> row.customerId, googleEventId |-> None]]
  /\ Become(r, Idle)
  /\ UNCHANGED <<customers, routes, excused, lent>>

UpdateGoogleEventId(r) ==
  /\ Called(r, "updateGoogleEventId")
  /\ \E a \in Appointments, id \in Maybe(EventIds) :
       /\ IsAppointment(a)
       /\ Begin(r, a, [Idle EXCEPT !.pc = "read",
                                   !.copy = [appointments[a] EXCEPT !.googleEventId = id]])
  /\ UNCHANGED <<customers, appointments, routes, excused, lent>>

\* appointmentRepository.save(appointment): the comparison ...
CompareAppointment(r) ==
  LET q == request[r] IN
  /\ q.pc = "read"
  /\ Become(r, [q EXCEPT !.pc = "compared",
       !.columns = IF IsAppointment(q.appointment)
                   THEN {c \in Columns : q.copy[c] # appointments[q.appointment][c]}
                   ELSE {"insert"}])
  /\ UNCHANGED <<customers, appointments, routes, excused, lent, expected>>

\* ... and the row that it leaves.
SavedAppointment(q) ==
  LET row == appointments[q.appointment]
      Of(c) == IF c \in q.columns THEN q.copy[c] ELSE row[c]
  IN CASE "insert" \in q.columns -> q.copy
       [] "insert" \notin q.columns /\ IsAppointment(q.appointment) ->
            [businessId |-> row.businessId, details |-> Of("details"),
             customerId |-> Of("customerId"), googleEventId |-> Of("googleEventId")]
       [] OTHER -> row

\* Two inserts of one id: the second is refused.
Saveable(q) ==
  /\ "insert" \in q.columns => ~IsAppointment(q.appointment)
  /\ q.columns \intersect {"insert", "customerId"} # {} => Storable(q.copy.customerId)

WriteAppointment(r) ==
  LET q == request[r]
      a == q.appointment
  IN
  /\ q.pc = "compared"
  /\ Saveable(q)
  /\ appointments' = [appointments EXCEPT ![a] = SavedAppointment(q)]
  /\ Answer(q, [expected[a] EXCEPT !.googleEventId = q.copy.googleEventId])
  /\ Become(r, Idle)
  /\ UNCHANGED <<customers, routes, excused, lent>>

\* Update only asks for the appointment's id to exist, in whatever business,
\* and does not ask that details which recur are complete.
Update(r) ==
  /\ Called(r, "update")
  /\ \E a \in Appointments, b \in Businesses, d \in Details, c \in Maybe(Customers) :
       /\ IsAppointment(a)
       /\ Begin(r, a, [Idle EXCEPT !.pc = "details", !.business = b, !.customer = c,
                                   !.copy = [appointments[a] EXCEPT !.details = d]])
  /\ UNCHANGED <<customers, appointments, routes, excused, lent>>

\* update(id, columns): no row, no change.
SetColumn(a, column, value) ==
  appointments' = IF IsAppointment(a) THEN [appointments EXCEPT ![a][column] = value]
                  ELSE appointments

WriteDetails(r) ==
  LET q == request[r] IN
  /\ q.pc = "details"
  /\ SetColumn(q.appointment, "details", q.copy.details)
  /\ Become(r, [q EXCEPT !.pc = IF q.customer = None THEN "link" ELSE "lookup"])
  /\ UNCHANGED <<customers, routes, excused, lent, expected>>

LookUpCustomer(r) ==
  LET q == request[r] IN
  /\ q.pc = "lookup"
  /\ FindCustomer(q.business, q.customer)
  /\ Become(r, [q EXCEPT !.pc = "link"])
  /\ UNCHANGED <<customers, appointments, routes, excused, lent, expected>>

\* What the second update makes of the column: without a customer it is set
\* to NULL by a query of its own.  The mutant leaves it to update, which
\* passes over undefined values.
LinkIfGiven(row, c) == IF c = None THEN row.customerId ELSE c
LinkedTo(row, c) == c

\* The customer was looked up in another business than the appointment's:
\* history only.
Lends(q) ==
  /\ IsAppointment(q.appointment)
  /\ q.customer # None
  /\ q.business # appointments[q.appointment].businessId

LinkCustomer(r) ==
  LET q == request[r]
      a == q.appointment
  IN
  /\ q.pc = "link"
  /\ IsAppointment(a) => Storable(q.customer)
  /\ SetColumn(a, "customerId", LinkedTo(appointments[a], q.customer))
  /\ Answer(q, [expected[a] EXCEPT !.details = q.copy.details, !.customerId = q.customer])
  /\ lent' = IF Lends(q) THEN lent \union {<<a, q.customer>>} ELSE lent
  /\ Become(r, Idle)
  /\ UNCHANGED <<customers, routes, excused>>

Delete(r) ==
  /\ Called(r, "delete")
  /\ \E a \in Appointments :
       /\ IsAppointment(a)
       /\ Begin(r, a, [Idle EXCEPT !.pc = "deleting"])
  /\ UNCHANGED <<customers, appointments, routes, excused, lent>>

RemoveAppointment(r) ==
  /\ request[r].pc = "deleting"
  /\ appointments' = [appointments EXCEPT ![request[r].appointment] = Gone]
  /\ Become(r, Idle)
  /\ UNCHANGED <<customers, routes, excused, lent, expected>>

----------------------------------------------------------------------------
(***************************************************************************)
(* Errors and crashes.                                                     *)
(***************************************************************************)

\* The database or a check refuses the next call of the request.
Blocked(q) ==
  \/ q.pc = "removing" /\ Referenced(q.customer)
  \/ q.pc = "booking" /\ ~Storable(q.copy.customerId)
  \/ q.pc = "compared" /\ ~Saveable(q)
  \/ q.pc = "lookup" /\ ~FindCustomer(q.business, q.customer)
  \/ q.pc = "link" /\ IsAppointment(q.appointment) /\ ~Storable(q.customer)

\* History: requests that stop half way leave the details that they wrote.
Stop(R) ==
  /\ request' = [r \in Requests |-> IF r \in R THEN Idle ELSE request[r]]
  /\ expected' = [a \in Appointments |->
       IF \E r \in R : request[r].appointment = a /\ request[r].pc \in {"lookup", "link"}
       THEN [expected[a] EXCEPT !.details = Unknown] ELSE expected[a]]

Refuse(r) ==
  /\ request[r].pc \notin {"idle", "importing"}
  /\ Blocked(request[r]) \/ MayFail
  /\ Stop({r})
  /\ UNCHANGED <<customers, appointments, routes, excused, lent>>

Crash ==
  /\ MayFail
  /\ Stop(Requests)
  /\ UNCHANGED <<customers, appointments, routes, excused, lent>>

----------------------------------------------------------------------------
Start(r) ==
  \/ CreateOne(r) \/ UpdateOne(r) \/ DeleteCustomer(r) \/ ImportCustomers(r)
  \/ Create(r) \/ UpdateGoogleEventId(r) \/ Update(r) \/ Delete(r)

Continue(r) ==
  \/ \E c \in Customers : StoreCustomer(r, c) \/ ImportOne(r, c)
  \/ WriteCustomer(r) \/ RemoveCustomer(r) \/ FailOne(r)
  \/ \E a \in Appointments : StoreAppointment(r, a)
  \/ CompareAppointment(r) \/ WriteAppointment(r)
  \/ WriteDetails(r) \/ LookUpCustomer(r) \/ LinkCustomer(r) \/ RemoveAppointment(r)
  \/ Refuse(r)

Next == (\E r \in Requests : Start(r) \/ Continue(r)) \/ Crash

Spec == Init /\ [][Next]_vars

----------------------------------------------------------------------------
(***************************************************************************)
(* Properties.                                                             *)
(***************************************************************************)

\* Rows and requests have the shape that entities and handlers give them.
TypeOK ==
  /\ customers \in [Customers -> CustomerRow \union {None, Gone}]
  /\ appointments \in [Appointments -> AppointmentRow \union {None, Gone}]
  /\ request \in [Requests -> Request]
  /\ routes \in SUBSET Operation
  /\ excused \in SUBSET Customers
  /\ lent \in SUBSET (Appointments \X Customers)
  /\ expected \in [Appointments -> Expectation]

\* Two customers of one business share an email only when one of them was
\* imported, was given an email by an update that named another business
\* for the lookup, or had it stored by another request between the check of
\* createOne or updateOne and the save: the checks are enough for requests
\* that do not overlap and name the customer's business or none.
DuplicatesAreExcused ==
  \A c, d \in Customers :
    /\ c # d
    /\ IsCustomer(c)
    /\ IsCustomer(d)
    /\ customers[c].businessId = customers[d].businessId
    /\ customers[c].email = customers[d].email
    /\ customers[c].email # None
    => c \in excused \/ d \in excused

\* The customer of an appointment exists, and is a customer of the
\* appointment's business unless an update that named another business linked
\* that very customer to it: no deletion, no stale save of the calendar's event
\* id and no overlapping update mixes the two otherwise
\* (AppointmentService.create and update look the customer up in the business
\* that the request names; the foreign key keeps the row).
AppointmentCustomersAreOwn ==
  \A a \in Appointments : IsAppointment(a) /\ appointments[a].customerId # None =>
    LET c == appointments[a].customerId IN
    /\ IsCustomer(c)
    /\ customers[c].businessId = appointments[a].businessId \/ <<a, c>> \in lent

\* An appointment that nobody works on holds, column by column, what the last
\* request that wrote the column was asked for and was answered, unless that
\* request overlapped another one on the same appointment or failed half way:
\* in particular an update without a customer takes the customer away.
AnsweredUpdatesHold ==
  \A a \in Appointments :
    IsAppointment(a) /\ (\A r \in Requests : request[r].appointment # a) =>
      \A c \in Columns : expected[a][c] \in {Unknown, appointments[a][c]}
=============================================================================
