# Verification of the Ventura BI backend

Ventura BI is a NestJS application with TypeORM on PostgreSQL and an SQS queue.
Small businesses keep their customers, products, services, orders, invoices and
appointments in it. This directory holds TLA+ models of its core logic, the TLC
configurations that check them and the TLAPS proofs of the theorems about them.
Paths below are relative to the repository's root.

## 1. The system

No service uses a transaction, a lock or a version column. A handler that
changes a row reads the entity, changes its copy and calls
`repository.save(copy)`. A save is itself two calls: TypeORM selects the row,
compares it with the copy, and updates the columns that differ. Every `await`
lets another request run, in the same process or in another instance. This is
the source of nearly everything that is hard about this code.

| Component | State | Operations | Interacts with |
|---|---|---|---|
| Invoicing (`src/invoice`) | `Invoice` rows: total, amountPaid, status | createInvoice, updateInvoicePayment, updateInvoiceStatus, queries and analytics | reads orders through OrderService, links them back (`linkOrdersToInvoice`), customer snapshot, events |
| Orders (`src/order`) | `Order` and `OrderItem` rows | createOrder, updateOrderStatus, linkOrdersToInvoice, queries, statistics | reads products and services, takes stock, customer snapshot, events |
| Resources (`src/resource`) | `Product` and `Service` rows, `availableQuantity` | create, update, delete, updateProductInventory, search | stock is taken by createOrder |
| Customers (`src/customer`) | `Customer` rows | createOne, updateOne, deleteCustomer, importCustomers, lists | business ownership, appointments (foreign key) |
| Businesses (`src/business`) | `Business` rows, one per owner intended | create, update | owner of everything else; linked from the owner's `User` row |
| Appointments (`src/appointment`) | `Appointment` rows | create, update, delete, Google event id | customers, Google Calendar |
| Users and sessions (`src/user`, `src/auth`) | `User` rows: password, refresh token, isEmailVerified, businessId | sign up, Google sign-in, sign in, refresh, sign out, profile, reset, delete | mail, businesses (a save of a user cascades) |
| Mail and verification (`src/mail`) | `Mail` rows with the verification code | send, resend, validate a code | users, the mail server |
| Audit pipeline (`src/audit`) | SQS queue and dead-letter queue, `AuditLog` rows | queueAuditLog, consume, inspect, replay | every service emits events |
| Dashboard (`src/dashboard`) | none | thirteen parallel calls, sixteen queries | all of the above, read-only |
| Lists, searches, statistics | none | lists by page, getOrderStats | orders, invoices, customers, resources, read-only |
| Storage, configuration, bootstrap, seeding | files, environment | upload, start, stop | none that these models need |

What is hard about each part, and what makes it correct:

- **Invoicing.** The check that an order is not invoiced, the save of the
  invoice and the links back are separate calls; so are the check of a payment
  and its save. Correct means: an order is billed once, its link points to the
  invoice that billed it, payments add up and stay within the total, and the
  status agrees with the amount.
- **Orders and stock.** `createOrder` works in phases of parallel calls, one per
  item, and undoes nothing when a later phase fails. Correct means: stock goes
  down by what is sold, never comes from nowhere, and an order is stored only
  after the stock of its goods was updated.
- **Audit.** Events cross a queue that delivers late, twice or not at all, and
  an operator may replay what failed. Correct means: what was accepted is never
  lost, what cannot be handled ends up among the dead letters, and nothing is
  stored twice without a reason.
- **Users and sessions.** Eight handlers load a `User`, change the copy and save
  it, some of them with the business that the entity drags along. Correct
  means: no save of a stale copy brings an ended session or an old password
  back, and an account counts as verified only with a reason that concerns its own
  address.
- **Mail and verification.** The mail goes out before its row is stored, and
  codes outlive the accounts they were made for. Correct means: a code verifies
  the address that it was shown to and no other.
- **Businesses.** Two saves link owner and business, and `PUT /businesses/:id`
  stores any owner that the body names. Correct means: an account is linked only
  to the business that was created for it, and owns it until such a `PUT` gives it
  away.
- **Customers.** Uniqueness of emails by look-then-save, since a migration
  dropped the constraint, in a business that the body of an update names freely.
  Correct means: only an import, an update that names another business or a race
  stores an email twice within a business.
- **Appointments.** One request updates twice, with a lookup between; another
  saves the whole row; an appointment is found by its id in whatever business.
  Correct means: the customer of an appointment is its business's own unless an
  update that named another business linked that customer, and what an update was
  answered holds.
- **Lists, statistics, the dashboard.** Read-only, but made of many queries at
  different moments, and some of it computed by hand. Correct means: what a
  reader misses, sees twice or sees disagree is bounded by what was written
  meanwhile, and the money adds up.

`PROJECT.json` lists the hazards one by one, each at its line, with the
properties that would notice it. A few more are in the models without a property
of their own, because nothing in the repository promises otherwise: a cancelled
order does not give its stock back, one order id may be named twice in a request
and is then billed twice on the same invoice, `updatePassword` changes nothing
as it stands, lists without `ORDER BY` may repeat or skip rows, the five
cancelled orders in the recent activity are any five, and an inspection hides
the dead letters from a replay for thirty seconds.

## 2. Modules

| Module | What it is |
|---|---|
| `Billing` | createInvoice, updateInvoicePayment, updateInvoiceStatus, updateOrderStatus, linkOrdersToInvoice over the `Order` and `Invoice` tables |
| `InvoiceLedger` | abstract: an atomic step per handler; an order is billed once, payments stay within the total |
| `OrderFulfilment` | createOrder with its parallel calls, products, services and stock |
| `StockLedger` | abstract: stock goes down by what is sold, atomically, to zero at least |
| `AuditPipeline` | from the event through SQS to the audits table, and the dead-letter operations |
| `AuditDelivery` | abstract: at-least-once delivery |
| `Accounts` | users, sessions, verification mails and businesses, which share the `User` row |
| `HiddenColumn` | abstract: a column that no ordinary read loads has the value of the last change |
| `Directory` | customers and appointments |
| `Books` | the tables that reports read, and the writes committed to them; the rounding of taxes |
| `Reports` | lists by page, statistics of orders, the summary of the dashboard, over `Books` |
| `MCBilling`, `MCOrderFulfilment`, `MCAuditPipeline`, `MCAccounts`, `MCDirectory`, `MCReports` and the `.cfg` files | instances for TLC |
| `BillingProofs`, `OrderFulfilmentProofs`, `AuditPipelineProofs`, `AccountsProofs`, `DirectoryProofs`, `ReportsProofs` | theorems about these |
| `ReportsListsProofs` | theorems about clients that walk through lists page by page |
| `SumTheorems` | lemmas about finite sets, sums over them and sorted lists of them, for the other proofs |

`Reports` extends `Books`; `Books` has the writes of the other modules as the
single transactions that readers can tell apart. `Billing` and `OrderFulfilment`
meet in the `Order` table: the one has what happens to an order after it is
stored, the other how it comes to be stored. `Directory`, `Accounts` and
`AuditPipeline` share no table with these.

### How state and steps correspond to the code

A step is the code between two awaits, as far as it reads or writes shared
state. Reading an entity and changing the copy is one step, since nothing can
happen in between. A save takes two more: `Compare*` is TypeORM's select, which
decides which columns differ from the copy, `Write*` the update of these
columns. Two properties of TypeORM matter and are modelled: an update writes the
columns that differed and no others, and a save whose row was gone at the
comparison inserts it again.

`request[r]` is what one HTTP request is doing: its local variables, and in
`todo` the elements for which a `Promise.all` still has calls to start. A
failing call leaves its siblings running, as `Promise.all` does. Requests are
not bound to a process, so that they stand for those of several instances.

| `Billing` | Code |
|---|---|
| `orders`, `invoices` | the tables; `billed` of an invoice is history, the orders of which the subtotal was made |
| `orderSaves`, `invoiceSaves` | the copies that have been read and not yet written |
| `CreateInvoice`, `FetchOrder`, `RefuseInvoice`, `SaveInvoice` | createInvoice up to the save; `Billable` is the validation loop |
| `ReadOrderToLink`, then `CompareOrder`, `WriteOrder`; `FinishInvoice` | linkOrdersToInvoice and the answer |
| `UpdateOrderStatus`, `UpdateInvoicePayment`, `UpdateInvoiceStatus` | reading and changing the copy |
| `CompareInvoice`, `WriteInvoice`, `FailOrderSave`, `FailInvoiceSave` | `repository.save` |
| `received` | history: what clients have paid, in `sum` unrounded; `fractions` counts the payments that are no whole number of cents |

| `OrderFulfilment` | Code |
|---|---|
| `resources`, `items`, `orders` | the tables of products and services, order items and orders |
| `CreateOrder`, `ValidateItem`, `StoreItem`, `TakeStock`, `SaveOrder` | the phases of createOrder |
| `AwaitAll`, `FailItem`, `RefuseOrder` | `Promise.all`, a rejecting call, an early return with an error |
| `CreateResource`, `UpdateResource`, `DeleteResource` | resource.service.ts |
| `updated`, `declared`, `deleted` | history: the items whose inventory update was saved (from a stale copy too, so that a decrement may be lost), the most that an owner declared, the deleted rows |

| `AuditPipeline` | Code |
|---|---|
| `Emit`, `QueueAuditLog`, `SwallowSendError` | the listener and queueAuditLog |
| `queue`, `deadLetters`, `ReceiveMessage`, `DeleteMessage`, `EndVisibilityTimeout`, `Redrive` | SQS and sqs-consumer, external |
| `HandleMessage`, `FailMessage` | AuditConsumer.handleMessage |
| `Inspect`, `ReplaySequentially`, `ReplaySend`, `ReplayDelete`, `ReplayStop` | AuditDlqService |
| `accepted` | history: what the queue has taken |

| `Accounts` | Code |
|---|---|
| `users`, `businesses` | the tables; `Gone` is a deleted row, whose id a stale save may insert again |
| `mails` | the `Mail` rows and the mailboxes: `stored` says that the row is there, `shown` that somebody got the code |
| `SignUp`, `GoogleSignIn`, `GoogleMobileSignIn`, `StoreUser`, `LinkGoogle` | signup, webhookGoogleAuth and the mobile sign-in, which takes email and Google id from its body; createUser |
| `SendCode`, `StoreMail`, `ConfirmEmail`, `ResendCode`, `VerifyCode`, `SetEmailVerificationState` | mail.service.ts and its callers |
| `SignIn`, `Refresh`, `Login`, `Logout` | the strategies, login, signout, updateUserRefreshToken |
| `UpdateUserProfile`, `ResetPassword`, `DeleteUser`, `RemoveUser` | user.service.ts |
| `CreateBusiness`, `LoadOwner`, `SaveBusiness`, `ReplaceBusiness`, `UpdateBusiness` | business.service.ts |
| `CompareUser`, `WriteUser` | `userRepository.save`, with the cascade to the business |
| `Refuse`, `Crash` | a refused or failing call, the stop of the process |
| `vouched`, `named`, `founder`, `handedOver`, the field `set` | history: addresses that Google signed in and that mobile clients named, the user for whom a business was created, businesses that an update gave to another owner, the hidden column that the handler assigned |

| `Directory` | Code |
|---|---|
| `customers`, `appointments` | the tables |
| `CreateOne`, `UpdateOne` (the check), `StoreCustomer`, `WriteCustomer` (the write) | customer.service.ts |
| `DeleteCustomer`, `RemoveCustomer`, `ImportCustomers`, `ImportOne`, `FailOne` | customer.service.ts |
| `Create`, `StoreAppointment`; `Update`, `WriteDetails`, `LookUpCustomer`, `LinkCustomer` | create and update of appointment.service.ts |
| `UpdateGoogleEventId`, `CompareAppointment`, `WriteAppointment`, `Delete`, `RemoveAppointment` | appointment.service.ts |
| `excused`, `lent`, `expected`, the field `overtaken` | history: customers imported or whose check was overtaken or made in another business, customers that an update which named another business linked to an appointment, what each appointment should hold, whether another request came between |

| `Books`, `Reports` | Code |
|---|---|
| `orders`, `invoices`, `stock`, `members` | the tables, of one business; `commits` counts writes and is the clock |
| `SaveOrder` ... `DeleteCustomer` | the transaction that each handler ends in |
| `Taxed`, `Rounded` | the tax computation of createInvoice and the decimal columns |
| `StartWalk`, `ReadIds`, `ReadRows`, `ReadPage`, `ReadTotal` | a client that walks through a list: for each page the query for ids, for rows and, where the page does not tell, for the count |
| `NeedsCount`, `Totalled`, `Onward` | the total: a page that is neither full nor empty behind the first one answers for it with the rows skipped and its own; the client goes on while there are more pages |
| `getOrders`, `searchOrders`, ... | the conditions of the lists |
| `AskReport`, `AnswerQuery`, `FinishReport` | `Promise.all` over the queries, and buildRecentActivity |
| `getFinancialSummary`, `getTopSellingProducts`, ... | one query each, as the set of its possible answers |
| `walk.departed`, `walk.arrivals`, `walk.cut`, `report.commits`, `report.moved` | history: what changed while a reader was under way, and whether a full page of ids that lost a row ended the walk |

One thing about TypeORM is an assumption, since it is not part of the repository:
`getManyAndCount` and `findAndCount` of the locked version (0.3.27,
`src/pnpm-lock.yaml:4620`) count the rows of a list only when the page does not
tell how many there are. Three things about SQS are assumptions, since the repository only uses it: the
queues are standard queues (no order, redelivery after the visibility timeout,
an old receipt may or may not delete), there is a redrive policy with some
`MaxReceives` (the consumer relies on one, `src/src/audit/README.md:183`), and
messages do not expire.

## 3. What the runs check

Every run finishes in three minutes on two cores.

| Run | Question | Answer |
|---|---|---|
| `billing_serial` | Do requests that come one at a time implement the ledger? Are all billed orders linked, for good and in the end? Do the payments of clients stay within the total, but for half a cent per rounded payment? Do status and amount agree? | yes |
| `billing_concurrent` | With overlapping requests, failing saves, crashes and amounts below a cent: can an order point to an invoice that is not its own, or the stored payment exceed the total, or what clients have paid by more than half a cent per rounded payment? | no |
| `billing_double_invoice` | Is an order billed at most once? | **no**: two overlapping createInvoice |
| `fulfilment_serial` | Do orders that come one at a time and name a product once implement the stock ledger? Does what was taken end up in an order? | yes |
| `fulfilment_concurrent` | With overlaps, unknown customers, failures and crashes: is stock invented, an order stored before the inventory updates of its items, or one whose goods are gone or another business's? | no |
| `fulfilment_same_product_twice` | Does one order with two items of a product take both? | **no** |
| `audit_all_faults` | Is an accepted event ever lost, whatever fails? Is something stored that is no payload? | no |
| `audit_database_faults` | If only inserts fail, with replays and inspections overlapping: is an event never stored twice, and is an accepted event audited or a dead letter in the end? | yes |
| `accounts_overlapping` | With two overlapping requests, failing calls and crashes: does a stale save bring a session or a password back, by an update or by inserting a removed row again? Is an account verified whose address no code reached, Google did not sign in and no mobile client named? Is one linked to a business that was not created for it, or parted from its ownership by anything but a `PUT` of the owner? | no |
| `directory_overlapping` | Under the same conditions: does an email repeat without an import, an update that named another business or a race? Does an appointment have a customer of another business that no update which named that business linked to it, or not hold what an undisturbed update was answered? | no |
| `reports_as_written` | While rows are written: do lists repeat more rows than came or, unless a full page that lost a row ended the walk, miss more than went; do counts drift by more than the writes, do sums and taxes disagree, does the activity show an order twice without cause? | no |
| `reports_status_counts` | Does `orderCountByStatus` count the orders by status? | **no**: all counts are zero |

The runs with the answer in bold are expected to find a counterexample.
`PROJECT.json` quotes for each what the repository says and the code does not
do. The serial runs check the same promises for requests that do not overlap:
the counterexample of `billing_double_invoice` is due to the overlap and to
nothing else. The same overlap breaks `NoOverpayment`: two payments of the whole
total are both accepted, and one of them is not in `amountPaid`.
`fulfilment_same_product_twice` needs one request only, and in
`reports_status_counts` the rows that the database groups have the status in
lower case while the object they are entered into has upper-case keys.

Some behaviours of the code are in the models and are worth knowing, though no
run is made of them: a send to the audit queue that fails is logged and
forgotten, so that event is never audited (`SwallowSendError`); a payment of
9.999 towards 10.00 is stored as 10.00 with the status PARTIALLY_PAID; a status
update may set PAID on an invoice that nobody paid; a product, user or
appointment that is deleted while a request holds a copy of it comes back with
that request's save.

What a client may name freely shows in the properties as an excuse, because the
code promises no more. `POST /auth/google/login/mobile` takes the address of a
user from its body and marks it verified (`GoogleMobileSignIn`, `named`);
`PUT /businesses/:id` stores the owner that its body names (`UpdateBusiness`,
`handedOver`); the update of a customer looks the email up in the business of its
body, and not in the customer's (`UpdateOne`, `overtaken`); the update of an
appointment takes business and customer from its body for any appointment
(`Update`, `lent`). The properties say that nothing else has these effects.

A filtered list has a weakness of its own. When a row leaves it between the
query for the ids of a full page and the query for their rows, the page comes out
short, TypeORM takes it for the last one and skips the count, and `totalPages`
ends at this page. A client that trusts it misses every later row for one
departure. `PagesMissOnlyWhatLeft` sets these walks (`cut`) apart: it says that
they happen only if a row left, and bounds the misses of all others.

### Bounds

- *Requests.* Two overlapping requests. Every conflict in this code is between a
  stale copy and one other writer; the `Promise.all` of one request adds further
  parallel calls. The proofs are for any number.
- *Workloads.* In `Accounts`, `Directory` and `Reports` a behaviour calls the
  routes of one workload only: those that touch the same rows and columns are
  called together, and the workloads overlap where columns do (a profile update
  is called with verifications and with businesses). Routes that share no
  column cannot disturb one another.
- *Rows.* Billing: up to four orders of three customers and two businesses, two
  invoices; enough for a request to mix its own orders with another customer's
  and another business's, and for two invoices to compete for one order.
  `OnePaidInvoice` stops behaviours of `billing_concurrent` with several
  billed orders where the first payment or status of an invoice comes, because
  that concerns the one invoice alone and is explored with one order.
  Fulfilment: two products and one service, two orders.
  Accounts: two users, businesses, emails, names and passwords, one Google
  id, one code, and one value of tokens: that a session comes back after a
  sign-out shows with one value, and that an old token never replaces a newer
  one is left to the theorem. `BusinessNames` has one name, of the two that users
  have: no check depends on it. Directory: three customers of two
  businesses, one appointment, two emails, one of two details incomplete;
  appointments are made for two of the customers, of one business or of two.
  Reports: four orders and three invoices to begin with, one business, since
  every query is restricted to one; in one workload all four orders are pending,
  two pages of a filtered list.
- *Money.* In tenths of a cent in `Billing`: orders of one and two cents,
  payments of nothing, half a cent, one, one and a half and two cents, which
  reach partial and full payment, payment of nothing, and rounding up to the
  total; `billing_serial` has nothing, four tenths, half a cent and two cents, which
  the column rounds away, rounds up and keeps. `ReceivedBound` stops clients from paying for ever after updates that
  lose payments. In whole cents in `Books`: baskets of 10, 20 and 30 cents make
  VAT and the levies end in half a cent, the value at which rounding may go
  either way.
- *Serial status updates.* `billing_serial` sets SENT and CANCELLED by hand,
  not PAID: nothing ties a status set by hand to the amount.
- *Stock.* Quantities one and two against stocks of one to three: enough, too
  little, and exactly enough.
- *Messages.* Three ids for one event and one foreign message with every fault:
  the event's first message and two replays, or a replay of a replay; four where
  only the database fails. `ReceiveLimit` is two where SQS
  has ten, so that a batch may be smaller than the letters there are. The
  guards `IdsLeft` stop sending when the ids of an instance are used up.
- *Owners.* `OwnerInputs` are both users in `accounts_overlapping`: clients of
  `PUT /businesses/:id` may name any owner.
- *Readers.* One list and one report at a time, as readers write nothing; up to
  two writes while one is under way; `PageSize` two where the code has ten or
  twenty, `ListLimit` three for ten, `Shown` one for two, `CancelledShown`
  two for five, `ActivityLimit` four for ten, so that every list can be full;
  four moments a day, and ranges of whole days, open or closed. A row's
  `createdAt` may be older than that of a row stored before it, never equal.
- *Ids.* A new row takes an id of the finite sets; when they are used up no more
  rows are made, which stops creation and nothing else.
- `CHECK_DEADLOCK FALSE` is used only in the fulfilment instance whose
  finite supply of ids comes to an end with nothing left to do.

Symmetry is used for safety only. It permutes sets whose members no definition
tells apart: requests, items, messages, consumers, users, businesses, customers,
emails, passwords and Google ids. `ImplementsSessions` and
`ImplementsCredentials`, checked with symmetry, are `[][Next]` properties without
fairness, symmetric in these sets themselves.

### Fairness

`FairSpec` is weak fairness for each request that has started
(`OrderStep`, `CreateStep`, `SaveStep`), each consumer, each message in a queue
and each running replay: the event loop runs every continuation and the
database and SQS answer or fail. Nothing is assumed of clients: no one has to
send a request, emit an event or start a replay. It is used in `billing_serial`,
`fulfilment_serial` and `audit_database_faults`.
With failures, nothing makes createInvoice finish its links, which is why
`BilledOrdersGetLinked` is checked without them. `Accounts`, `Directory` and
`Reports` have no liveness property: a request there ends with its last call,
and the code promises nothing that a later step has to bring about.

## 4. What is proved

The theorems are about `Spec`, for every value of the constants, from the
assumptions of the modules: `BillingAssumption`, `FulfilmentAssumption`,
`AuditAssumption`, `AccountsAssumption`, `DirectoryAssumption`,
`BooksAssumption`, `ReportsAssumption` (ranges of the inputs, ownership and
prices are functions, prices are whole cents) and those on the markers
(`NoneAssumption`, `SentinelAssumption`: `None`, `Gone`, `Unset` and
`Unknown` are no id, no row and no amount). TLC evaluates all of them on every
run. Theorems that need more say so in their `ASSUME`; the table repeats it.
`Serial` says that there is one request, which may call one handler after the
other for ever.

| Theorem | Statement | Inductive invariant |
|---|---|---|
| `BillingProofs!TypeCorrect` | `[]TypeOK` | with `RequestsInOrder` (what a request in each phase has) and `SavesHaveRows` |
| `BillingProofs!PaymentWithinTotal`, `PaymentNotInvented` | `[]AmountPaidWithinTotal`, `[]NoInventedPayment` | `PaymentInv`: totals are whole cents; each copy in flight, rounded, is within the total and within what clients have paid with its own payment and half a cent for each fraction |
| `BillingProofs!LinksBacked` | `[]LinksAreBacked` | `LinkInv`: what a copy of an order points to is backed as well; what a request has fetched passed the checks that do not change; what it still has to link is billed by its invoice |
| `BillingProofs!SerialNoOverpayment` | `[]NoOverpayment`, when `Serial` | `RecordInv`: the row has what clients have paid, within half a cent for each fraction, and the copy of a payment has the row's amount and its own |
| `BillingProofs!SerialStatusMatches` | `[]StatusMatchesAmount`, when `Serial` and `OrdinaryInputs` (no status PAID or PARTIALLY_PAID by hand) | `StatusInv`: so does the copy |
| `BillingProofs!SerialOrdersLinked` | `[]BilledOrdersLinkBack`, when `Serial` and nothing fails | `LinkedInv`: an order is billed once, and is linked or about to be by the request that made the invoice |
| `BillingProofs!SerialLedger` | `ImplementsLedger` (refinement of `InvoiceLedger`), when `Serial` and nothing fails | all of these |
| `OrderFulfilmentProofs!TypeCorrect` | `[]TypeOK` | with the shape of a request in each phase, and that the places of its stored items exist |
| `OrderFulfilmentProofs!StockNotInvented` | `[]NoInventedStock` | each copy in flight is at most what was declared |
| `OrderFulfilmentProofs!UpdatesPrecedeOrders` | `[]OrdersFollowUpdates` | `SettleInv`: an item of a request that has passed the stock phase is updated, or its copy is in flight, or its call has still to start |
| `OrderFulfilmentProofs!GoodsExist` | `[]OrderedGoodsExist` | `GoodsInv`: the row an item refers to exists once stored (foreign key), and every copy that might be inserted again has the row's business |
| `OrderFulfilmentProofs!SerialStock` | `ImplementsStock` (refinement of `StockLedger`), when `Serial` and `ProductsOnce` (no order names a product twice) | `SaleInv`: each copy in flight is what its row becomes by taking its item; what is updated is stored and is not taken again |
| `AuditPipelineProofs!TypeCorrect` | `[]TypeOK` | with: a consumer that handles and a replay that deletes hold a message |
| `AuditPipelineProofs!AtLeastOnce` | `ImplementsDelivery` (refinement of `AuditDelivery`) | `DeliveryInv`, below |
| `AuditPipelineProofs!AuditedOnce` | `[]AuditedAtMostOnce`, when only the database fails | `HoldInv`: what a consumer or replay has received stays hidden for it; `OnceInv`: an event has one way to the table at most |
| `AccountsProofs!TypeCorrect` | `[]TypeOK` | `Typed`: what a request holds in each state, that a copy knows a hidden column just when its handler assigned it, and that links lead to rows |
| `AccountsProofs!VerifiedEmailsAlwaysHaveReason` | `[]VerifiedEmailsHaveReason` | `EmailsInv`: each user id has one email for ever, in its row and in every copy, and what calls it verified has a reason for that email |
| `AccountsProofs!LinkedBusinessAlwaysOwned` | `[]LinkedBusinessIsOwned` | `OwnInv`: the businesses in copies, cascaded or to be linked, were created for the copy's user, and what is going to be written of a business that no update gave away names its owner |
| `AccountsProofs!SessionsImplemented`, `CredentialsImplemented` | `ImplementsSessions`, `ImplementsCredentials` (refinements of `HiddenColumn`) | `Typed` |
| `DirectoryProofs!TypeCorrect` | `[]TypeOK` | with the shape of a request in each state |
| `DirectoryProofs!DuplicatesAlwaysExcused` | `[]DuplicatesAreExcused` | `EmailsInv`: a request between its check and its save either was overtaken or named another business, or its email is still free |
| `DirectoryProofs!AppointmentCustomersAlwaysOwn` | `[]AppointmentCustomersAreOwn` | `OwnInv`: copies in flight are of their customer's business or lent to it, a customer that was looked up is of the business that the request names; no id changes its business |
| `DirectoryProofs!AnswersAlwaysHold` | `[]AnsweredUpdatesHold` | `HoldsInv`: a request that was not overtaken is alone on its appointment, and every column that is expected is in the row, but for the details of an update half way |
| `ReportsProofs!TaxAddsUp` | the columns made of any subtotal add up | none: arithmetic of rounding |
| `ReportsProofs!TypesOK` | `[]TypeOK` | `WalkShape` and `ReportInv` |
| `ReportsProofs!InvoicesAlwaysAddUp` | `[]InvoicesAddUp` | `TablesInv`: each row has the columns that its subtotal was taxed with, and a stamp of its own |
| `ReportsProofs!DashboardMoneyAddsUp` | `[]FinancialAddsUp` | `ReportInv`, below |
| `ReportsProofs!SummaryDriftsByCommits` | `[]CountsDriftByCommits` | its `DriftInv`: the numbers already read, and for the others those in the tables, are apart by the writes so far at most |
| `ReportsProofs!SummaryAgreesAtRest`, `StatisticsAgreeAtRest` | `[]AmountsAgreeAtRest`, `[]StatsAgreeAtRest` | its `RestInv`: while nothing was written, every answer already read is one that its query could still give |
| `ReportsProofs!ActivityTellsOnce` | `[]ActivityShowsOrdersOnce` | orders in the answers had the status asked for when they were read, and still have it unless they moved |
| `ReportsListsProofs!PagesMissFew`, `PagesRepeatFew` | `[]PagesMissOnlyWhatLeft`, `[]PagesRepeatOnlyForArrivals` | `PagesInv`, below |

Why these need strengthening: the properties speak of rows, while what can go
wrong is in the copies that requests carry around. Each invariant says of the
copies what will be needed on the day they are written, against rows that have
changed since. For payments that is subtle: a copy checked against the total
unrounded, is rounded when it is written, and stays within the total because
totals are whole cents (`RoundBelow`).

`AtLeastOnce` rests on `NotLost`: an accepted event is in the audits table, in
the queue, or in a dead letter *that no replay is about to delete*. The letter a
replay is about to delete does not count, because its event has been sent again;
that is what makes the deletion safe even when the new message has meanwhile been
received, redriven and replayed again by someone else. The other parts say that a
message is in one queue at a time (`MessageInv`), that the copies of consumers
and replays agree with the messages they were made from as long as those exist
(`ConsumerInv`, `ReplayInv`), and that a consumer acknowledges only what it has
stored. Every step is then shown to be a step of `AuditDelivery` or none.

`AuditedOnce` is the reverse of this. As long as no handler outlasts the visibility
timeout, a message that was received is hidden until its receiver is done with
it (`HoldInv`). An event then has at most one pending way to the table: a send
under way, a message not yet stored, or a letter not yet sent again. A replay
moves the event from the letter to the new message in one step, and an insert
ends the way, so no second insert can follow.

The theorems about `Serial` requests show where the counterexamples come from.
What the concurrent theorems can only bound, `RecordInv` makes an equation: with
one request, the copy in flight is the row and that request's own change. An
order that was fetched as not invoiced is not invoiced at the save, a payment
checked against a copy was checked against the row. Failures spoil the links,
since createInvoice does not undo its save, but neither the payments nor the
status; so only `SerialOrdersLinked` and `SerialLedger` exclude them. In the refinement, the save
of the invoice is the ledger's step, and the links that follow are stutters.

`SessionsImplemented` and `CredentialsImplemented` show that `select: false`
is what protects these two columns. A request has a change pending from the
moment its handler assigned the column until its save is written or fails.
`KnowsWhatItSets` makes a save write the column just when a change is pending, so
each step asks for a change, makes it, abandons it, inserts or removes a row, or
does nothing to the column (`ColumnStep`, the same for both). A row
deleted under a pending save is inserted with the new value if the save brings one,
and with none otherwise (`Enrol` leaves the column empty), never with the old one.

`SerialStock` is the same kind of statement about the stock, and holds with
failures and crashes. An item is sold in the step in which its save is written,
and a failing request changes only which of its items are sold. `CopiesTake` says
that a copy for an item is the row less the quantity of that item. It survives
the writes of the siblings that `Promise.all` runs next to it, because these
write other rows: that is where `ProductsOnce` is needed, and the run
`fulfilment_same_product_twice` shows what happens without it. It survives the
owner, who cannot delete a row that an item refers to and has no save in flight,
because there is one request. `TakenOnce` keeps an item from being sold twice: its
position is not in `todo` and has no copy once it is updated. In the ledger each
such step is one `Sell` (the sum over the updated items grows by the quantity of
one item, `SoldGrows`), each write of a row by its owner one `Declare`, and
everything else a stutter.

The theorems about `Reports` say of arbitrary tables what the run sees on a few
rows. An answer in `ReportInv` is tied to the tables as they were when it was
read: `RestInv` to all columns of them while nothing was written, `DriftInv`
compares the numbers that were read with those that are still to be read, which
one write takes apart by one at most. At the end the answers are about one state, and
what remains is a fact about sums: a sum over a part is at most the sum over
the whole (`SumSubset`), the items of all orders regrouped by product come to
the revenue (`SumByKey`), and a limited list of the largest is a part
(`SumInjected`).

`PagesInv` follows the rank of a row, which is the number of newer rows in its list.
A page is the rows of a range of ranks. A row that arrives moves the older ones
down by a rank, so that at most one row which the client has seen crosses the
end of the last page and will be shown again; a row that leaves moves them up, and at
most one that it has not seen crosses the other way. `WalkOK` counts both kinds of rows
against `arrivals` and `departures`, between the queries for ids and for rows
as well as between pages. A walk ends in one of two ways. Where the total was
counted, no row has a rank beyond the last page (`WalkEnds`). Where a short page
answered for the total, either its ids already were fewer than a page, so that no row
lay behind it when they were read (`FullPage`, `PageOK`), or the walk is `cut`, and
the row that the page lost has departed (`PageEnds`). The ranks are distinct because the stamps are.

The assumptions of `Books` about an opening (`OpeningsAssumption`) are what its
writes keep up: rows typed, totals made of the items, taxes of the subtotal,
payments within the total, and no two rows of a table with the same
`createdAt`. The last is `now()` in microseconds at the start of a transaction
that inserts one row of the table; two transactions that began in the same microsecond are
outside the model, in the runs as in the proofs.

`SumTheorems` has the inductions these proofs need. The library's theorems on
induction take a predicate, which the provers cannot instantiate; stated with the *set*
of the good subsets of a finite set (`SetInduction`), the same principle is
a consequence of the well-foundedness of the strict subsets, and each fact
about sums, cardinalities and sorted lists is proved by giving that set.

Model-checked only: liveness (`BilledOrdersGetLinked`, `TakenGoodsGetOrdered`,
`AcceptedEventsSettle`), which is out of the prover's reach. Every other property
of a passing run is the conclusion of a theorem. For `BilledOrdersLinkBack`,
`StatusMatchesAmount` and the refinements, the theorem has the hypotheses in the
table, and these hold in the runs that check the property.

## 5. What is not modelled

- Storage (one upload to S3 per call, no state), configuration, bootstrap,
  migrations and seeding.
- The HTTP layer: validation pipes are reflected in the inputs the models
  enumerate; guards, cookies and the signing of tokens are not. Authentication is
  the choice of the acting user in each handler.
- Queries for a single row, and the queries of the audit log: they return what
  they find. `createAuditLog`, a synchronous insert, has no caller.
- `sendEmail`, `updateMailStatus` and the welcome mail, which touch neither
  codes nor accounts; `AppointmentUpdateService`, which nothing calls;
  `updatePassword`, which changes nothing.
- Rounding errors of JavaScript's binary numbers, apart from halves of a cent,
  which `Rounded` lets go either way.
- Texts, names and prices that filters look for, wording, logging, images; an
  answer given to a client is modelled as far as it tells what was stored or,
  in `Reports`, what was read.

## 6. Plan

What is left, in the order of what it would add:

1. The stock of overlapping requests: a ledger that allows what stale copies do
   (sold units given back, but never more than declared), so that
   `NoInventedStock` becomes a refinement too.
2. Composition: `Directory` with `Billing` and `OrderFulfilment`, so that
   customers are deleted under running orders and invoices.
3. Several businesses in `Books`, to check that no query leaves its own.
