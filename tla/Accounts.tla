------------------------------ MODULE Accounts ------------------------------
(***************************************************************************)
(* Accounts: user.service.ts, auth.service.ts, mail.service.ts and         *)
(* business.service.ts with their controllers and passport strategies.     *)
(* They share the User row: a login stores its refresh token in it, a      *)
(* verification code its isEmailVerified, Google its googleId, and the     *)
(* creation of a business its businessId.                                  *)
(*                                                                         *)
(* Each of these changes loads the User entity, changes the copy and       *)
(* saves it, and a save is a SELECT that decides which columns differ      *)
(* followed by the UPDATE of those columns (an INSERT, when the row was    *)
(* gone at the SELECT).  So each change is read, compare, write here, and  *)
(* any other request may run in between.  Two of the columns are not       *)
(* loaded by default: a copy leaves them Unset unless its handler assigns  *)
(* them, and then the save always writes them.                             *)
(*                                                                         *)
(* A refresh token is signed with the second of the login: two logins of   *)
(* one user get different tokens or, within a second, equal ones.          *)
(***************************************************************************)
CONSTANTS
  Users,       \* ids that uuid generation can hand out
  Businesses,  \* the same for businesses
  Emails, Names, Passwords, GoogleIds,
  Codes,       \* the mails that can be sent, by their verification code
  Requests,    \* requests the server can have in progress at once
  Workloads,   \* bound: what a behaviour calls, and who has signed up before
  SignUpNames, \* bound: the first names that sign-ups bring
  BusinessNames, \* bound: the names that businesses are given
  OwnerInputs, \* values of ownerId that clients put to PUT /businesses/:id
  Tokens,      \* refresh tokens, as they differ in the second of signing
  MayFail,     \* whether database calls, mails and the process may fail
  None, Gone, Unset

Operation ==
  {"signup", "google", "googleMobile", "signin", "refresh", "logout", "confirm", "resend",
   "verify", "profile", "reset", "delete", "createBusiness", "updateBusiness"}

ASSUME AccountsAssumption ==
  /\ Workloads \subseteq [routes : SUBSET Operation, members : SUBSET Users]
  /\ OwnerInputs \subseteq Users
  /\ SignUpNames \subseteq Names
  /\ BusinessNames \subseteq Names
  /\ MayFail \in BOOLEAN

VARIABLES
  users,       \* the User table: a row, None before the id is used, Gone after
  businesses,  \* the Business table; None where no row has the id
  mails,       \* the Mail table and the mailboxes; None where nothing was sent
  request,     \* progress of each request
  routes,      \* the routes that the clients of this behaviour call
  vouched,     \* history: the emails that Google has signed in
  named,       \* history: the emails that mobile clients have named
  founder,     \* history: the user for whom each business was created
  handedOver   \* history: the businesses that an update gave to another owner

history == <<vouched, named, founder, handedOver>>
vars == <<users, businesses, mails, request, routes, history>>

----------------------------------------------------------------------------
(***************************************************************************)
(* Rows, copies and requests.                                              *)
(***************************************************************************)

Maybe(S) == S \union {None}

Hidden == {"password", "hashedRefreshToken"}
Columns == Hidden \union {"firstName", "googleId", "isEmailVerified", "businessId"}
BusinessColumns == {"name", "ownerId"}

UserRow ==
  [email : Emails, firstName : Names, password : Maybe(Passwords),
   googleId : Maybe(GoogleIds), isEmailVerified : BOOLEAN,
   hashedRefreshToken : Maybe(Tokens), businessId : Maybe(Businesses)]

\* A copy that has not assigned a hidden column does not know it.
UserCopy ==
  [email : Emails, firstName : Names, password : Maybe(Passwords) \union {Unset},
   googleId : Maybe(GoogleIds), isEmailVerified : BOOLEAN,
   hashedRefreshToken : Maybe(Tokens) \union {Unset}, businessId : Maybe(Businesses)]

BusinessRow == [name : Names, ownerId : Users]

\* stored: the row is in the table; shown: the recipient has got the code.
MailRow == [to : Emails, stored : BOOLEAN, shown : BOOLEAN]

ASSUME SentinelAssumption ==
  /\ None # Gone
  /\ None \notin UserRow
  /\ Gone \notin UserRow
  /\ None \notin UserCopy
  /\ None \notin BusinessRow
  /\ Unset \notin BusinessRow
  /\ None \notin MailRow
  /\ None \notin [user : Maybe(Users), value : Maybe(Passwords) \union Maybe(Tokens)]
  /\ \A S \in {Users, Businesses, Codes, Emails, GoogleIds, Columns,
           Passwords, Tokens} : None \notin S
  /\ Unset \notin Maybe(Passwords)
  /\ Unset \notin Maybe(Tokens)

\* set is history: the hidden column that the handler has assigned.
Request ==
  [pc : {"idle", "creating", "code", "mailed", "login", "verified", "read", "compared",
         "owner", "business", "replace", "deleting"},
   user : Maybe(Users), email : Maybe(Emails), code : Maybe(Codes),
   kind : {"NEW", "EXISTING"}, next : {"answer", "login"},
   copy : UserCopy \union {None}, set : Maybe(Hidden),
   business : Maybe(Businesses), businessCopy : BusinessRow \union {Unset},
   columns : SUBSET (Columns \union BusinessColumns \union {"insert"})]

Idle ==
  [pc |-> "idle", user |-> None, email |-> None, code |-> None, kind |-> "NEW",
   next |-> "answer", copy |-> None, set |-> None, business |-> None,
   businessCopy |-> Unset, columns |-> {}]

Exists(u) == users[u] \in UserRow
HasEmail(u, e) == Exists(u) /\ users[u].email = e

\* The unique constraints on email and googleId.
Unique(u, row) ==
  \A v \in Users \ {u} : Exists(v) =>
    /\ users[v].email # row.email
    /\ row.googleId # None => users[v].googleId # row.googleId

NewUser(e, name, password, googleId) ==
  [email |-> e, firstName |-> name, password |-> password, googleId |-> googleId,
   isEmailVerified |-> googleId # None, hashedRefreshToken |-> None, businessId |-> None]

\* The members have signed up with a password, and no more.
SignedUp(members) ==
  {[u \in Users |-> IF u \in members THEN NewUser(email[u], name, password, None) ELSE None] :
     email \in {f \in [members -> Emails] : \A u, v \in members : f[u] = f[v] => u = v},
     name \in SignUpNames, password \in Passwords}

Init ==
  /\ businesses = [b \in Businesses |-> None]
  /\ mails = [c \in Codes |-> None]
  /\ request = [r \in Requests |-> Idle]
  /\ \E w \in Workloads : routes = w.routes /\ users \in SignedUp(w.members)
  /\ vouched = {} /\ named = {}
  /\ founder = [b \in Businesses |-> None]
  /\ handedOver = {}

Become(r, q) == request' = [request EXCEPT ![r] = q]

Called(r, operation) ==
  /\ request[r].pc = "idle"
  /\ operation \in routes

\* What findOne loads.  The mutant is the entity without select: false.
LoadedWhole(u) == users[u]
Loaded(u) == [users[u] EXCEPT !.password = Unset, !.hashedRefreshToken = Unset]

\* The same with relations: ['business'], which save cascades to.
LoadedBusiness(u) ==
  IF users[u].businessId = None THEN Unset ELSE businesses[users[u].businessId]

\* The handler has loaded u, its copy is ready to be saved.
Saving(u, copy, businessCopy, set, next) ==
  [Idle EXCEPT !.pc = "read", !.user = u, !.copy = copy, !.set = set, !.next = next,
               !.businessCopy = businessCopy]

----------------------------------------------------------------------------
(***************************************************************************)
(* Signing up, with a password or with Google.                             *)
(***************************************************************************)

\* A session is opened for u.
LoggingIn(u) == [Idle EXCEPT !.pc = "login", !.user = u]

\* What signup does after createUser: a mail to a new user, another one to a
\* user that existed, and the route logs in either of them.
Signup(u, e, kind) ==
  [Idle EXCEPT !.pc = "code", !.user = u, !.email = e, !.kind = kind, !.next = "login"]

\* createUser for an address that has no account yet.
StartAccount(r, e, new) ==
  /\ \A u \in Users : ~HasEmail(u, e)
  /\ Become(r, [Idle EXCEPT !.pc = "creating", !.email = e, !.copy = new])

\* A password of 12 characters passes the DTO and is not stored: None.
SignUp(r) ==
  /\ Called(r, "signup")
  /\ \E e \in Emails, name \in SignUpNames, password \in Maybe(Passwords) :
       \/ StartAccount(r, e, NewUser(e, name, password, None))
       \/ \E u \in Users : HasEmail(u, e) /\ Become(r, Signup(u, e, "EXISTING"))
  /\ UNCHANGED <<users, businesses, mails, routes, history>>

\* The account's Google id: linked now, the one that is linked already, or
\* another one, which is refused.
LinkGoogle(r, u, g) ==
  \/ /\ users[u].googleId = None
     /\ Become(r, Saving(u, [Loaded(u) EXCEPT !.googleId = g, !.isEmailVerified = TRUE],
                         Unset, None, "login"))
  \/ users[u].googleId = g /\ Become(r, LoggingIn(u))

\* validateGoogleUser, up to the creation or the link.
GoogleUser(r, e, name, g) ==
  \/ StartAccount(r, e, NewUser(e, name, None, g))
  \/ \E u \in Users : HasEmail(u, e) /\ LinkGoogle(r, u, g)

\* The web route: email and id come from Google, through GoogleStrategy.
GoogleSignIn(r) ==
  /\ Called(r, "google")
  /\ \E e \in Emails, name \in SignUpNames, g \in GoogleIds :
       GoogleUser(r, e, name, g) /\ vouched' = vouched \union {e}
  /\ UNCHANGED <<users, businesses, mails, routes, named, founder, handedOver>>

\* The mobile route: email and id come from the body as the client sends them.
GoogleMobileSignIn(r) ==
  /\ Called(r, "googleMobile")
  /\ \E e \in Emails, name \in SignUpNames, g \in GoogleIds :
       GoogleUser(r, e, name, g) /\ named' = named \union {e}
  /\ UNCHANGED <<users, businesses, mails, routes, vouched, founder, handedOver>>

\* userRepository.save of a new entity.
StoreUser(r, u) ==
  LET q == request[r] IN
  /\ q.pc = "creating"
  /\ users[u] = None
  /\ Unique(u, q.copy)
  /\ users' = [users EXCEPT ![u] = q.copy]
  /\ Become(r, Signup(u, q.email, "NEW"))
  /\ UNCHANGED <<businesses, mails, routes, history>>

----------------------------------------------------------------------------
(***************************************************************************)
(* Verification mails: sent first, stored as a row afterwards.             *)
(***************************************************************************)

\* Only the template for new users shows the code.  An error that resend
\* answers with is logged and nothing else.
SendCode(r, c) ==
  LET q == request[r] IN
  /\ q.pc = "code"
  /\ mails[c] = None
  /\ \E delivered \in {TRUE, ~MayFail} :
       mails' = [mails EXCEPT ![c] =
         [to |-> q.email, stored |-> FALSE, shown |-> delivered /\ q.kind = "NEW"]]
  /\ Become(r, [q EXCEPT !.pc = "mailed", !.code = c])
  /\ UNCHANGED <<users, businesses, routes, history>>

StoreMail(r) ==
  LET q == request[r] IN
  /\ q.pc = "mailed"
  /\ mails' = [mails EXCEPT ![q.code].stored = TRUE]
  /\ Become(r, IF q.next = "login" THEN LoggingIn(q.user) ELSE Idle)
  /\ UNCHANGED <<users, businesses, routes, history>>

ConfirmEmail(r) ==
  /\ Called(r, "confirm")
  /\ \E u \in Users :
       /\ Exists(u)
       /\ Become(r, [Idle EXCEPT !.pc = "code", !.user = u, !.email = users[u].email])
  /\ UNCHANGED <<users, businesses, mails, routes, history>>

ResendCode(r) ==
  /\ Called(r, "resend")
  /\ \E c \in Codes, u \in Users :
       /\ mails[c] # None
       /\ mails[c].stored
       /\ HasEmail(u, mails[c].to)
       /\ Become(r, [Idle EXCEPT !.pc = "code", !.user = u, !.email = mails[c].to,
                                 !.kind = "EXISTING"])
  /\ UNCHANGED <<users, businesses, mails, routes, history>>

\* validateVerificationCode: some stored mail to this address has the code.
\* The mutant has lost the address.
MatchesAnybody(c, e) == mails[c].stored
Matches(c, e) == mails[c].stored /\ mails[c].to = e

\* Clients type in codes that were shown to somebody.  Mail rows are never
\* changed or removed once stored, so the two lookups are one step.
VerifyCode(r) ==
  /\ Called(r, "verify")
  /\ \E u \in Users, c \in Codes :
       /\ Exists(u)
       /\ mails[c] # None
       /\ mails[c].shown
       /\ Matches(c, users[u].email)
       /\ Become(r, [Idle EXCEPT !.pc = "verified", !.user = u])
  /\ UNCHANGED <<users, businesses, mails, routes, history>>

SetEmailVerificationState(r) ==
  LET u == request[r].user IN
  /\ request[r].pc = "verified"
  /\ Exists(u)
  /\ Become(r, Saving(u, [Loaded(u) EXCEPT !.isEmailVerified = TRUE], LoadedBusiness(u),
                      None, "answer"))
  /\ UNCHANGED <<users, businesses, mails, routes, history>>

----------------------------------------------------------------------------
(***************************************************************************)
(* Sessions.                                                               *)
(***************************************************************************)

\* Some password compares: the account has one.
PasswordMatches(u) == users[u].password # None

SignIn(r) ==
  /\ Called(r, "signin")
  /\ \E u \in Users : Exists(u) /\ PasswordMatches(u) /\ Become(r, LoggingIn(u))
  /\ UNCHANGED <<users, businesses, mails, routes, history>>

TokenMatches(u, token) == Exists(u) /\ users[u].hashedRefreshToken = token

\* RefreshJwtStrategy finds the client's token to be the stored one.
Refresh(r) ==
  /\ Called(r, "refresh")
  /\ \E u \in Users, token \in Tokens : TokenMatches(u, token) /\ Become(r, LoggingIn(u))
  /\ UNCHANGED <<users, businesses, mails, routes, history>>

\* updateUserRefreshToken up to the save.
UpdateUserRefreshToken(r, u, token) ==
  /\ Exists(u)
  /\ Become(r, Saving(u, [Loaded(u) EXCEPT !.hashedRefreshToken = token], Unset,
                      "hashedRefreshToken", "answer"))

\* login: nothing that the database sees lies between signing the token and
\* loading the user.
Login(r) ==
  /\ request[r].pc = "login"
  /\ \E token \in Tokens : UpdateUserRefreshToken(r, request[r].user, token)
  /\ UNCHANGED <<users, businesses, mails, routes, history>>

Logout(r) ==
  /\ Called(r, "logout")
  /\ \E u \in Users : UpdateUserRefreshToken(r, u, None)
  /\ UNCHANGED <<users, businesses, mails, routes, history>>

----------------------------------------------------------------------------
(***************************************************************************)
(* Profile, password and removal of an account.                            *)
(***************************************************************************)

UpdateUserProfile(r) ==
  /\ Called(r, "profile")
  /\ \E u \in Users, name \in Names :
       /\ Exists(u)
       /\ Become(r, Saving(u, [Loaded(u) EXCEPT !.firstName = name], LoadedBusiness(u),
                           None, "answer"))
  /\ UNCHANGED <<users, businesses, mails, routes, history>>

ResetPassword(r) ==
  /\ Called(r, "reset")
  /\ \E u \in Users, password \in Passwords :
       /\ Exists(u)
       /\ Become(r, Saving(u, [Loaded(u) EXCEPT !.password = password], LoadedBusiness(u),
                           "password", "answer"))
  /\ UNCHANGED <<users, businesses, mails, routes, history>>

DeleteUser(r) ==
  /\ Called(r, "delete")
  /\ \E u \in Users :
       /\ Exists(u)
       /\ Become(r, [Idle EXCEPT !.pc = "deleting", !.user = u])
  /\ UNCHANGED <<users, businesses, mails, routes, history>>

RemoveUser(r) ==
  /\ request[r].pc = "deleting"
  /\ users' = [users EXCEPT ![request[r].user] = Gone]
  /\ Become(r, Idle)
  /\ UNCHANGED <<businesses, mails, routes, history>>

----------------------------------------------------------------------------
(***************************************************************************)
(* Businesses.  A business is created for an owner who has none, and the   *)
(* owner's row is linked to it by a second save.                           *)
(***************************************************************************)

Owns(u, b) == businesses[b] # None /\ businesses[b].ownerId = u

CreateBusiness(r) ==
  /\ Called(r, "createBusiness")
  /\ \E u \in Users, name \in BusinessNames :
       LET data == [Idle EXCEPT !.user = u, !.businessCopy = [name |-> name, ownerId |-> u]] IN
       \/ \E b \in Businesses :
            Owns(u, b) /\ Become(r, [data EXCEPT !.pc = "replace", !.business = b])
       \/ (\A b \in Businesses : ~Owns(u, b)) /\ Become(r, [data EXCEPT !.pc = "owner"])
  /\ UNCHANGED <<users, businesses, mails, routes, history>>

LoadOwner(r) ==
  LET q == request[r] IN
  /\ q.pc = "owner"
  /\ Exists(q.user)
  /\ Become(r, [q EXCEPT !.pc = "business", !.copy = Loaded(q.user)])
  /\ UNCHANGED <<users, businesses, mails, routes, history>>

\* The link that the second save makes.  The mutant links the owner's row to
\* whatever business was created before.
LinkToAny(copy, b) ==
  [copy EXCEPT !.businessId = IF \E a \in Businesses : businesses[a] # None
                              THEN CHOOSE a \in Businesses : businesses[a] # None ELSE b]
LinkTo(copy, b) == [copy EXCEPT !.businessId = b]

SaveBusiness(r, b) ==
  LET q == request[r] IN
  /\ q.pc = "business"
  /\ businesses[b] = None
  /\ businesses' = [businesses EXCEPT ![b] = q.businessCopy]
  /\ founder' = [founder EXCEPT ![b] = q.user]
  /\ Become(r, [q EXCEPT !.pc = "read", !.copy = LinkTo(q.copy, b)])
  /\ UNCHANGED <<users, mails, routes, vouched, named, handedOver>>

ReplaceBusiness(r) ==
  LET q == request[r] IN
  /\ q.pc = "replace"
  /\ businesses' = [businesses EXCEPT ![q.business] = q.businessCopy]
  /\ Become(r, Idle)
  /\ UNCHANGED <<users, mails, routes, history>>

\* The DTO has an ownerId, so that the client can give the business away.
UpdateBusiness(r) ==
  /\ Called(r, "updateBusiness")
  /\ \E b \in Businesses, name \in BusinessNames :
       /\ businesses[b] # None
       /\ \E owner \in OwnerInputs \union {businesses[b].ownerId} :
            /\ businesses' = [businesses EXCEPT ![b] = [name |-> name, ownerId |-> owner]]
            /\ handedOver' = IF owner = businesses[b].ownerId THEN handedOver
                             ELSE handedOver \union {b}
  /\ UNCHANGED <<users, mails, request, routes, vouched, named, founder>>

----------------------------------------------------------------------------
(***************************************************************************)
(* userRepository.save(user), which cascades to the business it loaded.    *)
(***************************************************************************)

Differing(q) ==
  {c \in Columns : q.copy[c] # Unset /\ (c \in Hidden \/ q.copy[c] # users[q.user][c])}

DifferingBusiness(q) ==
  IF q.businessCopy = Unset THEN {}
  ELSE {c \in BusinessColumns : q.businessCopy[c] # businesses[q.copy.businessId][c]}

CompareUser(r) ==
  LET q == request[r] IN
  /\ q.pc = "read"
  /\ Become(r, [q EXCEPT !.pc = "compared",
                         !.columns = DifferingBusiness(q) \union
                                     (IF Exists(q.user) THEN Differing(q) ELSE {"insert"})])
  /\ UNCHANGED <<users, businesses, mails, routes, history>>

\* A column that the copy does not know is left to its default.  The mutant
\* writes what is not known.
StoredAsIs(value) == value
Stored(value) == IF value = Unset THEN None ELSE value

\* The row that an INSERT makes of the copy, and what an UPDATE makes of the
\* row.
Inserted(q) ==
  [q.copy EXCEPT !.password = Stored(@), !.hashedRefreshToken = Stored(@)]

Updated(q) ==
  LET row == users[q.user]
      Of(c) == IF c \in q.columns THEN q.copy[c] ELSE row[c]
  IN [email |-> row.email, firstName |-> Of("firstName"), password |-> Of("password"),
      googleId |-> Of("googleId"), isEmailVerified |-> Of("isEmailVerified"),
      hashedRefreshToken |-> Of("hashedRefreshToken"), businessId |-> Of("businessId")]

\* The row after the save: unchanged when it went after the comparison.
Saved(q) ==
  CASE "insert" \in q.columns -> Inserted(q)
    [] "insert" \notin q.columns /\ Exists(q.user) -> Updated(q)
    [] OTHER -> users[q.user]

\* Two saves that both found the row gone: the second INSERT is refused.
Saveable(q) ==
  /\ "insert" \in q.columns => ~Exists(q.user)
  /\ Saved(q) \in UserRow => Unique(q.user, Saved(q))

CascadedBusiness(q) ==
  IF q.businessCopy = Unset THEN businesses
  ELSE LET row == businesses[q.copy.businessId]
           Of(c) == IF c \in q.columns THEN q.businessCopy[c] ELSE row[c]
       IN [businesses EXCEPT ![q.copy.businessId] =
             [name |-> Of("name"), ownerId |-> Of("ownerId")]]

WriteUser(r) ==
  LET q == request[r] IN
  /\ q.pc = "compared"
  /\ Saveable(q)
  /\ users' = [users EXCEPT ![q.user] = Saved(q)]
  /\ businesses' = CascadedBusiness(q)
  /\ Become(r, IF q.next = "login" THEN LoggingIn(q.user) ELSE Idle)
  /\ UNCHANGED <<mails, routes, history>>

----------------------------------------------------------------------------
(***************************************************************************)
(* Errors and crashes.                                                     *)
(***************************************************************************)

\* The next call of the request is refused: the user is not found, or a
\* unique constraint is violated.
Blocked(q) ==
  \/ q.pc \in {"login", "verified", "owner"} /\ ~Exists(q.user)
  \/ q.pc = "creating" /\ \E u \in Users : users[u] = None /\ ~Unique(u, q.copy)
  \/ q.pc = "compared" /\ ~Saveable(q)

Refuse(r) ==
  /\ request[r].pc # "idle"
  /\ Blocked(request[r]) \/ MayFail
  /\ Become(r, Idle)
  /\ UNCHANGED <<users, businesses, mails, routes, history>>

Crash ==
  /\ MayFail
  /\ request' = [r \in Requests |-> Idle]
  /\ UNCHANGED <<users, businesses, mails, routes, history>>

----------------------------------------------------------------------------
Start(r) ==
  \/ SignUp(r) \/ GoogleSignIn(r) \/ GoogleMobileSignIn(r) \/ SignIn(r) \/ Refresh(r) \/ Logout(r)
  \/ ConfirmEmail(r) \/ ResendCode(r) \/ VerifyCode(r)
  \/ UpdateUserProfile(r) \/ ResetPassword(r) \/ DeleteUser(r)
  \/ CreateBusiness(r) \/ UpdateBusiness(r)

Continue(r) ==
  \/ \E u \in Users : StoreUser(r, u)
  \/ \E c \in Codes : SendCode(r, c)
  \/ StoreMail(r)
  \/ Login(r)
  \/ SetEmailVerificationState(r)
  \/ RemoveUser(r)
  \/ LoadOwner(r)
  \/ \E b \in Businesses : SaveBusiness(r, b)
  \/ ReplaceBusiness(r)
  \/ CompareUser(r)
  \/ WriteUser(r)
  \/ Refuse(r)

Next == (\E r \in Requests : Start(r) \/ Continue(r)) \/ Crash

Spec == Init /\ [][Next]_vars

----------------------------------------------------------------------------
(***************************************************************************)
(* Properties.                                                             *)
(***************************************************************************)

\* Rows, copies and requests have the shape that entities and handlers give
\* them.
TypeOK ==
  /\ users \in [Users -> UserRow \union {None, Gone}]
  /\ businesses \in [Businesses -> BusinessRow \union {None}]
  /\ mails \in [Codes -> MailRow \union {None}]
  /\ request \in [Requests -> Request]
  /\ routes \in SUBSET Operation
  /\ vouched \in SUBSET Emails /\ named \in SUBSET Emails
  /\ founder \in [Businesses -> Maybe(Users)]
  /\ handedOver \in SUBSET Businesses

\* An account counts as verified only when a code was shown to its own
\* address, Google has signed that address in, or a client of the mobile
\* route has named it, which the code takes for a sign-in with Google: never
\* by a code of another address, by the save of a stale copy, or by an
\* account of the same id that was removed (setEmailVerificationState,
\* createUser, validateVerificationCode).
ReasonToVerify(e) ==
  \/ e \in vouched \union named
  \/ \E c \in Codes : mails[c] # None /\ mails[c].to = e /\ mails[c].shown

VerifiedEmailsHaveReason ==
  \A u \in Users : Exists(u) /\ users[u].isEmailVerified => ReasonToVerify(users[u].email)

\* The business that a user's row is linked to was created for that user, and
\* is the user's still unless PUT /businesses/:id has given it to another
\* owner: BusinessService.create saves the business first, and no save of a
\* stale copy, cascaded or not, links an account to a business that was
\* created for somebody else or takes a business from its owner.
LinkedBusinessIsOwned ==
  \A u \in Users : Exists(u) /\ users[u].businessId # None =>
    LET b == users[u].businessId IN
    /\ businesses[b] # None
    /\ founder[b] = u
    /\ b \notin handedOver => Owns(u, b)

----------------------------------------------------------------------------
\* The columns with select: false keep the promise of HiddenColumn.
Column(c) == [u \in Users |-> IF Exists(u) THEN users[u][c] ELSE None]

\* A sign-up brings a value, for a user that has no id yet.
PendingChange(c) ==
  [r \in Requests |->
     LET q == request[r] IN
     CASE q.pc \in {"read", "compared"} /\ q.set = c -> [user |-> q.user, value |-> q.copy[c]]
       [] q.pc = "creating" /\ q.copy[c] # None -> [user |-> None, value |-> q.copy[c]]
       [] OTHER -> None]

Sessions == INSTANCE HiddenColumn WITH
  Values <- Tokens, NoValue <- None, NoUser <- None, NoWrite <- None,
  exists <- {u \in Users : Exists(u)},
  value <- Column("hashedRefreshToken"), pending <- PendingChange("hashedRefreshToken")

Credentials == INSTANCE HiddenColumn WITH
  Values <- Passwords, NoValue <- None, NoUser <- None, NoWrite <- None,
  exists <- {u \in Users : Exists(u)},
  value <- Column("password"), pending <- PendingChange("password")

\* The stored refresh token is always that of the last login, refresh or
\* logout whose save was written: no overlapping save of the same row (a
\* verification, a profile, a Google link) brings an ended session back, and a
\* row that such a save inserts again after its removal has no session.
ImplementsSessions == Sessions!Spec

\* The stored password is always the one that the last sign-up or reset
\* wrote: no overlapping login, verification or link restores an older one,
\* neither by an update nor by inserting a removed row again.
ImplementsCredentials == Credentials!Spec
=============================================================================
