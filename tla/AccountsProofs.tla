--------------------------- MODULE AccountsProofs ---------------------------
(***************************************************************************)
(* Theorems about Accounts, for every number of users, businesses, codes   *)
(* and overlapping requests, with failures and crashes.                    *)
(***************************************************************************)
EXTENDS Accounts, TLAPS

\* States in which a request works on a user that has been stored, and those
\* in which it holds a copy of the row.
AtWork == {"code", "mailed", "login", "verified", "read", "compared", "business", "deleting"}
HasCopy == {"read", "compared", "business"}

\* States in which a request is going to change a hidden column, if it has
\* set one.
Changing == {"creating", "read", "compared"}

IsBusiness(b) == b \in Businesses /\ businesses[b] \in BusinessRow

\* What a request has set at each of its states.
InOrder(q) ==
  /\ q.pc \in AtWork \union {"owner", "replace"} => q.user \in Users
  /\ q.pc \in AtWork => users[q.user] # None
  /\ q.pc = "creating" => q.copy \in UserRow /\ q.email = q.copy.email /\ q.copy.businessId = None
  /\ q.pc = "code" => q.email \in Emails
  /\ q.pc = "mailed" => q.code \in Codes /\ mails[q.code] # None
  /\ q.pc \in HasCopy => q.copy \in UserCopy
  /\ q.pc \in HasCopy /\ q.copy.businessId # None => IsBusiness(q.copy.businessId)
  /\ q.pc \in {"owner", "business", "replace"} => q.businessCopy \in BusinessRow
  /\ q.pc = "replace" => IsBusiness(q.business)
  /\ q.pc \in {"read", "compared"} /\ q.businessCopy # Unset => q.copy.businessId # None

RequestsInOrder == \A r \in Requests : InOrder(request[r])

\* A hidden column is known to a copy, and then saved, just when the handler
\* has assigned it.
KnowsWhatItSets(q) ==
  /\ q.pc \in {"owner", "business"} => q.set = None
  /\ q.pc \in HasCopy =>
       /\ q.copy.password # Unset <=> q.set = "password"
       /\ q.copy.hashedRefreshToken # Unset <=> q.set = "hashedRefreshToken"
  /\ q.pc = "compared" /\ "insert" \notin q.columns =>
       /\ "password" \in q.columns <=> q.set = "password"
       /\ "hashedRefreshToken" \in q.columns <=> q.set = "hashedRefreshToken"

CopiesKnowWhatTheySet == \A r \in Requests : KnowsWhatItSets(request[r])

LinksExist ==
  \A u \in Users : Exists(u) /\ users[u].businessId # None => IsBusiness(users[u].businessId)

Typed == TypeOK /\ RequestsInOrder /\ CopiesKnowWhatTheySet /\ LinksExist

\* What request q says of emails, when f is the email of each user.
Vouches(q, f) ==
  /\ q.pc \in HasCopy => q.copy.email = f[q.user] /\ (q.copy.isEmailVerified => ReasonToVerify(f[q.user]))
  /\ q.pc = "verified" => ReasonToVerify(f[q.user])
  /\ q.pc = "creating" => (q.copy.isEmailVerified => ReasonToVerify(q.copy.email))

EmailsAre(f) ==
  /\ \A u \in Users : Exists(u) =>
       users[u].email = f[u] /\ (users[u].isEmailVerified => ReasonToVerify(f[u]))
  /\ \A r \in Requests : Vouches(request[r], f)

\* A user has one email, also when a stale copy inserts its row again.
EmailsInv == \E f \in [Users -> Maybe(Emails)] : EmailsAre(f)

\* Business b was created for user u.
Founded(u, b) == businesses[b] # None /\ founder[b] = u

\* The businesses that request q works on were created for its user, as long
\* as no update gave them to another owner, and the owner that it is going to
\* write is its user.
LinksOwn(q) ==
  /\ q.pc \in HasCopy /\ q.copy.businessId # None => Founded(q.user, q.copy.businessId)
  /\ q.pc \in {"owner", "business", "replace"} => q.businessCopy.ownerId = q.user
  /\ q.pc \in {"read", "compared"} /\ q.businessCopy # Unset =>
       q.copy.businessId \in handedOver \/ q.businessCopy.ownerId = q.user
  /\ q.pc = "replace" => q.business \in handedOver \/ Founded(q.user, q.business)

LinksFounded ==
  \A u \in Users : Exists(u) /\ users[u].businessId # None => Founded(u, users[u].businessId)

FoundersOwn ==
  \A b \in Businesses : businesses[b] # None =>
    b \in handedOver \/ businesses[b].ownerId = founder[b]

OwnInv == LinksFounded /\ FoundersOwn /\ \A r \in Requests : LinksOwn(request[r])

----------------------------------------------------------------------------
(***************************************************************************)
(* The records that the actions build.                                     *)
(***************************************************************************)

LEMMA IdleRequest ==
  /\ Idle \in Request
  /\ Idle.pc = "idle" /\ Idle.user = None /\ Idle.email = None /\ Idle.code = None
  /\ Idle.kind = "NEW" /\ Idle.next = "answer" /\ Idle.copy = None /\ Idle.set = None
  /\ Idle.business = None /\ Idle.businessCopy = Unset /\ Idle.columns = {}
BY DEF Idle, Request, Maybe

LEMMA IdleQuiet ==
  InOrder(Idle) /\ KnowsWhatItSets(Idle) /\ LinksOwn(Idle) /\ \A f : Vouches(Idle, f)
BY IdleRequest DEF InOrder, KnowsWhatItSets, LinksOwn, Vouches, AtWork, HasCopy

LEMMA SavingRequest ==
  ASSUME NEW u \in Users, NEW copy \in UserCopy, NEW bc \in BusinessRow \union {Unset},
         NEW set \in Maybe(Hidden), NEW next \in {"answer", "login"}
  PROVE  LET q == Saving(u, copy, bc, set, next) IN
         /\ q \in Request
         /\ q.pc = "read" /\ q.user = u /\ q.copy = copy /\ q.businessCopy = bc
         /\ q.set = set /\ q.next = next
<1>1. u \in Maybe(Users)
  BY DEF Maybe
<1>2. QED
  BY <1>1, IdleRequest DEF Saving, Request

LEMMA LoggingInRequest ==
  ASSUME NEW u \in Users
  PROVE  LET q == LoggingIn(u) IN q \in Request /\ q.pc = "login" /\ q.user = u
<1>1. u \in Maybe(Users)
  BY DEF Maybe
<1>2. QED
  BY <1>1, IdleRequest DEF LoggingIn, Request

LEMMA SignupRequest ==
  ASSUME NEW u \in Users, NEW e \in Emails, NEW kind \in {"NEW", "EXISTING"}
  PROVE  LET q == Signup(u, e, kind) IN
         q \in Request /\ q.pc = "code" /\ q.user = u /\ q.email = e
<1>1. u \in Maybe(Users) /\ e \in Maybe(Emails)
  BY DEF Maybe
<1>2. QED
  BY <1>1, IdleRequest DEF Signup, Request

\* What findOne gives to a handler.
LEMMA LoadedCopy ==
  ASSUME NEW u \in Users, Exists(u)
  PROVE  /\ Loaded(u) \in UserCopy
         /\ Loaded(u).email = users[u].email
         /\ Loaded(u).firstName = users[u].firstName
         /\ Loaded(u).googleId = users[u].googleId
         /\ Loaded(u).isEmailVerified = users[u].isEmailVerified
         /\ Loaded(u).businessId = users[u].businessId
         /\ Loaded(u).password = Unset
         /\ Loaded(u).hashedRefreshToken = Unset
BY DEF Loaded, Exists, UserRow, UserCopy

\* What the handlers make of it.
LEMMA ChangedCopy ==
  ASSUME NEW copy \in UserCopy
  PROVE  /\ \A g \in GoogleIds :
              LET new == [copy EXCEPT !.googleId = g, !.isEmailVerified = TRUE] IN
              /\ new \in UserCopy
              /\ new.email = copy.email /\ new.businessId = copy.businessId
              /\ new.password = copy.password
              /\ new.hashedRefreshToken = copy.hashedRefreshToken
         /\ LET new == [copy EXCEPT !.isEmailVerified = TRUE] IN
              /\ new \in UserCopy
              /\ new.email = copy.email /\ new.businessId = copy.businessId
              /\ new.password = copy.password
              /\ new.hashedRefreshToken = copy.hashedRefreshToken
         /\ \A token \in Maybe(Tokens) :
              LET new == [copy EXCEPT !.hashedRefreshToken = token] IN
              /\ new \in UserCopy
              /\ new.email = copy.email /\ new.businessId = copy.businessId
              /\ new.isEmailVerified = copy.isEmailVerified
              /\ new.password = copy.password
              /\ new.hashedRefreshToken = token
         /\ \A name \in Names :
              LET new == [copy EXCEPT !.firstName = name] IN
              /\ new \in UserCopy
              /\ new.email = copy.email /\ new.businessId = copy.businessId
              /\ new.isEmailVerified = copy.isEmailVerified
              /\ new.password = copy.password
              /\ new.hashedRefreshToken = copy.hashedRefreshToken
         /\ \A password \in Passwords :
              LET new == [copy EXCEPT !.password = password] IN
              /\ new \in UserCopy
              /\ new.email = copy.email /\ new.businessId = copy.businessId
              /\ new.isEmailVerified = copy.isEmailVerified
              /\ new.password = password
              /\ new.hashedRefreshToken = copy.hashedRefreshToken
         /\ \A b \in Businesses :
              /\ LinkTo(copy, b) \in UserCopy
              /\ LinkTo(copy, b).email = copy.email /\ LinkTo(copy, b).businessId = b
              /\ LinkTo(copy, b).isEmailVerified = copy.isEmailVerified
              /\ LinkTo(copy, b).password = copy.password
              /\ LinkTo(copy, b).hashedRefreshToken = copy.hashedRefreshToken
BY DEF UserCopy, Maybe, LinkTo

LEMMA NewUserRow ==
  ASSUME NEW e \in Emails, NEW name \in Names, NEW password \in Maybe(Passwords),
         NEW g \in Maybe(GoogleIds)
  PROVE  LET new == NewUser(e, name, password, g) IN
         /\ new \in UserRow
         /\ new.email = e /\ new.businessId = None
         /\ g = None => ~new.isEmailVerified
         /\ new.password = password /\ new.hashedRefreshToken = None
BY DEF NewUser, UserRow, Maybe

----------------------------------------------------------------------------
(***************************************************************************)
(* Steps that change a request and no table.                               *)
(***************************************************************************)

\* What request r becomes, apart from its place among the requests: an
\* addition to the invariants below.  A hidden column that it is going to
\* write is one that it asks for now or has asked for before.
Takes(r, q) ==
  /\ q \in Request
  /\ Become(r, q)
  /\ InOrder(q)
  /\ KnowsWhatItSets(q)
  /\ \A f \in [Users -> Maybe(Emails)] : EmailsAre(f) => Vouches(q, f)'
  /\ OwnInv => LinksOwn(q)
  /\ q.pc = "creating" => request[r].pc \notin Changing
  /\ q.pc \in {"read", "compared"} =>
       \/ Exists(q.user) /\ request[r].pc \notin Changing
       \/ /\ request[r].pc = "read"
          /\ q.user = request[r].user /\ q.set = request[r].set /\ q.copy = request[r].copy

TablesStay ==
  /\ UNCHANGED <<users, businesses, mails, routes, founder, handedOver>>
  /\ vouched' \in SUBSET Emails /\ vouched \subseteq vouched'
  /\ named' \in SUBSET Emails /\ named \subseteq named'

Quiet(r) == TablesStay /\ \E q : Takes(r, q)

\* What proves an email goes on proving it.
ProofsKept ==
  /\ vouched \subseteq vouched' /\ named \subseteq named'
  /\ \A c \in Codes : mails[c] # None =>
       mails'[c] # None /\ mails'[c].to = mails[c].to /\ mails'[c].shown = mails[c].shown

LEMMA ReasonStays ==
  ASSUME ProofsKept,
         NEW e, ReasonToVerify(e)
  PROVE  ReasonToVerify(e)'
BY DEF ReasonToVerify, ProofsKept

LEMMA OthersVouch ==
  ASSUME ProofsKept,
         NEW f, NEW q, Vouches(q, f)
  PROVE  Vouches(q, f)'
<1>1. \A e : ReasonToVerify(e) => ReasonToVerify(e)'
  BY ReasonStays
<1>2. QED
  BY <1>1 DEF Vouches

LEMMA IdleTakes ==
  ASSUME NEW r \in Requests, Become(r, Idle)
  PROVE  Takes(r, Idle)
<1>1. \A f : Vouches(Idle, f)'
  BY IdleRequest DEF Vouches, HasCopy
<1>2. QED
  BY <1>1, IdleRequest, IdleQuiet DEF Takes

LEMMA LoggingInTakes ==
  ASSUME NEW r \in Requests, NEW u \in Users, users[u] # None, Become(r, LoggingIn(u))
  PROVE  \E q : Takes(r, q)
<1>1. PICK q : q = LoggingIn(u)
  OBVIOUS
<1>2. q \in Request /\ q.pc = "login" /\ q.user = u /\ Become(r, q)
  BY <1>1, LoggingInRequest
<1>3. InOrder(q) /\ KnowsWhatItSets(q) /\ LinksOwn(q)
  BY <1>2 DEF InOrder, KnowsWhatItSets, LinksOwn, HasCopy, AtWork
<1>4. \A f : Vouches(q, f)'
  BY <1>2 DEF Vouches, HasCopy
<1>5. QED
  BY <1>2, <1>3, <1>4 DEF Takes

\* A handler is about to save a copy of the row that it has loaded.
LEMMA SavingTakes ==
  ASSUME Typed, NEW r \in Requests, NEW u \in Users, Exists(u),
         NEW copy \in UserCopy, NEW bc \in {Unset, LoadedBusiness(u)},
         NEW set \in Maybe(Hidden), NEW next \in {"answer", "login"},
         copy.email = users[u].email, copy.businessId = users[u].businessId,
         \/ copy.isEmailVerified = users[u].isEmailVerified
         \/ \A f \in [Users -> Maybe(Emails)] : EmailsAre(f) => ReasonToVerify(copy.email)',
         copy.password # Unset <=> set = "password",
         copy.hashedRefreshToken # Unset <=> set = "hashedRefreshToken",
         request[r].pc \notin Changing,
         Become(r, Saving(u, copy, bc, set, next)),
         UNCHANGED mails, vouched \subseteq vouched', named \subseteq named'
  PROVE  \E q : Takes(r, q)
<1>1. PICK b : b = users[u].businessId
  OBVIOUS
<1>2. b # None => IsBusiness(b)
  BY <1>1 DEF Typed, LinksExist
<1>3. bc \in BusinessRow \union {Unset} /\ (bc # Unset => b # None /\ bc = businesses[b])
  BY <1>1, <1>2 DEF LoadedBusiness, IsBusiness
<1>4. PICK q : q = Saving(u, copy, bc, set, next)
  OBVIOUS
<1>5. /\ q \in Request /\ q.pc = "read" /\ q.user = u /\ q.copy = copy /\ q.businessCopy = bc
      /\ q.set = set /\ Become(r, q)
  BY <1>3, <1>4, SavingRequest
<1>6. InOrder(q)
  <2>1. users[u] # None
    BY SentinelAssumption DEF Exists
  <2>2. QED
    BY <1>1, <1>2, <1>3, <1>5, <2>1 DEF InOrder, AtWork, HasCopy
<1>7. KnowsWhatItSets(q)
  BY <1>5 DEF KnowsWhatItSets
<1>8. ASSUME NEW f \in [Users -> Maybe(Emails)], EmailsAre(f)
      PROVE  Vouches(q, f)'
  <2>1. f[u] = users[u].email
    BY <1>8 DEF EmailsAre
  <2>2. users[u].isEmailVerified => ReasonToVerify(f[u])
    BY <1>8 DEF EmailsAre
  <2>3. ReasonToVerify(f[u]) => ReasonToVerify(f[u])'
    BY ReasonStays DEF ProofsKept
  <2>4. copy.isEmailVerified => ReasonToVerify(f[u])'
    BY <1>8, <2>1, <2>2, <2>3
  <2>5. QED
    BY <1>5, <2>1, <2>4 DEF Vouches
<1>9. ASSUME OwnInv
      PROVE  LinksOwn(q)
  <2>1. b # None => Founded(u, b)
    BY <1>1, <1>9 DEF OwnInv, LinksFounded
  <2>2. b # None => b \in Businesses /\ (b \in handedOver \/ businesses[b].ownerId = u)
    BY <1>2, <1>9, <2>1 DEF OwnInv, FoundersOwn, Founded, IsBusiness
  <2>3. QED
    BY <1>1, <1>3, <1>5, <2>1, <2>2 DEF LinksOwn, HasCopy
<1>10. QED
  BY <1>5, <1>6, <1>7, <1>8, <1>9 DEF Takes

LEMMA QuietSaving ==
  ASSUME Typed, NEW r \in Requests, NEW u \in Users, Exists(u),
         NEW copy \in UserCopy, NEW bc, bc = Unset \/ bc = LoadedBusiness(u),
         NEW set \in Maybe(Hidden), NEW next \in {"answer", "login"},
         copy.email = users[u].email, copy.businessId = users[u].businessId,
         copy.isEmailVerified = users[u].isEmailVerified,
         copy.password # Unset <=> set = "password",
         copy.hashedRefreshToken # Unset <=> set = "hashedRefreshToken",
         request[r].pc \notin Changing,
         Become(r, Saving(u, copy, bc, set, next)),
         UNCHANGED <<users, businesses, mails, routes, history>>
  PROVE  Quiet(r)
<1>1. \E q : Takes(r, q)
  BY SavingTakes DEF history
<1>2. QED
  BY <1>1 DEF Quiet, TablesStay, Typed, TypeOK, history

\* A request for a code, or its next mail.
LEMMA CodeTakes ==
  ASSUME NEW r \in Requests, NEW q \in Request, q.pc = "code", q.user \in Users,
         users[q.user] # None, q.email \in Emails, Become(r, q)
  PROVE  Takes(r, q)
<1>1. InOrder(q) /\ KnowsWhatItSets(q) /\ LinksOwn(q)
  BY DEF InOrder, KnowsWhatItSets, LinksOwn, HasCopy, AtWork
<1>2. \A f : Vouches(q, f)'
  BY DEF Vouches, HasCopy
<1>3. QED
  BY <1>1, <1>2 DEF Takes

\* An account that is about to be stored.
LEMMA StartAccountTakes ==
  ASSUME NEW r \in Requests, NEW e \in Emails, NEW new \in UserRow, new.email = e,
         new.businessId = None,
         new.isEmailVerified => ReasonToVerify(e)', StartAccount(r, e, new),
         request[r].pc = "idle"
  PROVE  \E q : Takes(r, q)
<1>1. PICK q : q = [Idle EXCEPT !.pc = "creating", !.email = e, !.copy = new]
  OBVIOUS
<1>2. new \in UserCopy /\ e \in Maybe(Emails)
  BY DEF UserRow, UserCopy, Maybe
<1>3. q \in Request /\ q.pc = "creating" /\ q.email = e /\ q.copy = new /\ Become(r, q)
  BY <1>1, <1>2, IdleRequest DEF Request, StartAccount
<1>4. InOrder(q) /\ KnowsWhatItSets(q) /\ LinksOwn(q)
  BY <1>3 DEF InOrder, KnowsWhatItSets, LinksOwn, HasCopy, AtWork
<1>5. \A f : Vouches(q, f)'
  BY <1>3 DEF Vouches, HasCopy
<1>6. QED
  BY <1>3, <1>4, <1>5 DEF Takes, Changing

LEMMA SignUpQuiet ==
  ASSUME Typed, NEW r \in Requests, SignUp(r)
  PROVE  Quiet(r)
<1>1. ASSUME NEW e \in Emails, NEW name \in SignUpNames, NEW password \in Maybe(Passwords),
             StartAccount(r, e, NewUser(e, name, password, None))
      PROVE  \E q : Takes(r, q)
  <2>1. PICK new : new = NewUser(e, name, password, None)
    OBVIOUS
  <2>2. name \in Names /\ None \in Maybe(GoogleIds)
    BY AccountsAssumption DEF Maybe
  <2>3. new \in UserRow /\ new.email = e /\ new.businessId = None /\ ~new.isEmailVerified
    BY <2>1, <2>2, NewUserRow
  <2>4. request[r].pc = "idle"
    BY DEF SignUp, Called
  <2>5. QED
    BY <1>1, <2>1, <2>3, <2>4, StartAccountTakes
<1>2. ASSUME NEW e \in Emails, NEW u \in Users, HasEmail(u, e), Become(r, Signup(u, e, "EXISTING"))
      PROVE  \E q : Takes(r, q)
  <2>1. PICK q : q = Signup(u, e, "EXISTING")
    OBVIOUS
  <2>2. q \in Request /\ q.pc = "code" /\ q.user = u /\ q.email = e
    BY <2>1, SignupRequest
  <2>3. users[u] # None
    BY <1>2, SentinelAssumption DEF HasEmail, Exists
  <2>4. QED
    BY <1>2, <2>1, <2>2, <2>3, CodeTakes
<1>3. \E q : Takes(r, q)
  BY <1>1, <1>2 DEF SignUp
<1>4. QED
  BY <1>3 DEF SignUp, Quiet, TablesStay, Typed, TypeOK, history

LEMMA GoogleUserQuiet ==
  ASSUME Typed, NEW r \in Requests, NEW e \in Emails, NEW name \in SignUpNames,
         NEW g \in GoogleIds, GoogleUser(r, e, name, g), request[r].pc = "idle",
         TablesStay, ReasonToVerify(e)'
  PROVE  Quiet(r)
<1>1. UNCHANGED mails /\ vouched \subseteq vouched' /\ named \subseteq named'
  BY DEF TablesStay
<1>2. CASE StartAccount(r, e, NewUser(e, name, None, g))
  <2>1. PICK new : new = NewUser(e, name, None, g)
    OBVIOUS
  <2>2. name \in Names /\ None \in Maybe(Passwords) /\ g \in Maybe(GoogleIds)
    BY AccountsAssumption DEF Maybe
  <2>3. new \in UserRow /\ new.email = e /\ new.businessId = None
    BY <2>1, <2>2, NewUserRow
  <2>4. \E q : Takes(r, q)
    BY <1>2, <2>1, <2>3, StartAccountTakes
  <2>5. QED
    BY <2>4 DEF Quiet
<1>3. ASSUME NEW u \in Users, HasEmail(u, e), LinkGoogle(r, u, g)
      PROVE  Quiet(r)
  <2>1. Exists(u) /\ users[u].email = e /\ users[u] # None
    BY <1>3, SentinelAssumption DEF HasEmail, Exists
  <2>2. CASE Become(r, LoggingIn(u))
    BY <2>1, <2>2, LoggingInTakes DEF Quiet
  <2>3. CASE Become(r, Saving(u, [Loaded(u) EXCEPT !.googleId = g, !.isEmailVerified = TRUE],
                              Unset, None, "login"))
    <3>1. PICK row, copy : row = Loaded(u) /\ copy = [row EXCEPT !.googleId = g, !.isEmailVerified = TRUE]
      OBVIOUS
    <3>2. /\ copy \in UserCopy
          /\ copy.email = e /\ copy.businessId = users[u].businessId
          /\ copy.password = Unset /\ copy.hashedRefreshToken = Unset
      <4>1. /\ row \in UserCopy /\ row.email = e /\ row.businessId = users[u].businessId
            /\ row.password = Unset /\ row.hashedRefreshToken = Unset
        BY <2>1, <3>1, LoadedCopy
      <4>2. QED
        BY <3>1, <4>1, ChangedCopy
    <3>3. None \in Maybe(Hidden) /\ None # "password" /\ None # "hashedRefreshToken"
      BY SentinelAssumption DEF Maybe, Columns, Hidden
    <3>4. ReasonToVerify(copy.email)'
      BY <3>2
    <3>5. Become(r, Saving(u, copy, Unset, None, "login"))
      BY <2>3, <3>1
    <3>6. \E q : Takes(r, q)
      BY <1>1, <2>1, <3>2, <3>3, <3>4, <3>5, SavingTakes DEF Changing
    <3>7. QED
      BY <3>6 DEF Quiet
  <2>4. QED
    BY <1>3, <2>2, <2>3 DEF LinkGoogle
<1>4. QED
  BY <1>2, <1>3 DEF GoogleUser

LEMMA GoogleSignInQuiet ==
  ASSUME Typed, NEW r \in Requests, GoogleSignIn(r) \/ GoogleMobileSignIn(r)
  PROVE  Quiet(r)
<1>1. PICK e \in Emails, name \in SignUpNames, g \in GoogleIds :
        /\ GoogleUser(r, e, name, g)
        /\ \/ vouched' = vouched \union {e} /\ named' = named
           \/ named' = named \union {e} /\ vouched' = vouched
  BY DEF GoogleSignIn, GoogleMobileSignIn
<1>2. ReasonToVerify(e)'
  BY <1>1 DEF ReasonToVerify
<1>3. TablesStay /\ request[r].pc = "idle"
  BY <1>1 DEF GoogleSignIn, GoogleMobileSignIn, Called, TablesStay, Typed, TypeOK
<1>4. QED
  BY <1>1, <1>2, <1>3, GoogleUserQuiet

LEMMA AskForCode ==
  ASSUME Typed, NEW r \in Requests, NEW u \in Users, Exists(u), NEW e, e = users[u].email,
         NEW kind \in {"NEW", "EXISTING"},
         Become(r, [Idle EXCEPT !.pc = "code", !.user = u, !.email = e, !.kind = kind]),
         UNCHANGED <<users, businesses, mails, routes, history>>
  PROVE  Quiet(r)
<1>1. PICK q : q = [Idle EXCEPT !.pc = "code", !.user = u, !.email = e, !.kind = kind]
  OBVIOUS
<1>2. e \in Emails /\ users[u] # None
  BY SentinelAssumption DEF Exists, UserRow
<1>3. u \in Maybe(Users) /\ e \in Maybe(Emails)
  BY <1>2 DEF Maybe
<1>4. q \in Request /\ q.pc = "code" /\ q.user = u /\ q.email = e
  BY <1>1, <1>3, IdleRequest DEF Request
<1>5. Takes(r, q)
  BY <1>1, <1>2, <1>4, CodeTakes
<1>6. QED
  BY <1>5 DEF Quiet, TablesStay, Typed, TypeOK, history

LEMMA AskForCodeQuiet ==
  ASSUME Typed, NEW r \in Requests, ConfirmEmail(r) \/ ResendCode(r)
  PROVE  Quiet(r)
<1>1. CASE ConfirmEmail(r)
  <2>1. PICK u, e :
          /\ u \in Users /\ Exists(u) /\ e = users[u].email
          /\ Become(r, [Idle EXCEPT !.pc = "code", !.user = u, !.email = e])
    BY <1>1 DEF ConfirmEmail
  <2>2. [Idle EXCEPT !.pc = "code", !.user = u, !.email = e]
          = [Idle EXCEPT !.pc = "code", !.user = u, !.email = e, !.kind = "NEW"]
    BY IdleRequest DEF Request
  <2>3. QED
    BY <1>1, <2>1, <2>2, AskForCode DEF ConfirmEmail
<1>2. CASE ResendCode(r)
  <2>1. PICK u, e :
          /\ u \in Users /\ Exists(u) /\ users[u].email = e
          /\ Become(r, [Idle EXCEPT !.pc = "code", !.user = u, !.email = e, !.kind = "EXISTING"])
    BY <1>2 DEF ResendCode, HasEmail
  <2>2. QED
    BY <1>2, <2>1, AskForCode DEF ResendCode
<1>3. QED
  BY <1>1, <1>2

LEMMA VerifyCodeQuiet ==
  ASSUME Typed, NEW r \in Requests, VerifyCode(r)
  PROVE  Quiet(r)
<1>1. PICK u \in Users, c \in Codes :
        /\ Exists(u) /\ mails[c] # None /\ mails[c].shown /\ Matches(c, users[u].email)
        /\ Become(r, [Idle EXCEPT !.pc = "verified", !.user = u])
  BY DEF VerifyCode
<1>2. PICK q : q = [Idle EXCEPT !.pc = "verified", !.user = u]
  OBVIOUS
<1>3. u \in Maybe(Users) /\ users[u] # None
  BY <1>1, SentinelAssumption DEF Maybe, Exists
<1>4. q \in Request /\ q.pc = "verified" /\ q.user = u /\ Become(r, q)
  BY <1>1, <1>2, <1>3, IdleRequest DEF Request
<1>5. InOrder(q) /\ KnowsWhatItSets(q) /\ LinksOwn(q)
  BY <1>3, <1>4 DEF InOrder, KnowsWhatItSets, LinksOwn, HasCopy, AtWork
<1>6. ASSUME NEW f \in [Users -> Maybe(Emails)], EmailsAre(f)
      PROVE  Vouches(q, f)'
  <2>1. f[u] = users[u].email
    BY <1>1, <1>6 DEF EmailsAre
  <2>2. ReasonToVerify(f[u])
    BY <1>1, <2>1 DEF ReasonToVerify, Matches
  <2>3. Vouches(q, f)
    BY <1>4, <2>2 DEF Vouches, HasCopy
  <2>4. vouched' = vouched /\ named' = named /\ mails' = mails
    BY DEF VerifyCode, history
  <2>5. QED
    BY <2>3, <2>4, OthersVouch DEF ProofsKept
<1>7. Takes(r, q)
  BY <1>4, <1>5, <1>6 DEF Takes
<1>8. QED
  BY <1>7 DEF VerifyCode, Quiet, TablesStay, Typed, TypeOK, history

LEMMA SetEmailVerificationStateQuiet ==
  ASSUME Typed, NEW r \in Requests, SetEmailVerificationState(r)
  PROVE  Quiet(r)
<1>1. PICK u, row, copy, bc :
        /\ u = request[r].user /\ row = Loaded(u) /\ bc = LoadedBusiness(u)
        /\ copy = [row EXCEPT !.isEmailVerified = TRUE]
  OBVIOUS
<1>2. request[r].pc = "verified" /\ Exists(u) /\ u \in Users
  BY <1>1 DEF SetEmailVerificationState, Typed, RequestsInOrder, InOrder, AtWork
<1>3. /\ row \in UserCopy /\ row.email = users[u].email /\ row.businessId = users[u].businessId
      /\ row.password = Unset /\ row.hashedRefreshToken = Unset
  BY <1>1, <1>2, LoadedCopy
<1>4. /\ copy \in UserCopy /\ copy.email = users[u].email
      /\ copy.businessId = users[u].businessId
      /\ copy.password = Unset /\ copy.hashedRefreshToken = Unset
  BY <1>1, <1>3, ChangedCopy
<1>5. ASSUME NEW f \in [Users -> Maybe(Emails)], EmailsAre(f)
      PROVE  ReasonToVerify(copy.email)'
  <2>1. Vouches(request[r], f) /\ f[u] = copy.email
    BY <1>2, <1>4, <1>5 DEF EmailsAre
  <2>2. ReasonToVerify(copy.email)
    BY <1>1, <1>2, <2>1 DEF Vouches
  <2>3. QED
    BY <2>2, ReasonStays DEF ProofsKept, SetEmailVerificationState, history
<1>6. None \in Maybe(Hidden) /\ None # "password" /\ None # "hashedRefreshToken"
  BY SentinelAssumption DEF Maybe, Columns, Hidden
<1>7. Become(r, Saving(u, copy, bc, None, "answer"))
  BY <1>1 DEF SetEmailVerificationState
<1>8. \E q : Takes(r, q)
  <2>1. /\ mails' = mails /\ vouched' = vouched /\ named' = named
        /\ bc \in {Unset, LoadedBusiness(u)}
    BY <1>1 DEF SetEmailVerificationState, history
  <2>2. QED
    BY <1>2, <1>4, <1>5, <1>6, <1>7, <2>1, SavingTakes DEF Changing
<1>9. QED
  BY <1>8 DEF SetEmailVerificationState, Quiet, TablesStay, Typed, TypeOK, history

LEMMA OpenSessionQuiet ==
  ASSUME Typed, NEW r \in Requests, SignIn(r) \/ Refresh(r)
  PROVE  Quiet(r)
<1>1. PICK u \in Users : Exists(u) /\ Become(r, LoggingIn(u))
  BY DEF SignIn, Refresh, TokenMatches
<1>2. users[u] # None
  BY <1>1, SentinelAssumption DEF Exists
<1>3. \E q : Takes(r, q)
  BY <1>1, <1>2, LoggingInTakes
<1>4. QED
  BY <1>3 DEF SignIn, Refresh, Quiet, TablesStay, Typed, TypeOK, history

LEMMA StoreTokenQuiet ==
  ASSUME Typed, NEW r \in Requests, Login(r) \/ Logout(r)
  PROVE  Quiet(r)
<1>1. PICK u, token :
        /\ u \in Users /\ token \in Maybe(Tokens)
        /\ UpdateUserRefreshToken(r, u, token) /\ request[r].pc \in {"idle", "login"}
  <2>1. CASE Login(r)
    <3>1. PICK token \in Tokens : UpdateUserRefreshToken(r, request[r].user, token)
      BY <2>1 DEF Login
    <3>2. request[r].pc = "login" /\ request[r].user \in Users
      BY <2>1 DEF Login, Typed, RequestsInOrder, InOrder, AtWork
    <3>3. QED
      BY <3>1, <3>2 DEF Maybe
  <2>2. CASE Logout(r)
    BY <2>2 DEF Logout, Called, Maybe
  <2>3. QED
    BY <2>1, <2>2
<1>2. PICK row, copy : row = Loaded(u) /\ copy = [row EXCEPT !.hashedRefreshToken = token]
  OBVIOUS
<1>3. /\ Exists(u) /\ Become(r, Saving(u, copy, Unset, "hashedRefreshToken", "answer"))
  BY <1>1, <1>2 DEF UpdateUserRefreshToken
<1>4. /\ row \in UserCopy /\ row.email = users[u].email /\ row.businessId = users[u].businessId
      /\ row.isEmailVerified = users[u].isEmailVerified
      /\ row.password = Unset /\ row.hashedRefreshToken = Unset
  BY <1>1, <1>2, <1>3, LoadedCopy
<1>5. /\ copy \in UserCopy /\ copy.email = users[u].email
      /\ copy.businessId = users[u].businessId
      /\ copy.isEmailVerified = users[u].isEmailVerified
      /\ copy.password = Unset /\ copy.hashedRefreshToken = token
  BY <1>1, <1>2, <1>4, ChangedCopy
<1>6. token # Unset /\ "hashedRefreshToken" \in Maybe(Hidden)
  BY <1>1, SentinelAssumption DEF Maybe, Hidden
<1>7. UNCHANGED <<users, businesses, mails, routes, history>>
  BY DEF Login, Logout
<1>8. QED
  BY <1>1, <1>3, <1>5, <1>6, <1>7, QuietSaving DEF Changing

LEMMA UpdateUserProfileQuiet ==
  ASSUME Typed, NEW r \in Requests, UpdateUserProfile(r)
  PROVE  Quiet(r)
<1>1. PICK u, name, row, copy, bc :
        /\ u \in Users /\ name \in Names
        /\ Exists(u) /\ row = Loaded(u) /\ bc = LoadedBusiness(u)
        /\ copy = [row EXCEPT !.firstName = name]
        /\ Become(r, Saving(u, copy, bc, None, "answer"))
  BY DEF UpdateUserProfile
<1>2. /\ row \in UserCopy /\ row.email = users[u].email /\ row.businessId = users[u].businessId
      /\ row.isEmailVerified = users[u].isEmailVerified
      /\ row.password = Unset /\ row.hashedRefreshToken = Unset
  BY <1>1, LoadedCopy
<1>3. /\ copy \in UserCopy /\ copy.email = users[u].email
      /\ copy.businessId = users[u].businessId
      /\ copy.isEmailVerified = users[u].isEmailVerified
      /\ copy.password = Unset /\ copy.hashedRefreshToken = Unset
  BY <1>1, <1>2, ChangedCopy
<1>4. None \in Maybe(Hidden) /\ None # "password" /\ None # "hashedRefreshToken"
  BY SentinelAssumption DEF Maybe, Columns, Hidden
<1>5. UNCHANGED <<users, businesses, mails, routes, history>> /\ request[r].pc = "idle"
  BY DEF UpdateUserProfile, Called
<1>6. QED
  BY <1>1, <1>3, <1>4, <1>5, QuietSaving DEF Changing

LEMMA ResetPasswordQuiet ==
  ASSUME Typed, NEW r \in Requests, ResetPassword(r)
  PROVE  Quiet(r)
<1>1. PICK u, password, row, copy, bc :
        /\ u \in Users /\ password \in Passwords
        /\ Exists(u) /\ row = Loaded(u) /\ bc = LoadedBusiness(u)
        /\ copy = [row EXCEPT !.password = password]
        /\ Become(r, Saving(u, copy, bc, "password", "answer"))
  BY DEF ResetPassword
<1>2. /\ row \in UserCopy /\ row.email = users[u].email /\ row.businessId = users[u].businessId
      /\ row.isEmailVerified = users[u].isEmailVerified
      /\ row.password = Unset /\ row.hashedRefreshToken = Unset
  BY <1>1, LoadedCopy
<1>3. /\ copy \in UserCopy /\ copy.email = users[u].email
      /\ copy.businessId = users[u].businessId
      /\ copy.isEmailVerified = users[u].isEmailVerified
      /\ copy.password = password /\ copy.hashedRefreshToken = Unset
  BY <1>1, <1>2, ChangedCopy
<1>4. password # Unset /\ "password" \in Maybe(Hidden)
  BY <1>1, SentinelAssumption DEF Maybe, Hidden
<1>5. UNCHANGED <<users, businesses, mails, routes, history>> /\ request[r].pc = "idle"
  BY DEF ResetPassword, Called
<1>6. QED
  BY <1>1, <1>3, <1>4, <1>5, QuietSaving DEF Changing

LEMMA DeleteUserQuiet ==
  ASSUME Typed, NEW r \in Requests, DeleteUser(r)
  PROVE  Quiet(r)
<1>1. PICK u \in Users : Exists(u) /\ Become(r, [Idle EXCEPT !.pc = "deleting", !.user = u])
  BY DEF DeleteUser
<1>2. PICK q : q = [Idle EXCEPT !.pc = "deleting", !.user = u]
  OBVIOUS
<1>3. u \in Maybe(Users) /\ users[u] # None
  BY <1>1, SentinelAssumption DEF Maybe, Exists
<1>4. q \in Request /\ q.pc = "deleting" /\ q.user = u /\ Become(r, q)
  BY <1>1, <1>2, <1>3, IdleRequest DEF Request
<1>5. InOrder(q) /\ KnowsWhatItSets(q) /\ LinksOwn(q)
  BY <1>3, <1>4 DEF InOrder, KnowsWhatItSets, LinksOwn, HasCopy, AtWork
<1>6. \A f : Vouches(q, f)'
  BY <1>4 DEF Vouches, HasCopy
<1>7. Takes(r, q)
  BY <1>4, <1>5, <1>6 DEF Takes
<1>8. QED
  BY <1>7 DEF DeleteUser, Quiet, TablesStay, Typed, TypeOK, history

LEMMA CreateBusinessQuiet ==
  ASSUME Typed, NEW r \in Requests, CreateBusiness(r)
  PROVE  Quiet(r)
<1>1. PICK u \in Users, name \in BusinessNames :
        LET data == [Idle EXCEPT !.user = u, !.businessCopy = [name |-> name, ownerId |-> u]] IN
        \/ \E b \in Businesses :
             Owns(u, b) /\ Become(r, [data EXCEPT !.pc = "replace", !.business = b])
        \/ (\A b \in Businesses : ~Owns(u, b)) /\ Become(r, [data EXCEPT !.pc = "owner"])
  BY DEF CreateBusiness
<1>2. PICK bc, data : /\ bc = [name |-> name, ownerId |-> u]
                      /\ data = [Idle EXCEPT !.user = u, !.businessCopy = bc]
  OBVIOUS
<1>3. bc \in BusinessRow /\ bc.ownerId = u /\ u \in Maybe(Users)
  BY <1>2, AccountsAssumption DEF BusinessRow, Maybe
<1>4. data \in Request /\ data.user = u /\ data.businessCopy = bc /\ data.set = None
  BY <1>2, <1>3, IdleRequest DEF Request
<1>5. ASSUME NEW b \in Businesses, Owns(u, b),
             Become(r, [data EXCEPT !.pc = "replace", !.business = b])
      PROVE  \E q : Takes(r, q)
  <2>1. PICK q : q = [data EXCEPT !.pc = "replace", !.business = b]
    OBVIOUS
  <2>2. b \in Maybe(Businesses) /\ IsBusiness(b)
    BY <1>5, SentinelAssumption DEF Maybe, Owns, IsBusiness, Typed, TypeOK
  <2>3. /\ q \in Request /\ q.pc = "replace" /\ q.user = u /\ q.businessCopy = bc
        /\ q.business = b
    BY <1>4, <2>1, <2>2 DEF Request
  <2>4. InOrder(q) /\ KnowsWhatItSets(q)
    BY <1>3, <2>2, <2>3 DEF InOrder, KnowsWhatItSets, HasCopy, AtWork
  <2>5. OwnInv => LinksOwn(q)
    <3>1. OwnInv => b \in handedOver \/ Founded(u, b)
      BY <1>5 DEF OwnInv, FoundersOwn, Founded, Owns
    <3>2. QED
      BY <1>3, <2>3, <3>1 DEF LinksOwn, HasCopy
  <2>6. \A f : Vouches(q, f)'
    BY <2>3 DEF Vouches, HasCopy
  <2>7. Takes(r, q)
    BY <1>5, <2>1, <2>3, <2>4, <2>5, <2>6 DEF Takes
  <2>8. QED
    BY <2>7
<1>6. ASSUME Become(r, [data EXCEPT !.pc = "owner"])
      PROVE  \E q : Takes(r, q)
  <2>1. PICK q : q = [data EXCEPT !.pc = "owner"]
    OBVIOUS
  <2>2. q \in Request /\ q.pc = "owner" /\ q.user = u /\ q.businessCopy = bc /\ q.set = None
    BY <1>4, <2>1 DEF Request
  <2>3. InOrder(q) /\ KnowsWhatItSets(q) /\ LinksOwn(q)
    BY <1>3, <2>2 DEF InOrder, KnowsWhatItSets, LinksOwn, HasCopy, AtWork
  <2>4. \A f : Vouches(q, f)'
    BY <2>2 DEF Vouches, HasCopy
  <2>5. Takes(r, q)
    BY <1>6, <2>1, <2>2, <2>3, <2>4 DEF Takes
  <2>6. QED
    BY <2>5
<1>7. \E q : Takes(r, q)
  BY <1>1, <1>2, <1>5, <1>6
<1>8. QED
  BY <1>7 DEF CreateBusiness, Quiet, TablesStay, Typed, TypeOK, history

LEMMA LoadOwnerQuiet ==
  ASSUME Typed, NEW r \in Requests, LoadOwner(r)
  PROVE  Quiet(r)
<1>1. PICK o, u, row, q :
        /\ o = request[r] /\ u = o.user /\ row = Loaded(u)
        /\ q = [o EXCEPT !.pc = "business", !.copy = row]
  OBVIOUS
<1>2. /\ o.pc = "owner" /\ o \in Request /\ u \in Users /\ Exists(u)
      /\ o.businessCopy \in BusinessRow /\ Become(r, q)
  BY <1>1 DEF LoadOwner, Typed, TypeOK, RequestsInOrder, InOrder
<1>3. /\ row \in UserCopy /\ row.email = users[u].email /\ row.businessId = users[u].businessId
      /\ row.isEmailVerified = users[u].isEmailVerified
      /\ row.password = Unset /\ row.hashedRefreshToken = Unset
  BY <1>1, <1>2, LoadedCopy
<1>4. PICK b : b = row.businessId
  OBVIOUS
<1>5. /\ q \in Request /\ q.pc = "business" /\ q.user = u /\ q.copy = row
      /\ q.businessCopy = o.businessCopy /\ q.set = o.set
  BY <1>1, <1>2, <1>3 DEF Request
<1>6. b # None => IsBusiness(b)
  BY <1>2, <1>3, <1>4 DEF Typed, LinksExist
<1>7. InOrder(q)
  <2>1. users[u] # None
    BY <1>2, SentinelAssumption DEF Exists
  <2>2. QED
    BY <1>2, <1>3, <1>4, <1>5, <1>6, <2>1 DEF InOrder, AtWork, HasCopy
<1>8. KnowsWhatItSets(q)
  <2>1. o.set = None /\ None # "password" /\ None # "hashedRefreshToken"
    BY <1>1, <1>2, SentinelAssumption
    DEF Typed, CopiesKnowWhatTheySet, KnowsWhatItSets, Columns, Hidden
  <2>2. QED
    BY <1>3, <1>5, <2>1 DEF KnowsWhatItSets
<1>9. ASSUME NEW f \in [Users -> Maybe(Emails)], EmailsAre(f)
      PROVE  Vouches(q, f)'
  <2>1. f[u] = row.email /\ (row.isEmailVerified => ReasonToVerify(f[u]))
    BY <1>2, <1>3, <1>9 DEF EmailsAre
  <2>2. Vouches(q, f)
    BY <1>5, <2>1 DEF Vouches
  <2>3. QED
    BY <2>2, OthersVouch DEF ProofsKept, LoadOwner, history
<1>10. ASSUME OwnInv
       PROVE  LinksOwn(q)
  <2>1. b # None => Founded(u, b)
    BY <1>2, <1>3, <1>4, <1>10 DEF OwnInv, LinksFounded
  <2>2. LinksOwn(o)
    BY <1>1, <1>10 DEF OwnInv
  <2>3. QED
    BY <1>1, <1>2, <1>4, <1>5, <2>1, <2>2 DEF LinksOwn, HasCopy
<1>11. Takes(r, q)
  BY <1>2, <1>5, <1>7, <1>8, <1>9, <1>10 DEF Takes
<1>12. QED
  BY <1>11 DEF LoadOwner, Quiet, TablesStay, Typed, TypeOK, history

\* The columns that the comparison of save finds.
LEMMA ColumnsFound ==
  ASSUME NEW q \in Request
  PROVE  /\ Differing(q) \subseteq Columns
         /\ DifferingBusiness(q) \subseteq BusinessColumns
         /\ "password" \in Differing(q) <=> q.copy.password # Unset
         /\ "hashedRefreshToken" \in Differing(q) <=> q.copy.hashedRefreshToken # Unset
<1>1. "password" \in Columns /\ "hashedRefreshToken" \in Columns
      /\ "password" \in Hidden /\ "hashedRefreshToken" \in Hidden
  BY DEF Columns, Hidden
<1>2. Differing(q) \subseteq Columns /\ DifferingBusiness(q) \subseteq BusinessColumns
  BY DEF Differing, DifferingBusiness
<1>3. "password" \in Differing(q) <=> q.copy["password"] # Unset
  BY <1>1 DEF Differing
<1>4. "hashedRefreshToken" \in Differing(q) <=> q.copy["hashedRefreshToken"] # Unset
  BY <1>1 DEF Differing
<1>5. QED
  BY <1>2, <1>3, <1>4

LEMMA CompareUserQuiet ==
  ASSUME Typed, NEW r \in Requests, CompareUser(r)
  PROVE  Quiet(r)
<1>1. PICK o, found, q :
        /\ o = request[r]
        /\ found = DifferingBusiness(o) \union (IF Exists(o.user) THEN Differing(o) ELSE {"insert"})
        /\ q = [o EXCEPT !.pc = "compared", !.columns = found]
  OBVIOUS
<1>2. /\ o.pc = "read" /\ o \in Request /\ Become(r, q)
      /\ InOrder(o) /\ KnowsWhatItSets(o)
  BY <1>1 DEF CompareUser, Typed, TypeOK, RequestsInOrder, CopiesKnowWhatTheySet
<1>3. found \subseteq Columns \union BusinessColumns \union {"insert"}
  BY <1>1, <1>2, ColumnsFound
<1>4. "insert" \notin found =>
        /\ "password" \in found <=> o.copy.password # Unset
        /\ "hashedRefreshToken" \in found <=> o.copy.hashedRefreshToken # Unset
  <2>1. "password" \notin BusinessColumns /\ "hashedRefreshToken" \notin BusinessColumns
    BY DEF BusinessColumns
  <2>2. QED
    BY <1>1, <1>2, <2>1, ColumnsFound
<1>5. /\ q \in Request /\ q.pc = "compared" /\ q.user = o.user /\ q.copy = o.copy
      /\ q.businessCopy = o.businessCopy /\ q.set = o.set /\ q.columns = found
  BY <1>1, <1>2, <1>3 DEF Request
<1>6. InOrder(q)
  BY <1>2, <1>5 DEF InOrder, AtWork, HasCopy
<1>7. KnowsWhatItSets(q)
  BY <1>2, <1>4, <1>5 DEF KnowsWhatItSets, HasCopy
<1>8. ASSUME NEW f \in [Users -> Maybe(Emails)], EmailsAre(f)
      PROVE  Vouches(q, f)'
  <2>1. Vouches(o, f)
    BY <1>1, <1>8 DEF EmailsAre
  <2>2. Vouches(q, f)
    BY <1>2, <1>5, <2>1 DEF Vouches, HasCopy
  <2>3. QED
    BY <2>2, OthersVouch DEF ProofsKept, CompareUser, history
<1>9. ASSUME OwnInv
      PROVE  LinksOwn(q)
  <2>1. LinksOwn(o)
    BY <1>1, <1>9 DEF OwnInv
  <2>2. QED
    BY <1>2, <1>5, <2>1 DEF LinksOwn, HasCopy
<1>10. Takes(r, q)
  BY <1>1, <1>2, <1>5, <1>6, <1>7, <1>8, <1>9 DEF Takes
<1>11. QED
  BY <1>10 DEF CompareUser, Quiet, TablesStay, Typed, TypeOK, history

LEMMA RefuseQuiet ==
  ASSUME Typed, NEW r \in Requests, Refuse(r)
  PROVE  Quiet(r)
<1>1. Takes(r, Idle)
  BY IdleTakes DEF Refuse
<1>2. QED
  BY <1>1 DEF Refuse, Quiet, TablesStay, Typed, TypeOK, history

----------------------------------------------------------------------------
(***************************************************************************)
(* What the other requests need of a step.                                 *)
(***************************************************************************)

RowsKept ==
  /\ \A u \in Users : users[u] # None => users'[u] # None
  /\ \A c \in Codes : mails[c] # None => mails'[c] # None
  /\ \A b \in Businesses : businesses[b] \in BusinessRow => businesses'[b] \in BusinessRow

\* An owner changes only by an update that gives the business away.
OwnersKept ==
  /\ \A b \in Businesses : businesses[b] # None =>
       businesses'[b] # None /\ founder'[b] = founder[b]
  /\ handedOver \subseteq handedOver'
  /\ \A b \in Businesses : businesses'[b] # None /\ b \notin handedOver' =>
       \/ businesses'[b].ownerId = founder'[b]
       \/ businesses[b] # None /\ businesses'[b].ownerId = businesses[b].ownerId

HistoryTyped ==
  /\ vouched \in SUBSET Emails /\ named \in SUBSET Emails
  /\ founder \in [Businesses -> Maybe(Users)]
  /\ handedOver \in SUBSET Businesses

LEMMA TypedNext ==
  ASSUME Typed, NEW r \in Requests, NEW q \in Request, Become(r, q), InOrder(q)',
         KnowsWhatItSets(q), RowsKept, LinksExist',
         users' \in [Users -> UserRow \union {None, Gone}],
         businesses' \in [Businesses -> BusinessRow \union {None}],
         mails' \in [Codes -> MailRow \union {None}],
         routes' = routes, HistoryTyped'
  PROVE  Typed'
<1>1. \A s \in Requests : request'[s] = IF s = r THEN q ELSE request[s]
  BY DEF Become, Typed, TypeOK
<1>2. TypeOK'
  BY DEF Become, Typed, TypeOK, HistoryTyped
<1>3. ASSUME NEW o, InOrder(o)
      PROVE  InOrder(o)'
  BY <1>3 DEF InOrder, RowsKept, IsBusiness, AtWork
<1>4. RequestsInOrder'
  <2> SUFFICES ASSUME NEW s \in Requests
               PROVE  InOrder(request[s])'
    BY DEF RequestsInOrder
  <2>1. PICK o : o = request'[s]
    OBVIOUS
  <2>2. CASE s = r
    BY <1>1, <2>2
  <2>3. CASE s # r
    <3>1. InOrder(o)
      BY <1>1, <2>1, <2>3 DEF Typed, RequestsInOrder
    <3>2. InOrder(o)'
      BY <1>3, <3>1
    <3>3. QED
      BY <2>1, <3>2 DEF InOrder
  <2>4. QED
    BY <2>2, <2>3
<1>5. CopiesKnowWhatTheySet'
  BY <1>1 DEF CopiesKnowWhatTheySet, KnowsWhatItSets, Typed
<1>6. QED
  BY <1>2, <1>4, <1>5 DEF Typed

LEMMA EmailsNext ==
  ASSUME Typed, NEW f \in [Users -> Maybe(Emails)], NEW g \in [Users -> Maybe(Emails)],
         EmailsAre(f), \A u \in Users : users[u] # None => g[u] = f[u],
         NEW r \in Requests, NEW q, Become(r, q), Vouches(q, g)', ProofsKept,
         \A u \in Users : Exists(u)' =>
           users'[u].email = g[u] /\ (users'[u].isEmailVerified => ReasonToVerify(g[u])')
  PROVE  EmailsInv'
<1>1. \A s \in Requests : request'[s] = IF s = r THEN q ELSE request[s]
  BY DEF Become, Typed, TypeOK
<1>2. ASSUME NEW s \in Requests
      PROVE  Vouches(request[s], g)'
  <2>1. PICK o : o = request'[s]
    OBVIOUS
  <2>2. CASE s = r
    BY <1>1, <2>2
  <2>3. CASE s # r
    <3>1. Vouches(o, f) /\ InOrder(o)
      BY <1>1, <2>1, <2>3 DEF Typed, RequestsInOrder, EmailsAre
    <3>2. o.pc \in HasCopy \union {"verified"} => g[o.user] = f[o.user]
      BY <3>1 DEF InOrder, AtWork, HasCopy
    <3>3. Vouches(o, g)
      BY <3>1, <3>2 DEF Vouches
    <3>4. Vouches(o, g)'
      BY <3>3, OthersVouch
    <3>5. QED
      BY <2>1, <3>4 DEF Vouches
  <2>4. QED
    BY <2>2, <2>3
<1>3. EmailsAre(g)'
  BY <1>2 DEF EmailsAre
<1>4. QED
  BY <1>3 DEF EmailsInv

LEMMA LinksOwnKept ==
  ASSUME OwnersKept, NEW o, LinksOwn(o), InOrder(o)
  PROVE  LinksOwn(o)'
<1>1. \A u, b : IsBusiness(b) /\ Founded(u, b) => Founded(u, b)'
  BY SentinelAssumption DEF IsBusiness, Founded, OwnersKept
<1>2. handedOver \subseteq handedOver'
  BY DEF OwnersKept
<1>3. QED
  BY <1>1, <1>2 DEF LinksOwn, InOrder, HasCopy

LEMMA OwnNext ==
  ASSUME Typed, OwnInv, NEW r \in Requests, NEW q, Become(r, q), LinksOwn(q)', OwnersKept,
         LinksFounded'
  PROVE  OwnInv'
<1>1. \A s \in Requests : request'[s] = IF s = r THEN q ELSE request[s]
  BY DEF Become, Typed, TypeOK
<1>2. ASSUME NEW s \in Requests
      PROVE  LinksOwn(request[s])'
  <2>1. PICK o : o = request'[s]
    OBVIOUS
  <2>2. CASE s = r
    BY <1>1, <2>2
  <2>3. CASE s # r
    <3>1. LinksOwn(o) /\ InOrder(o)
      BY <1>1, <2>1, <2>3 DEF Typed, RequestsInOrder, OwnInv
    <3>2. LinksOwn(o)'
      BY <3>1, LinksOwnKept
    <3>3. QED
      BY <2>1, <3>2 DEF LinksOwn, Founded
  <2>4. QED
    BY <2>2, <2>3
<1>3. FoundersOwn'
  BY DEF OwnInv, FoundersOwn, OwnersKept
<1>4. QED
  BY <1>2, <1>3 DEF OwnInv

LEMMA QuietStep ==
  ASSUME Typed, NEW r \in Requests, Quiet(r)
  PROVE  Typed' /\ (EmailsInv => EmailsInv') /\ (OwnInv => OwnInv')
<1>1. PICK q : Takes(r, q)
  BY DEF Quiet
<1>2. q \in Request /\ Become(r, q) /\ InOrder(q) /\ KnowsWhatItSets(q)
  BY <1>1 DEF Takes
<1>3. /\ users' = users /\ businesses' = businesses /\ mails' = mails /\ routes' = routes
      /\ founder' = founder /\ handedOver' = handedOver
      /\ HistoryTyped' /\ ProofsKept /\ RowsKept /\ OwnersKept
  BY DEF Quiet, TablesStay, ProofsKept, RowsKept, OwnersKept, HistoryTyped, Typed, TypeOK
<1>4. InOrder(q)'
  BY <1>2, <1>3 DEF InOrder, IsBusiness
<1>5. LinksExist'
  BY <1>3 DEF Typed, LinksExist, Exists, IsBusiness
<1>6. Typed'
  BY <1>2, <1>3, <1>4, <1>5, TypedNext DEF Typed, TypeOK
<1>7. ASSUME EmailsInv
      PROVE  EmailsInv'
  <2>1. PICK f \in [Users -> Maybe(Emails)] : EmailsAre(f)
    BY <1>7 DEF EmailsInv
  <2>2. Vouches(q, f)'
    BY <1>1, <2>1 DEF Takes
  <2>3. \A u \in Users : Exists(u)' =>
          users'[u].email = f[u] /\ (users'[u].isEmailVerified => ReasonToVerify(f[u])')
    BY <1>3, <2>1, ReasonStays DEF EmailsAre, Exists
  <2>4. QED
    BY <1>2, <1>3, <2>1, <2>2, <2>3, EmailsNext
<1>8. ASSUME OwnInv
      PROVE  OwnInv'
  <2>1. LinksOwn(q)'
    BY <1>1, <1>3, <1>8 DEF Takes, LinksOwn, Founded
  <2>2. LinksFounded'
    BY <1>3, <1>8 DEF OwnInv, LinksFounded, Founded, Exists
  <2>3. QED
    BY <1>2, <1>3, <1>8, <2>1, <2>2, OwnNext
<1>9. QED
  BY <1>6, <1>7, <1>8

----------------------------------------------------------------------------
(***************************************************************************)
(* Steps that change a table.                                              *)
(***************************************************************************)

LEMMA StoreUserStep ==
  ASSUME Typed, NEW r \in Requests, NEW u \in Users, StoreUser(r, u)
  PROVE  Typed' /\ (EmailsInv => EmailsInv') /\ (OwnInv => OwnInv')
<1>1. PICK o, e, new, q :
        o = request[r] /\ e = o.email /\ new = o.copy /\ q = Signup(u, e, "NEW")
  OBVIOUS
<1>2. /\ o.pc = "creating" /\ o \in Request
      /\ new \in UserRow /\ new.email = e /\ new.businessId = None
      /\ users[u] = None /\ users' = [users EXCEPT ![u] = new] /\ Become(r, q)
      /\ UNCHANGED <<businesses, mails, routes, history>>
  BY <1>1 DEF StoreUser, Typed, TypeOK, RequestsInOrder, InOrder
<1>3. e \in Emails
  BY <1>2 DEF UserRow
<1>4. q \in Request /\ q.pc = "code" /\ q.user = u /\ q.email = e
  BY <1>1, <1>3, SignupRequest
<1>5. \A x \in Users : users'[x] = IF x = u THEN new ELSE users[x]
  BY <1>2 DEF Typed, TypeOK
<1>6. new # None /\ new # Gone
  BY <1>2, SentinelAssumption
<1>7. RowsKept /\ ProofsKept /\ OwnersKept /\ HistoryTyped'
  BY <1>2, <1>5, <1>6
  DEF RowsKept, ProofsKept, OwnersKept, HistoryTyped, history, Typed, TypeOK
<1>8. InOrder(q)' /\ KnowsWhatItSets(q) /\ LinksOwn(q)' /\ \A f : Vouches(q, f)'
  BY <1>3, <1>4, <1>5, <1>6
  DEF InOrder, KnowsWhatItSets, LinksOwn, Vouches, HasCopy, AtWork
<1>9. LinksExist'
  BY <1>2, <1>5 DEF Typed, LinksExist, Exists, IsBusiness
<1>10. Typed'
  <2>1. users' \in [Users -> UserRow \union {None, Gone}]
    BY <1>2 DEF Typed, TypeOK
  <2>2. QED
    BY <1>2, <1>4, <1>7, <1>8, <1>9, <2>1, TypedNext DEF Typed, TypeOK
<1>11. ASSUME EmailsInv
       PROVE  EmailsInv'
  <2>1. PICK f \in [Users -> Maybe(Emails)] : EmailsAre(f)
    BY <1>11 DEF EmailsInv
  <2>2. PICK g : g = [f EXCEPT ![u] = e]
    OBVIOUS
  <2>3. g \in [Users -> Maybe(Emails)] /\ \A x \in Users : g[x] = IF x = u THEN e ELSE f[x]
    BY <1>3, <2>2 DEF Maybe
  <2>4. Vouches(o, f)
    BY <1>1, <2>1 DEF EmailsAre
  <2>5. new.isEmailVerified => ReasonToVerify(e)
    BY <1>1, <1>2, <2>4 DEF Vouches
  <2>6. ASSUME NEW x \in Users, Exists(x)'
        PROVE  users'[x].email = g[x] /\ (users'[x].isEmailVerified => ReasonToVerify(g[x])')
    <3>1. CASE x = u
      BY <1>2, <1>5, <1>7, <2>3, <2>5, <3>1, ReasonStays
    <3>2. CASE x # u
      <4>1. Exists(x)
        BY <1>5, <2>6, <3>2 DEF Exists
      <4>2. QED
        BY <1>5, <1>7, <2>1, <2>3, <3>2, <4>1, ReasonStays DEF EmailsAre
    <3>3. QED
      BY <3>1, <3>2
  <2>7. \A x \in Users : users[x] # None => g[x] = f[x]
    BY <1>2, <2>3
  <2>8. QED
    BY <1>2, <1>7, <1>8, <2>1, <2>3, <2>6, <2>7, EmailsNext
<1>12. ASSUME OwnInv
       PROVE  OwnInv'
  <2>1. LinksFounded'
    BY <1>2, <1>5, <1>12 DEF OwnInv, LinksFounded, Founded, Exists, history
  <2>2. QED
    BY <1>2, <1>7, <1>8, <1>12, <2>1, OwnNext
<1>13. QED
  BY <1>10, <1>11, <1>12

\* Steps on the mails.
LEMMA MailStep ==
  ASSUME Typed, NEW r \in Requests, NEW q \in Request, Become(r, q),
         q.pc \in {"mailed", "login", "idle"}, InOrder(q)', KnowsWhatItSets(q),
         mails' \in [Codes -> MailRow \union {None}], ProofsKept,
         UNCHANGED <<users, businesses, routes, history>>
  PROVE  Typed' /\ (EmailsInv => EmailsInv') /\ (OwnInv => OwnInv')
<1>1. RowsKept /\ OwnersKept /\ LinksExist' /\ HistoryTyped'
  BY DEF RowsKept, OwnersKept, ProofsKept, Typed, TypeOK, LinksExist, Exists, IsBusiness,
         HistoryTyped, history
<1>2. LinksOwn(q)' /\ \A f : Vouches(q, f)'
  BY DEF LinksOwn, Vouches, HasCopy
<1>3. Typed'
  BY <1>1, TypedNext DEF Typed, TypeOK
<1>4. ASSUME EmailsInv
      PROVE  EmailsInv'
  <2>1. PICK f \in [Users -> Maybe(Emails)] : EmailsAre(f)
    BY <1>4 DEF EmailsInv
  <2>2. \A u \in Users : Exists(u)' =>
          users'[u].email = f[u] /\ (users'[u].isEmailVerified => ReasonToVerify(f[u])')
    BY <2>1, ReasonStays DEF EmailsAre, Exists
  <2>3. QED
    BY <1>2, <2>1, <2>2, EmailsNext
<1>5. ASSUME OwnInv
      PROVE  OwnInv'
  <2>1. LinksFounded'
    BY <1>5 DEF OwnInv, LinksFounded, Founded, Exists, history
  <2>2. QED
    BY <1>1, <1>2, <1>5, <2>1, OwnNext
<1>6. QED
  BY <1>3, <1>4, <1>5

LEMMA SendCodeStep ==
  ASSUME Typed, NEW r \in Requests, NEW c \in Codes, SendCode(r, c)
  PROVE  Typed' /\ (EmailsInv => EmailsInv') /\ (OwnInv => OwnInv')
<1>1. PICK o, q : o = request[r] /\ q = [o EXCEPT !.pc = "mailed", !.code = c]
  OBVIOUS
<1>2. PICK delivered \in {TRUE, ~MayFail} :
        mails' = [mails EXCEPT ![c] =
          [to |-> o.email, stored |-> FALSE, shown |-> delivered /\ o.kind = "NEW"]]
  BY <1>1 DEF SendCode
<1>3. /\ o.pc = "code" /\ o \in Request /\ InOrder(o) /\ KnowsWhatItSets(o)
      /\ mails[c] = None /\ Become(r, q)
      /\ UNCHANGED <<users, businesses, routes, history>>
  BY <1>1 DEF SendCode, Typed, TypeOK, RequestsInOrder, CopiesKnowWhatTheySet
<1>4. PICK mail : mail = [to |-> o.email, stored |-> FALSE, shown |-> delivered /\ o.kind = "NEW"]
  OBVIOUS
<1>5. mail \in MailRow
  BY <1>3, <1>4 DEF InOrder, MailRow
<1>6. \A d \in Codes : mails'[d] = IF d = c THEN mail ELSE mails[d]
  BY <1>2, <1>4 DEF Typed, TypeOK
<1>7. mails' \in [Codes -> MailRow \union {None}] /\ mail # None
  BY <1>2, <1>4, <1>5, SentinelAssumption DEF Typed, TypeOK
<1>8. ProofsKept
  BY <1>3, <1>6 DEF ProofsKept, history
<1>9. c \in Maybe(Codes)
  BY DEF Maybe
<1>10. q \in Request /\ q.pc = "mailed" /\ q.user = o.user /\ q.code = c
  BY <1>1, <1>3, <1>9 DEF Request
<1>11. InOrder(q)' /\ KnowsWhatItSets(q)
  BY <1>3, <1>6, <1>7, <1>10 DEF InOrder, KnowsWhatItSets, HasCopy, AtWork
<1>12. QED
  BY <1>3, <1>7, <1>8, <1>10, <1>11, MailStep

LEMMA StoreMailStep ==
  ASSUME Typed, NEW r \in Requests, StoreMail(r)
  PROVE  Typed' /\ (EmailsInv => EmailsInv') /\ (OwnInv => OwnInv')
<1>1. PICK o, c, u, q :
        /\ o = request[r] /\ c = o.code /\ u = o.user
        /\ q = IF o.next = "login" THEN LoggingIn(u) ELSE Idle
  OBVIOUS
<1>2. /\ c \in Codes /\ u \in Users /\ mails[c] # None /\ users[u] # None
      /\ mails' = [mails EXCEPT ![c].stored = TRUE] /\ Become(r, q)
      /\ UNCHANGED <<users, businesses, routes, history>>
  BY <1>1 DEF StoreMail, Typed, RequestsInOrder, InOrder, AtWork
<1>3. PICK mail : mail = [mails[c] EXCEPT !.stored = TRUE]
  OBVIOUS
<1>4. mails[c] \in MailRow
  BY <1>2 DEF Typed, TypeOK
<1>5. mail \in MailRow /\ mail.to = mails[c].to /\ mail.shown = mails[c].shown /\ mail # None
  BY <1>3, <1>4, SentinelAssumption DEF MailRow
<1>6. /\ \A d \in Codes : mails'[d] = IF d = c THEN mail ELSE mails[d]
      /\ mails' \in [Codes -> MailRow \union {None}]
  BY <1>2, <1>3, <1>5 DEF Typed, TypeOK
<1>7. ProofsKept
  BY <1>2, <1>5, <1>6 DEF ProofsKept, history
<1>8. /\ q \in Request /\ q.pc \in {"login", "idle"}
      /\ q.pc = "login" => q.user = u
  BY <1>1, <1>2, IdleRequest, LoggingInRequest
<1>9. InOrder(q)' /\ KnowsWhatItSets(q)
  BY <1>2, <1>8 DEF InOrder, KnowsWhatItSets, HasCopy, AtWork
<1>10. QED
  BY <1>2, <1>6, <1>7, <1>8, <1>9, MailStep

LEMMA RemoveUserStep ==
  ASSUME Typed, NEW r \in Requests, RemoveUser(r)
  PROVE  Typed' /\ (EmailsInv => EmailsInv') /\ (OwnInv => OwnInv')
<1>1. PICK u : u = request[r].user
  OBVIOUS
<1>2. /\ u \in Users /\ users' = [users EXCEPT ![u] = Gone] /\ Become(r, Idle)
      /\ UNCHANGED <<businesses, mails, routes, history>>
  BY <1>1 DEF RemoveUser, Typed, RequestsInOrder, InOrder, AtWork
<1>3. /\ \A x \in Users : users'[x] = IF x = u THEN Gone ELSE users[x]
      /\ users' \in [Users -> UserRow \union {None, Gone}]
  BY <1>2 DEF Typed, TypeOK
<1>4. \A x \in Users : Exists(x)' => x # u /\ Exists(x) /\ users'[x] = users[x]
  BY <1>3, SentinelAssumption DEF Exists
<1>5. RowsKept /\ ProofsKept /\ OwnersKept /\ HistoryTyped'
  BY <1>2, <1>3, SentinelAssumption
  DEF RowsKept, ProofsKept, OwnersKept, HistoryTyped, history, Typed, TypeOK
<1>6. InOrder(Idle)' /\ LinksOwn(Idle)' /\ \A f : Vouches(Idle, f)'
  BY IdleRequest DEF InOrder, LinksOwn, Vouches, AtWork, HasCopy
<1>7. LinksExist'
  BY <1>2, <1>4 DEF Typed, LinksExist, IsBusiness
<1>8. Typed'
  BY <1>2, <1>3, <1>5, <1>6, <1>7, IdleRequest, IdleQuiet, TypedNext DEF Typed, TypeOK
<1>9. ASSUME EmailsInv
      PROVE  EmailsInv'
  <2>1. PICK f \in [Users -> Maybe(Emails)] : EmailsAre(f)
    BY <1>9 DEF EmailsInv
  <2>2. \A x \in Users : Exists(x)' =>
          users'[x].email = f[x] /\ (users'[x].isEmailVerified => ReasonToVerify(f[x])')
    BY <1>4, <1>5, <2>1, ReasonStays DEF EmailsAre
  <2>3. QED
    BY <1>2, <1>5, <1>6, <2>1, <2>2, EmailsNext
<1>10. ASSUME OwnInv
       PROVE  OwnInv'
  <2>1. LinksFounded'
    BY <1>2, <1>4, <1>10 DEF OwnInv, LinksFounded, Founded, history
  <2>2. QED
    BY <1>2, <1>5, <1>6, <1>10, <2>1, OwnNext
<1>11. QED
  BY <1>8, <1>9, <1>10

LEMMA OrderKept ==
  ASSUME RowsKept, NEW o, InOrder(o)
  PROVE  InOrder(o)'
BY DEF InOrder, RowsKept, IsBusiness, AtWork

\* Steps on the businesses.
LEMMA BusinessStep ==
  ASSUME Typed, NEW r \in Requests, NEW q \in Request, Become(r, q),
         InOrder(q)', KnowsWhatItSets(q),
         \A f \in [Users -> Maybe(Emails)] : EmailsAre(f) => Vouches(q, f)',
         businesses' \in [Businesses -> BusinessRow \union {None}],
         \A b \in Businesses : businesses[b] \in BusinessRow => businesses'[b] \in BusinessRow,
         UNCHANGED <<users, mails, routes, vouched, named>>, HistoryTyped'
  PROVE  /\ Typed'
         /\ EmailsInv => EmailsInv'
         /\ OwnInv /\ OwnersKept /\ LinksOwn(q)' => OwnInv'
<1>1. RowsKept /\ ProofsKept /\ LinksExist'
  BY DEF RowsKept, ProofsKept, Typed, LinksExist, Exists, IsBusiness
<1>2. Typed'
  BY <1>1, TypedNext DEF Typed, TypeOK
<1>3. ASSUME EmailsInv
      PROVE  EmailsInv'
  <2>1. PICK f \in [Users -> Maybe(Emails)] : EmailsAre(f)
    BY <1>3 DEF EmailsInv
  <2>2. \A u \in Users : Exists(u)' =>
          users'[u].email = f[u] /\ (users'[u].isEmailVerified => ReasonToVerify(f[u])')
    BY <1>1, <2>1, ReasonStays DEF EmailsAre, Exists
  <2>3. QED
    BY <1>1, <2>1, <2>2, EmailsNext
<1>4. ASSUME OwnInv, OwnersKept, LinksOwn(q)'
      PROVE  OwnInv'
  <2>1. ASSUME NEW u \in Users, Exists(u)', users'[u].businessId # None
        PROVE  Founded(u, users[u].businessId)'
    <3>1. PICK b : b = users[u].businessId
      OBVIOUS
    <3>2. b \in Businesses /\ Founded(u, b)
      BY <1>4, <2>1, <3>1
      DEF Exists, Typed, LinksExist, IsBusiness, OwnInv, LinksFounded
    <3>3. Founded(u, b)'
      BY <1>4, <3>2 DEF OwnersKept, Founded
    <3>4. QED
      BY <3>1, <3>3 DEF Founded
  <2>2. LinksFounded'
    BY <2>1 DEF LinksFounded
  <2>3. QED
    BY <1>4, <2>2, OwnNext
<1>5. QED
  BY <1>2, <1>3, <1>4

LEMMA SaveBusinessStep ==
  ASSUME Typed, NEW r \in Requests, NEW b \in Businesses, SaveBusiness(r, b)
  PROVE  Typed' /\ (EmailsInv => EmailsInv') /\ (OwnInv => OwnInv')
<1>1. PICK o, bc, copy, q :
        /\ o = request[r] /\ bc = o.businessCopy /\ copy = LinkTo(o.copy, b)
        /\ q = [o EXCEPT !.pc = "read", !.copy = copy]
  OBVIOUS
<1>2. /\ o.pc = "business" /\ o \in Request /\ InOrder(o) /\ KnowsWhatItSets(o)
      /\ businesses[b] = None /\ businesses' = [businesses EXCEPT ![b] = bc] /\ Become(r, q)
      /\ founder' = [founder EXCEPT ![b] = o.user]
      /\ UNCHANGED <<users, mails, routes, vouched, named, handedOver>>
  BY <1>1 DEF SaveBusiness, Typed, TypeOK, RequestsInOrder, CopiesKnowWhatTheySet
<1>3. o.copy \in UserCopy /\ bc \in BusinessRow /\ bc # None /\ bc # Unset
  BY <1>1, <1>2, SentinelAssumption DEF InOrder, HasCopy
<1>4. /\ copy \in UserCopy /\ copy.email = o.copy.email /\ copy.businessId = b
      /\ copy.isEmailVerified = o.copy.isEmailVerified
      /\ copy.password = o.copy.password
      /\ copy.hashedRefreshToken = o.copy.hashedRefreshToken
  BY <1>1, <1>3, ChangedCopy
<1>5. /\ q \in Request /\ q.pc = "read" /\ q.user = o.user /\ q.copy = copy
      /\ q.businessCopy = bc /\ q.set = o.set
  BY <1>1, <1>2, <1>4 DEF Request
<1>6. /\ \A x \in Businesses : businesses'[x] = IF x = b THEN bc ELSE businesses[x]
      /\ \A x \in Businesses : founder'[x] = IF x = b THEN o.user ELSE founder[x]
      /\ businesses' \in [Businesses -> BusinessRow \union {None}] /\ HistoryTyped'
  BY <1>2, <1>3 DEF Typed, TypeOK, HistoryTyped, Request
<1>7. InOrder(q)'
  <2>1. b # None
    BY SentinelAssumption
  <2>2. QED
    BY <1>2, <1>3, <1>4, <1>5, <1>6, <2>1 DEF InOrder, IsBusiness, AtWork, HasCopy
<1>8. KnowsWhatItSets(q)
  BY <1>2, <1>4, <1>5 DEF KnowsWhatItSets, HasCopy
<1>9. ASSUME NEW f \in [Users -> Maybe(Emails)], EmailsAre(f)
      PROVE  Vouches(q, f)'
  <2>1. Vouches(o, f)
    BY <1>1, <1>9 DEF EmailsAre
  <2>2. Vouches(q, f)
    BY <1>2, <1>4, <1>5, <2>1 DEF Vouches, HasCopy
  <2>3. QED
    BY <1>2, <2>2, OthersVouch DEF ProofsKept
<1>10. OwnInv => bc.ownerId = o.user
  BY <1>1, <1>2 DEF OwnInv, LinksOwn
<1>11. ASSUME OwnInv
       PROVE  OwnersKept /\ LinksOwn(q)'
  <2>1. OwnersKept
    BY <1>2, <1>6, <1>10, <1>11 DEF OwnersKept
  <2>2. LinksOwn(q)'
    BY <1>3, <1>4, <1>5, <1>6, <1>10, <1>11 DEF LinksOwn, Founded, HasCopy
  <2>3. QED
    BY <2>1, <2>2
<1>12. \A x \in Businesses : businesses[x] \in BusinessRow => businesses'[x] \in BusinessRow
  BY <1>3, <1>6
<1>13. QED
  BY <1>2, <1>5, <1>6, <1>7, <1>8, <1>9, <1>11, <1>12, BusinessStep

LEMMA ReplaceBusinessStep ==
  ASSUME Typed, NEW r \in Requests, ReplaceBusiness(r)
  PROVE  Typed' /\ (EmailsInv => EmailsInv') /\ (OwnInv => OwnInv')
<1>1. PICK o, b, bc : o = request[r] /\ b = o.business /\ bc = o.businessCopy
  OBVIOUS
<1>2. /\ o.pc = "replace" /\ InOrder(o)
      /\ businesses' = [businesses EXCEPT ![b] = bc] /\ Become(r, Idle)
      /\ UNCHANGED <<users, mails, routes, history>>
  BY <1>1 DEF ReplaceBusiness, Typed, RequestsInOrder
<1>3. b \in Businesses /\ bc \in BusinessRow /\ bc # None /\ bc # Unset
  BY <1>1, <1>2, SentinelAssumption DEF InOrder, IsBusiness
<1>4. /\ \A x \in Businesses : businesses'[x] = IF x = b THEN bc ELSE businesses[x]
      /\ businesses' \in [Businesses -> BusinessRow \union {None}]
  BY <1>2, <1>3 DEF Typed, TypeOK
<1>5. InOrder(Idle)' /\ LinksOwn(Idle)' /\ \A f : Vouches(Idle, f)'
  BY IdleRequest DEF InOrder, LinksOwn, Vouches, AtWork, HasCopy
<1>6. ASSUME OwnInv
      PROVE  OwnersKept
  <2>1. bc.ownerId = o.user /\ (b \in handedOver \/ founder[b] = o.user)
    BY <1>1, <1>2, <1>6 DEF OwnInv, LinksOwn, Founded
  <2>2. QED
    BY <1>2, <1>3, <1>4, <2>1 DEF OwnersKept, history
<1>7. \A x \in Businesses : businesses[x] \in BusinessRow => businesses'[x] \in BusinessRow
  BY <1>3, <1>4
<1>8. HistoryTyped' /\ UNCHANGED <<users, mails, routes, vouched, named>>
  BY <1>2 DEF HistoryTyped, history, Typed, TypeOK
<1>9. QED
  BY <1>2, <1>4, <1>5, <1>6, <1>7, <1>8, IdleRequest, IdleQuiet, BusinessStep

LEMMA UpdateBusinessStep ==
  ASSUME Typed, NEW r \in Requests, UpdateBusiness(r)
  PROVE  Typed' /\ (EmailsInv => EmailsInv') /\ (OwnInv => OwnInv')
<1>1. PICK b \in Businesses, name \in BusinessNames :
        /\ businesses[b] # None
        /\ \E owner \in OwnerInputs \union {businesses[b].ownerId} :
             /\ businesses' = [businesses EXCEPT ![b] = [name |-> name, ownerId |-> owner]]
             /\ handedOver' = IF owner = businesses[b].ownerId THEN handedOver
                              ELSE handedOver \union {b}
  BY DEF UpdateBusiness
<1>2. PICK owner \in OwnerInputs \union {businesses[b].ownerId} :
        /\ businesses' = [businesses EXCEPT ![b] = [name |-> name, ownerId |-> owner]]
        /\ handedOver' = IF owner = businesses[b].ownerId THEN handedOver
                         ELSE handedOver \union {b}
  BY <1>1
<1>3. PICK row : row = [name |-> name, ownerId |-> owner]
  OBVIOUS
<1>4. businesses[b] \in BusinessRow
  BY <1>1 DEF Typed, TypeOK
<1>5. row \in BusinessRow /\ row.ownerId = owner /\ row # None
  BY <1>2, <1>3, <1>4, AccountsAssumption, SentinelAssumption DEF BusinessRow
<1>6. /\ \A x \in Businesses : businesses'[x] = IF x = b THEN row ELSE businesses[x]
      /\ businesses' \in [Businesses -> BusinessRow \union {None}]
  BY <1>2, <1>3, <1>5 DEF Typed, TypeOK
<1>7. PICK o : o = request[r]
  OBVIOUS
<1>8. /\ o \in Request /\ InOrder(o) /\ KnowsWhatItSets(o)
      /\ UNCHANGED <<users, mails, routes, vouched, named, founder>> /\ HistoryTyped'
  BY <1>2, <1>7
  DEF UpdateBusiness, Typed, TypeOK, RequestsInOrder, CopiesKnowWhatTheySet, HistoryTyped
<1>9. Become(r, o)
  BY <1>7 DEF UpdateBusiness, Become, Typed, TypeOK
<1>10. \A x \in Businesses : businesses[x] \in BusinessRow => businesses'[x] \in BusinessRow
  BY <1>5, <1>6
<1>11. InOrder(o)'
  BY <1>8, <1>10, OrderKept DEF RowsKept
<1>12. ASSUME NEW f \in [Users -> Maybe(Emails)], EmailsAre(f)
       PROVE  Vouches(o, f)'
  <2>1. Vouches(o, f)
    BY <1>7, <1>12 DEF EmailsAre
  <2>2. QED
    BY <1>8, <2>1, OthersVouch DEF ProofsKept
<1>13. ASSUME OwnInv
       PROVE  OwnersKept /\ LinksOwn(o)'
  <2>1. OwnersKept
    BY <1>1, <1>2, <1>5, <1>6, <1>8 DEF OwnersKept
  <2>2. LinksOwn(o)
    BY <1>7, <1>13 DEF OwnInv
  <2>3. QED
    BY <1>8, <2>1, <2>2, LinksOwnKept
<1>14. QED
  BY <1>6, <1>8, <1>9, <1>10, <1>11, <1>12, <1>13, BusinessStep

\* What a save leaves of the row: the copy, the row with the columns that
\* differed, or what was there.  A hidden column changes only if the handler
\* has assigned it, or when the row is inserted.
LEMMA SavedRow ==
  ASSUME Typed, NEW r \in Requests, NEW o, o = request[r], o.pc = "compared", Saveable(o),
         NEW u, u = o.user, NEW new, new = Saved(o)
  PROVE  /\ u \in Users /\ users[u] # None
         /\ \/ /\ new \in UserRow
               /\ ~Exists(u) /\ "insert" \in o.columns
               /\ new.email = o.copy.email /\ new.isEmailVerified = o.copy.isEmailVerified
               /\ new.businessId = o.copy.businessId
               /\ new.password = IF o.set = "password" THEN o.copy.password ELSE None
               /\ new.hashedRefreshToken =
                    IF o.set = "hashedRefreshToken" THEN o.copy.hashedRefreshToken ELSE None
            \/ /\ new \in UserRow
               /\ Exists(u) /\ "insert" \notin o.columns
               /\ new.email = users[u].email
               /\ \/ new.isEmailVerified = o.copy.isEmailVerified
                  \/ new.isEmailVerified = users[u].isEmailVerified
               /\ new.businessId \in {o.copy.businessId, users[u].businessId}
               /\ new.password =
                    IF o.set = "password" THEN o.copy.password ELSE users[u].password
               /\ new.hashedRefreshToken =
                    IF o.set = "hashedRefreshToken" THEN o.copy.hashedRefreshToken
                    ELSE users[u].hashedRefreshToken
            \/ new = users[u] /\ ~Exists(u) /\ "insert" \notin o.columns
<1>1. /\ o \in Request /\ InOrder(o) /\ KnowsWhatItSets(o)
      /\ users \in [Users -> UserRow \union {None, Gone}]
  BY DEF Typed, TypeOK, RequestsInOrder, CopiesKnowWhatTheySet
<1>2. u \in Users /\ users[u] # None /\ o.copy \in UserCopy
  BY <1>1 DEF InOrder, AtWork, HasCopy
<1>3. PICK copy, row : copy = o.copy /\ row = users[u]
  OBVIOUS
<1>4. CASE "insert" \in o.columns
  <2>1. ~Exists(u) /\ new = Inserted(o)
    BY <1>4 DEF Saveable, Saved
  <2>2. new = [copy EXCEPT !.password = Stored(copy.password),
                           !.hashedRefreshToken = Stored(copy.hashedRefreshToken)]
    BY <1>3, <2>1 DEF Inserted
  <2>3. /\ Stored(copy.password) \in Maybe(Passwords)
        /\ Stored(copy.hashedRefreshToken) \in Maybe(Tokens)
    BY <1>2, <1>3 DEF UserCopy, Stored, Maybe
  <2>4. /\ new \in UserRow
        /\ new.email = copy.email /\ new.isEmailVerified = copy.isEmailVerified
        /\ new.businessId = copy.businessId
        /\ new.password = Stored(copy.password)
        /\ new.hashedRefreshToken = Stored(copy.hashedRefreshToken)
    BY ZenonT(30), <1>2, <1>3, <2>2, <2>3 DEF UserCopy, UserRow
  <2>5. /\ Stored(copy.password) = IF o.set = "password" THEN copy.password ELSE None
        /\ Stored(copy.hashedRefreshToken) =
             IF o.set = "hashedRefreshToken" THEN copy.hashedRefreshToken ELSE None
    BY <1>1, <1>3 DEF KnowsWhatItSets, HasCopy, Stored
  <2>6. QED
    BY <1>2, <1>3, <1>4, <2>1, <2>4, <2>5
<1>5. CASE "insert" \notin o.columns /\ Exists(u)
  <2>1. new = Updated(o)
    BY <1>5 DEF Saved
  <2>2. row \in UserRow
    BY <1>3, <1>5 DEF Exists
  <2>3. new =
           [email |-> row.email,
            firstName |-> IF "firstName" \in o.columns THEN copy["firstName"] ELSE row["firstName"],
            password |-> IF "password" \in o.columns THEN copy["password"] ELSE row["password"],
            googleId |-> IF "googleId" \in o.columns THEN copy["googleId"] ELSE row["googleId"],
            isEmailVerified |-> IF "isEmailVerified" \in o.columns THEN copy["isEmailVerified"]
                                ELSE row["isEmailVerified"],
            hashedRefreshToken |-> IF "hashedRefreshToken" \in o.columns
                                   THEN copy["hashedRefreshToken"]
                                   ELSE row["hashedRefreshToken"],
            businessId |-> IF "businessId" \in o.columns THEN copy["businessId"]
                           ELSE row["businessId"]]
    BY <1>1, <1>3, <2>1 DEF Updated
  <2>4. PICK first :
           first = IF "firstName" \in o.columns THEN copy["firstName"] ELSE row["firstName"]
    OBVIOUS
  <2>5. PICK password :
           password = IF "password" \in o.columns THEN copy["password"] ELSE row["password"]
    OBVIOUS
  <2>6. PICK google :
           google = IF "googleId" \in o.columns THEN copy["googleId"] ELSE row["googleId"]
    OBVIOUS
  <2>7. PICK verified :
           verified = IF "isEmailVerified" \in o.columns THEN copy["isEmailVerified"]
                      ELSE row["isEmailVerified"]
    OBVIOUS
  <2>8. PICK token :
           token = IF "hashedRefreshToken" \in o.columns THEN copy["hashedRefreshToken"]
                   ELSE row["hashedRefreshToken"]
    OBVIOUS
  <2>9. PICK business :
           business = IF "businessId" \in o.columns THEN copy["businessId"] ELSE row["businessId"]
    OBVIOUS
  <2>10. PICK email : email = row.email
    OBVIOUS
  <2>11. new = [email |-> email, firstName |-> first, password |-> password,
               googleId |-> google, isEmailVerified |-> verified,
               hashedRefreshToken |-> token, businessId |-> business]
    BY <2>3, <2>4, <2>5, <2>6, <2>7, <2>8, <2>9, <2>10
  <2>12. /\ password = IF o.set = "password" THEN copy.password ELSE row.password
         /\ token =
              IF o.set = "hashedRefreshToken" THEN copy.hashedRefreshToken ELSE row.hashedRefreshToken
    BY <1>1, <1>3, <1>5, <2>5, <2>8 DEF KnowsWhatItSets
  <2>13. /\ o.set = "password" => copy.password # Unset
         /\ o.set = "hashedRefreshToken" => copy.hashedRefreshToken # Unset
    BY <1>1, <1>3 DEF KnowsWhatItSets, HasCopy
  <2>14. new \in UserRow
    <3>1. email \in Emails /\ first \in Names
      BY <1>2, <1>3, <2>2, <2>4, <2>10 DEF UserCopy, UserRow
    <3>2. google \in Maybe(GoogleIds)
      BY <1>2, <1>3, <2>2, <2>6 DEF UserCopy, UserRow
    <3>3. verified \in BOOLEAN
      <4>1. copy.isEmailVerified \in BOOLEAN /\ row.isEmailVerified \in BOOLEAN
        BY <1>2, <1>3, <2>2 DEF UserCopy, UserRow
      <4>2. verified = copy.isEmailVerified \/ verified = row.isEmailVerified
        BY <2>7
      <4>3. QED
        BY <4>1, <4>2
    <3>4. business \in Maybe(Businesses)
      BY <1>2, <1>3, <2>2, <2>9 DEF UserCopy, UserRow
    <3>5. /\ copy.password \in Maybe(Passwords) \union {Unset}
          /\ copy.hashedRefreshToken \in Maybe(Tokens) \union {Unset}
          /\ row.password \in Maybe(Passwords) /\ row.hashedRefreshToken \in Maybe(Tokens)
      BY <1>2, <1>3, <2>2 DEF UserCopy, UserRow
    <3>6. password \in Maybe(Passwords)
      <4>1. CASE o.set = "password"
        BY <2>12, <2>13, <3>5, <4>1
      <4>2. CASE o.set # "password"
        BY <2>12, <3>5, <4>2
      <4>3. QED
        BY <4>1, <4>2
    <3>7. token \in Maybe(Tokens)
      <4>1. CASE o.set = "hashedRefreshToken"
        BY <2>12, <2>13, <3>5, <4>1
      <4>2. CASE o.set # "hashedRefreshToken"
        BY <2>12, <3>5, <4>2
      <4>3. QED
        BY <4>1, <4>2
    <3>8. QED
      BY <2>11, <3>1, <3>2, <3>3, <3>4, <3>6, <3>7 DEF UserRow
  <2>15. /\ new.email = row.email /\ new.isEmailVerified = verified
         /\ new.businessId = business
         /\ new.password = password /\ new.hashedRefreshToken = token
    BY <2>11, <2>10
  <2>16. /\ verified \in {copy.isEmailVerified, row.isEmailVerified}
         /\ business \in {copy.businessId, row.businessId}
    BY <2>7, <2>9
  <2>17. QED
    BY <1>2, <1>3, <1>5, <2>12, <2>14, <2>15, <2>16
<1>6. CASE "insert" \notin o.columns /\ ~Exists(u)
  BY <1>2, <1>6 DEF Saved
<1>7. QED
  BY <1>4, <1>5, <1>6

\* What the cascade leaves of the businesses.
LEMMA CascadedRows ==
  ASSUME Typed, NEW r \in Requests, NEW o, o = request[r], o.pc = "compared",
         businesses' = CascadedBusiness(o), UNCHANGED history
  PROVE  /\ businesses' \in [Businesses -> BusinessRow \union {None}]
         /\ \A b \in Businesses : businesses[b] \in BusinessRow => businesses'[b] \in BusinessRow
         /\ OwnInv => OwnersKept
<1>1. /\ o \in Request /\ InOrder(o)
      /\ businesses \in [Businesses -> BusinessRow \union {None}]
  BY DEF Typed, TypeOK, RequestsInOrder
<1>2. CASE o.businessCopy = Unset
  BY <1>1, <1>2 DEF CascadedBusiness, OwnersKept, history
<1>3. CASE o.businessCopy # Unset
  <2>1. PICK b, bc, row : b = o.copy.businessId /\ bc = o.businessCopy /\ row = businesses[b]
    OBVIOUS
  <2>2. b \in Businesses /\ row \in BusinessRow /\ bc \in BusinessRow
    BY <1>1, <1>3, <2>1 DEF InOrder, IsBusiness, HasCopy, Request
  <2>3. PICK name, ownerId :
          /\ name \in {bc["name"], row["name"]} /\ ownerId \in {bc["ownerId"], row["ownerId"]}
          /\ businesses' = [businesses EXCEPT ![b] = [name |-> name, ownerId |-> ownerId]]
    BY <1>3, <2>1 DEF CascadedBusiness
  <2>4. PICK new : new = [name |-> name, ownerId |-> ownerId]
    OBVIOUS
  <2>5. new \in BusinessRow /\ new.ownerId \in {bc.ownerId, row.ownerId} /\ new # None
    BY <2>2, <2>3, <2>4, SentinelAssumption DEF BusinessRow
  <2>6. \A x \in Businesses : businesses'[x] = IF x = b THEN new ELSE businesses[x]
    BY <1>1, <2>3, <2>4
  <2>7. ASSUME OwnInv
        PROVE  OwnersKept
    <3>1. founder[b] = o.user /\ (b \in handedOver \/ bc.ownerId = o.user)
      <4>1. LinksOwn(o) /\ b # None
        BY <1>1, <1>3, <2>1, <2>7 DEF OwnInv, InOrder
      <4>2. QED
        BY <1>3, <2>1, <4>1 DEF LinksOwn, Founded, HasCopy
    <3>2. QED
      BY <2>1, <2>2, <2>5, <2>6, <3>1, SentinelAssumption DEF OwnersKept, history
  <2>8. QED
    BY <1>1, <2>3, <2>5, <2>6, <2>7, <2>4
<1>4. QED
  BY <1>2, <1>3

LEMMA WriteUserStep ==
  ASSUME Typed, NEW r \in Requests, WriteUser(r)
  PROVE  Typed' /\ (EmailsInv => EmailsInv') /\ (OwnInv => OwnInv')
<1>1. PICK o, u, new, q :
        /\ o = request[r] /\ u = o.user /\ new = Saved(o)
        /\ q = IF o.next = "login" THEN LoggingIn(u) ELSE Idle
  OBVIOUS
<1>2. /\ o.pc = "compared" /\ Saveable(o) /\ o \in Request /\ InOrder(o)
      /\ users' = [users EXCEPT ![u] = new]
      /\ businesses' = CascadedBusiness(o) /\ Become(r, q)
      /\ UNCHANGED <<mails, routes, history>>
  BY <1>1 DEF WriteUser, Typed, TypeOK, RequestsInOrder
<1>3. /\ u \in Users /\ users[u] # None
      /\ \/ /\ new \in UserRow
            /\ \/ new.email = o.copy.email
               \/ Exists(u) /\ new.email = users[u].email
            /\ \/ new.isEmailVerified = o.copy.isEmailVerified
               \/ Exists(u) /\ new.isEmailVerified = users[u].isEmailVerified
            /\ \/ new.businessId = o.copy.businessId
               \/ Exists(u) /\ new.businessId = users[u].businessId
         \/ new = users[u] /\ ~Exists(u)
  BY <1>1, <1>2, SavedRow
<1>4. /\ businesses' \in [Businesses -> BusinessRow \union {None}]
      /\ \A b \in Businesses : businesses[b] \in BusinessRow => businesses'[b] \in BusinessRow
      /\ OwnInv => OwnersKept
  BY <1>1, <1>2, CascadedRows
<1>5. /\ \A x \in Users : users'[x] = IF x = u THEN new ELSE users[x]
      /\ users' \in [Users -> UserRow \union {None, Gone}]
  BY <1>2, <1>3 DEF Typed, TypeOK
<1>6. new # None
  BY <1>3, SentinelAssumption
<1>7. RowsKept /\ ProofsKept /\ HistoryTyped'
  BY <1>2, <1>4, <1>5, <1>6 DEF RowsKept, ProofsKept, HistoryTyped, history, Typed, TypeOK
<1>8. /\ q \in Request /\ q.pc \in {"login", "idle"}
      /\ q.pc = "login" => q.user = u
  BY <1>1, <1>3, IdleRequest, LoggingInRequest
<1>9. InOrder(q)' /\ KnowsWhatItSets(q) /\ LinksOwn(q)' /\ \A f : Vouches(q, f)'
  BY <1>3, <1>5, <1>6, <1>8
  DEF InOrder, KnowsWhatItSets, LinksOwn, Vouches, HasCopy, AtWork
<1>10. \A x \in Users : Exists(x)' =>
         \/ users'[x] = users[x] /\ Exists(x)
         \/ x = u /\ new \in UserRow /\ users'[x] = new
  BY <1>3, <1>5 DEF Exists
<1>11. LinksExist'
  <2> SUFFICES ASSUME NEW x \in Users, Exists(x)', users'[x].businessId # None
               PROVE  IsBusiness(users[x].businessId)'
    BY DEF LinksExist
  <2>1. PICK b : b = users'[x].businessId
    OBVIOUS
  <2>2. IsBusiness(b)
    <3>1. o.copy.businessId # None => IsBusiness(o.copy.businessId)
      BY <1>2 DEF InOrder, HasCopy
    <3>2. \A y \in Users : Exists(y) /\ users[y].businessId # None => IsBusiness(users[y].businessId)
      BY DEF Typed, LinksExist
    <3>3. CASE users'[x] = users[x] /\ Exists(x)
      BY <2>1, <3>2, <3>3
    <3>4. CASE x = u /\ new \in UserRow /\ users'[x] = new
      <4>1. b = o.copy.businessId \/ (Exists(u) /\ b = users[u].businessId)
        BY <1>3, <2>1, <3>4, SentinelAssumption DEF Exists
      <4>2. QED
        BY <1>3, <2>1, <3>1, <3>2, <4>1
    <3>5. QED
      BY <1>10, <3>3, <3>4
  <2>3. IsBusiness(b)'
    BY <1>4, <2>2 DEF IsBusiness
  <2>4. QED
    BY <2>1, <2>3 DEF IsBusiness
<1>12. Typed'
  BY <1>2, <1>4, <1>5, <1>7, <1>8, <1>9, <1>11, TypedNext DEF Typed, TypeOK
<1>13. ASSUME EmailsInv
       PROVE  EmailsInv'
  <2>1. PICK f \in [Users -> Maybe(Emails)] : EmailsAre(f)
    BY <1>13 DEF EmailsInv
  <2>2. o.copy.email = f[u] /\ (o.copy.isEmailVerified => ReasonToVerify(f[u]))
    BY <1>1, <1>2, <2>1 DEF EmailsAre, Vouches, HasCopy
  <2>3. Exists(u) => users[u].email = f[u] /\ (users[u].isEmailVerified => ReasonToVerify(f[u]))
    BY <1>3, <2>1 DEF EmailsAre
  <2>4. ASSUME NEW x \in Users, Exists(x)'
        PROVE  users'[x].email = f[x] /\ (users'[x].isEmailVerified => ReasonToVerify(f[x])')
    <3>1. CASE users'[x] = users[x] /\ Exists(x)
      BY <1>7, <2>1, <3>1, ReasonStays DEF EmailsAre
    <3>2. CASE x = u /\ new \in UserRow /\ users'[x] = new
      <4>1. new.email = f[u] /\ (new.isEmailVerified => ReasonToVerify(f[u]))
        BY <1>3, <2>2, <2>3, <3>2, SentinelAssumption DEF Exists
      <4>2. QED
        BY <1>7, <3>2, <4>1, ReasonStays
    <3>3. QED
      BY <1>10, <2>4, <3>1, <3>2
  <2>5. QED
    BY <1>2, <1>7, <1>9, <2>1, <2>4, EmailsNext
<1>14. ASSUME OwnInv
       PROVE  OwnInv'
  <2>1. LinksOwn(o) /\ OwnersKept
    BY <1>1, <1>4, <1>14 DEF OwnInv
  <2>2. ASSUME NEW x \in Users, Exists(x)', users'[x].businessId # None
        PROVE  Founded(x, users[x].businessId)'
    <3>1. PICK b : b = users'[x].businessId
      OBVIOUS
    <3>2. b \in Businesses
      BY <1>5, <2>2, <3>1 DEF Exists, UserRow, Maybe
    <3>3. \A y \in Users : Exists(y) /\ users[y].businessId # None =>
            Founded(y, users[y].businessId)
      BY <1>14 DEF OwnInv, LinksFounded
    <3>4. Founded(x, b)
      <4>1. CASE users'[x] = users[x] /\ Exists(x)
        BY <2>2, <3>1, <3>3, <4>1
      <4>2. CASE x = u /\ new \in UserRow /\ users'[x] = new
        <5>1. b = o.copy.businessId \/ (Exists(u) /\ b = users[u].businessId)
          BY <1>3, <3>1, <4>2, SentinelAssumption DEF Exists
        <5>2. o.copy.businessId # None => Founded(u, o.copy.businessId)
          BY <1>1, <1>2, <2>1 DEF LinksOwn, HasCopy
        <5>3. QED
          BY <1>3, <2>2, <3>1, <3>3, <4>2, <5>1, <5>2
      <4>3. QED
        BY <1>10, <2>2, <4>1, <4>2
    <3>5. Founded(x, b)'
      BY <2>1, <3>2, <3>4 DEF OwnersKept, Founded
    <3>6. QED
      BY <3>1, <3>5 DEF Founded
  <2>3. LinksFounded'
    BY <2>2 DEF LinksFounded
  <2>4. QED
    BY <1>2, <1>9, <1>14, <2>1, <2>3, OwnNext
<1>15. QED
  BY <1>12, <1>13, <1>14

LEMMA CrashStep ==
  ASSUME Typed, Crash
  PROVE  Typed' /\ (EmailsInv => EmailsInv') /\ (OwnInv => OwnInv')
<1>1. /\ request' \in [Requests -> Request] /\ \A r \in Requests : request'[r] = Idle
      /\ UNCHANGED <<users, businesses, mails, routes, history>>
  BY IdleRequest DEF Crash
<1>2. /\ InOrder(Idle)' /\ KnowsWhatItSets(Idle) /\ LinksOwn(Idle)'
      /\ \A f : Vouches(Idle, f)'
  BY IdleRequest, IdleQuiet DEF InOrder, LinksOwn, Vouches, AtWork, HasCopy
<1>3. Typed'
  <2>1. RequestsInOrder'
    BY <1>1, <1>2 DEF RequestsInOrder, InOrder
  <2>2. CopiesKnowWhatTheySet'
    BY <1>1, <1>2 DEF CopiesKnowWhatTheySet, KnowsWhatItSets
  <2>3. LinksExist' /\ TypeOK'
    BY <1>1 DEF Typed, TypeOK, LinksExist, Exists, IsBusiness, history
  <2>4. QED
    BY <2>1, <2>2, <2>3 DEF Typed
<1>4. ASSUME EmailsInv
      PROVE  EmailsInv'
  <2>1. PICK f \in [Users -> Maybe(Emails)] : EmailsAre(f)
    BY <1>4 DEF EmailsInv
  <2>2. EmailsAre(f)'
    BY <1>1, <1>2, <2>1 DEF EmailsAre, Exists, ReasonToVerify, Vouches, history
  <2>3. QED
    BY <2>2 DEF EmailsInv
<1>5. ASSUME OwnInv
      PROVE  OwnInv'
  BY <1>1, <1>2, <1>5
  DEF OwnInv, LinksFounded, FoundersOwn, Founded, Exists, LinksOwn, history
<1>6. QED
  BY <1>3, <1>4, <1>5

----------------------------------------------------------------------------
(***************************************************************************)
(* The inductive invariant and the theorems on states.                     *)
(***************************************************************************)

\* The members start with one password each, and nothing else.
LEMMA InitialRows ==
  ASSUME NEW members \in SUBSET Users, users \in SignedUp(members)
  PROVE  \E f \in [Users -> Maybe(Emails)] :
           /\ users \in [Users -> UserRow \union {None}]
           /\ \A u \in Users : Exists(u) =>
                /\ users[u].email = f[u] /\ ~users[u].isEmailVerified
                /\ users[u].businessId = None /\ users[u].hashedRefreshToken = None
<1>1. PICK email \in {f \in [members -> Emails] : \A u, v \in members : f[u] = f[v] => u = v},
           name \in SignUpNames, password \in Passwords :
        users = [u \in Users |->
                   IF u \in members THEN NewUser(email[u], name, password, None) ELSE None]
  BY DEF SignedUp
<1>2. email \in [members -> Emails] /\ name \in Names /\ password \in Maybe(Passwords)
  BY <1>1, AccountsAssumption DEF Maybe
<1>3. PICK f : f = [u \in Users |-> IF u \in members THEN email[u] ELSE None]
  OBVIOUS
<1>4. f \in [Users -> Maybe(Emails)]
  BY <1>2, <1>3 DEF Maybe
<1>5. None \in Maybe(GoogleIds)
  BY DEF Maybe
<1>6. ASSUME NEW u \in Users, u \in members
      PROVE  /\ users[u] \in UserRow /\ users[u].email = f[u] /\ ~users[u].isEmailVerified
             /\ users[u].businessId = None /\ users[u].hashedRefreshToken = None
  <2>1. PICK e \in Emails : e = email[u]
    BY <1>2, <1>6
  <2>2. users[u] = NewUser(e, name, password, None) /\ f[u] = e
    BY <1>1, <1>3, <1>6, <2>1
  <2>3. QED
    BY <1>2, <1>5, <2>2, NewUserRow
<1>7. ASSUME NEW u \in Users, u \notin members
      PROVE  users[u] = None /\ ~Exists(u)
  BY <1>1, <1>7, SentinelAssumption DEF Exists
<1>8. users \in [Users -> UserRow \union {None}]
  <2>1. \A u \in Users : users[u] \in UserRow \union {None}
    BY <1>6, <1>7
  <2>2. QED
    BY <1>1, <2>1
<1>9. QED
  BY <1>4, <1>6, <1>7, <1>8

LEMMA InitInv ==
  ASSUME Init
  PROVE  Typed /\ EmailsInv /\ OwnInv
<1>1. PICK members \in SUBSET Users : users \in SignedUp(members) /\ routes \in SUBSET Operation
  BY AccountsAssumption DEF Init
<1>2. PICK f \in [Users -> Maybe(Emails)] :
        /\ users \in [Users -> UserRow \union {None}]
        /\ \A u \in Users : Exists(u) =>
             users[u].email = f[u] /\ ~users[u].isEmailVerified /\ users[u].businessId = None
  BY <1>1, InitialRows
<1>3. \A r \in Requests : request[r] = Idle
  BY DEF Init
<1>4. TypeOK
  BY <1>1, <1>2, IdleRequest DEF Init, TypeOK, Maybe
<1>5. Typed
  BY <1>2, <1>3, <1>4, IdleQuiet
  DEF Typed, RequestsInOrder, CopiesKnowWhatTheySet, LinksExist
<1>6. EmailsInv
  BY <1>2, <1>3, IdleQuiet DEF EmailsInv, EmailsAre
<1>7. OwnInv
  BY <1>2, <1>3, IdleQuiet DEF Init, OwnInv, LinksFounded, FoundersOwn
<1>8. QED
  BY <1>5, <1>6, <1>7

\* The steps in which neither table nor mails change.
QuietNext(r) ==
  \/ SignUp(r) \/ GoogleSignIn(r) \/ GoogleMobileSignIn(r) \/ SignIn(r) \/ Refresh(r) \/ Logout(r)
  \/ ConfirmEmail(r) \/ ResendCode(r) \/ VerifyCode(r)
  \/ UpdateUserProfile(r) \/ ResetPassword(r) \/ DeleteUser(r) \/ CreateBusiness(r)
  \/ Login(r) \/ SetEmailVerificationState(r) \/ LoadOwner(r) \/ CompareUser(r) \/ Refuse(r)

LEMMA QuietNextQuiet ==
  ASSUME Typed, NEW r \in Requests, QuietNext(r)
  PROVE  Quiet(r)
BY SignUpQuiet, GoogleSignInQuiet, AskForCodeQuiet, VerifyCodeQuiet,
   SetEmailVerificationStateQuiet, OpenSessionQuiet, StoreTokenQuiet, UpdateUserProfileQuiet,
   ResetPasswordQuiet, DeleteUserQuiet, CreateBusinessQuiet, LoadOwnerQuiet, CompareUserQuiet,
   RefuseQuiet
DEF QuietNext

LEMMA StepInv ==
  ASSUME Typed, [Next]_vars
  PROVE  Typed' /\ (EmailsInv => EmailsInv') /\ (OwnInv => OwnInv')
<1>1. CASE UNCHANGED vars
  <2>1. Typed'
    BY <1>1 DEF vars, Typed, TypeOK, RequestsInOrder, InOrder, IsBusiness,
                CopiesKnowWhatTheySet, KnowsWhatItSets, LinksExist, Exists, history
  <2>2. EmailsInv => EmailsInv'
    BY <1>1 DEF vars, EmailsInv, EmailsAre, Exists, Vouches, ReasonToVerify, history
  <2>3. OwnInv => OwnInv'
    BY <1>1 DEF vars, OwnInv, LinksFounded, FoundersOwn, LinksOwn, Founded, Exists, history
  <2>4. QED
    BY <2>1, <2>2, <2>3
<1>2. CASE Crash
  BY <1>2, CrashStep
<1>3. CASE \E r \in Requests : Start(r) \/ Continue(r)
  <2>1. PICK r \in Requests : Start(r) \/ Continue(r)
    BY <1>3
  <2>2. CASE QuietNext(r)
    BY <2>2, QuietNextQuiet, QuietStep
  <2>3. CASE \E u \in Users : StoreUser(r, u)
    BY <2>3, StoreUserStep
  <2>4. CASE \E c \in Codes : SendCode(r, c)
    BY <2>4, SendCodeStep
  <2>5. CASE StoreMail(r)
    BY <2>5, StoreMailStep
  <2>6. CASE RemoveUser(r)
    BY <2>6, RemoveUserStep
  <2>7. CASE \E b \in Businesses : SaveBusiness(r, b)
    BY <2>7, SaveBusinessStep
  <2>8. CASE ReplaceBusiness(r)
    BY <2>8, ReplaceBusinessStep
  <2>9. CASE UpdateBusiness(r)
    BY <2>9, UpdateBusinessStep
  <2>10. CASE WriteUser(r)
    BY <2>10, WriteUserStep
  <2>11. QED
    BY <2>1, <2>2, <2>3, <2>4, <2>5, <2>6, <2>7, <2>8, <2>9, <2>10
    DEF Start, Continue, QuietNext
<1>4. QED
  BY <1>1, <1>2, <1>3 DEF Next

LEMMA TypedAlways == Spec => []Typed
<1>1. Init => Typed
  BY InitInv
<1>2. Typed /\ [Next]_vars => Typed'
  BY StepInv
<1>3. QED
  BY <1>1, <1>2, PTL DEF Spec

\* Rows, copies and requests keep their shape, however many requests overlap,
\* fail or are cut off by a crash of the process.
THEOREM TypeCorrect == Spec => []TypeOK
<1>1. Typed => TypeOK
  BY DEF Typed
<1>2. QED
  BY <1>1, TypedAlways, PTL

\* However requests overlap, and however often accounts are removed and
\* signed up or inserted again, one counts as verified only when a code was
\* shown to its own address, Google signed it in, or a client of the mobile
\* route named it (setEmailVerificationState, createUser,
\* validateVerificationCode, googleLoginMobile).
THEOREM VerifiedEmailsAlwaysHaveReason == Spec => []VerifiedEmailsHaveReason
<1>1. Init => Typed /\ EmailsInv
  BY InitInv
<1>2. Typed /\ EmailsInv /\ [Next]_vars => (Typed /\ EmailsInv)'
  BY StepInv
<1>3. EmailsInv => VerifiedEmailsHaveReason
  BY DEF EmailsInv, EmailsAre, VerifiedEmailsHaveReason
<1>4. QED
  BY <1>1, <1>2, <1>3, PTL DEF Spec

\* Whatever owners clients put to PUT /businesses/:id, no overlapping save of
\* a user links an account to a business that was created for somebody else,
\* and only such a put, never the cascade of a save, parts a linked user from
\* the ownership (BusinessService.create, update).
THEOREM LinkedBusinessAlwaysOwned == Spec => []LinkedBusinessIsOwned
<1>1. Init => Typed /\ OwnInv
  BY InitInv
<1>2. Typed /\ OwnInv /\ [Next]_vars => (Typed /\ OwnInv)'
  BY StepInv
<1>3. Typed /\ OwnInv => LinkedBusinessIsOwned
  <2> SUFFICES ASSUME Typed, OwnInv, NEW u \in Users, Exists(u), users[u].businessId # None
               PROVE  LET b == users[u].businessId IN
                      /\ businesses[b] # None
                      /\ founder[b] = u
                      /\ b \notin handedOver => Owns(u, b)
    BY DEF LinkedBusinessIsOwned
  <2>1. PICK b : b = users[u].businessId
    OBVIOUS
  <2>2. b \in Businesses /\ Founded(u, b)
    BY <2>1 DEF Typed, LinksExist, IsBusiness, OwnInv, LinksFounded
  <2>3. QED
    BY <2>1, <2>2 DEF OwnInv, FoundersOwn, Founded, Owns
<1>4. QED
  BY <1>1, <1>2, <1>3, PTL DEF Spec

----------------------------------------------------------------------------
(***************************************************************************)
(* The hidden columns implement HiddenColumn.  The steps of its two        *)
(* instances are the same but for the column.                              *)
(***************************************************************************)

Ex == {u \in Users : Exists(u)}
ValuesOf(c) == IF c = "password" THEN Passwords ELSE Tokens

ChangeOf(c) == [user : Users \union {None}, value : ValuesOf(c) \union {None}]

\* The change that a request in state q is about to make.
Pending(q, c) ==
  CASE q.pc \in {"read", "compared"} /\ q.set = c -> [user |-> q.user, value |-> q.copy[c]]
    [] q.pc = "creating" /\ q.copy[c] # None -> [user |-> None, value |-> q.copy[c]]
    [] OTHER -> None

Enrols(c, u) ==
  /\ u \notin Ex
  /\ Ex' = Ex \union {u}
  /\ UNCHANGED <<Column(c), PendingChange(c)>>

Asks(c, r) ==
  /\ PendingChange(c)[r] = None
  /\ \E d \in ChangeOf(c) :
       /\ d.user \in Ex \union {None}
       /\ PendingChange(c)' = [PendingChange(c) EXCEPT ![r] = d]
  /\ UNCHANGED <<Ex, Column(c)>>

Applies(c, r) ==
  /\ PendingChange(c)[r] # None
  /\ \E u \in Users :
       /\ \/ PendingChange(c)[r].user = u
          \/ PendingChange(c)[r].user = None /\ u \notin Ex
       /\ Ex' = Ex \union {u}
       /\ Column(c)' = [Column(c) EXCEPT ![u] = PendingChange(c)[r].value]
  /\ PendingChange(c)' = [PendingChange(c) EXCEPT ![r] = None]

Abandons(c, R) ==
  /\ PendingChange(c)' = [r \in Requests |-> IF r \in R THEN None ELSE PendingChange(c)[r]]
  /\ UNCHANGED <<Ex, Column(c)>>

Removes(c, u) ==
  /\ u \in Ex
  /\ Ex' = Ex \ {u}
  /\ Column(c)' = [Column(c) EXCEPT ![u] = None]
  /\ UNCHANGED PendingChange(c)

ColumnStep(c) ==
  \/ UNCHANGED <<Ex, Column(c), PendingChange(c)>>
  \/ \E u \in Users : Enrols(c, u) \/ Removes(c, u)
  \/ \E r \in Requests : Asks(c, r) \/ Applies(c, r)
  \/ \E R \in SUBSET Requests : Abandons(c, R)

\* What the change of one row does to a column.
LEMMA RowEffect ==
  ASSUME Typed, NEW c, NEW u \in Users, NEW new, users' = [users EXCEPT ![u] = new]
  PROVE  /\ Ex' = IF new \in UserRow THEN Ex \union {u} ELSE Ex \ {u}
         /\ Column(c)' = [Column(c) EXCEPT ![u] = IF new \in UserRow THEN new[c] ELSE None]
         /\ Column(c)[u] = IF Exists(u) THEN users[u][c] ELSE None
<1>1. \A x \in Users : users'[x] = IF x = u THEN new ELSE users[x]
  BY DEF Typed, TypeOK
<1>2. \A x \in Users : Exists(x)' <=> IF x = u THEN new \in UserRow ELSE Exists(x)
  BY <1>1 DEF Exists
<1>3. Ex' = IF new \in UserRow THEN Ex \union {u} ELSE Ex \ {u}
  BY <1>2 DEF Ex
<1>4. PICK v : v = IF new \in UserRow THEN new[c] ELSE None
  OBVIOUS
<1>5. Column(c)' = [x \in Users |-> IF x = u THEN v ELSE Column(c)[x]]
  BY <1>1, <1>2, <1>4 DEF Column
<1>6. Column(c)' = [Column(c) EXCEPT ![u] = v]
  BY <1>5 DEF Column
<1>7. QED
  BY <1>3, <1>4, <1>6 DEF Column

LEMMA RowsUntouched ==
  ASSUME NEW c, users' = users
  PROVE  UNCHANGED <<Ex, Column(c)>>
BY DEF Ex, Column, Exists

\* What the change of one request does to the changes that are pending.
LEMMA RequestEffect ==
  ASSUME Typed, NEW c, NEW r \in Requests, NEW q, Become(r, q)
  PROVE  /\ PendingChange(c)' = [PendingChange(c) EXCEPT ![r] = Pending(q, c)]
         /\ PendingChange(c)[r] = Pending(request[r], c)
         /\ Pending(q, c) = Pending(request[r], c) => UNCHANGED PendingChange(c)
         /\ Pending(q, c) = None =>
              PendingChange(c)' =
                [s \in Requests |-> IF s \in {r} THEN None ELSE PendingChange(c)[s]]
<1>1. \A s \in Requests : request'[s] = IF s = r THEN q ELSE request[s]
  BY DEF Become, Typed, TypeOK
<1>2. PICK d : d = Pending(q, c)
  OBVIOUS
<1>3. \A s \in Requests : PendingChange(c)[s] = Pending(request[s], c)
  BY DEF PendingChange, Pending
<1>4. PendingChange(c)' = [s \in Requests |-> IF s = r THEN d ELSE PendingChange(c)[s]]
  BY <1>1, <1>2 DEF PendingChange, Pending
<1>5. PendingChange(c) = [s \in Requests |-> PendingChange(c)[s]]
  BY DEF PendingChange
<1>6. QED
  BY <1>2, <1>3, <1>4, <1>5

LEMMA ValueStored ==
  ASSUME NEW c \in Hidden, NEW row \in UserRow
  PROVE  row[c] \in ValuesOf(c) \union {None}
BY DEF UserRow, Hidden, ValuesOf, Maybe

LEMMA NoPending ==
  ASSUME NEW c, NEW q, q.pc \notin Changing \/ (q.pc \in {"read", "compared"} /\ q.set # c)
  PROVE  Pending(q, c) = None
BY DEF Pending, Changing

LEMMA PendingSave ==
  ASSUME NEW c \in Hidden, NEW q \in Request, InOrder(q), KnowsWhatItSets(q),
         q.pc \in {"read", "compared"}, q.set = c
  PROVE  /\ q.user \in Users /\ q.copy[c] \in ValuesOf(c) \union {None}
         /\ Pending(q, c).user = q.user /\ Pending(q, c).value = q.copy[c]
         /\ Pending(q, c) \in ChangeOf(c)
         /\ Pending(q, c) # None
<1>1. q.copy \in UserCopy /\ q.user \in Users
  BY DEF InOrder, AtWork, HasCopy
<1>2. Pending(q, c) = [user |-> q.user, value |-> q.copy[c]]
  BY DEF Pending
<1>3. q.copy[c] \in ValuesOf(c) \union {None}
  <2>1. CASE c = "password"
    <3>1. q.copy.password \in Passwords \union {None}
      BY <1>1, <2>1 DEF KnowsWhatItSets, HasCopy, UserCopy, Maybe
    <3>2. QED
      BY <2>1, <3>1 DEF ValuesOf
  <2>2. CASE c = "hashedRefreshToken"
    <3>1. q.copy.hashedRefreshToken \in Tokens \union {None}
      BY <1>1, <2>2 DEF KnowsWhatItSets, HasCopy, UserCopy, Maybe
    <3>2. QED
      BY <2>2, <3>1 DEF ValuesOf
  <2>3. QED
    BY <2>1, <2>2 DEF Hidden
<1>4. Pending(q, c) # None
  BY <1>1, <1>2, <1>3, SentinelAssumption DEF ValuesOf, Maybe
<1>5. QED
  BY <1>1, <1>2, <1>3, <1>4 DEF ChangeOf

LEMMA PendingSignUp ==
  ASSUME NEW c \in Hidden, NEW q, q.pc = "creating", q.copy \in UserRow, q.copy[c] # None
  PROVE  /\ Pending(q, c).user = None /\ Pending(q, c).value = q.copy[c]
         /\ Pending(q, c) \in ChangeOf(c)
         /\ Pending(q, c) # None
<1>1. Pending(q, c) = [user |-> None, value |-> q.copy[c]]
  BY DEF Pending
<1>2. q.copy[c] \in ValuesOf(c) \union {None}
  BY ValueStored
<1>3. Pending(q, c) # None
  BY <1>1, <1>2, SentinelAssumption DEF ValuesOf, Maybe
<1>4. QED
  BY <1>1, <1>2, <1>3 DEF ChangeOf

LEMMA QuietColumn ==
  ASSUME Typed, NEW c \in Hidden, NEW r \in Requests, Quiet(r)
  PROVE  ColumnStep(c)
<1>1. PICK q : Takes(r, q)
  BY DEF Quiet
<1>2. /\ q \in Request /\ Become(r, q) /\ InOrder(q) /\ KnowsWhatItSets(q)
      /\ q.pc = "creating" => request[r].pc \notin Changing
      /\ q.pc \in {"read", "compared"} =>
           \/ Exists(q.user) /\ request[r].pc \notin Changing
           \/ /\ request[r].pc = "read"
              /\ q.user = request[r].user /\ q.set = request[r].set
              /\ q.copy = request[r].copy
  BY <1>1 DEF Takes
<1>3. UNCHANGED <<Ex, Column(c)>>
  BY RowsUntouched DEF Quiet, TablesStay
<1>4. CASE Pending(q, c) = None
  <2>1. Abandons(c, {r})
    BY <1>2, <1>3, <1>4, RequestEffect DEF Abandons
  <2>2. QED
    BY <2>1 DEF ColumnStep
<1>5. CASE Pending(q, c) = Pending(request[r], c)
  BY <1>2, <1>3, <1>5, RequestEffect DEF ColumnStep
<1>6. CASE Pending(q, c) # None /\ Pending(q, c) # Pending(request[r], c)
  <2>1. /\ request[r].pc \notin Changing
        /\ \E d \in ChangeOf(c) : d = Pending(q, c) /\ d.user \in Ex \union {None}
    <3>1. CASE q.pc \in {"read", "compared"} /\ q.set = c
      <4>1. Exists(q.user) /\ request[r].pc \notin Changing
        BY <1>2, <1>6, <3>1 DEF Pending
      <4>2. Pending(q, c) \in ChangeOf(c) /\ Pending(q, c).user = q.user /\ q.user \in Users
        BY <1>2, <3>1, PendingSave
      <4>3. QED
        BY <4>1, <4>2 DEF Ex
    <3>2. CASE q.pc = "creating" /\ q.copy[c] # None
      <4>1. q.copy \in UserRow
        BY <1>2, <3>2 DEF InOrder
      <4>2. QED
        BY <1>2, <3>2, <4>1, PendingSignUp
    <3>3. QED
      BY <1>6, <3>1, <3>2 DEF Pending
  <2>2. PICK d \in ChangeOf(c) : d = Pending(q, c) /\ d.user \in Ex \union {None}
    BY <2>1
  <2>3. /\ PendingChange(c)[r] = None
        /\ PendingChange(c)' = [PendingChange(c) EXCEPT ![r] = d]
    BY <1>2, <2>1, <2>2, NoPending, RequestEffect
  <2>4. Asks(c, r)
    BY <1>3, <2>2, <2>3 DEF Asks
  <2>5. QED
    BY <2>4 DEF ColumnStep
<1>7. QED
  BY <1>4, <1>5, <1>6

\* A sign-up brings its password; the other column starts empty.
LEMMA StoreUserColumn ==
  ASSUME Typed, NEW c \in Hidden, NEW r \in Requests, NEW u \in Users, StoreUser(r, u)
  PROVE  ColumnStep(c)
<1>1. PICK o, new, q : o = request[r] /\ new = o.copy /\ q = Signup(u, o.email, "NEW")
  OBVIOUS
<1>2. /\ o.pc = "creating" /\ users[u] = None /\ Become(r, q) /\ new \in UserRow
      /\ users' = [users EXCEPT ![u] = new] /\ o.email \in Emails
  BY <1>1 DEF StoreUser, Typed, RequestsInOrder, InOrder, UserRow
<1>3. Pending(q, c) = None
  <2>1. q.pc = "code"
    BY <1>1, <1>2, SignupRequest
  <2>2. QED
    BY <2>1, NoPending DEF Changing
<1>4. PICK v : v = new[c]
  OBVIOUS
<1>5. u \notin Ex /\ ~Exists(u)
  BY <1>2, SentinelAssumption DEF Ex, Exists
<1>6. /\ Ex' = Ex \union {u} /\ Column(c)' = [Column(c) EXCEPT ![u] = v]
      /\ Column(c)[u] = None
  BY <1>2, <1>4, <1>5, RowEffect
<1>7. CASE v = None
  <2>1. Pending(request[r], c) = None
    BY <1>1, <1>2, <1>4, <1>7 DEF Pending
  <2>2. UNCHANGED PendingChange(c)
    BY <1>2, <1>3, <2>1, RequestEffect
  <2>3. UNCHANGED Column(c)
    BY <1>6, <1>7 DEF Column
  <2>4. Enrols(c, u)
    BY <1>5, <1>6, <2>2, <2>3 DEF Enrols
  <2>5. QED
    BY <2>4 DEF ColumnStep
<1>8. CASE v # None
  <2>1. PICK d : d = Pending(o, c)
    OBVIOUS
  <2>2. d.user = None /\ d.value = v /\ d # None
    BY <1>1, <1>2, <1>4, <1>8, <2>1, PendingSignUp
  <2>3. PendingChange(c)[r] = d /\ PendingChange(c)' = [PendingChange(c) EXCEPT ![r] = None]
    BY <1>1, <1>2, <1>3, <2>1, RequestEffect
  <2>4. Applies(c, r)
    BY <1>5, <1>6, <2>2, <2>3 DEF Applies
  <2>5. QED
    BY <2>4 DEF ColumnStep
<1>9. QED
  BY <1>7, <1>8

\* No row changes, and no change of a hidden column begins.
LEMMA OtherColumn ==
  ASSUME Typed, NEW c \in Hidden, NEW r \in Requests, NEW q, Become(r, q), users' = users,
         q.pc \notin Changing \/ (q.pc \in {"read", "compared"} /\ q.set # c)
  PROVE  ColumnStep(c)
<1>1. Pending(q, c) = None
  BY NoPending
<1>2. Abandons(c, {r})
  BY <1>1, RequestEffect, RowsUntouched DEF Abandons
<1>3. QED
  BY <1>2 DEF ColumnStep

LEMMA SendCodeColumn ==
  ASSUME Typed, NEW c \in Hidden, NEW r \in Requests, NEW code \in Codes, SendCode(r, code)
  PROVE  ColumnStep(c)
<1>1. PICK o : o = request[r]
  OBVIOUS
<1>2. PICK q : q = [o EXCEPT !.pc = "mailed", !.code = code]
  OBVIOUS
<1>3. Become(r, q) /\ users' = users /\ o \in Request
  BY <1>1, <1>2 DEF SendCode, Typed, TypeOK
<1>4. q.pc = "mailed"
  BY <1>2, <1>3 DEF Request
<1>5. QED
  BY <1>3, <1>4, OtherColumn DEF Changing

LEMMA StoreMailColumn ==
  ASSUME Typed, NEW c \in Hidden, NEW r \in Requests, StoreMail(r)
  PROVE  ColumnStep(c)
<1>1. PICK q : /\ q = IF request[r].next = "login" THEN LoggingIn(request[r].user) ELSE Idle
               /\ Become(r, q) /\ users' = users
  BY DEF StoreMail
<1>2. request[r].user \in Users
  BY DEF StoreMail, Typed, RequestsInOrder, InOrder, AtWork
<1>3. q.pc \in {"login", "idle"}
  BY <1>1, <1>2, LoggingInRequest, IdleRequest
<1>4. QED
  BY <1>1, <1>3, OtherColumn DEF Changing

LEMMA SaveBusinessColumn ==
  ASSUME Typed, NEW c \in Hidden, NEW r \in Requests, NEW b \in Businesses, SaveBusiness(r, b)
  PROVE  ColumnStep(c)
<1>1. PICK o : o = request[r]
  OBVIOUS
<1>2. PICK q : q = [o EXCEPT !.pc = "read", !.copy = LinkTo(o.copy, b)]
  OBVIOUS
<1>3. Become(r, q) /\ users' = users /\ o \in Request /\ o.pc = "business" /\ o.set = None
  BY <1>1, <1>2 DEF SaveBusiness, Typed, TypeOK, CopiesKnowWhatTheySet, KnowsWhatItSets
<1>4. q.set = None /\ q.pc = "read"
  BY <1>2, <1>3 DEF Request
<1>5. None # c
  BY SentinelAssumption DEF Columns
<1>6. QED
  BY <1>3, <1>4, <1>5, OtherColumn

LEMMA RemoveUserColumn ==
  ASSUME Typed, NEW c \in Hidden, NEW r \in Requests, RemoveUser(r)
  PROVE  ColumnStep(c)
<1>1. PICK u : u = request[r].user
  OBVIOUS
<1>2. /\ users' = [users EXCEPT ![u] = Gone] /\ Become(r, Idle) /\ u \in Users
      /\ request[r].pc = "deleting"
  BY <1>1 DEF RemoveUser, Typed, RequestsInOrder, InOrder, AtWork
<1>3. Pending(Idle, c) = Pending(request[r], c)
  BY <1>2, IdleRequest, NoPending DEF Changing
<1>4. UNCHANGED PendingChange(c)
  BY <1>2, <1>3, RequestEffect
<1>5. /\ Ex' = Ex \ {u} /\ Column(c)' = [Column(c) EXCEPT ![u] = None]
      /\ Column(c)[u] = IF Exists(u) THEN users[u][c] ELSE None
  BY <1>2, RowEffect, SentinelAssumption
<1>6. CASE Exists(u)
  <2>1. Removes(c, u)
    BY <1>2, <1>4, <1>5, <1>6 DEF Removes, Ex
  <2>2. QED
    BY <1>2, <2>1 DEF ColumnStep
<1>7. CASE ~Exists(u)
  <2>1. UNCHANGED <<Ex, Column(c)>>
    BY <1>5, <1>7 DEF Ex, Column
  <2>2. QED
    BY <1>4, <2>1 DEF ColumnStep
<1>8. QED
  BY <1>6, <1>7

LEMMA WriteUserColumn ==
  ASSUME Typed, NEW c \in Hidden, NEW r \in Requests, WriteUser(r)
  PROVE  ColumnStep(c)
<1>1. PICK o, u, new, q :
        /\ o = request[r] /\ u = o.user /\ new = Saved(o)
        /\ q = IF o.next = "login" THEN LoggingIn(u) ELSE Idle
  OBVIOUS
<1>2. /\ o.pc = "compared" /\ Saveable(o) /\ o \in Request /\ InOrder(o) /\ KnowsWhatItSets(o)
      /\ users' = [users EXCEPT ![u] = new] /\ Become(r, q)
  BY <1>1 DEF WriteUser, Typed, TypeOK, RequestsInOrder, CopiesKnowWhatTheySet
<1>3. /\ u \in Users
      /\ \/ /\ new \in UserRow
            /\ new[c] = IF o.set = c THEN o.copy[c]
                        ELSE IF Exists(u) THEN users[u][c] ELSE None
         \/ new = users[u] /\ ~Exists(u)
  <2>1. CASE c = "password"
    <3>1. /\ u \in Users
          /\ \/ /\ new \in UserRow
                /\ new.password = IF o.set = "password" THEN o.copy.password
                                  ELSE IF Exists(u) THEN users[u].password ELSE None
             \/ new = users[u] /\ ~Exists(u)
      BY <1>1, <1>2, SavedRow
    <3>2. QED
      BY <2>1, <3>1
  <2>2. CASE c = "hashedRefreshToken"
    <3>1. /\ u \in Users
          /\ \/ /\ new \in UserRow
                /\ new.hashedRefreshToken =
                     IF o.set = "hashedRefreshToken" THEN o.copy.hashedRefreshToken
                     ELSE IF Exists(u) THEN users[u].hashedRefreshToken ELSE None
             \/ new = users[u] /\ ~Exists(u)
      BY <1>1, <1>2, SavedRow
    <3>2. QED
      BY <2>2, <3>1
  <2>3. QED
    BY <2>1, <2>2 DEF Hidden
<1>4. q.pc \in {"login", "idle"}
  BY <1>1, <1>3, LoggingInRequest, IdleRequest
<1>5. Pending(q, c) = None
  BY <1>4, NoPending DEF Changing
<1>6. PICK v, before : v = new[c] /\ before = IF Exists(u) THEN users[u][c] ELSE None
  OBVIOUS
<1>7. /\ Ex' = IF new \in UserRow THEN Ex \union {u} ELSE Ex \ {u}
      /\ Column(c)' = [Column(c) EXCEPT ![u] = IF new \in UserRow THEN v ELSE None]
      /\ Column(c)[u] = before
  BY <1>2, <1>3, <1>6, RowEffect
<1>8. CASE new \notin UserRow
  <2>1. ~Exists(u)
    BY <1>3, <1>8
  <2>2. UNCHANGED <<Ex, Column(c)>>
    BY <1>6, <1>7, <1>8, <2>1 DEF Ex, Column
  <2>3. Abandons(c, {r})
    BY <1>2, <1>5, <2>2, RequestEffect DEF Abandons
  <2>4. QED
    BY <2>3 DEF ColumnStep
<1>9. CASE new \in UserRow /\ o.set = c
  <2>1. v = o.copy[c]
    BY <1>3, <1>6, <1>9 DEF Exists
  <2>2. PICK d : d = Pending(o, c)
    OBVIOUS
  <2>3. d.user = u /\ d.value = v /\ d # None
    BY <1>1, <1>2, <1>9, <2>1, <2>2, PendingSave
  <2>4. PendingChange(c)[r] = d /\ PendingChange(c)' = [PendingChange(c) EXCEPT ![r] = None]
    BY <1>1, <1>2, <1>5, <2>2, RequestEffect
  <2>5. Applies(c, r)
    BY <1>3, <1>7, <1>9, <2>3, <2>4 DEF Applies
  <2>6. QED
    BY <2>5 DEF ColumnStep
<1>10. CASE new \in UserRow /\ o.set # c
  <2>1. v = before
    BY <1>3, <1>6, <1>10 DEF Exists
  <2>2. UNCHANGED PendingChange(c)
    <3>1. Pending(o, c) = None
      BY <1>2, <1>10, NoPending
    <3>2. Pending(q, c) = Pending(request[r], c)
      BY <1>1, <1>5, <3>1
    <3>3. Become(r, q)
      BY <1>2
    <3>4. QED
      BY <3>2, <3>3, RequestEffect
  <2>3. CASE Exists(u)
    <3>1. UNCHANGED <<Ex, Column(c)>>
      BY <1>3, <1>7, <1>10, <2>1, <2>3 DEF Ex, Column
    <3>2. QED
      BY <2>2, <3>1 DEF ColumnStep
  <2>4. CASE ~Exists(u)
    <3>1. v = None /\ Column(c)[u] = None
      BY <1>6, <1>7, <2>1, <2>4
    <3>2. UNCHANGED Column(c)
      BY <1>7, <1>10, <3>1 DEF Column
    <3>3. Enrols(c, u)
      BY <1>7, <1>10, <2>2, <2>4, <3>2 DEF Enrols, Ex
    <3>4. QED
      BY <1>3, <3>3 DEF ColumnStep
  <2>5. QED
    BY <2>3, <2>4
<1>11. QED
  BY <1>8, <1>9, <1>10

LEMMA CrashColumn ==
  ASSUME Typed, NEW c \in Hidden, Crash
  PROVE  ColumnStep(c)
<1>1. users' = users /\ \A r \in Requests : request'[r] = Idle
  BY DEF Crash
<1>2. Abandons(c, Requests)
  BY <1>1, RowsUntouched, IdleRequest DEF Abandons, PendingChange
<1>3. QED
  BY <1>2 DEF ColumnStep

LEMMA StepColumn ==
  ASSUME Typed, [Next]_vars, NEW c \in Hidden
  PROVE  ColumnStep(c)
<1>1. ASSUME users' = users, request' = request
      PROVE  ColumnStep(c)
  BY <1>1, RowsUntouched DEF ColumnStep, PendingChange
<1>2. CASE UNCHANGED vars
  BY <1>1, <1>2 DEF vars
<1>3. CASE Crash
  BY <1>3, CrashColumn
<1>4. CASE \E r \in Requests : Start(r) \/ Continue(r)
  <2>1. PICK r \in Requests : Start(r) \/ Continue(r)
    BY <1>4
  <2>2. CASE QuietNext(r)
    BY <2>2, QuietNextQuiet, QuietColumn
  <2>3. CASE \E u \in Users : StoreUser(r, u)
    BY <2>3, StoreUserColumn
  <2>4. CASE \E code \in Codes : SendCode(r, code)
    BY <2>4, SendCodeColumn
  <2>5. CASE StoreMail(r)
    BY <2>5, StoreMailColumn
  <2>6. CASE RemoveUser(r)
    BY <2>6, RemoveUserColumn
  <2>7. CASE \E b \in Businesses : SaveBusiness(r, b)
    BY <2>7, SaveBusinessColumn
  <2>8. CASE ReplaceBusiness(r)
    <3>1. Become(r, Idle) /\ users' = users
      BY <2>8 DEF ReplaceBusiness
    <3>2. QED
      BY <3>1, OtherColumn, IdleRequest DEF Changing
  <2>9. CASE UpdateBusiness(r)
    BY <1>1, <2>9 DEF UpdateBusiness
  <2>10. CASE WriteUser(r)
    BY <2>10, WriteUserColumn
  <2>11. QED
    BY <2>1, <2>2, <2>3, <2>4, <2>5, <2>6, <2>7, <2>8, <2>9, <2>10
    DEF Start, Continue, QuietNext
<1>5. QED
  BY <1>2, <1>3, <1>4 DEF Next

\* At the start no change is pending, and rows hold what sign-up stored.
LEMMA InitColumn ==
  ASSUME Init, NEW c \in Hidden
  PROVE  /\ Ex \in SUBSET Users
         /\ Column(c) \in [Users -> ValuesOf(c) \union {None}]
         /\ \A u \in Users \ Ex : Column(c)[u] = None
         /\ PendingChange(c) = [r \in Requests |-> None]
<1>1. \A u \in Users : Exists(u) => users[u][c] \in ValuesOf(c) \union {None}
  BY DEF Exists, UserRow, Hidden, ValuesOf, Maybe
<1>2. Column(c) \in [Users -> ValuesOf(c) \union {None}]
  BY <1>1 DEF Column
<1>3. \A r \in Requests : request[r].pc = "idle"
  BY IdleRequest DEF Init
<1>4. PendingChange(c) = [r \in Requests |-> None]
  BY <1>3 DEF PendingChange
<1>5. QED
  BY <1>2, <1>4 DEF Ex, Column

\* The stored refresh token is always that of the last login, refresh or
\* logout whose save was written: no save of a stale copy, removal, repeated
\* insert or crash brings an ended session back (updateUserRefreshToken).
THEOREM SessionsImplemented == Spec => ImplementsSessions
<1>1. Init => Typed /\ Sessions!Init
  BY InitInv, InitColumn DEF Sessions!Init, Ex, ValuesOf, Hidden
<1>2. Typed /\ [Next]_vars => Typed' /\ [Sessions!Next]_(Sessions!vars)
  <2> SUFFICES ASSUME Typed, [Next]_vars
               PROVE  Typed' /\ [Sessions!Next]_(Sessions!vars)
    OBVIOUS
  <2>1. ColumnStep("hashedRefreshToken")
    BY StepColumn DEF Hidden
  <2>2. [Sessions!Next]_(Sessions!vars)
    BY <2>1 DEF ColumnStep, Enrols, Asks, Applies, Abandons, Removes, Ex, ValuesOf, ChangeOf,
                Sessions!Next, Sessions!vars, Sessions!Enrol, Sessions!Ask, Sessions!Apply,
                Sessions!Abandon, Sessions!Remove, Sessions!Change
  <2>3. QED
    BY <2>2, StepInv
<1>3. QED
  BY <1>1, <1>2, PTL DEF Spec, ImplementsSessions, Sessions!Spec

\* The stored password is always the one that the last sign-up or reset
\* wrote: no overlapping login, verification or link restores an older one
\* (resetPassword, createUser).
THEOREM CredentialsImplemented == Spec => ImplementsCredentials
<1>1. Init => Typed /\ Credentials!Init
  BY InitInv, InitColumn DEF Credentials!Init, Ex, ValuesOf, Hidden
<1>2. Typed /\ [Next]_vars => Typed' /\ [Credentials!Next]_(Credentials!vars)
  <2> SUFFICES ASSUME Typed, [Next]_vars
               PROVE  Typed' /\ [Credentials!Next]_(Credentials!vars)
    OBVIOUS
  <2>1. ColumnStep("password")
    BY StepColumn DEF Hidden
  <2>2. [Credentials!Next]_(Credentials!vars)
    BY <2>1 DEF ColumnStep, Enrols, Asks, Applies, Abandons, Removes, Ex, ValuesOf, ChangeOf,
                Credentials!Next, Credentials!vars, Credentials!Enrol, Credentials!Ask,
                Credentials!Apply, Credentials!Abandon, Credentials!Remove, Credentials!Change
  <2>3. QED
    BY <2>2, StepInv
<1>3. QED
  BY <1>1, <1>2, PTL DEF Spec, ImplementsCredentials, Credentials!Spec
=============================================================================
