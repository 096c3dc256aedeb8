SPECIFICATION Spec

CONSTANTS
  None = None
  Gone = Gone
  Unset = Unset
  Users = {u1, u2}
  Businesses = {b1, b2}
  Emails = {e1, e2}
  Names = {n1, n2}
  Passwords = {p1, p2}
  GoogleIds = {g1}
  Codes = {c1}
  Requests = {r1, r2}
  Workloads <- MCWorkloads
  SignUpNames = {n1}
  BusinessNames = {n1}
  OwnerInputs = {u1, u2}
  Tokens = {t1}
  MayFail = TRUE

INVARIANT TypeOK
INVARIANT VerifiedEmailsHaveReason
INVARIANT LinkedBusinessIsOwned
PROPERTY ImplementsSessions
PROPERTY ImplementsCredentials
SYMMETRY Symmetry
