SPECIFICATION Spec

CONSTANTS
  None = None
  Gone = Gone
  Unknown = Unknown
  Businesses = {b1, b2}
  Customers = {c1, c2, c3}
  Appointments = {a1}
  Emails = {e1, e2}
  Details = {d1, d2}
  Incomplete = {d2}
  EventIds = {g1}
  Requests = {r1, r2}
  Workloads <- MCWorkloads
  MaxImport = 2
  MayFail = TRUE

INVARIANT TypeOK
INVARIANT DuplicatesAreExcused
INVARIANT AppointmentCustomersAreOwn
INVARIANT AnsweredUpdatesHold
SYMMETRY Symmetry
