SPECIFICATION FairSpec

CONSTANTS
  None = None
  Events = {e1}
  ForeignBodies = {x1}
  Messages = {m1, m2, m3, m4}
  Consumers = {k1, k2}
  Requests = {r1, r2}
  MaxMessagesInputs = {1, 3}
  ReceiveLimit = 2
  MaxReceives = 2
  Faults = {"database"}

INVARIANT AuditedAtMostOnce
PROPERTY AcceptedEventsSettle
