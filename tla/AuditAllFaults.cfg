SPECIFICATION Spec

CONSTANTS
  None = None
  Events = {e1}
  ForeignBodies = {x1}
  Messages = {m1, m2, m3}
  Consumers = {k1, k2}
  Requests = {r1, r2}
  MaxMessagesInputs = {0, 2}
  ReceiveLimit = 2
  MaxReceives = 2
  Faults = {"database", "queue", "crash", "slow"}

INVARIANT TypeOK
PROPERTY ImplementsDelivery
SYMMETRY Symmetry
