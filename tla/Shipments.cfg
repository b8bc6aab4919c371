SPECIFICATION Spec
CONSTANTS
  Orders = {o1}
  Drivers = {d1, d2}
  Requests = {r1, r2}
  None = None
  MaxRequests = 5
  MaxFaults = 1
SYMMETRY Symmetry
INVARIANTS
  TypeOK
  DeliveredWasPaid
  LocalMovesWithDriver
  QuietDriverIsAssigned
  QuietDeliveryClosesOrder
CHECK_DEADLOCK FALSE
