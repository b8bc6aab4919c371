SPECIFICATION Spec
CONSTANTS
  Orders = {o1}
  Sellers = {s1, s2}
  PayeesOf <- AllPayees
  Attempts = {a1, a2}
  Charges = {c1, c2}
  Requests = {r1, r2}
  None = None
  MaxRequests = 4
  MaxFaults = 1
SYMMETRY Symmetry
INVARIANTS
  TypeOK
  BalanceIsBacked
  OneLinkAtATime
  QuietSaleIsCreditedOnce
  QuietPaymentAgrees
PROPERTIES
  KeepsPromise
CHECK_DEADLOCK FALSE
