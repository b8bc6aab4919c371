SPECIFICATION Spec
CONSTANTS
  u1 = u1
  u2 = u2
  e1 = e1
  e2 = e2
  e3 = e3
  m1 = m1
  Users = {u1, u2}
  Secrets = {s1, s2}
  Codes = {c1, c2}
  Requests = {r1, r2}
  Production = FALSE
  Addresses = {e1, e2, e3}
  Methods = {m1}
  OwnerOf <- Owners
  None = None
  MaxRequests = 4
  MaxFaults = 1
SYMMETRY Symmetry
INVARIANTS
  TypeOK
  VerifiedWasProven
  QuietUserHasWallet
  QuietAccountIsCurrent
  QuietDefaultIsPicked
CHECK_DEADLOCK FALSE
