SPECIFICATION Spec
CONSTANTS
  s1 = s1
  w1 = w1
  w2 = w2
  c1 = c1
  Sellers = {s1}
  Withdrawals = {w1, w2}
  Sales = {c1}
  OwnerOf <- OneSeller
  AmountOf <- TightAmounts
  Requests = {r1, r2}
  None = None
  MaxRows = 1
  MaxTurns = 0
SYMMETRY RequestSymmetry
INVARIANT WithdrawalsCovered
