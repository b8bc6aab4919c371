SPECIFICATION Spec
CONSTANTS
  b1 = b1
  b2 = b2
  p1 = p1
  v1 = v1
  Buyers = {b1, b2}
  Articles = {p1, v1}
  Variants = {v1}
  Rows = {i1, i2}
  Orders = {o1, o2}
  Requests = {r1, r2}
  None = None
  Unused = Unused
  Deleted = Deleted
  Quantities = {2}
  Updates = {1}
  FirstStock <- Stocks
  Offers <- NewOffers
  MaxCartOps = 2
  MaxEdits = 1
  MaxFaults = 1
SYMMETRY Symmetry
INVARIANTS
  TypeOK
  QuietCartIsExact
  StockNeverNegative
  QuietStockIsExact
  QuietOrderIsWhole
CHECK_DEADLOCK FALSE
