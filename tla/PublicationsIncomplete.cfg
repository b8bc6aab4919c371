CONSTANTS
  Suggestions = {u1}
  SubCategories = {sA, sB}
  sA = sA
  sB = sB
  FirstFiled <- MCFirstFiled
  Attributes = {a1}
  a1 = a1
  SubOf <- MCSubOf
  Brands = {b1}
  b1 = b1
  Files = {f1, f2}
  FirstShades <- MCFirstShades
  Shades <- MCShades
  Requests = {r1, r2}
  None = None
  MaxEdits = 3
  MaxFaults = 1
  Products = {p1}
  Variants = {v1, v2}
  v1 = v1
  v2 = v2
  Media = {m1}
  m1 = m1
  Buyers = {y1}
  Forms <- MCForms
SPECIFICATION Spec
PROPERTIES ListedIsComplete
SYMMETRY Symmetry
CHECK_DEADLOCK FALSE
