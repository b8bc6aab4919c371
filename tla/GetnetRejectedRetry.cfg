SPECIFICATION Spec
CONSTANTS
  o1 = o1
  o2 = o2
  s1 = s1
  s2 = s2
  i1 = i1
  i2 = i2
  i3 = i3
  Orders = {o1}
  Sellers = {s1, s2}
  SellersOf <- OneOrderSellers
  Intents = {i1, i2, i3}
  OrderOf <- OneOrderIntents
  LegacyIntents = {i1}
  NoIntent = NoIntent
  Requests = {r1, r2}
  MaxFaults = 1
INVARIANTS
  RejectedAllowsNewIntent
