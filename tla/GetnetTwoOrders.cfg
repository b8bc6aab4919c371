SPECIFICATION FairSpec
CONSTANTS
  o1 = o1
  o2 = o2
  s1 = s1
  s2 = s2
  i1 = i1
  i2 = i2
  i3 = i3
  Orders = {o1, o2}
  Sellers = {s1, s2}
  SellersOf <- TwoOrdersSellers
  Intents = {i1, i2}
  OrderOf <- TwoOrdersIntents
  LegacyIntents = {i1, i2}
  NoIntent = NoIntent
  Requests = {r1, r2}
  MaxFaults = 0
PROPERTIES
  RequestsFinish
