CONSTANTS
  tile = tile
  grout = grout
  trim = trim
  None = None
  Kinds = {"dl"}
  Product <- MCProduct
  Listed <- MCListed
  Saved <- MCSaved
  Doc = {d1, d2}
  Slot = {s1, s2}
  MaxActs = 4
SPECIFICATION Spec
INVARIANT DeliveryKeepsOrderLinks
CHECK_DEADLOCK FALSE
