SPECIFICATION Spec
CONSTANTS
  w1 = w1
  w2 = w2
  r1 = r1
  r2 = r2
  d1 = d1
  d2 = d2
  None = None
  NaN = NaN
  Warehouse = {w1, w2}
  Row = {r1, r2}
  OnHand <- MCOnHand
  Qty = {0, 1}
  Doc = {d1, d2}
  Slot = {1, 2}
  MaxActs = 4
SYMMETRY MCSymmetry
CHECK_DEADLOCK FALSE
INVARIANTS
  TypeOK
  CountsWereEntered
  PostsWhatWasReviewed
  FlowMakesOneDocument
  ResumesStoredCounts
