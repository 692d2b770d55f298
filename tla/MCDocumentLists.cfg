SPECIFICATION Spec
CONSTANTS
  Kinds <- MCKinds
  Id = {1, 2, 3}
  LinkedId = {1, 2, 3}
  Filter = {"", "posted"}
  PageLimit = 1
  LinkedLimit = 2
  Ordered = 2
  MaxActs = 3
  None = None
INVARIANTS TypeOK RowsAreWhole ProgressIsNotAhead
CHECK_DEADLOCK FALSE
