SPECIFICATION Spec
CONSTANTS
  Kinds = {"po", "so"}
  Id = {1, 2, 3}
  LinkedId = {1, 2, 3}
  Filter = {"", "posted"}
  PageLimit = 1
  LinkedLimit = 2
  Ordered = 2
  MaxActs = 3
  None = None
INVARIANT ReversalsDoNotCount
CHECK_DEADLOCK FALSE
