CONSTANTS
  tile = tile
  grout = grout
  trim = trim
  None = None
  Kinds = {"po", "gr", "so", "dl", "tr", "ad"}
  Product <- MCProduct
  Listed <- MCListed
  Saved <- MCSaved
  Doc = {d1, d2}
  Slot = {s1, s2}
  MaxActs = 4
SPECIFICATION FairSpec
INVARIANTS TypeOK NewPageMakesOneDocument PostsWhatWasConfirmed ShowsOwnWork RoundTripKeepsLines
PROPERTIES PostedIsShown
CHECK_DEADLOCK FALSE
