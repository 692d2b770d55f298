CONSTANTS
  poLine = poLine
  None = None
  Kinds = {"goods_receipt", "delivery", "stock_transfer", "stock_adjustment", "stock_opname"}
  Txn = {c1, c2, c3}
  Doc = {d1, d2, d3}
  Series = {"goods_receipt", "delivery", "stock_transfer", "stock_adjustment", "stock_opname"}
  OrderLine = {poLine}
  MaxLines = 2
  Item = {1}
  Warehouse = {1, 2}
  Key = {1, 2}
  Requests = {}
  Move <- MCMove
  Inputs <- MCInputs
  keyOf <- MCKeyOf
  Ordered <- MCOrdered
  OrderCost <- MCOrderCost
  Level <- AverageLevel
SPECIFICATION Spec
INVARIANTS TypeOK PostedIsBacked ReversedHasReversal BookedOnce NumbersAreOnDocuments ReversalRestoresStock SnapshotExplainsVariance
PROPERTIES PostedIsImmutable
SYMMETRY Symmetry
CHECK_DEADLOCK FALSE
