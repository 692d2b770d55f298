CONSTANTS
  poLine = poLine
  None = None
  Kinds = {"stock_opname"}
  Txn = {c1, c2, c3}
  Doc = {d1, d2, d3}
  Series = {"stock_opname"}
  OrderLine = {poLine}
  MaxLines = 2
  Item = {1}
  Warehouse = {1, 2}
  Key = {1, 2}
  Requests = {}
  Move <- MCMove
  Inputs <- MCInputs
  keyOf <- MCKeyOf
  Ordered <- MCOrdered
  OrderCost <- MCOrderCost
  Level <- AverageLevel
SPECIFICATION Spec
INVARIANTS OpnameReversalRestoresStock
SYMMETRY Symmetry
CHECK_DEADLOCK FALSE
