CONSTANTS
  poLine = poLine
  None = None
  Kinds = {"goods_receipt"}
  Txn = {c1, c2, c3}
  Doc = {d1, d2, d3}
  Series = {"goods_receipt"}
  OrderLine = {poLine}
  MaxLines = 2
  Item = {1}
  Warehouse = {1, 2}
  Key = {1, 2}
  Requests = {}
  Move <- MCMove
  Inputs <- MCInputs
  keyOf <- MCKeyOf
  Ordered <- MCOrdered
  OrderCost <- MCOrderCost
  Level <- AverageLevel
SPECIFICATION Spec
INVARIANTS ReceivedWithinOrder
SYMMETRY Symmetry
CHECK_DEADLOCK FALSE
