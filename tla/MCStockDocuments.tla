--------------------------- MODULE MCStockDocuments ---------------------------
(***************************************************************************)
(* Stock documents over two warehouses, with the weighted-average engine.  *)
(* Key 1 is the item in the first warehouse, key 2 in the second.          *)
(***************************************************************************)
EXTENDS StockDocuments, KeyLevel, TLC

CONSTANTS poLine, Kinds

MCKeyOf(item, warehouse) == warehouse

MCMove == [qty : Int, cost : Int, date : 1..2]

Entered(kind, from, to, lines) ==
  [kind |-> kind, from |-> from, to |-> to, date |-> 1, lines |-> lines, elevated |-> FALSE]

Line(qty, cost, order) == [item |-> 1, qty |-> qty, cost |-> cost, order |-> order]

(* The last three are refused.                                             *)
AllInputs ==
  { Entered("goods_receipt", 1, None, <<Line(3, 0, poLine)>>),
    [Entered("goods_receipt", 1, None, <<Line(1, 5, None), Line(2, 4, None)>>)
       EXCEPT !.elevated = TRUE],
    Entered("delivery", 1, None, <<Line(2, 0, None)>>),
    Entered("stock_transfer", 1, 2, <<Line(1, 0, None)>>),
    Entered("stock_adjustment", 1, None, <<Line(-1, 0, None)>>),
    Entered("stock_opname", 1, None, <<Line(2, 0, None)>>),
    Entered("stock_opname", 1, None, <<Line(0, 0, None)>>),
    Entered("goods_receipt", 1, None, <<Line(3, 4, poLine)>>),
    Entered("stock_transfer", 1, 1, <<Line(1, 0, None)>>),
    Entered("stock_adjustment", 1, None, <<Line(0, 0, None)>>) }

MCInputs == {input \in AllInputs : input.kind \in Kinds}

MCOrdered == [o \in OrderLine |-> 4]

MCOrderCost == [o \in OrderLine |-> 2]

Symmetry == Permutations(Txn) \cup Permutations(Doc)
=============================================================================
