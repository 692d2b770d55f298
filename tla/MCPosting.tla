------------------------------ MODULE MCPosting ------------------------------
(***************************************************************************)
(* Posting on three stock keys: two batches of one product in one          *)
(* warehouse, which share an advisory lock, and a second product.          *)
(***************************************************************************)
EXTENDS Posting, TLC

CONSTANTS gr, dl, tr, po

MCKey == 1..3
MCLock == 1..2
MCLockOf == [k \in MCKey |-> IF k = 3 THEN 2 ELSE 1]

Moved(qty, cost, date) == [qty |-> qty, cost |-> cost, date |-> date]

MCMove == [qty : -3..3, cost : 0..5, date : 1..2]

Asks(doc, series, moves) ==
  [doc |-> doc, series |-> series,
   moves |-> [k \in MCKey |-> IF k \in DOMAIN moves THEN moves[k] ELSE <<>>]]

(* A receipt over the two keys that share a lock, one of them twice; a     *)
(* backdated delivery out of two keys; a transfer; an order, which is only *)
(* numbered.                                                               *)
MCRequests ==
  { Asks(gr, "GR", 1 :> <<Moved(3, 2, 2), Moved(1, 5, 2)>> @@ 2 :> <<Moved(1, 1, 2)>>),
    Asks(dl, "DL", 1 :> <<Moved(-1, 0, 1)>> @@ 3 :> <<Moved(-1, 0, 1)>>),
    Asks(tr, "GR", 3 :> <<Moved(2, 4, 2)>> @@ 1 :> <<Moved(-2, 0, 2)>>),
    Asks(po, "GR", <<>>) }

(* The level that tells the most: any engine's level is a function of it.  *)
FoldedRows(keyRows) == keyRows
=============================================================================
