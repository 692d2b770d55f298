------------------------------- MODULE KeyLevel -------------------------------
(***************************************************************************)
(* The level of a stock key with the weighted-average engine: what postKey *)
(* derives from the key's journal rows (store/posting.go, posting.sql).    *)
(***************************************************************************)
EXTENDS Costing, FiniteSets

(* KeyMovements orders the rows of a key by (effective_at, seq).           *)
InJournalOrder(m, n) ==
  \/ m.move.date < n.move.date
  \/ m.move.date = n.move.date /\ m.seq < n.seq

(* The i-th row is one with fewer than i rows before it; rows that tie are *)
(* taken in an arbitrary order, as the database would.                     *)
JournalOrder(keyRows) ==
  [i \in 1..Cardinality(keyRows) |->
     CHOOSE m \in keyRows :
       /\ Cardinality({n \in keyRows : InJournalOrder(n, m)}) < i
       /\ i <= Cardinality({n \in keyRows : ~InJournalOrder(m, n)})]

AverageLevel(keyRows) ==
  LET ordered == JournalOrder(keyRows)
  IN  FinalLevel([i \in DOMAIN ordered |->
                    [qty |-> ordered[i].move.qty, cost |-> ordered[i].move.cost]])
=============================================================================
