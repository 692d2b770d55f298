------------------------------- MODULE Costing -------------------------------
(***************************************************************************)
(* The weighted-average costing engine (domain/costing/average.go): a pure *)
(* fold of one stock key's movements, already ordered by (effective date,  *)
(* seq), into one valuation per movement.                                  *)
(*                                                                         *)
(* Numbers.  Quantities are whole base units.  Costs and values are counted*)
(* in the last decimal place the engine keeps of an average (avgCostScale),*)
(* so a value is exact and only the division rounds, as in the code.       *)
(***************************************************************************)
EXTENDS Integers, Sequences

AbsVal(n) == IF n < 0 THEN -n ELSE n

(* Mutation: integer division, which drops the remainder.                  *)
DivTruncated(n, d) ==
  LET magnitude == AbsVal(n) \div AbsVal(d)
  IN  IF (n < 0) = (d < 0) THEN magnitude ELSE -magnitude

(* decimal.DivRound: the quotient, halves rounded away from zero.          *)
DivRound(n, d) ==
  LET magnitude == (2 * AbsVal(n) + AbsVal(d)) \div (2 * AbsVal(d))
  IN  IF (n < 0) = (d < 0) THEN magnitude ELSE -magnitude

average(q, v) == IF q = 0 THEN 0 ELSE DivRound(v, q)

(* Mutation: the unit cost is added once, whatever the quantity.           *)
InboundAtUnitCost(p, m) ==
  [qty |-> p.qty + m.qty, value |-> p.value + m.cost,
   unitCost |-> m.cost, provisional |-> FALSE]

(* One turn of the loop of Cost.  p is the valuation before the movement.  *)
Inbound(p, m) ==
  [qty |-> p.qty + m.qty, value |-> p.value + m.qty * m.cost,
   unitCost |-> m.cost, provisional |-> FALSE]

(* Mutation: the issue that takes the position below zero is not flagged.  *)
OutboundFlaggedLate(p, m) ==
  LET avg == average(p.qty, p.value)
  IN  [qty |-> p.qty + m.qty, value |-> p.value + m.qty * avg,
       unitCost |-> avg, provisional |-> p.qty <= 0]

Outbound(p, m) ==
  LET avg   == average(p.qty, p.value)
      after == p.qty + m.qty
  IN  [qty |-> after, value |-> p.value + m.qty * avg,
       unitCost |-> avg, provisional |-> p.qty <= 0 \/ after < 0]

(* A movement of quantity zero carries a value delta in its cost field.    *)
CostCorrection(p, m) ==
  LET value == p.value + m.cost
  IN  [qty |-> p.qty, value |-> value,
       unitCost |-> average(p.qty, value), provisional |-> FALSE]

Booked(p, m) ==
  CASE m.qty > 0 -> Inbound(p, m)
    [] m.qty < 0 -> Outbound(p, m)
    [] OTHER     -> CostCorrection(p, m)

(* A position at exactly zero holds no value; a correction never clears.   *)
ClearedAtZero(p, m) ==
  IF p.qty = 0 /\ m.qty # 0 THEN [p EXCEPT !.value = 0] ELSE p

Valuation(p, m) == ClearedAtZero(Booked(p, m), m)

NoStock == [qty |-> 0, value |-> 0, unitCost |-> 0, provisional |-> FALSE]

Cost(ordered) ==
  LET position[i \in 0..Len(ordered)] ==
        IF i = 0 THEN NoStock ELSE Valuation(position[i - 1], ordered[i])
  IN  [i \in 1..Len(ordered) |-> position[i]]

(* What Poster.postKey stores of a re-folded key: the last on-hand quantity*)
(* and the average derived from it, both zero for an empty journal.        *)
FinalLevel(ordered) ==
  LET final == IF ordered = <<>> THEN NoStock ELSE Cost(ordered)[Len(ordered)]
  IN  [qty |-> final.qty, avg |-> average(final.qty, final.value)]
=============================================================================
