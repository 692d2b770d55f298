------------------------------ MODULE MCCosting ------------------------------
(***************************************************************************)
(* Every journal of one stock key up to MaxMovements movements, folded by  *)
(* the costing engine and compared with an exact reference.                *)
(***************************************************************************)
EXTENDS Costing

CONSTANTS MaxMovements,  \* bound on the length of the journal
          Quantities,    \* base units a movement moves
          UnitCosts,     \* costs receipts are booked at
          Corrections    \* value deltas of cost corrections

ASSUME MovementsAssumption ==
  /\ MaxMovements \in Nat /\ Quantities \subseteq Nat \ {0}
  /\ UnitCosts \subseteq Int /\ Corrections \subseteq Int

VARIABLE ordered         \* the key's movements in journal order

Receipts  == [qty : Quantities, cost : UnitCosts]
Issues    == [qty : {-n : n \in Quantities}, cost : {0}]
Revalues  == [qty : {0}, cost : Corrections]

Init == ordered = <<>>

Arrives(movements) ==
  /\ Len(ordered) < MaxMovements
  /\ \E m \in movements : ordered' = Append(ordered, m)

Next == Arrives(Receipts) \/ Arrives(Issues) \/ Arrives(Revalues)

Spec == Init /\ [][Next]_ordered

-----------------------------------------------------------------------------
valuations == Cost(ordered)
before(i)  == IF i = 1 THEN NoStock ELSE valuations[i - 1]

NeverProvisional == \A i \in DOMAIN valuations : ~valuations[i].provisional

(* The reference: the same fold with the average kept as an exact fraction *)
(* num/den of the value on hand, together with the units issued since the  *)
(* position was last empty.                                                *)
ExactlyNothing == [qty |-> 0, num |-> 0, den |-> 1, issued |-> 0]

ExactBooked(p, m) ==
  CASE m.qty > 0 -> [qty |-> p.qty + m.qty, num |-> p.num + m.qty * m.cost * p.den,
                     den |-> p.den, issued |-> p.issued]
    [] m.qty < 0 -> [qty |-> p.qty + m.qty, num |-> p.num * (p.qty + m.qty), den |-> p.den * p.qty,
                     issued |-> p.issued - m.qty]
    [] OTHER     -> [p EXCEPT !.num = @ + m.cost * p.den]

ExactStep(p, m) ==
  IF m.qty # 0 /\ p.qty + m.qty = 0 THEN ExactlyNothing ELSE ExactBooked(p, m)

Exact ==
  LET position[i \in 0..Len(ordered)] ==
        IF i = 0 THEN ExactlyNothing ELSE ExactStep(position[i - 1], ordered[i])
  IN  position[Len(ordered)]

(* The value on hand never drifts from the exact weighted average by more  *)
(* than half a last decimal place for every unit issued since the position *)
(* was last empty, as long as stock backed every issue: average.go rounds  *)
(* the average once per issue and keeps the value exact.                   *)
ValueTracksExact ==
  (NeverProvisional /\ ordered # <<>>) =>
     LET got == valuations[Len(ordered)] IN
       2 * AbsVal(got.value * Exact.den - Exact.num) <= Exact.issued * Exact.den

(* A receipt into stock on hand moves the average towards the entering     *)
(* cost and never past it, whatever residue earlier issues left: the       *)
(* re-averaging of average.go is a weighted mean.                          *)
ReceiptAveragesBetween ==
  \A i \in DOMAIN ordered :
     (ordered[i].qty > 0 /\ before(i).qty > 0) =>
        LET old == average(before(i).qty, before(i).value)
            new == average(valuations[i].qty, valuations[i].value)
        IN  \/ old <= new /\ new <= ordered[i].cost
            \/ ordered[i].cost <= new /\ new <= old

(* What the engine answers of a negative position (average.go:40-44): it   *)
(* was opened by an issue flagged provisional, and every issue since is    *)
(* flagged too.  This is the engine's part of ADR-0003 only: the poster    *)
(* takes quantity and value from the answer and stores the flag of the     *)
(* request instead (store/posting.go:138,187-194), which no handler sets,  *)
(* so that the reconciliation worklist lists none of these movements.      *)
NegativeIsProvisional ==
  \A i \in DOMAIN ordered :
     valuations[i].qty < 0 =>
        \E j \in 1..i :
           /\ before(j).qty >= 0
           /\ \A n \in j..i : ordered[n].qty < 0 => valuations[n].provisional

=============================================================================
