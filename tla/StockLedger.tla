----------------------------- MODULE StockLedger -----------------------------
(***************************************************************************)
(* What posting promises (domain/posting/posting.go, ADR-0001, ADR-0010):  *)
(* a posting happens at one instant.  It appends the movements of its      *)
(* request to the journal, refreshes the level of every key it touches and *)
(* takes the next number of its series; or it has no effect at all.        *)
(***************************************************************************)
EXTENDS Journal

VARIABLES
  journal,    \* stock_movements: a set of rows
  level,      \* stock_levels: the derived cache, per key
  nextSeq,    \* document_number_sequences: the next number of each series
  outcome     \* what a committed transaction returned: its request and number

vars == <<journal, level, nextSeq, outcome>>

Init ==
  /\ journal = {}
  /\ level = [k \in Key |-> Level({})]
  /\ nextSeq = [s \in Series |-> 1]
  /\ outcome = [t \in Txn |-> NoOutcome]

Number(t, r) ==
  /\ outcome[t] = NoOutcome
  /\ outcome' = [outcome EXCEPT ![t] = [req |-> r, number |-> nextSeq[r.series]]]
  /\ nextSeq' = [nextSeq EXCEPT ![r.series] = @ + 1]

(* Poster.Post: movements, levels and number together.                     *)
Post(t, r) ==
  /\ TouchedKeys(r) # {}
  /\ Number(t, r)
  /\ journal' = journal \cup RowsOf(t, r, TouchedKeys(r), journal)
  /\ level' = [k \in Key |-> IF k \in TouchedKeys(r)
                              THEN Level(KeyRows(journal', k)) ELSE level[k]]

(* Numberer.Next: a number and no movement.                                *)
Assign(t, r) ==
  /\ TouchedKeys(r) = {}
  /\ Number(t, r)
  /\ UNCHANGED <<journal, level>>

Next == \E t \in Txn, r \in Requests : Post(t, r) \/ Assign(t, r)

Spec == Init /\ [][Next]_vars
=============================================================================
