------------------------------- MODULE Journal -------------------------------
(***************************************************************************)
(* The data that posting works on: requests, journal rows and the queries  *)
(* over them (domain/posting/posting.go, store/queries/posting.sql).  They *)
(* are used by the abstract StockLedger and by the detailed Posting.       *)
(***************************************************************************)
EXTENDS Integers, Sequences, FiniteSets

CONSTANTS
  Key,        \* stock keys (product, warehouse, batch), numbered in the order of sortedKeys
  Series,     \* numbering series (document type, year) of one tenant
  Doc,        \* documents
  Move,       \* movements: a quantity, a cost and an effective date
  Requests,   \* the requests handlers may submit
  Txn,        \* database transactions that post or number, each run once
  Level(_),   \* the costing engine: the journal rows of a key |-> its stock level
  None        \* no value

(* posting.Request: the movements are grouped by key, in input order       *)
(* (groupByKey); a request may be empty.                                   *)
Request == [doc : Doc, series : Series, moves : [Key -> Seq(Move)]]

ASSUME KeyAssumption == Key \subseteq Nat

ASSUME RequestsAssumption == \A r \in Requests : r \in Request

ASSUME NoneAssumption == None \notin Txn \cup Doc

(* What a transaction that has not committed has returned.                 *)
NoOutcome == [req |-> None, number |-> 0]

TouchedKeys(r) == {k \in Key : Len(r.moves[k]) > 0}

(* A journal row has its key, its per-key sequence number, its movement,   *)
(* its document, and the transaction that inserted it (its identity).      *)
Row == [key : Key, seq : Nat \ {0}, move : Move, doc : Doc, txn : Txn]

KeyRows(rows, k) == {m \in rows : m.key = k}

SeqsOf(rows, k) == {m.seq : m \in KeyRows(rows, k)}

(* The highest seq of a key, 0 when it has no rows.                        *)
MaxMovementSeq(rows, k) ==
  CHOOSE n \in SeqsOf(rows, k) \cup {0} : \A i \in SeqsOf(rows, k) : i <= n

(* Mutation: the loop index used as it is, without the + 1.                *)
InsertedRowsFromBase(t, r, k, base) ==
  { [key |-> k, seq |-> base + i - 1, move |-> r.moves[k][i],
     doc |-> r.doc, txn |-> t] : i \in 1..Len(r.moves[k]) }

(* The rows transaction t inserts for key k of request r above seq base.   *)
InsertedRows(t, r, k, base) ==
  { [key |-> k, seq |-> base + i, move |-> r.moves[k][i],
     doc |-> r.doc, txn |-> t] : i \in 1..Len(r.moves[k]) }

(* The rows a posting of r by t appends to the journal rows.               *)
RowsOf(t, r, ks, rows) ==
  UNION {InsertedRows(t, r, k, MaxMovementSeq(rows, k)) : k \in ks}
=============================================================================
