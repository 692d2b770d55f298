---------------------------- MODULE StockDocuments ----------------------------
(***************************************************************************)
(* The five stock-moving documents (httpserver/goods_receipts.go,          *)
(* deliveries.go, stock_transfers.go, stock_adjustments.go,                *)
(* stock_opnames.go) and the flow they share (document_posting.go).        *)
(*                                                                         *)
(* An API call is a series of database transactions with nothing between   *)
(* them but the handler's local variables: a first one checks the document *)
(* and plans the movements, the Poster's own one books them, a last one    *)
(* marks the document.  Calls interleave between those transactions, and a *)
(* call may be cut off between any two (its request context is cancelled,  *)
(* the server restarts).  The Poster is StockLedger, which Posting         *)
(* implements.                                                             *)
(***************************************************************************)
EXTENDS Journal, FiniteSetsExt

CONSTANTS
  Item,           \* what documents move: a product and its batch
  Warehouse,      \* the warehouses of the tenant
  Inputs,         \* what users enter: kind, warehouses, date, lines, and whether
                  \* an owner or admin enters it
  keyOf(_, _),    \* the stock key of an item in a warehouse
  OrderLine,      \* purchase and sales order lines that lines may be linked to
  Ordered,        \* OrderLine -> the quantity ordered; the tolerance is zero
  OrderCost,      \* OrderLine -> the unit cost on the purchase order
  MaxLines        \* bound on the lines of a document

Kind == {"goods_receipt", "delivery", "stock_transfer", "stock_adjustment", "stock_opname"}

EnteredLine == [item : Item, qty : Int, cost : Int, order : OrderLine \cup {None}]

ASSUME InputsAssumption ==
  \A input \in Inputs :
    /\ input.kind \in Series \cap Kind
    /\ input.from \in Warehouse
    /\ input.kind = "stock_transfer" => input.to \in Warehouse
    /\ input.lines \in Seq(EnteredLine) /\ Len(input.lines) <= MaxLines

ASSUME KeysAssumption == \A i \in Item, w \in Warehouse : keyOf(i, w) \in Key

ASSUME OrdersAssumption ==
  None \notin OrderLine /\ Ordered \in [OrderLine -> Int] /\ OrderCost \in [OrderLine -> Int]

ASSUME MaxLinesAssumption == MaxLines \in Nat

VARIABLES
  journal, level, nextSeq, outcome, \* as in StockLedger
  doc,            \* the document tables: Doc -> row
  call,           \* API calls, each made once: Txn -> its progress
  crossed         \* history: the documents two calls had in hand at once

ledgerVars == <<journal, level, nextSeq, outcome>>
vars       == <<ledgerVars, doc, call, crossed>>

Ledger == INSTANCE StockLedger

NoCall == [pc |-> "idle", op |-> None, doc |-> None, subject |-> None, req |-> None]

Absent ==
  [status |-> "none", number |-> 0, reverses |-> None, reversedBy |-> None,
   kind |-> None, from |-> None, to |-> None, date |-> 0, lines |-> <<>>, systemQty |-> <<>>]

Init ==
  /\ Ledger!Init
  /\ doc = [d \in Doc |-> Absent]
  /\ call = [c \in Txn |-> NoCall]
  /\ crossed = {}

Active(c) == call[c].pc \notin {"idle", "done", "failed"}

Exists(d) == doc[d].status \in {"draft", "posted", "reversed"}

-----------------------------------------------------------------------------
(* The movements of a document.                                            *)

Movement(k, qty, cost, d) ==
  [key |-> k, move |-> [qty |-> qty, cost |-> cost, date |-> d.date]]

(* The members of a finite set of positions, from the first to the last.   *)
InOrder(S) == CHOOSE s \in [1..Cardinality(S) -> S] : \A i, j \in DOMAIN s : i < j => s[i] < s[j]

(* A request keeps the order of the movements within each key.             *)
groupByKey(movements) ==
  [k \in Key |->
     LET own == InOrder({i \in DOMAIN movements : movements[i].key = k})
     IN  [n \in DOMAIN own |-> movements[own[n]].move]]

(* The level of the line's item in a warehouse; no row counts as zero.     *)
LevelOf(l, w) == level[keyOf(l.item, w)]

receiptMovements(d, negate) ==
  [i \in DOMAIN d.lines |->
     LET l == d.lines[i]
     IN  Movement(keyOf(l.item, d.from), IF negate THEN -l.qty ELSE l.qty, l.cost, d)]

(* The cost of a delivery movement is left zero, a reversal's too.         *)
deliveryMovements(d, negate) ==
  [i \in DOMAIN d.lines |->
     LET l == d.lines[i]
     IN  Movement(keyOf(l.item, d.from), IF negate THEN l.qty ELSE -l.qty, 0, d)]

(* Mutation: a reversal moves the stock the same way again.                *)
transferMovementsUnswapped(d, negate) ==
  [i \in 1..2 * Len(d.lines) |->
     LET l == d.lines[(i + 1) \div 2]
         cost == LevelOf(l, d.from).avg
     IN  IF i % 2 = 1 THEN Movement(keyOf(l.item, d.from), -l.qty, cost, d)
                      ELSE Movement(keyOf(l.item, d.to), l.qty, cost, d)]

(* Two legs per line, both at the source's average of this moment.         *)
transferMovements(d, negate) ==
  LET source == IF negate THEN d.to ELSE d.from
      target == IF negate THEN d.from ELSE d.to
  IN  [i \in 1..2 * Len(d.lines) |->
         LET l == d.lines[(i + 1) \div 2]
             cost == LevelOf(l, source).avg
         IN  IF i % 2 = 1 THEN Movement(keyOf(l.item, source), -l.qty, cost, d)
                          ELSE Movement(keyOf(l.item, target), l.qty, cost, d)]

adjustmentMovements(d, negate) ==
  [i \in DOMAIN d.lines |->
     LET l == d.lines[i]
     IN  Movement(keyOf(l.item, d.from), IF negate THEN -l.qty ELSE l.qty, l.cost, d)]

(* The variance of a count against the level of this moment; a line that   *)
(* matches moves nothing.                                                  *)
opnameMovements(d, negate) ==
  LET variance(l) == l.qty - LevelOf(l, d.from).qty
  IN  [i \in {j \in DOMAIN d.lines : variance(d.lines[j]) # 0} |->
         LET l == d.lines[i]
         IN  Movement(keyOf(l.item, d.from), IF negate THEN -variance(l) ELSE variance(l),
                      LevelOf(l, d.from).avg, d)]

MovementsOf(d, negate) ==
  CASE d.kind = "goods_receipt"    -> receiptMovements(d, negate)
    [] d.kind = "delivery"         -> deliveryMovements(d, negate)
    [] d.kind = "stock_transfer"   -> transferMovements(d, negate)
    [] d.kind = "stock_adjustment" -> adjustmentMovements(d, negate)
    [] d.kind = "stock_opname"     -> opnameMovements(d, negate)

PostingRequest(id, d, negate) ==
  [doc |-> id, series |-> d.kind, moves |-> groupByKey(MovementsOf(d, negate))]

(* SumReceivedForPOLine, SumDeliveredForSOLine: the lines linked to an     *)
(* order line in the other documents that are posted and not reversals.    *)
AlreadyFulfilled(o, id) ==
  LET counted == {e \in Doc \ {id} : doc[e].status = "posted" /\ doc[e].reverses = None}
      places == {p \in counted \X (1..MaxLines) :
                   p[2] \in DOMAIN doc[p[1]].lines /\ doc[p[1]].lines[p[2]].order = o}
  IN  SumFunction([p \in places |-> doc[p[1]].lines[p[2]].qty])

(* checkOverReceipt, checkOverDelivery: every linked line on its own.      *)
WithinOrder(id) ==
  \A i \in DOMAIN doc[id].lines :
    LET l == doc[id].lines[i]
    IN  l.order # None => AlreadyFulfilled(l.order, id) + l.qty <= Ordered[l.order]

-----------------------------------------------------------------------------
(* The handlers.                                                           *)

Starts(c, d) == call[c].pc = "idle" /\ Exists(d)

InHand(d) == \E u \in Txn : Active(u) /\ d \in {call[u].doc, call[u].subject}

(* Nothing keeps two calls from having one document in hand.               *)
Unanswered(c, pc, op, d, subject, req) ==
  /\ call' = [call EXCEPT ![c] =
       [pc |-> pc, op |-> op, doc |-> d, subject |-> subject, req |-> req]]
  /\ crossed' = crossed \cup {e \in {d, subject} : InHand(e)}

GoTo(c, pc) ==
  /\ call' = [call EXCEPT ![c].pc = pc]
  /\ UNCHANGED crossed

(* The lines that insert*Lines accept, and the warehouses of a transfer.   *)
Accepted(input) ==
  /\ input.lines # <<>>
  /\ input.kind = "stock_transfer" => input.from # input.to
  /\ \A i \in DOMAIN input.lines :
       CASE input.kind = "stock_adjustment" -> input.lines[i].qty # 0
         [] input.kind = "stock_opname"     -> input.lines[i].qty >= 0
         [] OTHER                           -> input.lines[i].qty > 0

(* The cost of a receipt line comes from the order when none is entered;   *)
(* any other cost takes an owner or admin (ADR-0017).                      *)
EffectiveCost(l) == IF l.cost = 0 /\ l.order # None THEN OrderCost[l.order] ELSE l.cost

MayCost(input) ==
  \/ input.kind # "goods_receipt" \/ input.elevated
  \/ \A i \in DOMAIN input.lines :
       LET l == input.lines[i]
       IN  l.cost = 0 \/ (l.order # None /\ l.cost = OrderCost[l.order])

StoredLines(input) ==
  [i \in DOMAIN input.lines |->
     [input.lines[i] EXCEPT !.cost = IF input.kind = "goods_receipt"
                                     THEN EffectiveCost(input.lines[i]) ELSE @]]

(* A draft; a line has no count of the system's own before it is posted.   *)
Draft(input, lines, original) ==
  [status |-> "draft", number |-> 0, reverses |-> original, reversedBy |-> None,
   kind |-> input.kind, from |-> input.from, to |-> input.to, date |-> input.date,
   lines |-> lines, systemQty |-> [i \in DOMAIN lines |-> None]]

(* Create*: the header and its lines, in one transaction.                  *)
Create(d, input) ==
  /\ doc[d].status = "none"
  /\ Accepted(input) /\ MayCost(input)
  /\ doc' = [doc EXCEPT ![d] = Draft(input, StoredLines(input), None)]
  /\ UNCHANGED <<ledgerVars, call, crossed>>

(* Mutation: an update is not guarded to drafts.                           *)
BeginUpdateUnguarded(c, d) ==
  /\ Starts(c, d)
  /\ Unanswered(c, "updating", "update", d, d, None)
  /\ UNCHANGED <<ledgerVars, doc>>

(* Update*: the status is read, then header and lines are replaced; the    *)
(* UPDATE itself has no condition on the status.                           *)
BeginUpdate(c, d) ==
  /\ Starts(c, d)
  /\ doc[d].status = "draft"
  /\ Unanswered(c, "updating", "update", d, d, None)
  /\ UNCHANGED <<ledgerVars, doc>>

FinishUpdate(c, input) ==
  /\ call[c].pc = "updating"
  /\ Exists(call[c].doc)
  /\ input.kind = doc[call[c].doc].kind
  /\ Accepted(input) /\ MayCost(input)
  /\ doc' = [doc EXCEPT ![call[c].doc] =
       [@ EXCEPT !.from = input.from, !.to = input.to, !.date = input.date,
                 !.lines = StoredLines(input),
                 !.systemQty = [i \in DOMAIN input.lines |-> None]]]
  /\ GoTo(c, "done")
  /\ UNCHANGED ledgerVars

(* Delete*: likewise; the foreign keys protect a row that a reversal or a  *)
(* reversed document refers to.                                            *)
BeginDelete(c, d) ==
  /\ Starts(c, d)
  /\ doc[d].status = "draft"
  /\ Unanswered(c, "deleting", "delete", d, d, None)
  /\ UNCHANGED <<ledgerVars, doc>>

Referenced(d) == \E e \in Doc \ {d} : Exists(e) /\ d \in {doc[e].reverses, doc[e].reversedBy}

(* Mutation: the tables have no foreign keys between documents.            *)
FinishDeleteUnreferenced(c) ==
  /\ call[c].pc = "deleting"
  /\ Exists(call[c].doc)
  /\ doc' = [doc EXCEPT ![call[c].doc] = [Absent EXCEPT !.status = "deleted"]]
  /\ GoTo(c, "done")
  /\ UNCHANGED ledgerVars

FinishDelete(c) ==
  /\ call[c].pc = "deleting"
  /\ Exists(call[c].doc)
  /\ ~Referenced(call[c].doc)
  /\ doc' = [doc EXCEPT ![call[c].doc] = [Absent EXCEPT !.status = "deleted"]]
  /\ GoTo(c, "done")
  /\ UNCHANGED ledgerVars

(* Mutation: what has been posted may be posted again.                     *)
BeginPostUnguarded(c, d) ==
  /\ Starts(c, d)
  /\ WithinOrder(d)
  /\ LET req == PostingRequest(d, doc[d], FALSE)
     IN  /\ TouchedKeys(req) # {}
         /\ Unanswered(c, "posting", "post", d, d, req)
  /\ UNCHANGED <<ledgerVars, doc>>

(* Post*, first transaction.  An opname stores the on-hand quantity it     *)
(* compares each count with, and is checked again before it is posted; one *)
(* without any variance goes past the Poster.                              *)
BeginPost(c, d) ==
  /\ Starts(c, d)
  /\ doc[d].status = "draft"
  /\ WithinOrder(d)
  /\ LET req == PostingRequest(d, doc[d], FALSE)
     IN  Unanswered(c, CASE TouchedKeys(req) = {} -> "numbering"
                         [] doc[d].kind = "stock_opname" -> "rechecking"
                         [] OTHER -> "posting",
                    "post", d, d, req)
  /\ doc' = IF doc[d].kind = "stock_opname"
            THEN [doc EXCEPT ![d].systemQty =
                    [i \in DOMAIN doc[d].lines |-> LevelOf(doc[d].lines[i], doc[d].from).qty]]
            ELSE doc
  /\ UNCHANGED ledgerVars

RecheckOpname(c) ==
  /\ call[c].pc = "rechecking"
  /\ doc[call[c].doc].status = "draft"
  /\ GoTo(c, "posting")
  /\ UNCHANGED <<ledgerVars, doc>>

(* Mutation: the reversal is created before its lines are known.           *)
BeginReverseWithoutLines(c, d, v) ==
  /\ Starts(c, d)
  /\ doc[d].status = "posted"
  /\ doc[v].status = "none"
  /\ doc' = [doc EXCEPT ![v] = Draft(doc[d], <<>>, d)]
  /\ LET req == PostingRequest(v, doc[d], TRUE)
     IN  Unanswered(c, IF TouchedKeys(req) = {} THEN "numbering" ELSE "posting",
                    "reverse", d, v, req)
  /\ UNCHANGED ledgerVars

(* Mutation: the count being reversed has its system quantities refreshed. *)
BeginReverseRefreshed(c, d, v) ==
  /\ Starts(c, d)
  /\ doc[d].status = "posted"
  /\ doc[v].status = "none"
  /\ doc' = [doc EXCEPT ![v] = Draft(doc[d], doc[d].lines, d),
                        ![d].systemQty = [i \in DOMAIN doc[d].lines |->
                                            LevelOf(doc[d].lines[i], doc[d].from).qty]]
  /\ LET req == PostingRequest(v, doc[d], TRUE)
     IN  Unanswered(c, IF TouchedKeys(req) = {} THEN "numbering" ELSE "posting",
                    "reverse", d, v, req)
  /\ UNCHANGED ledgerVars

(* Reverse*, first transaction: a draft reversal v with the lines of d,    *)
(* and the opposite movements.  An opname's are recomputed.                *)
BeginReverse(c, d, v) ==
  /\ Starts(c, d)
  /\ doc[d].status = "posted"
  /\ doc[v].status = "none"
  /\ doc' = [doc EXCEPT ![v] = Draft(doc[d], doc[d].lines, d)]
  /\ LET req == PostingRequest(v, doc[d], TRUE)
     IN  Unanswered(c, IF TouchedKeys(req) = {} THEN "numbering" ELSE "posting",
                    "reverse", d, v, req)
  /\ UNCHANGED ledgerVars

(* The Poster's transaction.                                               *)
PostToLedger(c) ==
  /\ call[c].pc = "posting"
  /\ Ledger!Post(c, call[c].req)
  /\ GoTo(c, "marking")
  /\ UNCHANGED doc

(* Mutation: the number goes to both documents.                            *)
MarkedBoth(c, number) ==
  [d \in Doc |->
     CASE d = call[c].subject -> [doc[d] EXCEPT !.status = "posted", !.number = number]
       [] d = call[c].doc /\ d # call[c].subject /\ Exists(d) ->
            [doc[d] EXCEPT !.status = "reversed", !.reversedBy = call[c].subject,
                           !.number = number]
       [] OTHER -> doc[d]]

(* markPosted, and for a reversal markReversed in the same transaction: no *)
(* condition on a status, but the row to mark posted must still exist.     *)
Marked(c, number) ==
  [d \in Doc |->
     CASE d = call[c].subject -> [doc[d] EXCEPT !.status = "posted", !.number = number]
       [] d = call[c].doc /\ d # call[c].subject /\ Exists(d) ->
            [doc[d] EXCEPT !.status = "reversed", !.reversedBy = call[c].subject]
       [] OTHER -> doc[d]]

(* Mutation: the mark reads the counter instead of the posting's result.   *)
MarkLatest(c) ==
  /\ call[c].pc = "marking"
  /\ Exists(call[c].subject)
  /\ doc' = Marked(c, nextSeq[call[c].req.series] - 1)
  /\ GoTo(c, "done")
  /\ UNCHANGED ledgerVars

Mark(c) ==
  /\ call[c].pc = "marking"
  /\ Exists(call[c].subject)
  /\ doc' = Marked(c, outcome[c].number)
  /\ GoTo(c, "done")
  /\ UNCHANGED ledgerVars

(* An opname without variance: number and marks in one transaction.        *)
NumberAndMark(c) ==
  /\ call[c].pc = "numbering"
  /\ Exists(call[c].subject)
  /\ Ledger!Assign(c, call[c].req)
  /\ doc' = Marked(c, nextSeq[call[c].req.series])
  /\ GoTo(c, "done")

(* A refusal, an error or a cut-off: the call ends where it is.            *)
Fail(c) ==
  /\ Active(c)
  /\ GoTo(c, "failed")
  /\ UNCHANGED <<ledgerVars, doc>>

Handle(c) ==
  \/ \E d \in Doc : BeginUpdate(c, d) \/ BeginDelete(c, d) \/ BeginPost(c, d)
  \/ \E d, v \in Doc : BeginReverse(c, d, v)
  \/ \E input \in Inputs : FinishUpdate(c, input)
  \/ FinishDelete(c)
  \/ RecheckOpname(c)
  \/ PostToLedger(c)
  \/ Mark(c)
  \/ NumberAndMark(c)
  \/ Fail(c)

Next ==
  \/ \E d \in Doc, input \in Inputs : Create(d, input)
  \/ \E c \in Txn : Handle(c)

Spec == Init /\ [][Next]_vars
-----------------------------------------------------------------------------
(* Properties.                                                             *)

(* A document that exists has a kind and at least one line, a reversal of  *)
(* goods_receipts.go:413-421 included; statuses, links and calls are of    *)
(* their kinds.                                                            *)
TypeOK ==
  /\ journal \subseteq Row
  /\ DOMAIN level = Key
  /\ nextSeq \in [Series -> Nat \ {0}]
  /\ DOMAIN outcome = Txn
  /\ \A d \in Doc :
       /\ doc[d].status \in {"none", "draft", "posted", "reversed", "deleted"}
       /\ doc[d].reverses \in Doc \cup {None}
       /\ doc[d].reversedBy \in Doc \cup {None}
       /\ Exists(d) => doc[d].kind \in Kind /\ Len(doc[d].lines) \in 1..MaxLines
  /\ \A c \in Txn :
       /\ call[c].pc \in {"idle", "updating", "deleting", "rechecking", "posting",
                          "marking", "numbering", "done", "failed"}
       /\ call[c].doc \in Doc \cup {None}
       /\ call[c].subject \in Doc \cup {None}
  /\ crossed \subseteq Doc

Final(d) == doc[d].status \in {"posted", "reversed"}

(* The postings the ledger has booked for a document.                      *)
PostingsOf(d) == {c \in Txn : outcome[c] # NoOutcome /\ outcome[c].req.doc = d}

(* What the journal holds of a document in one key, all its postings       *)
(* together.                                                               *)
NetOf(d, k) ==
  SumFunction([m \in {n \in KeyRows(journal, k) : n.doc = d} |-> m.move.qty])

(* A call on d is under way, or one was cut off after its posting.         *)
Unsettled(d) ==
  \E c \in Txn : call[c].subject = d /\ (Active(c) \/ (call[c].pc = "failed" /\ outcome[c] # NoOutcome))

(* What the handlers do not repair: a call cut off between its posting and *)
(* its mark, and calls on one document at once.                            *)
Disturbed(d) == Unsettled(d) \/ d \in crossed

(* The header never runs ahead of the journal: a posted or reversed        *)
(* document bears a number that the ledger gave to a posting of this very  *)
(* document, whatever calls overlapped, failed or deleted drafts meanwhile.*)
PostedIsBacked ==
  \A d \in Doc : Final(d) =>
    \E c \in PostingsOf(d) : outcome[c].number = doc[d].number
                             /\ outcome[c].req.series = doc[d].kind

(* A document is marked reversed only together with a reversal that has    *)
(* itself been posted, and the two stay linked to each other for good.     *)
ReversedHasReversal ==
  \A d \in Doc : doc[d].status = "reversed" =>
    LET v == doc[d].reversedBy
    IN  v # d /\ Final(v) /\ doc[v].reverses = d

(* CONTEXT.md: "Posted documents are immutable"; "Nothing posted is ever   *)
(* deleted".  Lines, header and number of a posted document are final, as  *)
(* long as no two calls have had it in hand at once: the writes of Update* *)
(* and Delete* do not look at the status again.                            *)
PostedIsImmutable ==
  [][\A d \in Doc : Final(d) /\ d \notin crossed' =>
       /\ Final(d)'
       /\ \A f \in {"kind", "from", "to", "date", "lines", "number"} : doc'[d][f] = doc[d][f]]_doc

(* However calls on other documents interleave with its own, a document is *)
(* booked exactly once when it is posted, and not at all while it is a     *)
(* draft (ADR-0013); only calls that met on this very document, or one cut *)
(* off between its posting and its mark, leave it otherwise.               *)
BookedOnce ==
  \A d \in Doc : Exists(d) /\ ~Disturbed(d) =>
    Cardinality(PostingsOf(d)) = IF Final(d) THEN 1 ELSE 0

(* ADR-0010 seen from the documents: every number handed out for a kind    *)
(* belongs to a posting, and the document posted bears that very number.   *)
NumbersAreOnDocuments ==
  \A s \in Series : \A n \in 1..(nextSeq[s] - 1) :
    \E c \in Txn :
      /\ outcome[c] # NoOutcome /\ outcome[c].req.series = s /\ outcome[c].number = n
      /\ LET d == outcome[c].req.doc
         IN  Disturbed(d) \/ (Final(d) /\ doc[d].kind = s /\ doc[d].number = n)

SettledReversal(d) ==
  /\ doc[d].status = "reversed"
  /\ ~Disturbed(d)
  /\ ~Disturbed(doc[d].reversedBy)

(* A reversal undoes its original: together they leave every key's on-hand *)
(* quantity as it was (goods_receipts.go:505-507).  This is about documents*)
(* users entered, other than counts.                                       *)
ReversalRestoresStock ==
  \A d \in Doc :
    SettledReversal(d) /\ doc[d].reverses = None /\ doc[d].kind # "stock_opname" =>
      \A k \in Key : NetOf(d, k) + NetOf(doc[d].reversedBy, k) = 0

(* ADR-0014: the system quantities stored on a posted count explain the    *)
(* movements it made, key by key, and go on doing so after a reversal.     *)
SnapshotExplainsVariance ==
  \A d \in Doc :
    Final(d) /\ ~Disturbed(d) /\ doc[d].reverses = None /\ doc[d].kind = "stock_opname" =>
      \A k \in Key :
        LET here == {i \in DOMAIN doc[d].lines : keyOf(doc[d].lines[i].item, doc[d].from) = k}
        IN  NetOf(d, k) = SumFunction([i \in here |-> doc[d].lines[i].qty - doc[d].systemQty[i]])
-----------------------------------------------------------------------------
(* What comments and decision records say of the code, and runs refute.    *)

(* ADR-0016: posting never takes the posted receipts linked to an order    *)
(* line beyond the quantity ordered, two concurrent receipts included.     *)
ReceivedWithinOrder ==
  \A o \in OrderLine : AlreadyFulfilled(o, None) <= Ordered[o]

(* stock_opnames.go:472-475: the reversal of a count "restores the         *)
(* pre-opname on-hand", that is, it takes back what the count moved.       *)
OpnameReversalRestoresStock ==
  \A d \in Doc :
    SettledReversal(d) /\ doc[d].reverses = None /\ doc[d].kind = "stock_opname" =>
      \A k \in Key : NetOf(d, k) + NetOf(doc[d].reversedBy, k) = 0
=============================================================================
