---------------------------- MODULE DocumentsProofs ----------------------------
(***************************************************************************)
(* Proofs about StockDocuments, for any documents, inputs, orders and      *)
(* calls, any of which may be cut off anywhere, and any costing engine.    *)
(*                                                                         *)
(* 1. Whatever calls overlap: the header of a document never runs ahead of *)
(*    the journal, and a reversed document and its reversal stay linked    *)
(*    (DocInv).                                                            *)
(* 2. For each document no two calls had in hand at once, whatever calls   *)
(*    on others overlap: once posted it is immutable, it is booked once,   *)
(*    and it bears the number that was handed out for it (SteadyInv).      *)
(* 3. Whatever calls overlap: documents, requests and the journal keep     *)
(*    their types (DataInv).                                               *)
(* 4. What a posting moves is what its document says, and a reversal moves *)
(*    the opposite (EffectInv).                                            *)
(***************************************************************************)
EXTENDS StockDocuments, SumProofs

(***************************************************************************)
(* 1. Calls that overlap.  The inductive invariant adds to the two         *)
(* properties what a call between its transactions relies on (CallsHold):  *)
(* its subject is still of the kind it posts, its posting is in the ledger *)
(* when it comes to the mark, and a reversal's subject still refers to the *)
(* original.                                                               *)
(***************************************************************************)
Status == {"none", "draft", "posted", "reversed", "deleted"}

Shape ==
  /\ nextSeq \in [Series -> Nat \ {0}]
  /\ DOMAIN outcome = Txn /\ DOMAIN call = Txn /\ DOMAIN doc = Doc
  /\ \A d \in Doc :
       /\ DOMAIN doc[d] = DOMAIN Absent
       /\ doc[d].status \in Status
       /\ Exists(d) => doc[d].kind \in Series
       /\ doc[d].status = "reversed" => doc[d].reversedBy \in Doc
  /\ \A c \in Txn : DOMAIN call[c] = DOMAIN NoCall

Holding == {"rechecking", "posting", "marking", "numbering"}

CallHolds(c) ==
  call[c].pc \in Holding =>
    /\ call[c].doc \in Doc /\ call[c].subject \in Doc
    /\ call[c].req.doc = call[c].subject
    /\ call[c].req.series \in Series
    /\ doc[call[c].subject].status # "none"
    /\ Exists(call[c].subject) => doc[call[c].subject].kind = call[c].req.series
    /\ call[c].pc = "marking" => outcome[c] # NoOutcome /\ outcome[c].req = call[c].req
    /\ call[c].doc # call[c].subject =>
         /\ doc[call[c].doc].status \in {"posted", "reversed", "deleted"}
         /\ Exists(call[c].subject) => doc[call[c].subject].reverses = call[c].doc

EditHolds(c) ==
  call[c].pc \in {"updating", "deleting"} => call[c].doc \in Doc

CallsHold == \A c \in Txn : CallHolds(c) /\ EditHolds(c)

DocInv == Shape /\ CallsHold /\ PostedIsBacked /\ ReversedHasReversal

(* At the start there are no documents and no calls.                       *)
LEMMA InitDoc == Init => DocInv
<1> SUFFICES ASSUME Init PROVE DocInv
  OBVIOUS
<1>1. /\ DOMAIN outcome = Txn /\ nextSeq \in [Series -> Nat \ {0}]
      /\ doc = [d \in Doc |-> Absent] /\ call = [c \in Txn |-> NoCall]
  BY DEF Init, Ledger!Init
<1>2. \A d \in Doc : doc[d].status = "none"
  BY <1>1 DEF Absent
<1>3. \A c \in Txn : call[c].pc = "idle"
  BY <1>1 DEF NoCall
<1>4. Shape
  BY <1>1, <1>2 DEF Shape, Status, Exists
<1>5. CallsHold
  BY <1>3 DEF CallsHold, CallHolds, EditHolds, Holding
<1>6. PostedIsBacked /\ ReversedHasReversal
  BY <1>2 DEF PostedIsBacked, ReversedHasReversal, Final
<1> QED
  BY <1>4, <1>5, <1>6 DEF DocInv

(* What a number handed out by the ledger does to the outcomes.            *)
LEMMA NumberIsRecorded ==
  ASSUME Shape, NEW c \in Txn, NEW r, r.series \in Series, Ledger!Number(c, r)
  PROVE  /\ outcome[c] = NoOutcome
         /\ outcome' = [outcome EXCEPT ![c] = [req |-> r, number |-> nextSeq[r.series]]]
         /\ outcome'[c] # NoOutcome
         /\ outcome'[c].req = r /\ outcome'[c].number = nextSeq[r.series]
         /\ nextSeq' \in [Series -> Nat \ {0}] /\ DOMAIN outcome' = Txn
<1>1. /\ outcome[c] = NoOutcome
      /\ outcome' = [outcome EXCEPT ![c] = [req |-> r, number |-> nextSeq[r.series]]]
      /\ nextSeq' = [nextSeq EXCEPT ![r.series] = @ + 1]
  BY DEF Ledger!Number, Ledger!NoOutcome, NoOutcome
<1>2. outcome'[c] = [req |-> r, number |-> nextSeq[r.series]]
  BY <1>1 DEF Shape
<1>3. nextSeq[r.series] # 0
  BY DEF Shape
<1>4. outcome'[c] # NoOutcome
  <2>1. outcome'[c].number = nextSeq[r.series] /\ NoOutcome.number = 0
    BY <1>2 DEF NoOutcome
  <2> QED BY <2>1, <1>3
<1>5. nextSeq' \in [Series -> Nat \ {0}]
  BY <1>1 DEF Shape
<1> QED
  BY <1>1, <1>2, <1>4, <1>5 DEF Shape

(* A posting that is in the ledger stays there.                            *)
LEMMA PostingsStay ==
  ASSUME NEW c \in Txn, outcome[c] = NoOutcome, NEW o,
         outcome' = [outcome EXCEPT ![c] = o], NEW d, NEW b \in PostingsOf(d)
  PROVE  b \in PostingsOf(d)' /\ outcome'[b] = outcome[b]
<1>1. b \in Txn /\ outcome[b] # NoOutcome /\ outcome[b].req.doc = d
  BY DEF PostingsOf
<1>2. b # c
  BY <1>1
<1>3. outcome'[b] = outcome[b]
  BY <1>2
<1> QED
  BY <1>1, <1>3 DEF PostingsOf

(* A call that only moves on keeps what it relies on (document_posting.go: *)
(* nothing of a call but local variables lives between its transactions).  *)
LEMMA CallMovesOn ==
  ASSUME DocInv, NEW c \in Txn, NEW pc, GoTo(c, pc)
  PROVE  /\ DOMAIN call' = Txn
         /\ \A u \in Txn :
              /\ DOMAIN call'[u] = DOMAIN NoCall
              /\ call'[u].pc = IF u = c THEN pc ELSE call[u].pc
              /\ call'[u].doc = call[u].doc /\ call'[u].subject = call[u].subject
              /\ call'[u].req = call[u].req
  BY DEF DocInv, Shape, GoTo, NoCall

(* A new call is in the state it is given.                                 *)
LEMMA CallBegins ==
  ASSUME DocInv, NEW c \in Txn, NEW pc, NEW op, NEW d, NEW s, NEW r,
         Unanswered(c, pc, op, d, s, r)
  PROVE  /\ DOMAIN call' = Txn
         /\ \A u \in Txn : DOMAIN call'[u] = DOMAIN NoCall
         /\ call'[c].pc = pc /\ call'[c].doc = d /\ call'[c].subject = s
         /\ call'[c].req = r
         /\ \A u \in Txn \ {c} : call'[u] = call[u]
  BY DEF DocInv, Shape, Unanswered, NoCall

(* Changes that leave the headers and the ledger alone keep the invariant, *)
(* if the calls still hold.                                                *)
LEMMA HeadersStay ==
  ASSUME DocInv, UNCHANGED <<nextSeq, outcome>>,
         DOMAIN call' = Txn, \A c \in Txn : DOMAIN call'[c] = DOMAIN NoCall,
         CallsHold', DOMAIN doc' = Doc,
         \A d \in Doc : /\ DOMAIN doc'[d] = DOMAIN Absent
                        /\ \A f \in {"status", "number", "kind", "reverses", "reversedBy"} :
                             doc'[d][f] = doc[d][f]
  PROVE  DocInv'
<1>1. \A d \in Doc : /\ doc'[d].status = doc[d].status /\ doc'[d].number = doc[d].number
                     /\ doc'[d].kind = doc[d].kind /\ doc'[d].reverses = doc[d].reverses
                     /\ doc'[d].reversedBy = doc[d].reversedBy
  OBVIOUS
<1>2. Shape'
  BY <1>1 DEF DocInv, Shape, Exists
<1>3. PostedIsBacked'
  BY <1>1 DEF DocInv, PostedIsBacked, PostingsOf, Final
<1>4. ReversedHasReversal'
  <2> SUFFICES ASSUME NEW d \in Doc, doc'[d].status = "reversed"
               PROVE  /\ doc'[d].reversedBy # d
                      /\ doc'[doc'[d].reversedBy].status \in {"posted", "reversed"}
                      /\ doc'[doc'[d].reversedBy].reverses = d
    BY DEF ReversedHasReversal, Final
  <2>1. /\ doc[d].reversedBy # d /\ Final(doc[d].reversedBy)
        /\ doc[doc[d].reversedBy].reverses = d
    BY <1>1 DEF DocInv, ReversedHasReversal
  <2>2. doc[d].reversedBy \in Doc
    BY <1>1 DEF DocInv, Shape
  <2> QED BY <2>1, <2>2, <1>1 DEF Final
<1> QED
  BY <1>2, <1>3, <1>4 DEF DocInv

(* The mark: subject posted under the number its posting got, and for a    *)
(* reversal the original marked reversed with it.                          *)
LEMMA MarkKeeps ==
  ASSUME DocInv, NEW c \in Txn, NEW n,
         call[c].pc \in {"marking", "numbering"}, Exists(call[c].subject),
         doc' = Marked(c, n), GoTo(c, "done"),
         nextSeq' \in [Series -> Nat \ {0}], DOMAIN outcome' = Txn,
         \A u \in Txn \ {c} : outcome'[u] = outcome[u],
         \A d \in Doc : \A b \in PostingsOf(d) : b \in PostingsOf(d)' /\ outcome'[b] = outcome[b],
         outcome'[c] # NoOutcome, outcome'[c].number = n,
         outcome'[c].req = call[c].req
  PROVE  DocInv'
<1> DEFINE s == call[c].subject
           o == call[c].doc
<1>1. /\ s \in Doc /\ o \in Doc
      /\ doc[s].kind = call[c].req.series /\ call[c].req.doc = s
      /\ o # s => doc[o].status \in {"posted", "reversed", "deleted"} /\ doc[s].reverses = o
  BY DEF DocInv, CallsHold, CallHolds, Holding
<1>2. /\ DOMAIN doc' = Doc
      /\ \A d \in Doc : DOMAIN doc'[d] = DOMAIN Absent
      /\ \A d \in Doc : doc'[d].kind = doc[d].kind /\ doc'[d].reverses = doc[d].reverses
      /\ doc'[s].status = "posted" /\ doc'[s].number = n /\ doc'[s].reversedBy = doc[s].reversedBy
      /\ \A d \in Doc \ {s} : doc'[d].number = doc[d].number
      /\ \A d \in Doc \ {s, o} : doc'[d].status = doc[d].status /\ doc'[d].reversedBy = doc[d].reversedBy
      /\ o # s /\ Exists(o) => doc'[o].status = "reversed" /\ doc'[o].reversedBy = s
      /\ o # s /\ ~Exists(o) => doc'[o] = doc[o]
  <2>1. \A d \in Doc : DOMAIN doc[d] = DOMAIN Absent
    BY DEF DocInv, Shape
  <2>2. \A d \in Doc : doc'[d] =
          CASE d = s -> [doc[d] EXCEPT !.status = "posted", !.number = n]
            [] d = o /\ d # s /\ Exists(d) ->
                 [doc[d] EXCEPT !.status = "reversed", !.reversedBy = s]
            [] OTHER -> doc[d]
    BY DEF Marked
  <2>3. doc'[s] = [doc[s] EXCEPT !.status = "posted", !.number = n]
    BY <2>2, <1>1
  <2>4. \A d \in Doc : d = o /\ d # s /\ Exists(d) =>
          doc'[d] = [doc[d] EXCEPT !.status = "reversed", !.reversedBy = s]
    BY <2>2
  <2>5. \A d \in Doc : d # s /\ ~(d = o /\ Exists(d)) => doc'[d] = doc[d]
    BY <2>2
  <2>6. DOMAIN doc' = Doc
    BY DEF Marked
  <2>7. doc'[s].status = "posted" /\ doc'[s].number = n /\ doc'[s].kind = doc[s].kind
        /\ doc'[s].reverses = doc[s].reverses /\ doc'[s].reversedBy = doc[s].reversedBy
        /\ DOMAIN doc'[s] = DOMAIN Absent
    BY <2>1, <2>3, <1>1 DEF Absent
  <2>8. o # s /\ Exists(o) =>
          /\ doc'[o].status = "reversed" /\ doc'[o].reversedBy = s
          /\ doc'[o].number = doc[o].number /\ doc'[o].kind = doc[o].kind
          /\ doc'[o].reverses = doc[o].reverses /\ DOMAIN doc'[o] = DOMAIN Absent
    BY <2>1, <2>4, <1>1 DEF Absent
  <2> QED BY <2>1, <2>5, <2>6, <2>7, <2>8, <1>1
<1>3. /\ DOMAIN call' = Txn
      /\ \A u \in Txn :
           /\ DOMAIN call'[u] = DOMAIN NoCall
           /\ call'[u].pc = IF u = c THEN "done" ELSE call[u].pc
           /\ call'[u].doc = call[u].doc /\ call'[u].subject = call[u].subject
           /\ call'[u].req = call[u].req
  BY CallMovesOn
<1>4. \A d \in Doc : Exists(d)' <=> Exists(d)
  <2>1. \A d \in Doc : doc[d].status \in Status
    BY DEF DocInv, Shape
  <2> QED BY <1>1, <1>2, <2>1 DEF Exists, Status
<1>5. Shape'
  <2>1. \A d \in Doc : doc'[d].status \in Status
    BY <1>2 DEF DocInv, Shape, Status
  <2>2. \A d \in Doc : Exists(d)' => doc'[d].kind \in Series
    BY <1>2, <1>4 DEF DocInv, Shape
  <2>3. \A d \in Doc : doc'[d].status = "reversed" => doc'[d].reversedBy \in Doc
    BY <1>1, <1>2 DEF DocInv, Shape
  <2> QED BY <1>2, <1>3, <2>1, <2>2, <2>3 DEF Shape
<1>6. CallsHold'
  <2> SUFFICES ASSUME NEW u \in Txn PROVE CallHolds(u)' /\ EditHolds(u)'
    BY DEF CallsHold
  <2>1. CallHolds(u) /\ EditHolds(u)
    BY DEF DocInv, CallsHold
  <2>2. EditHolds(u)'
    BY <2>1, <1>3 DEF EditHolds
  <2>3. CASE u = c
    BY <2>2, <2>3, <1>3 DEF CallHolds, Holding
  <2>4. CASE u # c
    <3> SUFFICES ASSUME call[u].pc \in Holding PROVE CallHolds(u)'
      BY <2>2, <2>4, <1>3 DEF CallHolds
    <3>1. call[u].doc \in Doc /\ call[u].subject \in Doc
      BY <2>1 DEF CallHolds
    <3>2. doc'[call[u].subject].status # "none"
      BY <2>1, <3>1, <1>2 DEF CallHolds
    <3>3. doc[call[u].doc].status \in {"posted", "reversed", "deleted"}
            => doc'[call[u].doc].status \in {"posted", "reversed", "deleted"}
      BY <3>1, <1>2
    <3>4. outcome'[u] = outcome[u]
      BY <2>4
    <3> QED BY <2>1, <2>4, <3>1, <3>2, <3>3, <3>4, <1>2, <1>3, <1>4 DEF CallHolds
  <2> QED BY <2>3, <2>4, <2>2
<1>7. PostedIsBacked'
  <2> SUFFICES ASSUME NEW d \in Doc, Final(d)'
               PROVE  \E b \in PostingsOf(d)' : /\ outcome'[b].number = doc'[d].number
                                                /\ outcome'[b].req.series = doc'[d].kind
    BY DEF PostedIsBacked
  <2>1. CASE d = s
    <3>1. c \in PostingsOf(d)'
      BY <2>1, <1>1 DEF PostingsOf
    <3> QED BY <3>1, <2>1, <1>1, <1>2
  <2>2. CASE d # s
    <3>1. Final(d)
      BY <2>2, <1>1, <1>2 DEF Final, Exists
    <3>2. PICK b \in PostingsOf(d) : outcome[b].number = doc[d].number
                                     /\ outcome[b].req.series = doc[d].kind
      BY <3>1 DEF DocInv, PostedIsBacked
    <3> QED BY <3>2, <2>2, <1>2
  <2> QED BY <2>1, <2>2
<1>8. ReversedHasReversal'
  <2> SUFFICES ASSUME NEW d \in Doc, doc'[d].status = "reversed"
               PROVE  /\ doc'[d].reversedBy # d
                      /\ doc'[doc'[d].reversedBy].status \in {"posted", "reversed"}
                      /\ doc'[doc'[d].reversedBy].reverses = d
    BY DEF ReversedHasReversal, Final
  <2>1. d # s
    BY <1>2
  <2>2. CASE d = o /\ Exists(o)
    BY <2>1, <2>2, <1>1, <1>2 DEF Final
  <2>3. CASE ~(d = o /\ Exists(o))
    <3>1. doc'[d].status = doc[d].status /\ doc'[d].reversedBy = doc[d].reversedBy
      BY <2>1, <2>3, <1>2
    <3>2. /\ doc[d].reversedBy # d /\ Final(doc[d].reversedBy)
          /\ doc[doc[d].reversedBy].reverses = d /\ doc[d].reversedBy \in Doc
      BY <3>1 DEF DocInv, ReversedHasReversal, Shape
    <3>3. doc'[doc[d].reversedBy].status \in {"posted", "reversed"}
      <4>1. CASE doc[d].reversedBy \in {s, o}
        BY <3>2, <4>1, <1>1, <1>2 DEF Final, Exists
      <4>2. CASE doc[d].reversedBy \notin {s, o}
        BY <3>2, <4>2, <1>2 DEF Final
      <4> QED BY <4>1, <4>2
    <3> QED BY <3>1, <3>2, <3>3, <1>2
  <2> QED BY <2>2, <2>3
<1> QED
  BY <1>5, <1>6, <1>7, <1>8 DEF DocInv

(* A draft that did not exist before changes nothing for the others, and   *)
(* the calls under way do not know of it.                                  *)
LEMMA DraftKeeps ==
  ASSUME DocInv, NEW v \in Doc, doc[v].status = "none",
         NEW input, NEW lines, NEW original, input.kind \in Series,
         doc' = [doc EXCEPT ![v] = Draft(input, lines, original)],
         UNCHANGED <<nextSeq, outcome>>
  PROVE  /\ DOMAIN doc' = Doc
         /\ doc'[v].status = "draft" /\ doc'[v].kind = input.kind /\ doc'[v].reverses = original
         /\ \A d \in Doc \ {v} : doc'[d] = doc[d]
         /\ \A d \in Doc : /\ DOMAIN doc'[d] = DOMAIN Absent
                           /\ doc'[d].status \in Status
                           /\ doc'[d].status \in {"draft", "posted", "reversed"} => doc'[d].kind \in Series
                           /\ doc'[d].status = "reversed" => doc'[d].reversedBy \in Doc
         /\ PostedIsBacked' /\ ReversedHasReversal'
         /\ \A u \in Txn : call'[u] = call[u] => CallHolds(u)' /\ EditHolds(u)'
<1>1. /\ DOMAIN doc' = Doc /\ doc'[v] = Draft(input, lines, original)
      /\ \A d \in Doc \ {v} : doc'[d] = doc[d]
  BY DEF DocInv, Shape
<1>2. /\ doc'[v].status = "draft" /\ doc'[v].kind = input.kind /\ doc'[v].reverses = original
      /\ DOMAIN doc'[v] = DOMAIN Absent
  BY <1>1 DEF Draft, Absent
<1>3. \A d \in Doc : /\ DOMAIN doc'[d] = DOMAIN Absent
                     /\ doc'[d].status \in Status
                     /\ doc'[d].status \in {"draft", "posted", "reversed"} => doc'[d].kind \in Series
                     /\ doc'[d].status = "reversed" => doc'[d].reversedBy \in Doc
  BY <1>1, <1>2 DEF DocInv, Shape, Exists, Status
<1>4. PostedIsBacked'
  BY <1>1, <1>2 DEF DocInv, PostedIsBacked, Final, PostingsOf
<1>5. ReversedHasReversal'
  <2> SUFFICES ASSUME NEW d \in Doc, doc'[d].status = "reversed"
               PROVE  /\ doc'[d].reversedBy # d
                      /\ doc'[doc'[d].reversedBy].status \in {"posted", "reversed"}
                      /\ doc'[doc'[d].reversedBy].reverses = d
    BY DEF ReversedHasReversal, Final
  <2>1. doc'[d] = doc[d]
    BY <1>1, <1>2
  <2>2. /\ doc[d].reversedBy # d /\ Final(doc[d].reversedBy)
        /\ doc[doc[d].reversedBy].reverses = d /\ doc[d].reversedBy \in Doc
    BY <2>1 DEF DocInv, ReversedHasReversal, Shape
  <2>3. doc'[doc[d].reversedBy] = doc[doc[d].reversedBy]
    BY <2>2, <1>1 DEF Final
  <2> QED BY <2>1, <2>2, <2>3 DEF Final
<1>6. ASSUME NEW u \in Txn, call'[u] = call[u] PROVE CallHolds(u)' /\ EditHolds(u)'
  <2>1. CallHolds(u) /\ EditHolds(u)
    BY DEF DocInv, CallsHold
  <2>2. EditHolds(u)'
    BY <1>6, <2>1 DEF EditHolds
  <2>3. CASE call[u].pc \in Holding
    <3>1. call[u].subject \in Doc \ {v} /\ call[u].doc \in Doc
      BY <2>1, <2>3 DEF CallHolds
    <3>2. doc'[call[u].subject] = doc[call[u].subject]
      BY <3>1, <1>1
    <3>3. call[u].doc # call[u].subject => doc'[call[u].doc] = doc[call[u].doc]
      BY <2>1, <2>3, <3>1, <1>1 DEF CallHolds
    <3> QED BY <1>6, <2>1, <2>2, <2>3, <3>1, <3>2, <3>3 DEF CallHolds, Exists
  <2> QED BY <1>6, <2>2, <2>3 DEF CallHolds
<1> QED
  BY <1>1, <1>2, <1>3, <1>4, <1>5, <1>6

(* A call keeps what it relies on while the headers keep status, kind and  *)
(* origin, wherever it goes short of the mark.                             *)
LEMMA CallStays ==
  ASSUME DocInv, outcome' = outcome, NEW u \in Txn,
         \A d \in Doc : /\ doc'[d].status = doc[d].status /\ doc'[d].kind = doc[d].kind
                        /\ doc'[d].reverses = doc[d].reverses,
         call'[u].doc = call[u].doc, call'[u].subject = call[u].subject,
         call'[u].req = call[u].req,
         call'[u].pc \in Holding => call[u].pc \in Holding,
         call'[u].pc = "marking" => call[u].pc = "marking",
         call'[u].pc \in {"updating", "deleting"} => call[u].pc = call'[u].pc
  PROVE  CallHolds(u)' /\ EditHolds(u)'
<1>1. CallHolds(u) /\ EditHolds(u)
  BY DEF DocInv, CallsHold
<1>2. EditHolds(u)'
  BY <1>1 DEF EditHolds
<1>3. CASE call'[u].pc \in Holding
  <2>1. call[u].doc \in Doc /\ call[u].subject \in Doc
    BY <1>1, <1>3 DEF CallHolds
  <2> QED BY <1>1, <1>2, <1>3, <2>1 DEF CallHolds, Exists
<1> QED
  BY <1>2, <1>3 DEF CallHolds

(* Every step of every handler, in any interleaving, keeps the invariant.  *)
LEMMA NextDoc == DocInv /\ [Next]_vars => DocInv'
<1> SUFFICES ASSUME DocInv, [Next]_vars PROVE DocInv'
  OBVIOUS
<1>a. /\ DOMAIN doc = Doc /\ DOMAIN call = Txn
      /\ \A d \in Doc : DOMAIN doc[d] = DOMAIN Absent /\ doc[d].status \in Status
      /\ \A c \in Txn : DOMAIN call[c] = DOMAIN NoCall
  BY DEF DocInv, Shape
<1>1. ASSUME NEW d \in Doc, NEW input \in Inputs, Create(d, input) PROVE DocInv'
  <2>1. /\ doc[d].status = "none" /\ UNCHANGED <<nextSeq, outcome, call>>
        /\ doc' = [doc EXCEPT ![d] = Draft(input, StoredLines(input), None)]
    BY <1>1 DEF Create, ledgerVars
  <2>2. input.kind \in Series
    BY InputsAssumption
  <2> QED BY <2>1, <2>2, DraftKeeps DEF DocInv, Shape, CallsHold, Exists
<1>2. ASSUME NEW c \in Txn, NEW d \in Doc, BeginUpdate(c, d) \/ BeginDelete(c, d) PROVE DocInv'
  <2>1. /\ UNCHANGED <<nextSeq, outcome, doc>>
        /\ \E pc \in {"updating", "deleting"} : \E op : Unanswered(c, pc, op, d, d, None)
    BY <1>2 DEF BeginUpdate, BeginDelete, ledgerVars
  <2>2. /\ DOMAIN call' = Txn /\ \A u \in Txn : DOMAIN call'[u] = DOMAIN NoCall
        /\ call'[c].pc \in {"updating", "deleting"} /\ call'[c].doc = d
        /\ \A u \in Txn \ {c} : call'[u] = call[u]
    BY <2>1, CallBegins
  <2>3. CallsHold'
    <3>1. CallHolds(c)' /\ EditHolds(c)'
      BY <2>2 DEF CallHolds, EditHolds, Holding
    <3>2. ASSUME NEW u \in Txn, u # c PROVE CallHolds(u)' /\ EditHolds(u)'
      BY <2>1, <2>2, <3>2, CallStays
    <3> QED BY <3>1, <3>2 DEF CallsHold
  <2> QED BY <2>1, <2>2, <2>3, <1>a, HeadersStay
<1>3. ASSUME NEW c \in Txn, NEW input \in Inputs, FinishUpdate(c, input) PROVE DocInv'
  <2>1. /\ call[c].pc = "updating" /\ GoTo(c, "done") /\ UNCHANGED <<nextSeq, outcome>>
        /\ call[c].doc \in Doc
    BY <1>3 DEF FinishUpdate, ledgerVars, DocInv, CallsHold, EditHolds
  <2>2. DOMAIN doc' = Doc /\ \A d \in Doc :
          /\ DOMAIN doc'[d] = DOMAIN Absent
          /\ \A f \in {"status", "number", "kind", "reverses", "reversedBy"} : doc'[d][f] = doc[d][f]
    BY <1>3, <2>1, <1>a DEF FinishUpdate, Absent
  <2>3. \A d \in Doc : /\ doc'[d].status = doc[d].status /\ doc'[d].kind = doc[d].kind
                       /\ doc'[d].reverses = doc[d].reverses
    BY <2>2
  <2>4. CallsHold'
    BY <2>1, <2>3, CallMovesOn, CallStays DEF CallsHold, Holding
  <2> QED BY <2>1, <2>2, <2>4, CallMovesOn, HeadersStay
<1>4. ASSUME NEW c \in Txn, FinishDelete(c) PROVE DocInv'
  <2> DEFINE x == call[c].doc
  <2>1. /\ call[c].pc = "deleting" /\ GoTo(c, "done") /\ UNCHANGED <<nextSeq, outcome>>
        /\ x \in Doc /\ Exists(x) /\ ~Referenced(x)
        /\ doc' = [doc EXCEPT ![x] = [Absent EXCEPT !.status = "deleted"]]
    BY <1>4 DEF FinishDelete, ledgerVars, DocInv, CallsHold, EditHolds
  <2>2. /\ DOMAIN doc' = Doc /\ doc'[x].status = "deleted" /\ DOMAIN doc'[x] = DOMAIN Absent
        /\ \A d \in Doc \ {x} : doc'[d] = doc[d]
    BY <2>1, <1>a DEF Absent
  <2>3. /\ DOMAIN call' = Txn
        /\ \A u \in Txn :
             /\ DOMAIN call'[u] = DOMAIN NoCall
             /\ call'[u].pc = IF u = c THEN "done" ELSE call[u].pc
             /\ call'[u].doc = call[u].doc /\ call'[u].subject = call[u].subject
             /\ call'[u].req = call[u].req
    BY <2>1, CallMovesOn
  <2>4. Shape'
    BY <2>1, <2>2, <2>3 DEF DocInv, Shape, Status, Exists
  <2>5. CallsHold'
    <3> SUFFICES ASSUME NEW u \in Txn PROVE CallHolds(u)' /\ EditHolds(u)'
      BY DEF CallsHold
    <3>1. CallHolds(u) /\ EditHolds(u)
      BY DEF DocInv, CallsHold
    <3>2. EditHolds(u)'
      BY <3>1, <2>3 DEF EditHolds
    <3>3. CASE call'[u].pc \in Holding
      <4>1. call[u].pc \in Holding /\ call'[u].pc = call[u].pc
        BY <3>3, <2>3 DEF Holding
      <4>2. call[u].doc \in Doc /\ call[u].subject \in Doc
        BY <4>1, <3>1 DEF CallHolds
      <4> QED BY <3>1, <3>2, <4>1, <4>2, <2>1, <2>2, <2>3 DEF CallHolds, Exists
    <3> QED BY <3>2, <3>3 DEF CallHolds
  <2>6. PostedIsBacked'
    BY <2>1, <2>2 DEF DocInv, PostedIsBacked, Final, PostingsOf
  <2>7. ReversedHasReversal'
    <3> SUFFICES ASSUME NEW d \in Doc, doc'[d].status = "reversed"
                 PROVE  /\ doc'[d].reversedBy # d
                        /\ doc'[doc'[d].reversedBy].status \in {"posted", "reversed"}
                        /\ doc'[doc'[d].reversedBy].reverses = d
      BY DEF ReversedHasReversal, Final
    <3>1. d # x /\ doc'[d] = doc[d]
      BY <2>2
    <3>2. /\ doc[d].reversedBy # d /\ Final(doc[d].reversedBy)
          /\ doc[doc[d].reversedBy].reverses = d /\ doc[d].reversedBy \in Doc
      BY <3>1 DEF DocInv, ReversedHasReversal, Shape
    <3>3. doc[d].reversedBy # x
      BY <3>1, <2>1 DEF Referenced, Exists
    <3> QED BY <3>1, <3>2, <3>3, <2>2 DEF Final
  <2> QED BY <2>4, <2>5, <2>6, <2>7 DEF DocInv
<1>5. ASSUME NEW c \in Txn, NEW d \in Doc, BeginPost(c, d) PROVE DocInv'
  <2> DEFINE req == PostingRequest(d, doc[d], FALSE)
  <2>1. /\ doc[d].status = "draft" /\ UNCHANGED <<nextSeq, outcome>>
        /\ \E pc \in Holding \ {"marking"} : Unanswered(c, pc, "post", d, d, req)
    BY <1>5 DEF BeginPost, ledgerVars, Holding
  <2>2. /\ DOMAIN call' = Txn /\ \A u \in Txn : DOMAIN call'[u] = DOMAIN NoCall
        /\ call'[c].pc \in Holding \ {"marking"} /\ call'[c].doc = d /\ call'[c].subject = d
        /\ call'[c].req = req
        /\ \A u \in Txn \ {c} : call'[u] = call[u]
    <3> HIDE DEF req
    <3>1. PICK pc \in Holding \ {"marking"} : Unanswered(c, pc, "post", d, d, req)
      BY <2>1
    <3> QED BY <3>1, CallBegins
  <2>3. DOMAIN doc' = Doc /\ \A e \in Doc :
          /\ DOMAIN doc'[e] = DOMAIN Absent
          /\ \A f \in {"status", "number", "kind", "reverses", "reversedBy"} : doc'[e][f] = doc[e][f]
    BY <1>5, <1>a DEF BeginPost, Absent
  <2>4. \A e \in Doc : /\ doc'[e].status = doc[e].status /\ doc'[e].kind = doc[e].kind
                       /\ doc'[e].reverses = doc[e].reverses
    BY <2>3
  <2>5. req.doc = d /\ req.series = doc[d].kind
    BY DEF PostingRequest
  <2>6. doc[d].kind \in Series
    BY <2>1 DEF DocInv, Shape, Exists
  <2>7. CallsHold'
    <3>1. CallHolds(c)' /\ EditHolds(c)'
      BY <2>1, <2>2, <2>4, <2>5, <2>6 DEF CallHolds, EditHolds, Holding
    <3>2. ASSUME NEW u \in Txn, u # c PROVE CallHolds(u)' /\ EditHolds(u)'
      BY <2>1, <2>2, <2>4, <3>2, CallStays
    <3> QED BY <3>1, <3>2 DEF CallsHold
  <2> QED BY <2>1, <2>2, <2>3, <2>7, HeadersStay
<1>6. ASSUME NEW c \in Txn, NEW d \in Doc, NEW v \in Doc, BeginReverse(c, d, v) PROVE DocInv'
  <2> DEFINE req == PostingRequest(v, doc[d], TRUE)
  <2>1. /\ doc[d].status = "posted" /\ doc[v].status = "none" /\ UNCHANGED <<nextSeq, outcome>>
        /\ doc' = [doc EXCEPT ![v] = Draft(doc[d], doc[d].lines, d)]
        /\ \E pc \in Holding \ {"marking"} : Unanswered(c, pc, "reverse", d, v, req)
    BY <1>6 DEF BeginReverse, ledgerVars, Holding
  <2>2. /\ DOMAIN call' = Txn /\ \A u \in Txn : DOMAIN call'[u] = DOMAIN NoCall
        /\ call'[c].pc \in Holding \ {"marking"} /\ call'[c].doc = d /\ call'[c].subject = v
        /\ call'[c].req = req
        /\ \A u \in Txn \ {c} : call'[u] = call[u]
    <3> HIDE DEF req
    <3>1. PICK pc \in Holding \ {"marking"} : Unanswered(c, pc, "reverse", d, v, req)
      BY <2>1
    <3> QED BY <3>1, CallBegins
  <2>3. doc[d].kind \in Series
    BY <2>1 DEF DocInv, Shape, Exists
  <2>4. req.doc = v /\ req.series = doc[d].kind
    BY DEF PostingRequest
  <2>5. d # v
    BY <2>1
  <2>6. /\ DOMAIN doc' = Doc
        /\ doc'[v].status = "draft" /\ doc'[v].kind = doc[d].kind /\ doc'[v].reverses = d
        /\ \A e \in Doc \ {v} : doc'[e] = doc[e]
        /\ \A e \in Doc : /\ DOMAIN doc'[e] = DOMAIN Absent
                          /\ doc'[e].status \in Status
                          /\ doc'[e].status \in {"draft", "posted", "reversed"} => doc'[e].kind \in Series
                          /\ doc'[e].status = "reversed" => doc'[e].reversedBy \in Doc
        /\ PostedIsBacked' /\ ReversedHasReversal'
        /\ \A u \in Txn : call'[u] = call[u] => CallHolds(u)' /\ EditHolds(u)'
    BY <2>1, <2>3, DraftKeeps
  <2>7. CallsHold'
    <3>1. CallHolds(c)' /\ EditHolds(c)'
      <4> HIDE DEF req
      <4>1. doc'[d].status = "posted"
        BY <2>1, <2>5, <2>6
      <4> QED BY <4>1, <2>2, <2>3, <2>4, <2>6 DEF CallHolds, EditHolds, Holding
    <3> QED BY <3>1, <2>2, <2>6 DEF CallsHold
  <2>8. Shape'
    BY <2>1, <2>2, <2>6 DEF DocInv, Shape, Exists
  <2> QED BY <2>6, <2>7, <2>8 DEF DocInv
<1>7. ASSUME NEW c \in Txn, RecheckOpname(c) \/ Fail(c) PROVE DocInv'
  <2>1. /\ UNCHANGED <<nextSeq, outcome, doc>>
        /\ \E pc : /\ GoTo(c, pc)
                   /\ pc = "failed" \/ (pc = "posting" /\ call[c].pc = "rechecking")
    BY <1>7 DEF RecheckOpname, Fail, ledgerVars
  <2>2. /\ DOMAIN call' = Txn
        /\ \A u \in Txn :
             /\ DOMAIN call'[u] = DOMAIN NoCall
             /\ call'[u].doc = call[u].doc /\ call'[u].subject = call[u].subject
             /\ call'[u].req = call[u].req
             /\ \/ call'[u].pc \in {call[u].pc, "failed"}
                \/ call'[u].pc = "posting" /\ call[u].pc = "rechecking"
    BY <2>1, CallMovesOn
  <2>3. CallsHold'
    BY <2>1, <2>2, CallStays DEF CallsHold, Holding
  <2> QED BY <2>1, <2>2, <2>3, <1>a, HeadersStay
<1>8. ASSUME NEW c \in Txn, PostToLedger(c) PROVE DocInv'
  <2>1. /\ call[c].pc = "posting" /\ Ledger!Number(c, call[c].req) /\ GoTo(c, "marking")
        /\ doc' = doc
    BY <1>8 DEF PostToLedger, Ledger!Post
  <2>2. call[c].req.series \in Series
    BY <2>1 DEF DocInv, CallsHold, CallHolds, Holding
  <2>3. /\ outcome[c] = NoOutcome
        /\ outcome' = [outcome EXCEPT ![c] = [req |-> call[c].req, number |-> nextSeq[call[c].req.series]]]
        /\ outcome'[c] # NoOutcome
        /\ outcome'[c].req = call[c].req
        /\ nextSeq' \in [Series -> Nat \ {0}] /\ DOMAIN outcome' = Txn
    BY <2>1, <2>2, NumberIsRecorded DEF DocInv
  <2>4. /\ DOMAIN call' = Txn
        /\ \A u \in Txn :
             /\ DOMAIN call'[u] = DOMAIN NoCall
             /\ call'[u].pc = IF u = c THEN "marking" ELSE call[u].pc
             /\ call'[u].doc = call[u].doc /\ call'[u].subject = call[u].subject
             /\ call'[u].req = call[u].req
    BY <2>1, CallMovesOn
  <2>5. Shape'
    BY <2>1, <2>3, <2>4 DEF DocInv, Shape, Exists
  <2>6. CallsHold'
    <3> SUFFICES ASSUME NEW u \in Txn PROVE CallHolds(u)' /\ EditHolds(u)'
      BY DEF CallsHold
    <3>1. CallHolds(u) /\ EditHolds(u)
      BY DEF DocInv, CallsHold
    <3>2. EditHolds(u)'
      BY <3>1, <2>1, <2>4 DEF EditHolds
    <3>3. CASE u = c
      BY <3>1, <3>2, <3>3, <2>1, <2>3, <2>4 DEF CallHolds, Holding, Exists
    <3>4. CASE u # c
      <4>1. outcome'[u] = outcome[u]
        BY <3>4, <2>3
      <4> QED BY <3>1, <3>2, <3>4, <4>1, <2>1, <2>4 DEF CallHolds, Exists
    <3> QED BY <3>3, <3>4
  <2>7. PostedIsBacked'
    <3> SUFFICES ASSUME NEW d \in Doc, Final(d)
                 PROVE  \E b \in PostingsOf(d)' : /\ outcome'[b].number = doc[d].number
                                                  /\ outcome'[b].req.series = doc[d].kind
      BY <2>1 DEF PostedIsBacked, Final
    <3>1. PICK b \in PostingsOf(d) : outcome[b].number = doc[d].number
                                     /\ outcome[b].req.series = doc[d].kind
      BY DEF DocInv, PostedIsBacked
    <3>2. b \in PostingsOf(d)' /\ outcome'[b] = outcome[b]
      BY <2>3, PostingsStay
    <3> QED BY <3>1, <3>2
  <2>8. ReversedHasReversal'
    BY <2>1 DEF DocInv, ReversedHasReversal, Final
  <2> QED BY <2>5, <2>6, <2>7, <2>8 DEF DocInv
<1>9. ASSUME NEW c \in Txn, Mark(c) PROVE DocInv'
  <2>1. /\ call[c].pc = "marking" /\ Exists(call[c].subject)
        /\ doc' = Marked(c, outcome[c].number) /\ GoTo(c, "done")
        /\ nextSeq' = nextSeq /\ outcome' = outcome
    BY <1>9 DEF Mark, ledgerVars
  <2>2. outcome[c] # NoOutcome /\ outcome[c].req = call[c].req
    BY <2>1 DEF DocInv, CallsHold, CallHolds, Holding
  <2>3. \A d \in Doc : PostingsOf(d)' = PostingsOf(d)
    BY <2>1 DEF PostingsOf
  <2>4. nextSeq' \in [Series -> Nat \ {0}] /\ DOMAIN outcome' = Txn
    BY <2>1 DEF DocInv, Shape
  <2> QED BY <2>1, <2>2, <2>3, <2>4, MarkKeeps
<1>10. ASSUME NEW c \in Txn, NumberAndMark(c) PROVE DocInv'
  <2> DEFINE r == call[c].req
  <2>1. /\ call[c].pc = "numbering" /\ Exists(call[c].subject)
        /\ Ledger!Number(c, r)
        /\ doc' = Marked(c, nextSeq[r.series]) /\ GoTo(c, "done")
    BY <1>10 DEF NumberAndMark, Ledger!Assign
  <2>2. r.series \in Series
    BY <2>1 DEF DocInv, CallsHold, CallHolds, Holding
  <2>3. /\ outcome[c] = NoOutcome
        /\ outcome' = [outcome EXCEPT ![c] = [req |-> r, number |-> nextSeq[r.series]]]
        /\ outcome'[c] # NoOutcome
        /\ outcome'[c].req = r /\ outcome'[c].number = nextSeq[r.series]
        /\ nextSeq' \in [Series -> Nat \ {0}] /\ DOMAIN outcome' = Txn
    BY <2>1, <2>2, NumberIsRecorded DEF DocInv
  <2>4. \A u \in Txn \ {c} : outcome'[u] = outcome[u]
    BY <2>3
  <2>5. \A d \in Doc : \A b \in PostingsOf(d) : b \in PostingsOf(d)' /\ outcome'[b] = outcome[b]
    BY <2>3, PostingsStay
  <2> QED BY <2>1, <2>3, <2>4, <2>5, MarkKeeps
<1>11. CASE UNCHANGED vars
  <2>1. UNCHANGED <<nextSeq, outcome, doc, call>>
    BY <1>11 DEF vars, ledgerVars
  <2>2. CallsHold'
    BY <2>1, CallStays DEF CallsHold
  <2> QED BY <2>1, <2>2, <1>a, HeadersStay
<1> QED
  BY <1>1, <1>2, <1>3, <1>4, <1>5, <1>6, <1>7, <1>8, <1>9, <1>10, <1>11 DEF Next, Handle

(* The inductive invariant holds in every state.                           *)
THEOREM DocumentsCorrect == Spec => []DocInv
  BY InitDoc, NextDoc, PTL DEF Spec

(* A posted or reversed document bears the number of a posting of its own, *)
(* whatever overlaps, fails or is deleted (document_posting.go:43-171).    *)
THEOREM PostedStaysBacked == Spec => []PostedIsBacked
<1>1. DocInv => PostedIsBacked
  BY DEF DocInv
<1> QED BY <1>1, DocumentsCorrect, PTL

(* A reversed document and its posted reversal refer to each other for     *)
(* good (documents.sql:115-124, migration 0300).                           *)
THEOREM ReversedStaysLinked == Spec => []ReversedHasReversal
<1>1. DocInv => ReversedHasReversal
  BY DEF DocInv
<1> QED BY <1>1, DocumentsCorrect, PTL

(***************************************************************************)
(* 2. Documents that calls have in hand one after another.  A document     *)
(* that two calls have in hand at once is crossed (Met); on any other the  *)
(* status that a call's first transaction read still holds in its later    *)
(* ones (CallOK), and its postings are those of the call at its mark, or   *)
(* one (Booked).  Each number is some posting's (Numbered).                *)
(***************************************************************************)
CallOK(c) ==
  /\ call[c].pc \in {"idle", "updating", "deleting", "rechecking", "posting", "marking",
                     "numbering", "done", "failed"}
  /\ Active(c) =>
       /\ call[c].doc \in Doc /\ call[c].subject \in Doc
       /\ doc[call[c].doc].status # "none" /\ doc[call[c].subject].status # "none"
       /\ call[c].subject \notin crossed => doc[call[c].subject].status = "draft"
       /\ call[c].doc # call[c].subject /\ call[c].doc \notin crossed =>
            doc[call[c].doc].status = "posted"
       /\ call[c].pc \in {"updating", "deleting"} => call[c].doc = call[c].subject
  /\ (Active(c) /\ call[c].pc # "marking") \/ call[c].pc = "idle" => outcome[c] = NoOutcome
  /\ outcome[c] # NoOutcome =>
       /\ call[c].subject \in Doc /\ doc[call[c].subject].status # "none"
       /\ outcome[c].req.doc = call[c].subject
       /\ call[c].pc = "done" /\ call[c].subject \notin crossed =>
            /\ Final(call[c].subject) /\ doc[call[c].subject].number = outcome[c].number
            /\ doc[call[c].subject].kind = outcome[c].req.series

Met ==
  \A c, u \in Txn : c # u /\ Active(c) /\ Active(u) =>
    {call[c].doc, call[c].subject} \cap {call[u].doc, call[u].subject} \subseteq crossed

(* A call on d was cut off between its posting and its mark.               *)
CutOff(d) ==
  \E c \in Txn : call[c].subject = d /\ call[c].pc = "failed" /\ outcome[c] # NoOutcome

Booked(d) ==
  Exists(d) /\ ~CutOff(d) /\ d \notin crossed =>
    IF Final(d) THEN \E c \in Txn : PostingsOf(d) = {c}
                ELSE \A c \in PostingsOf(d) : call[c].pc = "marking"

Numbered ==
  \A s \in Series : \A n \in 1..(nextSeq[s] - 1) :
    \E c \in Txn : outcome[c] # NoOutcome /\ outcome[c].req.series = s /\ outcome[c].number = n

Steady ==
  /\ \A c \in Txn : CallOK(c)
  /\ Met
  /\ \A d \in Doc : Booked(d)
  /\ Numbered

SteadyInv == DocInv /\ Steady

-----------------------------------------------------------------------------
(* What no step takes back: a document that was entered never vanishes     *)
(* altogether, and one that is posted keeps what it says, unless it is     *)
(* crossed.                                                                *)
Lasts(d) ==
  /\ doc[d].status # "none" => doc'[d].status # "none"
  /\ Final(d) /\ d \notin crossed' =>
       /\ Final(d)'
       /\ \A f \in {"kind", "from", "to", "date", "lines", "number"} : doc'[d][f] = doc[d][f]

(* A call that does not move, on documents that keep their status.         *)
LEMMA CallIsKept ==
  ASSUME NEW u \in Txn, CallOK(u), call'[u] = call[u], outcome'[u] = outcome[u],
         \A d \in Doc : Lasts(d), crossed \subseteq crossed',
         Active(u) => \A d \in {call[u].doc, call[u].subject} \ crossed' :
                        doc'[d].status = doc[d].status
  PROVE  CallOK(u)'
<1>1. \A d \in Doc : Final(d) /\ d \notin crossed' =>
        doc'[d].number = doc[d].number /\ doc'[d].kind = doc[d].kind
  BY DEF Lasts
<1> QED
  BY <1>1 DEF CallOK, Active, Lasts

(* A document that keeps its status, or is gone, while postings come to    *)
(* none and no call on it that was cut off is forgotten.                   *)
LEMMA BookingIsKept ==
  ASSUME NEW d \in Doc, Booked(d), outcome' = outcome, crossed \subseteq crossed',
         doc'[d].status = doc[d].status \/ ~Exists(d)',
         \A c \in Txn : call[c].pc \in {"marking", "failed"} /\ outcome[c] # NoOutcome =>
           call'[c].pc \in {call[c].pc, "failed"} /\ call'[c].subject = call[c].subject,
         \A c \in PostingsOf(d) : call[c].subject = d
  PROVE  Booked(d)'
<1>1. PostingsOf(d)' = PostingsOf(d) /\ \A c \in PostingsOf(d) : c \in Txn /\ outcome[c] # NoOutcome
  BY DEF PostingsOf
<1>2. CutOff(d) => CutOff(d)'
  BY DEF CutOff
<1>3. ASSUME Exists(d)', ~CutOff(d)', d \notin crossed', Final(d)
      PROVE  \E c \in Txn : PostingsOf(d)' = {c}
  BY <1>1, <1>2, <1>3 DEF Booked, Exists, Final
<1>4. ASSUME Exists(d)', ~CutOff(d)', d \notin crossed', ~Final(d), NEW c \in PostingsOf(d)
      PROVE  call'[c].pc = "marking"
  BY <1>1, <1>2, <1>4 DEF Booked, CutOff, Exists, Final
<1> QED
  BY <1>1, <1>3, <1>4 DEF Booked, Exists, Final

(* A document that is not there has no postings.                           *)
LEMMA NoPostings ==
  ASSUME SteadyInv, NEW d \in Doc, doc[d].status = "none"
  PROVE  PostingsOf(d) = {}
BY DEF SteadyInv, Steady, CallOK, PostingsOf

(* A posting of a document is that of a call on it.                        *)
LEMMA PostingsAreOfCalls ==
  ASSUME SteadyInv, NEW d
  PROVE  \A c \in PostingsOf(d) : call[c].subject = d /\ c \in Txn
BY DEF SteadyInv, Steady, CallOK, PostingsOf

-----------------------------------------------------------------------------
LEMMA InitSteady == Init => SteadyInv
<1> SUFFICES ASSUME Init PROVE SteadyInv
  OBVIOUS
<1>1. DocInv
  BY InitDoc
<1>2. /\ nextSeq = [s \in Series |-> 1] /\ outcome = [t \in Txn |-> NoOutcome]
      /\ doc = [d \in Doc |-> Absent] /\ call = [c \in Txn |-> NoCall]
  BY DEF Init, Ledger!Init, Ledger!NoOutcome, NoOutcome
<1>3. \A c \in Txn : call[c].pc = "idle" /\ ~Active(c) /\ outcome[c] = NoOutcome
  BY <1>2 DEF NoCall, Active
<1>4. \A d \in Doc : ~Exists(d)
  BY <1>2 DEF Absent, Exists
<1>5. (\A c \in Txn : CallOK(c)) /\ Met
  BY <1>3 DEF CallOK, Met
<1>6. \A d \in Doc : Booked(d)
  BY <1>4 DEF Booked
<1>7. Numbered
  BY <1>2 DEF Numbered
<1> QED
  BY <1>1, <1>5, <1>6, <1>7 DEF SteadyInv, Steady

(* A call that begins: the documents it meets other calls on are crossed.  *)
LEMMA CallBeginsMet ==
  ASSUME SteadyInv, NEW c \in Txn, call[c].pc = "idle",
         NEW pc \in {"updating", "deleting", "rechecking", "posting", "numbering"},
         NEW op, NEW d \in Doc, NEW s \in Doc, NEW r, Unanswered(c, pc, op, d, s, r),
         UNCHANGED <<outcome, nextSeq>>,
         \A e \in Doc : Lasts(e),
         \A e \in Doc : doc'[e].status = doc[e].status \/ (e = s /\ d # s /\ doc[s].status = "none"),
         doc'[s].status = "draft", d # s => doc'[d].status = "posted",
         pc \in {"updating", "deleting"} => d = s
  PROVE  Steady'
<1>1. /\ call'[c].pc = pc /\ call'[c].doc = d /\ call'[c].subject = s
      /\ \A u \in Txn \ {c} : call'[u] = call[u]
  BY CallBegins DEF SteadyInv
<1>a. /\ crossed \subseteq crossed'
      /\ \A u \in Txn, e \in {d, s} :
           Active(u) /\ e \in {call[u].doc, call[u].subject} => e \in crossed'
  BY DEF Unanswered, InHand
<1>2. outcome[c] = NoOutcome
  BY DEF SteadyInv, Steady, CallOK
<1>3. CallOK(c)'
  BY <1>1, <1>2 DEF CallOK, Active
<1>4. ASSUME NEW u \in Txn \ {c}
      PROVE  CallOK(u)'
  <2>1. CallOK(u) /\ call'[u] = call[u]
    BY <1>1 DEF SteadyInv, Steady
  <2>2. Active(u) => \A e \in {call[u].doc, call[u].subject} : e \in Doc /\ doc[e].status # "none"
    BY <2>1 DEF CallOK
  <2>3. Active(u) => \A e \in {call[u].doc, call[u].subject} \ crossed' :
                       doc'[e].status = doc[e].status
    BY <2>2
  <2> QED
    BY <1>a, <2>1, <2>3, CallIsKept
<1>5. Met'
  <2> SUFFICES ASSUME NEW x \in Txn, NEW y \in Txn, x # y, Active(x)', Active(y)',
                      NEW e, e \in {call'[x].doc, call'[x].subject},
                      e \in {call'[y].doc, call'[y].subject}
               PROVE  e \in crossed'
    BY DEF Met
  <2>1. \A u \in Txn \ {c} : Active(u)' => Active(u)
    BY <1>1 DEF Active
  <2>2. CASE x = c
    BY <1>1, <1>a, <2>1, <2>2
  <2>3. CASE y = c
    BY <1>1, <1>a, <2>1, <2>3
  <2>4. CASE x # c /\ y # c
    BY <1>1, <1>a, <2>1, <2>4 DEF SteadyInv, Steady, Met
  <2> QED
    BY <2>2, <2>3, <2>4
<1>6. ASSUME NEW e \in Doc
      PROVE  Booked(e)'
  <2>1. CASE doc'[e].status = doc[e].status
    <3>1. \A u \in Txn : call[u].pc \in {"marking", "failed"} => call'[u] = call[u]
      BY <1>1
    <3> QED
      BY <1>a, <2>1, <3>1, BookingIsKept, PostingsAreOfCalls DEF SteadyInv, Steady
  <2>2. CASE e = s /\ doc[s].status = "none"
    <3>1. PostingsOf(e)' = {}
      BY <2>2, NoPostings DEF PostingsOf
    <3> QED
      BY <2>2, <3>1 DEF Booked, Final
  <2> QED
    BY <2>1, <2>2
<1>7. Numbered'
  BY DEF SteadyInv, Steady, Numbered
<1> QED
  BY <1>3, <1>4, <1>5, <1>6, <1>7 DEF Steady

(* A call that goes on, or ends, without a posting and a mark.             *)
LEMMA CallGoesOn ==
  ASSUME SteadyInv, NEW c \in Txn, Active(c), NEW pc, GoTo(c, pc),
         \/ pc = "failed"
         \/ pc = "posting" /\ call[c].pc = "rechecking"
         \/ pc = "done" /\ call[c].pc \in {"updating", "deleting"},
         UNCHANGED <<outcome, nextSeq>>,
         \A e \in Doc : Lasts(e),
         \A e \in Doc : doc'[e].status = doc[e].status
                        \/ (e = call[c].subject /\ pc = "done" /\ doc'[e].status = "deleted")
  PROVE  Steady'
<1>1. \A u \in Txn : /\ call'[u].pc = (IF u = c THEN pc ELSE call[u].pc)
                     /\ call'[u].doc = call[u].doc /\ call'[u].subject = call[u].subject
                     /\ call'[u].req = call[u].req
  BY CallMovesOn DEF SteadyInv
<1>a. crossed' = crossed
  BY DEF GoTo
<1>2. \A u \in Txn : CallOK(u)
  BY DEF SteadyInv, Steady
<1>3. ASSUME NEW u \in Txn \ {c}
      PROVE  CallOK(u)'
  <2>1. call'[u] = call[u]
    BY DEF GoTo, SteadyInv, DocInv, Shape
  <2>2. Active(u) => \A e \in {call[u].doc, call[u].subject} \ crossed :
                       e \in Doc /\ e # call[c].subject
    BY <1>2 DEF SteadyInv, Steady, Met, CallOK
  <2> QED
    BY <1>2, <1>a, <2>1, <2>2, CallIsKept
<1>4. CallOK(c)'
  <2>1. call[c].subject \in Doc /\ call[c].doc \in Doc
    BY <1>2 DEF CallOK
  <2>2. CASE pc = "failed"
    BY <1>1, <1>2, <1>a, <2>1, <2>2 DEF CallOK, Active, Lasts
  <2>3. CASE pc = "posting" /\ call[c].pc = "rechecking"
    BY <1>1, <1>2, <1>a, <2>1, <2>3 DEF CallOK, Active, Lasts
  <2>4. CASE pc = "done" /\ call[c].pc \in {"updating", "deleting"}
    BY <1>1, <1>2, <1>a, <2>1, <2>4 DEF CallOK, Active, Lasts
  <2> QED
    BY <2>2, <2>3, <2>4
<1>5. Met'
  <2>1. \A u \in Txn : Active(u)' => Active(u)
    BY <1>1 DEF Active
  <2> QED
    BY <1>1, <1>a, <2>1 DEF SteadyInv, Steady, Met
<1>6. \A e \in Doc : Booked(e)'
  <2>1. \A u \in Txn : call[u].pc \in {"marking", "failed"} =>
          call'[u].pc \in {call[u].pc, "failed"} /\ call'[u].subject = call[u].subject
    BY <1>1
  <2>2. \A e \in Doc : doc'[e].status = doc[e].status \/ ~Exists(e)'
    BY DEF Exists
  <2> QED
    BY <1>a, <2>1, <2>2, BookingIsKept, PostingsAreOfCalls DEF SteadyInv, Steady
<1>7. Numbered'
  BY DEF SteadyInv, Steady, Numbered
<1> QED
  BY <1>3, <1>4, <1>5, <1>6, <1>7 DEF Steady

-----------------------------------------------------------------------------
(* The ledger: a number that is handed out is some posting's.              *)
LEMMA NumberedStays ==
  ASSUME SteadyInv, NEW c \in Txn, NEW r, r.series \in Series, Ledger!Number(c, r)
  PROVE  /\ outcome[c] = NoOutcome /\ outcome'[c] # NoOutcome
         /\ outcome'[c].req = r /\ outcome'[c].number = nextSeq[r.series]
         /\ \A u \in Txn \ {c} : outcome'[u] = outcome[u]
         /\ Numbered'
<1>1. /\ outcome[c] = NoOutcome /\ outcome'[c] # NoOutcome
      /\ outcome'[c].req = r /\ outcome'[c].number = nextSeq[r.series]
      /\ outcome' = [outcome EXCEPT ![c] = [req |-> r, number |-> nextSeq[r.series]]]
  BY NumberIsRecorded DEF SteadyInv, DocInv
<1>2. \A u \in Txn \ {c} : outcome'[u] = outcome[u]
  BY <1>1
<1>3. /\ nextSeq' = [nextSeq EXCEPT ![r.series] = @ + 1]
      /\ nextSeq \in [Series -> Nat \ {0}]
  BY DEF Ledger!Number, SteadyInv, DocInv, Shape
<1>4. Numbered'
  <2> SUFFICES ASSUME NEW s \in Series, NEW n \in 1..(nextSeq'[s] - 1)
               PROVE  \E u \in Txn : /\ outcome'[u] # NoOutcome /\ outcome'[u].req.series = s
                                     /\ outcome'[u].number = n
    BY DEF Numbered
  <2>1. CASE s = r.series /\ n = nextSeq[s]
    BY <1>1, <2>1
  <2>2. CASE ~(s = r.series /\ n = nextSeq[s])
    <3>1. n \in 1..(nextSeq[s] - 1)
      BY <1>3, <2>2
    <3>2. PICK u \in Txn : outcome[u] # NoOutcome /\ outcome[u].req.series = s /\ outcome[u].number = n
      BY <3>1 DEF SteadyInv, Steady, Numbered
    <3> QED
      BY <1>1, <1>2, <3>2
  <2> QED
    BY <2>1, <2>2
<1> QED
  BY <1>1, <1>2, <1>4

(* The posting is in the ledger, its call comes to the mark.               *)
LEMMA PostToLedgerSteady ==
  ASSUME SteadyInv, NEW c \in Txn, PostToLedger(c)
  PROVE  Steady' /\ \A d \in Doc : Lasts(d)
<1> DEFINE s == call[c].subject
<1>1. /\ call[c].pc = "posting" /\ Active(c) /\ Ledger!Number(c, call[c].req) /\ GoTo(c, "marking")
      /\ doc' = doc /\ crossed' = crossed
  BY DEF PostToLedger, Ledger!Post, Active, GoTo
<1>2. /\ call[c].req.series \in Series /\ call[c].req.doc = s
      /\ s \in Doc /\ doc[s].status # "none"
      /\ s \notin crossed => doc[s].status = "draft"
  BY <1>1 DEF SteadyInv, DocInv, CallsHold, CallHolds, Holding, Steady, CallOK
<1>3. /\ outcome[c] = NoOutcome /\ outcome'[c] # NoOutcome /\ outcome'[c].req = call[c].req
      /\ \A u \in Txn \ {c} : outcome'[u] = outcome[u]
      /\ Numbered'
  BY <1>1, <1>2, NumberedStays
<1>4. \A u \in Txn : /\ call'[u].pc = (IF u = c THEN "marking" ELSE call[u].pc)
                     /\ call'[u].doc = call[u].doc /\ call'[u].subject = call[u].subject
                     /\ call'[u].req = call[u].req
  BY <1>1, CallMovesOn DEF SteadyInv
<1>5. \A d \in Doc : Lasts(d)
  BY <1>1 DEF Lasts, Final
<1>6. \A u \in Txn : CallOK(u)'
  <2>1. \A u \in Txn : CallOK(u)
    BY DEF SteadyInv, Steady
  <2>2. CallOK(c)'
    BY <1>1, <1>2, <1>3, <1>4, <2>1 DEF CallOK, Active
  <2>3. ASSUME NEW u \in Txn \ {c}
        PROVE  CallOK(u)'
    BY <1>1, <1>3, <1>4, <2>1 DEF CallOK, Active, Final
  <2> QED
    BY <2>2, <2>3
<1>7. Met'
  <2>1. \A u \in Txn : Active(u)' => Active(u)
    BY <1>1, <1>4 DEF Active
  <2> QED
    BY <1>1, <1>4, <2>1 DEF SteadyInv, Steady, Met
<1>8. ASSUME NEW d \in Doc
      PROVE  Booked(d)'
  <2>1. \A u \in Txn \ {c} : u \in PostingsOf(d)' <=> u \in PostingsOf(d)
    BY <1>3 DEF PostingsOf
  <2>2. c \in PostingsOf(d)' <=> d = s
    BY <1>2, <1>3 DEF PostingsOf
  <2>3. c \notin PostingsOf(d)
    BY <1>3 DEF PostingsOf
  <2>4. CutOff(d) => CutOff(d)'
    BY <1>1, <1>3, <1>4 DEF CutOff
  <2>5. CASE d # s
    <3>1. PostingsOf(d)' = PostingsOf(d)
      BY <2>1, <2>2, <2>3, <2>5 DEF PostingsOf
    <3> QED
      BY <1>1, <1>4, <2>4, <3>1 DEF SteadyInv, Steady, Booked, Exists, Final, PostingsOf
  <2>6. CASE d = s /\ d \in crossed
    BY <1>1, <2>6 DEF Booked
  <2>7. CASE d = s /\ d \notin crossed
    <3>1. ~Final(d)' /\ Exists(d)
      BY <1>1, <1>2, <2>7 DEF Final, Exists
    <3>2. ~CutOff(d) => \A u \in PostingsOf(d) : call[u].pc = "marking"
      BY <1>1, <2>7, <3>1 DEF SteadyInv, Steady, Booked, Final
    <3>3. ~CutOff(d) => \A u \in PostingsOf(d)' : call'[u].pc = "marking"
      BY <1>4, <2>1, <2>3, <3>2 DEF PostingsOf
    <3> QED
      BY <2>4, <3>1, <3>3 DEF Booked
  <2> QED
    BY <2>5, <2>6, <2>7
<1> QED
  BY <1>3, <1>5, <1>6, <1>7, <1>8 DEF Steady

(* What the mark of a posting makes of the documents.                      *)
LEMMA MarkedDocuments ==
  ASSUME SteadyInv, NEW c \in Txn, call[c].pc \in {"marking", "numbering"}, NEW n,
         Exists(call[c].subject), doc' = Marked(c, n)
  PROVE  LET s == call[c].subject
             o == call[c].doc
         IN  /\ s \in Doc /\ o \in Doc
             /\ s \notin crossed => doc[s].status = "draft"
             /\ doc'[s].status = "posted" /\ doc'[s].number = n /\ doc'[s].kind = doc[s].kind
             /\ o # s => doc'[o].status \in {doc[o].status, "reversed"} /\ doc'[o].status # "none"
             /\ o # s /\ o \notin crossed => doc[o].status = "posted" /\ doc'[o].status = "reversed"
             /\ \A d \in Doc \ {s, o} : doc'[d] = doc[d]
             /\ \A d \in Doc \ {s} : \A f \in {"kind", "from", "to", "date", "lines", "number"} :
                  doc'[d][f] = doc[d][f]
<1> DEFINE s == call[c].subject
           o == call[c].doc
<1>1. /\ s \in Doc /\ o \in Doc /\ doc[o].status # "none"
      /\ s \notin crossed => doc[s].status = "draft"
      /\ o # s /\ o \notin crossed => doc[o].status = "posted"
  BY DEF SteadyInv, Steady, CallOK, Active
<1>2. \A d \in Doc : DOMAIN doc[d] = DOMAIN Absent
  BY DEF SteadyInv, DocInv, Shape
<1>3. \A d \in Doc : doc'[d] =
        CASE d = s -> [doc[d] EXCEPT !.status = "posted", !.number = n]
          [] d = o /\ d # s /\ Exists(d) -> [doc[d] EXCEPT !.status = "reversed", !.reversedBy = s]
          [] OTHER -> doc[d]
  BY DEF Marked
<1>4. doc'[s] = [doc[s] EXCEPT !.status = "posted", !.number = n]
  BY <1>1, <1>3
<1>5. o # s => doc'[o] = IF Exists(o) THEN [doc[o] EXCEPT !.status = "reversed", !.reversedBy = s]
                         ELSE doc[o]
  BY <1>1, <1>3
<1>6. \A d \in Doc \ {s, o} : doc'[d] = doc[d]
  BY <1>3
<1>7. doc'[s].status = "posted" /\ doc'[s].number = n /\ doc'[s].kind = doc[s].kind
  BY <1>1, <1>2, <1>4 DEF Absent
<1>8. o # s => /\ doc'[o].status = IF Exists(o) THEN "reversed" ELSE doc[o].status
               /\ \A f \in {"kind", "from", "to", "date", "lines", "number"} : doc'[o][f] = doc[o][f]
  <2>1. CASE Exists(o)
    BY <1>1, <1>2, <1>5, <2>1 DEF Absent
  <2>2. CASE ~Exists(o)
    BY <1>5, <2>2
  <2> QED
    BY <2>1, <2>2
<1>9. o # s /\ o \notin crossed => doc'[o].status = "reversed"
  BY <1>1, <1>8 DEF Exists
<1> QED
  BY <1>1, <1>6, <1>7, <1>8, <1>9

(* The mark: the posting's number on its document.                         *)
LEMMA MarkSteady ==
  ASSUME SteadyInv, NEW c \in Txn, call[c].pc \in {"marking", "numbering"}, NEW n,
         Exists(call[c].subject), doc' = Marked(c, n), GoTo(c, "done"),
         \A u \in Txn \ {c} : outcome'[u] = outcome[u],
         outcome'[c] # NoOutcome, outcome'[c].req = call[c].req, outcome'[c].number = n,
         call[c].pc = "marking" => outcome[c] # NoOutcome /\ outcome[c].req = call[c].req,
         Numbered'
  PROVE  Steady' /\ \A d \in Doc : Lasts(d)
<1> DEFINE s == call[c].subject
           o == call[c].doc
<1>1. /\ s \in Doc /\ o \in Doc
      /\ s \notin crossed => doc[s].status = "draft"
      /\ doc'[s].status = "posted" /\ doc'[s].number = n /\ doc'[s].kind = doc[s].kind
      /\ o # s => doc'[o].status \in {doc[o].status, "reversed"} /\ doc'[o].status # "none"
      /\ o # s /\ o \notin crossed => doc[o].status = "posted" /\ doc'[o].status = "reversed"
      /\ \A d \in Doc \ {s, o} : doc'[d] = doc[d]
      /\ \A d \in Doc \ {s} : \A f \in {"kind", "from", "to", "date", "lines", "number"} :
           doc'[d][f] = doc[d][f]
  BY MarkedDocuments
<1>a. crossed' = crossed
  BY DEF GoTo
<1>2. call[c].req.doc = s /\ call[c].req.series = doc[s].kind /\ Active(c)
  BY <1>1 DEF SteadyInv, DocInv, CallsHold, CallHolds, Holding, Active
<1>3. \A u \in Txn : /\ call'[u].pc = (IF u = c THEN "done" ELSE call[u].pc)
                     /\ call'[u].doc = call[u].doc /\ call'[u].subject = call[u].subject
                     /\ call'[u].req = call[u].req
  BY CallMovesOn DEF SteadyInv
<1>4. \A d \in Doc : Lasts(d)
  <2>1. Lasts(s)
    BY <1>1, <1>a DEF Lasts, Final
  <2>2. ASSUME NEW d \in Doc \ {s}
        PROVE  Lasts(d)
    <3>1. CASE d = o
      BY <1>1, <1>a, <2>2, <3>1 DEF Lasts, Final
    <3>2. CASE d # o
      BY <1>1, <2>2, <3>2 DEF Lasts, Final
    <3> QED
      BY <3>1, <3>2
  <2> QED
    BY <2>1, <2>2
<1>5. \A u \in Txn : CallOK(u)
  BY DEF SteadyInv, Steady
<1>6. ASSUME NEW u \in Txn \ {c}
      PROVE  CallOK(u)'
  <2>1. call'[u] = call[u] /\ outcome'[u] = outcome[u]
    BY DEF GoTo, SteadyInv, DocInv, Shape
  <2>2. Active(u) => \A d \in {call[u].doc, call[u].subject} \ crossed : d \in Doc \ {s, o}
    <3> SUFFICES ASSUME Active(u), NEW d \in {call[u].doc, call[u].subject} \ crossed
                 PROVE  d \in Doc \ {s, o}
      OBVIOUS
    <3>1. call[u].doc \in Doc /\ call[u].subject \in Doc
      BY <1>5 DEF CallOK
    <3>2. d \notin {o, s}
      BY <1>2 DEF SteadyInv, Steady, Met
    <3> QED
      BY <3>1, <3>2
  <2>3. Active(u) => \A d \in {call[u].doc, call[u].subject} \ crossed :
                       doc'[d].status = doc[d].status
    BY <1>1, <2>2
  <2> QED
    BY <1>4, <1>5, <1>a, <2>1, <2>3, CallIsKept
<1>7. CallOK(c)'
  BY <1>1, <1>2, <1>3 DEF CallOK, Active, Final
<1>8. Met'
  <2>1. \A u \in Txn : Active(u)' => Active(u)
    BY <1>3 DEF Active
  <2> QED
    BY <1>3, <1>a, <2>1 DEF SteadyInv, Steady, Met
<1>9. ASSUME NEW d \in Doc, d \notin crossed
      PROVE  Booked(d)'
  <2>1. \A u \in Txn \ {c} : u \in PostingsOf(d)' <=> u \in PostingsOf(d)
    BY DEF PostingsOf
  <2>2. c \in PostingsOf(d)' <=> d = s
    BY <1>2 DEF PostingsOf
  <2>3. CutOff(d) => CutOff(d)'
    <3>1. ASSUME NEW u \in Txn, call[u].subject = d, call[u].pc = "failed", outcome[u] # NoOutcome
          PROVE  CutOff(d)'
      <4>1. u # c
        BY <3>1
      <4> QED
        BY <1>3, <3>1, <4>1 DEF CutOff
    <3> QED
      BY <3>1 DEF CutOff
  <2>4. CASE d = s
    <3>1. ~CutOff(d) => \A u \in PostingsOf(d) : u = c
      <4>1. ~CutOff(d) => \A u \in PostingsOf(d) : call[u].pc = "marking"
        BY <1>1, <1>9, <2>4 DEF SteadyInv, Steady, Booked, Exists, Final
      <4>2. \A u \in PostingsOf(d) : u \in Txn /\ call[u].subject = s
        BY <2>4, PostingsAreOfCalls
      <4>3. \A u \in Txn : call[u].pc = "marking" /\ call[u].subject = s => u = c
        BY <1>2, <1>9, <2>4 DEF SteadyInv, Steady, Met, Active
      <4> QED
        BY <4>1, <4>2, <4>3
    <3>2. ~CutOff(d) => PostingsOf(d)' = {c}
      BY <2>1, <2>2, <2>4, <3>1 DEF PostingsOf
    <3>3. Final(d)'
      BY <1>1, <2>4 DEF Final
    <3> QED
      BY <2>3, <3>2, <3>3 DEF Booked
  <2>5. CASE d # s
    <3>1. c \notin PostingsOf(d)
      BY <2>5, PostingsAreOfCalls
    <3>2. PostingsOf(d)' = PostingsOf(d) /\ \A u \in PostingsOf(d) : u \in Txn \ {c}
      BY <2>1, <2>2, <2>5, <3>1 DEF PostingsOf
    <3>3. (Exists(d)' => Exists(d)) /\ (Final(d)' <=> Final(d))
      <4>1. CASE d = o
        BY <1>1, <1>9, <2>5, <4>1 DEF Exists, Final
      <4>2. CASE d # o
        BY <1>1, <2>5, <4>2 DEF Exists, Final
      <4> QED
        BY <4>1, <4>2
    <3> QED
      BY <1>3, <1>a, <2>3, <3>2, <3>3 DEF SteadyInv, Steady, Booked
  <2> QED
    BY <2>4, <2>5
<1>10. \A d \in Doc : Booked(d)'
  BY <1>9, <1>a DEF Booked
<1> QED
  BY <1>4, <1>6, <1>7, <1>8, <1>10 DEF Steady

-----------------------------------------------------------------------------
(* Every step.                                                             *)
LEMMA StepSteady ==
  ASSUME SteadyInv, [Next]_vars
  PROVE  SteadyInv' /\ \A d \in Doc : Lasts(d)
<1> SUFFICES Steady' /\ \A d \in Doc : Lasts(d)
  BY NextDoc DEF SteadyInv
<1>a. /\ DOMAIN doc = Doc /\ DOMAIN call = Txn
      /\ \A d \in Doc : DOMAIN doc[d] = DOMAIN Absent /\ doc[d].status \in Status
  BY DEF SteadyInv, DocInv, Shape
<1>b. ASSUME UNCHANGED doc
      PROVE  \A d \in Doc : Lasts(d)
  BY <1>b DEF Lasts, Final
<1>c. ASSUME NEW v \in Doc, doc[v].status = "none", NEW input, NEW lines, NEW o,
             doc' = [doc EXCEPT ![v] = Draft(input, lines, o)]
      PROVE  /\ doc'[v].status = "draft" /\ \A d \in Doc \ {v} : doc'[d] = doc[d]
             /\ \A d \in Doc : Lasts(d)
  <2>1. doc'[v].status = "draft" /\ \A d \in Doc \ {v} : doc'[d] = doc[d]
    BY <1>a, <1>c DEF Draft
  <2> QED
    BY <1>c, <2>1 DEF Lasts, Final
<1>1. ASSUME NEW d \in Doc, NEW input \in Inputs, Create(d, input)
      PROVE  Steady' /\ \A e \in Doc : Lasts(e)
  <2>1. /\ doc[d].status = "none" /\ UNCHANGED <<nextSeq, outcome, call, crossed>>
        /\ doc' = [doc EXCEPT ![d] = Draft(input, StoredLines(input), None)]
    BY <1>1 DEF Create, ledgerVars
  <2>2. /\ doc'[d].status = "draft" /\ \A e \in Doc \ {d} : doc'[e] = doc[e]
        /\ \A e \in Doc : Lasts(e)
    BY <1>c, <2>1
  <2>3. \A u \in Txn : CallOK(u)'
    <3>1. \A u \in Txn : Active(u) => d \notin {call[u].doc, call[u].subject}
                                       /\ call[u].doc \in Doc /\ call[u].subject \in Doc
      BY <2>1 DEF SteadyInv, Steady, CallOK
    <3> QED
      BY <2>1, <2>2, <3>1, CallIsKept DEF SteadyInv, Steady
  <2>4. Met'
    BY <2>1 DEF SteadyInv, Steady, Met, Active
  <2>5. \A e \in Doc : Booked(e)'
    <3>1. PostingsOf(d)' = {} /\ ~Final(d)'
      BY <2>1, <2>2, NoPostings DEF PostingsOf, Final
    <3>2. Booked(d)'
      BY <3>1 DEF Booked
    <3>3. ASSUME NEW e \in Doc \ {d}
          PROVE  Booked(e)'
      BY <2>1, <2>2, BookingIsKept, PostingsAreOfCalls DEF SteadyInv, Steady
    <3> QED
      BY <3>2, <3>3
  <2>6. Numbered'
    BY <2>1 DEF SteadyInv, Steady, Numbered
  <2> QED
    BY <2>2, <2>3, <2>4, <2>5, <2>6 DEF Steady
<1>2. ASSUME NEW c \in Txn, NEW d \in Doc, BeginUpdate(c, d) \/ BeginDelete(c, d)
      PROVE  Steady' /\ \A e \in Doc : Lasts(e)
  <2>1. /\ UNCHANGED <<nextSeq, outcome, doc>> /\ Starts(c, d) /\ doc[d].status = "draft"
    BY <1>2 DEF BeginUpdate, BeginDelete, ledgerVars
  <2>2. PICK pc \in {"updating", "deleting"}, op \in {"update", "delete"} :
          Unanswered(c, pc, op, d, d, None)
    BY <1>2 DEF BeginUpdate, BeginDelete
  <2> QED
    BY <1>b, <2>1, <2>2, CallBeginsMet DEF Starts
<1>3. ASSUME NEW c \in Txn, NEW d \in Doc, BeginPost(c, d)
      PROVE  Steady' /\ \A e \in Doc : Lasts(e)
  <2> DEFINE req == PostingRequest(d, doc[d], FALSE)
  <2>1. /\ UNCHANGED <<nextSeq, outcome>> /\ Starts(c, d) /\ doc[d].status = "draft"
        /\ \E pc \in {"numbering", "rechecking", "posting"} : Unanswered(c, pc, "post", d, d, req)
    BY <1>3 DEF BeginPost, ledgerVars
  <2> HIDE DEF req
  <2>2. PICK pc \in {"numbering", "rechecking", "posting"} : Unanswered(c, pc, "post", d, d, req)
    BY <2>1
  <2>3. doc'[d].status = doc[d].status /\ \A e \in Doc \ {d} : doc'[e] = doc[e]
    BY <1>3, <1>a DEF BeginPost, Absent
  <2>4. \A e \in Doc : Lasts(e)
    BY <2>1, <2>3 DEF Lasts, Final
  <2> QED
    BY <2>1, <2>2, <2>3, <2>4, CallBeginsMet DEF Starts
<1>4. ASSUME NEW c \in Txn, NEW d \in Doc, NEW v \in Doc, BeginReverse(c, d, v)
      PROVE  Steady' /\ \A e \in Doc : Lasts(e)
  <2> DEFINE req == PostingRequest(v, doc[d], TRUE)
  <2>1. /\ UNCHANGED <<nextSeq, outcome>> /\ Starts(c, d) /\ doc[d].status = "posted"
        /\ doc[v].status = "none" /\ doc' = [doc EXCEPT ![v] = Draft(doc[d], doc[d].lines, d)]
        /\ \E pc \in {"numbering", "posting"} : Unanswered(c, pc, "reverse", d, v, req)
    BY <1>4 DEF BeginReverse, ledgerVars
  <2> HIDE DEF req
  <2>2. PICK pc \in {"numbering", "posting"} : Unanswered(c, pc, "reverse", d, v, req)
    BY <2>1
  <2>3. /\ doc'[v].status = "draft" /\ \A e \in Doc \ {v} : doc'[e] = doc[e]
        /\ \A e \in Doc : Lasts(e)
    BY <1>c, <2>1
  <2>4. d # v /\ doc'[d].status = "posted"
    BY <2>1, <2>3
  <2> QED
    BY <2>1, <2>2, <2>3, <2>4, CallBeginsMet DEF Starts
<1>5. ASSUME NEW c \in Txn, NEW input \in Inputs, FinishUpdate(c, input)
      PROVE  Steady' /\ \A e \in Doc : Lasts(e)
  <2>1. /\ call[c].pc = "updating" /\ Active(c) /\ GoTo(c, "done") /\ UNCHANGED <<nextSeq, outcome>>
        /\ call[c].doc \in Doc /\ crossed' = crossed
        /\ call[c].doc \notin crossed => doc[call[c].doc].status = "draft"
    BY <1>5 DEF FinishUpdate, GoTo, ledgerVars, Active, SteadyInv, Steady, CallOK
  <2>2. \A e \in Doc : doc'[e].status = doc[e].status /\ (e # call[c].doc => doc'[e] = doc[e])
    BY <1>5, <1>a, <2>1 DEF FinishUpdate, Absent
  <2>3. \A e \in Doc : Lasts(e)
    BY <2>1, <2>2 DEF Lasts, Final
  <2> QED
    BY <2>1, <2>2, <2>3, CallGoesOn
<1>6. ASSUME NEW c \in Txn, FinishDelete(c)
      PROVE  Steady' /\ \A e \in Doc : Lasts(e)
  <2> DEFINE x == call[c].doc
  <2>1. /\ call[c].pc = "deleting" /\ Active(c) /\ GoTo(c, "done") /\ UNCHANGED <<nextSeq, outcome>>
        /\ x \in Doc /\ x = call[c].subject /\ crossed' = crossed
        /\ x \notin crossed => doc[x].status = "draft"
        /\ doc' = [doc EXCEPT ![x] = [Absent EXCEPT !.status = "deleted"]]
    BY <1>6 DEF FinishDelete, GoTo, ledgerVars, Active, SteadyInv, Steady, CallOK
  <2>2. doc'[x].status = "deleted" /\ \A e \in Doc \ {x} : doc'[e] = doc[e]
    BY <1>a, <2>1 DEF Absent
  <2>3. \A e \in Doc : Lasts(e)
    BY <2>1, <2>2 DEF Lasts, Final
  <2> QED
    BY <2>1, <2>2, <2>3, CallGoesOn
<1>7. ASSUME NEW c \in Txn, RecheckOpname(c) \/ Fail(c)
      PROVE  Steady' /\ \A e \in Doc : Lasts(e)
  <2>1. UNCHANGED <<nextSeq, outcome, doc>> /\ Active(c)
    BY <1>7 DEF RecheckOpname, Fail, ledgerVars, Active
  <2>2. \/ GoTo(c, "failed")
        \/ GoTo(c, "posting") /\ call[c].pc = "rechecking"
    BY <1>7 DEF RecheckOpname, Fail
  <2> QED
    BY <1>b, <2>1, <2>2, CallGoesOn
<1>8. ASSUME NEW c \in Txn, Mark(c)
      PROVE  Steady' /\ \A e \in Doc : Lasts(e)
  <2>1. /\ call[c].pc = "marking" /\ doc' = Marked(c, outcome[c].number) /\ GoTo(c, "done")
        /\ nextSeq' = nextSeq /\ outcome' = outcome /\ Exists(call[c].subject)
    BY <1>8 DEF Mark, ledgerVars
  <2>2. outcome[c] # NoOutcome /\ outcome[c].req = call[c].req
    BY <2>1 DEF SteadyInv, DocInv, CallsHold, CallHolds, Holding
  <2>3. Numbered'
    BY <2>1 DEF SteadyInv, Steady, Numbered
  <2> QED
    BY <2>1, <2>2, <2>3, MarkSteady
<1>9. ASSUME NEW c \in Txn, NumberAndMark(c)
      PROVE  Steady' /\ \A e \in Doc : Lasts(e)
  <2> DEFINE r == call[c].req
  <2>1. /\ call[c].pc = "numbering" /\ Ledger!Number(c, r)
        /\ doc' = Marked(c, nextSeq[r.series]) /\ GoTo(c, "done") /\ Exists(call[c].subject)
    BY <1>9 DEF NumberAndMark, Ledger!Assign
  <2>2. r.series \in Series
    BY <2>1 DEF SteadyInv, DocInv, CallsHold, CallHolds, Holding
  <2> QED
    BY <2>1, <2>2, NumberedStays, MarkSteady
<1>10. CASE UNCHANGED vars
  <2>1. UNCHANGED <<nextSeq, outcome, doc, call, crossed>>
    BY <1>10 DEF vars, ledgerVars
  <2> QED
    BY <1>b, <2>1 DEF SteadyInv, Steady, CallOK, Met, Booked, Numbered, Active, Final, Exists,
                      PostingsOf, CutOff
<1> QED
  BY <1>1, <1>2, <1>3, <1>4, <1>5, <1>6, <1>7, <1>8, <1>9, <1>10, PostToLedgerSteady DEF Next, Handle

(* So it always holds.                                                     *)
LEMMA SteadyInvariance == Spec => []SteadyInv
<1>1. SteadyInv /\ [Next]_vars => SteadyInv'
  BY StepSteady
<1> QED
  BY <1>1, InitSteady, PTL DEF Spec

-----------------------------------------------------------------------------
(* Each posted document is booked exactly once and no draft at all,        *)
(* whatever calls on other documents overlap with its own, unless two      *)
(* calls had it in hand at once or one was cut off between its posting and *)
(* its mark (document_posting.go, ADR-0013).                               *)
THEOREM EachIsBookedOnce == Spec => []BookedOnce
<1>1. SteadyInv => BookedOnce
  <2> SUFFICES ASSUME SteadyInv, NEW d \in Doc, Exists(d), ~Disturbed(d)
               PROVE  Cardinality(PostingsOf(d)) = IF Final(d) THEN 1 ELSE 0
    BY DEF BookedOnce
  <2>1. /\ ~CutOff(d) /\ d \notin crossed
        /\ \A c \in PostingsOf(d) : ~Active(c)
    BY PostingsAreOfCalls DEF CutOff, Unsettled, Disturbed
  <2>2. CASE Final(d)
    <3>1. PICK c \in Txn : PostingsOf(d) = {c}
      BY <2>1, <2>2 DEF SteadyInv, Steady, Booked
    <3> QED
      BY <2>2, <3>1, FS_Singleton
  <2>3. CASE ~Final(d)
    <3>1. PostingsOf(d) = {}
      BY <2>1, <2>3 DEF SteadyInv, Steady, Booked, Active
    <3> QED
      BY <2>3, <3>1, FS_EmptySet
  <2> QED
    BY <2>2, <2>3
<1> QED
  BY <1>1, SteadyInvariance, PTL

(* Every number that was handed out belongs to a posting whose document    *)
(* bears it, unless that document is disturbed (numbering.go, ADR-0010):   *)
(* none is lost, none is overwritten.                                      *)
THEOREM EachNumberIsOnADocument == Spec => []NumbersAreOnDocuments
<1>1. SteadyInv => NumbersAreOnDocuments
  <2> SUFFICES ASSUME SteadyInv, NEW s \in Series, NEW n \in 1..(nextSeq[s] - 1)
               PROVE  \E c \in Txn :
                        /\ outcome[c] # NoOutcome /\ outcome[c].req.series = s
                        /\ outcome[c].number = n
                        /\ LET d == outcome[c].req.doc
                           IN  Disturbed(d) \/ (Final(d) /\ doc[d].kind = s /\ doc[d].number = n)
    BY DEF NumbersAreOnDocuments
  <2>1. PICK c \in Txn : outcome[c] # NoOutcome /\ outcome[c].req.series = s /\ outcome[c].number = n
    BY DEF SteadyInv, Steady, Numbered
  <2> DEFINE d == outcome[c].req.doc
  <2>2. CallOK(c) /\ d = call[c].subject
    BY <2>1 DEF SteadyInv, Steady, CallOK
  <2>3. ASSUME ~Disturbed(d)
        PROVE  Final(d) /\ doc[d].kind = s /\ doc[d].number = n
    <3>1. d \notin crossed /\ call[c].pc = "done"
      BY <2>1, <2>2, <2>3 DEF Disturbed, Unsettled, CallOK, Active
    <3> QED
      BY <2>1, <2>2, <3>1 DEF CallOK
  <2> QED
    BY <2>1, <2>3
<1> QED
  BY <1>1, SteadyInvariance, PTL

(* A posted document keeps its kind, warehouses, date, lines and number,   *)
(* and is never deleted (CONTEXT.md: "Posted documents are immutable"), as *)
(* long as no two calls have had it in hand at once.                       *)
THEOREM PostedNeverChanges == Spec => PostedIsImmutable
<1>1. SteadyInv /\ [Next]_vars =>
        [\A d \in Doc : Final(d) /\ d \notin crossed' =>
           /\ Final(d)'
           /\ \A f \in {"kind", "from", "to", "date", "lines", "number"} : doc'[d][f] = doc[d][f]]_doc
  BY StepSteady DEF Lasts
<1> QED
  BY <1>1, SteadyInvariance, PTL DEF Spec, PostedIsImmutable

(***************************************************************************)
(* 3. What documents, requests and the journal are made of.                *)
(*                                                                         *)
(* Grouping movements by key keeps their sums, and a posting enters its    *)
(* own rows and nothing else, so that what the journal holds of a document *)
(* posted once is what the request moved (NetOfPosting).                   *)
(***************************************************************************)
LEMMA InOrderOf ==
  ASSUME NEW S \in SUBSET Int, IsFiniteSet(S)
  PROVE  InOrder(S) \in Bijection(1..Cardinality(S), S)
<1>1. \E s \in [1..Cardinality(S) -> S] : Increasing(s)
  BY CanBeOrdered
<1>2. InOrder(S) \in [1..Cardinality(S) -> S] /\ Increasing(InOrder(S))
  BY <1>1 DEF InOrder, Increasing
<1> QED
  BY <1>2, OrderingIsBijection

(* What a request, and the movements it is made of, move in one key.       *)
NetReq(r, k) == Sum([i \in DOMAIN r.moves[k] |-> r.moves[k][i].qty], DOMAIN r.moves[k])

Own(ms, k) == {i \in DOMAIN ms : ms[i].key = k}

NetMoves(ms, k) == Sum([i \in Own(ms, k) |-> ms[i].move.qty], Own(ms, k))

(* The moves at positions s[1], .., s[n].                                  *)
Along(ms, s, n) == [i \in 1..n |-> ms[s[i]].move]

(* Grouping takes the movements of a key one by one.                       *)
LEMMA GroupingOrders ==
  ASSUME NEW ms, IsFiniteSet(DOMAIN ms), DOMAIN ms \subseteq Int,
         NEW k \in Key
  PROVE  \E n \in Nat : \E s \in Bijection(1..n, Own(ms, k)) :
           groupByKey(ms)[k] = Along(ms, s, n)
<1> DEFINE own == Own(ms, k)
           n == Cardinality(own)
           s == InOrder(own)
<1>1. own \in SUBSET Int /\ IsFiniteSet(own) /\ n \in Nat
  BY FS_Subset, FS_CardinalityType DEF Own
<1>2. s \in Bijection(1..n, own)
  BY <1>1, InOrderOf
<1>3. groupByKey(ms)[k] = [i \in DOMAIN s |-> ms[s[i]].move]
  BY DEF groupByKey, Own
<1> HIDE DEF own, n, s
<1>4. DOMAIN s = 1..n
  BY <1>2 DEF Bijection, Injection
<1>5. groupByKey(ms)[k] = Along(ms, s, n)
  BY <1>3, <1>4 DEF Along
<1> QED
  BY <1>1, <1>2, <1>5 DEF own

(* What the movements are made of, the grouped ones are.                   *)
LEMMA GroupingTypes ==
  ASSUME NEW ms, IsFiniteSet(DOMAIN ms), DOMAIN ms \subseteq Int,
         NEW M, \A i \in DOMAIN ms : ms[i].move \in M,
         NEW k \in Key
  PROVE  groupByKey(ms)[k] \in Seq(M)
<1>0. PICK n \in Nat : \E s \in Bijection(1..n, Own(ms, k)) :
        groupByKey(ms)[k] = Along(ms, s, n)
  BY GroupingOrders
<1>1. PICK s \in Bijection(1..n, Own(ms, k)) : groupByKey(ms)[k] = Along(ms, s, n)
  BY <1>0
<1>2. \A i \in 1..n : s[i] \in DOMAIN ms
  BY DEF Bijection, Injection, Own
<1>3. groupByKey(ms)[k] \in [1..n -> M]
  BY <1>1, <1>2 DEF Along
<1> QED
  BY <1>3

(* Grouping the movements by key leaves none out and doubles none.         *)
LEMMA GroupingKeeps ==
  ASSUME NEW ms, IsFiniteSet(DOMAIN ms), DOMAIN ms \subseteq Int,
         \A i \in DOMAIN ms : ms[i].move.qty \in Int,
         NEW r, r.moves = groupByKey(ms), NEW k \in Key
  PROVE  /\ NetReq(r, k) = NetMoves(ms, k)
         /\ \A i \in DOMAIN r.moves[k] : r.moves[k][i].qty \in Int
<1>0. PICK n \in Nat : \E s \in Bijection(1..n, Own(ms, k)) :
        groupByKey(ms)[k] = Along(ms, s, n)
  BY GroupingOrders
<1>1. PICK s \in Bijection(1..n, Own(ms, k)) : r.moves[k] = Along(ms, s, n)
  BY <1>0
<1> DEFINE own == Own(ms, k)
           f == [i \in 1..n |-> ms[s[i]].move.qty]
           g == [i \in own |-> ms[i].move.qty]
<1>2. \A i \in 1..n : s[i] \in own /\ ms[s[i]].move.qty \in Int
  BY DEF Bijection, Injection, Own
<1>3. IsFiniteSet(own) /\ IsFiniteSet(1..n)
  BY FS_Subset, FS_Interval DEF Own
<1>4. Sum(f, 1..n) = Sum(g, own)
  <2>1. \A i \in 1..n : f[i] \in Int
    BY <1>2
  <2>2. \A i \in 1..n : f[i] = g[s[i]]
    BY <1>2
  <2>3. s \in Bijection(1..n, own)
    OBVIOUS
  <2> HIDE DEF f, g, own
  <2> QED
    BY <1>3, <2>1, <2>2, <2>3, SumMatches
<1>5. NetReq(r, k) = Sum(f, 1..n)
  <2>1. DOMAIN r.moves[k] = 1..n /\ [i \in DOMAIN r.moves[k] |-> r.moves[k][i].qty] = f
    BY <1>1 DEF Along
  <2> HIDE DEF f
  <2> QED
    BY <2>1 DEF NetReq
<1>6. \A i \in DOMAIN r.moves[k] : r.moves[k][i].qty \in Int
  BY <1>1, <1>2 DEF Along
<1> QED
  BY <1>4, <1>5, <1>6 DEF NetMoves

-----------------------------------------------------------------------------
(* What the lines of a document move, the levels apart: a count moves what *)
(* its lines differ from the system quantities stored with them.           *)
Legs(d) ==
  CASE d.kind = "stock_transfer" ->
         [i \in 1..2 * Len(d.lines) |->
            LET l == d.lines[(i + 1) \div 2]
            IN  IF i % 2 = 1 THEN [key |-> keyOf(l.item, d.from), qty |-> -l.qty]
                             ELSE [key |-> keyOf(l.item, d.to), qty |-> l.qty]]
    [] d.kind = "delivery" ->
         [i \in DOMAIN d.lines |-> [key |-> keyOf(d.lines[i].item, d.from), qty |-> -d.lines[i].qty]]
    [] d.kind = "stock_opname" ->
         [i \in DOMAIN d.lines |-> [key |-> keyOf(d.lines[i].item, d.from),
                                    qty |-> d.lines[i].qty - d.systemQty[i]]]
    [] OTHER ->
         [i \in DOMAIN d.lines |-> [key |-> keyOf(d.lines[i].item, d.from), qty |-> d.lines[i].qty]]

Moved(d, k) == Sum([i \in Own(Legs(d), k) |-> Legs(d)[i].qty], Own(Legs(d), k))

(* Movements that follow the legs move what they move; opposite ones move  *)
(* the opposite.                                                           *)
LEMMA Follows ==
  ASSUME NEW ms, NEW legs, IsFiniteSet(DOMAIN legs), DOMAIN ms = DOMAIN legs,
         \A i \in DOMAIN legs : legs[i].qty \in Int /\ ms[i].key = legs[i].key, NEW k
  PROVE  /\ (\A i \in DOMAIN legs : ms[i].move.qty = legs[i].qty) =>
              NetMoves(ms, k) = Sum([i \in Own(legs, k) |-> legs[i].qty], Own(legs, k))
         /\ (\A i \in DOMAIN legs : ms[i].move.qty = -legs[i].qty) =>
              NetMoves(ms, k) = -Sum([i \in Own(legs, k) |-> legs[i].qty], Own(legs, k))
<1> DEFINE own == Own(legs, k)
           f == [i \in own |-> legs[i].qty]
           g == [i \in own |-> ms[i].move.qty]
<1>1. Own(ms, k) = own /\ own \in SUBSET DOMAIN legs /\ IsFiniteSet(own)
  BY FS_Subset DEF Own
<1>2. NetMoves(ms, k) = Sum(g, own)
  BY <1>1 DEF NetMoves
<1> HIDE DEF own
<1>3. \A i \in own : f[i] \in Int /\ f[i] = legs[i].qty /\ g[i] = ms[i].move.qty
  BY <1>1
<1>4. ASSUME \A i \in DOMAIN legs : ms[i].move.qty = legs[i].qty
      PROVE  Sum(g, own) = Sum(f, own)
  <2>1. \A i \in own : f[i] \in Int /\ g[i] = f[i]
    BY <1>1, <1>3, <1>4
  <2> HIDE DEF f, g
  <2> QED
    BY <1>1, <2>1, SumSame
<1>5. ASSUME \A i \in DOMAIN legs : ms[i].move.qty = -legs[i].qty
      PROVE  Sum(g, own) = -Sum(f, own)
  <2>1. \A i \in own : f[i] \in Int /\ g[i] = -f[i]
    BY <1>1, <1>3, <1>5
  <2> HIDE DEF f, g
  <2> QED
    BY <1>1, <2>1, SumNegates
<1> QED
  BY <1>2, <1>4, <1>5 DEF own

(* A document with a kind, warehouses and at least one line.               *)
Lined(d) ==
  /\ d.kind \in Kind /\ d.from \in Warehouse /\ (d.kind = "stock_transfer" => d.to \in Warehouse)
  /\ d.lines \in Seq(EnteredLine) /\ Len(d.lines) \in 1..MaxLines

(* A document that exists has finitely many lines, of an item and numbers. *)
LEMMA LineFacts ==
  ASSUME NEW d, Lined(d)
  PROVE  /\ Len(d.lines) \in Nat /\ DOMAIN d.lines = 1..Len(d.lines)
         /\ IsFiniteSet(DOMAIN d.lines)
         /\ \A i \in DOMAIN d.lines : /\ d.lines[i].qty \in Int /\ d.lines[i].cost \in Int
                                      /\ d.lines[i].item \in Item
<1>1. /\ Len(d.lines) \in Nat /\ DOMAIN d.lines = 1..Len(d.lines)
      /\ \A i \in DOMAIN d.lines : d.lines[i] \in EnteredLine
  BY DEF Lined
<1>2. IsFiniteSet(1..Len(d.lines))
  BY <1>1, FS_Interval
<1> QED
  BY <1>1, <1>2 DEF EnteredLine

(* So have its legs.                                                       *)
LEMMA LegFacts ==
  ASSUME NEW d, Lined(d), d.kind # "stock_opname"
  PROVE  /\ IsFiniteSet(DOMAIN Legs(d)) /\ DOMAIN Legs(d) \subseteq Int
         /\ \A i \in DOMAIN Legs(d) : Legs(d)[i].qty \in Int
<1>1. CASE d.kind = "stock_transfer"
  <2> DEFINE n == Len(d.lines)
  <2>1. DOMAIN Legs(d) = 1..2 * n
    BY <1>1 DEF Legs
  <2>2. n \in Nat /\ \A i \in 1..n : d.lines[i].qty \in Int
    BY LineFacts
  <2>3. \A i \in 1..2 * n : (i + 1) \div 2 \in 1..n
    BY <2>2
  <2>4. \A i \in 1..2 * n : Legs(d)[i].qty \in Int
    <3> SUFFICES ASSUME NEW i \in 1..2 * n PROVE Legs(d)[i].qty \in Int
      OBVIOUS
    <3>1. d.lines[(i + 1) \div 2].qty \in Int
      BY <2>2, <2>3
    <3>2. Legs(d)[i].qty \in {d.lines[(i + 1) \div 2].qty, -d.lines[(i + 1) \div 2].qty}
      BY <1>1 DEF Legs
    <3> QED
      BY <3>1, <3>2
  <2>5. IsFiniteSet(1..2 * n)
    <3>1. 2 * n \in Int
      BY <2>2
    <3> HIDE DEF n
    <3> QED
      BY <3>1, FS_Interval
  <2> QED
    BY <2>1, <2>2, <2>4, <2>5
<1>2. CASE d.kind # "stock_transfer"
  <2>1. DOMAIN Legs(d) = DOMAIN d.lines
    BY <1>2 DEF Legs
  <2>2. \A i \in DOMAIN d.lines : Legs(d)[i].qty \in {d.lines[i].qty, -d.lines[i].qty}
    BY <1>2 DEF Legs
  <2> QED
    BY <2>1, <2>2, LineFacts
<1> QED
  BY <1>1, <1>2

(* The movements of a document follow its legs, and those of its reversal  *)
(* are the opposite: on the same keys, or for a transfer leg by leg.       *)
LEMMA MovementsFollow ==
  ASSUME NEW d, Lined(d), d.kind # "stock_opname", NEW negate \in BOOLEAN,
         d.kind = "stock_transfer" => ~negate
  PROVE  /\ DOMAIN MovementsOf(d, negate) = DOMAIN Legs(d)
         /\ \A i \in DOMAIN Legs(d) :
              /\ MovementsOf(d, negate)[i].key = Legs(d)[i].key
              /\ MovementsOf(d, negate)[i].move.qty = IF negate THEN -Legs(d)[i].qty ELSE Legs(d)[i].qty
<1>1. CASE d.kind = "goods_receipt"
  BY <1>1 DEF MovementsOf, receiptMovements, Movement, Legs
<1>2. CASE d.kind = "stock_adjustment"
  BY <1>2 DEF MovementsOf, adjustmentMovements, Movement, Legs
<1>3. CASE d.kind = "delivery"
  <2>1. \A i \in DOMAIN d.lines : d.lines[i].qty \in Int
    BY LineFacts
  <2> QED
    BY <1>3, <2>1 DEF MovementsOf, deliveryMovements, Movement, Legs
<1>4. CASE d.kind = "stock_transfer"
  BY <1>4 DEF MovementsOf, transferMovements, Movement, Legs
<1> QED
  BY <1>1, <1>2, <1>3, <1>4 DEF Lined, Kind

(* The other leg of the same line.                                         *)
Turn(i) == IF i % 2 = 1 THEN i + 1 ELSE i - 1

(* A transfer is reversed by trading the legs of each line.                *)
LEMMA TransferTurns ==
  ASSUME NEW d, Lined(d), d.kind = "stock_transfer", NEW k
  PROVE  NetMoves(MovementsOf(d, TRUE), k) = -Moved(d, k)
<1> DEFINE ms == MovementsOf(d, TRUE)
           legs == Legs(d)
           n == 2 * Len(d.lines)
           mine == Own(ms, k)
           theirs == Own(legs, k)
           f == [i \in mine |-> ms[i].move.qty]
           g == [i \in theirs |-> -legs[i].qty]
           l == [i \in theirs |-> legs[i].qty]
           h == [i \in mine |-> Turn(i)]
<1>1. \A i \in 1..n : /\ Turn(i) \in 1..n /\ (i % 2 = 1 <=> Turn(i) % 2 # 1) /\ Turn(Turn(i)) = i
                      /\ (Turn(i) + 1) \div 2 = (i + 1) \div 2
  <2>1. Len(d.lines) \in Nat
    BY LineFacts
  <2>2. \A m \in Nat : \A i \in 1..2 * m : i % 2 = 1 =>
          /\ i + 1 \in 1..2 * m /\ (i + 1) % 2 = 0 /\ i + 1 - 1 = i
          /\ (i + 2) \div 2 = (i + 1) \div 2
    OBVIOUS
  <2>3. \A m \in Nat : \A i \in 1..2 * m : i % 2 # 1 =>
          /\ i - 1 \in 1..2 * m /\ (i - 1) % 2 = 1 /\ i - 1 + 1 = i
          /\ i \div 2 = (i + 1) \div 2
    OBVIOUS
  <2> SUFFICES ASSUME NEW i \in 1..n
               PROVE  /\ Turn(i) \in 1..n /\ (i % 2 = 1 <=> Turn(i) % 2 # 1) /\ Turn(Turn(i)) = i
                      /\ (Turn(i) + 1) \div 2 = (i + 1) \div 2
    OBVIOUS
  <2>4. CASE i % 2 = 1
    <3>1. /\ i + 1 \in 1..n /\ (i + 1) % 2 = 0 /\ i + 1 - 1 = i
          /\ (i + 2) \div 2 = (i + 1) \div 2
      BY <2>1, <2>2, <2>4
    <3>2. Turn(i) = i + 1 /\ Turn(i + 1) = i /\ i + 1 + 1 = i + 2
      BY <2>4, <3>1 DEF Turn
    <3> QED
      BY <2>4, <3>1, <3>2
  <2>5. CASE i % 2 # 1
    <3>1. /\ i - 1 \in 1..n /\ (i - 1) % 2 = 1 /\ i - 1 + 1 = i
          /\ i \div 2 = (i + 1) \div 2
      BY <2>1, <2>3, <2>5
    <3>2. Turn(i) = i - 1 /\ Turn(i - 1) = i
      BY <2>5, <3>1 DEF Turn
    <3> QED
      BY <2>5, <3>1, <3>2
  <2> QED
    BY <2>4, <2>5
<1>2. DOMAIN ms = 1..n /\ DOMAIN legs = 1..n
  BY DEF MovementsOf, transferMovements, Legs
<1>3. IsFiniteSet(1..n) /\ \A i \in 1..n : legs[i].qty \in Int
  BY <1>2, LegFacts
<1>4. ASSUME NEW i \in 1..n
      PROVE  /\ ms[i].key = legs[Turn(i)].key
             /\ ms[i].move.qty \in Int /\ ms[i].move.qty = -legs[Turn(i)].qty
  <2> DEFINE x == d.lines[(i + 1) \div 2]
  <2>1. x.qty \in Int
    BY LineFacts
  <2>2. ms[i] = IF i % 2 = 1 THEN Movement(keyOf(x.item, d.to), -x.qty, LevelOf(x, d.to).avg, d)
                             ELSE Movement(keyOf(x.item, d.from), x.qty, LevelOf(x, d.to).avg, d)
    BY DEF MovementsOf, transferMovements
  <2>3. legs[Turn(i)] = IF i % 2 = 1 THEN [key |-> keyOf(x.item, d.to), qty |-> x.qty]
                                     ELSE [key |-> keyOf(x.item, d.from), qty |-> -x.qty]
    BY <1>1 DEF Legs
  <2> HIDE DEF x, ms, legs
  <2> QED
    BY <2>1, <2>2, <2>3 DEF Movement
<1> HIDE DEF ms, legs, n
<1>5. mine \in SUBSET (1..n) /\ theirs \in SUBSET (1..n) /\ IsFiniteSet(mine) /\ IsFiniteSet(theirs)
  BY <1>2, <1>3, FS_Subset DEF Own
<1>6. \A i \in 1..n : Turn(i) \in theirs <=> i \in mine
  BY <1>1, <1>2, <1>4 DEF Own
<1>7. h \in Bijection(mine, theirs)
  <2>1. h \in [mine -> theirs]
    BY <1>5, <1>6
  <2>2. \A i, j \in mine : h[i] = h[j] => i = j
    <3>1. \A i \in mine : h[i] = Turn(i) /\ Turn(Turn(i)) = i
      BY <1>1, <1>5
    <3> HIDE DEF h
    <3> QED
      BY <3>1
  <2>3. \A j \in theirs : \E i \in mine : h[i] = j
    <3> SUFFICES ASSUME NEW j \in theirs PROVE \E i \in mine : h[i] = j
      OBVIOUS
    <3>1. Turn(j) \in 1..n /\ Turn(Turn(j)) = j
      BY <1>1, <1>5
    <3>2. Turn(j) \in mine
      BY <1>6, <3>1
    <3> QED
      BY <3>1, <3>2
  <2> HIDE DEF h, mine, theirs
  <2> QED
    BY <2>1, <2>2, <2>3 DEF Bijection, Injection, IsInjective, Surjection
<1>8. \A i \in mine : f[i] \in Int /\ f[i] = g[h[i]]
  <2> SUFFICES ASSUME NEW i \in mine PROVE f[i] \in Int /\ f[i] = g[h[i]]
    OBVIOUS
  <2>1. i \in 1..n /\ Turn(i) \in theirs /\ Turn(i) \in 1..n
    BY <1>5, <1>6
  <2>2. f[i] = ms[i].move.qty /\ h[i] = Turn(i) /\ g[Turn(i)] = -legs[Turn(i)].qty
    BY <2>1
  <2>3. ms[i].move.qty \in Int /\ ms[i].move.qty = -legs[Turn(i)].qty
    BY <1>4, <2>1
  <2> QED
    BY <2>2, <2>3
<1>9. \A i \in theirs : l[i] \in Int /\ g[i] = -l[i]
  <2>1. \A i \in theirs : legs[i].qty \in Int /\ l[i] = legs[i].qty /\ g[i] = -legs[i].qty
    <3> HIDE DEF theirs
    <3> QED
      BY <1>3, <1>5
  <2> HIDE DEF g, l, theirs
  <2> QED
    BY <2>1
<1> HIDE DEF f, g, h, l, mine, theirs
<1>10. Sum(f, mine) = Sum(g, theirs)
  <2>1. \A i \in mine : f[i] \in Int
    BY <1>8
  <2>2. \A i \in mine : f[i] = g[h[i]]
    BY <1>8
  <2>3. IsFiniteSet(mine) /\ IsFiniteSet(theirs)
    BY <1>5
  <2> QED
    BY <1>7, <2>1, <2>2, <2>3, SumMatches
<1>11. Sum(g, theirs) = -Sum(l, theirs)
  BY <1>5, <1>9, SumNegates
<1> QED
  BY <1>10, <1>11 DEF NetMoves, Moved, f, l, mine, theirs, ms, legs

(* The quantities of the movements, at any levels, are integers.           *)
LEMMA MovementFacts ==
  ASSUME NEW d, Lined(d), d.kind # "stock_opname", NEW negate \in BOOLEAN
  PROVE  /\ IsFiniteSet(DOMAIN MovementsOf(d, negate)) /\ DOMAIN MovementsOf(d, negate) \subseteq Int
         /\ \A i \in DOMAIN MovementsOf(d, negate) : MovementsOf(d, negate)[i].move.qty \in Int
<1>1. CASE d.kind = "stock_transfer" /\ negate
  <2> DEFINE ms == MovementsOf(d, negate)
             n == Len(d.lines)
  <2>1. DOMAIN ms = 1..2 * n
    BY <1>1 DEF MovementsOf, transferMovements
  <2>2. n \in Nat /\ \A i \in 1..n : d.lines[i].qty \in Int
    BY LineFacts
  <2>3. \A i \in 1..2 * n : (i + 1) \div 2 \in 1..n
    BY <2>2
  <2>4. \A i \in 1..2 * n : ms[i].move.qty \in Int
    <3> SUFFICES ASSUME NEW i \in 1..2 * n PROVE ms[i].move.qty \in Int
      OBVIOUS
    <3>1. d.lines[(i + 1) \div 2].qty \in Int
      BY <2>2, <2>3
    <3>2. ms[i].move.qty \in {d.lines[(i + 1) \div 2].qty, -d.lines[(i + 1) \div 2].qty}
      BY <1>1 DEF MovementsOf, transferMovements, Movement
    <3> QED
      BY <3>1, <3>2
  <2>5. IsFiniteSet(1..2 * n)
    <3>1. 2 * n \in Int
      BY <2>2
    <3> HIDE DEF n
    <3> QED
      BY <3>1, FS_Interval
  <2> QED
    BY <2>1, <2>2, <2>4, <2>5
<1>2. CASE ~(d.kind = "stock_transfer" /\ negate)
  <2>1. DOMAIN MovementsOf(d, negate) = DOMAIN Legs(d)
    BY <1>2, MovementsFollow
  <2>2. \A i \in DOMAIN Legs(d) :
          MovementsOf(d, negate)[i].move.qty \in {Legs(d)[i].qty, -Legs(d)[i].qty}
    BY <1>2, MovementsFollow
  <2>3. \A i \in DOMAIN Legs(d) : Legs(d)[i].qty \in Int
    BY LegFacts
  <2>4. IsFiniteSet(DOMAIN Legs(d)) /\ DOMAIN Legs(d) \subseteq Int
    BY LegFacts
  <2> HIDE DEF Lined
  <2> QED
    BY <2>1, <2>2, <2>3, <2>4
<1> QED
  BY <1>1, <1>2

(* The request of a document moves what its legs move, that of its         *)
(* reversal the opposite (goods_receipts.go:505-507).                      *)
LEMMA RequestMoves ==
  ASSUME NEW d, Lined(d), d.kind # "stock_opname", NEW id, NEW k \in Key
  PROVE  /\ NetReq(PostingRequest(id, d, FALSE), k) = Moved(d, k)
         /\ NetReq(PostingRequest(id, d, TRUE), k) = -Moved(d, k)
<1>1. ASSUME NEW negate \in BOOLEAN
      PROVE  NetReq(PostingRequest(id, d, negate), k) = NetMoves(MovementsOf(d, negate), k)
  <2> DEFINE ms == MovementsOf(d, negate)
             r == PostingRequest(id, d, negate)
  <2>1. IsFiniteSet(DOMAIN ms) /\ DOMAIN ms \subseteq Int /\ \A i \in DOMAIN ms : ms[i].move.qty \in Int
    BY MovementFacts
  <2>2. r.moves = groupByKey(ms)
    BY DEF PostingRequest
  <2> HIDE DEF ms, r
  <2>3. NetReq(r, k) = NetMoves(ms, k)
    BY <2>1, <2>2, GroupingKeeps
  <2> QED
    BY <2>3 DEF ms, r
<1>2. ASSUME NEW negate \in BOOLEAN, d.kind = "stock_transfer" => ~negate
      PROVE  NetMoves(MovementsOf(d, negate), k) = IF negate THEN -Moved(d, k) ELSE Moved(d, k)
  <2> DEFINE ms == MovementsOf(d, negate)
             legs == Legs(d)
  <2>1. DOMAIN ms = DOMAIN legs /\ IsFiniteSet(DOMAIN legs)
    BY <1>2, MovementsFollow, LegFacts
  <2>2. \A i \in DOMAIN legs : legs[i].qty \in Int /\ ms[i].key = legs[i].key
    BY <1>2, MovementsFollow, LegFacts
  <2>3. \A i \in DOMAIN legs : ms[i].move.qty = IF negate THEN -legs[i].qty ELSE legs[i].qty
    BY <1>2, MovementsFollow
  <2> HIDE DEF ms, legs
  <2>4. CASE negate
    <3>1. NetMoves(ms, k) = -Sum([i \in Own(legs, k) |-> legs[i].qty], Own(legs, k))
      BY <2>1, <2>2, <2>3, <2>4, Follows
    <3> QED
      BY <2>4, <3>1 DEF Moved, ms, legs
  <2>5. CASE ~negate
    <3>1. NetMoves(ms, k) = Sum([i \in Own(legs, k) |-> legs[i].qty], Own(legs, k))
      BY <2>1, <2>2, <2>3, <2>5, Follows
    <3> QED
      BY <2>5, <3>1 DEF Moved, ms, legs
  <2> QED
    BY <2>4, <2>5
<1>3. NetReq(PostingRequest(id, d, FALSE), k) = Moved(d, k)
  BY <1>1, <1>2
<1>4. NetReq(PostingRequest(id, d, TRUE), k) = -Moved(d, k)
  <2>1. CASE d.kind = "stock_transfer"
    BY <1>1, <2>1, TransferTurns
  <2>2. CASE d.kind # "stock_transfer"
    BY <1>1, <1>2, <2>2
  <2> QED
    BY <2>1, <2>2
<1> QED
  BY <1>3, <1>4

(* The request of a count moves what its lines differ from the levels of   *)
(* the moment, which it stores as the lines' system quantities.            *)
LEMMA CountMoves ==
  ASSUME NEW d, Lined(d), d.kind = "stock_opname", NEW e, Lined(e), e.kind = "stock_opname",
         e.from = d.from, e.lines = d.lines,
         \A i \in DOMAIN d.lines : /\ LevelOf(d.lines[i], d.from).qty \in Int
                                   /\ e.systemQty[i] = LevelOf(d.lines[i], d.from).qty,
         NEW id, NEW k \in Key
  PROVE  NetReq(PostingRequest(id, d, FALSE), k) = Moved(e, k)
<1> DEFINE ms == MovementsOf(d, FALSE)
           legs == Legs(e)
           r == PostingRequest(id, d, FALSE)
           mine == Own(ms, k)
           theirs == Own(legs, k)
           f == [i \in mine |-> ms[i].move.qty]
           g == [i \in theirs |-> legs[i].qty]
<1>1. /\ DOMAIN legs = DOMAIN d.lines /\ IsFiniteSet(DOMAIN d.lines) /\ DOMAIN d.lines \subseteq Int
      /\ \A i \in DOMAIN d.lines : d.lines[i].qty \in Int
  BY LineFacts DEF Legs
<1>2. \A i \in DOMAIN d.lines :
        /\ legs[i].key = keyOf(d.lines[i].item, d.from)
        /\ legs[i].qty = d.lines[i].qty - LevelOf(d.lines[i], d.from).qty
        /\ legs[i].qty \in Int
  BY <1>1 DEF Legs
<1>3. /\ DOMAIN ms = {i \in DOMAIN d.lines : d.lines[i].qty - LevelOf(d.lines[i], d.from).qty # 0}
      /\ \A i \in DOMAIN ms : ms[i].key = keyOf(d.lines[i].item, d.from)
                              /\ ms[i].move.qty = d.lines[i].qty - LevelOf(d.lines[i], d.from).qty
  BY DEF MovementsOf, opnameMovements, Movement
<1>4. r.moves = groupByKey(ms)
  BY DEF PostingRequest
<1> HIDE DEF ms, legs, r
<1>6. IsFiniteSet(DOMAIN ms) /\ DOMAIN ms \subseteq Int /\ \A i \in DOMAIN ms : ms[i].move.qty \in Int
  BY <1>1, <1>2, <1>3, FS_Subset
<1>7. NetReq(r, k) = NetMoves(ms, k)
  BY <1>4, <1>6, GroupingKeeps
<1>8. mine \in SUBSET theirs /\ IsFiniteSet(theirs) /\ IsFiniteSet(mine)
  BY <1>1, <1>2, <1>3, FS_Subset DEF Own
<1>9. /\ \A i \in theirs : g[i] \in Int
      /\ \A i \in theirs \ mine : g[i] = 0
      /\ \A i \in mine : g[i] \in Int /\ f[i] = g[i]
  BY <1>1, <1>2, <1>3 DEF Own
<1> HIDE DEF mine, theirs, f, g
<1>10. Sum(g, theirs) = Sum(g, mine)
  BY <1>8, <1>9, SumOfSome
<1>11. Sum(f, mine) = Sum(g, mine)
  BY <1>8, <1>9, SumSame
<1> QED
  BY <1>7, <1>10, <1>11 DEF NetMoves, Moved, ms, legs, r, mine, theirs, f, g

-----------------------------------------------------------------------------
(* The journal.                                                            *)

(* Post in the terms of this module.                                       *)
LEMMA LedgerPosts ==
  ASSUME NEW c \in Txn, NEW r, Ledger!Post(c, r)
  PROVE  /\ outcome[c] = NoOutcome
         /\ outcome' = [outcome EXCEPT ![c] = [req |-> r, number |-> nextSeq[r.series]]]
         /\ journal' = journal \cup RowsOf(c, r, TouchedKeys(r), journal)
         /\ level' = [k \in Key |-> IF k \in TouchedKeys(r)
                                     THEN Level(KeyRows(journal', k)) ELSE level[k]]
<1>1. Ledger!TouchedKeys(r) = TouchedKeys(r)
  BY DEF Ledger!TouchedKeys, TouchedKeys
<1>2. \A rows, k : Ledger!KeyRows(rows, k) = KeyRows(rows, k)
  BY DEF Ledger!KeyRows, KeyRows
<1>3. \A rows, k : Ledger!SeqsOf(rows, k) = SeqsOf(rows, k)
  BY <1>2 DEF Ledger!SeqsOf, SeqsOf
<1>4. \A rows, k : Ledger!MaxMovementSeq(rows, k) = MaxMovementSeq(rows, k)
  BY <1>3 DEF Ledger!MaxMovementSeq, MaxMovementSeq
<1>5. \A k, base : Ledger!InsertedRows(c, r, k, base) = InsertedRows(c, r, k, base)
  BY DEF Ledger!InsertedRows, InsertedRows
<1>6. \A ks, rows : Ledger!RowsOf(c, r, ks, rows) = RowsOf(c, r, ks, rows)
  BY <1>4, <1>5 DEF Ledger!RowsOf, RowsOf
<1>7. Ledger!NoOutcome = NoOutcome
  BY DEF Ledger!NoOutcome, NoOutcome
<1> QED
  BY <1>1, <1>2, <1>6, <1>7 DEF Ledger!Post, Ledger!Number

(* A request lists the movements of each key.                              *)
Sequenced(r) ==
  \A k \in Key : Len(r.moves[k]) \in Nat /\ DOMAIN r.moves[k] = 1..Len(r.moves[k])

(* A journal row is of a posting that is booked, and of its document.      *)
RowsOK(m) ==
  /\ m.key \in Key /\ m.seq \in Nat \ {0} /\ m.txn \in Txn
  /\ outcome[m.txn] # NoOutcome /\ m.doc = outcome[m.txn].req.doc

(* A posting's rows in a key are those of its request, above some base.    *)
Entered(c, k) ==
  \E base \in Nat : {m \in KeyRows(journal, k) : m.txn = c} = InsertedRows(c, outcome[c].req, k, base)

(* The rows of each key are finitely many, and each posting's its own.     *)
JournalOK ==
  /\ \A k \in Key : IsFiniteSet(KeyRows(journal, k))
  /\ \A m \in journal : RowsOK(m)
  /\ \A c \in Txn : outcome[c] # NoOutcome =>
       Sequenced(outcome[c].req) /\ \A k \in Key : Entered(c, k)

RowsInOrder(c, r, k, base) ==
  [i \in 1..Len(r.moves[k]) |-> [key |-> k, seq |-> base + i, move |-> r.moves[k][i],
                                 doc |-> r.doc, txn |-> c]]

(* The rows of a posting in a key, in the order of its movements.          *)
LEMMA InsertedIsFinite ==
  ASSUME NEW c, NEW r, Sequenced(r), NEW k \in Key, NEW base \in Nat
  PROVE  /\ IsFiniteSet(InsertedRows(c, r, k, base))
         /\ RowsInOrder(c, r, k, base) \in Bijection(1..Len(r.moves[k]), InsertedRows(c, r, k, base))
<1> DEFINE n == Len(r.moves[k])
           row(i) == [key |-> k, seq |-> base + i, move |-> r.moves[k][i],
                      doc |-> r.doc, txn |-> c]
           S == InsertedRows(c, r, k, base)
           h == [i \in 1..n |-> row(i)]
<1>1. n \in Nat
  BY DEF Sequenced
<1>2. S = {row(i) : i \in 1..n}
  BY DEF InsertedRows
<1>3. \A i \in 1..n : h[i] = row(i) /\ row(i).seq = base + i
  OBVIOUS
<1>4. DOMAIN h = 1..n /\ \A i \in 1..n : h[i] \in S
  BY <1>2
<1>5. \A x \in S : \E i \in 1..n : h[i] = x
  BY <1>2
<1>6. \A i, j \in 1..n : h[i] = h[j] => i = j
  <2> SUFFICES ASSUME NEW i \in 1..n, NEW j \in 1..n, h[i] = h[j] PROVE i = j
    OBVIOUS
  <2>1. base + i = base + j
    BY <1>3
  <2> QED
    BY <1>1, <2>1
<1>7. h = [i \in 1..n |-> h[i]]
  OBVIOUS
<1>8. h \in Bijection(1..n, S)
  <2> HIDE DEF h, S, n
  <2> QED
    BY <1>4, <1>5, <1>6, <1>7 DEF Bijection, Injection, IsInjective, Surjection
<1>9. IsFiniteSet(S)
  <2>1. IsFiniteSet(1..n)
    BY <1>1, FS_Interval
  <2> HIDE DEF h, S, n
  <2>2. ExistsBijection(1..n, S)
    BY <1>8 DEF ExistsBijection
  <2> QED
    BY <2>1, <2>2, FS_Bijection
<1> QED
  BY <1>8, <1>9 DEF RowsInOrder

(* The highest seq of a key (posting.sql, MaxMovementSeq).                 *)
LEMMA MaxSeqIsNatural ==
  ASSUME JournalOK, NEW k \in Key
  PROVE  MaxMovementSeq(journal, k) \in Nat
<1> DEFINE S == SeqsOf(journal, k) \cup {0}
           T == {n \in S : n \in Nat}
<1>1. \A m \in KeyRows(journal, k) : m.seq \in Nat
  BY DEF JournalOK, RowsOK, KeyRows
<1>2. S \in SUBSET Int /\ S # {} /\ \A n \in S : n \in Nat
  BY <1>1 DEF SeqsOf
<1>3. IsFiniteSet(S)
  <2> DEFINE rows == KeyRows(journal, k)
             f == [m \in rows |-> m.seq]
  <2>1. IsFiniteSet(rows)
    BY DEF JournalOK
  <2>2. f \in Surjection(rows, SeqsOf(journal, k))
    BY DEF Surjection, SeqsOf
  <2>3. IsFiniteSet(SeqsOf(journal, k))
    BY <2>1, <2>2, FS_Surjection
  <2> QED
    BY <2>3, FS_AddElement
<1>4. \E n \in S : \A i \in S : i <= n
  <2> HIDE DEF S
  <2> QED
    BY <1>2, <1>3, HasGreatest
<1>5. \E n \in S : \A i \in SeqsOf(journal, k) : i <= n
  BY <1>4
<1> QED
  BY <1>2, <1>5 DEF MaxMovementSeq

(* A posting adds its own rows, under sequence numbers of their own.       *)
LEMMA PostEnters ==
  ASSUME JournalOK, NEW c \in Txn, NEW r, Sequenced(r), outcome[c] = NoOutcome,
         journal' = journal \cup RowsOf(c, r, TouchedKeys(r), journal),
         outcome'[c] # NoOutcome, outcome'[c].req = r,
         \A u \in Txn \ {c} : outcome'[u] = outcome[u]
  PROVE  JournalOK'
<1> DEFINE base(k) == MaxMovementSeq(journal, k)
<1>1. \A m \in journal : m.txn \in Txn \ {c}
  BY DEF JournalOK, RowsOK
<1>2. ASSUME NEW k \in Key
      PROVE  KeyRows(journal', k) = KeyRows(journal, k) \cup InsertedRows(c, r, k, base(k))
  <2>1. \A j \in TouchedKeys(r) : \A m \in InsertedRows(c, r, j, base(j)) : m.key = j
    BY DEF InsertedRows
  <2>2. k \notin TouchedKeys(r) => InsertedRows(c, r, k, base(k)) = {}
    <3>1. k \notin TouchedKeys(r) => Len(r.moves[k]) = 0
      BY DEF TouchedKeys, Sequenced
    <3>2. 1..0 = {}
      OBVIOUS
    <3> QED
      BY <3>1, <3>2 DEF InsertedRows
  <2>3. journal' = journal \cup UNION {InsertedRows(c, r, j, base(j)) : j \in TouchedKeys(r)}
    BY DEF RowsOf
  <2> HIDE DEF base
  <2> QED
    BY <2>1, <2>2, <2>3 DEF KeyRows
<1>3. \A k \in Key : base(k) \in Nat
  BY MaxSeqIsNatural
<1>4. \A k \in Key : IsFiniteSet(KeyRows(journal', k))
  <2> SUFFICES ASSUME NEW k \in Key PROVE IsFiniteSet(KeyRows(journal', k))
    OBVIOUS
  <2>1. IsFiniteSet(KeyRows(journal, k)) /\ IsFiniteSet(InsertedRows(c, r, k, base(k)))
    BY <1>3, InsertedIsFinite DEF JournalOK
  <2> HIDE DEF base
  <2>2. IsFiniteSet(KeyRows(journal, k) \cup InsertedRows(c, r, k, base(k)))
    BY <2>1, FS_Union
  <2> QED
    BY <1>2, <2>2
<1>5. \A k \in Key : \A m \in InsertedRows(c, r, k, base(k)) :
        m.key = k /\ m.seq \in Nat \ {0} /\ m.txn = c /\ m.doc = r.doc
  <2> SUFFICES ASSUME NEW k \in Key, NEW m \in InsertedRows(c, r, k, base(k))
               PROVE  m.key = k /\ m.seq \in Nat \ {0} /\ m.txn = c /\ m.doc = r.doc
    OBVIOUS
  <2>1. base(k) \in Nat /\ Len(r.moves[k]) \in Nat
    BY <1>3 DEF Sequenced
  <2> HIDE DEF base
  <2>2. PICK i \in 1..Len(r.moves[k]) :
          m = [key |-> k, seq |-> base(k) + i, move |-> r.moves[k][i], doc |-> r.doc, txn |-> c]
    BY DEF InsertedRows
  <2>3. base(k) + i \in Nat \ {0}
    BY <2>1
  <2> QED
    BY <2>2, <2>3
<1>6. \A m \in journal' : RowsOK(m)'
  <2> SUFFICES ASSUME NEW m \in journal' PROVE RowsOK(m)'
    OBVIOUS
  <2>1. CASE m \in journal
    BY <1>1, <2>1 DEF JournalOK, RowsOK
  <2>2. CASE m \notin journal
    <3>1. PICK k \in TouchedKeys(r) : m \in InsertedRows(c, r, k, base(k))
      BY <2>2 DEF RowsOf
    <3>2. k \in Key
      BY DEF TouchedKeys
    <3> HIDE DEF base
    <3> QED
      BY <1>5, <3>1, <3>2 DEF RowsOK
  <2> QED
    BY <2>1, <2>2
<1>7. ASSUME NEW u \in Txn, outcome'[u] # NoOutcome
      PROVE  Sequenced(outcome'[u].req) /\ \A k \in Key : Entered(u, k)'
  <2>1. CASE u = c
    <3> SUFFICES ASSUME NEW k \in Key PROVE Entered(c, k)'
      BY <2>1
    <3>1. {m \in KeyRows(journal', k) : m.txn = c} = InsertedRows(c, r, k, base(k))
      <4>1. \A m \in KeyRows(journal, k) : m.txn # c
        BY <1>1 DEF KeyRows
      <4>2. \A m \in InsertedRows(c, r, k, base(k)) : m.txn = c
        BY <1>5
      <4> HIDE DEF base
      <4> QED
        BY <1>2, <4>1, <4>2
    <3>2. base(k) \in Nat
      BY <1>3
    <3> HIDE DEF base
    <3> QED
      BY <3>1, <3>2 DEF Entered
  <2>2. CASE u # c
    <3>1. outcome'[u] = outcome[u]
      BY <2>2
    <3> SUFFICES ASSUME NEW k \in Key PROVE Entered(u, k)'
      BY <1>7, <3>1 DEF JournalOK
    <3>2. PICK b \in Nat : {m \in KeyRows(journal, k) : m.txn = u} = InsertedRows(u, outcome[u].req, k, b)
      BY <1>7, <3>1 DEF JournalOK, Entered
    <3>3. {m \in KeyRows(journal', k) : m.txn = u} = {m \in KeyRows(journal, k) : m.txn = u}
      <4>1. \A m \in InsertedRows(c, r, k, base(k)) : m.txn # u
        BY <1>5, <2>2
      <4> HIDE DEF base
      <4> QED
        BY <1>2, <4>1
    <3> QED
      BY <3>1, <3>2, <3>3 DEF Entered
  <2> QED
    BY <2>1, <2>2
<1> QED
  BY <1>4, <1>6, <1>7 DEF JournalOK

(* A number without a movement enters nothing.                             *)
LEMMA AssignEnters ==
  ASSUME JournalOK, NEW c \in Txn, NEW r, Sequenced(r), TouchedKeys(r) = {}, outcome[c] = NoOutcome,
         journal' = journal,
         outcome'[c] # NoOutcome, outcome'[c].req = r,
         \A u \in Txn \ {c} : outcome'[u] = outcome[u]
  PROVE  JournalOK'
<1>1. RowsOf(c, r, TouchedKeys(r), journal) = {}
  BY DEF RowsOf
<1> QED
  BY <1>1, PostEnters

(* What the journal holds of a document that was posted once is what the   *)
(* request of that posting moves.                                          *)
LEMMA NetOfPosting ==
  ASSUME JournalOK, NEW d, NEW c \in Txn, PostingsOf(d) = {c}, NEW k \in Key,
         \A i \in DOMAIN outcome[c].req.moves[k] : outcome[c].req.moves[k][i].qty \in Int
  PROVE  NetOf(d, k) = NetReq(outcome[c].req, k)
<1> DEFINE r == outcome[c].req
           n == Len(r.moves[k])
           rows == {m \in KeyRows(journal, k) : m.doc = d}
           f == [i \in 1..n |-> r.moves[k][i].qty]
           g == [m \in rows |-> m.move.qty]
<1>1. outcome[c] # NoOutcome /\ r.doc = d
  BY DEF PostingsOf
<1>2. Sequenced(r) /\ Entered(c, k)
  BY <1>1 DEF JournalOK
<1>3. rows = {m \in KeyRows(journal, k) : m.txn = c}
  <2> SUFFICES ASSUME NEW m \in KeyRows(journal, k) PROVE m.doc = d <=> m.txn = c
    OBVIOUS
  <2>1. m.txn \in Txn /\ outcome[m.txn] # NoOutcome /\ m.doc = outcome[m.txn].req.doc
    BY DEF JournalOK, RowsOK, KeyRows
  <2> QED
    BY <1>1, <2>1 DEF PostingsOf
<1>4. PICK base \in Nat : rows = InsertedRows(c, r, k, base)
  BY <1>2, <1>3 DEF Entered
<1> DEFINE h == RowsInOrder(c, r, k, base)
<1>5. IsFiniteSet(rows) /\ h \in Bijection(1..n, rows)
  <2>1. /\ IsFiniteSet(InsertedRows(c, r, k, base))
        /\ h \in Bijection(1..n, InsertedRows(c, r, k, base))
    BY <1>2, InsertedIsFinite
  <2> HIDE DEF rows, h, r
  <2> QED
    BY <1>4, <2>1
<1>6. DOMAIN r.moves[k] = 1..n /\ IsFiniteSet(1..n)
  <2>1. DOMAIN r.moves[k] = 1..n /\ n \in Int
    BY <1>2 DEF Sequenced
  <2> HIDE DEF n
  <2> QED
    BY <2>1, FS_Interval
<1>7. \A i \in 1..n : f[i] \in Int /\ f[i] = g[h[i]]
  <2> SUFFICES ASSUME NEW i \in 1..n PROVE f[i] \in Int /\ f[i] = g[h[i]]
    OBVIOUS
  <2>1. h[i] \in rows
    BY <1>5 DEF Bijection, Injection
  <2>2. h[i].move = r.moves[k][i]
    BY DEF RowsInOrder
  <2>3. f[i] = r.moves[k][i].qty /\ r.moves[k][i].qty \in Int
    BY <1>6
  <2> HIDE DEF rows, h
  <2> QED
    BY <2>1, <2>2, <2>3
<1>8. NetOf(d, k) = Sum(g, rows)
  BY DEF NetOf, SumFunction, Sum
<1>9. NetReq(r, k) = Sum(f, 1..n)
  BY <1>6 DEF NetReq
<1>10. Sum(f, 1..n) = Sum(g, rows)
  <2>1. \A i \in 1..n : f[i] \in Int
    BY <1>7
  <2>2. \A i \in 1..n : f[i] = g[h[i]]
    BY <1>7
  <2>3. IsFiniteSet(1..n) /\ IsFiniteSet(rows)
    BY <1>5, <1>6
  <2> DEFINE S == 1..n
  <2>4. h \in Bijection(S, rows) /\ IsFiniteSet(S) /\ \A i \in S : f[i] \in Int /\ f[i] = g[h[i]]
    BY <1>5, <2>1, <2>2, <2>3
  <2>5. Sum(f, S) = Sum(g, rows)
    <3> HIDE DEF f, g, h, n, rows, S
    <3> QED
      BY <2>3, <2>4, SumMatches
  <2> QED
    BY <2>5
<1> QED
  BY <1>8, <1>9, <1>10

-----------------------------------------------------------------------------
(* The documents.                                                          *)

Dates == {input.date : input \in Inputs}

(* A row of the document tables.                                           *)
Typed(e) ==
  /\ e.reverses \in Doc \cup {None} /\ e.reversedBy \in Doc \cup {None}
  /\ e.status \in {"draft", "posted", "reversed"} => Lined(e) /\ e.date \in Dates

(* What changes a document has no lines of before, or leaves alone.        *)
LEMMA TypedStays ==
  ASSUME NEW e, Typed(e), NEW f,
         f.kind = e.kind, f.from = e.from, f.to = e.to, f.lines = e.lines, f.date = e.date,
         f.reverses \in Doc \cup {None}, f.reversedBy \in Doc \cup {None},
         \/ f.status \notin {"draft", "posted", "reversed"}
         \/ e.status \in {"draft", "posted", "reversed"}
  PROVE  Typed(f)
<1>1. CASE f.status \notin {"draft", "posted", "reversed"}
  BY <1>1 DEF Typed
<1>2. CASE f.status \in {"draft", "posted", "reversed"}
  <2>1. Lined(e) /\ e.date \in Dates
    BY <1>2 DEF Typed
  <2>2. Lined(f)
    BY <2>1 DEF Lined
  <2> QED
    BY <2>1, <2>2 DEF Typed
<1> QED
  BY <1>1, <1>2

(* The lines that are stored for an input.                                 *)
LEMMA StoredAreLines ==
  ASSUME NEW input \in Inputs, Accepted(input)
  PROVE  /\ StoredLines(input) \in Seq(EnteredLine) /\ Len(StoredLines(input)) \in 1..MaxLines
         /\ input.kind \in Kind /\ input.from \in Warehouse
         /\ input.kind = "stock_transfer" => input.to \in Warehouse
         /\ input.date \in Dates
<1> DEFINE n == Len(input.lines)
<1>1. /\ input.kind \in Kind /\ input.from \in Warehouse
      /\ input.kind = "stock_transfer" => input.to \in Warehouse
      /\ input.lines \in Seq(EnteredLine) /\ n <= MaxLines
  BY InputsAssumption
<1>2. n \in Nat /\ DOMAIN input.lines = 1..n /\ \A i \in 1..n : input.lines[i] \in EnteredLine
  BY <1>1
<1>3. n # 0
  BY <1>1 DEF Accepted
<1>4. \A i \in 1..n : StoredLines(input)[i] \in EnteredLine
  <2> SUFFICES ASSUME NEW i \in 1..n PROVE StoredLines(input)[i] \in EnteredLine
    OBVIOUS
  <2> DEFINE l == input.lines[i]
             cost == IF input.kind = "goods_receipt" THEN EffectiveCost(l) ELSE l.cost
  <2>1. l \in EnteredLine
    BY <1>2
  <2>2. cost \in Int
    <3>1. l.cost \in Int /\ (l.order # None => l.order \in OrderLine)
      BY <2>1 DEF EnteredLine
    <3>2. l.order # None => OrderCost[l.order] \in Int
      BY <3>1, OrdersAssumption
    <3> QED
      BY <3>1, <3>2 DEF EffectiveCost
  <2>3. StoredLines(input)[i] = [l EXCEPT !.cost = cost]
    BY <1>2 DEF StoredLines
  <2> HIDE DEF l, cost
  <2> QED
    BY <2>1, <2>2, <2>3 DEF EnteredLine
<1>5. StoredLines(input) \in [1..n -> EnteredLine]
  <2>1. StoredLines(input) = [i \in 1..n |-> StoredLines(input)[i]]
    BY <1>2 DEF StoredLines
  <2> QED
    BY <1>4, <2>1
<1>6. StoredLines(input) \in Seq(EnteredLine) /\ Len(StoredLines(input)) = n
  BY <1>2, <1>5
<1>7. n \in 1..MaxLines
  BY <1>1, <1>2, <1>3, MaxLinesAssumption
<1>8. input.date \in Dates
  BY DEF Dates
<1> QED
  BY <1>1, <1>6, <1>7, <1>8

(* A draft has the lines it is given.                                      *)
LEMMA DraftIsTyped ==
  ASSUME NEW input, NEW lines, NEW original \in Doc \cup {None},
         input.kind \in Kind, input.from \in Warehouse,
         input.kind = "stock_transfer" => input.to \in Warehouse, input.date \in Dates,
         lines \in Seq(EnteredLine), Len(lines) \in 1..MaxLines
  PROVE  Typed(Draft(input, lines, original))
<1> DEFINE e == Draft(input, lines, original)
<1>1. /\ e.reverses = original /\ e.reversedBy = None /\ e.kind = input.kind /\ e.from = input.from
      /\ e.to = input.to /\ e.date = input.date /\ e.lines = lines
  BY DEF Draft
<1> HIDE DEF e
<1>2. Typed(e)
  BY <1>1 DEF Typed, Lined
<1> QED
  BY <1>2 DEF e

DocsTyped == \A d \in Doc : Typed(doc[d])

(* Every step leaves documents with an accepted input's lines.             *)
LEMMA StepDocs ==
  ASSUME DocInv, DocsTyped, [Next]_vars
  PROVE  DocsTyped'
<1>a. /\ DOMAIN doc = Doc /\ DOMAIN call = Txn
      /\ \A d \in Doc : DOMAIN doc[d] = DOMAIN Absent
  BY DEF DocInv, Shape
<1>b. \A d \in Doc : Typed(doc[d])
  BY DEF DocsTyped
<1> SUFFICES ASSUME NEW x \in Doc PROVE Typed(doc'[x])
  BY DEF DocsTyped, Typed, Lined, Dates
<1>1. ASSUME NEW d \in Doc, NEW input \in Inputs, Create(d, input)
      PROVE  Typed(doc'[x])
  <2>1. doc' = [doc EXCEPT ![d] = Draft(input, StoredLines(input), None)] /\ Accepted(input)
    BY <1>1 DEF Create
  <2>2. Typed(Draft(input, StoredLines(input), None))
    BY <2>1, StoredAreLines, DraftIsTyped
  <2> QED
    BY <1>a, <1>b, <2>1, <2>2
<1>2. ASSUME NEW c \in Txn, NEW input \in Inputs, FinishUpdate(c, input)
      PROVE  Typed(doc'[x])
  <2> DEFINE d == call[c].doc
  <2>1. /\ d \in Doc /\ Exists(d) /\ Accepted(input) /\ input.kind = doc[d].kind
        /\ doc' = [doc EXCEPT ![d] =
             [@ EXCEPT !.from = input.from, !.to = input.to, !.date = input.date,
                       !.lines = StoredLines(input),
                       !.systemQty = [i \in DOMAIN input.lines |-> None]]]
    BY <1>2 DEF FinishUpdate, DocInv, CallsHold, EditHolds
  <2>2. CASE x # d
    BY <1>a, <1>b, <2>1, <2>2
  <2>3. CASE x = d
    <3>1. /\ doc'[x].from = input.from /\ doc'[x].to = input.to /\ doc'[x].date = input.date
          /\ doc'[x].lines = StoredLines(input) /\ doc'[x].kind = input.kind
          /\ doc'[x].reverses = doc[x].reverses /\ doc'[x].reversedBy = doc[x].reversedBy
      BY <1>a, <2>1, <2>3 DEF Absent
    <3>2. Lined(doc'[x]) /\ doc'[x].date \in Dates
      BY <2>1, <3>1, StoredAreLines DEF Lined
    <3> QED
      BY <1>b, <3>1, <3>2 DEF Typed
  <2> QED
    BY <2>2, <2>3
<1>3. ASSUME NEW c \in Txn, FinishDelete(c)
      PROVE  Typed(doc'[x])
  <2>1. doc' = [doc EXCEPT ![call[c].doc] = [Absent EXCEPT !.status = "deleted"]]
    BY <1>3 DEF FinishDelete
  <2>2. doc'[x] = doc[x] \/ doc'[x] = [Absent EXCEPT !.status = "deleted"]
    BY <1>a, <2>1
  <2>3. Typed([Absent EXCEPT !.status = "deleted"])
    BY DEF Typed, Absent
  <2> QED
    BY <1>b, <2>2, <2>3
<1>4. ASSUME NEW c \in Txn, NEW d \in Doc, BeginPost(c, d)
      PROVE  Typed(doc'[x])
  <2>1. \/ doc'[x] = doc[x]
        \/ doc'[x] = [doc[x] EXCEPT !.systemQty =
                        [i \in DOMAIN doc[d].lines |-> LevelOf(doc[d].lines[i], doc[d].from).qty]]
    BY <1>4, <1>a DEF BeginPost
  <2>2. \A f \in {"kind", "from", "to", "lines", "date", "reverses", "reversedBy", "status"} :
          doc'[x][f] = doc[x][f]
    BY <1>a, <2>1 DEF Absent
  <2>3. /\ doc'[x].kind = doc[x].kind /\ doc'[x].from = doc[x].from /\ doc'[x].to = doc[x].to
        /\ doc'[x].lines = doc[x].lines /\ doc'[x].date = doc[x].date
        /\ doc'[x].reverses = doc[x].reverses /\ doc'[x].reversedBy = doc[x].reversedBy
        /\ doc'[x].status = doc[x].status
    BY <2>2
  <2> QED
    BY <1>b, <2>3, TypedStays DEF Typed
<1>5. ASSUME NEW c \in Txn, NEW d \in Doc, NEW v \in Doc, BeginReverse(c, d, v)
      PROVE  Typed(doc'[x])
  <2>1. doc[d].status = "posted" /\ doc' = [doc EXCEPT ![v] = Draft(doc[d], doc[d].lines, d)]
    BY <1>5 DEF BeginReverse
  <2>2. Lined(doc[d]) /\ doc[d].date \in Dates
    BY <1>b, <2>1 DEF Typed
  <2>3. Typed(Draft(doc[d], doc[d].lines, d))
    BY <2>2, DraftIsTyped DEF Lined
  <2> QED
    BY <1>a, <1>b, <2>1, <2>3
<1>6. ASSUME NEW c \in Txn, NEW n, call[c].pc \in {"marking", "numbering"},
             Exists(call[c].subject), doc' = Marked(c, n)
      PROVE  Typed(doc'[x])
  <2> DEFINE s == call[c].subject
  <2>1. s \in Doc
    BY <1>6 DEF DocInv, CallsHold, CallHolds, Holding
  <2>2. doc'[x] = CASE x = s -> [doc[x] EXCEPT !.status = "posted", !.number = n]
                    [] x = call[c].doc /\ x # s /\ Exists(x) ->
                         [doc[x] EXCEPT !.status = "reversed", !.reversedBy = s]
                    [] OTHER -> doc[x]
    BY <1>6 DEF Marked
  <2>3. CASE x = s
    <3>1. doc'[x] = [doc[x] EXCEPT !.status = "posted", !.number = n]
      BY <2>2, <2>3
    <3>2. /\ doc'[x].kind = doc[x].kind /\ doc'[x].from = doc[x].from /\ doc'[x].to = doc[x].to
          /\ doc'[x].lines = doc[x].lines /\ doc'[x].date = doc[x].date
          /\ doc'[x].reverses = doc[x].reverses /\ doc'[x].reversedBy = doc[x].reversedBy
      BY <1>a, <3>1 DEF Absent
    <3>3. doc[x].status \in {"draft", "posted", "reversed"}
      BY <1>6, <2>3 DEF Exists
    <3>4. doc[x].reverses \in Doc \cup {None} /\ doc[x].reversedBy \in Doc \cup {None} /\ Typed(doc[x])
      BY <1>b DEF Typed
    <3> QED
      BY <3>2, <3>3, <3>4, TypedStays
  <2>4. CASE x = call[c].doc /\ x # s /\ Exists(x)
    <3>1. doc'[x] = [doc[x] EXCEPT !.status = "reversed", !.reversedBy = s]
      BY <2>2, <2>4
    <3>2. /\ doc'[x].kind = doc[x].kind /\ doc'[x].from = doc[x].from /\ doc'[x].to = doc[x].to
          /\ doc'[x].lines = doc[x].lines /\ doc'[x].date = doc[x].date
          /\ doc'[x].reverses = doc[x].reverses /\ doc'[x].reversedBy = s
      BY <1>a, <3>1 DEF Absent
    <3>3. doc[x].status \in {"draft", "posted", "reversed"}
      BY <2>4 DEF Exists
    <3>4. doc[x].reverses \in Doc \cup {None} /\ Typed(doc[x])
      BY <1>b DEF Typed
    <3> QED
      BY <2>1, <3>2, <3>3, <3>4, TypedStays
  <2>5. CASE x # s /\ ~(x = call[c].doc /\ Exists(x))
    BY <1>b, <2>2, <2>5
  <2> QED
    BY <2>3, <2>4, <2>5
<1>7. ASSUME doc' = doc
      PROVE  Typed(doc'[x])
  BY <1>b, <1>7
<1>8. ASSUME NEW c \in Txn, Handle(c)
      PROVE  Typed(doc'[x])
  <2>1. ASSUME NEW d \in Doc, BeginUpdate(c, d) \/ BeginDelete(c, d) PROVE doc' = doc
    BY <2>1 DEF BeginUpdate, BeginDelete
  <2>2. RecheckOpname(c) \/ PostToLedger(c) \/ Fail(c) => doc' = doc
    BY DEF RecheckOpname, PostToLedger, Fail
  <2>3. Mark(c) => Typed(doc'[x])
    BY <1>6 DEF Mark
  <2>4. NumberAndMark(c) => Typed(doc'[x])
    BY <1>6 DEF NumberAndMark
  <2> QED
    BY <1>2, <1>3, <1>4, <1>5, <1>7, <1>8, <2>1, <2>2, <2>3, <2>4 DEF Handle
<1>9. CASE UNCHANGED vars
  BY <1>7, <1>9 DEF vars
<1> QED
  BY <1>1, <1>8, <1>9 DEF Next

(* Quantities are numbers, whatever the levels.                            *)
Whole(r, k) == \A i \in DOMAIN r.moves[k] : r.moves[k][i].qty \in Int

(* The movements of any document, a count included, are finitely many.     *)
LEMMA PositionsOf ==
  ASSUME NEW d, Lined(d), NEW negate \in BOOLEAN
  PROVE  /\ IsFiniteSet(DOMAIN MovementsOf(d, negate))
         /\ DOMAIN MovementsOf(d, negate) \subseteq Int
<1>1. CASE d.kind = "stock_opname"
  <2>1. IsFiniteSet(DOMAIN d.lines) /\ DOMAIN d.lines \subseteq Int
    BY LineFacts
  <2>2. DOMAIN MovementsOf(d, negate) \in SUBSET (DOMAIN d.lines)
    BY <1>1 DEF MovementsOf, opnameMovements
  <2> QED
    BY <2>1, <2>2, FS_Subset
<1>2. CASE d.kind # "stock_opname"
  BY <1>2, MovementFacts
<1> QED
  BY <1>1, <1>2

(* A request lists the movements of each key one after the other.          *)
LEMMA RequestIsSequenced ==
  ASSUME NEW d, Lined(d), NEW negate \in BOOLEAN, NEW id
  PROVE  Sequenced(PostingRequest(id, d, negate))
<1> DEFINE ms == MovementsOf(d, negate)
           M == {ms[i].move : i \in DOMAIN ms}
<1>1. IsFiniteSet(DOMAIN ms) /\ DOMAIN ms \subseteq Int
  BY PositionsOf
<1>2. PostingRequest(id, d, negate).moves = groupByKey(ms)
  BY DEF PostingRequest
<1>3. \A i \in DOMAIN ms : ms[i].move \in M
  OBVIOUS
<1> HIDE DEF ms, M
<1>4. \A k \in Key : groupByKey(ms)[k] \in Seq(M)
  BY <1>1, <1>3, GroupingTypes
<1> QED
  BY <1>2, <1>4 DEF Sequenced

(* The movements of any document but a count move whole quantities.        *)
LEMMA RequestIsWhole ==
  ASSUME NEW d, Lined(d), d.kind # "stock_opname", NEW negate \in BOOLEAN, NEW id, NEW k \in Key
  PROVE  Whole(PostingRequest(id, d, negate), k)
<1> DEFINE ms == MovementsOf(d, negate)
           r == PostingRequest(id, d, negate)
<1>1. IsFiniteSet(DOMAIN ms) /\ DOMAIN ms \subseteq Int /\ \A i \in DOMAIN ms : ms[i].move.qty \in Int
  BY MovementFacts
<1>2. r.moves = groupByKey(ms)
  BY DEF PostingRequest
<1> HIDE DEF ms, r
<1>3. \A i \in DOMAIN r.moves[k] : r.moves[k][i].qty \in Int
  BY <1>1, <1>2, GroupingKeeps
<1> QED
  BY <1>3 DEF Whole, r

(* What a document moves in a key is a number.                             *)
LEMMA MovedType ==
  ASSUME NEW d, Lined(d), d.kind # "stock_opname", NEW k
  PROVE  Moved(d, k) \in Int
<1> DEFINE own == Own(Legs(d), k)
           f == [i \in own |-> Legs(d)[i].qty]
<1>1. own \in SUBSET DOMAIN Legs(d) /\ IsFiniteSet(own)
  BY LegFacts, FS_Subset DEF Own
<1>2. \A i \in own : f[i] \in Int
  BY <1>1, LegFacts
<1> HIDE DEF own, f
<1>3. Sum(f, own) \in Int
  BY <1>1, <1>2, SumType
<1> QED
  BY <1>3 DEF Moved, own, f

-----------------------------------------------------------------------------
(* With a costing engine that answers in numbers, and movements made of    *)
(* numbers and the dates that users enter.                                 *)
Movable == [qty : Int, cost : Int, date : Dates] \subseteq Move

Valued ==
  \A rows \in SUBSET Row : IsFiniteSet(rows) => Level(rows).qty \in Int /\ Level(rows).avg \in Int

Costed == Movable /\ Valued

(* Levels are numbers.                                                     *)
LevelsOK == DOMAIN level = Key /\ \A k \in Key : level[k].qty \in Int /\ level[k].avg \in Int

(* The level of a line's item is in numbers.                               *)
LEMMA LevelOfLine ==
  ASSUME LevelsOK, NEW d, Lined(d), NEW i \in DOMAIN d.lines, NEW w \in Warehouse
  PROVE  LevelOf(d.lines[i], w).qty \in Int /\ LevelOf(d.lines[i], w).avg \in Int
<1>1. keyOf(d.lines[i].item, w) \in Key
  BY LineFacts, KeysAssumption
<1> QED
  BY <1>1 DEF LevelsOK, LevelOf

(* At levels in numbers, the movements of a document, of a count too, are  *)
(* movements.                                                              *)
LEMMA MovementsAreMoves ==
  ASSUME Movable, LevelsOK, NEW d, Lined(d), d.date \in Dates, NEW negate \in BOOLEAN
  PROVE  \A i \in DOMAIN MovementsOf(d, negate) :
           /\ MovementsOf(d, negate)[i].move \in Move
           /\ MovementsOf(d, negate)[i].move.qty \in Int
<1>1. \A k, q, c : q \in Int /\ c \in Int => /\ Movement(k, q, c, d).move \in Move
                                             /\ Movement(k, q, c, d).move.qty \in Int
  BY DEF Movable, Movement
<1>2. /\ Len(d.lines) \in Nat /\ DOMAIN d.lines = 1..Len(d.lines)
      /\ \A i \in DOMAIN d.lines : /\ d.lines[i].qty \in Int /\ d.lines[i].cost \in Int
                                   /\ -d.lines[i].qty \in Int
  BY LineFacts
<1>3. \A i \in DOMAIN d.lines : \A w \in Warehouse :
        LevelOf(d.lines[i], w).qty \in Int /\ LevelOf(d.lines[i], w).avg \in Int
  BY LevelOfLine
<1> HIDE DEF Lined
<1>4. d.from \in Warehouse /\ d.kind \in Kind /\ (d.kind = "stock_transfer" => d.to \in Warehouse)
  BY DEF Lined
<1> SUFFICES ASSUME NEW i \in DOMAIN MovementsOf(d, negate)
             PROVE  \E k, q, c : /\ MovementsOf(d, negate)[i] = Movement(k, q, c, d)
                                 /\ q \in Int /\ c \in Int
  BY <1>1
<1>5. CASE d.kind = "goods_receipt"
  BY <1>2, <1>5 DEF MovementsOf, receiptMovements
<1>6. CASE d.kind = "delivery"
  BY <1>2, <1>6 DEF MovementsOf, deliveryMovements
<1>7. CASE d.kind = "stock_adjustment"
  BY <1>2, <1>7 DEF MovementsOf, adjustmentMovements
<1>8. CASE d.kind = "stock_opname"
  <2>1. /\ i \in DOMAIN d.lines
        /\ MovementsOf(d, negate)[i] =
             LET l == d.lines[i]
                 variance == l.qty - LevelOf(l, d.from).qty
             IN  Movement(keyOf(l.item, d.from), IF negate THEN -variance ELSE variance,
                          LevelOf(l, d.from).avg, d)
    BY <1>8 DEF MovementsOf, opnameMovements
  <2>2. \A q, l \in Int : q - l \in Int /\ -(q - l) \in Int
    OBVIOUS
  <2> QED
    BY <1>2, <1>3, <1>4, <2>1, <2>2
<1>9. CASE d.kind = "stock_transfer"
  <2> DEFINE source == IF negate THEN d.to ELSE d.from
             target == IF negate THEN d.from ELSE d.to
             l == d.lines[(i + 1) \div 2]
  <2>1. i \in 1..2 * Len(d.lines)
    BY <1>9 DEF MovementsOf, transferMovements
  <2>2. (i + 1) \div 2 \in DOMAIN d.lines
    BY <1>2, <2>1
  <2>3. MovementsOf(d, negate)[i] =
          IF i % 2 = 1 THEN Movement(keyOf(l.item, source), -l.qty, LevelOf(l, source).avg, d)
                       ELSE Movement(keyOf(l.item, target), l.qty, LevelOf(l, source).avg, d)
    BY <1>9, <2>1 DEF MovementsOf, transferMovements
  <2>4. source \in Warehouse
    BY <1>4, <1>9
  <2> QED
    BY <1>2, <1>3, <2>2, <2>3, <2>4
<1> QED
  BY <1>4, <1>5, <1>6, <1>7, <1>8, <1>9 DEF Kind

(* And so is what a request lists.                                         *)
LEMMA RequestIsTyped ==
  ASSUME Movable, LevelsOK, NEW d, Lined(d), d.date \in Dates, NEW negate \in BOOLEAN, NEW id
  PROVE  \A k \in Key : /\ PostingRequest(id, d, negate).moves[k] \in Seq(Move)
                        /\ \A i \in DOMAIN PostingRequest(id, d, negate).moves[k] :
                             PostingRequest(id, d, negate).moves[k][i].qty \in Int
<1> DEFINE ms == MovementsOf(d, negate)
           r == PostingRequest(id, d, negate)
<1>1. IsFiniteSet(DOMAIN ms) /\ DOMAIN ms \subseteq Int
  BY PositionsOf
<1>2. r.moves = groupByKey(ms)
  BY DEF PostingRequest
<1>3. \A i \in DOMAIN ms : ms[i].move \in Move
  BY MovementsAreMoves
<1>4. \A i \in DOMAIN ms : ms[i].move.qty \in Int
  BY MovementsAreMoves
<1> HIDE DEF ms, r
<1>5. \A k \in Key : r.moves[k] \in Seq(Move)
  BY <1>1, <1>2, <1>3, GroupingTypes
<1>6. \A k \in Key : \A i \in DOMAIN r.moves[k] : r.moves[k][i].qty \in Int
  BY <1>1, <1>2, <1>4, GroupingKeeps
<1> QED
  BY <1>5, <1>6 DEF r

(* What calls carry between their transactions, and the ledger keeps.      *)
CallTyped(c) ==
  /\ call[c].pc \in {"idle", "updating", "deleting", "rechecking", "posting",
                     "marking", "numbering", "done", "failed"}
  /\ call[c].doc \in Doc \cup {None} /\ call[c].subject \in Doc \cup {None}
  /\ call[c].pc \in Holding =>
       /\ Sequenced(call[c].req)
       /\ Costed => \A k \in Key : call[c].req.moves[k] \in Seq(Move)

(* The journal holds rows.                                                 *)
LedgerTyped == Costed => journal \subseteq Row /\ LevelsOK

DataInv ==
  /\ DocInv /\ DocsTyped /\ JournalOK /\ (\A c \in Txn : CallTyped(c)) /\ LedgerTyped
  /\ crossed \subseteq Doc

(* A posting enters rows of the journal's type, and its levels are those   *)
(* of such rows.                                                           *)
LEMMA PostTypes ==
  ASSUME Costed, LevelsOK, journal \subseteq Row, JournalOK, JournalOK',
         NEW c \in Txn, NEW r, Sequenced(r), r.doc \in Doc, \A k \in Key : r.moves[k] \in Seq(Move),
         journal' = journal \cup RowsOf(c, r, TouchedKeys(r), journal),
         level' = [k \in Key |-> IF k \in TouchedKeys(r)
                                 THEN Level(KeyRows(journal', k)) ELSE level[k]]
  PROVE  journal' \subseteq Row /\ LevelsOK'
<1>1. ASSUME NEW m \in RowsOf(c, r, TouchedKeys(r), journal)
      PROVE  m \in Row
  <2>1. PICK k \in TouchedKeys(r) : m \in InsertedRows(c, r, k, MaxMovementSeq(journal, k))
    BY DEF RowsOf
  <2>2. k \in Key
    BY DEF TouchedKeys
  <2> DEFINE base == MaxMovementSeq(journal, k)
  <2>3. base \in Nat
    BY <2>2, MaxSeqIsNatural
  <2> HIDE DEF base
  <2>4. PICK i \in 1..Len(r.moves[k]) :
          m = [key |-> k, seq |-> base + i, move |-> r.moves[k][i], doc |-> r.doc, txn |-> c]
    BY <2>1 DEF InsertedRows, base
  <2>5. r.moves[k][i] \in Move /\ base + i \in Nat \ {0}
    BY <2>2, <2>3 DEF Sequenced
  <2> QED
    BY <2>2, <2>4, <2>5 DEF Row
<1>2. journal' \subseteq Row
  BY <1>1
<1>3. \A k \in Key : Level(KeyRows(journal', k)).qty \in Int /\ Level(KeyRows(journal', k)).avg \in Int
  <2>1. \A k \in Key : KeyRows(journal', k) \in SUBSET Row /\ IsFiniteSet(KeyRows(journal', k))
    BY <1>2 DEF KeyRows, JournalOK
  <2> QED
    BY <2>1 DEF Costed, Valued
<1>4. \A k \in Key : level'[k].qty \in Int /\ level'[k].avg \in Int
  BY <1>3 DEF LevelsOK
<1> QED
  BY <1>2, <1>4 DEF LevelsOK

(* Postings and numbers keep the journal and the levels.                   *)
LEMMA StepLedger ==
  ASSUME DataInv, [Next]_vars
  PROVE  JournalOK' /\ LedgerTyped'
<1>1. ASSUME journal' = journal, outcome' = outcome, level' = level
      PROVE  JournalOK' /\ LedgerTyped'
  BY <1>1 DEF DataInv, JournalOK, LedgerTyped, RowsOK, Entered, LevelsOK
<1>2. ASSUME NEW c \in Txn, PostToLedger(c)
      PROVE  JournalOK' /\ LedgerTyped'
  <2> DEFINE r == call[c].req
  <2>1. call[c].pc \in Holding /\ Ledger!Post(c, r)
    BY <1>2 DEF PostToLedger, Holding
  <2>2. r.series \in Series /\ r.doc \in Doc
    BY <2>1 DEF DataInv, DocInv, CallsHold, CallHolds
  <2>3. Sequenced(r) /\ (Costed => \A k \in Key : r.moves[k] \in Seq(Move))
    BY <2>1 DEF DataInv, CallTyped
  <2>4. Ledger!Number(c, r)
    BY <2>1 DEF Ledger!Post
  <2>5. Shape /\ JournalOK /\ LedgerTyped
    BY DEF DataInv, DocInv
  <2> HIDE DEF r
  <2>6. /\ outcome'[c] # NoOutcome /\ outcome'[c].req = r
        /\ outcome' = [outcome EXCEPT ![c] = [req |-> r, number |-> nextSeq[r.series]]]
    BY <2>2, <2>4, <2>5, NumberIsRecorded
  <2>7. \A u \in Txn \ {c} : outcome'[u] = outcome[u]
    BY <2>6
  <2>8. /\ outcome[c] = NoOutcome
        /\ journal' = journal \cup RowsOf(c, r, TouchedKeys(r), journal)
        /\ level' = [k \in Key |-> IF k \in TouchedKeys(r)
                                   THEN Level(KeyRows(journal', k)) ELSE level[k]]
    BY <2>1, LedgerPosts
  <2>9. JournalOK'
    BY <2>3, <2>5, <2>6, <2>7, <2>8, PostEnters
  <2>10. Costed => journal' \subseteq Row /\ LevelsOK'
    BY <2>2, <2>3, <2>5, <2>8, <2>9, PostTypes DEF LedgerTyped
  <2> QED
    BY <2>9, <2>10 DEF LedgerTyped
<1>3. ASSUME NEW c \in Txn, NumberAndMark(c)
      PROVE  JournalOK' /\ LedgerTyped'
  <2> DEFINE r == call[c].req
  <2>1. call[c].pc \in Holding /\ Ledger!Assign(c, r)
    BY <1>3 DEF NumberAndMark, Holding
  <2>2. r.series \in Series
    BY <2>1 DEF DataInv, DocInv, CallsHold, CallHolds
  <2>3. Sequenced(r)
    BY <2>1 DEF DataInv, CallTyped
  <2>4. Ledger!Number(c, r) /\ journal' = journal /\ level' = level /\ TouchedKeys(r) = {}
    BY <2>1 DEF Ledger!Assign, Ledger!TouchedKeys, TouchedKeys
  <2>5. Shape /\ JournalOK /\ LedgerTyped
    BY DEF DataInv, DocInv
  <2> HIDE DEF r
  <2>6. /\ outcome[c] = NoOutcome /\ outcome'[c] # NoOutcome /\ outcome'[c].req = r
        /\ outcome' = [outcome EXCEPT ![c] = [req |-> r, number |-> nextSeq[r.series]]]
    BY <2>2, <2>4, <2>5, NumberIsRecorded
  <2>7. \A u \in Txn \ {c} : outcome'[u] = outcome[u]
    BY <2>6
  <2>8. JournalOK'
    BY <2>3, <2>4, <2>5, <2>6, <2>7, AssignEnters
  <2> QED
    BY <2>4, <2>5, <2>8 DEF LedgerTyped, LevelsOK
<1>4. ASSUME NEW c \in Txn, NEW d \in Doc, NEW v \in Doc,
             BeginUpdate(c, d) \/ BeginDelete(c, d) \/ BeginPost(c, d) \/ BeginReverse(c, d, v)
      PROVE  UNCHANGED ledgerVars
  BY <1>4 DEF BeginUpdate, BeginDelete, BeginPost, BeginReverse
<1>5. ASSUME NEW c \in Txn, NEW input \in Inputs,
             FinishUpdate(c, input) \/ FinishDelete(c) \/ RecheckOpname(c) \/ Mark(c) \/ Fail(c)
      PROVE  UNCHANGED ledgerVars
  BY <1>5 DEF FinishUpdate, FinishDelete, RecheckOpname, Mark, Fail
<1>6. ASSUME NEW d \in Doc, NEW input \in Inputs, Create(d, input)
      PROVE  UNCHANGED ledgerVars
  BY <1>6 DEF Create
<1>7. ASSUME NEW c \in Txn, FinishDelete(c) \/ RecheckOpname(c) \/ Mark(c) \/ Fail(c)
      PROVE  UNCHANGED ledgerVars
  BY <1>7 DEF FinishDelete, RecheckOpname, Mark, Fail
<1>8. \/ UNCHANGED ledgerVars
      \/ \E c \in Txn : PostToLedger(c) \/ NumberAndMark(c)
  <2>1. CASE UNCHANGED vars
    BY <2>1 DEF vars
  <2>2. CASE Next
    BY <1>4, <1>5, <1>6, <1>7, <2>2 DEF Next, Handle
  <2> QED
    BY <2>1, <2>2
<1> QED
  BY <1>1, <1>2, <1>3, <1>8 DEF ledgerVars

(* A call that moves on with what it carries.                              *)
LEMMA CallTypedStays ==
  ASSUME NEW u \in Txn, CallTyped(u),
         call'[u].doc = call[u].doc, call'[u].subject = call[u].subject, call'[u].req = call[u].req,
         \/ call'[u].pc = call[u].pc
         \/ call'[u].pc \in {"done", "failed"}
         \/ call'[u].pc \in {"posting", "marking"} /\ call[u].pc \in Holding
  PROVE  CallTyped(u)'
<1>1. call'[u].pc \in Holding => call[u].pc \in Holding
  BY DEF Holding
<1> QED
  BY <1>1 DEF CallTyped

(* Calls keep what they carry.                                             *)
LEMMA StepCalls ==
  ASSUME DataInv, [Next]_vars
  PROVE  \A u \in Txn : CallTyped(u)'
<1>a. DocInv /\ \A u \in Txn : CallTyped(u)
  BY DEF DataInv
<1> SUFFICES ASSUME NEW u \in Txn PROVE CallTyped(u)'
  OBVIOUS
<1>b. ASSUME call'[u] = call[u]
      PROVE  CallTyped(u)'
  BY <1>a, <1>b, CallTypedStays
<1>c. ASSUME NEW d \in Doc, doc[d].status \in {"draft", "posted"}, NEW negate \in BOOLEAN, NEW id
      PROVE  /\ Sequenced(PostingRequest(id, doc[d], negate))
             /\ Costed => \A k \in Key : PostingRequest(id, doc[d], negate).moves[k] \in Seq(Move)
  <2>1. Lined(doc[d]) /\ doc[d].date \in Dates
    BY <1>c DEF DataInv, DocsTyped, Typed
  <2>2. Costed => LevelsOK /\ Movable
    BY DEF DataInv, LedgerTyped, Costed
  <2> QED
    BY <2>1, <2>2, RequestIsSequenced, RequestIsTyped
<1>1. ASSUME NEW c \in Txn, NEW pc \in {"rechecking", "posting", "numbering", "updating", "deleting"},
             NEW op, NEW d \in Doc, NEW s \in Doc, NEW r, Unanswered(c, pc, op, d, s, r),
             pc \in Holding => /\ Sequenced(r)
                               /\ Costed => \A k \in Key : r.moves[k] \in Seq(Move)
      PROVE  CallTyped(u)'
  <2>1. /\ call'[c].pc = pc /\ call'[c].doc = d /\ call'[c].subject = s /\ call'[c].req = r
        /\ \A x \in Txn \ {c} : call'[x] = call[x]
    BY <1>a, <1>1, CallBegins
  <2>2. CallTyped(c)'
    BY <1>1, <2>1 DEF CallTyped
  <2> QED
    BY <1>b, <2>1, <2>2
<1>2. ASSUME NEW c \in Txn, NEW pc, GoTo(c, pc),
             pc \in {"done", "failed"} \/ (pc \in {"posting", "marking"} /\ call[c].pc \in Holding)
      PROVE  CallTyped(u)'
  BY <1>a, <1>2, CallMovesOn, CallTypedStays
<1>3. ASSUME NEW c \in Txn, NEW d \in Doc, BeginUpdate(c, d) \/ BeginDelete(c, d)
      PROVE  CallTyped(u)'
  <2>1. \E pc \in {"updating", "deleting"} : \E op : Unanswered(c, pc, op, d, d, None)
    BY <1>3 DEF BeginUpdate, BeginDelete
  <2> QED
    BY <1>1, <2>1 DEF Holding
<1>4. ASSUME NEW c \in Txn, NEW d \in Doc, BeginPost(c, d)
      PROVE  CallTyped(u)'
  <2> DEFINE r == PostingRequest(d, doc[d], FALSE)
  <2>1. /\ doc[d].status = "draft"
        /\ \E pc \in {"numbering", "rechecking", "posting"} : Unanswered(c, pc, "post", d, d, r)
    BY <1>4 DEF BeginPost
  <2>2. Sequenced(r) /\ (Costed => \A k \in Key : r.moves[k] \in Seq(Move))
    BY <1>c, <2>1
  <2> HIDE DEF r
  <2> QED
    BY <1>1, <2>1, <2>2
<1>5. ASSUME NEW c \in Txn, NEW d \in Doc, NEW v \in Doc, BeginReverse(c, d, v)
      PROVE  CallTyped(u)'
  <2> DEFINE r == PostingRequest(v, doc[d], TRUE)
  <2>1. /\ doc[d].status = "posted"
        /\ \E pc \in {"numbering", "posting"} : Unanswered(c, pc, "reverse", d, v, r)
    BY <1>5 DEF BeginReverse
  <2>2. Sequenced(r) /\ (Costed => \A k \in Key : r.moves[k] \in Seq(Move))
    BY <1>c, <2>1
  <2> HIDE DEF r
  <2> QED
    BY <1>1, <2>1, <2>2
<1>6. ASSUME NEW c \in Txn, NEW input \in Inputs, FinishUpdate(c, input)
      PROVE  CallTyped(u)'
  BY <1>2, <1>6 DEF FinishUpdate
<1>7. ASSUME NEW c \in Txn, FinishDelete(c) \/ Mark(c) \/ NumberAndMark(c) \/ Fail(c)
      PROVE  CallTyped(u)'
  BY <1>2, <1>7 DEF FinishDelete, Mark, NumberAndMark, Fail
<1>8. ASSUME NEW c \in Txn, RecheckOpname(c) \/ PostToLedger(c)
      PROVE  CallTyped(u)'
  BY <1>2, <1>8 DEF RecheckOpname, PostToLedger, Holding
<1>9. ASSUME NEW d \in Doc, NEW input \in Inputs, Create(d, input)
      PROVE  CallTyped(u)'
  BY <1>b, <1>9 DEF Create
<1>10. CASE UNCHANGED vars
  BY <1>b, <1>10 DEF vars
<1> QED
  BY <1>3, <1>4, <1>5, <1>6, <1>7, <1>8, <1>9, <1>10 DEF Next, Handle

(* At the start there is nothing.                                          *)
LEMMA InitData == Init => DataInv
<1> SUFFICES ASSUME Init PROVE DataInv
  OBVIOUS
<1>1. /\ journal = {} /\ level = [k \in Key |-> Level({})] /\ outcome = [t \in Txn |-> NoOutcome]
      /\ doc = [d \in Doc |-> Absent] /\ call = [c \in Txn |-> NoCall] /\ crossed = {}
  BY DEF Init, Ledger!Init, Ledger!NoOutcome, NoOutcome
<1>2. DocsTyped
  BY <1>1 DEF DocsTyped, Typed, Absent
<1>3. JournalOK
  <2>1. \A k \in Key : KeyRows(journal, k) = {}
    BY <1>1 DEF KeyRows
  <2> QED
    BY <1>1, <2>1, FS_EmptySet DEF JournalOK
<1>4. \A c \in Txn : CallTyped(c)
  BY <1>1 DEF CallTyped, NoCall, Holding
<1>5. LedgerTyped
  <2>1. Costed => Level({}).qty \in Int /\ Level({}).avg \in Int
    BY FS_EmptySet DEF Costed, Valued
  <2> QED
    BY <1>1, <2>1 DEF LedgerTyped, LevelsOK
<1> QED
  BY <1>1, <1>2, <1>3, <1>4, <1>5, InitDoc DEF DataInv

(* Only documents are crossed.                                             *)
LEMMA StepCrossed ==
  ASSUME crossed \subseteq Doc, [Next]_vars
  PROVE  crossed' \subseteq Doc
<1>a. ASSUME NEW c \in Txn, NEW d \in Doc, NEW s \in Doc,
             crossed' = crossed \cup {e \in {d, s} : InHand(e)}
      PROVE  crossed' \subseteq Doc
  BY <1>a
<1>1. ASSUME NEW c \in Txn, NEW d \in Doc, BeginUpdate(c, d) \/ BeginDelete(c, d) \/ BeginPost(c, d)
      PROVE  crossed' \subseteq Doc
  BY <1>1, <1>a DEF BeginUpdate, BeginDelete, BeginPost, Unanswered
<1>b. ASSUME NEW c \in Txn, NEW d \in Doc, NEW v \in Doc, BeginReverse(c, d, v)
      PROVE  crossed' \subseteq Doc
  BY <1>b, <1>a DEF BeginReverse, Unanswered
<1>2. ASSUME NEW c \in Txn, NEW pc, GoTo(c, pc)
      PROVE  crossed' = crossed
  BY <1>2 DEF GoTo
<1>3. ASSUME NEW c \in Txn, Handle(c)
      PROVE  crossed' \subseteq Doc
  BY <1>1, <1>b, <1>2, <1>3 DEF Handle, FinishUpdate, FinishDelete, RecheckOpname, PostToLedger,
                                Mark, NumberAndMark, Fail
<1> QED
  BY <1>3 DEF Next, Create, vars

(* Every step keeps all of it.                                             *)
LEMMA StepData ==
  ASSUME DataInv, [Next]_vars
  PROVE  DataInv'
BY StepLedger, StepCalls, StepDocs, StepCrossed, NextDoc DEF DataInv

(* Documents, calls and the journal keep their types, with a costing       *)
(* engine that answers in numbers and movements made of the numbers and    *)
(* dates that users enter (goods_receipts.go:413-421: a reversal has the   *)
(* lines of its original).                                                 *)
THEOREM DocumentsStayTyped ==
  ASSUME Costed
  PROVE  Spec => []TypeOK
<1>1. DataInv /\ [Next]_vars => DataInv'
  BY StepData
<1>2. DataInv => TypeOK
  <2> SUFFICES ASSUME DataInv PROVE TypeOK
    OBVIOUS
  <2>1. journal \subseteq Row /\ DOMAIN level = Key
    BY DEF DataInv, LedgerTyped, LevelsOK
  <2>2. /\ nextSeq \in [Series -> Nat \ {0}] /\ DOMAIN outcome = Txn
        /\ \A d \in Doc : doc[d].status \in {"none", "draft", "posted", "reversed", "deleted"}
    BY DEF DataInv, DocInv, Shape, Status
  <2>3. \A d \in Doc : /\ doc[d].reverses \in Doc \cup {None} /\ doc[d].reversedBy \in Doc \cup {None}
                       /\ Exists(d) => doc[d].kind \in Kind /\ Len(doc[d].lines) \in 1..MaxLines
    BY DEF DataInv, DocsTyped, Typed, Lined, Exists
  <2>4. (\A c \in Txn : CallTyped(c)) /\ crossed \subseteq Doc
    BY DEF DataInv
  <2> QED
    BY <2>1, <2>2, <2>3, <2>4 DEF TypeOK, CallTyped
<1> QED
  BY <1>1, <1>2, InitData, PTL DEF Spec

-----------------------------------------------------------------------------
(* What a document says of the stock it moves.                             *)
Same(e, f) ==
  /\ f.kind = e.kind /\ f.from = e.from /\ f.to = e.to /\ f.lines = e.lines
  /\ f.systemQty = e.systemQty /\ f.reverses = e.reverses

(* What is the same of a document moves the same.                          *)
LEMMA SameMoved ==
  ASSUME NEW e, NEW f, Same(e, f), NEW k
  PROVE  Moved(f, k) = Moved(e, k)
<1>1. Legs(f) = Legs(e)
  BY DEF Legs, Same
<1> QED
  BY <1>1 DEF Moved

(* A call that is to post holds the document.                              *)
Held(d) == \E u \in Txn : call[u].pc \in Holding /\ d \in {call[u].doc, call[u].subject}

MarksReversed(c, d) ==
  /\ call[c].pc \in {"marking", "numbering"} /\ call'[c].pc = "done"
  /\ call'[c].doc = d /\ call'[c].subject = doc'[d].reversedBy /\ doc'[d].reversedBy # d
  /\ outcome'[c] # NoOutcome

(* Documents that are crossed stay so.                                     *)
LEMMA CrossedGrows ==
  ASSUME [Next]_vars
  PROVE  crossed \subseteq crossed'
<1>1. ASSUME NEW c \in Txn, Handle(c)
      PROVE  crossed \subseteq crossed'
  BY <1>1 DEF Handle, BeginUpdate, BeginDelete, BeginPost, BeginReverse, FinishUpdate,
              FinishDelete, RecheckOpname, PostToLedger, Mark, NumberAndMark, Fail,
              Unanswered, GoTo
<1> QED
  BY <1>1 DEF Next, Create, vars

(* Nothing changes what a document that is not crossed moves once it is    *)
(* posted, or a call that is to post holds it; and it is marked reversed   *)
(* by the call that posted its reversal, or was so before.                 *)
LEMMA StepKeeps ==
  ASSUME SteadyInv, [Next]_vars, NEW d \in Doc, d \notin crossed'
  PROVE  /\ Final(d) \/ Held(d) => Same(doc[d], doc'[d])
         /\ doc'[d].status = "reversed" =>
              \/ doc[d].status = "reversed" /\ doc'[d] = doc[d]
              \/ \E c \in Txn : MarksReversed(c, d)
<1> DEFINE Goal == /\ Final(d) \/ Held(d) => Same(doc[d], doc'[d])
                   /\ doc'[d].status = "reversed" =>
                        \/ doc[d].status = "reversed" /\ doc'[d] = doc[d]
                        \/ \E c \in Txn : MarksReversed(c, d)
<1>a. /\ DocInv /\ DOMAIN doc = Doc /\ DOMAIN call = Txn
      /\ \A e \in Doc : DOMAIN doc[e] = DOMAIN Absent
  BY DEF SteadyInv, DocInv, Shape
<1>b. \A u \in Txn : call[u].pc \in Holding => Active(u)
  BY DEF Holding, Active
<1>c. \A e \in Doc : Held(e) => doc[e].status # "none"
  <2> SUFFICES ASSUME NEW e \in Doc, NEW u \in Txn, call[u].pc \in Holding,
                      e \in {call[u].doc, call[u].subject}
               PROVE  doc[e].status # "none"
    BY DEF Held
  <2> QED
    BY <1>b DEF SteadyInv, Steady, CallOK
<1>d. doc'[d] = doc[d] => Goal
  BY DEF Same
<1> HIDE DEF Goal
<1>1. ASSUME NEW e \in Doc, NEW input \in Inputs, Create(e, input)
      PROVE  Goal
  <2>1. doc[e].status = "none" /\ doc' = [doc EXCEPT ![e] = Draft(input, StoredLines(input), None)]
    BY <1>1 DEF Create
  <2>2. CASE d = e
    <3>1. doc'[d].status = "draft"
      BY <1>a, <2>1, <2>2 DEF Draft
    <3> QED
      BY <1>c, <2>1, <2>2, <3>1 DEF Goal, Final
  <2> QED
    BY <1>a, <1>d, <2>1, <2>2
<1>2. ASSUME NEW c \in Txn, NEW e \in Doc, BeginPost(c, e)
      PROVE  Goal
  <2>1. /\ doc[e].status = "draft" /\ (InHand(e) => e \in crossed')
        /\ \/ doc' = doc
           \/ doc' = [doc EXCEPT ![e].systemQty =
                        [i \in DOMAIN doc[e].lines |-> LevelOf(doc[e].lines[i], doc[e].from).qty]]
    BY <1>2 DEF BeginPost, Unanswered
  <2>2. CASE d = e
    <3>1. ~Held(d) /\ ~Final(d)
      BY <1>b, <2>1, <2>2 DEF Held, InHand, Final
    <3>2. doc'[d].status = "draft"
      BY <1>a, <2>1, <2>2 DEF Absent
    <3> QED
      BY <3>1, <3>2 DEF Goal
  <2> QED
    BY <1>a, <1>d, <2>1, <2>2
<1>3. ASSUME NEW c \in Txn, NEW e \in Doc, NEW v \in Doc, BeginReverse(c, e, v)
      PROVE  Goal
  <2>1. doc[v].status = "none" /\ doc' = [doc EXCEPT ![v] = Draft(doc[e], doc[e].lines, e)]
    BY <1>3 DEF BeginReverse
  <2>2. CASE d = v
    <3>1. doc'[d].status = "draft"
      BY <1>a, <2>1, <2>2 DEF Draft
    <3> QED
      BY <1>c, <2>1, <2>2, <3>1 DEF Goal, Final
  <2> QED
    BY <1>a, <1>d, <2>1, <2>2
<1>4. ASSUME NEW c \in Txn, call[c].pc \in {"updating", "deleting"},
             crossed' = crossed,
             call[c].doc \notin crossed => doc'[call[c].doc].status # "reversed",
             \A e \in Doc \ {call[c].doc} : doc'[e] = doc[e]
      PROVE  Goal
  <2>1. CASE d = call[c].doc
    <3>1. ~Final(d)
      BY <1>4, <2>1 DEF SteadyInv, Steady, CallOK, Active, Final
    <3>2. ~Held(d)
      <4> SUFFICES ASSUME NEW u \in Txn, call[u].pc \in Holding, d \in {call[u].doc, call[u].subject}
                   PROVE  FALSE
        BY DEF Held
      <4>1. u # c /\ Active(u) /\ Active(c)
        BY <1>4 DEF Holding, Active
      <4> QED
        BY <1>4, <2>1, <4>1 DEF SteadyInv, Steady, Met
    <3> QED
      BY <1>4, <2>1, <3>1, <3>2 DEF Goal
  <2> QED
    BY <1>4, <1>d, <2>1
<1>5. ASSUME NEW c \in Txn, NEW input \in Inputs, FinishUpdate(c, input)
      PROVE  Goal
  <2>1. /\ call[c].pc = "updating" /\ call[c].doc \in Doc /\ crossed' = crossed
        /\ call[c].doc \notin crossed => doc[call[c].doc].status = "draft"
    BY <1>5 DEF FinishUpdate, GoTo, SteadyInv, Steady, CallOK, Active
  <2>2. doc'[call[c].doc].status = doc[call[c].doc].status /\ \A e \in Doc \ {call[c].doc} : doc'[e] = doc[e]
    BY <1>5, <1>a, <2>1 DEF FinishUpdate, Absent
  <2> QED
    BY <1>4, <2>1, <2>2
<1>6. ASSUME NEW c \in Txn, FinishDelete(c)
      PROVE  Goal
  <2>1. /\ call[c].pc = "deleting" /\ call[c].doc \in Doc /\ crossed' = crossed
        /\ doc' = [doc EXCEPT ![call[c].doc] = [Absent EXCEPT !.status = "deleted"]]
    BY <1>6 DEF FinishDelete, GoTo, SteadyInv, Steady, CallOK, Active
  <2>2. doc'[call[c].doc].status = "deleted" /\ \A e \in Doc \ {call[c].doc} : doc'[e] = doc[e]
    BY <1>a, <2>1 DEF Absent
  <2> QED
    BY <1>4, <2>1, <2>2
<1>7. ASSUME NEW c \in Txn, NEW n, call[c].pc \in {"marking", "numbering"}, doc' = Marked(c, n),
             GoTo(c, "done"), outcome'[c] # NoOutcome
      PROVE  Goal
  <2> DEFINE s == call[c].subject
             o == call[c].doc
  <2>1. doc'[d] = CASE d = s -> [doc[d] EXCEPT !.status = "posted", !.number = n]
                    [] d = o /\ d # s /\ Exists(d) ->
                         [doc[d] EXCEPT !.status = "reversed", !.reversedBy = s]
                    [] OTHER -> doc[d]
    BY <1>7 DEF Marked
  <2>2. CASE d = s
    <3>1. doc'[d] = [doc[d] EXCEPT !.status = "posted", !.number = n]
      BY <2>1, <2>2
    <3>2. doc'[d].status = "posted" /\ Same(doc[d], doc'[d])
      BY <1>a, <3>1 DEF Absent, Same
    <3> QED
      BY <3>2 DEF Goal
  <2>3. CASE d = o /\ d # s /\ Exists(d)
    <3>1. doc'[d] = [doc[d] EXCEPT !.status = "reversed", !.reversedBy = s]
      BY <2>1, <2>3
    <3>2. doc'[d].reversedBy = s /\ Same(doc[d], doc'[d])
      BY <1>a, <3>1 DEF Absent, Same
    <3>3. call'[c].pc = "done" /\ call'[c].doc = o /\ call'[c].subject = s
      BY <1>7, <1>a, CallMovesOn
    <3>4. MarksReversed(c, d)
      BY <1>7, <2>3, <3>2, <3>3 DEF MarksReversed
    <3> QED
      BY <3>2, <3>4 DEF Goal
  <2>4. CASE d # s /\ ~(d = o /\ Exists(d))
    BY <1>d, <2>1, <2>4
  <2> QED
    BY <2>2, <2>3, <2>4
<1>8. ASSUME NEW c \in Txn, Mark(c)
      PROVE  Goal
  <2>1. call[c].pc = "marking" /\ outcome' = outcome
    BY <1>8 DEF Mark, ledgerVars
  <2>2. outcome'[c] # NoOutcome
    BY <1>a, <2>1 DEF DocInv, CallsHold, CallHolds, Holding
  <2> QED
    BY <1>7, <1>8, <2>2 DEF Mark
<1>9. ASSUME NEW c \in Txn, NumberAndMark(c)
      PROVE  Goal
  <2>1. call[c].pc = "numbering" /\ Ledger!Number(c, call[c].req)
    BY <1>9 DEF NumberAndMark, Ledger!Assign
  <2>2. call[c].req.series \in Series /\ Shape
    BY <1>a, <2>1 DEF DocInv, CallsHold, CallHolds, Holding
  <2>3. outcome'[c] # NoOutcome
    BY <2>1, <2>2, NumberIsRecorded
  <2> QED
    BY <1>7, <1>9, <2>3 DEF NumberAndMark
<1>10. ASSUME NEW c \in Txn, NEW e \in Doc,
              BeginUpdate(c, e) \/ BeginDelete(c, e) \/ RecheckOpname(c) \/ PostToLedger(c) \/ Fail(c)
       PROVE  Goal
  BY <1>10, <1>d DEF BeginUpdate, BeginDelete, RecheckOpname, PostToLedger, Fail
<1>11. ASSUME UNCHANGED vars PROVE Goal
  BY <1>11, <1>d DEF vars
<1>12. Goal
  BY <1>1, <1>2, <1>3, <1>5, <1>6, <1>8, <1>9, <1>10, <1>11 DEF Next, Handle
<1> QED
  BY <1>12 DEF Goal

(* A call that is over stays over, and its posting in the ledger.          *)
LEMMA DoneStays ==
  ASSUME SteadyInv, [Next]_vars, NEW u \in Txn, call[u].pc = "done", outcome[u] # NoOutcome
  PROVE  call'[u] = call[u] /\ outcome'[u] = outcome[u]
<1>a. DocInv /\ DOMAIN call = Txn
  BY DEF SteadyInv, DocInv, Shape
<1>1. ASSUME NEW c \in Txn, NEW d \in Doc, NEW v \in Doc,
             BeginUpdate(c, d) \/ BeginDelete(c, d) \/ BeginPost(c, d) \/ BeginReverse(c, d, v)
      PROVE  call'[u] = call[u] /\ outcome'[u] = outcome[u]
  <2>1. call[c].pc = "idle" /\ outcome' = outcome
    BY <1>1 DEF BeginUpdate, BeginDelete, BeginPost, BeginReverse, Starts, ledgerVars
  <2>2. \E r : call' = [call EXCEPT ![c] = r]
    BY <1>1 DEF BeginUpdate, BeginDelete, BeginPost, BeginReverse, Unanswered
  <2> QED
    BY <2>1, <2>2
<1>2. ASSUME NEW c \in Txn, NEW pc, GoTo(c, pc), Active(c), \A x \in Txn \ {c} : outcome'[x] = outcome[x]
      PROVE  call'[u] = call[u] /\ outcome'[u] = outcome[u]
  <2>1. c # u
    BY <1>2 DEF Active
  <2> QED
    BY <1>2, <2>1 DEF GoTo
<1>3. ASSUME NEW c \in Txn, NEW input \in Inputs, FinishUpdate(c, input)
      PROVE  call'[u] = call[u] /\ outcome'[u] = outcome[u]
  BY <1>2, <1>3 DEF FinishUpdate, Active, ledgerVars
<1>4. ASSUME NEW c \in Txn, FinishDelete(c) \/ RecheckOpname(c) \/ Mark(c) \/ Fail(c)
      PROVE  call'[u] = call[u] /\ outcome'[u] = outcome[u]
  BY <1>2, <1>4 DEF FinishDelete, RecheckOpname, Mark, Fail, Active, ledgerVars
<1>5. ASSUME NEW c \in Txn, PostToLedger(c) \/ NumberAndMark(c)
      PROVE  call'[u] = call[u] /\ outcome'[u] = outcome[u]
  <2>1. /\ call[c].pc \in Holding /\ Active(c) /\ Ledger!Number(c, call[c].req)
        /\ \E pc : GoTo(c, pc)
    BY <1>5 DEF PostToLedger, NumberAndMark, Ledger!Post, Ledger!Assign, Holding, Active
  <2>2. call[c].req.series \in Series /\ Shape
    BY <1>a, <2>1 DEF DocInv, CallsHold, CallHolds
  <2>3. outcome' = [outcome EXCEPT ![c] = [req |-> call[c].req, number |-> nextSeq[call[c].req.series]]]
    BY <2>1, <2>2, NumberIsRecorded
  <2>4. \A x \in Txn \ {c} : outcome'[x] = outcome[x]
    BY <2>3
  <2> QED
    BY <1>2, <2>1, <2>4
<1>6. ASSUME NEW d \in Doc, NEW input \in Inputs, Create(d, input)
      PROVE  call'[u] = call[u] /\ outcome'[u] = outcome[u]
  BY <1>6 DEF Create, ledgerVars
<1>7. CASE UNCHANGED vars
  BY <1>7 DEF vars, ledgerVars
<1>8. ASSUME NEW c \in Txn, NEW d \in Doc, BeginUpdate(c, d) \/ BeginDelete(c, d) \/ BeginPost(c, d)
      PROVE  call'[u] = call[u] /\ outcome'[u] = outcome[u]
  BY <1>1, <1>8
<1> QED
  BY <1>1, <1>3, <1>4, <1>5, <1>6, <1>7, <1>8 DEF Next, Handle

-----------------------------------------------------------------------------
(* What the posting of a call does, as the documents tell it.              *)
Effect(c, k) ==
  IF call[c].doc = call[c].subject THEN Moved(doc[call[c].subject], k)
                                   ELSE -Moved(doc[call[c].doc], k)

(* A call that is to post, or has.                                         *)
Books(c) == call[c].pc \in Holding \/ (call[c].pc = "done" /\ outcome[c] # NoOutcome)

(* Documents that are crossed may be changed behind the call's back.  A    *)
(* count is booked at levels that only a costing engine knows, and its     *)
(* reversal at levels of another moment.                                   *)
Told(c) ==
  Books(c) =>
    /\ call[c].doc \in Doc /\ call[c].subject \in Doc
    /\ call[c].pc = "done" => \A d \in {call[c].doc, call[c].subject} \ crossed : Final(d)
    /\ outcome[c] # NoOutcome => outcome[c].req = call[c].req
    /\ call[c].doc # call[c].subject /\ call[c].subject \notin crossed =>
         doc[call[c].subject].reverses = call[c].doc
    /\ call[c].doc \notin crossed
         /\ (doc[call[c].doc].kind # "stock_opname" \/ (Costed /\ call[c].doc = call[c].subject)) =>
         \A k \in Key : NetReq(call[c].req, k) = Effect(c, k) /\ Whole(call[c].req, k)

(* The call that reversed d.                                               *)
Reverses(u, d) ==
  /\ call[u].pc = "done" /\ outcome[u] # NoOutcome
  /\ call[u].doc = d /\ call[u].subject = doc[d].reversedBy /\ doc[d].reversedBy # d

Reversed(d) == doc[d].status = "reversed" /\ d \notin crossed => \E u \in Txn : Reverses(u, d)

EffectInv ==
  /\ SteadyInv /\ DataInv
  /\ \A c \in Txn : Told(c)
  /\ \A d \in Doc : Reversed(d)

(* A call that goes on, or is over, tells what it told.                    *)
LEMMA ToldStays ==
  ASSUME NEW c \in Txn, Told(c), Books(c)' => Books(c), crossed \subseteq crossed',
         call'[c].doc = call[c].doc, call'[c].subject = call[c].subject, call'[c].req = call[c].req,
         Books(c) => \A d \in {call[c].doc, call[c].subject} \ crossed' : Same(doc[d], doc'[d]),
         Books(c) /\ call'[c].pc = "done" =>
           \A d \in {call[c].doc, call[c].subject} \ crossed' : Final(d)',
         Books(c) /\ outcome'[c] # NoOutcome => outcome'[c].req = call[c].req
  PROVE  Told(c)'
<1> SUFFICES ASSUME Books(c)' PROVE Told(c)'
  BY DEF Told
<1> DEFINE d == call[c].doc
           s == call[c].subject
<1>1. Books(c) /\ call'[c].doc = d /\ call'[c].subject = s
  OBVIOUS
<1>2. /\ d \in Doc /\ s \in Doc
      /\ d # s /\ s \notin crossed => doc[s].reverses = d
      /\ d \notin crossed /\ (doc[d].kind # "stock_opname" \/ (Costed /\ d = s)) =>
           \A k \in Key : NetReq(call[c].req, k) = Effect(c, k) /\ Whole(call[c].req, k)
  BY <1>1 DEF Told
<1>3. /\ d \notin crossed' => Same(doc[d], doc'[d])
      /\ s \notin crossed' => Same(doc[s], doc'[s])
  BY <1>1
<1>4. ASSUME d \notin crossed'
      PROVE  \A k : Effect(c, k)' = Effect(c, k)
  <2> SUFFICES ASSUME NEW k PROVE Effect(c, k)' = Effect(c, k)
    OBVIOUS
  <2>1. Moved(doc'[d], k) = Moved(doc[d], k)
    BY <1>3, <1>4, SameMoved
  <2> QED
    BY <1>1, <2>1 DEF Effect
<1>5. /\ d \notin crossed' => doc'[d].kind = doc[d].kind
      /\ s \notin crossed' => doc'[s].reverses = doc[s].reverses
  BY <1>3 DEF Same
<1> QED
  BY <1>1, <1>2, <1>4, <1>5 DEF Told

(* What is posted stays, whatever the step.                                *)
LEMMA CallsKept ==
  ASSUME EffectInv, [Next]_vars, NEW u \in Txn,
         call'[u] = call[u], outcome'[u] = outcome[u]
  PROVE  Told(u)'
<1>1. Books(u)' <=> Books(u)
  BY DEF Books
<1>2. Told(u) /\ SteadyInv
  BY DEF EffectInv
<1>a. crossed \subseteq crossed'
  BY CrossedGrows
<1>3. \A d \in Doc : Lasts(d)
  BY <1>2, StepSteady
<1>4. ASSUME Books(u)
      PROVE  \A d \in {call[u].doc, call[u].subject} \ crossed' : Same(doc[d], doc'[d])
  <2>1. call[u].doc \in Doc /\ call[u].subject \in Doc
    BY <1>2, <1>4 DEF Told
  <2>2. \A d \in {call[u].doc, call[u].subject} \ crossed' : d \in Doc /\ (Final(d) \/ Held(d))
    BY <1>2, <1>4, <1>a, <2>1 DEF Told, Books, Held
  <2> QED
    BY <1>2, <2>2, StepKeeps
<1>5. ASSUME Books(u), call'[u].pc = "done"
      PROVE  \A d \in {call[u].doc, call[u].subject} \ crossed' : Final(d)'
  BY <1>2, <1>3, <1>5, <1>a DEF Told, Lasts
<1>6. Books(u) /\ outcome'[u] # NoOutcome => outcome'[u].req = call[u].req
  BY <1>2 DEF Told
<1> QED
  BY <1>1, <1>2, <1>a, <1>4, <1>5, <1>6, ToldStays

(* A call that books goes on, or comes to its end.                         *)
LEMMA CallGoesOnTold ==
  ASSUME EffectInv, [Next]_vars, NEW c \in Txn, NEW pc, GoTo(c, pc),
         call[c].pc \in Holding,
         outcome'[c] = outcome[c] \/ outcome'[c].req = call[c].req,
         pc = "done" => /\ call[c].pc \in {"marking", "numbering"} /\ Exists(call[c].subject)
                        /\ \E n : doc' = Marked(c, n)
  PROVE  Told(c)'
<1>1. SteadyInv /\ DocInv /\ Told(c) /\ Books(c)
  BY DEF EffectInv, SteadyInv, Books
<1>a. crossed' = crossed
  BY DEF GoTo
<1>2. /\ call'[c].pc = pc /\ call'[c].doc = call[c].doc /\ call'[c].subject = call[c].subject
      /\ call'[c].req = call[c].req
  BY <1>1, CallMovesOn
<1>3. call[c].doc \in Doc /\ call[c].subject \in Doc
  BY <1>1 DEF Told
<1>4. \A d \in {call[c].doc, call[c].subject} \ crossed' : Same(doc[d], doc'[d])
  <2>1. Held(call[c].doc) /\ Held(call[c].subject)
    BY DEF Held
  <2> QED
    BY <1>1, <1>3, <2>1, StepKeeps
<1>5. ASSUME pc = "done"
      PROVE  \A d \in {call[c].doc, call[c].subject} \ crossed' : Final(d)'
  <2>1. PICK n : doc' = Marked(c, n)
    BY <1>5
  <2>2. call[c].pc \in {"marking", "numbering"} /\ Exists(call[c].subject)
    BY <1>5
  <2>3. /\ doc'[call[c].subject].status = "posted"
        /\ call[c].doc # call[c].subject /\ call[c].doc \notin crossed =>
             doc'[call[c].doc].status = "reversed"
    BY <1>1, <2>1, <2>2, MarkedDocuments
  <2> QED
    BY <1>2, <1>a, <2>3 DEF Final
<1>6. outcome'[c] # NoOutcome => outcome'[c].req = call[c].req
  BY <1>1 DEF Told
<1> QED
  BY <1>1, <1>2, <1>a, <1>4, <1>5, <1>6, ToldStays

(* A call that comes to post tells what its document says.                 *)
LEMMA PostBegins ==
  ASSUME EffectInv, [Next]_vars, NEW c \in Txn, NEW d \in Doc, BeginPost(c, d)
  PROVE  Told(c)'
<1> DEFINE r == PostingRequest(d, doc[d], FALSE)
           e == doc'[d]
<1>a. /\ SteadyInv /\ DocInv /\ DataInv /\ DOMAIN doc = Doc
      /\ DOMAIN doc[d] = DOMAIN Absent
  BY DEF EffectInv, SteadyInv, DocInv, Shape
<1>1. /\ doc[d].status = "draft" /\ outcome' = outcome /\ Starts(c, d)
      /\ \E pc \in {"numbering", "rechecking", "posting"} : Unanswered(c, pc, "post", d, d, r)
  BY DEF BeginPost, ledgerVars
<1>2. /\ call'[c].pc \in Holding /\ call'[c].doc = d /\ call'[c].subject = d /\ call'[c].req = r
  <2> HIDE DEF r
  <2> QED
    BY <1>a, <1>1, CallBegins DEF Holding
<1>3. outcome'[c] = NoOutcome
  BY <1>a, <1>1 DEF Starts, SteadyInv, Steady, CallOK
<1>4. Lined(doc[d])
  BY <1>a, <1>1 DEF DataInv, DocsTyped, Typed
<1>5. ASSUME doc[d].kind # "stock_opname", NEW k \in Key
      PROVE  NetReq(r, k) = Moved(e, k) /\ Whole(r, k)
  <2>1. e = doc[d]
    BY <1>5 DEF BeginPost
  <2>2. NetReq(r, k) = Moved(doc[d], k)
    BY <1>4, <1>5, RequestMoves
  <2>3. Whole(r, k)
    BY <1>4, <1>5, RequestIsWhole
  <2> QED
    BY <2>1, <2>2, <2>3
<1>6. ASSUME doc[d].kind = "stock_opname", Costed, NEW k \in Key
      PROVE  NetReq(r, k) = Moved(e, k) /\ Whole(r, k)
  <2>1. doc' = [doc EXCEPT ![d].systemQty =
                  [i \in DOMAIN doc[d].lines |-> LevelOf(doc[d].lines[i], doc[d].from).qty]]
    BY <1>6 DEF BeginPost
  <2>2. e = [doc[d] EXCEPT !.systemQty =
                  [i \in DOMAIN doc[d].lines |-> LevelOf(doc[d].lines[i], doc[d].from).qty]]
    BY <1>a, <2>1
  <2>3. /\ e.kind = doc[d].kind /\ e.from = doc[d].from /\ e.to = doc[d].to /\ e.lines = doc[d].lines
        /\ e.systemQty = [i \in DOMAIN doc[d].lines |-> LevelOf(doc[d].lines[i], doc[d].from).qty]
    BY <1>a, <2>2 DEF Absent
  <2>4. Lined(e)
    BY <1>4, <2>3 DEF Lined
  <2>5. LevelsOK /\ Movable /\ doc[d].date \in Dates
    BY <1>a, <1>1, <1>6 DEF DataInv, LedgerTyped, Costed, DocsTyped, Typed
  <2>6. \A i \in DOMAIN doc[d].lines : LevelOf(doc[d].lines[i], doc[d].from).qty \in Int
    <3>1. doc[d].from \in Warehouse
      BY <1>4 DEF Lined
    <3> QED
      BY <1>4, <2>5, <3>1, LevelOfLine
  <2> HIDE DEF e
  <2>7. NetReq(PostingRequest(d, doc[d], FALSE), k) = Moved(e, k)
    <3>1. e.kind = "stock_opname" /\ e.from = doc[d].from /\ e.lines = doc[d].lines
      BY <1>6, <2>3
    <3>2. \A i \in DOMAIN doc[d].lines :
            /\ LevelOf(doc[d].lines[i], doc[d].from).qty \in Int
            /\ e.systemQty[i] = LevelOf(doc[d].lines[i], doc[d].from).qty
      BY <2>3, <2>6
    <3> QED
      BY <1>4, <1>6, <2>4, <3>1, <3>2, CountMoves
  <2>8. Whole(PostingRequest(d, doc[d], FALSE), k)
    BY <1>4, <2>5, RequestIsTyped DEF Whole
  <2> QED
    BY <2>7, <2>8
<1>7. doc'[d].kind = doc[d].kind
  BY <1>a DEF BeginPost, Absent
<1> HIDE DEF r
<1>8. \A k : Effect(c, k)' = Moved(doc'[d], k)
  BY <1>2 DEF Effect
<1> QED
  BY <1>2, <1>3, <1>5, <1>6, <1>7, <1>8 DEF Told, Holding

(* A call that comes to post a reversal tells the opposite of its          *)
(* original.                                                               *)
LEMMA ReversalBegins ==
  ASSUME EffectInv, [Next]_vars, NEW c \in Txn, NEW d \in Doc, NEW v \in Doc,
         BeginReverse(c, d, v)
  PROVE  Told(c)'
<1> DEFINE r == PostingRequest(v, doc[d], TRUE)
<1>a. /\ SteadyInv /\ DocInv /\ DataInv /\ DOMAIN doc = Doc
  BY DEF EffectInv, SteadyInv, DocInv, Shape
<1>1. /\ doc[d].status = "posted" /\ doc[v].status = "none" /\ outcome' = outcome /\ Starts(c, d)
      /\ doc' = [doc EXCEPT ![v] = Draft(doc[d], doc[d].lines, d)]
      /\ \E pc \in {"numbering", "posting"} : Unanswered(c, pc, "reverse", d, v, r)
  BY DEF BeginReverse, ledgerVars
<1>2. /\ call'[c].pc \in Holding /\ call'[c].doc = d /\ call'[c].subject = v /\ call'[c].req = r
  <2> HIDE DEF r
  <2> QED
    BY <1>a, <1>1, CallBegins DEF Holding
<1>3. outcome'[c] = NoOutcome
  BY <1>a, <1>1 DEF Starts, SteadyInv, Steady, CallOK
<1>4. Lined(doc[d])
  BY <1>a, <1>1 DEF DataInv, DocsTyped, Typed
<1>5. d # v /\ doc'[d] = doc[d] /\ doc'[v].reverses = d
  <2>1. d # v /\ doc'[d] = doc[d] /\ doc'[v] = Draft(doc[d], doc[d].lines, d)
    BY <1>a, <1>1
  <2> QED
    BY <2>1 DEF Draft
<1>6. ASSUME doc[d].kind # "stock_opname", NEW k \in Key
      PROVE  NetReq(r, k) = -Moved(doc[d], k) /\ Whole(r, k)
  BY <1>4, <1>6, RequestMoves, RequestIsWhole
<1> HIDE DEF r
<1>7. \A k : Effect(c, k)' = -Moved(doc'[d], k)
  BY <1>2, <1>5 DEF Effect
<1> QED
  BY <1>2, <1>3, <1>5, <1>6, <1>7 DEF Told, Holding

(* Every step keeps what calls tell.                                       *)
LEMMA StepTold ==
  ASSUME EffectInv, [Next]_vars
  PROVE  \A u \in Txn : Told(u)'
<1>a. SteadyInv /\ DocInv
  BY DEF EffectInv, SteadyInv
<1> SUFFICES ASSUME NEW u \in Txn PROVE Told(u)'
  OBVIOUS
<1>b. ASSUME call'[u] = call[u], outcome'[u] = outcome[u]
      PROVE  Told(u)'
  BY <1>b, CallsKept
<1>1. ASSUME NEW c \in Txn, NEW d \in Doc, BeginPost(c, d)
      PROVE  Told(u)'
  <2>1. outcome' = outcome
    BY <1>1 DEF BeginPost, ledgerVars
  <2>2. \A x \in Txn \ {c} : call'[x] = call[x]
    BY <1>1 DEF BeginPost, Unanswered
  <2> QED
    BY <1>1, <1>b, <2>1, <2>2, PostBegins
<1>2. ASSUME NEW c \in Txn, NEW d \in Doc, NEW v \in Doc, BeginReverse(c, d, v)
      PROVE  Told(u)'
  <2>1. outcome' = outcome
    BY <1>2 DEF BeginReverse, ledgerVars
  <2>2. \A x \in Txn \ {c} : call'[x] = call[x]
    BY <1>2 DEF BeginReverse, Unanswered
  <2> QED
    BY <1>2, <1>b, <2>1, <2>2, ReversalBegins
<1>3. ASSUME NEW c \in Txn, outcome' = outcome, \A x \in Txn \ {c} : call'[x] = call[x],
             call'[c].pc \in {"updating", "deleting", "failed"}
             \/ (call'[c].pc = "done" /\ call[c].pc \in {"updating", "deleting"})
      PROVE  Told(u)'
  <2>1. ~Books(c)'
    BY <1>3, <1>a DEF Books, Holding, SteadyInv, Steady, CallOK, Active
  <2> QED
    BY <1>3, <1>b, <2>1 DEF Told
<1>4. ASSUME NEW c \in Txn, NEW d \in Doc, BeginUpdate(c, d) \/ BeginDelete(c, d)
      PROVE  Told(u)'
  <2>1. /\ outcome' = outcome
        /\ \E pc \in {"updating", "deleting"} : \E op : Unanswered(c, pc, op, d, d, None)
    BY <1>4 DEF BeginUpdate, BeginDelete, ledgerVars
  <2>2. call'[c].pc \in {"updating", "deleting"} /\ \A x \in Txn \ {c} : call'[x] = call[x]
    BY <1>a, <2>1, CallBegins
  <2> QED
    BY <1>3, <2>1, <2>2
<1>5. ASSUME NEW c \in Txn, NEW pc \in {"failed", "done"}, GoTo(c, pc), outcome' = outcome,
             pc = "done" => call[c].pc \in {"updating", "deleting"}
      PROVE  Told(u)'
  <2>1. call'[c].pc = pc
    BY <1>a, <1>5, CallMovesOn
  <2>2. \A x \in Txn \ {c} : call'[x] = call[x]
    BY <1>5 DEF GoTo
  <2> QED
    BY <1>3, <1>5, <2>1, <2>2
<1>6. ASSUME NEW c \in Txn, NEW input \in Inputs, FinishUpdate(c, input)
      PROVE  Told(u)'
  BY <1>5, <1>6 DEF FinishUpdate, ledgerVars
<1>7. ASSUME NEW c \in Txn, FinishDelete(c) \/ Fail(c)
      PROVE  Told(u)'
  BY <1>5, <1>7 DEF FinishDelete, Fail, ledgerVars
<1>8. ASSUME NEW c \in Txn, NEW pc, GoTo(c, pc), call[c].pc \in Holding,
             outcome'[c] = outcome[c] \/ outcome'[c].req = call[c].req,
             \A x \in Txn \ {c} : outcome'[x] = outcome[x],
             pc = "done" => /\ call[c].pc \in {"marking", "numbering"} /\ Exists(call[c].subject)
                            /\ \E n : doc' = Marked(c, n)
      PROVE  Told(u)'
  <2>1. \A x \in Txn \ {c} : call'[x] = call[x]
    BY <1>8 DEF GoTo
  <2> QED
    BY <1>8, <1>b, <2>1, CallGoesOnTold
<1>9. ASSUME NEW c \in Txn, RecheckOpname(c)
      PROVE  Told(u)'
  BY <1>8, <1>9 DEF RecheckOpname, ledgerVars, Holding
<1>10. ASSUME NEW c \in Txn, Mark(c)
       PROVE  Told(u)'
  BY <1>8, <1>10 DEF Mark, ledgerVars, Holding
<1>11. ASSUME NEW c \in Txn, PostToLedger(c) \/ NumberAndMark(c)
       PROVE  Told(u)'
  <2>1. call[c].pc \in Holding /\ Ledger!Number(c, call[c].req)
    BY <1>11 DEF PostToLedger, NumberAndMark, Ledger!Post, Ledger!Assign, Holding
  <2>2. call[c].req.series \in Series /\ Shape
    BY <1>a, <2>1 DEF DocInv, CallsHold, CallHolds
  <2>3. /\ outcome'[c].req = call[c].req
        /\ outcome' = [outcome EXCEPT ![c] = [req |-> call[c].req, number |-> nextSeq[call[c].req.series]]]
    BY <2>1, <2>2, NumberIsRecorded
  <2>4. \A x \in Txn \ {c} : outcome'[x] = outcome[x]
    BY <2>3
  <2>5. \/ GoTo(c, "marking")
        \/ /\ GoTo(c, "done") /\ call[c].pc = "numbering" /\ Exists(call[c].subject)
           /\ \E n : doc' = Marked(c, n)
    BY <1>11 DEF PostToLedger, NumberAndMark
  <2> QED
    BY <1>8, <2>1, <2>3, <2>4, <2>5
<1>12. ASSUME NEW d \in Doc, NEW input \in Inputs, Create(d, input)
       PROVE  Told(u)'
  BY <1>12, <1>b DEF Create, ledgerVars
<1>13. CASE UNCHANGED vars
  BY <1>13, <1>b DEF vars, ledgerVars
<1> QED
  BY <1>1, <1>2, <1>4, <1>6, <1>7, <1>9, <1>10, <1>11, <1>12, <1>13 DEF Next, Handle

(* A document is reversed by the call whose mark says so, and stays so.    *)
LEMMA StepReversed ==
  ASSUME EffectInv, [Next]_vars
  PROVE  \A d \in Doc : Reversed(d)'
<1>a. SteadyInv /\ DocInv
  BY DEF EffectInv, SteadyInv
<1> SUFFICES ASSUME NEW d \in Doc, doc'[d].status = "reversed", d \notin crossed'
             PROVE  \E u \in Txn : Reverses(u, d)'
  BY DEF Reversed
<1>b. d \notin crossed
  BY CrossedGrows
<1>1. \/ doc[d].status = "reversed" /\ doc'[d] = doc[d]
      \/ \E c \in Txn : MarksReversed(c, d)
  BY <1>a, StepKeeps
<1>2. ASSUME NEW c \in Txn, MarksReversed(c, d)
      PROVE  Reverses(c, d)'
  BY <1>2 DEF MarksReversed, Reverses
<1>3. ASSUME doc[d].status = "reversed", doc'[d] = doc[d]
      PROVE  \E u \in Txn : Reverses(u, d)'
  <2>1. PICK u \in Txn : Reverses(u, d)
    BY <1>3, <1>b DEF EffectInv, Reversed
  <2>2. call[u].pc = "done" /\ outcome[u] # NoOutcome
    BY <2>1 DEF Reverses
  <2>3. call'[u] = call[u] /\ outcome'[u] = outcome[u]
    BY <1>a, <2>2, DoneStays
  <2> QED
    BY <1>3, <2>1, <2>3 DEF Reverses
<1> QED
  BY <1>1, <1>2, <1>3

(* Every step keeps the invariant.                                         *)
LEMMA StepEffect ==
  ASSUME EffectInv, [Next]_vars
  PROVE  EffectInv'
<1>1. SteadyInv' /\ DataInv'
  BY StepSteady, StepData DEF EffectInv
<1> QED
  BY <1>1, StepTold, StepReversed DEF EffectInv

(* It holds when there is nothing.                                         *)
LEMMA InitEffect == Init => EffectInv
<1> SUFFICES ASSUME Init PROVE EffectInv
  OBVIOUS
<1>1. doc = [d \in Doc |-> Absent] /\ call = [c \in Txn |-> NoCall]
  BY DEF Init
<1>2. \A c \in Txn : Told(c)
  BY <1>1 DEF Told, Books, NoCall, Holding
<1>3. \A d \in Doc : Reversed(d)
  BY <1>1 DEF Reversed, Absent
<1> QED
  BY <1>2, <1>3, InitSteady, InitData DEF EffectInv

(* So it always holds.                                                     *)
LEMMA EffectInvariance == Spec => []EffectInv
<1>1. EffectInv /\ [Next]_vars => EffectInv'
  BY StepEffect
<1> QED
  BY <1>1, InitEffect, PTL DEF Spec

-----------------------------------------------------------------------------
(* The one posting of a document that is settled.                          *)
LEMMA TheSettledPosting ==
  ASSUME EffectInv, NEW d \in Doc, Final(d), ~Disturbed(d)
  PROVE  \E c \in Txn : /\ PostingsOf(d) = {c} /\ call[c].subject = d /\ Books(c)
                        /\ call[c].pc = "done" /\ outcome[c].req = call[c].req
<1>1. ~CutOff(d) /\ Exists(d) /\ d \notin crossed /\ ~Unsettled(d)
  BY DEF Disturbed, Unsettled, CutOff, Final, Exists
<1>2. PICK c \in Txn : PostingsOf(d) = {c}
  BY <1>1 DEF EffectInv, SteadyInv, Steady, Booked
<1>3. outcome[c] # NoOutcome /\ call[c].subject = d
  BY <1>2, PostingsAreOfCalls DEF EffectInv, PostingsOf
<1>4. CallOK(c)
  BY DEF EffectInv, SteadyInv, Steady
<1>5. call[c].pc = "done"
  BY <1>1, <1>3, <1>4 DEF Unsettled, CallOK, Active
<1>6. Told(c) /\ Books(c)
  BY <1>3, <1>5 DEF EffectInv, Books
<1> QED
  BY <1>2, <1>3, <1>5, <1>6 DEF Told

(* What the journal holds of it is what it says.                           *)
LEMMA SettledNet ==
  ASSUME EffectInv, NEW d \in Doc, Final(d), ~Disturbed(d), doc[d].reverses = None,
         doc[d].kind # "stock_opname" \/ Costed, NEW k \in Key
  PROVE  NetOf(d, k) = Moved(doc[d], k)
<1>1. PICK c \in Txn : /\ PostingsOf(d) = {c} /\ call[c].subject = d /\ Books(c)
                       /\ call[c].pc = "done" /\ outcome[c].req = call[c].req
  BY TheSettledPosting
<1>2. Told(c)
  BY DEF EffectInv
<1>a. d \notin crossed
  BY DEF Disturbed
<1>3. call[c].doc = d
  BY <1>1, <1>2, <1>a, NoneAssumption DEF Told
<1>4. NetReq(call[c].req, k) = Moved(doc[d], k) /\ Whole(call[c].req, k)
  BY <1>1, <1>2, <1>a, <1>3 DEF Told, Effect
<1>5. JournalOK
  BY DEF EffectInv, DataInv
<1>6. \A i \in DOMAIN outcome[c].req.moves[k] : outcome[c].req.moves[k][i].qty \in Int
  BY <1>1, <1>4 DEF Whole
<1>7. NetOf(d, k) = NetReq(outcome[c].req, k)
  BY <1>1, <1>5, <1>6, NetOfPosting
<1> QED
  BY <1>1, <1>4, <1>7

(* A reversal takes back what its original moved (goods_receipts.go:       *)
(* 505-507), in every key, whatever other calls posted in between, failed  *)
(* or were cut off, unless two calls had one of the two in hand at once.   *)
THEOREM ReversalsRestoreStock == Spec => []ReversalRestoresStock
<1>1. EffectInv => ReversalRestoresStock
  <2> SUFFICES ASSUME EffectInv, NEW d \in Doc, SettledReversal(d), doc[d].reverses = None,
                      doc[d].kind # "stock_opname", NEW k \in Key
               PROVE  NetOf(d, k) + NetOf(doc[d].reversedBy, k) = 0
    BY DEF ReversalRestoresStock
  <2> DEFINE v == doc[d].reversedBy
  <2>1. doc[d].status = "reversed" /\ ~Disturbed(d) /\ ~Disturbed(v) /\ d \notin crossed
    BY DEF SettledReversal, Disturbed
  <2>2. v \in Doc /\ Final(v)
    BY <2>1 DEF EffectInv, SteadyInv, DocInv, Shape, ReversedHasReversal
  <2>3. NetOf(d, k) = Moved(doc[d], k)
    BY <2>1, SettledNet DEF Final
  <2>4. PICK u \in Txn : Reverses(u, d)
    BY <2>1 DEF EffectInv, Reversed
  <2>5. /\ outcome[u] # NoOutcome /\ call[u].pc = "done" /\ call[u].doc = d /\ call[u].subject = v
        /\ v # d
    BY <2>4 DEF Reverses
  <2>6. Told(u) /\ Books(u)
    BY <2>5 DEF EffectInv, Books
  <2>7. NetReq(call[u].req, k) = -Moved(doc[d], k) /\ Whole(call[u].req, k)
    BY <2>1, <2>5, <2>6 DEF Told, Effect
  <2>8. outcome[u].req = call[u].req
    BY <2>5, <2>6 DEF Told
  <2>9. u \in PostingsOf(v)
    BY <2>5 DEF EffectInv, SteadyInv, Steady, CallOK, PostingsOf
  <2> HIDE DEF v
  <2>10. PostingsOf(v) = {u}
    <3>1. \E c \in Txn : PostingsOf(v) = {c}
      BY <2>1, <2>2, TheSettledPosting DEF v
    <3> QED
      BY <2>9, <3>1
  <2>11. \A i \in DOMAIN outcome[u].req.moves[k] : outcome[u].req.moves[k][i].qty \in Int
    BY <2>7, <2>8 DEF Whole
  <2>12. JournalOK
    BY DEF EffectInv, DataInv
  <2>13. NetOf(v, k) = NetReq(outcome[u].req, k)
    BY <2>10, <2>11, <2>12, NetOfPosting
  <2>14. Moved(doc[d], k) \in Int
    <3>1. Lined(doc[d])
      BY <2>1 DEF EffectInv, DataInv, DocsTyped, Typed
    <3> QED
      BY <3>1, MovedType
  <2> QED
    BY <2>3, <2>7, <2>8, <2>13, <2>14 DEF v
<1> QED
  BY <1>1, EffectInvariance, PTL

(* The system quantities stored on a posted count explain what it moved,   *)
(* key by key, and go on doing so after a reversal (ADR-0014), with a      *)
(* costing engine that answers in numbers.                                 *)
THEOREM CountsExplainTheirMovements ==
  ASSUME Costed
  PROVE  Spec => []SnapshotExplainsVariance
<1>1. EffectInv => SnapshotExplainsVariance
  <2> SUFFICES ASSUME EffectInv, NEW d \in Doc, Final(d), ~Disturbed(d), doc[d].reverses = None,
                      doc[d].kind = "stock_opname", NEW k \in Key
               PROVE  LET here == {i \in DOMAIN doc[d].lines :
                                     keyOf(doc[d].lines[i].item, doc[d].from) = k}
                      IN  NetOf(d, k) = SumFunction([i \in here |-> doc[d].lines[i].qty - doc[d].systemQty[i]])
    BY DEF SnapshotExplainsVariance
  <2>1. NetOf(d, k) = Moved(doc[d], k)
    BY SettledNet
  <2> DEFINE here == {i \in DOMAIN doc[d].lines : keyOf(doc[d].lines[i].item, doc[d].from) = k}
             f == [i \in here |-> doc[d].lines[i].qty - doc[d].systemQty[i]]
             legs == Legs(doc[d])
  <2>2. /\ DOMAIN legs = DOMAIN doc[d].lines
        /\ \A i \in DOMAIN legs : /\ legs[i].key = keyOf(doc[d].lines[i].item, doc[d].from)
                                  /\ legs[i].qty = doc[d].lines[i].qty - doc[d].systemQty[i]
    BY DEF Legs
  <2> HIDE DEF legs
  <2>3. Own(legs, k) = here
    BY <2>2 DEF Own
  <2>4. [i \in Own(legs, k) |-> legs[i].qty] = f
    BY <2>2, <2>3
  <2>5. Moved(doc[d], k) = Sum(f, here)
    BY <2>3, <2>4 DEF Moved, legs
  <2>6. Sum(f, here) = SumFunction(f)
    BY DEF Sum, SumFunction
  <2> QED
    BY <2>1, <2>5, <2>6
<1> QED
  BY <1>1, EffectInvariance, PTL
=============================================================================
