---------------------------- MODULE PostingProofs ----------------------------
(***************************************************************************)
(* Proofs about Posting, for any number of transactions, keys, locks and   *)
(* requests, and any costing engine.                                       *)
(*                                                                         *)
(* The inductive invariant has three layers, proved in turn: where each    *)
(* transaction is and which locks that entails (ControlInv), what it has   *)
(* read and written so far (DataInv), and the numbers taken (NumberInv).   *)
(* A fourth, LockInv, says why a lock is held; it excludes deadlock.       *)
(***************************************************************************)
EXTENDS Posting, TLAPS

(* A lock that no transaction holds is not held by one.                    *)
LEMMA NoneIsNoTxn == None \notin Txn
BY NoneAssumption

(***************************************************************************)
(* 1. Control.                                                             *)
(***************************************************************************)
Looping == {"locking", "reading", "inserting", "folding"}

ControlTyping ==
  /\ nextSeq \in [Series -> Nat \ {0}]
  /\ lockHolder \in [Lock -> Txn \cup {None}]
  /\ seqHolder \in [Series -> Txn \cup {None}]
  /\ pc \in [Txn -> Stage]
  /\ req \in [Txn -> Requests \cup {None}]
  /\ todo \in [Txn -> SUBSET Key]
  /\ number \in [Txn -> Nat]
  /\ DOMAIN base = Txn /\ DOMAIN rows = Txn /\ DOMAIN newLevel = Txn
  /\ \A t \in Txn : DOMAIN newLevel[t] = Key

Bookkeeping ==
  \A t \in Txn :
    /\ pc[t] \in Active \cup {"committed"} => req[t] \in Requests
    /\ pc[t] \in Looping => todo[t] # {} /\ todo[t] \subseteq TouchedKeys(req[t])
    /\ pc[t] \notin Looping => todo[t] = {}

(* A transaction past the locking loop holds the lock of every key it      *)
(* touches; inside the loop, of every key it has visited.                  *)
LocksHeld ==
  \A t \in Txn : pc[t] \in Active =>
    \A k \in TouchedKeys(req[t]) :
      ~(pc[t] = "locking" /\ k \in todo[t]) => lockHolder[LockOf[k]] = t

SeqRowsHeld ==
  \A t \in Txn : pc[t] = "committing" =>
     seqHolder[req[t].series] = t /\ number[t] = nextSeq[req[t].series]

ControlInv == ControlTyping /\ Bookkeeping /\ LocksHeld /\ SeqRowsHeld

(* What a request consists of (domain/posting/posting.go:22-31).           *)
LEMMA RequestTyping ==
  ASSUME NEW r \in Requests
  PROVE  /\ r.doc \in Doc /\ r.series \in Series
         /\ \A k \in Key : r.moves[k] \in Seq(Move) /\ Len(r.moves[k]) \in Nat
         /\ TouchedKeys(r) \subseteq Key
  BY RequestsAssumption DEF Request, TouchedKeys

(* At the start nothing is held and nothing is under way.                  *)
LEMMA InitControl == Init => ControlInv
  BY NoneIsNoTxn
  DEF Init, ControlInv, ControlTyping, Bookkeeping, LocksHeld, SeqRowsHeld,
      Stage, Active, Looping

(* Every statement keeps the transactions' control state and locks in      *)
(* step.                                                                   *)
LEMMA NextControl == ControlInv /\ [Next]_vars => ControlInv'
<1> SUFFICES ASSUME ControlInv, [Next]_vars PROVE ControlInv'
  OBVIOUS
<1> USE NoneIsNoTxn, KeyAssumption, LockAssumption, RequestTyping
<1> USE DEF ControlInv, ControlTyping, Bookkeeping, LocksHeld, SeqRowsHeld,
            Stage, Active, Looping, GoTo
<1>1. ASSUME NEW t \in Txn, NEW r \in Requests, Begin(t, r)
      PROVE  ControlInv'
  BY <1>1 DEF Begin, dbVars
<1>2. ASSUME NEW t \in Txn, NEW r \in Requests, Reject(t, r)
      PROVE  ControlInv'
  BY <1>2 DEF Reject, dbVars
<1>3. ASSUME NEW t \in Txn, NEW r \in Requests, BeginNumbering(t, r)
      PROVE  ControlInv'
  BY <1>3 DEF BeginNumbering, dbVars
<1>4. ASSUME NEW t \in Txn, AcquireLock(t)
      PROVE  ControlInv'
  <2>1. PICK k \in todo[t] :
          /\ IsNextKey(t, k)
          /\ lockHolder[LockOf[k]] \in {None, t}
          /\ lockHolder' = [lockHolder EXCEPT ![LockOf[k]] = t]
          /\ IF todo[t] = {k}
             THEN /\ GoTo(t, "reading")
                  /\ todo' = [todo EXCEPT ![t] = TouchedKeys(req[t])]
             ELSE /\ todo' = [todo EXCEPT ![t] = @ \ {k}]
                  /\ UNCHANGED pc
    BY <1>4 DEF AcquireLock
  <2>2. /\ pc[t] = "locking"
        /\ UNCHANGED <<dbVars, seqHolder, req, base, rows, newLevel, number>>
    BY <1>4 DEF AcquireLock
  <2>a. /\ req[t] \in Requests /\ k \in Key /\ LockOf[k] \in Lock
        /\ TouchedKeys(req[t]) \subseteq Key /\ TouchedKeys(req[t]) # {}
    BY <2>1, <2>2
  <2>b. /\ pc' = [pc EXCEPT ![t] = IF todo[t] = {k} THEN "reading" ELSE "locking"]
        /\ todo' = [todo EXCEPT ![t] = IF todo[t] = {k} THEN TouchedKeys(req[t])
                                       ELSE todo[t] \ {k}]
    BY <2>1, <2>2
  <2>3. ControlTyping'
    BY <2>1, <2>2, <2>a, <2>b DEF dbVars
  <2>c. Bookkeeping'
    <3> SUFFICES ASSUME NEW u \in Txn
                 PROVE  /\ (pc[u] \in Active \cup {"committed"} => req[u] \in Requests)'
                        /\ (pc[u] \in Looping => todo[u] # {} /\ todo[u] \subseteq TouchedKeys(req[u]))'
                        /\ (pc[u] \notin Looping => todo[u] = {})'
      BY DEF Bookkeeping
    <3>1. CASE u = t
      BY <2>2, <2>a, <2>b, <3>1
    <3>2. CASE u # t
      BY <2>2, <2>b, <3>2
    <3> QED BY <3>1, <3>2
  <2>4. LocksHeld'
    <3> SUFFICES ASSUME NEW u \in Txn, (pc[u] \in Active)',
                        NEW j \in TouchedKeys(req[u]),
                        ~(pc[u] = "locking" /\ j \in todo[u])'
                 PROVE  lockHolder'[LockOf[j]] = u
      BY <2>2
    <3>1. CASE u = t
      <4>1. CASE j = k
        BY <2>1, <2>a, <3>1, <4>1
      <4>2. CASE j # k
        <5>1. j \notin todo[t]
          BY <2>b, <2>2, <3>1, <4>2
        <5>2. lockHolder[LockOf[j]] = t /\ LockOf[j] \in Lock
          BY <2>2, <2>a, <3>1, <5>1
        <5> QED BY <2>1, <2>a, <3>1, <5>2
      <4> QED BY <4>1, <4>2
    <3>2. CASE u # t
      BY <2>1, <2>2, <2>a, <2>b, <3>2
    <3> QED BY <3>1, <3>2
  <2>5. SeqRowsHeld'
    BY <2>1, <2>2 DEF dbVars
  <2> QED BY <2>3, <2>4, <2>5, <2>c
<1>5. ASSUME NEW t \in Txn, ReadMaxSeq(t)
      PROVE  ControlInv'
  BY <1>5 DEF ReadMaxSeq, dbVars
<1>6. ASSUME NEW t \in Txn, InsertMovements(t)
      PROVE  ControlInv'
  BY <1>6 DEF InsertMovements, dbVars
<1>7. ASSUME NEW t \in Txn, RefoldKey(t)
      PROVE  ControlInv'
  BY <1>7 DEF RefoldKey, dbVars
<1>8. ASSUME NEW t \in Txn, TakeNumber(t)
      PROVE  ControlInv'
  BY <1>8 DEF TakeNumber, dbVars
<1>9. ASSUME NEW t \in Txn, Commit(t)
      PROVE  ControlInv'
  <2>1. ControlTyping'
    <3>1. req[t].series \in Series /\ number[t] + 1 \in Nat \ {0}
      <4>1. req[t] \in Requests /\ number[t] \in Nat
        BY <1>9 DEF Commit
      <4> QED BY <4>1
    <3>2. nextSeq' \in [Series -> Nat \ {0}] /\ pc' \in [Txn -> Stage]
      BY <1>9, <3>1 DEF Commit
    <3>3. /\ lockHolder' \in [Lock -> Txn \cup {None}]
          /\ seqHolder' \in [Series -> Txn \cup {None}]
      BY <1>9 DEF Commit, EndTransaction
    <3>4. todo' \in [Txn -> SUBSET Key] /\ req' = req /\ number' = number
      BY <1>9 DEF Commit, EndTransaction
    <3>5. /\ DOMAIN base' = Txn /\ DOMAIN rows' = Txn /\ DOMAIN newLevel' = Txn
          /\ \A u \in Txn : DOMAIN newLevel'[u] = Key
      BY <1>9 DEF Commit, EndTransaction
    <3> QED BY <3>2, <3>3, <3>4, <3>5
  <2>2. Bookkeeping'
    BY <1>9 DEF Commit, EndTransaction
  <2>3. LocksHeld'
    BY <1>9 DEF Commit, EndTransaction
  <2>4. SeqRowsHeld'
    <3> SUFFICES ASSUME NEW u \in Txn, pc'[u] = "committing"
                 PROVE  seqHolder'[req'[u].series] = u /\ number'[u] = nextSeq'[req'[u].series]
      BY DEF SeqRowsHeld
    <3>1. u # t /\ pc[u] = "committing" /\ pc[t] = "committing"
      BY <1>9 DEF Commit
    <3>2. /\ req[u] \in Requests /\ req[t] \in Requests
          /\ seqHolder[req[u].series] = u /\ seqHolder[req[t].series] = t
          /\ req[u].series # req[t].series
      BY <3>1
    <3> QED
      BY <1>9, <3>1, <3>2 DEF Commit, EndTransaction
  <2> QED BY <2>1, <2>2, <2>3, <2>4
<1>10. ASSUME NEW t \in Txn, Abort(t)
       PROVE  ControlInv'
  <2>1. ControlTyping'
    BY <1>10 DEF Abort, EndTransaction, dbVars
  <2>2. Bookkeeping'
    BY <1>10 DEF Abort, EndTransaction, dbVars
  <2>3. LocksHeld'
    BY <1>10 DEF Abort, EndTransaction, dbVars
  <2>4. SeqRowsHeld'
    BY <1>10 DEF Abort, EndTransaction, dbVars
  <2> QED BY <2>1, <2>2, <2>3, <2>4
<1>11. CASE UNCHANGED vars
  BY <1>11 DEF vars, dbVars, txnVars
<1> QED
  BY <1>1, <1>2, <1>3, <1>4, <1>5, <1>6, <1>7, <1>8, <1>9, <1>10, <1>11
  DEF Next, Submit, Step

(* A transaction past the locking loop holds the advisory lock of every    *)
(* key it touches, and one about to commit the counter row                 *)
(* (posting.go:60-90).                                                     *)
THEOREM ControlCorrect == Spec => []ControlInv
  BY InitControl, NextControl, PTL DEF Spec

(***************************************************************************)
(* 2. Data.                                                                *)
(***************************************************************************)

(* What the queries over journal rows return.                              *)
LEMMA MaxOfDense ==
  ASSUME NEW set, NEW k, NEW n \in Nat, SeqsOf(set, k) = 1..n
  PROVE  MaxMovementSeq(set, k) = n
<1>1. /\ n \in SeqsOf(set, k) \cup {0}
      /\ \A i \in SeqsOf(set, k) : i <= n
  OBVIOUS
<1>2. ASSUME NEW x \in SeqsOf(set, k) \cup {0}, \A i \in SeqsOf(set, k) : i <= x
      PROVE  x = n
  <2>1. x \in 0..n
    OBVIOUS
  <2>2. CASE n = 0
    BY <2>1, <2>2
  <2>3. CASE n # 0
    BY <1>2, <2>1, <2>3
  <2> QED BY <2>2, <2>3
<1> QED
  BY <1>1, <1>2 DEF MaxMovementSeq

(* The maximum depends on the key's own rows only.                         *)
LEMMA MaxOfSameRows ==
  ASSUME NEW a, NEW b, NEW k, KeyRows(a, k) = KeyRows(b, k)
  PROVE  MaxMovementSeq(a, k) = MaxMovementSeq(b, k)
  BY DEF MaxMovementSeq, SeqsOf

(* A key's rows in a union are those of the parts.                         *)
LEMMA KeyRowsUnion ==
  ASSUME NEW a, NEW b, NEW k
  PROVE  KeyRows(a \cup b, k) = KeyRows(a, k) \cup KeyRows(b, k)
  BY DEF KeyRows

(* The rows a posting appends to one key.                                  *)
LEMMA RowsOfKey ==
  ASSUME NEW t, NEW r, NEW ks, NEW set, NEW k
  PROVE  KeyRows(RowsOf(t, r, ks, set), k) =
           IF k \in ks THEN InsertedRows(t, r, k, MaxMovementSeq(set, k)) ELSE {}
  BY DEF KeyRows, RowsOf, InsertedRows

(* What a posting appends depends on the rows of its own keys only.        *)
LEMMA RowsOfSame ==
  ASSUME NEW t, NEW r, NEW ks, NEW a, NEW b,
         \A k \in ks : KeyRows(a, k) = KeyRows(b, k)
  PROVE  RowsOf(t, r, ks, a) = RowsOf(t, r, ks, b)
<1>1. \A k \in ks : MaxMovementSeq(a, k) = MaxMovementSeq(b, k)
  BY MaxOfSameRows
<1> QED
  BY <1>1 DEF RowsOf

(* The keys transaction t has inserted rows for.                           *)
Writing == {"reading", "inserting", "folding", "numbering", "committing"}

InsertedKeys(t) ==
  { k \in TouchedKeys(req[t]) :
      pc[t] \in Writing /\ (k \in todo[t] => pc[t] = "folding" /\ IsNextKey(t, k)) }

Dense(set) ==
  /\ \A k \in Key : \E n \in Nat : SeqsOf(set, k) = 1..n
  /\ \A m1, m2 \in set : m1.key = m2.key /\ m1.seq = m2.seq => m1 = m2

(* Nobody else writes a key whose lock t holds, so what t has read and     *)
(* written for its keys is still what it would read and write now.         *)
Pending(t) ==
  /\ rows[t] = RowsOf(t, req[t], InsertedKeys(t), journal)
  /\ pc[t] = "inserting" =>
       \A k \in todo[t] : IsNextKey(t, k) => base[t] = MaxMovementSeq(journal, k)
  /\ pc[t] \in Writing =>
       \A k \in TouchedKeys(req[t]) \ todo[t] :
          newLevel[t][k] = Level(KeyRows(Visible(t), k))

DataInv ==
  /\ journal \subseteq Row
  /\ level = [k \in Key |-> level[k]]
  /\ Dense(journal)
  /\ LevelIsFoldOfJournal
  /\ \A t \in Txn : Pending(t)

(* The empty journal folds to the initial levels.                          *)
LEMMA InitData == Init => DataInv
<1> SUFFICES ASSUME Init PROVE DataInv
  OBVIOUS
<1>1. \A k : KeyRows({}, k) = {} /\ SeqsOf({}, k) = {}
  BY DEF KeyRows, SeqsOf
<1>2. Dense(journal) /\ LevelIsFoldOfJournal
  <2>1. 1..0 = {} /\ 0 \in Nat
    OBVIOUS
  <2> QED
    BY <1>1, <2>1 DEF Init, Dense, LevelIsFoldOfJournal
<1>3. ASSUME NEW t \in Txn PROVE Pending(t)
  BY DEF Init, Pending, InsertedKeys, Writing, RowsOf
<1> QED
  BY <1>2, <1>3 DEF Init, DataInv

(* A step of another transaction that does not commit changes nothing t    *)
(* depends on.                                                             *)
LEMMA PendingFrame ==
  ASSUME NEW t \in Txn, Pending(t),
         journal' = journal, pc'[t] = pc[t], req'[t] = req[t],
         todo'[t] = todo[t], base'[t] = base[t], rows'[t] = rows[t],
         newLevel'[t] = newLevel[t]
  PROVE  Pending(t)'
<1>1. InsertedKeys(t)' = InsertedKeys(t)
  BY DEF InsertedKeys, IsNextKey
<1> QED
  BY <1>1 DEF Pending, IsNextKey, Visible

(* A step of t that commits nothing leaves every other transaction's work  *)
(* valid.                                                                  *)
LEMMA DataFrame ==
  ASSUME NEW t \in Txn, ControlInv, DataInv, UNCHANGED dbVars, Pending(t)',
         \A u \in Txn \ {t} :
            /\ pc'[u] = pc[u] /\ req'[u] = req[u] /\ todo'[u] = todo[u]
            /\ base'[u] = base[u] /\ rows'[u] = rows[u] /\ newLevel'[u] = newLevel[u]
  PROVE  DataInv'
<1>1. ASSUME NEW u \in Txn, u # t PROVE Pending(u)'
  BY <1>1, PendingFrame DEF DataInv, dbVars
<1> QED
  BY <1>1 DEF DataInv, dbVars, Dense, LevelIsFoldOfJournal

(* Inserted rows are journal rows (posting.go:121-143).                    *)
LEMMA InsertedRowsTyping ==
  ASSUME NEW t \in Txn, NEW r \in Requests, NEW k \in Key, NEW b \in Nat
  PROVE  InsertedRows(t, r, k, b) \subseteq Row
<1>1. \A i \in 1..Len(r.moves[k]) : r.moves[k][i] \in Move /\ b + i \in Nat \ {0}
  BY RequestTyping
<1> QED
  BY <1>1, RequestTyping DEF InsertedRows, Row

(* Seqs that run on from n leave no gap after 1..n.                        *)
LEMMA ShiftedInterval ==
  ASSUME NEW n \in Nat, NEW len \in Nat
  PROVE  (1..n) \cup {n + i : i \in 1..len} = 1..(n + len)
<1>1. ASSUME NEW j \in (n + 1)..(n + len)
      PROVE  j \in {n + i : i \in 1..len}
  <2>1. j - n \in 1..len /\ j = n + (j - n)
    OBVIOUS
  <2> QED BY <2>1
<1> QED
  BY <1>1

(* Every statement of every interleaving keeps the journal dense, the      *)
(* levels folded and each transaction's reads and writes up to date.       *)
LEMMA NextData == ControlInv /\ DataInv /\ [Next]_vars => DataInv'
<1> SUFFICES ASSUME ControlInv, DataInv, [Next]_vars PROVE DataInv'
  OBVIOUS
<1>c. ControlInv'
  BY NextControl
<1>a. /\ journal \subseteq Row /\ level = [k \in Key |-> level[k]] /\ Dense(journal)
      /\ LevelIsFoldOfJournal /\ \A t \in Txn : Pending(t)
  BY DEF DataInv
<1>b. /\ pc \in [Txn -> Stage] /\ req \in [Txn -> Requests \cup {None}]
      /\ todo \in [Txn -> SUBSET Key] /\ number \in [Txn -> Nat]
      /\ DOMAIN base = Txn /\ DOMAIN rows = Txn /\ DOMAIN newLevel = Txn
      /\ \A t \in Txn : DOMAIN newLevel[t] = Key
  BY DEF ControlInv, ControlTyping
\* The steps before the first read have written nothing.
<1>1. ASSUME NEW t \in Txn, NEW r \in Requests,
             Begin(t, r) \/ Reject(t, r) \/ BeginNumbering(t, r)
      PROVE  DataInv'
  <2>1. pc[t] = "idle" /\ UNCHANGED <<dbVars, base, rows, newLevel>>
    BY <1>1 DEF Begin, Reject, BeginNumbering
  <2>2. /\ pc'[t] \in {"locking", "aborted", "numbering"}
        /\ pc'[t] = "numbering" => TouchedKeys(req'[t]) = {}
        /\ \A u \in Txn \ {t} : pc'[u] = pc[u] /\ req'[u] = req[u] /\ todo'[u] = todo[u]
    BY <1>1, <1>b DEF Begin, Reject, BeginNumbering, GoTo
  <2>3. InsertedKeys(t) = {} /\ InsertedKeys(t)' = {}
    BY <2>1, <2>2 DEF InsertedKeys, Writing
  <2>4. rows[t] = {} /\ rows'[t] = {}
    BY <1>a, <2>1, <2>3 DEF Pending, RowsOf
  <2>5. Pending(t)'
    BY <2>2, <2>3, <2>4 DEF Pending, Writing, RowsOf
  <2> QED
    BY <2>1, <2>2, <2>5, DataFrame
<1>2. ASSUME NEW t \in Txn, AcquireLock(t)
      PROVE  DataInv'
  <2>1. /\ pc[t] = "locking" /\ UNCHANGED <<dbVars, req, base, rows, newLevel>>
        /\ \A u \in Txn \ {t} : pc'[u] = pc[u] /\ todo'[u] = todo[u]
        /\ \/ pc'[t] = "locking"
           \/ pc'[t] = "reading" /\ todo'[t] = TouchedKeys(req'[t])
    BY <1>2, <1>b DEF AcquireLock, GoTo
  <2>2. InsertedKeys(t) = {} /\ InsertedKeys(t)' = {}
    BY <2>1 DEF InsertedKeys, Writing
  <2>3. rows[t] = {} /\ rows'[t] = {}
    BY <1>a, <2>1, <2>2 DEF Pending, RowsOf
  <2>4. Pending(t)'
    BY <2>1, <2>2, <2>3 DEF Pending, Writing, RowsOf
  <2> QED
    BY <2>1, <2>4, DataFrame
<1>3. ASSUME NEW t \in Txn, ReadMaxSeq(t)
      PROVE  DataInv'
  <2>1. /\ pc[t] = "reading" /\ pc'[t] = "inserting"
        /\ UNCHANGED <<dbVars, req, todo, rows, newLevel>>
        /\ \A u \in Txn \ {t} : pc'[u] = pc[u] /\ base'[u] = base[u]
    BY <1>3, <1>b DEF ReadMaxSeq, GoTo
  <2>2. InsertedKeys(t)' = InsertedKeys(t)
    BY <2>1 DEF InsertedKeys, Writing, IsNextKey
  <2>3. ASSUME NEW k \in todo[t], IsNextKey(t, k)
        PROVE  base'[t] = MaxMovementSeq(journal, k)
    <3>1. base'[t] = MaxMovementSeq(Visible(t), k)
      <4>1. PICK j \in todo[t] : IsNextKey(t, j) /\ base'[t] = MaxMovementSeq(Visible(t), j)
        BY <1>3, <1>b DEF ReadMaxSeq
      <4>2. j <= k /\ k <= j /\ j \in Nat /\ k \in Nat
        BY <2>3, <4>1, <1>b, KeyAssumption DEF IsNextKey
      <4> QED BY <4>1, <4>2
    <3>2. k \notin InsertedKeys(t)
      BY <2>1 DEF InsertedKeys
    <3>3. KeyRows(Visible(t), k) = KeyRows(journal, k)
      <4>1. rows[t] = RowsOf(t, req[t], InsertedKeys(t), journal)
        BY <1>a DEF Pending
      <4>2. KeyRows(rows[t], k) = {}
        <5>1. KeyRows(RowsOf(t, req[t], InsertedKeys(t), journal), k) = {}
          BY ONLY <3>2, RowsOfKey
        <5> QED BY <4>1, <5>1
      <4>3. KeyRows(journal \cup rows[t], k) = KeyRows(journal, k) \cup KeyRows(rows[t], k)
        BY ONLY KeyRowsUnion
      <4> QED BY <4>2, <4>3 DEF Visible
    <3> QED
      BY <3>1, <3>3, MaxOfSameRows
  <2>4. Pending(t)'
    <3>1. Pending(t)
      BY <1>a
    <3> QED
      BY <3>1, <2>1, <2>2, <2>3 DEF Pending, Visible, IsNextKey, dbVars, Writing
  <2> QED
    BY <2>1, <2>4, DataFrame
<1>4. ASSUME NEW t \in Txn, InsertMovements(t)
      PROVE  DataInv'
  <2>1. /\ pc[t] = "inserting" /\ pc'[t] = "folding"
        /\ UNCHANGED <<dbVars, req, todo, base, newLevel>>
        /\ \A u \in Txn \ {t} : pc'[u] = pc[u] /\ rows'[u] = rows[u]
    BY <1>4, <1>b DEF InsertMovements, GoTo
  <2>2. PICK k \in todo[t] :
          /\ IsNextKey(t, k)
          /\ rows'[t] = rows[t] \cup InsertedRows(t, req[t], k, base[t])
    BY <1>4, <1>b DEF InsertMovements
  <2>3. /\ todo[t] \subseteq TouchedKeys(req[t]) /\ todo[t] \subseteq Nat
        /\ base[t] = MaxMovementSeq(journal, k)
        /\ rows[t] = RowsOf(t, req[t], InsertedKeys(t), journal)
    <3>1. Pending(t)
      BY <1>a
    <3> QED
      BY <3>1, <2>1, <2>2, <1>b, KeyAssumption
      DEF Pending, ControlInv, Bookkeeping, Looping
  <2>4. InsertedKeys(t)' = InsertedKeys(t) \cup {k}
    <3>1. \A j \in todo[t] : IsNextKey(t, j) <=> j = k
      BY <2>2, <2>3 DEF IsNextKey
    <3> QED
      BY <2>1, <2>2, <2>3, <3>1 DEF InsertedKeys, Writing, IsNextKey
  <2>5. rows'[t] = RowsOf(t, req[t], InsertedKeys(t) \cup {k}, journal)
    BY <2>2, <2>3 DEF RowsOf
  <2>6. ASSUME NEW j \in TouchedKeys(req[t]) \ todo[t]
        PROVE  newLevel[t][j] = Level(KeyRows(journal \cup rows'[t], j))
    <3>1. newLevel[t][j] = Level(KeyRows(journal \cup rows[t], j))
      BY <1>a, <2>1, <2>6 DEF Pending, Visible, Writing
    <3>2. KeyRows(InsertedRows(t, req[t], k, base[t]), j) = {}
      BY <2>2, <2>6 DEF KeyRows, InsertedRows
    <3>3. KeyRows(journal \cup rows'[t], j) = KeyRows(journal \cup rows[t], j)
      BY <2>2, <3>2 DEF KeyRows
    <3> QED BY <3>1, <3>3
  <2>7. Pending(t)'
    BY <2>1, <2>4, <2>5, <2>6 DEF Pending, Visible, dbVars
  <2> QED
    BY <2>1, <2>7, DataFrame
<1>5. ASSUME NEW t \in Txn, RefoldKey(t)
      PROVE  DataInv'
  <2>1. PICK k \in todo[t] :
          /\ IsNextKey(t, k)
          /\ newLevel'[t][k] = Level(KeyRows(Visible(t), k))
          /\ \A j \in Key \ {k} : newLevel'[t][j] = newLevel[t][j]
          /\ todo'[t] = todo[t] \ {k}
          /\ pc'[t] = IF todo[t] = {k} THEN "numbering" ELSE "reading"
    BY <1>5, <1>b DEF RefoldKey, GoTo
  <2>2. /\ pc[t] = "folding" /\ UNCHANGED <<dbVars, req, base, rows>>
        /\ \A u \in Txn \ {t} :
             pc'[u] = pc[u] /\ todo'[u] = todo[u] /\ newLevel'[u] = newLevel[u]
    BY <1>5, <1>b DEF RefoldKey, GoTo
  <2>3. todo[t] \subseteq TouchedKeys(req[t]) /\ todo[t] \subseteq Nat /\ Pending(t)
        /\ TouchedKeys(req[t]) \subseteq Key
    BY <2>2, <1>a, <1>b, KeyAssumption DEF ControlInv, Bookkeeping, Looping, TouchedKeys
  <2>4. InsertedKeys(t)' = InsertedKeys(t)
    <3>1. \A j \in todo[t] : IsNextKey(t, j) <=> j = k
      BY <2>1, <2>3 DEF IsNextKey
    <3>2. InsertedKeys(t) = TouchedKeys(req[t]) \ (todo[t] \ {k})
      BY <2>2, <3>1 DEF InsertedKeys, Writing
    <3>3. pc'[t] \in Writing /\ pc'[t] # "folding" /\ req'[t] = req[t]
      BY <2>1, <2>2 DEF Writing
    <3>4. InsertedKeys(t)' = TouchedKeys(req[t]) \ todo'[t]
      BY <3>3 DEF InsertedKeys
    <3> QED BY <2>1, <3>2, <3>4
  <2>5. ASSUME NEW j \in TouchedKeys(req[t]) \ todo'[t]
        PROVE  newLevel'[t][j] = Level(KeyRows(Visible(t), j))
    <3>1. CASE j = k
      BY <2>1, <3>1
    <3>2. CASE j # k
      BY <2>1, <2>2, <2>3, <3>2 DEF Pending, Writing
    <3> QED BY <3>1, <3>2
  <2>6. Pending(t)'
    BY <2>1, <2>2, <2>3, <2>4, <2>5 DEF Pending, Visible, dbVars
  <2> QED
    BY <2>2, <2>6, DataFrame
<1>6. ASSUME NEW t \in Txn, TakeNumber(t)
      PROVE  DataInv'
  <2>1. /\ pc[t] = "numbering" /\ pc'[t] = "committing"
        /\ UNCHANGED <<dbVars, req, todo, base, rows, newLevel>>
        /\ \A u \in Txn \ {t} : pc'[u] = pc[u]
    BY <1>6, <1>b DEF TakeNumber, GoTo
  <2>2. InsertedKeys(t)' = InsertedKeys(t) /\ todo[t] = {}
    BY <2>1 DEF InsertedKeys, Writing, ControlInv, Bookkeeping, Looping
  <2>3. Pending(t)'
    BY <1>a, <2>1, <2>2 DEF Pending, Visible, Writing, dbVars
  <2> QED
    BY <2>1, <2>3, DataFrame
<1>7. ASSUME NEW t \in Txn, Abort(t)
      PROVE  DataInv'
  <2>1. /\ pc'[t] = "aborted" /\ rows'[t] = {} /\ UNCHANGED dbVars
        /\ \A u \in Txn \ {t} :
             /\ pc'[u] = pc[u] /\ req'[u] = req[u] /\ todo'[u] = todo[u]
             /\ base'[u] = base[u] /\ rows'[u] = rows[u] /\ newLevel'[u] = newLevel[u]
    BY <1>7, <1>b DEF Abort, EndTransaction, GoTo
  <2>2. Pending(t)'
    BY <2>1 DEF Pending, InsertedKeys, Writing, RowsOf
  <2> QED
    BY <2>1, <2>2, DataFrame
<1>8. ASSUME NEW t \in Txn, Commit(t)
      PROVE  DataInv'
  <2> DEFINE touched == TouchedKeys(req[t])
  <2>1. /\ pc[t] = "committing" /\ pc'[t] = "committed"
        /\ journal' = journal \cup rows[t]
        /\ level' = [k \in Key |-> IF k \in touched THEN newLevel[t][k] ELSE level[k]]
        /\ rows'[t] = {} /\ req' = req
        /\ \A u \in Txn \ {t} :
             /\ pc'[u] = pc[u] /\ todo'[u] = todo[u]
             /\ base'[u] = base[u] /\ rows'[u] = rows[u] /\ newLevel'[u] = newLevel[u]
    BY <1>8, <1>b DEF Commit, EndTransaction, GoTo
  <2>2. /\ req[t] \in Requests /\ todo[t] = {} /\ touched \subseteq Key
        /\ \A k \in touched : lockHolder[LockOf[k]] = t
    BY <2>1 DEF ControlInv, Bookkeeping, LocksHeld, Active, Stage, Looping, TouchedKeys
  <2>3. rows[t] = RowsOf(t, req[t], touched, journal)
    <3>1. InsertedKeys(t) = touched
      BY <2>1, <2>2 DEF InsertedKeys, Writing
    <3> QED BY <1>a, <3>1 DEF Pending
  <2>4. \A k : KeyRows(journal', k) =
           IF k \in touched
           THEN KeyRows(journal, k)
                  \cup InsertedRows(t, req[t], k, MaxMovementSeq(journal, k))
           ELSE KeyRows(journal, k)
    <3> TAKE k
    <3>1. KeyRows(journal', k) = KeyRows(journal, k) \cup KeyRows(rows[t], k)
      BY <2>1, KeyRowsUnion
    <3>2. KeyRows(rows[t], k) =
            IF k \in touched THEN InsertedRows(t, req[t], k, MaxMovementSeq(journal, k))
            ELSE {}
      BY <2>3, RowsOfKey
    <3> QED BY <3>1, <3>2
  <2>5. \A k \in Key : \E n \in Nat : SeqsOf(journal, k) = 1..n /\ MaxMovementSeq(journal, k) = n
    BY <1>a, MaxOfDense DEF Dense
  <2>6. journal' \subseteq Row
    <3>1. ASSUME NEW k \in touched
          PROVE  InsertedRows(t, req[t], k, MaxMovementSeq(journal, k)) \subseteq Row
      <4>1. MaxMovementSeq(journal, k) \in Nat
        BY <2>2, <2>5
      <4> QED BY <2>2, <4>1, InsertedRowsTyping
    <3>2. rows[t] \subseteq Row
      BY <2>3, <3>1 DEF RowsOf
    <3> QED BY <1>a, <2>1, <3>2
  <2>7. Dense(journal')
    <3>1. ASSUME NEW k \in Key PROVE \E n \in Nat : SeqsOf(journal', k) = 1..n
      <4>1. CASE k \notin touched
        BY <1>a, <2>4, <4>1 DEF Dense, SeqsOf
      <4>2. CASE k \in touched
        <5>1. PICK n \in Nat : SeqsOf(journal, k) = 1..n /\ MaxMovementSeq(journal, k) = n
          BY <2>5
        <5>2. Len(req[t].moves[k]) \in Nat
          BY <2>2, RequestTyping
        <5>3. {m.seq : m \in InsertedRows(t, req[t], k, n)}
                = {n + i : i \in 1..Len(req[t].moves[k])}
          <6>1. ASSUME NEW i \in 1..Len(req[t].moves[k])
                PROVE  \E m \in InsertedRows(t, req[t], k, n) : m.seq = n + i
            <7> DEFINE m0 == [key |-> k, seq |-> n + i, move |-> req[t].moves[k][i],
                              doc |-> req[t].doc, txn |-> t]
            <7>1. m0 \in InsertedRows(t, req[t], k, n) /\ m0.seq = n + i
              BY DEF InsertedRows
            <7> QED BY <7>1
          <6>2. ASSUME NEW m \in InsertedRows(t, req[t], k, n)
                PROVE  \E i \in 1..Len(req[t].moves[k]) : m.seq = n + i
            BY DEF InsertedRows
          <6> QED BY <6>1, <6>2
        <5>4. SeqsOf(journal', k) = (1..n) \cup {n + i : i \in 1..Len(req[t].moves[k])}
          BY <2>4, <4>2, <5>1, <5>3 DEF SeqsOf
        <5>5. (1..n) \cup {n + i : i \in 1..Len(req[t].moves[k])}
                = 1..(n + Len(req[t].moves[k]))
          <6> DEFINE len == Len(req[t].moves[k])
          <6> HIDE DEF len
          <6>1. (1..n) \cup {n + i : i \in 1..len} = 1..(n + len)
            BY <5>2, ShiftedInterval DEF len
          <6> QED BY <6>1 DEF len
        <5>6. n + Len(req[t].moves[k]) \in Nat
          BY <5>2
        <5> QED BY <5>4, <5>5, <5>6
      <4> QED BY <4>1, <4>2
    <3>2. ASSUME NEW m1 \in journal', NEW m2 \in journal', m1.key = m2.key, m1.seq = m2.seq
          PROVE  m1 = m2
      <4> DEFINE k == m1.key
      <4>1. /\ m1 \in KeyRows(journal', k) /\ m2 \in KeyRows(journal', k) /\ k \in Key
        BY <2>6, <3>2 DEF KeyRows, Row
      <4>2. CASE k \notin touched
        BY <1>a, <2>4, <3>2, <4>1, <4>2 DEF Dense, KeyRows
      <4>3. CASE k \in touched
        <5>1. PICK n \in Nat : SeqsOf(journal, k) = 1..n /\ MaxMovementSeq(journal, k) = n
          BY <2>5, <4>1
        <5>2. /\ m1 \in KeyRows(journal, k) \cup InsertedRows(t, req[t], k, n)
              /\ m2 \in KeyRows(journal, k) \cup InsertedRows(t, req[t], k, n)
          BY <2>4, <4>1, <4>3, <5>1
        <5>3. \A m \in KeyRows(journal, k) : m.seq <= n /\ m \in journal /\ m.key = k
          BY <5>1 DEF SeqsOf, KeyRows
        <5>4. \A m \in InsertedRows(t, req[t], k, n) :
                \E i \in 1..Len(req[t].moves[k]) :
                   m = [key |-> k, seq |-> n + i, move |-> req[t].moves[k][i],
                        doc |-> req[t].doc, txn |-> t]
          BY DEF InsertedRows
        <5>5. \A m \in InsertedRows(t, req[t], k, n) : m.seq > n
          BY <5>4, <2>2, RequestTyping
        <5>6. CASE m1.seq <= n
          <6>1. m1 \in journal /\ m2 \in journal
            <7>1. /\ m1 \in InsertedRows(t, req[t], k, n) => m1.seq > n
                  /\ m2 \in InsertedRows(t, req[t], k, n) => m2.seq > n
              BY <5>5
            <7>2. m1.seq \in Nat /\ m2.seq = m1.seq
              BY <2>6, <3>2 DEF Row
            <7>3. /\ m1 \notin InsertedRows(t, req[t], k, n)
                  /\ m2 \notin InsertedRows(t, req[t], k, n)
              BY <5>6, <7>1, <7>2
            <7> QED BY <5>2, <5>3, <7>3
          <6> QED BY <1>a, <3>2, <6>1 DEF Dense
        <5>7. CASE ~(m1.seq <= n)
          <6>1. m1 \in InsertedRows(t, req[t], k, n) /\ m2 \in InsertedRows(t, req[t], k, n)
            BY <3>2, <5>2, <5>3, <5>7
          <6>2. PICK i \in 1..Len(req[t].moves[k]) :
                   m1 = [key |-> k, seq |-> n + i, move |-> req[t].moves[k][i],
                         doc |-> req[t].doc, txn |-> t]
            BY <5>4, <6>1
          <6>3. PICK j \in 1..Len(req[t].moves[k]) :
                   m2 = [key |-> k, seq |-> n + j, move |-> req[t].moves[k][j],
                         doc |-> req[t].doc, txn |-> t]
            BY <5>4, <6>1
          <6>4. n + i = n + j
            BY <3>2, <6>2, <6>3
          <6>5. i = j
            BY <6>4
          <6> QED BY <6>2, <6>3, <6>5
        <5> QED BY <5>6, <5>7
      <4> QED BY <4>2, <4>3
    <3> QED BY <3>1, <3>2 DEF Dense
  <2>8. LevelIsFoldOfJournal'
    <3> SUFFICES ASSUME NEW k \in Key PROVE level'[k] = Level(KeyRows(journal', k))
      BY DEF LevelIsFoldOfJournal
    <3>1. CASE k \in touched
      <4>1. newLevel[t][k] = Level(KeyRows(Visible(t), k))
        BY <1>a, <2>1, <2>2, <3>1 DEF Pending, Writing
      <4> QED BY <2>1, <3>1, <4>1 DEF Visible
    <3>2. CASE k \notin touched
      BY <1>a, <2>1, <2>4, <3>2 DEF LevelIsFoldOfJournal
    <3> QED BY <3>1, <3>2
  <2>9. Pending(t)'
    BY <2>1 DEF Pending, InsertedKeys, Writing, RowsOf
  <2>10. ASSUME NEW u \in Txn, u # t
         PROVE  Pending(u)'
    <3>1. /\ pc'[u] = pc[u] /\ req'[u] = req[u] /\ todo'[u] = todo[u] /\ base'[u] = base[u]
          /\ rows'[u] = rows[u] /\ newLevel'[u] = newLevel[u] /\ Pending(u)
      BY <1>a, <2>1, <2>10
    <3>2. ASSUME pc[u] \in Writing, NEW k \in TouchedKeys(req[u])
          PROVE  KeyRows(journal', k) = KeyRows(journal, k)
      <4>1. lockHolder[LockOf[k]] = u
        BY <3>2 DEF ControlInv, LocksHeld, Writing, Active, Stage
      <4>2. k \notin touched
        BY <2>2, <2>10, <4>1
      <4> QED BY <2>4, <4>2
    <3>3. /\ InsertedKeys(u)' = InsertedKeys(u)
          /\ \A k \in InsertedKeys(u) : pc[u] \in Writing /\ k \in TouchedKeys(req[u])
      BY <3>1 DEF InsertedKeys, IsNextKey
    <3>4. RowsOf(u, req[u], InsertedKeys(u), journal')
            = RowsOf(u, req[u], InsertedKeys(u), journal)
      BY <3>2, <3>3, RowsOfSame
    <3>5. pc[u] = "inserting" =>
            \A k \in todo[u] : MaxMovementSeq(journal', k) = MaxMovementSeq(journal, k)
      <4>1. ASSUME pc[u] = "inserting", NEW k \in todo[u]
            PROVE  MaxMovementSeq(journal', k) = MaxMovementSeq(journal, k)
        <5>1. k \in TouchedKeys(req[u]) /\ pc[u] \in Writing
          BY <4>1 DEF ControlInv, Bookkeeping, Looping, Writing
        <5> QED BY <3>2, <5>1, MaxOfSameRows
      <4> QED BY <4>1
    <3>6. ASSUME pc[u] \in Writing, NEW k \in TouchedKeys(req[u])
          PROVE  KeyRows(journal' \cup rows[u], k) = KeyRows(journal \cup rows[u], k)
      <4>1. KeyRows(journal', k) = KeyRows(journal, k)
        BY <3>2, <3>6
      <4>2. /\ KeyRows(journal' \cup rows[u], k) = KeyRows(journal', k) \cup KeyRows(rows[u], k)
            /\ KeyRows(journal \cup rows[u], k) = KeyRows(journal, k) \cup KeyRows(rows[u], k)
        BY KeyRowsUnion
      <4> QED BY <4>1, <4>2
    <3> QED
      BY <3>1, <3>3, <3>4, <3>5, <3>6 DEF Pending, IsNextKey, Visible
  <2> QED
    BY <2>1, <2>6, <2>7, <2>8, <2>9, <2>10 DEF DataInv
<1>9. CASE UNCHANGED vars
  <2>1. ASSUME NEW t \in Txn PROVE Pending(t)'
    BY <1>9, <1>a, PendingFrame DEF vars, dbVars, txnVars
  <2> QED
    BY <1>9, <1>a, <2>1 DEF vars, dbVars, txnVars, DataInv, Dense, LevelIsFoldOfJournal
<1> QED
  BY <1>1, <1>2, <1>3, <1>4, <1>5, <1>6, <1>7, <1>8, <1>9 DEF Next, Submit, Step

(* What a transaction has read and written for its keys stays what it      *)
(* would read and write now, until it ends (posting.go:98-215).            *)
THEOREM DataCorrect == Spec => []DataInv
  BY ControlCorrect, InitData, NextData, PTL DEF Spec

(* The stock levels are the fold of the journal, in every state of every   *)
(* interleaving (posting.go:22-25, ADR-0001).                              *)
THEOREM LevelsAreFolded == Spec => []LevelIsFoldOfJournal
<1>1. DataInv => LevelIsFoldOfJournal
  BY DEF DataInv
<1> QED
  BY <1>1, DataCorrect, PTL

(* The seqs of a key are 1..n, each of one row (posting.go:121-163).       *)
THEOREM SeqsStayDense == Spec => []SeqsAreDense
<1>1. ASSUME DataInv PROVE SeqsAreDense
  <2>1. ASSUME NEW m \in journal, NEW i \in 1..m.seq
        PROVE  i \in SeqsOf(journal, m.key)
    <3>1. m.key \in Key /\ m.seq \in SeqsOf(journal, m.key)
      BY <1>1 DEF DataInv, Row, SeqsOf, KeyRows
    <3>2. PICK n \in Nat : SeqsOf(journal, m.key) = 1..n
      BY <1>1, <3>1 DEF DataInv, Dense
    <3> QED BY <3>1, <3>2
  <2> QED
    BY <1>1, <2>1 DEF SeqsAreDense, DataInv, Dense
<1> QED
  BY <1>1, DataCorrect, PTL

(***************************************************************************)
(* Types.                                                                  *)
(***************************************************************************)
DataTyping ==
  /\ base \in [Txn -> Nat]
  /\ rows \in [Txn -> SUBSET Row]

WrittenRowsTyped == \A t \in Txn : rows[t] \subseteq Row

(* What a transaction has inserted are journal rows.                       *)
LEMMA RowsTyped == ControlInv /\ DataInv => WrittenRowsTyped
<1> SUFFICES ASSUME ControlInv, DataInv, NEW t \in Txn
             PROVE  rows[t] \subseteq Row
  BY DEF WrittenRowsTyped
<1>1. rows[t] = RowsOf(t, req[t], InsertedKeys(t), journal)
  BY DEF DataInv, Pending
<1>2. ASSUME NEW k \in InsertedKeys(t)
      PROVE  InsertedRows(t, req[t], k, MaxMovementSeq(journal, k)) \subseteq Row
  <2>1. req[t] \in Requests /\ k \in Key
    BY <1>2 DEF InsertedKeys, Writing, ControlInv, Bookkeeping, Active, Stage, TouchedKeys
  <2>2. MaxMovementSeq(journal, k) \in Nat
    BY <2>1, MaxOfDense DEF DataInv, Dense
  <2> QED
    BY <2>1, <2>2, InsertedRowsTyping
<1> QED
  BY <1>1, <1>2 DEF RowsOf

(* Every statement keeps the read maxima and inserted rows in their types. *)
LEMMA NextTyped ==
  ControlInv /\ DataInv' /\ WrittenRowsTyped' /\ DataTyping /\ [Next]_vars => DataTyping'
<1> SUFFICES ASSUME ControlInv, DataInv', WrittenRowsTyped', DataTyping, [Next]_vars
             PROVE  DataTyping'
  OBVIOUS
<1>1. ASSUME NEW t \in Txn, ReadMaxSeq(t)
      PROVE  DataTyping'
  <2>1. PICK k \in todo[t] :
          IsNextKey(t, k) /\ base' = [base EXCEPT ![t] = MaxMovementSeq(Visible(t), k)]
    BY <1>1 DEF ReadMaxSeq
  <2>2. /\ pc'[t] = "inserting" /\ todo' = todo /\ IsNextKey(t, k)' /\ k \in Key
        /\ rows' = rows
    BY <1>1, <2>1 DEF ReadMaxSeq, GoTo, IsNextKey, ControlInv, ControlTyping
  <2>3. base'[t] = MaxMovementSeq(journal', k)
    BY <2>1, <2>2 DEF DataInv, Pending
  <2>4. MaxMovementSeq(journal', k) \in Nat
    BY <2>2, MaxOfDense DEF DataInv, Dense
  <2> QED
    BY <2>1, <2>2, <2>3, <2>4 DEF DataTyping
<1>2. ASSUME NEW t \in Txn, InsertMovements(t)
      PROVE  DataTyping'
  BY <1>2 DEF InsertMovements, WrittenRowsTyped, DataTyping
<1>3. ASSUME NEW t \in Txn, Commit(t) \/ Abort(t)
      PROVE  DataTyping'
  BY <1>3 DEF Commit, Abort, EndTransaction, DataTyping
<1>4. ASSUME UNCHANGED <<base, rows>>
      PROVE  DataTyping'
  BY <1>4 DEF DataTyping
<1> QED
  BY <1>1, <1>2, <1>3, <1>4
  DEF Next, Submit, Step, Begin, Reject, BeginNumbering, AcquireLock,
      RefoldKey, TakeNumber, vars, txnVars

(* Every variable keeps its type.                                          *)
THEOREM TypeCorrect == Spec => []TypeOK
<1>1. Init => DataTyping
  BY DEF Init, DataTyping
<1>2. ControlInv /\ DataInv /\ DataTyping => TypeOK
  BY DEF TypeOK, ControlInv, ControlTyping, DataInv, DataTyping
<1> QED
  BY <1>1, <1>2, NextTyped, RowsTyped, ControlCorrect, DataCorrect, PTL DEF Spec

(***************************************************************************)
(* 3. Numbers.                                                             *)
(***************************************************************************)
NumberInv ==
  /\ NumbersAreGapless
  /\ \A t \in Txn : Committed(t) => number[t] \in 1..(nextSeq[req[t].series] - 1)

(* At the start no number has been handed out.                             *)
LEMMA InitNumbers == Init => NumberInv
  BY DEF Init, NumberInv, NumbersAreGapless, Committed

(* A number is published by the commit that hands it out, and by no other  *)
(* step.                                                                   *)
LEMMA NextNumbers == ControlInv /\ NumberInv /\ [Next]_vars => NumberInv'
<1> SUFFICES ASSUME ControlInv, NumberInv, [Next]_vars PROVE NumberInv'
  OBVIOUS
<1>b. /\ pc \in [Txn -> Stage] /\ req \in [Txn -> Requests \cup {None}]
      /\ number \in [Txn -> Nat] /\ nextSeq \in [Series -> Nat \ {0}]
      /\ \A t \in Txn : pc[t] \in {"committing", "committed"} =>
           req[t] \in Requests /\ req[t].series \in Series
  BY RequestTyping DEF ControlInv, ControlTyping, Bookkeeping, Active, Stage
<1>1. ASSUME NEW t \in Txn, Commit(t)
      PROVE  NumberInv'
  <2> DEFINE s == req[t].series
  <2>1. /\ pc[t] = "committing" /\ pc' = [pc EXCEPT ![t] = "committed"]
        /\ req' = req /\ number' = number
        /\ nextSeq' = [nextSeq EXCEPT ![s] = number[t] + 1]
        /\ number[t] = nextSeq[s] /\ s \in Series
    BY <1>1, <1>b DEF Commit, GoTo, ControlInv, SeqRowsHeld
  <2>2. \A u \in Txn : Committed(u)' <=> u = t \/ Committed(u)
    BY <2>1, <1>b DEF Committed
  <2>3. ~Committed(t)
    BY <2>1 DEF Committed
  <2>4. ASSUME NEW u \in Txn, Committed(u)'
        PROVE  number[u] \in 1..(nextSeq'[req[u].series] - 1)
    <3>1. CASE u = t
      BY <1>b, <2>1, <3>1
    <3>2. CASE u # t
      BY <1>b, <2>1, <2>2, <2>4, <3>2 DEF NumberInv, Committed
    <3> QED BY <3>1, <3>2
  <2>5. ASSUME NEW u \in Txn, NEW v \in Txn, Committed(u)', Committed(v)',
               req[u].series = req[v].series, number[u] = number[v]
        PROVE  u = v
    <3>1. ASSUME NEW w \in Txn, Committed(w), req[w].series = s
          PROVE  number[w] # number[t]
      BY <1>b, <2>1, <3>1 DEF NumberInv
    <3> QED
      BY <2>2, <2>3, <2>5, <3>1 DEF NumberInv, NumbersAreGapless
  <2>6. ASSUME NEW x \in Series, NEW n \in 1..(nextSeq'[x] - 1)
        PROVE  \E u \in Txn : Committed(u)' /\ req[u].series = x /\ number[u] = n
    <3>1. CASE x = s /\ n = number[t]
      BY <2>2, <3>1
    <3>2. CASE ~(x = s /\ n = number[t])
      <4>1. n \in 1..(nextSeq[x] - 1)
        BY <1>b, <2>1, <3>2
      <4> QED
        BY <2>2, <4>1 DEF NumberInv, NumbersAreGapless
    <3> QED BY <3>1, <3>2
  <2> QED
    BY <2>1, <2>4, <2>5, <2>6 DEF NumberInv, NumbersAreGapless
<1>2. ASSUME NEW t \in Txn, nextSeq' = nextSeq, ~Committed(t), ~Committed(t)',
             \A u \in Txn \ {t} :
                pc'[u] = pc[u] /\ req'[u] = req[u] /\ number'[u] = number[u]
      PROVE  NumberInv'
  <2>1. \A u \in Txn : (Committed(u)' <=> Committed(u))
                       /\ (Committed(u) => req'[u] = req[u] /\ number'[u] = number[u])
    BY <1>2 DEF Committed
  <2> QED
    BY <1>2, <2>1 DEF NumberInv, NumbersAreGapless
<1>3. ASSUME NEW t \in Txn, NEW r \in Requests,
             Begin(t, r) \/ Reject(t, r) \/ BeginNumbering(t, r)
      PROVE  NumberInv'
  BY <1>2, <1>3, <1>b
  DEF Begin, Reject, BeginNumbering, GoTo, dbVars, Committed
<1>4. ASSUME NEW t \in Txn,
             AcquireLock(t) \/ ReadMaxSeq(t) \/ InsertMovements(t) \/ RefoldKey(t)
               \/ TakeNumber(t) \/ Abort(t)
      PROVE  NumberInv'
  BY <1>2, <1>4, <1>b
  DEF AcquireLock, ReadMaxSeq, InsertMovements, RefoldKey, TakeNumber, Abort,
      GoTo, dbVars, Committed, Active
<1>5. CASE UNCHANGED vars
  BY <1>5 DEF vars, dbVars, txnVars, NumberInv, NumbersAreGapless, Committed
<1> QED
  BY <1>1, <1>3, <1>4, <1>5 DEF Next, Submit, Step

(* The committed numbers of a series are 1..n, each of one transaction     *)
(* (ADR-0010).                                                             *)
THEOREM NumbersStayGapless == Spec => []NumbersAreGapless
<1>1. NumberInv => NumbersAreGapless
  BY DEF NumberInv
<1> QED
  BY <1>1, InitNumbers, NextNumbers, ControlCorrect, PTL DEF Spec

(***************************************************************************)
(* 4. What a commit does, and that it is all a posting does.               *)
(***************************************************************************)
(* A committing transaction holds all of its rows, based on the journal as *)
(* it is now.                                                              *)
LEMMA CommitAppends ==
  ASSUME ControlInv, DataInv, NEW t \in Txn, Commit(t)
  PROVE  /\ req[t] \in Requests /\ pc[t] = "committing"
         /\ rows[t] = RowsOf(t, req[t], TouchedKeys(req[t]), journal)
         /\ journal' = journal \cup RowsOf(t, req[t], TouchedKeys(req[t]), journal)
         /\ \A k \in TouchedKeys(req[t]) :
              k \in Key /\ newLevel[t][k] = Level(KeyRows(journal', k))
         /\ number[t] = nextSeq[req[t].series]
<1>1. /\ pc[t] = "committing" /\ journal' = journal \cup rows[t] /\ Pending(t)
  BY DEF Commit, DataInv
<1>2. /\ req[t] \in Requests /\ todo[t] = {} /\ number[t] = nextSeq[req[t].series]
  BY <1>1 DEF ControlInv, Bookkeeping, SeqRowsHeld, Active, Stage, Looping
<1>3. InsertedKeys(t) = TouchedKeys(req[t])
  BY <1>1, <1>2 DEF InsertedKeys, Writing
<1> QED
  BY <1>1, <1>2, <1>3 DEF Pending, Writing, Visible, TouchedKeys

(* Only a commit changes the journal, and it adds the rows of one posting. *)
LEMMA OnlyCommitsPublish ==
  ASSUME ControlInv, [Next]_vars
  PROVE  \/ \E t \in Txn : Commit(t)
         \/ /\ UNCHANGED dbVars
            /\ \A t \in Txn : /\ Committed(t)' <=> Committed(t)
                              /\ Committed(t) => req'[t] = req[t] /\ number'[t] = number[t]
<1>1. pc \in [Txn -> Stage] /\ req \in [Txn -> Requests \cup {None}] /\ number \in [Txn -> Nat]
  BY DEF ControlInv, ControlTyping
<1>2. ASSUME NEW t \in Txn, NEW r \in Requests,
             Begin(t, r) \/ Reject(t, r) \/ BeginNumbering(t, r)
      PROVE  /\ UNCHANGED dbVars
             /\ \A u \in Txn : /\ Committed(u)' <=> Committed(u)
                               /\ Committed(u) => req'[u] = req[u] /\ number'[u] = number[u]
  BY <1>1, <1>2 DEF Begin, Reject, BeginNumbering, GoTo, Committed
<1>3. ASSUME NEW t \in Txn,
             AcquireLock(t) \/ ReadMaxSeq(t) \/ InsertMovements(t) \/ RefoldKey(t)
               \/ TakeNumber(t) \/ Abort(t)
      PROVE  /\ UNCHANGED dbVars
             /\ \A u \in Txn : /\ Committed(u)' <=> Committed(u)
                               /\ Committed(u) => req'[u] = req[u] /\ number'[u] = number[u]
  BY <1>1, <1>3
  DEF AcquireLock, ReadMaxSeq, InsertMovements, RefoldKey, TakeNumber, Abort,
      GoTo, Committed, Active
<1>4. CASE UNCHANGED vars
  BY <1>4 DEF vars, dbVars, txnVars, Committed
<1> QED
  BY <1>2, <1>3, <1>4 DEF Next, Submit, Step

(* The committed rows of every key only grow, at their end (posting.sql:   *)
(* 47-49 and the append-only trigger).                                     *)
THEOREM JournalOnlyGrowsAtItsEnd == Spec => JournalGrowsAtItsEnd
<1> DEFINE Grows == /\ journal \subseteq journal'
                    /\ \A m \in journal' \ journal : \A old \in KeyRows(journal, m.key) :
                         old.seq < m.seq
<1>1. ControlInv /\ DataInv /\ [Next]_vars => [Grows]_journal
  <2> SUFFICES ASSUME ControlInv, DataInv, [Next]_vars, journal' # journal
               PROVE  Grows
    OBVIOUS
  <2>1. PICK t \in Txn : Commit(t)
    BY OnlyCommitsPublish DEF dbVars
  <2>2. journal' = journal \cup RowsOf(t, req[t], TouchedKeys(req[t]), journal)
        /\ req[t] \in Requests /\ TouchedKeys(req[t]) \subseteq Key
    BY <2>1, CommitAppends DEF TouchedKeys
  <2>3. ASSUME NEW m \in journal' \ journal, NEW old \in KeyRows(journal, m.key)
        PROVE  old.seq < m.seq
    <3>1. PICK k \in TouchedKeys(req[t]) :
             m \in InsertedRows(t, req[t], k, MaxMovementSeq(journal, k))
      BY <2>2, <2>3 DEF RowsOf
    <3>2. PICK n \in Nat : SeqsOf(journal, k) = 1..n /\ MaxMovementSeq(journal, k) = n
      BY <2>2, MaxOfDense DEF DataInv, Dense
    <3>3. m.key = k /\ \E i \in 1..Len(req[t].moves[k]) : m.seq = n + i
      BY <3>1, <3>2 DEF InsertedRows
    <3>4. old.seq \in 1..n
      BY <2>3, <3>2, <3>3 DEF SeqsOf
    <3>5. Len(req[t].moves[k]) \in Nat
      BY <2>2, RequestTyping
    <3> QED BY <3>3, <3>4, <3>5
  <2> QED
    BY <2>2, <2>3
<1> QED
  BY <1>1, ControlCorrect, DataCorrect, PTL DEF Spec, JournalGrowsAtItsEnd

(* Every step keeps postings all or nothing (posting.go:40-98).            *)
LEMMA NextAtomic ==
  ControlInv /\ DataInv /\ PostingIsAtomic /\ [Next]_vars => PostingIsAtomic'
<1> SUFFICES ASSUME ControlInv, DataInv, PostingIsAtomic, [Next]_vars
             PROVE  PostingIsAtomic'
  OBVIOUS
<1>1. ASSUME NEW t \in Txn, Commit(t)
      PROVE  PostingIsAtomic'
  <2> DEFINE touched == TouchedKeys(req[t])
  <2>1. /\ req[t] \in Requests /\ touched \subseteq Key
        /\ journal' = journal \cup RowsOf(t, req[t], touched, journal)
        /\ req' = req /\ ~Committed(t)
        /\ \A u \in Txn : Committed(u)' <=> u = t \/ Committed(u)
    BY <1>1, CommitAppends
    DEF Commit, GoTo, Committed, ControlInv, ControlTyping, TouchedKeys
  <2>2. \A k : KeyRows(journal', k) =
           KeyRows(journal, k)
             \cup (IF k \in touched
                   THEN InsertedRows(t, req[t], k, MaxMovementSeq(journal, k)) ELSE {})
    <3> TAKE k
    <3> DEFINE new == RowsOf(t, req[t], touched, journal)
    <3>1. KeyRows(journal', k) = KeyRows(journal, k) \cup KeyRows(new, k)
      BY <2>1, KeyRowsUnion
    <3>2. KeyRows(new, k) =
            IF k \in touched THEN InsertedRows(t, req[t], k, MaxMovementSeq(journal, k))
            ELSE {}
      BY RowsOfKey
    <3> QED BY <3>1, <3>2
  <2>3. \A k, b : \A m \in InsertedRows(t, req[t], k, b) : m.txn = t
    BY DEF InsertedRows
  <2>4. \A m \in journal : Committed(m.txn)
    BY DEF PostingIsAtomic
  <2>5. ASSUME NEW m \in journal'
        PROVE  Committed(m.txn)'
    BY <2>1, <2>3, <2>4 DEF RowsOf, Row, DataInv
  <2>6. ASSUME NEW u \in Txn, Committed(u)', NEW k \in Key
        PROVE  \E b \in {0} \cup SeqsOf(journal', k) :
                 {m \in KeyRows(journal', k) : m.txn = u} = InsertedRows(u, req[u], k, b)
    <3>1. CASE u = t
      <4>1. {m \in KeyRows(journal, k) : m.txn = t} = {}
        BY <2>1, <2>4 DEF KeyRows
      <4>2. PICK n \in Nat : SeqsOf(journal, k) = 1..n /\ MaxMovementSeq(journal, k) = n
        BY <2>6, MaxOfDense DEF DataInv, Dense
      <4>3. n \in {0} \cup SeqsOf(journal', k)
        <5>1. n \in {0} \cup SeqsOf(journal, k)
          BY <4>2
        <5> QED BY <2>2, <5>1 DEF SeqsOf
      <4>4. CASE k \in touched
        <5>1. {m \in KeyRows(journal', k) : m.txn = t} = InsertedRows(t, req[t], k, n)
          BY <2>2, <2>3, <4>1, <4>2, <4>4
        <5> QED BY <3>1, <4>3, <5>1
      <4>5. CASE k \notin touched
        <5>1. InsertedRows(t, req[t], k, n) = {}
          <6>1. Len(req[t].moves[k]) \in Nat /\ ~(Len(req[t].moves[k]) > 0)
            BY <2>1, <2>6, <4>5, RequestTyping DEF TouchedKeys
          <6>2. 1..Len(req[t].moves[k]) = {}
            BY <6>1
          <6> QED BY <6>2 DEF InsertedRows
        <5> QED BY <2>2, <3>1, <4>1, <4>3, <4>5, <5>1
      <4> QED BY <4>4, <4>5
    <3>2. CASE u # t
      <4>1. PICK b \in {0} \cup SeqsOf(journal, k) :
              {m \in KeyRows(journal, k) : m.txn = u} = InsertedRows(u, req[u], k, b)
        BY <2>1, <2>6, <3>2 DEF PostingIsAtomic
      <4>2. {m \in KeyRows(journal', k) : m.txn = u} = {m \in KeyRows(journal, k) : m.txn = u}
        BY <2>2, <2>3, <3>2
      <4>3. b \in {0} \cup SeqsOf(journal', k)
        BY <2>2, <4>1 DEF SeqsOf
      <4> QED BY <4>1, <4>2, <4>3
    <3> QED BY <3>1, <3>2
  <2> QED
    BY <2>1, <2>5, <2>6 DEF PostingIsAtomic
<1>2. CASE /\ UNCHANGED dbVars
           /\ \A t \in Txn : /\ Committed(t)' <=> Committed(t)
                             /\ Committed(t) => req'[t] = req[t] /\ number'[t] = number[t]
  <2>1. \A m \in journal : m.txn \in Txn
    BY DEF DataInv, Row
  <2> QED
    BY <1>2, <2>1 DEF PostingIsAtomic, dbVars
<1> QED
  BY <1>1, <1>2, OnlyCommitsPublish

(* A posting leaves all of its rows or none (posting.go:40-98).            *)
THEOREM PostingsAreAtomic == Spec => []PostingIsAtomic
<1>1. Init => PostingIsAtomic
  BY DEF Init, PostingIsAtomic, Committed
<1> QED
  BY <1>1, NextAtomic, ControlCorrect, DataCorrect, PTL DEF Spec

(***************************************************************************)
(* 5. Refinement: every step is a step of StockLedger or changes nothing   *)
(* it sees.                                                                *)
(***************************************************************************)
(* Initial states map to initial states.                                   *)
LEMMA RefinesInit == Init => Ledger!Init
  BY DEF Init, Ledger!Init, Outcome, Committed, Ledger!NoOutcome, NoOutcome

(* A commit maps to a posting of the ledger, every other step to a         *)
(* stutter.                                                                *)
LEMMA RefinesNext ==
  ControlInv /\ ControlInv' /\ DataInv /\ [Next]_vars => [Ledger!Next]_Ledger!vars
<1> SUFFICES ASSUME ControlInv, DataInv, [Next]_vars
             PROVE  [Ledger!Next]_Ledger!vars
  OBVIOUS
<1>1. ASSUME NEW t \in Txn, Commit(t)
      PROVE  Ledger!Next
  <2> DEFINE touched == TouchedKeys(req[t])
  <2>1. /\ req[t] \in Requests /\ number[t] = nextSeq[req[t].series]
        /\ journal' = journal \cup RowsOf(t, req[t], touched, journal)
        /\ \A k \in touched : k \in Key /\ newLevel[t][k] = Level(KeyRows(journal', k))
    BY <1>1, CommitAppends
  <2>2. /\ level' = [k \in Key |-> IF k \in touched THEN newLevel[t][k] ELSE level[k]]
        /\ nextSeq' = [nextSeq EXCEPT ![req[t].series] = number[t] + 1]
        /\ pc[t] = "committing" /\ pc' = [pc EXCEPT ![t] = "committed"]
        /\ req' = req /\ number' = number /\ pc \in [Txn -> Stage]
    BY <1>1 DEF Commit, GoTo, ControlInv, ControlTyping
  <2>3. Ledger!Number(t, req[t])
    <3>1. Outcome(t) = NoOutcome
      BY <2>2 DEF Outcome, Committed
    <3>2. \A u \in Txn : Outcome(u)' =
             IF u = t THEN [req |-> req[t], number |-> nextSeq[req[t].series]] ELSE Outcome(u)
      BY <2>1, <2>2 DEF Outcome, Committed
    <3>3. [u \in Txn |-> Outcome(u)]' =
             [[u \in Txn |-> Outcome(u)] EXCEPT
                ![t] = [req |-> req[t], number |-> nextSeq[req[t].series]]]
      BY <3>2
    <3>4. nextSeq' = [nextSeq EXCEPT ![req[t].series] = @ + 1]
      BY <2>1, <2>2
    <3> QED
      BY <3>1, <3>3, <3>4 DEF Ledger!Number, Ledger!NoOutcome, NoOutcome
  <2>4. CASE touched # {}
    <3>1. level' = [k \in Key |-> IF k \in touched
                                  THEN Level(KeyRows(journal', k)) ELSE level[k]]
      BY <2>1, <2>2
    <3>2. Ledger!Post(t, req[t])
      BY <2>1, <2>3, <2>4, <3>1
      DEF Ledger!Post, Ledger!TouchedKeys, TouchedKeys, Ledger!RowsOf, RowsOf,
          Ledger!InsertedRows, InsertedRows, Ledger!MaxMovementSeq, MaxMovementSeq,
          Ledger!SeqsOf, SeqsOf, Ledger!KeyRows, KeyRows
    <3> QED BY <2>1, <3>2 DEF Ledger!Next
  <2>5. CASE touched = {}
    <3>1. journal' = journal
      BY <2>1, <2>5 DEF RowsOf
    <3>2. level' = level
      BY <2>2, <2>5 DEF DataInv
    <3>3. Ledger!Assign(t, req[t])
      BY <2>3, <2>5, <3>1, <3>2 DEF Ledger!Assign, Ledger!TouchedKeys, TouchedKeys
    <3> QED BY <2>1, <3>3 DEF Ledger!Next
  <2> QED BY <2>4, <2>5
<1>2. CASE /\ UNCHANGED dbVars
           /\ \A t \in Txn : /\ Committed(t)' <=> Committed(t)
                             /\ Committed(t) => req'[t] = req[t] /\ number'[t] = number[t]
  BY <1>2 DEF Ledger!vars, Outcome, dbVars
<1> QED
  BY <1>1, <1>2, OnlyCommitsPublish

(* The posting transactions implement the ledger that posts at one instant *)
(* (posting.go:16-25).                                                     *)
THEOREM PostingImplementsLedger == Spec => ImplementsStockLedger
  BY RefinesInit, RefinesNext, ControlCorrect, DataCorrect, PTL
  DEF Spec, ImplementsStockLedger, Ledger!Spec

(***************************************************************************)
(* 6. No deadlock.                                                         *)
(***************************************************************************)

(* A lock is held for a key its holder has visited, keys are visited in    *)
(* their order, and a counter row is held only by a committing transaction.*)
HeldForAKey ==
  \A l \in Lock : lockHolder[l] # None =>
    /\ pc[lockHolder[l]] \in Active
    /\ \E k \in TouchedKeys(req[lockHolder[l]]) :
         /\ LockOf[k] = l
         /\ ~(pc[lockHolder[l]] = "locking" /\ k \in todo[lockHolder[l]])

VisitedInOrder ==
  \A t \in Txn : pc[t] = "locking" =>
    \A k \in todo[t] : \A j \in TouchedKeys(req[t]) \ todo[t] : j <= k

CounterHeldToCommit ==
  \A s \in Series : seqHolder[s] # None => pc[seqHolder[s]] = "committing"

LockInv == HeldForAKey /\ VisitedInOrder /\ CounterHeldToCommit

(* At the start no lock is held.                                           *)
LEMMA InitLocks == Init => LockInv
  BY DEF Init, LockInv, HeldForAKey, VisitedInOrder, CounterHeldToCommit

(* Every statement keeps the reasons for which locks are held.             *)
LEMMA NextLocks == ControlInv /\ LockInv /\ [Next]_vars => LockInv'
<1> SUFFICES ASSUME ControlInv, LockInv, [Next]_vars PROVE LockInv'
  OBVIOUS
<1> USE NoneIsNoTxn, KeyAssumption, LockAssumption, RequestTyping
    DEF LockInv, HeldForAKey, VisitedInOrder, CounterHeldToCommit
<1>a. /\ lockHolder \in [Lock -> Txn \cup {None}] /\ seqHolder \in [Series -> Txn \cup {None}]
      /\ pc \in [Txn -> Stage] /\ req \in [Txn -> Requests \cup {None}]
      /\ todo \in [Txn -> SUBSET Key]
  BY DEF ControlInv, ControlTyping
<1>1. ASSUME NEW t \in Txn, NEW r \in Requests,
             Begin(t, r) \/ Reject(t, r) \/ BeginNumbering(t, r)
      PROVE  LockInv'
  <2>1. \A l \in Lock : lockHolder[l] # t
    BY <1>1, <1>a DEF Begin, Reject, BeginNumbering, Active
  <2>2. \A s \in Series : seqHolder[s] # t
    BY <1>1, <1>a DEF Begin, Reject, BeginNumbering
  <2>3. CASE Begin(t, r)
    BY <2>1, <2>2, <2>3, <1>a DEF Begin, GoTo
  <2>4. CASE Reject(t, r)
    BY <2>1, <2>2, <2>4, <1>a DEF Reject, GoTo
  <2>5. CASE BeginNumbering(t, r)
    BY <2>1, <2>2, <2>5, <1>a DEF BeginNumbering, GoTo
  <2> QED BY <1>1, <2>3, <2>4, <2>5
<1>2. ASSUME NEW t \in Txn, AcquireLock(t) PROVE LockInv'
  <2>1. PICK k \in todo[t] :
          /\ IsNextKey(t, k)
          /\ lockHolder' = [lockHolder EXCEPT ![LockOf[k]] = t]
          /\ IF todo[t] = {k}
             THEN pc' = [pc EXCEPT ![t] = "reading"]
                  /\ todo' = [todo EXCEPT ![t] = TouchedKeys(req[t])]
             ELSE todo' = [todo EXCEPT ![t] = @ \ {k}] /\ pc' = pc
    BY <1>2 DEF AcquireLock, GoTo
  <2>2. pc[t] = "locking" /\ UNCHANGED <<seqHolder, req>>
    BY <1>2 DEF AcquireLock
  <2>3. k \in Key /\ LockOf[k] \in Lock /\ k \in TouchedKeys(req[t])
    BY <2>2, <1>a DEF ControlInv, Bookkeeping, Looping
  <2>4. HeldForAKey'
    <3> SUFFICES ASSUME NEW l \in Lock, lockHolder'[l] # None
                 PROVE  /\ pc'[lockHolder'[l]] \in Active
                        /\ \E j \in TouchedKeys(req'[lockHolder'[l]]) :
                             /\ LockOf[j] = l
                             /\ ~(pc'[lockHolder'[l]] = "locking" /\ j \in todo'[lockHolder'[l]])
      OBVIOUS
    <3>1. CASE l = LockOf[k]
      <4>1. lockHolder'[l] = t /\ req'[t] = req[t]
        BY <3>1, <2>1, <2>2, <2>3, <1>a
      <4>2. pc'[t] \in Active /\ ~(pc'[t] = "locking" /\ k \in todo'[t])
        BY <2>1, <2>2, <1>a DEF Active, Stage
      <4> QED BY <3>1, <4>1, <4>2, <2>3
    <3>2. CASE l # LockOf[k]
      <4>1. lockHolder'[l] = lockHolder[l]
        BY <3>2, <2>1, <2>3, <1>a
      <4>2. PICK j \in TouchedKeys(req[lockHolder[l]]) :
              LockOf[j] = l /\ ~(pc[lockHolder[l]] = "locking" /\ j \in todo[lockHolder[l]])
        BY <4>1
      <4>3. pc[lockHolder[l]] \in Active
        BY <4>1
      <4>4. CASE lockHolder[l] = t
        <5>1. pc'[t] \in Active /\ ~(pc'[t] = "locking" /\ j \in todo'[t])
          BY <4>2, <4>4, <2>1, <2>2, <1>a DEF Active, Stage
        <5> QED BY <5>1, <4>1, <4>2, <4>4, <2>2
      <4>5. CASE lockHolder[l] # t
        <5>1. pc'[lockHolder[l]] = pc[lockHolder[l]] /\ todo'[lockHolder[l]] = todo[lockHolder[l]]
          <6>1. lockHolder[l] \in Txn
            BY <4>1, <1>a
          <6>2. ASSUME NEW u \in Txn, u # t PROVE pc'[u] = pc[u] /\ todo'[u] = todo[u]
            BY <2>1, <6>2, <1>a
          <6> QED BY <6>1, <6>2, <4>5
        <5> QED BY <5>1, <4>1, <4>2, <4>3, <2>2
      <4> QED BY <4>4, <4>5
    <3> QED BY <3>1, <3>2
  <2>5. VisitedInOrder'
    <3> SUFFICES ASSUME NEW u \in Txn, pc'[u] = "locking", NEW i \in todo'[u],
                        NEW j \in TouchedKeys(req'[u]) \ todo'[u]
                 PROVE  j <= i
      OBVIOUS
    <3>1. CASE u = t
      <4>1. todo[t] # {k} /\ todo'[t] = todo[t] \ {k}
        BY <3>1, <2>1, <2>2, <1>a
      <4>2. CASE j = k
        BY <4>1, <4>2, <3>1, <2>1 DEF IsNextKey
      <4>3. CASE j # k
        BY <4>1, <4>3, <3>1, <2>2
      <4> QED BY <4>2, <4>3
    <3>2. CASE u # t
      <4>1. pc[u] = "locking" /\ todo'[u] = todo[u]
        BY <3>2, <2>1, <1>a
      <4> QED BY <4>1, <2>2
    <3> QED BY <3>1, <3>2
  <2>6. CounterHeldToCommit'
    BY <2>1, <2>2, <1>a
  <2> QED BY <2>4, <2>5, <2>6
<1>3. ASSUME NEW t \in Txn, ReadMaxSeq(t) \/ InsertMovements(t) \/ RefoldKey(t) \/ TakeNumber(t)
      PROVE  LockInv'
  <2>1. /\ pc[t] \in Active \ {"locking", "committing"}
        /\ pc' = [pc EXCEPT ![t] = pc'[t]] /\ pc'[t] \in Active \ {"locking"}
        /\ lockHolder' = lockHolder /\ req' = req
        /\ \A u \in Txn \ {t} : todo'[u] = todo[u]
    <3>1. CASE ReadMaxSeq(t)
      BY <3>1, <1>a DEF ReadMaxSeq, GoTo, Active, Stage
    <3>2. CASE InsertMovements(t)
      BY <3>2, <1>a DEF InsertMovements, GoTo, Active, Stage
    <3>3. CASE RefoldKey(t)
      BY <3>3, <1>a DEF RefoldKey, GoTo, Active, Stage
    <3>4. CASE TakeNumber(t)
      BY <3>4, <1>a DEF TakeNumber, GoTo, Active, Stage, dbVars
    <3> QED BY <1>3, <3>1, <3>2, <3>3, <3>4
  <2>2. HeldForAKey'
    <3> SUFFICES ASSUME NEW l \in Lock, lockHolder[l] # None
                 PROVE  /\ pc'[lockHolder[l]] \in Active
                        /\ \E j \in TouchedKeys(req[lockHolder[l]]) :
                             /\ LockOf[j] = l
                             /\ ~(pc'[lockHolder[l]] = "locking" /\ j \in todo'[lockHolder[l]])
      BY <2>1
    <3>1. PICK j \in TouchedKeys(req[lockHolder[l]]) :
            LockOf[j] = l /\ ~(pc[lockHolder[l]] = "locking" /\ j \in todo[lockHolder[l]])
      OBVIOUS
    <3>2. pc[lockHolder[l]] \in Active /\ lockHolder[l] \in Txn
      BY <1>a
    <3>3. CASE lockHolder[l] = t
      BY <3>1, <3>3, <2>1
    <3>4. CASE lockHolder[l] # t
      <4>1. pc'[lockHolder[l]] = pc[lockHolder[l]] /\ todo'[lockHolder[l]] = todo[lockHolder[l]]
        BY <3>2, <3>4, <2>1, <1>a
      <4> QED BY <4>1, <3>1, <3>2
    <3> QED BY <3>3, <3>4
  <2>3. VisitedInOrder'
    <3> SUFFICES ASSUME NEW u \in Txn, pc'[u] = "locking" PROVE u # t /\ pc[u] = "locking"
      BY <2>1
    <3> QED BY <2>1, <1>a
  <2>4. CounterHeldToCommit'
    <3>1. CASE TakeNumber(t)
      BY <3>1, <1>a DEF TakeNumber, GoTo
    <3>2. CASE ~TakeNumber(t)
      <4>1. seqHolder' = seqHolder
        BY <1>3, <3>2 DEF ReadMaxSeq, InsertMovements, RefoldKey
      <4> QED BY <4>1, <2>1, <1>a
    <3> QED BY <3>1, <3>2
  <2> QED BY <2>2, <2>3, <2>4
<1>4. ASSUME NEW t \in Txn, Commit(t) \/ Abort(t) PROVE LockInv'
  <2>1. /\ lockHolder' = [l \in Lock |-> IF lockHolder[l] = t THEN None ELSE lockHolder[l]]
        /\ seqHolder' = [s \in Series |-> IF seqHolder[s] = t THEN None ELSE seqHolder[s]]
        /\ todo' = [todo EXCEPT ![t] = {}] /\ req' = req
        /\ pc' = [pc EXCEPT ![t] = pc'[t]] /\ pc'[t] # "locking"
    BY <1>4, <1>a DEF Commit, Abort, EndTransaction, GoTo
  <2> QED BY <2>1, <1>a
<1>5. CASE UNCHANGED vars
  BY <1>5 DEF vars, dbVars, txnVars
<1> QED
  BY <1>1, <1>2, <1>3, <1>4, <1>5 DEF Next, Submit, Step

(* Of a set of transactions that all wait, the one that asks for the       *)
(* greatest lock waits for a transaction that asks for a lesser one, which *)
(* it must have taken before.                                              *)
LEMMA LocksExcludeDeadlock == ControlInv /\ LockInv => NoDeadlock
<1> SUFFICES ASSUME ControlInv, LockInv,
                    NEW ts \in (SUBSET Txn) \ {{}},
                    \A t \in ts : \E u \in ts : WaitsFor(t, u)
             PROVE  FALSE
  BY DEF NoDeadlock
<1> USE NoneIsNoTxn, KeyAssumption, LockAssumption
<1>a. /\ lockHolder \in [Lock -> Txn \cup {None}] /\ seqHolder \in [Series -> Txn \cup {None}]
      /\ req \in [Txn -> Requests \cup {None}] /\ todo \in [Txn -> SUBSET Key]
  BY DEF ControlInv, ControlTyping
<1>1. ASSUME NEW t \in ts
      PROVE  pc[t] = "locking" /\ \E u \in ts, k \in todo[t] :
               t # u /\ IsNextKey(t, k) /\ lockHolder[LockOf[k]] = u
  <2>1. PICK u \in ts : WaitsFor(t, u)
    OBVIOUS
  <2>2. pc[u] \in {"locking", "numbering"}
    BY DEF WaitsFor
  <2>3. CASE pc[t] = "numbering"
    <3>1. seqHolder[req[t].series] = u
      BY <2>1, <2>3 DEF WaitsFor
    <3>2. req[t].series \in Series
      BY <2>3, RequestTyping DEF ControlInv, Bookkeeping, Active, Stage
    <3> QED BY <3>1, <3>2, <2>2 DEF LockInv, CounterHeldToCommit
  <2> QED BY <2>1, <2>3 DEF WaitsFor
<1> DEFINE asked == {l \in Lock : \E t \in ts : \E k \in todo[t] : IsNextKey(t, k) /\ LockOf[k] = l}
<1>2. PICK m \in asked : \A l \in asked : l <= m
  <2>1. PICK t \in ts : TRUE
    OBVIOUS
  <2>2. PICK k \in todo[t] : IsNextKey(t, k)
    BY <1>1
  <2>3. k \in Key
    BY <1>a
  <2>4. LockOf[k] \in asked
    BY <2>2, <2>3
  <2> QED BY <2>4, LockOrderAssumption
<1>3. PICK t \in ts : \E k \in todo[t] : IsNextKey(t, k) /\ LockOf[k] = m
  OBVIOUS
<1>4. PICK u \in ts : t # u /\ lockHolder[m] = u
  <2>1. PICK k \in todo[t] : IsNextKey(t, k) /\ LockOf[k] = m
    BY <1>3
  <2>2. PICK u \in ts, i \in todo[t] : t # u /\ IsNextKey(t, i) /\ lockHolder[LockOf[i]] = u
    BY <1>1
  <2>3. i = k
    BY <2>1, <2>2, <1>a DEF IsNextKey
  <2> QED BY <2>1, <2>2, <2>3
<1>5. PICK v \in ts, k \in todo[u] : u # v /\ IsNextKey(u, k) /\ lockHolder[LockOf[k]] = v
  BY <1>1
<1>6. PICK j \in TouchedKeys(req[u]) : LockOf[j] = m /\ j \notin todo[u]
  BY <1>1, <1>4 DEF LockInv, HeldForAKey
<1>7. j \in Key /\ k \in Key /\ j <= k
  BY <1>1, <1>6, <1>a DEF LockInv, VisitedInOrder, TouchedKeys
<1>8. LockOf[k] = m
  <2>1. m <= LockOf[k]
    BY <1>6, <1>7, LockOrderAssumption
  <2>2. LockOf[k] \in asked
    BY <1>5, <1>7
  <2>3. m \in Nat /\ LockOf[k] \in Nat /\ LockOf[k] <= m
    BY <2>2, <1>2, <1>7
  <2> QED BY <2>1, <2>3
<1> QED
  BY <1>4, <1>5, <1>8

(* Concurrent postings never wait for each other in a circle               *)
(* (posting.go:60-62).                                                     *)
THEOREM PostingsNeverDeadlock == Spec => []NoDeadlock
<1>1. Spec => [](ControlInv /\ LockInv)
  BY InitControl, InitLocks, NextControl, NextLocks, PTL DEF Spec
<1> QED
  BY <1>1, LocksExcludeDeadlock, PTL
=============================================================================
