------------------------------- MODULE Posting -------------------------------
(***************************************************************************)
(* store/posting.go and store/numbering.go: posting transactions running   *)
(* concurrently against PostgreSQL at READ COMMITTED.  Every statement of  *)
(* a transaction is a step; it reads what is committed together with the   *)
(* transaction's own writes, which become visible to others at its commit. *)
(* A transaction may fail at any step, which rolls it back and releases    *)
(* its locks.                                                              *)
(***************************************************************************)
EXTENDS Journal

CONSTANTS
  Lock,       \* advisory locks
  LockOf      \* LockStockKey: the lock of a key, which leaves out the batch

ASSUME LockAssumption == Lock \subseteq Nat /\ LockOf \in [Key -> Lock]

(* Locks are numbered in the order of their keys: the keys that share one  *)
(* differ in the batch alone, by which sortedKeys sorts last (two products *)
(* or warehouses whose 64-bit hashes collide are left out).  There are     *)
(* finitely many, so any that are asked for have a greatest.               *)
ASSUME LockOrderAssumption ==
  /\ \A j, k \in Key : j <= k => LockOf[j] <= LockOf[k]
  /\ \A ls \in SUBSET Lock : ls # {} => \E m \in ls : \A l \in ls : l <= m

VARIABLES
  journal,    \* committed stock_movements
  level,      \* committed stock_levels
  nextSeq,    \* committed document_number_sequences
  lockHolder, \* Lock -> the transaction holding the advisory lock, or None
  seqHolder,  \* Series -> the transaction holding the counter row, or None
  pc,         \* where each transaction is
  req,        \* its request
  todo,       \* the keys its current loop has still to visit
  base,       \* the MaxMovementSeq it read for the key it is at
  rows,       \* the movements it has inserted and not committed
  newLevel,   \* the levels it has upserted and not committed
  number      \* the number it has taken

dbVars  == <<journal, level, nextSeq>>
txnVars == <<pc, req, todo, base, rows, newLevel, number>>
vars    == <<journal, level, nextSeq, lockHolder, seqHolder, txnVars>>

Stage == {"idle", "locking", "reading", "inserting", "folding",
          "numbering", "committing", "committed", "aborted"}

Active == Stage \ {"idle", "committed", "aborted"}

Init ==
  /\ journal = {}
  /\ level = [k \in Key |-> Level({})]
  /\ nextSeq = [s \in Series |-> 1]
  /\ lockHolder = [l \in Lock |-> None]
  /\ seqHolder = [s \in Series |-> None]
  /\ pc = [t \in Txn |-> "idle"]
  /\ req = [t \in Txn |-> None]
  /\ todo = [t \in Txn |-> {}]
  /\ base = [t \in Txn |-> 0]
  /\ rows = [t \in Txn |-> {}]
  /\ newLevel = [t \in Txn |-> [k \in Key |-> Level({})]]
  /\ number = [t \in Txn |-> 0]

GoTo(t, stage) == pc' = [pc EXCEPT ![t] = stage]

(* Mutation: keys in the iteration order of the Go map.                    *)
IsNextKeyUnsorted(t, k) == k \in todo[t]

(* sortedKeys: the loop visits the least of the keys it has left.          *)
IsNextKey(t, k) == k \in todo[t] /\ \A j \in todo[t] : k <= j

Visible(t) == journal \cup rows[t]

(* Post begins a transaction; a request without movements is rejected.     *)
Begin(t, r) ==
  /\ pc[t] = "idle"
  /\ TouchedKeys(r) # {}
  /\ GoTo(t, "locking")
  /\ req' = [req EXCEPT ![t] = r]
  /\ todo' = [todo EXCEPT ![t] = TouchedKeys(r)]
  /\ UNCHANGED <<dbVars, lockHolder, seqHolder, base, rows, newLevel, number>>

Reject(t, r) ==
  /\ pc[t] = "idle"
  /\ TouchedKeys(r) = {}
  /\ GoTo(t, "aborted")
  /\ UNCHANGED <<dbVars, lockHolder, seqHolder, req, todo, base, rows, newLevel, number>>

(* Numberer.Next is called in a transaction that moves no stock.           *)
BeginNumbering(t, r) ==
  /\ pc[t] = "idle"
  /\ TouchedKeys(r) = {}
  /\ GoTo(t, "numbering")
  /\ req' = [req EXCEPT ![t] = r]
  /\ UNCHANGED <<dbVars, lockHolder, seqHolder, todo, base, rows, newLevel, number>>

(* Mutation: two postings of one key do not ask for the same lock.         *)
AcquireLockUnshared(t) ==
  /\ pc[t] = "locking"
  /\ \E k \in todo[t] :
       /\ IsNextKey(t, k)
       /\ lockHolder' = [lockHolder EXCEPT ![LockOf[k]] = t]
       /\ IF todo[t] = {k}
          THEN /\ GoTo(t, "reading")
               /\ todo' = [todo EXCEPT ![t] = TouchedKeys(req[t])]
          ELSE /\ todo' = [todo EXCEPT ![t] = @ \ {k}]
               /\ UNCHANGED pc
  /\ UNCHANGED <<dbVars, seqHolder, req, base, rows, newLevel, number>>

(* pg_advisory_xact_lock: waits for another holder, reentrant for its own. *)
AcquireLock(t) ==
  /\ pc[t] = "locking"
  /\ \E k \in todo[t] :
       /\ IsNextKey(t, k)
       /\ lockHolder[LockOf[k]] \in {None, t}
       /\ lockHolder' = [lockHolder EXCEPT ![LockOf[k]] = t]
       /\ IF todo[t] = {k}
          THEN /\ GoTo(t, "reading")
               /\ todo' = [todo EXCEPT ![t] = TouchedKeys(req[t])]
          ELSE /\ todo' = [todo EXCEPT ![t] = @ \ {k}]
               /\ UNCHANGED pc
  /\ UNCHANGED <<dbVars, seqHolder, req, base, rows, newLevel, number>>

(* postKey, first statement.                                               *)
ReadMaxSeq(t) ==
  /\ pc[t] = "reading"
  /\ \E k \in todo[t] :
       /\ IsNextKey(t, k)
       /\ base' = [base EXCEPT ![t] = MaxMovementSeq(Visible(t), k)]
  /\ GoTo(t, "inserting")
  /\ UNCHANGED <<dbVars, lockHolder, seqHolder, req, todo, rows, newLevel, number>>

(* Mutation: the inserts go to the pool instead of the transaction.        *)
InsertMovementsAutocommitted(t) ==
  /\ pc[t] = "inserting"
  /\ \E k \in todo[t] :
       /\ IsNextKey(t, k)
       /\ journal' = journal \cup InsertedRows(t, req[t], k, base[t])
  /\ GoTo(t, "folding")
  /\ UNCHANGED <<level, nextSeq, lockHolder, seqHolder, req, todo, base, rows, newLevel, number>>

(* postKey, its inserts: seq runs on from the maximum it read.             *)
InsertMovements(t) ==
  /\ pc[t] = "inserting"
  /\ \E k \in todo[t] :
       /\ IsNextKey(t, k)
       /\ rows' = [rows EXCEPT ![t] = @ \cup InsertedRows(t, req[t], k, base[t])]
  /\ GoTo(t, "folding")
  /\ UNCHANGED <<dbVars, lockHolder, seqHolder, req, todo, base, newLevel, number>>

(* Mutation: the re-fold reads outside the transaction.                    *)
RefoldKeyCommittedOnly(t) ==
  /\ pc[t] = "folding"
  /\ \E k \in todo[t] :
       /\ IsNextKey(t, k)
       /\ newLevel' = [newLevel EXCEPT ![t][k] = Level(KeyRows(journal, k))]
       /\ todo' = [todo EXCEPT ![t] = @ \ {k}]
       /\ GoTo(t, IF todo[t] = {k} THEN "numbering" ELSE "reading")
  /\ UNCHANGED <<dbVars, lockHolder, seqHolder, req, base, rows, number>>

(* postKey, the rest: KeyMovements, the costing engine, UpsertStockLevel.  *)
RefoldKey(t) ==
  /\ pc[t] = "folding"
  /\ \E k \in todo[t] :
       /\ IsNextKey(t, k)
       /\ newLevel' = [newLevel EXCEPT ![t][k] = Level(KeyRows(Visible(t), k))]
       /\ todo' = [todo EXCEPT ![t] = @ \ {k}]
       /\ GoTo(t, IF todo[t] = {k} THEN "numbering" ELSE "reading")
  /\ UNCHANGED <<dbVars, lockHolder, seqHolder, req, base, rows, number>>

(* Mutation: a database SEQUENCE, which a rollback does not undo.          *)
TakeNumberFromSequence(t) ==
  /\ pc[t] = "numbering"
  /\ number' = [number EXCEPT ![t] = nextSeq[req[t].series]]
  /\ nextSeq' = [nextSeq EXCEPT ![req[t].series] = @ + 1]
  /\ GoTo(t, "committing")
  /\ UNCHANGED <<journal, level, lockHolder, seqHolder, req, todo, base, rows, newLevel>>

(* Mutation: the advisory locks are given back before the commit.          *)
TakeNumberUnlocked(t) ==
  /\ pc[t] = "numbering"
  /\ seqHolder[req[t].series] = None
  /\ seqHolder' = [seqHolder EXCEPT ![req[t].series] = t]
  /\ lockHolder' = [l \in Lock |-> IF lockHolder[l] = t THEN None ELSE lockHolder[l]]
  /\ number' = [number EXCEPT ![t] = nextSeq[req[t].series]]
  /\ GoTo(t, "committing")
  /\ UNCHANGED <<dbVars, req, todo, base, rows, newLevel>>

(* NextDocumentNumber locks the counter row until the transaction ends.    *)
TakeNumber(t) ==
  /\ pc[t] = "numbering"
  /\ seqHolder[req[t].series] = None
  /\ seqHolder' = [seqHolder EXCEPT ![req[t].series] = t]
  /\ number' = [number EXCEPT ![t] = nextSeq[req[t].series]]
  /\ GoTo(t, "committing")
  /\ UNCHANGED <<dbVars, lockHolder, req, todo, base, rows, newLevel>>

(* The end of a transaction releases its locks and leaves no work behind.  *)
EndTransaction(t) ==
  /\ lockHolder' = [l \in Lock |-> IF lockHolder[l] = t THEN None ELSE lockHolder[l]]
  /\ seqHolder' = [s \in Series |-> IF seqHolder[s] = t THEN None ELSE seqHolder[s]]
  /\ todo' = [todo EXCEPT ![t] = {}]
  /\ base' = [base EXCEPT ![t] = 0]
  /\ rows' = [rows EXCEPT ![t] = {}]
  /\ newLevel' = [newLevel EXCEPT ![t] = [k \in Key |-> Level({})]]

(* Every touched key has been upserted when the transaction commits.       *)
Commit(t) ==
  /\ pc[t] = "committing"
  /\ GoTo(t, "committed")
  /\ journal' = journal \cup rows[t]
  /\ level' = [k \in Key |-> IF k \in TouchedKeys(req[t])
                              THEN newLevel[t][k] ELSE level[k]]
  /\ nextSeq' = [nextSeq EXCEPT ![req[t].series] = number[t] + 1]
  /\ EndTransaction(t)
  /\ UNCHANGED <<req, number>>

(* An error, a cancelled request or a lost connection: tx.Rollback.        *)
Abort(t) ==
  /\ pc[t] \in Active
  /\ GoTo(t, "aborted")
  /\ EndTransaction(t)
  /\ UNCHANGED <<dbVars, req, number>>

Step(t) ==
  \/ AcquireLock(t)
  \/ ReadMaxSeq(t)
  \/ InsertMovements(t)
  \/ RefoldKey(t)
  \/ TakeNumber(t)
  \/ Commit(t)

Submit(t) == \E r \in Requests : Begin(t, r) \/ Reject(t, r) \/ BeginNumbering(t, r)

Next == \E t \in Txn : Submit(t) \/ Step(t) \/ Abort(t)

Spec == Init /\ [][Next]_vars

(* The database runs a statement it was sent; nobody is obliged to submit  *)
(* a request, and nothing ever has to fail.                                *)
FairSpec == Spec /\ \A t \in Txn : WF_vars(Step(t))
-----------------------------------------------------------------------------
(* Properties.                                                             *)

(* Every value a posting transaction (posting.go:41-96) keeps or commits   *)
(* is of its kind; in particular every inserted row is numbered from 1 up. *)
TypeOK ==
  /\ journal \subseteq Row
  /\ DOMAIN level = Key
  /\ nextSeq \in [Series -> Nat \ {0}]
  /\ lockHolder \in [Lock -> Txn \cup {None}]
  /\ seqHolder \in [Series -> Txn \cup {None}]
  /\ pc \in [Txn -> Stage]
  /\ req \in [Txn -> Requests \cup {None}]
  /\ todo \in [Txn -> SUBSET Key]
  /\ base \in [Txn -> Nat]
  /\ rows \in [Txn -> SUBSET Row]
  /\ DOMAIN newLevel = Txn /\ \A t \in Txn : DOMAIN newLevel[t] = Key
  /\ number \in [Txn -> Nat]

(* The stock_levels cache of every key is the fold of the key's whole      *)
(* committed journal, whatever the interleaving, the failures and the      *)
(* effective dates: "never drifting from" the journal (posting.go:22-25).  *)
LevelIsFoldOfJournal ==
  \A k \in Key : level[k] = Level(KeyRows(journal, k))

(* Within a key the committed seqs are 1..n without a repetition, so that  *)
(* (effective_at, seq) orders the fold totally; no unique index backs it.  *)
SeqsAreDense ==
  /\ \A m1, m2 \in journal : m1.key = m2.key /\ m1.seq = m2.seq => m1 = m2
  /\ \A m \in journal : \A i \in 1..m.seq : i \in SeqsOf(journal, m.key)

Committed(t) == pc[t] = "committed"

(* ADR-0010: the numbers handed out in a series are 1..n, each to exactly  *)
(* one committed transaction, although failed ones had taken numbers too.  *)
NumbersAreGapless ==
  /\ \A t, u \in Txn :
       Committed(t) /\ Committed(u) /\ req[t].series = req[u].series
         /\ number[t] = number[u] => t = u
  /\ \A s \in Series : \A n \in 1..(nextSeq[s] - 1) :
       \E t \in Txn : Committed(t) /\ req[t].series = s /\ number[t] = n

(* A posting is all or nothing: the rows of a committed transaction are    *)
(* every movement it was asked for, key by key and in input order, and no  *)
(* other transaction has left a row.                                       *)
PostingIsAtomic ==
  /\ \A m \in journal : Committed(m.txn)
  /\ \A t \in Txn : Committed(t) =>
       \A k \in Key : \E b \in {0} \cup SeqsOf(journal, k) :
         {m \in KeyRows(journal, k) : m.txn = t} = InsertedRows(t, req[t], k, b)

(* The journal is append-only and grows at its end: a committed row never  *)
(* changes, and a new row of a key comes after all the rows it had.        *)
JournalGrowsAtItsEnd ==
  [][/\ journal \subseteq journal'
     /\ \A m \in journal' \ journal : \A old \in KeyRows(journal, m.key) :
          old.seq < m.seq]_journal

(* t is blocked by u: it asks for an advisory lock or a counter row u has. *)
WaitsFor(t, u) ==
  /\ t # u
  /\ \/ /\ pc[t] = "locking"
        /\ \E k \in todo[t] : IsNextKey(t, k) /\ lockHolder[LockOf[k]] = u
     \/ /\ pc[t] = "numbering"
        /\ seqHolder[req[t].series] = u

(* Postings never deadlock: no set of transactions is such that each of    *)
(* them waits for another one of the set (posting.go:60-62).               *)
NoDeadlock ==
  \A ts \in (SUBSET Txn) \ {{}} : \E t \in ts : \A u \in ts : ~WaitsFor(t, u)

(* A request that started is committed or rolled back: the order in which  *)
(* locks are taken leaves no posting waiting for ever.                     *)
EveryPostingEnds ==
  \A t \in Txn : pc[t] = "locking" ~> pc[t] \in {"committed", "aborted"}

(* Concurrent postings look as if each had happened at one instant.        *)
Outcome(t) ==
  IF Committed(t) THEN [req |-> req[t], number |-> number[t]] ELSE NoOutcome

Ledger == INSTANCE StockLedger WITH outcome <- [t \in Txn |-> Outcome(t)]

ImplementsStockLedger == Ledger!Spec
=============================================================================
