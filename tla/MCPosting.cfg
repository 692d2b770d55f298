CONSTANTS
  gr = gr
  dl = dl
  tr = tr
  po = po
  None = None
  Txn = {t1, t2, t3}
  Doc = {gr, dl, tr, po}
  Series = {"GR", "DL"}
  Key <- MCKey
  Move <- MCMove
  Requests <- MCRequests
  Lock <- MCLock
  LockOf <- MCLockOf
  Level <- FoldedRows
SPECIFICATION FairSpec
INVARIANTS TypeOK LevelIsFoldOfJournal SeqsAreDense NumbersAreGapless PostingIsAtomic NoDeadlock
PROPERTIES JournalGrowsAtItsEnd ImplementsStockLedger EveryPostingEnds
CHECK_DEADLOCK FALSE
