# Sinta in TLA+

Sinta is a multi-tenant warehouse application: a Go API over PostgreSQL
(`server/`) and a React client (`client/`). Stock is an append-only journal of
movements; documents (receipts, deliveries, transfers, adjustments, counts) are
drafted, posted to the journal under a gapless number, and cancelled by reversal
documents. This directory specifies the server's core (costing, posting by
concurrent transactions, documents, memberships) and the client as what it is to
its users: handlers that are suspended at every request, forms that are filled
from data that is still on its way, and caches that may be old.

## 1. Inventory

| Component | State | Operations | What is hard | What makes it correct |
|---|---|---|---|---|
| Costing engine (`domain/costing`) | none: a fold | `Cost` | rounding, negative stock, value left at zero quantity, corrections | the average stays near the exact one; receipts average between; the answer flags negative stock |
| Posting (`store/posting.go`, `posting.sql`) | `stock_movements`, `stock_levels`, `document_number_sequences`; advisory locks | `Poster.Post` | transactions at READ COMMITTED, lock order, backdated rows, failure between statements | levels are the fold of the journal; dense seqs; all or nothing; no deadlock; as if atomic |
| Numbering (`store/numbering.go`) | the counter row | `Numberer.Next` | rollback after a number was taken | no gap, no duplicate |
| Stock documents (`httpserver/{goods_receipts,deliveries,stock_*}.go`) | header (status, number, reversal links), lines, system quantities | create, update, delete, post, reverse of five kinds | a call is two to four transactions; anything happens in between; it may be cut off | headers backed by the journal; booked once; immutable once posted; a reversal undoes its original |
| Over-receipt and over-delivery guard | order lines | `checkOverReceipt`, `checkOverDelivery` | check and effect in different transactions | receipts stay within the order |
| Orders (`purchase_orders.go`, `sales_orders.go`) | header, lines | create, update, delete, post, reverse; cancel is a stub | concurrent posts; the year of the number | one number per order |
| Tenants, members, invites (`tenancy.go`) | tenants, memberships, invitations | found, change and remove members, invite, revoke, accept | counts and invites read before they are acted on | a tenant keeps an owner; memberships come from owners, invites and foundings |
| Sessions (`auth.go`, `session.go`) | session: user and active tenant | login, logout, switch, accept, found | one session for all tabs; requests do not name a tenant | a save lands in the tenant it was made in |
| Lists (`documents.go`, `documents.sql`) | none: keyset queries | seven lists, by status | the table changes between pages | no document twice, none missed |
| Document pages (`client/src/routes/_authed/{purchases,sales,stock}`) | route, form, dialog, cached record, running handlers | save, post, reverse, edit, open, leave | clicks while a request is out, answers lost, data that arrives late, other users | one document per new page, posted as confirmed, links kept, own work shown |
| Count sheet (`stock/opnames/-opname-flow.tsx`, `$id.tsx`, `new.tsx`) | step, warehouse, sheet, draft id, handlers | build, count, scan, review, save, post, resume | builds, saves and posts overlap | counts are entered ones; posted as reviewed; one document per flow |
| List pages and order progress (`*/index.tsx`, `doc-list.tsx`) | pages loaded per filter | open, filter, load more, join receipts to orders | refetch page by page, refused pages, a join of the first page only | as Lists; no order shown further along than it is |
| Session, tenant, catalog, report and settings pages (`routes/_authed/route.tsx`, `lib/session.ts`, ...) | cached session, layout context, cached rows | login, register, switch, found, invite, save, open | three ideas of the active tenant; caches under keys that do not name it | settles on the active tenant's rows and its own saves |
| Fulfillment rollup, rate limiter, reports, UI kit, configuration, generated code | | read-only, presentation or wiring | | not modelled, see section 5 |

**How they interact.** A document handler on the server opens a transaction that
checks the document and plans its movements (`build`), and commits it. It passes
the plan to `Poster.Post`, which has a transaction of its own: it locks the stock
keys in order, appends the rows of each key, folds the journal of the key into
its level with the costing engine, takes the number and commits. The handler then
marks the document in a third transaction. Orders call the `Numberer` in the
transaction that marks them. Between these transactions nothing is held but local
variables.

The client calls the server by HTTP and keeps what it reads in the caches of
TanStack Query. A click starts an async function; it runs up to its first request,
and then whatever comes first goes on: another click, an answer, the data of a
query, a navigation, which takes the form but not the function. The session is a
cookie that all tabs share, and the active tenant is a field of the session:
requests do not say which tenant they mean.

The hazards this gives rise to, line by line and with the property that covers
each, are listed under `hazards` in `PROJECT.json`.

## 2. Modules

```
server                                              client
Costing <- KeyLevel --------------------.           DocumentPages   one tab, six kinds
Journal <- StockLedger  (one instant)   |           CountSheet      one tab, one flow
   |  \      ^      ^                   |           DocumentLists   one tab, list + table
   |   \     |      '--- StockDocuments |           Workspace ----> Membership (server)
   |    '- Posting (implements StockLedger)
MCStockDocuments = StockDocuments + KeyLevel        MCX = X with small constants

with TLAPS: CostingProofs = Costing, KeyLevel,  PostingProofs = Posting,
DocumentsProofs = StockDocuments,  WorkspaceProofs = Membership, Workspace,
CountSheetProofs = CountSheet,  ListsProofs = DocumentLists,  PagesProofs = DocumentPages,
SumProofs = finite sums, which Costing-, Documents- and ListsProofs use
```

### Server

* **Costing** translates `average.go`: `Inbound`, `Outbound`, `CostCorrection`
  are the three branches of the loop, `ClearedAtZero` the clearing after it.
  `DivRound` rounds halves away from zero, as the decimal library does. Costs are
  integers in the last decimal place the engine keeps (`avgCostScale`); values are
  exact and only the division rounds, as in the code.
* **KeyLevel** is the part of `postKey` that turns the rows of a key into a
  level: order by (effective date, seq), fold, keep quantity and average.
* **Journal** has requests, rows and queries. `Level(_)` is a constant operator,
  so what is said of posting holds for any costing engine.
* **StockLedger** is the abstract specification: a posting is one step.
* **Posting** is `Poster.Post`, statement by statement. A transaction sees what is
  committed and its own writes (`Visible`); `rows`, `newLevel` and `number` are
  its uncommitted writes, installed by `Commit`. `lockHolder` are the advisory
  locks, one per product and warehouse and hence shared by batches (`LockOf`);
  `seqHolder` is the row lock of the counter. `Abort` may happen at every step.

  | Action | Code (`store/posting.go`) |
  |---|---|
  | `Begin`, `Reject` | 41-60: no movements is an error |
  | `AcquireLock` | 62-73, in the order of `sortedKeys` |
  | `ReadMaxSeq`, `InsertMovements`, `RefoldKey` | `postKey` 102-215, key by key |
  | `TakeNumber` | 81-90 |
  | `Commit`, `Abort` | 92-96, the deferred rollback of 50 |
  | `BeginNumbering` | `Numberer.Next` in an order's transaction |

* **StockDocuments** has the tables (`doc`) and the calls (`call`) and uses
  StockLedger's `Post` and `Assign` as steps. A call runs through its
  transactions: `BeginPost`, [`RecheckOpname`,] `PostToLedger`, `Mark`;
  `BeginReverse`, `PostToLedger`, `Mark`; `BeginUpdate`, `FinishUpdate`;
  `BeginDelete`, `FinishDelete`; a count without variance goes from its plan to
  `NumberAndMark`. `crossed` is a history variable: the documents that two calls
  had in hand at once. Update and delete are one transaction in the code, but their
  status check is a statement of its own and locks nothing, hence two steps.
  `Fail` ends a call between any two of its steps: an error answer, a cancelled
  request, a restart. The five kinds share the handlers' code almost line by
  line; where they differ (`MovementsOf`, the count's snapshot, the receipt's
  cost) the module has a case.
* **Membership** has memberships (`role`), tenants and invites. A request that
  changes memberships is two steps: what it reads (`UpdateMember`, `RemoveMember`
  with `guardLastOwner`; `CreateTenant` with the count against the cap;
  `AcceptInvite` with the lookup) and what it writes (`WriteMember`,
  `InsertTenant`, `Join`, which leaves a membership that exists alone). `Abort`
  ends it in between. `crossed` is a history variable: the tenants in which the
  requests of two owners were under way at once.

### Client

All client modules bound what users do by `MaxActs` (clicks, edits, navigation,
other users) and the handlers that run at once by `Slot`. What the program and the
server do of themselves is not bounded. A request is sent, handled by the server
or not, and answered or not, in separate steps, so an answer may be lost after
the server did what was asked. An exception a property makes for something that
went wrong is a named ghost: `adrift` and a handler's `met` in DocumentPages,
`mishaps` in CountSheet and Workspace. `steady` in DocumentLists is the documents
that a list has to show.

* **DocumentPages**: the pages of purchase orders, goods receipts, sales orders,
  deliveries, transfers and adjustments. The six share their shape; each is a
  record of the details in which they differ (`NewOrderPage`, ...,
  `AdjustmentPostedDetail`): what disables a button, where a page goes after a
  refused post, whether a failed save stops the post, which queries are
  awaited before the dialog closes. The actions read those records. `OtherUserActs` updates,
  posts, deletes or reverses under the page, and notes in `met` that it stored a
  draft a handler is between saving and posting; `Reload` and `Leave` take the page
  away from a running handler.
* **CountSheet**: the flow from warehouse to sheet to review to post (`build`,
  `save` and `post` handlers), and a draft that is resumed from the cached record.
  `of` is the warehouse whose report the sheet was built from, which is not always
  the one it is sent under. What is typed is a text, and `countedQty` what
  `Number` makes of it: nothing is no count, blanks are zero, other texts `NaN`.
  Other users update, post and delete the draft.
* **DocumentLists**: seven lists on `nextCursorIfMore` and `ListDocuments`. Opening
  a list fetches all loaded pages again, each from the cursor of the one before;
  `LoadMore` appends; the table changes in between (`Others`). A document is its
  place in the order (`created_at`, `id`); as `created_at` is when its transaction
  began, documents also appear behind younger ones. Orders are joined with the
  first page of receipts or deliveries (`receivedByPoLine`, `fulfilledLines`), which
  are drafted, posted, reversed by one of their own kind and deleted (`DeleteLinked`)
  meanwhile.
* **Workspace** composes one tab with Membership and the session. The tab has
  three ideas of the tenant: the cached `session`, the context its layout was
  routed with (`page.ctx`) and the rows in `cache`. `Page` gives the queries a page
  mounts and what its save invalidates. `Rebound` is the server's switch of the
  session, which is two statements (`HalfSwitched` is the state between them);
  `OtherTab` does the same, or logs out, behind this tab's back. A login goes where
  the page that asked for it was (`Landing`): home or back to the invite, whose page
  reads the session again (`SessionRefetched`).

Operators commented "Mutation" are plausible bugs, one for each property;
substituting one for the definition it follows makes TLC refute the property.

## 3. Runs

| Run | Question | Bounds | States | Time |
|---|---|---|---|---|
| `costing` | is the fold right for every journal? | up to 5 movements, quantities 1-3, costs 1 and 4, a correction of 2 | 111,111 | 6 s |
| `posting` | are concurrent postings consistent, and does each end? | 3 transactions, 3 keys of which 2 share a lock, 4 requests, 2 series | 40,844 | 10 s |
| `documents` | what survives calls that overlap or are cut off, and what holds of the documents where none did? | 3 calls, 3 documents, all five kinds | 885,985 | 70 s |
| `document_pages` | do the pages do what their user meant? | 6 kinds, 2 documents, 2 handlers, 3 products, 4 acts | 1,214,458 | 160 s |
| `count_sheet` | does the count that is posted come from the user? | 2 warehouses, 2 rows, counts 0 and 1, 2 documents, 2 handlers, 4 acts | 4,319,604 | 90 s |
| `workspace` | does a tab settle on its tenant and its saves? | 3 users, 3 tenants, 1 invite, cap 3, 2 handlers, 3 pages, 3 acts | 1,382,108 | 50 s |
| `lists` | are lists whole, and progress honest? | 7 kinds, 3 documents on pages of 1, 3 receipts on pages of 2, 2 filters, 3 acts | 2,978,858 | 90 s |

**Why the bounds are enough.** In `costing` five movements hold a receipt, an
issue that leaves a residue, a second receipt, a crossing of zero and a return.
In `posting` the requests are chosen to collide: a receipt that moves one key
twice and its sister batch, a backdated delivery and a transfer that name two
keys in opposite orders, and a request that only takes a number; three
transactions give every pair of them a third to come between. The level is the
sequence of rows it was folded from (`FoldedRows`): every engine's level is a
function of that, so no difference between journals is lost. In `documents` three
calls are a post, a reverse and one that races with them, and three documents an
original, its reversal and one whose stock the others meet.

In `document_pages` the saved document has two lines, one of a product that is
listed and one of a product that is archived, and a third product can be added;
two documents and two handlers are what a second click needs to make a second
document, and four acts reach, for instance, edit, post, confirm and another
click. In `count_sheet` every product is off the sheet of the other warehouse, so
that a report that arrives late is told from the right one; one act builds, one
counts, and two overlap. In `workspace` there is a user in two tenants, one who
founded a tenant and one in none. In `lists` pages of one document make every
boundary between documents a boundary between pages, the first and the last
included; three documents are a page before, a page at and a page after the
boundary that moves.

Where symmetry is used (calls and documents in `documents`, the documents of
`count_sheet` and its two warehouses together with their rows) nothing tells the
members apart; `posting` and `document_pages`, which
check liveness, use none. All specifications may stop, as every call is made once
and acts are bounded, so deadlock is not checked; real deadlock of the locks is
`NoDeadlock`.

**What overlapping calls may break.** Nothing in the code keeps two calls off one
document, so in `documents` any two may meet. `PostedIsBacked` and
`ReversedHasReversal` then still hold of all documents. The other properties leave
out the documents that are `Disturbed`: those two calls had in hand at once
(`crossed`), where two posts of one draft book it twice and an update may change a
document another call has just posted, and those whose call was cut off between
posting and mark (`Unsettled`), which stay drafts that are booked. Of every other
document they hold, whatever happens to its neighbours, to the stock they share and
to their numbers. `TenantKeepsAnOwner` likewise leaves out the tenants in which two
owners' requests met: without that it fails, as `last_owner` shows.

**What the client properties except.** Each exception is a way the code really
fails, met while the properties were written, and each is narrow:

| Property | Except | Because |
|---|---|---|
| `NewPageMakesOneDocument` | other kinds than transfers and adjustments | new orders and receipts stay on the page after a refused post, new sales orders and deliveries do not disable their buttons: the next click creates another |
| | a lost answer, a page left | the page cannot know that the document was created |
| `PostsWhatWasConfirmed` | record pages of orders and receipts | there a save and a post may run at once |
| | record pages of sales orders and deliveries | there the post goes on after a refused save |
| | a lost answer, a page left | a handler of the page left behind goes on and saves |
| | another user's update between the page's own save and its post (`met`) | the server compares no version: what the other user stored is booked |
| `PostsWhatWasReviewed` | `late` | a report that arrives after another warehouse was chosen fills the sheet of that one: counts made against one warehouse are booked in the other |
| | `refused`, `crossed` | the answer to the update before the post is not looked at; saves and posts do not exclude each other |
| | `met` | as above: no version is compared |
| `CountsWereEntered` | `late`, as to the warehouse only | the same late report |
| `FlowMakesOneDocument` | `lost`, `crossed` | a document whose answer was lost is unknown to the flow; a save and a post that overlap each create one |
| `ResumesStoredCounts` | `behind`, `left` | a save does not invalidate the record the draft is resumed from, and another user's update does not reach it |
| `ShowsActiveTenant` | any mishap | a query in flight across a switch may bring the old tenant's rows back |
| `ShowsOwnSaves` | `in flight`, `left` | a fetch begun before the save is not begun again, be it of a page left meanwhile; a page opened meanwhile has other keys |
| `SavesLandWhereShown` | `overlap`, `lost`, `other tab` | the save names no tenant |
| `RowsAreWhole` | refused pages | a refused page passes for the last one |
| `ProgressIsNotAhead` | orders one of whose receipts or deliveries was reversed | a reversal counts as a receipt: `reversal_counts` |

**Five runs state what a comment, message or decision record says** of the code
and show a counterexample; each is a finding in `PROJECT.json`:

* `over_receipt`: goods_receipts.go:447-448 says the lock prevents "two concurrent
  receipts from both passing the check". It is released with the planning
  transaction, before the receipt is posted and counted.
* `opname_reversal`: stock_opnames.go:474-475 says a reversal "restores the
  pre-opname on-hand". Its variance is computed from the level that the count
  itself has set, so it is zero.
* `delivery_links`: deliveries/new.tsx:32-33 and -deliveries-data.ts:121-122 say
  that `salesOrderLineId` is set and "rides through". The record page makes its
  grid lines of product and quantity alone, so a draft that is saved again loses
  its links to the order.
* `last_owner`: tenancy.go:264 says "a tenant must always have at least one
  owner". Two requests that overlap each count two owners and leave none.
* `reversal_counts`: -order-data.ts:117-119 says "a reversed receipt has had its stock
  returned, so neither counts", and -sales-order-data.ts:147-148 "Drafts and reversals
  do not count". But a reversal is itself a receipt or delivery, posted with the
  order, line links and quantities of its original (goods_receipts.go:399-421,
  deliveries.go:339-357), so the order is shown as received as before. The tests
  (-order-data.test.ts:273) have only the original in their lists.

Divergences of the same kind, known and without a run: a draft whose call was cut
off after its posting is booked twice when it is posted again
(document_posting.go:52-54 calls that "a no-op number bump"); the reversal of a
reversal issues the goods again (goods_receipts.go:505-507); a reversed delivery
enters at cost zero (deliveries.go:446-448); a draft count is resumed from a cached
record (opnames/$id.tsx:68-70); the flag of provisional costs, which ADR-0003 says
marks an issue into negative stock, is never stored: `postKey` writes the request's
`Provisional` (posting.go:138), which no handler sets, and drops the engine's
(posting.go:187-194), so the reconciliation worklist stays empty
(reconciliation_test.go:38 sets the flag in its own request); a count typed as blanks
is stored as zero, where -opname-sheet.ts:6-7 says an uncounted row is "NEVER
defaulted to 0".

**Fairness.** `posting` has weak fairness of each transaction's own next
statement, for `EveryPostingEnds`: the database runs the statements it is sent and
grants a free lock. Nobody is obliged to submit a request and nothing has to fail,
so `Submit` and `Abort` are not fair. Weak fairness of `AcquireLock` and
`TakeNumber` is enough since transactions that get to wait for a lock are finite in
number. `document_pages` has weak fairness of what the browser does by itself, for
`PostedIsShown`: the queries of the open page get their data, and a request that
was sent is answered or fails. Nothing is assumed of users or of the server's
handling: a request that is never handled still fails in the end.

## 4. Proofs

The eight `*Proofs` modules are checked by TLAPS. Their theorems hold for every set
of keys, locks, transactions, documents, inputs, users, tenants, rows, products,
pages, filters and handlers, for journals and documents of any length, for every
bound on what users do, and for every costing engine. Every invariant of a passing
run is a theorem. They assume only what the constants are, in named `ASSUME`s that
TLC evaluates in the runs:

| Module | Assumptions |
|---|---|
| Journal, Posting | keys are numbers in the order of `sortedKeys` (`KeyAssumption`), requests are requests (`RequestsAssumption`), every key has a lock (`LockAssumption`), locks are numbered as their keys and any set of them has a greatest (`LockOrderAssumption`) |
| MCCosting | movements are of integers, a quantity moved is positive (`MovementsAssumption`) |
| StockDocuments | inputs are of the five kinds, name warehouses of the tenant and have at most `MaxLines` lines in integers (`InputsAssumption`), an item has a key in each warehouse (`KeysAssumption`), order lines have integer quantities and costs (`OrdersAssumption`) |
| Membership | users are finite (`UserAssumption`), a tenant has one founder and only founded tenants have other members at first (`FoundersAssumption`) |
| DocumentLists | documents are finitely many numbers (`IdAssumption`), the filter for all is a filter (`FilterAssumption`), pages hold at least one document (`LimitsAssumption`) |
| CountSheet | a warehouse has counted stock of some rows (`OnHandAssumption`), zero can be counted, and `NaN` is no count (`CountsAssumption`) |
| DocumentPages | kinds are the six (`KindsAssumption`), products on documents are products (`ProductsAssumption`) |
| Workspace | pages are pages of the client (`PagesAssumption`) |
| all | `None` is none of what it stands beside, bounds are numbers |

Theorems that type documents have a hypothesis besides, written in their statements:
`Costed` says that movements are made of numbers and that the engine answers any
finite set of rows in numbers. It is needed where numbers that depend on the level are
typed, that is for transfers and counts. `LevelsAreNumbers` proves that the engine of
the code is such an engine. No theorem assumes that calls or requests do not overlap.

**Sums.** No induction theorem of the library can be cited, as they take operators.
`FiniteInduction` and `NaturalInduction` (SumProofs) take a set of members instead: a
set of naturals that contains zero and the successors of its members is all of them.
They give what `SumFunction` of the community modules does: a function is summed
one member at a time (`SumTakes`), sums over two sets that a bijection relates
are equal (`SumMatches`), a sum splits by any part of its set.

**Costing**

* Folds are unrolled movement by movement (`PositionsType`, `ValuationsFollow`), and
  `DivRound` is off the quotient by at most a half (`RoundsToNearest`).
* `ReceiptsAverageIn`: the average after a receipt is a weighted mean of the old one
  and the cost, and rounding, which is monotone, keeps it between.
* `NegativesAreProvisional`, by induction on the place in the journal.
* `ValuesTrackExact`: the invariant (`Tracks`) compares the engine with the exact
  fold after the same movements. An issue of k of Q units shrinks the drift there was
  by the share that leaves and adds at most half a unit of the last place for each
  unit issued (`IssueDrifts`). It holds as long as stock backs every issue.
* `OnHandIsTheSum`: what is on hand is the sum of what the rows of the key moved. The
  order of the journal is a bijection from places to rows (`OrderIsBijection`), hence
  neither backdating nor the clearing of the value at zero loses a quantity. With
  `LevelsAreFolded` and `SeqsStayDense` of Posting: the on-hand quantity in
  `stock_levels` is the sum of the committed journal of its key.

**Posting**

* **Control** (`ControlInv`). What each stage of a transaction implies: which keys
  it has visited, which locks it holds, that a lock has one holder. The key fact
  is that from "reading" on a transaction holds the locks of all its keys.
* **Data** (`DataInv`). By the locks nobody else changes a key while a transaction
  works on it, so the base it read is still the maximum; its rows continue the
  committed ones, and every level it has folded is the fold of committed rows and
  its own. This is the strengthening that `SeqsAreDense` and
  `LevelIsFoldOfJournal` need: neither says anything of uncommitted work.
* **Type correctness**: `TypeCorrect`. That a row has a positive number rests on
  the base being a natural number, so it comes after Data.
* **Numbers**: a number that is taken and not committed is the counter's value,
  and its holder has the counter row (`NumbersStayGapless`).
* **Atomicity** and **append-only** follow from Control and Data
  (`PostingsAreAtomic`, `JournalOnlyGrowsAtItsEnd`).
* **Refinement**: under Control and Data, `Commit` is a `Post` or `Assign` of
  StockLedger and every other step stutters (`PostingImplementsLedger`).
* **No deadlock**: the locks a transaction holds while it asks for one are at most
  the one it asks for, so of any set of waiting transactions the one whose wanted
  lock is greatest waits for none of them; a holder of a counter row waits for
  nothing (`PostingsNeverDeadlock`). PostgreSQL would abort one of a cycle; the
  theorem says that it never has to.

**Documents** (`DocInv`): the two properties that hold of all documents, strengthened by
the shape of rows and calls and by what a call knows: one that is about to mark has
an outcome with the number and the document of its request.

`DocumentsStayTyped` (`DataInv`) adds what documents, calls and the journal are made
of: the rows of a key are finitely many, those of one posting are its request's
movements above some base (`JournalOK`), and a request lists finitely many movements
per key. The order `groupByKey` keeps is a choice (`InOrder`) that exists for any
finite set of places (`CanBeOrdered`).

**Memberships**

* `OwnersStay`: `MembersSpec => []TenantKeepsAnOwner`. The invariant (`KeepsInv`) adds
  to types that memberships are in founded tenants (`Peopled`), that two owners'
  requests under way in one tenant have crossed it (`Met`), and that what a guard read
  is still so in a tenant that is not crossed (`GuardHolds`): the target is a member,
  and when the write takes an owner away, there is another. A count above one gives
  that owner (`AnotherOwner`); other requests, which only add members, leave him.
* `MembershipsAreGranted` needs types and the completeness of requests only: a
  membership changes as a request asks that was begun by an owner, with an invite that
  stood, or by a founder, whatever else is under way.

**Documents no two calls met on** (`SteadyInv`, which adds `Steady` to `DocInv`).
Calls under way that share a document have crossed it (`Met`), hence on a document
that is not crossed the status their first transaction read is still so in their last
(`CallOK`): without this neither immutability nor booking once is inductive, since
`Mark` itself checks nothing. Then a document's postings are those of the one call at
its mark, or exactly one, or a call was cut off, or it is crossed (`Booked`), and each
number handed out is that of some posting (`Numbered`). From these follow
`EachIsBookedOnce`, `EachNumberIsOnADocument` and `PostedNeverChanges`.

`ReversalsRestoreStock` and `CountsExplainTheirMovements` (`EffectInv`) are about
quantities. What a document moves of a key is told by its lines alone (`Moved`): for a
count, by the quantities counted less the system quantities. A call that is to post
has a request that sums up to that, or for a reversal to its opposite (`Told`); a
posting enters just the sum of its request, whichever way the rows are grouped and
numbered (`NetOfPosting`); and a document that is not crossed stays as it was until
the mark. `SteadyInv` then says that an undisturbed document's postings are one, so
what it moved is what its lines tell. Such a document marked reversed has the call
that did it (`Reversed`), which booked the opposite.

**Lists** (`ListsInv`). Every loaded page begins below the cursor of each page
before it (`Chained`) and every document that stayed is on one of the pages down to
the last cursor (`Whole`); the same is true of the pages a running fetch has got,
and the cursor it asks with is that of the last page it has, or the list has when
it loads more (`GoesOn`, `Answers`). The last is what makes the rest inductive: a
refetch replaces all pages at once, so the pages of two fetches never mix. That a
page has a last row rests on `LeastExists`, proved by well-founded induction on
finite sets.

`ProgressStaysBehind` (`ProgressInv`): whatever was read of the receipts as counting,
however long ago, was posted then, with the order and quantity it still has, and has
been posted or reversed since (`ReadingOK`). Of an order none of whose receipts was
reversed, what counts in the copy is therefore posted still, and the sum shown is over
part of the set that was received.

**Count sheet** (`IInv`). `CountsWereEntered` needs the same of everything on its way:
caches, sheets and requests (`Entered`). A sheet is of the warehouse it names until a
report comes late (`Matches`). The others rest on there being one handler that writes
(`OneWriter`): what it sent is then what is stored until its post
(`StoresWhatItSent`), it or the flow knows the document (`KnowsItsDocument`), and an
untouched sheet is what any writer sends (`HoldsWhatIsStored`). Each exception a
property makes is needed where its mishap is noted, and nowhere else.

**Workspace.**

* `WorkspaceImplementsMembership`: with its cookies, tabs and handlers the workspace
  implements Membership, variable by variable; a handler's request is one of
  Membership's by the user of the session. `OwnersStay` and `MembershipsAreGranted`
  then hold of it without another invariant.
* `SavesLandRight` (`SessionInv`): until a mishap, at most one handler that changes the session runs
  (`OneRebinds`), and unless it has just done so without the tab having heard, the
  session that is cached and the layout's are the server's (`Current`).
* `PagesSettle`, `OwnSavesAreShown` (`PagesInv`): what a mounted page shows is either
  being fetched or there (`Rowed`); rows fetched and shown are the session's, unless
  a handler has changed it unheard (`Fresh`), and not older than what the tab was
  told (`Own`).

**Document pages** (`PagesInv`, over all six kinds at once: the proof reads the
record of a kind only where the kinds differ). What a handler was told is not ahead
of the server, and a record that is not stale not behind what was told (`Told`,
`ShowsOwnWork`). Links and places of lines are kept in every copy: stored, cached,
in the form, on their way (`LinksKept`, `LinesKept`). As long as nothing got lost
(`Steady`), every handler is one of the page shown (`Attached`), transfers and
adjustments run one save or post at a time (`OneAtATime`), a handler that wrote
finds what it wrote (`Confirmed`), and a document made by a new page is some running
handler's, which takes the page to it (`OneDocument`).

**What the attempts found.** `ShowsOwnSaves` was not provable as first modelled, and
false beyond the bound of its run: with four acts, a query of the saved record that
belongs to a page already left is not invalidated by the save, and brings the old
record to the page when it is opened again. The code does this, so `Saved` now notes
the mishap `in flight` for every query of the saved record (`affected`), not only
for those the page invalidates.

`ProgressIsNotAhead`, in a form that let an order count as received what its reversed
receipts had brought, was false beyond the bound of its run, too: after the reversal
of a reversal and a second reversal of the original, both of which may be posted, both
count. The property now speaks of orders without a reversal, and `reversal_counts`
states what the comments say of the others.

**Only model-checked**: the liveness properties `EveryPostingEnds` and `PostedIsShown`,
since liveness under fairness is out of this prover's reach.

## 5. What is abstracted or left out

* One tenant in the modules of stock; one year per kind, so a series is a document
  kind. Documents of several years only use several counters.
* The reads of a planning transaction are one step. Under READ COMMITTED another
  transaction might commit between two of its statements; the model has that
  interleaving only before and after the plan.
* The over-receipt tolerance is its default, zero. The advisory locks on order
  lines live inside that one step; the deadlock of two receipts with crossed lines
  is a hazard without a property.
* Foreign keys to products, partners and warehouses, notes, actors and the audit
  rows of cost overrides are left out, as is a collision of two products' 64-bit
  lock hashes (it would make keys that are not neighbours share a lock).
* What is stored as `is_provisional` is left out, as it is a constant: no handler sets
  the flag of its request. `NegativeIsProvisional` is about the engine's answer, which
  `Poster` does not store (section 3).
* In the client modules the server handles a request in one step: a call's own
  transactions are the matter of StockDocuments. A form's header is one field, a
  line a product with a quantity and a link; validation is whether something is
  filled in. An order in DocumentLists has one line. In Workspace a save is one
  more revision of a kind of record, and a query returns the tenant and the
  revision it read. The session that an invite's page reads again
  (`SessionRefetched`) is read in one instant. The field of a count is its text;
  that a browser shows a number without its trailing point is left out.
* Row-level security is taken as given: a query sees the rows of the session's
  tenant.

### Not modelled

* **Rate limiter, session expiry, password hashing**: the limiter is asked before
  and told after, by concurrent requests; it bounds attempts loosely, and no
  comment says how loosely.
* **Fulfillment rollup** (`Get{PO,SO}LineRollups`) and **reports**: read-only SQL.
  The join that users see is the client's, in DocumentLists.
* **Catalog**: single-statement operations without a protocol; only their place in
  the caches is in Workspace.
* **UI kit, generated code, server wiring, configuration, deployment**:
  presentation, generator output, or set-up without state.

## 6. Plan

Done: costing and its proofs; posting, its refinement and its proofs; documents and
their proofs, quantities included;
document pages, the count sheet and lists with their proofs; order progress;
memberships with their proofs, and the workspace on top of them, proved to implement
them. What is left:

1. **Orders on the server**: two posts of one order at once, the year of a
   reversal's number, and the order-line locks as steps with their deadlock.
2. **Transfers**: conservation of value, given that the average of the in leg is
   read before the locks are taken.
3. **RateLimiter** with the login flow.
4. **Proofs**: StockDocuments' calls over Posting instead of StockLedger, by the
   refinement that is already proved; `PostsWhatWasConfirmed` for the kinds it
   excepts, under what their pages do guarantee.
