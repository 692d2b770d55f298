---------------------------- MODULE DocumentPages ----------------------------
(***************************************************************************)
(* The pages on which one browser tab enters, edits, posts and reverses a  *)
(* document (client/src/routes/_authed): purchase orders, goods receipts,  *)
(* sales orders, deliveries, stock transfers, stock adjustments.  The      *)
(* count sheet of a stock opname is CountSheet.                            *)
(*                                                                         *)
(* A click starts a handler, an async function that suspends at each       *)
(* request; between the sending of a request, its handling by the server   *)
(* and its answer anything else may happen: another click where no flag    *)
(* disables the control, the arrival of a query's data, the user leaving,  *)
(* a reload, a step of another user on the same document.                  *)
(*                                                                         *)
(* The six kinds share the shape and differ in the details that matter:    *)
(* which running handlers disable a control, when the form is filled from  *)
(* the saved document, whether the answer to a save is looked at before    *)
(* posting.  Each page is a record of those details.                       *)
(***************************************************************************)
EXTENDS Naturals, FiniteSets, Functions

CONSTANTS
  Kinds,          \* the kinds of document opened
  Product, Listed,\* all products, and the active ones the picker query returns
  Saved,          \* the products on the saved document or source order
  Doc, Slot,      \* document ids, and handlers that may be running at once
  MaxActs,        \* bound on what the users do: edits, clicks that start a handler,
                  \* leaving, reloading, another user's steps
  None

ASSUME KindsAssumption == Kinds \subseteq {"po", "gr", "so", "dl", "tr", "ad"}

ASSUME ProductsAssumption == Listed \subseteq Product /\ Saved \subseteq Product

ASSUME DocAssumption == None \notin Doc

ASSUME ActsAssumption == MaxActs \in Nat

VARIABLES
  kind,           \* the kind of the page, fixed
  server,         \* Doc -> the stored document: status and lines
  page,           \* what is mounted: route, document, form, dialog
  listed,         \* whether the products query has data
  cache,          \* Doc -> data of the document's query, or None
  stale,          \* documents whose query is to be fetched (again)
  task,           \* Slot -> a running handler
  acts,           \* what the users have done so far
  told,           \* Doc -> the furthest status its record page was answered
  removed,        \* the products whose lines the user removed
  adrift          \* whether an answer got lost, or a handler its page

vars == <<kind, server, page, listed, cache, stale, task, acts, told, removed, adrift>>

-----------------------------------------------------------------------------
(* Lines map a product to its quantity and to whether the line is linked   *)
(* to the line of the order it came from.                                  *)

NoLines == [p \in {} |-> None]

Line(qty, link) == [qty |-> qty, link |-> link]

Lines == UNION {[ps -> [qty : 1..2, link : BOOLEAN]] : ps \in SUBSET Product}

Known == IF listed THEN Listed ELSE {}

Keep(lines, products) == Restrict(lines, DOMAIN lines \cap products)

Unlinked(lines) == [p \in DOMAIN lines |-> Line(lines[p].qty, FALSE)]

(* The order a receipt or a delivery is created from, as grid lines.       *)
poToDraftLines == Keep([p \in Saved |-> Line(1, TRUE)], Known)

salesOrderToDraftSeed == Keep([p \in Saved |-> Line(1, TRUE)], Known)

(* Mutation: a receipt loses its links; an adjustment drops a product that *)
(* is not listed; or gives it a quantity of nothing.                       *)
gridLineFromReceiptLineUnlinked(lines) == Unlinked(Keep(lines, Known))
linesFromAdjustmentEmptied(lines)      ==
  [p \in DOMAIN lines |-> IF p \in Known THEN lines[p] ELSE Line(0, FALSE)]

(* The grid lines of a saved document: a product missing from the picker   *)
(* list drops its line, except on an adjustment, which shows a placeholder.*)
gridLineFromPoLine(lines)      == Keep(lines, Known)
gridLineFromReceiptLine(lines) == Keep(lines, Known)
salesOrderLinesToGrid(lines)   == Keep(lines, Known)
deliveryLinesToGrid(lines)     == Unlinked(Keep(lines, Known))
transferLinesToGrid(lines)     == Keep(lines, Known)
linesFromAdjustment(lines)     == lines

Hydrated(lines) ==
  CASE kind = "po" -> gridLineFromPoLine(lines)
    [] kind = "gr" -> gridLineFromReceiptLine(lines)
    [] kind = "so" -> salesOrderLinesToGrid(lines)
    [] kind = "dl" -> deliveryLinesToGrid(lines)
    [] kind = "tr" -> transferLinesToGrid(lines)
    [] kind = "ad" -> linesFromAdjustment(lines)

(* The header fields a form asks for; each must be filled before posting.  *)
OrderForm           == {"supplier", "warehouse"}
ReceiptForm         == {"supplier", "warehouse"}
SalesOrderDraftForm == {"customer", "warehouse"}
DeliveryDraftForm   == {"customer", "warehouse"}
TransferForm        == {"from", "to"}
AdjustmentForm      == {"warehouse", "reason"}

Fields ==
  CASE kind = "po" -> OrderForm           [] kind = "gr" -> ReceiptForm
    [] kind = "so" -> SalesOrderDraftForm [] kind = "dl" -> DeliveryDraftForm
    [] kind = "tr" -> TransferForm        [] kind = "ad" -> AdjustmentForm

-----------------------------------------------------------------------------
(* The page of a new document.                                             *)
(*   source    whether it can be opened from an order                      *)
(*   saveOff   the running handlers that disable Save; postOff, those that *)
(*             disable Post; pending, those that freeze the dialog         *)
(*   blocked   whether an incomplete form disables Save, as it does Post   *)
(*   refused   where a refused post leaves the user                        *)
(*   closes    how a handler ends that closes the dialog it was started by *)

NewOrderPage ==
  [source |-> FALSE, saveOff |-> {"save"}, postOff |-> {"post"}, pending |-> {"post"},
   blocked |-> FALSE, refused |-> "stay", closes |-> {"ok"}]

NewReceiptPage ==
  [source |-> TRUE, saveOff |-> {"save"}, postOff |-> {"post"}, pending |-> {"post"},
   blocked |-> FALSE, refused |-> "stay", closes |-> {"ok"}]

(* The form library submits once at a time; the pages never report to the  *)
(* form that they save or post.                                            *)
NewSalesOrderPage ==
  [source |-> FALSE, saveOff |-> {"save"}, postOff |-> {}, pending |-> {},
   blocked |-> FALSE, refused |-> "record", closes |-> {}]

NewDeliveryPage ==
  [source |-> TRUE, saveOff |-> {"save"}, postOff |-> {}, pending |-> {},
   blocked |-> FALSE, refused |-> "record", closes |-> {}]

(* Mutation: a refused post leaves the user where the draft was created.   *)
NewTransferPageStays ==
  [source |-> FALSE, saveOff |-> {"save", "post"}, postOff |-> {"save", "post"},
   pending |-> {"post"}, blocked |-> FALSE, refused |-> "stay",
   closes |-> {"ok", "refused"}]

NewTransferPage ==
  [source |-> FALSE, saveOff |-> {"save", "post"}, postOff |-> {"save", "post"},
   pending |-> {"post"}, blocked |-> FALSE, refused |-> "record",
   closes |-> {"ok", "refused"}]

NewAdjustmentPage ==
  [source |-> FALSE, saveOff |-> {"save", "post"}, postOff |-> {"save", "post"},
   pending |-> {"save", "post"}, blocked |-> TRUE, refused |-> "record",
   closes |-> {"ok", "refused", "lost"}]

NewPage ==
  CASE kind = "po" -> NewOrderPage      [] kind = "gr" -> NewReceiptPage
    [] kind = "so" -> NewSalesOrderPage [] kind = "dl" -> NewDeliveryPage
    [] kind = "tr" -> NewTransferPage   [] kind = "ad" -> NewAdjustmentPage

(* The page of a draft.                                                    *)
(*   atMount   whether the form is filled once, when the page first shows  *)
(*             the draft; otherwise it follows the data until it is edited *)
(*   checks    whether the post handler looks at the answer to its save    *)
(*   refetches whether it waits for the saved draft before it posts        *)
(*   refresh   the answers to a post after which the record is refetched   *)

OrderDraftDetail ==
  [atMount |-> TRUE, saveOff |-> {"save"}, postOff |-> {"post"}, pending |-> {"post"},
   blocked |-> FALSE, checks |-> TRUE, refetches |-> TRUE, refresh |-> {"ok"}, closes |-> {"ok"}]

ReceiptDraftDetail ==
  [atMount |-> TRUE, saveOff |-> {"save"}, postOff |-> {"post"}, pending |-> {"post"},
   blocked |-> FALSE, checks |-> TRUE, refetches |-> TRUE, refresh |-> {"ok"}, closes |-> {"ok"}]

SalesOrderDraft ==
  [atMount |-> FALSE, saveOff |-> {"save", "post"}, postOff |-> {"save", "post"},
   pending |-> {"post"}, blocked |-> FALSE, checks |-> FALSE, refetches |-> FALSE,
   refresh |-> {"ok", "refused"}, closes |-> {}]

DeliveryDraft ==
  [atMount |-> FALSE, saveOff |-> {"save", "post"}, postOff |-> {"save", "post"},
   pending |-> {"post"}, blocked |-> FALSE, checks |-> FALSE, refetches |-> FALSE,
   refresh |-> {"ok", "refused"}, closes |-> {}]

(* Mutations: it posts whatever came of the save; it forgets to refetch.   *)
TransferDraftDetailUnchecked ==
  [atMount |-> FALSE, saveOff |-> {"save", "post"}, postOff |-> {"save", "post"},
   pending |-> {"post"}, blocked |-> FALSE, checks |-> FALSE, refetches |-> FALSE,
   refresh |-> {"ok"}, closes |-> {"ok", "refused"}]

TransferDraftDetailStale ==
  [atMount |-> FALSE, saveOff |-> {"save", "post"}, postOff |-> {"save", "post"},
   pending |-> {"post"}, blocked |-> FALSE, checks |-> TRUE, refetches |-> FALSE,
   refresh |-> {}, closes |-> {"ok", "refused"}]

TransferDraftDetail ==
  [atMount |-> FALSE, saveOff |-> {"save", "post"}, postOff |-> {"save", "post"},
   pending |-> {"post"}, blocked |-> FALSE, checks |-> TRUE, refetches |-> FALSE,
   refresh |-> {"ok"}, closes |-> {"ok", "refused"}]

AdjustmentDraftDetail ==
  [atMount |-> TRUE, saveOff |-> {"save", "post"}, postOff |-> {"save", "post"},
   pending |-> {"save", "post"}, blocked |-> TRUE, checks |-> TRUE, refetches |-> TRUE,
   refresh |-> {"ok"}, closes |-> {"ok", "refused", "lost"}]

DraftPage ==
  CASE kind = "po" -> OrderDraftDetail    [] kind = "gr" -> ReceiptDraftDetail
    [] kind = "so" -> SalesOrderDraft     [] kind = "dl" -> DeliveryDraft
    [] kind = "tr" -> TransferDraftDetail [] kind = "ad" -> AdjustmentDraftDetail

(* The page of a posted or reversed document.                              *)
(*   hides     whether the dialog is shown only while not reversed         *)
(*   leadsTo   the document shown after a reversal                         *)

(* Mutation: the reversed order is not refetched.                          *)
OrderPostedDetailStale == [hides |-> TRUE, refresh |-> {}, closes |-> {"ok"}, leadsTo |-> "itself"]

OrderPostedDetail      == [hides |-> TRUE, refresh |-> {"ok"}, closes |-> {"ok"}, leadsTo |-> "itself"]
ReceiptPostedDetail    == [hides |-> TRUE, refresh |-> {"ok"}, closes |-> {"ok"}, leadsTo |-> "itself"]
SalesOrderRecord       == [hides |-> FALSE, refresh |-> {"ok", "refused"}, closes |-> {"ok", "refused", "lost"},
                           leadsTo |-> "itself"]
DeliveryRecord         == [hides |-> FALSE, refresh |-> {"ok", "refused"}, closes |-> {"ok", "refused", "lost"},
                           leadsTo |-> "itself"]
TransferPostedDetail   == [hides |-> FALSE, refresh |-> {"ok"}, closes |-> {}, leadsTo |-> "itself"]
AdjustmentPostedDetail == [hides |-> FALSE, refresh |-> {"ok"}, closes |-> {"ok", "refused", "lost"},
                           leadsTo |-> "reversal"]

PostedPage ==
  CASE kind = "po" -> OrderPostedDetail    [] kind = "gr" -> ReceiptPostedDetail
    [] kind = "so" -> SalesOrderRecord     [] kind = "dl" -> DeliveryRecord
    [] kind = "tr" -> TransferPostedDetail [] kind = "ad" -> AdjustmentPostedDetail

-----------------------------------------------------------------------------
NoDoc == [status |-> "none", lines |-> NoLines]

NoTask ==
  [op |-> "idle", pc |-> "end", doc |-> None, target |-> None, lines |-> NoLines,
   ready |-> FALSE, first |-> FALSE, handled |-> FALSE, mounted |-> FALSE, met |-> FALSE]

Away ==
  [at |-> "away", doc |-> None, source |-> "none", prefilled |-> FALSE, form |-> None,
   filled |-> {}, dialog |-> "closed"]

Blank(source) == [Away EXCEPT !.at = "new", !.source = source]

View ==
  IF page.at # "record" THEN page.at
  ELSE IF cache[page.doc] = None THEN "loading"
  ELSE CASE cache[page.doc].status = "draft"   -> "draft"
         [] cache[page.doc].status = "deleted" -> "gone"
         [] OTHER                              -> "posted"

Editing == View \in {"new", "draft"}

Controls == IF View = "new" THEN NewPage ELSE DraftPage

(* The lines in the form: what was filled in or edited, else what the data *)
(* at hand gives.                                                          *)
Shown ==
  IF page.form # None THEN page.form
  ELSE IF View = "draft" THEN Hydrated(cache[page.doc].lines)
  ELSE IF kind = "dl" /\ page.source = "arrived" THEN salesOrderToDraftSeed
  ELSE NoLines

(* postBlockReason and its kin: nothing is missing.                        *)
Ready == page.filled = Fields /\ DOMAIN Shown # {}

Ops == {"save", "post", "reverse"}

Running(ops) == \E s \in Slot : task[s].op \in ops /\ task[s].mounted

Astray(how) ==
  adrift' = \/ adrift \/ how = "lost"
            \/ \E s \in Slot : task[s].mounted /\ task'[s].op # "idle" /\ ~task'[s].mounted

Unmounted(tasks) == [s \in Slot |-> [tasks[s] EXCEPT !.mounted = FALSE]]

Init ==
  /\ kind \in Kinds
  /\ \/ /\ page \in {Blank("none")} \cup (IF NewPage.source THEN {Blank("asked")} ELSE {})
        /\ server = [d \in Doc |-> NoDoc]
        /\ removed = Saved
        /\ stale = {}
     \/ \E d \in Doc :
          /\ server = [e \in Doc |-> IF e # d THEN NoDoc ELSE
                         [status |-> "draft",
                          lines |-> [p \in Saved |-> Line(1, kind \in {"gr", "dl"})]]]
          /\ page = [Away EXCEPT !.at = "record", !.doc = d, !.filled = Fields]
          /\ removed = {}
          /\ stale = {d}
  /\ listed = FALSE
  /\ cache = [d \in Doc |-> None]
  /\ task = [s \in Slot |-> NoTask]
  /\ acts = 0
  /\ told = [d \in Doc |-> "none"]
  /\ adrift = FALSE

-----------------------------------------------------------------------------
(* Data arriving from queries.                                             *)

(* useEffect of NewReceiptPage: once both the order and the products are   *)
(* there, the form is filled from the order, whatever was entered.         *)
Prefilled(pg) ==
  [pg EXCEPT !.form = poToDraftLines', !.filled = Fields, !.prefilled = TRUE]

ProductsArrive ==
  /\ ~listed
  /\ listed' = TRUE
  /\ page' = IF kind = "gr" /\ page.at = "new" /\ page.source = "arrived" /\ ~page.prefilled
             THEN Prefilled(page) ELSE page
  /\ UNCHANGED <<kind, server, cache, stale, task, acts, told, removed, adrift>>

(* A delivery's form gets a new key with the order, and starts afresh.     *)
SourceArrives ==
  /\ page.at = "new" /\ page.source = "asked"
  /\ UNCHANGED <<kind, server, listed, cache, stale, acts, told, removed>>
  /\ IF kind = "dl"
     THEN /\ page' = [Blank("arrived") EXCEPT !.filled = Fields]
          /\ task' = Unmounted(task)
     ELSE /\ page' = LET arrived == [page EXCEPT !.source = "arrived"]
                     IN  IF listed THEN Prefilled(arrived) ELSE arrived
          /\ UNCHANGED task
  /\ Astray("ok")

(* The page of a record when its query's data becomes doc: a draft mounts  *)
(* the form, the end of the draft unmounts it and its dialog.  Of a        *)
(* document that is gone the page only says so.                            *)
Showing(pg, was, doc) ==
  IF doc.status = "draft"
  THEN IF was = "draft" THEN pg
       ELSE [pg EXCEPT !.filled = Fields, !.dialog = "closed",
                       !.form = IF DraftPage.atMount THEN Hydrated(doc.lines) ELSE None]
  ELSE IF was = "posted" THEN pg
       ELSE [pg EXCEPT !.form = None, !.dialog = "closed"]

RecordArrives ==
  LET d == page.doc IN
  /\ page.at = "record" /\ d \in stale
  /\ cache' = [cache EXCEPT ![d] = server[d]]
  /\ stale' = stale \ {d}
  /\ page' = Showing(page, View, server[d])
  /\ task' = IF View = "draft" /\ server[d].status # "draft" THEN Unmounted(task) ELSE task
  /\ Astray("ok")
  /\ UNCHANGED <<kind, server, listed, acts, told, removed>>

-----------------------------------------------------------------------------
(* The user.                                                               *)

(* The bound on what users do.                                             *)
Acting == acts < MaxActs /\ acts' = acts + 1

FillHeader ==
  /\ View = "new" /\ page.dialog = "closed" /\ page.filled # Fields
  /\ page' = [page EXCEPT !.filled = Fields]
  /\ UNCHANGED <<kind, server, listed, cache, stale, task, acts, told, removed, adrift>>

(* Lines after one edit: a quantity raised, a line removed, or one added   *)
(* of a product in the picker list.                                        *)
Raised(lines, p) == [lines EXCEPT ![p] = Line(2, lines[p].link)]

Without(lines, p) == Restrict(lines, DOMAIN lines \ {p})

With(lines, p) == [q \in DOMAIN lines \cup {p} |-> IF q = p THEN Line(1, FALSE) ELSE lines[q]]

Edits(lines, picker) ==
  {Raised(lines, p) : p \in {q \in DOMAIN lines : lines[q].qty = 1}}
    \cup {Without(lines, p) : p \in DOMAIN lines}
    \cup {With(lines, p) : p \in picker \ (Saved \cup DOMAIN lines)}

Removing(from, to) ==
  removed' = IF kind = "ad" THEN removed \cup (DOMAIN from \ DOMAIN to) ELSE removed

EditLine ==
  /\ Acting
  /\ Editing /\ page.dialog = "closed"
  /\ \E lines \in Edits(Shown, Known) :
       /\ page' = [page EXCEPT !.form = lines]
       /\ Removing(Shown, lines)
  /\ UNCHANGED <<kind, server, listed, cache, stale, task, told, adrift>>

(* A handler runs up to its first request, which it sends.                 *)
Start(op) ==
  /\ Acting
  /\ \E s \in Slot : task[s].op = "idle"
  /\ task' = [task EXCEPT ![CHOOSE s \in Slot : task[s].op = "idle"] =
       [NoTask EXCEPT !.op = op, !.doc = page.doc, !.mounted = TRUE,
          !.pc = IF op = "reverse" THEN "reverse" ELSE IF View = "new" THEN "create" ELSE "put",
          !.lines = IF op = "reverse" THEN NoLines ELSE Shown, !.ready = page.filled = Fields]]
  /\ UNCHANGED <<kind, server, page, listed, cache, stale, told, removed, adrift>>

ClickSave ==
  /\ Editing /\ page.dialog = "closed"
  /\ ~Running(Controls.saveOff)
  /\ Controls.blocked => Ready
  /\ Start("save")

ClickPost ==
  /\ Editing /\ page.dialog = "closed"
  /\ ~Running(Controls.postOff)
  /\ Ready
  /\ page' = [page EXCEPT !.dialog = "post"]
  /\ UNCHANGED <<kind, server, listed, cache, stale, task, acts, told, removed, adrift>>

ConfirmPost ==
  /\ Editing /\ page.dialog = "post"
  /\ ~Running(Controls.pending)
  /\ Start("post")

ClickReverse ==
  /\ View = "posted" /\ cache[page.doc].status = "posted" /\ page.dialog = "closed"
  /\ page' = [page EXCEPT !.dialog = "reverse"]
  /\ UNCHANGED <<kind, server, listed, cache, stale, task, acts, told, removed, adrift>>

ConfirmReverse ==
  /\ View = "posted" /\ page.dialog = "reverse"
  /\ PostedPage.hides => cache[page.doc].status = "posted"
  /\ ~Running({"reverse"})
  /\ Start("reverse")

(* ConfirmDialog: a close request is ignored while the handler runs.       *)
Dismiss ==
  /\ page.dialog # "closed"
  /\ ~Running(IF page.dialog = "reverse" THEN {"reverse"} ELSE Controls.pending)
  /\ page' = [page EXCEPT !.dialog = "closed"]
  /\ UNCHANGED <<kind, server, listed, cache, stale, task, acts, told, removed, adrift>>

(* A record opens with the data its query still has, which is refetched.   *)
Opened(d) ==
  LET fresh == [Away EXCEPT !.at = "record", !.doc = d]
  IN  IF cache[d] = None THEN fresh ELSE Showing(fresh, "loading", cache[d])

Leave ==
  /\ Acting
  /\ page.at # "away" /\ page.dialog = "closed"
  /\ page' = Away
  /\ task' = Unmounted(task)
  /\ Astray("ok")
  /\ UNCHANGED <<kind, server, listed, cache, stale, told, removed>>

Return ==
  /\ page.at = "away"
  /\ \E d \in Doc :
       /\ server[d].status # "none"
       /\ page' = Opened(d)
       /\ stale' = stale \cup {d}
  /\ UNCHANGED <<kind, server, listed, cache, task, acts, told, removed, adrift>>

(* A reload forgets the tab's memory; what was sent is on its way.         *)
Reload ==
  /\ Acting
  /\ page.at # "away"
  /\ page' = IF page.at = "new" THEN Blank(IF page.source = "none" THEN "none" ELSE "asked")
             ELSE [Away EXCEPT !.at = "record", !.doc = page.doc]
  /\ listed' = FALSE
  /\ cache' = [d \in Doc |-> None]
  /\ stale' = IF page.at = "new" THEN {} ELSE {page.doc}
  /\ task' = [s \in Slot |-> IF task[s].op = "idle" THEN NoTask
                             ELSE [task[s] EXCEPT !.op = "gone", !.mounted = FALSE]]
  /\ told' = [d \in Doc |-> "none"]
  /\ Astray("ok")
  /\ UNCHANGED <<kind, server, removed>>

-----------------------------------------------------------------------------
(* The server: the rules of httpserver/*.go these pages can run into.      *)

Sent(s) == task[s].op # "idle" /\ task[s].pc \notin {"saved", "done"} /\ ~task[s].handled

Free == {d \in Doc : server[d].status = "none"}

Handled(s, doc) == task' = [task EXCEPT ![s].handled = TRUE, ![s].doc = doc]

Create(s) ==
  /\ Sent(s) /\ task[s].pc = "create"
  /\ task[s].ready /\ DOMAIN task[s].lines # {}
  /\ \E d \in Free :
       /\ server' = [server EXCEPT ![d] = [status |-> "draft", lines |-> task[s].lines]]
       /\ Handled(s, d)
  /\ UNCHANGED <<kind, page, listed, cache, stale, acts, told, removed, adrift>>

Update(s) ==
  /\ Sent(s) /\ task[s].pc = "put"
  /\ server[task[s].doc].status = "draft" /\ DOMAIN task[s].lines # {}
  /\ server' = [server EXCEPT ![task[s].doc].lines = task[s].lines]
  /\ Handled(s, task[s].doc)
  /\ UNCHANGED <<kind, page, listed, cache, stale, acts, told, removed, adrift>>

Post(s) ==
  /\ Sent(s) /\ task[s].pc = "post"
  /\ server[task[s].doc].status = "draft"
  /\ server' = [server EXCEPT ![task[s].doc].status = "posted"]
  /\ Handled(s, task[s].doc)
  /\ UNCHANGED <<kind, page, listed, cache, stale, acts, told, removed, adrift>>

Reverse(s) ==
  LET d == task[s].doc IN
  /\ Sent(s) /\ task[s].pc = "reverse"
  /\ server[d].status = "posted"
  /\ \E r \in Free :
       /\ server' = [server EXCEPT ![d].status = "reversed",
                                   ![r] = [status |-> "posted", lines |-> server[d].lines]]
       /\ task' = [task EXCEPT ![s].handled = TRUE, ![s].target = r]
  /\ UNCHANGED <<kind, page, listed, cache, stale, acts, told, removed, adrift>>

(* What a handler gets for its request.  Any request may be refused (the   *)
(* rules above, stock, rights, tolerance), and a request or its answer may *)
(* be lost, which the handler sees as an exception.                        *)
Answer(s) == IF task[s].handled THEN {"ok", "lost"} ELSE {"refused", "lost"}

(* Another user moves a document on: posts or deletes a draft, reverses    *)
(* what is posted.                                                         *)
Follows(status) ==
  CASE status = "draft" -> {"posted", "deleted"} [] status = "posted" -> {"reversed"} [] OTHER -> {}

OtherUserMovesOn(d) ==
  /\ \E status \in Follows(server[d].status) : server' = [server EXCEPT ![d].status = status]
  /\ UNCHANGED <<task, removed>>

(* A handler that posts has stored its lines and its post is not handled.  *)
Prepared(s, d) ==
  /\ task[s].op = "post" /\ task[s].doc = d
  /\ IF task[s].pc = "post" THEN ~task[s].handled ELSE task[s].handled \/ task[s].pc = "saved"

(* Another user stores the draft with an edit of their own: nothing tells  *)
(* the server that somebody else is about to post it.                      *)
OtherUserUpdates(d) ==
  /\ server[d].status = "draft"
  /\ \E lines \in Edits(server[d].lines, Listed) :
       /\ DOMAIN lines # {}
       /\ server' = [server EXCEPT ![d].lines = lines]
       /\ Removing(server[d].lines, lines)
  /\ task' = [s \in Slot |-> [task[s] EXCEPT !.met = @ \/ Prepared(s, d)]]

OtherUserActs ==
  /\ Acting
  /\ \E d \in Doc : OtherUserMovesOn(d) \/ OtherUserUpdates(d)
  /\ UNCHANGED <<kind, page, listed, cache, stale, told, adrift>>

-----------------------------------------------------------------------------
(* The rest of a handler, from an answer to the next request or its end.   *)

Ends(s, tasks) == [tasks EXCEPT ![s] = NoTask]

Closing(s, how, closes) ==
  IF task[s].mounted /\ how \in closes THEN [page EXCEPT !.dialog = "closed"] ELSE page

(* navigate: the record mounts, unless it is the one already open.         *)
GoTo(d, tasks) ==
  IF page.at = "record" /\ page.doc = d
  THEN task' = tasks /\ UNCHANGED <<page, stale>>
  ELSE /\ page' = Opened(d)
       /\ stale' = stale \cup {d}
       /\ task' = Unmounted(tasks)

Asking(s, pc) == task[s].op \notin {"idle", "gone"} /\ task[s].pc = pc

(* saveDraft of a new page: the record is shown.  post: the draft is       *)
(* posted next.                                                            *)
AnswerCreate(s) ==
  \E how \in Answer(s) :
    /\ Asking(s, "create")
    /\ \/ /\ how = "ok" /\ task[s].op = "save"
          /\ GoTo(task[s].doc, Ends(s, task))
       \/ /\ how = "ok" /\ task[s].op = "post"
          /\ task' = [task EXCEPT ![s].pc = "post", ![s].handled = FALSE, ![s].first = TRUE]
          /\ UNCHANGED <<page, stale>>
       \/ /\ how # "ok"
          /\ page' = IF task[s].op = "post" THEN Closing(s, how, NewPage.closes) ELSE page
          /\ task' = Ends(s, task)
          /\ UNCHANGED stale
    /\ Astray(how)
    /\ UNCHANGED <<kind, server, listed, cache, acts, told, removed>>

(* post of a new page, after the draft was created.                        *)
AnswerFirstPost(s) ==
  \E how \in Answer(s) :
    /\ Asking(s, "post") /\ task[s].first
    /\ IF how = "ok" \/ (how = "refused" /\ NewPage.refused = "record")
       THEN GoTo(task[s].doc, Ends(s, task))
       ELSE /\ page' = Closing(s, how, NewPage.closes)
            /\ task' = Ends(s, task)
            /\ UNCHANGED stale
    /\ Astray(how)
    /\ UNCHANGED <<kind, server, listed, cache, acts, told, removed>>

(* The save of a draft page.  A saved draft is refetched before anything   *)
(* else where the handler waits for that; sales orders and deliveries go   *)
(* on to post whatever the answer.                                         *)
GoesOn(s, how) ==
  task[s].op = "post" /\ (how = "ok" \/ (how = "refused" /\ ~DraftPage.checks))

AnswerUpdate(s) ==
  \E how \in Answer(s) :
    /\ Asking(s, "put")
    /\ \/ /\ how = "ok" /\ (task[s].op = "save" \/ DraftPage.refetches)
          /\ stale' = stale \cup {task[s].doc}
          /\ task' = [task EXCEPT ![s].pc = "saved", ![s].handled = FALSE]
          /\ UNCHANGED page
       \/ /\ GoesOn(s, how) /\ ~DraftPage.refetches
          /\ task' = [task EXCEPT ![s].pc = "post", ![s].handled = FALSE]
          /\ UNCHANGED <<page, stale>>
       \/ /\ how # "ok" /\ ~GoesOn(s, how)
          /\ page' = IF task[s].op = "post" THEN Closing(s, how, DraftPage.closes) ELSE page
          /\ task' = Ends(s, task)
          /\ UNCHANGED stale
    /\ Astray(how)
    /\ UNCHANGED <<kind, server, listed, cache, acts, told, removed>>

(* Awaiting invalidateQueries: at once for a record that is not shown.     *)
Refetched(d) == page.at # "record" \/ page.doc # d \/ d \notin stale

AfterSave(s) ==
  /\ Asking(s, "saved") /\ Refetched(task[s].doc)
  /\ task' = IF task[s].op = "post" THEN [task EXCEPT ![s].pc = "post"] ELSE Ends(s, task)
  /\ UNCHANGED <<kind, server, page, listed, cache, stale, acts, told, removed, adrift>>

(* The post of a draft page, and the reverse of a posted one.              *)
Asked(s) == IF task[s].op = "post" THEN DraftPage ELSE PostedPage

AnswerChange(s) ==
  \E how \in Answer(s) :
    /\ Asking(s, "post") \/ Asking(s, "reverse")
    /\ ~task[s].first
    /\ IF how \in Asked(s).refresh
       THEN /\ stale' = stale \cup {task[s].doc}
            /\ task' = [task EXCEPT ![s].pc = "done", ![s].lines = NoLines]
            /\ UNCHANGED page
       ELSE /\ page' = Closing(s, how, Asked(s).closes)
            /\ task' = Ends(s, task)
            /\ UNCHANGED stale
    /\ told' = IF how # "ok" THEN told ELSE
                 [told EXCEPT ![task[s].doc] =
                    IF task[s].op = "post" THEN "posted" ELSE "reversed"]
    /\ Astray(how)
    /\ UNCHANGED <<kind, server, listed, cache, acts, removed>>

AfterChange(s) ==
  LET how == IF task[s].handled THEN "ok" ELSE "refused" IN
  /\ Asking(s, "done") /\ Refetched(task[s].doc)
  /\ IF task[s].op = "reverse" /\ how = "ok" /\ PostedPage.leadsTo = "reversal"
     THEN GoTo(task[s].target, Ends(s, task))
     ELSE /\ page' = Closing(s, how, Asked(s).closes)
          /\ task' = Ends(s, task)
          /\ UNCHANGED stale
  /\ Astray("ok")
  /\ UNCHANGED <<kind, server, listed, cache, acts, told, removed>>

(* Nobody waits for the request of a page that was reloaded.               *)
Forget(s) ==
  /\ task[s].op = "gone"
  /\ task' = Ends(s, task)
  /\ UNCHANGED <<kind, server, page, listed, cache, stale, acts, told, removed, adrift>>

-----------------------------------------------------------------------------
Arrivals == ProductsArrive \/ SourceArrives \/ RecordArrives

UserActs ==
  \/ FillHeader \/ EditLine \/ ClickSave \/ ClickPost \/ ConfirmPost
  \/ ClickReverse \/ ConfirmReverse \/ Dismiss \/ Leave \/ Return \/ Reload

Handles(s) == Create(s) \/ Update(s) \/ Post(s) \/ Reverse(s)

Continues(s) ==
  \/ AnswerCreate(s) \/ AnswerFirstPost(s) \/ AnswerUpdate(s) \/ AfterSave(s)
  \/ AnswerChange(s) \/ AfterChange(s) \/ Forget(s)

Next ==
  \/ Arrivals \/ UserActs \/ OtherUserActs
  \/ \E s \in Slot : Handles(s) \/ Continues(s)

Spec == Init /\ [][Next]_vars

(* Every request is answered or fails (whether the server got to it or     *)
(* not: nothing is assumed of the server), the event loop runs what is due *)
(* and the queries of the open page get their data.                        *)
FairSpec ==
  /\ Spec
  /\ WF_vars(Arrivals)
  /\ \A s \in Slot : WF_vars(Continues(s))

-----------------------------------------------------------------------------
Status == {"none", "draft", "posted", "reversed", "deleted"}

Documents == [status : Status, lines : Lines]

(* Types.                                                                  *)
TypeOK ==
  /\ kind \in Kinds
  /\ server \in [Doc -> Documents]
  /\ page \in [at : {"new", "record", "away"}, doc : Doc \cup {None},
               source : {"none", "asked", "arrived"}, prefilled : BOOLEAN,
               form : Lines \cup {None}, filled : SUBSET Fields,
               dialog : {"closed", "post", "reverse"}]
  /\ listed \in BOOLEAN /\ adrift \in BOOLEAN
  /\ cache \in [Doc -> Documents \cup {None}]
  /\ stale \subseteq Doc
  /\ task \in [Slot -> [op : {"idle", "save", "post", "reverse", "gone"},
                        pc : {"create", "put", "post", "reverse", "saved", "done", "end"},
                        doc : Doc \cup {None}, target : Doc \cup {None}, lines : Lines,
                        ready : BOOLEAN, first : BOOLEAN, handled : BOOLEAN,
                        mounted : BOOLEAN, met : BOOLEAN]]
  /\ acts \in 0..MaxActs
  /\ told \in [Doc -> Status]
  /\ removed \subseteq Product

(* On the page of a new transfer or adjustment, as long as nothing was     *)
(* lost on the way, the only document there is belongs to the handler that *)
(* is running: no order of clicks, refusals and answers creates a second.  *)
NewPageMakesOneDocument ==
  kind \in {"tr", "ad"} /\ page.at = "new" /\ ~adrift =>
    \A d \in Doc : server[d].status # "none" => \E s \in Slot : task[s].doc = d

(* What a post is about to book is what the user had on the screen when    *)
(* confirming, on every new page, and on the record pages of transfers and *)
(* adjustments, as long as no handler of a page left behind is running.    *)
(* The one thing these pages cannot exclude is that another user stores    *)
(* the draft between the handler's own save and its post (task.met): the   *)
(* update of the server compares no version (transfers/$id.tsx:147-157).   *)
PostsWhatWasConfirmed ==
  \A s \in Slot :
    /\ task[s].pc = "post" /\ ~task[s].handled /\ ~adrift /\ ~task[s].met
    /\ server[task[s].doc].status = "draft"
    /\ task[s].first \/ kind \in {"tr", "ad"}
    => server[task[s].doc].lines = task[s].lines

(* A record page is never settled on data older than what its own handlers *)
(* were answered: after a post it does not go on offering the draft, after *)
(* a reversal it does not offer to reverse again.                          *)
Rank(status) == CASE status = "none" -> 0 [] status \in {"draft", "deleted"} -> 1
                  [] status = "posted" -> 2 [] status = "reversed" -> 3

ShowsOwnWork ==
  \A d \in Doc :
    cache[d] # None /\ d \notin stale => Rank(cache[d].status) >= Rank(told[d])

(* The lines of a document that came from an order stay linked to it,      *)
(* through every save, reload and posting, until the user removes them.    *)
KeepsOrderLinks(k) ==
  kind = k => \A d \in Doc : \A p \in Saved \cap DOMAIN server[d].lines : server[d].lines[p].link

(* What lines keep on their way from the server through the form and back: *)
(* a receipt's their link to the order, if they are in the form at all; an *)
(* adjustment's their place in it until the user removes them, also when   *)
(* the product is archived or not loaded yet.                              *)
RoundTripKeepsLines ==
  /\ KeepsOrderLinks("gr")
  /\ kind = "ad" =>
       \A d \in Doc : server[d].status # "none" => Saved \ DOMAIN server[d].lines \subseteq removed

(* The same of a delivery: "with salesOrderLineId set so the server can    *)
(* link fulfilment" (deliveries/new.tsx:32), a link that "rides through"   *)
(* (-deliveries-data.ts:121).                                              *)
DeliveryKeepsOrderLinks == KeepsOrderLinks("dl")

(* The page of a document it has posted comes to show it posted, unless    *)
(* the user goes elsewhere.                                                *)
PostedIsShown ==
  \A d \in Doc :
    told[d] = "posted" /\ page.at = "record" /\ page.doc = d
      ~> View = "posted" \/ page.doc # d \/ told[d] # "posted"
=============================================================================
