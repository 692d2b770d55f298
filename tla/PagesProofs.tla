----------------------------- MODULE PagesProofs -----------------------------
(***************************************************************************)
(* What the pages of a document keep, for any products, documents and      *)
(* kinds of page, any number of handlers at once and any number of clicks. *)
(***************************************************************************)
EXTENDS DocumentPages, TLAPS

-----------------------------------------------------------------------------
(* Lines.                                                                  *)
Cell == [qty : 1..2, link : BOOLEAN]

LEMMA LinesAre ==
  /\ \A l \in Lines : DOMAIN l \subseteq Product /\ \A p \in DOMAIN l : l[p] \in Cell
  /\ \A l, ps : ps \subseteq Product /\ l \in [ps -> Cell] => l \in Lines
BY DEF Lines, Cell

LEMMA LineOK == \A q \in 1..2, b \in BOOLEAN : Line(q, b) \in Cell /\ Line(q, b).link = b
BY DEF Line, Cell

LEMMA NoLinesOK == NoLines \in Lines /\ DOMAIN NoLines = {}
<1>1. NoLines \in [{} -> Cell] /\ DOMAIN NoLines = {}
  BY DEF NoLines
<1> QED
  BY <1>1, LinesAre

LEMMA RestrictOK ==
  ASSUME NEW l \in Lines, NEW ps, ps \subseteq DOMAIN l
  PROVE  Restrict(l, ps) \in Lines /\ DOMAIN Restrict(l, ps) = ps
         /\ \A p \in ps : Restrict(l, ps)[p] = l[p]
<1>1. Restrict(l, ps) = [p \in ps |-> l[p]]
  BY DEF Restrict
<1>2. [p \in ps |-> l[p]] \in [ps -> Cell] /\ ps \subseteq Product
  BY LinesAre
<1> QED
  BY <1>1, <1>2, LinesAre

LEMMA KeepOK ==
  ASSUME NEW l \in Lines, NEW ps
  PROVE  /\ Keep(l, ps) \in Lines /\ DOMAIN Keep(l, ps) \subseteq DOMAIN l
         /\ \A p \in DOMAIN Keep(l, ps) : Keep(l, ps)[p] = l[p]
BY RestrictOK DEF Keep

LEMMA UnlinkedOK == \A l \in Lines : Unlinked(l) \in Lines
<1> SUFFICES ASSUME NEW l \in Lines PROVE Unlinked(l) \in Lines
  OBVIOUS
<1>1. \A p \in DOMAIN l : Line(l[p].qty, FALSE) \in Cell
  BY LinesAre, LineOK DEF Cell
<1>2. Unlinked(l) \in [DOMAIN l -> Cell]
  BY <1>1 DEF Unlinked
<1> QED
  BY <1>2, LinesAre

(* The order a document is created from.                                   *)
LEMMA SeedOK ==
  ASSUME NEW ps
  PROVE  LET seed == Keep([p \in Saved |-> Line(1, TRUE)], ps) IN
         seed \in Lines /\ \A p \in DOMAIN seed : seed[p].link
<1> DEFINE cell == Line(1, TRUE)
           all == [p \in Saved |-> cell]
<1>1. all \in Lines /\ \A p \in DOMAIN all : all[p].link
  <2>1. cell \in Cell /\ cell.link
    BY DEF Line, Cell
  <2> HIDE DEF cell
  <2>2. all \in [Saved -> Cell] /\ \A p \in DOMAIN all : all[p] = cell
    BY <2>1
  <2> HIDE DEF all
  <2> QED
    BY <2>1, <2>2, LinesAre, ProductsAssumption
<1> HIDE DEF all
<1>2. Keep(all, ps) \in Lines /\ \A p \in DOMAIN Keep(all, ps) : Keep(all, ps)[p].link
  BY <1>1, KeepOK
<1> QED
  BY <1>2 DEF all, cell

LEMMA SourceOK ==
  /\ poToDraftLines \in Lines /\ salesOrderToDraftSeed \in Lines
  /\ poToDraftLines' \in Lines /\ \A p \in DOMAIN poToDraftLines' : poToDraftLines'[p].link
BY SeedOK DEF poToDraftLines, salesOrderToDraftSeed

LEMMA HydratedOK ==
  ASSUME kind \in Kinds, NEW l \in Lines
  PROVE  /\ Hydrated(l) \in Lines
         /\ kind = "gr" => Hydrated(l) = Keep(l, Known)
         /\ kind = "ad" => Hydrated(l) = l
<1>1. Keep(l, Known) \in Lines /\ Unlinked(Keep(l, Known)) \in Lines
  BY KeepOK, UnlinkedOK
<1>2. kind \in {"po", "gr", "so", "dl", "tr", "ad"}
  BY KindsAssumption
<1> QED
  BY <1>1, <1>2 DEF Hydrated, gridLineFromPoLine, gridLineFromReceiptLine, salesOrderLinesToGrid,
                    deliveryLinesToGrid, transferLinesToGrid, linesFromAdjustment

-----------------------------------------------------------------------------
(* The kinds of page.                                                      *)
Transferring == kind \in {"tr", "ad"}

LEMMA RefreshOK ==
  ASSUME kind \in Kinds
  PROVE  "ok" \in DraftPage.refresh /\ "ok" \in PostedPage.refresh
<1>1. \A pg \in {OrderDraftDetail, ReceiptDraftDetail, SalesOrderDraft, DeliveryDraft,
                 TransferDraftDetail, AdjustmentDraftDetail} : "ok" \in pg.refresh
  BY DEF OrderDraftDetail, ReceiptDraftDetail, SalesOrderDraft, DeliveryDraft,
         TransferDraftDetail, AdjustmentDraftDetail
<1>2. \A pg \in {OrderPostedDetail, ReceiptPostedDetail, SalesOrderRecord, DeliveryRecord,
                 TransferPostedDetail, AdjustmentPostedDetail} : "ok" \in pg.refresh
  BY DEF OrderPostedDetail, ReceiptPostedDetail, SalesOrderRecord, DeliveryRecord,
         TransferPostedDetail, AdjustmentPostedDetail
<1>3. kind \in {"po", "gr", "so", "dl", "tr", "ad"}
  BY KindsAssumption
<1>4. DraftPage \in {OrderDraftDetail, ReceiptDraftDetail, SalesOrderDraft, DeliveryDraft,
                     TransferDraftDetail, AdjustmentDraftDetail}
  BY <1>3 DEF DraftPage
<1>5. PostedPage \in {OrderPostedDetail, ReceiptPostedDetail, SalesOrderRecord, DeliveryRecord,
                      TransferPostedDetail, AdjustmentPostedDetail}
  BY <1>3 DEF PostedPage
<1> QED
  BY <1>1, <1>2, <1>4, <1>5

(* Transfers and adjustments let one handler run at a time, look at the    *)
(* answer to a save, and leave the page of a draft that is not posted.     *)
LEMMA TransferringPages ==
  ASSUME Transferring
  PROVE  /\ {"save", "post"} \subseteq Controls.saveOff /\ {"save", "post"} \subseteq Controls.postOff
         /\ "post" \in Controls.pending
         /\ DraftPage.checks /\ NewPage.refused = "record"
<1>1. \A pg \in {NewTransferPage, NewAdjustmentPage, TransferDraftDetail, AdjustmentDraftDetail} :
        /\ {"save", "post"} \subseteq pg.saveOff /\ {"save", "post"} \subseteq pg.postOff
        /\ "post" \in pg.pending
  BY DEF NewTransferPage, NewAdjustmentPage, TransferDraftDetail, AdjustmentDraftDetail
<1>2. \A pg \in {NewTransferPage, NewAdjustmentPage} : pg.refused = "record"
  BY DEF NewTransferPage, NewAdjustmentPage
<1>3. \A pg \in {TransferDraftDetail, AdjustmentDraftDetail} : pg.checks
  BY DEF TransferDraftDetail, AdjustmentDraftDetail
<1>4. /\ NewPage \in {NewTransferPage, NewAdjustmentPage}
      /\ DraftPage \in {TransferDraftDetail, AdjustmentDraftDetail}
  BY DEF Transferring, NewPage, DraftPage
<1> QED
  BY <1>1, <1>2, <1>3, <1>4 DEF Controls

-----------------------------------------------------------------------------
(* Pages and handlers.                                                     *)
Views(fields) ==
  [at : {"new", "record", "away"}, doc : Doc \cup {None},
   source : {"none", "asked", "arrived"}, prefilled : BOOLEAN,
   form : Lines \cup {None}, filled : SUBSET fields,
   dialog : {"closed", "post", "reverse"}]

Tasks ==
  [op : {"idle", "save", "post", "reverse", "gone"},
   pc : {"create", "put", "post", "reverse", "saved", "done", "end"},
   doc : Doc \cup {None}, target : Doc \cup {None}, lines : Lines,
   ready : BOOLEAN, first : BOOLEAN, handled : BOOLEAN, mounted : BOOLEAN, met : BOOLEAN]

(* A handler, by how far it is.  One whose page was reloaded has lost its  *)
(* op, but its request is on its way.                                      *)
TaskOK(t) ==
  /\ t.op = "idle" <=> t.pc = "end"
  /\ t.op \in {"idle", "gone"} => ~t.mounted
  /\ t.op = "save" => t.pc \in {"create", "put", "saved"}
  /\ t.op = "post" => t.pc \in {"create", "put", "saved", "post", "done"}
  /\ t.op = "reverse" => t.pc \in {"reverse", "done"}
  /\ t.pc \in {"put", "saved", "post", "reverse", "done"} => t.doc \in Doc
  /\ t.pc = "create" /\ t.handled => t.doc \in Doc
  /\ t.op = "reverse" /\ t.handled => t.target \in Doc
  /\ t.first => t.pc = "post"
  /\ t.pc = "saved" => ~t.handled

PageOK(pg) ==
  /\ pg.at = "record" => pg.doc \in Doc
  /\ pg.at # "record" => pg.doc = None

Shape == TypeOK /\ PageOK(page) /\ \A s \in Slot : TaskOK(task[s])

LEMMA ShapeIs ==
  Shape <=>
    /\ kind \in Kinds /\ server \in [Doc -> Documents] /\ page \in Views(Fields) /\ PageOK(page)
    /\ listed \in BOOLEAN /\ adrift \in BOOLEAN
    /\ cache \in [Doc -> Documents \cup {None}] /\ stale \subseteq Doc
    /\ task \in [Slot -> Tasks] /\ (\A s \in Slot : TaskOK(task[s]))
    /\ acts \in 0..MaxActs /\ told \in [Doc -> Status] /\ removed \subseteq Product
BY DEF Shape, TypeOK, Views, Tasks

LEMMA NoTaskOK ==
  /\ NoTask \in Tasks /\ TaskOK(NoTask)
  /\ NoTask.op = "idle" /\ NoTask.pc = "end" /\ ~NoTask.mounted /\ ~NoTask.handled /\ ~NoTask.first
<1>1. /\ NoTask.op = "idle" /\ NoTask.pc = "end" /\ ~NoTask.mounted /\ ~NoTask.handled
      /\ ~NoTask.first
  BY DEF NoTask
<1>2. NoTask \in Tasks
  BY NoLinesOK DEF NoTask, Tasks
<1> QED
  BY <1>1, <1>2 DEF TaskOK

LEMMA AwayOK ==
  /\ Away \in Views(Fields) /\ PageOK(Away)
  /\ Away.at = "away" /\ Away.doc = None /\ Away.form = None /\ Away.dialog = "closed"
<1>1. Away.at = "away" /\ Away.doc = None /\ Away.form = None /\ Away.dialog = "closed"
  BY DEF Away
<1>2. Away \in Views(Fields)
  BY DEF Away, Views
<1> QED
  BY <1>1, <1>2 DEF PageOK

LEMMA BlankOK ==
  ASSUME NEW source \in {"none", "asked", "arrived"}
  PROVE  /\ Blank(source) \in Views(Fields) /\ PageOK(Blank(source))
         /\ Blank(source).at = "new" /\ Blank(source).doc = None /\ Blank(source).form = None
         /\ Blank(source).dialog = "closed"
<1>1. /\ Blank(source).at = "new" /\ Blank(source).doc = None /\ Blank(source).form = None
      /\ Blank(source).dialog = "closed" /\ Blank(source) \in Views(Fields)
  BY AwayOK DEF Blank, Views
<1> QED
  BY <1>1 DEF PageOK

(* A record page that nothing is known of yet.                             *)
Fresh(d) == [Away EXCEPT !.at = "record", !.doc = d]

LEMMA FreshOK ==
  ASSUME NEW d \in Doc
  PROVE  /\ Fresh(d) \in Views(Fields)
         /\ Fresh(d).at = "record" /\ Fresh(d).doc = d /\ Fresh(d).form = None
         /\ Fresh(d).dialog = "closed"
BY AwayOK DEF Fresh, Views

LEMMA ShowingOK ==
  ASSUME kind \in Kinds, NEW pg \in Views(Fields), NEW was, NEW doc \in Documents
  PROVE  LET q == Showing(pg, was, doc) IN
         /\ q \in Views(Fields) /\ q.at = pg.at /\ q.doc = pg.doc
         /\ q.dialog \in {pg.dialog, "closed"}
         /\ \/ q.form \in {pg.form, None}
            \/ doc.status = "draft" /\ q.form = Hydrated(doc.lines)
<1>1. Hydrated(doc.lines) \in Lines
  BY HydratedOK DEF Documents
<1> DEFINE form == IF DraftPage.atMount THEN Hydrated(doc.lines) ELSE None
           a == [pg EXCEPT !.filled = Fields, !.dialog = "closed", !.form = form]
           b == [pg EXCEPT !.form = None, !.dialog = "closed"]
<1>2. form \in Lines \cup {None} /\ form \in {None, Hydrated(doc.lines)}
  BY <1>1
<1> HIDE DEF form
<1>3. a \in Views(Fields) /\ a.at = pg.at /\ a.doc = pg.doc /\ a.dialog = "closed" /\ a.form = form
  BY <1>2 DEF Views
<1>4. b \in Views(Fields) /\ b.at = pg.at /\ b.doc = pg.doc /\ b.dialog = "closed" /\ b.form = None
  BY DEF Views
<1>5. \/ Showing(pg, was, doc) = pg
      \/ doc.status = "draft" /\ Showing(pg, was, doc) = a
      \/ Showing(pg, was, doc) = b
  BY DEF Showing, form
<1> HIDE DEF a, b
<1> QED
  BY <1>2, <1>3, <1>4, <1>5

LEMMA OpenedOK ==
  ASSUME Shape, NEW d \in Doc
  PROVE  /\ Opened(d) \in Views(Fields) /\ PageOK(Opened(d))
         /\ Opened(d).at = "record" /\ Opened(d).doc = d /\ Opened(d).dialog = "closed"
         /\ \/ Opened(d).form = None
            \/ /\ cache[d] # None /\ cache[d].status = "draft"
               /\ Opened(d).form = Hydrated(cache[d].lines)
<1>1. kind \in Kinds /\ cache \in [Doc -> Documents \cup {None}]
  BY ShapeIs
<1>2. Opened(d) = IF cache[d] = None THEN Fresh(d) ELSE Showing(Fresh(d), "loading", cache[d])
  BY DEF Opened, Fresh
<1>3. CASE cache[d] = None
  BY <1>2, <1>3, FreshOK DEF PageOK
<1>4. CASE cache[d] # None
  <2>1. cache[d] \in Documents
    BY <1>1, <1>4
  <2> DEFINE q == Showing(Fresh(d), "loading", cache[d])
  <2>2. /\ q \in Views(Fields) /\ q.at = "record" /\ q.doc = d /\ q.dialog = "closed"
        /\ q.form = None \/ (cache[d].status = "draft" /\ q.form = Hydrated(cache[d].lines))
    BY <1>1, <2>1, FreshOK, ShowingOK
  <2> HIDE DEF q
  <2> QED
    BY <1>2, <1>4, <2>2 DEF q, PageOK
<1> QED
  BY <1>3, <1>4

(* What may happen to a handler while others move: its page is left.       *)
Same(t, u) ==
  /\ u \in Tasks
  /\ u.op = t.op /\ u.pc = t.pc /\ u.doc = t.doc /\ u.target = t.target /\ u.lines = t.lines
  /\ u.ready = t.ready /\ u.first = t.first /\ u.handled = t.handled
  /\ u.mounted => t.mounted
  /\ t.met => u.met

Others(s) == \A o \in Slot \ {s} : Same(task[o], task'[o])

Ended(s) ==
  task' \in [Slot -> Tasks] /\ task'[s].op = "idle" /\ Same(NoTask, task'[s]) /\ Others(s)

LEMMA SameOK ==
  /\ \A t \in Tasks : Same(t, t)
  /\ \A t, u : TaskOK(t) /\ Same(t, u) => TaskOK(u)
<1>1. \A t \in Tasks : Same(t, t)
  BY DEF Same
<1>2. ASSUME NEW t, NEW u, TaskOK(t), Same(t, u)
      PROVE  TaskOK(u)
  BY <1>2 DEF TaskOK, Same
<1> QED
  BY <1>1, <1>2

LEMMA UnmountedOK ==
  ASSUME NEW ts \in [Slot -> Tasks]
  PROVE  /\ Unmounted(ts) \in [Slot -> Tasks]
         /\ \A s \in Slot : Same(ts[s], Unmounted(ts)[s]) /\ ~Unmounted(ts)[s].mounted
<1> SUFFICES ASSUME NEW s \in Slot
             PROVE  LET u == [ts[s] EXCEPT !.mounted = FALSE] IN
                    u \in Tasks /\ Same(ts[s], u) /\ ~u.mounted
  BY DEF Unmounted
<1>1. ts[s] \in Tasks
  OBVIOUS
<1> QED
  BY <1>1 DEF Tasks, Same

LEMMA EndsOK ==
  ASSUME task \in [Slot -> Tasks], NEW s \in Slot
  PROVE  /\ Ends(s, task) \in [Slot -> Tasks] /\ Ends(s, task)[s] = NoTask
         /\ \A o \in Slot \ {s} : Ends(s, task)[o] = task[o]
BY NoTaskOK DEF Ends

LEMMA EndedOK ==
  ASSUME task \in [Slot -> Tasks], NEW s \in Slot,
         task' = Ends(s, task) \/ task' = Unmounted(Ends(s, task))
  PROVE  task' \in [Slot -> Tasks] /\ Ended(s)
<1>1. /\ Ends(s, task) \in [Slot -> Tasks] /\ Ends(s, task)[s] = NoTask
      /\ \A o \in Slot \ {s} : Ends(s, task)[o] = task[o]
  BY EndsOK
<1>2. /\ task' \in [Slot -> Tasks]
      /\ \A o \in Slot : Same(Ends(s, task)[o], task'[o])
  BY <1>1, UnmountedOK, SameOK
<1>3. Same(NoTask, task'[s]) /\ \A o \in Slot \ {s} : Same(task[o], task'[o])
  BY <1>1, <1>2
<1>4. task'[s].op = "idle"
  BY <1>3, NoTaskOK DEF Same
<1> QED
  BY <1>2, <1>3, <1>4 DEF Ended, Others

(* The user starts a handler.                                              *)
StartedAt(s, op) ==
  /\ task[s].op = "idle" /\ task' \in [Slot -> Tasks]
  /\ \A o \in Slot \ {s} : task'[o] = task[o]
  /\ task'[s].op = op /\ task'[s].doc = page.doc /\ task'[s].mounted
  /\ ~task'[s].first /\ ~task'[s].handled
  /\ task'[s].pc = IF op = "reverse" THEN "reverse" ELSE IF View = "new" THEN "create" ELSE "put"
  /\ task'[s].lines = IF op = "reverse" THEN NoLines ELSE Shown

LEMMA Starting ==
  ASSUME Shape, NEW op \in {"save", "post", "reverse"}, Start(op),
         op # "reverse" => Shown \in Lines
  PROVE  \E s \in Slot : StartedAt(s, op)
<1> DEFINE s == CHOOSE i \in Slot : task[i].op = "idle"
           pc == IF op = "reverse" THEN "reverse" ELSE IF View = "new" THEN "create" ELSE "put"
           lines == IF op = "reverse" THEN NoLines ELSE Shown
           ready == (page.filled = Fields)
           r == [NoTask EXCEPT !.op = op, !.doc = page.doc, !.mounted = TRUE, !.pc = pc,
                               !.lines = lines, !.ready = ready]
<1>1. s \in Slot /\ task[s].op = "idle"
  BY DEF Start
<1>2. /\ page.doc \in Doc \cup {None} /\ lines \in Lines /\ ready \in BOOLEAN
      /\ pc \in {"create", "put", "reverse"}
  BY ShapeIs, NoLinesOK DEF Views
<1>3. task' = [task EXCEPT ![s] = r]
  BY DEF Start
<1> HIDE DEF s, pc, lines, ready
<1>4. /\ r \in Tasks /\ r.op = op /\ r.doc = page.doc /\ r.mounted /\ r.pc = pc /\ r.lines = lines
      /\ ~r.first /\ ~r.handled
  BY <1>2, NoTaskOK DEF Tasks
<1> HIDE DEF r
<1>5. task \in [Slot -> Tasks]
  BY ShapeIs
<1>6. task' \in [Slot -> Tasks] /\ task'[s] = r /\ \A o \in Slot \ {s} : task'[o] = task[o]
  BY <1>1, <1>3, <1>4, <1>5
<1> QED
  BY <1>1, <1>4, <1>6 DEF StartedAt, pc, lines

(* The server handles a request, or its handler goes on.                   *)
Turned(s, pc, doc, handled, first) ==
  /\ task' \in [Slot -> Tasks]
  /\ \A o \in Slot \ {s} : task'[o] = task[o]
  /\ task'[s].op = task[s].op /\ task'[s].mounted = task[s].mounted
  /\ task'[s].pc = pc /\ task'[s].doc = doc
  /\ task'[s].handled = handled /\ task'[s].first = first /\ task'[s].met = task[s].met

LEMMA Turning ==
  ASSUME task \in [Slot -> Tasks], NEW s \in Slot, NEW r \in Tasks, task' = [task EXCEPT ![s] = r],
         r.op = task[s].op, r.mounted = task[s].mounted, r.met = task[s].met
  PROVE  Turned(s, r.pc, r.doc, r.handled, r.first) /\ task'[s] = r
BY DEF Turned

-----------------------------------------------------------------------------
(* What the server does to documents.                                      *)
SetDoc(d, status, lines) ==
  server'[d] \in Documents /\ server'[d].status = status /\ server'[d].lines = lines

RestDocs(ds) == \A e \in Doc \ ds : server'[e] = server[e]

Creates(s) ==
  /\ task[s].pc = "create" /\ ~task[s].handled
  /\ \E d \in Doc :
       /\ server[d].status = "none"
       /\ SetDoc(d, "draft", task[s].lines) /\ RestDocs({d})
       /\ Turned(s, "create", d, TRUE, task[s].first)

Updates(s) ==
  /\ task[s].pc = "put" /\ ~task[s].handled /\ server[task[s].doc].status = "draft"
  /\ SetDoc(task[s].doc, "draft", task[s].lines) /\ RestDocs({task[s].doc})
  /\ Turned(s, "put", task[s].doc, TRUE, task[s].first)

Posts(s) ==
  /\ task[s].pc = "post" /\ ~task[s].handled /\ server[task[s].doc].status = "draft"
  /\ SetDoc(task[s].doc, "posted", server[task[s].doc].lines) /\ RestDocs({task[s].doc})
  /\ Turned(s, "post", task[s].doc, TRUE, task[s].first)

Reverses(s) ==
  LET d == task[s].doc IN
  /\ task[s].pc = "reverse" /\ ~task[s].handled /\ server[d].status = "posted"
  /\ SetDoc(d, "reversed", server[d].lines)
  /\ \E r \in Doc :
       /\ server[r].status = "none" /\ SetDoc(r, "posted", server[d].lines) /\ RestDocs({d, r})
       /\ task'[s].target = r
  /\ Turned(s, "reverse", d, TRUE, task[s].first)

Served(s) ==
  /\ server' \in [Doc -> Documents] /\ task[s].op # "idle" /\ task'[s].lines = task[s].lines
  /\ Creates(s) \/ Updates(s) \/ Posts(s) \/ (Reverses(s) /\ task[s].pc = "reverse")
  /\ task[s].pc # "reverse" => task'[s].target = task[s].target

LEMMA DocumentOK ==
  ASSUME NEW st \in Status, NEW l \in Lines
  PROVE  /\ [status |-> st, lines |-> l] \in Documents
         /\ [status |-> st, lines |-> l].status = st /\ [status |-> st, lines |-> l].lines = l
BY DEF Documents

LEMMA HandlesServe ==
  ASSUME Shape, NEW s \in Slot, Handles(s)
  PROVE  Served(s) /\ UNCHANGED <<kind, page, listed, cache, stale, acts, told, removed, adrift>>
<1>0. UNCHANGED <<kind, page, listed, cache, stale, acts, told, removed, adrift>>
  BY DEF Handles, Create, Update, Post, Reverse
<1>1. /\ task \in [Slot -> Tasks] /\ server \in [Doc -> Documents] /\ task[s] \in Tasks
      /\ task[s].lines \in Lines /\ TaskOK(task[s])
  BY ShapeIs DEF Tasks
<1>2. {"draft", "posted", "reversed"} \subseteq Status
  BY DEF Status
<1>3. ASSUME NEW d \in Doc \cup {None}, Handled(s, d)
      PROVE  /\ Turned(s, task[s].pc, d, TRUE, task[s].first) /\ task'[s].lines = task[s].lines
             /\ task'[s].target = task[s].target
  <2> DEFINE r == [task[s] EXCEPT !.handled = TRUE, !.doc = d]
  <2>1. task' = [task EXCEPT ![s] = r]
    BY <1>1, <1>3 DEF Handled
  <2>2. /\ r \in Tasks /\ r.op = task[s].op /\ r.met = task[s].met
        /\ r.mounted = task[s].mounted /\ r.pc = task[s].pc
        /\ r.doc = d /\ r.handled = TRUE /\ r.first = task[s].first /\ r.lines = task[s].lines
        /\ r.target = task[s].target
    BY <1>1 DEF Tasks
  <2> HIDE DEF r
  <2> QED
    BY <1>1, <2>1, <2>2, Turning
<1>4. CASE Create(s)
  <2>1. PICK d \in Doc :
          /\ server[d].status = "none" /\ Handled(s, d)
          /\ server' = [server EXCEPT ![d] = [status |-> "draft", lines |-> task[s].lines]]
    BY <1>4 DEF Create, Free
  <2> DEFINE doc == [status |-> "draft", lines |-> task[s].lines]
  <2>2. doc \in Documents /\ doc.status = "draft" /\ doc.lines = task[s].lines
    BY <1>1, <1>2, DocumentOK
  <2> HIDE DEF doc
  <2>3. server' = [server EXCEPT ![d] = doc]
    BY <2>1 DEF doc
  <2>4. /\ server' \in [Doc -> Documents] /\ SetDoc(d, "draft", task[s].lines) /\ RestDocs({d})
    BY <1>1, <2>2, <2>3 DEF SetDoc, RestDocs
  <2>5. task[s].op # "idle" /\ task[s].pc = "create" /\ ~task[s].handled
    BY <1>4 DEF Create, Sent
  <2> QED
    BY <1>0, <1>3, <2>1, <2>4, <2>5 DEF Served, Creates
<1>5. CASE Update(s)
  <2> DEFINE d == task[s].doc
             doc == [server[d] EXCEPT !.lines = task[s].lines]
  <2>1. /\ task[s].op # "idle" /\ task[s].pc = "put" /\ ~task[s].handled /\ server[d].status = "draft"
        /\ Handled(s, d) /\ server' = [server EXCEPT ![d] = doc]
    BY <1>5 DEF Update, Sent
  <2>2. d \in Doc
    BY <1>1, <2>1 DEF TaskOK
  <2>3. doc \in Documents /\ doc.status = "draft" /\ doc.lines = task[s].lines
    BY <1>1, <2>1, <2>2 DEF Documents
  <2> HIDE DEF doc
  <2>4. server' \in [Doc -> Documents] /\ SetDoc(d, "draft", task[s].lines) /\ RestDocs({d})
    BY <1>1, <2>1, <2>2, <2>3 DEF SetDoc, RestDocs
  <2> QED
    BY <1>0, <1>3, <2>1, <2>2, <2>4 DEF Served, Updates
<1>6. CASE Post(s)
  <2> DEFINE d == task[s].doc
             doc == [server[d] EXCEPT !.status = "posted"]
  <2>1. /\ task[s].op # "idle" /\ task[s].pc = "post" /\ ~task[s].handled /\ server[d].status = "draft"
        /\ Handled(s, d) /\ server' = [server EXCEPT ![d] = doc]
    BY <1>6 DEF Post, Sent
  <2>2. d \in Doc
    BY <1>1, <2>1 DEF TaskOK
  <2>3. doc \in Documents /\ doc.status = "posted" /\ doc.lines = server[d].lines
    BY <1>1, <1>2, <2>2 DEF Documents
  <2> HIDE DEF doc
  <2>4. server' \in [Doc -> Documents] /\ SetDoc(d, "posted", server[d].lines) /\ RestDocs({d})
    BY <1>1, <2>1, <2>2, <2>3 DEF SetDoc, RestDocs
  <2> QED
    BY <1>0, <1>3, <2>1, <2>2, <2>4 DEF Served, Posts
<1>7. CASE Reverse(s)
  <2> DEFINE d == task[s].doc
             old == [server[d] EXCEPT !.status = "reversed"]
             new == [status |-> "posted", lines |-> server[d].lines]
  <2>1. /\ task[s].op # "idle" /\ task[s].pc = "reverse" /\ ~task[s].handled
        /\ server[d].status = "posted"
    BY <1>7 DEF Reverse, Sent
  <2>2. PICK r \in Doc :
          /\ server[r].status = "none"
          /\ server' = [[server EXCEPT ![d] = old] EXCEPT ![r] = new]
          /\ task' = [task EXCEPT ![s] = [task[s] EXCEPT !.handled = TRUE, !.target = r]]
    BY <1>1, <1>7 DEF Reverse, Free
  <2>3. d \in Doc /\ d # r
    BY <1>1, <2>1, <2>2 DEF TaskOK
  <2>4. old \in Documents /\ old.status = "reversed" /\ old.lines = server[d].lines
    BY <1>1, <1>2, <2>3 DEF Documents
  <2>5. new \in Documents /\ new.status = "posted" /\ new.lines = server[d].lines
    BY <1>1, <1>2, <2>3, DocumentOK DEF Documents
  <2> HIDE DEF old, new
  <2>6. /\ server' \in [Doc -> Documents] /\ SetDoc(d, "reversed", server[d].lines)
        /\ SetDoc(r, "posted", server[d].lines) /\ RestDocs({d, r})
    BY <1>1, <2>2, <2>3, <2>4, <2>5 DEF SetDoc, RestDocs
  <2> DEFINE t == [task[s] EXCEPT !.handled = TRUE, !.target = r]
  <2>7. /\ t \in Tasks /\ t.op = task[s].op /\ t.mounted = task[s].mounted /\ t.pc = "reverse"
        /\ t.met = task[s].met
        /\ t.doc = d /\ t.handled = TRUE /\ t.first = task[s].first /\ t.lines = task[s].lines
        /\ t.target = r
    BY <1>1, <2>1 DEF Tasks
  <2>8. task' = [task EXCEPT ![s] = t]
    BY <2>2
  <2> HIDE DEF t
  <2>9. Turned(s, "reverse", d, TRUE, task[s].first) /\ task'[s] = t
    BY <1>1, <2>7, <2>8, Turning
  <2> QED
    BY <1>0, <2>1, <2>2, <2>6, <2>7, <2>9 DEF Served, Reverses
<1> QED
  BY <1>4, <1>5, <1>6, <1>7 DEF Handles

-----------------------------------------------------------------------------
(* The inductive invariant.                                                *)

Stored(d) == server[d].status # "none"

(* A handler that names its document.                                      *)
Naming(t) == t.pc \in {"put", "saved", "post", "reverse", "done"} \/ (t.pc = "create" /\ t.handled)

(* What is shown, cached or worked on is stored.                           *)
Existing ==
  /\ page.at = "record" => Stored(page.doc)
  /\ \A d \in Doc : cache[d] # None => Stored(d) /\ cache[d].status # "none"
  /\ \A s \in Slot : Naming(task[s]) => Stored(task[s].doc)
  /\ \A s \in Slot : task[s].op = "reverse" /\ task[s].handled => Stored(task[s].target)

(* What a handler was, or is about to be, answered has happened.           *)
Told ==
  /\ \A d \in Doc : Rank(told[d]) <= Rank(server[d].status)
  /\ \A s \in Slot : task[s].pc \in {"post", "reverse"} /\ task[s].handled =>
       Rank(server[task[s].doc].status) >= IF task[s].pc = "post" THEN 2 ELSE 3

(* The links of a receipt's lines, wherever its lines are.                 *)
Linked(lines) == \A p \in Saved \cap DOMAIN lines : lines[p].link

LinksKept ==
  kind = "gr" =>
    /\ \A d \in Doc : Linked(server[d].lines) /\ (cache[d] # None => Linked(cache[d].lines))
    /\ page.form # None => Linked(page.form)
    /\ \A s \in Slot : Linked(task[s].lines)

(* The saved products of an adjustment, wherever its lines are.            *)
Whole(lines) == Saved \ DOMAIN lines \subseteq removed

LinesKept ==
  kind = "ad" =>
    /\ \A d \in Doc : (Stored(d) => Whole(server[d].lines))
                      /\ (cache[d] # None => Whole(cache[d].lines))
    /\ page.form # None => Whole(page.form)
    /\ \A s \in Slot : task[s].pc \in {"create", "put"} => Whole(task[s].lines)
    /\ page.at = "new" => Saved \subseteq removed

(* As long as nothing got lost, every handler is one of the page shown.    *)
Belongs(t) ==
  /\ t.mounted
  /\ page.at = "new" => (t.pc = "create" /\ (t.handled \/ t.doc = None)) \/ t.first
  /\ page.at = "record" => t.doc = page.doc /\ t.pc # "create" /\ ~t.first
  /\ page.at # "away"

Attached == \A s \in Slot : task[s].op # "idle" => Belongs(task[s])

(* Transfers and adjustments save or post once at a time.                  *)
OneAtATime ==
  Transferring =>
    /\ \A s, o \in Slot : task[s].op \in {"save", "post"} /\ task[o].op \in {"save", "post"} => s = o
    /\ page.dialog = "post" => \A s \in Slot : task[s].op # "save"

(* The handler has written its lines, and will post them.                  *)
Wrote(t) ==
  /\ t.op = "post"
  /\ \/ t.pc = "create" /\ t.handled
     \/ t.pc = "post" /\ t.first /\ ~t.handled
     \/ /\ Transferring
        /\ \/ t.pc = "put" /\ t.handled
           \/ t.pc = "saved" \/ (t.pc = "post" /\ ~t.handled)

Confirmed ==
  \A s \in Slot : Wrote(task[s]) /\ ~task[s].met /\ server[task[s].doc].status = "draft" =>
    server[task[s].doc].lines = task[s].lines

OneDocument ==
  Transferring /\ page.at = "new" =>
    \A d \in Doc : Stored(d) => \E s \in Slot : task[s].op # "idle" /\ task[s].doc = d

Steady == ~adrift => Attached /\ OneAtATime /\ Confirmed /\ OneDocument

PagesInv ==
  /\ Shape /\ Existing
  /\ Told /\ ShowsOwnWork
  /\ LinksKept /\ LinesKept
  /\ Steady

-----------------------------------------------------------------------------
(* The steps of the handlers.                                              *)

Kept ==
  /\ page' \in Views(Fields) /\ page'.at = page.at /\ page'.doc = page.doc
  /\ page'.form = page.form /\ page'.dialog \in {page.dialog, "closed"}

Goes(d) == page' = Opened(d) /\ stale' = stale \cup {d} /\ \A o \in Slot : ~task'[o].mounted

(* What it means that nothing got lost in a step.                          *)
Followed ==
  ~adrift' => /\ ~adrift
              /\ \A o \in Slot : task[o].mounted /\ task'[o].op # "idle" => task'[o].mounted

LEMMA AstrayOK ==
  ASSUME NEW how, Astray(how)
  PROVE  Followed /\ (how = "lost" => adrift') /\ adrift' \in BOOLEAN
BY DEF Astray, Followed

LEMMA KeptOK ==
  ASSUME Shape, NEW s \in Slot, NEW how, NEW closes, page' = page \/ page' = Closing(s, how, closes)
  PROVE  Kept
<1> DEFINE closed == [page EXCEPT !.dialog = "closed"]
<1>1. page \in Views(Fields)
  BY ShapeIs
<1>2. /\ closed \in Views(Fields) /\ closed.at = page.at /\ closed.doc = page.doc
      /\ closed.form = page.form /\ closed.dialog = "closed"
  BY <1>1 DEF Views
<1>3. page' = page \/ page' = closed
  BY DEF Closing
<1> HIDE DEF closed
<1> QED
  BY <1>1, <1>2, <1>3 DEF Kept

LEMMA GoToOK ==
  ASSUME Shape, NEW d \in Doc, NEW s \in Slot, GoTo(d, Ends(s, task))
  PROVE  /\ task' \in [Slot -> Tasks] /\ Ended(s) /\ page'.at = "record"
         /\ (Kept /\ stale' = stale) \/ Goes(d)
<1>1. task \in [Slot -> Tasks] /\ page \in Views(Fields)
  BY ShapeIs
<1>2. CASE page.at = "record" /\ page.doc = d
  <2>1. task' = Ends(s, task) /\ page' = page /\ stale' = stale
    BY <1>2 DEF GoTo
  <2> QED
    BY <1>1, <1>2, <2>1, EndedOK DEF Kept
<1>3. CASE ~(page.at = "record" /\ page.doc = d)
  <2>1. task' = Unmounted(Ends(s, task)) /\ page' = Opened(d) /\ stale' = stale \cup {d}
    BY <1>3 DEF GoTo
  <2>2. Ends(s, task) \in [Slot -> Tasks]
    BY <1>1, EndsOK
  <2>3. \A o \in Slot : ~task'[o].mounted
    BY <2>1, <2>2, UnmountedOK
  <2> QED
    BY <1>1, <2>1, <2>3, EndedOK, OpenedOK DEF Goes
<1> QED
  BY <1>2, <1>3

(* A handler ends, on the page it leaves or the page it opens.             *)
Stops(s) ==
  /\ Ended(s) /\ told' = told
  /\ (Kept /\ stale' = stale) \/ \E d \in Doc : Stored(d) /\ Goes(d)
  /\ Transferring /\ ~adrift' /\ page'.at = "new" /\ task[s].mounted =>
       ~(task[s].pc = "create" /\ task[s].handled) /\ ~task[s].first

(* It makes its next request.                                              *)
Moves(s) ==
  LET t == task[s] IN
  /\ page' = page /\ told' = told /\ stale' \in {stale, stale \cup {t.doc}}
  /\ task'[s].lines = t.lines /\ task'[s].target = t.target
  /\ \/ /\ t.pc = "create" /\ t.handled /\ t.op = "post"
        /\ Turned(s, "post", t.doc, FALSE, TRUE)
     \/ /\ t.pc = "put" /\ t.handled /\ t.op \in {"save", "post"}
        /\ Turned(s, "saved", t.doc, FALSE, t.first)
     \/ /\ t.pc = "put" /\ (t.handled \/ ~DraftPage.checks) /\ t.op = "post"
        /\ Turned(s, "post", t.doc, FALSE, t.first)
     \/ /\ t.pc = "saved" /\ t.op = "post"
        /\ Turned(s, "post", t.doc, FALSE, t.first)

(* It is answered that the document was posted or reversed, or refused.    *)
Tells(s) ==
  LET t == task[s] IN
  /\ page' = page /\ stale' = stale \cup {t.doc}
  /\ t.pc \in {"post", "reverse"} /\ t.op \in {"post", "reverse"} /\ ~t.first
  /\ Turned(s, "done", t.doc, t.handled, FALSE)
  /\ task'[s].lines = NoLines /\ task'[s].target = t.target
  /\ \/ told' = told
     \/ /\ t.handled
        /\ told' = [told EXCEPT ![t.doc] = IF t.pc = "post" THEN "posted" ELSE "reversed"]

Continued(s) ==
  /\ UNCHANGED <<kind, server, listed, cache, acts, removed>>
  /\ Followed /\ adrift' \in BOOLEAN /\ task[s].op # "idle"
  /\ Stops(s) \/ Moves(s) \/ Tells(s)

LEMMA AnswersAre ==
  ASSUME NEW s \in Slot, NEW how \in Answer(s)
  PROVE  /\ how \in {"ok", "refused", "lost"} /\ (how = "ok" => task[s].handled)
         /\ (how = "refused" => ~task[s].handled)
BY DEF Answer

LEMMA RequestOK ==
  ASSUME Shape, Existing, NEW s \in Slot, task[s].op \notin {"idle", "gone"}
  PROVE  /\ task[s] \in Tasks /\ TaskOK(task[s])
         /\ task[s].lines \in Lines /\ task[s].handled \in BOOLEAN /\ task[s].first \in BOOLEAN
         /\ task[s].op \in {"save", "post", "reverse"}
         /\ Naming(task[s]) => task[s].doc \in Doc /\ Stored(task[s].doc)
<1>1. task[s] \in Tasks /\ TaskOK(task[s])
  BY ShapeIs
<1> QED
  BY <1>1 DEF Existing, Naming, Tasks, TaskOK

LEMMA AnswerCreateIs ==
  ASSUME Shape, Existing, NEW s \in Slot, AnswerCreate(s)
  PROVE  Continued(s)
<1>1. PICK how \in Answer(s) :
        /\ Asking(s, "create")
        /\ \/ /\ how = "ok" /\ task[s].op = "save"
              /\ GoTo(task[s].doc, Ends(s, task))
           \/ /\ how = "ok" /\ task[s].op = "post"
              /\ task' = [task EXCEPT ![s].pc = "post", ![s].handled = FALSE, ![s].first = TRUE]
              /\ UNCHANGED <<page, stale>>
           \/ /\ how # "ok"
              /\ page' = IF task[s].op = "post" THEN Closing(s, how, NewPage.closes) ELSE page
              /\ task' = Ends(s, task)
              /\ UNCHANGED stale
        /\ Astray(how)
        /\ UNCHANGED <<kind, server, listed, cache, acts, told, removed>>
  BY DEF AnswerCreate
<1>2. /\ how \in {"ok", "refused", "lost"} /\ (how = "ok" => task[s].handled)
      /\ (how = "refused" => ~task[s].handled)
  BY AnswersAre
<1>3. task[s].op \notin {"idle", "gone"} /\ task[s].pc = "create"
  BY <1>1 DEF Asking
<1>4. Followed /\ (how = "lost" => adrift') /\ adrift' \in BOOLEAN
  BY <1>1, AstrayOK
<1>5. task \in [Slot -> Tasks] /\ ~task[s].first
  BY <1>3, ShapeIs, RequestOK DEF TaskOK
<1>6. CASE how = "ok" /\ task[s].op = "save" /\ GoTo(task[s].doc, Ends(s, task))
  <2>1. task[s].doc \in Doc /\ Stored(task[s].doc)
    BY <1>2, <1>3, <1>6, RequestOK DEF Naming
  <2>2. /\ Ended(s) /\ page'.at = "record"
        /\ (Kept /\ stale' = stale) \/ Goes(task[s].doc)
    BY <1>6, <2>1, GoToOK
  <2>3. Stops(s)
    BY <1>1, <2>1, <2>2 DEF Stops
  <2> QED
    BY <1>1, <1>3, <1>4, <2>3 DEF Continued
<1>7. CASE /\ how = "ok" /\ task[s].op = "post" /\ page' = page /\ stale' = stale
           /\ task' = [task EXCEPT ![s].pc = "post", ![s].handled = FALSE, ![s].first = TRUE]
  <2> DEFINE r == [task[s] EXCEPT !.pc = "post", !.handled = FALSE, !.first = TRUE]
  <2>1. task' = [task EXCEPT ![s] = r]
    BY <1>5, <1>7
  <2>2. /\ r \in Tasks /\ r.op = task[s].op /\ r.met = task[s].met
        /\ r.mounted = task[s].mounted /\ r.pc = "post"
        /\ r.doc = task[s].doc /\ r.handled = FALSE /\ r.first = TRUE /\ r.lines = task[s].lines
        /\ r.target = task[s].target
    BY <1>5 DEF Tasks
  <2> HIDE DEF r
  <2>3. Turned(s, "post", task[s].doc, FALSE, TRUE) /\ task'[s] = r
    BY <1>5, <2>1, <2>2, Turning
  <2>4. Moves(s)
    BY <1>1, <1>2, <1>3, <1>7, <2>2, <2>3 DEF Moves
  <2> QED
    BY <1>1, <1>3, <1>4, <2>4 DEF Continued
<1>8. CASE /\ how # "ok" /\ task' = Ends(s, task) /\ stale' = stale
           /\ page' = IF task[s].op = "post" THEN Closing(s, how, NewPage.closes) ELSE page
  <2>1. Kept /\ Ended(s)
    BY <1>5, <1>8, KeptOK, EndedOK
  <2>2. adrift' \/ ~task[s].handled
    BY <1>2, <1>4, <1>8
  <2>3. Stops(s)
    BY <1>1, <1>5, <1>8, <2>1, <2>2 DEF Stops
  <2> QED
    BY <1>1, <1>3, <1>4, <2>3 DEF Continued
<1> QED
  BY <1>1, <1>6, <1>7, <1>8

LEMMA AnswerFirstPostIs ==
  ASSUME Shape, Existing, NEW s \in Slot, AnswerFirstPost(s)
  PROVE  Continued(s)
<1>1. PICK how \in Answer(s) :
        /\ Asking(s, "post") /\ task[s].first
        /\ IF how = "ok" \/ (how = "refused" /\ NewPage.refused = "record")
           THEN GoTo(task[s].doc, Ends(s, task))
           ELSE /\ page' = Closing(s, how, NewPage.closes)
                /\ task' = Ends(s, task)
                /\ UNCHANGED stale
        /\ Astray(how)
        /\ UNCHANGED <<kind, server, listed, cache, acts, told, removed>>
  BY DEF AnswerFirstPost
<1>2. how \in {"ok", "refused", "lost"}
  BY AnswersAre
<1>3. task[s].op \notin {"idle", "gone"} /\ task[s].pc = "post"
  BY <1>1 DEF Asking
<1>4. Followed /\ (how = "lost" => adrift') /\ adrift' \in BOOLEAN
  BY <1>1, AstrayOK
<1>5. task \in [Slot -> Tasks]
  BY ShapeIs
<1>6. CASE how = "ok" \/ (how = "refused" /\ NewPage.refused = "record")
  <2>1. task[s].doc \in Doc /\ Stored(task[s].doc)
    BY <1>3, RequestOK DEF Naming
  <2>2. /\ Ended(s) /\ page'.at = "record"
        /\ (Kept /\ stale' = stale) \/ Goes(task[s].doc)
    BY <1>1, <1>6, <2>1, GoToOK
  <2>3. Stops(s)
    BY <1>1, <2>1, <2>2 DEF Stops
  <2> QED
    BY <1>1, <1>3, <1>4, <2>3 DEF Continued
<1>7. CASE ~(how = "ok" \/ (how = "refused" /\ NewPage.refused = "record"))
  <2>1. Kept /\ Ended(s) /\ stale' = stale
    BY <1>1, <1>5, <1>7, KeptOK, EndedOK
  <2>2. Transferring => adrift'
    BY <1>2, <1>4, <1>7, TransferringPages
  <2>3. Stops(s)
    BY <1>1, <2>1, <2>2 DEF Stops
  <2> QED
    BY <1>1, <1>3, <1>4, <2>3 DEF Continued
<1> QED
  BY <1>6, <1>7

LEMMA AnswerUpdateIs ==
  ASSUME Shape, Existing, NEW s \in Slot, AnswerUpdate(s)
  PROVE  Continued(s)
<1>1. PICK how \in Answer(s) :
        /\ Asking(s, "put")
        /\ \/ /\ how = "ok" /\ (task[s].op = "save" \/ DraftPage.refetches)
              /\ stale' = stale \cup {task[s].doc}
              /\ task' = [task EXCEPT ![s].pc = "saved", ![s].handled = FALSE]
              /\ UNCHANGED page
           \/ /\ GoesOn(s, how) /\ ~DraftPage.refetches
              /\ task' = [task EXCEPT ![s].pc = "post", ![s].handled = FALSE]
              /\ UNCHANGED <<page, stale>>
           \/ /\ how # "ok" /\ ~GoesOn(s, how)
              /\ page' = IF task[s].op = "post" THEN Closing(s, how, DraftPage.closes) ELSE page
              /\ task' = Ends(s, task)
              /\ UNCHANGED stale
        /\ Astray(how)
        /\ UNCHANGED <<kind, server, listed, cache, acts, told, removed>>
  BY DEF AnswerUpdate
<1>2. /\ how \in {"ok", "refused", "lost"} /\ (how = "ok" => task[s].handled)
  BY AnswersAre
<1>3. task[s].op \notin {"idle", "gone"} /\ task[s].pc = "put"
  BY <1>1 DEF Asking
<1>4. Followed /\ adrift' \in BOOLEAN
  BY <1>1, AstrayOK
<1>5. task \in [Slot -> Tasks] /\ ~task[s].first /\ task[s].op \in {"save", "post"}
  BY <1>3, ShapeIs, RequestOK DEF TaskOK
<1>6. \A pc \in {"post", "saved"} :
        task' = [task EXCEPT ![s].pc = pc, ![s].handled = FALSE] =>
          /\ Turned(s, pc, task[s].doc, FALSE, task[s].first)
          /\ task'[s].lines = task[s].lines /\ task'[s].target = task[s].target
  <2> SUFFICES ASSUME NEW pc \in {"post", "saved"},
                      task' = [task EXCEPT ![s].pc = pc, ![s].handled = FALSE]
               PROVE  /\ Turned(s, pc, task[s].doc, FALSE, task[s].first)
                      /\ task'[s].lines = task[s].lines /\ task'[s].target = task[s].target
    OBVIOUS
  <2> DEFINE r == [task[s] EXCEPT !.pc = pc, !.handled = FALSE]
  <2>1. task' = [task EXCEPT ![s] = r]
    BY <1>5
  <2>2. /\ r \in Tasks /\ r.op = task[s].op /\ r.met = task[s].met
        /\ r.mounted = task[s].mounted /\ r.pc = pc
        /\ r.doc = task[s].doc /\ r.handled = FALSE /\ r.first = task[s].first
        /\ r.lines = task[s].lines /\ r.target = task[s].target
    BY <1>5 DEF Tasks
  <2> HIDE DEF r
  <2>3. Turned(s, r.pc, r.doc, r.handled, r.first) /\ task'[s] = r
    BY <1>5, <2>1, <2>2, Turning
  <2>4. Turned(s, pc, task[s].doc, FALSE, task[s].first)
    BY <2>2, <2>3 DEF Turned
  <2> QED
    BY <2>2, <2>3, <2>4
<1>7. CASE /\ how = "ok" /\ stale' = stale \cup {task[s].doc} /\ page' = page
           /\ task' = [task EXCEPT ![s].pc = "saved", ![s].handled = FALSE]
  <2>1. Moves(s)
    BY <1>1, <1>2, <1>3, <1>5, <1>6, <1>7 DEF Moves
  <2> QED
    BY <1>1, <1>3, <1>4, <2>1 DEF Continued
<1>8. CASE /\ GoesOn(s, how) /\ page' = page /\ stale' = stale
           /\ task' = [task EXCEPT ![s].pc = "post", ![s].handled = FALSE]
  <2>1. task[s].op = "post" /\ (task[s].handled \/ ~DraftPage.checks)
    BY <1>2, <1>8 DEF GoesOn
  <2>2. Moves(s)
    BY <1>1, <1>3, <1>6, <1>8, <2>1 DEF Moves
  <2> QED
    BY <1>1, <1>3, <1>4, <2>2 DEF Continued
<1>9. CASE /\ how # "ok" /\ task' = Ends(s, task) /\ stale' = stale
           /\ page' = IF task[s].op = "post" THEN Closing(s, how, DraftPage.closes) ELSE page
  <2>1. Kept /\ Ended(s)
    BY <1>5, <1>9, KeptOK, EndedOK
  <2>2. Stops(s)
    BY <1>1, <1>3, <1>5, <1>9, <2>1 DEF Stops
  <2> QED
    BY <1>1, <1>3, <1>4, <2>2 DEF Continued
<1> QED
  BY <1>1, <1>7, <1>8, <1>9

LEMMA AfterSaveIs ==
  ASSUME Shape, Existing, NEW s \in Slot, AfterSave(s)
  PROVE  Continued(s)
<1>1. /\ task[s].op \notin {"idle", "gone"} /\ task[s].pc = "saved"
      /\ task' = IF task[s].op = "post" THEN [task EXCEPT ![s].pc = "post"] ELSE Ends(s, task)
      /\ UNCHANGED <<kind, server, page, listed, cache, stale, acts, told, removed, adrift>>
  BY DEF AfterSave, Asking
<1>2. /\ task \in [Slot -> Tasks] /\ ~task[s].first /\ ~task[s].handled /\ adrift \in BOOLEAN
  BY <1>1, ShapeIs, RequestOK DEF TaskOK
<1>3. CASE task[s].op = "post"
  <2> DEFINE r == [task[s] EXCEPT !.pc = "post"]
  <2>1. task' = [task EXCEPT ![s] = r]
    BY <1>1, <1>2, <1>3
  <2>2. /\ r \in Tasks /\ r.op = task[s].op /\ r.met = task[s].met
        /\ r.mounted = task[s].mounted /\ r.pc = "post"
        /\ r.doc = task[s].doc /\ r.handled = FALSE /\ r.first = task[s].first
        /\ r.lines = task[s].lines /\ r.target = task[s].target
    BY <1>2 DEF Tasks
  <2> HIDE DEF r
  <2>3. Turned(s, "post", task[s].doc, FALSE, task[s].first) /\ task'[s] = r
    BY <1>2, <2>1, <2>2, Turning
  <2>4. Moves(s)
    BY <1>1, <1>3, <2>2, <2>3 DEF Moves
  <2>5. Followed
    BY <1>1, <2>3 DEF Followed, Turned
  <2> QED
    BY <1>1, <1>2, <2>4, <2>5 DEF Continued
<1>4. CASE task[s].op # "post"
  <2>1. Ended(s) /\ Kept
    BY <1>1, <1>2, <1>4, KeptOK, EndedOK
  <2>2. Stops(s)
    BY <1>1, <1>2, <2>1 DEF Stops
  <2>3. /\ \A o \in Slot \ {s} : task'[o] = task[o]
        /\ task'[s].op = "idle"
    BY <1>1, <1>2, <1>4, <2>1, EndsOK DEF Ended
  <2>4. Followed
    BY <1>1, <2>3 DEF Followed
  <2> QED
    BY <1>1, <1>2, <2>2, <2>4 DEF Continued
<1> QED
  BY <1>3, <1>4

LEMMA AnswerChangeIs ==
  ASSUME Shape, Existing, NEW s \in Slot, AnswerChange(s)
  PROVE  Continued(s)
<1>1. PICK how \in Answer(s) :
        /\ Asking(s, "post") \/ Asking(s, "reverse")
        /\ ~task[s].first
        /\ IF how \in Asked(s).refresh
           THEN /\ stale' = stale \cup {task[s].doc}
                /\ task' = [task EXCEPT ![s].pc = "done", ![s].lines = NoLines]
                /\ UNCHANGED page
           ELSE /\ page' = Closing(s, how, Asked(s).closes)
                /\ task' = Ends(s, task)
                /\ UNCHANGED stale
        /\ told' = IF how # "ok" THEN told ELSE
                     [told EXCEPT ![task[s].doc] =
                        IF task[s].op = "post" THEN "posted" ELSE "reversed"]
        /\ Astray(how)
        /\ UNCHANGED <<kind, server, listed, cache, acts, removed>>
  BY DEF AnswerChange
<1>2. how = "ok" => task[s].handled
  BY AnswersAre
<1>3. task[s].op \notin {"idle", "gone"} /\ task[s].pc \in {"post", "reverse"}
  BY <1>1 DEF Asking
<1>4. Followed /\ adrift' \in BOOLEAN
  BY <1>1, AstrayOK
<1>5. /\ task \in [Slot -> Tasks] /\ task[s].op \in {"post", "reverse"}
      /\ task[s].pc = task[s].op
  BY <1>3, ShapeIs, RequestOK DEF TaskOK
<1>6. "ok" \in Asked(s).refresh
  BY ShapeIs, RefreshOK DEF Asked
<1>7. CASE how \in Asked(s).refresh
  <2> DEFINE r == [task[s] EXCEPT !.pc = "done", !.lines = NoLines]
  <2>1. task' = [task EXCEPT ![s] = r]
    BY <1>1, <1>5, <1>7
  <2>2. /\ r \in Tasks /\ r.op = task[s].op /\ r.met = task[s].met
        /\ r.mounted = task[s].mounted /\ r.pc = "done"
        /\ r.doc = task[s].doc /\ r.handled = task[s].handled /\ r.first = FALSE
        /\ r.lines = NoLines /\ r.target = task[s].target
    BY <1>1, <1>5, NoLinesOK DEF Tasks
  <2> HIDE DEF r
  <2>4. Turned(s, "done", task[s].doc, task[s].handled, FALSE) /\ task'[s] = r
    BY <1>5, <2>1, <2>2, Turning
  <2>5. \/ told' = told
        \/ /\ task[s].handled
           /\ told' = [told EXCEPT ![task[s].doc] =
                         IF task[s].pc = "post" THEN "posted" ELSE "reversed"]
    BY <1>1, <1>2, <1>5
  <2>6. Tells(s)
    BY <1>1, <1>3, <1>5, <1>7, <2>2, <2>4, <2>5 DEF Tells
  <2> QED
    BY <1>1, <1>3, <1>4, <2>6 DEF Continued
<1>8. CASE how \notin Asked(s).refresh
  <2>1. Kept /\ Ended(s)
    BY <1>1, <1>5, <1>8, KeptOK, EndedOK
  <2>2. told' = told /\ stale' = stale
    BY <1>1, <1>6, <1>8
  <2>3. Stops(s)
    BY <1>1, <1>3, <2>1, <2>2 DEF Stops
  <2> QED
    BY <1>1, <1>3, <1>4, <2>3 DEF Continued
<1> QED
  BY <1>7, <1>8

LEMMA AfterChangeIs ==
  ASSUME Shape, Existing, NEW s \in Slot, AfterChange(s)
  PROVE  Continued(s)
<1> DEFINE how == IF task[s].handled THEN "ok" ELSE "refused"
<1>1. /\ task[s].op \notin {"idle", "gone"} /\ task[s].pc = "done"
      /\ \/ /\ task[s].op = "reverse" /\ task[s].handled
            /\ GoTo(task[s].target, Ends(s, task))
         \/ /\ page' = Closing(s, how, Asked(s).closes)
            /\ task' = Ends(s, task)
            /\ UNCHANGED stale
      /\ Astray("ok")
      /\ UNCHANGED <<kind, server, listed, cache, acts, told, removed>>
  BY DEF AfterChange, Asking
<1> HIDE DEF how
<1>2. Followed /\ adrift' \in BOOLEAN
  BY <1>1, AstrayOK
<1>3. task \in [Slot -> Tasks] /\ ~task[s].first
  BY <1>1, ShapeIs, RequestOK DEF TaskOK
<1>4. CASE task[s].op = "reverse" /\ task[s].handled /\ GoTo(task[s].target, Ends(s, task))
  <2>1. task[s].target \in Doc /\ Stored(task[s].target)
    BY <1>1, <1>4, RequestOK DEF TaskOK, Existing
  <2>2. /\ Ended(s) /\ page'.at = "record"
        /\ (Kept /\ stale' = stale) \/ Goes(task[s].target)
    BY <1>4, <2>1, GoToOK
  <2>3. Stops(s)
    BY <1>1, <2>1, <2>2 DEF Stops
  <2> QED
    BY <1>1, <1>2, <2>3 DEF Continued
<1>5. CASE page' = Closing(s, how, Asked(s).closes) /\ task' = Ends(s, task) /\ stale' = stale
  <2>1. Kept /\ Ended(s)
    BY <1>3, <1>5, KeptOK, EndedOK
  <2>2. Stops(s)
    BY <1>1, <1>3, <1>5, <2>1 DEF Stops
  <2> QED
    BY <1>1, <1>2, <2>2 DEF Continued
<1> QED
  BY <1>1, <1>4, <1>5

LEMMA ForgetIs ==
  ASSUME Shape, Existing, NEW s \in Slot, Forget(s)
  PROVE  Continued(s) /\ task[s].op = "gone"
<1>1. /\ task[s].op = "gone" /\ task' = Ends(s, task)
      /\ UNCHANGED <<kind, server, page, listed, cache, stale, acts, told, removed, adrift>>
  BY DEF Forget
<1>2. task \in [Slot -> Tasks] /\ adrift \in BOOLEAN /\ ~task[s].mounted
  BY <1>1, ShapeIs DEF TaskOK
<1>3. Kept /\ Ended(s)
  BY <1>1, <1>2, KeptOK, EndedOK
<1>4. (\A o \in Slot \ {s} : task'[o] = task[o]) /\ task'[s].op = "idle"
  BY <1>1, <1>2, <1>3, EndsOK DEF Ended
<1>5. Followed
  BY <1>1, <1>4 DEF Followed
<1> QED
  BY <1>1, <1>2, <1>3, <1>5 DEF Continued, Stops

LEMMA ContinuesAre ==
  ASSUME Shape, Existing, NEW s \in Slot, Continues(s)
  PROVE  Continued(s)
BY AnswerCreateIs, AnswerFirstPostIs, AnswerUpdateIs, AfterSaveIs, AnswerChangeIs, AfterChangeIs,
   ForgetIs DEF Continues

-----------------------------------------------------------------------------
(* The lines on the screen.                                                *)

LEMMA ViewIs ==
  ASSUME Shape
  PROVE  /\ View = "new" <=> page.at = "new"
         /\ View = "draft" => /\ page.at = "record" /\ cache[page.doc] # None
                              /\ cache[page.doc].status = "draft"
         /\ View = "posted" => page.at = "record" /\ cache[page.doc] # None
<1>1. CASE page.at # "record"
  <2>1. page.at \in {"new", "record", "away"}
    BY ShapeIs DEF Views
  <2> QED
    BY <1>1, <2>1 DEF View
<1>2. CASE page.at = "record"
  BY <1>2 DEF View
<1> QED
  BY <1>1, <1>2

LEMMA ShownOK ==
  ASSUME Shape, View \in {"new", "draft"}
  PROVE  /\ Shown \in Lines
         /\ LinksKept /\ kind = "gr" => Linked(Shown)
         /\ LinesKept /\ kind = "ad" => Whole(Shown)
<1>1. /\ kind \in Kinds /\ page \in Views(Fields) /\ cache \in [Doc -> Documents \cup {None}]
      /\ PageOK(page)
  BY ShapeIs
<1>2. CASE page.form # None
  <2>1. Shown = page.form /\ page.form \in Lines
    BY <1>1, <1>2 DEF Shown, Views
  <2> QED
    BY <1>2, <2>1 DEF LinksKept, LinesKept
<1>3. CASE page.form = None /\ View = "draft"
  <2> DEFINE lines == cache[page.doc].lines
  <2>1. Shown = Hydrated(lines)
    BY <1>3 DEF Shown
  <2>2. page.doc \in Doc /\ cache[page.doc] # None
    BY <1>1, <1>3, ViewIs DEF PageOK
  <2>3. lines \in Lines
    BY <1>1, <2>2 DEF Documents
  <2>4. LinksKept /\ kind = "gr" => Linked(lines)
    BY <2>2 DEF LinksKept
  <2>5. LinesKept /\ kind = "ad" => Whole(lines)
    BY <2>2 DEF LinesKept
  <2> HIDE DEF lines
  <2>6. Linked(lines) => Linked(Keep(lines, Known))
    BY <2>3, KeepOK DEF Linked
  <2> QED
    BY <1>1, <2>1, <2>3, <2>4, <2>5, <2>6, HydratedOK
<1>4. CASE page.form = None /\ View = "new"
  <2>1. \/ Shown = NoLines
        \/ kind = "dl" /\ Shown = salesOrderToDraftSeed
    BY <1>4 DEF Shown
  <2>2. page.at = "new"
    BY <1>4, ViewIs
  <2>3. LinesKept /\ kind = "ad" => Whole(Shown)
    BY <2>2 DEF LinesKept, Whole
  <2> QED
    BY <2>1, <2>3, NoLinesOK, SourceOK DEF Linked
<1> QED
  BY <1>2, <1>3, <1>4

LEMMA QuantityOK ==
  ASSUME NEW l \in Lines, NEW p \in DOMAIN l
  PROVE  Raised(l, p) \in Lines /\ (Linked(l) => Linked(Raised(l, p)))
<1> DEFINE cell == Line(2, l[p].link)
           f == [l EXCEPT ![p] = cell]
<1>1. l \in [DOMAIN l -> Cell] /\ l[p] \in Cell /\ DOMAIN l \subseteq Product
  BY LinesAre DEF Lines, Cell
<1>2. cell \in Cell /\ cell.link = l[p].link
  <2>1. l[p].link \in BOOLEAN
    BY <1>1 DEF Cell
  <2> QED
    BY <2>1, LineOK
<1> HIDE DEF cell
<1>3. f \in [DOMAIN l -> Cell] /\ DOMAIN f = DOMAIN l /\ f[p] = cell
      /\ \A q \in DOMAIN l \ {p} : f[q] = l[q]
  BY <1>1, <1>2
<1> HIDE DEF f
<1>4. f \in Lines
  BY <1>1, <1>3, LinesAre
<1>5. Linked(l) => Linked(f)
  BY <1>2, <1>3 DEF Linked
<1> QED
  BY <1>4, <1>5 DEF f, cell, Raised

LEMMA RemovalOK ==
  ASSUME NEW l \in Lines, NEW p
  PROVE  Without(l, p) \in Lines /\ (Linked(l) => Linked(Without(l, p)))
<1> DEFINE ps == DOMAIN l \ {p}
           f == Restrict(l, ps)
<1>1. f \in Lines /\ DOMAIN f = ps /\ \A q \in ps : f[q] = l[q]
  BY RestrictOK
<1> HIDE DEF f
<1>2. Linked(l) => Linked(f)
  BY <1>1 DEF Linked
<1> QED
  BY <1>1, <1>2 DEF f, Without

LEMMA AdditionOK ==
  ASSUME NEW l \in Lines, NEW p \in Product, p \notin Saved
  PROVE  With(l, p) \in Lines /\ (Linked(l) => Linked(With(l, p)))
<1> DEFINE cell == Line(1, FALSE)
           f == [q \in DOMAIN l \cup {p} |-> IF q = p THEN cell ELSE l[q]]
<1>0. cell \in Cell
  BY DEF Line, Cell
<1> HIDE DEF cell
<1>1. cell \in Cell /\ DOMAIN l \subseteq Product /\ \A q \in DOMAIN l : l[q] \in Cell
  BY <1>0, LinesAre
<1>2. /\ f \in [DOMAIN l \cup {p} -> Cell] /\ DOMAIN f = DOMAIN l \cup {p}
      /\ \A q \in DOMAIN l : q # p => f[q] = l[q]
  BY <1>1
<1> HIDE DEF f
<1>3. f \in Lines
  BY <1>1, <1>2, LinesAre
<1>4. Linked(l) => Linked(f)
  BY <1>2 DEF Linked
<1> QED
  BY <1>3, <1>4 DEF f, cell, With

LEMMA EditsOK ==
  ASSUME NEW l \in Lines, NEW picker \in SUBSET Product, NEW f \in Edits(l, picker)
  PROVE  f \in Lines /\ (Linked(l) => Linked(f))
<1>1. \/ \E p \in DOMAIN l : f = Raised(l, p)
      \/ \E p \in DOMAIN l : f = Without(l, p)
      \/ \E p \in picker \ (Saved \cup DOMAIN l) : f = With(l, p)
  BY DEF Edits
<1>2. ASSUME NEW p \in DOMAIN l, f = Raised(l, p)
      PROVE  f \in Lines /\ (Linked(l) => Linked(f))
  BY <1>2, QuantityOK
<1>3. ASSUME NEW p \in DOMAIN l, f = Without(l, p)
      PROVE  f \in Lines /\ (Linked(l) => Linked(f))
  BY <1>3, RemovalOK
<1>4. ASSUME NEW p \in picker \ (Saved \cup DOMAIN l), f = With(l, p)
      PROVE  f \in Lines /\ (Linked(l) => Linked(f))
  <2>1. p \in Product /\ p \notin Saved
    BY <1>4
  <2> QED
    BY <1>4, <2>1, AdditionOK
<1> QED
  BY <1>1, <1>2, <1>3, <1>4

LEMMA RemovingOK ==
  ASSUME removed \subseteq Product, NEW from \in Lines, NEW to, Removing(from, to)
  PROVE  /\ removed \subseteq removed' /\ removed' \subseteq Product
         /\ kind = "ad" => (DOMAIN from \ DOMAIN to) \subseteq removed'
<1>1. DOMAIN from \subseteq Product
  BY LinesAre
<1> QED
  BY <1>1 DEF Removing

-----------------------------------------------------------------------------
(* What the user enters, and the data that fills a form.                   *)

LEMMA ActingOK ==
  ASSUME Shape, Acting
  PROVE  acts' \in 0..MaxActs
BY ShapeIs, ActsAssumption DEF Acting

FormOK ==
  page'.form \in {None, page.form} \/
    /\ LinksKept /\ kind = "gr" => Linked(page'.form)
    /\ LinesKept /\ kind = "ad" => Saved \ DOMAIN page'.form \subseteq removed'

DialogOK ==
  \/ page'.dialog \in {page.dialog, "closed", "reverse"}
  \/ page'.dialog = "post" /\ ~Running(Controls.postOff)

Entered ==
  /\ UNCHANGED <<kind, server, cache, stale, told>>
  /\ page' \in Views(Fields) /\ page'.at = page.at /\ page'.doc = page.doc
  /\ FormOK /\ DialogOK
  /\ task' \in [Slot -> Tasks] /\ \A o \in Slot : Same(task[o], task'[o])
  /\ Followed /\ adrift' \in BOOLEAN /\ listed' \in BOOLEAN
  /\ acts' \in 0..MaxActs
  /\ removed \subseteq removed' /\ removed' \subseteq Product

LEMMA StillOK ==
  ASSUME Shape, UNCHANGED <<task, adrift>>
  PROVE  /\ task' \in [Slot -> Tasks] /\ \A o \in Slot : Same(task[o], task'[o])
         /\ Followed /\ adrift' \in BOOLEAN
<1>1. task \in [Slot -> Tasks] /\ adrift \in BOOLEAN
  BY ShapeIs
<1> QED
  BY <1>1, SameOK DEF Followed

LEMMA PrefilledOK ==
  ASSUME NEW pg \in Views(Fields)
  PROVE  LET q == Prefilled(pg) IN
         /\ q \in Views(Fields) /\ q.at = pg.at /\ q.doc = pg.doc /\ q.dialog = pg.dialog
         /\ q.form = poToDraftLines'
<1> DEFINE lines == poToDraftLines'
           q == [pg EXCEPT !.form = lines, !.filled = Fields, !.prefilled = TRUE]
<1>1. lines \in Lines
  BY SourceOK
<1> HIDE DEF lines
<1>2. /\ q \in Views(Fields) /\ q.at = pg.at /\ q.doc = pg.doc /\ q.dialog = pg.dialog
      /\ q.form = lines
  BY <1>1 DEF Views
<1> QED
  BY <1>2 DEF Prefilled, lines

LEMMA ArrivalsEnter ==
  ASSUME Shape, ProductsArrive \/ SourceArrives
  PROVE  Entered
<1>1. /\ page \in Views(Fields) /\ task \in [Slot -> Tasks] /\ removed \subseteq Product
      /\ acts \in 0..MaxActs /\ listed \in BOOLEAN /\ PageOK(page)
  BY ShapeIs
<1>2. page.at = "new" /\ page'.form = poToDraftLines' /\ removed' = removed => FormOK
  BY SourceOK DEF FormOK, Linked, LinesKept
<1>3. CASE ProductsArrive
  <2>1. /\ UNCHANGED <<kind, server, cache, stale, task, acts, told, removed, adrift>>
        /\ listed' = TRUE
        /\ page' = page \/ (page.at = "new" /\ page' = Prefilled(page))
    BY <1>3 DEF ProductsArrive
  <2>2. /\ page' \in Views(Fields) /\ page'.at = page.at /\ page'.doc = page.doc
        /\ page'.dialog = page.dialog
        /\ page'.form = page.form \/ (page.at = "new" /\ page'.form = poToDraftLines')
    BY <1>1, <2>1, PrefilledOK
  <2>3. FormOK /\ DialogOK
    BY <1>2, <2>1, <2>2 DEF FormOK, DialogOK
  <2>4. /\ task' \in [Slot -> Tasks] /\ \A o \in Slot : Same(task[o], task'[o])
        /\ Followed /\ adrift' \in BOOLEAN
    BY <2>1, StillOK
  <2> QED
    BY <1>1, <2>1, <2>2, <2>3, <2>4 DEF Entered
<1>4. CASE SourceArrives
  <2> DEFINE arrived == [page EXCEPT !.source = "arrived"]
             fresh == [Blank("arrived") EXCEPT !.filled = Fields]
  <2>1. /\ UNCHANGED <<kind, server, listed, cache, stale, acts, told, removed>>
        /\ page.at = "new"
        /\ \/ page' = fresh /\ task' = Unmounted(task)
           \/ page' \in {arrived, Prefilled(arrived)} /\ task' = task
    BY <1>4 DEF SourceArrives
  <2>2. /\ arrived \in Views(Fields) /\ arrived.at = "new" /\ arrived.doc = page.doc
        /\ arrived.form = page.form /\ arrived.dialog = page.dialog
    BY <1>1, <2>1 DEF Views
  <2>3. /\ fresh \in Views(Fields) /\ fresh.at = "new" /\ fresh.doc = None
        /\ fresh.form = None /\ fresh.dialog = "closed"
    BY BlankOK DEF Views
  <2> HIDE DEF arrived, fresh
  <2>4. page.doc = None
    BY <1>1, <2>1 DEF PageOK
  <2>5. /\ page' \in Views(Fields) /\ page'.at = page.at /\ page'.doc = page.doc
        /\ page'.dialog \in {page.dialog, "closed"}
        /\ page'.form \in {page.form, None} \/ page'.form = poToDraftLines'
    BY <2>1, <2>2, <2>3, <2>4, PrefilledOK
  <2>6. FormOK /\ DialogOK
    BY <1>2, <2>1, <2>5 DEF FormOK, DialogOK
  <2>7. task' \in [Slot -> Tasks] /\ \A o \in Slot : Same(task[o], task'[o])
    BY <1>1, <2>1, UnmountedOK, SameOK
  <2>8. Followed /\ adrift' \in BOOLEAN
    <3>1. Astray("ok")
      BY <1>4 DEF SourceArrives
    <3> QED
      BY <3>1, AstrayOK
  <2> QED
    BY <1>1, <2>1, <2>5, <2>6, <2>7, <2>8 DEF Entered
<1> QED
  BY <1>3, <1>4

LEMMA DialogsEnter ==
  ASSUME Shape, FillHeader \/ ClickPost \/ ClickReverse \/ Dismiss
  PROVE  Entered
<1>1. /\ page \in Views(Fields) /\ removed \subseteq Product /\ acts \in 0..MaxActs
      /\ listed \in BOOLEAN
  BY ShapeIs
<1>2. UNCHANGED <<kind, server, listed, cache, stale, task, acts, told, removed, adrift>>
  BY DEF FillHeader, ClickPost, ClickReverse, Dismiss
<1>3. \/ page' = [page EXCEPT !.filled = Fields]
      \/ \E dialog \in {"closed", "reverse", "post"} :
           /\ page' = [page EXCEPT !.dialog = dialog]
           /\ dialog = "post" => ~Running(Controls.postOff)
  BY DEF FillHeader, ClickPost, ClickReverse, Dismiss
<1>4. /\ page' \in Views(Fields) /\ page'.at = page.at /\ page'.doc = page.doc
      /\ page'.form = page.form
  BY <1>1, <1>3 DEF Views
<1>5. DialogOK
  <2>1. CASE page' = [page EXCEPT !.filled = Fields]
    BY <1>1, <2>1 DEF DialogOK, Views
  <2>2. ASSUME NEW dialog \in {"closed", "reverse", "post"},
               page' = [page EXCEPT !.dialog = dialog], dialog = "post" => ~Running(Controls.postOff)
        PROVE  DialogOK
    <3>1. page'.dialog = dialog
      BY <1>1, <2>2 DEF Views
    <3> QED
      BY <2>2, <3>1 DEF DialogOK
  <2> QED
    BY <1>3, <2>1, <2>2
<1>6. /\ task' \in [Slot -> Tasks] /\ \A o \in Slot : Same(task[o], task'[o])
      /\ Followed /\ adrift' \in BOOLEAN
  BY <1>2, StillOK
<1> QED
  BY <1>1, <1>2, <1>4, <1>5, <1>6 DEF Entered, FormOK

LEMMA EditLineEnters ==
  ASSUME Shape, EditLine
  PROVE  Entered
<1>1. /\ page \in Views(Fields) /\ removed \subseteq Product /\ listed \in BOOLEAN
  BY ShapeIs
<1>2. UNCHANGED <<kind, server, listed, cache, stale, task, told, adrift>> /\ acts' \in 0..MaxActs
  BY ActingOK DEF EditLine
<1>3. View \in {"new", "draft"}
  BY DEF EditLine, Editing
<1>4. /\ Shown \in Lines /\ DOMAIN Shown \subseteq Product
      /\ LinksKept /\ kind = "gr" => Linked(Shown)
      /\ LinesKept /\ kind = "ad" => Whole(Shown)
  BY <1>3, ShownOK, LinesAre
<1>5. \E f \in Lines :
        /\ page' = [page EXCEPT !.form = f]
        /\ Linked(Shown) => Linked(f)
        /\ removed \subseteq removed' /\ removed' \subseteq Product
        /\ kind = "ad" => (DOMAIN Shown \ DOMAIN f) \subseteq removed'
  <2>1. PICK f \in Edits(Shown, Known) : page' = [page EXCEPT !.form = f] /\ Removing(Shown, f)
    BY DEF EditLine
  <2>2. Known \in SUBSET Product
    BY ProductsAssumption DEF Known
  <2>3. f \in Lines /\ (Linked(Shown) => Linked(f))
    BY <1>4, <2>2, EditsOK
  <2>4. /\ removed \subseteq removed' /\ removed' \subseteq Product
        /\ kind = "ad" => (DOMAIN Shown \ DOMAIN f) \subseteq removed'
    BY <1>1, <1>4, <2>1, RemovingOK
  <2> QED
    BY <2>1, <2>3, <2>4
<1>6. PICK f \in Lines :
        /\ page' = [page EXCEPT !.form = f]
        /\ Linked(Shown) => Linked(f)
        /\ removed \subseteq removed' /\ removed' \subseteq Product
        /\ kind = "ad" => (DOMAIN Shown \ DOMAIN f) \subseteq removed'
  BY <1>5
<1>7. /\ page' \in Views(Fields) /\ page'.at = page.at /\ page'.doc = page.doc
      /\ page'.form = f /\ page'.dialog = page.dialog
  BY <1>1, <1>6 DEF Views
<1>8. LinesKept /\ kind = "ad" => Saved \ DOMAIN f \subseteq removed'
  BY <1>4, <1>6 DEF Whole
<1>9. FormOK /\ DialogOK
  BY <1>4, <1>6, <1>7, <1>8 DEF FormOK, DialogOK
<1>10. /\ task' \in [Slot -> Tasks] /\ \A o \in Slot : Same(task[o], task'[o])
       /\ Followed /\ adrift' \in BOOLEAN
  BY <1>2, StillOK
<1> QED
  BY <1>1, <1>2, <1>6, <1>7, <1>9, <1>10 DEF Entered

-----------------------------------------------------------------------------
(* The other steps.                                                        *)

Begins(s, op) ==
  /\ UNCHANGED <<kind, server, page, listed, cache, stale, told, removed, adrift>>
  /\ acts' \in 0..MaxActs
  /\ StartedAt(s, op)
  /\ op = "save" => View \in {"new", "draft"} /\ page.dialog = "closed"
                    /\ ~Running(Controls.saveOff)
  /\ op = "post" => View \in {"new", "draft"} /\ page.dialog = "post"
                    /\ ~Running(Controls.pending)
  /\ op = "reverse" => View = "posted"

Started == \E s \in Slot, op \in {"save", "post", "reverse"} : Begins(s, op)

LEMMA ClicksStart ==
  ASSUME Shape, ClickSave \/ ConfirmPost \/ ConfirmReverse
  PROVE  Started
<1>1. ASSUME NEW op \in {"save", "post", "reverse"}, Start(op)
      PROVE  /\ UNCHANGED <<kind, server, page, listed, cache, stale, told, removed, adrift>>
             /\ acts' \in 0..MaxActs
  BY <1>1, ActingOK DEF Start
<1>2. ASSUME NEW op \in {"save", "post", "reverse"}, Start(op),
             op # "reverse" => View \in {"new", "draft"}
      PROVE  \E s \in Slot : StartedAt(s, op)
  BY <1>2, ShownOK, Starting
<1>3. CASE ClickSave
  BY <1>1, <1>2, <1>3 DEF ClickSave, Editing, Started, Begins
<1>4. CASE ConfirmPost
  BY <1>1, <1>2, <1>4 DEF ConfirmPost, Editing, Started, Begins
<1>5. CASE ConfirmReverse
  BY <1>1, <1>2, <1>5 DEF ConfirmReverse, Started, Begins
<1> QED
  BY <1>3, <1>4, <1>5

(* The record's query answers.                                             *)
Refreshed ==
  LET d == page.doc IN
  /\ UNCHANGED <<kind, server, listed, acts, told, removed>>
  /\ d \in Doc /\ page.at = "record"
  /\ cache' = [cache EXCEPT ![d] = server[d]] /\ stale' = stale \ {d}
  /\ page' \in Views(Fields) /\ page'.at = page.at /\ page'.doc = page.doc
  /\ page'.dialog \in {page.dialog, "closed"}
  /\ page'.form \in {page.form, None} \/ page'.form = Hydrated(server[d].lines)
  /\ task' \in [Slot -> Tasks] /\ \A o \in Slot : Same(task[o], task'[o])
  /\ Followed /\ adrift' \in BOOLEAN

LEMMA RecordRefreshes ==
  ASSUME Shape, RecordArrives
  PROVE  Refreshed
<1> DEFINE d == page.doc
<1>1. /\ kind \in Kinds /\ page \in Views(Fields) /\ PageOK(page) /\ task \in [Slot -> Tasks]
      /\ server \in [Doc -> Documents]
  BY ShapeIs
<1>2. /\ page.at = "record"
      /\ cache' = [cache EXCEPT ![d] = server[d]] /\ stale' = stale \ {d}
      /\ page' = Showing(page, View, server[d])
      /\ task' \in {task, Unmounted(task)}
      /\ Astray("ok") /\ UNCHANGED <<kind, server, listed, acts, told, removed>>
  BY DEF RecordArrives
<1>3. d \in Doc /\ server[d] \in Documents
  BY <1>1, <1>2 DEF PageOK
<1>4. /\ page' \in Views(Fields) /\ page'.at = page.at /\ page'.doc = page.doc
      /\ page'.dialog \in {page.dialog, "closed"}
      /\ page'.form \in {page.form, None} \/ page'.form = Hydrated(server[d].lines)
  BY <1>1, <1>2, <1>3, ShowingOK
<1>5. task' \in [Slot -> Tasks] /\ \A o \in Slot : Same(task[o], task'[o])
  BY <1>1, <1>2, UnmountedOK, SameOK
<1>6. Followed /\ adrift' \in BOOLEAN
  BY <1>2, AstrayOK
<1> QED
  BY <1>2, <1>3, <1>4, <1>5, <1>6 DEF Refreshed

(* The user leaves the page, or returns to a record.                       *)
Left ==
  /\ UNCHANGED <<kind, server, listed, cache, stale, told, removed>> /\ acts' \in 0..MaxActs
  /\ page' = Away
  /\ task' \in [Slot -> Tasks]
  /\ \A o \in Slot : Same(task[o], task'[o]) /\ ~task'[o].mounted
  /\ Followed /\ adrift' \in BOOLEAN

Returned ==
  /\ UNCHANGED <<kind, server, listed, cache, task, acts, told, removed, adrift>>
  /\ page.at = "away"
  /\ \E d \in Doc : Stored(d) /\ page' = Opened(d) /\ stale' = stale \cup {d}

(* A handler whose page is reloaded.                                       *)
Cut(t, u) ==
  \/ t.op = "idle" /\ u = NoTask
  \/ /\ t.op # "idle" /\ u.op = "gone" /\ ~u.mounted
     /\ u.pc = t.pc /\ u.doc = t.doc /\ u.target = t.target /\ u.lines = t.lines
     /\ u.first = t.first /\ u.handled = t.handled

Reloaded ==
  /\ UNCHANGED <<kind, server, removed>> /\ acts' \in 0..MaxActs /\ listed' = FALSE
  /\ page' \in Views(Fields) /\ page'.at = page.at /\ page'.doc = page.doc
  /\ page'.form = None /\ page'.dialog = "closed"
  /\ cache' = [d \in Doc |-> None] /\ told' = [d \in Doc |-> "none"] /\ stale' \subseteq Doc
  /\ task' \in [Slot -> Tasks] /\ \A o \in Slot : Cut(task[o], task'[o])
  /\ Followed /\ adrift' \in BOOLEAN

LEMMA LeavesAre ==
  ASSUME Shape, Leave \/ Return \/ Reload
  PROVE  Left \/ Returned \/ Reloaded
<1>1. /\ page \in Views(Fields) /\ PageOK(page) /\ task \in [Slot -> Tasks]
  BY ShapeIs
<1>2. CASE Leave
  <2>1. /\ page' = Away /\ task' = Unmounted(task) /\ Astray("ok") /\ acts' \in 0..MaxActs
        /\ UNCHANGED <<kind, server, listed, cache, stale, told, removed>>
    BY <1>2, ActingOK DEF Leave
  <2>2. Followed /\ adrift' \in BOOLEAN
    BY <2>1, AstrayOK
  <2>3. /\ task' \in [Slot -> Tasks]
        /\ \A o \in Slot : Same(task[o], task'[o]) /\ ~task'[o].mounted
    BY <1>1, <2>1, UnmountedOK
  <2> QED
    BY <2>1, <2>2, <2>3 DEF Left
<1>3. CASE Return
  BY <1>3 DEF Return, Returned, Stored
<1>4. CASE Reload
  <2> DEFINE source == IF page.source = "none" THEN "none" ELSE "asked"
  <2>1. /\ page.at # "away" /\ Astray("ok") /\ acts' \in 0..MaxActs
        /\ page' = IF page.at = "new" THEN Blank(source) ELSE Fresh(page.doc)
        /\ listed' = FALSE /\ cache' = [d \in Doc |-> None] /\ told' = [d \in Doc |-> "none"]
        /\ stale' = IF page.at = "new" THEN {} ELSE {page.doc}
        /\ UNCHANGED <<kind, server, removed>>
    BY <1>4, ActingOK DEF Reload, Fresh
  <2>2. source \in {"none", "asked", "arrived"}
    OBVIOUS
  <2> HIDE DEF source
  <2>3. page.at \in {"new", "record"}
    BY <1>1, <2>1 DEF Views
  <2>4. page.at = "record" => page.doc \in Doc
    BY <1>1 DEF PageOK
  <2>5. /\ page' \in Views(Fields) /\ page'.at = page.at /\ page'.doc = page.doc
        /\ page'.form = None /\ page'.dialog = "closed" /\ stale' \subseteq Doc
    <3>1. CASE page.at = "new"
      <4>1. page' = Blank(source) /\ stale' = {}
        BY <2>1, <3>1
      <4>2. page.doc = None
        BY <1>1, <3>1 DEF PageOK
      <4> QED
        BY <2>2, <3>1, <4>1, <4>2, BlankOK
    <3>2. CASE page.at = "record"
      <4>1. page' = Fresh(page.doc) /\ stale' = {page.doc}
        BY <2>1, <3>2
      <4> QED
        BY <2>4, <3>2, <4>1, FreshOK
    <3> QED
      BY <2>3, <3>1, <3>2
  <2>6. ASSUME NEW o \in Slot
        PROVE  task'[o] \in Tasks /\ Cut(task[o], task'[o])
    <3> DEFINE t == task[o]
               u == [t EXCEPT !.op = "gone", !.mounted = FALSE]
    <3>1. task'[o] = IF t.op = "idle" THEN NoTask ELSE u
      BY <1>4 DEF Reload
    <3>2. t \in Tasks
      BY <1>1
    <3>3. /\ u \in Tasks /\ u.op = "gone" /\ ~u.mounted
          /\ u.pc = t.pc /\ u.doc = t.doc /\ u.target = t.target /\ u.lines = t.lines
          /\ u.first = t.first /\ u.handled = t.handled
      BY <3>2 DEF Tasks
    <3> HIDE DEF u
    <3> QED
      BY <3>1, <3>3, NoTaskOK DEF Cut
  <2>7. task' \in [Slot -> Tasks]
    <3>1. task' = [s \in Slot |-> task'[s]]
      BY <1>4 DEF Reload
    <3> QED
      BY <2>6, <3>1
  <2>8. Followed /\ adrift' \in BOOLEAN
    BY <2>1, AstrayOK
  <2> QED
    BY <2>1, <2>5, <2>6, <2>7, <2>8 DEF Reloaded
<1> QED
  BY <1>2, <1>3, <1>4

(* Another user moves a document on, or stores a draft anew: a handler     *)
(* that has prepared its post is met.                                      *)
Advances(d) ==
  /\ \/ server[d].status = "draft" /\ SetDoc(d, "posted", server[d].lines)
     \/ server[d].status = "draft" /\ SetDoc(d, "deleted", server[d].lines)
     \/ server[d].status = "posted" /\ SetDoc(d, "reversed", server[d].lines)
  /\ task' = task

Rewrites(d, lines) ==
  /\ server[d].status = "draft" /\ SetDoc(d, "draft", lines)
  /\ Linked(server[d].lines) => Linked(lines)
  /\ kind = "ad" => (DOMAIN server[d].lines \ DOMAIN lines) \subseteq removed'
  /\ \A s \in Slot : Prepared(s, d) => task'[s].met

MovedOn ==
  /\ UNCHANGED <<kind, page, listed, cache, stale, told, adrift>>
  /\ acts' \in 0..MaxActs
  /\ removed \subseteq removed' /\ removed' \subseteq Product
  /\ task' \in [Slot -> Tasks]
  /\ \A s \in Slot : Same(task[s], task'[s]) /\ task'[s].mounted = task[s].mounted
  /\ server' \in [Doc -> Documents]
  /\ \E d \in Doc : RestDocs({d}) /\ (Advances(d) \/ \E lines \in Lines : Rewrites(d, lines))

LEMMA OtherUserMovesOnIs ==
  ASSUME Shape, OtherUserActs, NEW d \in Doc, OtherUserMovesOn(d)
  PROVE  MovedOn
<1>1. server \in [Doc -> Documents] /\ removed \subseteq Product /\ task \in [Slot -> Tasks]
  BY ShapeIs
<1>2. PICK st \in Follows(server[d].status) : server' = [server EXCEPT ![d].status = st]
  BY DEF OtherUserMovesOn
<1>3. \/ server[d].status = "draft" /\ st \in {"posted", "deleted"}
      \/ server[d].status = "posted" /\ st = "reversed"
  BY <1>2 DEF Follows
<1>4. SetDoc(d, st, server[d].lines) /\ server' \in [Doc -> Documents] /\ RestDocs({d})
  <2> DEFINE doc == [server[d] EXCEPT !.status = st]
  <2>1. doc \in Documents /\ doc.status = st /\ doc.lines = server[d].lines
    BY <1>1, <1>3 DEF Documents, Status
  <2>2. server' = [server EXCEPT ![d] = doc]
    BY <1>2
  <2> HIDE DEF doc
  <2> QED
    BY <1>1, <2>1, <2>2 DEF SetDoc, RestDocs
<1>5. acts' \in 0..MaxActs /\ UNCHANGED <<kind, page, listed, cache, stale, told, adrift>>
  BY ActingOK DEF OtherUserActs
<1>6. task' = task /\ removed' = removed
  BY DEF OtherUserMovesOn
<1>7. task' \in [Slot -> Tasks] /\ \A s \in Slot : Same(task[s], task'[s]) /\ task'[s].mounted = task[s].mounted
  BY <1>1, <1>6, SameOK
<1>8. Advances(d)
  BY <1>3, <1>4, <1>6 DEF Advances
<1> QED
  BY <1>1, <1>4, <1>5, <1>6, <1>7, <1>8 DEF MovedOn

LEMMA OtherUserUpdatesIs ==
  ASSUME Shape, OtherUserActs, NEW d \in Doc, OtherUserUpdates(d)
  PROVE  MovedOn
<1>1. server \in [Doc -> Documents] /\ removed \subseteq Product /\ task \in [Slot -> Tasks]
  BY ShapeIs
<1>2. /\ server[d].status = "draft"
      /\ task' = [s \in Slot |-> [task[s] EXCEPT !.met = @ \/ Prepared(s, d)]]
  BY DEF OtherUserUpdates
<1>3. PICK lines \in Edits(server[d].lines, Listed) :
        server' = [server EXCEPT ![d].lines = lines] /\ Removing(server[d].lines, lines)
  BY DEF OtherUserUpdates
<1>4. server[d].lines \in Lines
  BY <1>1 DEF Documents
<1>5. lines \in Lines /\ (Linked(server[d].lines) => Linked(lines))
  BY <1>4, EditsOK, ProductsAssumption
<1>6. /\ removed \subseteq removed' /\ removed' \subseteq Product
      /\ kind = "ad" => (DOMAIN server[d].lines \ DOMAIN lines) \subseteq removed'
  BY <1>1, <1>3, <1>4, RemovingOK
<1>7. SetDoc(d, "draft", lines) /\ server' \in [Doc -> Documents] /\ RestDocs({d})
  <2> DEFINE doc == [server[d] EXCEPT !.lines = lines]
  <2>1. doc \in Documents /\ doc.status = "draft" /\ doc.lines = lines
    BY <1>1, <1>2, <1>5 DEF Documents
  <2>2. server' = [server EXCEPT ![d] = doc]
    BY <1>3
  <2> HIDE DEF doc
  <2> QED
    BY <1>1, <2>1, <2>2 DEF SetDoc, RestDocs
<1>8. ASSUME NEW s \in Slot
      PROVE  /\ task'[s] \in Tasks /\ Same(task[s], task'[s]) /\ task'[s].mounted = task[s].mounted
             /\ Prepared(s, d) => task'[s].met
  <2> DEFINE met == task[s].met \/ Prepared(s, d)
             u == [task[s] EXCEPT !.met = met]
  <2>1. met \in BOOLEAN /\ (task[s].met => met) /\ (Prepared(s, d) => met)
    OBVIOUS
  <2>2. task'[s] = u
    BY <1>2
  <2> HIDE DEF met
  <2>3. task[s] \in Tasks
    BY <1>1
  <2>4. u \in Tasks /\ Same(task[s], u) /\ u.mounted = task[s].mounted /\ u.met = met
    BY <2>1, <2>3 DEF Tasks, Same
  <2> HIDE DEF u
  <2> QED
    BY <2>1, <2>2, <2>4
<1>9. task' \in [Slot -> Tasks]
  <2>1. task' = [s \in Slot |-> task'[s]]
    BY <1>2
  <2> QED
    BY <1>8, <2>1
<1>10. acts' \in 0..MaxActs /\ UNCHANGED <<kind, page, listed, cache, stale, told, adrift>>
  BY ActingOK DEF OtherUserActs
<1>11. Rewrites(d, lines)
  BY <1>2, <1>5, <1>6, <1>7, <1>8 DEF Rewrites
<1> QED
  BY <1>5, <1>6, <1>7, <1>8, <1>9, <1>10, <1>11 DEF MovedOn

LEMMA OtherUserMoves ==
  ASSUME Shape, OtherUserActs
  PROVE  MovedOn
<1>1. PICK d \in Doc : OtherUserMovesOn(d) \/ OtherUserUpdates(d)
  BY DEF OtherUserActs
<1> QED
  BY <1>1, OtherUserMovesOnIs, OtherUserUpdatesIs

Serving(s) ==
  Served(s) /\ UNCHANGED <<kind, page, listed, cache, stale, acts, told, removed, adrift>>

Step ==
  \/ Entered \/ Started \/ Refreshed \/ Left \/ Returned \/ Reloaded \/ MovedOn
  \/ \E s \in Slot : Serving(s) \/ Continued(s)

LEMMA NextIs ==
  ASSUME Shape, Existing, Next
  PROVE  Step
<1>1. CASE Arrivals
  BY <1>1, ArrivalsEnter, RecordRefreshes DEF Arrivals, Step
<1>2. CASE UserActs
  BY <1>2, DialogsEnter, EditLineEnters, ClicksStart, LeavesAre DEF UserActs, Step
<1>3. CASE OtherUserActs
  BY <1>3, OtherUserMoves DEF Step
<1>4. ASSUME NEW s \in Slot, Handles(s) \/ Continues(s)
      PROVE  Step
  BY <1>4, HandlesServe, ContinuesAre DEF Step, Serving
<1> QED
  BY <1>1, <1>2, <1>3, <1>4 DEF Next

-----------------------------------------------------------------------------
(* Types are kept.                                                         *)

LEMMA ShapeNext ==
  ASSUME kind \in Kinds, kind' = kind,
         server' \in [Doc -> Documents], page' \in Views(Fields), PageOK(page'),
         listed' \in BOOLEAN, adrift' \in BOOLEAN, cache' \in [Doc -> Documents \cup {None}],
         stale' \subseteq Doc, task' \in [Slot -> Tasks], \A o \in Slot : TaskOK(task'[o]),
         acts' \in 0..MaxActs, told' \in [Doc -> Status], removed' \subseteq Product
  PROVE  Shape'
<1>1. Fields' = Fields
  BY DEF Fields
<1> QED
  BY <1>1 DEF Shape, TypeOK, Views, Tasks

LEMMA StoppedTasksOK ==
  ASSUME task \in [Slot -> Tasks], \A o \in Slot : TaskOK(task[o]), NEW s \in Slot, Ended(s)
  PROVE  task'[s] \in Tasks /\ \A o \in Slot : TaskOK(task'[o])
<1>1. TaskOK(task'[s])
  BY NoTaskOK, SameOK DEF Ended
<1>2. ASSUME NEW o \in Slot \ {s}
      PROVE  TaskOK(task'[o])
  BY <1>2, SameOK DEF Ended, Others
<1> QED
  BY <1>1, <1>2 DEF Ended

LEMMA StoppedTasksAre ==
  ASSUME task \in [Slot -> Tasks], NEW s \in Slot, Ended(s), task' \in [Slot -> Tasks]
  PROVE  \A o \in Slot : IF o = s THEN Same(NoTask, task'[o]) ELSE Same(task[o], task'[o])
BY DEF Ended, Others

LEMMA TurnedTaskOK ==
  ASSUME Shape, NEW s \in Slot, task[s].op # "idle",
         \/ Served(s) \/ Moves(s) \/ Tells(s)
  PROVE  task' \in [Slot -> Tasks] /\ \A o \in Slot : TaskOK(task'[o])
<1>1. task \in [Slot -> Tasks] /\ \A o \in Slot : TaskOK(task[o])
  BY ShapeIs
<1>2. \E pc, doc, handled, first : Turned(s, pc, doc, handled, first)
  BY DEF Served, Creates, Updates, Posts, Reverses, Moves, Tells
<1>3. task' \in [Slot -> Tasks] /\ \A o \in Slot \ {s} : task'[o] = task[o]
  BY <1>2 DEF Turned
<1>4. TaskOK(task'[s])
  <2> DEFINE t == task[s]
             u == task'[s]
  <2>1. t \in Tasks /\ u \in Tasks /\ TaskOK(t)
    BY <1>1, <1>3
  <2>2. CASE Served(s)
    <3>1. /\ u.op = t.op /\ u.mounted = t.mounted /\ u.pc = t.pc /\ u.first = t.first /\ u.handled
          /\ t.pc \in {"create", "put", "post", "reverse"} /\ u.doc \in Doc
          /\ t.pc = "reverse" => u.target \in Doc
      <4>1. CASE Creates(s)
        <5>1. PICK d \in Doc : Turned(s, "create", d, TRUE, task[s].first) /\ task[s].pc = "create"
          BY <4>1 DEF Creates
        <5> QED
          BY <5>1 DEF Turned
      <4>2. CASE Updates(s)
        BY <2>1, <4>2 DEF Updates, Turned, TaskOK
      <4>3. CASE Posts(s)
        BY <2>1, <4>3 DEF Posts, Turned, TaskOK
      <4>4. CASE Reverses(s)
        BY <2>1, <4>4 DEF Reverses, Turned, TaskOK
      <4> QED
        BY <2>2, <4>1, <4>2, <4>3, <4>4 DEF Served
    <3> HIDE DEF t, u
    <3>2. TaskOK(u)
      BY <2>1, <3>1 DEF TaskOK
    <3> QED
      BY <3>2 DEF u
  <2>3. CASE Moves(s)
    <3>1. /\ u.op = t.op /\ u.mounted = t.mounted /\ u.doc = t.doc /\ ~u.handled
          /\ u.pc \in {"post", "saved"} /\ t.pc \in {"create", "put", "saved"}
          /\ t.pc = "create" => t.handled
          /\ u.pc = "post" => t.op = "post"
          /\ u.pc = "saved" => t.op \in {"save", "post"}
          /\ u.first => u.pc = "post"
      BY <2>1, <2>3 DEF Moves, Turned, TaskOK
    <3> HIDE DEF t, u
    <3>2. TaskOK(u)
      BY <2>1, <3>1 DEF TaskOK
    <3> QED
      BY <3>2 DEF u
  <2>4. CASE Tells(s)
    <3>1. /\ u.op = t.op /\ u.mounted = t.mounted /\ u.doc = t.doc /\ u.handled = t.handled
          /\ u.pc = "done" /\ ~u.first /\ t.pc \in {"post", "reverse"}
          /\ t.op \in {"post", "reverse"} /\ u.target = t.target
      BY <2>4 DEF Tells, Turned
    <3> HIDE DEF t, u
    <3>2. TaskOK(u)
      BY <2>1, <3>1 DEF TaskOK
    <3> QED
      BY <3>2 DEF u
  <2> QED
    BY <2>2, <2>3, <2>4
<1> QED
  BY <1>1, <1>3, <1>4

LEMMA StepShape ==
  ASSUME Shape, Existing, Step
  PROVE  Shape'
<1>1. /\ kind \in Kinds /\ server \in [Doc -> Documents] /\ page \in Views(Fields) /\ PageOK(page)
      /\ listed \in BOOLEAN /\ adrift \in BOOLEAN
      /\ cache \in [Doc -> Documents \cup {None}] /\ stale \subseteq Doc
      /\ task \in [Slot -> Tasks] /\ (\A s \in Slot : TaskOK(task[s]))
      /\ acts \in 0..MaxActs /\ told \in [Doc -> Status] /\ removed \subseteq Product
  BY ShapeIs
<1>2. page'.at = page.at /\ page'.doc = page.doc => PageOK(page')
  BY <1>1 DEF PageOK
<1>3. (\A o \in Slot : Same(task[o], task'[o])) => \A o \in Slot : TaskOK(task'[o])
  BY <1>1, SameOK
<1>4. CASE Entered
  BY <1>1, <1>2, <1>3, <1>4, ShapeNext DEF Entered
<1>5. CASE Started
  <2>1. PICK s \in Slot, op \in {"save", "post", "reverse"} :
          /\ Begins(s, op)
          /\ StartedAt(s, op) /\ (op = "save" => View \in {"new", "draft"})
          /\ (op = "post" => View \in {"new", "draft"}) /\ (op = "reverse" => View = "posted")
    BY <1>5 DEF Started, Begins
  <2>2. task' \in [Slot -> Tasks] /\ \A o \in Slot \ {s} : task'[o] = task[o]
    BY <2>1 DEF StartedAt
  <2>3. TaskOK(task'[s])
    <3>1. View # "new" => page.doc \in Doc
      BY <1>1, <2>1, ViewIs DEF PageOK
    <3>2. /\ task'[s].op = op /\ task'[s].doc = page.doc /\ task'[s].mounted
          /\ ~task'[s].first /\ ~task'[s].handled
          /\ task'[s].pc = IF op = "reverse" THEN "reverse" ELSE IF View = "new" THEN "create" ELSE "put"
      BY <2>1 DEF StartedAt
    <3>3. op = "reverse" => View # "new"
      BY <2>1
    <3> QED
      BY <3>1, <3>2, <3>3 DEF TaskOK
  <2>4. \A o \in Slot : TaskOK(task'[o])
    BY <1>1, <2>2, <2>3
  <2> QED
    BY <1>1, <2>1, <2>2, <2>4, ShapeNext DEF Begins
<1>6. CASE Refreshed
  <2>1. cache' \in [Doc -> Documents \cup {None}] /\ stale' \subseteq Doc
    BY <1>1, <1>6 DEF Refreshed
  <2> QED
    BY <1>1, <1>2, <1>3, <1>6, <2>1, ShapeNext DEF Refreshed
<1>7. CASE Left
  BY <1>1, <1>3, <1>7, AwayOK, ShapeNext DEF Left
<1>8. CASE Returned
  <2>1. PICK d \in Doc : page' = Opened(d) /\ stale' = stale \cup {d}
    BY <1>8 DEF Returned
  <2>2. page' \in Views(Fields) /\ PageOK(page') /\ stale' \subseteq Doc
    BY <1>1, <2>1, OpenedOK
  <2> QED
    BY <1>1, <1>8, <2>2, ShapeNext DEF Returned
<1>9. CASE Reloaded
  <2>1. ASSUME NEW o \in Slot
        PROVE  TaskOK(task'[o])
    <3>1. Cut(task[o], task'[o]) /\ TaskOK(task[o])
      BY <1>1, <1>9 DEF Reloaded
    <3>2. CASE task[o].op = "idle" /\ task'[o] = NoTask
      BY <3>2, NoTaskOK
    <3>3. CASE task[o].op # "idle" /\ task'[o].op = "gone"
      BY <3>1, <3>3, NoTaskOK DEF Cut, TaskOK
    <3> QED
      BY <3>1, <3>2, <3>3 DEF Cut
  <2>2. cache' \in [Doc -> Documents \cup {None}] /\ told' \in [Doc -> Status] /\ stale' \subseteq Doc
    BY <1>9 DEF Reloaded, Status
  <2> QED
    BY <1>1, <1>2, <1>9, <2>1, <2>2, ShapeNext DEF Reloaded
<1>10. CASE MovedOn
  BY <1>1, <1>2, <1>3, <1>10, ShapeNext DEF MovedOn
<1>11. ASSUME NEW s \in Slot, Serving(s)
       PROVE  Shape'
  <2>1. task' \in [Slot -> Tasks] /\ \A o \in Slot : TaskOK(task'[o])
    BY <1>11, TurnedTaskOK DEF Serving, Served
  <2> QED
    BY <1>1, <1>11, <2>1, ShapeNext DEF Serving, Served
<1>12. ASSUME NEW s \in Slot, Continued(s)
       PROVE  Shape'
  <2>0. /\ UNCHANGED <<kind, server, listed, cache, acts, removed>> /\ adrift' \in BOOLEAN
        /\ task[s].op # "idle"
    BY <1>12 DEF Continued
  <2>1. CASE Stops(s)
    <3>1. \A o \in Slot : TaskOK(task'[o])
      BY <1>1, <2>1, StoppedTasksOK DEF Stops
    <3>2. task' \in [Slot -> Tasks]
      BY <2>1 DEF Stops, Ended
    <3>3. page' \in Views(Fields) /\ PageOK(page') /\ stale' \subseteq Doc
      <4>1. CASE Kept /\ stale' = stale
        BY <1>1, <1>2, <4>1 DEF Kept
      <4>2. ASSUME NEW d \in Doc, Goes(d)
            PROVE  <3>3
        BY <1>1, <4>2, OpenedOK DEF Goes
      <4> QED
        BY <2>1, <4>1, <4>2 DEF Stops
    <3> QED
      BY <1>1, <2>0, <2>1, <3>1, <3>2, <3>3, ShapeNext DEF Stops
  <2>2. CASE Moves(s)
    <3>1. task' \in [Slot -> Tasks] /\ \A o \in Slot : TaskOK(task'[o])
      BY <2>0, <2>2, TurnedTaskOK
    <3>2. page' = page /\ told' = told /\ stale' \in {stale, stale \cup {task[s].doc}}
      BY <2>2 DEF Moves
    <3>3. task[s].doc \in Doc
      BY <1>1, <2>2 DEF Moves, TaskOK
    <3> QED
      BY <1>1, <1>2, <2>0, <3>1, <3>2, <3>3, ShapeNext
  <2>3. CASE Tells(s)
    <3>1. task' \in [Slot -> Tasks] /\ \A o \in Slot : TaskOK(task'[o])
      BY <2>0, <2>3, TurnedTaskOK
    <3>2. page' = page /\ stale' = stale \cup {task[s].doc}
      BY <2>3 DEF Tells
    <3>3. task[s].doc \in Doc
      BY <1>1, <2>3 DEF Tells, TaskOK
    <3>4. told' \in [Doc -> Status]
      <4>1. "posted" \in Status /\ "reversed" \in Status
        BY DEF Status
      <4> QED
        BY <1>1, <2>3, <4>1 DEF Tells
    <3> QED
      BY <1>1, <1>2, <2>0, <3>1, <3>2, <3>3, <3>4, ShapeNext
  <2> QED
    BY <1>12, <2>1, <2>2, <2>3 DEF Continued
<1> QED
  BY <1>4, <1>5, <1>6, <1>7, <1>8, <1>9, <1>10, <1>11, <1>12 DEF Step

-----------------------------------------------------------------------------
(* Documents only move on.                                                 *)
Onward(d) ==
  \/ server'[d].status = server[d].status
  \/ server[d].status = "none" /\ server'[d].status \in {"draft", "posted"}
  \/ server[d].status = "draft" /\ server'[d].status \in {"posted", "deleted"}
  \/ server[d].status = "posted" /\ server'[d].status = "reversed"

LEMMA StepOnward ==
  ASSUME Shape, Step
  PROVE  \A d \in Doc : Onward(d)
<1> SUFFICES ASSUME NEW e \in Doc PROVE Onward(e)
  OBVIOUS
<1>1. \A s \in Slot : TaskOK(task[s])
  BY ShapeIs
<1>2. CASE server' = server
  BY <1>2 DEF Onward
<1>3. CASE MovedOn
  BY <1>3 DEF MovedOn, Advances, Rewrites, SetDoc, RestDocs, Onward
<1>4. ASSUME NEW s \in Slot, Served(s)
      PROVE  Onward(e)
  <2>1. CASE Creates(s)
    BY <2>1 DEF Creates, SetDoc, RestDocs, Onward
  <2>2. CASE Updates(s)
    BY <2>2 DEF Updates, SetDoc, RestDocs, Onward
  <2>3. CASE Posts(s)
    BY <2>3 DEF Posts, SetDoc, RestDocs, Onward
  <2>4. CASE Reverses(s)
    BY <2>4 DEF Reverses, SetDoc, RestDocs, Onward
  <2> QED
    BY <1>4, <2>1, <2>2, <2>3, <2>4 DEF Served
<1> QED
  BY <1>2, <1>3, <1>4
  DEF Step, Entered, Started, Begins, Refreshed, Left, Returned, Reloaded, Serving, Continued

LEMMA StaysStored ==
  ASSUME Shape, Step
  PROVE  \A d \in Doc : Stored(d) => Stored(d)'
BY StepOnward DEF Onward, Stored

(* How the handlers fare in a step.                                        *)
Fares(s) ==
  \/ Same(task[s], task'[s])
  \/ Same(NoTask, task'[s]) /\ Continued(s) /\ Stops(s)
  \/ Cut(task[s], task'[s])
  \/ \E op \in {"save", "post", "reverse"} : Begins(s, op)
  \/ Serving(s)
  \/ Continued(s) /\ Moves(s)
  \/ Continued(s) /\ Tells(s)

LEMMA StepFares ==
  ASSUME Shape, Step
  PROVE  \A s \in Slot : Fares(s)
<1> SUFFICES ASSUME NEW s \in Slot PROVE Fares(s)
  OBVIOUS
<1>1. task \in [Slot -> Tasks]
  BY ShapeIs
<1>2. Same(task[s], task[s])
  BY <1>1, SameOK
<1>3. CASE Entered \/ Refreshed \/ Left \/ MovedOn
  BY <1>3 DEF Entered, Refreshed, Left, MovedOn, Fares
<1>4. CASE Returned
  BY <1>2, <1>4 DEF Returned, Fares
<1>5. CASE Reloaded
  BY <1>5 DEF Reloaded, Fares
<1>6. CASE Started
  <2>1. PICK o \in Slot, op \in {"save", "post", "reverse"} : Begins(o, op)
    BY <1>6 DEF Started
  <2>2. o # s => task'[s] = task[s]
    BY <2>1 DEF Begins, StartedAt
  <2> QED
    BY <1>2, <2>1, <2>2 DEF Fares
<1>7. ASSUME NEW o \in Slot, Serving(o)
      PROVE  Fares(s)
  <2>1. o # s => task'[s] = task[s]
    BY <1>7 DEF Serving, Served, Creates, Updates, Posts, Reverses, Turned
  <2> QED
    BY <1>2, <1>7, <2>1 DEF Fares
<1>8. ASSUME NEW o \in Slot, Continued(o)
      PROVE  Fares(s)
  <2>1. CASE Stops(o)
    BY <1>8, <2>1 DEF Stops, Ended, Others, Fares
  <2>2. CASE Moves(o)
    <3>1. o # s => task'[s] = task[s]
      BY <2>2 DEF Moves, Turned
    <3> QED
      BY <1>2, <1>8, <2>2, <3>1 DEF Fares
  <2>3. CASE Tells(o)
    <3>1. o # s => task'[s] = task[s]
      BY <2>3 DEF Tells, Turned
    <3> QED
      BY <1>2, <1>8, <2>3, <3>1 DEF Fares
  <2> QED
    BY <1>8, <2>1, <2>2, <2>3 DEF Continued
<1> QED
  BY <1>3, <1>4, <1>5, <1>6, <1>7, <1>8 DEF Step

(* Where a step leaves the page and the data at hand.                      *)
Opening(d) ==
  /\ page' = Opened(d) /\ stale' = stale \cup {d} /\ UNCHANGED <<kind, server, listed, cache, removed>>
  /\ page.at = "away" \/ \A o \in Slot : ~task'[o].mounted

LEMMA StepPage ==
  ASSUME Shape, Step
  PROVE  \/ page'.at = page.at /\ page'.doc = page.doc
         \/ page' = Away /\ \A o \in Slot : ~task'[o].mounted
         \/ \E d \in Doc : Stored(d) /\ Opening(d)
<1>1. CASE Entered \/ Started \/ Refreshed \/ Reloaded \/ MovedOn
  BY <1>1 DEF Entered, Started, Begins, Refreshed, Reloaded, MovedOn
<1>2. CASE Left \/ Returned
  BY <1>2 DEF Left, Returned, Opening
<1>3. ASSUME NEW s \in Slot, Serving(s)
      PROVE  page'.at = page.at /\ page'.doc = page.doc
  BY <1>3 DEF Serving
<1>4. ASSUME NEW s \in Slot, Continued(s), ~(page'.at = page.at /\ page'.doc = page.doc)
      PROVE  \E d \in Doc : Stored(d) /\ Opening(d)
  BY <1>4 DEF Continued, Stops, Moves, Tells, Kept, Goes, Opening
<1> QED
  BY <1>1, <1>2, <1>3, <1>4 DEF Step

LEMMA StepCache ==
  ASSUME Shape, Step
  PROVE  \/ cache' = cache /\ stale \subseteq stale'
         \/ Refreshed
         \/ Reloaded
BY DEF Step, Entered, Started, Begins, Left, Returned, MovedOn, Serving, Continued, Stops, Moves, Tells, Goes

(* What is shown, cached or worked on goes on to be stored.                *)
LEMMA StepExisting ==
  ASSUME Shape, Existing, Step
  PROVE  Existing'
<1>0. /\ PageOK(page) /\ cache \in [Doc -> Documents \cup {None}]
      /\ \A s \in Slot : task[s] \in Tasks /\ TaskOK(task[s])
  BY ShapeIs
<1>1. \A d \in Doc : Stored(d) => Stored(d)'
  BY StaysStored
<1>2. page'.at = "record" => server'[page'.doc].status # "none"
  <2>1. CASE page'.at = page.at /\ page'.doc = page.doc
    BY <1>0, <1>1, <2>1 DEF Existing, PageOK, Stored
  <2>2. CASE page' = Away
    BY <2>2, AwayOK
  <2>3. ASSUME NEW d \in Doc, Stored(d), Opening(d)
        PROVE  page'.doc = d /\ Stored(d)'
    BY <1>1, <2>3, OpenedOK DEF Opening
  <2> QED
    BY <2>1, <2>2, <2>3, StepPage DEF Stored
<1>3. \A d \in Doc : cache'[d] # None => server'[d].status # "none" /\ cache'[d].status # "none"
  <2>1. CASE cache' = cache
    BY <1>1, <2>1 DEF Existing, Stored
  <2>2. CASE Refreshed
    <3>1. /\ page.doc \in Doc /\ server[page.doc].status # "none" /\ server' = server
          /\ cache' = [cache EXCEPT ![page.doc] = server[page.doc]]
      BY <2>2 DEF Refreshed, Existing, Stored
    <3>2. cache'[page.doc] = server[page.doc] /\ \A d \in Doc \ {page.doc} : cache'[d] = cache[d]
      BY <1>0, <3>1
    <3> QED
      BY <3>1, <3>2 DEF Existing, Stored
  <2>3. CASE Reloaded
    BY <2>3 DEF Reloaded
  <2> QED
    BY <2>1, <2>2, <2>3, StepCache
<1>4. ASSUME NEW s \in Slot
      PROVE  /\ Naming(task'[s]) => server'[task'[s].doc].status # "none"
             /\ task'[s].op = "reverse" /\ task'[s].handled => server'[task'[s].target].status # "none"
  <2> DEFINE t == task[s]
             u == task'[s]
             Good == /\ Naming(u) => server'[u.doc].status # "none"
                     /\ u.op = "reverse" /\ u.handled => server'[u.target].status # "none"
  <2>1. /\ TaskOK(t)
        /\ Naming(t) => t.doc \in Doc /\ Stored(t.doc)
        /\ t.op = "reverse" /\ t.handled => t.target \in Doc /\ Stored(t.target)
    BY <1>0 DEF Existing, Naming, TaskOK
  <2>2. ASSUME Naming(u) => Naming(t) /\ u.doc = t.doc,
               u.op = "reverse" /\ u.handled => t.op = "reverse" /\ t.handled /\ u.target = t.target
        PROVE  Good
    BY <1>1, <2>1, <2>2 DEF Stored
  <2>3. CASE Same(t, u)
    BY <2>2, <2>3 DEF Same, Naming
  <2>4. CASE Same(NoTask, u)
    BY <2>4, NoTaskOK DEF Same, Naming
  <2>5. CASE Cut(t, u)
    BY <2>2, <2>5, NoTaskOK DEF Cut, Naming
  <2>6. ASSUME NEW op \in {"save", "post", "reverse"}, Begins(s, op)
        PROVE  Good
    <3>1. /\ u.op = op /\ u.doc = page.doc /\ ~u.handled /\ page' = page
          /\ u.pc = IF op = "reverse" THEN "reverse" ELSE IF View = "new" THEN "create" ELSE "put"
          /\ op = "reverse" => View = "posted"
          /\ View \in {"new", "draft", "posted"}
      BY <2>6 DEF Begins, StartedAt
    <3>2. Naming(u) => page.at = "record"
      <4> HIDE DEF u
      <4> QED
        BY <3>1, ViewIs DEF Naming
    <3> QED
      BY <1>2, <3>1, <3>2
  <2>7. CASE Serving(s)
    <3>1. TaskOK(u)
      BY <2>7, TurnedTaskOK DEF Serving, Served
    <3>2. CASE Creates(s)
      <4>1. PICK d \in Doc : SetDoc(d, "draft", t.lines) /\ Turned(s, "create", d, TRUE, t.first)
                             /\ t.pc = "create"
        BY <3>2 DEF Creates
      <4>2. u.doc = d /\ u.pc = "create" /\ server'[d].status = "draft"
        BY <4>1 DEF Turned, SetDoc
      <4> QED
        BY <3>1, <4>2 DEF TaskOK
    <3>3. CASE Updates(s) \/ Posts(s)
      <4>1. /\ u.doc = t.doc /\ u.pc = t.pc /\ t.pc \in {"put", "post"}
        BY <3>3 DEF Updates, Posts, Turned
      <4> QED
        BY <1>1, <2>1, <3>1, <4>1 DEF TaskOK, Naming, Stored
    <3>4. CASE Reverses(s)
      <4>1. PICK r \in Doc : SetDoc(r, "posted", server[t.doc].lines) /\ u.target = r
        BY <3>4 DEF Reverses
      <4>2. u.doc = t.doc /\ t.pc = "reverse"
        BY <3>4 DEF Reverses, Turned
      <4> QED
        BY <1>1, <2>1, <4>1, <4>2 DEF Naming, Stored, SetDoc
    <3> QED
      BY <2>7, <3>2, <3>3, <3>4 DEF Serving, Served
  <2>8. CASE Continued(s) /\ Moves(s)
    <3>1. Naming(t) /\ u.doc = t.doc /\ ~u.handled
      BY <2>8 DEF Moves, Turned, Naming
    <3> QED
      BY <1>1, <2>1, <3>1 DEF Stored
  <2>9. CASE Continued(s) /\ Tells(s)
    <3>1. Naming(t) /\ u.doc = t.doc /\ u.op = t.op /\ u.handled = t.handled /\ u.target = t.target
      BY <2>9 DEF Tells, Turned, Naming
    <3> QED
      BY <2>2, <3>1
  <2> QED
    BY <2>3, <2>4, <2>5, <2>6, <2>7, <2>8, <2>9, StepFares DEF Fares
<1> QED
  BY <1>2, <1>3, <1>4 DEF Existing, Stored, Naming

-----------------------------------------------------------------------------
(* What was answered has happened, and is shown.                           *)

LEMMA RankIs ==
  /\ Rank("none") = 0 /\ Rank("draft") = 1 /\ Rank("posted") = 2 /\ Rank("reversed") = 3
  /\ Rank("deleted") = 1
  /\ \A st \in Status : Rank(st) \in 0..3
<1>1. /\ Rank("none") = 0 /\ Rank("draft") = 1 /\ Rank("posted") = 2 /\ Rank("reversed") = 3
      /\ Rank("deleted") = 1
  BY DEF Rank
<1> QED
  BY <1>1 DEF Status

LEMMA StatusesAre ==
  ASSUME Shape
  PROVE  \A d \in Doc : /\ server[d].status \in Status /\ told[d] \in Status
                        /\ cache[d] # None => cache[d].status \in Status
BY ShapeIs DEF Documents

LEMMA StepRank ==
  ASSUME Shape, Shape', Step, NEW d \in Doc
  PROVE  /\ Rank(server[d].status) \in 0..3 /\ Rank(server'[d].status) \in 0..3
         /\ Rank(server[d].status) <= Rank(server'[d].status)
<1>1. server[d].status \in Status /\ server'[d].status \in Status
  <2>1. server \in [Doc -> Documents] /\ server' \in [Doc -> Documents]
    BY DEF Shape, TypeOK
  <2> QED
    BY <2>1 DEF Documents
<1>2. Onward(d)
  BY StepOnward
<1> QED
  BY <1>1, <1>2, RankIs DEF Onward

LEMMA StepToldOf ==
  ASSUME Shape, Step
  PROVE  \/ told' = told
         \/ Reloaded
         \/ \E s \in Slot : Continued(s) /\ Tells(s)
BY DEF Step, Entered, Started, Begins, Refreshed, Left, Returned, MovedOn, Serving, Continued, Stops,
       Moves

(* The rank of the answer a handler has been given, or will be.            *)
Least(t) == IF t.pc = "post" THEN 2 ELSE 3

LEMMA StepHappened ==
  ASSUME Shape, Shape', Existing, Told, Step, NEW s \in Slot,
         task'[s].pc \in {"post", "reverse"}, task'[s].handled
  PROVE  Rank(server'[task'[s].doc].status) >= Least(task'[s])
<1> DEFINE t == task[s]
           u == task'[s]
<1>1. TaskOK(t) /\ TaskOK(u)
  BY DEF Shape
<1>2. ASSUME u.pc = t.pc, u.doc = t.doc, u.handled = t.handled
      PROVE  Rank(server'[u.doc].status) >= Least(u)
  <2>1. t.doc \in Doc
    BY <1>1, <1>2 DEF TaskOK
  <2>2. Rank(server[t.doc].status) >= Least(u) /\ Least(u) \in 0..3
    BY <1>2 DEF Told, Least
  <2>3. /\ Rank(server[t.doc].status) \in 0..3 /\ Rank(server'[t.doc].status) \in 0..3
        /\ Rank(server[t.doc].status) <= Rank(server'[t.doc].status)
    BY <2>1, StepRank
  <2> QED
    BY <1>2, <2>2, <2>3
<1>3. CASE Same(t, u)
  BY <1>2, <1>3 DEF Same
<1>4. CASE Same(NoTask, u)
  BY <1>4, NoTaskOK DEF Same
<1>5. CASE Cut(t, u)
  BY <1>2, <1>5, NoTaskOK DEF Cut
<1>6. ASSUME NEW op \in {"save", "post", "reverse"}, Begins(s, op)
      PROVE  FALSE
  BY <1>6 DEF Begins, StartedAt
<1>7. CASE Serving(s)
  <2>1. CASE Creates(s) \/ Updates(s)
    BY <2>1 DEF Creates, Updates, Turned
  <2>2. CASE Posts(s)
    <3>1. u.doc = t.doc /\ u.pc = "post" /\ server'[t.doc].status = "posted"
      BY <2>2 DEF Posts, Turned, SetDoc
    <3> QED
      BY <3>1, RankIs DEF Least
  <2>3. CASE Reverses(s)
    <3>1. u.doc = t.doc /\ u.pc = "reverse" /\ server'[t.doc].status = "reversed"
      BY <2>3 DEF Reverses, Turned, SetDoc
    <3> QED
      BY <3>1, RankIs DEF Least
  <2> QED
    BY <1>7, <2>1, <2>2, <2>3 DEF Serving, Served
<1>8. CASE Continued(s) /\ Moves(s)
  BY <1>8 DEF Moves, Turned
<1>9. CASE Continued(s) /\ Tells(s)
  BY <1>9 DEF Tells, Turned
<1> QED
  BY <1>3, <1>4, <1>5, <1>6, <1>7, <1>8, <1>9, StepFares DEF Fares

LEMMA StepTold ==
  ASSUME Shape, Shape', Existing, Told, ShowsOwnWork, Step
  PROVE  Told' /\ ShowsOwnWork'
<1>1. /\ cache \in [Doc -> Documents \cup {None}] /\ told \in [Doc -> Status]
      /\ \A s \in Slot : TaskOK(task[s])
  BY ShapeIs
<1>2. ASSUME NEW s \in Slot, Continued(s), Tells(s)
      PROVE  /\ task[s].doc \in Doc /\ server' = server /\ cache' = cache
             /\ stale' = stale \cup {task[s].doc}
             /\ \/ told' = told
                \/ /\ \A d \in Doc \ {task[s].doc} : told'[d] = told[d]
                   /\ Rank(told'[task[s].doc]) <= Rank(server[task[s].doc].status)
  <2> DEFINE t == task[s]
             st == IF t.pc = "post" THEN "posted" ELSE "reversed"
  <2>1. /\ server' = server /\ cache' = cache /\ stale' = stale \cup {t.doc}
        /\ t.pc \in {"post", "reverse"}
        /\ told' = told \/ (t.handled /\ told' = [told EXCEPT ![t.doc] = st])
    BY <1>2 DEF Continued, Tells
  <2>2. t.doc \in Doc
    BY <1>1, <2>1 DEF TaskOK
  <2>3. t.handled => Rank(st) <= Rank(server[t.doc].status)
    <3>1. Rank(st) = Least(t)
      BY <2>1, RankIs DEF Least
    <3>2. t.handled => Rank(server[t.doc].status) >= Least(t)
      BY <2>1 DEF Told, Least
    <3>3. Rank(server[t.doc].status) \in 0..3 /\ Least(t) \in 0..3
      BY <2>2, StatusesAre, RankIs DEF Least
    <3> QED
      BY <3>1, <3>2, <3>3
  <2> HIDE DEF st
  <2>4. told' = [told EXCEPT ![t.doc] = st] =>
          told'[t.doc] = st /\ \A d \in Doc \ {t.doc} : told'[d] = told[d]
    BY <1>1, <2>2
  <2> QED
    BY <2>1, <2>2, <2>3, <2>4
<1>3. ASSUME NEW d \in Doc
      PROVE  Rank(told'[d]) <= Rank(server'[d].status)
  <2>1. /\ Rank(server[d].status) \in 0..3 /\ Rank(server'[d].status) \in 0..3
        /\ Rank(server[d].status) <= Rank(server'[d].status) /\ Rank(told[d]) \in 0..3
    BY StepRank, StatusesAre, RankIs
  <2>2. Rank(told[d]) <= Rank(server[d].status)
    BY DEF Told
  <2>3. CASE told' = told
    BY <2>1, <2>2, <2>3
  <2>4. CASE Reloaded
    <3>1. Rank(told'[d]) = 0
      BY <2>4, RankIs DEF Reloaded
    <3> QED
      BY <2>1, <3>1
  <2>5. ASSUME NEW s \in Slot, Continued(s), Tells(s), told' # told
        PROVE  Rank(told'[d]) <= Rank(server'[d].status)
    <3>1. CASE d = task[s].doc
      BY <1>2, <2>5, <3>1
    <3>2. CASE d # task[s].doc
      BY <1>2, <2>2, <2>5, <3>2
    <3> QED
      BY <3>1, <3>2
  <2> QED
    BY <2>3, <2>4, <2>5, StepToldOf
<1>4. \A s \in Slot : task'[s].pc \in {"post", "reverse"} /\ task'[s].handled =>
        Rank(server'[task'[s].doc].status) >= IF task'[s].pc = "post" THEN 2 ELSE 3
  BY StepHappened DEF Least
<1>5. ASSUME NEW d \in Doc, cache'[d] # None, d \notin stale'
      PROVE  Rank(cache'[d].status) >= Rank(told'[d])
  <2>1. CASE Reloaded
    BY <1>5, <2>1 DEF Reloaded
  <2>2. CASE Refreshed
    <3>1. /\ told' = told /\ cache' = [cache EXCEPT ![page.doc] = server[page.doc]]
          /\ stale' = stale \ {page.doc}
      BY <2>2 DEF Refreshed
    <3>2. CASE d = page.doc
      <4>1. cache'[d] = server[d]
        BY <1>1, <3>1, <3>2
      <4>2. Rank(server[d].status) \in 0..3 /\ Rank(told[d]) \in 0..3
        BY StatusesAre, RankIs
      <4>3. Rank(told[d]) <= Rank(server[d].status)
        BY DEF Told
      <4> QED
        BY <3>1, <4>1, <4>2, <4>3
    <3>3. CASE d # page.doc
      <4>1. cache'[d] = cache[d] /\ d \notin stale
        BY <1>1, <1>5, <3>1, <3>3
      <4> QED
        BY <1>5, <3>1, <4>1 DEF ShowsOwnWork
    <3> QED
      BY <3>2, <3>3
  <2>3. CASE cache' = cache /\ stale \subseteq stale' /\ told' = told
    BY <1>5, <2>3 DEF ShowsOwnWork
  <2>4. ASSUME NEW s \in Slot, Continued(s), Tells(s), told' # told
        PROVE  Rank(cache'[d].status) >= Rank(told'[d])
    <3>1. cache' = cache /\ d \notin stale /\ d # task[s].doc /\ told'[d] = told[d]
      BY <1>2, <1>5, <2>4
    <3> QED
      BY <1>5, <3>1 DEF ShowsOwnWork
  <2> QED
    BY <2>1, <2>2, <2>3, <2>4, StepCache, StepToldOf
<1> QED
  BY <1>3, <1>4, <1>5 DEF Told, ShowsOwnWork, Rank

-----------------------------------------------------------------------------
(* Lines go round.                                                         *)

LEMMA StepKind ==
  ASSUME Step
  PROVE  kind' = kind
BY DEF Step, Entered, Started, Begins, Refreshed, Left, Returned, Reloaded, MovedOn, Serving, Continued

LEMMA StepRemoved ==
  ASSUME Step
  PROVE  removed \subseteq removed'
BY DEF Step, Entered, Started, Begins, Refreshed, Left, Returned, Reloaded, MovedOn, Serving, Continued

(* The lines of a document come from a handler, from the document that it  *)
(* reverses, or from another user's edit.                                  *)
StoredLines(d) ==
  \/ server'[d].lines = server[d].lines /\ (Stored(d)' => Stored(d))
  \/ \E s \in Slot : task[s].pc \in {"create", "put"} /\ server'[d].lines = task[s].lines
  \/ \E e \in Doc : Stored(e) /\ server'[d].lines = server[e].lines
  \/ Stored(d) /\ \E lines \in Lines : Rewrites(d, lines)

LEMMA StepStoredLines ==
  ASSUME Shape, Step
  PROVE  \A d \in Doc : StoredLines(d)
<1> SUFFICES ASSUME NEW d \in Doc PROVE StoredLines(d)
  OBVIOUS
<1>1. CASE server' = server
  BY <1>1 DEF StoredLines, Stored
<1>2. CASE MovedOn
  <2>1. PICK e \in Doc : RestDocs({e}) /\ (Advances(e) \/ \E lines \in Lines : Rewrites(e, lines))
    BY <1>2 DEF MovedOn
  <2>2. CASE d # e
    BY <2>1, <2>2 DEF RestDocs, StoredLines, Stored
  <2>3. CASE d = e /\ Advances(d)
    BY <2>3 DEF Advances, SetDoc, StoredLines, Stored
  <2>4. ASSUME d = e, NEW lines \in Lines, Rewrites(d, lines)
        PROVE  StoredLines(d)
    <3>1. Stored(d)
      BY <2>4 DEF Rewrites, Stored
    <3> QED
      BY <2>4, <3>1 DEF StoredLines
  <2> QED
    BY <2>1, <2>2, <2>3, <2>4
<1>3. ASSUME NEW s \in Slot, Served(s)
      PROVE  StoredLines(d)
  <2>1. server'[d] = server[d] => StoredLines(d)
    BY DEF StoredLines, Stored
  <2>2. CASE Creates(s)
    <3>1. PICK e \in Doc : SetDoc(e, "draft", task[s].lines) /\ RestDocs({e}) /\ task[s].pc = "create"
      BY <2>2 DEF Creates
    <3> QED
      BY <2>1, <3>1 DEF SetDoc, RestDocs, StoredLines
  <2>3. CASE Updates(s)
    <3>1. SetDoc(task[s].doc, "draft", task[s].lines) /\ RestDocs({task[s].doc}) /\ task[s].pc = "put"
      BY <2>3 DEF Updates
    <3> QED
      BY <2>1, <3>1 DEF SetDoc, RestDocs, StoredLines
  <2>4. CASE Posts(s)
    <3> DEFINE e == task[s].doc
    <3>1. SetDoc(e, "posted", server[e].lines) /\ RestDocs({e}) /\ server[e].status = "draft"
      BY <2>4 DEF Posts
    <3>2. CASE d = e
      BY <3>1, <3>2 DEF SetDoc, StoredLines, Stored
    <3> QED
      BY <2>1, <3>1, <3>2 DEF RestDocs
  <2>5. CASE Reverses(s)
    <3> DEFINE e == task[s].doc
    <3>1. PICK r \in Doc :
            /\ SetDoc(e, "reversed", server[e].lines) /\ SetDoc(r, "posted", server[e].lines)
            /\ RestDocs({e, r}) /\ server[e].status = "posted" /\ task[s].pc = "reverse"
      BY <2>5 DEF Reverses
    <3>2. e \in Doc
      BY <3>1, ShapeIs DEF TaskOK
    <3>3. CASE d \in {e, r}
      BY <3>1, <3>2, <3>3 DEF SetDoc, StoredLines, Stored
    <3> QED
      BY <2>1, <3>1, <3>3 DEF RestDocs
  <2> QED
    BY <1>3, <2>2, <2>3, <2>4, <2>5 DEF Served
<1> QED
  BY <1>1, <1>2, <1>3
  DEF Step, Entered, Started, Begins, Refreshed, Left, Returned, Reloaded, Serving, Continued

(* A handler's lines are those that were shown when it began.              *)
HeldLines(s) ==
  \/ task'[s].lines = NoLines /\ task'[s].pc \notin {"create", "put"}
  \/ /\ task'[s].lines = task[s].lines
     /\ task'[s].pc \in {"create", "put"} => task'[s].pc = task[s].pc
  \/ /\ View \in {"new", "draft"} /\ task'[s].lines = Shown
     /\ removed' = removed

LEMMA StepHeldLines ==
  ASSUME Shape, Step
  PROVE  \A s \in Slot : HeldLines(s)
<1> SUFFICES ASSUME NEW s \in Slot PROVE HeldLines(s)
  OBVIOUS
<1>1. NoTask.lines = NoLines /\ NoTask.pc = "end"
  BY DEF NoTask
<1>2. CASE Same(task[s], task'[s]) \/ Same(NoTask, task'[s])
  BY <1>1, <1>2 DEF Same, HeldLines
<1>3. CASE Cut(task[s], task'[s])
  BY <1>1, <1>3 DEF Cut, HeldLines
<1>4. ASSUME NEW op \in {"save", "post", "reverse"}, Begins(s, op)
      PROVE  HeldLines(s)
  BY <1>4 DEF Begins, StartedAt, HeldLines
<1>5. CASE Serving(s)
  BY <1>5 DEF Serving, Served, Creates, Updates, Posts, Reverses, Turned, HeldLines
<1>6. CASE Continued(s) /\ (Moves(s) \/ Tells(s))
  BY <1>6 DEF Moves, Tells, Turned, HeldLines
<1> QED
  BY <1>2, <1>3, <1>4, <1>5, <1>6, StepFares DEF Fares

(* A form's lines were entered, or come from the data at hand.             *)
FormLines ==
  \/ page'.form = None
  \/ page'.form = page.form
  \/ FormOK
  \/ \E d \in Doc : Stored(d) /\ page'.form = Hydrated(server[d].lines)
  \/ \E d \in Doc : cache[d] # None /\ page'.form = Hydrated(cache[d].lines)

LEMMA StepFormLines ==
  ASSUME Shape, Existing, Step
  PROVE  FormLines
<1>1. CASE Entered
  BY <1>1 DEF Entered, FormLines
<1>2. CASE Started \/ MovedOn
  BY <1>2 DEF Started, Begins, MovedOn, FormLines
<1>3. CASE Refreshed
  BY <1>3 DEF Refreshed, Existing, FormLines
<1>4. CASE Left
  BY <1>4, AwayOK DEF Left, FormLines
<1>5. CASE Reloaded
  BY <1>5 DEF Reloaded, FormLines
<1>6. ASSUME NEW d \in Doc, page' = Opened(d)
      PROVE  FormLines
  BY <1>6, OpenedOK DEF FormLines
<1>7. ASSUME NEW s \in Slot, Serving(s)
      PROVE  FormLines
  BY <1>7 DEF Serving, FormLines
<1>8. ASSUME NEW s \in Slot, Continued(s)
      PROVE  FormLines
  <2>1. CASE Stops(s)
    BY <1>6, <2>1 DEF Stops, Kept, Goes, FormLines
  <2>2. CASE Moves(s) \/ Tells(s)
    BY <2>2 DEF Moves, Tells, FormLines
  <2> QED
    BY <1>8, <2>1, <2>2 DEF Continued
<1> QED
  BY <1>1, <1>2, <1>3, <1>4, <1>5, <1>6, <1>7, <1>8 DEF Step, Returned

LEMMA StepCached ==
  ASSUME Shape, Existing, Step, NEW d \in Doc, cache'[d] # None
  PROVE  \/ cache[d] # None /\ cache'[d] = cache[d]
         \/ Stored(d) /\ cache'[d] = server[d]
<1>1. cache \in [Doc -> Documents \cup {None}]
  BY ShapeIs
<1>2. CASE Reloaded
  BY <1>2 DEF Reloaded
<1>3. CASE Refreshed
  BY <1>1, <1>3 DEF Refreshed, Existing
<1> QED
  BY <1>2, <1>3, StepCache

LEMMA StepLinks ==
  ASSUME Shape, Existing, LinksKept, Step
  PROVE  LinksKept'
<1> SUFFICES ASSUME kind = "gr", kind' = kind PROVE LinksKept'
  BY StepKind DEF LinksKept
<1>1. /\ kind \in Kinds /\ server \in [Doc -> Documents]
      /\ cache \in [Doc -> Documents \cup {None}]
  BY ShapeIs
<1>2. ASSUME NEW l \in Lines, Linked(l)
      PROVE  Linked(Hydrated(l))
  BY <1>1, <1>2, HydratedOK, KeepOK DEF Linked
<1>3. \A d \in Doc : Linked(server'[d].lines)
  BY StepStoredLines DEF StoredLines, LinksKept, Rewrites, SetDoc
<1>4. \A d \in Doc : cache'[d] # None => Linked(cache'[d].lines)
  BY StepCached DEF LinksKept
<1>5. page'.form # None => Linked(page'.form)
  <2>1. \A d \in Doc : server[d].lines \in Lines /\ (cache[d] # None => cache[d].lines \in Lines)
    BY <1>1 DEF Documents
  <2>2. page'.form # page.form /\ FormOK /\ page'.form # None => Linked(page'.form)
    BY DEF FormOK
  <2> QED
    BY <1>2, <2>1, <2>2, StepFormLines DEF FormLines, LinksKept
<1>6. \A s \in Slot : Linked(task'[s].lines)
  <2>1. Linked(NoLines)
    BY NoLinesOK DEF Linked
  <2>2. View \in {"new", "draft"} => Linked(Shown)
    BY ShownOK
  <2> QED
    BY <2>1, <2>2, StepHeldLines DEF HeldLines, LinksKept
<1> QED
  BY <1>3, <1>4, <1>5, <1>6 DEF LinksKept, Linked

LEMMA StepLines ==
  ASSUME Shape, Existing, LinesKept, Step
  PROVE  LinesKept'
<1> SUFFICES ASSUME kind = "ad", kind' = kind PROVE LinesKept'
  BY StepKind DEF LinesKept
<1> DEFINE Whole1(lines) == Saved \ DOMAIN lines \subseteq removed'
<1>0. \A l : Whole(l) => Whole1(l)
  BY StepRemoved DEF Whole
<1> HIDE DEF Whole1
<1>1. /\ kind \in Kinds /\ server \in [Doc -> Documents]
      /\ cache \in [Doc -> Documents \cup {None}]
  BY ShapeIs
<1>2. ASSUME NEW l \in Lines
      PROVE  Hydrated(l) = l
  BY <1>1, HydratedOK
<1>3. ASSUME NEW d \in Doc, Stored(d)'
      PROVE  Whole1(server'[d].lines)
  <2>1. \A e \in Doc : Stored(e) => Whole1(server[e].lines)
    BY <1>0 DEF LinesKept
  <2>2. \A s \in Slot : task[s].pc \in {"create", "put"} => Whole1(task[s].lines)
    BY <1>0 DEF LinesKept
  <2>3. ASSUME Stored(d), NEW lines \in Lines, Rewrites(d, lines)
        PROVE  Whole1(server'[d].lines)
    <3>1. /\ server'[d].lines = lines
          /\ (DOMAIN server[d].lines \ DOMAIN lines) \subseteq removed'
      BY <2>3 DEF Rewrites, SetDoc
    <3> QED
      BY <2>1, <2>3, <3>1 DEF Whole1
  <2> QED
    BY <1>3, <2>1, <2>2, <2>3, StepStoredLines DEF StoredLines
<1>4. \A d \in Doc : cache'[d] # None => Whole1(cache'[d].lines)
  BY <1>0, StepCached DEF LinesKept
<1>5. page'.form # None => Whole1(page'.form)
  <2>1. \A d \in Doc : server[d].lines \in Lines /\ (cache[d] # None => cache[d].lines \in Lines)
    BY <1>1 DEF Documents
  <2>2. page'.form # page.form /\ FormOK /\ page'.form # None => Whole1(page'.form)
    BY DEF FormOK, Whole1
  <2> QED
    BY <1>0, <1>2, <2>1, <2>2, StepFormLines DEF FormLines, LinesKept
<1>6. \A s \in Slot : task'[s].pc \in {"create", "put"} => Whole1(task'[s].lines)
  <2>1. View \in {"new", "draft"} => Whole(Shown)
    BY ShownOK
  <2> QED
    BY <1>0, <2>1, StepHeldLines DEF HeldLines, LinesKept
<1>7. page'.at = "new" => Saved \subseteq removed'
  <2>1. page'.at = "new" => page.at = "new"
    BY StepPage, AwayOK, OpenedOK DEF Opening
  <2> QED
    BY <2>1, StepRemoved DEF LinesKept
<1> QED
  BY <1>3, <1>4, <1>5, <1>6, <1>7 DEF LinesKept, Whole, Whole1

-----------------------------------------------------------------------------
(* As long as nothing gets lost.                                           *)

LEMMA StepFollowed ==
  ASSUME Shape, Step
  PROVE  Followed
<1>1. CASE Entered \/ Refreshed \/ Left \/ Reloaded
  BY <1>1 DEF Entered, Refreshed, Left, Reloaded
<1>2. CASE Returned \/ MovedOn
  BY <1>2 DEF Returned, MovedOn, Followed
<1>3. CASE Started
  BY <1>3 DEF Started, Begins, StartedAt, Followed
<1>4. ASSUME NEW s \in Slot, Serving(s)
      PROVE  Followed
  BY <1>4 DEF Serving, Served, Creates, Updates, Posts, Reverses, Turned, Followed
<1>5. ASSUME NEW s \in Slot, Continued(s)
      PROVE  Followed
  BY <1>5 DEF Continued
<1> QED
  BY <1>1, <1>2, <1>3, <1>4, <1>5 DEF Step

LEMMA StaysNew ==
  ASSUME Shape, Step, page'.at = "new"
  PROVE  page.at = "new"
BY StepPage, AwayOK, OpenedOK DEF Opening

LEMMA StepMounted ==
  ASSUME Shape, Attached, Followed, ~adrift', Step, NEW s \in Slot, task'[s].op # "idle"
  PROVE  /\ task'[s].mounted
         /\ task[s].op # "idle" \/ \E op \in {"save", "post", "reverse"} : Begins(s, op)
<1> DEFINE t == task[s]
           u == task'[s]
<1>1. t.op # "idle" => t.mounted
  BY DEF Attached, Belongs
<1>2. t.mounted => u.mounted
  BY DEF Followed
<1>3. CASE Same(t, u)
  BY <1>1, <1>2, <1>3 DEF Same
<1>4. CASE Same(NoTask, u)
  BY <1>4, NoTaskOK DEF Same
<1>5. CASE Cut(t, u)
  BY <1>1, <1>2, <1>5, NoTaskOK DEF Cut
<1>6. ASSUME NEW op \in {"save", "post", "reverse"}, Begins(s, op)
      PROVE  u.mounted
  BY <1>6 DEF Begins, StartedAt
<1>7. CASE Serving(s) \/ Continued(s)
  BY <1>1, <1>2, <1>7 DEF Serving, Served, Continued
<1> QED
  BY <1>3, <1>4, <1>5, <1>6, <1>7, StepFares DEF Fares

LEMMA StepAttached ==
  ASSUME Shape, Existing, Attached, Followed, ~adrift', Step
  PROVE  Attached'
<1> SUFFICES ASSUME NEW s \in Slot, task'[s].op # "idle"
             PROVE  /\ task'[s].mounted
                    /\ page'.at = "new" =>
                         \/ task'[s].pc = "create" /\ (task'[s].handled \/ task'[s].doc = None)
                         \/ task'[s].first
                    /\ page'.at = "record" =>
                         task'[s].doc = page'.doc /\ task'[s].pc # "create" /\ ~task'[s].first
                    /\ page'.at # "away"
  BY DEF Attached, Belongs
<1> DEFINE t == task[s]
           u == task'[s]
<1>1. u.mounted /\ (t.op # "idle" \/ \E op \in {"save", "post", "reverse"} : Begins(s, op))
  BY StepMounted
<1>2. TaskOK(t) /\ PageOK(page) /\ page.at \in {"new", "record", "away"}
  BY ShapeIs DEF Views
<1>3. page'.at = page.at /\ page'.doc = page.doc /\ page.at # "away"
  <2>1. page.at # "away"
    <3>1. t.op # "idle" => page.at # "away"
      BY DEF Attached, Belongs
    <3>2. ASSUME NEW op \in {"save", "post", "reverse"}, Begins(s, op)
          PROVE  page.at # "away"
      BY <3>2, ViewIs DEF Begins
    <3> QED
      BY <1>1, <3>1, <3>2
  <2> QED
    BY <1>1, <2>1, StepPage DEF Opening
<1>4. t.op # "idle" =>
        /\ page.at = "new" => (t.pc = "create" /\ (t.handled \/ t.doc = None)) \/ t.first
        /\ page.at = "record" => t.doc = page.doc /\ t.pc # "create" /\ ~t.first
  BY DEF Attached, Belongs
<1> DEFINE Good == /\ page.at = "new" => (u.pc = "create" /\ (u.handled \/ u.doc = None)) \/ u.first
                   /\ page.at = "record" => u.doc = page.doc /\ u.pc # "create" /\ ~u.first
<1>5. ASSUME Same(t, u) PROVE Good
  BY <1>4, <1>5 DEF Same
<1>6. ASSUME Same(NoTask, u) PROVE Good
  BY <1>6, NoTaskOK DEF Same
<1>7. ASSUME Cut(t, u) PROVE Good
  BY <1>1, <1>7, NoTaskOK DEF Cut
<1>8. ASSUME NEW op \in {"save", "post", "reverse"}, Begins(s, op)
      PROVE  Good
  <2>1. /\ u.doc = page.doc /\ ~u.first /\ View \in {"new", "draft", "posted"}
        /\ op = "reverse" => View = "posted"
        /\ u.pc = IF op = "reverse" THEN "reverse" ELSE IF View = "new" THEN "create" ELSE "put"
    BY <1>8 DEF Begins, StartedAt
  <2> HIDE DEF u
  <2> QED
    BY <1>2, <2>1, ViewIs DEF PageOK
<1>9. ASSUME Serving(s) PROVE Good
  <2>1. t.op # "idle" /\ u.first = t.first
    BY <1>9 DEF Serving, Served, Creates, Updates, Posts, Reverses, Turned
  <2>2. CASE Creates(s)
    <3>1. t.pc = "create" /\ u.pc = "create" /\ u.handled
      BY <2>2 DEF Creates, Turned
    <3> QED
      BY <1>4, <2>1, <3>1
  <2>3. CASE Updates(s) \/ Posts(s) \/ Reverses(s)
    <3>1. t.pc # "create" /\ u.pc = t.pc /\ u.doc = t.doc
      BY <2>3 DEF Updates, Posts, Reverses, Turned
    <3> QED
      BY <1>4, <2>1, <3>1
  <2> QED
    BY <1>9, <2>2, <2>3 DEF Serving, Served
<1>10. ASSUME Continued(s) /\ Moves(s) PROVE Good
  <2>1. t.op # "idle" /\ u.doc = t.doc /\ u.pc # "create"
    BY <1>10 DEF Continued, Moves, Turned
  <2>2. CASE t.pc = "create"
    <3>1. u.first
      BY <1>10, <2>2 DEF Moves, Turned
    <3> QED
      BY <1>4, <2>1, <2>2, <3>1
  <2>3. CASE t.pc # "create"
    <3>1. u.first = t.first /\ t.pc \in {"put", "saved"}
      BY <1>10, <2>3 DEF Moves, Turned
    <3>2. ~t.first
      BY <1>2, <3>1 DEF TaskOK
    <3> QED
      BY <1>4, <2>1, <2>3, <3>1, <3>2
  <2> QED
    BY <2>2, <2>3
<1>11. ASSUME Continued(s) /\ Tells(s) PROVE Good
  <2>1. /\ t.op # "idle" /\ u.doc = t.doc /\ u.pc = "done" /\ ~u.first
        /\ ~t.first /\ t.pc \in {"post", "reverse"}
    BY <1>11 DEF Continued, Tells, Turned
  <2> QED
    BY <1>4, <2>1
<1>12. Good
  BY <1>5, <1>6, <1>7, <1>8, <1>9, <1>10, <1>11, StepFares DEF Fares
<1> QED
  BY <1>1, <1>3, <1>12

LEMMA StepOp ==
  ASSUME Shape, Step, NEW s \in Slot, task'[s].op \in {"save", "post"}
  PROVE  \/ task[s].op = task'[s].op
         \/ Begins(s, task'[s].op) /\ \A o \in Slot \ {s} : task'[o] = task[o]
<1> DEFINE t == task[s]
           u == task'[s]
<1>1. CASE Same(t, u)
  BY <1>1 DEF Same
<1>2. CASE Same(NoTask, u)
  BY <1>2, NoTaskOK DEF Same
<1>3. CASE Cut(t, u)
  BY <1>3, NoTaskOK DEF Cut
<1>4. ASSUME NEW op \in {"save", "post", "reverse"}, Begins(s, op)
      PROVE  Begins(s, u.op) /\ \A o \in Slot \ {s} : task'[o] = task[o]
  <2>1. u.op = op /\ \A o \in Slot \ {s} : task'[o] = task[o]
    BY <1>4 DEF Begins, StartedAt
  <2> HIDE DEF u
  <2> QED
    BY <1>4, <2>1
<1>5. CASE Serving(s)
  BY <1>5 DEF Serving, Served, Creates, Updates, Posts, Reverses, Turned
<1>6. CASE Continued(s) /\ (Moves(s) \/ Tells(s))
  BY <1>6 DEF Moves, Tells, Turned
<1> QED
  BY <1>1, <1>2, <1>3, <1>4, <1>5, <1>6, StepFares DEF Fares

LEMMA StepDialog ==
  ASSUME Shape, Step, page'.dialog = "post"
  PROVE  \/ page.dialog = "post"
         \/ Entered /\ ~Running(Controls.postOff)
<1>1. CASE Entered
  BY <1>1 DEF Entered, DialogOK
<1>2. CASE Started \/ Refreshed \/ Reloaded \/ MovedOn
  BY <1>2 DEF Started, Begins, Refreshed, Reloaded, MovedOn
<1>3. CASE Left
  BY <1>3, AwayOK DEF Left
<1>4. ASSUME NEW d \in Doc, page' = Opened(d)
      PROVE  FALSE
  BY <1>4, OpenedOK
<1>5. ASSUME NEW s \in Slot, Serving(s)
      PROVE  page.dialog = "post"
  BY <1>5 DEF Serving
<1>6. ASSUME NEW s \in Slot, Continued(s)
      PROVE  page.dialog = "post"
  BY <1>4, <1>6 DEF Continued, Stops, Moves, Tells, Kept, Goes
<1> QED
  BY <1>1, <1>2, <1>3, <1>4, <1>5, <1>6 DEF Step, Returned

LEMMA StepOneAtATime ==
  ASSUME Shape, Attached, OneAtATime, Followed, ~adrift', Step
  PROVE  OneAtATime'
<1> SUFFICES ASSUME Transferring, kind' = kind PROVE OneAtATime'
  BY StepKind DEF OneAtATime, Transferring
<1>1. ASSUME NEW s \in Slot, NEW ops, task[s].op \in ops, task[s].op # "idle"
      PROVE  Running(ops)
  BY <1>1 DEF Running, Attached, Belongs
<1>2. ASSUME NEW s \in Slot, NEW o \in Slot, s # o,
             task'[s].op \in {"save", "post"}, Begins(s, task'[s].op),
             task[o].op \in {"save", "post"}
      PROVE  FALSE
  <2>1. CASE task'[s].op = "save"
    <3>1. ~Running(Controls.saveOff)
      BY <1>2, <2>1 DEF Begins
    <3>2. task[o].op \in Controls.saveOff
      BY <1>2, TransferringPages
    <3> QED
      BY <1>1, <1>2, <3>1, <3>2
  <2>2. CASE task'[s].op = "post"
    <3>1. ~Running(Controls.pending) /\ page.dialog = "post"
      BY <1>2, <2>2 DEF Begins
    <3>2. task[o].op = "post"
      BY <1>2, <3>1 DEF OneAtATime
    <3>3. task[o].op \in Controls.pending
      BY <3>2, TransferringPages
    <3> QED
      BY <1>1, <1>2, <3>1, <3>3
  <2> QED
    BY <1>2, <2>1, <2>2
<1>3. ASSUME NEW s \in Slot, NEW o \in Slot,
             task'[s].op \in {"save", "post"}, task'[o].op \in {"save", "post"}
      PROVE  s = o
  <2> SUFFICES ASSUME s # o PROVE FALSE
    OBVIOUS
  <2>1. CASE task[s].op = task'[s].op /\ task[o].op = task'[o].op
    BY <1>3, <2>1 DEF OneAtATime
  <2>2. CASE Begins(s, task'[s].op) /\ \A q \in Slot \ {s} : task'[q] = task[q]
    BY <1>2, <1>3, <2>2
  <2>3. CASE Begins(o, task'[o].op) /\ \A q \in Slot \ {o} : task'[q] = task[q]
    BY <1>2, <1>3, <2>3
  <2> QED
    BY <1>3, <2>1, <2>2, <2>3, StepOp
<1>4. ASSUME page'.dialog = "post", NEW s \in Slot, task'[s].op = "save"
      PROVE  FALSE
  <2>1. CASE task[s].op = "save"
    <3>1. page.dialog # "post"
      BY <2>1 DEF OneAtATime
    <3>2. ~Running(Controls.postOff)
      BY <1>4, <3>1, StepDialog
    <3>3. "save" \in Controls.postOff
      BY TransferringPages
    <3> QED
      BY <1>1, <2>1, <3>2, <3>3
  <2>2. CASE Begins(s, "save")
    BY <1>4, <2>2 DEF Begins
  <2> QED
    BY <1>4, <2>1, <2>2, StepOp
<1> QED
  BY <1>3, <1>4 DEF OneAtATime

(* Where the lines of a draft come from.                                   *)
LEMMA StepDraft ==
  ASSUME Shape, Step, NEW d \in Doc, server'[d].status = "draft"
  PROVE  \/ server[d].status = "draft" /\ server'[d].lines = server[d].lines
         \/ \E o \in Slot : Serving(o) /\ Creates(o) /\ ~Stored(d) /\ task'[o].doc = d
                            /\ server'[d].lines = task[o].lines
         \/ \E o \in Slot : Serving(o) /\ Updates(o) /\ task[o].doc = d
                            /\ server'[d].lines = task[o].lines
         \/ \A o \in Slot : Prepared(o, d) => task'[o].met
<1>1. CASE server' = server
  BY <1>1
<1>2. CASE MovedOn
  <2>1. PICK e \in Doc : RestDocs({e}) /\ (Advances(e) \/ \E lines \in Lines : Rewrites(e, lines))
    BY <1>2 DEF MovedOn
  <2>2. CASE d # e
    BY <2>1, <2>2 DEF RestDocs
  <2>3. CASE d = e
    BY <2>1, <2>3 DEF Advances, Rewrites, SetDoc
  <2> QED
    BY <2>2, <2>3
<1>3. ASSUME NEW s \in Slot, Serving(s)
      PROVE  \/ server[d].status = "draft" /\ server'[d].lines = server[d].lines
             \/ /\ Creates(s) /\ ~Stored(d) /\ task'[s].doc = d
                /\ server'[d].lines = task[s].lines
             \/ Updates(s) /\ task[s].doc = d /\ server'[d].lines = task[s].lines
  <2>1. server'[d] = server[d] => server[d].status = "draft" /\ server'[d].lines = server[d].lines
    OBVIOUS
  <2>2. CASE Creates(s)
    <3>1. PICK e \in Doc :
            /\ server[e].status = "none" /\ SetDoc(e, "draft", task[s].lines) /\ RestDocs({e})
            /\ Turned(s, "create", e, TRUE, task[s].first)
      BY <2>2 DEF Creates
    <3>2. CASE d = e
      BY <2>2, <3>1, <3>2 DEF SetDoc, Turned, Stored
    <3> QED
      BY <2>1, <3>1, <3>2 DEF RestDocs
  <2>3. CASE Updates(s)
    BY <2>1, <2>3 DEF Updates, SetDoc, RestDocs
  <2>4. CASE Posts(s)
    BY <2>1, <2>4 DEF Posts, SetDoc, RestDocs
  <2>5. CASE Reverses(s)
    <3>1. PICK r \in Doc :
            /\ server'[task[s].doc].status = "reversed" /\ server'[r].status = "posted"
            /\ RestDocs({task[s].doc, r})
      BY <2>5 DEF Reverses, SetDoc
    <3> QED
      BY <2>1, <3>1 DEF RestDocs
  <2> QED
    BY <1>3, <2>2, <2>3, <2>4, <2>5 DEF Serving, Served
<1> QED
  BY <1>1, <1>2, <1>3
  DEF Step, Entered, Started, Begins, Refreshed, Left, Returned, Reloaded, Continued

(* Nobody else saves a document that a handler wrote and is to post.       *)
LEMMA WroteAlone ==
  ASSUME Shape, Existing, Attached, OneAtATime, NEW s \in Slot, NEW o \in Slot,
         Wrote(task[s]), Updates(o), task[o].op # "idle", task[o].doc = task[s].doc
  PROVE  s = o
<1>1. TaskOK(task[s]) /\ TaskOK(task[o]) /\ page.at \in {"new", "record", "away"}
      /\ task[s] \in Tasks /\ task[o] \in Tasks
  BY ShapeIs DEF Views
<1>2. task[s].op # "idle" /\ task[o].pc = "put"
  BY <1>1 DEF Wrote, TaskOK, Updates
<1>3. Belongs(task[s]) /\ Belongs(task[o])
  BY <1>2 DEF Attached
<1>4. page.at = "record"
  BY <1>1, <1>2, <1>3 DEF Belongs, TaskOK
<1>5. Transferring /\ task[s].pc \in {"put", "saved", "post"}
  BY <1>3, <1>4 DEF Belongs, Wrote
<1>6. task[s].op \in {"save", "post"} /\ task[o].op \in {"save", "post"}
  BY <1>1, <1>2, <1>3, <1>5 DEF Belongs, TaskOK, Tasks
<1> QED
  BY <1>5, <1>6 DEF OneAtATime

LEMMA StepConfirmed ==
  ASSUME Shape, Existing, Attached, OneAtATime, Confirmed, Followed, ~adrift', Step
  PROVE  Confirmed'
<1> SUFFICES ASSUME NEW s \in Slot, Wrote(task'[s]), ~task'[s].met,
                    server'[task'[s].doc].status = "draft"
             PROVE  server'[task'[s].doc].lines = task'[s].lines
  BY StepKind DEF Confirmed, Wrote, Transferring
<1> DEFINE t == task[s]
           u == task'[s]
           Good == server'[u.doc].lines = u.lines
<1>1. TaskOK(t) /\ \A o \in Slot : Serving(o) => task[o].op # "idle"
  BY ShapeIs DEF Serving, Served
<1>2. Wrote(t) => t.doc \in Doc /\ Stored(t.doc)
  BY <1>1 DEF Wrote, TaskOK, Existing, Naming
<1>3. ASSUME Wrote(t), ~t.met, u.doc = t.doc, u.lines = t.lines, ~(Serving(s) /\ Updates(s))
      PROVE  Good
  <2>1. \A o \in Slot : Serving(o) /\ Updates(o) => task[o].doc # t.doc
    BY <1>1, <1>3, WroteAlone
  <2>0. Prepared(s, t.doc)
    BY <1>3 DEF Wrote, Prepared
  <2>2. server[t.doc].status = "draft" /\ server'[t.doc].lines = server[t.doc].lines
    BY <1>2, <1>3, <2>0, <2>1, StepDraft
  <2> QED
    BY <1>3, <2>2 DEF Confirmed
<1>4. ASSUME Same(t, u) PROVE Good
  <2>1. Wrote(t) /\ ~t.met /\ u.doc = t.doc /\ u.lines = t.lines /\ u.handled = t.handled
    BY <1>4 DEF Same, Wrote
  <2>2. ~Updates(s)
    BY <2>1 DEF Updates, Turned
  <2> QED
    BY <1>3, <2>1, <2>2
<1>5. ASSUME Same(NoTask, u) PROVE Good
  BY <1>5, NoTaskOK DEF Same, Wrote
<1>6. ASSUME Cut(t, u) PROVE Good
  <2>1. u.op # "idle" => u.mounted
    BY StepMounted
  <2> QED
    BY <1>6, <2>1, NoTaskOK DEF Cut, Wrote
<1>7. ASSUME NEW op \in {"save", "post", "reverse"}, Begins(s, op) PROVE Good
  BY <1>7 DEF Begins, StartedAt, Wrote
<1>8. ASSUME Serving(s) PROVE Good
  <2>1. u.lines = t.lines
    BY <1>8 DEF Serving, Served
  <2>2. CASE Creates(s) \/ Updates(s)
    BY <2>1, <2>2 DEF Creates, Updates, Turned, SetDoc
  <2>3. CASE Posts(s)
    BY <2>3 DEF Posts, Turned, SetDoc
  <2>4. CASE Reverses(s)
    BY <2>4 DEF Reverses, Turned, Wrote
  <2> QED
    BY <1>8, <2>2, <2>3, <2>4 DEF Serving, Served
<1>9. ASSUME Continued(s), Moves(s) PROVE Good
  <2>1. server' = server /\ u.doc = t.doc /\ u.lines = t.lines /\ ~t.met
    BY <1>9 DEF Continued, Moves, Turned
  <2>2. Wrote(t)
    <3>1. Transferring => DraftPage.checks
      BY TransferringPages
    <3>2. t.first => t.pc = "post"
      BY <1>1 DEF TaskOK
    <3> QED
      BY <1>9, <3>1, <3>2 DEF Moves, Turned, Wrote
  <2> QED
    BY <2>1, <2>2 DEF Confirmed
<1>10. ASSUME Continued(s), Tells(s) PROVE Good
  BY <1>10 DEF Tells, Turned, Wrote
<1> QED
  BY <1>4, <1>5, <1>6, <1>7, <1>8, <1>9, <1>10, StepFares DEF Fares

(* A new document is created or reverses another.                          *)
LEMMA StepNewDocument ==
  ASSUME Shape, Step, NEW d \in Doc, ~Stored(d), server'[d].status # "none"
  PROVE  \E o \in Slot : Serving(o) /\ ((Creates(o) /\ task'[o].doc = d) \/ Reverses(o))
<1>1. CASE server' = server
  BY <1>1 DEF Stored
<1>2. CASE MovedOn
  BY <1>2 DEF MovedOn, Advances, Rewrites, SetDoc, RestDocs, Stored
<1>3. ASSUME NEW s \in Slot, Serving(s)
      PROVE  (Creates(s) /\ task'[s].doc = d) \/ Reverses(s)
  <2>1. CASE Creates(s)
    BY <2>1 DEF Creates, SetDoc, RestDocs, Turned, Stored
  <2>2. CASE Updates(s) \/ Posts(s)
    BY <2>2 DEF Updates, Posts, SetDoc, RestDocs, Stored
  <2> QED
    BY <1>3, <2>1, <2>2 DEF Serving, Served
<1> QED
  BY <1>1, <1>2, <1>3
  DEF Step, Entered, Started, Begins, Refreshed, Left, Returned, Reloaded, Continued

LEMMA StepOneDocument ==
  ASSUME Shape, Existing, Attached, OneDocument, Followed, ~adrift', Step
  PROVE  OneDocument'
<1> SUFFICES ASSUME Transferring, page'.at = "new", NEW d \in Doc, server'[d].status # "none"
             PROVE  \E s \in Slot : task'[s].op # "idle" /\ task'[s].doc = d
  BY StepKind DEF OneDocument, Transferring, Stored
<1>1. page.at = "new"
  BY StaysNew
<1>2. ASSUME NEW s \in Slot, task[s].op # "idle"
      PROVE  /\ TaskOK(task[s]) /\ task[s].mounted
             /\ \/ task[s].pc = "create" /\ (task[s].handled \/ task[s].doc = None)
                \/ task[s].first
  BY <1>1, <1>2, ShapeIs DEF Attached, Belongs
<1>3. CASE ~Stored(d)
  <2>1. PICK o \in Slot : Serving(o) /\ ((Creates(o) /\ task'[o].doc = d) \/ Reverses(o))
    BY <1>3, StepNewDocument
  <2>2. task[o].op # "idle"
    BY <2>1 DEF Serving, Served
  <2>3. ~Reverses(o)
    BY <1>2, <2>2 DEF Reverses, TaskOK
  <2>4. task'[o].op = task[o].op
    BY <2>1, <2>3 DEF Creates, Turned
  <2> QED
    BY <2>1, <2>2, <2>3, <2>4
<1>4. CASE Stored(d)
  <2>1. PICK s \in Slot : task[s].op # "idle" /\ task[s].doc = d
    BY <1>1, <1>4 DEF OneDocument
  <2> DEFINE t == task[s]
             u == task'[s]
             Good == u.op # "idle" /\ u.doc = d
  <2>2. /\ TaskOK(t) /\ t.mounted /\ t.doc # None
        /\ (t.pc = "create" /\ t.handled) \/ t.first
    BY <1>2, <2>1, DocAssumption
  <2>3. ASSUME Same(t, u) PROVE Good
    BY <2>1, <2>3 DEF Same
  <2>4. ~Stops(s)
    BY <2>2 DEF Stops
  <2>5. ASSUME Cut(t, u) PROVE Good
    BY <2>1, <2>5 DEF Cut
  <2>6. ASSUME NEW op \in {"save", "post", "reverse"}, Begins(s, op) PROVE Good
    BY <2>1, <2>6 DEF Begins, StartedAt
  <2>7. ASSUME Serving(s) PROVE Good
    <3>1. ~Creates(s)
      BY <2>2 DEF Creates, TaskOK
    <3> QED
      BY <2>1, <2>7, <3>1 DEF Serving, Served, Updates, Posts, Reverses, Turned
  <2>8. ASSUME Continued(s), Moves(s) \/ Tells(s) PROVE Good
    BY <2>1, <2>8 DEF Moves, Tells, Turned
  <2>9. Good
    BY <2>3, <2>4, <2>5, <2>6, <2>7, <2>8, StepFares DEF Fares
  <2> QED
    BY <2>9
<1> QED
  BY <1>3, <1>4

LEMMA StepSteady ==
  ASSUME Shape, Existing, Steady, Step
  PROVE  Steady'
<1> SUFFICES ASSUME ~adrift'
             PROVE  Attached' /\ OneAtATime' /\ Confirmed' /\ OneDocument'
  BY DEF Steady
<1>1. Followed /\ Attached /\ OneAtATime /\ Confirmed /\ OneDocument
  BY StepFollowed DEF Followed, Steady
<1> QED
  BY <1>1, StepAttached, StepOneAtATime, StepConfirmed, StepOneDocument

-----------------------------------------------------------------------------
(* The invariant holds at first, is kept, and says what is promised.       *)

LEMMA InitShape ==
  ASSUME Init
  PROVE  /\ Shape
         /\ page.form = None /\ page.dialog = "closed"
         /\ \/ page.at = "new" /\ removed = Saved /\ \A d \in Doc : server[d] = NoDoc
            \/ /\ page.at = "record"
               /\ \A d \in Doc \ {page.doc} : server[d] = NoDoc
               /\ server[page.doc].status = "draft"
               /\ DOMAIN server[page.doc].lines = Saved
               /\ kind = "gr" => Linked(server[page.doc].lines)
<1>1. /\ kind \in Kinds /\ listed = FALSE /\ adrift = FALSE /\ acts = 0
      /\ cache = [d \in Doc |-> None] /\ task = [s \in Slot |-> NoTask]
      /\ told = [d \in Doc |-> "none"]
  BY DEF Init
<1>2. acts \in 0..MaxActs
  BY <1>1, ActsAssumption
<1>3. task \in [Slot -> Tasks] /\ \A s \in Slot : TaskOK(task[s])
  BY <1>1, NoTaskOK
<1>4. told \in [Doc -> Status] /\ cache \in [Doc -> Documents \cup {None}]
  BY <1>1 DEF Status
<1>5. NoDoc \in Documents
  BY NoLinesOK, DocumentOK DEF NoDoc, Status
<1>6. ASSUME server \in [Doc -> Documents], page \in Views(Fields), PageOK(page), stale \subseteq Doc,
             removed \subseteq Product
      PROVE  Shape
  BY <1>1, <1>2, <1>3, <1>4, <1>6, ShapeIs
<1>7. CASE /\ page \in {Blank("none"), Blank("asked")}
           /\ server = [d \in Doc |-> NoDoc] /\ removed = Saved /\ stale = {}
  <2>1. /\ page \in Views(Fields) /\ PageOK(page) /\ page.at = "new" /\ page.form = None
        /\ page.dialog = "closed"
    BY <1>7, BlankOK
  <2> QED
    BY <1>5, <1>6, <1>7, <2>1, ProductsAssumption
<1>8. ASSUME NEW d \in Doc,
             server = [e \in Doc |-> IF e # d THEN NoDoc ELSE
                         [status |-> "draft",
                          lines |-> [p \in Saved |-> Line(1, kind \in {"gr", "dl"})]]],
             page = [Away EXCEPT !.at = "record", !.doc = d, !.filled = Fields],
             removed = {}, stale = {d}
      PROVE  /\ Shape
             /\ page.form = None /\ page.dialog = "closed" /\ page.at = "record"
             /\ \A e \in Doc \ {page.doc} : server[e] = NoDoc
             /\ server[page.doc].status = "draft"
             /\ DOMAIN server[page.doc].lines = Saved
             /\ kind = "gr" => Linked(server[page.doc].lines)
  <2> DEFINE cell == Line(1, kind \in {"gr", "dl"})
             lines == [p \in Saved |-> cell]
             doc == [status |-> "draft", lines |-> lines]
  <2>1. cell \in Cell /\ (kind = "gr" => cell.link)
    <3> DEFINE linked == kind \in {"gr", "dl"}
    <3>1. linked \in BOOLEAN /\ (kind = "gr" => linked)
      OBVIOUS
    <3> HIDE DEF linked
    <3>2. Line(1, linked) \in Cell /\ Line(1, linked).link = linked
      BY <3>1 DEF Line, Cell
    <3>3. cell = Line(1, linked)
      BY DEF linked
    <3> HIDE DEF cell
    <3> QED
      BY <3>1, <3>2, <3>3
  <2> HIDE DEF cell
  <2>2. /\ lines \in [Saved -> Cell] /\ DOMAIN lines = Saved
        /\ \A p \in Saved : lines[p] = cell
    BY <2>1
  <2> HIDE DEF lines
  <2>3. lines \in Lines /\ (kind = "gr" => Linked(lines))
    BY <2>1, <2>2, LinesAre, ProductsAssumption DEF Linked
  <2>4. doc \in Documents /\ doc.status = "draft" /\ doc.lines = lines
    BY <2>3, DocumentOK DEF Status
  <2>5. server = [e \in Doc |-> IF e # d THEN NoDoc ELSE doc]
    BY <1>8 DEF doc, lines, cell
  <2> HIDE DEF doc
  <2>6. server \in [Doc -> Documents] /\ server[d] = doc /\ \A e \in Doc \ {d} : server[e] = NoDoc
    BY <1>5, <2>4, <2>5
  <2>7. /\ page \in Views(Fields) /\ page.at = "record" /\ page.doc = d /\ page.form = None
        /\ page.dialog = "closed"
    BY <1>8, AwayOK DEF Views
  <2>8. PageOK(page)
    BY <2>7 DEF PageOK
  <2> QED
    BY <1>6, <1>8, <2>2, <2>3, <2>4, <2>6, <2>7, <2>8
<1> QED
  BY <1>7, <1>8 DEF Init

LEMMA InitInv ==
  ASSUME Init
  PROVE  PagesInv
<1>1. /\ Shape /\ page.form = None /\ page.dialog = "closed"
      /\ cache = [d \in Doc |-> None] /\ task = [s \in Slot |-> NoTask]
      /\ told = [d \in Doc |-> "none"]
  BY InitShape DEF Init
<1>2. /\ \A d \in Doc : cache[d] = None /\ told[d] = "none"
      /\ \A s \in Slot : task[s] = NoTask
  BY <1>1
<1>3. /\ NoTask.op = "idle" /\ NoTask.pc = "end" /\ ~NoTask.handled /\ ~NoTask.first
      /\ NoTask.lines = NoLines
  BY DEF NoTask
<1>4. NoDoc.status = "none" /\ NoDoc.lines = NoLines
  BY DEF NoDoc
<1>5. \/ page.at = "new" /\ removed = Saved /\ \A d \in Doc : server[d] = NoDoc
      \/ /\ page.at = "record" /\ page.doc \in Doc
         /\ \A d \in Doc \ {page.doc} : server[d] = NoDoc
         /\ server[page.doc].status = "draft"
         /\ DOMAIN server[page.doc].lines = Saved
         /\ kind = "gr" => Linked(server[page.doc].lines)
  BY InitShape, ShapeIs DEF PageOK
<1>6. Existing
  BY <1>2, <1>3, <1>5 DEF Existing, Stored, Naming
<1>7. Told /\ ShowsOwnWork
  <2>1. \A d \in Doc : Rank(server[d].status) \in 0..3 /\ Rank(told[d]) = 0
    BY <1>1, <1>2, StatusesAre, RankIs
  <2>2. \A d \in Doc : Rank(told[d]) <= Rank(server[d].status)
    BY <2>1
  <2>3. \A s \in Slot : task[s].pc = "end"
    BY <1>2, <1>3
  <2> QED
    BY <1>2, <2>2, <2>3 DEF Told, ShowsOwnWork
<1>8. Linked(NoLines)
  BY NoLinesOK DEF Linked
<1>9. LinksKept
  BY <1>1, <1>2, <1>3, <1>4, <1>5, <1>8 DEF LinksKept
<1>10. LinesKept
  BY <1>1, <1>2, <1>3, <1>4, <1>5 DEF LinesKept, Whole, Stored
<1>11. Steady
  BY <1>1, <1>2, <1>3, <1>4, <1>5
  DEF Steady, Attached, OneAtATime, Confirmed, OneDocument, Wrote, Stored
<1> QED
  BY <1>1, <1>6, <1>7, <1>9, <1>10, <1>11 DEF PagesInv

LEMMA StutterInv ==
  ASSUME PagesInv, UNCHANGED vars
  PROVE  PagesInv'
<1>1. UNCHANGED <<kind, server, page, listed, cache, stale, task, acts, told, removed, adrift>>
  BY DEF vars
<1>2. Shape'
  BY <1>1 DEF PagesInv, Shape, TypeOK, Fields
<1>3. Existing' /\ Told' /\ ShowsOwnWork'
  BY <1>1 DEF PagesInv, Existing, Told, ShowsOwnWork, Stored, Naming
<1>4. LinksKept' /\ LinesKept'
  BY <1>1 DEF PagesInv, LinksKept, LinesKept, Linked, Whole, Stored
<1>5. Steady'
  BY <1>1 DEF PagesInv, Steady, Attached, Belongs, OneAtATime, Confirmed, Wrote, OneDocument,
              Transferring, Stored
<1> QED
  BY <1>2, <1>3, <1>4, <1>5 DEF PagesInv

LEMMA NextInv ==
  ASSUME PagesInv, Next
  PROVE  PagesInv'
<1>1. /\ Shape /\ Existing /\ Told /\ ShowsOwnWork /\ LinksKept /\ LinesKept /\ Steady
  BY DEF PagesInv
<1>2. Step
  BY <1>1, NextIs
<1>3. Shape' /\ Existing'
  BY <1>1, <1>2, StepShape, StepExisting
<1>4. Told' /\ ShowsOwnWork'
  BY <1>1, <1>2, <1>3, StepTold
<1>5. LinksKept' /\ LinesKept'
  BY <1>1, <1>2, StepLinks, StepLines
<1>6. Steady'
  BY <1>1, <1>2, StepSteady
<1> QED
  BY <1>3, <1>4, <1>5, <1>6 DEF PagesInv

LEMMA Invariant == Spec => []PagesInv
<1>1. Init => PagesInv
  BY InitInv
<1>2. PagesInv /\ [Next]_vars => PagesInv'
  BY NextInv, StutterInv
<1> QED
  BY <1>1, <1>2, PTL DEF Spec

LEMMA WhatIsPromised ==
  ASSUME PagesInv
  PROVE  /\ RoundTripKeepsLines /\ PostsWhatWasConfirmed /\ NewPageMakesOneDocument
<1>1. /\ Shape /\ Existing /\ LinksKept /\ LinesKept /\ Steady
  BY DEF PagesInv
<1>2. RoundTripKeepsLines
  BY <1>1 DEF RoundTripKeepsLines, KeepsOrderLinks, LinksKept, LinesKept, Linked, Whole, Stored
<1>3. PostsWhatWasConfirmed
  <2>1. ASSUME NEW s \in Slot, task[s].pc = "post", ~adrift
        PROVE  task[s].op = "post"
    <3>1. TaskOK(task[s]) /\ task[s] \in Tasks
      BY <1>1, ShapeIs
    <3>2. task[s].op # "idle"
      BY <2>1, <3>1 DEF TaskOK
    <3>3. task[s].mounted
      BY <1>1, <2>1, <3>2 DEF Steady, Attached, Belongs
    <3> QED
      BY <2>1, <3>1, <3>2, <3>3 DEF TaskOK, Tasks
  <2> QED
    BY <1>1, <2>1 DEF PostsWhatWasConfirmed, Steady, Confirmed, Wrote, Transferring
<1>4. NewPageMakesOneDocument
  BY <1>1 DEF NewPageMakesOneDocument, Steady, OneDocument, Stored, Transferring
<1> QED
  BY <1>2, <1>3, <1>4

(* The variables of the pages keep their types, whatever the users, the    *)
(* queries, the server and the handlers do.                                *)
THEOREM Types == Spec => []TypeOK
<1>1. PagesInv => TypeOK
  BY DEF PagesInv, Shape
<1> QED
  BY <1>1, Invariant, PTL

(* A record page is never settled on data older than what its own handlers *)
(* were answered, on every kind of page: each of the six refetches the     *)
(* record after a post and after a reversal that succeeded.                *)
THEOREM OwnWorkIsShown == Spec => []ShowsOwnWork
<1>1. PagesInv => ShowsOwnWork
  BY DEF PagesInv
<1> QED
  BY <1>1, Invariant, PTL

(* A receipt's lines keep their link to the order, and an adjustment's     *)
(* keep their place, on the way from the server through the form and back. *)
THEOREM LinesGoRound == Spec => []RoundTripKeepsLines
<1>1. PagesInv => RoundTripKeepsLines
  BY WhatIsPromised
<1> QED
  BY <1>1, Invariant, PTL

(* A post books what was on the screen when it was confirmed, as long as   *)
(* nothing got lost and no other user stored the document between the      *)
(* handler's own save and its post: no other handler of the page does, and *)
(* another user's update at any other time is overwritten or refused.      *)
THEOREM PostsAreConfirmed == Spec => []PostsWhatWasConfirmed
<1>1. PagesInv => PostsWhatWasConfirmed
  BY WhatIsPromised
<1> QED
  BY <1>1, Invariant, PTL

(* The page of a new transfer or adjustment makes one document, for any    *)
(* number of clicks, refusals and handlers, as long as nothing got lost.   *)
THEOREM NewPagesMakeOne == Spec => []NewPageMakesOneDocument
<1>1. PagesInv => NewPageMakesOneDocument
  BY WhatIsPromised
<1> QED
  BY <1>1, Invariant, PTL
=============================================================================
