----------------------------- MODULE CountSheet -----------------------------
(***************************************************************************)
(* The count sheet of a stock opname in one browser tab                    *)
(* (client/src/routes/_authed/stock/opnames): choose a warehouse and build *)
(* the sheet from its stock on hand, count, review, post; save a draft on  *)
(* the way and resume it later.                                            *)
(*                                                                         *)
(* Building, saving and posting are asynchronous.  Nothing but the Save    *)
(* button and the dialog is disabled while they run, so a sheet may arrive *)
(* after the warehouse was changed or after counting has begun, and a post *)
(* may overtake a save.  Resuming fills the sheet once from the cached     *)
(* document.  Other users update, post and delete the drafts meanwhile:    *)
(* the server asks for no version, so whoever writes last wins.            *)
(***************************************************************************)
EXTENDS Naturals, FiniteSets, Functions

CONSTANTS
  Warehouse,
  Row,            \* the product+batch pairings a sheet has rows for
  OnHand,         \* Warehouse -> the stock-on-hand report: [rows -> quantity]
  Qty,            \* the quantities that can be counted
  NaN,            \* what Number makes of a text that is no number
  Doc, Slot,      \* document ids, and handlers that may be running at once
  MaxActs,        \* bound on what users do: building, counting, starting handlers, leaving
  None

ASSUME OnHandAssumption ==
  \A w \in Warehouse : \E rows \in SUBSET Row : OnHand[w] \in [rows -> Qty]

ASSUME CountsAssumption ==
  /\ 0 \in Qty /\ None \notin Qty \cup Doc \cup Warehouse /\ MaxActs \in Nat
  /\ NaN \notin Qty /\ NaN # None

VARIABLES
  server,         \* Doc -> the stored opname: status, warehouse, counted lines
  flow,           \* the route and the state of OpnameFlow
  cache,          \* Doc -> data of the document's query, or None
  stale,          \* documents whose query is being fetched
  task,           \* Slot -> a running handler
  acts,           \* what users have done so far
  entered,        \* <<warehouse of the sheet, row, quantity>> a user typed or filled in
  mishaps         \* what went wrong so far: see Mishap

vars == <<server, flow, cache, stale, task, acts, entered, mishaps>>

-----------------------------------------------------------------------------
(* The sheet maps each of its rows to the quantity counted, None while     *)
(* uncounted.  Lines that are sent may hold what is no number; those that  *)
(* are stored do not.                                                      *)

NoRows == [r \in {} |-> None]

Sheets == UNION {[rs -> Qty \cup {NaN, None}] : rs \in SUBSET Row}

Bodies == UNION {[rs -> Qty \cup {NaN}] : rs \in SUBSET Row}

Lines == UNION {[rs -> Qty] : rs \in SUBSET Row}

(* What a count becomes as its text is edited: an empty field is uncounted *)
(* again, but one of blanks is a zero; q is the number that is typed.      *)
Texts == {"empty", "blank", "letters", "number"}

countedQty(text, q) ==
  CASE text = "empty" -> None
    [] text = "blank" -> 0
    [] text = "letters" -> NaN
    [] text = "number" -> q

(* Mutation: every row of every warehouse.                                 *)
buildSheetOfAll(w) == [r \in UNION {DOMAIN OnHand[v] : v \in Warehouse} |-> None]

buildSheet(w) == [r \in DOMAIN OnHand[w] |-> None]

(* A product that is not on the sheet gets a row; one that is keeps its.   *)
appendOffSheetRow(sheet, r) ==
  [s \in DOMAIN sheet \cup {r} |-> IF s \in DOMAIN sheet THEN sheet[s] ELSE None]

(* Mutation: uncounted rows go out as they are, or as zero.                *)
countedLinesAll(sheet) == sheet
countedLinesZeroed(sheet) == [r \in DOMAIN sheet |-> IF sheet[r] = None THEN 0 ELSE sheet[r]]

countedLines(sheet) == Restrict(sheet, {r \in DOMAIN sheet : sheet[r] # None})

(* computeReview: the rows that are skipped unless the user fills them.    *)
Uncounted(sheet) == {r \in DOMAIN sheet : sheet[r] = None}

SystemQty(w, r) == IF r \in DOMAIN OnHand[w] THEN OnHand[w][r] ELSE 0

fillUncountedToSystem(w, sheet) ==
  [r \in DOMAIN sheet |-> IF sheet[r] = None THEN SystemQty(w, r) ELSE sheet[r]]

zeroUncounted(sheet) == [r \in DOMAIN sheet |-> IF sheet[r] = None THEN 0 ELSE sheet[r]]

(* Mutation: saved counts without a row on the new sheet are dropped.      *)
resumeSheetOnHand(doc) ==
  [r \in DOMAIN OnHand[doc.warehouse] |->
     IF r \in DOMAIN doc.lines THEN doc.lines[r] ELSE None]

(* The sheet of a saved draft: the stock on hand of today under the counts *)
(* that were saved, with rows for those that have none.                    *)
resumeSheet(doc) ==
  [r \in DOMAIN OnHand[doc.warehouse] \cup DOMAIN doc.lines |->
     IF r \in DOMAIN doc.lines THEN doc.lines[r] ELSE None]

-----------------------------------------------------------------------------
NoDoc == [status |-> "none", warehouse |-> None, lines |-> NoRows]

NoTask ==
  [op |-> "idle", pc |-> "end", doc |-> None, warehouse |-> None, of |-> None,
   lines |-> NoRows, handled |-> FALSE, mounted |-> FALSE]

(* What may go wrong: an answer is lost; the page of a running handler is  *)
(* left; handlers that write overlap; the server refuses an update; a      *)
(* report arrives after another warehouse was chosen; another user updates *)
(* a draft between its update and its post here ("met"); a resumed sheet   *)
(* is older than what is stored ("behind").                                *)
Mishap == {"lost", "left", "crossed", "refused", "late", "met", "behind"}

(* OpnameFlow is mounted at once on the page of a new opname, and on the   *)
(* page of a record when its draft is resumed.  `of` names the warehouse   *)
(* whose report the sheet was built from: the one it is reviewed against,  *)
(* by the flow and by the handlers that send the sheet.                    *)
Away ==
  [at |-> "away", doc |-> None, mounted |-> FALSE, step |-> "setup", warehouse |-> None,
   of |-> None, sheet |-> NoRows, opnameId |-> None, dialog |-> FALSE, touched |-> FALSE]

Blank == [Away EXCEPT !.at = "new", !.mounted = TRUE]

OnRecord(d) == [Away EXCEPT !.at = "record", !.doc = d]

Shows(step) == flow.mounted /\ flow.step = step /\ ~flow.dialog

Running(ops) == \E s \in Slot : task[s].op \in ops /\ task[s].mounted

Unmounted(tasks) == [s \in Slot |-> [tasks[s] EXCEPT !.mounted = FALSE]]

(* The page is left, or the form on it gives way: its handlers go on.      *)
LeftBehind == IF Running({"build", "save", "post"}) THEN {"left"} ELSE {}

(* A new opname, or the record of a draft that has been counted.           *)
NewOpname ==
  server = [d \in Doc |-> NoDoc] /\ flow = Blank /\ stale = {} /\ entered = {}

DraftOpname(d, w, r, q) ==
  /\ server = [e \in Doc |-> IF e # d THEN NoDoc ELSE
       [status |-> "draft", warehouse |-> w, lines |-> [i \in {r} |-> q]]]
  /\ flow = OnRecord(d) /\ stale = {d} /\ entered = {<<w, r, q>>}

Init ==
  /\ \/ NewOpname
     \/ \E d \in Doc, w \in Warehouse, r \in Row, q \in Qty : DraftOpname(d, w, r, q)
  /\ cache = [d \in Doc |-> None]
  /\ task = [s \in Slot |-> NoTask]
  /\ acts = 0
  /\ mishaps = {}

-----------------------------------------------------------------------------
(* The user, at the setup step.                                            *)

(* The bound on what users do.                                             *)
Acting == acts < MaxActs /\ acts' = acts + 1

setWarehouseId ==
  /\ Shows("setup")
  /\ \E w \in Warehouse \ {flow.warehouse} : flow' = [flow EXCEPT !.warehouse = w]
  /\ UNCHANGED <<server, cache, stale, task, acts, entered, mishaps>>

(* A handler runs up to its first request, which it sends.                 *)
Start(t) ==
  /\ Acting
  /\ \E s \in Slot : task[s].op = "idle"
  /\ task' = [task EXCEPT ![CHOOSE s \in Slot : task[s].op = "idle"] =
                [t EXCEPT !.mounted = TRUE, !.warehouse = flow.warehouse]]

buildSheetNow ==
  /\ Shows("setup") /\ flow.warehouse # None
  /\ Start([NoTask EXCEPT !.op = "build", !.pc = "report"])
  /\ UNCHANGED <<server, flow, cache, stale, entered, mishaps>>

-----------------------------------------------------------------------------
(* The user, at the count and review steps.                                *)

setCount ==
  /\ Acting /\ Shows("count")
  /\ \E r \in DOMAIN flow.sheet, text \in Texts, typed \in Qty :
       LET q == countedQty(text, typed) IN
       /\ flow.sheet[r] # q
       /\ flow' = [flow EXCEPT !.sheet[r] = q, !.touched = TRUE]
       /\ entered' = IF q \in Qty THEN entered \cup {<<flow.of, r, q>>} ELSE entered
  /\ UNCHANGED <<server, cache, stale, task, mishaps>>

(* A product that is picked, or found by its barcode.                      *)
resolveProduct ==
  /\ Acting /\ Shows("count")
  /\ \E r \in Row \ DOMAIN flow.sheet :
       flow' = [flow EXCEPT !.sheet = appendOffSheetRow(@, r), !.touched = TRUE]
  /\ UNCHANGED <<server, cache, stale, task, entered, mishaps>>

Steps ==
  /\ \/ /\ Shows("count")
        /\ \/ flow' = [flow EXCEPT !.step = "setup"]
           \/ /\ DOMAIN countedLines(flow.sheet) # {}
              /\ flow' = [flow EXCEPT !.step = "review"]
     \/ /\ Shows("review")
        /\ flow' = [flow EXCEPT !.step = "count"]
  /\ UNCHANGED <<server, cache, stale, task, acts, entered, mishaps>>

FillUncounted ==
  /\ Acting /\ Shows("review") /\ Uncounted(flow.sheet) # {}
  /\ \E sheet \in {fillUncountedToSystem(flow.of, flow.sheet), zeroUncounted(flow.sheet)} :
       /\ flow' = [flow EXCEPT !.sheet = sheet, !.touched = TRUE]
       /\ entered' = entered \cup {<<flow.of, r, sheet[r]>> : r \in Uncounted(flow.sheet)}
  /\ UNCHANGED <<server, cache, stale, task, mishaps>>

(* Handlers overlap that write, of this page or of one that was left.      *)
Crossing == IF \E s \in Slot : task[s].op \in {"save", "post"} THEN {"crossed"} ELSE {}

(* buildBody: what is sent is read when the handler starts.                *)
Writing(op) ==
  [NoTask EXCEPT !.op = op, !.doc = flow.opnameId, !.lines = countedLines(flow.sheet),
                 !.of = flow.of, !.pc = IF flow.opnameId = None THEN "create" ELSE "put"]

saveDraft ==
  /\ Shows("count") /\ ~Running({"save"})
  /\ Start(Writing("save"))
  /\ mishaps' = mishaps \cup Crossing
  /\ UNCHANGED <<server, flow, cache, stale, entered>>

openConfirm ==
  /\ Shows("review") /\ DOMAIN countedLines(flow.sheet) # {}
  /\ flow' = [flow EXCEPT !.dialog = TRUE]
  /\ UNCHANGED <<server, cache, stale, task, acts, entered, mishaps>>

closeConfirm ==
  /\ flow.dialog /\ ~Running({"post"})
  /\ flow' = [flow EXCEPT !.dialog = FALSE]
  /\ UNCHANGED <<server, cache, stale, task, acts, entered, mishaps>>

(* Mutation: a draft that is saved is posted as it is.                     *)
postOpnameAsSaved ==
  /\ flow.dialog /\ ~Running({"post"})
  /\ Start(IF flow.opnameId = None THEN Writing("post") ELSE [Writing("post") EXCEPT !.pc = "post"])
  /\ mishaps' = mishaps \cup Crossing
  /\ UNCHANGED <<server, flow, cache, stale, entered>>

postOpname ==
  /\ flow.dialog /\ ~Running({"post"})
  /\ Start(Writing("post"))
  /\ mishaps' = mishaps \cup Crossing
  /\ UNCHANGED <<server, flow, cache, stale, entered>>

-----------------------------------------------------------------------------
(* Routes and queries.                                                     *)

Leave ==
  /\ Acting
  /\ flow.at # "away"
  /\ flow' = Away
  /\ task' = Unmounted(task)
  /\ mishaps' = mishaps \cup LeftBehind
  /\ UNCHANGED <<server, cache, stale, entered>>

(* From the list: a record, whose query is fetched again.                  *)
Return ==
  /\ flow.at = "away"
  /\ \E d \in Doc :
       /\ server[d].status # "none"
       /\ flow' = OnRecord(d)
       /\ stale' = stale \cup {d}
  /\ UNCHANGED <<server, cache, task, acts, entered, mishaps>>

(* The page of record d without the sheet; it may be filled anew.          *)
Replaced(d) ==
  /\ flow' = OnRecord(d)
  /\ task' = Unmounted(task)
  /\ mishaps' = mishaps \cup LeftBehind

(* OpnameDetailPage: a posted opname is rendered read-only, and nothing of *)
(* one that is gone.  A draft of another warehouse than the cached one has *)
(* its stock on hand fetched first, unless that is cached too; its sheet   *)
(* gives way to the placeholder.                                           *)
RecordArrives ==
  LET d == flow.doc IN
  /\ flow.at = "record" /\ d \in stale
  /\ cache' = [cache EXCEPT ![d] = server[d]]
  /\ stale' = stale \ {d}
  /\ \/ /\ server[d].status # "draft" \/ (cache[d] # None /\ cache[d].warehouse # server[d].warehouse)
        /\ Replaced(d)
     \/ server[d].status = "draft" /\ UNCHANGED <<flow, task, mishaps>>
  /\ UNCHANGED <<server, acts, entered>>

(* DraftResume: with the document, the stock on hand and the products at   *)
(* hand the sheet is filled, once, at the count step.                      *)
DraftResume ==
  LET d == flow.doc IN
  /\ flow.at = "record" /\ ~flow.mounted
  /\ cache[d] # None /\ cache[d].status = "draft"
  /\ flow' = [OnRecord(d) EXCEPT !.mounted = TRUE, !.step = "count", !.opnameId = d,
                !.warehouse = cache[d].warehouse, !.of = cache[d].warehouse,
                !.sheet = resumeSheet(cache[d])]
  /\ mishaps' = mishaps \cup IF cache[d] = server[d] THEN {} ELSE {"behind"}
  /\ UNCHANGED <<server, cache, stale, task, acts, entered>>

(* Another user posts a draft, stores a count of their own in it, or       *)
(* deletes it.  Ids are not given again.                                   *)
Deleted == [NoDoc EXCEPT !.status = "deleted"]

Counted(w, r, q) == [status |-> "draft", warehouse |-> w, lines |-> [i \in {r} |-> q]]

OtherUserPosts(d) ==
  /\ server' = [server EXCEPT ![d].status = "posted"]
  /\ UNCHANGED <<entered, mishaps>>

(* A post of d is between what it stored and its own handling.             *)
Preparing(d, t) ==
  t.op = "post" /\ t.doc = d /\ (IF t.pc = "post" THEN ~t.handled ELSE t.handled)

Behind(d) == IF flow.mounted /\ flow.doc = d THEN {"behind"} ELSE {}

OtherUserUpdates(d) ==
  /\ \E w \in Warehouse, r \in Row, q \in Qty :
       /\ server' = [server EXCEPT ![d] = Counted(w, r, q)]
       /\ entered' = entered \cup {<<w, r, q>>}
  /\ mishaps' = mishaps \cup Behind(d) \cup
                   IF \E s \in Slot : Preparing(d, task[s]) THEN {"met"} ELSE {}

OtherUserDeletes(d) ==
  /\ server' = [server EXCEPT ![d] = Deleted]
  /\ mishaps' = mishaps \cup Behind(d)
  /\ UNCHANGED entered

OtherUserActs ==
  /\ Acting
  /\ \E d \in Doc :
       /\ server[d].status = "draft"
       /\ OtherUserPosts(d) \/ OtherUserUpdates(d) \/ OtherUserDeletes(d)
  /\ UNCHANGED <<flow, cache, stale, task>>

-----------------------------------------------------------------------------
(* The server (httpserver/stock_opnames.go).  A request that is not        *)
(* handled is refused, or lost: one without lines, or with a count that is *)
(* no number, is.                                                          *)

Sent(s, pc) == task[s].op # "idle" /\ task[s].pc = pc /\ ~task[s].handled

Handled(s, d) == task' = [task EXCEPT ![s].handled = TRUE, ![s].doc = d]

Valid(lines) == DOMAIN lines # {} /\ \A r \in DOMAIN lines : lines[r] # NaN

Create(s) ==
  /\ Sent(s, "create") /\ Valid(task[s].lines)
  /\ \E d \in Doc :
       /\ server[d].status = "none"
       /\ server' = [server EXCEPT ![d] = [status |-> "draft", warehouse |-> task[s].warehouse,
                                           lines |-> task[s].lines]]
       /\ Handled(s, d)
  /\ UNCHANGED <<flow, cache, stale, acts, entered, mishaps>>

Update(s) ==
  /\ Sent(s, "put") /\ Valid(task[s].lines)
  /\ server[task[s].doc].status = "draft"
  /\ server' = [server EXCEPT ![task[s].doc].lines = task[s].lines,
                              ![task[s].doc].warehouse = task[s].warehouse]
  /\ Handled(s, task[s].doc)
  /\ UNCHANGED <<flow, cache, stale, acts, entered, mishaps>>

Post(s) ==
  /\ Sent(s, "post")
  /\ server[task[s].doc].status = "draft"
  /\ server' = [server EXCEPT ![task[s].doc].status = "posted"]
  /\ Handled(s, task[s].doc)
  /\ UNCHANGED <<flow, cache, stale, acts, entered, mishaps>>

Report(s) ==
  /\ Sent(s, "report")
  /\ Handled(s, None)
  /\ UNCHANGED <<server, flow, cache, stale, acts, entered, mishaps>>

Answer(s) == IF task[s].handled THEN {"ok", "lost"} ELSE {"refused", "lost"}

-----------------------------------------------------------------------------
(* The rest of a handler, from an answer to its end or next request.       *)

End(s) == task' = [task EXCEPT ![s] = NoTask]

NextRequest(s, pc) == task' = [task EXCEPT ![s].pc = pc, ![s].handled = FALSE]

Asking(s, op, pc) == task[s].op = op /\ task[s].pc = pc

(* State of a flow that is gone is not set.                                *)
Sets(s, next) == flow' = IF task[s].mounted THEN next ELSE flow

Noting(how) ==
  mishaps' = mishaps \cup IF how = "lost" THEN {"lost"} ELSE {}

(* buildSheetNow: a report that is refused gives an empty sheet, and one   *)
(* that is late the sheet of another warehouse than the one on display.    *)
Late(s) == IF task[s].mounted /\ task[s].warehouse # flow.warehouse THEN {"late"} ELSE {}

SheetArrives(s) ==
  \E how \in Answer(s) :
    /\ Asking(s, "build", "report")
    /\ Sets(s, IF how = "lost" THEN flow ELSE
                 [flow EXCEPT !.step = "count", !.of = task[s].warehouse, !.touched = TRUE,
                    !.sheet = IF how = "ok" THEN buildSheet(task[s].warehouse) ELSE NoRows])
    /\ End(s)
    /\ mishaps' = mishaps \cup IF how = "lost" THEN {"lost"} ELSE Late(s)
    /\ UNCHANGED <<server, cache, stale, acts, entered>>

(* Mutation: the flow does not learn the id of what it saved.              *)
SavedUnnoticed(s) ==
  \E how \in Answer(s) :
    /\ Asking(s, "save", "create") \/ Asking(s, "save", "put")
    /\ End(s)
    /\ Noting(how)
    /\ UNCHANGED <<server, flow, cache, stale, acts, entered>>

(* saveDraft: a refusal passes for a success; only the list is refetched.  *)
Saved(s) ==
  \E how \in Answer(s) :
    /\ Asking(s, "save", "create") \/ Asking(s, "save", "put")
    /\ Sets(s, IF how = "ok" THEN [flow EXCEPT !.opnameId = task[s].doc] ELSE flow)
    /\ End(s)
    /\ Noting(how)
    /\ UNCHANGED <<server, cache, stale, acts, entered>>

(* postOpname, before its post: what came of an update is not looked at.   *)
Prepared(s) ==
  \E how \in Answer(s) :
    /\ Asking(s, "post", "create") \/ Asking(s, "post", "put")
    /\ IF how = "ok" \/ (how = "refused" /\ task[s].pc = "put")
       THEN /\ Sets(s, [flow EXCEPT !.opnameId = task[s].doc])
            /\ NextRequest(s, "post")
       ELSE /\ Sets(s, [flow EXCEPT !.dialog = FALSE])
            /\ End(s)
    /\ mishaps' = mishaps \cup IF how = "ok" THEN {} ELSE {how}
    /\ UNCHANGED <<server, cache, stale, acts, entered>>

(* postOpname, after its post: the record is shown; on the page of the     *)
(* record itself that changes nothing, and no query is fetched again.      *)
Posted(s) ==
  \E how \in Answer(s) :
    LET d == task[s].doc IN
    /\ Asking(s, "post", "post")
    /\ IF how # "ok"
       THEN /\ Sets(s, [flow EXCEPT !.dialog = FALSE])
            /\ End(s)
            /\ Noting(how)
            /\ UNCHANGED stale
       ELSE IF flow.at = "record" /\ flow.doc = d
       THEN /\ End(s)
            /\ UNCHANGED <<flow, stale, mishaps>>
       ELSE /\ flow' = OnRecord(d)
            /\ stale' = stale \cup {d}
            /\ task' = [Unmounted(task) EXCEPT ![s] = NoTask]
            /\ mishaps' = mishaps \cup
                 IF \E t \in Slot \ {s} : task[t].mounted THEN {"left"} ELSE {}
    /\ UNCHANGED <<server, cache, acts, entered>>

-----------------------------------------------------------------------------
Arrivals == RecordArrives \/ DraftResume

UserActs ==
  \/ setWarehouseId \/ buildSheetNow \/ setCount \/ resolveProduct \/ Steps \/ FillUncounted
  \/ saveDraft \/ openConfirm \/ closeConfirm \/ postOpname \/ Leave \/ Return

Handles(s) == Create(s) \/ Update(s) \/ Post(s) \/ Report(s)

Continues(s) == SheetArrives(s) \/ Saved(s) \/ Prepared(s) \/ Posted(s)

Next ==
  \/ Arrivals \/ UserActs \/ OtherUserActs
  \/ \E s \in Slot : Handles(s) \/ Continues(s)

Spec == Init /\ [][Next]_vars

-----------------------------------------------------------------------------
Documents ==
  [status : {"none", "draft", "posted", "deleted"}, warehouse : Warehouse \cup {None}, lines : Lines]

(* Types.                                                                  *)
TypeOK ==
  /\ server \in [Doc -> Documents]
  /\ flow \in [at : {"new", "record", "away"}, doc : Doc \cup {None}, mounted : BOOLEAN,
               step : {"setup", "count", "review"}, warehouse : Warehouse \cup {None},
               of : Warehouse \cup {None}, sheet : Sheets, opnameId : Doc \cup {None},
               dialog : BOOLEAN, touched : BOOLEAN]
  /\ cache \in [Doc -> Documents \cup {None}]
  /\ stale \subseteq Doc
  /\ task \in [Slot -> [op : {"idle", "build", "save", "post"},
                        pc : {"report", "create", "put", "post", "end"},
                        doc : Doc \cup {None}, warehouse : Warehouse \cup {None},
                        of : Warehouse \cup {None}, lines : Bodies,
                        handled : BOOLEAN, mounted : BOOLEAN]]
  /\ acts \in 0..MaxActs
  /\ entered \subseteq Warehouse \X Row \X Qty
  /\ mishaps \subseteq Mishap

(* No count is stored that no user typed or filled in, on a sheet of the   *)
(* warehouse it is stored for: whatever is saved, resumed, rebuilt and     *)
(* posted in whatever order, an uncounted row never becomes a count, of    *)
(* zero least of all, and no count moves to another row or, unless a       *)
(* report arrived late, to another warehouse.                              *)
CountsWereEntered ==
  \A d \in Doc : \A r \in DOMAIN server[d].lines : \E w \in Warehouse :
    /\ <<w, r, server[d].lines[r]>> \in entered
    /\ w = server[d].warehouse \/ "late" \in mishaps

(* What a post is about to book is what was reviewed, in the warehouse     *)
(* whose stock on hand it was reviewed against; unless that report arrived *)
(* late, handlers that write overlapped, the update before the post was    *)
(* refused, whose answer is not looked at, or another user's update came   *)
(* between the two.                                                        *)
PostsWhatWasReviewed ==
  \A s \in Slot :
    LET d == task[s].doc IN
    /\ Sent(s, "post") /\ server[d].status = "draft"
    /\ mishaps \cap {"crossed", "refused", "late", "met"} = {}
    => server[d].lines = task[s].lines /\ server[d].warehouse = task[s].of

(* One flow makes one document, however often it is saved before it is     *)
(* posted, unless an answer got lost or a post overtook a save.            *)
FlowMakesOneDocument ==
  flow.at = "new" /\ mishaps \cap {"lost", "crossed"} = {} =>
    \A d \in Doc : server[d].status # "none" =>
      d = flow.opnameId \/ \E s \in Slot : task[s].doc = d

(* A resumed sheet nobody has touched, with no save on its way, holds the  *)
(* counts that are stored, on rows of today's report and rows of its own.  *)
ResumesCounts ==
  flow.at = "record" /\ flow.mounted /\ ~flow.touched /\ (\A s \in Slot : task[s].op = "idle") =>
    countedLines(flow.sheet) = server[flow.doc].lines

(* The same when the draft was resumed from what is stored, and neither    *)
(* another user nor a handler of a page left behind changed that since.    *)
ResumesStoredCounts == mishaps \cap {"behind", "left"} = {} => ResumesCounts
=============================================================================
