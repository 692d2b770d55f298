-------------------------- MODULE CountSheetProofs --------------------------
(***************************************************************************)
(* What the count sheet of a stock opname keeps, for any warehouses, rows, *)
(* documents and quantities, and any number of handlers at once.           *)
(***************************************************************************)
EXTENDS CountSheet, TLAPS

-----------------------------------------------------------------------------
Flows ==
  [at : {"new", "record", "away"}, doc : Doc \cup {None}, mounted : BOOLEAN,
   step : {"setup", "count", "review"}, warehouse : Warehouse \cup {None},
   of : Warehouse \cup {None}, sheet : Sheets, opnameId : Doc \cup {None},
   dialog : BOOLEAN, touched : BOOLEAN]

Tasks ==
  [op : {"idle", "build", "save", "post"}, pc : {"report", "create", "put", "post", "end"},
   doc : Doc \cup {None}, warehouse : Warehouse \cup {None}, of : Warehouse \cup {None},
   lines : Bodies, handled : BOOLEAN, mounted : BOOLEAN]

TypeInv ==
  /\ server \in [Doc -> Documents]
  /\ flow \in Flows
  /\ cache \in [Doc -> Documents \cup {None}]
  /\ stale \subseteq Doc
  /\ task \in [Slot -> Tasks]
  /\ acts \in 0..MaxActs
  /\ entered \subseteq Warehouse \X Row \X Qty
  /\ mishaps \subseteq Mishap

(* A handler, by how far it is.                                            *)
TaskOK(t) ==
  /\ t.op = "idle" => t.pc = "end" /\ ~t.mounted
  /\ t.op = "build" => t.pc = "report"
  /\ t.op = "save" => t.pc \in {"create", "put"}
  /\ t.op = "post" => t.pc \in {"create", "put", "post"}
  /\ t.op # "idle" => t.warehouse \in Warehouse
  /\ t.doc # None <=> t.pc \in {"put", "post"} \/ (t.pc = "create" /\ t.handled)

(* The flow, by where it is.                                               *)
FlowOK(f) ==
  /\ f.at = "new" => f.mounted
  /\ f.at = "away" => ~f.mounted
  /\ f.at = "record" => f.doc # None /\ (f.mounted => f.opnameId = f.doc)
  /\ f.step # "setup" => f.mounted /\ f.warehouse # None /\ f.of # None
  /\ f.dialog => f.step # "setup"

DocumentOK(doc) == doc.status \in {"draft", "posted"} => doc.warehouse # None

Shape ==
  /\ \A s \in Slot : TaskOK(task[s])
  /\ FlowOK(flow)
  /\ \A d \in Doc : DocumentOK(server[d]) /\ (cache[d] # None => DocumentOK(cache[d]))

(* A handler is mounted while the flow it began in is, and writes to the   *)
(* document of that flow; those that are not mounted were left.            *)
Writes(t) == t.op \in {"save", "post"}

Attended ==
  /\ \A s \in Slot : task[s].mounted =>
       /\ flow.mounted /\ flow.warehouse # None
       /\ flow.at = "record" /\ Writes(task[s]) => task[s].doc = flow.doc
  /\ "left" \notin mishaps => \A s \in Slot : task[s].op # "idle" => task[s].mounted
  /\ flow.at = "new" => "left" \notin mishaps

-----------------------------------------------------------------------------
(* Unless a report arrived late, the sheet on display, and each that is    *)
(* sent, was built from the stock on hand of the warehouse it names.       *)
Matches ==
  "late" \notin mishaps =>
    /\ flow.step # "setup" => flow.of = flow.warehouse
    /\ \A s \in Slot : Writes(task[s]) => task[s].of = task[s].warehouse

(* Every count anywhere was entered, for its warehouse: stored, cached, on *)
(* its way, or on the sheet.                                               *)
AllEntered(w, counts, ins, mis) ==
  \A r \in DOMAIN counts : counts[r] \in Qty =>
    \E v \in Warehouse : <<v, r, counts[r]>> \in ins /\ (v = w \/ "late" \in mis)

Entered ==
  /\ \A d \in Doc :
       /\ AllEntered(server[d].warehouse, server[d].lines, entered, mishaps)
       /\ cache[d] # None => AllEntered(cache[d].warehouse, cache[d].lines, entered, mishaps)
  /\ \A s \in Slot : AllEntered(task[s].warehouse, task[s].lines, entered, mishaps)
  /\ AllEntered(flow.of, flow.sheet, entered, mishaps)

(* Without an overlap, one handler writes.                                 *)
OneWriter ==
  "crossed" \notin mishaps => \A s, t \in Slot : Writes(task[s]) /\ Writes(task[t]) => s = t

(* Between the handling of its first request and that of its post, what a  *)
(* handler sent is what is stored.                                         *)
Stored(t) == Preparing(t.doc, t)

StoresWhatItSent ==
  mishaps \cap {"crossed", "refused", "met"} = {} =>
    \A s \in Slot :
      LET d == task[s].doc IN
      Stored(task[s]) /\ server[d].status = "draft" =>
        server[d].lines = task[s].lines /\ server[d].warehouse = task[s].warehouse

(* On the page of a new opname, the flow knows the document, or the one    *)
(* handler that creates it does.                                           *)
KnowsItsDocument ==
  flow.at = "new" /\ mishaps \cap {"lost", "crossed"} = {} =>
    /\ \A s \in Slot : Writes(task[s]) =>
         IF task[s].pc = "create" THEN flow.opnameId = None ELSE task[s].doc = flow.opnameId
    /\ \A d \in Doc : server[d].status # "none" => d = flow.opnameId \/ \E s \in Slot : task[s].doc = d

(* While a resumed sheet is untouched, what is written is what it holds.   *)
HoldsWhatIsStored ==
  flow.at = "record" /\ flow.mounted /\ mishaps \cap {"behind", "left"} = {} =>
    /\ \A s \in Slot : Writes(task[s]) =>
         /\ task[s].doc = flow.doc /\ task[s].pc # "create"
         /\ ~flow.touched => task[s].lines = countedLines(flow.sheet)
    /\ ~flow.touched => server[flow.doc].lines = countedLines(flow.sheet)

Base == TypeInv /\ Shape /\ Attended

IInv ==
  Base /\ Matches /\ Entered /\ OneWriter /\ StoresWhatItSent /\ KnowsItsDocument /\ HoldsWhatIsStored

-----------------------------------------------------------------------------
(* Sheets and lines.                                                       *)

(* A function is a sheet when its rows are rows and its values counts.     *)
LEMMA SheetsAre ==
  /\ \A rs \in SUBSET Row : \A f \in [rs -> Qty \cup {NaN, None}] : f \in Sheets
  /\ \A f \in Sheets : DOMAIN f \in SUBSET Row /\ f \in [DOMAIN f -> Qty \cup {NaN, None}]
BY DEF Sheets

LEMMA BodiesAre ==
  /\ \A rs \in SUBSET Row : \A f \in [rs -> Qty \cup {NaN}] : f \in Bodies
  /\ \A f \in Bodies : DOMAIN f \in SUBSET Row /\ f \in [DOMAIN f -> Qty \cup {NaN}]
BY DEF Bodies

LEMMA LinesAre ==
  /\ \A rs \in SUBSET Row : \A f \in [rs -> Qty] : f \in Lines
  /\ \A f \in Lines : DOMAIN f \in SUBSET Row /\ f \in [DOMAIN f -> Qty]
BY DEF Lines

LEMMA OnHandIs ==
  ASSUME NEW w \in Warehouse
  PROVE  OnHand[w] \in Lines
BY OnHandAssumption, LinesAre

LEMMA NoRowsIs == NoRows \in Sheets /\ NoRows \in Bodies /\ NoRows \in Lines /\ DOMAIN NoRows = {}
<1>1. /\ NoRows \in [{} -> Qty \cup {NaN, None}] /\ NoRows \in [{} -> Qty \cup {NaN}]
      /\ NoRows \in [{} -> Qty] /\ DOMAIN NoRows = {}
  BY DEF NoRows
<1> QED
  BY <1>1, SheetsAre, BodiesAre, LinesAre

(* The server stores numbers.                                              *)
LEMMA ValidIs ==
  ASSUME NEW lines \in Bodies, Valid(lines)
  PROVE  lines \in Lines
<1>1. DOMAIN lines \in SUBSET Row /\ lines \in [DOMAIN lines -> Qty \cup {NaN}]
  BY BodiesAre
<1>2. lines \in [DOMAIN lines -> Qty]
  BY <1>1 DEF Valid
<1> QED
  BY <1>1, <1>2, LinesAre

(* What each step makes of a sheet is one.                                 *)
LEMMA SheetsMade ==
  ASSUME NEW sheet \in Sheets
  PROVE  /\ \A r \in DOMAIN sheet, q \in Qty \cup {NaN, None} : [sheet EXCEPT ![r] = q] \in Sheets
         /\ \A r \in Row : appendOffSheetRow(sheet, r) \in Sheets
         /\ countedLines(sheet) \in Bodies
         /\ zeroUncounted(sheet) \in Sheets
         /\ \A w \in Warehouse : fillUncountedToSystem(w, sheet) \in Sheets
<1> DEFINE rs == DOMAIN sheet
<1>1. rs \in SUBSET Row /\ sheet \in [rs -> Qty \cup {NaN, None}]
  BY SheetsAre
<1>2. ASSUME NEW r \in rs, NEW q \in Qty \cup {NaN, None}
      PROVE  [sheet EXCEPT ![r] = q] \in Sheets
  <2>1. [sheet EXCEPT ![r] = q] \in [rs -> Qty \cup {NaN, None}]
    BY <1>1
  <2> QED
    BY <1>1, <2>1, SheetsAre
<1>3. ASSUME NEW r \in Row
      PROVE  appendOffSheetRow(sheet, r) \in Sheets
  <2>1. appendOffSheetRow(sheet, r) \in [rs \cup {r} -> Qty \cup {NaN, None}]
    BY <1>1 DEF appendOffSheetRow
  <2>2. rs \cup {r} \in SUBSET Row
    BY <1>1
  <2> QED
    BY <2>1, <2>2, SheetsAre
<1>4. countedLines(sheet) \in Bodies
  <2> DEFINE counted == {r \in rs : sheet[r] # None}
  <2>1. countedLines(sheet) \in [counted -> Qty \cup {NaN}]
    BY <1>1 DEF countedLines, Restrict
  <2>2. counted \in SUBSET Row
    BY <1>1
  <2> QED
    BY <2>1, <2>2, BodiesAre
<1>5. zeroUncounted(sheet) \in Sheets
  <2>1. zeroUncounted(sheet) \in [rs -> Qty \cup {NaN, None}]
    BY <1>1, CountsAssumption DEF zeroUncounted
  <2> QED
    BY <1>1, <2>1, SheetsAre
<1>6. ASSUME NEW w \in Warehouse
      PROVE  fillUncountedToSystem(w, sheet) \in Sheets
  <2>1. \A r \in rs : SystemQty(w, r) \in Qty
    BY OnHandIs, LinesAre, CountsAssumption DEF SystemQty
  <2>2. fillUncountedToSystem(w, sheet) \in [rs -> Qty \cup {NaN, None}]
    BY <1>1, <2>1 DEF fillUncountedToSystem
  <2> QED
    BY <1>1, <2>2, SheetsAre
<1> QED
  BY <1>2, <1>3, <1>4, <1>5, <1>6

LEMMA SheetsBuilt ==
  ASSUME NEW w \in Warehouse
  PROVE  /\ buildSheet(w) \in Sheets
         /\ \A doc : doc.warehouse = w /\ doc.lines \in Lines => resumeSheet(doc) \in Sheets
<1>1. DOMAIN OnHand[w] \in SUBSET Row
  BY OnHandIs, LinesAre
<1>2. buildSheet(w) \in Sheets
  <2>1. buildSheet(w) \in [DOMAIN OnHand[w] -> Qty \cup {NaN, None}]
    BY DEF buildSheet
  <2> QED
    BY <1>1, <2>1, SheetsAre
<1>3. ASSUME NEW doc, doc.warehouse = w, doc.lines \in Lines
      PROVE  resumeSheet(doc) \in Sheets
  <2> DEFINE rs == DOMAIN OnHand[w] \cup DOMAIN doc.lines
  <2>1. DOMAIN doc.lines \in SUBSET Row /\ doc.lines \in [DOMAIN doc.lines -> Qty]
    BY <1>3, LinesAre
  <2>2. resumeSheet(doc) \in [rs -> Qty \cup {NaN, None}]
    BY <1>3, <2>1 DEF resumeSheet
  <2>3. rs \in SUBSET Row
    BY <1>1, <2>1
  <2> QED
    BY <2>2, <2>3, SheetsAre
<1> QED
  BY <1>2, <1>3

(* The counts of a resumed sheet are those that were saved.                *)
LEMMA ResumedCounts ==
  ASSUME NEW doc, doc.lines \in Lines
  PROVE  countedLines(resumeSheet(doc)) = doc.lines
<1> DEFINE sheet == resumeSheet(doc)
           counted == {r \in DOMAIN sheet : sheet[r] # None}
<1>1. doc.lines \in [DOMAIN doc.lines -> Qty] /\ None \notin Qty
  BY LinesAre, CountsAssumption
<1>2. /\ DOMAIN sheet = DOMAIN OnHand[doc.warehouse] \cup DOMAIN doc.lines
      /\ \A r \in DOMAIN sheet : sheet[r] = IF r \in DOMAIN doc.lines THEN doc.lines[r] ELSE None
  BY DEF resumeSheet
<1> HIDE DEF sheet
<1>3. counted = DOMAIN doc.lines
  BY <1>1, <1>2
<1>4. \A r \in counted : sheet[r] = doc.lines[r]
  BY <1>2, <1>3
<1>5. [r \in counted |-> sheet[r]] = doc.lines
  BY <1>1, <1>3, <1>4
<1> QED
  BY <1>5 DEF countedLines, Restrict, sheet

-----------------------------------------------------------------------------
(* A handler starts in a slot of its own.                                  *)
LEMMA Starts ==
  ASSUME Base, NEW t \in Tasks, Start(t), flow.mounted, flow.warehouse # None
  PROVE  \E s \in Slot :
           LET new == [t EXCEPT !.mounted = TRUE, !.warehouse = flow.warehouse] IN
           /\ task[s].op = "idle" /\ task' = [task EXCEPT ![s] = new]
           /\ new \in Tasks /\ acts' \in 0..MaxActs
<1> DEFINE s == CHOOSE x \in Slot : task[x].op = "idle"
           new == [t EXCEPT !.mounted = TRUE, !.warehouse = flow.warehouse]
<1>1. s \in Slot /\ task[s].op = "idle"
  BY DEF Start
<1>2. task' = [task EXCEPT ![s] = new]
  BY DEF Start
<1>3. flow.warehouse \in Warehouse
  BY DEF Base, TypeInv, Flows
<1>4. new \in Tasks
  BY <1>3 DEF Tasks
<1>5. acts' \in 0..MaxActs
  BY CountsAssumption DEF Start, Acting, Base, TypeInv, Flows
<1> HIDE DEF s
<1> QED
  BY <1>1, <1>2, <1>4, <1>5

-----------------------------------------------------------------------------
(* The base of the invariant, action by action.                            *)

LEMMA ActsAreBounded == Base /\ Acting => acts' \in 0..MaxActs
BY CountsAssumption DEF Acting, Base, TypeInv

(* The handlers of a page that is left go on, unmounted.                   *)
LEMMA LeftTasks ==
  ASSUME Base
  PROVE  /\ Unmounted(task) \in [Slot -> Tasks]
         /\ \A s \in Slot : LET t == Unmounted(task)[s] IN
              /\ TaskOK(t) /\ ~t.mounted
              /\ t.op = task[s].op /\ t.pc = task[s].pc /\ t.doc = task[s].doc
              /\ t.lines = task[s].lines /\ t.warehouse = task[s].warehouse /\ t.handled = task[s].handled
              /\ t.of = task[s].of
<1>1. \A s \in Slot : task[s] \in Tasks /\ TaskOK(task[s])
  BY DEF Base, TypeInv, Shape
<1>2. \A s \in Slot : Unmounted(task)[s] = [task[s] EXCEPT !.mounted = FALSE]
  BY DEF Unmounted
<1>3. \A s \in Slot : Unmounted(task)[s] \in Tasks
  <2>1. \A t \in Tasks, b \in BOOLEAN : [t EXCEPT !.mounted = b] \in Tasks
    BY DEF Tasks
  <2> QED
    BY <1>1, <1>2, <2>1
<1>4. Unmounted(task) \in [Slot -> Tasks]
  BY <1>3 DEF Unmounted
<1>5. ASSUME NEW s \in Slot
      PROVE  LET t == Unmounted(task)[s] IN
             /\ ~t.mounted
             /\ t.op = task[s].op /\ t.pc = task[s].pc /\ t.doc = task[s].doc
             /\ t.lines = task[s].lines /\ t.warehouse = task[s].warehouse /\ t.handled = task[s].handled
             /\ t.of = task[s].of
  BY <1>1, <1>2 DEF Tasks
<1>6. \A s \in Slot : TaskOK(Unmounted(task)[s])
  BY <1>1, <1>5 DEF TaskOK
<1> QED
  BY <1>4, <1>5, <1>6

(* A page that leaves no handler behind leaves none running.               *)
LEMMA NobodyLeft ==
  ASSUME Base, "left" \notin mishaps, LeftBehind = {}
  PROVE  \A s \in Slot : task[s].op = "idle"
<1>1. \A s \in Slot : task[s].op \in {"idle", "build", "save", "post"}
  BY DEF Base, TypeInv, Tasks
<1> QED
  BY <1>1 DEF Base, Attended, LeftBehind, Running

LEMMA LeftIsAMishap == LeftBehind \subseteq {"left"} /\ Crossing \subseteq {"crossed"}
BY DEF LeftBehind, Crossing

(* The sheet changes under the hands of the user.                          *)
LEMMA SheetChanges ==
  ASSUME Base, Shows("count") \/ Shows("review"), NEW sheet \in Sheets,
         flow' = [flow EXCEPT !.sheet = sheet, !.touched = TRUE],
         acts' \in 0..MaxActs, entered' \subseteq Warehouse \X Row \X Qty,
         UNCHANGED <<server, cache, stale, task, mishaps>>
  PROVE  Base'
<1>1. TypeInv'
  BY DEF Base, TypeInv, Flows
<1>2. Shape'
  BY DEF Base, TypeInv, Shape, FlowOK, TaskOK, DocumentOK, Flows
<1>3. Attended'
  BY DEF Base, TypeInv, Attended, Flows
<1> QED
  BY <1>1, <1>2, <1>3 DEF Base

(* What a user typed into a row.                                           *)
LEMMA Counts ==
  ASSUME Base, setCount
  PROVE  \E r \in DOMAIN flow.sheet, q \in Qty \cup {NaN, None} :
           /\ flow' = [flow EXCEPT !.sheet = [flow.sheet EXCEPT ![r] = q], !.touched = TRUE]
           /\ entered' = IF q \in Qty THEN entered \cup {<<flow.of, r, q>>} ELSE entered
<1>1. PICK r \in DOMAIN flow.sheet, text \in Texts, typed \in Qty :
        /\ flow' = [flow EXCEPT !.sheet[r] = countedQty(text, typed), !.touched = TRUE]
        /\ entered' = IF countedQty(text, typed) \in Qty
                      THEN entered \cup {<<flow.of, r, countedQty(text, typed)>>} ELSE entered
  BY DEF setCount
<1> DEFINE q == countedQty(text, typed)
<1>2. q \in Qty \cup {NaN, None}
  BY CountsAssumption DEF countedQty, Texts
<1> HIDE DEF q
<1>3. flow' = [flow EXCEPT !.sheet = [flow.sheet EXCEPT ![r] = q], !.touched = TRUE]
  BY <1>1 DEF Base, TypeInv, Flows, q
<1> QED
  BY <1>1, <1>2, <1>3 DEF q

LEMMA setCountBase ==
  ASSUME Base, setCount
  PROVE  Base'
<1>1. PICK r \in DOMAIN flow.sheet, q \in Qty \cup {NaN, None} :
        /\ flow' = [flow EXCEPT !.sheet = [flow.sheet EXCEPT ![r] = q], !.touched = TRUE]
        /\ entered' = IF q \in Qty THEN entered \cup {<<flow.of, r, q>>} ELSE entered
  BY Counts
<1> DEFINE sheet == [flow.sheet EXCEPT ![r] = q]
<1>2. flow.sheet \in Sheets /\ flow.of \in Warehouse
  BY DEF setCount, Shows, Base, TypeInv, Shape, FlowOK, Flows
<1>3. sheet \in Sheets /\ r \in Row
  BY <1>2, SheetsMade, SheetsAre
<1>4. flow' = [flow EXCEPT !.sheet = sheet, !.touched = TRUE]
  BY <1>1
<1>5. entered' \subseteq Warehouse \X Row \X Qty
  BY <1>1, <1>2, <1>3 DEF Base, TypeInv
<1> HIDE DEF sheet
<1> QED
  BY <1>3, <1>4, <1>5, ActsAreBounded, SheetChanges DEF setCount

LEMMA resolveProductBase ==
  ASSUME Base, resolveProduct
  PROVE  Base'
<1>1. PICK r \in Row : flow' = [flow EXCEPT !.sheet = appendOffSheetRow(flow.sheet, r), !.touched = TRUE]
  BY DEF resolveProduct
<1>2. appendOffSheetRow(flow.sheet, r) \in Sheets /\ entered \subseteq Warehouse \X Row \X Qty
  BY SheetsMade DEF Base, TypeInv, Flows
<1> QED
  BY <1>1, <1>2, ActsAreBounded, SheetChanges DEF resolveProduct

LEMMA FillUncountedBase ==
  ASSUME Base, FillUncounted
  PROVE  Base'
<1>1. PICK sheet \in {fillUncountedToSystem(flow.of, flow.sheet), zeroUncounted(flow.sheet)} :
        /\ flow' = [flow EXCEPT !.sheet = sheet, !.touched = TRUE]
        /\ entered' = entered \cup {<<flow.of, r, sheet[r]>> : r \in Uncounted(flow.sheet)}
  BY DEF FillUncounted
<1>2. flow.of \in Warehouse /\ flow.sheet \in Sheets
  BY DEF FillUncounted, Shows, Base, TypeInv, Shape, FlowOK, Flows
<1>3. sheet \in Sheets
  BY <1>2, SheetsMade
<1>4. \A r \in Uncounted(flow.sheet) : r \in Row /\ sheet[r] \in Qty
  <2>1. ASSUME NEW r \in Uncounted(flow.sheet)
        PROVE  r \in Row /\ SystemQty(flow.of, r) \in Qty /\ 0 \in Qty
    BY <1>2, SheetsAre, OnHandIs, LinesAre, CountsAssumption DEF Uncounted, SystemQty
  <2>2. ASSUME NEW r \in Uncounted(flow.sheet)
        PROVE  sheet[r] \in {SystemQty(flow.of, r), 0}
    BY DEF fillUncountedToSystem, zeroUncounted, Uncounted
  <2> QED
    BY <2>1, <2>2
<1>5. entered' \subseteq Warehouse \X Row \X Qty
  BY <1>1, <1>2, <1>4 DEF Base, TypeInv
<1> QED
  BY <1>1, <1>3, <1>5, ActsAreBounded, SheetChanges DEF FillUncounted

LEMMA setWarehouseIdBase ==
  ASSUME Base, setWarehouseId
  PROVE  Base'
<1>1. PICK w \in Warehouse : flow' = [flow EXCEPT !.warehouse = w]
  BY DEF setWarehouseId
<1>2. w # None
  BY CountsAssumption
<1>3. /\ UNCHANGED <<server, cache, stale, task, acts, entered, mishaps>>
      /\ flow' \in Flows /\ flow'.warehouse = w /\ flow'.at = flow.at /\ flow'.mounted = flow.mounted
      /\ flow'.doc = flow.doc /\ flow'.opnameId = flow.opnameId /\ flow'.step = flow.step /\ flow'.of = flow.of
      /\ flow'.dialog = flow.dialog
  BY <1>1 DEF setWarehouseId, Base, TypeInv, Flows
<1> QED
  BY <1>2, <1>3 DEF Base, TypeInv, Shape, FlowOK, Attended

LEMMA StepsBase ==
  ASSUME Base, Steps
  PROVE  Base'
<1>1. TypeInv'
  BY DEF Steps, Base, TypeInv, Flows
<1>2. Shape'
  BY DEF Steps, Shows, Base, TypeInv, Shape, FlowOK, TaskOK, DocumentOK, Flows
<1>3. Attended'
  BY DEF Steps, Base, TypeInv, Attended, Flows
<1> QED
  BY <1>1, <1>2, <1>3 DEF Base

LEMMA DialogBase ==
  ASSUME Base, openConfirm \/ closeConfirm
  PROVE  Base'
<1>1. PICK b \in BOOLEAN : flow' = [flow EXCEPT !.dialog = b]
  BY DEF openConfirm, closeConfirm
<1>2. UNCHANGED <<server, cache, stale, task, acts, entered, mishaps>>
  BY DEF openConfirm, closeConfirm
<1>3. TypeInv'
  BY <1>1, <1>2 DEF Base, TypeInv, Flows
<1>4. Shape'
  BY <1>1, <1>2 DEF openConfirm, closeConfirm, Shows, Base, TypeInv, Shape, FlowOK, TaskOK, DocumentOK, Flows
<1>5. Attended'
  BY <1>1, <1>2 DEF Base, TypeInv, Attended, Flows
<1> QED
  BY <1>3, <1>4, <1>5 DEF Base

(* A page without a flow on it.                                            *)
LEMMA Pages ==
  /\ Away \in Flows /\ FlowOK(Away)
  /\ \A d \in Doc : OnRecord(d) \in Flows /\ FlowOK(OnRecord(d))
  /\ Away.at = "away" /\ ~Away.mounted /\ \A d \in Doc : OnRecord(d).at = "record" /\ ~OnRecord(d).mounted
<1>1. Away \in Flows /\ \A d \in Doc : OnRecord(d) \in Flows
  BY NoRowsIs DEF Away, OnRecord, Flows
<1>2. None \notin Doc
  BY CountsAssumption
<1> QED
  BY <1>1, <1>2 DEF Away, OnRecord, FlowOK

(* Leaving a page for another that has no flow, or not yet.                *)
LEMMA LeavingBase ==
  ASSUME Base, NEW page \in Flows, FlowOK(page), page.at # "new", ~page.mounted,
         flow' = page, task' = Unmounted(task), mishaps' = mishaps \cup LeftBehind,
         server' = server, cache' \in [Doc -> Documents \cup {None}],
         \A d \in Doc : cache'[d] # None => DocumentOK(cache'[d]),
         stale' \subseteq Doc, acts' \in 0..MaxActs, entered' = entered
  PROVE  Base'
<1>1. TypeInv'
  BY LeftTasks, LeftIsAMishap DEF Base, TypeInv, Mishap
<1>2. Shape'
  BY LeftTasks DEF Base, Shape
<1>3. Attended'
  <2>1. "left" \notin mishaps' => \A s \in Slot : task'[s].op = "idle"
    BY LeftTasks, NobodyLeft, LeftIsAMishap
  <2> QED
    BY <2>1, LeftTasks DEF Attended
<1> QED
  BY <1>1, <1>2, <1>3 DEF Base

LEMMA LeaveBase ==
  ASSUME Base, Leave
  PROVE  Base'
<1>1. \A d \in Doc : cache[d] # None => DocumentOK(cache[d])
  BY DEF Base, Shape
<1> QED
  BY <1>1, Pages, ActsAreBounded, LeavingBase DEF Leave, Base, TypeInv

LEMMA ReturnBase ==
  ASSUME Base, Return
  PROVE  Base'
<1>1. PICK d \in Doc : flow' = OnRecord(d) /\ stale' = stale \cup {d}
  BY DEF Return
<1>2. flow.at = "away" /\ UNCHANGED <<server, cache, task, acts, entered, mishaps>>
  BY DEF Return
<1>3. TypeInv'
  BY <1>1, <1>2, Pages DEF Base, TypeInv
<1>4. Shape'
  BY <1>1, <1>2, Pages DEF Base, Shape
<1>5. \A s \in Slot : ~task[s].mounted
  BY <1>2 DEF Base, Shape, FlowOK, Attended
<1>6. Attended'
  BY <1>1, <1>2, <1>5, Pages DEF Base, Attended
<1> QED
  BY <1>3, <1>4, <1>6 DEF Base

LEMMA RecordArrivesBase ==
  ASSUME Base, RecordArrives
  PROVE  Base'
<1> DEFINE d == flow.doc
<1>1. d \in Doc /\ cache' = [cache EXCEPT ![d] = server[d]] /\ stale' = stale \ {d}
      /\ UNCHANGED <<server, acts, entered>>
  BY DEF RecordArrives, Base, TypeInv
<1>2. cache' \in [Doc -> Documents \cup {None}] /\ stale' \subseteq Doc /\ acts' \in 0..MaxActs
      /\ \A e \in Doc : cache'[e] # None => DocumentOK(cache'[e])
  BY <1>1 DEF Base, TypeInv, Shape
<1> HIDE DEF d
<1>3. CASE UNCHANGED <<flow, task, mishaps>>
  BY <1>1, <1>2, <1>3 DEF Base, TypeInv, Shape, Attended
<1>4. CASE Replaced(d)
  <2>1. flow' = OnRecord(d) /\ task' = Unmounted(task) /\ mishaps' = mishaps \cup LeftBehind
    BY <1>4 DEF Replaced
  <2>2. /\ OnRecord(d) \in Flows /\ FlowOK(OnRecord(d)) /\ OnRecord(d).at # "new" /\ ~OnRecord(d).mounted
    BY <1>1, Pages
  <2> QED
    BY <1>1, <1>2, <2>1, <2>2, LeavingBase
<1> QED
  BY <1>3, <1>4 DEF RecordArrives, d

(* The flow of a draft that is resumed.                                    *)
LEMMA Resumed ==
  ASSUME Base, DraftResume
  PROVE  /\ flow.doc \in Doc /\ cache[flow.doc] \in Documents /\ cache[flow.doc].warehouse \in Warehouse
         /\ flow' \in Flows /\ FlowOK(flow')
         /\ flow'.at = "record" /\ flow'.mounted /\ ~flow'.touched /\ flow'.warehouse # None
         /\ flow'.doc = flow.doc /\ flow'.sheet = resumeSheet(cache[flow.doc])
         /\ flow'.of = cache[flow.doc].warehouse /\ flow'.of = flow'.warehouse
<1> DEFINE d == flow.doc
           sheet == resumeSheet(cache[d])
           w == cache[d].warehouse
<1>1. flow.at = "record" /\ d \in Doc
  BY DEF DraftResume, Base, TypeInv, Shape, FlowOK, Flows
<1>2. cache[d] \in Documents /\ cache[d].status = "draft" /\ DocumentOK(cache[d])
  BY <1>1 DEF DraftResume, Base, TypeInv, Shape
<1>3. w \in Warehouse /\ cache[d].lines \in Lines
  BY <1>2 DEF Documents, DocumentOK
<1>4. sheet \in Sheets
  BY <1>3, SheetsBuilt
<1>5. flow' = [OnRecord(d) EXCEPT !.mounted = TRUE, !.step = "count", !.opnameId = d,
                 !.warehouse = w, !.of = w, !.sheet = sheet]
  BY DEF DraftResume
<1> HIDE DEF d, sheet, w
<1>6. /\ flow' \in Flows /\ flow'.at = "record" /\ flow'.mounted /\ ~flow'.touched /\ flow'.doc = d /\ ~flow'.dialog
      /\ flow'.sheet = sheet /\ flow'.warehouse = w /\ flow'.of = w /\ flow'.opnameId = d
  BY <1>1, <1>3, <1>4, <1>5 DEF OnRecord, Away, Flows
<1>7. d # None /\ w # None
  BY <1>1, <1>3, CountsAssumption
<1>8. FlowOK(flow')
  BY <1>6, <1>7 DEF FlowOK
<1> QED
  BY <1>1, <1>2, <1>3, <1>6, <1>7, <1>8 DEF d, sheet, w

LEMMA DraftResumeBase ==
  ASSUME Base, DraftResume
  PROVE  Base'
<1>1. UNCHANGED <<server, cache, stale, task, acts, entered>>
      /\ mishaps' = mishaps \cup IF cache[flow.doc] = server[flow.doc] THEN {} ELSE {"behind"}
  BY DEF DraftResume
<1>2. TypeInv'
  BY <1>1, Resumed DEF Base, TypeInv, Mishap
<1>3. Shape'
  BY <1>1, Resumed DEF Base, Shape
<1>4. \A s \in Slot : ~task[s].mounted
  BY DEF DraftResume, Base, Attended
<1>5. Attended'
  BY <1>1, <1>4, Resumed DEF Base, Attended
<1> QED
  BY <1>2, <1>3, <1>5 DEF Base

(* What another user makes of a document: it is theirs, or as it was but   *)
(* for its status; an update between what a handler stored and its post is *)
(* one that was met, and a sheet of the document is behind.                *)
OthersMake(d, doc) ==
  /\ server[d].status = "draft" /\ server' = [server EXCEPT ![d] = doc]
  /\ doc \in Documents /\ DocumentOK(doc) /\ doc.status # "none"
  /\ \/ AllEntered(doc.warehouse, doc.lines, entered', mishaps')
     \/ doc.warehouse = server[d].warehouse /\ doc.lines = server[d].lines
  /\ doc.lines = server[d].lines \/ Behind(d) \subseteq mishaps'
  /\ doc.status = "draft" => \A s \in Slot : Preparing(d, task[s]) => "met" \in mishaps'
  /\ entered \subseteq entered' /\ entered' \subseteq Warehouse \X Row \X Qty
  /\ mishaps \subseteq mishaps' /\ mishaps' \subseteq mishaps \cup {"behind", "met"}
  /\ UNCHANGED <<flow, cache, stale, task>>

LEMMA OthersMakeSomething ==
  ASSUME Base, OtherUserActs
  PROVE  \E d \in Doc, doc \in Documents : OthersMake(d, doc)
<1>1. PICK d \in Doc : server[d].status = "draft" /\ (OtherUserPosts(d) \/ OtherUserUpdates(d) \/ OtherUserDeletes(d))
  BY DEF OtherUserActs
<1>2. UNCHANGED <<flow, cache, stale, task>> /\ server[d] \in Documents /\ DocumentOK(server[d])
      /\ entered \subseteq Warehouse \X Row \X Qty
  BY DEF OtherUserActs, Base, TypeInv, Shape
<1>3. Behind(d) \subseteq {"behind"}
  BY DEF Behind
<1>4. CASE OtherUserPosts(d)
  <2> DEFINE doc == [server[d] EXCEPT !.status = "posted"]
  <2>1. server' = [server EXCEPT ![d] = doc] /\ UNCHANGED <<entered, mishaps>>
    BY <1>4 DEF OtherUserPosts, Base, TypeInv
  <2>2. /\ doc \in Documents /\ doc.status = "posted"
        /\ doc.warehouse = server[d].warehouse /\ doc.lines = server[d].lines
    BY <1>2 DEF Documents
  <2>3. DocumentOK(doc)
    BY <1>1, <1>2, <2>2 DEF DocumentOK
  <2> HIDE DEF doc
  <2>4. OthersMake(d, doc)
    BY <1>1, <1>2, <2>1, <2>2, <2>3 DEF OthersMake
  <2> QED
    BY <2>2, <2>4
<1>5. CASE OtherUserUpdates(d)
  <2>1. PICK w \in Warehouse, r \in Row, q \in Qty :
          server' = [server EXCEPT ![d] = Counted(w, r, q)] /\ entered' = entered \cup {<<w, r, q>>}
    BY <1>5 DEF OtherUserUpdates
  <2>2. mishaps' = mishaps \cup Behind(d) \cup IF \E s \in Slot : Preparing(d, task[s]) THEN {"met"} ELSE {}
    BY <1>5 DEF OtherUserUpdates
  <2> DEFINE doc == Counted(w, r, q)
  <2>3. [i \in {r} |-> q] \in Lines /\ DOMAIN [i \in {r} |-> q] = {r}
    BY LinesAre
  <2>4. doc \in Documents /\ doc.status = "draft" /\ doc.warehouse = w /\ doc.lines = [i \in {r} |-> q]
    BY <2>3 DEF Counted, Documents
  <2>5. DocumentOK(doc)
    BY <2>4, CountsAssumption DEF DocumentOK
  <2>6. AllEntered(doc.warehouse, doc.lines, entered', mishaps')
    BY <2>1, <2>3, <2>4 DEF AllEntered
  <2>7. entered' \subseteq Warehouse \X Row \X Qty
    BY <1>2, <2>1
  <2>8. /\ mishaps \subseteq mishaps' /\ mishaps' \subseteq mishaps \cup {"behind", "met"}
        /\ Behind(d) \subseteq mishaps' /\ \A s \in Slot : Preparing(d, task[s]) => "met" \in mishaps'
    BY <1>3, <2>2
  <2>9. server' = [server EXCEPT ![d] = doc] /\ entered \subseteq entered'
    BY <2>1
  <2> HIDE DEF doc
  <2>10. OthersMake(d, doc)
    BY <1>1, <1>2, <2>4, <2>5, <2>6, <2>7, <2>8, <2>9 DEF OthersMake
  <2> QED
    BY <2>4, <2>10
<1>6. CASE OtherUserDeletes(d)
  <2>1. Deleted \in Documents /\ Deleted.status = "deleted" /\ Deleted.lines = NoRows /\ DocumentOK(Deleted)
    BY NoRowsIs DEF Deleted, NoDoc, Documents, DocumentOK
  <2>2. server' = [server EXCEPT ![d] = Deleted] /\ mishaps' = mishaps \cup Behind(d) /\ entered' = entered
    BY <1>6 DEF OtherUserDeletes
  <2>3. AllEntered(Deleted.warehouse, Deleted.lines, entered', mishaps')
    BY <2>1, NoRowsIs DEF AllEntered
  <2>4. OthersMake(d, Deleted)
    BY <1>1, <1>2, <1>3, <2>1, <2>2, <2>3 DEF OthersMake
  <2> QED
    BY <2>1, <2>4
<1> QED
  BY <1>1, <1>4, <1>5, <1>6

LEMMA OtherUserActsBase ==
  ASSUME Base, OtherUserActs
  PROVE  Base'
<1>1. PICK d \in Doc, doc \in Documents : OthersMake(d, doc)
  BY OthersMakeSomething
<1>2. acts' \in 0..MaxActs
  BY ActsAreBounded DEF OtherUserActs
<1>3. TypeInv'
  BY <1>1, <1>2 DEF OthersMake, Base, TypeInv, Mishap
<1>4. Shape'
  BY <1>1 DEF OthersMake, Base, TypeInv, Shape
<1>5. Attended'
  BY <1>1 DEF OthersMake, Base, Attended
<1> QED
  BY <1>3, <1>4, <1>5 DEF Base

(* Handlers: the base of the invariant where they begin, ...               *)
LEMMA StartingBase ==
  ASSUME Base, NEW t \in Tasks, Start(t), flow.mounted, flow.warehouse # None,
         t.op # "idle", Writes(t) => t.doc = flow.opnameId,
         TaskOK([t EXCEPT !.mounted = TRUE, !.warehouse = flow.warehouse]),
         mishaps' \in {mishaps, mishaps \cup Crossing},
         UNCHANGED <<server, flow, cache, stale, entered>>
  PROVE  Base'
<1> DEFINE new == [t EXCEPT !.mounted = TRUE, !.warehouse = flow.warehouse]
<1>1. PICK s \in Slot : task' = [task EXCEPT ![s] = new] /\ new \in Tasks /\ acts' \in 0..MaxActs
  BY Starts
<1>2. new.mounted /\ new.op = t.op /\ new.doc = t.doc
  BY DEF Tasks
<1> HIDE DEF new
<1>3. TypeInv'
  BY <1>1, LeftIsAMishap DEF Base, TypeInv, Mishap
<1>4. Shape'
  BY <1>1 DEF Base, TypeInv, Shape, new
<1>5. "left" \in mishaps' <=> "left" \in mishaps
  BY LeftIsAMishap
<1>6. \A x \in Slot : task'[x] = task[x] \/ task'[x] = new
  BY <1>1 DEF Base, TypeInv
<1>7. Attended'
  BY <1>2, <1>5, <1>6 DEF Base, Attended, Shape, FlowOK, Writes
<1> QED
  BY <1>3, <1>4, <1>7 DEF Base

(* What a handler that begins has in hand.                                 *)
LEMMA BeginsWith ==
  ASSUME Base, flow.mounted, flow.warehouse # None
  PROVE  /\ LET t == [NoTask EXCEPT !.op = "build", !.pc = "report"] IN
              t \in Tasks /\ t.op = "build" /\ TaskOK([t EXCEPT !.mounted = TRUE, !.warehouse = flow.warehouse])
         /\ \A op \in {"save", "post"} :
              /\ Writing(op) \in Tasks /\ Writing(op).op = op
              /\ Writing(op).doc = flow.opnameId /\ Writing(op).lines = countedLines(flow.sheet)
              /\ Writing(op).of = flow.of
              /\ Writing(op).pc = (IF flow.opnameId = None THEN "create" ELSE "put") /\ ~Writing(op).handled
              /\ TaskOK([Writing(op) EXCEPT !.mounted = TRUE, !.warehouse = flow.warehouse])
<1>1. /\ flow.warehouse \in Warehouse /\ flow.opnameId \in Doc \cup {None}
      /\ flow.of \in Warehouse \cup {None} /\ countedLines(flow.sheet) \in Bodies
  BY SheetsMade DEF Base, TypeInv, Flows
<1>2. NoTask \in Tasks /\ NoTask.doc = None /\ ~NoTask.handled
  BY NoRowsIs DEF NoTask, Tasks
<1>3. [NoTask EXCEPT !.op = "build", !.pc = "report"] \in Tasks
  BY <1>2 DEF Tasks
<1>4. LET t == [NoTask EXCEPT !.op = "build", !.pc = "report"] IN
        t \in Tasks /\ t.op = "build" /\ TaskOK([t EXCEPT !.mounted = TRUE, !.warehouse = flow.warehouse])
  BY <1>1, <1>2, <1>3 DEF Tasks, TaskOK
<1>5. ASSUME NEW op \in {"save", "post"}
      PROVE  /\ Writing(op) \in Tasks /\ Writing(op).op = op
             /\ Writing(op).doc = flow.opnameId /\ Writing(op).lines = countedLines(flow.sheet)
             /\ Writing(op).of = flow.of
             /\ Writing(op).pc = (IF flow.opnameId = None THEN "create" ELSE "put") /\ ~Writing(op).handled
  <2>1. Writing(op) \in Tasks
    BY <1>1, <1>2 DEF Writing, Tasks
  <2> QED
    BY <1>2, <2>1 DEF Writing, Tasks
<1>6. ASSUME NEW op \in {"save", "post"}
      PROVE  TaskOK([Writing(op) EXCEPT !.mounted = TRUE, !.warehouse = flow.warehouse])
  BY <1>1, <1>5 DEF Tasks, TaskOK
<1> QED
  BY <1>4, <1>5, <1>6

LEMMA BeginningBase ==
  ASSUME Base, buildSheetNow \/ saveDraft \/ postOpname
  PROVE  Base'
<1>1. flow.mounted /\ flow.warehouse # None
  BY DEF buildSheetNow, saveDraft, postOpname, Shows, Base, Shape, FlowOK
<1> QED
  BY <1>1, BeginsWith, StartingBase DEF buildSheetNow, saveDraft, postOpname, Writes

(* ... where their requests are handled, ...                               *)
LEMMA HandledTask ==
  ASSUME Base, NEW s \in Slot, NEW d \in Doc \cup {None}, Handled(s, d),
         task[s].op # "idle", task[s].pc = "report" <=> d = None
  PROVE  \E t \in Tasks :
           /\ task' = [task EXCEPT ![s] = t] /\ TaskOK(t)
           /\ t.op = task[s].op /\ t.pc = task[s].pc /\ t.warehouse = task[s].warehouse
           /\ t.lines = task[s].lines /\ t.mounted = task[s].mounted /\ t.handled /\ t.doc = d
           /\ t.of = task[s].of
<1> DEFINE t == [task[s] EXCEPT !.handled = TRUE, !.doc = d]
<1>1. task[s] \in Tasks /\ TaskOK(task[s])
  BY DEF Base, TypeInv, Shape
<1>2. task' = [task EXCEPT ![s] = t]
  BY DEF Handled, Base, TypeInv
<1>3. /\ t \in Tasks /\ t.op = task[s].op /\ t.pc = task[s].pc /\ t.warehouse = task[s].warehouse
      /\ t.lines = task[s].lines /\ t.mounted = task[s].mounted /\ t.handled /\ t.doc = d
      /\ t.of = task[s].of
  BY <1>1 DEF Tasks
<1> HIDE DEF t
<1>4. TaskOK(t)
  BY <1>1, <1>3, CountsAssumption DEF TaskOK, Tasks
<1> QED
  BY <1>2, <1>3, <1>4

(* A task with a slot of its own takes the place of another.               *)
LEMMA TaskChanges ==
  ASSUME Base, NEW s \in Slot, NEW t \in Tasks, TaskOK(t), task' = [task EXCEPT ![s] = t],
         t.op \in {task[s].op, "idle"}, t.mounted \in {task[s].mounted, FALSE},
         t.op # "idle" => t.mounted = task[s].mounted
  PROVE  /\ task' \in [Slot -> Tasks] /\ \A x \in Slot : TaskOK(task'[x])
         /\ \A x \in Slot : task'[x] = IF x = s THEN t ELSE task[x]
         /\ \A x \in Slot : task'[x].mounted => task[x].mounted
         /\ "left" \notin mishaps => \A x \in Slot : task'[x].op # "idle" => task'[x].mounted
<1>1. task' \in [Slot -> Tasks] /\ \A x \in Slot : task'[x] = IF x = s THEN t ELSE task[x]
  BY DEF Base, TypeInv
<1>2. \A x \in Slot : TaskOK(task'[x])
  BY <1>1 DEF Base, Shape
<1>3. \A x \in Slot : task'[x].mounted => task[x].mounted
  BY <1>1 DEF Tasks
<1>4. "left" \notin mishaps => \A x \in Slot : task'[x].op # "idle" => task'[x].mounted
  BY <1>1 DEF Base, Attended
<1> QED
  BY <1>1, <1>2, <1>3, <1>4

LEMMA HandlesBase ==
  ASSUME Base, NEW s \in Slot, Handles(s)
  PROVE  Base'
<1>1. /\ UNCHANGED <<flow, cache, stale, acts, entered, mishaps>>
      /\ task[s] \in Tasks /\ TaskOK(task[s]) /\ task[s].op # "idle" /\ None \notin Doc
  BY CountsAssumption DEF Handles, Create, Update, Post, Report, Sent, Base, TypeInv, Shape
<1>2. PICK d \in Doc \cup {None} :
        /\ Handled(s, d) /\ (task[s].pc = "report" <=> d = None)
        /\ task[s].doc # None => d = task[s].doc
  BY <1>1 DEF Handles, Create, Update, Post, Report, Sent, TaskOK, Tasks
<1>3. server' \in [Doc -> Documents] /\ \A e \in Doc : DocumentOK(server'[e])
  <2>1. CASE Create(s)
    <3>1. PICK e \in Doc : server' = [server EXCEPT ![e] = [status |-> "draft", warehouse |-> task[s].warehouse,
                                                           lines |-> task[s].lines]]
      BY <2>1 DEF Create
    <3>2. task[s].warehouse \in Warehouse /\ task[s].lines \in Lines
      BY <1>1, <2>1, ValidIs DEF Create, TaskOK, Tasks
    <3> QED
      BY <3>1, <3>2, CountsAssumption DEF Base, TypeInv, Shape, DocumentOK, Documents
  <2>2. CASE Update(s)
    <3>1. task[s].warehouse \in Warehouse /\ task[s].lines \in Lines /\ task[s].warehouse # None
      BY <1>1, <2>2, ValidIs, CountsAssumption DEF Update, TaskOK, Tasks
    <3>2. server' = [server EXCEPT ![task[s].doc].lines = task[s].lines,
                                   ![task[s].doc].warehouse = task[s].warehouse]
      BY <2>2 DEF Update
    <3> QED
      BY <3>1, <3>2 DEF Base, TypeInv, Shape, DocumentOK, Documents
  <2>3. CASE Post(s)
    <3>1. server' = [server EXCEPT ![task[s].doc].status = "posted"] /\ server[task[s].doc].status = "draft"
      BY <2>3 DEF Post
    <3> QED
      BY <3>1 DEF Base, TypeInv, Shape, DocumentOK, Documents
  <2>4. CASE Report(s)
    BY <2>4 DEF Report, Base, TypeInv, Shape
  <2> QED
    BY <2>1, <2>2, <2>3, <2>4 DEF Handles
<1>4. PICK t \in Tasks :
        /\ task' = [task EXCEPT ![s] = t] /\ TaskOK(t) /\ t.op = task[s].op /\ t.mounted = task[s].mounted
        /\ t.doc = d
  BY <1>1, <1>2, HandledTask
<1>5. /\ task' \in [Slot -> Tasks] /\ \A x \in Slot : TaskOK(task'[x])
      /\ \A x \in Slot : task'[x].mounted => task[x].mounted
      /\ \A x \in Slot : task'[x] = IF x = s THEN t ELSE task[x]
      /\ "left" \notin mishaps => \A x \in Slot : task'[x].op # "idle" => task'[x].mounted
  BY <1>4, TaskChanges
<1>6. TypeInv' /\ Shape'
  BY <1>1, <1>3, <1>5 DEF Base, TypeInv, Shape
<1>7. flow.at = "record" => flow.doc # None
  BY DEF Base, Shape, FlowOK
<1>8. Attended'
  BY <1>1, <1>2, <1>4, <1>5, <1>7 DEF Base, Attended, Writes
<1> QED
  BY <1>6, <1>8 DEF Base

(* ... and where they go on: at their end or with their next request, with *)
(* the flow as they leave it.                                              *)
LEMMA GoingOnBase ==
  ASSUME Base, NEW s \in Slot, NEW t \in Tasks, TaskOK(t), task' = [task EXCEPT ![s] = t],
         t.op \in {task[s].op, "idle"}, t.op # "idle" => t.mounted = task[s].mounted /\ t.doc = task[s].doc,
         NEW f \in Flows, FlowOK(f), flow' = f, f.at = flow.at, f.doc = flow.doc, f.mounted = flow.mounted,
         f.warehouse = flow.warehouse,
         mishaps' \in {mishaps, mishaps \cup {"lost"}, mishaps \cup {"refused"}, mishaps \cup {"late"}},
         UNCHANGED <<server, cache, stale, acts, entered>>
  PROVE  Base'
<1>1. t.mounted \in {task[s].mounted, FALSE} /\ (Writes(t) => t.op = task[s].op /\ t.doc = task[s].doc)
  BY DEF TaskOK, Tasks, Writes
<1>2. /\ task' \in [Slot -> Tasks] /\ \A x \in Slot : TaskOK(task'[x])
      /\ \A x \in Slot : task'[x] = IF x = s THEN t ELSE task[x]
      /\ \A x \in Slot : task'[x].mounted => task[x].mounted
      /\ "left" \notin mishaps => \A x \in Slot : task'[x].op # "idle" => task'[x].mounted
  BY <1>1, TaskChanges
<1>3. mishaps' \subseteq Mishap /\ ("left" \in mishaps' <=> "left" \in mishaps)
  BY DEF Base, TypeInv, Mishap
<1>4. TypeInv' /\ Shape'
  BY <1>2, <1>3 DEF Base, TypeInv, Shape
<1>5. Attended'
  BY <1>1, <1>2, <1>3 DEF Base, Attended, Writes
<1> QED
  BY <1>4, <1>5 DEF Base

(* A handler that is at its end.                                           *)
LEMMA Ended == NoTask \in Tasks /\ TaskOK(NoTask) /\ NoTask.op = "idle" /\ NoTask.doc = None
               /\ ~NoTask.mounted /\ NoTask.lines = NoRows
BY NoRowsIs DEF NoTask, Tasks, TaskOK

(* What it sets on the flow, if that is still there.                       *)
LEMMA SetsOK ==
  ASSUME Base, NEW s \in Slot, task[s].op # "idle"
  PROVE  /\ flow \in Flows /\ FlowOK(flow) /\ task[s] \in Tasks /\ TaskOK(task[s])
         /\ task[s].mounted =>
              /\ \A sheet \in Sheets :
                   LET f == [flow EXCEPT !.step = "count", !.of = task[s].warehouse, !.touched = TRUE, !.sheet = sheet] IN
                   /\ f \in Flows /\ FlowOK(f) /\ f.at = flow.at /\ f.doc = flow.doc /\ f.mounted = flow.mounted
                   /\ f.warehouse = flow.warehouse /\ f.touched /\ f.opnameId = flow.opnameId /\ f.sheet = sheet
                   /\ f.of = task[s].warehouse
              /\ Writes(task[s]) =>
                   LET f == [flow EXCEPT !.opnameId = task[s].doc] IN
                   /\ f \in Flows /\ FlowOK(f) /\ f.at = flow.at /\ f.doc = flow.doc /\ f.mounted = flow.mounted
                   /\ f.warehouse = flow.warehouse /\ f.touched = flow.touched /\ f.opnameId = task[s].doc
                   /\ f.sheet = flow.sheet /\ f.of = flow.of /\ f.step = flow.step
         /\ LET f == [flow EXCEPT !.dialog = FALSE] IN
              /\ f \in Flows /\ FlowOK(f) /\ f.at = flow.at /\ f.doc = flow.doc /\ f.mounted = flow.mounted
              /\ f.warehouse = flow.warehouse /\ f.touched = flow.touched /\ f.opnameId = flow.opnameId
              /\ f.sheet = flow.sheet /\ f.of = flow.of /\ f.step = flow.step
<1>1. flow \in Flows /\ FlowOK(flow) /\ task[s] \in Tasks /\ TaskOK(task[s])
  BY DEF Base, TypeInv, Shape
<1>2. task[s].warehouse \in Warehouse /\ task[s].warehouse # None
  BY <1>1, CountsAssumption DEF TaskOK
<1>3. ASSUME task[s].mounted, NEW sheet \in Sheets
      PROVE  LET f == [flow EXCEPT !.step = "count", !.of = task[s].warehouse, !.touched = TRUE, !.sheet = sheet] IN
             /\ f \in Flows /\ FlowOK(f) /\ f.at = flow.at /\ f.doc = flow.doc /\ f.mounted = flow.mounted
             /\ f.warehouse = flow.warehouse /\ f.touched /\ f.opnameId = flow.opnameId /\ f.sheet = sheet
             /\ f.of = task[s].warehouse
  <2>1. flow.mounted /\ flow.warehouse # None
    BY <1>3 DEF Base, Attended
  <2> QED
    BY <1>1, <1>2, <2>1 DEF Flows, FlowOK
<1>4. ASSUME task[s].mounted, Writes(task[s])
      PROVE  LET f == [flow EXCEPT !.opnameId = task[s].doc] IN
             /\ f \in Flows /\ FlowOK(f) /\ f.at = flow.at /\ f.doc = flow.doc /\ f.mounted = flow.mounted
             /\ f.warehouse = flow.warehouse /\ f.touched = flow.touched /\ f.opnameId = task[s].doc
             /\ f.sheet = flow.sheet /\ f.of = flow.of /\ f.step = flow.step
  <2>1. flow.at = "record" => task[s].doc = flow.doc
    BY <1>4 DEF Base, Attended
  <2>2. task[s].doc \in Doc \cup {None}
    BY <1>1 DEF Tasks
  <2> QED
    BY <1>1, <2>1, <2>2 DEF Flows, FlowOK
<1>5. LET f == [flow EXCEPT !.dialog = FALSE] IN
      /\ f \in Flows /\ FlowOK(f) /\ f.at = flow.at /\ f.doc = flow.doc /\ f.mounted = flow.mounted
      /\ f.warehouse = flow.warehouse /\ f.touched = flow.touched /\ f.opnameId = flow.opnameId
      /\ f.sheet = flow.sheet /\ f.of = flow.of /\ f.step = flow.step
  BY <1>1 DEF Flows, FlowOK
<1> QED
  BY <1>1, <1>3, <1>4, <1>5

(* A sheet without a count.                                                *)
Uncounting(counts) == \A r \in DOMAIN counts : counts[r] = None

LEMMA UncountingIsEntered ==
  ASSUME NEW counts, Uncounting(counts), NEW w, NEW ins, NEW mis
  PROVE  AllEntered(w, counts, ins, mis)
BY CountsAssumption DEF Uncounting, AllEntered

(* How a handler goes on, as what it was becomes t, and the flow f.  It    *)
(* ends, or the post follows what was saved; the flow learns of the        *)
(* document, unless the answer was lost; the sheet is kept or built anew.  *)
GoesOnAs(s, t, f) ==
  LET was == task[s] IN
  /\ was.op # "idle"
  /\ task' = [task EXCEPT ![s] = t] /\ TaskOK(t)
  /\ \/ t = NoTask
     \/ /\ was.op = "post" /\ was.pc \in {"create", "put"}
        /\ t.op = "post" /\ t.pc = "post" /\ ~t.handled /\ t.doc = was.doc /\ t.lines = was.lines
        /\ t.warehouse = was.warehouse /\ t.of = was.of /\ t.mounted = was.mounted
        /\ was.handled \/ "refused" \in mishaps'
        /\ was.mounted => f.opnameId = was.doc
  /\ flow' = f /\ FlowOK(f)
  /\ f.at = flow.at /\ f.doc = flow.doc /\ f.mounted = flow.mounted /\ f.warehouse = flow.warehouse
  /\ f.opnameId = flow.opnameId \/ (Writes(was) /\ f.opnameId = was.doc)
  /\ was.mounted /\ was.pc = "create" /\ was.handled /\ "lost" \notin mishaps' => f.opnameId = was.doc
  /\ \/ f.sheet = flow.sheet /\ f.touched = flow.touched /\ f.of = flow.of /\ f.step = flow.step
     \/ f.touched /\ Uncounting(f.sheet) /\ (f.of = f.warehouse \/ "late" \in mishaps')
  /\ mishaps' \in {mishaps, mishaps \cup {"lost"}, mishaps \cup {"refused"}, mishaps \cup {"late"}}
  /\ UNCHANGED <<server, cache, stale, acts, entered>>

(* The page of the record that was posted takes the place of another.      *)
GoesToRecord(s) ==
  LET d == task[s].doc IN
  /\ task[s].op = "post" /\ d \in Doc
  /\ flow' = OnRecord(d) /\ stale' = stale \cup {d}
  /\ task' = [Unmounted(task) EXCEPT ![s] = NoTask]
  /\ mishaps' = mishaps \cup IF \E t \in Slot \ {s} : task[t].mounted THEN {"left"} ELSE {}
  /\ UNCHANGED <<server, cache, acts, entered>>

LEMMA BuiltIsUncounted ==
  Uncounting(NoRows) /\ \A w : Uncounting(buildSheet(w))
BY DEF Uncounting, NoRows, buildSheet

LEMMA SheetArrivesAs ==
  ASSUME Base, NEW s \in Slot, SheetArrives(s)
  PROVE  \E t \in Tasks, f \in Flows : GoesOnAs(s, t, f)
<1>1. PICK how \in Answer(s) :
        /\ Asking(s, "build", "report") /\ End(s)
        /\ mishaps' = mishaps \cup IF how = "lost" THEN {"lost"} ELSE Late(s)
        /\ Sets(s, IF how = "lost" THEN flow ELSE
                     [flow EXCEPT !.step = "count", !.of = task[s].warehouse, !.touched = TRUE,
                        !.sheet = IF how = "ok" THEN buildSheet(task[s].warehouse) ELSE NoRows])
        /\ UNCHANGED <<server, cache, stale, acts, entered>>
  BY DEF SheetArrives
<1>2. task[s].op = "build" /\ task[s].pc = "report" /\ ~Writes(task[s]) /\ task[s].warehouse \in Warehouse
  BY <1>1, CountsAssumption DEF Asking, Writes, Base, Shape, TaskOK
<1>3. PICK sheet \in Sheets :
        /\ Uncounting(sheet)
        /\ Sets(s, IF how = "lost" THEN flow ELSE
                     [flow EXCEPT !.step = "count", !.of = task[s].warehouse, !.touched = TRUE, !.sheet = sheet])
  <2> DEFINE sheet == IF how = "ok" THEN buildSheet(task[s].warehouse) ELSE NoRows
  <2>1. sheet \in Sheets /\ Uncounting(sheet)
    BY <1>2, SheetsBuilt, NoRowsIs, BuiltIsUncounted
  <2>2. Sets(s, IF how = "lost" THEN flow ELSE
                  [flow EXCEPT !.step = "count", !.of = task[s].warehouse, !.touched = TRUE, !.sheet = sheet])
    BY <1>1
  <2> HIDE DEF sheet
  <2> QED
    BY <2>1, <2>2
<1>4. /\ task' = [task EXCEPT ![s] = NoTask]
      /\ mishaps' \in {mishaps, mishaps \cup {"lost"}, mishaps \cup {"late"}}
  BY <1>1 DEF End, Late
<1>5. CASE task[s].mounted /\ how # "lost"
  <2> DEFINE f == [flow EXCEPT !.step = "count", !.of = task[s].warehouse, !.touched = TRUE, !.sheet = sheet]
  <2>1. /\ f \in Flows /\ FlowOK(f) /\ f.at = flow.at /\ f.doc = flow.doc /\ f.mounted = flow.mounted
        /\ f.warehouse = flow.warehouse /\ f.touched /\ f.opnameId = flow.opnameId /\ f.sheet = sheet
        /\ f.of = task[s].warehouse
    BY <1>2, <1>5, SetsOK
  <2>2. flow' = f
    BY <1>3, <1>5 DEF Sets
  <2>3. task[s].warehouse = flow.warehouse \/ "late" \in mishaps'
    BY <1>1, <1>5 DEF Late
  <2> HIDE DEF f
  <2>4. GoesOnAs(s, NoTask, f)
    BY <1>1, <1>2, <1>3, <1>4, <2>1, <2>2, <2>3, Ended DEF GoesOnAs
  <2> QED
    BY <2>1, <2>4, Ended
<1>6. CASE ~(task[s].mounted /\ how # "lost")
  <2>1. flow' = flow
    BY <1>3, <1>6 DEF Sets
  <2>2. GoesOnAs(s, NoTask, flow)
    BY <1>1, <1>2, <1>4, <2>1, Ended, SetsOK DEF GoesOnAs
  <2> QED
    BY <1>2, <2>2, Ended, SetsOK
<1> QED
  BY <1>5, <1>6

LEMMA SavedAs ==
  ASSUME Base, NEW s \in Slot, Saved(s)
  PROVE  \E t \in Tasks, f \in Flows : GoesOnAs(s, t, f)
<1>1. PICK how \in Answer(s) :
        /\ Asking(s, "save", "create") \/ Asking(s, "save", "put")
        /\ Sets(s, IF how = "ok" THEN [flow EXCEPT !.opnameId = task[s].doc] ELSE flow)
        /\ End(s) /\ Noting(how) /\ UNCHANGED <<server, cache, stale, acts, entered>>
  BY DEF Saved
<1>2. task[s].op = "save" /\ Writes(task[s])
  BY <1>1 DEF Asking, Writes
<1>3. task' = [task EXCEPT ![s] = NoTask] /\ mishaps' = mishaps \cup IF how = "lost" THEN {"lost"} ELSE {}
  BY <1>1 DEF End, Noting
<1>4. task[s].handled => how = "ok" \/ "lost" \in mishaps'
  BY <1>3 DEF Answer
<1>5. CASE task[s].mounted /\ how = "ok"
  <2> DEFINE f == [flow EXCEPT !.opnameId = task[s].doc]
  <2>1. /\ f \in Flows /\ FlowOK(f) /\ f.at = flow.at /\ f.doc = flow.doc /\ f.mounted = flow.mounted
        /\ f.warehouse = flow.warehouse /\ f.touched = flow.touched /\ f.opnameId = task[s].doc
        /\ f.sheet = flow.sheet /\ f.of = flow.of /\ f.step = flow.step
    BY <1>2, <1>5, SetsOK
  <2>2. flow' = f
    BY <1>1, <1>5 DEF Sets
  <2> HIDE DEF f
  <2>3. GoesOnAs(s, NoTask, f)
    BY <1>1, <1>2, <1>3, <2>1, <2>2, Ended DEF GoesOnAs
  <2> QED
    BY <2>1, <2>3, Ended
<1>6. CASE ~(task[s].mounted /\ how = "ok")
  <2>1. flow' = flow
    BY <1>1, <1>6 DEF Sets
  <2>2. GoesOnAs(s, NoTask, flow)
    BY <1>1, <1>2, <1>3, <1>4, <1>6, <2>1, Ended, SetsOK DEF GoesOnAs
  <2> QED
    BY <1>2, <2>2, Ended, SetsOK
<1> QED
  BY <1>5, <1>6

LEMMA PreparedAs ==
  ASSUME Base, NEW s \in Slot, Prepared(s)
  PROVE  \E t \in Tasks, f \in Flows : GoesOnAs(s, t, f)
<1>1. PICK how \in Answer(s) :
        /\ Asking(s, "post", "create") \/ Asking(s, "post", "put")
        /\ IF how = "ok" \/ (how = "refused" /\ task[s].pc = "put")
           THEN Sets(s, [flow EXCEPT !.opnameId = task[s].doc]) /\ NextRequest(s, "post")
           ELSE Sets(s, [flow EXCEPT !.dialog = FALSE]) /\ End(s)
        /\ mishaps' = mishaps \cup IF how = "ok" THEN {} ELSE {how}
        /\ UNCHANGED <<server, cache, stale, acts, entered>>
  BY DEF Prepared
<1>2. task[s].op = "post" /\ Writes(task[s]) /\ task[s].pc \in {"create", "put"}
      /\ task[s] \in Tasks /\ TaskOK(task[s]) /\ flow \in Flows /\ FlowOK(flow)
  BY <1>1 DEF Asking, Writes, Base, TypeInv, Shape
<1>3. /\ how \in {"ok", "refused", "lost"} /\ (how = "ok" => task[s].handled)
      /\ (task[s].handled => how \in {"ok", "lost"})
  BY DEF Answer
<1>4. mishaps' \in {mishaps, mishaps \cup {"lost"}, mishaps \cup {"refused"}}
      /\ (how # "ok" => how \in mishaps')
  BY <1>1, <1>3
<1>5. CASE how = "ok" \/ (how = "refused" /\ task[s].pc = "put")
  <2> DEFINE t == [task[s] EXCEPT !.pc = "post", !.handled = FALSE]
             g == [flow EXCEPT !.opnameId = task[s].doc]
             f == IF task[s].mounted THEN g ELSE flow
  <2>1. /\ t \in Tasks /\ t.op = task[s].op /\ t.pc = "post" /\ ~t.handled /\ t.doc = task[s].doc
        /\ t.lines = task[s].lines /\ t.warehouse = task[s].warehouse /\ t.mounted = task[s].mounted
        /\ t.of = task[s].of
    BY <1>2 DEF Tasks
  <2>2. TaskOK(t)
    BY <1>2, <1>3, <1>5, <2>1 DEF TaskOK
  <2>3. task' = [task EXCEPT ![s] = t]
    BY <1>1, <1>5 DEF NextRequest, Base, TypeInv
  <2>4. task[s].mounted =>
          /\ g \in Flows /\ FlowOK(g) /\ g.at = flow.at /\ g.doc = flow.doc /\ g.mounted = flow.mounted
          /\ g.warehouse = flow.warehouse /\ g.touched = flow.touched /\ g.opnameId = task[s].doc
          /\ g.sheet = flow.sheet /\ g.of = flow.of /\ g.step = flow.step
    BY <1>2, SetsOK
  <2>5. flow' = f
    BY <1>1, <1>5 DEF Sets
  <2> HIDE DEF t, g
  <2>6. f \in Flows /\ GoesOnAs(s, t, f)
    <3>1. CASE task[s].mounted
      BY <1>1, <1>2, <1>3, <1>4, <1>5, <2>1, <2>2, <2>3, <2>4, <2>5, <3>1 DEF GoesOnAs
    <3>2. CASE ~task[s].mounted
      BY <1>1, <1>2, <1>3, <1>4, <1>5, <2>1, <2>2, <2>3, <2>5, <3>2 DEF GoesOnAs
    <3> QED
      BY <3>1, <3>2
  <2> QED
    BY <2>1, <2>6
<1>6. CASE ~(how = "ok" \/ (how = "refused" /\ task[s].pc = "put"))
  <2> DEFINE g == [flow EXCEPT !.dialog = FALSE]
             f == IF task[s].mounted THEN g ELSE flow
  <2>1. task' = [task EXCEPT ![s] = NoTask] /\ flow' = f
    BY <1>1, <1>6 DEF End, Sets
  <2>2. /\ g \in Flows /\ FlowOK(g) /\ g.at = flow.at /\ g.doc = flow.doc /\ g.mounted = flow.mounted
        /\ g.warehouse = flow.warehouse /\ g.touched = flow.touched /\ g.opnameId = flow.opnameId
        /\ g.sheet = flow.sheet /\ g.of = flow.of /\ g.step = flow.step
    BY <1>2, SetsOK
  <2>3. task[s].pc = "create" /\ task[s].handled => "lost" \in mishaps'
    BY <1>3, <1>4, <1>6
  <2> HIDE DEF g
  <2>4. f \in Flows /\ GoesOnAs(s, NoTask, f)
    BY <1>1, <1>2, <1>4, <2>1, <2>2, <2>3, Ended DEF GoesOnAs
  <2> QED
    BY <2>4, Ended
<1> QED
  BY <1>5, <1>6

LEMMA PostedAs ==
  ASSUME Base, NEW s \in Slot, Posted(s)
  PROVE  GoesToRecord(s) \/ \E t \in Tasks, f \in Flows : GoesOnAs(s, t, f)
<1> DEFINE d == task[s].doc
<1>1. PICK how \in Answer(s) :
        /\ Asking(s, "post", "post")
        /\ IF how # "ok"
           THEN Sets(s, [flow EXCEPT !.dialog = FALSE]) /\ End(s) /\ Noting(how) /\ UNCHANGED stale
           ELSE IF flow.at = "record" /\ flow.doc = d
           THEN End(s) /\ UNCHANGED <<flow, stale, mishaps>>
           ELSE /\ flow' = OnRecord(d) /\ stale' = stale \cup {d}
                /\ task' = [Unmounted(task) EXCEPT ![s] = NoTask]
                /\ mishaps' = mishaps \cup IF \E t \in Slot \ {s} : task[t].mounted THEN {"left"} ELSE {}
        /\ UNCHANGED <<server, cache, acts, entered>>
  BY DEF Posted
<1>2. task[s].op = "post" /\ Writes(task[s]) /\ task[s].pc = "post"
      /\ task[s] \in Tasks /\ TaskOK(task[s]) /\ flow \in Flows /\ FlowOK(flow)
  BY <1>1 DEF Asking, Writes, Base, TypeInv, Shape
<1>3. d \in Doc
  BY <1>2 DEF TaskOK, Tasks
<1> HIDE DEF d
<1>4. CASE how # "ok"
  <2> DEFINE g == [flow EXCEPT !.dialog = FALSE]
             f == IF task[s].mounted THEN g ELSE flow
  <2>1. task' = [task EXCEPT ![s] = NoTask] /\ flow' = f /\ UNCHANGED stale
        /\ mishaps' \in {mishaps, mishaps \cup {"lost"}}
    BY <1>1, <1>4 DEF End, Sets, Noting
  <2>2. /\ g \in Flows /\ FlowOK(g) /\ g.at = flow.at /\ g.doc = flow.doc /\ g.mounted = flow.mounted
        /\ g.warehouse = flow.warehouse /\ g.touched = flow.touched /\ g.opnameId = flow.opnameId
        /\ g.sheet = flow.sheet /\ g.of = flow.of /\ g.step = flow.step
    BY <1>2, SetsOK
  <2> HIDE DEF g
  <2>3. f \in Flows /\ GoesOnAs(s, NoTask, f)
    BY <1>1, <1>2, <2>1, <2>2, Ended DEF GoesOnAs
  <2> QED
    BY <2>3, Ended
<1>5. CASE how = "ok" /\ flow.at = "record" /\ flow.doc = d
  <2>1. task' = [task EXCEPT ![s] = NoTask] /\ UNCHANGED <<flow, stale, mishaps>>
    BY <1>1, <1>5 DEF End
  <2>2. GoesOnAs(s, NoTask, flow)
    BY <1>1, <1>2, <2>1, Ended DEF GoesOnAs
  <2> QED
    BY <1>2, <2>2, Ended
<1>6. CASE how = "ok" /\ ~(flow.at = "record" /\ flow.doc = d)
  BY <1>1, <1>2, <1>3, <1>6 DEF GoesToRecord, d
<1> QED
  BY <1>4, <1>5, <1>6

LEMMA ContinuesBase ==
  ASSUME Base, NEW s \in Slot, Continues(s)
  PROVE  Base'
<1>1. GoesToRecord(s) \/ \E t \in Tasks, f \in Flows : GoesOnAs(s, t, f)
  BY SheetArrivesAs, SavedAs, PreparedAs, PostedAs DEF Continues
<1>2. ASSUME NEW t \in Tasks, NEW f \in Flows, GoesOnAs(s, t, f)
      PROVE  Base'
  <2>1. /\ t.op \in {task[s].op, "idle"}
        /\ t.op # "idle" => t.mounted = task[s].mounted /\ t.doc = task[s].doc
    BY <1>2, Ended DEF GoesOnAs
  <2> QED
    BY <1>2, <2>1, GoingOnBase DEF GoesOnAs
<1>3. CASE GoesToRecord(s)
  <2> DEFINE d == task[s].doc
  <2>1. /\ flow' = OnRecord(d) /\ OnRecord(d) \in Flows /\ FlowOK(OnRecord(d))
        /\ OnRecord(d).at = "record" /\ ~OnRecord(d).mounted /\ stale' \subseteq Doc
    BY <1>3, Pages DEF GoesToRecord, Base, TypeInv
  <2>2. \A x \in Slot : task'[x] = IF x = s THEN NoTask ELSE Unmounted(task)[x]
    BY <1>3, LeftTasks DEF GoesToRecord
  <2>3. task' \in [Slot -> Tasks] /\ \A x \in Slot : TaskOK(task'[x]) /\ ~task'[x].mounted
    <3>1. task' \in [Slot -> Tasks]
      BY <1>3, LeftTasks, Ended DEF GoesToRecord
    <3> QED
      BY <2>2, <3>1, LeftTasks, Ended
  <2>4. "left" \notin mishaps' => \A x \in Slot : task'[x].op = "idle"
    BY <1>3, <2>2, LeftTasks, Ended DEF GoesToRecord, Base, Attended
  <2>5. mishaps' \subseteq Mishap /\ UNCHANGED <<server, cache, acts, entered>>
    BY <1>3 DEF GoesToRecord, Base, TypeInv, Mishap
  <2> HIDE DEF d
  <2>6. TypeInv' /\ Shape'
    BY <2>1, <2>3, <2>5 DEF Base, TypeInv, Shape
  <2>7. Attended'
    BY <2>1, <2>3, <2>4 DEF Attended
  <2> QED
    BY <2>6, <2>7 DEF Base
<1> QED
  BY <1>1, <1>2, <1>3

(* The base as a whole.                                                    *)
LEMMA BaseInit == Init => Base
<1> SUFFICES ASSUME Init
             PROVE  Base
  OBVIOUS
<1>1. /\ cache = [d \in Doc |-> None] /\ task = [s \in Slot |-> NoTask] /\ acts = 0 /\ mishaps = {}
  BY DEF Init
<1>2. NoDoc \in Documents /\ DocumentOK(NoDoc)
  BY NoRowsIs DEF NoDoc, Documents, DocumentOK
<1>3. Blank \in Flows /\ FlowOK(Blank) /\ Blank.mounted
  BY Pages DEF Blank, Away, Flows, FlowOK
<1>4. /\ server \in [Doc -> Documents] /\ \A d \in Doc : DocumentOK(server[d])
      /\ flow \in Flows /\ FlowOK(flow)
      /\ stale \subseteq Doc /\ entered \subseteq Warehouse \X Row \X Qty
  <2>1. CASE NewOpname
    BY <1>2, <1>3, <2>1 DEF NewOpname
  <2>2. ASSUME NEW d \in Doc, NEW w \in Warehouse, NEW r \in Row, NEW q \in Qty, DraftOpname(d, w, r, q)
        PROVE  /\ server \in [Doc -> Documents] /\ \A e \in Doc : DocumentOK(server[e])
               /\ flow \in Flows /\ FlowOK(flow)
               /\ stale \subseteq Doc /\ entered \subseteq Warehouse \X Row \X Qty
    <3>0. DraftOpname(d, w, r, q)
      BY <2>2
    <3> DEFINE doc == [status |-> "draft", warehouse |-> w, lines |-> [i \in {r} |-> q]]
    <3>1. [i \in {r} |-> q] \in Lines
      BY LinesAre
    <3>2. doc \in Documents /\ DocumentOK(doc)
      BY <3>1, CountsAssumption DEF Documents, DocumentOK
    <3>3. server = [e \in Doc |-> IF e # d THEN NoDoc ELSE doc]
      BY <3>0 DEF DraftOpname
    <3> HIDE DEF doc
    <3>4. server \in [Doc -> Documents] /\ \A e \in Doc : DocumentOK(server[e])
      BY <1>2, <3>2, <3>3
    <3> QED
      BY <3>0, <3>4, Pages DEF DraftOpname
  <2> QED
    BY <2>1, <2>2 DEF Init
<1>5. TypeInv
  BY <1>1, <1>4, Ended, CountsAssumption DEF TypeInv
<1>6. Shape /\ Attended
  BY <1>1, <1>4, Ended DEF Shape, Attended
<1> QED
  BY <1>5, <1>6 DEF Base

LEMMA BaseStep == Base /\ [Next]_vars => Base'
<1> SUFFICES ASSUME Base, [Next]_vars
             PROVE  Base'
  OBVIOUS
<1>1. CASE UNCHANGED vars
  BY <1>1 DEF vars, Base, TypeInv, Shape, Attended
<1>2. CASE Arrivals
  BY <1>2, RecordArrivesBase, DraftResumeBase DEF Arrivals
<1>3. CASE UserActs
  BY <1>3, setWarehouseIdBase, setCountBase, resolveProductBase, StepsBase, FillUncountedBase,
     DialogBase, LeaveBase, ReturnBase, BeginningBase DEF UserActs
<1>4. CASE OtherUserActs
  BY <1>4, OtherUserActsBase
<1>5. ASSUME NEW s \in Slot, Handles(s) \/ Continues(s)
      PROVE  Base'
  BY <1>5, HandlesBase, ContinuesBase
<1> QED
  BY <1>1, <1>2, <1>3, <1>4, <1>5 DEF Next

-----------------------------------------------------------------------------
(* Counts that were entered.                                               *)

(* Whatever counts there are now were there before, or entered now.        *)
LEMMA EnteredMore ==
  ASSUME NEW w, NEW counts, NEW ins, NEW more, NEW mis, NEW worse,
         AllEntered(w, counts, ins, mis), ins \subseteq more, mis \subseteq worse
  PROVE  AllEntered(w, counts, more, worse)
BY DEF AllEntered

(* What is sent was entered for the warehouse it is sent to.               *)
LEMMA CountsSent ==
  ASSUME Base, Matches, Entered, flow.step # "setup"
  PROVE  AllEntered(flow.warehouse, countedLines(flow.sheet), entered, mishaps)
<1>1. AllEntered(flow.of, flow.sheet, entered, mishaps) /\ (flow.of = flow.warehouse \/ "late" \in mishaps)
  BY DEF Entered, Matches
<1> QED
  BY <1>1 DEF AllEntered, countedLines, Restrict

(* The sheet changes, and what is typed or filled in is entered.           *)
LEMMA EnteredOnSheet ==
  ASSUME Base, Entered, UNCHANGED <<server, cache, task, mishaps>>, entered \subseteq entered',
         AllEntered(flow'.of, flow'.sheet, entered', mishaps)
  PROVE  Entered'
<1>1. \A w, counts : AllEntered(w, counts, entered, mishaps) => AllEntered(w, counts, entered', mishaps)
  BY EnteredMore
<1> QED
  BY <1>1 DEF Entered

(* Pages, sheets and handlers come and go, and nothing is entered.         *)
LEMMA EnteredElsewhere ==
  ASSUME Base, Entered, mishaps \subseteq mishaps', entered' = entered,
         \A d \in Doc : cache'[d] \in {cache[d], server[d]},
         \A d \in Doc : \/ server'[d].warehouse = server[d].warehouse /\ server'[d].lines = server[d].lines
                       \/ AllEntered(server'[d].warehouse, server'[d].lines, entered, mishaps),
         \A x \in Slot : AllEntered(task'[x].warehouse, task'[x].lines, entered, mishaps),
         AllEntered(flow'.of, flow'.sheet, entered, mishaps)
  PROVE  Entered'
<1>1. \A w, counts : AllEntered(w, counts, entered, mishaps) => AllEntered(w, counts, entered, mishaps')
  BY EnteredMore
<1>2. \A d \in Doc : AllEntered(server'[d].warehouse, server'[d].lines, entered, mishaps)
  BY DEF Entered
<1>3. \A d \in Doc : cache'[d] # None => AllEntered(cache'[d].warehouse, cache'[d].lines, entered, mishaps)
  BY DEF Entered
<1> QED
  BY <1>1, <1>2, <1>3 DEF Entered

LEMMA EnteredStep ==
  ASSUME Base, Matches, Entered, [Next]_vars
  PROVE  Entered'
<1>1. CASE UNCHANGED vars
  BY <1>1 DEF vars, Entered, AllEntered
<1>2. \A x \in Slot : /\ AllEntered(task[x].warehouse, task[x].lines, entered, mishaps)
                     /\ AllEntered(Unmounted(task)[x].warehouse, Unmounted(task)[x].lines, entered, mishaps)
  BY LeftTasks DEF Entered
<1>3. /\ AllEntered(flow.of, flow.sheet, entered, mishaps)
      /\ \A d \in Doc : AllEntered(server[d].warehouse, server[d].lines, entered, mishaps)
  BY DEF Entered
<1>4. \A w : /\ AllEntered(w, NoRows, entered, mishaps) /\ AllEntered(w, Away.sheet, entered, mishaps)
             /\ \A d : AllEntered(w, OnRecord(d).sheet, entered, mishaps)
  BY BuiltIsUncounted, UncountingIsEntered DEF Away, OnRecord
<1>5. flow \in Flows /\ task \in [Slot -> Tasks] /\ server \in [Doc -> Documents]
  BY DEF Base, TypeInv
<1>6. CASE setWarehouseId \/ Steps \/ openConfirm \/ closeConfirm
  <2>1. UNCHANGED <<server, cache, task, entered, mishaps>> /\ flow'.sheet = flow.sheet /\ flow'.of = flow.of
    BY <1>5, <1>6 DEF setWarehouseId, Steps, openConfirm, closeConfirm, Flows
  <2> QED
    BY <1>3, <2>1, EnteredOnSheet
<1>7. CASE setCount
  <2>1. PICK r \in DOMAIN flow.sheet, q \in Qty \cup {NaN, None} :
          /\ flow' = [flow EXCEPT !.sheet = [flow.sheet EXCEPT ![r] = q], !.touched = TRUE]
          /\ entered' = IF q \in Qty THEN entered \cup {<<flow.of, r, q>>} ELSE entered
    BY <1>7, Counts
  <2>2. flow'.sheet = [flow.sheet EXCEPT ![r] = q] /\ flow'.of = flow.of /\ flow.of \in Warehouse
    BY <1>5, <1>7, <2>1 DEF setCount, Shows, Base, Shape, FlowOK, Flows
  <2>3. ASSUME NEW x \in DOMAIN flow'.sheet, flow'.sheet[x] \in Qty
        PROVE  \E v \in Warehouse : <<v, x, flow'.sheet[x]>> \in entered' /\ (v = flow'.of \/ "late" \in mishaps)
    <3>1. x \in DOMAIN flow.sheet /\ flow'.sheet[x] = IF x = r THEN q ELSE flow.sheet[x]
      BY <1>5, <2>2, <2>3, SheetsAre DEF Flows
    <3>2. CASE x = r
      BY <2>1, <2>2, <2>3, <3>1, <3>2
    <3>3. CASE x # r
      <4>1. \E v \in Warehouse : <<v, x, flow.sheet[x]>> \in entered /\ (v = flow.of \/ "late" \in mishaps)
        BY <1>3, <2>3, <3>1, <3>3 DEF AllEntered
      <4>2. entered \subseteq entered'
        BY <2>1
      <4> QED
        BY <2>2, <3>1, <3>3, <4>1, <4>2
    <3> QED
      BY <3>2, <3>3
  <2>4. UNCHANGED <<server, cache, task, mishaps>> /\ entered \subseteq entered'
    BY <1>7, <2>1 DEF setCount
  <2>5. AllEntered(flow'.of, flow'.sheet, entered', mishaps)
    BY <2>3 DEF AllEntered
  <2> QED
    BY <2>4, <2>5, EnteredOnSheet
<1>8. CASE resolveProduct
  <2>1. PICK r \in Row : flow' = [flow EXCEPT !.sheet = appendOffSheetRow(flow.sheet, r), !.touched = TRUE]
    BY <1>8 DEF resolveProduct
  <2>2. flow'.sheet = appendOffSheetRow(flow.sheet, r) /\ flow'.of = flow.of
    BY <1>5, <2>1 DEF Flows
  <2>3. AllEntered(flow'.of, flow'.sheet, entered, mishaps)
    BY <1>3, <2>2, CountsAssumption DEF AllEntered, appendOffSheetRow
  <2> QED
    BY <1>8, <2>3, EnteredOnSheet DEF resolveProduct
<1>9. CASE FillUncounted
  <2>1. PICK sheet \in {fillUncountedToSystem(flow.of, flow.sheet), zeroUncounted(flow.sheet)} :
          /\ flow' = [flow EXCEPT !.sheet = sheet, !.touched = TRUE]
          /\ entered' = entered \cup {<<flow.of, r, sheet[r]>> : r \in Uncounted(flow.sheet)}
    BY <1>9 DEF FillUncounted
  <2>2. flow'.sheet = sheet /\ flow'.of = flow.of /\ flow.of \in Warehouse
    BY <1>5, <1>9, <2>1 DEF FillUncounted, Shows, Base, Shape, FlowOK, Flows
  <2>3. /\ DOMAIN sheet = DOMAIN flow.sheet
        /\ \A r \in DOMAIN sheet : flow.sheet[r] # None => sheet[r] = flow.sheet[r]
    BY DEF fillUncountedToSystem, zeroUncounted
  <2>4. AllEntered(flow.of, sheet, entered', mishaps)
    BY <1>3, <2>1, <2>2, <2>3 DEF AllEntered, Uncounted
  <2> QED
    BY <1>9, <2>1, <2>2, <2>4, EnteredOnSheet DEF FillUncounted
<1>10. CASE Leave \/ Return
  BY <1>2, <1>4, <1>10, EnteredElsewhere DEF Leave, Return
<1>11. CASE RecordArrives
  <2>1. flow.doc \in Doc /\ cache' = [cache EXCEPT ![flow.doc] = server[flow.doc]] /\ UNCHANGED <<server, entered>>
    BY <1>11 DEF RecordArrives, Base, TypeInv
  <2>2. \A d \in Doc : cache'[d] \in {cache[d], server[d]}
    BY <2>1 DEF Base, TypeInv
  <2>3. \/ UNCHANGED <<flow, task, mishaps>>
        \/ flow' = OnRecord(flow.doc) /\ task' = Unmounted(task) /\ mishaps \subseteq mishaps'
    BY <1>11 DEF RecordArrives, Replaced
  <2> QED
    BY <1>2, <1>3, <1>4, <2>1, <2>2, <2>3, EnteredElsewhere
<1>12. CASE DraftResume
  <2>1. /\ flow'.sheet = resumeSheet(cache[flow.doc]) /\ flow'.of = cache[flow.doc].warehouse
        /\ flow.doc \in Doc /\ cache[flow.doc] # None
    BY <1>12, Resumed DEF DraftResume
  <2>2. AllEntered(cache[flow.doc].warehouse, cache[flow.doc].lines, entered, mishaps)
    BY <2>1 DEF Entered
  <2>3. AllEntered(flow'.of, flow'.sheet, entered, mishaps)
    BY <2>1, <2>2, CountsAssumption DEF AllEntered, resumeSheet
  <2>4. UNCHANGED <<server, cache, task, entered>> /\ mishaps \subseteq mishaps'
    BY <1>12 DEF DraftResume
  <2> QED
    BY <1>2, <2>3, <2>4, EnteredElsewhere
<1>13. CASE OtherUserActs
  <2>1. PICK d \in Doc, doc \in Documents : OthersMake(d, doc)
    BY <1>13, OthersMakeSomething
  <2>2. \A w, counts : AllEntered(w, counts, entered, mishaps) => AllEntered(w, counts, entered', mishaps')
    BY <2>1, EnteredMore DEF OthersMake
  <2>3. \A e \in Doc : server'[e] = IF e = d THEN doc ELSE server[e]
    BY <1>5, <2>1 DEF OthersMake
  <2>4. AllEntered(doc.warehouse, doc.lines, entered', mishaps')
    BY <1>3, <2>1, <2>2 DEF OthersMake
  <2>5. UNCHANGED <<flow, cache, task>>
    BY <2>1 DEF OthersMake
  <2> QED
    BY <2>2, <2>3, <2>4, <2>5 DEF Entered
<1>14. CASE buildSheetNow \/ saveDraft \/ postOpname
  <2>1. UNCHANGED <<server, flow, cache, entered>> /\ mishaps \subseteq mishaps'
    BY <1>14 DEF buildSheetNow, saveDraft, postOpname
  <2>2. flow.mounted /\ flow.warehouse # None
    BY <1>14 DEF buildSheetNow, saveDraft, postOpname, Shows, Base, Shape, FlowOK
  <2>3. PICK t \in Tasks : Start(t) /\ AllEntered(flow.warehouse, t.lines, entered, mishaps)
    <3>1. CASE buildSheetNow
      <4>1. [NoTask EXCEPT !.op = "build", !.pc = "report"].lines = NoRows
        BY Ended DEF Tasks
      <4> QED
        BY <1>4, <2>2, <3>1, <4>1, BeginsWith DEF buildSheetNow
    <3>2. CASE saveDraft
      BY <2>2, <3>2, BeginsWith, CountsSent DEF saveDraft, Shows
    <3>3. CASE postOpname
      <4>1. flow.step # "setup"
        BY <3>3 DEF postOpname, Base, Shape, FlowOK
      <4> QED
        BY <2>2, <3>3, <4>1, BeginsWith, CountsSent DEF postOpname
    <3> QED
      BY <1>14, <3>1, <3>2, <3>3
  <2>4. PICK s \in Slot : task' = [task EXCEPT ![s] = [t EXCEPT !.mounted = TRUE, !.warehouse = flow.warehouse]]
    BY <2>2, <2>3, Starts
  <2> DEFINE new == [t EXCEPT !.mounted = TRUE, !.warehouse = flow.warehouse]
  <2>5. new.lines = t.lines /\ new.warehouse = flow.warehouse
    BY DEF Tasks
  <2>6. \A x \in Slot : task'[x] = IF x = s THEN new ELSE task[x]
    BY <1>5, <2>4
  <2> HIDE DEF new
  <2>7. \A x \in Slot : AllEntered(task'[x].warehouse, task'[x].lines, entered, mishaps)
    BY <1>2, <2>3, <2>5, <2>6
  <2> QED
    BY <1>3, <2>1, <2>7, EnteredElsewhere
<1>15. ASSUME NEW s \in Slot, Handles(s)
       PROVE  Entered'
  <2>1. \A x \in Slot : task'[x].lines = task[x].lines /\ task'[x].warehouse = task[x].warehouse
    BY <1>5, <1>15 DEF Handles, Create, Update, Post, Report, Handled, Tasks
  <2>2. UNCHANGED <<flow, cache, entered, mishaps>>
    BY <1>15 DEF Handles, Create, Update, Post, Report
  <2>3. \A d \in Doc :
          \/ server'[d].warehouse = server[d].warehouse /\ server'[d].lines = server[d].lines
          \/ server'[d].warehouse = task[s].warehouse /\ server'[d].lines = task[s].lines
    <3>1. CASE Create(s)
      BY <1>5, <3>1 DEF Create, Documents
    <3>2. CASE Update(s)
      BY <1>5, <3>2 DEF Update, Documents
    <3>3. CASE Post(s)
      BY <1>5, <3>3 DEF Post, Documents
    <3>4. CASE Report(s)
      BY <3>4 DEF Report
    <3> QED
      BY <1>15, <3>1, <3>2, <3>3, <3>4 DEF Handles
  <2> QED
    BY <1>2, <1>3, <2>1, <2>2, <2>3, EnteredElsewhere
<1>16. ASSUME NEW s \in Slot, NEW t \in Tasks, NEW f \in Flows, GoesOnAs(s, t, f)
       PROVE  Entered'
  <2>1. UNCHANGED <<server, cache, entered>> /\ flow' = f /\ mishaps \subseteq mishaps'
    BY <1>16 DEF GoesOnAs
  <2>2. t.lines = NoRows \/ (t.lines = task[s].lines /\ t.warehouse = task[s].warehouse)
    BY <1>16, Ended DEF GoesOnAs
  <2>3. \A x \in Slot : task'[x] = IF x = s THEN t ELSE task[x]
    BY <1>5, <1>16 DEF GoesOnAs
  <2>4. \A x \in Slot : AllEntered(task'[x].warehouse, task'[x].lines, entered, mishaps)
    BY <1>2, <1>4, <2>2, <2>3
  <2>5. AllEntered(f.of, f.sheet, entered, mishaps)
    BY <1>3, <1>16, UncountingIsEntered DEF GoesOnAs
  <2> QED
    BY <2>1, <2>4, <2>5, EnteredElsewhere
<1>17. ASSUME NEW s \in Slot, GoesToRecord(s)
       PROVE  Entered'
  <2>1. \A x \in Slot : task'[x] = IF x = s THEN NoTask ELSE Unmounted(task)[x]
    BY <1>17, LeftTasks DEF GoesToRecord
  <2>2. \A x \in Slot : AllEntered(task'[x].warehouse, task'[x].lines, entered, mishaps)
    BY <1>2, <1>4, <2>1, Ended
  <2>3. UNCHANGED <<server, cache, entered>> /\ mishaps \subseteq mishaps' /\ flow' = OnRecord(task[s].doc)
    BY <1>17 DEF GoesToRecord
  <2> QED
    BY <1>4, <2>2, <2>3, EnteredElsewhere
<1>18. ASSUME NEW s \in Slot, Continues(s)
       PROVE  Entered'
  BY <1>16, <1>17, <1>18, SheetArrivesAs, SavedAs, PreparedAs, PostedAs DEF Continues
<1> QED
  BY <1>1, <1>6, <1>7, <1>8, <1>9, <1>10, <1>11, <1>12, <1>13, <1>14, <1>15, <1>18
     DEF Next, Arrivals, UserActs

-----------------------------------------------------------------------------
(* What a step may do, as far as the handlers, what is stored, and what    *)
(* went wrong are concerned.                                               *)

(* The same page, with the sheet as it was, or touched.                    *)
StaysOnPage ==
  /\ UNCHANGED <<server, task, mishaps>>
  /\ flow'.at = flow.at /\ flow'.doc = flow.doc /\ flow'.mounted = flow.mounted
  /\ flow'.opnameId = flow.opnameId /\ flow'.of = flow.of
  /\ flow'.step # "setup" => flow.step # "setup" /\ flow'.warehouse = flow.warehouse
  /\ flow'.touched \/ (flow'.sheet = flow.sheet /\ flow'.touched = flow.touched)

(* Another page, that has no flow, or not yet; its handlers go on.         *)
LeavesPage ==
  /\ flow'.at # "new" /\ ~flow'.mounted /\ flow'.step = "setup"
  /\ server' = server /\ mishaps \subseteq mishaps'
  /\ \A s \in Slot :
       /\ task'[s].op = task[s].op /\ task'[s].pc = task[s].pc /\ task'[s].doc = task[s].doc
       /\ task'[s].lines = task[s].lines /\ task'[s].warehouse = task[s].warehouse
       /\ task'[s].handled = task[s].handled /\ task'[s].of = task[s].of

(* A handler begins, in a slot that was free.                              *)
BeginsAs(s, t) ==
  /\ task[s].op = "idle" /\ task' = [task EXCEPT ![s] = t]
  /\ \/ t.op = "build" /\ mishaps' = mishaps
     \/ /\ Writes(t) /\ ~t.handled /\ t.doc = flow.opnameId /\ t.lines = countedLines(flow.sheet)
        /\ t.pc = IF flow.opnameId = None THEN "create" ELSE "put"
        /\ t.of = flow.of /\ t.warehouse = flow.warehouse /\ flow.step # "setup"
        /\ mishaps' = mishaps \cup Crossing
  /\ UNCHANGED <<server, flow>>

(* Its request is handled: what it sent is stored in its document, or its  *)
(* document is posted, or nothing is stored.                               *)
HandledAs(s, t) ==
  LET was == task[s] IN
  /\ task' = [task EXCEPT ![s] = t] /\ t.op = was.op /\ t.pc = was.pc /\ t.lines = was.lines
  /\ t.warehouse = was.warehouse /\ t.of = was.of /\ t.handled /\ (was.doc # None => t.doc = was.doc)
  /\ \A e \in Doc :
       \/ server'[e] = server[e] /\ (e = t.doc => ~Writes(was))
       \/ /\ e = t.doc /\ was.pc \in {"create", "put"}
          /\ server'[e].lines = was.lines /\ server'[e].warehouse = was.warehouse
       \/ e = t.doc /\ was.pc = "post" /\ server'[e].lines = server[e].lines
  /\ \A e \in Doc : server'[e].status # "none" => server[e].status # "none" \/ e = t.doc
  /\ UNCHANGED <<flow, mishaps>>

LEMMA BeginsAsIs ==
  ASSUME Base, buildSheetNow \/ saveDraft \/ postOpname
  PROVE  \E s \in Slot, t \in Tasks : BeginsAs(s, t)
<1>1. flow.mounted /\ flow.warehouse # None
  BY DEF buildSheetNow, saveDraft, postOpname, Shows, Base, Shape, FlowOK
<1>2. UNCHANGED <<server, flow>>
  BY DEF buildSheetNow, saveDraft, postOpname
<1>3. PICK t \in Tasks :
        /\ Start(t)
        /\ \/ t.op = "build" /\ mishaps' = mishaps
           \/ /\ t.op \in {"save", "post"} /\ ~t.handled /\ t.doc = flow.opnameId
              /\ t.lines = countedLines(flow.sheet)
              /\ t.pc = IF flow.opnameId = None THEN "create" ELSE "put"
              /\ t.of = flow.of /\ flow.step # "setup"
              /\ mishaps' = mishaps \cup Crossing
  <2>1. CASE buildSheetNow
    BY <1>1, <2>1, BeginsWith DEF buildSheetNow
  <2>2. CASE saveDraft
    BY <1>1, <2>2, BeginsWith DEF saveDraft, Shows
  <2>3. CASE postOpname
    <3>1. flow.step # "setup"
      BY <2>3 DEF postOpname, Base, Shape, FlowOK
    <3> QED
      BY <1>1, <2>3, <3>1, BeginsWith DEF postOpname
  <2> QED
    BY <2>1, <2>2, <2>3
<1> DEFINE new == [t EXCEPT !.mounted = TRUE, !.warehouse = flow.warehouse]
<1>4. PICK s \in Slot : task[s].op = "idle" /\ task' = [task EXCEPT ![s] = new] /\ new \in Tasks
  BY <1>1, <1>3, Starts
<1>5. /\ new.op = t.op /\ new.pc = t.pc /\ new.doc = t.doc /\ new.lines = t.lines /\ new.handled = t.handled
      /\ new.of = t.of /\ new.warehouse = flow.warehouse
  BY DEF Tasks
<1> HIDE DEF new
<1>6. BeginsAs(s, new)
  BY <1>2, <1>3, <1>4, <1>5 DEF BeginsAs, Writes
<1> QED
  BY <1>4, <1>6

LEMMA HandledAsIs ==
  ASSUME Base, NEW s \in Slot, Handles(s)
  PROVE  \E t \in Tasks : HandledAs(s, t)
<1>1. /\ UNCHANGED <<flow, mishaps>>
      /\ task[s] \in Tasks /\ TaskOK(task[s]) /\ task[s].op # "idle" /\ None \notin Doc
      /\ server \in [Doc -> Documents]
  BY CountsAssumption DEF Handles, Create, Update, Post, Report, Sent, Base, TypeInv, Shape
<1>2. PICK d \in Doc \cup {None} :
        /\ Handled(s, d) /\ (task[s].pc = "report" <=> d = None)
        /\ task[s].doc # None => d = task[s].doc
        /\ Create(s) => server[d].status = "none" /\
             server' = [server EXCEPT ![d] = [status |-> "draft", warehouse |-> task[s].warehouse,
                                              lines |-> task[s].lines]]
  BY <1>1 DEF Handles, Create, Update, Post, Report, Sent, TaskOK, Tasks
<1>3. PICK t \in Tasks :
        /\ task' = [task EXCEPT ![s] = t] /\ t.op = task[s].op /\ t.pc = task[s].pc
        /\ t.warehouse = task[s].warehouse /\ t.lines = task[s].lines /\ t.handled /\ t.doc = d
        /\ t.of = task[s].of
  BY <1>1, <1>2, HandledTask
<1>4. \A e \in Doc : /\ \/ server'[e] = server[e] /\ (e = d => ~Writes(task[s]))
                        \/ /\ e = d /\ task[s].pc \in {"create", "put"}
                           /\ server'[e].lines = task[s].lines /\ server'[e].warehouse = task[s].warehouse
                        \/ e = d /\ task[s].pc = "post" /\ server'[e].lines = server[e].lines
                     /\ server'[e].status # "none" => server[e].status # "none" \/ e = d
  <2>1. CASE Create(s)
    <3> DEFINE doc == [status |-> "draft", warehouse |-> task[s].warehouse, lines |-> task[s].lines]
    <3>1. server' = [server EXCEPT ![d] = doc] /\ task[s].pc = "create"
      BY <1>2, <2>1 DEF Create, Sent
    <3>2. doc.lines = task[s].lines /\ doc.warehouse = task[s].warehouse
      OBVIOUS
    <3> HIDE DEF doc
    <3>3. \A e \in Doc : server'[e] = IF e = d THEN doc ELSE server[e]
      BY <1>1, <3>1
    <3> QED
      BY <3>1, <3>2, <3>3
  <2>2. CASE Update(s)
    <3>1. task[s].doc = d /\ task[s].pc = "put" /\ server[d].status = "draft"
      BY <1>1, <1>2, <2>2 DEF Update, Sent, TaskOK
    <3>2. server' = [server EXCEPT ![d].lines = task[s].lines, ![d].warehouse = task[s].warehouse]
      BY <2>2, <3>1 DEF Update
    <3> QED
      BY <1>1, <3>1, <3>2 DEF Documents
  <2>3. CASE Post(s)
    <3>1. task[s].doc = d /\ task[s].pc = "post" /\ server[d].status = "draft"
      BY <1>1, <1>2, <2>3 DEF Post, Sent, TaskOK
    <3>2. server' = [server EXCEPT ![d].status = "posted"]
      BY <2>3, <3>1 DEF Post
    <3> QED
      BY <1>1, <3>1, <3>2 DEF Documents
  <2>4. CASE Report(s)
    BY <1>1, <1>2, <2>4 DEF Report, Sent
  <2> QED
    BY <2>1, <2>2, <2>3, <2>4 DEF Handles
<1> QED
  BY <1>1, <1>2, <1>3, <1>4 DEF HandledAs

LEMMA StaysOnPageIs ==
  ASSUME Base,
         \/ setWarehouseId \/ setCount \/ resolveProduct \/ Steps \/ FillUncounted
         \/ openConfirm \/ closeConfirm \/ UNCHANGED vars
  PROVE  StaysOnPage
<1>1. flow \in Flows
  BY DEF Base, TypeInv
<1>2. ASSUME UNCHANGED <<server, task, mishaps>>,
             \/ flow' = flow
             \/ flow.step = "setup" /\ \E w \in Warehouse : flow' = [flow EXCEPT !.warehouse = w]
             \/ flow.step # "setup" /\ \E step \in {"setup", "count", "review"} : flow' = [flow EXCEPT !.step = step]
             \/ \E b \in BOOLEAN : flow' = [flow EXCEPT !.dialog = b]
             \/ \E sheet : flow' = [flow EXCEPT !.sheet = sheet, !.touched = TRUE]
      PROVE  StaysOnPage
  BY <1>1, <1>2 DEF StaysOnPage, Flows
<1>3. CASE setWarehouseId
  BY <1>2, <1>3 DEF setWarehouseId, Shows
<1>4. CASE setCount
  <2>1. PICK r \in DOMAIN flow.sheet, q \in Qty \cup {NaN, None} :
          flow' = [flow EXCEPT !.sheet = [flow.sheet EXCEPT ![r] = q], !.touched = TRUE]
    BY <1>4, Counts
  <2> QED
    BY <1>2, <1>4, <2>1 DEF setCount
<1>5. CASE resolveProduct
  BY <1>2, <1>5 DEF resolveProduct
<1>6. CASE Steps
  BY <1>2, <1>6 DEF Steps, Shows
<1>7. CASE FillUncounted
  BY <1>2, <1>7 DEF FillUncounted
<1>8. CASE openConfirm \/ closeConfirm
  BY <1>2, <1>8 DEF openConfirm, closeConfirm
<1>9. CASE UNCHANGED vars
  BY <1>2, <1>9 DEF vars
<1> QED
  BY <1>3, <1>4, <1>5, <1>6, <1>7, <1>8, <1>9

LEMMA LeavesPageIs ==
  ASSUME Base, Leave \/ Return \/ (RecordArrives /\ Replaced(flow.doc))
  PROVE  LeavesPage
<1>1. PICK page \in Flows : flow' = page /\ page.at # "new" /\ ~page.mounted /\ page.step = "setup"
  <2>1. CASE Leave
    BY <2>1, Pages DEF Leave, Away
  <2>2. CASE Return
    BY <2>2, Pages DEF Return, OnRecord, Away
  <2>3. CASE RecordArrives /\ Replaced(flow.doc)
    <3>1. flow.doc \in Doc /\ flow' = OnRecord(flow.doc)
      BY <2>3 DEF RecordArrives, Replaced, Base, TypeInv
    <3>2. OnRecord(flow.doc).step = "setup"
      BY DEF OnRecord, Away
    <3> QED
      BY <3>1, <3>2, Pages
  <2> QED
    BY <2>1, <2>2, <2>3
<1>2. server' = server /\ mishaps \subseteq mishaps' /\ task' \in {task, Unmounted(task)}
  BY DEF Leave, Return, RecordArrives, Replaced
<1>3. \A s \in Slot :
       /\ task'[s].op = task[s].op /\ task'[s].pc = task[s].pc /\ task'[s].doc = task[s].doc
       /\ task'[s].lines = task[s].lines /\ task'[s].warehouse = task[s].warehouse
       /\ task'[s].handled = task[s].handled /\ task'[s].of = task[s].of
  BY <1>2, LeftTasks
<1> QED
  BY <1>1, <1>2, <1>3 DEF LeavesPage

LEMMA StepsAre ==
  ASSUME Base, [Next]_vars
  PROVE  \/ StaysOnPage \/ LeavesPage \/ DraftResume
         \/ \E d \in Doc, doc \in Documents : OthersMake(d, doc)
         \/ \E s \in Slot : GoesToRecord(s)
         \/ \E s \in Slot, t \in Tasks : BeginsAs(s, t) \/ HandledAs(s, t) \/ \E f \in Flows : GoesOnAs(s, t, f)
<1>1. CASE RecordArrives
  <2>1. CASE UNCHANGED <<flow, task, mishaps>>
    BY <1>1, <2>1 DEF RecordArrives, StaysOnPage
  <2>2. CASE Replaced(flow.doc)
    BY <1>1, <2>2, LeavesPageIs
  <2> QED
    BY <1>1, <2>1, <2>2 DEF RecordArrives
<1>2. CASE UserActs
  <2>1. \/ setWarehouseId \/ setCount \/ resolveProduct \/ Steps \/ FillUncounted
        \/ openConfirm \/ closeConfirm \/ Leave \/ Return \/ buildSheetNow \/ saveDraft \/ postOpname
    BY <1>2 DEF UserActs
  <2> QED
    BY <2>1, StaysOnPageIs, LeavesPageIs, BeginsAsIs
<1>3. ASSUME NEW s \in Slot, Handles(s)
      PROVE  \E t \in Tasks : HandledAs(s, t)
  BY <1>3, HandledAsIs
<1>4. ASSUME NEW s \in Slot, Continues(s)
      PROVE  GoesToRecord(s) \/ \E t \in Tasks, f \in Flows : GoesOnAs(s, t, f)
  BY <1>4, SheetArrivesAs, SavedAs, PreparedAs, PostedAs DEF Continues
<1>5. CASE UNCHANGED vars
  BY <1>5, StaysOnPageIs
<1>6. CASE OtherUserActs
  BY <1>6, OthersMakeSomething
<1> QED
  BY <1>1, <1>2, <1>3, <1>4, <1>5, <1>6 DEF Next, Arrivals

(* Nothing that went wrong is forgotten, and the writers of a step are     *)
(* writers of before, but for one that begins.                             *)
LEMMA WritersOfBefore ==
  ASSUME Base, [Next]_vars
  PROVE  /\ mishaps \subseteq mishaps'
         /\ \/ \A x \in Slot : Writes(task'[x]) => Writes(task[x])
            \/ \E s \in Slot, t \in Tasks : BeginsAs(s, t)
<1>1. task \in [Slot -> Tasks]
  BY DEF Base, TypeInv
<1>2. CASE StaysOnPage
  BY <1>2 DEF StaysOnPage
<1>3. CASE LeavesPage
  BY <1>3 DEF LeavesPage, Writes
<1>4. CASE DraftResume \/ \E d \in Doc, doc \in Documents : OthersMake(d, doc)
  BY <1>4 DEF DraftResume, OthersMake
<1>5. ASSUME NEW s \in Slot, GoesToRecord(s)
      PROVE  mishaps \subseteq mishaps' /\ \A x \in Slot : Writes(task'[x]) => Writes(task[x])
  BY <1>1, <1>5, LeftTasks, Ended DEF GoesToRecord, Writes
<1>6. ASSUME NEW s \in Slot, NEW t \in Tasks, BeginsAs(s, t)
      PROVE  mishaps \subseteq mishaps'
  BY <1>6 DEF BeginsAs
<1>7. ASSUME NEW s \in Slot, NEW t \in Tasks, HandledAs(s, t)
      PROVE  mishaps \subseteq mishaps' /\ \A x \in Slot : Writes(task'[x]) => Writes(task[x])
  BY <1>1, <1>7 DEF HandledAs, Writes
<1>8. ASSUME NEW s \in Slot, NEW t \in Tasks, NEW f \in Flows, GoesOnAs(s, t, f)
      PROVE  mishaps \subseteq mishaps' /\ \A x \in Slot : Writes(task'[x]) => Writes(task[x])
  BY <1>1, <1>8, Ended DEF GoesOnAs, Writes
<1> QED
  BY <1>2, <1>3, <1>4, <1>5, <1>6, <1>7, <1>8, StepsAre

-----------------------------------------------------------------------------
LEMMA MatchesStep ==
  ASSUME Base, Matches, [Next]_vars
  PROVE  Matches'
<1> SUFFICES ASSUME "late" \notin mishaps'
             PROVE  /\ flow'.step # "setup" => flow'.of = flow'.warehouse
                    /\ \A x \in Slot : Writes(task'[x]) => task'[x].of = task'[x].warehouse
  BY DEF Matches, Writes
<1>1. /\ flow.step # "setup" => flow.of = flow.warehouse
      /\ \A x \in Slot : Writes(task[x]) => task[x].of = task[x].warehouse
  BY WritersOfBefore DEF Matches
<1>2. task \in [Slot -> Tasks]
  BY DEF Base, TypeInv
<1>3. CASE StaysOnPage
  BY <1>1, <1>3 DEF StaysOnPage
<1>4. CASE LeavesPage
  BY <1>1, <1>4 DEF LeavesPage, Writes
<1>5. CASE DraftResume
  BY <1>1, <1>5, Resumed DEF DraftResume
<1>6. CASE \E d \in Doc, doc \in Documents : OthersMake(d, doc)
  BY <1>1, <1>6 DEF OthersMake
<1>7. ASSUME NEW s \in Slot, GoesToRecord(s)
      PROVE  /\ flow'.step = "setup"
             /\ \A x \in Slot : Writes(task'[x]) => task'[x].of = task'[x].warehouse
  <2>1. \A x \in Slot : task'[x] = IF x = s THEN NoTask ELSE Unmounted(task)[x]
    BY <1>7, LeftTasks DEF GoesToRecord
  <2>2. flow'.step = "setup"
    BY <1>7 DEF GoesToRecord, OnRecord, Away
  <2> QED
    BY <1>1, <2>1, <2>2, LeftTasks, Ended DEF Writes
<1>8. ASSUME NEW s \in Slot, NEW t \in Tasks, BeginsAs(s, t) \/ HandledAs(s, t)
      PROVE  /\ flow' = flow
             /\ \A x \in Slot : Writes(task'[x]) => task'[x].of = task'[x].warehouse
  <2>1. \A x \in Slot : task'[x] = IF x = s THEN t ELSE task[x]
    BY <1>2, <1>8 DEF BeginsAs, HandledAs
  <2>2. Writes(t) => t.of = t.warehouse
    BY <1>1, <1>8 DEF BeginsAs, HandledAs, Writes
  <2> QED
    BY <1>1, <1>8, <2>1, <2>2 DEF BeginsAs, HandledAs
<1>9. ASSUME NEW s \in Slot, NEW t \in Tasks, NEW f \in Flows, GoesOnAs(s, t, f)
      PROVE  /\ flow'.step # "setup" => flow'.of = flow'.warehouse
             /\ \A x \in Slot : Writes(task'[x]) => task'[x].of = task'[x].warehouse
  <2>1. \A x \in Slot : task'[x] = IF x = s THEN t ELSE task[x]
    BY <1>2, <1>9 DEF GoesOnAs
  <2>2. Writes(t) => t.of = t.warehouse
    BY <1>1, <1>9, Ended DEF GoesOnAs, Writes
  <2>3. f.step # "setup" => f.of = f.warehouse
    BY <1>1, <1>9 DEF GoesOnAs
  <2> QED
    BY <1>1, <1>9, <2>1, <2>2, <2>3 DEF GoesOnAs
<1> QED
  BY <1>1, <1>3, <1>4, <1>5, <1>6, <1>7, <1>8, <1>9, StepsAre

LEMMA OneWriterStep ==
  ASSUME Base, OneWriter, [Next]_vars
  PROVE  OneWriter'
<1>1. mishaps \subseteq mishaps'
  BY WritersOfBefore
<1>2. CASE \A x \in Slot : Writes(task'[x]) => Writes(task[x])
  BY <1>1, <1>2 DEF OneWriter, Writes
<1>3. ASSUME NEW s \in Slot, NEW t \in Tasks, BeginsAs(s, t), "crossed" \notin mishaps'
      PROVE  \A x, y \in Slot : Writes(task'[x]) /\ Writes(task'[y]) => x = y
  <2>1. \A x \in Slot : task'[x] = IF x = s THEN t ELSE task[x]
    BY <1>3 DEF BeginsAs, Base, TypeInv
  <2>2. CASE t.op = "build"
    BY <1>1, <1>3, <2>1, <2>2 DEF OneWriter, Writes
  <2>3. CASE Crossing = {}
    <3>1. \A x \in Slot : ~Writes(task[x])
      BY <2>3 DEF Crossing, Writes
    <3> QED
      BY <2>1, <3>1
  <2> QED
    BY <1>3, <2>2, <2>3 DEF BeginsAs, Crossing
<1> QED
  BY <1>2, <1>3, WritersOfBefore DEF OneWriter

(* What is stored between two requests of a post is a document of a task   *)
(* that writes.                                                            *)
LEMMA StoredBy ==
  ASSUME NEW t
  PROVE  Stored(t) => Writes(t)
BY DEF Stored, Preparing, Writes

LEMMA StoresWhatItSentStep ==
  ASSUME Base, OneWriter, StoresWhatItSent, [Next]_vars
  PROVE  StoresWhatItSent'
<1> SUFFICES ASSUME mishaps' \cap {"crossed", "refused", "met"} = {}, NEW x \in Slot,
                    Stored(task'[x]), server'[task'[x].doc].status = "draft"
             PROVE  /\ server'[task'[x].doc].lines = task'[x].lines
                    /\ server'[task'[x].doc].warehouse = task'[x].warehouse
  BY DEF StoresWhatItSent, Stored, Preparing
<1>1. mishaps \cap {"crossed", "refused", "met"} = {}
  BY WritersOfBefore
<1>2. \A s, t \in Slot : Writes(task[s]) /\ Writes(task[t]) => s = t
  BY <1>1 DEF OneWriter
<1>3. task \in [Slot -> Tasks] /\ server \in [Doc -> Documents] /\ \A s \in Slot : TaskOK(task[s])
  BY DEF Base, TypeInv, Shape
<1>4. Stored(task[x]) /\ server[task[x].doc].status = "draft" =>
        server[task[x].doc].lines = task[x].lines /\ server[task[x].doc].warehouse = task[x].warehouse
  BY <1>1 DEF StoresWhatItSent
<1>5. CASE StaysOnPage \/ DraftResume
  BY <1>4, <1>5 DEF StaysOnPage, DraftResume
<1>6. CASE LeavesPage
  BY <1>4, <1>6 DEF LeavesPage, Stored, Preparing
<1>7. CASE \E d \in Doc, doc \in Documents : OthersMake(d, doc)
  <2>1. PICK d \in Doc, doc \in Documents : OthersMake(d, doc)
    BY <1>7
  <2>2. /\ server' = [server EXCEPT ![d] = doc] /\ task' = task
        /\ doc.status = "draft" => \A s \in Slot : Preparing(d, task[s]) => "met" \in mishaps'
    BY <2>1 DEF OthersMake
  <2>3. task[x].doc \in Doc
    BY <1>3, <2>2 DEF Stored, Preparing, TaskOK, Tasks
  <2>4. CASE task[x].doc = d
    <3>1. doc.status = "draft" /\ Preparing(d, task[x])
      BY <1>3, <2>2, <2>3, <2>4 DEF Stored
    <3> QED
      BY <2>2, <3>1
  <2>5. CASE task[x].doc # d
    BY <1>3, <1>4, <2>2, <2>3, <2>5
  <2> QED
    BY <2>4, <2>5
<1>8. ASSUME NEW s \in Slot, GoesToRecord(s)
      PROVE  /\ server'[task'[x].doc].lines = task'[x].lines
             /\ server'[task'[x].doc].warehouse = task'[x].warehouse
  <2>1. task'[x] = (IF x = s THEN NoTask ELSE Unmounted(task)[x]) /\ server' = server
    BY <1>8, LeftTasks DEF GoesToRecord
  <2>2. ~Stored(NoTask)
    BY Ended DEF Stored, Preparing
  <2> QED
    BY <1>4, <2>1, <2>2, LeftTasks DEF Stored, Preparing
<1>9. ASSUME NEW s \in Slot, NEW t \in Tasks, BeginsAs(s, t)
      PROVE  /\ server'[task'[x].doc].lines = task'[x].lines
             /\ server'[task'[x].doc].warehouse = task'[x].warehouse
  <2>1. task'[x] = (IF x = s THEN t ELSE task[x]) /\ server' = server
    BY <1>3, <1>9 DEF BeginsAs
  <2>2. ~Stored(t)
    BY <1>9 DEF BeginsAs, Stored, Preparing
  <2> QED
    BY <1>4, <2>1, <2>2
<1>10. ASSUME NEW s \in Slot, NEW t \in Tasks, HandledAs(s, t)
       PROVE  /\ server'[task'[x].doc].lines = task'[x].lines
              /\ server'[task'[x].doc].warehouse = task'[x].warehouse
  <2>1. task'[x] = (IF x = s THEN t ELSE task[x])
    BY <1>3, <1>10 DEF HandledAs
  <2>2. CASE x = s
    <3>1. task'[x] = t /\ t.pc \in {"create", "put"} /\ Writes(t) /\ Writes(task[s])
      <4>1. TaskOK(t)
        BY <2>1, <2>2, BaseStep DEF Base, Shape
      <4> QED
        BY <1>10, <2>1, <2>2, <4>1 DEF HandledAs, Stored, Preparing, Writes, TaskOK
    <3>2. t.doc \in Doc
      <4>1. TaskOK(t)
        BY <2>1, <2>2, BaseStep DEF Base, Shape
      <4> QED
        BY <1>10, <3>1, <4>1 DEF HandledAs, TaskOK, Tasks
    <3> QED
      BY <1>10, <3>1, <3>2 DEF HandledAs
  <2>3. CASE x # s
    <3>1. Writes(task[x]) /\ ~Writes(task[s]) /\ task[x].doc \in Doc
      BY <1>2, <1>3, <1>10, <2>1, <2>3 DEF Stored, Preparing, TaskOK, Tasks, Writes
    <3>2. server'[task[x].doc] = server[task[x].doc]
      BY <1>3, <1>10, <3>1 DEF HandledAs, Writes, TaskOK, Tasks
    <3> QED
      BY <1>4, <2>1, <2>3, <3>2
  <2> QED
    BY <2>2, <2>3
<1>11. ASSUME NEW s \in Slot, NEW t \in Tasks, NEW f \in Flows, GoesOnAs(s, t, f)
       PROVE  /\ server'[task'[x].doc].lines = task'[x].lines
              /\ server'[task'[x].doc].warehouse = task'[x].warehouse
  <2>1. task'[x] = (IF x = s THEN t ELSE task[x]) /\ server' = server
    BY <1>3, <1>11 DEF GoesOnAs
  <2>2. CASE x = s
    <3>1. t # NoTask
      BY <2>1, <2>2, Ended DEF Stored, Preparing
    <3>2. Stored(task[s]) /\ t.doc = task[s].doc /\ t.lines = task[s].lines /\ t.warehouse = task[s].warehouse
      BY <1>11, <3>1 DEF GoesOnAs, Stored, Preparing
    <3> QED
      BY <1>4, <2>1, <2>2, <3>2
  <2>3. CASE x # s
    BY <1>4, <2>1, <2>3
  <2> QED
    BY <2>2, <2>3
<1> QED
  BY <1>5, <1>6, <1>7, <1>8, <1>9, <1>10, <1>11, StepsAre

-----------------------------------------------------------------------------
(* A document in hand makes a handler a writer.                            *)
LEMMA WritersHoldDocuments ==
  ASSUME Base
  PROVE  /\ \A s \in Slot : task[s].doc # None => Writes(task[s]) \/ task[s].op = "build"
         /\ \A s \in Slot : Writes(task[s]) <=> task[s].pc \in {"create", "put", "post"}
         /\ \A s \in Slot : task[s].doc # None => Writes(task[s])
         /\ \A s \in Slot : Writes(task[s]) => (task[s].doc # None <=> task[s].pc # "create" \/ task[s].handled)
<1>1. \A s \in Slot : task[s] \in Tasks /\ TaskOK(task[s])
  BY DEF Base, TypeInv, Shape
<1> QED
  BY <1>1 DEF TaskOK, Tasks, Writes

LEMMA KnowsItsDocumentStep ==
  ASSUME Base, OneWriter, KnowsItsDocument, [Next]_vars
  PROVE  KnowsItsDocument'
<1> SUFFICES ASSUME flow'.at = "new", mishaps' \cap {"lost", "crossed"} = {}
             PROVE  /\ \A x \in Slot : Writes(task'[x]) =>
                         IF task'[x].pc = "create" THEN flow'.opnameId = None
                                                   ELSE task'[x].doc = flow'.opnameId
                    /\ \A e \in Doc : server'[e].status # "none" =>
                         e = flow'.opnameId \/ \E x \in Slot : task'[x].doc = e
  BY DEF KnowsItsDocument, Writes
<1> DEFINE Known(fl, tk, sv) ==
             /\ \A x \in Slot : Writes(tk[x]) =>
                  IF tk[x].pc = "create" THEN fl.opnameId = None ELSE tk[x].doc = fl.opnameId
             /\ \A e \in Doc : sv[e].status # "none" => e = fl.opnameId \/ \E x \in Slot : tk[x].doc = e
<1> SUFFICES Known(flow', task', server')
  OBVIOUS
<1>1. mishaps \cap {"lost", "crossed"} = {}
  BY WritersOfBefore
<1>2. task \in [Slot -> Tasks] /\ server \in [Doc -> Documents] /\ None \notin Doc
  BY CountsAssumption DEF Base, TypeInv
<1>3. flow.at = "new" => Known(flow, task, server)
  BY <1>1 DEF KnowsItsDocument
<1>4. CASE StaysOnPage
  BY <1>3, <1>4 DEF StaysOnPage
<1>5. CASE LeavesPage
  BY <1>5 DEF LeavesPage
<1>6. CASE DraftResume
  BY <1>6, Resumed
<1>7. CASE \E d \in Doc, doc \in Documents : OthersMake(d, doc)
  <2>1. \A e \in Doc : server'[e].status # "none" => server[e].status # "none"
    BY <1>2, <1>7 DEF OthersMake
  <2>2. flow' = flow /\ task' = task
    BY <1>7 DEF OthersMake
  <2> QED
    BY <1>3, <2>1, <2>2
<1>8. ASSUME NEW s \in Slot, GoesToRecord(s)
      PROVE  FALSE
  BY <1>8, Pages DEF GoesToRecord
<1>9. ASSUME NEW s \in Slot, NEW t \in Tasks, BeginsAs(s, t)
      PROVE  Known(flow', task', server')
  <2>1. \A x \in Slot : task'[x] = (IF x = s THEN t ELSE task[x])
    BY <1>2, <1>9 DEF BeginsAs
  <2>2. server' = server /\ flow' = flow /\ task[s].doc = None
    BY <1>9, WritersHoldDocuments DEF BeginsAs, Writes
  <2>3. Writes(t) => IF t.pc = "create" THEN flow.opnameId = None ELSE t.doc = flow.opnameId
    BY <1>9 DEF BeginsAs, Writes
  <2> QED
    BY <1>2, <1>3, <2>1, <2>2, <2>3
<1>10. ASSUME NEW s \in Slot, NEW t \in Tasks, HandledAs(s, t)
       PROVE  Known(flow', task', server')
  <2>1. /\ \A x \in Slot : task'[x] = (IF x = s THEN t ELSE task[x])
        /\ flow' = flow
    BY <1>2, <1>10 DEF HandledAs
  <2>2. Known(flow, task, server)
    BY <1>3, <2>1
  <2>3. \A x \in Slot : Writes(task'[x]) =>
          IF task'[x].pc = "create" THEN flow.opnameId = None ELSE task'[x].doc = flow.opnameId
    <3>1. Writes(t) => Writes(task[s]) /\ t.pc = task[s].pc
      BY <1>10 DEF HandledAs, Writes
    <3>2. Writes(task[s]) /\ task[s].pc # "create" => t.doc = task[s].doc
      BY <1>10, WritersHoldDocuments DEF HandledAs
    <3> QED
      BY <2>1, <2>2, <3>1, <3>2
  <2>4. ASSUME NEW e \in Doc, server'[e].status # "none"
        PROVE  e = flow.opnameId \/ \E x \in Slot : task'[x].doc = e
    <3>1. CASE e = t.doc
      BY <2>1, <3>1
    <3>2. CASE server[e].status # "none"
      <4>1. CASE e = flow.opnameId
        BY <4>1
      <4>2. CASE \E x \in Slot : task[x].doc = e
        <5>1. PICK x \in Slot : task[x].doc = e
          BY <4>2
        <5>2. task'[x].doc = e
          BY <1>2, <1>10, <2>1, <5>1 DEF HandledAs
        <5> QED
          BY <5>2
      <4> QED
        BY <2>2, <3>2, <4>1, <4>2
    <3> QED
      BY <1>10, <2>4, <3>1, <3>2 DEF HandledAs
  <2> QED
    BY <2>1, <2>3, <2>4
<1>11. ASSUME NEW s \in Slot, NEW t \in Tasks, NEW f \in Flows, GoesOnAs(s, t, f)
       PROVE  Known(flow', task', server')
  <2>1. /\ \A x \in Slot : task'[x] = (IF x = s THEN t ELSE task[x])
        /\ flow' = f /\ server' = server /\ f.at = flow.at
    BY <1>2, <1>11 DEF GoesOnAs
  <2>2. Known(flow, task, server)
    BY <1>3, <2>1
  <2>3. task[s].mounted /\ "left" \notin mishaps
    BY <1>11, <2>1 DEF GoesOnAs, Base, Attended
  <2>4. CASE ~Writes(task[s])
    <3>1. t.doc = None /\ ~Writes(t) /\ f.opnameId = flow.opnameId /\ task[s].doc = None
      BY <1>11, <2>4, Ended, WritersHoldDocuments DEF GoesOnAs, Writes
    <3> QED
      BY <1>2, <2>1, <2>2, <3>1
  <2>5. CASE Writes(task[s])
    <3>1. \A x \in Slot : Writes(task[x]) => x = s
      BY <1>1, <2>3, <2>5 DEF OneWriter
    <3>2. \A x \in Slot : task[x].doc \in Doc => x = s
      BY <1>2, <3>1, WritersHoldDocuments
    <3>3. t = NoTask \/ (t.doc = task[s].doc /\ f.opnameId = t.doc /\ t.pc = "post" /\ task[s].doc # None)
      <4>1. ASSUME t # NoTask
            PROVE  task[s].doc # None
        <5>1. TaskOK(t) /\ t.pc = "post" /\ t.doc = task[s].doc
          BY <1>11, <4>1 DEF GoesOnAs
        <5> QED
          BY <5>1 DEF TaskOK
      <4> QED
        BY <1>11, <2>3, <4>1 DEF GoesOnAs
    <3>4. \A x \in Slot : Writes(task'[x]) => task'[x].pc # "create" /\ task'[x].doc = f.opnameId
      BY <2>1, <3>1, <3>3, Ended DEF Writes
    <3>5. ASSUME NEW e \in Doc, server[e].status # "none"
          PROVE  e = f.opnameId
      <4>1. f.opnameId = flow.opnameId \/ f.opnameId = task[s].doc
        BY <1>11 DEF GoesOnAs
      <4>2. CASE task[s].pc = "create"
        <5>1. flow.opnameId = None
          BY <2>2, <2>5, <4>2
        <5>2. e = task[s].doc
          BY <1>2, <2>2, <3>2, <3>5, <5>1
        <5>3. task[s].handled
          BY <1>2, <2>5, <4>2, <5>2, WritersHoldDocuments
        <5> QED
          BY <1>11, <2>3, <4>2, <5>2, <5>3 DEF GoesOnAs
      <4>3. CASE task[s].pc # "create"
        <5>1. task[s].doc = flow.opnameId
          BY <2>2, <2>5, <4>3
        <5> QED
          BY <1>2, <2>2, <3>2, <3>5, <4>1, <5>1
      <4> QED
        BY <4>2, <4>3
    <3> QED
      BY <2>1, <3>4, <3>5
  <2> QED
    BY <2>4, <2>5
<1> HIDE DEF Known
<1> QED
  BY <1>4, <1>5, <1>6, <1>7, <1>8, <1>9, <1>10, <1>11, StepsAre

LEMMA HoldsWhatIsStoredStep ==
  ASSUME Base, HoldsWhatIsStored, [Next]_vars
  PROVE  HoldsWhatIsStored'
<1> DEFINE Holds(fl, tk, sv) ==
             /\ \A x \in Slot : Writes(tk[x]) =>
                  /\ tk[x].doc = fl.doc /\ tk[x].pc # "create"
                  /\ ~fl.touched => tk[x].lines = countedLines(fl.sheet)
             /\ ~fl.touched => sv[fl.doc].lines = countedLines(fl.sheet)
<1> SUFFICES ASSUME flow'.at = "record", flow'.mounted, mishaps' \cap {"behind", "left"} = {}
             PROVE  Holds(flow', task', server')
  BY DEF HoldsWhatIsStored, Writes, countedLines
<1>1. mishaps \cap {"behind", "left"} = {}
  BY WritersOfBefore
<1>2. task \in [Slot -> Tasks] /\ server \in [Doc -> Documents] /\ None \notin Doc /\ flow \in Flows /\ FlowOK(flow)
  BY CountsAssumption DEF Base, TypeInv, Shape
<1>3. flow.at = "record" /\ flow.mounted => Holds(flow, task, server)
  BY <1>1 DEF HoldsWhatIsStored
<1>4. CASE StaysOnPage
  BY <1>3, <1>4 DEF StaysOnPage
<1>5. CASE LeavesPage
  BY <1>5 DEF LeavesPage
<1>6. CASE DraftResume
  <2>1. server' = server /\ task' = task /\ cache[flow.doc] = server[flow.doc] /\ ~flow.mounted
    BY <1>6 DEF DraftResume
  <2>2. \A x \in Slot : ~Writes(task[x])
    BY <1>1, <2>1 DEF Base, Attended, Writes
  <2>3. flow'.doc = flow.doc /\ flow'.sheet = resumeSheet(cache[flow.doc]) /\ cache[flow.doc] \in Documents
    BY <1>6, Resumed
  <2>4. countedLines(flow'.sheet) = server[flow.doc].lines
    BY <2>1, <2>3, ResumedCounts DEF Documents
  <2> QED
    BY <2>1, <2>2, <2>3, <2>4
<1>7. CASE \E d \in Doc, doc \in Documents : OthersMake(d, doc)
  <2>1. PICK d \in Doc, doc \in Documents : OthersMake(d, doc)
    BY <1>7
  <2>2. flow' = flow /\ task' = task
    BY <2>1 DEF OthersMake
  <2>3. flow.doc \in Doc
    BY <1>2, <2>2 DEF FlowOK, Flows
  <2>4. server'[flow.doc].lines = server[flow.doc].lines
    <3>1. CASE flow.doc # d
      BY <1>2, <2>1, <2>3, <3>1 DEF OthersMake
    <3>2. CASE flow.doc = d
      <4>1. doc.lines = server[d].lines
        BY <2>1, <2>2, <3>2 DEF OthersMake, Behind
      <4> QED
        BY <1>2, <2>1, <3>2, <4>1 DEF OthersMake
    <3> QED
      BY <3>1, <3>2
  <2> QED
    BY <1>3, <2>2, <2>4
<1>8. ASSUME NEW s \in Slot, GoesToRecord(s)
      PROVE  FALSE
  BY <1>8, Pages DEF GoesToRecord
<1>9. ASSUME NEW s \in Slot, NEW t \in Tasks, BeginsAs(s, t)
      PROVE  Holds(flow', task', server')
  <2>1. \A x \in Slot : task'[x] = (IF x = s THEN t ELSE task[x])
    BY <1>2, <1>9 DEF BeginsAs
  <2>2. server' = server /\ flow' = flow /\ flow.opnameId = flow.doc /\ flow.doc # None
    BY <1>2, <1>9 DEF BeginsAs, FlowOK
  <2>3. Writes(t) => t.doc = flow.doc /\ t.pc # "create" /\ t.lines = countedLines(flow.sheet)
    BY <1>9, <2>2 DEF BeginsAs, Writes
  <2> HIDE DEF Holds
  <2>4. Holds(flow, task, server)
    BY <1>3, <2>2
  <2> QED
    BY <2>1, <2>2, <2>3, <2>4 DEF Holds
<1>10. ASSUME NEW s \in Slot, NEW t \in Tasks, HandledAs(s, t)
       PROVE  Holds(flow', task', server')
  <2>1. /\ \A x \in Slot : task'[x] = (IF x = s THEN t ELSE task[x])
        /\ flow' = flow
    BY <1>2, <1>10 DEF HandledAs
  <2>2. Holds(flow, task, server)
    BY <1>3, <2>1
  <2>3. flow.doc \in Doc
    BY <1>2, <2>1 DEF FlowOK, Flows
  <2>4. Writes(t) => Writes(task[s]) /\ t.doc = task[s].doc /\ t.pc = task[s].pc /\ t.lines = task[s].lines
    <3>1. Writes(t) => Writes(task[s]) /\ t.pc = task[s].pc /\ t.lines = task[s].lines
      BY <1>10 DEF HandledAs, Writes
    <3>2. Writes(task[s]) => task[s].doc # None
      BY <2>2, WritersHoldDocuments
    <3> QED
      BY <1>10, <3>1, <3>2 DEF HandledAs
  <2>5. ~flow.touched => server'[flow.doc].lines = countedLines(flow.sheet)
    <3>1. CASE server'[flow.doc].lines = server[flow.doc].lines
      BY <2>2, <3>1
    <3>2. CASE task[s].pc \in {"create", "put"} /\ server'[flow.doc].lines = task[s].lines
      <4>1. Writes(task[s])
        BY <3>2, WritersHoldDocuments
      <4> QED
        BY <2>2, <3>2, <4>1
    <3> QED
      BY <1>10, <2>3, <3>1, <3>2 DEF HandledAs
  <2> QED
    BY <2>1, <2>2, <2>4, <2>5
<1>11. ASSUME NEW s \in Slot, NEW t \in Tasks, NEW f \in Flows, GoesOnAs(s, t, f)
       PROVE  Holds(flow', task', server')
  <2>1. /\ \A x \in Slot : task'[x] = (IF x = s THEN t ELSE task[x])
        /\ flow' = f /\ server' = server /\ f.at = flow.at /\ f.mounted = flow.mounted /\ f.doc = flow.doc
    BY <1>2, <1>11 DEF GoesOnAs
  <2>2. Holds(flow, task, server)
    BY <1>3, <2>1
  <2>3. f.touched \/ (f.sheet = flow.sheet /\ f.touched = flow.touched)
    BY <1>11 DEF GoesOnAs
  <2>4. Writes(t) => Writes(task[s]) /\ t.doc = task[s].doc /\ t.pc # "create" /\ t.lines = task[s].lines
    BY <1>11, Ended DEF GoesOnAs, Writes
  <2> QED
    BY <2>1, <2>2, <2>3, <2>4
<1> HIDE DEF Holds
<1> QED
  BY <1>4, <1>5, <1>6, <1>7, <1>8, <1>9, <1>10, <1>11, StepsAre

-----------------------------------------------------------------------------
(* Before anything happens.                                                *)
LEMMA InvInit == Init => IInv
<1> SUFFICES ASSUME Init
             PROVE  IInv
  OBVIOUS
<1>1. Base
  BY BaseInit
<1>2. /\ task = [s \in Slot |-> NoTask] /\ cache = [d \in Doc |-> None]
      /\ \A s \in Slot : ~Writes(task[s]) /\ task[s].lines = NoRows
  BY Ended DEF Init, Writes
<1>3. /\ ~(flow.at = "record" /\ flow.mounted) /\ flow.sheet = NoRows
      /\ flow.at = "new" => \A d \in Doc : server[d].status = "none"
      /\ flow.step = "setup"
      /\ \A d \in Doc : AllEntered(server[d].warehouse, server[d].lines, entered, mishaps)
  <2>1. CASE NewOpname
    BY <2>1, BuiltIsUncounted, UncountingIsEntered DEF NewOpname, Blank, Away, NoDoc
  <2>2. ASSUME NEW d \in Doc, NEW w \in Warehouse, NEW r \in Row, NEW q \in Qty, DraftOpname(d, w, r, q)
        PROVE  /\ flow.at = "record" /\ ~flow.mounted /\ flow.sheet = NoRows /\ flow.step = "setup"
               /\ \A e \in Doc : AllEntered(server[e].warehouse, server[e].lines, entered, mishaps)
    <3>1. flow.at = "record" /\ ~flow.mounted /\ flow.sheet = NoRows /\ flow.step = "setup"
      BY <2>2 DEF DraftOpname, OnRecord, Away
    <3>2. entered = {<<w, r, q>>} /\ AllEntered(w, [i \in {r} |-> q], entered, mishaps)
      BY <2>2 DEF DraftOpname, AllEntered
    <3>3. \A e \in Doc : \/ server[e].lines = NoRows
                         \/ server[e].lines = [i \in {r} |-> q] /\ server[e].warehouse = w
      BY <2>2 DEF DraftOpname, NoDoc
    <3> QED
      BY <3>1, <3>2, <3>3, BuiltIsUncounted, UncountingIsEntered
  <2> QED
    BY <2>1, <2>2 DEF Init
<1>4. Entered
  BY <1>2, <1>3, BuiltIsUncounted, UncountingIsEntered DEF Entered
<1>5. Matches /\ OneWriter /\ KnowsItsDocument /\ HoldsWhatIsStored
  BY <1>2, <1>3 DEF Matches, OneWriter, KnowsItsDocument, HoldsWhatIsStored
<1>6. StoresWhatItSent
  BY <1>2, StoredBy DEF StoresWhatItSent
<1> QED
  BY <1>1, <1>4, <1>5, <1>6 DEF IInv

LEMMA InvStep == IInv /\ [Next]_vars => IInv'
BY BaseStep, MatchesStep, EnteredStep, OneWriterStep, StoresWhatItSentStep, KnowsItsDocumentStep,
   HoldsWhatIsStoredStep DEF IInv

LEMMA Invariance == Spec => []IInv
BY InvInit, InvStep, PTL DEF Spec

-----------------------------------------------------------------------------
(* Every variable keeps its type: whatever is built, counted, filled in,   *)
(* saved, resumed and posted in whatever order, a sheet stays a sheet.     *)
THEOREM Types == Spec => []TypeOK
<1>1. IInv => TypeOK
  BY DEF IInv, Base, TypeInv, TypeOK, Flows, Tasks
<1> QED
  BY <1>1, Invariance, PTL

(* No count is stored that nobody entered for its row and its warehouse:   *)
(* an uncounted row never becomes a zero, on whichever way through         *)
(* buildSheet, resumeSheet, countedLines, the drafts that are saved and    *)
(* those that are resumed; only a report that arrives late carries counts  *)
(* into another warehouse.                                                 *)
THEOREM NoCountIsInvented == Spec => []CountsWereEntered
<1>1. IInv => CountsWereEntered
  <2> SUFFICES ASSUME IInv, NEW d \in Doc, NEW r \in DOMAIN server[d].lines
               PROVE  \E w \in Warehouse :
                        /\ <<w, r, server[d].lines[r]>> \in entered
                        /\ w = server[d].warehouse \/ "late" \in mishaps
    BY DEF CountsWereEntered
  <2>1. server[d].lines \in Lines /\ AllEntered(server[d].warehouse, server[d].lines, entered, mishaps)
    BY DEF IInv, Base, TypeInv, Documents, Entered
  <2>2. server[d].lines[r] \in Qty
    BY <2>1, LinesAre
  <2> QED
    BY <2>1, <2>2 DEF AllEntered
<1> QED
  BY <1>1, Invariance, PTL

(* What postOpname is about to book is what its user reviewed, in the      *)
(* warehouse whose stock on hand it was reviewed against: one handler      *)
(* writes at a time, what it sent stays what is stored until its post, and *)
(* the sheet it sent was built from the report of the warehouse it names.  *)
(* The exceptions are a report that arrived late, overlapping writers, a   *)
(* refused update, and another user's update between the two requests.     *)
THEOREM ReviewedIsPosted == Spec => []PostsWhatWasReviewed
<1>1. IInv => PostsWhatWasReviewed
  <2> SUFFICES ASSUME IInv, NEW s \in Slot, Sent(s, "post"), server[task[s].doc].status = "draft",
                      mishaps \cap {"crossed", "refused", "late", "met"} = {}
               PROVE  /\ server[task[s].doc].lines = task[s].lines
                      /\ server[task[s].doc].warehouse = task[s].of
    BY DEF PostsWhatWasReviewed
  <2>1. task[s] \in Tasks /\ TaskOK(task[s])
    BY DEF IInv, Base, TypeInv, Shape
  <2>2. Stored(task[s])
    BY <2>1 DEF Sent, Stored, Preparing, TaskOK, Tasks
  <2>3. task[s].of = task[s].warehouse
    BY <2>2, StoredBy DEF IInv, Matches
  <2> QED
    BY <2>2, <2>3 DEF IInv, StoresWhatItSent
<1> QED
  BY <1>1, Invariance, PTL

(* The flow of a new opname makes one document, however often it is saved  *)
(* before it is posted, unless an answer is lost or handlers that write    *)
(* overlap: it knows the document or its one writer does.                  *)
THEOREM OneFlowOneDocument == Spec => []FlowMakesOneDocument
<1>1. IInv => FlowMakesOneDocument
  BY DEF IInv, KnowsItsDocument, FlowMakesOneDocument
<1> QED
  BY <1>1, Invariance, PTL

(* A resumed sheet that nobody has touched holds the counts that are       *)
(* stored, even after it was saved again, if the draft was resumed from    *)
(* what was stored, no other user changed it since and no page was left    *)
(* with a handler running.                                                 *)
THEOREM StoredCountsAreResumed == Spec => []ResumesStoredCounts
<1>1. IInv => ResumesStoredCounts
  BY DEF IInv, HoldsWhatIsStored, ResumesStoredCounts, ResumesCounts
<1> QED
  BY <1>1, Invariance, PTL
=============================================================================
