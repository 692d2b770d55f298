---------------------------- MODULE DocumentLists ----------------------------
(***************************************************************************)
(* The list of one kind of document in one browser tab                     *)
(* (client/src/routes/_authed/*/*/index.tsx, components/doc-list.tsx), on  *)
(* the server's keyset pagination (httpserver/documents.go,                *)
(* store/queries/documents.sql), and the progress of orders, which the     *)
(* client joins from their receipts or deliveries.                         *)
(*                                                                         *)
(* A list has the pages loaded so far under each filter.  It is fetched    *)
(* again whenever it is opened, page by page, each from the cursor of the  *)
(* page before; "load more" asks for one page after the last.  Meanwhile   *)
(* other users create, post, reverse and delete documents, so the pages of *)
(* one list are read from different states of the table.                   *)
(*                                                                         *)
(* A document is its place in the order of created_at and id.  created_at  *)
(* is the time its transaction began, so that a document may well appear   *)
(* behind younger ones that are already listed.                            *)
(***************************************************************************)
EXTENDS Naturals, Sequences, FiniteSets, FiniteSetsExt

CONSTANTS
  Kinds,          \* the lists opened
  Id,             \* the documents, by their places in the order of the list
  LinkedId,       \* the receipts or deliveries, likewise
  Filter,         \* the statuses a list is filtered by, "" for all
  PageLimit,      \* the documents of a page
  LinkedLimit,    \* the receipts or deliveries of a page: the same limit in the code
  Ordered,        \* the quantity of each order; receipts are of less or as much
  MaxActs,        \* bound on what users do
  None

ASSUME IdAssumption ==
  /\ Id \cup LinkedId \subseteq Nat \ {0} /\ None \notin Id \cup LinkedId
  /\ IsFiniteSet(Id) /\ IsFiniteSet(LinkedId)

ASSUME FilterAssumption == "" \in Filter

ASSUME LimitsAssumption == PageLimit \in Nat \ {0} /\ Ordered \in Nat /\ MaxActs \in Nat

VARIABLES
  kind,           \* the kind of the list, fixed
  docs,           \* Id -> the status of the document
  linked,         \* LinkedId -> a receipt or delivery, of which order
  filter,         \* the filter in the URL of the list
  cache,          \* Filter -> the pages loaded, <<>> when there are none yet
  fetch,          \* Filter -> the fetch under way, or None
  receipts,       \* the receipts or deliveries the client has to join
  asked,          \* the fetch of those under way
  acts,           \* what users have done so far
  steady          \* Filter -> the documents that were on the list all along since
                  \* the first page shown, and since the first being fetched, was read

vars == <<kind, docs, linked, filter, cache, fetch, receipts, asked, acts, steady>>

-----------------------------------------------------------------------------
(* The server.                                                             *)

Status == {"none", "draft", "posted", "reversed"}

(* The rows the WHERE clause of the list keeps, but for the cursor.        *)
Matching(table, f) == {i \in Id : table[i] # "none" /\ f \in {"", table[i]}}

Largest(rows, n) == {i \in rows : Cardinality({j \in rows : j > i}) < n}

(* Mutations: the cursor is the row that is cut off; nothing is cut off.   *)
nextCursorIfMoreCut(rows) ==
  IF Cardinality(rows) <= PageLimit THEN [rows |-> rows, next |-> None]
  ELSE [rows |-> Largest(rows, PageLimit), next |-> Min(rows)]

nextCursorIfMoreWhole(rows) ==
  IF Cardinality(rows) <= PageLimit THEN [rows |-> rows, next |-> None]
  ELSE [rows |-> rows, next |-> Min(rows)]

(* One row more than the page has is asked for, to see whether there are   *)
(* more; the cursor is the last one kept.                                  *)
nextCursorIfMore(rows) ==
  IF Cardinality(rows) <= PageLimit THEN [rows |-> rows, next |-> None]
  ELSE LET kept == Largest(rows, PageLimit) IN [rows |-> kept, next |-> Min(kept)]

ListDocuments(f, cursor) ==
  nextCursorIfMore(
    Largest({i \in Matching(docs, f) : cursor = None \/ i < cursor}, PageLimit + 1))

(* The first page of the receipts or deliveries, which is all the client   *)
(* reads of them.                                                          *)
ListLinked == Largest({i \in LinkedId : linked[i].status # "none"}, LinkedLimit)

-----------------------------------------------------------------------------
(* The pages of the seven kinds: the lists of orders join the documents    *)
(* that fulfil them, once the order is no longer a draft, or, on a sales   *)
(* order, while it is posted.                                              *)

OrderListPage      == [joins |-> TRUE, progress |-> {"posted", "reversed"}]
SalesOrderListPage == [joins |-> TRUE, progress |-> {"posted"}]
ReceiptListPage    == [joins |-> FALSE, progress |-> {}]
DeliveryListPage   == [joins |-> FALSE, progress |-> {}]
TransferListPage   == [joins |-> FALSE, progress |-> {}]
AdjustmentListPage == [joins |-> FALSE, progress |-> {}]
OpnameListPage     == [joins |-> FALSE, progress |-> {}]

Page ==
  CASE kind = "po" -> OrderListPage      [] kind = "so" -> SalesOrderListPage
    [] kind = "gr" -> ReceiptListPage    [] kind = "dl" -> DeliveryListPage
    [] kind = "tr" -> TransferListPage   [] kind = "ad" -> AdjustmentListPage
    [] kind = "op" -> OpnameListPage

(* Mutation: drafts count too.                                             *)
countsAsReceivedDrafts(r) == r.status \in {"draft", "posted"}

countsAsReceived(r) == r.status = "posted"

(* receivedByPoLine, deliveredByLine: what the join finds for an order, in *)
(* the receipts or deliveries at hand.  A reversal is a posted one too.    *)
receivedByPoLine(o, rs) ==
  SumFunction([i \in {j \in DOMAIN rs : rs[j].order = o /\ countsAsReceived(rs[j])} |-> rs[i].qty])

(* fulfillmentRows, lineFulfillment: of an order of one line.              *)
fulfillmentRow(o, rs) ==
  LET got == receivedByPoLine(o, rs)
  IN  [received |-> got, remaining |-> IF got >= Ordered THEN 0 ELSE Ordered - got]

(* poReceivedProgress, deliveryProgress: the lines that are fulfilled.     *)
fulfilledLines(o, rs) == IF fulfillmentRow(o, rs).remaining = 0 THEN 1 ELSE 0

-----------------------------------------------------------------------------
Absent == [status |-> "none", order |-> None, qty |-> 0, reverses |-> None]

NotAsked == [state |-> "none", rows |-> <<>>]

Sent == [state |-> "sent", rows |-> <<>>]

Idle == [more |-> FALSE, got |-> <<>>, cursor |-> None, answer |-> None]

(* A list under its first filter, of any posted documents.                 *)
Init ==
  /\ kind \in Kinds
  /\ docs \in [Id -> {"none", "posted"}]
  /\ linked = [i \in LinkedId |-> Absent]
  /\ filter = ""
  /\ cache = [f \in Filter |-> <<>>]
  /\ fetch = [f \in Filter |-> IF f = "" THEN Idle ELSE None]
  /\ receipts = <<>>
  /\ asked = IF Page.joins THEN Sent ELSE NotAsked
  /\ acts = 0
  /\ steady = [f \in Filter |-> [shown |-> {}, read |-> {}]]

-----------------------------------------------------------------------------
(* The user.                                                               *)

(* The bound on what users do.                                             *)
Acting == acts < MaxActs /\ acts' = acts + 1

(* A mounted query is fetched, unless it is being fetched.                 *)
Fetching(f) == fetch' = IF fetch[f] = None THEN [fetch EXCEPT ![f] = Idle] ELSE fetch

(* The list is opened, under the same filter or another: coming back from  *)
(* a document, by a chip or a link.                                        *)
OpenList ==
  /\ Acting
  /\ filter' \in Filter
  /\ Fetching(filter')
  /\ asked' = IF Page.joins /\ asked = NotAsked THEN Sent ELSE asked
  /\ UNCHANGED <<kind, docs, linked, cache, receipts, steady>>

(* hasNextPage: of the last page that is shown.                            *)
HasNextPage == cache[filter] # <<>> /\ cache[filter][Len(cache[filter])].next # None

(* fetchNextPage cancels the fetch that is under way.                      *)
LoadMore ==
  /\ Acting
  /\ HasNextPage
  /\ fetch' = [fetch EXCEPT ![filter] =
       [Idle EXCEPT !.more = TRUE, !.cursor = cache[filter][Len(cache[filter])].next]]
  /\ UNCHANGED <<kind, docs, linked, filter, cache, receipts, asked, steady>>

-----------------------------------------------------------------------------
(* The fetch of a page.                                                    *)

(* A request that is refused has no data: the page is taken to be empty,   *)
(* and the last.                                                           *)
NoData == [rows |-> {}, next |-> None, refused |-> TRUE]

PageOf(answer) == [rows |-> answer.rows, next |-> answer.next, refused |-> FALSE]

Respond(f) ==
  /\ fetch[f] # None /\ fetch[f].answer = None
  /\ \E answer \in {PageOf(ListDocuments(f, fetch[f].cursor)), NoData} :
       fetch' = [fetch EXCEPT ![f].answer = answer]
  /\ steady' = IF fetch[f].cursor = None
               THEN [steady EXCEPT ![f].read = Matching(docs, f)] ELSE steady
  /\ UNCHANGED <<kind, docs, linked, filter, cache, receipts, asked, acts>>

(* The pages of a fetch replace those shown when it has as many, or there  *)
(* are no more.                                                            *)
PageArrives(f) ==
  LET was == fetch[f]
      got == Append(was.got, was.answer)
  IN
  /\ was # None /\ was.answer # None
  /\ IF was.more
     THEN /\ cache' = [cache EXCEPT ![f] = Append(@, was.answer)]
          /\ fetch' = [fetch EXCEPT ![f] = None]
          /\ UNCHANGED steady
     ELSE IF Len(got) < Len(cache[f]) /\ was.answer.next # None
     THEN /\ fetch' = [fetch EXCEPT ![f] = [Idle EXCEPT !.got = got, !.cursor = was.answer.next]]
          /\ UNCHANGED <<cache, steady>>
     ELSE /\ cache' = [cache EXCEPT ![f] = got]
          /\ fetch' = [fetch EXCEPT ![f] = None]
          /\ steady' = [steady EXCEPT ![f].shown = steady[f].read]
  /\ UNCHANGED <<kind, docs, linked, filter, receipts, asked, acts>>

(* Requests that get no answer are given up in the end: what was shown     *)
(* stays.                                                                  *)
FetchFails(f) ==
  /\ fetch[f] # None
  /\ fetch' = [fetch EXCEPT ![f] = None]
  /\ UNCHANGED <<kind, docs, linked, filter, cache, receipts, asked, acts, steady>>

(* The receipts or deliveries to join: a refusal is taken for none.        *)
RespondLinked ==
  /\ asked.state = "sent"
  /\ \E rows \in {ListLinked, {}} :
       asked' = [state |-> "answered", rows |-> [i \in rows |-> linked[i]]]
  /\ UNCHANGED <<kind, docs, linked, filter, cache, fetch, receipts, acts, steady>>

LinkedArrive ==
  /\ asked.state = "answered"
  /\ receipts' = asked.rows
  /\ asked' = NotAsked
  /\ UNCHANGED <<kind, docs, linked, filter, cache, fetch, acts, steady>>

-----------------------------------------------------------------------------
(* Other users, and other pages of the tab.                                *)

StillMatching(table) ==
  steady' = [f \in Filter |-> [shown |-> steady[f].shown \cap Matching(table, f),
                               read |-> steady[f].read \cap Matching(table, f)]]

ChangesTo(table) ==
  /\ docs' = table
  /\ StillMatching(table)
  /\ UNCHANGED <<kind, linked, filter, cache, fetch, receipts, asked>>

(* A document appears anywhere in the order; a reversal comes posted, and  *)
(* with it goes the status of its original.                                *)
CreateDocument ==
  /\ Acting
  /\ \E i \in Id : docs[i] = "none" /\ ChangesTo([docs EXCEPT ![i] = "draft"])

PostDocument ==
  /\ Acting
  /\ \E i \in Id : docs[i] = "draft" /\ ChangesTo([docs EXCEPT ![i] = "posted"])

DeleteDocument ==
  /\ Acting
  /\ \E i \in Id : docs[i] = "draft" /\ ChangesTo([docs EXCEPT ![i] = "none"])

ReverseDocument ==
  /\ Acting
  /\ \E i, r \in Id :
       /\ docs[i] = "posted" /\ docs[r] = "none"
       /\ ChangesTo([docs EXCEPT ![i] = "reversed", ![r] = "posted"])

LinkedChangesTo(table) ==
  /\ linked' = table
  /\ UNCHANGED <<kind, docs, filter, cache, fetch, receipts, asked, steady>>

Receive ==
  /\ Acting /\ Page.joins
  /\ \E i \in LinkedId, o \in Id, q \in 1..Ordered :
       /\ docs[o] = "posted" /\ linked[i].status = "none"
       /\ LinkedChangesTo([linked EXCEPT ![i] = [Absent EXCEPT !.status = "draft", !.order = o, !.qty = q]])

PostLinked ==
  /\ Acting
  /\ \E i \in LinkedId :
       /\ linked[i].status = "draft"
       /\ LinkedChangesTo([linked EXCEPT ![i].status = "posted"])

DeleteLinked ==
  /\ Acting
  /\ \E i \in LinkedId :
       linked[i].status = "draft" /\ LinkedChangesTo([linked EXCEPT ![i] = Absent])

(* The reversal, a draft at first, has the lines and links of its original;*)
(* it is posted as its original becomes reversed, unless the call is cut   *)
(* off, which leaves a draft like any other.                               *)
BeginReverseLinked ==
  /\ Acting
  /\ \E i, r \in LinkedId :
       /\ linked[i].status = "posted" /\ linked[r].status = "none"
       /\ LinkedChangesTo([linked EXCEPT ![r] = [linked[i] EXCEPT !.status = "draft", !.reverses = i]])

ReverseLinked ==
  \E r \in LinkedId :
    LET i == linked[r].reverses IN
    /\ linked[r].status \in {"draft", "posted"} /\ i # None
    /\ LinkedChangesTo([linked EXCEPT ![r].status = "posted", ![i].status = "reversed"])
    /\ UNCHANGED acts

Others ==
  \/ CreateDocument \/ PostDocument \/ DeleteDocument \/ ReverseDocument
  \/ Receive \/ PostLinked \/ DeleteLinked \/ BeginReverseLinked \/ ReverseLinked

Next ==
  \/ OpenList \/ LoadMore \/ RespondLinked \/ LinkedArrive \/ Others
  \/ \E f \in Filter : Respond(f) \/ PageArrives(f) \/ FetchFails(f)

Spec == Init /\ [][Next]_vars

-----------------------------------------------------------------------------
(* Types.  No page has more rows than its limit.                           *)
PagesOK(ps) ==
  \A n \in DOMAIN ps :
    /\ ps[n].rows \subseteq Id /\ Cardinality(ps[n].rows) <= PageLimit
    /\ ps[n].next \in Id \cup {None} /\ ps[n].refused \in BOOLEAN

TypeOK ==
  /\ kind \in Kinds
  /\ docs \in [Id -> Status]
  /\ \A i \in LinkedId :
       linked[i] \in [status : Status, order : Id \cup {None}, qty : 0..Ordered,
                      reverses : LinkedId \cup {None}]
  /\ filter \in Filter
  /\ \A f \in Filter : PagesOK(cache[f])
  /\ \A f \in Filter : fetch[f] # None => PagesOK(fetch[f].got)
  /\ acts \in 0..MaxActs
  /\ \A f \in Filter : steady[f].shown \subseteq Id /\ steady[f].read \subseteq Id

(* "Cursor pagination deterministic and stable at boundaries (no           *)
(* dupes/skips)" (docs/jobs/wo/SN-0002.md:44): whatever is created,        *)
(* posted, reversed or deleted between the reading of its pages, and       *)
(* however loading more and fetching again overlap, a list shows no        *)
(* document twice, and misses none, down to its last row, that was on the  *)
(* list all along since its first page was read.  A page that was refused  *)
(* passes for the end of the list.                                         *)
RowsAreWhole ==
  \A f \in Filter :
    LET ps == cache[f] IN
    ps # <<>> /\ (\A n \in DOMAIN ps : ~ps[n].refused) =>
      /\ \A m, n \in DOMAIN ps : m # n => ps[m].rows \cap ps[n].rows = {}
      /\ \A i \in steady[f].shown :
           ps[Len(ps)].next = None \/ i >= ps[Len(ps)].next => \E n \in DOMAIN ps : i \in ps[n].rows

(* What stands against an order now: a reversal that someone posts as if   *)
(* it were a receipt brings its goods in like one.                         *)
Received(o) ==
  SumFunction([i \in {j \in LinkedId : linked[j].order = o /\ linked[j].status = "posted"}
               |-> linked[i].qty])

(* An order none of whose receipts or deliveries was reversed is never     *)
(* shown further along than it is: "drafts are not yet real"               *)
(* (-order-data.ts:118), and what is joined may be old, or the first page  *)
(* only, but was posted when it was read.                                  *)
ProgressIsNotAhead ==
  \A o \in Id :
    docs[o] \in Page.progress /\ (\A i \in LinkedId : linked[i].order = o => linked[i].status # "reversed") =>
      /\ fulfillmentRow(o, receipts).received <= Received(o)
      /\ fulfilledLines(o, receipts) = 1 => Received(o) >= Ordered

(* "a reversed receipt has had its stock returned, so neither counts"      *)
(* (-order-data.ts:118-119), "Drafts and reversals do not count toward     *)
(* fulfillment" (-sales-order-data.ts:147-148): an order is shown no       *)
(* further along than by the receipts or deliveries at hand that are       *)
(* posted, and reverse none.                                               *)
ReversalsDoNotCount ==
  \A o \in Id :
    docs[o] \in Page.progress =>
      fulfillmentRow(o, receipts).received <=
        SumFunction([i \in {j \in DOMAIN receipts : /\ receipts[j].order = o /\ receipts[j].status = "posted"
                                                    /\ receipts[j].reverses = None} |-> receipts[i].qty])
=============================================================================
