------------------------------ MODULE Workspace ------------------------------
(***************************************************************************)
(* One browser tab between its session, the tenant it works in and the     *)
(* queries it caches (client/src/routes, lib/session.ts), on the server's  *)
(* sessions (httpserver/auth.go) and memberships (Membership).             *)
(*                                                                         *)
(* The active tenant is a field of the server's session, which the cookie  *)
(* names and all tabs share: a query or a save says nothing of the tenant. *)
(* The tab has its own idea of it three times: in the cached session, in   *)
(* the context its layout was last routed with, and in the rows it caches. *)
(*                                                                         *)
(* A query mounts with its page and is fetched on every mount, cached rows *)
(* being shown meanwhile; an invalidation fetches the mounted ones again.  *)
(***************************************************************************)
EXTENDS Membership, Functions

CONSTANTS
  Pages,          \* the pages opened, beside "home"
  MaxActs         \* bound on what users do

ASSUME PagesAssumption ==
  Pages \subseteq {"products", "product", "partners", "partner", "warehouses", "warehouse",
                  "members", "invites", "profile", "on-hand", "valuation", "card"}

ASSUME ActsAssumption == MaxActs \in Nat

VARIABLES
  cookie,         \* the browser's session on the server: user and tenant, or None
  last,           \* User -> the tenant they were last active in
  rev,            \* <<tenant, entity>> -> how often it was saved
  session,        \* the tab's cached session, None when not logged in
  page,           \* the page shown and the session its layout was routed with
  cache,          \* query key -> the rows it has
  fetch,          \* query key -> the rows on their way, None until the server answers
  task,           \* Slot -> a running handler
  acts,           \* what users have done so far
  told,           \* <<tenant, entity>> -> the last save this tab was told of
  landed,         \* <<shown, booked>>: the tenants of the saves that were made
  mishaps         \* what went wrong so far: see Mishap

tab == <<session, page, cache, fetch, task, told, mishaps>>

vars == <<members, cookie, last, rev, tab, acts, landed>>

-----------------------------------------------------------------------------
(* The pages: the queries they read, whether their keys name the tenant,   *)
(* what a form on the page saves and which queries are fetched again then. *)
(*   creates  whether the form can make a new record; an update names the  *)
(*            record, which another tenant does not have                   *)

Entity == {"product", "partner", "warehouse", "tenant", "invite", "none"}

Of(key) ==
  CASE key \in {"catalog-products", "products", "product"} -> "product"
    [] key \in {"catalog-partners", "partners", "catalog-partner"} -> "partner"
    [] key \in {"warehouses"} -> "warehouse"
    [] key = "tenant" -> "tenant"
    [] key = "invites" -> "invite"
    [] OTHER -> "none"

Reading(reads) ==
  [reads |-> reads, keyed |-> FALSE, saves |-> "none", creates |-> FALSE, invalidates |-> {}]

Dashboard == Reading({"dashboard"})

StockOnHandPage == Reading({"products", "report-stock-on-hand"})
ValuationPage   == Reading({"products", "report-valuation"})
StockCardPage   == Reading({"products", "report-stock-card"})

ProductsPage ==
  [reads |-> {"catalog-products"}, keyed |-> FALSE, saves |-> "product", creates |-> TRUE,
   invalidates |-> {"catalog-products", "products"}]

(* Mutation: the page forgets its own query.                               *)
ProductDetailPageForgetful ==
  [reads |-> {"product", "product-figures"}, keyed |-> FALSE, saves |-> "product", creates |-> FALSE,
   invalidates |-> {"catalog-products", "products"}]

(* product-figures: its units, batches, stock on hand, valuation and card. *)
ProductDetailPage ==
  [reads |-> {"product", "product-figures"}, keyed |-> FALSE, saves |-> "product", creates |-> FALSE,
   invalidates |-> {"catalog-products", "products", "product"}]

PartnersPage ==
  [reads |-> {"catalog-partners"}, keyed |-> FALSE, saves |-> "partner", creates |-> TRUE,
   invalidates |-> {"catalog-partners", "partners"}]

PartnerDetailPage ==
  [reads |-> {"catalog-partner", "warehouses", "entity-documents"}, keyed |-> FALSE,
   saves |-> "partner", creates |-> FALSE,
   invalidates |-> {"catalog-partner", "catalog-partners", "partners"}]

WarehousesPage ==
  [reads |-> {"warehouses"}, keyed |-> FALSE, saves |-> "warehouse", creates |-> TRUE,
   invalidates |-> {"warehouses"}]

WarehouseDetailPage ==
  [reads |-> {"warehouses", "stock-on-hand", "partners", "entity-documents"}, keyed |-> FALSE,
   saves |-> "warehouse", creates |-> FALSE, invalidates |-> {"warehouses"}]

MembersSection ==
  [reads |-> {"members"}, keyed |-> TRUE, saves |-> "none", creates |-> FALSE, invalidates |-> {}]

InvitesSection ==
  [reads |-> {"invites"}, keyed |-> TRUE, saves |-> "invite", creates |-> TRUE,
   invalidates |-> {"invites"}]

TenantProfileForm ==
  [reads |-> {"tenant"}, keyed |-> TRUE, saves |-> "tenant", creates |-> TRUE,
   invalidates |-> {"tenant"}]

Page(name) ==
  CASE name = "home" -> Dashboard
    [] name = "products" -> ProductsPage     [] name = "product" -> ProductDetailPage
    [] name = "partners" -> PartnersPage     [] name = "partner" -> PartnerDetailPage
    [] name = "warehouses" -> WarehousesPage [] name = "warehouse" -> WarehouseDetailPage
    [] name = "members" -> MembersSection    [] name = "invites" -> InvitesSection
    [] name = "profile" -> TenantProfileForm
    [] name = "on-hand" -> StockOnHandPage   [] name = "valuation" -> ValuationPage
    [] name = "card" -> StockCardPage
    [] OTHER -> Reading({})

-----------------------------------------------------------------------------
(* What the server says of a session: sessionInfo.                         *)
sessionInfo(c) ==
  [user |-> c.user, tenant |-> c.tenant, roles |-> [t \in Tenant |-> role[<<c.user, t>>]]]

Infos == [user : User, tenant : Tenant \cup {None}, roles : [Tenant -> Role \cup {None}]]

Sessions == [user : User, tenant : Tenant \cup {None}]

ASSUME SessionsAssumption == None \notin Infos \cup Sessions

NoMemberships(info) == \A t \in Tenant : info.roles[t] = None

activeRole(info) == IF info.tenant = None THEN None ELSE info.roles[info.tenant]

NoTask ==
  [op |-> "idle", arg |-> None, from |-> None, pc |-> "end", handled |-> FALSE,
   info |-> None, awaits |-> {}]

(* An answer is lost; handlers that touch the cookie's tenant overlap; a   *)
(* query is on its way, and not started anew, when what it asks for        *)
(* changes; a page is left while its save runs; another tab of the browser *)
(* changes the session.                                                    *)
Mishap == {"lost", "overlap", "in flight", "left", "other tab"}

Unrouted(at) == [at |-> at, ctx |-> None]

Authed == page.ctx # None

Keys(pg) ==
  IF pg.ctx = None THEN {} ELSE
    {<<k, IF Page(pg.at).keyed THEN pg.ctx.tenant ELSE None>> : k \in Page(pg.at).reads}

Mounted == Keys(page)

(* beforeLoad: nobody is here without a session, or past the wizard        *)
(* without a tenant, or among the invites without the right to them.       *)
Routed(at, info) ==
  IF info = None THEN Unrouted("login")
  ELSE [ctx |-> info,
        at |-> IF NoMemberships(info) THEN "onboarding"
               ELSE IF at = "invites" /\ activeRole(info) \notin {"owner", "admin"} THEN "profile"
               ELSE at]

(* The page is shown and its queries are fetched.                          *)
Show(pg) ==
  /\ page' = pg
  /\ fetch' = [k \in DOMAIN fetch \cup Keys(pg) |-> IF k \in DOMAIN fetch THEN fetch[k] ELSE None]

(* router.invalidate: beforeLoad again, in place; queries whose keys are   *)
(* new are fetched.                                                        *)
Rerouted(info) ==
  LET pg == Routed(page.at, info)
      new == Keys(pg) \ Mounted
  IN  /\ page' = pg
      /\ fetch' = [k \in DOMAIN fetch \cup new |-> IF k \in DOMAIN fetch THEN fetch[k] ELSE None]

(* invalidateQueries: mounted queries are fetched again, those under way   *)
(* anew, unless they have no rows yet.                                     *)
AllKeys == Mounted \cup DOMAIN fetch

Restarted(ks) == ks \cap Mounted \cap (DOMAIN cache \cup (Mounted \ DOMAIN fetch))

Invalidated(ks) ==
  fetch' = [k \in DOMAIN fetch \cup Restarted(ks) |->
              IF k \in Restarted(ks) THEN None ELSE fetch[k]]

InFlight(ks) == IF DOMAIN fetch \cap ks = {} THEN {} ELSE {"in flight"}

Missed(ks) == InFlight(ks \ Restarted(ks))

Init ==
  /\ MembersInit
  /\ cookie \in {None} \cup {[user |-> u, tenant |-> t] : u \in User, t \in Tenant \cup {None}}
  /\ cookie # None /\ cookie.tenant # None => role[<<cookie.user, cookie.tenant>>] # None
  /\ last = [u \in User |-> IF cookie # None /\ cookie.user = u THEN cookie.tenant ELSE None]
  /\ rev = [p \in Tenant \X Entity |-> 0]
  /\ session = None
  /\ page = Unrouted("loading")
  /\ cache = [k \in {} |-> None]
  /\ fetch = [k \in {} |-> None]
  /\ task = [s \in Slot |-> NoTask]
  /\ acts = 0
  /\ told = [p \in Tenant \X Entity |-> 0]
  /\ landed = {}
  /\ mishaps = {}

-----------------------------------------------------------------------------
(* Data arriving.                                                          *)

server == <<members, cookie, last, rev, landed>>

(* ensureQueryData of the session: only when the tab has none yet.         *)
LoadSession ==
  /\ page.at = "loading"
  /\ session' = IF cookie = None THEN None ELSE sessionInfo(cookie)
  /\ Show(Routed("home", session'))
  /\ UNCHANGED <<server, cache, task, acts, told, mishaps>>

(* The server answers a query for the tenant the session has just then.    *)
Respond(k) ==
  /\ k \in DOMAIN fetch /\ fetch[k] = None
  /\ fetch' = [fetch EXCEPT ![k] =
       IF cookie # None /\ cookie.tenant # None /\ requireTenant(cookie.user, cookie.tenant)
       THEN [tenant |-> cookie.tenant, rev |-> rev[<<cookie.tenant, Of(k[1])>>]]
       ELSE [tenant |-> None, rev |-> 0]]
  /\ UNCHANGED <<server, session, page, cache, task, acts, told, mishaps>>

RowsArrive(k) ==
  /\ k \in DOMAIN fetch /\ fetch[k] # None
  /\ cache' = [j \in DOMAIN cache \cup {k} |-> IF j = k THEN fetch[k] ELSE cache[j]]
  /\ fetch' = Restrict(fetch, DOMAIN fetch \ {k})
  /\ UNCHANGED <<server, session, page, task, acts, told, mishaps>>

(* The page of an invite asks for the session again.                       *)
SessionRefetched ==
  /\ page = Unrouted("invite")
  /\ session' = IF cookie = None THEN None ELSE sessionInfo(cookie)
  /\ UNCHANGED <<server, page, cache, fetch, task, acts, told, mishaps>>

-----------------------------------------------------------------------------
(* The user.  A form submits once at a time, a button or a menu as often   *)
(* as it is clicked; a form that was left and opened again is a new one.   *)

(* The bound on what users do.                                             *)
Acting == acts < MaxActs /\ acts' = acts + 1

Running(ops) == \E s \in Slot : task[s].op \in ops

Rebinding == {"login", "logout", "switch", "accept", "onboard"}

Overlaps(op) ==
  IF Running(Rebinding) \/ (op \in Rebinding /\ Running({"save", "member"})) THEN {"overlap"} ELSE {}

FreeSlot(s) == task[s].op = "idle" /\ request[s] = Idle

Start(op, arg) ==
  /\ Acting
  /\ \E s \in Slot : FreeSlot(s)
  /\ task' = [task EXCEPT ![CHOOSE s \in Slot : FreeSlot(s)] =
       [NoTask EXCEPT !.op = op, !.arg = arg, !.pc = "sent",
          !.from = IF Authed THEN page.ctx.tenant ELSE None]]
  /\ mishaps' = mishaps \cup Overlaps(op)
  /\ UNCHANGED <<server, session, page, cache, fetch, told>>

(* The login that an invite's page leads to goes back there.               *)
LoginForm ==
  /\ page.at \in {"login", "login first"} /\ ~Running({"login"})
  /\ \E u \in User :
       Start("login", [user |-> u, redirect |-> IF page.at = "login first" THEN "invite" ELSE "home"])

OnboardingWizard == page.at = "onboarding" /\ ~Running({"onboard"}) /\ Start("onboard", None)

Logout == Authed /\ Start("logout", None)

SwitchTenant ==
  Authed /\ \E t \in Tenant : page.ctx.roles[t] # None /\ t # page.ctx.tenant /\ Start("switch", t)

InvitePage == page.at = "invite" /\ session # None /\ \E k \in Token : Start("accept", k)

SaveForm ==
  /\ Authed /\ Page(page.at).saves # "none"
  /\ Start("save", page.at)

ChangeMember ==
  /\ page.at = "members" /\ activeRole(page.ctx) = "owner"
  /\ \E u \in User, new \in Role \cup {None} : Start("member", [user |-> u, role |-> new])

OpenPage ==
  /\ Acting
  /\ Authed /\ page.at # "onboarding"
  /\ \E name \in Pages \cup {"home"} : name # page.at /\ Show(Routed(name, session))
  /\ UNCHANGED <<server, session, cache, task, told, mishaps>>

(* An invite's link, for whoever is or is not logged in.                   *)
OpenInvite ==
  /\ Acting
  /\ page.at \notin {"loading", "invite"} /\ \E k \in Token : invite[k] # None
  /\ page' = Unrouted("invite")
  /\ UNCHANGED <<server, session, cache, fetch, task, told, mishaps>>

LoginFirst ==
  /\ page.at = "invite" /\ session = None
  /\ page' = Unrouted("login first")
  /\ UNCHANGED <<server, session, cache, fetch, task, acts, told, mishaps>>

-----------------------------------------------------------------------------
(* The server.                                                             *)

Sent(s, op) == task[s].op = op /\ task[s].pc = "sent" /\ ~task[s].handled /\ request[s] = Idle

client == <<session, page, cache, fetch, acts, told, mishaps>>

(* The session's tenant, and the one the user's next login starts in.      *)
Rebound(u, t) ==
  /\ cookie' = IF cookie # None /\ cookie.user = u THEN [cookie EXCEPT !.tenant = t] ELSE cookie
  /\ last' = [last EXCEPT ![u] = t]

Answering(s, info) == task' = [task EXCEPT ![s].handled = TRUE, ![s].info = info]

Login(s) ==
  LET u == task[s].arg.user IN
  /\ Sent(s, "login")
  /\ cookie' = [user |-> u, tenant |-> IF last[u] # None /\ role[<<u, last[u]>>] # None
                                       THEN last[u] ELSE None]
  /\ Answering(s, sessionInfo(cookie'))
  /\ UNCHANGED <<members, last, rev, landed, client>>

DeleteSession(s) ==
  /\ Sent(s, "logout") /\ cookie # None
  /\ cookie' = None
  /\ Answering(s, None)
  /\ UNCHANGED <<members, last, rev, landed, client>>

SetActiveTenant(s) ==
  LET t == task[s].arg IN
  /\ Sent(s, "switch") /\ cookie # None /\ role[<<cookie.user, t>>] # None
  /\ Rebound(cookie.user, t)
  /\ Answering(s, sessionInfo([cookie EXCEPT !.tenant = t]))
  /\ UNCHANGED <<members, rev, landed, client>>

(* The second of its two statements fails, and the answer is an error.     *)
HalfSwitched(s) ==
  LET t == task[s].arg IN
  /\ Sent(s, "switch") /\ cookie # None /\ role[<<cookie.user, t>>] # None
  /\ cookie' = [cookie EXCEPT !.tenant = t]
  /\ task' = [task EXCEPT ![s] = NoTask]
  /\ mishaps' = mishaps \cup {"lost"}
  /\ UNCHANGED <<members, last, rev, landed, session, page, cache, fetch, acts, told>>

LookupInvite(s) ==
  /\ Sent(s, "accept") /\ cookie # None
  /\ AcceptInvite(s, cookie.user, task[s].arg)
  /\ UNCHANGED <<cookie, last, rev, landed, client, task>>

JoinTenant(s) ==
  LET r == request[s] IN
  /\ task[s].op = "accept" /\ Join(s)
  /\ Rebound(r.user, r.tenant)
  /\ Answering(s, [user |-> r.user, tenant |-> r.tenant, roles |-> [t \in Tenant |-> role'[<<r.user, t>>]]])
  /\ UNCHANGED <<rev, landed, client>>

BeginTenant(s) ==
  /\ Sent(s, "onboard") /\ cookie # None
  /\ CreateTenant(s, cookie.user)
  /\ UNCHANGED <<cookie, last, rev, landed, client, task>>

FoundTenant(s) ==
  /\ task[s].op = "onboard"
  /\ \E t \in Tenant : InsertTenant(s, t) /\ Rebound(request[s].user, t)
  /\ Answering(s, None)
  /\ UNCHANGED <<rev, landed, client>>

(* The session asked for again by the wizard.                              *)
GetSession(s) ==
  /\ task[s].op = "onboard" /\ task[s].pc = "session" /\ ~task[s].handled /\ cookie # None
  /\ Answering(s, sessionInfo(cookie))
  /\ UNCHANGED <<server, client>>

Save(s) ==
  LET p == Page(task[s].arg) IN
  /\ Sent(s, "save") /\ cookie # None /\ cookie.tenant # None
  /\ requireTenant(cookie.user, cookie.tenant)
  /\ p.creates \/ cookie.tenant = task[s].from
  /\ rev' = [rev EXCEPT ![<<cookie.tenant, p.saves>>] = @ + 1]
  /\ landed' = landed \cup {<<task[s].from, cookie.tenant>>}
  /\ Answering(s, [tenant |-> cookie.tenant, rev |-> rev'[<<cookie.tenant, p.saves>>]])
  /\ UNCHANGED <<members, cookie, last, client>>

BeginMember(s) ==
  /\ Sent(s, "member") /\ cookie # None /\ cookie.tenant # None
  /\ UpdateMember(s, cookie.user, cookie.tenant, task[s].arg.user, task[s].arg.role)
  /\ UNCHANGED <<cookie, last, rev, landed, client, task>>

EndMember(s) ==
  /\ task[s].op = "member" /\ WriteMember(s)
  /\ Answering(s, None)
  /\ UNCHANGED <<cookie, last, rev, landed, client>>

GiveUp(s) ==
  /\ task[s].op # "idle" /\ Abort(s)
  /\ UNCHANGED <<cookie, last, rev, landed, client, task>>

Handles(s) ==
  \/ Login(s) \/ DeleteSession(s) \/ SetActiveTenant(s) \/ LookupInvite(s) \/ JoinTenant(s)
  \/ BeginTenant(s) \/ FoundTenant(s) \/ GetSession(s) \/ Save(s) \/ BeginMember(s)
  \/ EndMember(s) \/ GiveUp(s)

-----------------------------------------------------------------------------
(* The rest of a handler, from an answer on.                               *)

Answer(s) == IF task[s].handled THEN {"ok", "lost"} ELSE {"refused", "lost"}

Answered(s, ops, how) ==
  /\ task[s].op \in ops /\ task[s].pc = "sent" /\ request[s] = Idle
  /\ how \in Answer(s)

End(s) == task' = [task EXCEPT ![s] = NoTask]

Noting(how) == mishaps' = mishaps \cup IF how = "lost" THEN {"lost"} ELSE {}

(* LoginPage, RegisterPage, InvitePage: the session that came with the     *)
(* answer is cached and the user goes home, or back to the invite.         *)
Landing(s) ==
  IF task[s].op = "login" /\ task[s].arg.redirect = "invite"
  THEN Unrouted("invite") ELSE Routed("home", task[s].info)

Entered(s) ==
  \E how \in {"ok", "refused", "lost"} :
    /\ Answered(s, {"login", "accept"}, how)
    /\ IF how = "ok"
       THEN /\ session' = task[s].info /\ Show(Landing(s))
            /\ mishaps' = mishaps \cup InFlight(AllKeys)
       ELSE Noting(how) /\ UNCHANGED <<session, page, fetch>>
    /\ End(s)
    /\ UNCHANGED <<server, cache, acts, told>>

(* A logout that is refused passes for one; the cached rows stay.          *)
LoggedOut(s) ==
  \E how \in {"ok", "refused", "lost"} :
    /\ Answered(s, {"logout"}, how)
    /\ IF how = "lost" THEN UNCHANGED <<session, page>>
                       ELSE session' = None /\ page' = Unrouted("login")
    /\ End(s) /\ Noting(how)
    /\ UNCHANGED <<server, cache, fetch, acts, told>>

(* Mutation: only the session is replaced.                                 *)
SwitchedAlone(s) ==
  \E how \in {"ok", "refused", "lost"} :
    /\ Answered(s, {"switch"}, how)
    /\ IF how = "ok"
       THEN /\ session' = task[s].info
            /\ task' = [task EXCEPT ![s].pc = "await", ![s].awaits = {}]
       ELSE End(s) /\ UNCHANGED session
    /\ Noting(how)
    /\ UNCHANGED <<server, page, cache, fetch, acts, told>>

(* switchTenant: every query but the session is invalidated.               *)
Switched(s) ==
  \E how \in {"ok", "refused", "lost"} :
    /\ Answered(s, {"switch"}, how)
    /\ IF how = "ok"
       THEN /\ session' = task[s].info
            /\ Invalidated(AllKeys)
            /\ mishaps' = mishaps \cup Missed(AllKeys)
            /\ task' = [task EXCEPT ![s].pc = "await", ![s].awaits = Mounted]
       ELSE End(s) /\ Noting(how) /\ UNCHANGED <<session, fetch>>
    /\ UNCHANGED <<server, page, cache, acts, told>>

(* Mutation: the layout keeps the context it was routed with.              *)
SwitchEndsUnrouted(s) ==
  /\ task[s].op = "switch" /\ task[s].pc = "await" /\ task[s].awaits \cap DOMAIN fetch = {}
  /\ End(s)
  /\ UNCHANGED <<server, client>>

(* And router.invalidate: the layout is routed with the cached session.    *)
SwitchEnds(s) ==
  /\ task[s].op \in {"switch", "member"} /\ task[s].pc = "await" /\ task[s].awaits \cap DOMAIN fetch = {}
  /\ IF Authed THEN Rerouted(session) ELSE UNCHANGED <<page, fetch>>
  /\ End(s)
  /\ UNCHANGED <<server, session, cache, acts, told, mishaps>>

(* Mutation: the answer is cached as the session.                          *)
FoundedCached(s) ==
  \E how \in {"ok", "refused", "lost"} :
    /\ Answered(s, {"onboard"}, how)
    /\ session' = IF how = "ok" THEN [tenant |-> last[cookie.user]] ELSE session
    /\ End(s) /\ Noting(how)
    /\ UNCHANGED <<server, page, cache, fetch, acts, told>>

(* OnboardingWizard: the session is fetched after the tenant is founded.   *)
Founded(s) ==
  \E how \in {"ok", "refused", "lost"} :
    /\ Answered(s, {"onboard"}, how)
    /\ task' = [task EXCEPT ![s] =
         IF how = "ok" THEN [NoTask EXCEPT !.op = "onboard", !.pc = "session"] ELSE NoTask]
    /\ Noting(how)
    /\ UNCHANGED <<server, session, page, cache, fetch, acts, told>>

(* The user goes home, or is told that the tenant awaits activation.       *)
Onboarded(s) ==
  LET info == task[s].info
      at == IF info # None /\ info.tenant \in Tenant \ active THEN "pending" ELSE "home"
  IN
  \E how \in {"ok", "refused", "lost"} :
    /\ task[s].op = "onboard" /\ task[s].pc = "session" /\ how \in Answer(s)
    /\ IF how = "lost"
       THEN Noting(how) /\ UNCHANGED <<session, page, fetch>>
       ELSE /\ session' = info /\ Show(Routed(at, info))
            /\ mishaps' = mishaps \cup InFlight(AllKeys)
    /\ End(s)
    /\ UNCHANGED <<server, cache, acts, told>>

Saved(s) ==
  LET p == Page(task[s].arg)
      keys == {k \in AllKeys : k[1] \in p.invalidates}
      affected == {k \in AllKeys : Of(k[1]) = p.saves}
  IN
  \E how \in {"ok", "refused", "lost"} :
    /\ Answered(s, {"save"}, how)
    /\ IF how = "ok"
       THEN /\ Invalidated(keys)
            /\ mishaps' = mishaps \cup InFlight(affected \ Restarted(keys))
                                 \cup IF page.at = task[s].arg THEN {} ELSE {"left"}
            /\ told' = [told EXCEPT ![<<task[s].info.tenant, p.saves>>] =
                          IF @ < task[s].info.rev THEN task[s].info.rev ELSE @]
       ELSE Noting(how) /\ UNCHANGED <<fetch, told>>
    /\ End(s)
    /\ UNCHANGED <<server, session, page, cache, acts>>

(* changeRole, remove: the members are fetched again, and awaited; after a *)
(* change of role the layout is routed anew as well.                       *)
MemberChanged(s) ==
  LET keys == {k \in Mounted : k[1] = "members"} IN
  \E how \in {"ok", "refused", "lost"} :
    /\ Answered(s, {"member"}, how)
    /\ IF how = "ok" THEN Invalidated(keys) ELSE UNCHANGED fetch
    /\ IF how = "ok" /\ task[s].arg.role # None
       THEN task' = [task EXCEPT ![s].pc = "await", ![s].awaits = keys]
       ELSE End(s)
    /\ Noting(how)
    /\ UNCHANGED <<server, session, page, cache, acts, told>>

Continues(s) ==
  \/ Entered(s) \/ LoggedOut(s) \/ Switched(s) \/ SwitchEnds(s) \/ Founded(s) \/ Onboarded(s)
  \/ Saved(s) \/ MemberChanged(s)

-----------------------------------------------------------------------------
(* Others: another tab of the browser, other users of a tenant.            *)

OtherTab ==
  /\ Acting /\ cookie # None
  /\ \/ \E t \in Tenant \ {cookie.tenant} : role[<<cookie.user, t>>] # None /\ Rebound(cookie.user, t)
     \/ cookie' = None /\ UNCHANGED last
  /\ mishaps' = mishaps \cup {"other tab"}
  /\ UNCHANGED <<members, rev, landed, session, page, cache, fetch, task, told>>

OtherUser ==
  /\ Acting
  /\ \E u \in User \ (IF cookie = None THEN {} ELSE {cookie.user}), t \in Tenant :
       \/ \E k \in Token :
            RevokeInvite(u, t, k) \/ \E new \in Role : CreateInvite(u, t, k, new)
       \/ \E s \in Slot, target \in User :
            /\ FreeSlot(s)
            /\ RemoveMember(s, u, t, target) \/ \E new \in Role : UpdateMember(s, u, t, target, new)
  /\ UNCHANGED <<cookie, last, rev, landed, tab>>

OtherWrites(s) ==
  /\ task[s].op = "idle"
  /\ WriteMember(s) \/ Abort(s)
  /\ UNCHANGED <<cookie, last, rev, landed, tab, acts>>

UserActs ==
  \/ LoginForm \/ OnboardingWizard \/ Logout \/ SwitchTenant \/ InvitePage \/ SaveForm
  \/ ChangeMember \/ OpenPage \/ OpenInvite \/ LoginFirst

Next ==
  \/ LoadSession \/ SessionRefetched \/ UserActs \/ OtherTab \/ OtherUser
  \/ \E k \in DOMAIN fetch : Respond(k) \/ RowsArrive(k)
  \/ \E s \in Slot : Handles(s) \/ Continues(s) \/ HalfSwitched(s) \/ OtherWrites(s)

Spec == Init /\ [][Next]_vars

-----------------------------------------------------------------------------
Rows == [tenant : Tenant \cup {None}, rev : Nat]

(* Types.                                                                  *)
TypeOK ==
  /\ MembersTypeOK
  /\ cookie \in Sessions \cup {None}
  /\ last \in [User -> Tenant \cup {None}]
  /\ rev \in [Tenant \X Entity -> Nat] /\ told \in [Tenant \X Entity -> Nat]
  /\ session \in Infos \cup {None}
  /\ page.ctx \in Infos \cup {None}
  /\ \A k \in DOMAIN cache : cache[k] \in Rows
  /\ \A k \in DOMAIN fetch : fetch[k] \in Rows \cup {None}
  /\ acts \in 0..MaxActs
  /\ landed \subseteq (Tenant \cup {None}) \X Tenant
  /\ mishaps \subseteq Mishap

(* Nothing is under way that the page waits for.                           *)
Settled == (\A s \in Slot : task[s].op = "idle") /\ Mounted \cap DOMAIN fetch = {}

(* "Drop every tenant-scoped cache so no page renders the old tenant's     *)
(* data" (_authed/route.tsx:50): once things have settled, after any       *)
(* sequence of logins, switches, invites and foundings, the layout and     *)
(* every row on the page are of the tenant the server's session is in.     *)
ShowsActiveTenant ==
  Settled /\ Authed /\ mishaps = {} =>
    /\ cookie # None
    /\ \A info \in {session, page.ctx} : info.user = cookie.user /\ info.tenant = cookie.tenant
    /\ \A k \in Mounted : cache[k].tenant \in {cookie.tenant, None}

(* "Keep them fresh after any mutation here" (products.$id.tsx:43): a page *)
(* that has settled shows no record as it was before a save this tab was   *)
(* told of, if it was on the page of that save: a list does not invalidate *)
(* the page of a record that was opened from it meanwhile.                 *)
ShowsOwnSaves ==
  Settled /\ mishaps \cap {"in flight", "left"} = {} =>
    \A k \in Mounted : cache[k].tenant # None => cache[k].rev >= told[<<cache[k].tenant, Of(k[1])>>]

(* A save is booked in the tenant whose page it was made on, though it     *)
(* does not say so, unless a handler that changes the tenant was running,  *)
(* its answer was lost, or another tab changed it.                         *)
SavesLandWhereShown ==
  mishaps \cap {"overlap", "lost", "other tab"} = {} => \A p \in landed : p[1] = p[2]
=============================================================================
