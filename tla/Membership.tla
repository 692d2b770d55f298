----------------------------- MODULE Membership -----------------------------
(***************************************************************************)
(* Tenants, their members and their invites                                *)
(* (server/internal/httpserver/tenancy.go, tenant_context.go).             *)
(*                                                                         *)
(* A request that changes memberships reads first, in READ COMMITTED: the  *)
(* guard of the last owner, the count of tenants a user has created, the   *)
(* invite.  What it read may have changed by the time it writes.           *)
(***************************************************************************)
EXTENDS Naturals, FiniteSets

CONSTANTS
  User, Tenant, Token,
  Cap,            \* selfServeActiveTenantCap
  Slot,           \* requests in flight
  Founders, Joined, \* <<user, tenant>>: who founded a tenant; who else belongs to it, as admin
  None

ASSUME UserAssumption == IsFiniteSet(User)

ASSUME FoundersAssumption ==
  /\ Founders \subseteq User \X Tenant
  /\ \A f, g \in Founders : f[2] = g[2] => f = g
  /\ Joined \subseteq User \X {f[2] : f \in Founders}
  /\ Joined \cap Founders = {}

ASSUME NoneAssumption == None \notin User \cup Tenant \cup {"owner", "admin", "viewer"}

VARIABLES
  role,           \* <<user, tenant>> -> the role of the membership, or None
  creator,        \* Tenant -> the user who created it, None if there is no such tenant
  active,         \* the tenants that are active
  invite,         \* Token -> the tenant and role it admits to, or None
  request,        \* Slot -> a request between what it read and what it writes
  crossed         \* tenants in which two requests of owners were under way at once

members == <<role, creator, active, invite, request, crossed>>

Role == {"owner", "admin", "viewer"}

Pairs == User \X Tenant

Owners(t) == {u \in User : role[<<u, t>>] = "owner"}

CreatedBy(u) == {t \in Tenant : creator[t] = u}

Idle == [op |-> "idle", user |-> None, tenant |-> None, target |-> None, role |-> None, active |-> FALSE]

MembersInit ==
  /\ role = [p \in Pairs |-> IF p \in Founders THEN "owner"
                             ELSE IF p \in Joined THEN "admin" ELSE None]
  /\ creator = [t \in Tenant |->
       IF \E u \in User : <<u, t>> \in Founders THEN CHOOSE u \in User : <<u, t>> \in Founders ELSE None]
  /\ active = {f[2] : f \in Founders}
  /\ invite = [k \in Token |-> None]
  /\ request = [s \in Slot |-> Idle]
  /\ crossed = {}

-----------------------------------------------------------------------------
(* requireTenant: a member of a tenant that is active.                     *)
requireTenant(u, t) == role[<<u, t>>] # None /\ t \in active

canManageInvites(u, t) == role[<<u, t>>] \in {"owner", "admin"}

Begin(s, r) ==
  /\ request[s] = Idle
  /\ request' = [request EXCEPT ![s] = r]

(* Mutation: who is demoted is not looked up, or an owner may be demoted   *)
(* as long as there is one.                                                *)
guardLastOwnerMiscounts(t, target, new) ==
  role[<<target, t>>] = "owner" /\ new # "owner" => Cardinality(Owners(t)) > 0

guardLastOwner(t, target, new) ==
  role[<<target, t>>] = "owner" /\ new # "owner" => Cardinality(Owners(t)) > 1

(* A request of an owner of t has read, and not written.                   *)
UnderWay(t) == \E s \in Slot : request[s].op = "member" /\ request[s].tenant = t

(* An owner gives a member another role.                                   *)
UpdateMember(s, u, t, target, new) ==
  /\ requireTenant(u, t) /\ role[<<u, t>>] = "owner"
  /\ role[<<target, t>>] # None
  /\ guardLastOwner(t, target, new)
  /\ Begin(s, [Idle EXCEPT !.op = "member", !.user = u, !.tenant = t, !.target = target, !.role = new])
  /\ crossed' = IF UnderWay(t) THEN crossed \cup {t} ELSE crossed
  /\ UNCHANGED <<role, creator, active, invite>>

(* Removal is demotion to nothing: the same rule applies.                  *)
RemoveMember(s, u, t, target) == UpdateMember(s, u, t, target, None)

(* The statement that follows the guard; it finds no row when the member   *)
(* has been removed meanwhile.                                             *)
WriteMember(s) ==
  LET r == request[s]  p == <<r.target, r.tenant>> IN
  /\ r.op = "member"
  /\ role' = [role EXCEPT ![p] = IF role[p] = None THEN None ELSE r.role]
  /\ request' = [request EXCEPT ![s] = Idle]
  /\ UNCHANGED <<creator, active, invite, crossed>>

(* A user founds a tenant, active while few of theirs are.                 *)
CreateTenant(s, u) ==
  /\ Begin(s, [Idle EXCEPT !.op = "found", !.user = u,
                           !.active = Cardinality(CreatedBy(u)) < Cap])
  /\ UNCHANGED <<role, creator, active, invite, crossed>>

InsertTenant(s, t) ==
  LET r == request[s] IN
  /\ r.op = "found" /\ creator[t] = None
  /\ creator' = [creator EXCEPT ![t] = r.user]
  /\ active' = IF r.active THEN active \cup {t} ELSE active
  /\ role' = [role EXCEPT ![<<r.user, t>>] = "owner"]
  /\ request' = [request EXCEPT ![s] = Idle]
  /\ UNCHANGED <<invite, crossed>>

CreateInvite(u, t, k, new) ==
  /\ requireTenant(u, t) /\ canManageInvites(u, t)
  /\ invite[k] = None
  /\ invite' = [invite EXCEPT ![k] = [tenant |-> t, role |-> new]]
  /\ UNCHANGED <<role, creator, active, request, crossed>>

(* RevokeInvite, or the end of its week.                                   *)
RevokeInvite(u, t, k) ==
  /\ requireTenant(u, t) /\ canManageInvites(u, t)
  /\ invite[k] # None /\ invite[k].tenant = t
  /\ invite' = [invite EXCEPT ![k] = None]
  /\ UNCHANGED <<role, creator, active, request, crossed>>

(* lookupInvite: outside the transaction that joins.                       *)
AcceptInvite(s, u, k) ==
  /\ invite[k] # None
  /\ Begin(s, [Idle EXCEPT !.op = "join", !.user = u, !.tenant = invite[k].tenant,
                           !.role = invite[k].role])
  /\ UNCHANGED <<role, creator, active, invite, crossed>>

(* Mutation: a member who accepts an invite gets its role.                 *)
JoinAnew(s) ==
  LET r == request[s]  p == <<r.user, r.tenant>> IN
  /\ r.op = "join"
  /\ role' = [role EXCEPT ![p] = r.role]
  /\ request' = [request EXCEPT ![s] = Idle]
  /\ UNCHANGED <<creator, active, invite, crossed>>

(* An existing membership keeps its role.                                  *)
Join(s) ==
  LET r == request[s]  p == <<r.user, r.tenant>> IN
  /\ r.op = "join"
  /\ role' = [role EXCEPT ![p] = IF role[p] = None THEN r.role ELSE role[p]]
  /\ request' = [request EXCEPT ![s] = Idle]
  /\ UNCHANGED <<creator, active, invite, crossed>>

(* The transaction fails, or the client goes away.                         *)
Abort(s) ==
  /\ request[s] # Idle
  /\ request' = [request EXCEPT ![s] = Idle]
  /\ UNCHANGED <<role, creator, active, invite, crossed>>

-----------------------------------------------------------------------------
MembersNext ==
  \/ \E s \in Slot :
       \/ \E u, target \in User, t \in Tenant :
            \/ \E new \in Role : UpdateMember(s, u, t, target, new)
            \/ RemoveMember(s, u, t, target)
       \/ \E u \in User : CreateTenant(s, u) \/ \E k \in Token : AcceptInvite(s, u, k)
       \/ \E t \in Tenant : InsertTenant(s, t)
       \/ WriteMember(s) \/ Join(s) \/ Abort(s)
  \/ \E u \in User, t \in Tenant, k \in Token :
       RevokeInvite(u, t, k) \/ \E new \in Role : CreateInvite(u, t, k, new)

MembersSpec == MembersInit /\ [][MembersNext]_members

-----------------------------------------------------------------------------
Requests ==
  [op : {"idle", "member", "found", "join"}, user : User \cup {None}, tenant : Tenant \cup {None},
   target : User \cup {None}, role : Role \cup {None}, active : BOOLEAN]

(* Types.                                                                  *)
MembersTypeOK ==
  /\ role \in [Pairs -> Role \cup {None}]
  /\ creator \in [Tenant -> User \cup {None}]
  /\ active \subseteq Tenant
  /\ invite \in [Token -> [tenant : Tenant, role : Role] \cup {None}]
  /\ request \in [Slot -> Requests]
  /\ crossed \subseteq Tenant

(* "A tenant must always have at least one owner" (tenancy.go:264): no     *)
(* sequence of promotions, demotions, removals, invites and foundings      *)
(* leaves a tenant to nobody.                                              *)
EveryTenantHasAnOwner == \A t \in Tenant : creator[t] # None => Owners(t) # {}

(* What holds of it whatever else overlaps: a tenant in which no two       *)
(* owners' requests were ever between their reads and their writes at the  *)
(* same time keeps an owner, also when the target of such a request joins, *)
(* founds a tenant, or when it is the asker who is demoted.                *)
TenantKeepsAnOwner == \A t \in Tenant \ crossed : creator[t] # None => Owners(t) # {}

(* A change of the membership p is the one that the request in s asks for: *)
(* a member who is there gets its role or goes, one who is not there joins *)
(* with the role of the invite, or a founder becomes the first owner.      *)
Grants(s, p) ==
  \/ /\ request[s].op = "member" /\ p = <<request[s].target, request[s].tenant>>
     /\ role[p] # None /\ role'[p] = request[s].role
  \/ /\ request[s].op = "join" /\ p = <<request[s].user, request[s].tenant>>
     /\ role[p] = None /\ role'[p] = request[s].role
  \/ /\ request[s].op = "found" /\ p[1] = request[s].user
     /\ creator[p[2]] = None /\ role'[p] = "owner"

(* A request for a change begins by its right: it is an owner's of a       *)
(* tenant that is active, or has an invite that stands.                    *)
Rightful(r) ==
  /\ r.op = "member" => role[<<r.user, r.tenant>>] = "owner" /\ r.tenant \in active
  /\ r.op = "join" => \E k \in Token : invite[k] = [tenant |-> r.tenant, role |-> r.role]

(* Every change of a membership is accounted for: it is what one request   *)
(* asked for, and when that request began an owner of the tenant, a        *)
(* standing invite or a founder asked for it, whatever ran meanwhile.      *)
MembershipIsGranted ==
  [][ /\ \A p \in Pairs : role'[p] # role[p] => \E s \in Slot : Grants(s, p)
      /\ \A s \in Slot : request'[s] # request[s] => Rightful(request'[s]) ]_members
=============================================================================
