--------------------------- MODULE WorkspaceProofs ---------------------------
(***************************************************************************)
(* Proofs about Membership and about Workspace, for any users, tenants,    *)
(* invites and running handlers and any number of actions.                 *)
(*                                                                         *)
(* 1. What Membership guarantees: types, the origin of every membership,   *)
(*    and an owner for every tenant in which no two owners' requests have  *)
(*    been under way at once, whatever else overlaps.                      *)
(* 2. What a tab shows and saves: types; memberships that change only as   *)
(*    Membership says; saves that land in the tenant whose page they were  *)
(*    made on; pages that settle on the active tenant and on the tab's own *)
(*    saves.                                                               *)
(***************************************************************************)
EXTENDS Workspace, FiniteSetTheorems, TLAPS

(***************************************************************************)
(* 1. Memberships.                                                         *)
(***************************************************************************)
(* A request that has been begun is complete.                              *)
RequestsComplete ==
  \A s \in Slot :
    /\ request[s].op = "member" => request[s].target \in User /\ request[s].tenant \in Tenant
    /\ request[s].op = "found" => request[s].user \in User
    /\ request[s].op = "join" =>
         request[s].user \in User /\ request[s].tenant \in Tenant /\ request[s].role \in Role

(* Who belongs to a tenant, or is invited to it, belongs to one that has   *)
(* been founded.                                                           *)
Peopled ==
  /\ \A u \in User, t \in Tenant : role[<<u, t>>] # None => creator[t] # None
  /\ \A k \in Token : invite[k] # None => creator[invite[k].tenant] # None
  /\ \A s \in Slot : request[s].op = "join" => creator[request[s].tenant] # None

(* Owners' requests that have met are of tenants that are crossed.         *)
Met ==
  \A s, o \in Slot :
    /\ request[s].op = "member" /\ request[o].op = "member"
    /\ request[s].tenant = request[o].tenant /\ request[s].tenant \notin crossed
    => s = o

OneIsLeft(r) ==
  \/ r.role = "owner" \/ role[<<r.target, r.tenant>>] # "owner"
  \/ \E u \in User : u # r.target /\ role[<<u, r.tenant>>] = "owner"

(* Then what the guard of the other requests has read still holds: the     *)
(* target is a member and one owner will be left.                          *)
GuardHolds ==
  \A s \in Slot :
    request[s].op = "member" /\ request[s].tenant \notin crossed =>
      role[<<request[s].target, request[s].tenant>>] # None /\ OneIsLeft(request[s])

TypeInv == MembersTypeOK /\ RequestsComplete

KeepsInv == TypeInv /\ Peopled /\ Met /\ GuardHolds /\ TenantKeepsAnOwner

-----------------------------------------------------------------------------
(* Two owners are more than the one who is demoted.                        *)
LEMMA AnotherOwner ==
  ASSUME NEW t \in Tenant, NEW u \in User, Cardinality(Owners(t)) > 1
  PROVE  \E o \in User : o # u /\ role[<<o, t>>] = "owner"
<1>1. IsFiniteSet(Owners(t))
  BY FS_Subset, UserAssumption DEF Owners
<1>2. SUFFICES ASSUME \A o \in Owners(t) : o = u
               PROVE  FALSE
  BY DEF Owners
<1>3. Owners(t) \subseteq {u}
  BY <1>2
<1>4. IsFiniteSet({u}) /\ Cardinality({u}) = 1
  BY FS_Singleton
<1>5. Cardinality(Owners(t)) <= 1
  BY <1>3, <1>4, FS_Subset
<1>6. Cardinality(Owners(t)) \in Nat
  BY <1>1, FS_CardinalityType
<1> QED
  BY <1>5, <1>6

LEMMA TypeInit == MembersInit => TypeInv
<1> SUFFICES ASSUME MembersInit
             PROVE  TypeInv
  OBVIOUS
<1>1. creator \in [Tenant -> User \cup {None}]
  <2>1. ASSUME NEW t \in Tenant, \E u \in User : <<u, t>> \in Founders
        PROVE  (CHOOSE u \in User : <<u, t>> \in Founders) \in User
    BY <2>1
  <2> QED
    BY <2>1 DEF MembersInit
<1>2. role \in [Pairs -> Role \cup {None}]
  BY DEF MembersInit, Role
<1>3. active \subseteq Tenant
  BY FoundersAssumption DEF MembersInit
<1>4. request \in [Slot -> Requests] /\ RequestsComplete
  BY DEF MembersInit, Requests, Idle, RequestsComplete
<1>5. invite \in [Token -> [tenant : Tenant, role : Role] \cup {None}]
  BY DEF MembersInit
<1> QED
  BY <1>1, <1>2, <1>3, <1>4, <1>5 DEF TypeInv, MembersTypeOK, MembersInit

(* The types and the requests through a request that begins.               *)
LEMMA TypeBegin ==
  ASSUME TypeInv, NEW s \in Slot, NEW r \in Requests, Begin(s, r),
         UNCHANGED <<role, creator, active, invite>>, crossed' \subseteq Tenant,
         r.op = "member" => r.target \in User /\ r.tenant \in Tenant,
         r.op = "found" => r.user \in User,
         r.op = "join" => r.user \in User /\ r.tenant \in Tenant /\ r.role \in Role
  PROVE  TypeInv'
<1>1. MembersTypeOK'
  BY DEF TypeInv, MembersTypeOK, Begin
<1>2. RequestsComplete'
  BY DEF TypeInv, MembersTypeOK, RequestsComplete, Begin
<1> QED
  BY <1>1, <1>2 DEF TypeInv

(* And through a step that ends one.                                       *)
LEMMA TypeEnd ==
  ASSUME TypeInv, NEW s \in Slot, request' = [request EXCEPT ![s] = Idle]
  PROVE  request' \in [Slot -> Requests] /\ RequestsComplete'
<1>1. Idle \in Requests /\ Idle.op = "idle"
  BY DEF Idle, Requests
<1>2. request' \in [Slot -> Requests]
  BY <1>1 DEF TypeInv, MembersTypeOK
<1>3. RequestsComplete'
  BY <1>1 DEF TypeInv, MembersTypeOK, RequestsComplete
<1> QED
  BY <1>2, <1>3

LEMMA TypeStep == TypeInv /\ [MembersNext]_members => TypeInv'
<1> SUFFICES ASSUME TypeInv, [MembersNext]_members
             PROVE  TypeInv'
  OBVIOUS
<1>1. ASSUME NEW s \in Slot, NEW u \in User, NEW target \in User, NEW t \in Tenant,
             NEW new \in Role \cup {None}, UpdateMember(s, u, t, target, new)
      PROVE  TypeInv'
  <2> DEFINE r == [Idle EXCEPT !.op = "member", !.user = u, !.tenant = t, !.target = target, !.role = new]
  <2>1. r \in Requests /\ r.op = "member" /\ r.target = target /\ r.tenant = t
    BY DEF Idle, Requests
  <2>2. Begin(s, r) /\ UNCHANGED <<role, creator, active, invite>> /\ crossed' \subseteq Tenant
    BY <1>1 DEF UpdateMember, TypeInv, MembersTypeOK
  <2> HIDE DEF r
  <2> QED
    BY <2>1, <2>2, TypeBegin
<1>2. ASSUME NEW s \in Slot, NEW u \in User, CreateTenant(s, u)
      PROVE  TypeInv'
  <2> DEFINE few == Cardinality(CreatedBy(u)) < Cap
             r == [Idle EXCEPT !.op = "found", !.user = u, !.active = few]
  <2>1. r \in Requests /\ r.op = "found" /\ r.user = u
    <3>1. few \in BOOLEAN
      OBVIOUS
    <3> HIDE DEF few
    <3> QED
      BY <3>1 DEF Idle, Requests
  <2>2. Begin(s, r) /\ UNCHANGED <<role, creator, active, invite>> /\ crossed' \subseteq Tenant
    BY <1>2 DEF CreateTenant, TypeInv, MembersTypeOK
  <2> HIDE DEF r
  <2> QED
    BY <2>1, <2>2, TypeBegin
<1>3. ASSUME NEW s \in Slot, NEW u \in User, NEW k \in Token, AcceptInvite(s, u, k)
      PROVE  TypeInv'
  <2> DEFINE r == [Idle EXCEPT !.op = "join", !.user = u, !.tenant = invite[k].tenant,
                               !.role = invite[k].role]
  <2>1. invite[k].tenant \in Tenant /\ invite[k].role \in Role
    BY <1>3 DEF AcceptInvite, TypeInv, MembersTypeOK
  <2>2. r \in Requests /\ r.op = "join" /\ r.user = u /\ r.tenant \in Tenant /\ r.role \in Role
    BY <2>1 DEF Idle, Requests
  <2>3. Begin(s, r) /\ UNCHANGED <<role, creator, active, invite>> /\ crossed' \subseteq Tenant
    BY <1>3 DEF AcceptInvite, TypeInv, MembersTypeOK
  <2> HIDE DEF r
  <2> QED
    BY <2>2, <2>3, TypeBegin
<1>4. ASSUME NEW s \in Slot, WriteMember(s)
      PROVE  TypeInv'
  <2>1. request[s] \in Requests
    BY DEF TypeInv, MembersTypeOK
  <2>2. role' \in [Pairs -> Role \cup {None}]
    BY <1>4, <2>1 DEF WriteMember, TypeInv, MembersTypeOK, Requests
  <2>3. request' \in [Slot -> Requests] /\ RequestsComplete'
    BY <1>4, TypeEnd DEF WriteMember
  <2> QED
    BY <1>4, <2>2, <2>3 DEF WriteMember, TypeInv, MembersTypeOK
<1>5. ASSUME NEW s \in Slot, NEW t \in Tenant, InsertTenant(s, t)
      PROVE  TypeInv'
  <2>1. request[s].user \in User
    BY <1>5 DEF InsertTenant, TypeInv, RequestsComplete
  <2>2. role' \in [Pairs -> Role \cup {None}]
    BY <1>5 DEF InsertTenant, TypeInv, MembersTypeOK, Role
  <2>3. creator' \in [Tenant -> User \cup {None}] /\ active' \subseteq Tenant
    BY <1>5, <2>1 DEF InsertTenant, TypeInv, MembersTypeOK
  <2>4. request' \in [Slot -> Requests] /\ RequestsComplete'
    BY <1>5, TypeEnd DEF InsertTenant
  <2> QED
    BY <1>5, <2>2, <2>3, <2>4 DEF InsertTenant, TypeInv, MembersTypeOK
<1>6. ASSUME NEW s \in Slot, Join(s)
      PROVE  TypeInv'
  <2>1. request[s].role \in Role
    BY <1>6 DEF Join, TypeInv, RequestsComplete
  <2>2. role' \in [Pairs -> Role \cup {None}]
    BY <1>6, <2>1 DEF Join, TypeInv, MembersTypeOK
  <2>3. request' \in [Slot -> Requests] /\ RequestsComplete'
    BY <1>6, TypeEnd DEF Join
  <2> QED
    BY <1>6, <2>2, <2>3 DEF Join, TypeInv, MembersTypeOK
<1>7. ASSUME NEW s \in Slot, Abort(s)
      PROVE  TypeInv'
  <2>1. request' \in [Slot -> Requests] /\ RequestsComplete'
    BY <1>7, TypeEnd DEF Abort
  <2> QED
    BY <1>7, <2>1 DEF Abort, TypeInv, MembersTypeOK
<1>8. ASSUME NEW u \in User, NEW t \in Tenant, NEW k \in Token,
             RevokeInvite(u, t, k) \/ \E new \in Role : CreateInvite(u, t, k, new)
      PROVE  TypeInv'
  BY <1>8 DEF RevokeInvite, CreateInvite, TypeInv, MembersTypeOK, RequestsComplete
<1>9. ASSUME UNCHANGED members
      PROVE  TypeInv'
  BY <1>9 DEF members, TypeInv, MembersTypeOK, RequestsComplete, Pairs
<1> QED
  BY <1>1, <1>2, <1>3, <1>4, <1>5, <1>6, <1>7, <1>8, <1>9 DEF MembersNext, RemoveMember

(* Types, for any number of requests at once.                              *)
THEOREM MembersTypeCorrect == MembersSpec => []MembersTypeOK
<1>1. MembersSpec => []TypeInv
  BY TypeInit, TypeStep, PTL DEF MembersSpec
<1>2. TypeInv => MembersTypeOK
  BY DEF TypeInv
<1> QED
  BY <1>1, <1>2, PTL

-----------------------------------------------------------------------------
(* Owners.                                                                 *)

LEMMA KeepsInit == MembersInit => KeepsInv
<1> SUFFICES ASSUME MembersInit
             PROVE  KeepsInv
  OBVIOUS
<1>1. Met /\ GuardHolds
  BY DEF MembersInit, Met, GuardHolds, Idle
<1>2. ASSUME NEW u \in User, NEW t \in Tenant, <<u, t>> \in Founders
      PROVE  creator[t] # None
  <2>1. (CHOOSE w \in User : <<w, t>> \in Founders) \in User
    BY <1>2
  <2> QED
    BY <1>2, <2>1, NoneAssumption DEF MembersInit
<1>3. TenantKeepsAnOwner
  <2> SUFFICES ASSUME NEW t \in Tenant, creator[t] # None
               PROVE  Owners(t) # {}
    BY DEF TenantKeepsAnOwner
  <2>1. PICK u \in User : <<u, t>> \in Founders
    BY DEF MembersInit
  <2>2. role[<<u, t>>] = "owner"
    BY <2>1 DEF MembersInit, Pairs
  <2> QED
    BY <2>2 DEF Owners
<1>4. Peopled
  <2>1. ASSUME NEW u \in User, NEW t \in Tenant, role[<<u, t>>] # None
        PROVE  creator[t] # None
    <3>1. <<u, t>> \in Founders \/ <<u, t>> \in Joined
      BY <2>1 DEF MembersInit, Pairs
    <3>2. CASE <<u, t>> \in Joined
      <4>1. PICK f \in Founders : f[2] = t
        BY <3>2, FoundersAssumption
      <4>2. f = <<f[1], t>> /\ f[1] \in User
        BY <4>1, FoundersAssumption
      <4> QED
        BY <1>2, <4>1, <4>2
    <3> QED
      BY <1>2, <3>1, <3>2
  <2> QED
    BY <2>1 DEF Peopled, MembersInit, Idle
<1> QED
  BY <1>1, <1>3, <1>4, TypeInit DEF KeepsInv

(* A request that begins, other than an owner's.                           *)
LEMMA KeepsBegin ==
  ASSUME KeepsInv, NEW s \in Slot, NEW r, Begin(s, r), r.op # "member",
         r.op = "join" => creator[r.tenant] # None,
         UNCHANGED <<role, creator, active, invite, crossed>>
  PROVE  Peopled' /\ Met' /\ GuardHolds' /\ TenantKeepsAnOwner'
<1> USE DEF KeepsInv
<1>1. request'[s] = r /\ \A o \in Slot : o # s => request'[o] = request[o]
  BY DEF Begin, TypeInv, MembersTypeOK
<1>2. Peopled'
  BY <1>1 DEF Peopled
<1>3. Met'
  BY <1>1 DEF Met
<1>4. GuardHolds'
  BY <1>1 DEF GuardHolds, OneIsLeft
<1>5. TenantKeepsAnOwner'
  BY DEF TenantKeepsAnOwner, Owners
<1> QED
  BY <1>2, <1>3, <1>4, <1>5

(* An owner's.                                                             *)
LEMMA KeepsUpdate ==
  ASSUME KeepsInv, NEW s \in Slot, NEW u \in User, NEW target \in User, NEW t \in Tenant,
         NEW new \in Role \cup {None}, UpdateMember(s, u, t, target, new)
  PROVE  Peopled' /\ Met' /\ GuardHolds' /\ TenantKeepsAnOwner'
<1> USE DEF KeepsInv
<1> DEFINE r == [Idle EXCEPT !.op = "member", !.user = u, !.tenant = t, !.target = target, !.role = new]
<1>1. r.op = "member" /\ r.target = target /\ r.tenant = t /\ r.role = new
  BY DEF Idle
<1>2. /\ request[s] = Idle /\ request' = [request EXCEPT ![s] = r]
      /\ UNCHANGED <<role, creator, active, invite>>
      /\ crossed' = IF UnderWay(t) THEN crossed \cup {t} ELSE crossed
  BY DEF UpdateMember, Begin
<1> HIDE DEF r
<1>3. request'[s] = r /\ \A o \in Slot : o # s => request'[o] = request[o]
  BY <1>2 DEF TypeInv, MembersTypeOK
<1>4. role[<<target, t>>] # None
  BY DEF UpdateMember
<1>5. OneIsLeft(r)
  <2>1. role[<<target, t>>] = "owner" /\ new # "owner" =>
          \E o \in User : o # target /\ role[<<o, t>>] = "owner"
    BY AnotherOwner DEF UpdateMember, guardLastOwner
  <2> QED
    BY <1>1, <2>1 DEF OneIsLeft
<1>6. t \notin crossed' => \A o \in Slot : o # s => ~(request[o].op = "member" /\ request[o].tenant = t)
  BY <1>2 DEF UnderWay
<1>7. crossed \subseteq crossed'
  BY <1>2
<1>8. Peopled'
  BY <1>1, <1>2, <1>3 DEF Peopled
<1>9. Met'
  BY <1>1, <1>3, <1>6, <1>7 DEF Met
<1>10. GuardHolds'
  <2> SUFFICES ASSUME NEW o \in Slot, request'[o].op = "member", request'[o].tenant \notin crossed'
               PROVE  /\ role'[<<request'[o].target, request'[o].tenant>>] # None
                      /\ OneIsLeft(request[o])'
    BY DEF GuardHolds
  <2>1. CASE o = s
    BY <1>1, <1>2, <1>3, <1>4, <1>5, <2>1 DEF OneIsLeft
  <2>2. CASE o # s
    <3>1. role[<<request[o].target, request[o].tenant>>] # None /\ OneIsLeft(request[o])
      BY <1>3, <1>7, <2>2 DEF GuardHolds
    <3> QED
      BY <1>2, <1>3, <2>2, <3>1 DEF OneIsLeft
  <2> QED
    BY <2>1, <2>2
<1>11. TenantKeepsAnOwner'
  BY <1>2, <1>7 DEF TenantKeepsAnOwner, Owners
<1> QED
  BY <1>8, <1>9, <1>10, <1>11

(* And its write: the tenants that are not crossed have one such request.  *)
LEMMA KeepsWrite ==
  ASSUME KeepsInv, NEW s \in Slot, WriteMember(s)
  PROVE  Peopled' /\ Met' /\ GuardHolds' /\ TenantKeepsAnOwner'
<1> USE DEF KeepsInv
<1> DEFINE r == request[s]
           p == <<r.target, r.tenant>>
<1>1. r \in Requests /\ r.op = "member" /\ r.target \in User /\ r.tenant \in Tenant
  BY DEF WriteMember, TypeInv, MembersTypeOK, RequestsComplete
<1>2. /\ role' = [role EXCEPT ![p] = IF role[p] = None THEN None ELSE r.role]
      /\ UNCHANGED <<creator, active, invite, crossed>>
      /\ request' = [request EXCEPT ![s] = Idle]
  BY DEF WriteMember
<1>3. role \in [Pairs -> Role \cup {None}] /\ None # "owner"
  BY NoneAssumption DEF TypeInv, MembersTypeOK
<1>4. request'[s].op = "idle" /\ \A o \in Slot : o # s => request'[o] = request[o]
  BY <1>2 DEF TypeInv, MembersTypeOK, Idle
<1>5. r.tenant \notin crossed =>
        /\ OneIsLeft(r)
        /\ \A o \in Slot : o # s => ~(request[o].op = "member" /\ request[o].tenant = r.tenant)
  BY <1>1 DEF GuardHolds, Met
<1> HIDE DEF r
<1>6. /\ \A w \in User, t \in Tenant : <<w, t>> # p => role'[<<w, t>>] = role[<<w, t>>]
      /\ role'[p] = IF role[p] = None THEN None ELSE r.role
      /\ p \in Pairs
  BY <1>1, <1>2, <1>3 DEF Pairs
<1>7. \A w \in User, t \in Tenant : role'[<<w, t>>] # None => role[<<w, t>>] # None
  BY <1>6
<1>8. Peopled'
  <2>1. \A w \in User, t \in Tenant : role'[<<w, t>>] # None => creator'[t] # None
    BY <1>2, <1>7 DEF Peopled
  <2>2. \A o \in Slot : request'[o].op = "join" => creator'[request'[o].tenant] # None
    BY <1>2, <1>4 DEF Peopled
  <2> QED
    BY <1>2, <2>1, <2>2 DEF Peopled
<1>9. Met'
  BY <1>2, <1>4 DEF Met
<1>10. GuardHolds'
  <2> SUFFICES ASSUME NEW o \in Slot, request'[o].op = "member", request'[o].tenant \notin crossed
               PROVE  /\ role'[<<request'[o].target, request'[o].tenant>>] # None
                      /\ OneIsLeft(request[o])'
    BY <1>2 DEF GuardHolds
  <2>1. o # s /\ request'[o] = request[o]
    BY <1>4
  <2>2. request[o].tenant # r.tenant
    BY <1>5, <2>1
  <2>3. request[o].target \in User /\ request[o].tenant \in Tenant
    BY <2>1 DEF TypeInv, RequestsComplete
  <2>4. \A w \in User : role'[<<w, request[o].tenant>>] = role[<<w, request[o].tenant>>]
    BY <1>6, <2>2, <2>3
  <2>5. role[<<request[o].target, request[o].tenant>>] # None /\ OneIsLeft(request[o])
    BY <2>1 DEF GuardHolds
  <2> QED
    BY <2>1, <2>3, <2>4, <2>5 DEF OneIsLeft
<1>11. TenantKeepsAnOwner'
  <2> SUFFICES ASSUME NEW t \in Tenant \ crossed, creator[t] # None
               PROVE  \E u \in User : role'[<<u, t>>] = "owner"
    BY <1>2 DEF TenantKeepsAnOwner, Owners
  <2>1. PICK u \in User : role[<<u, t>>] = "owner"
    BY DEF TenantKeepsAnOwner, Owners
  <2>2. CASE <<u, t>> # p
    BY <1>6, <2>1, <2>2
  <2>3. CASE <<u, t>> = p /\ r.role = "owner"
    BY <1>3, <1>6, <2>1, <2>3
  <2>4. CASE <<u, t>> = p /\ r.role # "owner"
    <3>1. PICK w \in User : w # u /\ role[<<w, t>>] = "owner"
      BY <1>5, <2>1, <2>4 DEF OneIsLeft
    <3> QED
      BY <1>6, <2>4, <3>1
  <2> QED
    BY <2>2, <2>3, <2>4
<1> QED
  BY <1>8, <1>9, <1>10, <1>11

(* A step that ends a request of another kind takes no role from anyone.   *)
LEMMA KeepsEnd ==
  ASSUME KeepsInv, NEW s \in Slot, request' = [request EXCEPT ![s] = Idle],
         UNCHANGED <<invite, crossed>>, creator' \in [Tenant -> User \cup {None}],
         \A t \in Tenant : creator[t] # None => creator'[t] # None,
         \A u \in User, t \in Tenant : role[<<u, t>>] # None => role'[<<u, t>>] = role[<<u, t>>],
         \A u \in User, t \in Tenant : role'[<<u, t>>] # None => creator'[t] # None,
         \A t \in Tenant \ crossed : creator[t] = None /\ creator'[t] # None =>
           \E u \in User : role'[<<u, t>>] = "owner"
  PROVE  Peopled' /\ Met' /\ GuardHolds' /\ TenantKeepsAnOwner'
<1> USE DEF KeepsInv
<1>1. request'[s].op = "idle" /\ \A o \in Slot : o # s => request'[o] = request[o]
  BY DEF TypeInv, MembersTypeOK, Idle
<1>2. Peopled'
  <2>1. \A k \in Token : invite[k] # None => creator'[invite[k].tenant] # None
    BY DEF Peopled, TypeInv, MembersTypeOK
  <2>2. \A o \in Slot : request'[o].op = "join" => creator'[request'[o].tenant] # None
    BY <1>1 DEF Peopled, TypeInv, RequestsComplete
  <2> QED
    BY <2>1, <2>2 DEF Peopled
<1>3. Met'
  BY <1>1 DEF Met
<1>4. GuardHolds'
  <2> SUFFICES ASSUME NEW o \in Slot, request'[o].op = "member", request'[o].tenant \notin crossed
               PROVE  /\ role'[<<request'[o].target, request'[o].tenant>>] # None
                      /\ OneIsLeft(request[o])'
    BY DEF GuardHolds
  <2>1. request'[o] = request[o]
    BY <1>1
  <2>2. request[o].target \in User /\ request[o].tenant \in Tenant
    BY <2>1 DEF TypeInv, RequestsComplete
  <2>3. role[<<request[o].target, request[o].tenant>>] # None /\ OneIsLeft(request[o])
    BY <2>1 DEF GuardHolds
  <2>4. "owner" # None
    BY NoneAssumption
  <2> QED
    BY <2>1, <2>2, <2>3, <2>4 DEF OneIsLeft
<1>5. TenantKeepsAnOwner'
  <2> SUFFICES ASSUME NEW t \in Tenant \ crossed, creator'[t] # None
               PROVE  \E u \in User : role'[<<u, t>>] = "owner"
    BY DEF TenantKeepsAnOwner, Owners
  <2>1. CASE creator[t] # None
    <3>1. PICK u \in User : role[<<u, t>>] = "owner"
      BY <2>1 DEF TenantKeepsAnOwner, Owners
    <3> QED
      BY <3>1, NoneAssumption
  <2> QED
    BY <2>1
<1> QED
  BY <1>2, <1>3, <1>4, <1>5

LEMMA KeepsStep == KeepsInv /\ [MembersNext]_members => KeepsInv'
<1> SUFFICES ASSUME KeepsInv, [MembersNext]_members
             PROVE  Peopled' /\ Met' /\ GuardHolds' /\ TenantKeepsAnOwner'
  BY TypeStep DEF KeepsInv
<1> USE DEF KeepsInv
<1>r. role \in [Pairs -> Role \cup {None}] /\ creator \in [Tenant -> User \cup {None}]
  BY DEF TypeInv, MembersTypeOK
<1>1. ASSUME NEW s \in Slot, NEW u \in User, CreateTenant(s, u)
      PROVE  Peopled' /\ Met' /\ GuardHolds' /\ TenantKeepsAnOwner'
  <2> DEFINE r == [Idle EXCEPT !.op = "found", !.user = u,
                               !.active = Cardinality(CreatedBy(u)) < Cap]
  <2>1. r.op = "found"
    BY DEF Idle
  <2>2. Begin(s, r) /\ UNCHANGED <<role, creator, active, invite, crossed>>
    BY <1>1 DEF CreateTenant
  <2> HIDE DEF r
  <2> QED
    BY <2>1, <2>2, KeepsBegin
<1>2. ASSUME NEW s \in Slot, NEW u \in User, NEW k \in Token, AcceptInvite(s, u, k)
      PROVE  Peopled' /\ Met' /\ GuardHolds' /\ TenantKeepsAnOwner'
  <2> DEFINE r == [Idle EXCEPT !.op = "join", !.user = u, !.tenant = invite[k].tenant,
                               !.role = invite[k].role]
  <2>1. r.op = "join" /\ r.tenant = invite[k].tenant
    BY DEF Idle
  <2>2. Begin(s, r) /\ UNCHANGED <<role, creator, active, invite, crossed>> /\ invite[k] # None
    BY <1>2 DEF AcceptInvite
  <2> HIDE DEF r
  <2>3. creator[r.tenant] # None
    BY <2>1, <2>2 DEF Peopled
  <2> QED
    BY <2>1, <2>2, <2>3, KeepsBegin
<1>3. ASSUME NEW s \in Slot, NEW t \in Tenant, InsertTenant(s, t)
      PROVE  Peopled' /\ Met' /\ GuardHolds' /\ TenantKeepsAnOwner'
  <2> DEFINE u == request[s].user
  <2>1. u \in User /\ u # None
    BY <1>3, NoneAssumption DEF InsertTenant, TypeInv, RequestsComplete
  <2>2. /\ role' = [role EXCEPT ![<<u, t>>] = "owner"] /\ creator' = [creator EXCEPT ![t] = u]
        /\ creator[t] = None /\ UNCHANGED <<invite, crossed>>
        /\ request' = [request EXCEPT ![s] = Idle]
    BY <1>3 DEF InsertTenant
  <2> HIDE DEF u
  <2>3. creator' \in [Tenant -> User \cup {None}] /\ \A o \in Tenant : creator[o] # None => creator'[o] # None
    BY <1>r, <2>1, <2>2
  <2>4. /\ role'[<<u, t>>] = "owner"
        /\ \A w \in User, o \in Tenant : <<w, o>> # <<u, t>> => role'[<<w, o>>] = role[<<w, o>>]
    BY <1>r, <2>1, <2>2 DEF Pairs
  <2>5. \A w \in User, o \in Tenant : role[<<w, o>>] # None => role'[<<w, o>>] = role[<<w, o>>]
    BY <2>2, <2>4 DEF Peopled
  <2>6. \A w \in User, o \in Tenant : role'[<<w, o>>] # None => creator'[o] # None
    BY <1>r, <2>1, <2>2, <2>3, <2>4 DEF Peopled
  <2>7. \A o \in Tenant \ crossed : creator[o] = None /\ creator'[o] # None =>
          \E w \in User : role'[<<w, o>>] = "owner"
    BY <1>r, <2>1, <2>2, <2>4
  <2> QED
    BY <2>2, <2>3, <2>5, <2>6, <2>7, KeepsEnd
<1>4. ASSUME NEW s \in Slot, Join(s)
      PROVE  Peopled' /\ Met' /\ GuardHolds' /\ TenantKeepsAnOwner'
  <2> DEFINE p == <<request[s].user, request[s].tenant>>
  <2>1. /\ role' = [role EXCEPT ![p] = IF role[p] = None THEN request[s].role ELSE role[p]]
        /\ request' = [request EXCEPT ![s] = Idle] /\ UNCHANGED <<creator, active, invite, crossed>>
        /\ request[s].user \in User /\ request[s].tenant \in Tenant
        /\ creator[request[s].tenant] # None
    BY <1>4 DEF Join, TypeInv, RequestsComplete, Peopled
  <2>2. \A w \in User, o \in Tenant : <<w, o>> # p => role'[<<w, o>>] = role[<<w, o>>]
    BY <1>r, <2>1 DEF Pairs
  <2>3. role[p] # None => role'[p] = role[p]
    BY <1>r, <2>1 DEF Pairs
  <2>4. \A w \in User, o \in Tenant : role[<<w, o>>] # None => role'[<<w, o>>] = role[<<w, o>>]
    BY <2>2, <2>3
  <2>5. \A w \in User, o \in Tenant : role'[<<w, o>>] # None => creator'[o] # None
    BY <2>1, <2>2 DEF Peopled
  <2> QED
    BY <1>r, <2>1, <2>4, <2>5, KeepsEnd
<1>5. ASSUME NEW s \in Slot, Abort(s)
      PROVE  Peopled' /\ Met' /\ GuardHolds' /\ TenantKeepsAnOwner'
  <2>1. request' = [request EXCEPT ![s] = Idle] /\ UNCHANGED <<role, creator, active, invite, crossed>>
    BY <1>5 DEF Abort
  <2> QED
    BY <1>r, <2>1, KeepsEnd DEF Peopled
<1>6. ASSUME NEW u \in User, NEW t \in Tenant, NEW k \in Token,
             RevokeInvite(u, t, k) \/ \E new \in Role : CreateInvite(u, t, k, new)
      PROVE  Peopled' /\ Met' /\ GuardHolds' /\ TenantKeepsAnOwner'
  <2>1. UNCHANGED <<role, creator, active, request, crossed>> /\ role[<<u, t>>] # None
    BY <1>6 DEF RevokeInvite, CreateInvite, requireTenant
  <2>2. creator[t] # None
    BY <2>1 DEF Peopled
  <2>3. \A j \in Token : invite'[j] = invite[j] \/ invite'[j] = None \/ invite'[j].tenant = t
    BY <1>6 DEF RevokeInvite, CreateInvite, TypeInv, MembersTypeOK
  <2>4. Peopled'
    BY <2>1, <2>2, <2>3 DEF Peopled
  <2>5. Met' /\ GuardHolds' /\ TenantKeepsAnOwner'
    BY <2>1 DEF Met, GuardHolds, OneIsLeft, TenantKeepsAnOwner, Owners
  <2> QED
    BY <2>4, <2>5
<1>7. CASE UNCHANGED members
  BY <1>7 DEF members, Peopled, Met, GuardHolds, OneIsLeft, TenantKeepsAnOwner, Owners
<1> QED
  BY <1>1, <1>2, <1>3, <1>4, <1>5, <1>6, <1>7, KeepsUpdate, KeepsWrite DEF MembersNext, RemoveMember

(* "A tenant must always have at least one owner" (tenancy.go:264): the    *)
(* guard keeps one, for any number of users, tenants and invites and       *)
(* whatever else runs meanwhile, in every tenant in which no two owners'   *)
(* requests have met.  What it lacks is a lock between these two.          *)
THEOREM OwnersStay == MembersSpec => []TenantKeepsAnOwner
<1>1. KeepsInv => TenantKeepsAnOwner
  BY DEF KeepsInv
<1> QED
  BY <1>1, KeepsInit, KeepsStep, PTL DEF MembersSpec

-----------------------------------------------------------------------------
(* Where memberships come from.                                            *)

LEMMA GrantedStep ==
  ASSUME TypeInv, [MembersNext]_members, NEW p \in Pairs, role'[p] # role[p]
  PROVE  \E s \in Slot : Grants(s, p)
<1>1. role \in [Pairs -> Role \cup {None}]
  BY DEF TypeInv, MembersTypeOK
<1>2. ASSUME NEW s \in Slot, WriteMember(s)
      PROVE  Grants(s, p)
  <2>1. /\ p = <<request[s].target, request[s].tenant>> /\ role[p] # None
        /\ request[s].op = "member" /\ role'[p] = request[s].role
    BY <1>1, <1>2 DEF WriteMember
  <2> QED
    BY <2>1 DEF Grants
<1>3. ASSUME NEW s \in Slot, NEW t \in Tenant, InsertTenant(s, t)
      PROVE  Grants(s, p)
  <2>1. /\ p = <<request[s].user, t>> /\ request[s].op = "found" /\ creator[t] = None
        /\ role'[p] = "owner"
    BY <1>1, <1>3 DEF InsertTenant
  <2>2. p[1] = request[s].user /\ p[2] = t
    BY <2>1
  <2> QED
    BY <2>1, <2>2 DEF Grants
<1>4. ASSUME NEW s \in Slot, Join(s)
      PROVE  Grants(s, p)
  <2>1. /\ p = <<request[s].user, request[s].tenant>> /\ role[p] = None
        /\ request[s].op = "join" /\ role'[p] = request[s].role
    BY <1>1, <1>4 DEF Join
  <2> QED
    BY <2>1 DEF Grants
<1>5. role' # role
  OBVIOUS
<1> QED
  BY <1>2, <1>3, <1>4, <1>5
     DEF MembersNext, members, UpdateMember, RemoveMember, CreateTenant, AcceptInvite, Abort,
         RevokeInvite, CreateInvite

LEMMA RightfulStep ==
  ASSUME TypeInv, [MembersNext]_members, NEW s \in Slot, request'[s] # request[s]
  PROVE  Rightful(request'[s])
<1>t. request \in [Slot -> Requests]
  BY DEF TypeInv, MembersTypeOK
<1>1. ASSUME NEW o \in Slot, request' = [request EXCEPT ![o] = Idle]
      PROVE  Rightful(request'[s])
  <2>1. request'[s].op = "idle"
    BY <1>t, <1>1 DEF Idle
  <2> QED
    BY <2>1 DEF Rightful
<1>2. ASSUME NEW o \in Slot, NEW u \in User, NEW target \in User, NEW t \in Tenant,
             NEW new \in Role \cup {None}, UpdateMember(o, u, t, target, new)
      PROVE  Rightful(request'[s])
  <2>1. request'[s].op = "member" /\ request'[s].user = u /\ request'[s].tenant = t
    BY <1>t, <1>2 DEF UpdateMember, Begin, Idle
  <2> QED
    BY <1>2, <2>1 DEF Rightful, UpdateMember, requireTenant
<1>3. ASSUME NEW o \in Slot, NEW u \in User, CreateTenant(o, u)
      PROVE  Rightful(request'[s])
  <2>1. request'[s].op = "found"
    BY <1>t, <1>3 DEF CreateTenant, Begin, Idle
  <2> QED
    BY <2>1 DEF Rightful
<1>4. ASSUME NEW o \in Slot, NEW u \in User, NEW k \in Token, AcceptInvite(o, u, k)
      PROVE  Rightful(request'[s])
  <2>1. /\ request'[s].op = "join" /\ request'[s].tenant = invite[k].tenant
        /\ request'[s].role = invite[k].role
    BY <1>t, <1>4 DEF AcceptInvite, Begin, Idle
  <2>2. invite[k] \in [tenant : Tenant, role : Role]
    BY <1>4 DEF AcceptInvite, TypeInv, MembersTypeOK
  <2> QED
    BY <2>1, <2>2 DEF Rightful
<1>5. request' # request
  OBVIOUS
<1> QED
  BY <1>1, <1>2, <1>3, <1>4, <1>5
     DEF MembersNext, members, RemoveMember, WriteMember, InsertTenant, Join, Abort, RevokeInvite,
         CreateInvite

(* Nobody's role changes but as the request of one who was an owner when   *)
(* it began, an invite or the founding of the tenant says, however         *)
(* requests overlap.                                                       *)
THEOREM MembershipsAreGranted == MembersSpec => MembershipIsGranted
<1>1. TypeInv /\ [MembersNext]_members =>
        [ /\ \A p \in Pairs : role'[p] # role[p] => \E s \in Slot : Grants(s, p)
          /\ \A s \in Slot : request'[s] # request[s] => Rightful(request'[s]) ]_members
  BY GrantedStep, RightfulStep
<1> QED
  BY <1>1, TypeInit, TypeStep, PTL DEF MembersSpec, MembershipIsGranted

(***************************************************************************)
(* 2. Tabs.                                                                *)
(***************************************************************************)
(* The pages.  A form's own records on its page are among those its save   *)
(* invalidates.                                                            *)
Query ==
  {"dashboard", "products", "report-stock-on-hand", "report-valuation", "report-stock-card",
   "catalog-products", "product", "product-figures", "catalog-partners", "partners",
   "catalog-partner", "entity-documents", "warehouses", "stock-on-hand", "members", "invites", "tenant"}

PageOK(p) ==
  /\ p.saves \in Entity /\ p.reads \subseteq Query /\ p.keyed \in BOOLEAN
  /\ p.saves # "none" => \A x \in p.reads : Of(x) = p.saves => x \in p.invalidates

LEMMA OfIsEntity == \A x : Of(x) \in Entity
BY DEF Of, Entity

LEMMA ReadingIsOK == \A reads \in SUBSET Query : PageOK(Reading(reads)) /\ Reading(reads).saves = "none"
BY DEF PageOK, Reading, Entity

LEMMA OfNames ==
  /\ \A x \in {"catalog-products", "products", "product"} : Of(x) = "product"
  /\ \A x \in {"catalog-partners", "partners", "catalog-partner"} : Of(x) = "partner"
  /\ Of("warehouses") = "warehouse" /\ Of("tenant") = "tenant" /\ Of("invites") = "invite"
  /\ \A x \in {"product-figures", "stock-on-hand", "entity-documents", "members"} : Of(x) = "none"
BY DEF Of

LEMMA PagesAreOK == \A name : PageOK(Page(name))
<1>1. \A p \in {Dashboard, StockOnHandPage, ValuationPage, StockCardPage, Reading({})} : PageOK(p)
  <2>1. \A reads \in {{"dashboard"}, {"products", "report-stock-on-hand"}, {"products", "report-valuation"},
                      {"products", "report-stock-card"}, {}} : reads \in SUBSET Query
    BY DEF Query
  <2> QED
    BY <2>1, ReadingIsOK DEF Dashboard, StockOnHandPage, ValuationPage, StockCardPage
<1>2. PageOK(ProductsPage)
  <2>1. /\ ProductsPage.reads = {"catalog-products"} /\ ProductsPage.keyed = FALSE
        /\ ProductsPage.saves = "product" /\ ProductsPage.invalidates = {"catalog-products", "products"}
    BY DEF ProductsPage
  <2> QED
    BY <2>1, OfNames DEF PageOK, Entity, Query
<1>3. PageOK(ProductDetailPage)
  <2>1. /\ ProductDetailPage.reads = {"product", "product-figures"} /\ ProductDetailPage.keyed = FALSE
        /\ ProductDetailPage.saves = "product" /\ ProductDetailPage.invalidates = {"catalog-products", "products", "product"}
    BY DEF ProductDetailPage
  <2> QED
    BY <2>1, OfNames DEF PageOK, Entity, Query
<1>4. PageOK(PartnersPage)
  <2>1. /\ PartnersPage.reads = {"catalog-partners"} /\ PartnersPage.keyed = FALSE
        /\ PartnersPage.saves = "partner" /\ PartnersPage.invalidates = {"catalog-partners", "partners"}
    BY DEF PartnersPage
  <2> QED
    BY <2>1, OfNames DEF PageOK, Entity, Query
<1>5. PageOK(PartnerDetailPage)
  <2>1. /\ PartnerDetailPage.reads = {"catalog-partner", "warehouses", "entity-documents"}
        /\ PartnerDetailPage.keyed = FALSE /\ PartnerDetailPage.saves = "partner"
        /\ PartnerDetailPage.invalidates = {"catalog-partner", "catalog-partners", "partners"}
    BY DEF PartnerDetailPage
  <2> QED
    BY <2>1, OfNames DEF PageOK, Entity, Query
<1>6. PageOK(WarehousesPage)
  <2>1. /\ WarehousesPage.reads = {"warehouses"} /\ WarehousesPage.keyed = FALSE
        /\ WarehousesPage.saves = "warehouse" /\ WarehousesPage.invalidates = {"warehouses"}
    BY DEF WarehousesPage
  <2> QED
    BY <2>1, OfNames DEF PageOK, Entity, Query
<1>7. PageOK(WarehouseDetailPage)
  <2>1. /\ WarehouseDetailPage.reads = {"warehouses", "stock-on-hand", "partners", "entity-documents"}
        /\ WarehouseDetailPage.keyed = FALSE /\ WarehouseDetailPage.saves = "warehouse"
        /\ WarehouseDetailPage.invalidates = {"warehouses"}
    BY DEF WarehouseDetailPage
  <2> QED
    BY <2>1, OfNames DEF PageOK, Entity, Query
<1>8. PageOK(MembersSection)
  <2>1. /\ MembersSection.reads = {"members"} /\ MembersSection.keyed = TRUE
        /\ MembersSection.saves = "none" /\ MembersSection.invalidates = {}
    BY DEF MembersSection
  <2> QED
    BY <2>1, OfNames DEF PageOK, Entity, Query
<1>9. PageOK(InvitesSection)
  <2>1. /\ InvitesSection.reads = {"invites"} /\ InvitesSection.keyed = TRUE
        /\ InvitesSection.saves = "invite" /\ InvitesSection.invalidates = {"invites"}
    BY DEF InvitesSection
  <2> QED
    BY <2>1, OfNames DEF PageOK, Entity, Query
<1>10. PageOK(TenantProfileForm)
  <2>1. /\ TenantProfileForm.reads = {"tenant"} /\ TenantProfileForm.keyed = TRUE
        /\ TenantProfileForm.saves = "tenant" /\ TenantProfileForm.invalidates = {"tenant"}
    BY DEF TenantProfileForm
  <2> QED
    BY <2>1, OfNames DEF PageOK, Entity, Query
<1> QED
  BY <1>1, <1>2, <1>3, <1>4, <1>5, <1>6, <1>7, <1>8, <1>9, <1>10 DEF Page

(* A form is on one of the pages below.                                    *)
Form == {"products", "product", "partners", "partner", "warehouses", "warehouse", "invites", "profile"}

LEMMA FormsSave == \A name : Page(name).saves # "none" => name \in Form
<1>1. \A reads : Reading(reads).saves = "none"
  BY DEF Reading
<1>2. MembersSection.saves = "none"
  BY DEF MembersSection
<1> QED
  BY <1>1, <1>2 DEF Page, Form, Dashboard, StockOnHandPage, ValuationPage, StockCardPage

(* Pages that are no part of the workspace read and save nothing.          *)
LEMMA NoPage ==
  \A at \in {"loading", "login", "invite", "onboarding"} : Page(at).reads = {} /\ Page(at).saves = "none"
BY DEF Page, Reading

-----------------------------------------------------------------------------
(* Types.                                                                  *)
Op == {"idle", "login", "logout", "switch", "accept", "onboard", "save", "member"}

Change == [user : User, role : Role \cup {None}]

Credentials == [user : User, redirect : {"home", "invite"}]

Args == User \cup Tenant \cup Token \cup Form \cup Change \cup Credentials \cup {None}

SaveInfo == [tenant : Tenant, rev : Nat]

Tasks ==
  [op : Op, arg : Args, from : Tenant \cup {None}, pc : {"end", "sent", "await", "session"},
   handled : BOOLEAN, info : Infos \cup {None} \cup SaveInfo,
   awaits : SUBSET (Query \X (Tenant \cup {None}))]

TaskOK(t) ==
  /\ t.op = "idle" => t.pc = "end"
  /\ t.op = "login" => t.arg \in Credentials
  /\ t.op = "switch" => t.arg \in Tenant
  /\ t.op = "accept" => t.arg \in Token
  /\ t.op = "save" => Page(t.arg).saves # "none"
  /\ t.op = "member" => t.arg \in Change
  /\ t.op # "save" => t.info \in Infos \cup {None}
  /\ t.op = "save" /\ t.handled => t.info \in SaveInfo
  /\ t.pc = "await" => t.op \in {"switch", "member"}
  /\ t.pc = "session" => t.op = "onboard"

Cookies == Sessions \cup {None}

TasksOK == task \in [Slot -> Tasks] /\ \A s \in Slot : TaskOK(task[s])

Shape ==
  /\ TypeInv
  /\ cookie \in Cookies
  /\ last \in [User -> Tenant \cup {None}]
  /\ rev \in [Tenant \X Entity -> Nat] /\ told \in [Tenant \X Entity -> Nat]
  /\ session \in Infos \cup {None}
  /\ page.ctx \in Infos \cup {None}
  /\ \A k \in DOMAIN cache : cache[k] \in Rows
  /\ \A k \in DOMAIN fetch : fetch[k] \in Rows \cup {None}
  /\ acts \in 0..MaxActs
  /\ landed \subseteq (Tenant \cup {None}) \X Tenant
  /\ mishaps \subseteq Mishap
  /\ TasksOK

(* A request's reads are made by the handler that will write it, or it is  *)
(* another user's.                                                         *)
RequestsOwned ==
  \A s \in Slot : request[s] # Idle =>
    /\ task[s].op # "idle" => task[s].pc = "sent" /\ ~task[s].handled
    /\ request[s].op = "join" => task[s].op = "accept"
    /\ request[s].op = "found" => task[s].op = "onboard"
    /\ request[s].op = "member" => task[s].op \in {"idle", "member"}

Base == Shape /\ RequestsOwned

-----------------------------------------------------------------------------
(* Handlers.                                                               *)
LEMMA NoTaskOK == NoTask \in Tasks /\ TaskOK(NoTask) /\ NoTask.op = "idle" /\ NoTask.info = None
<1>1. NoTask.op = "idle" /\ NoTask.info = None /\ NoTask.pc = "end" /\ NoTask.handled = FALSE
  BY DEF NoTask
<1>2. NoTask \in Tasks
  BY DEF NoTask, Tasks, Op, Args
<1> QED
  BY <1>1, <1>2 DEF TaskOK

StartedAt(s, op, arg) ==
  /\ FreeSlot(s) /\ task[s].op = "idle" /\ request[s] = Idle
  /\ task' \in [Slot -> Tasks] /\ \A o \in Slot \ {s} : task'[o] = task[o]
  /\ task'[s].op = op /\ task'[s].arg = arg /\ task'[s].pc = "sent"
  /\ task'[s].handled = FALSE /\ task'[s].info = None
  /\ task'[s].from = IF Authed THEN page.ctx.tenant ELSE None

LEMMA Starting ==
  ASSUME Shape, NEW op \in Op \ {"idle"}, NEW arg \in Args, Start(op, arg)
  PROVE  \E s \in Slot : StartedAt(s, op, arg)
<1> DEFINE s == CHOOSE i \in Slot : FreeSlot(i)
           from == IF Authed THEN page.ctx.tenant ELSE None
           r == [NoTask EXCEPT !.op = op, !.arg = arg, !.pc = "sent", !.from = from]
<1>1. s \in Slot /\ FreeSlot(s) /\ task[s].op = "idle" /\ request[s] = Idle
  BY DEF Start, FreeSlot
<1>2. from \in Tenant \cup {None}
  BY DEF Shape, Authed, Infos
<1>3. /\ r \in Tasks /\ r.op = op /\ r.arg = arg /\ r.pc = "sent" /\ r.handled = FALSE
      /\ r.info = None /\ r.from = from
  <2> HIDE DEF from
  <2> QED
    BY <1>2 DEF NoTask, Tasks, Op
<1>4. task' = [task EXCEPT ![s] = r]
  BY DEF Start
<1> HIDE DEF s, r, from
<1>5. task \in [Slot -> Tasks]
  BY DEF Shape, TasksOK
<1>6. /\ task' \in [Slot -> Tasks] /\ task'[s] = r
      /\ \A o \in Slot \ {s} : task'[o] = task[o]
  BY <1>1, <1>3, <1>4, <1>5
<1> QED
  BY <1>1, <1>3, <1>6 DEF from, StartedAt

LEMMA Answers ==
  ASSUME Shape, NEW s \in Slot, NEW info, Answering(s, info),
         info \in Infos \cup {None} \cup SaveInfo
  PROVE  /\ task' \in [Slot -> Tasks] /\ \A o \in Slot \ {s} : task'[o] = task[o]
         /\ task'[s].handled = TRUE /\ task'[s].info = info
         /\ task'[s].op = task[s].op /\ task'[s].arg = task[s].arg /\ task'[s].pc = task[s].pc
         /\ task'[s].from = task[s].from
<1>1. task \in [Slot -> Tasks]
  BY DEF Shape, TasksOK
<1> DEFINE r == [task[s] EXCEPT !.handled = TRUE, !.info = info]
<1>2. task' = [task EXCEPT ![s] = r]
  BY <1>1 DEF Answering
<1>3. /\ r \in Tasks /\ r.handled = TRUE /\ r.info = info /\ r.op = task[s].op
      /\ r.arg = task[s].arg /\ r.pc = task[s].pc /\ r.from = task[s].from
  <2>1. task[s] \in Tasks
    BY <1>1
  <2> QED
    BY <2>1 DEF Tasks
<1> HIDE DEF r
<1> QED
  BY <1>1, <1>2, <1>3

LEMMA Ending ==
  ASSUME Shape, NEW s \in Slot, End(s)
  PROVE  /\ task' \in [Slot -> Tasks] /\ task'[s] = NoTask
         /\ \A o \in Slot \ {s} : task'[o] = task[o]
BY NoTaskOK DEF Shape, TasksOK, End

-----------------------------------------------------------------------------
(* Pages and sessions.                                                     *)
LEMMA InfoOK ==
  ASSUME TypeInv, NEW c \in Sessions
  PROVE  /\ sessionInfo(c) \in Infos
         /\ sessionInfo(c).user = c.user /\ sessionInfo(c).tenant = c.tenant
<1>1. [t \in Tenant |-> role[<<c.user, t>>]] \in [Tenant -> Role \cup {None}]
  BY DEF TypeInv, MembersTypeOK, Pairs, Sessions
<1> QED
  BY <1>1 DEF sessionInfo, Infos, Sessions

LEMMA RoutedOK ==
  \A at, info : Routed(at, info).ctx = info /\ (info = None => Keys(Routed(at, info)) = {})
BY DEF Routed, Unrouted, Keys

LEMMA UnroutedOK == \A at : Unrouted(at).ctx = None /\ Unrouted(at).at = at /\ Keys(Unrouted(at)) = {}
BY DEF Unrouted, Keys

LEMMA MountedOK ==
  ASSUME page.ctx \in Infos \cup {None}
  PROVE  Mounted \subseteq Query \X (Tenant \cup {None})
<1> DEFINE p == Page(page.at)
<1>1. p.reads \subseteq Query /\ p.keyed \in BOOLEAN
  BY PagesAreOK DEF PageOK
<1>2. page.ctx # None => page.ctx.tenant \in Tenant \cup {None}
  BY DEF Infos
<1> QED
  <2> HIDE DEF p
  <2>1. Mounted = IF page.ctx = None THEN {} ELSE
                    {<<k, IF p.keyed THEN page.ctx.tenant ELSE None>> : k \in p.reads}
    BY DEF Mounted, Keys, p
  <2> QED
    BY <1>1, <1>2, <2>1

LEMMA InitBase == Init => Base
<1> SUFFICES ASSUME Init PROVE Base
  OBVIOUS
<1>1. TypeInv
  BY TypeInit DEF Init
<1>2. \A s \in Slot : request[s] = Idle
  BY DEF Init, MembersInit
<1>3. task \in [Slot -> Tasks] /\ \A s \in Slot : task[s] = NoTask
  BY NoTaskOK DEF Init
<1>4. cookie \in Cookies /\ last \in [User -> Tenant \cup {None}]
  <2>1. cookie \in Cookies
    BY DEF Init, Cookies, Sessions
  <2>2. cookie # None => cookie.tenant \in Tenant \cup {None}
    BY <2>1 DEF Cookies, Sessions
  <2> QED
    BY <2>1, <2>2 DEF Init
<1>5. Shape
  BY <1>1, <1>3, <1>4, NoTaskOK, UnroutedOK, ActsAssumption DEF Init, Shape, TasksOK
<1> QED
  BY <1>2, <1>5 DEF Base, RequestsOwned

-----------------------------------------------------------------------------
(* A step of the workspace is a step of Membership, or leaves the members. *)
LEMMA MembersStep == Base /\ [Next]_vars => [MembersNext]_members
<1> SUFFICES ASSUME Base, Next PROVE MembersNext \/ UNCHANGED members
  BY DEF vars
<1> USE DEF Base
<1>1. CASE LoadSession \/ SessionRefetched \/ UserActs \/ OtherTab
  BY <1>1 DEF LoadSession, SessionRefetched, UserActs, OtherTab, LoginForm, OnboardingWizard, Logout, SwitchTenant,
              InvitePage, SaveForm, ChangeMember, OpenPage, OpenInvite, LoginFirst, Start, server
<1>2. CASE OtherUser \/ \E s \in Slot : OtherWrites(s)
  BY <1>2 DEF OtherUser, OtherWrites, MembersNext
<1>3. ASSUME NEW k \in DOMAIN fetch, Respond(k) \/ RowsArrive(k)
      PROVE  UNCHANGED members
  BY <1>3 DEF Respond, RowsArrive, server
<1>4. ASSUME NEW s \in Slot, Continues(s)
      PROVE  UNCHANGED members
  BY <1>4 DEF Continues, Entered, LoggedOut, Switched, SwitchEnds, Founded, Onboarded, Saved,
              MemberChanged, server
<1>5. ASSUME NEW s \in Slot, Handles(s)
      PROVE  MembersNext \/ UNCHANGED members
  <2>1. CASE Login(s) \/ DeleteSession(s) \/ SetActiveTenant(s) \/ GetSession(s) \/ Save(s)
    BY <2>1 DEF Login, DeleteSession, SetActiveTenant, GetSession, Save, server
  <2>2. CASE LookupInvite(s)
    <3>1. cookie.user \in User /\ task[s].arg \in Token
      BY <2>2 DEF LookupInvite, Sent, Shape, Cookies, Sessions, TasksOK, TaskOK
    <3> QED
      BY <2>2, <3>1 DEF LookupInvite, MembersNext
  <2>3. CASE JoinTenant(s)
    BY <2>3 DEF JoinTenant, MembersNext
  <2>4. CASE BeginTenant(s)
    <3>1. cookie.user \in User
      BY <2>4 DEF BeginTenant, Shape, Cookies, Sessions
    <3> QED
      BY <2>4, <3>1 DEF BeginTenant, MembersNext
  <2>5. CASE FoundTenant(s)
    BY <2>5 DEF FoundTenant, MembersNext
  <2>6. CASE BeginMember(s)
    <3>1. /\ cookie.user \in User /\ cookie.tenant \in Tenant /\ task[s].arg.user \in User
          /\ task[s].arg.role \in Role \cup {None}
      BY <2>6 DEF BeginMember, Sent, Shape, Cookies, Sessions, TasksOK, TaskOK, Change
    <3> QED
      BY <2>6, <3>1 DEF BeginMember, MembersNext, RemoveMember
  <2>7. CASE EndMember(s)
    BY <2>7 DEF EndMember, MembersNext
  <2>8. CASE GiveUp(s)
    BY <2>8 DEF GiveUp, MembersNext
  <2> QED
    BY <1>5, <2>1, <2>2, <2>3, <2>4, <2>5, <2>6, <2>7, <2>8 DEF Handles
<1>6. ASSUME NEW s \in Slot, HalfSwitched(s)
      PROVE  UNCHANGED members
  BY <1>6 DEF HalfSwitched
<1> QED
  BY <1>1, <1>2, <1>3, <1>4, <1>5, <1>6 DEF Next

-----------------------------------------------------------------------------
(* Types are kept.                                                         *)
FetchOK == \A k \in DOMAIN fetch : fetch[k] \in Rows \cup {None}

LEMMA FetchTypes ==
  ASSUME FetchOK
  PROVE  /\ \A pg : Show(pg) => FetchOK'
         /\ \A info : Rerouted(info) => FetchOK'
         /\ \A ks : Invalidated(ks) => FetchOK'
<1>1. ASSUME NEW pg, Show(pg)
      PROVE  FetchOK'
  BY <1>1 DEF FetchOK, Show
<1>2. ASSUME NEW info, Rerouted(info)
      PROVE  FetchOK'
  <2> DEFINE new == Keys(Routed(page.at, info)) \ Mounted
  <2>1. fetch' = [k \in DOMAIN fetch \cup new |-> IF k \in DOMAIN fetch THEN fetch[k] ELSE None]
    BY <1>2 DEF Rerouted
  <2> HIDE DEF new
  <2> QED
    BY <2>1 DEF FetchOK
<1>3. ASSUME NEW ks, Invalidated(ks)
      PROVE  FetchOK'
  <2> DEFINE rs == Restarted(ks)
  <2>1. fetch' = [k \in DOMAIN fetch \cup rs |-> IF k \in rs THEN None ELSE fetch[k]]
    BY <1>3 DEF Invalidated
  <2> HIDE DEF rs
  <2> QED
    BY <2>1 DEF FetchOK
<1> QED
  BY <1>1, <1>2, <1>3

(* What the users and handlers do to one task.                             *)
LEMMA TasksAre ==
  ASSUME Shape, NEW s \in Slot, task' \in [Slot -> Tasks], TaskOK(task'[s]),
         \A o \in Slot \ {s} : task'[o] = task[o]
  PROVE  TasksOK'
<1>1. \A o \in Slot : TaskOK(task'[o])
  BY DEF Shape, TasksOK
<1> QED
  BY <1>1 DEF TasksOK

LEMMA EndOK == ASSUME Shape, NEW s \in Slot, End(s) PROVE TasksOK'
BY Ending, NoTaskOK, TasksAre

LEMMA AnswerOK ==
  ASSUME Shape, NEW s \in Slot, NEW info, Answering(s, info),
         info \in IF task[s].op = "save" THEN SaveInfo ELSE Infos \cup {None}
  PROVE  TasksOK'
<1>1. TaskOK(task[s])
  BY DEF Shape, TasksOK
<1>2. TaskOK(task'[s])
  BY <1>1, Answers DEF TaskOK
<1> QED
  BY <1>2, Answers, TasksAre

LEMMA StartOK ==
  ASSUME Shape, NEW op \in Op \ {"idle"}, NEW arg \in Args, Start(op, arg),
         op = "login" => arg \in Credentials, op = "switch" => arg \in Tenant,
         op = "accept" => arg \in Token, op = "save" => Page(arg).saves # "none",
         op = "member" => arg \in Change
  PROVE  Shape'
<1>1. PICK s \in Slot : StartedAt(s, op, arg)
  BY Starting
<1>2. TaskOK(task'[s])
  BY <1>1 DEF TaskOK, StartedAt
<1>3. TasksOK'
  BY <1>1, <1>2, TasksAre DEF StartedAt
<1>4. acts' \in 0..MaxActs
  BY ActsAssumption DEF Start, Acting, Shape
<1>5. mishaps' \subseteq Mishap
  BY DEF Start, Overlaps, Shape, Mishap
<1>6. TypeInv'
  BY DEF Start, server, members, Shape, TypeInv, MembersTypeOK, RequestsComplete
<1> QED
  BY <1>3, <1>4, <1>5, <1>6 DEF Start, server, Shape

LEMMA UserShape ==
  ASSUME Base, UserActs
  PROVE  Shape'
<1> USE DEF Base
<1>1. CASE LoginForm
  <2>1. PICK c \in Credentials : Start("login", c)
    BY <1>1 DEF LoginForm, Credentials
  <2> QED
    BY <2>1, StartOK DEF Op, Args
<1>2. CASE OnboardingWizard
  BY <1>2, StartOK DEF OnboardingWizard, Op, Args
<1>3. CASE Logout
  BY <1>3, StartOK DEF Logout, Op, Args
<1>4. CASE SwitchTenant
  <2>1. PICK t \in Tenant : Start("switch", t)
    BY <1>4 DEF SwitchTenant
  <2> QED
    BY <2>1, StartOK DEF Op, Args
<1>5. CASE InvitePage
  <2>1. PICK k \in Token : Start("accept", k)
    BY <1>5 DEF InvitePage
  <2> QED
    BY <2>1, StartOK DEF Op, Args
<1>6. CASE SaveForm
  <2>1. Start("save", page.at) /\ Page(page.at).saves # "none" /\ page.at \in Args
    BY <1>6, FormsSave DEF SaveForm, Args
  <2> QED
    BY <2>1, StartOK DEF Op
<1>7. CASE ChangeMember
  <2>1. PICK c \in Change : Start("member", c)
    BY <1>7 DEF ChangeMember, Change
  <2> QED
    BY <2>1, StartOK DEF Op, Args
<1>8. CASE OpenPage
  <2>1. PICK name : Show(Routed(name, session))
    BY <1>8 DEF OpenPage
  <2>2. FetchOK' /\ page'.ctx \in Infos \cup {None}
    BY <2>1, FetchTypes, RoutedOK DEF Shape, FetchOK, Show
  <2>3. TypeInv' /\ TasksOK'
    BY <1>8 DEF OpenPage, server, members, Shape, TypeInv, MembersTypeOK, RequestsComplete, TasksOK
  <2> QED
    BY <1>8, <2>2, <2>3, ActsAssumption DEF OpenPage, Acting, server, Shape, FetchOK
<1>9. CASE OpenInvite \/ LoginFirst
  <2>1. TypeInv' /\ TasksOK'
    BY <1>9 DEF OpenInvite, LoginFirst, server, members, Shape, TypeInv, MembersTypeOK,
                RequestsComplete, TasksOK
  <2>2. acts' \in 0..MaxActs
    <3>1. acts' = acts \/ (acts < MaxActs /\ acts' = acts + 1)
      BY <1>9 DEF OpenInvite, LoginFirst, Acting
    <3>2. acts \in 0..MaxActs
      BY DEF Shape
    <3> QED
      BY <3>1, <3>2, ActsAssumption
  <2>3. page'.ctx = None /\ UNCHANGED <<server, session, cache, fetch, told, mishaps>>
    BY <1>9, UnroutedOK DEF OpenInvite, LoginFirst
  <2> QED
    BY <2>1, <2>2, <2>3 DEF server, Shape
<1> QED
  BY <1>1, <1>2, <1>3, <1>4, <1>5, <1>6, <1>7, <1>8, <1>9 DEF UserActs

LEMMA HandlerShape ==
  ASSUME Base, NEW s \in Slot, Handles(s), TypeInv'
  PROVE  Shape'
<1> USE DEF Base
<1>t. task \in [Slot -> Tasks] /\ TaskOK(task[s])
  BY DEF Shape, TasksOK
<1>a. ASSUME NEW info \in Infos \cup {None}, Answering(s, info), task[s].op # "save",
             UNCHANGED <<rev, landed, client>>, cookie' \in Cookies,
             last' \in [User -> Tenant \cup {None}]
      PROVE  Shape'
  <2>1. TasksOK'
    BY <1>a, AnswerOK
  <2> QED
    BY <1>a, <2>1 DEF client, Shape
<1>b. ASSUME NEW u \in User, NEW t \in Tenant \cup {None}, Rebound(u, t)
      PROVE  cookie' \in Cookies /\ last' \in [User -> Tenant \cup {None}]
  BY <1>b DEF Rebound, Shape, Cookies, Sessions
<1>c. cookie # None => cookie \in Sessions
  BY DEF Shape, Cookies, Sessions
<1>1. CASE Login(s)
  <2>1. task[s].arg.user \in User /\ task[s].op = "login"
    BY <1>1, <1>t DEF Login, Sent, TaskOK, Credentials
  <2>2. last[task[s].arg.user] \in Tenant \cup {None}
    BY <2>1 DEF Shape
  <2>3. cookie' \in Sessions
    BY <1>1, <2>1, <2>2 DEF Login, Sessions
  <2>4. sessionInfo(cookie') \in Infos
    BY <2>3, InfoOK DEF Shape
  <2>5. Answering(s, sessionInfo(cookie')) /\ UNCHANGED <<rev, landed, client>> /\ last' = last
    BY <1>1 DEF Login
  <2> QED
    BY <1>a, <2>1, <2>3, <2>4, <2>5 DEF Cookies, Sessions, Shape
<1>2. CASE DeleteSession(s)
  BY <1>2, <1>a DEF DeleteSession, Sent, Cookies, Sessions, Shape
<1>3. CASE SetActiveTenant(s)
  <2>1. task[s].arg \in Tenant /\ task[s].op = "switch" /\ cookie # None
    BY <1>3, <1>t DEF SetActiveTenant, Sent, TaskOK
  <2> DEFINE c == [cookie EXCEPT !.tenant = task[s].arg]
  <2>2. c \in Sessions
    BY <1>c, <2>1 DEF Sessions
  <2>3. Answering(s, sessionInfo(c)) /\ UNCHANGED <<rev, landed, client>> /\ Rebound(cookie.user, task[s].arg)
    BY <1>3 DEF SetActiveTenant
  <2>4. sessionInfo(c) \in Infos
    BY <2>2, InfoOK DEF Shape
  <2> HIDE DEF c
  <2> QED
    BY <1>a, <1>b, <1>c, <2>1, <2>3, <2>4 DEF Sessions
<1>4. CASE LookupInvite(s) \/ BeginTenant(s) \/ BeginMember(s) \/ GiveUp(s)
  <2>1. UNCHANGED <<cookie, last, rev, landed, client, task>>
    BY <1>4 DEF LookupInvite, BeginTenant, BeginMember, GiveUp
  <2> QED
    BY <2>1 DEF client, Shape, TasksOK
<1>5. CASE JoinTenant(s)
  <2>1. /\ task[s].op = "accept" /\ request[s].op = "join"
        /\ request[s].user \in User /\ request[s].tenant \in Tenant
    BY <1>5 DEF JoinTenant, Join, Shape, TypeInv, RequestsComplete
  <2> DEFINE info == [user |-> request[s].user, tenant |-> request[s].tenant,
                      roles |-> [t \in Tenant |-> role'[<<request[s].user, t>>]]]
  <2>2. info \in Infos
    BY <2>1 DEF Infos, TypeInv, MembersTypeOK, Pairs
  <2>3. /\ Answering(s, info) /\ UNCHANGED <<rev, landed, client>>
        /\ Rebound(request[s].user, request[s].tenant)
    BY <1>5 DEF JoinTenant
  <2> HIDE DEF info
  <2> QED
    BY <1>a, <1>b, <2>1, <2>2, <2>3
<1>6. CASE FoundTenant(s)
  <2>1. PICK t \in Tenant : InsertTenant(s, t) /\ Rebound(request[s].user, t)
    BY <1>6 DEF FoundTenant
  <2>2. request[s].user \in User
    BY <2>1 DEF InsertTenant, Shape, TypeInv, RequestsComplete
  <2>3. task[s].op = "onboard" /\ Answering(s, None) /\ UNCHANGED <<rev, landed, client>>
    BY <1>6 DEF FoundTenant
  <2> QED
    BY <1>a, <1>b, <2>1, <2>2, <2>3
<1>7. CASE GetSession(s)
  <2>1. sessionInfo(cookie) \in Infos
    BY <1>7, <1>c, InfoOK DEF GetSession, Shape
  <2> QED
    BY <1>7, <1>a, <2>1 DEF GetSession, server, Shape
<1>8. CASE Save(s)
  <2> DEFINE e == Page(task[s].arg).saves
             key == <<cookie.tenant, e>>
             info == [tenant |-> cookie.tenant, rev |-> rev'[key]]
  <2>1. e \in Entity /\ cookie.tenant \in Tenant /\ task[s].op = "save" /\ ~task[s].handled
    BY <1>8, <1>c, PagesAreOK DEF Sessions, PageOK, Save, Sent
  <2>2. /\ rev' = [rev EXCEPT ![key] = @ + 1] /\ landed' = landed \cup {<<task[s].from, cookie.tenant>>}
        /\ Answering(s, info) /\ UNCHANGED <<cookie, last, client>>
    BY <1>8 DEF Save
  <2>3. key \in Tenant \X Entity /\ rev[key] \in Nat
    BY <2>1 DEF Shape
  <2> HIDE DEF key
  <2>4. rev' \in [Tenant \X Entity -> Nat] /\ rev'[key] \in Nat
    BY <2>2, <2>3 DEF Shape
  <2>5. info \in SaveInfo
    BY <2>1, <2>4 DEF SaveInfo
  <2>6. landed' \subseteq (Tenant \cup {None}) \X Tenant
    <3>1. task[s].from \in Tenant \cup {None}
      BY <1>t DEF Tasks
    <3> QED
      BY <2>1, <2>2, <3>1 DEF Shape
  <2> HIDE DEF info
  <2>7. TasksOK'
    BY <2>1, <2>2, <2>5, AnswerOK
  <2> QED
    BY <2>2, <2>4, <2>6, <2>7 DEF client, Shape
<1>9. CASE EndMember(s)
  BY <1>9, <1>a DEF EndMember, Shape
<1> QED
  BY <1>1, <1>2, <1>3, <1>4, <1>5, <1>6, <1>7, <1>8, <1>9 DEF Handles

(* An answer that comes back is the server's.                              *)
LEMMA AnsweredOK ==
  ASSUME Shape, NEW s \in Slot, NEW how, NEW ops, Answered(s, ops, how)
  PROVE  /\ task[s].op \in ops /\ task[s].pc = "sent"
         /\ how = "ok" => task[s].handled
         /\ "save" \notin ops => task[s].info \in Infos \cup {None}
         /\ task[s].op = "save" /\ how = "ok" => task[s].info \in SaveInfo
<1>1. task[s] \in Tasks /\ TaskOK(task[s])
  BY DEF Shape, TasksOK
<1>2. how = "ok" => task[s].handled
  BY DEF Answered, Answer
<1> QED
  BY <1>1, <1>2 DEF Answered, TaskOK

(* Who changed a role waits for the members, and then is routed anew.      *)
LEMMA MemberWaits ==
  ASSUME Shape, NEW s \in Slot, MemberChanged(s)
  PROVE  \/ End(s)
         \/ /\ task' \in [Slot -> Tasks] /\ \A o \in Slot \ {s} : task'[o] = task[o]
            /\ task[s].op = "member" /\ task[s].pc = "sent"
            /\ task'[s].op = "member" /\ task'[s].pc = "await" /\ TaskOK(task'[s])
            /\ task'[s].handled = task[s].handled /\ task'[s].info = task[s].info
<1> DEFINE keys == {k \in Mounted : k[1] = "members"}
           r == [task[s] EXCEPT !.pc = "await", !.awaits = keys]
<1>1. task[s].op = "member" /\ task[s].pc = "sent" /\ (End(s) \/ task' = [task EXCEPT ![s] = r])
  <2>1. End(s) \/ task' = [task EXCEPT ![s].pc = "await", ![s].awaits = keys]
    BY DEF MemberChanged
  <2> QED
    BY <2>1 DEF MemberChanged, Answered, Shape, TasksOK
<1>2. task \in [Slot -> Tasks] /\ TaskOK(task[s])
  BY DEF Shape, TasksOK
<1>3. keys \in SUBSET (Query \X (Tenant \cup {None}))
  BY MountedOK DEF Shape
<1> HIDE DEF keys
<1>4. /\ r \in Tasks /\ r.op = "member" /\ r.pc = "await" /\ r.arg = task[s].arg
      /\ r.info = task[s].info /\ r.handled = task[s].handled
  BY <1>1, <1>2, <1>3 DEF Tasks
<1> HIDE DEF r
<1>5. TaskOK(r)
  BY <1>1, <1>2, <1>4 DEF TaskOK
<1> QED
  BY <1>1, <1>2, <1>4, <1>5

LEMMA ContinuesShape ==
  ASSUME Base, NEW s \in Slot, Continues(s), TypeInv'
  PROVE  Shape'
<1> USE DEF Base
<1>m. "lost" \in Mishap /\ (\A ks : InFlight(ks) \subseteq Mishap) /\ "left" \in Mishap
  BY DEF InFlight, Mishap
<1>n. \A how : Noting(how) => mishaps' \subseteq Mishap
  BY <1>m DEF Noting, Shape
<1>f. FetchOK /\ mishaps \subseteq Mishap
  BY DEF Shape, FetchOK
<1>1. CASE Entered(s)
  <2>1. PICK how : Answered(s, {"login", "accept"}, how)
                   /\ IF how = "ok"
                      THEN /\ session' = task[s].info /\ Show(Landing(s))
                           /\ mishaps' = mishaps \cup InFlight(AllKeys)
                      ELSE Noting(how) /\ UNCHANGED <<session, page, fetch>>
    BY <1>1 DEF Entered
  <2>2. End(s) /\ UNCHANGED <<server, cache, acts, told>>
    BY <1>1 DEF Entered
  <2>3. task[s].info \in Infos \cup {None}
    BY <2>1, AnsweredOK
  <2>4. /\ session' \in Infos \cup {None} /\ page'.ctx \in Infos \cup {None} /\ FetchOK'
        /\ mishaps' \subseteq Mishap
    <3>1. CASE how = "ok"
      BY <2>1, <2>3, <3>1, <1>f, <1>m, FetchTypes, RoutedOK, UnroutedOK DEF Show, Landing
    <3>2. CASE how # "ok"
      BY <2>1, <3>2, <1>f, <1>n DEF Shape, FetchOK
    <3> QED
      BY <3>1, <3>2
  <2> QED
    BY <2>2, <2>4, EndOK DEF server, Shape, FetchOK
<1>2. CASE LoggedOut(s)
  <2>1. /\ End(s) /\ UNCHANGED <<server, cache, fetch, acts, told>> /\ mishaps' \subseteq Mishap
        /\ UNCHANGED <<session, page>> \/ (session' = None /\ page' = Unrouted("login"))
    BY <1>2, <1>n DEF LoggedOut
  <2> QED
    BY <2>1, EndOK, UnroutedOK DEF server, Shape
<1>3. CASE Switched(s)
  <2>1. PICK how : Answered(s, {"switch"}, how)
                   /\ IF how = "ok"
                      THEN /\ session' = task[s].info
                           /\ Invalidated(AllKeys)
                           /\ mishaps' = mishaps \cup Missed(AllKeys)
                           /\ task' = [task EXCEPT ![s].pc = "await", ![s].awaits = Mounted]
                      ELSE End(s) /\ Noting(how) /\ UNCHANGED <<session, fetch>>
    BY <1>3 DEF Switched
  <2>2. UNCHANGED <<server, page, cache, acts, told>>
    BY <1>3 DEF Switched
  <2>3. task[s].info \in Infos \cup {None} /\ task[s].op = "switch"
    BY <2>1, AnsweredOK
  <2>4. session' \in Infos \cup {None} /\ FetchOK' /\ mishaps' \subseteq Mishap
    <3>1. CASE how = "ok"
      BY <2>1, <2>3, <3>1, <1>f, <1>m, FetchTypes DEF Missed
    <3>2. CASE how # "ok"
      BY <2>1, <3>2, <1>f, <1>n DEF Shape, FetchOK
    <3> QED
      BY <3>1, <3>2
  <2>5. TasksOK'
    <3>1. CASE how = "ok"
      <4> DEFINE r == [task[s] EXCEPT !.pc = "await", !.awaits = Mounted]
      <4>1. task[s] \in Tasks /\ TaskOK(task[s]) /\ task \in [Slot -> Tasks]
        BY DEF Shape, TasksOK
      <4>2. Mounted \in SUBSET (Query \X (Tenant \cup {None}))
        BY MountedOK DEF Shape
      <4>3. r \in Tasks /\ r.op = "switch" /\ r.arg = task[s].arg /\ r.info = task[s].info
            /\ r.pc = "await"
        BY <2>3, <4>1, <4>2 DEF Tasks
      <4>4. task' = [task EXCEPT ![s] = r]
        BY <2>1, <3>1, <4>1
      <4> HIDE DEF r
      <4>5. task' \in [Slot -> Tasks] /\ task'[s] = r /\ \A o \in Slot \ {s} : task'[o] = task[o]
        BY <4>1, <4>3, <4>4
      <4>6. TaskOK(task'[s])
        BY <2>3, <4>1, <4>3, <4>5 DEF TaskOK
      <4> QED
        BY <4>5, <4>6, TasksAre
    <3>2. CASE how # "ok"
      BY <2>1, <3>2, EndOK
    <3> QED
      BY <3>1, <3>2
  <2> QED
    BY <2>2, <2>4, <2>5 DEF server, Shape, FetchOK
<1>4. CASE SwitchEnds(s)
  <2>1. /\ Rerouted(session) \/ UNCHANGED <<page, fetch>>
        /\ End(s) /\ UNCHANGED <<server, session, cache, acts, told, mishaps>>
    BY <1>4 DEF SwitchEnds
  <2>2. FetchOK' /\ page'.ctx \in Infos \cup {None}
    BY <2>1, <1>f, FetchTypes, RoutedOK DEF Rerouted, Shape, FetchOK
  <2> QED
    BY <2>1, <2>2, EndOK DEF server, Shape, FetchOK
<1>5. CASE Founded(s)
  <2>1. PICK how :
          task' = [task EXCEPT ![s] =
            IF how = "ok" THEN [NoTask EXCEPT !.op = "onboard", !.pc = "session"] ELSE NoTask]
    BY <1>5 DEF Founded
  <2> DEFINE r == [NoTask EXCEPT !.op = "onboard", !.pc = "session"]
  <2>2. r \in Tasks /\ r.op = "onboard" /\ r.info = None
    BY NoTaskOK DEF Tasks, Op
  <2>3. TaskOK(r)
    BY <2>2 DEF TaskOK
  <2> DEFINE n == IF how = "ok" THEN r ELSE NoTask
  <2>4. n \in Tasks /\ TaskOK(n)
    BY <2>2, <2>3, NoTaskOK
  <2>5. task' = [task EXCEPT ![s] = n] /\ task \in [Slot -> Tasks]
    BY <2>1 DEF Shape, TasksOK
  <2> HIDE DEF n
  <2>6. TasksOK'
    BY <2>4, <2>5, TasksAre
  <2>7. UNCHANGED <<server, session, page, cache, fetch, acts, told>> /\ mishaps' \subseteq Mishap
    BY <1>5, <1>n DEF Founded
  <2> QED
    BY <2>6, <2>7 DEF server, Shape
<1>6. CASE Onboarded(s)
  <2>1. PICK how : task[s].op = "onboard"
                   /\ IF how = "lost"
                      THEN Noting(how) /\ UNCHANGED <<session, page, fetch>>
                      ELSE /\ session' = task[s].info /\ \E at : Show(Routed(at, task[s].info))
                           /\ mishaps' = mishaps \cup InFlight(AllKeys)
    BY <1>6 DEF Onboarded
  <2>2. End(s) /\ UNCHANGED <<server, cache, acts, told>>
    BY <1>6 DEF Onboarded
  <2>3. task[s].info \in Infos \cup {None}
    BY <2>1 DEF Shape, TasksOK, TaskOK
  <2>4. /\ session' \in Infos \cup {None} /\ page'.ctx \in Infos \cup {None} /\ FetchOK'
        /\ mishaps' \subseteq Mishap
    <3>1. CASE how # "lost"
      BY <2>1, <2>3, <3>1, <1>f, <1>m, FetchTypes, RoutedOK DEF Show
    <3>2. CASE how = "lost"
      BY <2>1, <3>2, <1>f, <1>n DEF Shape, FetchOK
    <3> QED
      BY <3>1, <3>2
  <2> QED
    BY <2>2, <2>4, EndOK DEF server, Shape, FetchOK
<1>7. CASE Saved(s)
  <2> DEFINE p == Page(task[s].arg)
             keys == {k \in AllKeys : k[1] \in p.invalidates}
             affected == {k \in AllKeys : Of(k[1]) = p.saves}
             key == <<task[s].info.tenant, p.saves>>
  <2>1. PICK how : Answered(s, {"save"}, how)
                   /\ IF how = "ok"
                      THEN /\ Invalidated(keys)
                           /\ mishaps' = mishaps \cup InFlight(affected \ Restarted(keys))
                                                 \cup IF page.at = task[s].arg THEN {} ELSE {"left"}
                           /\ told' = [told EXCEPT ![key] =
                                         IF @ < task[s].info.rev THEN task[s].info.rev ELSE @]
                      ELSE Noting(how) /\ UNCHANGED <<fetch, told>>
    BY <1>7 DEF Saved
  <2>2. End(s) /\ UNCHANGED <<server, session, page, cache, acts>>
    BY <1>7 DEF Saved
  <2>3. p.saves \in Entity
    BY PagesAreOK DEF PageOK
  <2> HIDE DEF p, keys, affected
  <2>4. told' \in [Tenant \X Entity -> Nat] /\ FetchOK' /\ mishaps' \subseteq Mishap
    <3>1. CASE how = "ok"
      <4>1. task[s].info \in SaveInfo
        BY <2>1, <3>1, AnsweredOK
      <4>2. key \in Tenant \X Entity /\ task[s].info.rev \in Nat
        BY <4>1, <2>3 DEF SaveInfo
      <4> HIDE DEF key
      <4>3. told' \in [Tenant \X Entity -> Nat]
        BY <2>1, <3>1, <4>2 DEF Shape
      <4>4. FetchOK'
        BY <2>1, <3>1, <1>f, FetchTypes
      <4>5. mishaps' \subseteq Mishap
        BY <2>1, <3>1, <1>f, <1>m
      <4> QED
        BY <4>3, <4>4, <4>5
    <3>2. CASE how # "ok"
      BY <2>1, <3>2, <1>f, <1>n DEF Shape, FetchOK
    <3> QED
      BY <3>1, <3>2
  <2> QED
    BY <2>2, <2>4, EndOK DEF server, Shape, FetchOK
<1>8. CASE MemberChanged(s)
  <2>1. /\ (\E ks : Invalidated(ks)) \/ UNCHANGED fetch
        /\ mishaps' \subseteq Mishap
        /\ UNCHANGED <<server, session, page, cache, acts, told>>
    BY <1>8, <1>f, <1>n DEF MemberChanged
  <2>2. FetchOK'
    BY <2>1, <1>f, FetchTypes DEF FetchOK
  <2>3. TasksOK'
    BY <1>8, MemberWaits, TasksAre, EndOK
  <2> QED
    BY <2>1, <2>2, <2>3 DEF server, Shape, FetchOK
<1> QED
  BY <1>1, <1>2, <1>3, <1>4, <1>5, <1>6, <1>7, <1>8 DEF Continues

LEMMA ShapeStep == Base /\ [Next]_vars => Shape'
<1> SUFFICES ASSUME Base, [Next]_vars PROVE Shape'
  OBVIOUS
<1> USE DEF Base
<1>t. TypeInv'
  BY MembersStep, TypeStep DEF Shape
<1>1. CASE LoadSession
  <2>1. session' \in Infos \cup {None}
    BY <1>1, InfoOK DEF LoadSession, Shape, Cookies, Sessions
  <2>2. FetchOK' /\ page'.ctx \in Infos \cup {None}
    BY <1>1, <2>1, FetchTypes, RoutedOK DEF LoadSession, Show, Shape, FetchOK
  <2> QED
    BY <1>1, <1>t, <2>1, <2>2 DEF LoadSession, server, Shape, FetchOK, TasksOK
<1>2. ASSUME NEW k \in DOMAIN fetch, Respond(k)
      PROVE  Shape'
  <2> DEFINE rows == IF cookie # None /\ cookie.tenant # None /\ requireTenant(cookie.user, cookie.tenant)
                     THEN [tenant |-> cookie.tenant, rev |-> rev[<<cookie.tenant, Of(k[1])>>]]
                     ELSE [tenant |-> None, rev |-> 0]
  <2>1. rows \in Rows
    <3>1. cookie # None /\ cookie.tenant # None => cookie.tenant \in Tenant
      BY DEF Shape, Cookies, Sessions
    <3>2. cookie # None /\ cookie.tenant # None => rev[<<cookie.tenant, Of(k[1])>>] \in Nat
      BY <3>1, OfIsEntity DEF Shape
    <3> QED
      BY <3>1, <3>2 DEF Rows
  <2>2. fetch' = [fetch EXCEPT ![k] = rows]
    BY <1>2 DEF Respond
  <2> HIDE DEF rows
  <2>3. FetchOK'
    BY <2>1, <2>2 DEF FetchOK, Shape
  <2> QED
    BY <1>2, <1>t, <2>3 DEF Respond, server, Shape, FetchOK, TasksOK
<1>3. ASSUME NEW k \in DOMAIN fetch, RowsArrive(k)
      PROVE  Shape'
  <2>1. \A j \in DOMAIN cache' : cache'[j] \in Rows
    BY <1>3 DEF RowsArrive, Shape
  <2>2. FetchOK'
    BY <1>3 DEF RowsArrive, Restrict, Shape, FetchOK
  <2> QED
    BY <1>3, <1>t, <2>1, <2>2 DEF RowsArrive, server, Shape, FetchOK, TasksOK
<1>4. CASE OtherTab
  <2>1. cookie' \in Cookies /\ last' \in [User -> Tenant \cup {None}]
    <3>1. CASE cookie' = None /\ UNCHANGED last
      BY <3>1 DEF Shape, Cookies, Sessions
    <3>2. CASE \E t \in Tenant : Rebound(cookie.user, t)
      <4>1. cookie \in Sessions
        BY <1>4 DEF OtherTab, Shape, Cookies, Sessions
      <4> QED
        BY <3>2, <4>1 DEF Rebound, Shape, Cookies, Sessions
    <3> QED
      BY <1>4, <3>1, <3>2 DEF OtherTab
  <2>2. acts' \in 0..MaxActs /\ mishaps' \subseteq Mishap
    <3>1. acts < MaxActs /\ acts' = acts + 1
      BY <1>4 DEF OtherTab, Acting
    <3>2. acts \in 0..MaxActs
      BY DEF Shape
    <3>3. acts' \in 0..MaxActs
      BY <3>1, <3>2, ActsAssumption
    <3>4. mishaps \subseteq Mishap /\ "other tab" \in Mishap
      BY DEF Mishap, Shape
    <3>5. mishaps' \subseteq Mishap
      BY <1>4, <3>4 DEF OtherTab
    <3> QED
      BY <3>3, <3>5
  <2> QED
    BY <1>4, <1>t, <2>1, <2>2 DEF OtherTab, Shape, TasksOK
<1>5. CASE OtherUser
  <2>1. acts' \in 0..MaxActs
    BY <1>5, ActsAssumption DEF OtherUser, Acting, Shape
  <2> QED
    BY <1>5, <1>t, <2>1 DEF OtherUser, tab, Shape, TasksOK
<1>6. CASE UNCHANGED vars
  BY <1>6, <1>t DEF vars, tab, Shape, TasksOK
<1>7. CASE SessionRefetched
  <2>1. session' \in Infos \cup {None}
    BY <1>7, InfoOK DEF SessionRefetched, Shape, Cookies, Sessions
  <2> QED
    BY <1>7, <1>t, <2>1 DEF SessionRefetched, server, Shape, TasksOK
<1>8. ASSUME NEW s \in Slot, HalfSwitched(s)
      PROVE  Shape'
  <2>1. task[s].arg \in Tenant /\ cookie \in Sessions
    BY <1>8 DEF HalfSwitched, Sent, Shape, TasksOK, TaskOK, Cookies, Sessions
  <2>2. cookie' \in Cookies
    BY <1>8, <2>1 DEF HalfSwitched, Cookies, Sessions
  <2>3. mishaps' \subseteq Mishap
    BY <1>8 DEF HalfSwitched, Mishap, Shape
  <2>4. TasksOK'
    BY <1>8, EndOK DEF HalfSwitched, End
  <2> QED
    BY <1>8, <1>t, <2>2, <2>3, <2>4 DEF HalfSwitched, Shape
<1>9. ASSUME NEW s \in Slot, OtherWrites(s)
      PROVE  Shape'
  BY <1>9, <1>t DEF OtherWrites, tab, Shape, TasksOK
<1> QED
  BY <1>t, <1>1, <1>2, <1>3, <1>4, <1>5, <1>6, <1>7, <1>8, <1>9, UserShape, HandlerShape, ContinuesShape DEF Next

-----------------------------------------------------------------------------
(* Requests are owned.                                                     *)

(* A task that moves on while no request of its own is under way.          *)
Moves(s) ==
  /\ \A o \in Slot \ {s} : task'[o] = task[o] /\ request'[o] = request[o]
  /\ request'[s] = Idle

LEMMA MovesOn ==
  ASSUME Base, NEW s \in Slot, Moves(s)
  PROVE  RequestsOwned'
BY DEF Base, RequestsOwned, Moves

LEMMA HandlerMoves ==
  ASSUME Base, NEW s \in Slot,
         Login(s) \/ DeleteSession(s) \/ SetActiveTenant(s) \/ JoinTenant(s) \/ FoundTenant(s)
           \/ GetSession(s) \/ EndMember(s) \/ Save(s)
  PROVE  RequestsOwned'
<1>1. \E info : Answering(s, info)
  BY DEF Login, DeleteSession, SetActiveTenant, JoinTenant, FoundTenant, GetSession, EndMember, Save
<1>2. request \in [Slot -> Requests] /\ task \in [Slot -> Tasks]
  BY DEF Base, Shape, TypeInv, MembersTypeOK, TasksOK
<1>3. request'[s] = Idle /\ \A o \in Slot \ {s} : request'[o] = request[o]
  <2>1. CASE Login(s) \/ DeleteSession(s) \/ SetActiveTenant(s) \/ Save(s)
    BY <2>1 DEF Login, DeleteSession, SetActiveTenant, Save, Sent, members
  <2>2. CASE GetSession(s)
    BY <2>2 DEF GetSession, server, members, Base, RequestsOwned
  <2>3. CASE JoinTenant(s) \/ FoundTenant(s) \/ EndMember(s)
    BY <1>2, <2>3 DEF JoinTenant, Join, FoundTenant, InsertTenant, EndMember, WriteMember
  <2> QED
    BY <2>1, <2>2, <2>3
<1>4. \A o \in Slot \ {s} : task'[o] = task[o]
  BY <1>1, <1>2 DEF Answering
<1> QED
  BY <1>3, <1>4, MovesOn DEF Moves

LEMMA ContinuesMoves ==
  ASSUME Base, NEW s \in Slot, Continues(s)
  PROVE  RequestsOwned'
<1>1. request[s] = Idle
  BY DEF Continues, Entered, LoggedOut, Switched, SwitchEnds, Founded, Onboarded, Saved,
         MemberChanged, Answered, Base, RequestsOwned
<1>2. task \in [Slot -> Tasks]
  BY DEF Base, Shape, TasksOK
<1>3. \A o \in Slot \ {s} : task'[o] = task[o]
  BY <1>2, MemberWaits DEF Continues, Entered, LoggedOut, Switched, SwitchEnds, Founded, Onboarded,
         Saved, End, Base
<1>4. UNCHANGED request
  BY DEF Continues, Entered, LoggedOut, Switched, SwitchEnds, Founded, Onboarded, Saved,
         MemberChanged, server, members
<1> QED
  BY <1>1, <1>3, <1>4, MovesOn DEF Moves

LEMMA StartMoves ==
  ASSUME Base, NEW op \in Op \ {"idle"}, NEW arg \in Args, Start(op, arg)
  PROVE  RequestsOwned'
<1>1. PICK s \in Slot : StartedAt(s, op, arg)
  BY Starting DEF Base
<1>2. UNCHANGED request
  BY DEF Start, server, members
<1> QED
  BY <1>1, <1>2, MovesOn DEF StartedAt, Moves

LEMMA UserMoves ==
  ASSUME Base, UserActs
  PROVE  RequestsOwned'
<1>1. CASE LoginForm
  <2>1. PICK c \in Credentials : Start("login", c)
    BY <1>1 DEF LoginForm, Credentials
  <2> QED
    BY <2>1, StartMoves DEF Op, Args
<1>2. CASE OnboardingWizard \/ Logout
  BY <1>2, StartMoves DEF OnboardingWizard, Logout, Op, Args
<1>3. CASE SwitchTenant
  BY <1>3, StartMoves DEF SwitchTenant, Op, Args
<1>4. CASE InvitePage
  BY <1>4, StartMoves DEF InvitePage, Op, Args
<1>5. CASE SaveForm
  <2>1. Start("save", page.at) /\ page.at \in Args
    BY <1>5, FormsSave DEF SaveForm, Args
  <2> QED
    BY <2>1, StartMoves DEF Op
<1>6. CASE ChangeMember
  <2>1. PICK c \in Change : Start("member", c)
    BY <1>6 DEF ChangeMember, Change
  <2> QED
    BY <2>1, StartMoves DEF Op, Args
<1>7. CASE OpenPage \/ OpenInvite \/ LoginFirst
  BY <1>7 DEF OpenPage, OpenInvite, LoginFirst, server, members, Base, RequestsOwned
<1> QED
  BY <1>1, <1>2, <1>3, <1>4, <1>5, <1>6, <1>7 DEF UserActs

(* A request that begins is its handler's.                                 *)
LEMMA BeginMoves ==
  ASSUME Base, NEW s \in Slot, LookupInvite(s) \/ BeginTenant(s) \/ BeginMember(s)
  PROVE  RequestsOwned'
<1>1. UNCHANGED task /\ request \in [Slot -> Requests]
  BY DEF LookupInvite, BeginTenant, BeginMember, Base, Shape, TypeInv, MembersTypeOK
<1>2. /\ task[s].pc = "sent" /\ ~task[s].handled
      /\ \E r : /\ request' = [request EXCEPT ![s] = r]
                /\ r.op = "join" => task[s].op = "accept"
                /\ r.op = "found" => task[s].op = "onboard"
                /\ r.op = "member" => task[s].op = "member"
  <2>1. CASE LookupInvite(s)
    <3> DEFINE r == [Idle EXCEPT !.op = "join", !.user = cookie.user,
                                 !.tenant = invite[task[s].arg].tenant,
                                 !.role = invite[task[s].arg].role]
    <3>1. request' = [request EXCEPT ![s] = r] /\ Sent(s, "accept")
      BY <2>1 DEF LookupInvite, AcceptInvite, Begin
    <3>2. r.op = "join"
      BY DEF Idle
    <3> HIDE DEF r
    <3> QED
      BY <3>1, <3>2 DEF Sent
  <2>2. CASE BeginTenant(s)
    <3> DEFINE r == [Idle EXCEPT !.op = "found", !.user = cookie.user,
                                 !.active = Cardinality(CreatedBy(cookie.user)) < Cap]
    <3>1. request' = [request EXCEPT ![s] = r] /\ Sent(s, "onboard")
      BY <2>2 DEF BeginTenant, CreateTenant, Begin
    <3>2. r.op = "found"
      BY DEF Idle
    <3> HIDE DEF r
    <3> QED
      BY <3>1, <3>2 DEF Sent
  <2>3. CASE BeginMember(s)
    <3> DEFINE r == [Idle EXCEPT !.op = "member", !.user = cookie.user, !.tenant = cookie.tenant,
                                 !.target = task[s].arg.user, !.role = task[s].arg.role]
    <3>1. request' = [request EXCEPT ![s] = r] /\ Sent(s, "member")
      BY <2>3 DEF BeginMember, UpdateMember, Begin
    <3>2. r.op = "member"
      BY DEF Idle
    <3> HIDE DEF r
    <3> QED
      BY <3>1, <3>2 DEF Sent
  <2> QED
    BY <2>1, <2>2, <2>3
<1> QED
  BY <1>1, <1>2 DEF Base, RequestsOwned

(* Another user's.                                                         *)
LEMMA OtherMoves ==
  ASSUME Base, OtherUser
  PROVE  RequestsOwned'
<1>1. UNCHANGED task /\ request \in [Slot -> Requests]
  BY DEF OtherUser, tab, Base, Shape, TypeInv, MembersTypeOK
<1>2. ASSUME NEW s \in Slot, NEW u, NEW t, NEW target, NEW new, FreeSlot(s),
             UpdateMember(s, u, t, target, new)
      PROVE  RequestsOwned'
  <2> DEFINE r == [Idle EXCEPT !.op = "member", !.user = u, !.tenant = t, !.target = target, !.role = new]
  <2>1. request' = [request EXCEPT ![s] = r] /\ task[s].op = "idle"
    BY <1>2 DEF UpdateMember, Begin, FreeSlot
  <2>2. r.op = "member"
    BY DEF Idle
  <2> HIDE DEF r
  <2> QED
    BY <1>1, <2>1, <2>2 DEF Base, RequestsOwned
<1>3. ASSUME UNCHANGED request
      PROVE  RequestsOwned'
  BY <1>1, <1>3 DEF Base, RequestsOwned
<1> QED
  BY <1>2, <1>3 DEF OtherUser, RemoveMember, RevokeInvite, CreateInvite

LEMMA StepBase == Base /\ [Next]_vars => Base'
<1> SUFFICES ASSUME Base, [Next]_vars PROVE RequestsOwned'
  BY ShapeStep DEF Base
<1>1. ASSUME UNCHANGED <<request, task>>
      PROVE  RequestsOwned'
  BY <1>1 DEF Base, RequestsOwned
<1>2. CASE LoadSession \/ SessionRefetched \/ OtherTab \/ UNCHANGED vars
  BY <1>1, <1>2 DEF LoadSession, SessionRefetched, OtherTab, server, members, vars, tab
<1>3. ASSUME NEW k \in DOMAIN fetch, Respond(k) \/ RowsArrive(k)
      PROVE  RequestsOwned'
  BY <1>1, <1>3 DEF Respond, RowsArrive, server, members
<1>4. ASSUME NEW s \in Slot, GiveUp(s) \/ OtherWrites(s)
      PROVE  RequestsOwned'
  <2>1. request' = [request EXCEPT ![s] = Idle] /\ UNCHANGED task
    BY <1>4 DEF GiveUp, OtherWrites, Abort, WriteMember, tab
  <2>2. request \in [Slot -> Requests]
    BY DEF Base, Shape, TypeInv, MembersTypeOK
  <2> QED
    BY <2>1, <2>2, MovesOn DEF Moves
<1>5. ASSUME NEW s \in Slot, HalfSwitched(s)
      PROVE  RequestsOwned'
  <2>1. UNCHANGED request /\ request[s] = Idle /\ task' = [task EXCEPT ![s] = NoTask]
    BY <1>5 DEF HalfSwitched, Sent, members
  <2>2. task \in [Slot -> Tasks]
    BY DEF Base, Shape, TasksOK
  <2> QED
    BY <2>1, <2>2, MovesOn DEF Moves
<1>6. ASSUME NEW s \in Slot, Handles(s)
      PROVE  RequestsOwned'
  BY <1>4, <1>6, HandlerMoves, BeginMoves DEF Handles
<1> QED
  BY <1>2, <1>3, <1>4, <1>5, <1>6, UserMoves, ContinuesMoves, OtherMoves DEF Next

(* What the session, the pages and the handlers hold is well typed.        *)
THEOREM Types == Spec => []TypeOK
<1>1. Base => TypeOK
  BY DEF Base, Shape, TypeInv, TypeOK, Cookies, Sessions
<1> QED
  BY <1>1, InitBase, StepBase, PTL DEF Spec

(* The sessions and handlers of a tab change memberships only as the       *)
(* requests of Membership do.                                              *)
THEOREM WorkspaceImplementsMembership == Spec => MembersSpec
<1>1. Init => MembersInit
  BY DEF Init
<1> QED
  BY <1>1, InitBase, StepBase, MembersStep, PTL DEF Spec, MembersSpec

(* However users come, go, switch and join, a tenant keeps an owner unless *)
(* requests of two of its owners have met.                                 *)
THEOREM WorkspaceKeepsOwners == Spec => []TenantKeepsAnOwner
BY OwnersStay, WorkspaceImplementsMembership

(* And memberships change only as owners, invites and foundings say.       *)
THEOREM WorkspaceGrants == Spec => MembershipIsGranted
BY MembershipsAreGranted, WorkspaceImplementsMembership

-----------------------------------------------------------------------------
(* The session, the layout and the saves.                                  *)

(* Handlers that change the session have run one at a time, and to their   *)
(* ends, and nobody else has changed it.                                   *)
Clean == mishaps \cap {"overlap", "lost", "other tab"} = {}

(* A handler has changed the session and the tab has not heard of it yet.  *)
Stale(s) ==
  /\ task[s].op \in Rebinding
  /\ (task[s].handled /\ task[s].pc = "sent") \/ task[s].pc = "session"

OneRebinds ==
  \A s, o \in Slot :
    task[s].op \in Rebinding /\ task[o].op \in Rebinding \cup {"save", "member"} => s = o

Matches(info) ==
  info # None => cookie # None /\ info.user = cookie.user /\ info.tenant = cookie.tenant

(* A switch waits for its queries, and its layout is to be routed anew.    *)
Switching(s) == task[s].op = "switch" /\ task[s].pc = "await"

Current ==
  (\A s \in Slot : ~Stale(s)) =>
    Matches(session) /\ ((\A s \in Slot : ~Switching(s)) => Matches(page.ctx))

TaskRight(s) ==
  /\ task[s].handled /\ task[s].pc = "sent" /\ task[s].op \in {"login", "accept", "switch"} =>
       task[s].info # None /\ Matches(task[s].info)
  /\ task[s].handled /\ task[s].pc = "session" => Matches(task[s].info)
  /\ task[s].op = "logout" /\ task[s].handled => cookie = None
  /\ task[s].op = "save" => cookie # None /\ task[s].from = cookie.tenant
  /\ request[s].op \in {"join", "found"} => cookie # None /\ request[s].user = cookie.user

Routes == page.ctx # None => session # None

(* A tab that is loading does nothing else.                                *)
Loading ==
  page.at = "loading" =>
    /\ session = None /\ page.ctx = None /\ DOMAIN fetch = {}
    /\ \A s \in Slot : task[s].op = "idle"

Blank == \A s \in Slot : ~task[s].handled => task[s].info = None

InSession ==
  /\ Loading /\ Blank
  /\ Clean => /\ OneRebinds /\ Current /\ Routes
              /\ \A s \in Slot : TaskRight(s)
              /\ \A p \in landed : p[1] = p[2]

SessionInv == Base /\ InSession

LEMMA InitSession == Init => SessionInv
<1> SUFFICES ASSUME Init PROVE SessionInv
  OBVIOUS
<1>1. \A s \in Slot : task[s] = NoTask /\ request[s] = Idle
  BY DEF Init, MembersInit
<1>2. \A s \in Slot : task[s].op = "idle" /\ task[s].info = None /\ task[s].pc = "end"
                      /\ request[s].op = "idle" /\ ~task[s].handled
  BY <1>1 DEF NoTask, Idle
<1>3. session = None /\ page.ctx = None /\ landed = {} /\ DOMAIN fetch = {}
  BY UnroutedOK DEF Init
<1>4. \A s \in Slot : TaskRight(s) /\ ~Stale(s)
  BY <1>2 DEF TaskRight, Stale, Rebinding
<1> QED
  BY <1>2, <1>3, <1>4, InitBase
     DEF SessionInv, InSession, Loading, Blank, OneRebinds, Current, Switching, Routes, Matches, Rebinding

LEMMA MishapsGrow == Next => mishaps \subseteq mishaps'
<1> SUFFICES ASSUME Next PROVE mishaps \subseteq mishaps'
  OBVIOUS
<1>1. CASE LoadSession \/ SessionRefetched \/ UserActs \/ OtherTab \/ OtherUser
  BY <1>1 DEF LoadSession, SessionRefetched, UserActs, OtherTab, OtherUser, LoginForm,
              OnboardingWizard, Logout, SwitchTenant, InvitePage, SaveForm, ChangeMember, OpenPage,
              OpenInvite, LoginFirst, Start, tab
<1>2. ASSUME NEW k \in DOMAIN fetch, Respond(k) \/ RowsArrive(k)
      PROVE  mishaps \subseteq mishaps'
  BY <1>2 DEF Respond, RowsArrive
<1>3. ASSUME NEW s \in Slot, Handles(s)
      PROVE  mishaps \subseteq mishaps'
  BY <1>3 DEF Handles, Login, DeleteSession, SetActiveTenant, LookupInvite, JoinTenant, BeginTenant,
              FoundTenant, GetSession, Save, BeginMember, EndMember, GiveUp, client
<1>4. ASSUME NEW s \in Slot, Continues(s)
      PROVE  mishaps \subseteq mishaps'
  BY <1>4 DEF Continues, Entered, LoggedOut, Switched, SwitchEnds, Founded, Onboarded, Saved,
              MemberChanged, Noting
<1>5. ASSUME NEW s \in Slot, HalfSwitched(s) \/ OtherWrites(s)
      PROVE  mishaps \subseteq mishaps'
  BY <1>5 DEF HalfSwitched, OtherWrites, tab
<1> QED
  BY <1>1, <1>2, <1>3, <1>4, <1>5 DEF Next

(* A new handler.                                                          *)
LEMMA StartSession ==
  ASSUME SessionInv, NEW op \in Op \ {"idle"}, NEW arg \in Args, Start(op, arg),
         page.at # "loading", op = "save" => Authed
  PROVE  InSession'
<1>1. PICK s \in Slot : StartedAt(s, op, arg)
  BY Starting DEF SessionInv, Base
<1>2. UNCHANGED <<server, session, page, cache, fetch, request, cookie, landed>>
  BY DEF Start, server, members
<1>3. request[s] = Idle /\ request[s].op = "idle"
  BY <1>1 DEF StartedAt, Idle
<1>4. Loading' /\ Blank'
  <2>1. Loading'
    BY <1>2 DEF Loading
  <2>2. Blank'
    BY <1>1 DEF StartedAt, Blank, SessionInv, InSession
  <2> QED
    BY <2>1, <2>2
<1>5. ASSUME Clean'
      PROVE  /\ OneRebinds' /\ Current' /\ Routes' /\ \A o \in Slot : TaskRight(o)'
             /\ \A p \in landed' : p[1] = p[2]
  <2>1. Clean /\ Overlaps(op) = {}
    BY <1>5 DEF Clean, Start, Overlaps
  <2>2. ~Running(Rebinding) /\ (op \in Rebinding => ~Running({"save", "member"}))
    BY <2>1 DEF Overlaps
  <2>3. \A o \in Slot : ~Stale(o) /\ ~Switching(o)
    BY <2>2 DEF Running, Stale, Switching, Rebinding
  <2>4. OneRebinds'
    BY <1>1, <2>2 DEF StartedAt, OneRebinds, Running
  <2>5. Matches(session) /\ Matches(page.ctx) /\ Routes
    BY <2>1, <2>3 DEF Current, SessionInv, InSession
  <2>6. Current' /\ Routes'
    BY <1>2, <2>5 DEF Current, Routes, Matches
  <2>7. op = "save" => cookie # None /\ task'[s].from = cookie.tenant
    BY <1>1, <2>5 DEF StartedAt, Matches, Authed
  <2>8. TaskRight(s)'
    BY <1>1, <1>2, <1>3, <2>7 DEF StartedAt, TaskRight
  <2>9. \A o \in Slot \ {s} : TaskRight(o)'
    BY <1>1, <1>2, <2>1 DEF StartedAt, TaskRight, Matches, SessionInv, InSession
  <2> QED
    BY <1>2, <2>1, <2>4, <2>6, <2>8, <2>9 DEF SessionInv, InSession
<1> QED
  BY <1>4, <1>5 DEF InSession

(* The other actions of the user, and data that arrives, leave session,    *)
(* cookie and handlers; the page they show is of the session.              *)
LEMMA PageSession ==
  ASSUME SessionInv, UNCHANGED <<session, cookie, landed, task, request>>, mishaps \subseteq mishaps',
         page' = page \/ page'.ctx \in {session, None}, page'.at # "loading" \/ page' = page,
         page'.at = "loading" => fetch' = fetch
  PROVE  InSession'
<1>1. Loading' /\ Blank'
  BY DEF Loading, Blank, SessionInv, InSession
<1>2. ASSUME Clean'
      PROVE  /\ OneRebinds' /\ Current' /\ Routes' /\ \A o \in Slot : TaskRight(o)'
             /\ \A p \in landed' : p[1] = p[2]
  <2>1. Clean
    BY <1>2 DEF Clean
  <2>2. OneRebinds' /\ \A o \in Slot : TaskRight(o)'
    BY <2>1 DEF OneRebinds, TaskRight, Matches, SessionInv, InSession
  <2>3. Current'
    BY <2>1 DEF Current, Matches, Stale, Switching, SessionInv, InSession
  <2>4. Routes'
    BY <2>1 DEF Routes, SessionInv, InSession
  <2> QED
    BY <2>1, <2>2, <2>3, <2>4 DEF SessionInv, InSession
<1> QED
  BY <1>1, <1>2 DEF InSession

LEMMA RoutedAt ==
  \A at, info : at # "loading" => Routed(at, info).at # "loading"
BY UnroutedOK DEF Routed

LEMMA PagesLoad == \A name \in Pages \cup {"home"} : name # "loading"
BY PagesAssumption

LEMMA UserSession ==
  ASSUME SessionInv, UserActs
  PROVE  InSession'
<1>1. CASE LoginForm
  <2>1. PICK c \in Credentials : Start("login", c)
    BY <1>1 DEF LoginForm, Credentials
  <2>2. page.at # "loading"
    BY <1>1 DEF LoginForm
  <2> QED
    BY <2>1, <2>2, StartSession DEF Op, Args
<1>2. CASE OnboardingWizard
  BY <1>2, StartSession DEF OnboardingWizard, Op, Args
<1>3. CASE Logout
  <2>1. page.at # "loading"
    BY <1>3 DEF Logout, Authed, SessionInv, InSession, Loading
  <2> QED
    BY <1>3, <2>1, StartSession DEF Logout, Op, Args
<1>4. CASE SwitchTenant
  <2>1. page.at # "loading"
    BY <1>4 DEF SwitchTenant, Authed, SessionInv, InSession, Loading
  <2> QED
    BY <1>4, <2>1, StartSession DEF SwitchTenant, Op, Args
<1>5. CASE InvitePage
  BY <1>5, StartSession DEF InvitePage, Op, Args
<1>6. CASE SaveForm
  <2>1. Start("save", page.at) /\ page.at \in Args /\ page.at # "loading" /\ Authed
    BY <1>6, FormsSave, NoPage DEF SaveForm, Args
  <2> QED
    BY <2>1, StartSession DEF Op
<1>7. CASE ChangeMember
  <2>1. PICK c \in Change : Start("member", c)
    BY <1>7 DEF ChangeMember, Change
  <2>2. page.at # "loading"
    BY <1>7 DEF ChangeMember
  <2> QED
    BY <2>1, <2>2, StartSession DEF Op, Args
<1>8. CASE OpenPage
  <2>1. PICK name \in Pages \cup {"home"} : page' = Routed(name, session)
    BY <1>8 DEF OpenPage, Show
  <2>2. page'.ctx = session /\ page'.at # "loading"
    BY <2>1, RoutedOK, RoutedAt, PagesLoad
  <2>3. UNCHANGED <<session, cookie, landed, task, request, mishaps>>
    BY <1>8 DEF OpenPage, server, members
  <2> QED
    BY <2>2, <2>3, PageSession
<1>9. CASE OpenInvite \/ LoginFirst
  <2>1. page'.ctx = None /\ page'.at # "loading"
    BY <1>9, UnroutedOK DEF OpenInvite, LoginFirst
  <2>2. UNCHANGED <<session, cookie, landed, task, request, mishaps>>
    BY <1>9 DEF OpenInvite, LoginFirst, server, members
  <2> QED
    BY <2>1, <2>2, PageSession
<1> QED
  BY <1>1, <1>2, <1>3, <1>4, <1>5, <1>6, <1>7, <1>8, <1>9 DEF UserActs

(* The server answers a handler that changes the session.                  *)
LEMMA RebindSession ==
  ASSUME SessionInv, NEW s \in Slot, NEW info \in Infos \cup {None}, Answering(s, info),
         task[s].op \in Rebinding, task[s].pc \in {"sent", "session"},
         request'[s] = Idle, \A o \in Slot \ {s} : request'[o] = request[o],
         UNCHANGED <<landed, session, page, fetch, mishaps>>,
         (task[s].op \in {"login", "accept", "switch"} \/ task[s].pc = "session") /\ Clean =>
           info # None /\ cookie' # None /\ info.user = cookie'.user /\ info.tenant = cookie'.tenant,
         task[s].op = "logout" => cookie' = None
  PROVE  InSession'
<1>1. /\ \A o \in Slot \ {s} : task'[o] = task[o]
      /\ task'[s].handled = TRUE /\ task'[s].info = info /\ task'[s].op = task[s].op
      /\ task'[s].pc = task[s].pc /\ task'[s].from = task[s].from
  BY Answers DEF SessionInv, Base
<1>2. Loading' /\ Blank'
  <2>1. Loading'
    BY <1>1 DEF Loading, SessionInv, InSession, Rebinding
  <2>2. Blank'
    BY <1>1 DEF Blank, SessionInv, InSession
  <2> QED
    BY <2>1, <2>2
<1>3. ASSUME Clean'
      PROVE  /\ OneRebinds' /\ Current' /\ Routes' /\ \A o \in Slot : TaskRight(o)'
             /\ \A p \in landed' : p[1] = p[2]
  <2>1. Clean
    BY <1>3 DEF Clean
  <2>2. OneRebinds /\ OneRebinds'
    BY <1>1, <2>1 DEF OneRebinds, SessionInv, InSession
  <2>3. Routes'
    BY <2>1 DEF Routes, SessionInv, InSession
  <2>5. Stale(s)'
    BY <1>1 DEF Stale
  <2>6. Current'
    BY <2>5 DEF Current
  <2>7. \A o \in Slot \ {s} : /\ task[o].op \notin Rebinding \cup {"save", "member"}
                              /\ request[o].op \notin {"join", "found"}
    <3>1. \A o \in Slot \ {s} : task[o].op \notin Rebinding \cup {"save", "member"}
      BY <2>2 DEF OneRebinds
    <3> QED
      BY <3>1 DEF Rebinding, SessionInv, Base, RequestsOwned, Idle
  <2>8. \A o \in Slot \ {s} : TaskRight(o)'
    <3>1. ASSUME NEW o \in Slot \ {s}, task[o].pc = "session"
          PROVE  task[o].op \in Rebinding
      BY <3>1 DEF SessionInv, Base, Shape, TasksOK, TaskOK, Rebinding
    <3> QED
      BY <1>1, <2>7, <3>1 DEF TaskRight, Rebinding
  <2>9. TaskRight(s)'
    <3>1. task'[s].op # "save" /\ request'[s].op = "idle"
      BY <1>1 DEF Rebinding, Idle
    <3> QED
      BY <1>1, <2>1, <3>1 DEF TaskRight, Matches
  <2> QED
    BY <2>1, <2>2, <2>3, <2>6, <2>8, <2>9 DEF SessionInv, InSession
<1> QED
  BY <1>2, <1>3 DEF InSession

LEMMA HandlerSession ==
  ASSUME SessionInv, NEW s \in Slot, Handles(s)
  PROVE  InSession'
<1> USE DEF SessionInv
<1>t. /\ task \in [Slot -> Tasks] /\ TaskOK(task[s]) /\ TypeInv
      /\ request \in [Slot -> Requests]
  BY DEF Base, Shape, TasksOK, TypeInv, MembersTypeOK
<1>c. cookie # None => cookie \in Sessions
  BY DEF Base, Shape, Cookies, Sessions
<1>r. ASSUME request'[s] = Idle, \A o \in Slot \ {s} : request'[o] = request[o],
             task' = task \/ \E info : Answering(s, info) /\ info \in Infos \cup {None} \cup SaveInfo,
             task[s].op \notin Rebinding \/ task' = task, UNCHANGED <<cookie, session, page, fetch, mishaps>>,
             Clean => \A p \in landed' : p[1] = p[2]
      PROVE  InSession'
  <2>1. /\ \A o \in Slot \ {s} : task'[o] = task[o]
        /\ task'[s].op = task[s].op /\ task'[s].from = task[s].from /\ task'[s].pc = task[s].pc
        /\ task' = task \/ task'[s].handled
    BY <1>r, Answers DEF Base
  <2>2. Loading' /\ Blank'
    <3>1. Loading'
      BY <1>r, <2>1 DEF Loading, InSession
    <3>2. Blank'
      BY <2>1 DEF Blank, InSession
    <3> QED
      BY <3>1, <3>2
  <2>3. Clean' => Clean
    BY <1>r DEF Clean
  <2>4. \A o \in Slot : Stale(o)' <=> Stale(o)
    BY <1>r, <2>1 DEF Stale
  <2>5. Clean => OneRebinds' /\ Current' /\ Routes'
    BY <1>r, <2>1, <2>4 DEF InSession, OneRebinds, Current, Switching, Routes, Matches
  <2>6. \A o \in Slot \ {s} : TaskRight(o) => TaskRight(o)'
    BY <1>r, <2>1 DEF TaskRight, Matches
  <2>7. TaskRight(s) => TaskRight(s)'
    <3>1. request'[s].op = "idle"
      BY <1>r DEF Idle
    <3>2. task' # task => task[s].pc # "session" /\ task[s].op \notin {"login", "logout", "accept", "switch"}
      BY <1>r, <1>t DEF TaskOK, Rebinding
    <3> QED
      BY <1>r, <2>1, <3>1, <3>2 DEF TaskRight, Matches
  <2> QED
    BY <1>r, <2>2, <2>3, <2>5, <2>6, <2>7 DEF InSession
<1>b. ASSUME NEW u \in User, NEW t \in Tenant, Rebound(u, t), cookie # None, cookie.user = u
      PROVE  cookie' # None /\ cookie'.user = u /\ cookie'.tenant = t
  <2>1. cookie' = [cookie EXCEPT !.tenant = t]
    BY <1>b DEF Rebound
  <2>2. cookie' \in Sessions /\ cookie'.user = u /\ cookie'.tenant = t
    BY <1>b, <1>c, <2>1 DEF Sessions
  <2> QED
    BY <2>2, SessionsAssumption
<1>1. CASE Login(s)
  <2>1. task[s].arg.user \in User /\ task[s].op = "login" /\ Sent(s, "login")
    BY <1>1, <1>t DEF Login, Sent, TaskOK, Credentials
  <2>2. last[task[s].arg.user] \in Tenant \cup {None}
    BY <2>1 DEF Base, Shape
  <2>3. cookie' \in Sessions
    BY <1>1, <2>1, <2>2 DEF Login, Sessions
  <2> DEFINE info == sessionInfo(cookie')
  <2>4. info \in Infos /\ info.user = cookie'.user /\ info.tenant = cookie'.tenant
    BY <1>t, <2>3, InfoOK
  <2>5. Answering(s, info) /\ UNCHANGED <<landed, session, page, fetch, mishaps, request>>
    BY <1>1 DEF Login, client, members
  <2>6. info # None /\ cookie' # None
    BY <2>3, <2>4, SessionsAssumption
  <2> HIDE DEF info
  <2> QED
    BY <2>1, <2>4, <2>5, <2>6, RebindSession DEF Sent, Rebinding
<1>2. CASE DeleteSession(s)
  <2>1. /\ Answering(s, None) /\ UNCHANGED <<landed, session, page, fetch, mishaps, request>>
        /\ Sent(s, "logout") /\ cookie' = None
    BY <1>2 DEF DeleteSession, client, members
  <2> QED
    BY <2>1, RebindSession DEF Sent, Rebinding
<1>3. CASE SetActiveTenant(s)
  <2>1. task[s].arg \in Tenant /\ Sent(s, "switch") /\ task[s].op = "switch" /\ cookie \in Sessions
    BY <1>3, <1>t, <1>c DEF SetActiveTenant, Sent, TaskOK
  <2> DEFINE c == [cookie EXCEPT !.tenant = task[s].arg]
             info == sessionInfo(c)
  <2>2. c \in Sessions
    BY <2>1 DEF Sessions
  <2>3. Answering(s, info) /\ Rebound(cookie.user, task[s].arg) /\ cookie # None
        /\ UNCHANGED <<landed, session, page, fetch, mishaps, request>>
    BY <1>3 DEF SetActiveTenant, client, members
  <2>4. cookie' = c
    BY <2>3 DEF Rebound
  <2>5. info \in Infos /\ info.user = c.user /\ info.tenant = c.tenant
    BY <1>t, <2>2, InfoOK
  <2>6. info # None /\ c # None
    BY <2>2, <2>5, SessionsAssumption
  <2> HIDE DEF info, c
  <2> QED
    BY <2>1, <2>3, <2>4, <2>5, <2>6, RebindSession DEF Sent, Rebinding
<1>4. CASE JoinTenant(s)
  <2>1. /\ request[s].op = "join" /\ request[s] # Idle
        /\ request[s].user \in User /\ request[s].tenant \in Tenant
    BY <1>4, <1>t DEF JoinTenant, Join, TypeInv, RequestsComplete, Idle
  <2>2. task[s].op = "accept" /\ task[s].pc = "sent"
    BY <2>1 DEF Base, RequestsOwned
  <2> DEFINE info == [user |-> request[s].user, tenant |-> request[s].tenant,
                      roles |-> [t \in Tenant |-> role'[<<request[s].user, t>>]]]
  <2>3. /\ Answering(s, info) /\ UNCHANGED <<landed, session, page, fetch, mishaps>>
        /\ Rebound(request[s].user, request[s].tenant)
    BY <1>4 DEF JoinTenant, client
  <2>4. TypeInv'
    BY <1>4, MembersStep, TypeStep DEF Next, Handles, Base, Shape
  <2>5. info \in Infos
    BY <2>1, <2>4 DEF Infos, TypeInv, MembersTypeOK, Pairs
  <2>6. info # None /\ info.user = request[s].user /\ info.tenant = request[s].tenant
    BY <2>5, SessionsAssumption
  <2>7. request'[s] = Idle /\ \A o \in Slot \ {s} : request'[o] = request[o]
    BY <1>4, <1>t DEF JoinTenant, Join
  <2> HIDE DEF info
  <2>8. Clean => cookie # None /\ cookie.user = request[s].user
    BY <2>1 DEF InSession, TaskRight
  <2>9. Clean => cookie' # None /\ info.user = cookie'.user /\ info.tenant = cookie'.tenant
    BY <1>b, <2>1, <2>3, <2>6, <2>8
  <2> QED
    BY <2>2, <2>3, <2>5, <2>6, <2>7, <2>9, RebindSession DEF Rebinding
<1>5. CASE FoundTenant(s)
  <2>1. request[s].op = "found" /\ request[s] # Idle
    BY <1>5 DEF FoundTenant, InsertTenant, Idle
  <2>2. task[s].op = "onboard" /\ task[s].pc = "sent"
    BY <2>1 DEF Base, RequestsOwned
  <2>3. Answering(s, None) /\ UNCHANGED <<landed, session, page, fetch, mishaps>>
    BY <1>5 DEF FoundTenant, client
  <2>4. request'[s] = Idle /\ \A o \in Slot \ {s} : request'[o] = request[o]
    BY <1>5, <1>t DEF FoundTenant, InsertTenant
  <2> QED
    BY <2>2, <2>3, <2>4, RebindSession DEF Rebinding
<1>6. CASE GetSession(s)
  <2>1. task[s].op = "onboard" /\ task[s].pc = "session" /\ cookie \in Sessions
    BY <1>6, <1>c DEF GetSession
  <2> DEFINE info == sessionInfo(cookie)
  <2>2. /\ Answering(s, info)
        /\ UNCHANGED <<landed, session, page, fetch, mishaps, request, cookie>>
    BY <1>6 DEF GetSession, client, server, members
  <2>3. info \in Infos /\ info.user = cookie.user /\ info.tenant = cookie.tenant
    BY <1>t, <2>1, InfoOK
  <2>4. info # None /\ cookie # None
    BY <2>1, <2>3, SessionsAssumption
  <2>5. request[s] = Idle
    BY <2>1 DEF Base, RequestsOwned
  <2> HIDE DEF info
  <2> QED
    BY <2>1, <2>2, <2>3, <2>4, <2>5, RebindSession DEF Rebinding
<1>7. CASE Save(s)
  <2> DEFINE info == [tenant |-> cookie.tenant, rev |-> rev'[<<cookie.tenant, Page(task[s].arg).saves>>]]
  <2>1. /\ Answering(s, info) /\ UNCHANGED <<cookie, session, page, fetch, mishaps, request>>
        /\ task[s].op = "save" /\ request[s] = Idle
        /\ landed' = landed \cup {<<task[s].from, cookie.tenant>>}
    BY <1>7 DEF Save, Sent, client, members
  <2>2. Clean => task[s].from = cookie.tenant /\ \A p \in landed : p[1] = p[2]
    BY <2>1 DEF InSession, TaskRight
  <2>3. Clean => \A p \in landed' : p[1] = p[2]
    BY <2>1, <2>2
  <2>4. info \in SaveInfo
    <3>1. Shape'
      BY HandlerShape, MembersStep, TypeStep DEF Next, Base, Shape
    <3>2. cookie.tenant \in Tenant
      BY <1>7, <1>c DEF Save, Sessions
    <3>3. rev'[<<cookie.tenant, Page(task[s].arg).saves>>] \in Nat
      BY <3>1, <3>2, PagesAreOK DEF Shape, PageOK
    <3> QED
      BY <3>2, <3>3 DEF SaveInfo
  <2> HIDE DEF info
  <2> QED
    BY <1>r, <2>1, <2>3, <2>4 DEF Rebinding
<1>8. CASE EndMember(s)
  <2>1. /\ Answering(s, None) /\ UNCHANGED <<cookie, landed, session, page, fetch, mishaps>>
        /\ task[s].op = "member"
    BY <1>8 DEF EndMember, client
  <2>2. request'[s] = Idle /\ \A o \in Slot \ {s} : request'[o] = request[o]
    BY <1>8, <1>t DEF EndMember, WriteMember
  <2> QED
    BY <1>r, <2>1, <2>2 DEF Rebinding, InSession
<1>9. CASE GiveUp(s)
  <2>1. UNCHANGED <<cookie, landed, session, page, fetch, mishaps, task>>
    BY <1>9 DEF GiveUp, client
  <2>2. request'[s] = Idle /\ \A o \in Slot \ {s} : request'[o] = request[o]
    BY <1>9, <1>t DEF GiveUp, Abort
  <2> QED
    BY <1>r, <2>1, <2>2 DEF InSession
<1>10. CASE LookupInvite(s) \/ BeginTenant(s) \/ BeginMember(s)
  <2>1. UNCHANGED <<cookie, landed, session, page, fetch, mishaps, task>> /\ cookie # None
    BY <1>10 DEF LookupInvite, BeginTenant, BeginMember, client
  <2>2. \E r : request' = [request EXCEPT ![s] = r]
               /\ (r.op \in {"join", "found"} => r.user = cookie.user)
    <3>1. CASE LookupInvite(s)
      <4> DEFINE r == [Idle EXCEPT !.op = "join", !.user = cookie.user,
                                   !.tenant = invite[task[s].arg].tenant,
                                   !.role = invite[task[s].arg].role]
      <4>1. request' = [request EXCEPT ![s] = r]
        BY <3>1 DEF LookupInvite, AcceptInvite, Begin
      <4>2. r.user = cookie.user
        BY DEF Idle
      <4> HIDE DEF r
      <4> QED
        BY <4>1, <4>2
    <3>2. CASE BeginTenant(s)
      <4> DEFINE r == [Idle EXCEPT !.op = "found", !.user = cookie.user,
                                   !.active = Cardinality(CreatedBy(cookie.user)) < Cap]
      <4>1. request' = [request EXCEPT ![s] = r]
        BY <3>2 DEF BeginTenant, CreateTenant, Begin
      <4>2. r.user = cookie.user
        BY DEF Idle
      <4> HIDE DEF r
      <4> QED
        BY <4>1, <4>2
    <3>3. CASE BeginMember(s)
      <4> DEFINE r == [Idle EXCEPT !.op = "member", !.user = cookie.user, !.tenant = cookie.tenant,
                                   !.target = task[s].arg.user, !.role = task[s].arg.role]
      <4>1. request' = [request EXCEPT ![s] = r]
        BY <3>3 DEF BeginMember, UpdateMember, Begin
      <4>2. r.user = cookie.user
        BY DEF Idle
      <4> HIDE DEF r
      <4> QED
        BY <4>1, <4>2
    <3> QED
      BY <1>10, <3>1, <3>2, <3>3
  <2>3. \A o \in Slot : request'[o] = request[o]
          \/ (request'[o].op \in {"join", "found"} => cookie # None /\ request'[o].user = cookie.user)
    BY <1>t, <2>1, <2>2
  <2>4. Loading' /\ Blank' /\ (Clean' => Clean)
    BY <2>1 DEF Loading, Blank, Clean, InSession
  <2>5. Clean => OneRebinds' /\ Current' /\ Routes' /\ (\A o \in Slot : TaskRight(o)')
                 /\ \A p \in landed' : p[1] = p[2]
    <3>1. Clean => OneRebinds' /\ Current' /\ Routes' /\ \A p \in landed' : p[1] = p[2]
      BY <2>1 DEF InSession, OneRebinds, Current, Switching, Routes, Matches, Stale
    <3>2. Clean => \A o \in Slot : TaskRight(o)'
      BY <2>1, <2>3 DEF InSession, TaskRight, Matches
    <3> QED
      BY <3>1, <3>2
  <2> QED
    BY <2>4, <2>5 DEF InSession
<1> QED
  BY <1>1, <1>2, <1>3, <1>4, <1>5, <1>6, <1>7, <1>8, <1>9, <1>10 DEF Handles

(* A handler that ends, or goes on to its second half.  What the tab then  *)
(* holds matches the session, or is as it was.                             *)
LEMMA EndSession ==
  ASSUME SessionInv, NEW s \in Slot, UNCHANGED <<cookie, landed, request>>,
         mishaps \subseteq mishaps', request[s] = Idle, task[s].op # "idle",
         \A o \in Slot \ {s} : task'[o] = task[o],
         task'[s].op \in {"idle", task[s].op},
         task'[s].op # "idle" => task'[s].pc # "sent" /\ task'[s].op \in Rebinding \cup {"member"},
         task'[s].op # "logout", ~task'[s].handled => task'[s].info = None,
         task'[s].pc = "session" => ~task'[s].handled,
         page'.at # "loading" \/ page' = page,
         Clean' =>
           /\ page'.ctx # None => session' # None
           /\ ~Stale(s)' =>
                \/ ~Stale(s) /\ ~Switching(s) /\ page' = page /\ session' = session
                \/ Matches(session') /\ (Switching(s)' \/ Matches(page'.ctx))
                \/ ~Stale(s) /\ session' = session /\ page'.ctx \in {session, None}
  PROVE  InSession'
<1> USE DEF SessionInv
<1>1. Loading' /\ Blank'
  <2>1. Loading'
    BY DEF Loading, InSession
  <2>2. Blank'
    BY DEF Blank, InSession
  <2> QED
    BY <2>1, <2>2
<1>2. ASSUME Clean'
      PROVE  /\ OneRebinds' /\ Current' /\ Routes' /\ \A o \in Slot : TaskRight(o)'
             /\ \A p \in landed' : p[1] = p[2]
  <2>1. Clean
    BY <1>2 DEF Clean
  <2>2. OneRebinds /\ Current /\ (\A o \in Slot : TaskRight(o)) /\ \A p \in landed : p[1] = p[2]
    BY <2>1 DEF InSession
  <2>3. OneRebinds'
    BY <2>2 DEF OneRebinds, Rebinding
  <2>4. Routes'
    BY <1>2 DEF Routes
  <2>5. \A o \in Slot \ {s} : (Stale(o)' <=> Stale(o)) /\ TaskRight(o)'
    BY <2>2 DEF Stale, TaskRight, Matches
  <2>6. TaskRight(s)'
    BY DEF TaskRight, Rebinding, Idle
  <2>7. Current'
    <3> SUFFICES ASSUME \A o \in Slot : ~Stale(o)'
                 PROVE  /\ Matches(session)'
                        /\ (\A o \in Slot : ~Switching(o)') => Matches(page.ctx)'
      BY DEF Current
    <3>1. \A o \in Slot \ {s} : ~Stale(o) /\ (Switching(o) <=> Switching(o)')
      BY <2>5 DEF Switching
    <3>2. CASE ~Stale(s) /\ session' = session /\ page'.ctx \in {session, None}
      <4>1. Matches(session)
        BY <2>2, <3>1, <3>2 DEF Current
      <4> QED
        BY <3>2, <4>1 DEF Matches
    <3>3. CASE ~Stale(s) /\ ~Switching(s) /\ page' = page /\ session' = session
      <4>1. /\ Matches(session)
            /\ (\A o \in Slot : ~Switching(o)) => Matches(page.ctx)
        BY <2>2, <3>1, <3>3 DEF Current
      <4> QED
        BY <3>1, <3>3, <4>1 DEF Matches
    <3>4. CASE Matches(session') /\ (Switching(s)' \/ Matches(page'.ctx))
      BY <3>4 DEF Matches
    <3> QED
      BY <1>2, <3>2, <3>3, <3>4
  <2> QED
    BY <2>2, <2>3, <2>4, <2>5, <2>6, <2>7
<1> QED
  BY <1>1, <1>2 DEF InSession

LEMMA ContinuesSession ==
  ASSUME SessionInv, NEW s \in Slot, Continues(s)
  PROVE  InSession'
<1> USE DEF SessionInv
<1>1. /\ request[s] = Idle /\ task[s].op # "idle" /\ UNCHANGED <<cookie, landed, request>>
      /\ task[s] \in Tasks /\ TaskOK(task[s])
  <2>1. request[s] = Idle
    BY DEF Continues, Entered, LoggedOut, Switched, SwitchEnds, Founded, Onboarded, Saved,
           MemberChanged, Answered, Base, RequestsOwned
  <2>2. task[s].op # "idle"
    BY DEF Continues, Entered, LoggedOut, Switched, SwitchEnds, Founded, Onboarded, Saved,
           MemberChanged, Answered
  <2>3. UNCHANGED <<cookie, landed, request>>
    BY DEF Continues, Entered, LoggedOut, Switched, SwitchEnds, Founded, Onboarded, Saved,
           MemberChanged, server, members
  <2> QED
    BY <2>1, <2>2, <2>3 DEF Base, Shape, TasksOK
<1>2. mishaps \subseteq mishaps'
  BY MishapsGrow DEF Next
<1>e. ASSUME End(s)
      PROVE  /\ task'[s].op = "idle" /\ task'[s].info = None /\ ~Stale(s)'
             /\ task'[s].pc = "end" /\ \A o \in Slot \ {s} : task'[o] = task[o]
  <2>1. task'[s] = NoTask /\ \A o \in Slot \ {s} : task'[o] = task[o]
    BY <1>e, Ending DEF Base
  <2> QED
    BY <2>1 DEF NoTask, Stale, Rebinding
<1>l. page.at # "loading"
  BY <1>1 DEF InSession, Loading
<1>n. \A how : Noting(how) /\ Clean' => how # "lost"
  BY DEF Noting, Clean
<1>i. Clean => Routes /\ Current /\ TaskRight(s)
  BY DEF InSession
<1>c. Clean' => Clean
  BY <1>2 DEF Clean
<1>h. \A at, info : Routed(at, info).ctx = info /\ (at # "loading" => Routed(at, info).at # "loading")
  BY RoutedOK, RoutedAt
<1>b. Landing(s).ctx \in {task[s].info, None} /\ Landing(s).at # "loading"
  BY <1>h, UnroutedOK DEF Landing
<1>u. Unrouted("login").ctx = None /\ Unrouted("login").at # "loading"
  BY UnroutedOK
<1>x. \A how, ops : Answered(s, ops, how) =>
        /\ task[s].op \in ops /\ task[s].pc = "sent" /\ how \in {"ok", "refused", "lost"}
        /\ how = "ok" => task[s].handled
        /\ how = "refused" => ~task[s].handled /\ ~Stale(s)
  BY DEF Answered, Answer, Stale
<1>3. CASE Entered(s)
  <2>1. PICK how : Answered(s, {"login", "accept"}, how)
                   /\ IF how = "ok"
                      THEN session' = task[s].info /\ page' = Landing(s)
                      ELSE Noting(how) /\ UNCHANGED <<session, page>>
    BY <1>3 DEF Entered, Show
  <2>2. End(s)
    BY <1>3 DEF Entered
  <2>3. page'.at # "loading" \/ page' = page
    BY <2>1, <1>b
  <2>4. ASSUME Clean'
        PROVE  /\ page'.ctx # None => session' # None
               /\ \/ ~Stale(s) /\ ~Switching(s) /\ page' = page /\ session' = session
                  \/ Matches(session') /\ Matches(page'.ctx)
    <3>1. CASE how = "ok"
      <4>1. task[s].info # None /\ Matches(task[s].info) /\ Matches(None)
        BY <1>c, <1>i, <1>x, <2>1, <2>4, <3>1 DEF TaskRight, Matches
      <4> QED
        BY <1>b, <2>1, <3>1, <4>1
    <3>2. CASE how = "refused"
      BY <1>c, <1>i, <1>x, <2>1, <2>4, <3>2 DEF Routes, Switching
    <3> QED
      BY <1>n, <1>x, <2>1, <2>4, <3>1, <3>2
  <2> QED
    BY <1>1, <1>2, <1>e, <2>2, <2>3, <2>4, EndSession
<1>4. CASE LoggedOut(s)
  <2>1. PICK how : Answered(s, {"logout"}, how) /\ Noting(how)
                   /\ IF how = "lost" THEN UNCHANGED <<session, page>>
                      ELSE session' = None /\ page' = Unrouted("login")
    BY <1>4 DEF LoggedOut
  <2>2. End(s)
    BY <1>4 DEF LoggedOut
  <2>3. page'.at # "loading" \/ page' = page
    BY <2>1, <1>u
  <2>4. ASSUME Clean'
        PROVE  page'.ctx = None /\ Matches(session') /\ Matches(page'.ctx)
    BY <1>n, <1>u, <2>1, <2>4 DEF Matches
  <2> QED
    BY <1>1, <1>2, <1>e, <2>2, <2>3, <2>4, EndSession
<1>5. CASE Switched(s)
  <2>1. PICK how : Answered(s, {"switch"}, how)
                   /\ IF how = "ok"
                      THEN /\ session' = task[s].info
                           /\ task' = [task EXCEPT ![s].pc = "await", ![s].awaits = Mounted]
                      ELSE End(s) /\ Noting(how) /\ UNCHANGED session
    BY <1>5 DEF Switched
  <2>2. page' = page
    BY <1>5 DEF Switched
  <2>3. CASE how = "ok"
    <3> DEFINE r == [task[s] EXCEPT !.pc = "await", !.awaits = Mounted]
    <3>1. task' = [task EXCEPT ![s] = r] /\ task \in [Slot -> Tasks]
      BY <2>1, <2>3 DEF Base, Shape, TasksOK
    <3>2. r.op = task[s].op /\ r.pc = "await" /\ r.handled = task[s].handled
      BY <1>1 DEF Tasks
    <3> HIDE DEF r
    <3>3. /\ task'[s].op = "switch" /\ task'[s].pc = "await" /\ task'[s].handled
          /\ \A o \in Slot \ {s} : task'[o] = task[o]
      BY <1>x, <2>1, <2>3, <3>1, <3>2
    <3>4. ASSUME Clean' PROVE session' # None /\ Matches(session')
      BY <1>c, <1>i, <1>x, <2>1, <2>3, <3>4 DEF TaskRight
    <3>5. task[s].op = "switch"
      BY <2>1, <1>x
    <3>6. task'[s].op \in Rebinding /\ Switching(s)'
      BY <3>3 DEF Rebinding, Switching
    <3> QED
      BY <1>1, <1>2, <2>2, <3>3, <3>4, <3>5, <3>6, EndSession
  <2>4. CASE how # "ok"
    <3>1. End(s) /\ session' = session
      BY <2>1, <2>4
    <3>2. ASSUME Clean'
          PROVE  (page'.ctx # None => session' # None) /\ ~Stale(s) /\ ~Switching(s)
      BY <1>c, <1>i, <1>n, <1>x, <2>1, <2>2, <2>4, <3>1, <3>2 DEF Routes, Switching
    <3> QED
      BY <1>1, <1>2, <1>e, <2>2, <3>1, <3>2, EndSession
  <2> QED
    BY <2>3, <2>4
<1>6. CASE SwitchEnds(s)
  <2>1. /\ IF Authed THEN page' = Routed(page.at, session) ELSE page' = page
        /\ End(s) /\ session' = session /\ task[s].pc = "await"
    BY <1>6 DEF SwitchEnds, Rerouted
  <2>2. page'.at # "loading"
    BY <1>l, <2>1, RoutedAt
  <2>3. page'.ctx \in {session, None} /\ ~Stale(s)
    BY <2>1, RoutedOK DEF Authed, Stale
  <2>4. page'.ctx # None => session' # None
    BY <2>1, RoutedOK DEF Authed
  <2> QED
    BY <1>1, <1>2, <1>e, <2>1, <2>2, <2>3, <2>4, EndSession
<1>7. CASE Founded(s)
  <2>1. PICK how : Answered(s, {"onboard"}, how) /\ Noting(how)
                   /\ task' = [task EXCEPT ![s] =
                        IF how = "ok" THEN [NoTask EXCEPT !.op = "onboard", !.pc = "session"] ELSE NoTask]
    BY <1>7 DEF Founded
  <2>2. session' = session /\ page' = page
    BY <1>7 DEF Founded
  <2>3. CASE how = "ok"
    <3> DEFINE r == [NoTask EXCEPT !.op = "onboard", !.pc = "session"]
    <3>1. task' = [task EXCEPT ![s] = r] /\ task \in [Slot -> Tasks]
      BY <2>1, <2>3 DEF Base, Shape, TasksOK
    <3>2. r.op = "onboard" /\ r.pc = "session" /\ ~r.handled /\ r.info = None
      BY DEF NoTask
    <3> HIDE DEF r
    <3>3. /\ task'[s].op = "onboard" /\ task'[s].pc = "session" /\ ~task'[s].handled
          /\ task'[s].info = None /\ \A o \in Slot \ {s} : task'[o] = task[o]
      BY <3>1, <3>2
    <3>4. Stale(s)' /\ task'[s].op \in Rebinding /\ task[s].op = "onboard"
      BY <1>x, <2>1, <3>3 DEF Stale, Rebinding
    <3>5. Clean' => (page'.ctx # None => session' # None)
      BY <1>c, <1>i, <2>2 DEF Routes
    <3> QED
      BY <1>1, <1>2, <2>2, <3>3, <3>4, <3>5, EndSession
  <2>4. CASE how # "ok"
    <3>1. End(s)
      BY <2>1, <2>4 DEF End
    <3>2. ASSUME Clean'
          PROVE  (page'.ctx # None => session' # None) /\ ~Stale(s) /\ ~Switching(s)
      BY <1>c, <1>i, <1>n, <1>x, <2>1, <2>2, <2>4, <3>2 DEF Routes, Switching
    <3> QED
      BY <1>1, <1>2, <1>e, <2>2, <3>1, <3>2, EndSession
  <2> QED
    BY <2>3, <2>4
<1>8. CASE Onboarded(s)
  <2>1. PICK how : /\ how \in Answer(s)
                   /\ IF how = "lost" THEN Noting(how) /\ UNCHANGED <<session, page>>
                      ELSE /\ session' = task[s].info
                           /\ \E at \in {"pending", "home"} : page' = Routed(at, task[s].info)
    BY <1>8 DEF Onboarded, Show
  <2>2. End(s) /\ task[s].pc = "session" /\ task[s].op = "onboard"
    BY <1>8 DEF Onboarded
  <2>3. page'.at # "loading" \/ page' = page
    BY <2>1, <1>h
  <2>4. ASSUME Clean'
        PROVE  /\ page'.ctx # None => session' # None
               /\ Matches(session') /\ Matches(page'.ctx)
    <3>1. session' = task[s].info /\ page'.ctx = task[s].info
      BY <1>h, <1>n, <2>1, <2>4
    <3>2. CASE task[s].handled
      BY <1>c, <1>i, <2>2, <2>4, <3>1, <3>2 DEF TaskRight
    <3>3. CASE ~task[s].handled
      BY <3>1, <3>3 DEF InSession, Blank, Matches
    <3> QED
      BY <3>2, <3>3
  <2> QED
    BY <1>1, <1>2, <1>e, <2>2, <2>3, <2>4, EndSession
<1>9. CASE Saved(s) \/ MemberChanged(s)
  <2>1. UNCHANGED <<session, page>> /\ task[s].op \in {"save", "member"}
    BY <1>9 DEF Saved, MemberChanged, Answered
  <2>2. ~Stale(s) /\ ~Switching(s)
    BY <1>1, <2>1 DEF Stale, Switching, Rebinding, TaskOK
  <2>3. Clean' => (page'.ctx # None => session' # None)
    BY <1>c, <1>i, <2>1 DEF Routes
  <2>4. CASE End(s)
    BY <1>1, <1>2, <1>e, <2>1, <2>2, <2>3, <2>4, EndSession
  <2>5. CASE ~End(s)
    <3>1. /\ \A o \in Slot \ {s} : task'[o] = task[o]
          /\ task[s].op = "member" /\ task'[s].op = "member" /\ task'[s].pc = "await"
          /\ task'[s].handled = task[s].handled /\ task'[s].info = task[s].info
      BY <1>9, <2>5, MemberWaits DEF Saved, Base
    <3>2. ~task'[s].handled => task'[s].info = None
      BY <3>1 DEF InSession, Blank
    <3> QED
      BY <1>1, <1>2, <2>1, <2>2, <2>3, <3>1, <3>2, EndSession
  <2> QED
    BY <2>4, <2>5
<1> QED
  BY <1>3, <1>4, <1>5, <1>6, <1>7, <1>8, <1>9 DEF Continues

(* What another user asks for does not touch the sessions.                 *)
LEMMA OthersAsk ==
  ASSUME Base, OtherUser \/ \E s \in Slot : OtherWrites(s)
  PROVE  \A o \in Slot : request'[o] = request[o] \/ request'[o].op \notin {"join", "found"}
<1>1. request \in [Slot -> Requests]
  BY DEF Base, Shape, TypeInv, MembersTypeOK
<1>2. ASSUME NEW s \in Slot, NEW u, NEW t, NEW target, NEW new, UpdateMember(s, u, t, target, new)
      PROVE  \A o \in Slot : request'[o] = request[o] \/ request'[o].op \notin {"join", "found"}
  <2> DEFINE r == [Idle EXCEPT !.op = "member", !.user = u, !.tenant = t, !.target = target, !.role = new]
  <2>1. request' = [request EXCEPT ![s] = r]
    BY <1>2 DEF UpdateMember, Begin
  <2>2. r.op = "member"
    BY DEF Idle
  <2> HIDE DEF r
  <2> QED
    BY <1>1, <2>1, <2>2
<1>3. ASSUME UNCHANGED request
      PROVE  \A o \in Slot : request'[o] = request[o] \/ request'[o].op \notin {"join", "found"}
  BY <1>3
<1>4. ASSUME NEW s \in Slot, OtherWrites(s)
      PROVE  \A o \in Slot : request'[o] = request[o] \/ request'[o].op \notin {"join", "found"}
  <2>1. request' = [request EXCEPT ![s] = Idle] /\ Idle.op = "idle"
    BY <1>4 DEF OtherWrites, WriteMember, Abort, Idle
  <2> QED
    BY <1>1, <2>1
<1> QED
  BY <1>2, <1>3, <1>4 DEF OtherUser, RemoveMember, RevokeInvite, CreateInvite

LEMMA StepSession == SessionInv /\ [Next]_vars => SessionInv'
<1> SUFFICES ASSUME SessionInv, [Next]_vars PROVE InSession'
  BY StepBase DEF SessionInv
<1> USE DEF SessionInv
<1>m. ASSUME session' = IF cookie = None THEN None ELSE sessionInfo(cookie)
      PROVE  Matches(session')
  <2>1. cookie # None => sessionInfo(cookie).user = cookie.user /\ sessionInfo(cookie).tenant = cookie.tenant
    BY InfoOK DEF Base, Shape, Cookies
  <2> QED
    BY <1>m, <2>1 DEF Matches
<1>1. CASE LoadSession
  <2>1. UNCHANGED <<cookie, landed, task, request, mishaps>> /\ page' = Routed("home", session')
    BY <1>1 DEF LoadSession, Show, server, members
  <2>2. page'.ctx = session' /\ page'.at # "loading"
    BY <2>1, RoutedOK, RoutedAt
  <2>3. Matches(session')
    BY <1>1, <1>m DEF LoadSession
  <2>4. Loading' /\ Blank'
    BY <2>1, <2>2 DEF Loading, Blank, InSession
  <2>5. ASSUME Clean
        PROVE  /\ OneRebinds' /\ Current' /\ Routes' /\ \A o \in Slot : TaskRight(o)'
               /\ \A p \in landed' : p[1] = p[2]
    <3>1. Current' /\ Routes'
      BY <2>1, <2>2, <2>3 DEF Current, Routes, Matches
    <3>2. OneRebinds' /\ \A o \in Slot : TaskRight(o)'
      BY <2>1, <2>5 DEF InSession, OneRebinds, TaskRight, Matches
    <3> QED
      BY <2>1, <2>5, <3>1, <3>2 DEF InSession
  <2> QED
    BY <2>1, <2>4, <2>5 DEF InSession, Clean
<1>2. ASSUME NEW k \in DOMAIN fetch, Respond(k) \/ RowsArrive(k)
      PROVE  InSession'
  <2>1. UNCHANGED <<session, cookie, landed, task, request, page, mishaps>>
    BY <1>2 DEF Respond, RowsArrive, server, members
  <2>2. page.at # "loading"
    BY <1>2 DEF InSession, Loading
  <2> QED
    BY <2>1, <2>2, PageSession
<1>3. CASE OtherTab
  <2>1. UNCHANGED <<session, page, fetch, task>> /\ ~Clean'
    BY <1>3 DEF OtherTab, Clean
  <2> QED
    BY <2>1 DEF InSession, Loading, Blank
<1>4. ASSUME OtherUser \/ \E s \in Slot : OtherWrites(s)
      PROVE  InSession'
  <2>1. UNCHANGED <<session, cookie, landed, task, page, fetch, mishaps>>
    BY <1>4 DEF OtherUser, OtherWrites, tab
  <2>2. \A o \in Slot : request'[o] = request[o] \/ request'[o].op \notin {"join", "found"}
    BY <1>4, OthersAsk
  <2>3. Loading' /\ Blank' /\ (Clean' => Clean)
    BY <2>1 DEF Loading, Blank, Clean, InSession
  <2>4. Clean => OneRebinds' /\ Current' /\ Routes' /\ \A p \in landed' : p[1] = p[2]
    BY <2>1 DEF InSession, OneRebinds, Current, Switching, Routes, Matches, Stale
  <2>5. Clean => \A o \in Slot : TaskRight(o)'
    BY <2>1, <2>2 DEF InSession, TaskRight, Matches
  <2> QED
    BY <2>3, <2>4, <2>5 DEF InSession
<1>6. CASE SessionRefetched
  <2>1. /\ UNCHANGED <<cookie, landed, task, request, page, fetch, mishaps>>
        /\ session' = IF cookie = None THEN None ELSE sessionInfo(cookie)
        /\ page.at = "invite" /\ page.ctx = None
    BY <1>6, UnroutedOK DEF SessionRefetched, server, members
  <2>2. Matches(session') /\ Loading' /\ Blank' /\ (Clean' => Clean)
    BY <1>m, <2>1 DEF Loading, Blank, Clean, InSession
  <2>3. Current' /\ Routes'
    BY <2>1, <2>2 DEF Current, Routes, Matches
  <2>4. Clean => /\ OneRebinds' /\ (\A o \in Slot : TaskRight(o)')
                 /\ \A p \in landed' : p[1] = p[2]
    BY <2>1 DEF InSession, OneRebinds, TaskRight, Matches
  <2> QED
    BY <2>2, <2>3, <2>4 DEF InSession
<1>7. ASSUME NEW s \in Slot, HalfSwitched(s)
      PROVE  InSession'
  <2>1. UNCHANGED <<session, page, fetch>> /\ ~Clean' /\ task[s].op # "idle"
        /\ task' = [task EXCEPT ![s] = NoTask]
    BY <1>7 DEF HalfSwitched, Sent, Clean
  <2>2. task'[s] = NoTask /\ \A o \in Slot \ {s} : task'[o] = task[o]
    BY <2>1 DEF Base, Shape, TasksOK
  <2>3. Loading' /\ Blank'
    BY <2>1, <2>2, NoTaskOK DEF Loading, Blank, InSession
  <2> QED
    BY <2>1, <2>3 DEF InSession
<1>5. CASE UNCHANGED vars
  <2>1. UNCHANGED <<session, cookie, landed, task, request, page, fetch, mishaps>>
    BY <1>5 DEF vars, tab, members
  <2> QED
    BY <2>1, PageSession
<1> QED
  BY <1>1, <1>2, <1>3, <1>4, <1>5, <1>6, <1>7, UserSession, HandlerSession, ContinuesSession DEF Next

(* A save lands in the tenant whose page it was made on, though it does    *)
(* not name it, as long as nothing else changes the session meanwhile.     *)
THEOREM SavesLandRight == Spec => []SavesLandWhereShown
<1>1. SessionInv => SavesLandWhereShown
  BY DEF SessionInv, InSession, SavesLandWhereShown, Clean
<1> QED
  BY <1>1, InitSession, StepSession, PTL DEF Spec

-----------------------------------------------------------------------------
(* The rows on the page.                                                   *)

(* Rows of the tenant the session is in, or of none.                       *)
Mine(rows) == rows.tenant \in {cookie.tenant, None}

(* Rows that show the last save the tab was told of.                       *)
NewerThan(saves, k, rows) ==
  rows.tenant # None => rows.rev >= saves[<<rows.tenant, Of(k[1])>>]

Newer(k, rows) == NewerThan(told, k, rows)

Rowed == \A k \in Mounted \ DOMAIN fetch : k \in DOMAIN cache

(* Rows fetched and shown are of the session's tenant, unless a handler    *)
(* has changed it and the tab has not heard of it.                         *)
Heard == \A s \in Slot : ~Stale(s)

FreshRows ==
  /\ cookie # None => \A k \in DOMAIN fetch : fetch[k] # None => Mine(fetch[k])
  /\ \A k \in Mounted \ DOMAIN fetch : Mine(cache[k])

Fresh == mishaps = {} /\ Heard => FreshRows

OwnRows ==
  /\ \A k \in DOMAIN fetch : fetch[k] # None => Newer(k, fetch[k])
  /\ \A k \in Mounted \ DOMAIN fetch : Newer(k, cache[k])

Own == mishaps \cap {"in flight", "left"} = {} => OwnRows

(* The tab is told of saves that were made.                                *)
ToldOK ==
  /\ \A p \in Tenant \X Entity : told[p] <= rev[p]
  /\ \A s \in Slot : task[s].op = "save" /\ task[s].handled =>
       task[s].info.rev <= rev[<<task[s].info.tenant, Page(task[s].arg).saves>>]

PagesInv == SessionInv /\ Rowed /\ Fresh /\ Own /\ ToldOK

LEMMA InitPages == Init => PagesInv
<1> SUFFICES ASSUME Init PROVE PagesInv
  OBVIOUS
<1>1. Mounted = {} /\ DOMAIN fetch = {}
  BY UnroutedOK DEF Init, Mounted
<1>2. \A s \in Slot : task[s].op = "idle"
  BY NoTaskOK DEF Init
<1>3. Rowed /\ Fresh /\ Own
  BY <1>1 DEF Rowed, Fresh, FreshRows, Own, OwnRows
<1>4. ToldOK
  BY <1>2 DEF Init, ToldOK
<1> QED
  BY <1>3, <1>4, InitSession DEF PagesInv

(* Queries are fetched again or for the first time; nothing is shown that  *)
(* was not.                                                                *)
Refetches ==
  /\ cache' = cache /\ DOMAIN fetch \subseteq DOMAIN fetch'
  /\ \A k \in DOMAIN fetch' : fetch'[k] = None \/ (k \in DOMAIN fetch /\ fetch'[k] = fetch[k])
  /\ \A k \in Mounted' \ DOMAIN fetch' : k \in Mounted \ DOMAIN fetch

LEMMA ShowRefetches ==
  /\ \A pg : Show(pg) /\ cache' = cache => Refetches /\ Mounted' \subseteq DOMAIN fetch'
  /\ \A info : Rerouted(info) /\ cache' = cache => Refetches
  /\ \A ks : Invalidated(ks) /\ UNCHANGED <<cache, page>> => Refetches
  /\ UNCHANGED <<cache, fetch, page>> => Refetches
  /\ \A at : page' = Unrouted(at) /\ UNCHANGED <<cache, fetch>> => Refetches
<1>1. ASSUME NEW pg, Show(pg), cache' = cache
      PROVE  Refetches /\ Mounted' \subseteq DOMAIN fetch'
  <2>1. Mounted' = Keys(pg)
    BY <1>1 DEF Show, Mounted, Keys
  <2>2. fetch' = [k \in DOMAIN fetch \cup Keys(pg) |-> IF k \in DOMAIN fetch THEN fetch[k] ELSE None]
    BY <1>1 DEF Show
  <2> QED
    BY <1>1, <2>1, <2>2 DEF Refetches
<1>2. ASSUME NEW info, Rerouted(info), cache' = cache
      PROVE  Refetches
  <2> DEFINE pg == Routed(page.at, info)
             new == Keys(pg) \ Mounted
  <2>1. Mounted' = Keys(pg)
    BY <1>2 DEF Rerouted, Mounted, Keys
  <2>2. fetch' = [k \in DOMAIN fetch \cup new |-> IF k \in DOMAIN fetch THEN fetch[k] ELSE None]
    BY <1>2 DEF Rerouted
  <2>3. \A k \in Mounted' \ new : k \in Mounted
    BY <2>1
  <2> HIDE DEF new
  <2> QED
    BY <1>2, <2>2, <2>3 DEF Refetches
<1>3. ASSUME NEW ks, Invalidated(ks), UNCHANGED <<cache, page>>
      PROVE  Refetches
  <2> DEFINE rs == Restarted(ks)
  <2>1. fetch' = [k \in DOMAIN fetch \cup rs |-> IF k \in rs THEN None ELSE fetch[k]]
    BY <1>3 DEF Invalidated
  <2>2. Mounted' = Mounted
    BY <1>3 DEF Mounted, Keys
  <2> HIDE DEF rs
  <2> QED
    BY <1>3, <2>1, <2>2 DEF Refetches
<1>4. ASSUME UNCHANGED <<cache, fetch, page>>
      PROVE  Refetches
  <2>1. Mounted' = Mounted
    BY <1>4 DEF Mounted, Keys
  <2> QED
    BY <1>4, <2>1 DEF Refetches
<1>5. ASSUME NEW at, page' = Unrouted(at), UNCHANGED <<cache, fetch>>
      PROVE  Refetches
  <2>1. Mounted' = {}
    BY <1>5, UnroutedOK DEF Mounted, Keys
  <2> QED
    BY <1>5, <2>1 DEF Refetches
<1> QED
  BY <1>1, <1>2, <1>3, <1>4, <1>5

LEMMA StepRefetches ==
  [Next]_vars => Refetches \/ \E k \in DOMAIN fetch : Respond(k) \/ RowsArrive(k)
<1>1. ASSUME LoadSession \/ SessionRefetched \/ UserActs \/ OtherTab \/ OtherUser
               \/ \E s \in Slot : HalfSwitched(s) \/ OtherWrites(s)
      PROVE  Refetches
  <2>1. \/ \E pg : Show(pg) /\ cache' = cache
        \/ UNCHANGED <<cache, fetch, page>>
        \/ \E at : page' = Unrouted(at) /\ UNCHANGED <<cache, fetch>>
    BY <1>1 DEF LoadSession, SessionRefetched, UserActs, OtherTab, OtherUser, HalfSwitched,
                OtherWrites, LoginForm, OnboardingWizard, Logout, SwitchTenant, InvitePage, SaveForm,
                ChangeMember, OpenPage, OpenInvite, LoginFirst, Start, tab
  <2> QED
    BY <2>1, ShowRefetches
<1>2. ASSUME NEW s \in Slot, Handles(s)
      PROVE  Refetches
  <2>1. UNCHANGED <<cache, fetch, page>>
    BY <1>2 DEF Handles, Login, DeleteSession, SetActiveTenant, LookupInvite, JoinTenant, BeginTenant,
                FoundTenant, GetSession, Save, BeginMember, EndMember, GiveUp, client
  <2> QED
    BY <2>1, ShowRefetches
<1>3. ASSUME NEW s \in Slot, Continues(s)
      PROVE  Refetches
  <2>1. \/ \E pg : Show(pg) /\ cache' = cache
        \/ \E info : Rerouted(info) /\ cache' = cache
        \/ \E ks : Invalidated(ks) /\ UNCHANGED <<cache, page>>
        \/ UNCHANGED <<cache, fetch, page>>
        \/ \E at : page' = Unrouted(at) /\ UNCHANGED <<cache, fetch>>
    <3>1. CASE Entered(s) \/ LoggedOut(s) \/ SwitchEnds(s) \/ Onboarded(s)
      BY <3>1 DEF Entered, LoggedOut, SwitchEnds, Onboarded
    <3>2. CASE Switched(s) \/ Founded(s) \/ Saved(s)
      BY <3>2 DEF Switched, Founded, Saved
    <3>3. CASE MemberChanged(s)
      BY <3>3 DEF MemberChanged
    <3> QED
      BY <1>3, <3>1, <3>2, <3>3 DEF Continues
  <2> QED
    BY <2>1, ShowRefetches
<1>4. UNCHANGED vars => Refetches
  BY ShowRefetches DEF vars, tab
<1> QED
  BY <1>1, <1>2, <1>3, <1>4 DEF Next

LEMMA StepRowed == Rowed /\ [Next]_vars => Rowed'
<1> SUFFICES ASSUME Rowed, [Next]_vars PROVE Rowed'
  OBVIOUS
<1>1. CASE Refetches
  BY <1>1 DEF Refetches, Rowed
<1>2. ASSUME NEW k \in DOMAIN fetch, Respond(k)
      PROVE  Rowed'
  <2>1. DOMAIN fetch' = DOMAIN fetch /\ cache' = cache /\ page' = page
    BY <1>2 DEF Respond
  <2>2. Mounted' = Mounted
    BY <2>1 DEF Mounted, Keys
  <2> QED
    BY <2>1, <2>2 DEF Rowed
<1>3. ASSUME NEW k \in DOMAIN fetch, RowsArrive(k)
      PROVE  Rowed'
  <2>1. DOMAIN fetch' = DOMAIN fetch \ {k} /\ DOMAIN cache' = DOMAIN cache \cup {k} /\ page' = page
    BY <1>3 DEF RowsArrive, Restrict
  <2>2. Mounted' = Mounted
    BY <2>1 DEF Mounted, Keys
  <2> QED
    BY <2>1, <2>2 DEF Rowed
<1> QED
  BY <1>1, <1>2, <1>3, StepRefetches

(* No save is made, and the tab is told of none.                           *)
NoSave ==
  /\ UNCHANGED <<rev, told>>
  /\ \A o \in Slot : task'[o].op = "save" /\ task'[o].handled => task'[o] = task[o]

LEMMA UserTold ==
  ASSUME Base, UserActs \/ OtherTab \/ OtherUser \/ LoadSession \/ SessionRefetched
  PROVE  NoSave
<1> USE DEF Base
<1>1. ASSUME NEW op \in Op \ {"idle"}, NEW arg \in Args, Start(op, arg)
      PROVE  NoSave
  BY <1>1, Starting DEF StartedAt, NoSave, Start, server
<1>2. CASE LoginForm \/ OnboardingWizard \/ Logout \/ SwitchTenant \/ InvitePage
  <2>1. CASE LoginForm
    <3>1. PICK c \in Credentials : Start("login", c)
      BY <2>1 DEF LoginForm, Credentials
    <3> QED
      BY <1>1, <3>1 DEF Op, Args
  <2>2. CASE ~LoginForm
    <3>1. \E op \in Op \ {"idle"}, arg \in Args : Start(op, arg)
      BY <1>2, <2>2 DEF OnboardingWizard, Logout, SwitchTenant, InvitePage, Op, Args
    <3> QED
      BY <1>1, <3>1
  <2> QED
    BY <2>1, <2>2
<1>3. CASE SaveForm
  <2>1. Start("save", page.at) /\ page.at \in Args
    BY <1>3, FormsSave DEF SaveForm, Args
  <2> QED
    BY <1>1, <2>1 DEF Op
<1>4. CASE ChangeMember
  <2>1. PICK c \in Change : Start("member", c)
    BY <1>4 DEF ChangeMember, Change
  <2> QED
    BY <1>1, <2>1 DEF Op, Args
<1>5. CASE OpenPage \/ OpenInvite \/ LoginFirst \/ OtherTab \/ OtherUser \/ LoadSession \/ SessionRefetched
  BY <1>5 DEF OpenPage, OpenInvite, LoginFirst, OtherTab, OtherUser, LoadSession, SessionRefetched,
              server, tab, NoSave
<1> QED
  BY <1>2, <1>3, <1>4, <1>5 DEF UserActs

LEMMA HandlerTold ==
  ASSUME Base, NEW s \in Slot, Handles(s)
  PROVE  NoSave \/ Save(s)
<1>1. task \in [Slot -> Tasks]
  BY DEF Base, Shape, TasksOK
<1>2. ASSUME NEW info, Answering(s, info), UNCHANGED <<rev, told>>, task[s].op # "save"
      PROVE  NoSave
  <2>1. task[s] \in Tasks
    BY <1>1
  <2> DEFINE r == [task[s] EXCEPT !.handled = TRUE, !.info = info]
  <2>2. task' = [task EXCEPT ![s] = r]
    BY <1>1, <1>2 DEF Answering
  <2>3. r.op # "save"
    BY <1>2, <2>1 DEF Tasks
  <2> HIDE DEF r
  <2> QED
    BY <1>1, <1>2, <2>2, <2>3 DEF NoSave
<1>3. CASE Login(s) \/ DeleteSession(s) \/ SetActiveTenant(s) \/ JoinTenant(s) \/ FoundTenant(s)
             \/ GetSession(s) \/ EndMember(s)
  BY <1>2, <1>3 DEF Login, DeleteSession, SetActiveTenant, JoinTenant, FoundTenant, GetSession,
                    EndMember, Sent, client, server
<1>4. CASE LookupInvite(s) \/ BeginTenant(s) \/ BeginMember(s) \/ GiveUp(s)
  BY <1>4 DEF LookupInvite, BeginTenant, BeginMember, GiveUp, client, NoSave
<1> QED
  BY <1>3, <1>4 DEF Handles

(* An answer to a save: the tab is told of it, and fetches again what the  *)
(* page invalidates.                                                       *)
Invalidates(s) == {k \in AllKeys : k[1] \in Page(task[s].arg).invalidates}

Affected(s) == {k \in AllKeys : Of(k[1]) = Page(task[s].arg).saves}

SavedOK(s) ==
  /\ Invalidated(Invalidates(s))
  /\ mishaps' = mishaps \cup InFlight(Affected(s) \ Restarted(Invalidates(s)))
                       \cup IF page.at = task[s].arg THEN {} ELSE {"left"}
  /\ told' = [told EXCEPT ![<<task[s].info.tenant, Page(task[s].arg).saves>>] =
                IF @ < task[s].info.rev THEN task[s].info.rev ELSE @]

IsTold(s) ==
  /\ task[s].op = "save" /\ task[s].handled /\ End(s) /\ UNCHANGED <<rev, page, cache>>
  /\ SavedOK(s)

LEMMA ContinuesTold ==
  ASSUME Base, NEW s \in Slot, Continues(s)
  PROVE  NoSave \/ IsTold(s)
<1>1. task \in [Slot -> Tasks]
  BY DEF Base, Shape, TasksOK
<1>2. ASSUME End(s), UNCHANGED <<rev, told>>
      PROVE  NoSave
  BY <1>1, <1>2, NoTaskOK DEF End, NoSave
<1>3. CASE Saved(s)
  <2>1. PICK how : Answered(s, {"save"}, how) /\ (how # "ok" => told' = told) /\ (how = "ok" => SavedOK(s))
    BY <1>3 DEF Saved, SavedOK, Invalidates, Affected
  <2>2. task[s].op = "save" /\ (how = "ok" => task[s].handled)
    BY <2>1, AnsweredOK DEF Base
  <2>3. End(s) /\ UNCHANGED <<rev, page, cache>>
    BY <1>3 DEF Saved, server
  <2> QED
    BY <1>2, <2>1, <2>2, <2>3 DEF IsTold
<1>4. CASE Switched(s)
  <2>1. UNCHANGED <<rev, told>> /\ task[s].op = "switch"
    BY <1>4 DEF Switched, server, Answered
  <2> DEFINE r == [task[s] EXCEPT !.pc = "await", !.awaits = Mounted]
  <2>2. End(s) \/ task' = [task EXCEPT ![s] = r]
    BY <1>1, <1>4 DEF Switched
  <2>3. r.op # "save"
    BY <1>1, <2>1 DEF Tasks
  <2> HIDE DEF r
  <2> QED
    BY <1>1, <1>2, <2>1, <2>2, <2>3 DEF NoSave
<1>5. CASE Founded(s)
  <2>1. PICK how :
          task' = [task EXCEPT ![s] =
            IF how = "ok" THEN [NoTask EXCEPT !.op = "onboard", !.pc = "session"] ELSE NoTask]
    BY <1>5 DEF Founded
  <2> DEFINE n == IF how = "ok" THEN [NoTask EXCEPT !.op = "onboard", !.pc = "session"] ELSE NoTask
  <2>2. n.op # "save" /\ task' = [task EXCEPT ![s] = n]
    BY <2>1, NoTaskOK DEF Tasks
  <2>3. UNCHANGED <<rev, told>>
    BY <1>5 DEF Founded, server
  <2> HIDE DEF n
  <2> QED
    BY <1>1, <2>2, <2>3 DEF NoSave
<1>6. CASE Entered(s) \/ LoggedOut(s) \/ SwitchEnds(s) \/ Onboarded(s)
  BY <1>2, <1>6 DEF Entered, LoggedOut, SwitchEnds, Onboarded, server
<1>7. CASE MemberChanged(s)
  <2>1. UNCHANGED <<rev, told>>
    BY <1>7 DEF MemberChanged, server
  <2>2. CASE End(s)
    BY <1>2, <2>1, <2>2
  <2>3. CASE ~End(s)
    <3>1. task'[s].op = "member" /\ \A o \in Slot \ {s} : task'[o] = task[o]
      BY <1>7, <2>3, MemberWaits DEF Base
    <3> QED
      BY <2>1, <3>1 DEF NoSave
  <2> QED
    BY <2>2, <2>3
<1> QED
  BY <1>3, <1>4, <1>5, <1>6, <1>7 DEF Continues

LEMMA StepTells ==
  Base /\ [Next]_vars =>
    NoSave \/ \E s \in Slot : Save(s) \/ IsTold(s)
<1>1. UNCHANGED vars => NoSave
  BY DEF vars, tab, NoSave
<1>2. (\E k \in DOMAIN fetch : Respond(k) \/ RowsArrive(k)) => NoSave
  BY DEF Respond, RowsArrive, server, NoSave
<1>3. ASSUME Base, NEW s \in Slot, HalfSwitched(s) \/ OtherWrites(s)
      PROVE  NoSave
  <2>1. UNCHANGED <<rev, told>> /\ (task' = task \/ task' = [task EXCEPT ![s] = NoTask])
    BY <1>3 DEF HalfSwitched, OtherWrites, tab
  <2> QED
    BY <1>3, <2>1, NoTaskOK DEF NoSave, Base, Shape, TasksOK
<1> QED
  BY <1>1, <1>2, <1>3, UserTold, HandlerTold, ContinuesTold DEF Next

LEMMA StepTold == Base /\ ToldOK /\ [Next]_vars => ToldOK'
<1> SUFFICES ASSUME Base, ToldOK, [Next]_vars PROVE ToldOK'
  OBVIOUS
<1>1. /\ task \in [Slot -> Tasks] /\ rev \in [Tenant \X Entity -> Nat]
      /\ told \in [Tenant \X Entity -> Nat]
  BY DEF Base, Shape, TasksOK
<1>k. ASSUME NEW o \in Slot, task[o].op = "save", task[o].handled
      PROVE  /\ task[o].info.rev \in Nat
             /\ <<task[o].info.tenant, Page(task[o].arg).saves>> \in Tenant \X Entity
  BY <1>k, PagesAreOK DEF Base, Shape, TasksOK, TaskOK, SaveInfo, PageOK
<1>2. CASE NoSave
  BY <1>2 DEF NoSave, ToldOK
<1>3. ASSUME NEW s \in Slot, Save(s)
      PROVE  ToldOK'
  <2> DEFINE key == <<cookie.tenant, Page(task[s].arg).saves>>
             info == [tenant |-> cookie.tenant, rev |-> rev'[key]]
  <2>1. /\ rev' = [rev EXCEPT ![key] = @ + 1] /\ Answering(s, info) /\ told' = told
        /\ cookie # None /\ cookie.tenant # None /\ task[s].op = "save"
    BY <1>3 DEF Save, client, Sent
  <2>2. key \in Tenant \X Entity /\ info.tenant = cookie.tenant /\ info.rev = rev'[key]
    BY <2>1, PagesAreOK DEF Base, Shape, Cookies, Sessions, PageOK
  <2> HIDE DEF info
  <2>3. /\ task'[s].info = info /\ task'[s].arg = task[s].arg /\ task'[s].op = task[s].op
        /\ \A o \in Slot \ {s} : task'[o] = task[o]
    <3> DEFINE r == [task[s] EXCEPT !.handled = TRUE, !.info = info]
    <3>1. task' = [task EXCEPT ![s] = r]
      BY <1>1, <2>1 DEF Answering
    <3>2. r.info = info /\ r.arg = task[s].arg /\ r.op = task[s].op
      BY <1>1 DEF Tasks
    <3> HIDE DEF r
    <3> QED
      BY <1>1, <3>1, <3>2
  <2>6. \A p \in Tenant \X Entity : told[p] \in Nat /\ rev[p] \in Nat /\ rev'[p] \in Nat /\ rev[p] <= rev'[p]
    <3> HIDE DEF key
    <3> QED
      BY <1>1, <2>1
  <2>7. \A p \in Tenant \X Entity : told'[p] <= rev'[p]
    BY <2>1, <2>6 DEF ToldOK
  <2>8. task'[s].info.rev <= rev'[<<task'[s].info.tenant, Page(task'[s].arg).saves>>]
    BY <2>2, <2>3, <2>6
  <2>9. ASSUME NEW o \in Slot \ {s}, task'[o].op = "save", task'[o].handled
        PROVE  task'[o].info.rev <= rev'[<<task'[o].info.tenant, Page(task'[o].arg).saves>>]
    <3> DEFINE at == <<task[o].info.tenant, Page(task[o].arg).saves>>
    <3>1. task'[o] = task[o] /\ task[o].info.rev <= rev[at]
      BY <2>3, <2>9 DEF ToldOK
    <3>2. task[o].info.rev \in Nat /\ at \in Tenant \X Entity
      BY <1>k, <2>9, <3>1
    <3> HIDE DEF at
    <3>3. task[o].info.rev <= rev'[at]
      BY <2>6, <3>1, <3>2
    <3> QED
      BY <3>1, <3>3 DEF at
  <2> QED
    BY <2>7, <2>8, <2>9 DEF ToldOK
<1>4. ASSUME NEW s \in Slot, IsTold(s)
      PROVE  ToldOK'
  <2> DEFINE key == <<task[s].info.tenant, Page(task[s].arg).saves>>
  <2>1. /\ task[s].info.rev <= rev[key] /\ rev' = rev
        /\ told' = [told EXCEPT ![key] = IF @ < task[s].info.rev THEN task[s].info.rev ELSE @]
    BY <1>4 DEF IsTold, SavedOK, ToldOK
  <2>2. task[s].info.rev \in Nat /\ key \in Tenant \X Entity
    BY <1>4, <1>k DEF IsTold
  <2> HIDE DEF key
  <2>3. \A p \in Tenant \X Entity : told'[p] <= rev'[p]
    BY <1>1, <2>1, <2>2 DEF ToldOK
  <2>4. \A o \in Slot : task'[o].op = "save" => task'[o] = task[o]
    BY <1>1, <1>4, NoTaskOK DEF IsTold, End
  <2> QED
    BY <2>1, <2>3, <2>4 DEF ToldOK
<1> QED
  BY <1>2, <1>3, <1>4, StepTells

(* The queries of the record that was saved are asked for anew then.       *)
LEMMA ToldRefetches ==
  ASSUME Base, NEW s \in Slot, IsTold(s), mishaps' \cap {"in flight", "left"} = {}
  PROVE  \A k : Of(k[1]) = Page(task[s].arg).saves =>
           /\ k \in DOMAIN fetch => fetch'[k] = None
           /\ k \in Mounted => k \in DOMAIN fetch'
<1> DEFINE p == Page(task[s].arg)
           rs == Restarted(Invalidates(s))
<1>1. p.saves # "none" /\ PageOK(p)
  BY PagesAreOK DEF Base, Shape, TasksOK, TaskOK, IsTold
<1>2. Mounted \subseteq AllKeys /\ DOMAIN fetch \subseteq AllKeys
  BY DEF AllKeys
<1>3. \A k \in Mounted : k[1] \in Page(page.at).reads
  <2> DEFINE pg == Page(page.at)
  <2>1. Mounted = IF page.ctx = None THEN {} ELSE
                    {<<x, IF pg.keyed THEN page.ctx.tenant ELSE None>> : x \in pg.reads}
    BY DEF Mounted, Keys
  <2> HIDE DEF pg
  <2>2. ASSUME NEW k \in Mounted
        PROVE  k[1] \in pg.reads
    <3>1. PICK x \in pg.reads, y \in {page.ctx.tenant, None} : k = <<x, y>>
      BY <2>1, <2>2
    <3>2. <<x, y>>[1] = x
      OBVIOUS
    <3> QED
      BY <3>1, <3>2
  <2> QED
    BY <2>2 DEF pg
<1>4. page.at = task[s].arg /\ DOMAIN fetch \cap (Affected(s) \ rs) = {}
  BY DEF IsTold, SavedOK, InFlight
<1>5. fetch' = [k \in DOMAIN fetch \cup rs |-> IF k \in rs THEN None ELSE fetch[k]]
  BY DEF IsTold, SavedOK, Invalidated
<1>6. ASSUME NEW k \in DOMAIN fetch, Of(k[1]) = p.saves
      PROVE  k \in rs
  <2>1. k \in Affected(s)
    BY <1>2, <1>6 DEF Affected
  <2> HIDE DEF rs
  <2> QED
    BY <1>4, <2>1
<1>7. ASSUME NEW k \in Mounted \ DOMAIN fetch, Of(k[1]) = p.saves
      PROVE  k \in rs
  <2>1. k[1] \in p.invalidates
    BY <1>1, <1>3, <1>4, <1>7 DEF PageOK
  <2>2. k \in Invalidates(s)
    BY <1>2, <2>1 DEF Invalidates
  <2> QED
    BY <1>7, <2>2 DEF Restarted
<1> HIDE DEF rs
<1> QED
  BY <1>5, <1>6, <1>7

LEMMA ToldRev ==
  ASSUME Base, ToldOK
  PROVE  \A p \in Tenant \X Entity : rev[p] >= told[p]
<1>1. told \in [Tenant \X Entity -> Nat] /\ rev \in [Tenant \X Entity -> Nat]
  BY DEF Base, Shape
<1>2. \A p \in Tenant \X Entity : told[p] <= rev[p]
  BY DEF ToldOK
<1> QED
  BY <1>1, <1>2

(* Rows that are shown are as new as the last save of their record the tab *)
(* was told of: rows on their way were read after it.                      *)
LEMMA StepOwn == Base /\ Rowed /\ ToldOK /\ Own /\ [Next]_vars => Own'
<1> SUFFICES ASSUME Base, Rowed, ToldOK, Own, [Next]_vars,
                    mishaps' \cap {"in flight", "left"} = {}
             PROVE  OwnRows'
  BY DEF Own
<1>1. OwnRows
  <2>1. mishaps \subseteq mishaps'
    BY MishapsGrow DEF vars, tab
  <2> QED
    BY <2>1 DEF Own
<1>2. CASE Refetches /\ told' = told
  BY <1>1, <1>2 DEF OwnRows, Refetches, Newer
<1>3. ASSUME NEW s \in Slot, IsTold(s)
      PROVE  OwnRows'
  <2> DEFINE e == Page(task[s].arg).saves
  <2>1. \A k : Of(k[1]) = e => /\ k \in DOMAIN fetch => fetch'[k] = None
                               /\ k \in Mounted => k \in DOMAIN fetch'
    BY <1>3, ToldRefetches
  <2>2. Refetches
    BY <1>3, ShowRefetches DEF IsTold, SavedOK
  <2>3. Mounted' = Mounted
    BY <1>3 DEF IsTold, Mounted, Keys
  <2>4. \A k : \A t \in Tenant : Of(k[1]) # e => told'[<<t, Of(k[1])>>] = told[<<t, Of(k[1])>>]
    <3> DEFINE new == IF told[<<task[s].info.tenant, e>>] < task[s].info.rev
                      THEN task[s].info.rev ELSE told[<<task[s].info.tenant, e>>]
    <3>1. told' = [told EXCEPT ![<<task[s].info.tenant, e>>] = new]
      BY <1>3 DEF IsTold, SavedOK, Base, Shape
    <3> HIDE DEF e, new
    <3>2. ASSUME NEW k, NEW t \in Tenant, Of(k[1]) # e
          PROVE  told'[<<t, Of(k[1])>>] = told[<<t, Of(k[1])>>]
      <4>1. <<t, Of(k[1])>> # <<task[s].info.tenant, e>> /\ <<t, Of(k[1])>> \in Tenant \X Entity
        BY <3>2, OfIsEntity
      <4> QED
        BY <3>1, <4>1 DEF Base, Shape
    <3> QED
      BY <3>2
  <2>5. /\ \A k \in DOMAIN fetch : fetch[k] # None => fetch[k].tenant \in Tenant \cup {None}
        /\ \A k \in Mounted \ DOMAIN fetch : cache[k].tenant \in Tenant \cup {None}
    BY DEF Rowed, Base, Shape, Rows
  <2>6. \A k, rows :
          /\ Of(k[1]) # e /\ rows.tenant \in Tenant \cup {None} /\ NewerThan(told, k, rows)
          => NewerThan(told', k, rows)
    BY <2>4 DEF NewerThan
  <2> HIDE DEF e
  <2> QED
    BY <1>1, <2>1, <2>2, <2>3, <2>5, <2>6 DEF OwnRows, Refetches, Newer
<1>4. ASSUME NEW k \in DOMAIN fetch, Respond(k)
      PROVE  OwnRows'
  <2>1. UNCHANGED <<page, cache, told>> /\ DOMAIN fetch' = DOMAIN fetch
    BY <1>4 DEF Respond
  <2>2. Mounted' = Mounted
    BY <2>1 DEF Mounted, Keys
  <2>3. \A j \in DOMAIN fetch \ {k} : fetch'[j] = fetch[j]
    BY <1>4 DEF Respond
  <2>4. Newer(k, fetch'[k])
    <3> DEFINE at == <<cookie.tenant, Of(k[1])>>
    <3>1. CASE cookie # None /\ cookie.tenant # None /\ requireTenant(cookie.user, cookie.tenant)
      <4>1. fetch'[k].tenant = cookie.tenant /\ fetch'[k].rev = rev[at]
        BY <1>4, <3>1 DEF Respond
      <4>2. at \in Tenant \X Entity
        BY <3>1, OfIsEntity DEF Base, Shape, Cookies, Sessions
      <4> HIDE DEF at
      <4>3. rev[at] >= told[at]
        BY <4>2, ToldRev
      <4> QED
        BY <4>1, <4>3 DEF Newer, NewerThan, at
    <3>2. CASE ~(cookie # None /\ cookie.tenant # None /\ requireTenant(cookie.user, cookie.tenant))
      <4>1. fetch'[k].tenant = None
        BY <1>4, <3>2 DEF Respond
      <4> QED
        BY <4>1 DEF Newer, NewerThan
    <3> QED
      BY <3>1, <3>2
  <2> QED
    BY <1>1, <2>1, <2>2, <2>3, <2>4 DEF OwnRows, Newer
<1>5. ASSUME NEW k \in DOMAIN fetch, RowsArrive(k)
      PROVE  OwnRows'
  <2>1. /\ UNCHANGED <<page, told>> /\ DOMAIN fetch' = DOMAIN fetch \ {k} /\ fetch[k] # None
        /\ \A j \in DOMAIN fetch' : fetch'[j] = fetch[j]
    BY <1>5 DEF RowsArrive, Restrict
  <2>2. Mounted' = Mounted
    BY <2>1 DEF Mounted, Keys
  <2>3. cache'[k] = fetch[k] /\ \A j \in DOMAIN cache \ {k} : cache'[j] = cache[j]
    BY <1>5 DEF RowsArrive
  <2> QED
    BY <1>1, <2>1, <2>2, <2>3 DEF OwnRows, Newer, Rowed
<1>6. [Next]_vars => told' = told \/ \E s \in Slot : IsTold(s)
  BY StepTells DEF NoSave, Save, client
<1> QED
  BY <1>2, <1>3, <1>4, <1>5, <1>6, StepRefetches

(* Nothing but what was right is shown.                                    *)
LEMMA KeptFresh ==
  ASSUME FreshRows, Refetches, cookie' = cookie
  PROVE  FreshRows'
BY DEF FreshRows, Refetches, Mine

(* Everything is asked for anew.                                           *)
Renewed == (\A k \in DOMAIN fetch' : fetch'[k] = None) /\ Mounted' \subseteq DOMAIN fetch'

LEMMA RenewedFresh == Renewed => FreshRows'
BY DEF Renewed, FreshRows

LEMMA ShowRenews ==
  ASSUME NEW pg, Show(pg), cache' = cache, DOMAIN fetch = {}
  PROVE  Renewed
BY ShowRefetches DEF Show, Renewed

(* One handler moves, and the tab had heard of it before.                  *)
LEMMA HeardBefore ==
  ASSUME NEW s \in Slot, \A o \in Slot \ {s} : task'[o] = task[o], ~Stale(s), Heard'
  PROVE  Heard
BY DEF Heard, Stale

LEMMA UserFresh ==
  ASSUME Base, UserActs, Heard'
  PROVE  Heard /\ cookie' = cookie /\ session' = session
<1> USE DEF Base
<1>1. ASSUME NEW op \in Op \ {"idle"}, NEW arg \in Args, Start(op, arg)
      PROVE  Heard /\ cookie' = cookie /\ session' = session
  <2>1. PICK s \in Slot : StartedAt(s, op, arg)
    BY <1>1, Starting
  <2>2. ~Stale(s)
    BY <2>1 DEF StartedAt, Stale, Rebinding
  <2> QED
    BY <1>1, <2>1, <2>2, HeardBefore DEF StartedAt, Start, server
<1>2. CASE LoginForm \/ OnboardingWizard \/ Logout \/ SwitchTenant \/ InvitePage
  <2>1. CASE LoginForm
    <3>1. PICK c \in Credentials : Start("login", c)
      BY <2>1 DEF LoginForm, Credentials
    <3> QED
      BY <1>1, <3>1 DEF Op, Args
  <2>2. CASE ~LoginForm
    <3>1. \E op \in Op \ {"idle"}, arg \in Args : Start(op, arg)
      BY <1>2, <2>2 DEF OnboardingWizard, Logout, SwitchTenant, InvitePage, Op, Args
    <3> QED
      BY <1>1, <3>1
  <2> QED
    BY <2>1, <2>2
<1>3. CASE SaveForm
  <2>1. Start("save", page.at) /\ page.at \in Args
    BY <1>3, FormsSave DEF SaveForm, Args
  <2> QED
    BY <1>1, <2>1 DEF Op
<1>4. CASE ChangeMember
  <2>1. PICK c \in Change : Start("member", c)
    BY <1>4 DEF ChangeMember, Change
  <2> QED
    BY <1>1, <2>1 DEF Op, Args
<1>5. CASE OpenPage \/ OpenInvite \/ LoginFirst
  BY <1>5 DEF OpenPage, OpenInvite, LoginFirst, server, Heard, Stale
<1> QED
  BY <1>2, <1>3, <1>4, <1>5 DEF UserActs

(* A handler that changes the cookie has changed what the tab knows not.   *)
LEMMA HandlerFresh ==
  ASSUME Base, NEW s \in Slot, Handles(s), Heard'
  PROVE  Heard /\ cookie' = cookie /\ session' = session
<1>1. task \in [Slot -> Tasks]
  BY DEF Base, Shape, TasksOK
<1>2. ASSUME NEW info, Answering(s, info)
      PROVE  /\ task'[s].handled /\ task'[s].op = task[s].op /\ task'[s].pc = task[s].pc
             /\ \A o \in Slot \ {s} : task'[o] = task[o]
  <2>1. task[s] \in Tasks
    BY <1>1
  <2> DEFINE r == [task[s] EXCEPT !.handled = TRUE, !.info = info]
  <2>2. task' = [task EXCEPT ![s] = r]
    BY <1>1, <1>2 DEF Answering
  <2>3. r.handled /\ r.op = task[s].op /\ r.pc = task[s].pc
    BY <2>1 DEF Tasks
  <2> HIDE DEF r
  <2> QED
    BY <1>1, <2>2, <2>3
<1>3. CASE Login(s) \/ DeleteSession(s) \/ SetActiveTenant(s) \/ JoinTenant(s) \/ FoundTenant(s)
             \/ GetSession(s)
  <2>1. /\ task[s].op \in Rebinding /\ task[s].pc \in {"sent", "session"}
        /\ \E info : Answering(s, info)
    <3>1. CASE Login(s) \/ DeleteSession(s) \/ SetActiveTenant(s) \/ GetSession(s)
      BY <3>1 DEF Login, DeleteSession, SetActiveTenant, GetSession, Sent, Rebinding
    <3>2. CASE JoinTenant(s)
      <4>1. request[s] # Idle
        BY <3>2 DEF JoinTenant, Join, Idle
      <4> QED
        BY <3>2, <4>1 DEF JoinTenant, Base, RequestsOwned, Rebinding
    <3>3. CASE FoundTenant(s)
      <4>1. request[s] # Idle
        BY <3>3 DEF FoundTenant, InsertTenant, Idle
      <4> QED
        BY <3>3, <4>1 DEF FoundTenant, Base, RequestsOwned, Rebinding
    <3> QED
      BY <1>3, <3>1, <3>2, <3>3
  <2>2. Stale(s)'
    BY <1>2, <2>1 DEF Stale
  <2> QED
    BY <2>2 DEF Heard
<1>4. CASE Save(s) \/ EndMember(s)
  <2>1. task[s].op \in {"save", "member"} /\ \E info : Answering(s, info)
    BY <1>4 DEF Save, EndMember, Sent
  <2>2. ~Stale(s)
    BY <2>1 DEF Stale, Rebinding, Base, Shape, TasksOK, TaskOK
  <2> QED
    BY <1>2, <1>4, <2>1, <2>2, HeardBefore DEF Save, EndMember, client
<1>5. CASE LookupInvite(s) \/ BeginTenant(s) \/ BeginMember(s) \/ GiveUp(s)
  BY <1>5 DEF LookupInvite, BeginTenant, BeginMember, GiveUp, client, Heard, Stale
<1> QED
  BY <1>3, <1>4, <1>5 DEF Handles

LEMMA ContinuesFresh ==
  ASSUME SessionInv, NEW s \in Slot, Continues(s), Heard', mishaps' = {}, mishaps = {}
  PROVE  \/ Renewed \/ FreshRows'
         \/ Heard /\ Refetches /\ cookie' = cookie
<1> USE DEF SessionInv
<1>0. Base /\ Shape /\ TaskOK(task[s])
  BY DEF Base, Shape, TasksOK
<1>c. cookie' = cookie
  BY DEF Continues, Entered, LoggedOut, Switched, SwitchEnds, Founded, Onboarded, Saved,
         MemberChanged, server
<1>e. ASSUME End(s), ~Stale(s)
      PROVE  Heard
  BY <1>0, <1>e, Ending, HeardBefore
<1>a. \A ks : InFlight(ks) = {} => DOMAIN fetch \cap ks = {}
  BY DEF InFlight
<1>f. InFlight(AllKeys) = {} => DOMAIN fetch = {}
  BY <1>a DEF AllKeys
<1>n. \A how : Noting(how) => how # "lost"
  BY DEF Noting
<1>m. \A ks : mishaps' = mishaps \cup InFlight(ks) => InFlight(ks) = {}
  OBVIOUS
<1>1. CASE Entered(s)
  <2>1. PICK how : /\ Answered(s, {"login", "accept"}, how)
                   /\ IF how = "ok"
                      THEN /\ session' = task[s].info /\ Show(Landing(s))
                           /\ mishaps' = mishaps \cup InFlight(AllKeys)
                      ELSE Noting(how) /\ UNCHANGED <<session, page, fetch>>
    BY <1>1 DEF Entered
  <2>2. End(s) /\ cache' = cache
    BY <1>1 DEF Entered
  <2>3. CASE how = "ok"
    <3>1. DOMAIN fetch = {}
      BY <1>f, <1>m, <2>1, <2>3
    <3> QED
      BY <2>1, <2>2, <2>3, <3>1, ShowRenews
  <2>4. CASE how # "ok"
    <3>1. ~task[s].handled /\ task[s].pc = "sent"
      BY <1>n, <2>1, <2>4 DEF Answered, Answer
    <3>2. Heard
      BY <1>e, <2>2, <3>1 DEF Stale
    <3> QED
      BY <1>c, <2>1, <2>2, <2>4, <3>2, ShowRefetches
  <2> QED
    BY <2>3, <2>4
<1>2. CASE LoggedOut(s)
  <2>1. PICK how : /\ Answered(s, {"logout"}, how) /\ Noting(how)
                   /\ IF how = "lost" THEN UNCHANGED <<session, page>>
                      ELSE session' = None /\ page' = Unrouted("login")
    BY <1>2 DEF LoggedOut
  <2>2. session' = None /\ page' = Unrouted("login")
    BY <1>n, <2>1
  <2>3. Mounted' = {} /\ Refetches
    BY <1>2, <2>2, UnroutedOK, ShowRefetches DEF LoggedOut, Mounted, Keys
  <2>4. CASE how = "ok"
    <3>1. cookie = None
      BY <2>1, <2>4 DEF Answered, Answer, InSession, Clean, TaskRight
    <3> QED
      BY <1>c, <2>3, <3>1 DEF FreshRows
  <2>5. CASE how = "refused"
    <3>1. ~task[s].handled /\ task[s].pc = "sent" /\ End(s)
      BY <1>2, <2>1, <2>5 DEF LoggedOut, Answered, Answer
    <3>2. Heard
      BY <1>e, <3>1 DEF Stale
    <3> QED
      BY <1>c, <2>3, <3>2
  <2> QED
    BY <1>n, <2>1, <2>4, <2>5 DEF Answered, Answer
<1>3. CASE Switched(s)
  <2>1. PICK how : /\ Answered(s, {"switch"}, how)
                   /\ IF how = "ok"
                      THEN /\ Invalidated(AllKeys) /\ mishaps' = mishaps \cup Missed(AllKeys)
                      ELSE End(s) /\ Noting(how) /\ UNCHANGED <<session, fetch>>
    BY <1>3 DEF Switched
  <2>2. UNCHANGED <<page, cache>>
    BY <1>3 DEF Switched
  <2>3. CASE how = "ok"
    <3> DEFINE rs == Restarted(AllKeys)
    <3>1. DOMAIN fetch \subseteq rs
      <4>1. DOMAIN fetch \cap (AllKeys \ rs) = {}
        BY <1>a, <1>m, <2>1, <2>3 DEF Missed
      <4>2. DOMAIN fetch \subseteq AllKeys
        BY DEF AllKeys
      <4> HIDE DEF rs
      <4> QED
        BY <4>1, <4>2
    <3>2. Mounted \ DOMAIN fetch \subseteq rs
      BY DEF Restarted, AllKeys
    <3>3. fetch' = [k \in DOMAIN fetch \cup rs |-> IF k \in rs THEN None ELSE fetch[k]]
      BY <2>1, <2>3 DEF Invalidated
    <3>4. Mounted' = Mounted
      BY <2>2 DEF Mounted, Keys
    <3> HIDE DEF rs
    <3> QED
      BY <3>1, <3>2, <3>3, <3>4 DEF Renewed
  <2>4. CASE how # "ok"
    <3>1. ~task[s].handled /\ task[s].pc = "sent"
      BY <1>n, <2>1, <2>4 DEF Answered, Answer
    <3>2. Heard
      BY <1>e, <2>1, <2>4, <3>1 DEF Stale
    <3> QED
      BY <1>c, <2>1, <2>2, <2>4, <3>2, ShowRefetches
  <2> QED
    BY <2>3, <2>4
<1>4. CASE SwitchEnds(s)
  <2>1. /\ IF Authed THEN Rerouted(session) ELSE UNCHANGED <<page, fetch>>
        /\ End(s) /\ UNCHANGED <<session, cache>> /\ task[s].pc = "await"
    BY <1>4 DEF SwitchEnds
  <2>2. Heard
    BY <1>e, <2>1 DEF Stale
  <2>3. Refetches
    BY <2>1, ShowRefetches
  <2> QED
    BY <1>c, <2>1, <2>2, <2>3
<1>5. CASE Founded(s)
  <2>1. PICK how : Answered(s, {"onboard"}, how) /\ Noting(how)
                   /\ task' = [task EXCEPT ![s] =
                        IF how = "ok" THEN [NoTask EXCEPT !.op = "onboard", !.pc = "session"] ELSE NoTask]
    BY <1>5 DEF Founded
  <2>2. UNCHANGED <<session, page, cache, fetch>>
    BY <1>5 DEF Founded
  <2>3. CASE how = "ok"
    <3> DEFINE r == [NoTask EXCEPT !.op = "onboard", !.pc = "session"]
    <3>1. task' = [task EXCEPT ![s] = r] /\ task \in [Slot -> Tasks]
      BY <2>1, <2>3 DEF Base, Shape, TasksOK
    <3>2. r.op = "onboard" /\ r.pc = "session"
      BY DEF NoTask
    <3> HIDE DEF r
    <3>3. Stale(s)'
      BY <3>1, <3>2 DEF Stale, Rebinding
    <3> QED
      BY <3>3 DEF Heard
  <2>4. CASE how # "ok"
    <3>1. ~task[s].handled /\ task[s].pc = "sent" /\ End(s)
      BY <1>n, <2>1, <2>4 DEF Answered, Answer, End
    <3>2. Heard
      BY <1>e, <3>1 DEF Stale
    <3> QED
      BY <1>c, <2>2, <3>2, ShowRefetches
  <2> QED
    BY <2>3, <2>4
<1>6. CASE Onboarded(s)
  <2>1. PICK how : IF how = "lost"
                   THEN Noting(how)
                   ELSE /\ \E at : Show(Routed(at, task[s].info))
                        /\ mishaps' = mishaps \cup InFlight(AllKeys)
    BY <1>6 DEF Onboarded
  <2>2. cache' = cache
    BY <1>6 DEF Onboarded
  <2>3. DOMAIN fetch = {} /\ \E at : Show(Routed(at, task[s].info))
    BY <1>f, <1>m, <1>n, <2>1
  <2> QED
    BY <2>2, <2>3, ShowRenews
<1>7. CASE Saved(s) \/ MemberChanged(s)
  <2>1. UNCHANGED <<session, page, cache>> /\ task[s].op \in {"save", "member"}
    BY <1>7 DEF Saved, MemberChanged, Answered
  <2>2. ~Stale(s)
    BY <1>0, <2>1 DEF Stale, Rebinding, TaskOK
  <2>3. fetch' = fetch \/ \E ks : Invalidated(ks)
    BY <1>7 DEF Saved, MemberChanged
  <2>4. \A o \in Slot \ {s} : task'[o] = task[o]
    <3>1. End(s) \/ \A o \in Slot \ {s} : task'[o] = task[o]
      BY <1>0, <1>7, MemberWaits DEF Saved
    <3> QED
      BY <1>0, <3>1, Ending
  <2>5. Heard
    BY <2>2, <2>4, HeardBefore
  <2> QED
    BY <1>c, <2>1, <2>3, <2>5, ShowRefetches
<1> QED
  BY <1>1, <1>2, <1>3, <1>4, <1>5, <1>6, <1>7 DEF Continues

LEMMA StepFresh == SessionInv /\ Rowed /\ Fresh /\ [Next]_vars => Fresh'
<1> SUFFICES ASSUME SessionInv, Rowed, Fresh, [Next]_vars, mishaps' = {}, Heard'
             PROVE  FreshRows'
  BY DEF Fresh
<1>1. mishaps = {} /\ Base /\ InSession
  <2>1. mishaps \subseteq mishaps'
    BY MishapsGrow DEF vars, tab
  <2> QED
    BY <2>1 DEF SessionInv
<1>2. Heard => FreshRows
  BY <1>1 DEF Fresh
<1>3. ASSUME Heard, Refetches, cookie' = cookie
      PROVE  FreshRows'
  BY <1>2, <1>3, KeptFresh
<1>4. CASE LoadSession
  <2>1. DOMAIN fetch = {} /\ cache' = cache /\ Show(Routed("home", session'))
    BY <1>1, <1>4 DEF LoadSession, InSession, Loading
  <2> QED
    BY <2>1, ShowRenews, RenewedFresh
<1>5. CASE OtherTab
  BY <1>5 DEF OtherTab
<1>6. CASE OtherUser \/ (\E s \in Slot : OtherWrites(s)) \/ UNCHANGED vars
  <2>1. UNCHANGED <<session, cookie, task, cache, fetch, page>>
    BY <1>6 DEF OtherUser, OtherWrites, vars, tab
  <2> QED
    BY <1>3, <2>1, ShowRefetches DEF Heard, Stale
<1>11. ASSUME NEW s \in Slot, HalfSwitched(s)
       PROVE  FreshRows'
  BY <1>11 DEF HalfSwitched
<1>12. CASE SessionRefetched
  <2>1. UNCHANGED <<cookie, task, cache, fetch, page>> /\ Mounted = {} /\ Heard
    BY <1>12, UnroutedOK DEF SessionRefetched, server, Mounted, Heard, Stale
  <2>2. Mounted' = {}
    BY <2>1 DEF Mounted, Keys
  <2> QED
    BY <1>2, <2>1, <2>2 DEF FreshRows, Mine
<1>7. ASSUME NEW s \in Slot, Continues(s)
      PROVE  FreshRows'
  BY <1>1, <1>3, <1>7, ContinuesFresh, RenewedFresh
<1>8. ASSUME NEW k \in DOMAIN fetch, Respond(k)
      PROVE  FreshRows'
  <2>1. UNCHANGED <<page, cache, cookie, session, task>> /\ DOMAIN fetch' = DOMAIN fetch
    BY <1>8 DEF Respond, server
  <2>2. Mounted' = Mounted /\ Heard
    BY <2>1 DEF Mounted, Keys, Heard, Stale
  <2>3. \A j \in DOMAIN fetch \ {k} : fetch'[j] = fetch[j]
    BY <1>8 DEF Respond
  <2>4. Mine(fetch'[k])
    <3>1. fetch'[k].tenant \in {cookie.tenant, None}
      BY <1>8 DEF Respond
    <3> QED
      BY <3>1 DEF Mine
  <2> QED
    BY <1>2, <2>1, <2>2, <2>3, <2>4 DEF FreshRows, Mine
<1>9. ASSUME NEW k \in DOMAIN fetch, RowsArrive(k)
      PROVE  FreshRows'
  <2>1. /\ UNCHANGED <<page, cookie, session, task>> /\ DOMAIN fetch' = DOMAIN fetch \ {k}
        /\ fetch[k] # None /\ \A j \in DOMAIN fetch' : fetch'[j] = fetch[j]
    BY <1>9 DEF RowsArrive, Restrict, server
  <2>2. Mounted' = Mounted /\ Heard
    BY <2>1 DEF Mounted, Keys, Heard, Stale
  <2>3. cache'[k] = fetch[k] /\ \A j \in DOMAIN cache \ {k} : cache'[j] = cache[j]
    BY <1>9 DEF RowsArrive
  <2>4. k \in Mounted => cookie # None
    BY <1>1, <2>2 DEF Mounted, Keys, InSession, Clean, Routes, Current, Heard, Matches
  <2> QED
    BY <1>2, <2>1, <2>2, <2>3, <2>4 DEF FreshRows, Mine, Rowed
<1>10. CASE UserActs \/ \E s \in Slot : Handles(s)
  <2>1. Heard /\ cookie' = cookie /\ session' = session
    BY <1>1, <1>10, UserFresh, HandlerFresh
  <2>2. Refetches \/ \E k \in DOMAIN fetch : Respond(k) \/ RowsArrive(k)
    BY <1>10, StepRefetches DEF Next
  <2>3. CASE Refetches
    BY <1>3, <2>1, <2>3
  <2> QED
    BY <1>8, <1>9, <2>2, <2>3
<1> QED
  BY <1>4, <1>5, <1>6, <1>7, <1>8, <1>9, <1>10, <1>11, <1>12 DEF Next

LEMMA StepPages == PagesInv /\ [Next]_vars => PagesInv'
BY StepSession, StepRowed, StepFresh, StepOwn, StepTold DEF PagesInv, SessionInv

LEMMA PagesAlways == Spec => []PagesInv
BY InitPages, StepPages, PTL DEF Spec

(* Once a tab has settled, after any logins, switches, invites and         *)
(* foundings of any number of users, its layout and its rows are of the    *)
(* tenant that the server's session is in.                                 *)
THEOREM PagesSettle == Spec => []ShowsActiveTenant
<1>1. PagesInv => ShowsActiveTenant
  <2> SUFFICES ASSUME PagesInv, Settled, Authed, mishaps = {}
               PROVE  /\ cookie # None
                      /\ \A info \in {session, page.ctx} :
                           info.user = cookie.user /\ info.tenant = cookie.tenant
                      /\ \A k \in Mounted : cache[k].tenant \in {cookie.tenant, None}
    BY DEF ShowsActiveTenant
  <2>1. \A s \in Slot : task[s].op = "idle" /\ task[s].pc = "end"
    BY DEF Settled, PagesInv, SessionInv, Base, Shape, TasksOK, TaskOK
  <2>2. \A s \in Slot : ~Stale(s) /\ ~Switching(s)
    BY <2>1 DEF Stale, Switching, Rebinding
  <2>3. Current /\ Routes
    BY DEF PagesInv, SessionInv, InSession, Clean
  <2>4. Matches(session) /\ Matches(page.ctx) /\ session # None /\ page.ctx # None
    BY <2>2, <2>3 DEF Current, Routes, Authed
  <2>5. \A k \in Mounted : Mine(cache[k])
    BY <2>2 DEF PagesInv, Fresh, FreshRows, Heard, Settled
  <2> QED
    BY <2>4, <2>5 DEF Matches, Mine
<1> QED
  BY <1>1, PagesAlways, PTL

(* Once a tab has settled, no record on its page is older than the last    *)
(* save of it that the tab was told of.                                    *)
THEOREM OwnSavesAreShown == Spec => []ShowsOwnSaves
<1>1. PagesInv => ShowsOwnSaves
  BY DEF PagesInv, Own, OwnRows, Newer, NewerThan, Settled, ShowsOwnSaves
<1> QED
  BY <1>1, PagesAlways, PTL
=============================================================================
