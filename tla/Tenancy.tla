------------------------------- MODULE Tenancy -------------------------------
(***************************************************************************)
(* The budgets of one namespace (tenancy.rs).  Tenants hands out one       *)
(* Tenant per namespace, shared by builds, snapshots and the requests      *)
(* still running on older snapshots; an unreferenced one is dropped.       *)
(***************************************************************************)
EXTENDS Naturals, FiniteSets

CONSTANTS
    Members,            \* requests in flight
    Quotas,             \* values of max_inflight administrators set
    MaxObjects          \* bound: Tenants alive at a time

ASSUME TenancyAssumption ==
    IsFiniteSet(Members) /\ Quotas \subseteq Nat /\ MaxObjects \in Nat \ {0}

VARIABLES
    tenants,        \* [registry, snapshot, draft]: the Tenant each refers to, 0 for none
    quota,          \* Tenant -> its quota
    active,         \* Tenant -> its count of Request permits
    member          \* request -> [at, tenant, quota]

tenancyVars == <<tenants, quota, active, member>>

Objects == 1..MaxObjects
NoObject == 0
Outside == [at |-> "new", tenant |-> NoObject, quota |-> 0]

TenancyInit ==
    /\ tenants = [registry |-> NoObject, snapshot |-> NoObject, draft |-> NoObject]
    /\ quota = [o \in Objects |-> 0]
    /\ active = [o \in Objects |-> 0]
    /\ member = [m \in Members |-> Outside]

Referenced(o) ==
    \/ o \in {tenants.snapshot, tenants.draft}
    \/ \E m \in Members : member[m].tenant = o

(* Tenants::tenant, called by a build for a route of the namespace: the    *)
(* Tenant is found or created, and its quota takes effect at once.         *)
Unclaimed(o) == ~Referenced(o) /\ active[o] = 0
TenantFor ==
    IF tenants.registry # NoObject THEN tenants.registry ELSE CHOOSE o \in Objects : Unclaimed(o)

BuildTenant(q) ==
    /\ tenants.registry # NoObject \/ \E o \in Objects : Unclaimed(o)
    /\ tenants' = [tenants EXCEPT !.registry = TenantFor, !.draft = TenantFor]
    /\ quota' = [quota EXCEPT ![TenantFor] = q]
    /\ UNCHANGED <<active, member>>

(* The end of a build that has not counted the namespace: Tenants::retain  *)
(* drops its Tenant only when the registry alone refers to it.             *)
\* Mutant of Retain: the names alone decide.
RetainNamed ==
    /\ tenants.registry # NoObject
    /\ tenants' = [tenants EXCEPT !.registry = NoObject]
    /\ UNCHANGED <<quota, active, member>>

Retain ==
    /\ tenants.registry # NoObject
    /\ ~Referenced(tenants.registry)
    /\ tenants' = [tenants EXCEPT !.registry = NoObject]
    /\ UNCHANGED <<quota, active, member>>

(* A build is published, or dropped because it failed; a build without a   *)
(* route of the namespace publishes a snapshot without its Tenant.         *)
PublishTenant ==
    /\ tenants' = [tenants EXCEPT !.snapshot = tenants.draft, !.draft = NoObject]
    /\ UNCHANGED <<quota, active, member>>

DropBuild ==
    /\ tenants.draft # NoObject
    /\ tenants' = [tenants EXCEPT !.draft = NoObject]
    /\ UNCHANGED <<quota, active, member>>

(* Tenant::acquire: the request holds the Tenant of the snapshot it was    *)
(* routed with; the quota is loaded before the count is locked.            *)
RouteToTenant(m) ==
    /\ member[m].at = "new" /\ tenants.snapshot # NoObject
    /\ member' = [member EXCEPT ![m] = [at |-> "loaded", tenant |-> tenants.snapshot,
                                           quota |-> quota[tenants.snapshot]]]
    /\ UNCHANGED <<tenants, quota, active>>

AcquireTenant(m) ==
    LET o == member[m].tenant
        room == active[o] < member[m].quota
    IN
    /\ member[m].at = "loaded"
    /\ active' = IF room THEN [active EXCEPT ![o] = @ + 1] ELSE active
    /\ member' = [member EXCEPT ![m] = [at |-> IF room THEN "served" ELSE "refused",
                                           tenant |-> o, quota |-> 0]]
    /\ UNCHANGED <<tenants, quota>>

(* The request ends; Permit::drop.                                         *)
LeaveTenant(m) ==
    /\ member[m].at \in {"refused", "served"}
    /\ active' = IF member[m].at = "served" THEN [active EXCEPT ![member[m].tenant] = @ - 1]
                 ELSE active
    /\ member' = [member EXCEPT ![m] = Outside]
    /\ UNCHANGED <<tenants, quota>>

TenancyNext ==
    \/ \E m \in Members : RouteToTenant(m) \/ AcquireTenant(m) \/ LeaveTenant(m)
    \/ \E q \in Quotas : BuildTenant(q)
    \/ Retain
    \/ PublishTenant \/ DropBuild

TenancySpec == TenancyInit /\ [][TenancyNext]_tenancyVars

-----------------------------------------------------------------------------
(* A namespace has one Tenant, which counts exactly the requests served    *)
(* under it: builds, the snapshot and requests that still run on an older  *)
(* one all share it, so a budget is never granted twice because a          *)
(* namespace was left out of one configuration.                            *)
OneTenant ==
    \A o \in Objects :
        /\ active[o] = Cardinality({m \in Members : member[m].at = "served" /\ member[m].tenant = o})
        /\ Referenced(o) => o = tenants.registry
=============================================================================
