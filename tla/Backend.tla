------------------------------ MODULE Backend ------------------------------
(***************************************************************************)
(* One upstream pool (backend.rs, backend/selection.rs): its endpoints,    *)
(* their passive and active health, the cached selection, the leases out   *)
(* on it, and the maintenance task that resolves names and probes.         *)
(*                                                                         *)
(* An endpoint's State is shared by address for as long as the address     *)
(* stays in the pool; when names resolve to an address again later it has  *)
(* a new State, while leases may still hold the old one.  A State is       *)
(* <<address, incarnation>>.  Locks: the pool lock (poolLock) and each     *)
(* State's health lock (the field `by`).  has_failures and the health      *)
(* revision are atomics read without them.                                 *)
(***************************************************************************)
EXTENDS Naturals, FiniteSets

CONSTANTS
    Addresses,          \* addresses names may resolve to
    Callers,            \* concurrent requests
    MaxInflight,        \* rgnix_max_inflight, 0 for none
    MaxFails, Cooldown, \* the passive policy of the snapshot
    DnsGrace,           \* 60 s: how long an unresolvable pool is kept
    MaxInstant,         \* bound: the clock
    MaxIncarnation,     \* bound: how often an address may come back
    MaxRevision         \* bound: health changes

ASSUME BackendAssumption ==
    /\ IsFiniteSet(Addresses) /\ IsFiniteSet(Callers) /\ "none" \notin Callers
    /\ MaxInflight \in Nat /\ MaxFails \in Nat /\ Cooldown \in Nat /\ DnsGrace \in Nat
    /\ MaxInstant \in Nat /\ MaxIncarnation \in Nat /\ MaxRevision \in Nat

VARIABLES
    pool,           \* [options, members, selection, dnsSuccess, nextDns, nextHealth]
    endpoint,       \* State -> [active, flag, failures, blocked, ok, by]
    revision,       \* health_revision
    inflight,       \* Backend.active
    poolLock,       \* the caller scanning under the pool lock, or None
    caller,         \* caller -> its request
    upkeep,         \* the maintenance task
    instant         \* the clock

backendVars == <<pool, endpoint, revision, inflight, poolLock, caller, upkeep, instant>>

None == "none"
StateIds == Addresses \X (0..MaxIncarnation)
Fresh == [active |-> 0, flag |-> FALSE, failures |-> 0, blocked |-> 0, ok |-> None, by |-> None]
NoUpkeep == [at |-> "idle", since |-> 0, probes |-> {}, probing |-> FALSE]
NoLease == <<>>
NoSelection == [built |-> FALSE, entries |-> {}, revision |-> 0, expires |-> 0]
Resting == [at |-> "idle", revision |-> 0, left |-> {}, entries |-> {}, expires |-> 0,
            lease |-> NoLease]

(* Instants start at 1; 0 stands for None in blocked and expires.          *)
BackendInit ==
    /\ \E members \in SUBSET (Addresses \X {0}), health, dns \in BOOLEAN, hash \in BOOLEAN :
        /\ members # {}
        /\ pool = [health |-> health, dns |-> dns, hash |-> hash,
                   fixed |-> Cardinality(members) = 1 /\ ~dns,
                   members |-> members, selection |-> NoSelection,
                   dnsSuccess |-> 1, nextDns |-> 1, nextHealth |-> 1]
    /\ endpoint = [s \in StateIds |-> Fresh]
    /\ revision = 0 /\ inflight = 0 /\ poolLock = None
    /\ caller = [c \in Callers |-> Resting]
    /\ upkeep = NoUpkeep
    /\ instant = 1

-----------------------------------------------------------------------------
(***************************************************************************)
(* Backend::ready.  Without active checks a State whose flag is down is    *)
(* taken as ready without its lock; otherwise the lock must be free, and a *)
(* cooldown that has passed is cleared on the way, without a new revision. *)
(***************************************************************************)
Unlocked(s) == ~pool.health /\ ~endpoint[s].flag
CanLook(s) == Unlocked(s) \/ endpoint[s].by = None
Cooled(s) == endpoint[s].blocked # 0 /\ endpoint[s].blocked <= instant
Ejected(s) == endpoint[s].blocked > instant
Looked(s) ==
    IF ~Unlocked(s) /\ Cooled(s)
    THEN [endpoint EXCEPT ![s].blocked = 0, ![s].failures = 0, ![s].flag = FALSE]
    ELSE endpoint
Ready(s) == Unlocked(s) \/ (~Ejected(s) /\ (pool.health => endpoint[s].ok = "yes"))

(* The earliest end of a cooldown met so far.                              *)
Sooner(expires, s) ==
    IF Unlocked(s) \/ ~Ejected(s) THEN expires
    ELSE IF expires = 0 \/ endpoint[s].blocked < expires THEN endpoint[s].blocked ELSE expires

(* Backend::lease: the bound is checked and counted in one atomic update.  *)
\* Mutant of HasRoom: the load at the start of select is relied on.
HasRoomUnchecked == TRUE

HasRoom == MaxInflight = 0 \/ inflight < MaxInflight

Lease(c, s, states) ==
    /\ IF HasRoom
       THEN /\ inflight' = inflight + 1
            /\ endpoint' = [states EXCEPT ![s].active = @ + 1]
            /\ caller' = [caller EXCEPT ![c] = [Resting EXCEPT !.at = "leased", !.lease = s]]
       ELSE /\ endpoint' = states /\ inflight' = inflight
            /\ caller' = [caller EXCEPT ![c] = Resting]

(***************************************************************************)
(* Backend::select.                                                        *)
(***************************************************************************)
(* select gives up early on a full backend, from a plain load.  A pool of  *)
(* one: the fixed endpoint without the pool lock, or the single resolved   *)
(* member under it.                                                        *)
Saturated == MaxInflight # 0 /\ inflight >= MaxInflight

SelectOnly(c) ==
    /\ caller[c].at = "idle"
    /\ Cardinality(pool.members) = 1
    /\ pool.fixed \/ (poolLock = None /\ ~Saturated)
    /\ \E s \in pool.members :
        /\ CanLook(s)
        /\ \/ Ready(s) /\ Lease(c, s, Looked(s))
           \/ ~Ready(s) /\ endpoint' = Looked(s) /\ UNCHANGED <<inflight, caller>>
    /\ UNCHANGED <<pool, revision, poolLock, upkeep, instant>>

Usable(selection) ==
    /\ selection.built
    /\ selection.revision = revision
    /\ selection.expires = 0 \/ selection.expires > instant

(* The revision is read before the scan.                                   *)
SelectBegin(c) ==
    /\ caller[c].at = "idle"
    /\ Cardinality(pool.members) # 1
    /\ poolLock = None /\ ~Saturated
    /\ poolLock' = c
    /\ caller' = [caller EXCEPT ![c] =
        IF Usable(pool.selection) THEN [Resting EXCEPT !.at = "choose"]
        ELSE [Resting EXCEPT !.at = "scan", !.revision = revision, !.left = pool.members]]
    /\ UNCHANGED <<pool, endpoint, revision, inflight, upkeep, instant>>

(* Selection::new, one endpoint of the scan.                               *)
Scan(c) ==
    /\ caller[c].at = "scan"
    /\ \E s \in caller[c].left :
        /\ CanLook(s)
        /\ endpoint' = Looked(s)
        /\ caller' = [caller EXCEPT
             ![c].left = @ \ {s},
             ![c].entries = IF Ready(s) THEN @ \cup {s} ELSE @,
             ![c].expires = Sooner(@, s)]
    /\ UNCHANGED <<pool, revision, inflight, poolLock, upkeep, instant>>

\* Mutant of CacheSelection: the selection is kept under the revision read after the scan.
CacheSelectionLate(c) ==
    /\ caller[c].at = "scan" /\ caller[c].left = {}
    /\ pool' = [pool EXCEPT !.selection =
        [built |-> TRUE, entries |-> caller[c].entries, revision |-> revision, expires |-> caller[c].expires]]
    /\ caller' = [caller EXCEPT ![c] = [Resting EXCEPT !.at = "choose"]]
    /\ UNCHANGED <<endpoint, revision, inflight, poolLock, upkeep, instant>>

CacheSelection(c) ==
    /\ caller[c].at = "scan" /\ caller[c].left = {}
    /\ pool' = [pool EXCEPT !.selection =
        [built |-> TRUE, entries |-> caller[c].entries, revision |-> caller[c].revision,
         expires |-> caller[c].expires]]
    /\ caller' = [caller EXCEPT ![c] = [Resting EXCEPT !.at = "choose"]]
    /\ UNCHANGED <<endpoint, revision, inflight, poolLock, upkeep, instant>>

(* Backend::select_from; which entry the balance picks is any of them.     *)
(* Hashing goes on with its copy of the selection after the lock.          *)
Choose(c) ==
    /\ caller[c].at = "choose" /\ poolLock = c
    /\ poolLock' = None
    /\ LET entries == pool.selection.entries IN
        \/ /\ entries = {}
           /\ caller' = [caller EXCEPT ![c] = Resting]
           /\ UNCHANGED <<endpoint, inflight>>
        \/ /\ ~pool.hash
           /\ \E s \in entries : Lease(c, s, endpoint)
        \/ /\ pool.hash /\ entries # {}
           /\ caller' = [caller EXCEPT ![c] = [Resting EXCEPT !.at = "hash", !.entries = entries]]
           /\ UNCHANGED <<endpoint, inflight>>
    /\ UNCHANGED <<pool, revision, upkeep, instant>>

ChooseHashed(c) ==
    /\ caller[c].at = "hash"
    /\ \E s \in caller[c].entries : Lease(c, s, endpoint)
    /\ UNCHANGED <<pool, revision, poolLock, upkeep, instant>>

-----------------------------------------------------------------------------
(***************************************************************************)
(* State::record_result under the health lock, through the lease.  The     *)
(* flag goes up before the cooldown and down after it.                     *)
(***************************************************************************)
RecordFailure(c) ==
    LET s == caller[c].lease IN
    /\ caller[c].at = "leased" /\ MaxFails > 0
    /\ endpoint[s].by = None
    /\ endpoint[s].failures < MaxFails + 1
    /\ endpoint' = [endpoint EXCEPT ![s].by = c, ![s].failures = @ + 1, ![s].flag = TRUE]
    /\ caller' = [caller EXCEPT ![c].at = "failed"]
    /\ UNCHANGED <<pool, revision, inflight, poolLock, upkeep, instant>>

FailureDone(c) ==
    LET s == caller[c].lease
        ejects == endpoint[s].failures >= MaxFails /\ endpoint[s].blocked = 0
    IN
    /\ caller[c].at = "failed"
    /\ ejects => revision < MaxRevision
    /\ endpoint' = [endpoint EXCEPT ![s].by = None,
                                    ![s].blocked = IF ejects THEN instant + Cooldown ELSE @]
    /\ revision' = IF ejects THEN revision + 1 ELSE revision
    /\ caller' = [caller EXCEPT ![c].at = "done"]
    /\ UNCHANGED <<pool, inflight, poolLock, upkeep, instant>>

RecordSuccess(c) ==
    LET s == caller[c].lease
        readmits == endpoint[s].flag /\ endpoint[s].blocked # 0
    IN
    /\ caller[c].at = "leased"
    /\ endpoint[s].flag => endpoint[s].by = None
    /\ readmits => revision < MaxRevision
    /\ IF endpoint[s].flag
       THEN /\ endpoint' = [endpoint EXCEPT ![s].by = c, ![s].failures = 0, ![s].blocked = 0]
            /\ caller' = [caller EXCEPT ![c].at = "passed"]
       ELSE /\ caller' = [caller EXCEPT ![c].at = "done"]
            /\ UNCHANGED endpoint
    /\ revision' = IF readmits THEN revision + 1 ELSE revision
    /\ UNCHANGED <<pool, inflight, poolLock, upkeep, instant>>

SuccessDone(c) ==
    /\ caller[c].at = "passed"
    /\ endpoint' = [endpoint EXCEPT ![caller[c].lease].by = None, ![caller[c].lease].flag = FALSE]
    /\ caller' = [caller EXCEPT ![c].at = "done"]
    /\ UNCHANGED <<pool, revision, inflight, poolLock, upkeep, instant>>

(* Lease::drop; a cancelled request is dropped without a result.           *)
DropLease(c) ==
    /\ caller[c].at \in {"leased", "done"}
    /\ endpoint' = [endpoint EXCEPT ![caller[c].lease].active = @ - 1]
    /\ inflight' = inflight - 1
    /\ caller' = [caller EXCEPT ![c] = Resting]
    /\ UNCHANGED <<pool, revision, poolLock, upkeep, instant>>

-----------------------------------------------------------------------------
(***************************************************************************)
(* Backend::maintain, one run at a time (maintenance.rs awaits the checks  *)
(* of a round before the next).                                            *)
(***************************************************************************)
MaintainBegin ==
    /\ upkeep.at = "idle" /\ poolLock = None
    /\ LET dns == pool.dns /\ instant >= pool.nextDns
           health == pool.health /\ instant >= pool.nextHealth
       IN
       /\ dns \/ health
       /\ pool' = [pool EXCEPT !.nextDns = IF dns THEN instant + 1 ELSE @,
                               !.nextHealth = IF health THEN instant + 1 ELSE @]
       /\ upkeep' = [at |-> IF dns THEN "lookup" ELSE "snapshot", since |-> instant,
                     probes |-> {}, probing |-> health]
    /\ UNCHANGED <<endpoint, revision, inflight, poolLock, caller, instant>>

Afterwards == IF upkeep.probing THEN [upkeep EXCEPT !.at = "snapshot"]
              ELSE NoUpkeep

(* A State nobody refers to, as a newly allocated one is.                  *)
Unused(s) ==
    /\ endpoint[s] = Fresh /\ s \notin pool.members
    /\ \A c \in Callers : s \notin caller[c].entries
HasUnused(a) == \E i \in 0..MaxIncarnation : Unused(<<a, i>>)
NewState(a) == <<a, CHOOSE i \in 0..MaxIncarnation : Unused(<<a, i>>)>>

(* A complete lookup replaces the endpoints, keeping the States of the     *)
(* addresses that stay, and drops the selection.                           *)
Resolved(found) ==
    LET kept == {s \in pool.members : s[1] \in found}
        new == found \ {s[1] : s \in kept}
    IN [pool EXCEPT !.members = kept \cup {NewState(a) : a \in new},
                    !.selection = NoSelection,
                    !.nextDns = upkeep.since + 1,
                    !.dnsSuccess = upkeep.since]

LookupSucceeds ==
    /\ upkeep.at = "lookup" /\ poolLock = None
    /\ \E found \in SUBSET Addresses :
        /\ found # {}
        /\ \A a \in found : (\E s \in pool.members : s[1] = a) \/ HasUnused(a)
        /\ pool' = Resolved(found)
    /\ upkeep' = Afterwards
    /\ UNCHANGED <<endpoint, revision, inflight, poolLock, caller, instant>>

(* A lookup that fails or times out empties the pool once the last good    *)
(* one is more than a minute older than this round.                        *)
LookupFails ==
    /\ upkeep.at = "lookup" /\ poolLock = None
    /\ pool' = IF upkeep.since > pool.dnsSuccess + DnsGrace
               THEN [pool EXCEPT !.members = {}, !.selection = NoSelection]
               ELSE pool
    /\ upkeep' = Afterwards
    /\ UNCHANGED <<endpoint, revision, inflight, poolLock, caller, instant>>

ProbeSnapshot ==
    /\ upkeep.at = "snapshot" /\ poolLock = None
    /\ upkeep' = IF pool.members = {} THEN NoUpkeep
                 ELSE [upkeep EXCEPT !.at = "probe", !.probes = pool.members]
    /\ UNCHANGED <<pool, endpoint, revision, inflight, poolLock, caller, instant>>

(* State::set_active_health for one probe of the round, in any order.      *)
ProbeAnswered(s, ok) ==
    LET changes == endpoint[s].ok # ok IN
    /\ upkeep.at = "probe" /\ s \in upkeep.probes
    /\ endpoint[s].by = None
    /\ changes => revision < MaxRevision
    /\ endpoint' = [endpoint EXCEPT ![s].ok = ok]
    /\ revision' = IF changes THEN revision + 1 ELSE revision
    /\ upkeep' = LET left == upkeep.probes \ {s} IN
                 IF left = {} THEN NoUpkeep ELSE [upkeep EXCEPT !.probes = left]
    /\ UNCHANGED <<pool, inflight, poolLock, caller, instant>>

BackendTick ==
    /\ instant < MaxInstant
    /\ instant' = instant + 1
    /\ UNCHANGED <<pool, endpoint, revision, inflight, poolLock, caller, upkeep>>

BackendNext ==
    \/ \E c \in Callers :
        \/ SelectOnly(c) \/ SelectBegin(c) \/ Scan(c) \/ CacheSelection(c)
        \/ Choose(c) \/ ChooseHashed(c)
        \/ RecordFailure(c) \/ FailureDone(c) \/ RecordSuccess(c) \/ SuccessDone(c)
        \/ DropLease(c)
    \/ MaintainBegin \/ LookupSucceeds \/ LookupFails \/ ProbeSnapshot
    \/ \E s \in StateIds, ok \in {"yes", "no"} : ProbeAnswered(s, ok)
    \/ BackendTick

BackendSpec == BackendInit /\ [][BackendNext]_backendVars

-----------------------------------------------------------------------------
Leased(s) == {c \in Callers : caller[c].lease = s}

(* Selectable by the rules of `ready`, looked at now.                      *)
Selectable(s) == ~Ejected(s) /\ (pool.health => endpoint[s].ok = "yes")

(* A cached selection that select would use without a scan names exactly   *)
(* the endpoints that a scan would find now, whatever results, probes and  *)
(* lookups interleaved with the scan that built it; and an endpoint whose  *)
(* has_failures is down has neither failures nor a cooldown, so that       *)
(* `ready` may skip its lock.                                              *)
CachedSelectionFresh ==
    /\ Usable(pool.selection) => pool.selection.entries = {s \in pool.members : Selectable(s)}
    /\ \A s \in StateIds :
        ~endpoint[s].flag => endpoint[s].failures = 0 /\ endpoint[s].blocked = 0

(* Leases are counted exactly, per State and for the backend, also for     *)
(* States whose address has left the pool or come back under a new State;  *)
(* and rgnix_max_inflight bounds them although hashing takes its lease     *)
(* after the pool lock is dropped.                                         *)
LeasesCounted ==
    /\ \A s \in StateIds : endpoint[s].active = Cardinality(Leased(s))
    /\ inflight = Cardinality({c \in Callers : caller[c].lease # NoLease})
    /\ MaxInflight # 0 => inflight <= MaxInflight
=============================================================================
