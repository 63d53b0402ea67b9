--------------------------- MODULE UpstreamProofs ---------------------------
(***************************************************************************)
(* Proofs about the way to the upstreams.  Of a backend (Backend): what is *)
(* leased is counted, and a cached selection names what a scan would find. *)
(* Of the pools of idle connections (UpstreamPool): no two requests share  *)
(* a connection, and the budget is exact.                                  *)
(*                                                                         *)
(* The selection is built endpoint by endpoint while results and probes    *)
(* change the endpoints already looked at.  The inductive invariant says   *)
(* what the part scanned so far is worth (Faithful): it is what a scan     *)
(* would find now as long as the health revision is the one read before    *)
(* the scan and the first cooldown it met has not ended.                   *)
(***************************************************************************)
EXTENDS Backend, UpstreamPool, CountTheorems

EndpointStates ==
    [active : Int, flag : BOOLEAN, failures : Nat, blocked : Nat, ok : {"yes", "no", None},
     by : Callers \cup {None}]
CallerAts == {"idle", "scan", "choose", "hash", "leased", "failed", "passed", "done"}
CallerStates ==
    [at : CallerAts, revision : Nat, left : SUBSET StateIds, entries : SUBSET StateIds,
     expires : Nat, lease : StateIds \cup {NoLease}]
Selections == [built : BOOLEAN, entries : SUBSET StateIds, revision : Nat, expires : Nat]
PoolStates ==
    [health : BOOLEAN, dns : BOOLEAN, hash : BOOLEAN, fixed : BOOLEAN, members : SUBSET StateIds,
     selection : Selections, dnsSuccess : Nat, nextDns : Nat, nextHealth : Nat]
UpkeepStates ==
    [at : {"idle", "lookup", "snapshot", "probe"}, since : Nat, probes : SUBSET StateIds,
     probing : BOOLEAN]

BackendType ==
    /\ pool \in PoolStates /\ endpoint \in [StateIds -> EndpointStates]
    /\ caller \in [Callers -> CallerStates] /\ upkeep \in UpkeepStates
    /\ revision \in Nat /\ inflight \in Int /\ instant \in Nat
    /\ poolLock \in Callers \cup {None}

(* A lease is held from the selection to its drop.                         *)
WithLease == {"leased", "failed", "passed", "done"}
LeaseHeld == \A c \in Callers : caller[c].at \in WithLease <=> caller[c].lease # NoLease

Leasing == {c \in Callers : caller[c].lease # NoLease}
LeaseCounts ==
    /\ \A s \in StateIds : endpoint[s].active = Cardinality(Leased(s))
    /\ inflight = Cardinality(Leasing)
    /\ MaxInflight # 0 => inflight <= MaxInflight

(* The health lock of a State is held through record_result.               *)
LockHeld(e, c, at) ==
    /\ at \in {"failed", "passed"} => e.by = c
    /\ at = "failed" => e.flag
    /\ at = "passed" => e.failures = 0 /\ e.blocked = 0
LocksHeld ==
    \A c \in Callers :
        caller[c].at \in {"failed", "passed"} => LockHeld(endpoint[caller[c].lease], c, caller[c].at)

(* has_failures is down only where there is nothing to look at.            *)
FlagRight(e) == ~e.flag => e.failures = 0 /\ e.blocked = 0
FlagsRight == \A s \in StateIds : FlagRight(endpoint[s])

(* What a selection of `scanned` is worth.                                 *)
Eject(e) == e.blocked > instant
Select(e) == ~Eject(e) /\ (pool.health => e.ok = "yes")
Faithful(entries, scanned, rev, expires) ==
    /\ rev <= revision
    /\ rev = revision =>
        /\ \A s \in scanned : Eject(endpoint[s]) => expires # 0 /\ expires <= endpoint[s].blocked
        /\ expires = 0 \/ expires > instant => entries = {s \in scanned : Select(endpoint[s])}

SelectionFaithful ==
    pool.selection.built =>
        Faithful(pool.selection.entries, pool.members, pool.selection.revision, pool.selection.expires)
ScanFaithful(r) ==
    r.left \subseteq pool.members /\ Faithful(r.entries, pool.members \ r.left, r.revision, r.expires)
ScansFaithful == \A c \in Callers : caller[c].at = "scan" => ScanFaithful(caller[c])
PoolLockHeld == \A c \in Callers : caller[c].at \in {"scan", "choose"} => poolLock = c

BackendInv ==
    /\ BackendType /\ LeaseHeld /\ LeaseCounts
    /\ LocksHeld /\ FlagsRight
    /\ SelectionFaithful /\ ScansFaithful /\ PoolLockHeld

-----------------------------------------------------------------------------
LEMMA BackendNumbers ==
    /\ IsFiniteSet(Callers) /\ None \notin Callers
    /\ MaxInflight \in Nat /\ MaxFails \in Nat /\ Cooldown \in Nat
    /\ MaxIncarnation \in Nat /\ NoLease \notin StateIds
  BY BackendAssumption DEF None, NoLease, StateIds

LEMMA RestingIs ==
    /\ Resting \in CallerStates /\ Resting.at = "idle" /\ Resting.lease = NoLease
    /\ Resting.left = {} /\ Resting.entries = {} /\ Resting.revision = 0 /\ Resting.expires = 0
  BY DEF Resting, CallerStates, CallerAts

LEMMA FreshIs ==
    /\ Fresh \in EndpointStates /\ Fresh.active = 0 /\ FlagRight(Fresh)
  BY DEF Fresh, EndpointStates, FlagRight

(* A step that takes and drops no lease.                                   *)
LEMMA LeasesKept ==
    ASSUME LeaseCounts, inflight' = inflight,
           \A c \in Callers : caller'[c].lease = caller[c].lease,
           \A s \in StateIds : endpoint'[s].active = endpoint[s].active
    PROVE  LeaseCounts'
<1>1. Leasing' = Leasing /\ \A s \in StateIds : Leased(s)' = Leased(s)
  BY DEF Leasing, Leased
<1> QED BY <1>1 DEF LeaseCounts

(* A step in which the lease of one caller is taken or dropped.            *)
LEMMA LeaseChanges ==
    ASSUME LeaseCounts, BackendType, NEW c \in Callers, NEW w, caller' = [caller EXCEPT ![c] = w],
           NEW s \in StateIds, inflight' \in Int, \A t \in StateIds : endpoint'[t].active \in Int,
           \A t \in StateIds : t # s => endpoint'[t].active = endpoint[t].active,
           \/ /\ caller[c].lease = NoLease /\ w.lease = s /\ HasRoom
              /\ inflight' = inflight + 1 /\ endpoint'[s].active = endpoint[s].active + 1
           \/ /\ caller[c].lease = s /\ w.lease = NoLease
              /\ inflight' = inflight - 1 /\ endpoint'[s].active = endpoint[s].active - 1
    PROVE  LeaseCounts'
<1> USE BackendNumbers
<1>1. caller'[c] = w /\ \A d \in Callers : d # c => caller'[d] = caller[d]
  BY DEF BackendType
<1>2. /\ inflight \in Int /\ \A t \in StateIds : endpoint[t].active \in Int
      /\ \A t \in StateIds : endpoint[t].active = Cardinality(Leased(t))
      /\ inflight = Cardinality(Leasing)
  BY DEF BackendType, EndpointStates, LeaseCounts
<1>3. Changed(Leasing, Leasing', c \in Leasing, c \in Leasing')
  <2>1. /\ Leasing \in SUBSET Callers /\ Leasing' \in SUBSET Callers
        /\ \A d \in Callers : d # c => (d \in Leasing <=> d \in Leasing')
    BY <1>1 DEF Leasing
  <2> QED BY <2>1, CountChange
<1>4. ASSUME NEW t \in StateIds PROVE Changed(Leased(t), Leased(t)', c \in Leased(t), c \in Leased(t)')
  <2>1. /\ Leased(t) \in SUBSET Callers /\ Leased(t)' \in SUBSET Callers
        /\ \A d \in Callers : d # c => (d \in Leased(t) <=> d \in Leased(t)')
    BY <1>1 DEF Leased
  <2> QED BY <2>1, CountChange
<1>5. inflight' = Cardinality(Leasing') /\ (MaxInflight # 0 => inflight' <= MaxInflight)
  <2>1. c \in Leasing <=> caller[c].lease # NoLease
    BY DEF Leasing
  <2>2. c \in Leasing' <=> w.lease # NoLease
    BY <1>1 DEF Leasing
  <2>3. MaxInflight # 0 => inflight <= MaxInflight
    BY DEF LeaseCounts
  <2> QED BY <1>2, <1>3, <2>1, <2>2, <2>3 DEF Changed, HasRoom
<1>6. ASSUME NEW t \in StateIds PROVE endpoint'[t].active = Cardinality(Leased(t)')
  <2>1. c \in Leased(t) <=> caller[c].lease = t
    BY DEF Leased
  <2>2. c \in Leased(t)' <=> w.lease = t
    BY <1>1 DEF Leased
  <2> QED BY <1>2, <1>4, <2>1, <2>2 DEF Changed
<1> QED BY <1>5, <1>6 DEF LeaseCounts

-----------------------------------------------------------------------------
(* What a step may do to an endpoint without a new revision: a cooldown    *)
(* that is over may be cleared.                                            *)
SameReady(e, f) ==
    e.ok = f.ok /\ (e.blocked = f.blocked \/ (e.blocked <= instant /\ f.blocked <= instant))

LEMMA FaithfulKept ==
    ASSUME BackendType, BackendType', NEW E, NEW S \in SUBSET StateIds, NEW rev \in Nat, NEW exp \in Nat,
           Faithful(E, S, rev, exp), instant' = instant, pool'.health = pool.health,
           \/ revision' = revision + 1
           \/ revision' = revision /\ \A s \in StateIds : SameReady(endpoint'[s], endpoint[s])
    PROVE  Faithful(E, S, rev, exp)'
<1>1. revision \in Nat /\ rev <= revision
  BY DEF BackendType, Faithful
<1>2. CASE revision' = revision + 1
  BY <1>1, <1>2 DEF Faithful
<1>3. CASE revision' = revision /\ \A s \in StateIds : SameReady(endpoint'[s], endpoint[s])
  <2>1. SUFFICES ASSUME rev = revision
                 PROVE  /\ \A s \in S : Eject(endpoint[s])' => exp # 0 /\ exp <= endpoint'[s].blocked
                        /\ exp = 0 \/ exp > instant => E = {s \in S : Select(endpoint[s])'}
    BY <1>1, <1>3 DEF Faithful
  <2>2. /\ \A s \in S : Eject(endpoint[s]) => exp # 0 /\ exp <= endpoint[s].blocked
        /\ exp = 0 \/ exp > instant => E = {s \in S : Select(endpoint[s])}
    BY <2>1 DEF Faithful
  <2>3. ASSUME NEW s \in S
        PROVE  /\ Eject(endpoint[s])' <=> Eject(endpoint[s])
               /\ Eject(endpoint[s]) => endpoint'[s].blocked = endpoint[s].blocked
               /\ Select(endpoint[s])' <=> Select(endpoint[s])
    <3>1. s \in StateIds /\ endpoint[s].blocked \in Nat /\ endpoint'[s].blocked \in Nat /\ instant \in Nat
      BY DEF BackendType, EndpointStates
    <3>2. SameReady(endpoint'[s], endpoint[s])
      BY <1>3, <3>1
    <3>3. (Eject(endpoint[s])' <=> Eject(endpoint[s])) /\ endpoint'[s].ok = endpoint[s].ok
      BY <3>1, <3>2 DEF SameReady, Eject
    <3>4. Eject(endpoint[s]) => endpoint'[s].blocked = endpoint[s].blocked
      BY <3>1, <3>2 DEF SameReady, Eject
    <3>5. Select(endpoint[s])' <=> Select(endpoint[s])
      BY <3>3 DEF Select
    <3> QED BY <3>3, <3>4, <3>5
  <2> QED BY <2>2, <2>3
<1> QED BY <1>2, <1>3

(* Steps that leave the scans and the cached selection alone.              *)
LEMMA SelectionsKept ==
    ASSUME BackendInv, BackendType', instant' = instant, pool'.health = pool.health,
           pool'.members = pool.members, pool'.selection = pool.selection,
           \A c \in Callers : caller'[c].at = "scan" => caller'[c] = caller[c],
           \/ revision' = revision + 1
           \/ revision' = revision /\ \A s \in StateIds : SameReady(endpoint'[s], endpoint[s])
    PROVE  SelectionFaithful' /\ ScansFaithful'
<1>1. BackendType /\ SelectionFaithful /\ ScansFaithful /\ pool.members \in SUBSET StateIds
  BY DEF BackendInv, BackendType, PoolStates
<1>2. SelectionFaithful'
  <2>1. pool.selection.revision \in Nat /\ pool.selection.expires \in Nat
    BY <1>1 DEF BackendType, PoolStates, Selections
  <2>2. PICK E, S, rev, exp : /\ E = pool.selection.entries /\ S = pool.members
                              /\ rev = pool.selection.revision /\ exp = pool.selection.expires
    OBVIOUS
  <2>3. CASE ~pool.selection.built
    BY <2>3 DEF SelectionFaithful
  <2>4. CASE pool.selection.built
    <3>1. Faithful(E, S, rev, exp)
      BY <1>1, <2>2, <2>4 DEF SelectionFaithful
    <3>2. Faithful(E, S, rev, exp)'
      BY <1>1, <2>1, <2>2, <3>1, FaithfulKept
    <3> QED BY <2>2, <3>2 DEF SelectionFaithful
  <2> QED BY <2>3, <2>4
<1>3. ASSUME NEW c \in Callers, caller'[c].at = "scan" PROVE ScanFaithful(caller[c])'
  <2>1. caller'[c] = caller[c] /\ caller[c].at = "scan" /\ caller[c] \in CallerStates
    BY <1>1, <1>3 DEF BackendType
  <2>2. PICK E, L, S, rev, exp : /\ E = caller[c].entries /\ L = caller[c].left /\ S = pool.members \ L
                              /\ rev = caller[c].revision /\ exp = caller[c].expires
    OBVIOUS
  <2>3. rev \in Nat /\ exp \in Nat /\ S \in SUBSET StateIds
    BY <1>1, <2>1, <2>2 DEF CallerStates
  <2>4. Faithful(E, S, rev, exp) /\ L \subseteq pool.members
    BY <1>1, <2>1, <2>2 DEF ScansFaithful, ScanFaithful
  <2>5. Faithful(E, S, rev, exp)'
    BY <1>1, <2>3, <2>4, FaithfulKept
  <2> QED BY <2>1, <2>2, <2>4, <2>5 DEF ScanFaithful
<1> QED BY <1>2, <1>3 DEF ScansFaithful

(* What looking at an endpoint does to it (Backend::ready).                *)
Eased(e, f) ==
    /\ e.by = f.by /\ e.ok = f.ok
    /\ \/ e.flag = f.flag /\ e.failures = f.failures /\ e.blocked = f.blocked
       \/ /\ f.by = None /\ f.blocked <= instant
          /\ e.flag = FALSE /\ e.failures = 0 /\ e.blocked = 0

LEMMA EasedKept ==
    ASSUME BackendInv, \A s \in StateIds : Eased(endpoint'[s], endpoint[s]), LeaseHeld',
           BackendType',
           \A c \in Callers : caller'[c].at \in {"failed", "passed"} => caller'[c] = caller[c]
    PROVE  /\ LocksHeld' /\ FlagsRight'
           /\ \A s \in StateIds : SameReady(endpoint'[s], endpoint[s])
<1>1. ASSUME NEW s \in StateIds PROVE FlagRight(endpoint[s])' /\ SameReady(endpoint'[s], endpoint[s])
  BY DEF BackendInv, FlagsRight, FlagRight, Eased, SameReady, BackendType, EndpointStates
<1>2. ASSUME NEW c \in Callers, caller'[c].at \in {"failed", "passed"}
      PROVE  LockHeld(endpoint'[caller'[c].lease], c, caller'[c].at)
  <2>1. PICK s, at : s = caller[c].lease /\ at = caller[c].at
    OBVIOUS
  <2>2. caller'[c] = caller[c] /\ at \in {"failed", "passed"}
    BY <1>2, <2>1
  <2>3. s \in StateIds /\ LockHeld(endpoint[s], c, at)
    BY <2>1, <2>2 DEF BackendInv, LeaseHeld, LocksHeld, WithLease, BackendType, CallerStates
  <2>4. endpoint[s].by = c /\ c # None
    BY <2>2, <2>3, BackendNumbers DEF LockHeld
  <2>5. Eased(endpoint'[s], endpoint[s])
    BY <2>3
  <2>6. LockHeld(endpoint'[s], c, at)
    BY <2>3, <2>4, <2>5 DEF Eased, LockHeld
  <2> QED BY <2>1, <2>2, <2>6
<1> QED BY <1>1, <1>2 DEF LocksHeld, FlagsRight

LEMMA LookedIs ==
    ASSUME BackendType, NEW s \in StateIds, CanLook(s)
    PROVE  /\ Looked(s) \in [StateIds -> EndpointStates]
           /\ \A t \in StateIds : Eased(Looked(s)[t], endpoint[t]) /\ Looked(s)[t].active = endpoint[t].active
<1>1. PICK e : e = endpoint[s] /\ e \in EndpointStates
  BY DEF BackendType
<1>2. endpoint \in [StateIds -> EndpointStates]
  BY DEF BackendType
<1>3. CASE ~(~Unlocked(s) /\ Cooled(s))
  BY <1>2, <1>3 DEF Looked, Eased
<1>4. CASE ~Unlocked(s) /\ Cooled(s)
  <2> DEFINE w == [e EXCEPT !.blocked = 0, !.failures = 0, !.flag = FALSE]
  <2>1. /\ w \in EndpointStates /\ w.blocked = 0 /\ w.failures = 0 /\ w.flag = FALSE
        /\ w.ok = e.ok /\ w.by = e.by /\ w.active = e.active
    BY <1>1 DEF EndpointStates
  <2>2. Looked(s) = [endpoint EXCEPT ![s] = w]
    BY <1>1, <1>2, <1>4 DEF Looked
  <2> HIDE DEF w
  <2>3. e.by = None /\ e.blocked <= instant
    BY <1>1, <1>4 DEF CanLook, Cooled
  <2>4. Eased(w, e)
    BY <2>1, <2>3 DEF Eased
  <2>5. \A t \in StateIds : Eased(endpoint[t], endpoint[t])
    BY DEF Eased
  <2>6. Looked(s)[s] = w /\ \A t \in StateIds : t # s => Looked(s)[t] = endpoint[t]
    BY <1>2, <2>2
  <2> QED BY <1>1, <1>2, <2>1, <2>2, <2>4, <2>5, <2>6
<1> QED BY <1>3, <1>4

Elsewhere == {"failed", "passed", "scan", "choose"}

LEMMA EasedStep ==
    ASSUME BackendInv, BackendType', LeaseHeld', LeaseCounts', PoolLockHeld',
           \A s \in StateIds : Eased(endpoint'[s], endpoint[s]),
           \A c \in Callers : caller'[c].at \in Elsewhere => caller'[c] = caller[c],
           pool'.health = pool.health, pool'.members = pool.members,
           pool'.selection = pool.selection, UNCHANGED <<revision, instant>>
    PROVE  BackendInv'
<1>1. /\ \A c \in Callers : caller'[c].at \in {"failed", "passed"} => caller'[c] = caller[c]
      /\ \A c \in Callers : caller'[c].at = "scan" => caller'[c] = caller[c]
  BY DEF Elsewhere
<1>2. LocksHeld' /\ FlagsRight' /\ \A s \in StateIds : SameReady(endpoint'[s], endpoint[s])
  BY <1>1, EasedKept
<1>3. SelectionFaithful' /\ ScansFaithful'
  BY <1>1, <1>2, SelectionsKept
<1> QED BY <1>2, <1>3 DEF BackendInv

(* Backend::lease, by a caller without a lease.                            *)
LEMMA LeaseStep ==
    ASSUME BackendInv, NEW c \in Callers, caller[c].lease = NoLease, NEW s \in StateIds,
           NEW states \in [StateIds -> EndpointStates],
           \A t \in StateIds : Eased(states[t], endpoint[t]) /\ states[t].active = endpoint[t].active,
           Lease(c, s, states), UNCHANGED <<pool, revision, upkeep, instant>>,
           poolLock' = poolLock \/ (poolLock = c /\ poolLock' = None)
    PROVE  BackendInv'
<1> USE BackendNumbers
<1>1. /\ BackendType /\ LeaseHeld /\ LeaseCounts /\ PoolLockHeld
      /\ caller \in [Callers -> CallerStates] /\ inflight \in Int
  BY DEF BackendInv, BackendType
<1>2. SUFFICES ASSUME NEW w \in CallerStates, caller' = [caller EXCEPT ![c] = w],
                      w.at \in {"idle", "leased"}, w.at = "leased" <=> w.lease # NoLease,
                      endpoint' \in [StateIds -> EndpointStates],
                      \A t \in StateIds : Eased(endpoint'[t], endpoint[t]),
                      inflight' \in Int, LeaseCounts'
               PROVE  BackendInv'
  <2>1. CASE HasRoom
    <3>1. /\ inflight' = inflight + 1 /\ endpoint' = [states EXCEPT ![s].active = @ + 1]
          /\ caller' = [caller EXCEPT ![c] = [Resting EXCEPT !.at = "leased", !.lease = s]]
      BY <2>1 DEF Lease
    <3> DEFINE w == [Resting EXCEPT !.at = "leased", !.lease = s]
    <3>2. w \in CallerStates /\ w.at = "leased" /\ w.lease = s
      BY RestingIs DEF CallerStates, CallerAts
    <3> HIDE DEF w
    <3>3. PICK e, n : e = states[s] /\ n = e.active + 1 /\ e \in EndpointStates /\ e.active \in Int /\ n \in Int
      BY DEF EndpointStates
    <3> DEFINE v == [e EXCEPT !.active = n]
    <3>4. /\ v \in EndpointStates /\ v.active = n /\ v.flag = e.flag /\ v.failures = e.failures
          /\ v.blocked = e.blocked /\ v.ok = e.ok /\ v.by = e.by
      BY <3>3 DEF EndpointStates
    <3>5. endpoint' = [states EXCEPT ![s] = v]
      BY <3>1, <3>3
    <3> HIDE DEF v
    <3>6. endpoint'[s] = v /\ \A t \in StateIds : t # s => endpoint'[t] = states[t]
      BY <3>5
    <3>7. endpoint' \in [StateIds -> EndpointStates]
      BY <3>4, <3>5
    <3>8. Eased(v, endpoint[s])
      <4>1. Eased(e, endpoint[s])
        BY <3>3
      <4> QED BY <3>4, <4>1 DEF Eased
    <3>9. \A t \in StateIds : Eased(endpoint'[t], endpoint[t])
      BY <3>6, <3>8
    <3>10. LeaseCounts'
      <4>1. /\ \A t \in StateIds : endpoint'[t].active \in Int
            /\ \A t \in StateIds : t # s => endpoint'[t].active = endpoint[t].active
            /\ endpoint'[s].active = endpoint[s].active + 1
        BY <3>3, <3>4, <3>6, <3>7 DEF EndpointStates
      <4>2. inflight' \in Int /\ caller' = [caller EXCEPT ![c] = w]
        BY <1>1, <3>1 DEF w
      <4> QED BY <1>1, <2>1, <3>1, <3>2, <4>1, <4>2, LeaseChanges, ZenonT(30)
    <3>11. caller' = [caller EXCEPT ![c] = w] /\ inflight' \in Int
      BY <1>1, <3>1 DEF w
    <3>12. w.at \in {"idle", "leased"} /\ (w.at = "leased" <=> w.lease # NoLease)
      BY <3>2
    <3> QED BY <1>2, <3>2, <3>7, <3>9, <3>10, <3>11, <3>12
  <2>2. CASE ~HasRoom
    <3>1. endpoint' = states /\ inflight' = inflight /\ caller' = [caller EXCEPT ![c] = Resting]
      BY <2>2 DEF Lease
    <3>2. \A d \in Callers : caller'[d].lease = caller[d].lease
      BY <1>1, <3>1, RestingIs
    <3>3. LeaseCounts'
      BY <1>1, <3>1, <3>2, LeasesKept
    <3> QED BY <1>1, <1>2, <3>1, <3>3, RestingIs
  <2> QED BY <2>1, <2>2
<1>3. caller'[c] = w /\ \A d \in Callers : d # c => caller'[d] = caller[d]
  BY <1>1, <1>2
<1>4. BackendType'
  BY <1>1, <1>2 DEF BackendType
<1>5. LeaseHeld'
  BY <1>1, <1>2, <1>3 DEF LeaseHeld, WithLease
<1>6. PoolLockHeld'
  BY <1>1, <1>2, <1>3 DEF PoolLockHeld
<1>7. \A d \in Callers : caller'[d].at \in Elsewhere => caller'[d] = caller[d]
  BY <1>2, <1>3 DEF Elsewhere
<1> QED BY <1>2, <1>4, <1>5, <1>6, <1>7, EasedStep

LEMMA SelectOnlyInv == ASSUME BackendInv, NEW c \in Callers, SelectOnly(c) PROVE BackendInv'
<1>1. /\ BackendType /\ LeaseHeld /\ LeaseCounts /\ PoolLockHeld /\ caller[c].at = "idle"
      /\ pool.members \in SUBSET StateIds
  BY DEF BackendInv, BackendType, PoolStates, SelectOnly
<1>2. caller[c].lease = NoLease
  BY <1>1 DEF LeaseHeld, WithLease
<1>3. PICK s \in pool.members :
        /\ CanLook(s)
        /\ \/ Ready(s) /\ Lease(c, s, Looked(s))
           \/ ~Ready(s) /\ endpoint' = Looked(s) /\ UNCHANGED <<inflight, caller>>
  BY DEF SelectOnly
<1>4. /\ s \in StateIds /\ Looked(s) \in [StateIds -> EndpointStates]
      /\ \A t \in StateIds : Eased(Looked(s)[t], endpoint[t]) /\ Looked(s)[t].active = endpoint[t].active
  BY <1>1, <1>3, LookedIs
<1>5. UNCHANGED <<pool, revision, poolLock, upkeep, instant>>
  BY DEF SelectOnly
<1>6. CASE Lease(c, s, Looked(s))
  BY <1>2, <1>4, <1>5, <1>6, LeaseStep
<1>7. CASE endpoint' = Looked(s) /\ UNCHANGED <<inflight, caller>>
  <2>1. BackendType'
    BY <1>1, <1>4, <1>5, <1>7 DEF BackendType
  <2>2. LeaseHeld' /\ PoolLockHeld'
    BY <1>1, <1>5, <1>7 DEF LeaseHeld, PoolLockHeld
  <2>3. LeaseCounts'
    BY <1>1, <1>4, <1>7, LeasesKept
  <2> QED BY <1>4, <1>5, <1>7, <2>1, <2>2, <2>3, EasedStep
<1> QED BY <1>3, <1>6, <1>7

LEMMA ChooseInv == ASSUME BackendInv, NEW c \in Callers, Choose(c) PROVE BackendInv'
<1>1. /\ BackendType /\ LeaseHeld /\ LeaseCounts /\ PoolLockHeld /\ caller[c].at = "choose"
      /\ pool.selection.entries \in SUBSET StateIds /\ caller \in [Callers -> CallerStates]
      /\ endpoint \in [StateIds -> EndpointStates]
  BY DEF BackendInv, BackendType, PoolStates, Selections, Choose
<1>2. caller[c].lease = NoLease
  BY <1>1 DEF LeaseHeld, WithLease
<1>3. poolLock = c /\ poolLock' = None /\ UNCHANGED <<pool, revision, upkeep, instant>>
  BY DEF Choose
<1>4. \A t \in StateIds : Eased(endpoint[t], endpoint[t])
  BY DEF Eased
<1>5. CASE \E s \in pool.selection.entries : Lease(c, s, endpoint)
  BY <1>1, <1>2, <1>3, <1>4, <1>5, LeaseStep
<1>6. CASE \E w \in CallerStates :
             /\ w.at \in {"idle", "hash"} /\ w.lease = NoLease
             /\ caller' = [caller EXCEPT ![c] = w] /\ UNCHANGED <<endpoint, inflight>>
  <2>1. PICK w \in CallerStates :
             /\ w.at \in {"idle", "hash"} /\ w.lease = NoLease
             /\ caller' = [caller EXCEPT ![c] = w] /\ UNCHANGED <<endpoint, inflight>>
    BY <1>6
  <2>2. caller'[c] = w /\ \A d \in Callers : d # c => caller'[d] = caller[d]
    BY <1>1, <2>1
  <2>3. BackendType'
    BY <1>1, <1>3, <2>1 DEF BackendType
  <2>4. LeaseHeld'
    BY <1>1, <2>1, <2>2 DEF LeaseHeld, WithLease
  <2>5. PoolLockHeld'
    BY <1>1, <1>3, <2>1, <2>2 DEF PoolLockHeld
  <2>6. LeaseCounts'
    <3>1. \A d \in Callers : caller'[d].lease = caller[d].lease
      BY <1>2, <2>1, <2>2
    <3> QED BY <1>1, <2>1, <3>1, LeasesKept
  <2>7. \A d \in Callers : caller'[d].at \in Elsewhere => caller'[d] = caller[d]
    BY <2>1, <2>2 DEF Elsewhere
  <2> QED BY <1>3, <1>4, <2>1, <2>3, <2>4, <2>5, <2>6, <2>7, EasedStep
<1>7. PICK E : E = pool.selection.entries
  OBVIOUS
<1> DEFINE w == [Resting EXCEPT !.at = "hash", !.entries = E]
<1>8. w \in CallerStates /\ w.at = "hash" /\ w.lease = NoLease
  BY <1>1, <1>7, RestingIs DEF CallerStates, CallerAts
<1>9. \/ caller' = [caller EXCEPT ![c] = Resting] /\ UNCHANGED <<endpoint, inflight>>
      \/ \E s \in pool.selection.entries : Lease(c, s, endpoint)
      \/ caller' = [caller EXCEPT ![c] = w] /\ UNCHANGED <<endpoint, inflight>>
  BY <1>7 DEF Choose
<1> HIDE DEF w
<1> QED BY <1>5, <1>6, <1>8, <1>9, RestingIs

LEMMA ChooseHashedInv == ASSUME BackendInv, NEW c \in Callers, ChooseHashed(c) PROVE BackendInv'
<1>1. /\ LeaseHeld /\ caller[c].at = "hash" /\ caller[c].entries \in SUBSET StateIds
      /\ endpoint \in [StateIds -> EndpointStates]
  BY DEF BackendInv, BackendType, CallerStates, ChooseHashed
<1>2. caller[c].lease = NoLease
  BY <1>1 DEF LeaseHeld, WithLease
<1>3. PICK s \in StateIds : Lease(c, s, endpoint)
  BY <1>1 DEF ChooseHashed
<1>4. \A t \in StateIds : Eased(endpoint[t], endpoint[t])
  BY DEF Eased
<1>5. UNCHANGED <<pool, revision, poolLock, upkeep, instant>>
  BY DEF ChooseHashed
<1> QED BY <1>1, <1>2, <1>3, <1>4, <1>5, LeaseStep

LEMMA SelectBeginInv == ASSUME BackendInv, NEW c \in Callers, SelectBegin(c) PROVE BackendInv'
<1>1. /\ BackendType /\ LeaseHeld /\ LeaseCounts /\ PoolLockHeld /\ caller[c].at = "idle"
      /\ pool.members \in SUBSET StateIds /\ caller \in [Callers -> CallerStates] /\ revision \in Nat
  BY DEF BackendInv, BackendType, PoolStates, SelectBegin
<1>2. /\ poolLock = None /\ poolLock' = c
      /\ UNCHANGED <<pool, endpoint, revision, inflight, upkeep, instant>>
  BY DEF SelectBegin
<1>3. PICK w \in CallerStates :
        /\ caller' = [caller EXCEPT ![c] = w] /\ w.lease = NoLease
        /\ \/ w.at = "choose"
           \/ /\ w.at = "scan" /\ w.left = pool.members /\ w.entries = {} /\ w.expires = 0
              /\ w.revision = revision
  <2>1. PICK M, n : M = pool.members /\ n = revision
    OBVIOUS
  <2> DEFINE v == [Resting EXCEPT !.at = "choose"]
             w == [Resting EXCEPT !.at = "scan", !.revision = n, !.left = M]
  <2>2. v \in CallerStates /\ v.at = "choose" /\ v.lease = NoLease
    BY RestingIs DEF CallerStates, CallerAts
  <2>3. /\ w \in CallerStates /\ w.at = "scan" /\ w.lease = NoLease /\ w.left = M /\ w.entries = {}
        /\ w.expires = 0 /\ w.revision = n
    BY <1>1, <2>1, RestingIs DEF CallerStates, CallerAts
  <2>4. caller' = [caller EXCEPT ![c] = v] \/ caller' = [caller EXCEPT ![c] = w]
    BY <2>1 DEF SelectBegin
  <2> HIDE DEF v, w
  <2> QED BY <2>1, <2>2, <2>3, <2>4
<1>4. caller'[c] = w /\ \A d \in Callers : d # c => caller'[d] = caller[d]
  BY <1>1, <1>3
<1>5. BackendType'
  BY <1>1, <1>2, <1>3 DEF BackendType
<1>6. LeaseHeld' /\ \A d \in Callers : caller'[d].lease = caller[d].lease
  BY <1>1, <1>3, <1>4 DEF LeaseHeld, WithLease
<1>7. LeaseCounts'
  BY <1>1, <1>2, <1>6, LeasesKept
<1>8. PoolLockHeld'
  BY <1>1, <1>2, <1>4, BackendNumbers DEF PoolLockHeld
<1>9. LocksHeld' /\ FlagsRight'
  <2>1. \A t \in StateIds : Eased(endpoint'[t], endpoint[t])
    BY <1>2 DEF Eased
  <2>2. \A d \in Callers : caller'[d].at \in {"failed", "passed"} => caller'[d] = caller[d]
    BY <1>3, <1>4
  <2> QED BY <1>5, <1>6, <2>1, <2>2, EasedKept
<1>10. SelectionFaithful'
  BY <1>2 DEF BackendInv, SelectionFaithful, Faithful, Select, Eject
<1>11. ScansFaithful'
  <2>1. ASSUME NEW d \in Callers, d # c, caller'[d].at = "scan" PROVE FALSE
    BY <1>1, <1>2, <1>4, <2>1, BackendNumbers DEF PoolLockHeld
  <2>2. ASSUME w.at = "scan" PROVE ScanFaithful(w)'
    <3>1. w.left = pool.members /\ w.entries = {} /\ w.expires = 0 /\ w.revision = revision
      BY <1>3, <2>2
    <3>2. pool.members \ w.left = {}
      BY <3>1
    <3> QED BY <1>1, <1>2, <3>1, <3>2 DEF ScanFaithful, Faithful
  <2> QED BY <1>4, <2>1, <2>2 DEF ScansFaithful, ScanFaithful
<1> QED BY <1>5, <1>6, <1>7, <1>8, <1>9, <1>10, <1>11 DEF BackendInv

LEMMA MaintenanceInv ==
    ASSUME BackendInv, MaintainBegin \/ LookupSucceeds \/ LookupFails \/ ProbeSnapshot
    PROVE  BackendInv'
<1>1. /\ BackendType /\ LeaseHeld /\ LeaseCounts /\ PoolLockHeld /\ pool \in PoolStates
      /\ upkeep \in UpkeepStates /\ instant \in Nat
  BY DEF BackendInv, BackendType
<1>2. poolLock = None /\ UNCHANGED <<endpoint, revision, inflight, poolLock, caller, instant>>
  BY DEF MaintainBegin, LookupSucceeds, LookupFails, ProbeSnapshot
<1>3. \A t \in StateIds : Eased(endpoint'[t], endpoint[t])
  BY <1>2 DEF Eased
<1>4. \A d \in Callers : caller[d].at # "scan"
  BY <1>1, <1>2, BackendNumbers DEF PoolLockHeld
<1>5. LeaseHeld' /\ PoolLockHeld'
  BY <1>1, <1>2 DEF LeaseHeld, PoolLockHeld
<1>6. LeaseCounts'
  BY <1>1, <1>2, LeasesKept
<1>7. SUFFICES ASSUME TRUE
      PROVE /\ pool' \in PoolStates /\ upkeep' \in UpkeepStates /\ pool'.health = pool.health
            /\ \/ pool'.selection = pool.selection /\ pool'.members = pool.members
               \/ pool'.selection = NoSelection
  <2>1. BackendType'
    BY <1>1, <1>2, <1>7 DEF BackendType
  <2>2. LocksHeld' /\ FlagsRight' /\ \A s \in StateIds : SameReady(endpoint'[s], endpoint[s])
    BY <1>2, <1>3, <1>5, <2>1, EasedKept
  <2>3. ScansFaithful'
    BY <1>2, <1>4 DEF ScansFaithful
  <2>4. SelectionFaithful'
    <3>1. CASE pool'.selection = NoSelection
      BY <3>1 DEF SelectionFaithful, NoSelection
    <3>2. CASE pool'.selection = pool.selection /\ pool'.members = pool.members
      BY <1>2, <1>7, <2>1, <2>2, <3>2, SelectionsKept
    <3> QED BY <1>7, <3>1, <3>2
  <2> QED BY <1>5, <1>6, <2>1, <2>2, <2>3, <2>4 DEF BackendInv
<1>8. NoUpkeep \in UpkeepStates /\ NoSelection \in Selections
  BY DEF NoUpkeep, UpkeepStates, NoSelection, Selections
<1>9. CASE MaintainBegin
  <2>1. PICK dns \in BOOLEAN, health \in BOOLEAN :
          /\ pool' = [pool EXCEPT !.nextDns = IF dns THEN instant + 1 ELSE @,
                                  !.nextHealth = IF health THEN instant + 1 ELSE @]
          /\ upkeep' = [at |-> IF dns THEN "lookup" ELSE "snapshot", since |-> instant,
                        probes |-> {}, probing |-> health]
    BY <1>9 DEF MaintainBegin
  <2>2. PICK n \in Nat, m \in Nat : pool' = [pool EXCEPT !.nextDns = n, !.nextHealth = m]
    <3>1. pool.nextDns \in Nat /\ pool.nextHealth \in Nat /\ instant + 1 \in Nat
      BY <1>1 DEF PoolStates
    <3>2. PICK n, m : n = (IF dns THEN instant + 1 ELSE pool.nextDns) /\ m = (IF health THEN instant + 1 ELSE pool.nextHealth)
      OBVIOUS
    <3>3. n \in Nat /\ m \in Nat
      BY <3>1, <3>2
    <3>4. pool' = [pool EXCEPT !.nextDns = n, !.nextHealth = m]
      BY <1>1, <2>1, <3>2 DEF PoolStates
    <3> QED BY <3>3, <3>4
  <2>3. pool' \in PoolStates
    BY <1>1, <2>2 DEF PoolStates
  <2>4. pool'.health = pool.health /\ pool'.selection = pool.selection /\ pool'.members = pool.members
    BY <1>1, <2>2 DEF PoolStates
  <2>5. upkeep' \in UpkeepStates
    BY <1>1, <2>1 DEF UpkeepStates
  <2> QED BY <2>3, <2>4, <2>5
<1>10. Afterwards \in UpkeepStates
  BY <1>1, <1>8 DEF Afterwards, UpkeepStates
<1>11. CASE LookupSucceeds
  <2>1. PICK found \in SUBSET Addresses :
          /\ \A a \in found : (\E s \in pool.members : s[1] = a) \/ HasUnused(a)
          /\ pool' = Resolved(found) /\ upkeep' = Afterwards
    BY <1>11 DEF LookupSucceeds
  <2>2. PICK kept, new : /\ kept = {s \in pool.members : s[1] \in found}
                         /\ new = found \ {s[1] : s \in kept}
    OBVIOUS
  <2>3. kept \in SUBSET StateIds /\ new \in SUBSET found
    BY <1>1, <2>2 DEF PoolStates
  <2>4. ASSUME NEW a \in new PROVE NewState(a) \in StateIds
    <3>1. ~\E s \in pool.members : s[1] = a
      BY <2>2, <2>4
    <3>2. a \in Addresses /\ \E i \in 0..MaxIncarnation : Unused(<<a, i>>)
      BY <2>1, <2>3, <2>4, <3>1 DEF HasUnused
    <3>3. PICK i \in 0..MaxIncarnation : i = CHOOSE j \in 0..MaxIncarnation : Unused(<<a, j>>)
      BY <3>2
    <3> QED BY <3>2, <3>3 DEF NewState, StateIds
  <2>5. PICK M \in SUBSET StateIds, n \in Nat, m \in Nat :
          /\ M = kept \cup {NewState(a) : a \in new} /\ n = upkeep.since + 1 /\ m = upkeep.since
    <3>1. upkeep.since \in Nat
      BY <1>1 DEF UpkeepStates
    <3>2. kept \cup {NewState(a) : a \in new} \in SUBSET StateIds
      BY <2>3, <2>4
    <3>3. upkeep.since + 1 \in Nat
      BY <3>1
    <3> QED BY <3>1, <3>2, <3>3, Zenon
  <2>6. pool' = [pool EXCEPT !.members = M, !.selection = NoSelection, !.nextDns = n, !.dnsSuccess = m]
    BY <2>1, <2>2, <2>5 DEF Resolved
  <2>7. pool' \in PoolStates
    BY <1>1, <1>8, <2>6 DEF PoolStates
  <2>8. pool'.health = pool.health /\ pool'.selection = NoSelection
    BY <1>1, <2>6 DEF PoolStates
  <2> QED BY <1>10, <2>1, <2>7, <2>8
<1>12. CASE LookupFails
  <2>1. CASE pool' = pool
    BY <1>1, <1>10, <1>12, <2>1 DEF LookupFails
  <2>2. CASE pool' = [pool EXCEPT !.members = {}, !.selection = NoSelection]
    <3>1. pool' \in PoolStates /\ pool'.health = pool.health /\ pool'.selection = NoSelection
      BY <1>1, <1>8, <2>2 DEF PoolStates
    <3> QED BY <1>10, <1>12, <3>1 DEF LookupFails
  <2> QED BY <1>12, <2>1, <2>2 DEF LookupFails
<1>13. CASE ProbeSnapshot
  <2>1. pool' = pool /\ pool.members \in SUBSET StateIds
    BY <1>1, <1>13 DEF ProbeSnapshot, PoolStates
  <2>2. upkeep' \in UpkeepStates
    BY <1>1, <1>8, <1>13, <2>1 DEF ProbeSnapshot, UpkeepStates
  <2> QED BY <1>1, <2>1, <2>2
<1> QED BY <1>9, <1>11, <1>12, <1>13

(* One endpoint of the scan.                                               *)
LEMMA FaithfulScan ==
    ASSUME BackendInv, NEW E \in SUBSET StateIds, NEW S \in SUBSET StateIds, NEW rev \in Nat,
           NEW exp \in Nat, Faithful(E, S, rev, exp), NEW s \in StateIds, s \notin S
    PROVE  Faithful(IF Ready(s) THEN E \cup {s} ELSE E, S \cup {s}, rev, Sooner(exp, s))
<1>1. PICK e : e = endpoint[s] /\ e.blocked \in Nat /\ e.flag \in BOOLEAN
  BY DEF BackendInv, BackendType, EndpointStates
<1>2. instant \in Nat /\ pool.health \in BOOLEAN /\ FlagRight(e)
  BY <1>1 DEF BackendInv, BackendType, PoolStates, FlagsRight
<1>3. Ready(s) <=> Select(endpoint[s])
  BY <1>1, <1>2 DEF Ready, Select, Eject, Ejected, Unlocked, FlagRight
<1>4. PICK x : x = Sooner(exp, s)
  OBVIOUS
<1>5. /\ ~Eject(endpoint[s]) => x = exp
      /\ Eject(endpoint[s]) => x # 0 /\ x <= e.blocked /\ (exp # 0 => x <= exp) /\ x \in Nat /\ x > 0
      /\ Eject(endpoint[s]) => x = exp \/ x > instant
  BY <1>1, <1>2, <1>4 DEF Sooner, Eject, Ejected, Unlocked, FlagRight
<1>6. \A t \in S : endpoint[t].blocked \in Nat
  BY DEF BackendInv, BackendType, EndpointStates
<1>7. SUFFICES ASSUME rev = revision
               PROVE  /\ \A t \in S \cup {s} : Eject(endpoint[t]) => x # 0 /\ x <= endpoint[t].blocked
                      /\ x = 0 \/ x > instant =>
                           (IF Ready(s) THEN E \cup {s} ELSE E) = {t \in S \cup {s} : Select(endpoint[t])}
  BY <1>4 DEF Faithful
<1>8. /\ \A t \in S : Eject(endpoint[t]) => exp # 0 /\ exp <= endpoint[t].blocked
      /\ exp = 0 \/ exp > instant => E = {t \in S : Select(endpoint[t])}
  BY <1>7 DEF Faithful
<1>9. ASSUME NEW t \in S \cup {s}, Eject(endpoint[t]) PROVE x # 0 /\ x <= endpoint[t].blocked
  BY <1>1, <1>5, <1>6, <1>8, <1>9
<1>10. ASSUME x = 0 \/ x > instant
       PROVE  (IF Ready(s) THEN E \cup {s} ELSE E) = {t \in S \cup {s} : Select(endpoint[t])}
  <2>1. exp = 0 \/ exp > instant
    BY <1>2, <1>5, <1>10
  <2>2. E = {t \in S : Select(endpoint[t])}
    BY <1>8, <2>1
  <2> QED BY <1>3, <2>2
<1> QED BY <1>9, <1>10

LEMMA ScanInv == ASSUME BackendInv, NEW c \in Callers, Scan(c) PROVE BackendInv'
<1>1. PICK r, s : /\ r = caller[c] /\ s \in r.left /\ CanLook(s) /\ endpoint' = Looked(s)
                  /\ caller' = [caller EXCEPT ![c].left = @ \ {s},
                                              ![c].entries = IF Ready(s) THEN @ \cup {s} ELSE @,
                                              ![c].expires = Sooner(@, s)]
  BY DEF Scan
<1>2. r.at = "scan" /\ UNCHANGED <<pool, revision, inflight, poolLock, upkeep, instant>>
  BY <1>1 DEF Scan
<1>3. /\ BackendType /\ LeaseHeld /\ LeaseCounts /\ PoolLockHeld /\ ScansFaithful
      /\ caller \in [Callers -> CallerStates] /\ r \in CallerStates
      /\ r.left \in SUBSET StateIds /\ r.entries \in SUBSET StateIds /\ r.expires \in Nat
      /\ r.revision \in Nat /\ pool.members \in SUBSET StateIds
  BY <1>1 DEF BackendInv, BackendType, CallerStates, PoolStates
<1>4. s \in StateIds /\ r.left \subseteq pool.members
      /\ Faithful(r.entries, pool.members \ r.left, r.revision, r.expires)
  BY <1>1, <1>2, <1>3 DEF ScansFaithful, ScanFaithful
<1>5. PICK L, E, x : /\ L = r.left \ {s} /\ E = (IF Ready(s) THEN r.entries \cup {s} ELSE r.entries)
                     /\ x = Sooner(r.expires, s)
  OBVIOUS
<1>6. L \in SUBSET StateIds /\ E \in SUBSET StateIds /\ x \in Nat
  <2>1. x \in Nat
    BY <1>3, <1>4, <1>5 DEF Sooner, BackendType, EndpointStates
  <2> QED BY <1>3, <1>4, <1>5, <2>1
<1> DEFINE w == [r EXCEPT !.left = L, !.entries = E, !.expires = x]
<1>7. w \in CallerStates
  BY <1>3, <1>6 DEF CallerStates
<1>8. /\ w.at = "scan" /\ w.lease = r.lease /\ w.left = L /\ w.entries = E /\ w.expires = x
      /\ w.revision = r.revision
  BY <1>2, <1>3 DEF CallerStates
<1>9. caller' = [caller EXCEPT ![c] = w]
  <2>1. caller' = [caller EXCEPT ![c].left = L, ![c].entries = E, ![c].expires = x]
    BY <1>1, <1>3, <1>5 DEF CallerStates
  <2> QED BY <1>1, <1>3, <2>1
<1> HIDE DEF w
<1>10. caller'[c] = w /\ \A d \in Callers : d # c => caller'[d] = caller[d]
  BY <1>3, <1>9
<1>11. /\ Looked(s) \in [StateIds -> EndpointStates]
       /\ \A t \in StateIds : Eased(endpoint'[t], endpoint[t]) /\ endpoint'[t].active = endpoint[t].active
  BY <1>1, <1>3, <1>4, LookedIs
<1>12. BackendType'
  <2>1. endpoint' \in [StateIds -> EndpointStates]
    BY <1>1, <1>11
  <2>2. caller' \in [Callers -> CallerStates]
    BY <1>3, <1>7, <1>9
  <2> QED BY <1>2, <1>3, <2>1, <2>2 DEF BackendType
<1>13. LeaseHeld' /\ PoolLockHeld' /\ \A d \in Callers : caller'[d].lease = caller[d].lease
  <2>1. \A d \in Callers : caller'[d].lease = caller[d].lease /\ caller'[d].at = caller[d].at
    BY <1>1, <1>2, <1>8, <1>10
  <2> QED BY <1>2, <1>3, <2>1 DEF LeaseHeld, PoolLockHeld
<1>14. LeaseCounts'
  BY <1>2, <1>3, <1>11, <1>13, LeasesKept
<1>15. LocksHeld' /\ FlagsRight' /\ \A t \in StateIds : SameReady(endpoint'[t], endpoint[t])
  <2>1. \A d \in Callers : caller'[d].at \in {"failed", "passed"} => caller'[d] = caller[d]
    BY <1>8, <1>10
  <2> QED BY <1>11, <1>12, <1>13, <2>1, EasedKept
<1>16. SelectionFaithful'
  <2>1. PICK B, M, rev, exp : /\ B = pool.selection.entries /\ M = pool.members
                              /\ rev = pool.selection.revision /\ exp = pool.selection.expires
    OBVIOUS
  <2>2. M \in SUBSET StateIds /\ rev \in Nat /\ exp \in Nat
    BY <1>3, <2>1 DEF BackendType, PoolStates, Selections
  <2>3. ASSUME pool.selection.built PROVE Faithful(B, M, rev, exp)'
    <3>1. Faithful(B, M, rev, exp)
      BY <2>1, <2>3 DEF BackendInv, SelectionFaithful
    <3> QED BY <1>2, <1>3, <1>12, <1>15, <2>2, <3>1, FaithfulKept
  <2> QED BY <1>2, <2>1, <2>3 DEF SelectionFaithful
<1>17. ScansFaithful'
  <2>1. ASSUME NEW d \in Callers, d # c, caller'[d].at = "scan" PROVE FALSE
    BY <1>1, <1>2, <1>3, <1>10, <2>1 DEF PoolLockHeld
  <2>2. PICK M, rev, S : M = pool.members /\ rev = r.revision /\ S = M \ L
    OBVIOUS
  <2>3. S = (M \ r.left) \cup {s} /\ s \notin M \ r.left
    BY <1>1, <1>4, <1>5, <2>2
  <2>4. Faithful(E, S, rev, x)
    <3>1. M \ r.left \in SUBSET StateIds /\ Faithful(r.entries, M \ r.left, rev, r.expires)
      BY <1>3, <1>4, <2>2
    <3>2. Faithful(IF Ready(s) THEN r.entries \cup {s} ELSE r.entries, (M \ r.left) \cup {s}, rev,
                   Sooner(r.expires, s))
      BY <1>3, <1>4, <2>2, <2>3, <3>1, FaithfulScan
    <3> QED BY <1>5, <2>3, <3>2
  <2>5. Faithful(E, S, rev, x)'
    BY <1>2, <1>3, <1>6, <1>12, <1>15, <2>2, <2>4, FaithfulKept
  <2>6. ScanFaithful(w)'
    BY <1>2, <1>4, <1>5, <1>8, <2>2, <2>5 DEF ScanFaithful
  <2> QED BY <1>10, <2>1, <2>6 DEF ScansFaithful, ScanFaithful
<1> QED BY <1>12, <1>13, <1>14, <1>15, <1>16, <1>17 DEF BackendInv

LEMMA CacheSelectionInv == ASSUME BackendInv, NEW c \in Callers, CacheSelection(c) PROVE BackendInv'
<1>1. PICK r : r = caller[c]
  OBVIOUS
<1>2. /\ r.at = "scan" /\ r.left = {} /\ caller' = [caller EXCEPT ![c] = [Resting EXCEPT !.at = "choose"]]
      /\ pool' = [pool EXCEPT !.selection = [built |-> TRUE, entries |-> r.entries,
                                             revision |-> r.revision, expires |-> r.expires]]
      /\ UNCHANGED <<endpoint, revision, inflight, poolLock, upkeep, instant>>
  BY <1>1 DEF CacheSelection
<1>3. /\ BackendType /\ LeaseHeld /\ LeaseCounts /\ PoolLockHeld /\ ScansFaithful /\ pool \in PoolStates
      /\ caller \in [Callers -> CallerStates] /\ r.entries \in SUBSET StateIds /\ r.expires \in Nat
      /\ r.revision \in Nat
  BY <1>1 DEF BackendInv, BackendType, CallerStates
<1> DEFINE w == [Resting EXCEPT !.at = "choose"]
           sel == [built |-> TRUE, entries |-> r.entries, revision |-> r.revision, expires |-> r.expires]
<1>4. w \in CallerStates /\ w.at = "choose" /\ w.lease = NoLease
  BY RestingIs DEF CallerStates, CallerAts
<1>5. /\ sel \in Selections /\ sel.built = TRUE /\ sel.entries = r.entries
      /\ sel.revision = r.revision /\ sel.expires = r.expires
  BY <1>3 DEF Selections
<1>6. caller' = [caller EXCEPT ![c] = w] /\ pool' = [pool EXCEPT !.selection = sel]
  BY <1>2
<1> HIDE DEF w, sel
<1>7. /\ pool' \in PoolStates /\ pool'.selection = sel /\ pool'.health = pool.health
      /\ pool'.members = pool.members
  BY <1>3, <1>5, <1>6 DEF PoolStates
<1>8. caller'[c] = w /\ \A d \in Callers : d # c => caller'[d] = caller[d]
  BY <1>3, <1>6
<1>9. r.lease = NoLease /\ poolLock = c
  BY <1>1, <1>2, <1>3 DEF LeaseHeld, WithLease, PoolLockHeld
<1>10. BackendType'
  BY <1>2, <1>3, <1>4, <1>6, <1>7 DEF BackendType
<1>11. LeaseHeld' /\ \A d \in Callers : caller'[d].lease = caller[d].lease
  BY <1>1, <1>3, <1>4, <1>8, <1>9 DEF LeaseHeld, WithLease
<1>12. LeaseCounts'
  BY <1>2, <1>3, <1>11, LeasesKept
<1>13. PoolLockHeld'
  BY <1>2, <1>3, <1>8, <1>9 DEF PoolLockHeld
<1>14. LocksHeld' /\ FlagsRight'
  <2>1. \A t \in StateIds : Eased(endpoint'[t], endpoint[t])
    BY <1>2 DEF Eased
  <2>2. \A d \in Callers : caller'[d].at \in {"failed", "passed"} => caller'[d] = caller[d]
    BY <1>4, <1>8
  <2> QED BY <1>10, <1>11, <2>1, <2>2, EasedKept
<1>15. ScansFaithful'
  <2>1. ASSUME NEW d \in Callers, caller'[d].at = "scan" PROVE FALSE
    BY <1>3, <1>4, <1>8, <1>9, <2>1 DEF PoolLockHeld
  <2> QED BY <2>1 DEF ScansFaithful
<1>16. SelectionFaithful'
  <2>1. ScanFaithful(r) /\ pool.members \ r.left = pool.members
    BY <1>1, <1>2, <1>3 DEF ScansFaithful
  <2>2. PICK E, M, rev, exp : E = r.entries /\ M = pool.members /\ rev = r.revision /\ exp = r.expires
    OBVIOUS
  <2>3. Faithful(E, M, rev, exp)
    BY <2>1, <2>2 DEF ScanFaithful
  <2>4. Faithful(E, M, rev, exp)'
    BY <1>2, <1>7, <2>3 DEF Faithful, Select, Eject
  <2> QED BY <1>5, <1>7, <2>2, <2>4 DEF SelectionFaithful
<1> QED BY <1>10, <1>11, <1>12, <1>13, <1>14, <1>15, <1>16 DEF BackendInv

LEMMA DropLeaseInv == ASSUME BackendInv, NEW c \in Callers, DropLease(c) PROVE BackendInv'
<1>1. PICK s : s = caller[c].lease
  OBVIOUS
<1>2. /\ caller[c].at \in {"leased", "done"} /\ endpoint' = [endpoint EXCEPT ![s].active = @ - 1]
      /\ inflight' = inflight - 1 /\ caller' = [caller EXCEPT ![c] = Resting]
      /\ UNCHANGED <<pool, revision, poolLock, upkeep, instant>>
  BY <1>1 DEF DropLease
<1>3. /\ BackendType /\ LeaseHeld /\ LeaseCounts /\ PoolLockHeld /\ inflight \in Int
      /\ caller \in [Callers -> CallerStates] /\ endpoint \in [StateIds -> EndpointStates]
  BY DEF BackendInv, BackendType
<1>4. s \in StateIds
  BY <1>1, <1>2, <1>3 DEF LeaseHeld, WithLease, CallerStates
<1>5. PICK e, n : e = endpoint[s] /\ n = e.active - 1 /\ e \in EndpointStates /\ n \in Int
  BY <1>3, <1>4 DEF EndpointStates
<1> DEFINE v == [e EXCEPT !.active = n]
<1>6. /\ v \in EndpointStates /\ v.active = n /\ v.flag = e.flag /\ v.failures = e.failures
      /\ v.blocked = e.blocked /\ v.ok = e.ok /\ v.by = e.by
  BY <1>5 DEF EndpointStates
<1>7. endpoint' = [endpoint EXCEPT ![s] = v]
  BY <1>2, <1>3, <1>5
<1> HIDE DEF v
<1>8. endpoint'[s] = v /\ \A t \in StateIds : t # s => endpoint'[t] = endpoint[t]
  BY <1>3, <1>4, <1>7
<1>9. /\ endpoint' \in [StateIds -> EndpointStates] /\ \A t \in StateIds : endpoint'[t].active \in Int
      /\ \A t \in StateIds : t # s => endpoint'[t].active = endpoint[t].active
      /\ endpoint'[s].active = endpoint[s].active - 1
  BY <1>3, <1>5, <1>6, <1>7, <1>8 DEF EndpointStates
<1>10. \A t \in StateIds : Eased(endpoint'[t], endpoint[t])
  BY <1>5, <1>6, <1>8 DEF Eased
<1>11. caller'[c] = Resting /\ \A d \in Callers : d # c => caller'[d] = caller[d]
  BY <1>2, <1>3
<1>12. BackendType'
  BY <1>2, <1>3, <1>9, RestingIs DEF BackendType
<1>13. LeaseHeld' /\ PoolLockHeld'
  BY <1>2, <1>3, <1>11, RestingIs DEF LeaseHeld, WithLease, PoolLockHeld
<1>14. LeaseCounts'
  <2>1. inflight' \in Int
    BY <1>2, <1>3
  <2> QED BY <1>1, <1>2, <1>3, <1>4, <1>9, <2>1, RestingIs, LeaseChanges
<1>15. \A d \in Callers : caller'[d].at \in Elsewhere => caller'[d] = caller[d]
  BY <1>11, RestingIs DEF Elsewhere
<1> QED BY <1>2, <1>10, <1>12, <1>13, <1>14, <1>15, EasedStep

(***************************************************************************)
(* record_result and set_active_health change one endpoint, s, whose lock  *)
(* is free or held by the caller itself.                                   *)
(***************************************************************************)
OwnLock(s) ==
    \A c \in Callers : caller'[c].at \in {"failed", "passed"} =>
        IF caller[c].lease = s THEN LockHeld(endpoint'[s], c, caller'[c].at)
                               ELSE caller'[c].at = caller[c].at
KeepsCallers ==
    /\ \A c \in Callers : caller'[c].lease = caller[c].lease
    /\ \A c \in Callers : caller'[c].at \in {"scan", "choose"} => caller'[c] = caller[c]
Revised(s) == revision' = revision + 1 \/ (revision' = revision /\ SameReady(endpoint'[s], endpoint[s]))

LEMMA ResultStep ==
    ASSUME BackendInv, NEW s \in StateIds, \A t \in StateIds : t # s => endpoint'[t] = endpoint[t],
           endpoint'[s].active = endpoint[s].active, FlagRight(endpoint'[s]), BackendType', LeaseHeld',
           KeepsCallers, OwnLock(s), Revised(s),
           pool' = pool, inflight' = inflight, poolLock' = poolLock, instant' = instant
    PROVE  BackendInv'
<1>1. /\ BackendType /\ LeaseHeld /\ LeaseCounts /\ PoolLockHeld /\ LocksHeld /\ FlagsRight
      /\ endpoint \in [StateIds -> EndpointStates] /\ caller \in [Callers -> CallerStates]
  BY DEF BackendInv, BackendType
<1>2. /\ \A c \in Callers : caller'[c].lease = caller[c].lease
      /\ \A c \in Callers : caller'[c].at \in {"scan", "choose"} => caller'[c] = caller[c]
  BY DEF KeepsCallers
<1>3. LeaseCounts'
  <2>1. \A t \in StateIds : endpoint'[t].active = endpoint[t].active
    OBVIOUS
  <2> QED BY <1>1, <1>2, <2>1, LeasesKept
<1>4. PoolLockHeld'
  BY <1>1, <1>2 DEF PoolLockHeld
<1>5. FlagsRight'
  BY <1>1 DEF FlagsRight, FlagRight
<1>6. LocksHeld'
  <2>1. ASSUME NEW c \in Callers, caller'[c].at \in {"failed", "passed"}
        PROVE  LockHeld(endpoint'[caller'[c].lease], c, caller'[c].at)
    <3>1. caller'[c].lease = caller[c].lease /\ caller[c].lease \in StateIds
      <4>1. caller'[c].lease # NoLease
        BY <2>1 DEF LeaseHeld, WithLease
      <4> QED BY <1>1, <1>2, <4>1 DEF CallerStates
    <3>2. CASE caller[c].lease = s
      BY <2>1, <3>1, <3>2 DEF OwnLock
    <3>3. CASE caller[c].lease # s
      <4>1. caller'[c].at = caller[c].at /\ endpoint'[caller[c].lease] = endpoint[caller[c].lease]
        BY <2>1, <3>1, <3>3 DEF OwnLock
      <4> QED BY <1>1, <2>1, <3>1, <4>1 DEF LocksHeld
    <3> QED BY <3>2, <3>3
  <2> QED BY <2>1 DEF LocksHeld
<1>7. SelectionFaithful' /\ ScansFaithful'
  <2>1. \A t \in StateIds : t # s => SameReady(endpoint'[t], endpoint[t])
    BY DEF SameReady
  <2>2. \/ revision' = revision + 1
        \/ revision' = revision /\ \A t \in StateIds : SameReady(endpoint'[t], endpoint[t])
    BY <2>1 DEF Revised
  <2> QED BY <1>1, <1>2, <2>2, SelectionsKept
<1> QED BY <1>3, <1>4, <1>5, <1>6, <1>7 DEF BackendInv

(* The caller of record_result, whose stage alone changes.                 *)
LEMMA StageStep ==
    ASSUME BackendType, LeaseHeld, NEW c \in Callers, NEW at \in WithLease,
           caller[c].at \in WithLease, caller' = [caller EXCEPT ![c].at = at]
    PROVE  /\ caller' \in [Callers -> CallerStates] /\ LeaseHeld' /\ caller[c].lease \in StateIds
           /\ KeepsCallers
           /\ \A d \in Callers : caller'[d].at = IF d = c THEN at ELSE caller[d].at
<1>1. PICK r : r = caller[c] /\ r \in CallerStates
  BY DEF BackendType
<1>2. caller \in [Callers -> CallerStates]
  BY DEF BackendType
<1> DEFINE w == [r EXCEPT !.at = at]
<1>3. w \in CallerStates /\ w.at = at /\ w.lease = r.lease
  BY <1>1 DEF CallerStates, CallerAts, WithLease
<1>4. caller' = [caller EXCEPT ![c] = w]
  BY <1>1, <1>2
<1> HIDE DEF w
<1>5. caller'[c] = w /\ \A d \in Callers : d # c => caller'[d] = caller[d]
  BY <1>2, <1>4
<1>6. r.lease # NoLease /\ r.lease \in StateIds
  BY <1>1 DEF LeaseHeld, CallerStates
<1>7. caller' \in [Callers -> CallerStates]
  BY <1>2, <1>3, <1>4
<1>8. KeepsCallers
  BY <1>1, <1>3, <1>5 DEF WithLease, KeepsCallers
<1>9. LeaseHeld'
  BY <1>3, <1>5, <1>6 DEF LeaseHeld
<1> QED BY <1>1, <1>3, <1>5, <1>6, <1>7, <1>8, <1>9

(* Nobody else is in record_result with s when its lock is free or held by *)
(* the caller.                                                             *)
LEMMA OwnLockIs ==
    ASSUME BackendInv, NEW c \in Callers, NEW s, s = caller[c].lease, NEW at,
           \A d \in Callers : caller'[d].at = IF d = c THEN at ELSE caller[d].at,
           endpoint[s].by \in {None, c} \/ endpoint' = endpoint, LockHeld(endpoint'[s], c, at)
    PROVE  OwnLock(s)
<1> SUFFICES ASSUME NEW d \in Callers, caller'[d].at \in {"failed", "passed"}
             PROVE  IF caller[d].lease = s THEN LockHeld(endpoint'[s], d, caller'[d].at)
                                           ELSE caller'[d].at = caller[d].at
  BY DEF OwnLock
<1>1. CASE d = c
  BY <1>1
<1>2. CASE d # c
  <2>1. caller'[d].at = caller[d].at
    BY <1>2
  <2>2. LockHeld(endpoint[caller[d].lease], d, caller[d].at)
    BY <2>1 DEF BackendInv, LocksHeld
  <2>3. CASE endpoint' = endpoint
    BY <2>1, <2>2, <2>3
  <2>4. CASE endpoint[s].by \in {None, c}
    <3>1. endpoint[caller[d].lease].by = d
      BY <2>1, <2>2 DEF LockHeld
    <3>2. d \notin {None, c}
      BY <1>2, BackendNumbers
    <3>3. caller[d].lease # s
      BY <2>4, <3>1, <3>2
    <3> QED BY <2>1, <3>3
  <2> QED BY <2>3, <2>4
<1> QED BY <1>1, <1>2

LEMMA RecordFailureInv == ASSUME BackendInv, NEW c \in Callers, RecordFailure(c) PROVE BackendInv'
<1>1. PICK s : s = caller[c].lease
  OBVIOUS
<1>2. /\ caller[c].at = "leased" /\ endpoint[s].by = None
      /\ endpoint' = [endpoint EXCEPT ![s].by = c, ![s].failures = @ + 1, ![s].flag = TRUE]
      /\ caller' = [caller EXCEPT ![c].at = "failed"]
      /\ UNCHANGED <<pool, revision, inflight, poolLock, upkeep, instant>>
  BY <1>1 DEF RecordFailure
<1>3. /\ BackendType /\ LeaseHeld /\ LocksHeld /\ endpoint \in [StateIds -> EndpointStates]
  BY DEF BackendInv, BackendType
<1>4. /\ caller' \in [Callers -> CallerStates] /\ LeaseHeld' /\ s \in StateIds
      /\ KeepsCallers
      /\ \A d \in Callers : caller'[d].at = IF d = c THEN "failed" ELSE caller[d].at
  <2>1. "failed" \in WithLease /\ "leased" \in WithLease
    BY DEF WithLease
  <2> QED BY <1>1, <1>2, <1>3, <2>1, StageStep
<1>5. PICK e, n : e = endpoint[s] /\ n = e.failures + 1 /\ e \in EndpointStates /\ n \in Nat
  BY <1>3, <1>4 DEF EndpointStates
<1> DEFINE v == [e EXCEPT !.by = c, !.failures = n, !.flag = TRUE]
<1>6. /\ v \in EndpointStates /\ v.active = e.active /\ v.flag = TRUE /\ v.failures = n
      /\ v.blocked = e.blocked /\ v.ok = e.ok /\ v.by = c
  BY <1>5 DEF EndpointStates
<1>7. endpoint' = [endpoint EXCEPT ![s] = v]
  <2>1. endpoint' = [endpoint EXCEPT ![s].by = c, ![s].failures = n, ![s].flag = TRUE]
    BY <1>2, <1>3, <1>4, <1>5 DEF EndpointStates
  <2> QED BY <1>3, <1>5, <2>1
<1> HIDE DEF v
<1>8. BackendType'
  <2>1. endpoint' \in [StateIds -> EndpointStates]
    BY <1>3, <1>6, <1>7
  <2> QED BY <1>2, <1>3, <1>4, <2>1 DEF BackendType
<1>9. endpoint'[s] = v /\ \A t \in StateIds : t # s => endpoint'[t] = endpoint[t]
  BY <1>3, <1>4, <1>7
<1>10. /\ FlagRight(endpoint'[s]) /\ Revised(s) /\ LockHeld(endpoint'[s], c, "failed")
       /\ endpoint'[s].active = endpoint[s].active
  BY <1>2, <1>5, <1>6, <1>9 DEF FlagRight, SameReady, Revised, LockHeld
<1>11. OwnLock(s)
  BY <1>1, <1>2, <1>4, <1>10, OwnLockIs
<1> QED BY <1>2, <1>4, <1>8, <1>9, <1>10, <1>11, ResultStep

LEMMA FailureDoneInv == ASSUME BackendInv, NEW c \in Callers, FailureDone(c) PROVE BackendInv'
<1>1. PICK s, e : s = caller[c].lease /\ e = endpoint[s]
  OBVIOUS
<1>2. PICK ejects \in BOOLEAN :
      /\ endpoint' = [endpoint EXCEPT ![s].by = None, ![s].blocked = IF ejects THEN instant + Cooldown ELSE @]
      /\ revision' = IF ejects THEN revision + 1 ELSE revision
  BY <1>1 DEF FailureDone
<1>3. /\ caller[c].at = "failed" /\ caller' = [caller EXCEPT ![c].at = "done"]
      /\ UNCHANGED <<pool, inflight, poolLock, upkeep, instant>>
  BY DEF FailureDone
<1>4. /\ BackendType /\ LeaseHeld /\ LocksHeld /\ endpoint \in [StateIds -> EndpointStates]
      /\ instant \in Nat /\ revision \in Nat
  BY DEF BackendInv, BackendType
<1>5. /\ caller' \in [Callers -> CallerStates] /\ LeaseHeld' /\ s \in StateIds
      /\ KeepsCallers
      /\ \A d \in Callers : caller'[d].at = IF d = c THEN "done" ELSE caller[d].at
  <2>1. "failed" \in WithLease /\ "done" \in WithLease
    BY DEF WithLease
  <2> QED BY <1>1, <1>3, <1>4, <2>1, StageStep
<1>6. e \in EndpointStates /\ e.blocked \in Nat /\ e.by = c /\ e.flag
  BY <1>1, <1>3, <1>4, <1>5 DEF EndpointStates, LocksHeld, LockHeld
<1>7. PICK n \in Nat : n = IF ejects THEN instant + Cooldown ELSE e.blocked
  BY <1>4, <1>6, BackendNumbers
<1> DEFINE v == [e EXCEPT !.by = None, !.blocked = n]
<1>8. /\ v \in EndpointStates /\ v.active = e.active /\ v.flag = e.flag /\ v.failures = e.failures
      /\ v.blocked = n /\ v.ok = e.ok /\ v.by = None
  BY <1>6 DEF EndpointStates
<1>9. endpoint' = [endpoint EXCEPT ![s] = v]
  <2>1. endpoint' = [endpoint EXCEPT ![s].by = None, ![s].blocked = n]
    BY <1>1, <1>2, <1>4, <1>5, <1>7 DEF EndpointStates
  <2> QED BY <1>1, <1>4, <2>1
<1> HIDE DEF v
<1>10. BackendType'
  <2>1. revision' \in Nat
    BY <1>2, <1>4
  <2> QED BY <1>3, <1>4, <1>5, <1>8, <1>9, <2>1 DEF BackendType
<1>11. endpoint'[s] = v /\ \A t \in StateIds : t # s => endpoint'[t] = endpoint[t]
  BY <1>4, <1>5, <1>9
<1>12. /\ FlagRight(endpoint'[s]) /\ LockHeld(endpoint'[s], c, "done")
       /\ endpoint'[s].active = endpoint[s].active
  BY <1>1, <1>6, <1>8, <1>11 DEF FlagRight, LockHeld
<1>13. Revised(s)
  BY <1>1, <1>2, <1>7, <1>8, <1>11 DEF Revised, SameReady
<1>14. OwnLock(s)
  BY <1>1, <1>5, <1>6, <1>12, OwnLockIs
<1> QED BY <1>3, <1>5, <1>10, <1>11, <1>12, <1>13, <1>14, ResultStep

LEMMA RecordSuccessInv == ASSUME BackendInv, NEW c \in Callers, RecordSuccess(c) PROVE BackendInv'
<1>1. PICK s, e : s = caller[c].lease /\ e = endpoint[s]
  OBVIOUS
<1>2. PICK readmits \in BOOLEAN : /\ readmits <=> e.flag /\ e.blocked # 0
                                  /\ revision' = IF readmits THEN revision + 1 ELSE revision
  BY <1>1 DEF RecordSuccess
<1>3. /\ caller[c].at = "leased" /\ (e.flag => e.by = None)
      /\ UNCHANGED <<pool, inflight, poolLock, upkeep, instant>>
  BY <1>1 DEF RecordSuccess
<1>4. /\ BackendType /\ LeaseHeld /\ LocksHeld /\ FlagsRight /\ endpoint \in [StateIds -> EndpointStates]
      /\ revision \in Nat
  BY DEF BackendInv, BackendType
<1>5. "leased" \in WithLease /\ "passed" \in WithLease /\ "done" \in WithLease
  BY DEF WithLease
<1>6. s \in StateIds
  BY <1>1, <1>3, <1>4, <1>5 DEF LeaseHeld, BackendType, CallerStates
<1>7. e \in EndpointStates /\ e.blocked \in Nat
  BY <1>1, <1>4, <1>6 DEF EndpointStates
<1>8. CASE e.flag
  <2>1. /\ endpoint' = [endpoint EXCEPT ![s].by = c, ![s].failures = 0, ![s].blocked = 0]
        /\ caller' = [caller EXCEPT ![c].at = "passed"]
    BY <1>1, <1>8 DEF RecordSuccess
  <2>2. /\ caller' \in [Callers -> CallerStates] /\ LeaseHeld'
        /\ KeepsCallers
        /\ \A d \in Callers : caller'[d].at = IF d = c THEN "passed" ELSE caller[d].at
    BY <1>1, <1>3, <1>4, <1>5, <2>1, StageStep
  <2> DEFINE v == [e EXCEPT !.by = c, !.failures = 0, !.blocked = 0]
  <2>3. /\ v \in EndpointStates /\ v.active = e.active /\ v.flag = e.flag /\ v.failures = 0
        /\ v.blocked = 0 /\ v.ok = e.ok /\ v.by = c
    BY <1>7 DEF EndpointStates
  <2>4. endpoint' = [endpoint EXCEPT ![s] = v]
    BY <1>1, <1>4, <2>1
  <2> HIDE DEF v
  <2>5. BackendType'
    <3>1. revision' \in Nat
      BY <1>2, <1>4
    <3> QED BY <1>3, <1>4, <2>2, <2>3, <2>4, <3>1 DEF BackendType
  <2>6. endpoint'[s] = v /\ \A t \in StateIds : t # s => endpoint'[t] = endpoint[t]
    BY <1>4, <1>6, <2>4
  <2>7. /\ FlagRight(endpoint'[s]) /\ LockHeld(endpoint'[s], c, "passed")
        /\ endpoint'[s].active = endpoint[s].active
    BY <1>1, <2>3, <2>6 DEF FlagRight, LockHeld
  <2>8. Revised(s)
    BY <1>1, <1>2, <1>8, <2>3, <2>6 DEF Revised, SameReady
  <2>9. OwnLock(s)
    BY <1>1, <1>3, <1>8, <2>2, <2>7, OwnLockIs
  <2> QED BY <1>3, <1>6, <2>2, <2>5, <2>6, <2>7, <2>8, <2>9, ResultStep
<1>9. CASE ~e.flag
  <2>1. endpoint' = endpoint /\ caller' = [caller EXCEPT ![c].at = "done"] /\ revision' = revision
    BY <1>1, <1>2, <1>9 DEF RecordSuccess
  <2>2. /\ caller' \in [Callers -> CallerStates] /\ LeaseHeld'
        /\ KeepsCallers
        /\ \A d \in Callers : caller'[d].at = IF d = c THEN "done" ELSE caller[d].at
    BY <1>1, <1>3, <1>4, <1>5, <2>1, StageStep
  <2>3. BackendType'
    BY <1>3, <1>4, <2>1, <2>2 DEF BackendType
  <2>4. /\ FlagRight(endpoint'[s]) /\ Revised(s) /\ LockHeld(endpoint'[s], c, "done")
        /\ endpoint'[s].active = endpoint[s].active
    BY <1>1, <1>4, <1>6, <2>1 DEF FlagsRight, SameReady, Revised, LockHeld
  <2>5. OwnLock(s)
    BY <1>1, <2>1, <2>2, <2>4, OwnLockIs
  <2> QED BY <1>3, <1>6, <2>1, <2>2, <2>3, <2>4, <2>5, ResultStep
<1> QED BY <1>8, <1>9

LEMMA SuccessDoneInv == ASSUME BackendInv, NEW c \in Callers, SuccessDone(c) PROVE BackendInv'
<1>1. PICK s, e : s = caller[c].lease /\ e = endpoint[s]
  OBVIOUS
<1>2. /\ caller[c].at = "passed" /\ endpoint' = [endpoint EXCEPT ![s].by = None, ![s].flag = FALSE]
      /\ caller' = [caller EXCEPT ![c].at = "done"]
      /\ UNCHANGED <<pool, revision, inflight, poolLock, upkeep, instant>>
  BY <1>1 DEF SuccessDone
<1>3. /\ BackendType /\ LeaseHeld /\ LocksHeld /\ endpoint \in [StateIds -> EndpointStates]
  BY DEF BackendInv, BackendType
<1>4. /\ caller' \in [Callers -> CallerStates] /\ LeaseHeld' /\ s \in StateIds
      /\ KeepsCallers
      /\ \A d \in Callers : caller'[d].at = IF d = c THEN "done" ELSE caller[d].at
  <2>1. "passed" \in WithLease /\ "done" \in WithLease
    BY DEF WithLease
  <2> QED BY <1>1, <1>2, <1>3, <2>1, StageStep
<1>5. e \in EndpointStates /\ e.by = c /\ e.failures = 0 /\ e.blocked = 0
  BY <1>1, <1>2, <1>3, <1>4 DEF LocksHeld, LockHeld
<1> DEFINE v == [e EXCEPT !.by = None, !.flag = FALSE]
<1>6. /\ v \in EndpointStates /\ v.active = e.active /\ v.flag = FALSE /\ v.failures = e.failures
      /\ v.blocked = e.blocked /\ v.ok = e.ok /\ v.by = None
  BY <1>5 DEF EndpointStates
<1>7. endpoint' = [endpoint EXCEPT ![s] = v]
  BY <1>1, <1>2, <1>3
<1> HIDE DEF v
<1>8. BackendType'
  BY <1>2, <1>3, <1>4, <1>6, <1>7 DEF BackendType
<1>9. endpoint'[s] = v /\ \A t \in StateIds : t # s => endpoint'[t] = endpoint[t]
  BY <1>3, <1>4, <1>7
<1>10. /\ FlagRight(endpoint'[s]) /\ Revised(s) /\ LockHeld(endpoint'[s], c, "done")
       /\ endpoint'[s].active = endpoint[s].active
  BY <1>1, <1>2, <1>5, <1>6, <1>9 DEF FlagRight, SameReady, Revised, LockHeld
<1>11. OwnLock(s)
  BY <1>1, <1>4, <1>5, <1>10, OwnLockIs
<1> QED BY <1>2, <1>4, <1>8, <1>9, <1>10, <1>11, ResultStep

LEMMA ProbeAnsweredInv ==
    ASSUME BackendInv, NEW s \in StateIds, NEW ok \in {"yes", "no"}, ProbeAnswered(s, ok)
    PROVE  BackendInv'
<1>1. PICK e : e = endpoint[s]
  OBVIOUS
<1>2. /\ e.by = None /\ endpoint' = [endpoint EXCEPT ![s].ok = ok]
      /\ revision' = IF e.ok # ok THEN revision + 1 ELSE revision
      /\ UNCHANGED <<pool, inflight, poolLock, caller, instant>>
  BY <1>1 DEF ProbeAnswered
<1>3. /\ BackendType /\ LeaseHeld /\ LocksHeld /\ FlagsRight /\ revision \in Nat
      /\ endpoint \in [StateIds -> EndpointStates] /\ e \in EndpointStates
  BY <1>1 DEF BackendInv, BackendType
<1> DEFINE v == [e EXCEPT !.ok = ok]
<1>4. /\ v \in EndpointStates /\ v.active = e.active /\ v.flag = e.flag /\ v.failures = e.failures
      /\ v.blocked = e.blocked /\ v.ok = ok /\ v.by = e.by
  BY <1>3 DEF EndpointStates
<1>5. endpoint' = [endpoint EXCEPT ![s] = v]
  BY <1>1, <1>2, <1>3
<1> HIDE DEF v
<1>6. upkeep' \in UpkeepStates
  <2>1. PICK left \in SUBSET StateIds :
            upkeep' = IF left = {} THEN NoUpkeep ELSE [upkeep EXCEPT !.probes = left]
    BY <1>3 DEF ProbeAnswered, BackendType, UpkeepStates
  <2> QED BY <1>3, <2>1 DEF BackendType, UpkeepStates, NoUpkeep
<1>7. BackendType'
  <2>1. revision' \in Nat
    BY <1>2, <1>3
  <2> QED BY <1>2, <1>3, <1>4, <1>5, <1>6, <2>1 DEF BackendType
<1>8. endpoint'[s] = v /\ \A t \in StateIds : t # s => endpoint'[t] = endpoint[t]
  BY <1>3, <1>5
<1>9. FlagRight(endpoint'[s]) /\ endpoint'[s].active = endpoint[s].active
  BY <1>1, <1>3, <1>4, <1>8 DEF FlagsRight, FlagRight
<1>10. Revised(s)
  BY <1>1, <1>2, <1>4, <1>8 DEF Revised, SameReady
<1>11. KeepsCallers /\ LeaseHeld'
  BY <1>2, <1>3 DEF KeepsCallers, LeaseHeld
<1>12. OwnLock(s)
  BY <1>1, <1>2, <1>3, BackendNumbers DEF OwnLock, LocksHeld, LockHeld
<1> QED BY <1>2, <1>7, <1>8, <1>9, <1>10, <1>11, <1>12, ResultStep

(* A selection whose first cooldown ends now is no longer worth anything.  *)
LEMMA FaithfulTick ==
    ASSUME BackendType, NEW E, NEW S \in SUBSET StateIds, NEW rev \in Nat, NEW exp \in Nat,
           Faithful(E, S, rev, exp), BackendTick
    PROVE  Faithful(E, S, rev, exp)'
<1>1. /\ instant' = instant + 1 /\ instant \in Nat
      /\ UNCHANGED <<pool, endpoint, revision>>
  BY DEF BackendTick, BackendType
<1>2. \A s \in S : endpoint[s].blocked \in Nat
  BY DEF BackendType, EndpointStates
<1>3. SUFFICES ASSUME rev = revision
               PROVE  /\ \A s \in S : Eject(endpoint[s])' => exp # 0 /\ exp <= endpoint[s].blocked
                      /\ exp = 0 \/ exp > instant + 1 => E = {s \in S : Select(endpoint[s])'}
  BY <1>1 DEF Faithful
<1>4. /\ \A s \in S : Eject(endpoint[s]) => exp # 0 /\ exp <= endpoint[s].blocked
      /\ exp = 0 \/ exp > instant => E = {s \in S : Select(endpoint[s])}
  BY <1>3 DEF Faithful
<1>5. \A s \in S : Eject(endpoint[s])' => Eject(endpoint[s])
  BY <1>1, <1>2 DEF Eject
<1>6. ASSUME exp = 0 \/ exp > instant + 1 PROVE E = {s \in S : Select(endpoint[s])'}
  <2>1. E = {s \in S : Select(endpoint[s])}
    BY <1>1, <1>4, <1>6
  <2>2. ASSUME NEW s \in S, Eject(endpoint[s]) PROVE Eject(endpoint[s])'
    <3>1. exp <= endpoint[s].blocked /\ exp # 0
      BY <1>4, <2>2
    <3> QED BY <1>1, <1>2, <1>6, <3>1 DEF Eject
  <2>3. \A s \in S : Select(endpoint[s])' <=> Select(endpoint[s])
    BY <1>1, <1>5, <2>2 DEF Select
  <2> QED BY <2>1, <2>3
<1> QED BY <1>4, <1>5, <1>6

LEMMA BackendTickInv == ASSUME BackendInv, BackendTick PROVE BackendInv'
<1>1. /\ instant' = instant + 1
      /\ UNCHANGED <<pool, endpoint, revision, inflight, poolLock, caller, upkeep>>
  BY DEF BackendTick
<1>2. /\ BackendType /\ LeaseHeld /\ LeaseCounts /\ LocksHeld /\ FlagsRight /\ PoolLockHeld
      /\ SelectionFaithful /\ ScansFaithful
  BY DEF BackendInv
<1>3. BackendType' /\ LeaseHeld' /\ LocksHeld' /\ FlagsRight' /\ PoolLockHeld'
  BY <1>1, <1>2 DEF BackendType, LeaseHeld, LocksHeld, FlagsRight, PoolLockHeld
<1>4. LeaseCounts'
  BY <1>1, <1>2, LeasesKept
<1>5. SelectionFaithful'
  <2>1. PICK E, S, rev, exp : /\ E = pool.selection.entries /\ S = pool.members
                              /\ rev = pool.selection.revision /\ exp = pool.selection.expires
    OBVIOUS
  <2>2. S \in SUBSET StateIds /\ rev \in Nat /\ exp \in Nat
    BY <1>2, <2>1 DEF BackendType, PoolStates, Selections
  <2>3. Faithful(E, S, rev, exp) => Faithful(E, S, rev, exp)'
    BY <1>2, <2>2, FaithfulTick
  <2> QED BY <1>1, <1>2, <2>1, <2>3 DEF SelectionFaithful
<1>6. ASSUME NEW c \in Callers, caller[c].at = "scan" PROVE ScanFaithful(caller[c])'
  <2>1. PICK E, S, rev, exp : /\ E = caller[c].entries /\ S = pool.members \ caller[c].left
                              /\ rev = caller[c].revision /\ exp = caller[c].expires
    OBVIOUS
  <2>2. S \in SUBSET StateIds /\ rev \in Nat /\ exp \in Nat
    BY <1>2, <2>1 DEF BackendType, PoolStates, CallerStates
  <2>3. Faithful(E, S, rev, exp) /\ caller[c].left \subseteq pool.members
    BY <1>2, <1>6, <2>1 DEF ScansFaithful, ScanFaithful
  <2>4. Faithful(E, S, rev, exp)'
    BY <1>2, <2>2, <2>3, FaithfulTick
  <2> QED BY <1>1, <2>1, <2>3, <2>4 DEF ScanFaithful
<1>7. ScansFaithful'
  BY <1>1, <1>6 DEF ScansFaithful
<1> QED BY <1>3, <1>4, <1>5, <1>7 DEF BackendInv

-----------------------------------------------------------------------------
LEMMA BackendInitInv == BackendInit => BackendInv
<1> SUFFICES ASSUME BackendInit PROVE BackendInv
  OBVIOUS
<1> USE BackendNumbers
<1>1. /\ endpoint = [s \in StateIds |-> Fresh] /\ caller = [c \in Callers |-> Resting]
      /\ revision = 0 /\ inflight = 0 /\ poolLock = None /\ upkeep = NoUpkeep /\ instant = 1
  BY DEF BackendInit
<1>2. pool \in PoolStates /\ pool.selection = NoSelection
  <2>1. PICK members \in SUBSET (Addresses \X {0}), health \in BOOLEAN, dns \in BOOLEAN,
             hash \in BOOLEAN, fixed \in BOOLEAN :
             pool = [health |-> health, dns |-> dns, hash |-> hash, fixed |-> fixed,
                     members |-> members, selection |-> NoSelection,
                     dnsSuccess |-> 1, nextDns |-> 1, nextHealth |-> 1]
    BY ZenonT(30) DEF BackendInit
  <2>2. members \in SUBSET StateIds /\ NoSelection \in Selections
    BY DEF StateIds, NoSelection, Selections
  <2> QED BY <2>1, <2>2 DEF PoolStates
<1>3. BackendType
  BY <1>1, <1>2, FreshIs, RestingIs DEF BackendType, NoUpkeep, UpkeepStates
<1>4. LeaseHeld /\ PoolLockHeld /\ ScansFaithful /\ LocksHeld
  BY <1>1, RestingIs DEF LeaseHeld, PoolLockHeld, ScansFaithful, LocksHeld, WithLease
<1>5. FlagsRight
  BY <1>1, FreshIs DEF FlagsRight
<1>6. SelectionFaithful
  BY <1>2 DEF SelectionFaithful, NoSelection
<1>7. LeaseCounts
  <2>1. Leasing = {} /\ \A s \in StateIds : Leased(s) = {}
    BY <1>1, RestingIs DEF Leasing, Leased
  <2> QED BY <1>1, <2>1, FreshIs, FS_EmptySet DEF LeaseCounts
<1> QED BY <1>3, <1>4, <1>5, <1>6, <1>7 DEF BackendInv

LEMMA BackendStep == BackendInv /\ [BackendNext]_backendVars => BackendInv'
<1> SUFFICES ASSUME BackendInv, [BackendNext]_backendVars PROVE BackendInv'
  OBVIOUS
<1>1. CASE UNCHANGED backendVars
  <2>1. /\ pool' = pool /\ endpoint' = endpoint /\ revision' = revision /\ inflight' = inflight
        /\ poolLock' = poolLock /\ caller' = caller /\ upkeep' = upkeep /\ instant' = instant
    BY <1>1 DEF backendVars
  <2>2. BackendType' /\ LeaseHeld' /\ PoolLockHeld'
    BY <2>1 DEF BackendInv, BackendType, LeaseHeld, PoolLockHeld
  <2>3. LeaseCounts'
    BY <2>1, LeasesKept DEF BackendInv
  <2>4. \A s \in StateIds : Eased(endpoint'[s], endpoint[s])
    BY <2>1 DEF Eased
  <2> QED BY <2>1, <2>2, <2>3, <2>4, EasedStep
<1>2. ASSUME NEW c \in Callers,
             \/ SelectOnly(c) \/ SelectBegin(c) \/ Scan(c) \/ CacheSelection(c)
             \/ Choose(c) \/ ChooseHashed(c)
             \/ RecordFailure(c) \/ FailureDone(c) \/ RecordSuccess(c) \/ SuccessDone(c)
             \/ DropLease(c)
      PROVE  BackendInv'
  BY <1>2, SelectOnlyInv, SelectBeginInv, ScanInv, CacheSelectionInv, ChooseInv, ChooseHashedInv,
     RecordFailureInv, FailureDoneInv, RecordSuccessInv, SuccessDoneInv, DropLeaseInv
<1>3. CASE MaintainBegin \/ LookupSucceeds \/ LookupFails \/ ProbeSnapshot
  BY <1>3, MaintenanceInv
<1>4. CASE \E s \in StateIds, ok \in {"yes", "no"} : ProbeAnswered(s, ok)
  BY <1>4, ProbeAnsweredInv
<1>5. CASE BackendTick
  BY <1>5, BackendTickInv
<1> QED BY <1>1, <1>2, <1>3, <1>4, <1>5 DEF BackendNext

LEMMA BackendInductive == BackendSpec => []BackendInv
  BY BackendInitInv, BackendStep, PTL DEF BackendSpec

(***************************************************************************)
(* The leases out are counted exactly, per State and for the backend, and  *)
(* rgnix_max_inflight bounds them, for any number of callers, addresses    *)
(* and health changes (Backend::lease and Lease::drop).                    *)
(***************************************************************************)
THEOREM LeasesAreCounted == BackendSpec => []LeasesCounted
<1>1. BackendInv => LeasesCounted
  BY DEF BackendInv, LeaseCounts, Leasing, LeasesCounted
<1> QED BY <1>1, BackendInductive, PTL

(***************************************************************************)
(* A cached selection that select uses without a scan names exactly the    *)
(* endpoints a scan would find now, and a State whose has_failures is down *)
(* has nothing to look at under its lock (Backend::ready, Selection::new). *)
(***************************************************************************)
THEOREM SelectionIsFresh == BackendSpec => []CachedSelectionFresh
<1>1. ASSUME BackendInv PROVE CachedSelectionFresh
  <2>1. \A s \in StateIds : ~endpoint[s].flag => endpoint[s].failures = 0 /\ endpoint[s].blocked = 0
    BY <1>1 DEF BackendInv, FlagsRight, FlagRight
  <2>2. ASSUME Usable(pool.selection)
        PROVE  pool.selection.entries = {s \in pool.members : Selectable(s)}
    <3>1. pool.selection.entries = {s \in pool.members : Select(endpoint[s])}
      BY <1>1, <2>2 DEF BackendInv, SelectionFaithful, Faithful, Usable
    <3> QED BY <3>1 DEF Select, Eject, Selectable, Ejected
  <2> QED BY <2>1, <2>2 DEF CachedSelectionFresh
<1>2. BackendInv => CachedSelectionFresh
  BY <1>1
<1> QED BY <1>2, BackendInductive, PTL

-----------------------------------------------------------------------------
(* UpstreamPool.  A connection is looked for by its name rather than by    *)
(* its place: every bucket holds distinct connections, no two buckets the  *)
(* same one, and what lies in none of them is with an exchange or gone.    *)
(* The permits taken are then the connections that lie anywhere (Lying).   *)

LinkStates == {"none", "open", "closed"}
IdleEntry == [link : Links, expires : Nat]
ExchangeStates ==
    [at : {"new", "checkout", "sent", "body"}, pool : Pools, origin : Origins,
     link : Links \cup {NoLink}, since : Nat]

PoolType ==
    /\ idle \in [Pools -> [Origins -> Seq(IdleEntry)]]
    /\ exchange \in [Exchanges -> ExchangeStates]
    /\ link \in [Links -> LinkStates]
    /\ permits \in Nat /\ poolTime \in Nat

LinksIn(seq) == {seq[i].link : i \in 1..Len(seq)}
Distinct(seq) == \A i, j \in 1..Len(seq) : seq[i].link = seq[j].link => i = j

(* The buckets of the pools, as a table.                                   *)
TableOk(T) ==
    /\ T \in [Pools -> [Origins -> Seq(IdleEntry)]]
    /\ \A p \in Pools, o \in Origins : Distinct(T[p][o]) /\ Len(T[p][o]) <= Maximum
    /\ \A p, q \in Pools, o, n \in Origins :
         LinksIn(T[p][o]) \cap LinksIn(T[q][n]) # {} => p = q /\ o = n
Lying(T) == {l \in Links : \E p \in Pools, o \in Origins : l \in LinksIn(T[p][o])}

(* What a connection in use is, and what is left when it is put back.      *)
Used == {l \in Links : \E x \in Exchanges : exchange[x].link = l}
UsedOnce ==
    /\ \A x, y \in Exchanges : exchange[x].link = exchange[y].link /\ exchange[x].link # NoLink => x = y
    /\ \A x \in Exchanges : exchange[x].link = NoLink <=> exchange[x].at \in {"new", "checkout"}

PoolInv ==
    /\ PoolType /\ TableOk(idle) /\ UsedOnce
    /\ Used \cap Lying(idle) = {}
    /\ \A l \in Links : link[l] # "none" <=> l \in Used \cup Lying(idle)
    /\ permits + Cardinality(Lying(idle)) = IdleBudget

LEMMA PoolNumbers ==
    /\ IsFiniteSet(Links) /\ NoLink \notin Links /\ Pools # {} /\ Origins # {}
    /\ Maximum \in Nat /\ IdleBudget \in Nat /\ Keepalive \in Nat
BY UpstreamPoolAssumption DEF NoLink

LEMMA LinksAre == ASSUME NEW seq \in Seq(IdleEntry) PROVE LinksIn(seq) \subseteq Links
<1>1. ASSUME NEW i \in 1..Len(seq) PROVE seq[i].link \in Links
  <2>1. seq[i] \in IdleEntry
    OBVIOUS
  <2> QED BY <2>1 DEF IdleEntry
<1> QED BY <1>1 DEF LinksIn

(* Buckets.  What is left of one, with other positions but the same        *)
(* entries.                                                                *)
Drawn(s, n, seq, f) ==
    /\ seq \in Seq(IdleEntry) /\ Distinct(seq) /\ n \in Nat /\ s \in [1..n -> IdleEntry]
    /\ f \in [1..n -> 1..Len(seq)] /\ \A i \in 1..n : s[i] = seq[f[i]]
    /\ \A i, j \in 1..n : f[i] = f[j] => i = j
Thinned(s, n, seq, f) ==
    /\ s \in Seq(IdleEntry) /\ Len(s) = n /\ Distinct(s)
    /\ \A i \in 1..n : seq[f[i]].link \in LinksIn(s)
    /\ \A l \in LinksIn(s) : \E i \in 1..n : seq[f[i]].link = l

LEMMA BucketThins == ASSUME NEW s, NEW n, NEW seq, NEW f, Drawn(s, n, seq, f) PROVE Thinned(s, n, seq, f)
<1>1. /\ seq \in Seq(IdleEntry) /\ n \in Nat /\ s \in [1..n -> IdleEntry]
      /\ f \in [1..n -> 1..Len(seq)] /\ \A i \in 1..n : s[i] = seq[f[i]]
  BY DEF Drawn
<1>2. s \in Seq(IdleEntry) /\ Len(s) = n
  BY <1>1
<1>3. Distinct(s)
  BY <1>1, <1>2 DEF Distinct, Drawn
<1>4. (\A i \in 1..n : s[i].link \in LinksIn(s)) /\ \A l \in LinksIn(s) : \E i \in 1..n : s[i].link = l
  BY <1>2 DEF LinksIn
<1>5. \A i \in 1..n : s[i].link = seq[f[i]].link
  BY <1>1
<1>6. \A i \in 1..n : seq[f[i]].link \in LinksIn(s)
  BY <1>4, <1>5
<1>7. \A l \in LinksIn(s) : \E i \in 1..n : seq[f[i]].link = l
  BY <1>4, <1>5
<1>8. s \in Seq(IdleEntry) /\ Len(s) = n /\ Distinct(s)
  BY <1>2, <1>3
<1> QED BY <1>6, <1>7, <1>8 DEF Thinned

LEMMA LastGoes ==
    ASSUME NEW seq \in Seq(IdleEntry), Distinct(seq), seq # <<>>, NEW s, s = SubSeq(seq, 1, Len(seq) - 1)
    PROVE  /\ s \in Seq(IdleEntry) /\ Len(s) <= Len(seq) /\ Distinct(s)
           /\ Len(seq) \in 1..Len(seq) /\ seq[Len(seq)] \in IdleEntry
           /\ LinksIn(s) = LinksIn(seq) \ {seq[Len(seq)].link}
<1>1. PICK n \in Nat : n = Len(seq) /\ n >= 1
  OBVIOUS
<1>2. s \in Seq(IdleEntry) /\ Len(s) = n - 1 /\ \A i \in 1..(n - 1) : s[i] = seq[i]
  BY <1>1
<1>3. Distinct(s)
  BY <1>1, <1>2 DEF Distinct
<1>4. LinksIn(s) = LinksIn(seq) \ {seq[n].link}
  <2>1. \A i \in 1..n : i \in 1..(n - 1) \/ i = n
    BY <1>1
  <2>2. \A i \in 1..(n - 1) : i \in 1..n /\ n \in 1..n /\ i # n
    BY <1>1
  <2>3. \A i \in 1..(n - 1) : s[i].link = seq[i].link /\ seq[i].link # seq[n].link
    BY <1>1, <1>2, <2>2 DEF Distinct
  <2>4. LinksIn(s) = {s[i].link : i \in 1..(n - 1)} /\ LinksIn(seq) = {seq[i].link : i \in 1..n}
    BY <1>1, <1>2 DEF LinksIn
  <2>5. ASSUME NEW l \in LinksIn(s) PROVE l \in LinksIn(seq) \ {seq[n].link}
    <3>1. PICK i \in 1..(n - 1) : s[i].link = l
      BY <2>4
    <3> QED BY <2>2, <2>3, <2>4, <3>1
  <2>6. ASSUME NEW l \in LinksIn(seq) \ {seq[n].link} PROVE l \in LinksIn(s)
    <3>1. PICK i \in 1..n : seq[i].link = l
      BY <2>4
    <3> QED BY <2>1, <2>3, <2>4, <3>1
  <2> QED BY <2>5, <2>6
<1> QED BY <1>1, <1>2, <1>3, <1>4

LEMMA OneSwapped ==
    ASSUME NEW seq \in Seq(IdleEntry), Distinct(seq), NEW k \in 1..Len(seq), NEW s, s = SwapRemove(seq, k)
    PROVE  /\ s \in Seq(IdleEntry) /\ Len(s) <= Len(seq) /\ Distinct(s)
           /\ LinksIn(s) = LinksIn(seq) \ {seq[k].link}
<1>1. PICK n \in Nat : n = Len(seq) /\ n >= 1
  OBVIOUS
<1>2. PICK f : f = [j \in 1..(n - 1) |-> IF j = k THEN n ELSE j]
  OBVIOUS
<1>3. /\ f \in [1..(n - 1) -> 1..Len(seq)] /\ n - 1 \in Nat
      /\ \A i, j \in 1..(n - 1) : f[i] = f[j] => i = j
      /\ \A i \in 1..(n - 1) : f[i] # k
      /\ \A j \in 1..n : j # k => \E i \in 1..(n - 1) : f[i] = j
  <2>1. n - 1 \in Nat /\ k \in 1..n /\ \A j \in 1..(n - 1) : j \in 1..n /\ j # n
    BY <1>1
  <2>2. f \in [1..(n - 1) -> 1..Len(seq)]
    BY <1>1, <1>2, <2>1
  <2>3. \A i, j \in 1..(n - 1) : f[i] = f[j] => i = j
    BY <1>2, <2>1
  <2>4. \A i \in 1..(n - 1) : f[i] # k
    BY <1>2, <2>1
  <2>5. ASSUME NEW j \in 1..n, j # k PROVE \E i \in 1..(n - 1) : f[i] = j
    <3>1. CASE j = n
      <4>1. k \in 1..(n - 1)
        BY <1>1, <2>5, <3>1
      <4> QED BY <1>2, <3>1, <4>1
    <3>2. CASE j # n
      <4>1. j \in 1..(n - 1)
        BY <1>1, <3>2
      <4> QED BY <1>2, <2>5, <4>1
    <3> QED BY <3>1, <3>2
  <2> QED BY <2>1, <2>2, <2>3, <2>4, <2>5
<1>4. s \in [1..(n - 1) -> IdleEntry] /\ \A i \in 1..(n - 1) : s[i] = seq[f[i]]
  <2>1. s = [i \in 1..(n - 1) |-> seq[f[i]]]
    BY <1>1, <1>2 DEF SwapRemove
  <2> QED BY <1>3, <2>1
<1>5. /\ s \in Seq(IdleEntry) /\ Len(s) = n - 1 /\ Distinct(s)
      /\ \A l : l \in LinksIn(s) <=> \E i \in 1..(n - 1) : seq[f[i]].link = l
  <2>1. PICK m \in Nat : m = n - 1
    BY <1>3
  <2>2. /\ f \in [1..m -> 1..Len(seq)] /\ s \in [1..m -> IdleEntry]
        /\ \A i \in 1..m : s[i] = seq[f[i]]
        /\ \A i, j \in 1..m : f[i] = f[j] => i = j
    BY <1>3, <1>4, <2>1
  <2>3. /\ s \in Seq(IdleEntry) /\ Len(s) = m /\ Distinct(s)
        /\ (\A i \in 1..m : seq[f[i]].link \in LinksIn(s)) /\ \A l \in LinksIn(s) : \E i \in 1..m : seq[f[i]].link = l
    <3>1. Drawn(s, m, seq, f)
      BY <2>2 DEF Drawn
    <3>2. Thinned(s, m, seq, f)
      BY <3>1, BucketThins
    <3> QED BY <3>2 DEF Thinned
  <2> QED BY <2>1, <2>3
<1>6. LinksIn(s) = LinksIn(seq) \ {seq[k].link}
  <2>1. \A i \in 1..(n - 1) : f[i] \in 1..n /\ seq[f[i]].link # seq[k].link
    <3>1. \A i \in 1..(n - 1) : f[i] \in 1..n /\ f[i] # k
      BY <1>1, <1>3
    <3> QED BY <1>1, <3>1 DEF Distinct
  <2>2. ASSUME NEW l \in LinksIn(s) PROVE l \in LinksIn(seq) \ {seq[k].link}
    <3>1. PICK i \in 1..(n - 1) : seq[f[i]].link = l
      BY <1>5
    <3> QED BY <1>1, <2>1, <3>1 DEF LinksIn
  <2>3. ASSUME NEW l \in LinksIn(seq) \ {seq[k].link} PROVE l \in LinksIn(s)
    <3>1. PICK j \in 1..n : seq[j].link = l /\ j # k
      BY <1>1 DEF LinksIn
    <3> QED BY <1>3, <1>5, <3>1
  <2> QED BY <2>2, <2>3
<1> QED BY <1>1, <1>5, <1>6

LEMMA OneAppended ==
    ASSUME NEW seq \in Seq(IdleEntry), Distinct(seq), NEW e \in IdleEntry, e.link \notin LinksIn(seq),
           NEW s, s = Append(seq, e)
    PROVE  /\ s \in Seq(IdleEntry) /\ Len(s) = Len(seq) + 1 /\ Distinct(s)
           /\ LinksIn(s) = LinksIn(seq) \cup {e.link}
<1>1. PICK n \in Nat : n = Len(seq)
  OBVIOUS
<1>2. s \in Seq(IdleEntry) /\ Len(s) = n + 1 /\ s[n + 1] = e /\ \A i \in 1..n : s[i] = seq[i]
  BY <1>1
<1>3. \A i \in 1..(n + 1) : i \in 1..n \/ i = n + 1
  BY <1>1
<1>4. n + 1 \in 1..(n + 1) /\ \A i \in 1..n : i \in 1..(n + 1)
  BY <1>1
<1>5. Distinct(s)
  BY <1>1, <1>2, <1>3 DEF Distinct, LinksIn
<1>6. LinksIn(s) = LinksIn(seq) \cup {e.link}
  BY <1>1, <1>2, <1>3, <1>4 DEF LinksIn
<1> QED BY <1>1, <1>2, <1>5, <1>6

(* Vec::retain.                                                            *)
LEMMA RetainedIs ==
    ASSUME NEW seq \in Seq(IdleEntry), Distinct(seq), NEW P \in SUBSET (1..Len(seq)),
           NEW s, s = Retained(seq, P)
    PROVE  /\ s \in Seq(IdleEntry) /\ Len(s) <= Len(seq) /\ Distinct(s)
           /\ \A i \in P : seq[i].link \in LinksIn(s)
           /\ \A l \in LinksIn(s) : \E i \in P : seq[i].link = l
<1>0. PICK b \in Nat : b = Len(seq)
  OBVIOUS
<1>1. PICK n \in Nat : n = Cardinality(P) /\ n <= b
  BY <1>0, RankIs
<1>2. ASSUME NEW m \in 1..n PROVE Nth(P, m) \in P /\ Rank(P, Nth(P, m)) = m
  <2>1. \E i \in P : Rank(P, i) = m
    BY <1>0, <1>1, RankReached
  <2> QED BY <2>1 DEF Nth, Rank
<1>3. PICK f : f = [m \in 1..n |-> Nth(P, m)]
  OBVIOUS
<1>4. f \in [1..n -> 1..Len(seq)] /\ \A i, j \in 1..n : f[i] = f[j] => i = j
  BY <1>2, <1>3
<1>5. s \in [1..n -> IdleEntry] /\ \A i \in 1..n : s[i] = seq[f[i]]
  <2>1. s = [i \in 1..n |-> seq[f[i]]]
    BY <1>1, <1>3 DEF Retained
  <2> QED BY <1>4, <2>1
<1>6. /\ s \in Seq(IdleEntry) /\ Len(s) = n /\ Distinct(s)
      /\ (\A i \in 1..n : seq[f[i]].link \in LinksIn(s)) /\ \A l \in LinksIn(s) : \E i \in 1..n : seq[f[i]].link = l
  <2>1. Drawn(s, n, seq, f)
    BY <1>4, <1>5 DEF Drawn
  <2>2. Thinned(s, n, seq, f)
    BY <2>1, BucketThins
  <2> QED BY <2>2 DEF Thinned
<1>7. ASSUME NEW k \in P PROVE \E m \in 1..n : f[m] = k
  <2>1. PICK m \in 1..n : m = Rank(P, k)
    BY <1>0, <1>1, RankIs
  <2>2. Nth(P, m) \in P /\ Rank(P, Nth(P, m)) = Rank(P, k)
    BY <1>2, <2>1
  <2>3. \A i, j \in P : i < j => Rank(P, i) < Rank(P, j)
    BY <1>0, RankIs
  <2>4. \A i \in P : Rank(P, i) \in Nat /\ i \in Nat
    BY <1>0, <1>1, RankIs
  <2>5. Nth(P, m) = k
    <3>1. PICK i \in P : i = Nth(P, m)
      BY <2>2
    <3> QED BY <2>2, <2>3, <2>4, <3>1
  <2> QED BY <1>3, <2>1, <2>5
<1>8. \A m \in 1..n : f[m] \in P
  BY <1>2, <1>3
<1>9. \A i \in P : seq[i].link \in LinksIn(s)
  BY <1>6, <1>7
<1>10. \A l \in LinksIn(s) : \E i \in P : seq[i].link = l
  BY <1>6, <1>8
<1> QED BY <1>0, <1>1, <1>6, <1>9, <1>10

(* Tables: one bucket changes, or the buckets of one pool.                 *)
LEMMA CellIs ==
    ASSUME NEW T, TableOk(T), NEW p \in Pools, NEW o \in Origins
    PROVE  /\ T[p] \in [Origins -> Seq(IdleEntry)] /\ T[p][o] \in Seq(IdleEntry) /\ Distinct(T[p][o])
           /\ Len(T[p][o]) \in Nat /\ Len(T[p][o]) <= Maximum /\ LinksIn(T[p][o]) \subseteq Lying(T)
<1>1. T[p] \in [Origins -> Seq(IdleEntry)] /\ T[p][o] \in Seq(IdleEntry) /\ Distinct(T[p][o])
      /\ Len(T[p][o]) <= Maximum
  BY DEF TableOk
<1>2. LinksIn(T[p][o]) \subseteq Links
  BY <1>1, LinksAre
<1> QED BY <1>1, <1>2 DEF Lying

WithBucket(T, p, o, s) == [T EXCEPT ![p][o] = s]
Fits(s, T, p, o) ==
    /\ s \in Seq(IdleEntry) /\ Distinct(s) /\ Len(s) <= Maximum
    /\ LinksIn(s) \cap Lying(T) \subseteq LinksIn(T[p][o])

LEMMA CellChanges ==
    ASSUME NEW T, TableOk(T), NEW p \in Pools, NEW o \in Origins, NEW s, Fits(s, T, p, o),
           NEW U, U = WithBucket(T, p, o, s)
    PROVE  /\ TableOk(U) /\ U[p][o] = s
           /\ \A n \in Origins \ {o} : U[p][n] = T[p][n]
           /\ Lying(U) = (Lying(T) \ LinksIn(T[p][o])) \cup LinksIn(s)
<1>1. T \in [Pools -> [Origins -> Seq(IdleEntry)]] /\ s \in Seq(IdleEntry)
  BY DEF TableOk, Fits
<1>2. /\ U \in [Pools -> [Origins -> Seq(IdleEntry)]] /\ U[p][o] = s
      /\ \A q \in Pools, n \in Origins : ~(q = p /\ n = o) => U[q][n] = T[q][n]
  <2>1. PICK row : row = [T[p] EXCEPT ![o] = s]
    OBVIOUS
  <2>2. /\ row \in [Origins -> Seq(IdleEntry)] /\ row[o] = s
        /\ \A n \in Origins : n # o => row[n] = T[p][n]
    BY <1>1, <2>1
  <2>3. U = [T EXCEPT ![p] = row]
    BY <2>1 DEF WithBucket
  <2>4. U \in [Pools -> [Origins -> Seq(IdleEntry)]] /\ U[p] = row /\ \A q \in Pools : q # p => U[q] = T[q]
    BY <1>1, <2>2, <2>3
  <2> QED BY <2>2, <2>4
<1>3. LinksIn(s) \subseteq Links
  BY <1>1, LinksAre
<1>4. ASSUME NEW q \in Pools, NEW n \in Origins PROVE Distinct(U[q][n]) /\ Len(U[q][n]) <= Maximum
  <2>1. CASE q = p /\ n = o
    BY <1>2, <2>1 DEF Fits
  <2>2. CASE ~(q = p /\ n = o)
    BY <1>2, <2>2 DEF TableOk
  <2> QED BY <2>1, <2>2
<1>5. ASSUME NEW q \in Pools, NEW n \in Origins, ~(q = p /\ n = o)
      PROVE  LinksIn(s) \cap LinksIn(T[q][n]) = {} /\ LinksIn(T[p][o]) \cap LinksIn(T[q][n]) = {}
  <2>1. LinksIn(T[q][n]) \subseteq Lying(T)
    BY CellIs
  <2>2. LinksIn(T[p][o]) \cap LinksIn(T[q][n]) = {}
    BY <1>5 DEF TableOk
  <2> QED BY <2>1, <2>2 DEF Fits
<1>6. ASSUME NEW q \in Pools, NEW r \in Pools, NEW n \in Origins, NEW m \in Origins,
             LinksIn(U[q][n]) \cap LinksIn(U[r][m]) # {}
      PROVE  q = r /\ n = m
  <2>1. CASE q = p /\ n = o
    BY <1>2, <1>5, <1>6, <2>1
  <2>2. CASE r = p /\ m = o
    BY <1>2, <1>5, <1>6, <2>2
  <2>3. CASE ~(q = p /\ n = o) /\ ~(r = p /\ m = o)
    <3>1. U[q][n] = T[q][n] /\ U[r][m] = T[r][m]
      BY <1>2, <2>3
    <3>2. LinksIn(T[q][n]) \cap LinksIn(T[r][m]) # {}
      BY <1>6, <3>1
    <3> QED BY <3>2 DEF TableOk
  <2> QED BY <2>1, <2>2, <2>3
<1>7. TableOk(U)
  BY <1>2, <1>4, <1>6 DEF TableOk
<1>8. ASSUME NEW l \in Lying(U) PROVE l \in (Lying(T) \ LinksIn(T[p][o])) \cup LinksIn(s)
  <2>1. PICK q \in Pools, n \in Origins : l \in LinksIn(U[q][n]) /\ l \in Links
    BY DEF Lying
  <2>2. CASE q = p /\ n = o
    BY <1>2, <2>1, <2>2
  <2>3. CASE ~(q = p /\ n = o)
    <3>1. l \in LinksIn(T[q][n])
      BY <1>2, <2>1, <2>3
    <3> QED BY <1>5, <2>1, <2>3, <3>1 DEF Lying
  <2> QED BY <2>2, <2>3
<1>9. ASSUME NEW l \in (Lying(T) \ LinksIn(T[p][o])) \cup LinksIn(s) PROVE l \in Lying(U)
  <2>1. CASE l \in LinksIn(s)
    BY <1>2, <1>3, <2>1 DEF Lying
  <2>2. CASE l \in Lying(T) \ LinksIn(T[p][o])
    <3>1. PICK q \in Pools, n \in Origins : l \in LinksIn(T[q][n]) /\ l \in Links
      BY <2>2 DEF Lying
    <3>2. ~(q = p /\ n = o)
      BY <2>2, <3>1
    <3>3. l \in LinksIn(U[q][n])
      BY <1>2, <3>1, <3>2
    <3> QED BY <3>1, <3>3 DEF Lying
  <2> QED BY <2>1, <2>2
<1> QED BY <1>2, <1>7, <1>8, <1>9

(* A connection leaves its bucket.                                         *)
LEMMA OneLeaves ==
    ASSUME NEW T, TableOk(T), NEW p \in Pools, NEW o \in Origins, NEW l \in LinksIn(T[p][o]),
           NEW s \in Seq(IdleEntry), Distinct(s), Len(s) <= Len(T[p][o]), LinksIn(s) = LinksIn(T[p][o]) \ {l},
           NEW U, U = WithBucket(T, p, o, s)
    PROVE  /\ TableOk(U) /\ Lying(U) = Lying(T) \ {l} /\ l \in Lying(T)
           /\ Cardinality(Lying(U)) = Cardinality(Lying(T)) - 1 /\ Cardinality(Lying(T)) \in Nat
<1>1. Len(s) <= Maximum /\ l \in Lying(T) /\ LinksIn(T[p][o]) \subseteq Lying(T) /\ Lying(T) \in SUBSET Links
  <2>1. Len(T[p][o]) <= Maximum /\ LinksIn(T[p][o]) \subseteq Lying(T) /\ Len(T[p][o]) \in Nat
    BY CellIs
  <2>2. Lying(T) \in SUBSET Links
    BY DEF Lying
  <2> QED BY <2>1, <2>2, PoolNumbers
<1>2. TableOk(U) /\ Lying(U) = (Lying(T) \ LinksIn(T[p][o])) \cup LinksIn(s)
  <2>1. LinksIn(s) \cap Lying(T) \subseteq LinksIn(T[p][o])
    OBVIOUS
  <2>2. Fits(s, T, p, o)
    BY <1>1, <2>1 DEF Fits
  <2> QED BY <2>2, CellChanges
<1>3. Lying(U) = Lying(T) \ {l}
  BY <1>1, <1>2
<1> QED BY <1>1, <1>2, <1>3, PoolNumbers, CountOf, CountRemove

(* An exchange changes: it takes a connection that nobody uses, keeps or   *)
(* loses its own.                                                          *)
Proper(w) == w \in ExchangeStates /\ (w.link = NoLink <=> w.at \in {"new", "checkout"})

LEMMA ExchangeChanges ==
    ASSUME PoolInv, NEW x \in Exchanges, NEW w, Proper(w), w.link \notin Used \/ w.link = exchange[x].link,
           exchange' = [exchange EXCEPT ![x] = w]
    PROVE  /\ exchange' \in [Exchanges -> ExchangeStates] /\ UsedOnce'
           /\ Used' = (Used \ {exchange[x].link}) \cup ({w.link} \cap Links)
<1>1. exchange \in [Exchanges -> ExchangeStates] /\ UsedOnce /\ w \in ExchangeStates
  BY DEF PoolInv, PoolType, Proper
<1>2. /\ exchange' \in [Exchanges -> ExchangeStates] /\ exchange'[x] = w
      /\ \A y \in Exchanges \ {x} : exchange'[y] = exchange[y]
  BY <1>1
<1>3. \A y \in Exchanges : exchange[y].link \in Links \cup {NoLink}
  BY <1>1 DEF ExchangeStates
<1>4. \A y \in Exchanges \ {x} : exchange[y].link # NoLink => exchange[y].link # w.link
  BY <1>1, <1>3 DEF UsedOnce, Used
<1>5. UsedOnce'
  <2>1. \A y, z \in Exchanges : exchange'[y].link = exchange'[z].link /\ exchange'[y].link # NoLink => y = z
    BY <1>1, <1>2, <1>4 DEF UsedOnce
  <2>2. \A y \in Exchanges : exchange'[y].link = NoLink <=> exchange'[y].at \in {"new", "checkout"}
    BY <1>1, <1>2 DEF UsedOnce, Proper
  <2> QED BY <2>1, <2>2 DEF UsedOnce
<1>6. ASSUME NEW l \in Links
      PROVE  l \in Used' <=> l \in (Used \ {exchange[x].link}) \cup ({w.link} \cap Links)
  <2>1. l \in Used' <=> \E y \in Exchanges : exchange'[y].link = l
    BY DEF Used
  <2>2. l \in Used <=> \E y \in Exchanges : exchange[y].link = l
    BY DEF Used
  <2>3. l # NoLink
    BY PoolNumbers
  <2>4. \A y \in Exchanges : exchange[y].link = exchange[x].link /\ exchange[x].link = l => y = x
    BY <1>1, <2>3 DEF UsedOnce
  <2> QED BY <1>2, <2>1, <2>2, <2>4
<1> QED BY <1>2, <1>5, <1>6 DEF Used

(* The record of an exchange that is over.                                 *)
LEMMA UnstartedIs == Unstarted \in ExchangeStates /\ Unstarted.at = "new" /\ Unstarted.link = NoLink
<1>1. PICK p \in Pools : p = CHOOSE q \in Pools : TRUE
  BY PoolNumbers
<1>2. PICK o \in Origins : o = CHOOSE q \in Origins : TRUE
  BY PoolNumbers
<1>3. Unstarted = [at |-> "new", pool |-> p, origin |-> o, link |-> NoLink, since |-> 0]
  BY <1>1, <1>2 DEF Unstarted
<1> QED BY <1>3 DEF ExchangeStates

LEMMA ExchangeIs ==
    ASSUME PoolInv, NEW x \in Exchanges
    PROVE  /\ exchange[x] \in ExchangeStates /\ exchange[x].pool \in Pools /\ exchange[x].origin \in Origins
           /\ exchange[x].link \in Links \cup {NoLink} /\ exchange[x].at \in {"new", "checkout", "sent", "body"}
           /\ exchange[x].link = NoLink <=> exchange[x].at \in {"new", "checkout"}
           /\ exchange[x].link # NoLink => exchange[x].link \in Used /\ exchange[x].link \notin Lying(idle)
<1>1. exchange[x] \in ExchangeStates /\ (exchange[x].link = NoLink <=> exchange[x].at \in {"new", "checkout"})
  BY DEF PoolInv, PoolType, UsedOnce
<1>2. exchange[x].link \in Links \cup {NoLink} /\ exchange[x].pool \in Pools /\ exchange[x].origin \in Origins
      /\ exchange[x].at \in {"new", "checkout", "sent", "body"}
  BY <1>1 DEF ExchangeStates
<1>3. exchange[x].link # NoLink => exchange[x].link \in Used
  BY <1>2 DEF Used
<1>4. Used \cap Lying(idle) = {}
  BY DEF PoolInv
<1> QED BY <1>1, <1>2, <1>3, <1>4

LEMMA PlaceIs ==
    ASSUME PoolInv, NEW p \in Pools, NEW a \in Places(p)
    PROVE  /\ a[1] \in Origins /\ a[2] \in 1..Len(idle[p][a[1]]) /\ a = <<a[1], a[2]>>
           /\ idle[p][a[1]][a[2]] \in IdleEntry /\ idle[p][a[1]][a[2]].expires \in Nat
           /\ idle[p][a[1]][a[2]].link \in LinksIn(idle[p][a[1]])
<1>1. a[1] \in Origins /\ a[2] \in 1..Maximum /\ a[2] <= Len(idle[p][a[1]]) /\ a = <<a[1], a[2]>>
  BY DEF Places
<1>2. idle[p][a[1]] \in Seq(IdleEntry)
  BY <1>1, CellIs DEF PoolInv
<1>3. a[2] \in 1..Len(idle[p][a[1]])
  BY <1>1, <1>2, PoolNumbers
<1>4. idle[p][a[1]][a[2]] \in IdleEntry
  BY <1>2, <1>3
<1> QED BY <1>1, <1>3, <1>4 DEF IdleEntry, LinksIn

LEMMA OldestIs ==
    ASSUME PoolInv, NEW p \in Pools, Places(p) # {}
    PROVE  Oldest(p) \in Places(p)
<1>1. PICK E : E = {idle[p][a[1]][a[2]].expires : a \in Places(p)}
  OBVIOUS
<1>2. E \subseteq Nat /\ E # {}
  BY <1>1, PlaceIs
<1>3. PICK e \in E : \A d \in E : e <= d
  BY <1>2, LeastOf
<1>4. PICK a \in Places(p) : idle[p][a[1]][a[2]].expires = e
  BY <1>1
<1>5. \A b \in Places(p) : idle[p][a[1]][a[2]].expires <= idle[p][b[1]][b[2]].expires
  BY <1>1, <1>3, <1>4
<1> QED BY <1>4, <1>5 DEF Oldest

(* What Client::put leaves: the buckets in order, and a permit for each    *)
(* connection that lies in one.                                            *)
PutOk(r, l) ==
    /\ TableOk(r.idle) /\ r.permits \in Nat /\ r.permits + Cardinality(Lying(r.idle)) = IdleBudget
    /\ r.dropped \subseteq Lying(idle) \cup {l} /\ Lying(r.idle) = (Lying(idle) \cup {l}) \ r.dropped

LEMMA PutIs ==
    ASSUME PoolInv, NEW p \in Pools, NEW o \in Origins, NEW l \in Links, l \notin Lying(idle)
    PROVE  PutOk(Put(p, o, l), l)
<1>1. /\ TableOk(idle) /\ permits \in Nat /\ permits + Cardinality(Lying(idle)) = IdleBudget
      /\ poolTime \in Nat /\ Lying(idle) \in SUBSET Links /\ Cardinality(Lying(idle)) \in Nat
  <2>1. Lying(idle) \in SUBSET Links
    BY DEF Lying
  <2> QED BY <2>1, PoolNumbers, CountOf DEF PoolInv, PoolType
<1>2. CASE Maximum = 0 \/ Keepalive = 0 \/ link[l] # "open"
  <2>1. PICK r : r = [idle |-> idle, permits |-> permits, dropped |-> {l}]
    OBVIOUS
  <2>2. Put(p, o, l) = r
    BY <1>2, <2>1 DEF Put
  <2>3. PutOk(r, l)
    BY <1>1, <2>1 DEF PutOk
  <2> QED BY <2>2, <2>3
<1>3. CASE ~(Maximum = 0 \/ Keepalive = 0 \/ link[l] # "open")
  <2>1. PICK evicts \in BOOLEAN : evicts <=> permits = 0 /\ Places(p) # {}
    OBVIOUS
  <2>2. PICK at : at = Oldest(p)
    OBVIOUS
  <2>3. PICK room : room = IF evicts THEN [idle EXCEPT ![p][at[1]] = SwapRemove(@, at[2])] ELSE idle
    OBVIOUS
  <2>4. PICK free : free = IF evicts THEN permits + 1 ELSE permits
    OBVIOUS
  <2>5. PICK gone : gone = IF evicts THEN {idle[p][at[1]][at[2]].link} ELSE {}
    OBVIOUS
  <2>6. PICK e : e = [link |-> l, expires |-> poolTime + Keepalive]
    OBVIOUS
  <2>7. Put(p, o, l) = IF free = 0 \/ Len(room[p][o]) >= Maximum
                       THEN [idle |-> room, permits |-> free, dropped |-> gone \cup {l}]
                       ELSE [idle |-> [room EXCEPT ![p][o] = Append(@, e)], permits |-> free - 1, dropped |-> gone]
    BY <1>3, <2>1, <2>2, <2>3, <2>4, <2>5, <2>6 DEF Put
  <2>8. /\ TableOk(room) /\ free \in Nat /\ free + Cardinality(Lying(room)) = IdleBudget
        /\ gone \subseteq Lying(idle) /\ Lying(room) = Lying(idle) \ gone /\ Cardinality(Lying(room)) \in Nat
    <3>1. CASE evicts
      <4>1. at \in Places(p)
        BY <2>1, <2>2, <3>1, OldestIs
      <4>2. PICK a \in Origins : a = at[1]
        BY <4>1, PlaceIs
      <4>3. PICK i \in 1..Len(idle[p][a]) : i = at[2]
        BY <4>1, <4>2, PlaceIs
      <4>4. PICK k : k = idle[p][a][i].link
        OBVIOUS
      <4>5. k \in LinksIn(idle[p][a])
        BY <4>4 DEF LinksIn
      <4>6. PICK s : s = SwapRemove(idle[p][a], i)
        OBVIOUS
      <4>7. idle[p][a] \in Seq(IdleEntry) /\ Distinct(idle[p][a])
        BY <1>1, CellIs
      <4>8. /\ s \in Seq(IdleEntry) /\ Len(s) <= Len(idle[p][a]) /\ Distinct(s)
            /\ LinksIn(s) = LinksIn(idle[p][a]) \ {k}
        BY <4>4, <4>6, <4>7, OneSwapped
      <4>9. room = WithBucket(idle, p, a, s)
        BY <2>3, <3>1, <4>2, <4>3, <4>6 DEF WithBucket
      <4>10. /\ TableOk(room) /\ Lying(room) = Lying(idle) \ {k} /\ k \in Lying(idle)
             /\ Cardinality(Lying(room)) = Cardinality(Lying(idle)) - 1
        BY <1>1, <4>5, <4>8, <4>9, OneLeaves
      <4>11. gone = {k}
        BY <2>5, <3>1, <4>2, <4>3, <4>4
      <4>12. Cardinality(Lying(room)) \in Nat
        <5>1. Lying(room) \in SUBSET Links
          BY DEF Lying
        <5> QED BY <5>1, PoolNumbers, CountOf
      <4> QED BY <1>1, <2>4, <3>1, <4>10, <4>11, <4>12
    <3>2. CASE ~evicts
      BY <1>1, <2>3, <2>4, <2>5, <3>2
    <3> QED BY <3>1, <3>2
  <2>9. l \notin Lying(room) /\ l \notin gone
    BY <2>8
  <2>10. CASE free = 0 \/ Len(room[p][o]) >= Maximum
    <3>1. PICK r : r = [idle |-> room, permits |-> free, dropped |-> gone \cup {l}]
      OBVIOUS
    <3>2. Put(p, o, l) = r
      BY <2>7, <2>10, <3>1
    <3>3. Lying(room) = (Lying(idle) \cup {l}) \ (gone \cup {l})
      BY <2>8, <2>9
    <3>4. PutOk(r, l)
      BY <2>8, <3>1, <3>3 DEF PutOk
    <3> QED BY <3>2, <3>4
  <2>11. CASE ~(free = 0 \/ Len(room[p][o]) >= Maximum)
    <3>1. PICK s : s = Append(room[p][o], e)
      OBVIOUS
    <3>2. e \in IdleEntry /\ e.link = l
      BY <1>1, <2>6, PoolNumbers DEF IdleEntry
    <3>3. /\ room[p][o] \in Seq(IdleEntry) /\ Distinct(room[p][o]) /\ Len(room[p][o]) \in Nat
          /\ LinksIn(room[p][o]) \subseteq Lying(room)
      BY <2>8, CellIs
    <3>4. /\ s \in Seq(IdleEntry) /\ Len(s) = Len(room[p][o]) + 1 /\ Distinct(s)
          /\ LinksIn(s) = LinksIn(room[p][o]) \cup {l}
      BY <2>9, <3>1, <3>2, <3>3, OneAppended
    <3>5. Len(s) <= Maximum
      BY <2>11, <3>3, <3>4, PoolNumbers
    <3>6. Fits(s, room, p, o)
      BY <2>9, <3>4, <3>5 DEF Fits
    <3>7. PICK U : U = WithBucket(room, p, o, s)
      OBVIOUS
    <3>8. TableOk(U) /\ Lying(U) = (Lying(room) \ LinksIn(room[p][o])) \cup LinksIn(s)
      BY <2>8, <3>6, <3>7, CellChanges
    <3>9. Lying(U) = Lying(room) \cup {l}
      BY <3>3, <3>4, <3>8
    <3>10. Cardinality(Lying(U)) = Cardinality(Lying(room)) + 1
      <4>1. Lying(room) \in SUBSET Links
        BY DEF Lying
      <4> QED BY <2>9, <3>9, <4>1, PoolNumbers, CountAdd
    <3>11. PICK r : r = [idle |-> U, permits |-> free - 1, dropped |-> gone]
      OBVIOUS
    <3>12. Put(p, o, l) = r
      BY <2>7, <2>11, <3>1, <3>7, <3>11 DEF WithBucket
    <3>13. Lying(U) = (Lying(idle) \cup {l}) \ gone
      BY <2>8, <2>9, <3>9
    <3>14. free - 1 \in Nat /\ free - 1 + Cardinality(Lying(U)) = IdleBudget
      BY <2>8, <2>11, <3>10
    <3>15. PutOk(r, l)
      BY <2>8, <3>8, <3>11, <3>13, <3>14 DEF PutOk
    <3> QED BY <3>12, <3>15
  <2> QED BY <2>10, <2>11
<1> QED BY <1>2, <1>3

-----------------------------------------------------------------------------
(* An exchange that comes to hold the connection k.                        *)
LEMMA TakenIs ==
    ASSUME PoolInv, NEW x \in Exchanges, NEW k \in Links, NEW w,
           w = [exchange[x] EXCEPT !.at = "sent", !.link = k, !.since = 0]
    PROVE  Proper(w) /\ w.link = k
<1>1. exchange[x] \in ExchangeStates
  BY ExchangeIs
<1>2. w \in ExchangeStates /\ w.link = k /\ w.at = "sent"
  BY <1>1 DEF ExchangeStates
<1> QED BY <1>2, PoolNumbers DEF Proper

LEMMA BeginKeeps == ASSUME PoolInv, NEW x \in Exchanges, Begin(x) PROVE PoolInv'
<1>1. PICK p \in Pools, o \in Origins : exchange' =
        [exchange EXCEPT ![x] = [Unstarted EXCEPT !.at = "checkout", !.pool = p, !.origin = o, !.since = poolTime]]
  BY DEF Begin
<1>2. PICK w : w = [Unstarted EXCEPT !.at = "checkout", !.pool = p, !.origin = o, !.since = poolTime]
  OBVIOUS
<1>3. poolTime \in Nat /\ UNCHANGED <<idle, permits, link, poolTime>> /\ exchange[x].at = "new"
  BY DEF PoolInv, PoolType, Begin
<1>4. w \in ExchangeStates /\ w.link = NoLink /\ w.at = "checkout"
  <2>1. PICK u \in ExchangeStates : u = Unstarted /\ u.link = NoLink
    BY UnstartedIs
  <2>2. PICK n \in Nat : n = poolTime
    BY <1>3
  <2>3. w = [u EXCEPT !.at = "checkout", !.pool = p, !.origin = o, !.since = n]
    BY <1>2, <2>1, <2>2
  <2> QED BY <2>1, <2>3 DEF ExchangeStates
<1>5. Proper(w) /\ w.link = exchange[x].link
  BY <1>3, <1>4, ExchangeIs DEF Proper
<1>6. /\ exchange' \in [Exchanges -> ExchangeStates] /\ UsedOnce'
      /\ Used' = (Used \ {exchange[x].link}) \cup ({w.link} \cap Links)
  BY <1>1, <1>2, <1>5, ExchangeChanges
<1>7. Used' = Used
  <2>1. NoLink \notin Links /\ Used \subseteq Links
    BY PoolNumbers DEF Used
  <2> QED BY <1>4, <1>5, <1>6, <2>1
<1> QED BY <1>3, <1>6, <1>7 DEF PoolInv, PoolType

LEMMA CheckoutKeeps == ASSUME PoolInv, NEW x \in Exchanges, Checkout(x) PROVE PoolInv'
<1>1. PICK p \in Pools : p = exchange[x].pool
  BY ExchangeIs
<1>2. PICK o \in Origins : o = exchange[x].origin
  BY ExchangeIs
<1>3. PICK seq \in Seq(IdleEntry) : seq = idle[p][o] /\ Distinct(seq)
  BY CellIs DEF PoolInv
<1>4. PICK k : k = seq[Len(seq)].link
  OBVIOUS
<1>5. PICK usable \in BOOLEAN : usable <=> seq[Len(seq)].expires > exchange[x].since /\ link[k] = "open"
  OBVIOUS
<1>6. PICK s : s = SubSeq(seq, 1, Len(seq) - 1)
  OBVIOUS
<1>7. /\ exchange[x].at = "checkout" /\ seq # <<>> /\ permits' = permits + 1 /\ poolTime' = poolTime
      /\ idle' = WithBucket(idle, p, o, s)
      /\ exchange' = IF usable THEN [exchange EXCEPT ![x].at = "sent", ![x].link = k, ![x].since = 0] ELSE exchange
      /\ link' = IF usable THEN link ELSE [link EXCEPT ![k] = "none"]
  BY <1>1, <1>2, <1>3, <1>4, <1>5, <1>6 DEF Checkout, WithBucket
<1>8. /\ s \in Seq(IdleEntry) /\ Len(s) <= Len(seq) /\ Distinct(s)
      /\ Len(seq) \in 1..Len(seq) /\ seq[Len(seq)] \in IdleEntry
      /\ LinksIn(s) = LinksIn(seq) \ {k}
  BY <1>3, <1>4, <1>6, <1>7, LastGoes
<1>9. k \in LinksIn(seq) /\ k \in Links
  BY <1>4, <1>8 DEF LinksIn, IdleEntry
<1>10. /\ TableOk(idle') /\ Lying(idle') = Lying(idle) \ {k} /\ k \in Lying(idle)
       /\ Cardinality(Lying(idle')) = Cardinality(Lying(idle)) - 1 /\ Cardinality(Lying(idle)) \in Nat
  <2>1. TableOk(idle)
    BY DEF PoolInv
  <2>2. k \in LinksIn(idle[p][o]) /\ Len(s) <= Len(idle[p][o]) /\ LinksIn(s) = LinksIn(idle[p][o]) \ {k}
    BY <1>3, <1>8, <1>9
  <2>3. PICK U : U = WithBucket(idle, p, o, s)
    OBVIOUS
  <2>4. /\ TableOk(U) /\ Lying(U) = Lying(idle) \ {k} /\ k \in Lying(idle)
        /\ Cardinality(Lying(U)) = Cardinality(Lying(idle)) - 1 /\ Cardinality(Lying(idle)) \in Nat
    BY <1>8, <2>1, <2>2, <2>3, OneLeaves, SMTT(30)
  <2> QED BY <1>7, <2>3, <2>4
<1>11. /\ permits' \in Nat /\ permits' + Cardinality(Lying(idle')) = IdleBudget /\ poolTime' \in Nat
       /\ idle' \in [Pools -> [Origins -> Seq(IdleEntry)]]
  BY <1>7, <1>10 DEF PoolInv, PoolType, TableOk
<1>12. /\ Used \cap Lying(idle) = {} /\ k \notin Used /\ link \in [Links -> LinkStates]
       /\ \A l \in Links : link[l] # "none" <=> l \in Used \cup Lying(idle)
  BY <1>10 DEF PoolInv, PoolType
<1>13. exchange[x].link = NoLink /\ NoLink \notin Links
  BY <1>7, ExchangeIs, PoolNumbers
<1>14. CASE usable
  <2>1. PICK w : w = [exchange[x] EXCEPT !.at = "sent", !.link = k, !.since = 0]
    OBVIOUS
  <2>2. exchange' = [exchange EXCEPT ![x] = w]
    BY <1>7, <1>14, <2>1
  <2>3. Proper(w) /\ w.link = k
    BY <1>9, <2>1, TakenIs
  <2>4. /\ exchange' \in [Exchanges -> ExchangeStates] /\ UsedOnce'
        /\ Used' = (Used \ {NoLink}) \cup ({k} \cap Links)
    BY <1>12, <1>13, <2>2, <2>3, ExchangeChanges
  <2>5. Used' = Used \cup {k}
    BY <1>9, <1>13, <2>4 DEF Used
  <2>6. Used' \cap Lying(idle') = {} /\ \A l \in Links : link'[l] # "none" <=> l \in Used' \cup Lying(idle')
    BY <1>7, <1>10, <1>12, <1>14, <2>5
  <2>7. link' \in [Links -> LinkStates]
    BY <1>7, <1>12, <1>14
  <2> QED BY <1>10, <1>11, <2>4, <2>6, <2>7 DEF PoolInv, PoolType
<1>15. CASE ~usable
  <2>1. exchange' = exchange /\ link' = [link EXCEPT ![k] = "none"] /\ Used' = Used /\ UsedOnce'
    <3>1. exchange' = exchange /\ link' = [link EXCEPT ![k] = "none"] /\ UsedOnce
      BY <1>7, <1>15 DEF PoolInv
    <3> QED BY <3>1 DEF Used, UsedOnce
  <2>2. link' \in [Links -> LinkStates] /\ link'[k] = "none" /\ \A l \in Links \ {k} : link'[l] = link[l]
    BY <1>9, <1>12, <2>1 DEF LinkStates
  <2>3. Used' \cap Lying(idle') = {} /\ \A l \in Links : link'[l] # "none" <=> l \in Used' \cup Lying(idle')
    BY <1>10, <1>12, <2>1, <2>2
  <2> QED BY <1>10, <1>11, <2>1, <2>2, <2>3 DEF PoolInv, PoolType
<1> QED BY <1>14, <1>15

(* An exchange is over, and its connection with it.                        *)
LEMMA OverIs ==
    ASSUME PoolInv, NEW x \in Exchanges, exchange' = [exchange EXCEPT ![x] = Unstarted]
    PROVE  exchange' \in [Exchanges -> ExchangeStates] /\ UsedOnce' /\ Used' = Used \ {exchange[x].link}
<1>1. PICK w : w = Unstarted
  OBVIOUS
<1>2. Proper(w) /\ w.link = NoLink /\ w.link \notin Used /\ {w.link} \cap Links = {}
  BY <1>1, UnstartedIs, PoolNumbers DEF Proper, Used
<1>3. exchange' = [exchange EXCEPT ![x] = w]
  BY <1>1
<1>4. /\ exchange' \in [Exchanges -> ExchangeStates] /\ UsedOnce'
      /\ Used' = (Used \ {exchange[x].link}) \cup ({w.link} \cap Links)
  BY <1>2, <1>3, ExchangeChanges
<1> QED BY <1>2, <1>4

LEMMA ConnectKeeps == ASSUME PoolInv, NEW x \in Exchanges, Connect(x) PROVE PoolInv'
<1>1. UNCHANGED <<idle, permits, poolTime>> /\ exchange[x].at = "checkout"
  BY DEF Connect
<1>2. exchange[x].link = NoLink /\ NoLink \notin Links
  BY <1>1, ExchangeIs, PoolNumbers
<1>3. /\ Used \cap Lying(idle) = {} /\ link \in [Links -> LinkStates] /\ Used \subseteq Links
      /\ \A l \in Links : link[l] # "none" <=> l \in Used \cup Lying(idle)
  BY DEF PoolInv, PoolType, Used
<1>4. CASE exchange' = [exchange EXCEPT ![x] = Unstarted] /\ UNCHANGED link
  <2>1. exchange' \in [Exchanges -> ExchangeStates] /\ UsedOnce' /\ Used' = Used
    <3>1. exchange' \in [Exchanges -> ExchangeStates] /\ UsedOnce' /\ Used' = Used \ {exchange[x].link}
      BY <1>4, OverIs
    <3> QED BY <1>2, <1>3, <3>1
  <2> QED BY <1>1, <1>4, <2>1 DEF PoolInv, PoolType
<1>5. CASE \E k \in Links : /\ link[k] = "none" /\ link' = [link EXCEPT ![k] = "open"]
                            /\ exchange' = [exchange EXCEPT ![x].at = "sent", ![x].link = k, ![x].since = 0]
  <2>1. PICK k \in Links : /\ link[k] = "none" /\ link' = [link EXCEPT ![k] = "open"]
                           /\ exchange' = [exchange EXCEPT ![x].at = "sent", ![x].link = k, ![x].since = 0]
    BY <1>5
  <2>2. PICK w : w = [exchange[x] EXCEPT !.at = "sent", !.link = k, !.since = 0]
    OBVIOUS
  <2>3. exchange' = [exchange EXCEPT ![x] = w]
    BY <2>1, <2>2
  <2>4. Proper(w) /\ w.link = k /\ k \notin Used /\ k \notin Lying(idle)
    <3>1. Proper(w) /\ w.link = k
      BY <2>2, TakenIs
    <3> QED BY <1>3, <2>1, <3>1
  <2>5. /\ exchange' \in [Exchanges -> ExchangeStates] /\ UsedOnce'
        /\ Used' = (Used \ {NoLink}) \cup ({k} \cap Links)
    BY <1>2, <2>3, <2>4, ExchangeChanges
  <2>6. Used' = Used \cup {k}
    BY <1>2, <1>3, <2>5
  <2>7. link' \in [Links -> LinkStates] /\ link'[k] = "open" /\ \A l \in Links \ {k} : link'[l] = link[l]
    BY <1>3, <2>1 DEF LinkStates
  <2>8. Used' \cap Lying(idle') = {} /\ \A l \in Links : link'[l] # "none" <=> l \in Used' \cup Lying(idle')
    BY <1>1, <1>3, <2>4, <2>6, <2>7
  <2> QED BY <1>1, <2>5, <2>7, <2>8 DEF PoolInv, PoolType
<1> QED BY <1>4, <1>5 DEF Connect

(* Client::put by an exchange that is over.                                *)
LEMMA PutBackKeeps ==
    ASSUME PoolInv, NEW x \in Exchanges, exchange[x].at \in {"sent", "body"},
           Pooled(Put(exchange[x].pool, exchange[x].origin, exchange[x].link)),
           exchange' = [exchange EXCEPT ![x] = Unstarted], poolTime' = poolTime
    PROVE  PoolInv'
<1>1. PICK k \in Links : k = exchange[x].link /\ k \in Used /\ k \notin Lying(idle)
  BY ExchangeIs
<1>2. PICK r : r = Put(exchange[x].pool, exchange[x].origin, k)
  OBVIOUS
<1>3. PutOk(r, k)
  <2>1. exchange[x].pool \in Pools /\ exchange[x].origin \in Origins
    BY ExchangeIs
  <2> QED BY <1>1, <1>2, <2>1, PutIs
<1>4. idle' = r.idle /\ permits' = r.permits /\ link' = [l \in Links |-> IF l \in r.dropped THEN "none" ELSE link[l]]
  BY <1>1, <1>2 DEF Pooled
<1>5. /\ TableOk(idle') /\ permits' \in Nat /\ permits' + Cardinality(Lying(idle')) = IdleBudget
      /\ r.dropped \subseteq Lying(idle) \cup {k} /\ Lying(idle') = (Lying(idle) \cup {k}) \ r.dropped
  BY <1>3, <1>4 DEF PutOk
<1>6. exchange' \in [Exchanges -> ExchangeStates] /\ UsedOnce' /\ Used' = Used \ {k}
  BY <1>1, OverIs
<1>7. /\ Used \cap Lying(idle) = {} /\ link \in [Links -> LinkStates] /\ poolTime \in Nat
      /\ \A l \in Links : link[l] # "none" <=> l \in Used \cup Lying(idle)
  BY DEF PoolInv, PoolType
<1>8. link' \in [Links -> LinkStates] /\ \A l \in Links : link'[l] = IF l \in r.dropped THEN "none" ELSE link[l]
  BY <1>4, <1>7 DEF LinkStates
<1>9. Used' \cap Lying(idle') = {}
  BY <1>5, <1>6, <1>7
<1>10. ASSUME NEW l \in Links PROVE link'[l] # "none" <=> l \in Used' \cup Lying(idle')
  <2>1. CASE l \in r.dropped
    BY <1>5, <1>6, <1>7, <1>8, <2>1
  <2>2. CASE l \notin r.dropped
    BY <1>1, <1>5, <1>6, <1>7, <1>8, <2>2
  <2> QED BY <2>1, <2>2
<1>11. idle' \in [Pools -> [Origins -> Seq(IdleEntry)]]
  BY <1>5 DEF TableOk
<1> QED BY <1>5, <1>6, <1>7, <1>8, <1>9, <1>10, <1>11 DEF PoolInv, PoolType

LEMMA RespondKeeps == ASSUME PoolInv, NEW x \in Exchanges, Respond(x) PROVE PoolInv'
<1>1. exchange[x].at = "sent" /\ poolTime' = poolTime
  BY DEF Respond
<1>2. CASE /\ Pooled(Put(exchange[x].pool, exchange[x].origin, exchange[x].link))
           /\ exchange' = [exchange EXCEPT ![x] = Unstarted]
  BY <1>1, <1>2, PutBackKeeps
<1>3. CASE exchange' = [exchange EXCEPT ![x].at = "body"] /\ UNCHANGED <<idle, permits, link>>
  <2>1. PICK w : w = [exchange[x] EXCEPT !.at = "body"]
    OBVIOUS
  <2>2. exchange' = [exchange EXCEPT ![x] = w]
    BY <1>3, <2>1
  <2>3. w \in ExchangeStates /\ w.link = exchange[x].link /\ w.at = "body"
    <3>1. exchange[x] \in ExchangeStates
      BY ExchangeIs
    <3> QED BY <2>1, <3>1 DEF ExchangeStates
  <2>4. Proper(w) /\ exchange[x].link \in Used /\ Used \subseteq Links
    BY <1>1, <2>3, ExchangeIs DEF Proper, Used
  <2>5. /\ exchange' \in [Exchanges -> ExchangeStates] /\ UsedOnce'
        /\ Used' = (Used \ {exchange[x].link}) \cup ({w.link} \cap Links)
    BY <2>2, <2>3, <2>4, ExchangeChanges
  <2>6. Used' = Used
    BY <2>3, <2>4, <2>5
  <2> QED BY <1>1, <1>3, <2>5, <2>6 DEF PoolInv, PoolType
<1> QED BY <1>2, <1>3 DEF Respond

LEMMA FailsKeeps == ASSUME PoolInv, NEW x \in Exchanges, ExchangeFails(x) PROVE PoolInv'
<1>1. /\ exchange[x].at \in {"sent", "body"} /\ UNCHANGED <<idle, permits, poolTime>>
      /\ exchange' = [exchange EXCEPT ![x] = Unstarted] /\ link' = [link EXCEPT ![exchange[x].link] = "none"]
  BY DEF ExchangeFails
<1>2. PICK k \in Links : k = exchange[x].link /\ k \in Used /\ k \notin Lying(idle)
  BY <1>1, ExchangeIs
<1>3. exchange' \in [Exchanges -> ExchangeStates] /\ UsedOnce' /\ Used' = Used \ {k}
  BY <1>1, <1>2, OverIs
<1>4. /\ Used \cap Lying(idle) = {} /\ link \in [Links -> LinkStates]
      /\ \A l \in Links : link[l] # "none" <=> l \in Used \cup Lying(idle)
  BY DEF PoolInv, PoolType
<1>5. link' \in [Links -> LinkStates] /\ link'[k] = "none" /\ \A l \in Links \ {k} : link'[l] = link[l]
  BY <1>1, <1>2, <1>4 DEF LinkStates
<1>6. Used' \cap Lying(idle') = {} /\ \A l \in Links : link'[l] # "none" <=> l \in Used' \cup Lying(idle')
  BY <1>1, <1>2, <1>3, <1>4, <1>5
<1> QED BY <1>1, <1>3, <1>5, <1>6 DEF PoolInv, PoolType

LEMMA AsideKeeps ==
    ASSUME PoolInv, \/ \E l \in Links : UpstreamCloses(l)
                    \/ PoolTick
    PROVE  PoolInv'
<1>1. UNCHANGED <<idle, permits, exchange>> /\ Used' = Used
  BY DEF UpstreamCloses, PoolTick, Used
<1>2. UsedOnce'
  BY <1>1 DEF PoolInv, UsedOnce
<1>3. link \in [Links -> LinkStates] /\ poolTime \in Nat
  BY DEF PoolInv, PoolType
<1>4. /\ link' \in [Links -> LinkStates] /\ poolTime' \in Nat
      /\ \A l \in Links : link'[l] # "none" <=> link[l] # "none"
  <2>1. CASE PoolTick
    BY <1>3, <2>1 DEF PoolTick
  <2>2. ASSUME NEW k \in Links, UpstreamCloses(k)
        PROVE  /\ link' \in [Links -> LinkStates] /\ poolTime' \in Nat
               /\ \A l \in Links : link'[l] # "none" <=> link[l] # "none"
    BY <1>3, <2>2 DEF UpstreamCloses, LinkStates
  <2> QED BY <2>1, <2>2
<1> QED BY <1>1, <1>2, <1>4 DEF PoolInv, PoolType

(* The cleanup task: what expired leaves the buckets of one pool.          *)
Thinner(row, T, p) ==
    /\ row \in [Origins -> Seq(IdleEntry)]
    /\ \A o \in Origins : Distinct(row[o]) /\ Len(row[o]) <= Maximum /\ LinksIn(row[o]) \subseteq LinksIn(T[p][o])
Stays(l, row, T, p) == \A o \in Origins : l \in LinksIn(T[p][o]) => l \in LinksIn(row[o])

Staying(row, T, p) == {l \in Lying(T) : Stays(l, row, T, p)}
WithRow(T, p, row) == [T EXCEPT ![p] = row]

LEMMA RowThins ==
    ASSUME NEW T, TableOk(T), NEW p \in Pools, NEW row, Thinner(row, T, p), NEW U, U = WithRow(T, p, row)
    PROVE  TableOk(U) /\ Lying(U) = Staying(row, T, p)
<1>1. T \in [Pools -> [Origins -> Seq(IdleEntry)]] /\ row \in [Origins -> Seq(IdleEntry)]
  BY DEF TableOk, Thinner
<1>2. /\ U \in [Pools -> [Origins -> Seq(IdleEntry)]] /\ U[p] = row
      /\ \A q \in Pools : q # p => U[q] = T[q]
  BY <1>1 DEF WithRow
<1>3. \A q \in Pools, n \in Origins : LinksIn(U[q][n]) \subseteq LinksIn(T[q][n])
  BY <1>2 DEF Thinner
<1>4. TableOk(U)
  <2>1. \A q \in Pools, n \in Origins : Distinct(U[q][n]) /\ Len(U[q][n]) <= Maximum
    BY <1>2 DEF TableOk, Thinner
  <2>2. ASSUME NEW q \in Pools, NEW r \in Pools, NEW n \in Origins, NEW m \in Origins,
               LinksIn(U[q][n]) \cap LinksIn(U[r][m]) # {}
        PROVE  q = r /\ n = m
    <3>1. LinksIn(T[q][n]) \cap LinksIn(T[r][m]) # {}
      BY <1>3, <2>2
    <3> QED BY <3>1 DEF TableOk
  <2> QED BY <1>2, <2>1, <2>2 DEF TableOk
<1>5. ASSUME NEW l \in Lying(U) PROVE l \in Lying(T) /\ Stays(l, row, T, p)
  <2>1. PICK q \in Pools, n \in Origins : l \in LinksIn(U[q][n]) /\ l \in Links
    BY DEF Lying
  <2>2. l \in LinksIn(T[q][n])
    BY <1>3, <2>1
  <2>3. ASSUME NEW o \in Origins, l \in LinksIn(T[p][o]) PROVE l \in LinksIn(row[o])
    <3>1. LinksIn(T[q][n]) \cap LinksIn(T[p][o]) # {}
      BY <2>2, <2>3
    <3>2. q = p /\ n = o
      BY <3>1 DEF TableOk
    <3> QED BY <1>2, <2>1, <3>2
  <2> QED BY <2>1, <2>2, <2>3 DEF Lying, Stays
<1>6. ASSUME NEW l \in Lying(T), Stays(l, row, T, p) PROVE l \in Lying(U)
  <2>1. PICK q \in Pools, n \in Origins : l \in LinksIn(T[q][n]) /\ l \in Links
    BY DEF Lying
  <2>2. l \in LinksIn(U[q][n])
    BY <1>2, <1>6, <2>1 DEF Stays
  <2> QED BY <2>1, <2>2 DEF Lying
<1> QED BY <1>4, <1>5, <1>6 DEF Staying

LEMMA CleanupKeeps == ASSUME PoolInv, NEW p \in Pools, Cleanup(p) PROVE PoolInv'
<1> DEFINE at(a) == idle[p][a[1]][a[2]]
<1>1. PICK expired : expired = {a \in Places(p) : idle[p][a[1]][a[2]].expires <= poolTime}
  OBVIOUS
<1>2. PICK row : row = [o \in Origins |-> Retained(idle[p][o], Unexpired(idle[p][o]))]
  OBVIOUS
<1>3. /\ idle' = [idle EXCEPT ![p] = row] /\ permits' = permits + Cardinality(expired)
      /\ link' = [l \in Links |-> IF \E a \in expired : at(a).link = l THEN "none" ELSE link[l]]
      /\ UNCHANGED <<exchange, poolTime>>
  BY <1>1, <1>2 DEF Cleanup
<1>4. TableOk(idle) /\ poolTime \in Nat /\ permits \in Nat /\ Maximum \in Nat /\ IsFiniteSet(Links)
  BY PoolNumbers DEF PoolInv, PoolType
<1>5. ASSUME NEW o \in Origins
      PROVE  /\ row[o] \in Seq(IdleEntry) /\ Len(row[o]) <= Maximum /\ Distinct(row[o])
             /\ \A i \in Unexpired(idle[p][o]) : idle[p][o][i].link \in LinksIn(row[o])
             /\ \A l \in LinksIn(row[o]) : \E i \in Unexpired(idle[p][o]) : idle[p][o][i].link = l
  <2>1. PICK seq \in Seq(IdleEntry) : seq = idle[p][o] /\ Distinct(seq) /\ Len(seq) <= Maximum /\ Len(seq) \in Nat
    BY <1>4, CellIs
  <2>2. PICK P \in SUBSET (1..Len(seq)) : P = Unexpired(seq)
    BY DEF Unexpired
  <2>3. PICK s : s = Retained(seq, P)
    OBVIOUS
  <2>4. /\ s \in Seq(IdleEntry) /\ Len(s) <= Len(seq) /\ Distinct(s)
        /\ \A i \in P : seq[i].link \in LinksIn(s)
        /\ \A l \in LinksIn(s) : \E i \in P : seq[i].link = l
    BY <2>1, <2>2, <2>3, RetainedIs
  <2>5. row[o] = s
    BY <1>2, <2>1, <2>2, <2>3
  <2>6. Len(s) <= Maximum
    BY <1>4, <2>1, <2>4
  <2> QED BY <2>1, <2>2, <2>4, <2>5, <2>6
<1>6. \A o \in Origins : \A i \in 1..Len(idle[p][o]) :
        /\ <<o, i>> \in expired <=> i \notin Unexpired(idle[p][o])
        /\ idle[p][o][i].link \in LinksIn(idle[p][o])
  <2>1. SUFFICES ASSUME NEW o \in Origins, NEW i \in 1..Len(idle[p][o])
                 PROVE  /\ <<o, i>> \in expired <=> i \notin Unexpired(idle[p][o])
                        /\ idle[p][o][i].link \in LinksIn(idle[p][o])
    OBVIOUS
  <2>2. idle[p][o] \in Seq(IdleEntry) /\ Len(idle[p][o]) <= Maximum /\ Len(idle[p][o]) \in Nat
    BY <1>4, CellIs
  <2>3. i \in 1..Maximum /\ i <= Len(idle[p][o])
    BY <1>4, <2>2
  <2>4. <<o, i>> \in Places(p)
    BY <2>3 DEF Places
  <2>5. idle[p][o][i].expires \in Nat
    <3>1. idle[p][o][i] \in IdleEntry
      BY <2>2
    <3> QED BY <3>1 DEF IdleEntry
  <2>6. <<o, i>> \in expired <=> idle[p][o][i].expires <= poolTime
    BY <1>1, <2>4
  <2>7. i \in Unexpired(idle[p][o]) <=> idle[p][o][i].expires > poolTime
    BY DEF Unexpired
  <2>8. idle[p][o][i].link \in LinksIn(idle[p][o])
    BY DEF LinksIn
  <2> QED BY <1>4, <2>5, <2>6, <2>7, <2>8
<1>7. \A a \in expired : /\ a[1] \in Origins /\ a[2] \in 1..Len(idle[p][a[1]]) /\ a = <<a[1], a[2]>>
                         /\ at(a).link \in LinksIn(idle[p][a[1]])
  BY <1>1, PlaceIs
<1>8. PICK gone : gone = {l \in Links : \E a \in expired : at(a).link = l}
  OBVIOUS
<1>9. \A o \in Origins : LinksIn(row[o]) \subseteq LinksIn(idle[p][o])
  <2>1. \A o \in Origins : \A i \in Unexpired(idle[p][o]) : i \in 1..Len(idle[p][o])
    BY DEF Unexpired
  <2>2. ASSUME NEW o \in Origins, NEW l \in LinksIn(row[o]) PROVE l \in LinksIn(idle[p][o])
    <3>1. PICK i \in Unexpired(idle[p][o]) : idle[p][o][i].link = l
      BY <1>5
    <3>2. i \in 1..Len(idle[p][o])
      BY <2>1, <3>1
    <3> QED BY <1>6, <3>1, <3>2
  <2> QED BY <2>2
<1>10. ASSUME NEW a \in expired, NEW o \in Origins PROVE at(a).link \notin LinksIn(row[o])
  <2>1. SUFFICES ASSUME at(a).link \in LinksIn(row[o]) PROVE FALSE
    OBVIOUS
  <2>2. PICK i \in Unexpired(idle[p][o]) : idle[p][o][i].link = at(a).link
    BY <1>5, <2>1
  <2>3. i \in 1..Len(idle[p][o])
    BY <2>2 DEF Unexpired
  <2>4. idle[p][o][i].link \in LinksIn(idle[p][o])
    BY <1>6, <2>3
  <2>5. a[1] \in Origins /\ a[2] \in 1..Len(idle[p][a[1]]) /\ a = <<a[1], a[2]>> /\ at(a).link \in LinksIn(idle[p][a[1]])
    BY <1>7
  <2>6. o = a[1]
    <3>1. LinksIn(idle[p][o]) \cap LinksIn(idle[p][a[1]]) # {}
      BY <2>2, <2>4, <2>5
    <3> QED BY <1>4, <2>5, <3>1 DEF TableOk
  <2>7. i = a[2]
    BY <1>4, <2>2, <2>3, <2>5, <2>6 DEF TableOk, Distinct
  <2> QED BY <1>6, <2>2, <2>3, <2>5, <2>6, <2>7
<1>11. ASSUME NEW o \in Origins, NEW l \in LinksIn(idle[p][o]), l \notin gone PROVE l \in LinksIn(row[o])
  <2>1. PICK i \in 1..Len(idle[p][o]) : idle[p][o][i].link = l
    BY DEF LinksIn
  <2>2. l \in Links
    BY <1>4, CellIs DEF Lying
  <2>3. <<o, i>> \notin expired
    <3>1. at(<<o, i>>).link = l
      BY <2>1
    <3> QED BY <1>8, <1>11, <2>2, <3>1
  <2> QED BY <1>5, <1>6, <2>1, <2>3
<1>12. gone \subseteq Lying(idle) /\ Lying(idle) \in SUBSET Links
  <2>1. \A a \in expired : at(a).link \in Lying(idle)
    BY <1>4, <1>7, CellIs
  <2> QED BY <1>8, <2>1 DEF Lying
<1>13. TableOk(idle') /\ Lying(idle') = Lying(idle) \ gone
  <2>1. Thinner(row, idle, p)
    BY <1>2, <1>5, <1>9 DEF Thinner
  <2>2. TableOk(idle') /\ Lying(idle') = Staying(row, idle, p)
    <3>1. PICK U : U = WithRow(idle, p, row)
      OBVIOUS
    <3>2. TableOk(U) /\ Lying(U) = Staying(row, idle, p)
      BY <1>4, <2>1, <3>1, RowThins
    <3> QED BY <1>3, <3>1, <3>2 DEF WithRow
  <2>3. ASSUME NEW l \in Lying(idle), Stays(l, row, idle, p) PROVE l \notin gone
    <3>1. SUFFICES ASSUME NEW a \in expired, at(a).link = l PROVE FALSE
      BY <1>8
    <3>2. l \in LinksIn(idle[p][a[1]]) /\ a[1] \in Origins
      BY <1>7, <3>1
    <3> QED BY <1>10, <2>3, <3>1, <3>2 DEF Stays
  <2>4. ASSUME NEW l \in Lying(idle), l \notin gone PROVE Stays(l, row, idle, p)
    BY <1>11, <2>4 DEF Stays
  <2> QED BY <2>2, <2>3, <2>4 DEF Staying
<1>14. Cardinality(expired) = Cardinality(gone) /\ Cardinality(gone) \in Nat /\ IsFiniteSet(Lying(idle)) /\ Cardinality(Lying(idle)) \in Nat
  <2>1. IsFiniteSet(gone) /\ Cardinality(gone) \in Nat /\ IsFiniteSet(Lying(idle)) /\ Cardinality(Lying(idle)) \in Nat
    BY <1>4, <1>12, CountOf, gone \in SUBSET Links
  <2>2. PICK f : f = [a \in expired |-> at(a).link]
    OBVIOUS
  <2>3. ASSUME NEW a \in expired PROVE at(a).link \in gone
    <3>1. a[1] \in Origins /\ at(a).link \in LinksIn(idle[p][a[1]])
      BY <1>7
    <3>2. LinksIn(idle[p][a[1]]) \subseteq Lying(idle)
      BY <1>4, <3>1, CellIs
    <3>3. at(a).link \in Links
      BY <1>12, <3>1, <3>2, SMTT(30)
    <3> QED BY <1>8, <3>3
  <2>4. f \in [expired -> gone] /\ \A t \in gone : \E a \in expired : f[a] = t
    BY <1>8, <2>2, <2>3
  <2>5. ASSUME NEW a \in expired, NEW b \in expired, f[a] = f[b] PROVE a = b
    <3>1. at(a).link = at(b).link
      BY <2>2, <2>5
    <3>2. /\ a[1] \in Origins /\ a[2] \in 1..Len(idle[p][a[1]]) /\ a = <<a[1], a[2]>> /\ at(a).link \in LinksIn(idle[p][a[1]])
          /\ b[1] \in Origins /\ b[2] \in 1..Len(idle[p][b[1]]) /\ b = <<b[1], b[2]>> /\ at(b).link \in LinksIn(idle[p][b[1]])
      BY <1>7
    <3>3. LinksIn(idle[p][a[1]]) \cap LinksIn(idle[p][b[1]]) # {}
      BY <3>1, <3>2
    <3>4. a[1] = b[1]
      BY <1>4, <3>2, <3>3 DEF TableOk
    <3>5. a[2] = b[2]
      BY <1>4, <3>1, <3>2, <3>4 DEF TableOk, Distinct
    <3> QED BY <3>2, <3>4, <3>5
  <2>6. Cardinality(expired) = Cardinality(gone)
    BY <2>1, <2>4, <2>5, CountByImage
  <2> QED BY <2>1, <2>6
<1>15. permits' \in Nat /\ permits' + Cardinality(Lying(idle')) = IdleBudget
  <2>1. Cardinality(Lying(idle) \ gone) = Cardinality(Lying(idle)) - Cardinality(Lying(idle) \cap gone)
    BY <1>14, FS_Difference
  <2>2. Lying(idle) \cap gone = gone
    BY <1>12
  <2>3. permits + Cardinality(Lying(idle)) = IdleBudget
    BY DEF PoolInv
  <2>4. Cardinality(Lying(idle')) = Cardinality(Lying(idle)) - Cardinality(gone)
    BY <1>13, <2>1, <2>2
  <2> QED BY <1>3, <1>4, <1>14, <2>3, <2>4
<1>16. Used' = Used /\ UsedOnce' /\ exchange' \in [Exchanges -> ExchangeStates] /\ poolTime' \in Nat
  BY <1>3 DEF PoolInv, PoolType, Used, UsedOnce
<1>17. link \in [Links -> LinkStates] /\ Used \cap Lying(idle) = {}
       /\ \A l \in Links : link[l] # "none" <=> l \in Used \cup Lying(idle)
  BY DEF PoolInv, PoolType
<1>18. link' \in [Links -> LinkStates] /\ \A l \in Links : link'[l] = IF l \in gone THEN "none" ELSE link[l]
  BY <1>3, <1>8, <1>17 DEF LinkStates
<1>19. Used' \cap Lying(idle') = {} /\ \A l \in Links : link'[l] # "none" <=> l \in Used' \cup Lying(idle')
  BY <1>12, <1>13, <1>16, <1>17, <1>18
<1>20. idle' \in [Pools -> [Origins -> Seq(IdleEntry)]]
  BY <1>13 DEF TableOk
<1> QED BY <1>13, <1>15, <1>16, <1>18, <1>19, <1>20 DEF PoolInv, PoolType

LEMMA PoolInitInv == UpstreamPoolInit => PoolInv
<1>1. SUFFICES ASSUME UpstreamPoolInit PROVE PoolInv
  OBVIOUS
<1>2. /\ idle \in [Pools -> [Origins -> Seq(IdleEntry)]]
      /\ \A p \in Pools, o \in Origins : idle[p][o] = <<>>
  BY <1>1 DEF UpstreamPoolInit
<1>3. \A p \in Pools, o \in Origins : Len(idle[p][o]) = 0 /\ LinksIn(idle[p][o]) = {} /\ Distinct(idle[p][o])
  BY <1>2 DEF LinksIn, Distinct
<1>4. TableOk(idle) /\ Lying(idle) = {}
  <2>1. \A p \in Pools, o \in Origins : Len(idle[p][o]) <= Maximum
    BY <1>3, PoolNumbers
  <2>2. \A p, q \in Pools, o, n \in Origins : LinksIn(idle[p][o]) \cap LinksIn(idle[q][n]) = {}
    BY <1>3
  <2>3. TableOk(idle)
    BY <1>2, <1>3, <2>1, <2>2 DEF TableOk
  <2> QED BY <1>3, <2>3 DEF Lying
<1>5. exchange \in [Exchanges -> ExchangeStates] /\ \A x \in Exchanges : exchange[x].at = "new" /\ exchange[x].link = NoLink
  BY <1>1, UnstartedIs DEF UpstreamPoolInit
<1>6. UsedOnce /\ Used = {}
  BY <1>5, PoolNumbers DEF UsedOnce, Used
<1>7. link \in [Links -> LinkStates] /\ \A l \in Links : link[l] = "none"
  BY <1>1 DEF UpstreamPoolInit, LinkStates
<1>8. permits \in Nat /\ poolTime \in Nat /\ permits + Cardinality({}) = IdleBudget
  BY <1>1, PoolNumbers, FS_EmptySet DEF UpstreamPoolInit
<1> QED BY <1>2, <1>4, <1>5, <1>6, <1>7, <1>8 DEF PoolInv, PoolType

LEMMA PoolStep == PoolInv /\ [UpstreamPoolNext]_poolVars => PoolInv'
<1>1. ASSUME PoolInv, NEW x \in Exchanges,
             Begin(x) \/ Checkout(x) \/ Connect(x) \/ Respond(x) \/ BodyEnds(x) \/ ExchangeFails(x)
      PROVE  PoolInv'
  <2>1. CASE BodyEnds(x)
    BY <1>1, <2>1, PutBackKeeps DEF BodyEnds
  <2> QED BY <1>1, <2>1, BeginKeeps, CheckoutKeeps, ConnectKeeps, RespondKeeps, FailsKeeps
<1>2. ASSUME PoolInv, NEW p \in Pools, Cleanup(p) PROVE PoolInv'
  BY <1>2, CleanupKeeps
<1>3. ASSUME PoolInv, (\E l \in Links : UpstreamCloses(l)) \/ PoolTick PROVE PoolInv'
  BY <1>3, AsideKeeps
<1>4. ASSUME PoolInv, UNCHANGED poolVars PROVE PoolInv'
  BY <1>4 DEF PoolInv, PoolType, UsedOnce, Used, poolVars
<1> QED BY <1>1, <1>2, <1>3, <1>4 DEF UpstreamPoolNext

(* The invariant read by places: a connection that lies in a bucket has    *)
(* one place, and one exchange has a connection that is in use.            *)
LEMMA EntryIs ==
    ASSUME PoolInv, NEW e \in IdleEntries
    PROVE  /\ e[1] \in Pools /\ e[2] \in Origins /\ e[3] \in 1..Len(idle[e[1]][e[2]]) /\ e = <<e[1], e[2], e[3]>>
           /\ LinkAt(e) \in LinksIn(idle[e[1]][e[2]]) /\ LinkAt(e) \in Lying(idle)
<1>1. PICK p \in Pools, o \in Origins : e \in EntriesOf(p, o)
  BY DEF IdleEntries
<1>2. PICK i \in 1..Len(idle[p][o]) : e = <<p, o, i>>
  BY <1>1 DEF EntriesOf
<1>3. LinkAt(e) = idle[p][o][i].link
  BY <1>2 DEF LinkAt
<1>4. LinkAt(e) \in LinksIn(idle[p][o])
  BY <1>3 DEF LinksIn
<1>5. LinkAt(e) \in Lying(idle)
  BY <1>4, CellIs DEF PoolInv
<1> QED BY <1>2, <1>4, <1>5

LEMMA EntriesDiffer ==
    ASSUME PoolInv, NEW d \in IdleEntries, NEW e \in IdleEntries, LinkAt(d) = LinkAt(e)
    PROVE  d = e
<1>1. /\ d[1] \in Pools /\ d[2] \in Origins /\ d[3] \in 1..Len(idle[d[1]][d[2]]) /\ d = <<d[1], d[2], d[3]>>
      /\ LinkAt(d) \in LinksIn(idle[d[1]][d[2]])
  BY EntryIs
<1>2. /\ e[1] \in Pools /\ e[2] \in Origins /\ e[3] \in 1..Len(idle[e[1]][e[2]]) /\ e = <<e[1], e[2], e[3]>>
      /\ LinkAt(e) \in LinksIn(idle[e[1]][e[2]])
  BY EntryIs
<1>3. LinksIn(idle[d[1]][d[2]]) \cap LinksIn(idle[e[1]][e[2]]) # {}
  BY <1>1, <1>2
<1>4. d[1] = e[1] /\ d[2] = e[2]
  BY <1>1, <1>2, <1>3 DEF PoolInv, TableOk
<1>5. d[3] = e[3]
  BY <1>1, <1>2, <1>4 DEF PoolInv, TableOk, Distinct, LinkAt
<1> QED BY <1>1, <1>2, <1>4, <1>5

LEMMA LyingAt ==
    ASSUME PoolInv, NEW l \in Lying(idle)
    PROVE  \E e \in IdleEntries : LinkAt(e) = l
<1>1. PICK p \in Pools, o \in Origins : l \in LinksIn(idle[p][o])
  BY DEF Lying
<1>2. PICK i \in 1..Len(idle[p][o]) : idle[p][o][i].link = l
  BY <1>1 DEF LinksIn
<1>3. <<p, o, i>> \in IdleEntries
  <2>1. <<p, o, i>> \in EntriesOf(p, o)
    BY <1>2 DEF EntriesOf
  <2> QED BY <2>1 DEF IdleEntries
<1>4. LinkAt(<<p, o, i>>) = l
  BY <1>2 DEF LinkAt
<1> QED BY <1>3, <1>4

LEMMA PoolInvSays == PoolInv => ConnectionsExclusive
<1>1. SUFFICES ASSUME PoolInv PROVE ConnectionsExclusive
  OBVIOUS
<1>2. ASSUME NEW l \in Links
      PROVE  Cardinality(InUseBy(l)) + Cardinality({e \in IdleEntries : LinkAt(e) = l})
               = IF link[l] = "none" THEN 0 ELSE 1
  <2>1. l # NoLink
    BY PoolNumbers
  <2>2. Cardinality(InUseBy(l)) = IF l \in Used THEN 1 ELSE 0
    <3>1. CASE l \in Used
      <4>1. PICK x \in Exchanges : exchange[x].link = l
        BY <3>1 DEF Used
      <4>2. InUseBy(l) = {x}
        BY <1>1, <2>1, <4>1 DEF InUseBy, PoolInv, UsedOnce
      <4> QED BY <3>1, <4>2, FS_Singleton
    <3>2. CASE l \notin Used
      <4>1. InUseBy(l) = {}
        BY <3>2 DEF InUseBy, Used
      <4> QED BY <3>2, <4>1, FS_EmptySet
    <3> QED BY <3>1, <3>2
  <2>3. Cardinality({e \in IdleEntries : LinkAt(e) = l}) = IF l \in Lying(idle) THEN 1 ELSE 0
    <3>1. CASE l \in Lying(idle)
      <4>1. PICK e \in IdleEntries : LinkAt(e) = l
        BY <1>1, <3>1, LyingAt
      <4>2. {d \in IdleEntries : LinkAt(d) = l} = {e}
        BY <1>1, <4>1, EntriesDiffer
      <4> QED BY <3>1, <4>2, FS_Singleton
    <3>2. CASE l \notin Lying(idle)
      <4>1. {e \in IdleEntries : LinkAt(e) = l} = {}
        BY <1>1, <3>2, EntryIs
      <4> QED BY <3>2, <4>1, FS_EmptySet
    <3> QED BY <3>1, <3>2
  <2>4. Used \cap Lying(idle) = {} /\ (link[l] # "none" <=> l \in Used \cup Lying(idle))
    BY <1>1 DEF PoolInv
  <2> QED BY <2>2, <2>3, <2>4
<1>3. Cardinality(IdleEntries) = Cardinality(Lying(idle))
  <2>1. IsFiniteSet(Lying(idle))
    BY PoolNumbers, CountOf, Lying(idle) \in SUBSET Links DEF Lying
  <2>2. PICK f : f = [e \in IdleEntries |-> LinkAt(e)]
    OBVIOUS
  <2>3. f \in [IdleEntries -> Lying(idle)] /\ \A l \in Lying(idle) : \E e \in IdleEntries : f[e] = l
    BY <1>1, <2>2, EntryIs, LyingAt
  <2>4. \A d, e \in IdleEntries : f[d] = f[e] => d = e
    BY <1>1, <2>2, EntriesDiffer
  <2> QED BY <2>1, <2>3, <2>4, CountByImage
<1>4. permits + Cardinality(IdleEntries) = IdleBudget
  BY <1>1, <1>3 DEF PoolInv
<1>5. \A p \in Pools, o \in Origins : Len(idle[p][o]) <= Maximum
  BY <1>1 DEF PoolInv, TableOk
<1> QED BY <1>2, <1>4, <1>5 DEF ConnectionsExclusive

(* No two requests ever share an upstream connection, none is leaked, and  *)
(* the budget of idle connections is exact (Client::checkout and put of    *)
(* proxy/hyper/inline.rs), for any number of pools, addresses, requests    *)
(* and connections.                                                        *)
THEOREM ConnectionsAreExclusive == UpstreamPoolSpec => []ConnectionsExclusive
<1>1. UpstreamPoolInit => PoolInv
  BY PoolInitInv
<1>2. PoolInv /\ [UpstreamPoolNext]_poolVars => PoolInv'
  BY PoolStep
<1>3. PoolInv => ConnectionsExclusive
  BY PoolInvSays
<1> QED BY <1>1, <1>2, <1>3, PTL DEF UpstreamPoolSpec
=============================================================================
