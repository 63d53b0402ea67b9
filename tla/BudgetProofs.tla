---------------------------- MODULE BudgetProofs ----------------------------
(***************************************************************************)
(* Proofs about what is counted and kept: the permits of a namespace       *)
(* (Tenancy), of limits (Limiter) and of connections (Connections), the    *)
(* records of telemetry (Export) and those of the log files (FileLogs).  A *)
(* count is kept in one place and what it counts in another, and they are  *)
(* brought up to date in different steps; the theorems say that they       *)
(* agree, for any number of requests, connections, threads, keys and       *)
(* addresses, and that a written record is not lost on the way from a log  *)
(* file to its archive.                                                    *)
(***************************************************************************)
EXTENDS FileLogs, Tenancy, Export, Limiter, Connections, CountTheorems

-----------------------------------------------------------------------------
(* Tenancy.                                                                *)

MemberStates == [at : {"new", "loaded", "served", "refused"}, tenant : 0..MaxObjects, quota : Nat]
Served(o) == {m \in Members : member[m].at = "served" /\ member[m].tenant = o}

TenancyType ==
    /\ tenants \in [registry : 0..MaxObjects, snapshot : 0..MaxObjects, draft : 0..MaxObjects]
    /\ quota \in [Objects -> Nat]
    /\ active \in [Objects -> Nat]
    /\ member \in [Members -> MemberStates]
HoldsTenant == \A m \in Members : member[m].at = "new" <=> member[m].tenant = 0
ServedCounted == \A o \in Objects : active[o] = Cardinality(Served(o))
OneReferenced == \A o \in Objects : Referenced(o) => o = tenants.registry

TenancyInv == TenancyType /\ HoldsTenant /\ ServedCounted /\ OneReferenced

LEMMA ObjectsAre == Objects \subseteq 0..MaxObjects /\ 0 \notin Objects /\ 0 \in 0..MaxObjects
  BY TenancyAssumption DEF Objects

LEMMA TenancyInitInv == TenancyInit => TenancyInv
<1> SUFFICES ASSUME TenancyInit PROVE TenancyInv
  OBVIOUS
<1>1. Outside \in MemberStates /\ Outside.at = "new" /\ Outside.tenant = 0
  BY ObjectsAre DEF Outside, MemberStates, NoObject
<1>2. TenancyType /\ HoldsTenant
  BY <1>1, ObjectsAre DEF TenancyInit, TenancyType, HoldsTenant, NoObject
<1>3. ASSUME NEW o \in Objects PROVE active[o] = Cardinality(Served(o)) /\ ~Referenced(o)
  <2>1. Served(o) = {}
    BY <1>1 DEF TenancyInit, Served
  <2> QED BY <1>1, <2>1, FS_EmptySet, ObjectsAre DEF TenancyInit, Referenced, NoObject
<1> QED BY <1>2, <1>3 DEF TenancyInv, ServedCounted, OneReferenced

(* Builds and snapshots: what requests hold stays as it is.                *)
LEMMA BuildsInv ==
    ASSUME TenancyInv, (\E q \in Quotas : BuildTenant(q)) \/ Retain \/ PublishTenant \/ DropBuild
    PROVE  TenancyInv'
<1> USE DEF NoObject
<1>1. UNCHANGED <<active, member>>
  BY DEF BuildTenant, Retain, PublishTenant, DropBuild
<1>2. HoldsTenant' /\ ServedCounted'
  BY <1>1 DEF TenancyInv, HoldsTenant, ServedCounted, Served
<1>3. CASE Retain \/ PublishTenant \/ DropBuild
  <2>1. TenancyType'
    BY <1>1, <1>3, ObjectsAre DEF TenancyInv, TenancyType, Retain, PublishTenant, DropBuild
  <2>2. ASSUME NEW x \in Objects, Referenced(x)' PROVE x = tenants'.registry
    <3>1. x # 0
      BY ObjectsAre
    <3>2. Referenced(x)
      BY <1>1, <1>3, <2>2, <3>1
      DEF TenancyInv, TenancyType, Referenced, Retain, PublishTenant, DropBuild
    <3>3. x = tenants.registry
      BY <3>2 DEF TenancyInv, OneReferenced
    <3> QED BY <1>3, <3>2, <3>3 DEF TenancyInv, TenancyType, Retain, PublishTenant, DropBuild
  <2> QED BY <1>2, <2>1, <2>2 DEF TenancyInv, OneReferenced
<1>4. CASE \E q \in Quotas : BuildTenant(q)
  <2>1. PICK q \in Quotas : BuildTenant(q)
    BY <1>4
  <2>2. TenantFor \in Objects
    <3>1. CASE tenants.registry # 0
      BY <3>1, TenancyAssumption DEF TenantFor, TenancyInv, TenancyType, Objects
    <3>2. CASE tenants.registry = 0
      BY <2>1, <3>2 DEF TenantFor, BuildTenant
    <3> QED BY <3>1, <3>2
  <2> HIDE DEF Objects
  <2>3. /\ tenants'.registry = TenantFor /\ tenants'.draft = TenantFor
        /\ tenants'.snapshot = tenants.snapshot
    BY <2>1 DEF BuildTenant, TenancyInv, TenancyType
  <2>4. TenancyType'
    <3>1. tenants' \in [registry : 0..MaxObjects, snapshot : 0..MaxObjects, draft : 0..MaxObjects]
      BY <2>1, <2>2, ObjectsAre DEF BuildTenant, TenancyInv, TenancyType
    <3>2. q \in Nat
      BY TenancyAssumption
    <3>3. quota' \in [Objects -> Nat]
      BY <2>1, <2>2, <3>2 DEF BuildTenant, TenancyInv, TenancyType
    <3> QED BY <1>1, <3>1, <3>3 DEF TenancyInv, TenancyType
  <2>5. ASSUME NEW x \in Objects, Referenced(x)', x # TenantFor PROVE FALSE
    <3>1. Referenced(x)
      BY <1>1, <2>3, <2>5 DEF Referenced
    <3>2. x = tenants.registry /\ x # 0
      BY <3>1, ObjectsAre DEF TenancyInv, OneReferenced
    <3> QED BY <2>5, <3>2 DEF TenantFor
  <2> QED BY <1>2, <2>3, <2>4, <2>5 DEF TenancyInv, OneReferenced
<1> QED BY <1>3, <1>4

(* One request moves: it comes to hold the Tenant of the snapshot, and is  *)
(* counted while it is served.                                             *)
LEMMA MemberInv ==
    ASSUME TenancyInv, NEW m \in Members,
           RouteToTenant(m) \/ AcquireTenant(m) \/ LeaveTenant(m)
    PROVE  TenancyInv'
<1> USE DEF NoObject
<1>a. PICK o : o = member[m].tenant
  OBVIOUS
<1>0. /\ member \in [Members -> MemberStates] /\ active \in [Objects -> Nat]
      /\ \A x \in Objects : Served(x) \in SUBSET Members /\ active[x] = Cardinality(Served(x))
      /\ IsFiniteSet(Members)
  BY TenancyAssumption DEF TenancyInv, TenancyType, ServedCounted, Served
<1>1. PICK r : member' = [member EXCEPT ![m] = r]
  BY DEF RouteToTenant, AcquireTenant, LeaveTenant
<1>2. /\ r \in MemberStates /\ (r.at = "new" <=> r.tenant = 0)
      /\ r.tenant \in {0, o, tenants.snapshot}
      /\ member[m].at # "new" => o \in Objects
  <2>1. member[m] \in MemberStates /\ member'[m] = r /\ (member[m].at = "new" <=> o = 0)
    BY <1>a, <1>0, <1>1 DEF TenancyInv, HoldsTenant
  <2>2. member[m].at # "new" => o \in Objects
    BY <1>a, <2>1, TenancyAssumption DEF MemberStates, Objects
  <2>3. CASE RouteToTenant(m)
    <3>1. r = [at |-> "loaded", tenant |-> tenants.snapshot, quota |-> quota[tenants.snapshot]]
      BY <1>a, <1>0, <2>1, <2>3 DEF RouteToTenant
    <3>2. tenants.snapshot \in Objects /\ quota[tenants.snapshot] \in Nat
      BY <2>3, TenancyAssumption DEF RouteToTenant, TenancyInv, TenancyType, Objects
    <3> QED BY <2>2, <3>1, <3>2, ObjectsAre DEF MemberStates
  <2>4. CASE AcquireTenant(m)
    <3>1. PICK at \in {"served", "refused"} : r = [at |-> at, tenant |-> o, quota |-> 0]
      BY <1>a, <1>0, <2>1, <2>4 DEF AcquireTenant
    <3>2. o \in Objects
      BY <1>a, <2>2, <2>4 DEF AcquireTenant
    <3> QED BY <2>2, <3>1, <3>2, ObjectsAre DEF MemberStates
  <2>5. CASE LeaveTenant(m)
    <3>1. r = Outside
      BY <1>a, <1>0, <2>1, <2>5 DEF LeaveTenant
    <3> QED BY <2>2, <3>1, ObjectsAre DEF MemberStates, Outside
  <2> QED BY <2>3, <2>4, <2>5
<1>3. /\ UNCHANGED <<tenants, quota>>
      /\ member' \in [Members -> MemberStates]
      /\ member'[m] = r /\ \A n \in Members \ {m} : member'[n] = member[n]
  <2>1. UNCHANGED <<tenants, quota>>
    BY DEF RouteToTenant, AcquireTenant, LeaveTenant
  <2> QED BY <1>a, <1>0, <1>1, <1>2, <2>1
<1>4. HoldsTenant'
  BY <1>a, <1>2, <1>3 DEF TenancyInv, HoldsTenant
<1>5. OneReferenced'
  <2> SUFFICES ASSUME NEW x \in Objects, Referenced(x)' PROVE x = tenants.registry
    BY <1>a, <1>3 DEF OneReferenced
  <2>1. Referenced(x)
    BY <1>a, <1>2, <1>3, ObjectsAre DEF Referenced
  <2> QED BY <2>1 DEF TenancyInv, OneReferenced
<1>6. active' \in [Objects -> Nat] /\ ServedCounted'
  <2>1. CASE m \in Served(o)
    <3>0. LeaveTenant(m) /\ member[m].at = "served"
      BY <1>a, <2>1 DEF RouteToTenant, AcquireTenant, Served
    <3>1. o \in Objects /\ active' = [active EXCEPT ![o] = @ - 1] /\ r = Outside
      BY <1>a, <1>0, <1>2, <1>3, <3>0 DEF LeaveTenant
    <3>2. Served(o)' = Served(o) \ {m} /\ \A x \in Objects \ {o} : Served(x)' = Served(x)
      BY <1>a, <1>3, <2>1, <3>1 DEF Served, Outside
    <3>3. active[o] >= 1 /\ Cardinality(Served(o)') = active[o] - 1
      BY <1>a, <1>0, <2>1, <3>1, <3>2, CountRemove
    <3>4. active[o] - 1 \in Nat
      BY <1>a, <1>0, <3>1, <3>3
    <3>5. active' \in [Objects -> Nat]
      BY <1>a, <1>0, <3>1, <3>4
    <3>6. ASSUME NEW x \in Objects PROVE active'[x] = Cardinality(Served(x)')
      BY <1>a, <1>0, <3>1, <3>2, <3>3
    <3> QED BY <3>5, <3>6 DEF ServedCounted
  <2>2. CASE m \notin Served(o) /\ r.at = "served"
    <3>1. o \in Objects /\ active' = [active EXCEPT ![o] = @ + 1] /\ r.tenant = o
      BY <1>a, <1>0, <1>1, <1>2, <2>2 DEF RouteToTenant, AcquireTenant, LeaveTenant, Outside
    <3>2. Served(o)' = Served(o) \cup {m} /\ \A x \in Objects \ {o} : Served(x)' = Served(x)
      BY <1>a, <1>3, <2>2, <3>1 DEF Served
    <3>3. Cardinality(Served(o)') = active[o] + 1
      BY <1>a, <1>0, <2>2, <3>1, <3>2, CountAdd
    <3>4. active' \in [Objects -> Nat]
      BY <1>a, <1>0, <3>1
    <3>5. ASSUME NEW x \in Objects PROVE active'[x] = Cardinality(Served(x)')
      BY <1>a, <1>0, <3>1, <3>2, <3>3
    <3> QED BY <3>4, <3>5 DEF ServedCounted
  <2>3. CASE m \notin Served(o) /\ r.at # "served"
    <3>1. active' = active
      BY <1>a, <1>0, <1>1, <2>3 DEF RouteToTenant, AcquireTenant, LeaveTenant, Served
    <3>2. \A x \in Objects : Served(x)' = Served(x)
      BY <1>a, <1>3, <2>3 DEF Served
    <3> QED BY <1>a, <1>0, <3>1, <3>2 DEF ServedCounted
  <2> QED BY <2>1, <2>2, <2>3
<1> QED BY <1>a, <1>3, <1>4, <1>5, <1>6 DEF TenancyInv, TenancyType

\* The Tenant of a namespace is shared by the registry, builds, the snapshot
\* and the requests on any snapshot (Tenants::tenant and retain), and it counts
\* exactly the requests served under it, for any number of requests, quotas,
\* builds and Tenants.
THEOREM TenantIsShared == TenancySpec => []OneTenant
<1>1. TenancyInv /\ [TenancyNext]_tenancyVars => TenancyInv'
  <2> SUFFICES ASSUME TenancyInv, [TenancyNext]_tenancyVars PROVE TenancyInv'
    OBVIOUS
  <2>1. CASE UNCHANGED tenancyVars
    BY <2>1 DEF tenancyVars, TenancyInv, TenancyType, HoldsTenant, ServedCounted, OneReferenced,
                Referenced, Served
  <2>2. CASE TenancyNext
    BY <2>2, BuildsInv, MemberInv DEF TenancyNext
  <2> QED BY <2>1, <2>2
<1>2. TenancyInv => OneTenant
  BY DEF TenancyInv, ServedCounted, OneReferenced, OneTenant, Served
<1> QED BY TenancyInitInv, <1>1, <1>2, PTL DEF TenancySpec

-----------------------------------------------------------------------------
(* Export.  In the interval between the answer of the collector and the    *)
(* counters, the batch remembers what will be counted as exported.         *)

Batches == [at : {"gather", "send", "accepted", "failed"}, count : Nat, attempt : Nat]
InState(at) == {t \in Threads : recording[t] = at}

ExportType ==
    /\ recording \in [Threads -> {"none", "ready", "counted"}]
    /\ channel \in Nat /\ taken \in Nat
    /\ batch \in Batches
    /\ collector \in [acknowledged : Nat, rejected : Nat]
    /\ counters \in [exported : Nat, dropped : Nat, pending : Nat]
OfferedCounted ==
    taken = counters.exported + counters.dropped + counters.pending + Cardinality(InState("ready"))
PendingCounted == counters.pending = channel + batch.count + Cardinality(InState("counted"))
ExportedAcknowledged ==
    /\ counters.exported <= collector.acknowledged
    /\ batch.at = "accepted" =>
        /\ collector.rejected <= batch.count
        /\ counters.exported + (batch.count - collector.rejected) <= collector.acknowledged

ExportInv == ExportType /\ OfferedCounted /\ PendingCounted /\ ExportedAcknowledged

LEMMA ThreadCounts ==
    /\ Cardinality(InState("ready")) \in Nat
    /\ Cardinality(InState("counted")) \in Nat
  BY CountOf, ExportAssumption DEF InState

LEMMA ExportInitInv == ExportInit => ExportInv
<1> SUFFICES ASSUME ExportInit PROVE ExportInv
  OBVIOUS
<1>1. InState("ready") = {} /\ InState("counted") = {}
  BY DEF ExportInit, InState
<1>2. ExportType
  BY DEF ExportInit, ExportType, Gathering, Batches
<1> QED BY <1>1, <1>2, FS_EmptySet
    DEF ExportInit, ExportInv, OfferedCounted, PendingCounted, ExportedAcknowledged, Gathering

(* The steps of a thread.                                                  *)
LEMMA RecordInv ==
    ASSUME ExportInv, NEW t \in Threads, BeginRecord(t) \/ Count(t) \/ TrySend(t)
    PROVE  ExportInv'
<1>1. /\ IsFiniteSet(Threads)
      /\ InState("ready") \in SUBSET Threads /\ InState("counted") \in SUBSET Threads
  BY ExportAssumption DEF InState
<1>2. UNCHANGED <<batch, collector>>
  BY DEF BeginRecord, Count, TrySend
<1>3. CASE BeginRecord(t)
  <2>1. InState("ready")' = InState("ready") \cup {t} /\ t \notin InState("ready")
    BY <1>3 DEF BeginRecord, InState, ExportInv, ExportType
  <2>2. InState("counted")' = InState("counted")
    BY <1>3 DEF BeginRecord, InState, ExportInv, ExportType
  <2>3. Cardinality(InState("ready")') = Cardinality(InState("ready")) + 1
    BY <1>1, <2>1, CountAdd
  <2>4. ExportType'
    BY <1>2, <1>3 DEF BeginRecord, ExportInv, ExportType
  <2>5. OfferedCounted'
    BY <1>3, <2>3, ThreadCounts DEF BeginRecord, ExportInv, ExportType, OfferedCounted
  <2> QED BY <1>2, <1>3, <2>2, <2>4, <2>5
      DEF BeginRecord, ExportInv, PendingCounted, ExportedAcknowledged
<1>4. CASE Count(t)
  <2>1. InState("ready")' = InState("ready") \ {t} /\ t \in InState("ready")
    BY <1>4 DEF Count, InState, ExportInv, ExportType
  <2>2. InState("counted")' = InState("counted") \cup {t} /\ t \notin InState("counted")
    BY <1>4 DEF Count, InState, ExportInv, ExportType
  <2>3. Cardinality(InState("ready")') = Cardinality(InState("ready")) - 1
    BY <1>1, <2>1, CountRemove
  <2>4. Cardinality(InState("counted")') = Cardinality(InState("counted")) + 1
    BY <1>1, <2>2, CountAdd
  <2>5. ExportType'
    BY <1>2, <1>4 DEF Count, ExportInv, ExportType
  <2>6. /\ counters'.exported = counters.exported /\ counters'.dropped = counters.dropped
        /\ counters'.pending = counters.pending + 1
    BY <1>4 DEF Count, ExportInv, ExportType
  <2>7. OfferedCounted' /\ PendingCounted'
    BY <1>2, <1>4, <2>3, <2>4, <2>6, ThreadCounts
    DEF Count, ExportInv, ExportType, OfferedCounted, PendingCounted, Batches
  <2> QED BY <1>2, <2>5, <2>6, <2>7 DEF ExportInv, ExportedAcknowledged
<1>5. CASE TrySend(t)
  <2>1. InState("counted")' = InState("counted") \ {t} /\ t \in InState("counted")
    BY <1>5 DEF TrySend, InState, ExportInv, ExportType
  <2>2. InState("ready")' = InState("ready")
    BY <1>5 DEF TrySend, InState, ExportInv, ExportType
  <2>3. /\ Cardinality(InState("counted")) >= 1
        /\ Cardinality(InState("counted")') = Cardinality(InState("counted")) - 1
    BY <1>1, <2>1, CountRemove
  <2>4. counters.pending >= 1
    BY <2>3, ThreadCounts DEF ExportInv, ExportType, PendingCounted, Batches
  <2>5. recording' \in [Threads -> {"none", "ready", "counted"}] /\ taken' = taken
    BY <1>5 DEF TrySend, ExportInv, ExportType
  <2>6. \/ channel' = channel + 1 /\ UNCHANGED counters
        \/ /\ UNCHANGED channel
           /\ counters' = [exported |-> counters.exported, dropped |-> counters.dropped + 1,
                           pending |-> counters.pending - 1]
    BY <1>5 DEF TrySend, ExportInv, ExportType
  <2>7. ExportType'
    BY <1>2, <2>4, <2>5, <2>6 DEF ExportInv, ExportType
  <2>8. OfferedCounted' /\ PendingCounted'
    BY <1>2, <2>2, <2>3, <2>5, <2>6, ThreadCounts
    DEF ExportInv, ExportType, OfferedCounted, PendingCounted, Batches
  <2> QED BY <1>2, <2>6, <2>7, <2>8 DEF ExportInv, ExportedAcknowledged
<1> QED BY <1>3, <1>4, <1>5

(* The steps of the worker and of shutdown.                                *)
LEMMA WorkerInv ==
    ASSUME ExportInv,
           \/ Refuse \/ Gather \/ SealBatch \/ Send \/ ExportTimeout \/ Settle
           \/ Shutdown \/ WorkerEnds \/ Deadline
    PROVE  ExportInv'
<1>1. recording' = recording /\ InState("ready")' = InState("ready")
      /\ InState("counted")' = InState("counted")
  BY DEF Refuse, Gather, SealBatch, Send, ExportTimeout, Settle, Shutdown, WorkerEnds, Deadline,
         InState
<1> USE DEF ExportInv, ExportType, OfferedCounted, PendingCounted, ExportedAcknowledged, Batches
<1>2. CASE Refuse
  BY <1>1, <1>2, ThreadCounts DEF Refuse
<1>3. CASE Gather \/ SealBatch \/ ExportTimeout
  BY <1>1, <1>3, ThreadCounts DEF Gather, SealBatch, ExportTimeout
<1>4. CASE Shutdown \/ WorkerEnds
  BY <1>1, <1>4 DEF Shutdown, WorkerEnds
<1>5. CASE Send
  <2>1. PICK result \in Attempt(batch.count) :
          CASE result.kind = "accepted" ->
                /\ collector' = [acknowledged |-> collector.acknowledged + (batch.count - result.rejected),
                                 rejected |-> result.rejected]
                /\ batch' = [batch EXCEPT !.at = "accepted"]
          [] result.kind = "failed" ->
                UNCHANGED collector /\ batch' = [batch EXCEPT !.at = "failed"]
          [] result.kind = "retry" ->
                /\ UNCHANGED collector
                /\ batch' = [batch EXCEPT !.attempt = @ + 1,
                                          !.at = IF batch.attempt + 1 < Attempts THEN "send" ELSE "failed"]
    BY <1>5 DEF Send
  <2>2. result.rejected \in 0..batch.count /\ result.kind \in {"accepted", "failed", "retry"}
    BY DEF Attempt
  <2>3. UNCHANGED <<channel, counters, taken>>
    BY <1>5 DEF Send
  <2>4. CASE result.kind = "accepted"
    BY <1>1, <2>1, <2>2, <2>3, <2>4
  <2>5. CASE result.kind = "failed"
    BY <1>1, <2>1, <2>3, <2>5
  <2>6. CASE result.kind = "retry"
    <3>1. PICK at \in {"send", "failed"} :
            batch' = [at |-> at, count |-> batch.count, attempt |-> batch.attempt + 1]
      BY <2>1, <2>6
    <3> QED BY <1>1, <2>1, <2>3, <2>6, <3>1
  <2> QED BY <2>2, <2>4, <2>5, <2>6
<1>6. CASE Settle
  <2> DEFINE n == IF batch.at = "accepted" THEN batch.count - collector.rejected ELSE 0
  <2>1. n \in 0..batch.count
    OBVIOUS
  <2>2. counters' = [exported |-> counters.exported + n,
                     dropped |-> counters.dropped + (batch.count - n),
                     pending |-> counters.pending - batch.count]
    BY <1>6 DEF Settle
  <2>3. counters.pending >= batch.count /\ counters.exported + n <= collector.acknowledged
    BY ThreadCounts
  <2>4. /\ batch' = [at |-> "gather", count |-> 0, attempt |-> 0]
        /\ UNCHANGED <<channel, collector, taken>>
    BY <1>6 DEF Settle, Gathering
  <2> HIDE DEF n
  <2>5. ExportType'
    BY <1>1, <2>1, <2>2, <2>3, <2>4
  <2>6. OfferedCounted' /\ PendingCounted'
    BY <1>1, <2>1, <2>2, <2>4, ThreadCounts
  <2> QED BY <2>2, <2>3, <2>4, <2>5, <2>6
<1>7. CASE Deadline
  <2>1. InState("ready") = {} /\ InState("counted") = {}
    BY <1>7 DEF Deadline, InState
  <2>2. /\ counters' = [exported |-> counters.exported, dropped |-> counters.dropped + counters.pending,
                        pending |-> 0]
        /\ channel' = 0 /\ batch' = Gathering /\ UNCHANGED <<collector, taken>>
    BY <1>7 DEF Deadline
  <2> QED BY <1>1, <2>1, <2>2, FS_EmptySet DEF Gathering
<1> QED BY <1>2, <1>3, <1>4, <1>5, <1>6, <1>7

\* Every record offered to telemetry is counted exactly once, as exported,
\* dropped or pending, and exported only if acknowledged (record, export and
\* shutdown of otlp/mod.rs), for any number of threads, channel capacity, batch
\* size and attempts.
THEOREM RecordsAreAccounted == ExportSpec => []RecordsAccounted
<1>1. ExportInv /\ [ExportNext]_exportVars => ExportInv'
  <2> SUFFICES ASSUME ExportInv, [ExportNext]_exportVars PROVE ExportInv'
    OBVIOUS
  <2>1. CASE UNCHANGED exportVars
    BY <2>1 DEF exportVars, ExportInv, ExportType, OfferedCounted, PendingCounted,
                ExportedAcknowledged, InState
  <2>2. CASE ExportNext
    BY <2>2, RecordInv, WorkerInv DEF ExportNext
  <2> QED BY <2>1, <2>2
<1>2. ExportInv => RecordsAccounted
  BY DEF ExportInv, OfferedCounted, PendingCounted, ExportedAcknowledged, RecordsAccounted, InState
<1> QED BY ExportInitInv, <1>1, <1>2, PTL DEF ExportSpec

-----------------------------------------------------------------------------
(* Limiter.  A table of buckets, and what the steps of acquire make of it. *)

Bucket == [tokens : 0..Burst, active : Nat, touched : Nat]
IsTable(T) == DOMAIN T \subseteq Ids /\ T \in [DOMAIN T -> Bucket]
ActiveIn(T, i) == IF i \in DOMAIN T THEN T[i].active ELSE 0

LEMMA LimiterNumbers ==
    /\ Capacity \in Nat /\ Burst \in Nat /\ PerSecond \in Nat /\ Limit \in Nat /\ Idle \in Nat
    /\ Burst >= 1 /\ Limit >= 1 /\ Idle >= 1
    /\ IsFiniteSet(Users)
  BY LimiterAssumption

LEMMA SinceIs ==
    ASSUME NEW seen \in Nat, NEW touched \in Nat
    PROVE  Since(seen, touched) \in Nat
  BY DEF Since

LEMMA SweptIs ==
    ASSUME NEW T, IsTable(T), NEW seen \in Nat
    PROVE  /\ IsTable(Swept(T, seen))
           /\ DOMAIN Swept(T, seen) \subseteq DOMAIN T
           /\ \A i \in DOMAIN Swept(T, seen) : Swept(T, seen)[i] = T[i]
           /\ \A i \in DOMAIN T \ DOMAIN Swept(T, seen) :
                T[i].active = 0 /\ Since(seen, T[i].touched) >= Idle
<1>1. CASE Cardinality(DOMAIN T) < Capacity
  BY <1>1 DEF Swept
<1>2. CASE ~(Cardinality(DOMAIN T) < Capacity)
  <2> DEFINE D == {i \in DOMAIN T : T[i].active > 0 \/ Since(seen, T[i].touched) < Idle}
  <2>1. Swept(T, seen) = [i \in D |-> T[i]]
    BY <1>2 DEF Swept
  <2>2. ASSUME NEW i \in DOMAIN T, i \notin D
        PROVE  T[i].active = 0 /\ Since(seen, T[i].touched) >= Idle
    <3>1. T[i].active \in Nat /\ T[i].touched \in Nat
      BY DEF IsTable, Bucket
    <3>2. Since(seen, T[i].touched) \in Nat
      BY <3>1, SinceIs
    <3> QED BY <2>2, <3>1, <3>2, LimiterNumbers
  <2>3. D \subseteq DOMAIN T
    OBVIOUS
  <2> HIDE DEF D
  <2> QED BY <2>1, <2>2, <2>3 DEF IsTable
<1> QED BY <1>1, <1>2

LEMMA EntryIs ==
    ASSUME NEW T, IsTable(T), NEW i, NEW tokens \in 0..Burst, NEW seen \in Nat
    PROVE  /\ Entry(T, i, tokens, seen) \in Bucket
           /\ Entry(T, i, tokens, seen).active = ActiveIn(T, i)
           /\ i \in DOMAIN T => Entry(T, i, tokens, seen) = T[i]
           /\ i \notin DOMAIN T => Entry(T, i, tokens, seen) = [tokens |-> tokens, active |-> 0, touched |-> seen]
<1>1. CASE i \in DOMAIN T
  BY <1>1 DEF Entry, IsTable, ActiveIn
<1>2. CASE i \notin DOMAIN T
  <2>1. Entry(T, i, tokens, seen) = [tokens |-> tokens, active |-> 0, touched |-> seen]
    BY <1>2 DEF Entry
  <2>2. [tokens |-> tokens, active |-> 0, touched |-> seen] \in Bucket
    BY DEF Bucket
  <2> QED BY <1>2, <2>1, <2>2 DEF ActiveIn
<1> QED BY <1>1, <1>2

LEMMA RefilledIs ==
    ASSUME NEW b \in Bucket, NEW seen \in Nat
    PROVE  /\ Refilled(b, seen) \in Bucket
           /\ Refilled(b, seen).active = b.active /\ Refilled(b, seen).touched = seen
           /\ Refilled(b, seen).tokens <= Burst
           /\ Refilled(b, seen).tokens <= b.tokens + Since(seen, b.touched) * PerSecond
<1>1. b.tokens \in 0..Burst /\ b.touched \in Nat /\ b.active \in Nat
  BY DEF Bucket
<1>2. Since(seen, b.touched) * PerSecond \in Nat
  <2>1. Since(seen, b.touched) \in Nat /\ PerSecond \in Nat
    BY <1>1, SinceIs, LimiterNumbers
  <2>2. \A x, y \in Nat : x * y \in Nat
    OBVIOUS
  <2> QED BY <2>1, <2>2
<1> DEFINE n == Least(b.tokens + Since(seen, b.touched) * PerSecond, Burst)
<1>3. n \in 0..Burst /\ n <= b.tokens + Since(seen, b.touched) * PerSecond
  BY <1>1, <1>2, LimiterNumbers DEF Least
<1>4. Refilled(b, seen) = [tokens |-> n, active |-> b.active, touched |-> seen]
  BY DEF Refilled
<1> HIDE DEF n
<1> QED BY <1>1, <1>3, <1>4 DEF Bucket

(* A bucket that acquire leaves as it was, or drops because it was idle;   *)
(* and the bucket that a request pays from, refilled.                      *)
Untouched(T, i, seen) ==
    /\ i \in DOMAIN T => i \in DOMAIN buckets /\ T[i] = buckets[i]
    /\ i \in DOMAIN buckets \ DOMAIN T => Since(seen, buckets[i].touched) >= Idle
FullBucket(seen) == [tokens |-> Burst, active |-> 0, touched |-> seen]
PaidFrom(T, i, seen, b) ==
    /\ b \in Bucket
    /\ i \in DOMAIN T /\ T[i].touched = seen
    /\ \/ i \in DOMAIN buckets /\ b = buckets[i]
       \/ /\ b = FullBucket(seen)
          /\ i \in DOMAIN buckets => Since(seen, buckets[i].touched) >= Idle

(* What a stage of acquire must not change: how many permits are counted,  *)
(* and the rate buckets, but for the one that pays.                        *)
Keeps(T, c, t, seen) ==
    /\ IsTable(T)
    /\ \A i \in Ids : ActiveIn(T, i) = ActiveIn(buckets, i)
    /\ \A i \in Ids \ {c, t} : Untouched(T, i, seen)

LEMMA IdsAre ==
    ASSUME NEW r, r.key \in Keys
    PROVE  /\ ConcurrencyId(r) \in Ids /\ RateId(r) \in Ids /\ ConcurrencyId(r) # RateId(r)
           /\ \A q \in Keys : <<"rate", q>> \in Ids /\ <<"rate", q>> # ConcurrencyId(r)
           /\ \A q \in Keys \ {r.key} : <<"rate", q>> # RateId(r)
  BY DEF Ids, LimitKinds, ConcurrencyId, RateId

LEMMA SweptKeeps ==
    ASSUME IsTable(buckets), NEW c, NEW t \in Ids, NEW seen \in Nat
    PROVE  Keeps(Swept(buckets, seen), c, t, seen) /\ Untouched(Swept(buckets, seen), t, seen)
<1> DEFINE S == Swept(buckets, seen)
<1>1. /\ IsTable(S) /\ DOMAIN S \subseteq DOMAIN buckets
      /\ \A i \in DOMAIN S : S[i] = buckets[i]
      /\ \A i \in DOMAIN buckets \ DOMAIN S :
            buckets[i].active = 0 /\ Since(seen, buckets[i].touched) >= Idle
  BY SweptIs
<1> HIDE DEF S
<1>2. ASSUME NEW i \in Ids PROVE ActiveIn(S, i) = ActiveIn(buckets, i)
  BY <1>1 DEF ActiveIn
<1>3. ASSUME NEW i \in Ids PROVE Untouched(S, i, seen)
  BY <1>1 DEF Untouched
<1>4. Keeps(S, c, t, seen) /\ Untouched(S, t, seen)
  BY <1>1, <1>2, <1>3 DEF Keeps
<1> QED BY <1>4 DEF S

LEMMA InsertedKeeps ==
    ASSUME IsTable(buckets), NEW r, r.key \in Keys, r.seen \in Nat, NEW T,
           NEW c, c = ConcurrencyId(r), NEW t, t = RateId(r),
           Keeps(T, c, t, r.seen), Untouched(T, t, r.seen)
    PROVE  /\ Keeps(Inserted(T, r), c, t, r.seen) /\ Untouched(Inserted(T, r), t, r.seen)
           /\ "concurrency" \in r.policy => c \in DOMAIN Inserted(T, r)
<1>1. CASE "concurrency" \notin r.policy
  BY <1>1 DEF Inserted
<1>2. CASE "concurrency" \in r.policy
  <2> DEFINE e == Entry(T, c, 0, r.seen)
             I == With(T, c, e)
  <2>1. IsTable(T) /\ c \in Ids /\ t \in Ids /\ c # t
    BY IdsAre DEF Keeps
  <2>2. e \in Bucket /\ e.active = ActiveIn(T, c)
    BY <2>1, EntryIs, LimiterNumbers
  <2> HIDE DEF e
  <2>3. /\ IsTable(I) /\ DOMAIN I = DOMAIN T \cup {c} /\ I[c] = e
        /\ \A j \in DOMAIN T \ {c} : I[j] = T[j]
    BY <2>1, <2>2 DEF With, IsTable
  <2>4. Inserted(T, r) = I
    BY <1>2 DEF Inserted, e
  <2> HIDE DEF I
  <2>5. ASSUME NEW i \in Ids PROVE ActiveIn(I, i) = ActiveIn(buckets, i)
    <3>1. ActiveIn(I, i) = ActiveIn(T, i)
      BY <2>2, <2>3 DEF ActiveIn
    <3> QED BY <3>1 DEF Keeps
  <2>6. ASSUME NEW i \in Ids, i # c, Untouched(T, i, r.seen) PROVE Untouched(I, i, r.seen)
    BY <2>3, <2>6 DEF Untouched
  <2> QED BY <2>1, <2>3, <2>4, <2>5, <2>6 DEF Keeps
<1> QED BY <1>1, <1>2

LEMMA PaidKeeps ==
    ASSUME IsTable(buckets), NEW r, r.key \in Keys, r.seen \in Nat, NEW T,
           NEW c, c = ConcurrencyId(r), NEW t, t = RateId(r),
           Keeps(T, c, t, r.seen), Untouched(T, t, r.seen)
    PROVE  /\ Keeps(Paid(T, r), c, t, r.seen)
           /\ c \in DOMAIN T => c \in DOMAIN Paid(T, r) /\ Paid(T, r)[c] = T[c]
           /\ "rate" \notin r.policy => Untouched(Paid(T, r), t, r.seen)
           /\ "rate" \in r.policy =>
                \E b : /\ PaidFrom(Paid(T, r), t, r.seen, b)
                       /\ RateBucket(T, r) = Refilled(b, r.seen)
                       /\ RateBucket(T, r).tokens \in Nat
                       /\ Paid(T, r)[t].tokens = RateBucket(T, r).tokens
                            - (IF RateBucket(T, r).tokens < 1 THEN 0 ELSE 1)
<1>1. CASE "rate" \notin r.policy
  BY <1>1 DEF Paid
<1>2. CASE "rate" \in r.policy
  <2> DEFINE b == Entry(T, t, Burst, r.seen)
             f == RateBucket(T, r)
             g == Pays(f)
             P == With(T, t, g)
  <2>1. IsTable(T) /\ c \in Ids /\ t \in Ids /\ c # t
    BY IdsAre DEF Keeps
  <2>2. /\ b \in Bucket /\ b.active = ActiveIn(T, t)
        /\ t \in DOMAIN T => b = T[t]
        /\ t \notin DOMAIN T => b = FullBucket(r.seen)
    <3>1. Burst \in 0..Burst
      BY LimiterNumbers
    <3> QED BY <2>1, <3>1, EntryIs DEF FullBucket
  <2>3. f = Refilled(b, r.seen)
    BY DEF RateBucket
  <2> HIDE DEF b, f
  <2>4. f \in Bucket /\ f.active = b.active /\ f.touched = r.seen
    BY <2>2, <2>3, RefilledIs
  <2>5. /\ g \in Bucket /\ g.active = f.active /\ g.touched = f.touched
        /\ g.tokens = f.tokens - (IF f.tokens < 1 THEN 0 ELSE 1) /\ f.tokens \in Nat
    BY <2>4, LimiterNumbers DEF Pays, Bucket
  <2> HIDE DEF g
  <2>6. /\ IsTable(P) /\ DOMAIN P = DOMAIN T \cup {t} /\ P[t] = g
        /\ \A j \in DOMAIN T \ {t} : P[j] = T[j]
    BY <2>1, <2>5 DEF With, IsTable
  <2>7. Paid(T, r) = P
    BY <1>2 DEF Paid, f, g
  <2> HIDE DEF P
  <2>8. ASSUME NEW i \in Ids PROVE ActiveIn(P, i) = ActiveIn(buckets, i)
    <3>1. ActiveIn(P, i) = ActiveIn(T, i)
      BY <2>2, <2>4, <2>5, <2>6 DEF ActiveIn
    <3> QED BY <3>1 DEF Keeps
  <2>9. ASSUME NEW i \in Ids \ {c, t} PROVE Untouched(P, i, r.seen)
    <3>1. Untouched(T, i, r.seen)
      BY DEF Keeps
    <3> QED BY <2>6, <3>1 DEF Untouched
  <2>10. Keeps(P, c, t, r.seen)
    BY <2>6, <2>8, <2>9 DEF Keeps
  <2>11. PaidFrom(P, t, r.seen, b)
    BY <2>2, <2>4, <2>5, <2>6 DEF PaidFrom, Untouched
  <2>12. c \in DOMAIN T => c \in DOMAIN P /\ P[c] = T[c]
    BY <2>1, <2>6
  <2> QED BY <1>2, <2>3, <2>5, <2>6, <2>7, <2>10, <2>11, <2>12 DEF f
<1> QED BY <1>1, <1>2

LEMMA AdmittedKeeps ==
    ASSUME NEW r, r.key \in Keys, r.seen \in Nat, NEW T,
           NEW c, c = ConcurrencyId(r), NEW t, t = RateId(r),
           Keeps(T, c, t, r.seen), c \in DOMAIN T,
           "concurrency" \in r.policy, NEW A, A = Admitted(T, r)
    PROVE  /\ IsTable(A)
           /\ \A i \in Ids : ActiveIn(A, i) = ActiveIn(buckets, i) + (IF i = c THEN 1 ELSE 0)
           /\ \A i \in Ids \ {c, t} : Untouched(A, i, r.seen)
           /\ DOMAIN A = DOMAIN T /\ \A i \in DOMAIN A \ {c} : A[i] = T[i]
<1>1. T[c] \in Bucket /\ IsTable(T) /\ c \in Ids
  BY DEF IsTable, Keeps
<1> DEFINE w == PermitAdded(T[c], r.seen)
<1>2. w \in Bucket /\ w.active = T[c].active + 1
  BY <1>1 DEF Bucket, PermitAdded
<1> HIDE DEF w
<1>3. A = [T EXCEPT ![c] = w]
  BY DEF Admitted, w
<1>4. /\ DOMAIN A = DOMAIN T /\ A[c] = w /\ \A i \in DOMAIN A \ {c} : A[i] = T[i]
      /\ IsTable(A)
  BY <1>1, <1>2, <1>3 DEF IsTable
<1>5. ASSUME NEW i \in Ids
      PROVE  ActiveIn(A, i) = ActiveIn(buckets, i) + (IF i = c THEN 1 ELSE 0)
  <2>1. i \in DOMAIN T => T[i].active \in Nat
    BY <1>1 DEF IsTable, Bucket
  <2>2. ActiveIn(A, i) = ActiveIn(T, i) + (IF i = c THEN 1 ELSE 0)
    BY <1>2, <1>4, <2>1 DEF ActiveIn
  <2> QED BY <2>2 DEF Keeps
<1>6. ASSUME NEW i \in Ids \ {c, t} PROVE Untouched(A, i, r.seen)
  BY <1>4 DEF Untouched, Keeps
<1> QED BY <1>4, <1>5, <1>6

(* acquire, for request r: the table it leaves and its result.             *)
Charged(T, result, r) ==
    \E b : /\ PaidFrom(T, RateId(r), r.seen, b)
           /\ T[RateId(r)].tokens = Refilled(b, r.seen).tokens - (IF result = "ok" THEN 1 ELSE 0)

LEMMA AcquiredIs ==
    ASSUME IsTable(buckets), NEW r, r.key \in Keys, r.seen \in Nat,
           NEW T, T = Acquired(r).table, NEW result, result = Acquired(r).result
    PROVE  /\ IsTable(T)
           /\ \A i \in Ids : ActiveIn(T, i) = ActiveIn(buckets, i)
                 + (IF result = "ok" /\ "concurrency" \in r.policy /\ i = ConcurrencyId(r) THEN 1 ELSE 0)
           /\ result = "ok" /\ "concurrency" \in r.policy => ActiveIn(buckets, ConcurrencyId(r)) < Limit
           /\ \A q \in Keys \ {r.key} : Untouched(T, <<"rate", q>>, r.seen)
           /\ \/ Untouched(T, RateId(r), r.seen) /\ ~(result = "ok" /\ "rate" \in r.policy)
              \/ "rate" \in r.policy /\ Charged(T, result, r)
<1> DEFINE S == Swept(buckets, r.seen)
           I == Inserted(S, r)
           P == Paid(I, r)
           f == RateBucket(I, r)
<1>1. PICK c, t : c = ConcurrencyId(r) /\ t = RateId(r)
  OBVIOUS
<1>2. /\ c \in Ids /\ t \in Ids /\ c # t
      /\ \A q \in Keys \ {r.key} : <<"rate", q>> \in Ids \ {c, t}
  BY <1>1, IdsAre
<1>3. \/ result # "ok" /\ T = S
      \/ result # "ok" /\ T = I
      \/ result # "ok" /\ T = P /\ "rate" \in r.policy /\ f.tokens < 1
      \/ /\ result = "ok" /\ T = Admitted(P, r)
         /\ "concurrency" \in r.policy => ~(I[c].active >= Limit)
         /\ "rate" \in r.policy => ~(f.tokens < 1)
  BY <1>1 DEF Acquired
<1>4. Keeps(S, c, t, r.seen) /\ Untouched(S, t, r.seen)
  BY <1>2, SweptKeeps
<1> HIDE DEF S
<1>5. /\ Keeps(I, c, t, r.seen) /\ Untouched(I, t, r.seen)
      /\ "concurrency" \in r.policy => c \in DOMAIN I
  BY <1>1, <1>4, InsertedKeeps
<1> HIDE DEF I
<1>6. /\ Keeps(P, c, t, r.seen)
      /\ c \in DOMAIN I => c \in DOMAIN P /\ P[c] = I[c]
      /\ "rate" \notin r.policy => Untouched(P, t, r.seen)
  BY <1>1, <1>5, PaidKeeps
<1>7. ASSUME "rate" \in r.policy
      PROVE  \E b : /\ PaidFrom(P, t, r.seen, b) /\ f = Refilled(b, r.seen) /\ f.tokens \in Nat
                    /\ P[t].tokens = f.tokens - (IF f.tokens < 1 THEN 0 ELSE 1)
  BY <1>1, <1>5, <1>7, PaidKeeps
<1> HIDE DEF P, f
<1>8. \A i \in Ids : ActiveIn(buckets, i) \in Nat
  BY DEF ActiveIn, IsTable, Bucket
<1>9. ASSUME NEW X, Keeps(X, c, t, r.seen)
      PROVE  /\ IsTable(X)
             /\ \A i \in Ids : ActiveIn(X, i) = ActiveIn(buckets, i) + 0
             /\ \A q \in Keys \ {r.key} : Untouched(X, <<"rate", q>>, r.seen)
  BY <1>2, <1>8, <1>9 DEF Keeps
<1>10. CASE result # "ok" /\ (T = S \/ T = I)
  BY <1>1, <1>4, <1>5, <1>9, <1>10
<1>11. CASE result # "ok" /\ T = P /\ "rate" \in r.policy /\ f.tokens < 1
  <2>1. Charged(T, result, r)
    BY <1>1, <1>7, <1>11 DEF Charged
  <2> QED BY <1>1, <1>6, <1>9, <1>11, <2>1
<1>12. CASE /\ result = "ok" /\ T = Admitted(P, r)
            /\ "concurrency" \in r.policy => ~(I[c].active >= Limit)
            /\ "rate" \in r.policy => ~(f.tokens < 1)
  <2>1. CASE "concurrency" \notin r.policy
    <3>1. T = P
      BY <1>12, <2>1 DEF Admitted
    <3>2. "rate" \in r.policy => Charged(T, result, r)
      BY <1>1, <1>7, <1>12, <3>1 DEF Charged
    <3>3. "rate" \notin r.policy => Untouched(T, t, r.seen)
      BY <1>6, <3>1
    <3> QED BY <1>1, <1>6, <1>9, <1>12, <2>1, <3>1, <3>2, <3>3
  <2>2. CASE "concurrency" \in r.policy
    <3>1. c \in DOMAIN P /\ P[c] = I[c]
      BY <1>5, <1>6, <2>2
    <3>2. /\ IsTable(T)
          /\ \A i \in Ids : ActiveIn(T, i) = ActiveIn(buckets, i) + (IF i = c THEN 1 ELSE 0)
          /\ \A i \in Ids \ {c, t} : Untouched(T, i, r.seen)
          /\ DOMAIN T = DOMAIN P /\ \A i \in DOMAIN T \ {c} : T[i] = P[i]
      BY <1>1, <1>6, <1>12, <2>2, <3>1, AdmittedKeeps
    <3>3. ActiveIn(buckets, c) < Limit
      <4>1. ActiveIn(buckets, c) = ActiveIn(I, c)
        BY <1>2, <1>5 DEF Keeps
      <4>2. ActiveIn(I, c) = I[c].active
        BY <1>5, <2>2 DEF ActiveIn
      <4> QED BY <1>2, <1>8, <1>12, <2>2, <4>1, <4>2, LimiterNumbers
    <3>4. "rate" \in r.policy => Charged(T, result, r)
      <4> SUFFICES ASSUME "rate" \in r.policy PROVE Charged(T, result, r)
        OBVIOUS
      <4>1. PICK b : /\ PaidFrom(P, t, r.seen, b) /\ f = Refilled(b, r.seen) /\ f.tokens \in Nat
                     /\ P[t].tokens = f.tokens - (IF f.tokens < 1 THEN 0 ELSE 1)
        BY <1>7
      <4>2. t \in DOMAIN T /\ T[t] = P[t]
        BY <1>2, <3>2, <4>1 DEF PaidFrom
      <4>3. PaidFrom(T, t, r.seen, b)
        BY <4>1, <4>2 DEF PaidFrom
      <4> QED BY <1>1, <1>12, <4>1, <4>2, <4>3 DEF Charged
    <3>5. "rate" \notin r.policy => Untouched(T, t, r.seen)
      BY <1>2, <1>6, <3>2 DEF Untouched
    <3> QED BY <1>1, <1>2, <1>12, <2>2, <3>2, <3>3, <3>4, <3>5
  <2> QED BY <2>1, <2>2
<1> QED BY <1>3, <1>10, <1>11, <1>12

-----------------------------------------------------------------------------
(* A request holds a permit only while it is admitted.                     *)
Held(k) == {u \in Users : user[u].permit /\ user[u].key = k}
UserStates == [at : {"new", "enter", "admitted"}, key : Keys \cup {Waiting.key},
               policy : SUBSET LimitKinds, seen : Nat, permit : BOOLEAN]

LimiterType ==
    /\ now \in Nat /\ last \in Nat /\ skew \in Nat
    /\ IsTable(buckets)
    /\ user \in [Users -> UserStates]
    /\ granted \in [Keys -> Nat]
UsersHold ==
    \A u \in Users :
        /\ user[u].at # "new" => user[u].key \in Keys
        /\ user[u].permit => user[u].at = "admitted"
        /\ user[u].at = "enter" => user[u].seen \in 1..now
PermitCount == \A k \in Keys : Cardinality(Held(k)) = ActiveIn(buckets, <<"concurrency", k>>)
PermitLimit == \A k \in Keys : Cardinality(Held(k)) <= Limit

(* What a key has been granted, and could be granted from its bucket       *)
(* without another refill, is earned: by the clock of its bucket or of the *)
(* last request to enter, whichever is behind, and by every step back      *)
(* (`g` requests granted, `la` and `sk` for last and skew).  A key without *)
(* a bucket could be granted Burst.                                        *)
Lower(a, b) == IF a < b THEN a ELSE b
Earned(T, k, g, la, sk) ==
    IF <<"rate", k>> \in DOMAIN T
    THEN g + T[<<"rate", k>>].tokens
            <= Burst + PerSecond * (Lower(T[<<"rate", k>>].touched, la) + sk - 1)
    ELSE g = 0 \/ g <= PerSecond * (la + sk - 1)
RateEarned ==
    /\ 1 <= now /\ last <= now
    /\ Burst <= Idle * PerSecond => \A k \in Keys : Earned(buckets, k, granted[k], last, skew)

LimiterInv == LimiterType /\ UsersHold /\ PermitCount /\ PermitLimit /\ RateEarned

LEMMA WaitingIs ==
    /\ Waiting \in UserStates /\ Waiting.at = "new" /\ Waiting.permit = FALSE
  BY DEF Waiting, UserStates

LEMMA LimiterInitInv == LimiterInit => LimiterInv
<1> SUFFICES ASSUME LimiterInit PROVE LimiterInv
  OBVIOUS
<1>1. DOMAIN buckets = {} /\ IsTable(buckets)
  BY DEF LimiterInit, IsTable
<1>2. LimiterType /\ UsersHold
  BY <1>1, WaitingIs DEF LimiterInit, LimiterType, UsersHold
<1>3. \A k \in Keys : Held(k) = {}
  BY WaitingIs DEF LimiterInit, Held
<1>4. PermitCount /\ PermitLimit
  BY <1>1, <1>3, FS_EmptySet, LimiterNumbers DEF PermitCount, PermitLimit, ActiveIn
<1>5. RateEarned
  BY <1>1 DEF LimiterInit, RateEarned, Earned
<1> QED BY <1>2, <1>4, <1>5 DEF LimiterInv

LEMMA MeasureInv == ASSUME LimiterInv, NEW u \in Users, Measure(u) PROVE LimiterInv'
<1>1. PICK k \in Keys, p \in SUBSET LimitKinds :
        user' = [user EXCEPT ![u] = [at |-> "enter", key |-> k, policy |-> p,
                                     seen |-> now, permit |-> FALSE]]
  BY DEF Measure
<1> DEFINE w == [at |-> "enter", key |-> k, policy |-> p, seen |-> now, permit |-> FALSE]
<1>2. w \in UserStates /\ w.permit = FALSE /\ w.at = "enter" /\ w.seen = now /\ w.key = k
  BY DEF UserStates, LimiterInv, LimiterType
<1> HIDE DEF w
<1>3. user' = [user EXCEPT ![u] = w] /\ UNCHANGED <<now, buckets, granted, last, skew>>
  BY <1>1 DEF Measure, w
<1>4. LimiterType'
  BY <1>2, <1>3 DEF LimiterInv, LimiterType
<1>5. UsersHold'
  BY <1>2, <1>3 DEF LimiterInv, LimiterType, UsersHold, RateEarned
<1>6. ~user[u].permit
  BY DEF Measure, LimiterInv, UsersHold
<1>7. ASSUME NEW q \in Keys PROVE Held(q)' = Held(q)
  BY <1>2, <1>3, <1>6 DEF Held, LimiterInv, LimiterType
<1> QED BY <1>3, <1>4, <1>5, <1>7 DEF LimiterInv, PermitCount, PermitLimit, RateEarned

LEMMA LeaveInv == ASSUME LimiterInv, NEW u \in Users, Leave(u) PROVE LimiterInv'
<1>1. PICK k, c : k = user[u].key /\ c = <<"concurrency", k>>
  OBVIOUS
<1>2. /\ user' = [user EXCEPT ![u] = Waiting] /\ UNCHANGED <<now, granted, last, skew>>
      /\ buckets' = Returned(u) /\ k \in Keys /\ c \in Ids
  BY <1>1 DEF Leave, LimiterInv, UsersHold, Ids, LimitKinds
<1>3. IsTable(buckets) /\ user \in [Users -> UserStates] /\ user[u].permit \in BOOLEAN
  BY DEF LimiterInv, LimiterType, UserStates
<1>4. UsersHold'
  BY <1>2, <1>3, WaitingIs DEF LimiterInv, UsersHold
<1>5. ASSUME NEW q \in Keys, ~(user[u].permit /\ q = k) PROVE Held(q)' = Held(q)
  BY <1>1, <1>2, <1>3, <1>5, WaitingIs DEF Held
<1>6. CASE user[u].permit
  <2>1. u \in Held(k) /\ Held(k)' = Held(k) \ {u} /\ Held(k) \in SUBSET Users
    BY <1>1, <1>2, <1>3, <1>6, WaitingIs DEF Held
  <2>2. Cardinality(Held(k)) >= 1 /\ Cardinality(Held(k)') = Cardinality(Held(k)) - 1
    BY <2>1, CountRemove, LimiterNumbers
  <2>3. /\ c \in DOMAIN buckets /\ buckets[c].active >= 1 /\ buckets[c] \in Bucket
        /\ Cardinality(Held(k)) = buckets[c].active
    BY <1>1, <1>2, <1>3, <2>2 DEF LimiterInv, PermitCount, ActiveIn, IsTable
  <2> DEFINE b == [tokens |-> buckets[c].tokens, active |-> buckets[c].active - 1, touched |-> now]
  <2>4. b \in Bucket /\ b.active = buckets[c].active - 1
    BY <2>3 DEF Bucket, LimiterInv, LimiterType
  <2>5. buckets' = [buckets EXCEPT ![c] = b]
    <3>1. ConcurrencyId(user[u]) = c
      BY <1>1 DEF ConcurrencyId
    <3>2. PermitReturned(buckets[c]) = b
      BY <2>3 DEF PermitReturned, Bucket
    <3> HIDE DEF b
    <3>3. Returned(u) = [buckets EXCEPT ![c] = PermitReturned(@)]
      BY <1>6, <2>3, <3>1 DEF Returned
    <3> QED BY <1>2, <3>2, <3>3
  <2> HIDE DEF b
  <2>6. /\ DOMAIN buckets' = DOMAIN buckets /\ buckets'[c] = b
        /\ \A i \in DOMAIN buckets \ {c} : buckets'[i] = buckets[i]
        /\ IsTable(buckets')
    BY <1>3, <2>3, <2>4, <2>5 DEF IsTable
  <2>7. LimiterType'
    BY <1>2, <1>3, <2>6, WaitingIs DEF LimiterInv, LimiterType
  <2>8. ASSUME NEW q \in Keys
        PROVE  /\ Cardinality(Held(q)') = ActiveIn(buckets', <<"concurrency", q>>)
               /\ Cardinality(Held(q)') <= Limit
    <3>1. CASE q = k
      BY <1>1, <2>2, <2>3, <2>4, <2>6, <3>1, LimiterNumbers
      DEF ActiveIn, LimiterInv, PermitLimit, Bucket
    <3>2. CASE q # k
      <4>1. <<"concurrency", q>> # c /\ Held(q)' = Held(q)
        BY <1>1, <1>5, <3>2
      <4> QED BY <2>6, <4>1 DEF ActiveIn, LimiterInv, PermitCount, PermitLimit
    <3> QED BY <3>1, <3>2
  <2>9. ASSUME NEW q \in Keys
        PROVE  Earned(buckets', q, granted[q], last, skew) <=> Earned(buckets, q, granted[q], last, skew)
    <3>1. <<"rate", q>> # c
      BY <1>1
    <3> QED BY <2>6, <3>1 DEF Earned
  <2> QED BY <1>2, <1>4, <2>7, <2>8, <2>9
      DEF LimiterInv, PermitCount, PermitLimit, RateEarned
<1>7. CASE ~user[u].permit
  <2>1. buckets' = buckets
    BY <1>2, <1>7 DEF Returned
  <2>2. LimiterType'
    BY <1>2, <1>3, <2>1, WaitingIs DEF LimiterInv, LimiterType
  <2> QED BY <1>2, <1>4, <1>5, <1>7, <2>1, <2>2
      DEF LimiterInv, PermitCount, PermitLimit, RateEarned
<1> QED BY <1>6, <1>7

(* The arithmetic of the token bucket.                                     *)
LEMMA Products ==
    /\ \A a, b \in Int : a <= b => PerSecond * a <= PerSecond * b
    /\ \A a, b \in Int : PerSecond * a + PerSecond * b = PerSecond * (a + b)
    /\ \A a \in Int : PerSecond * a \in Int /\ a * PerSecond = PerSecond * a
  BY LimiterNumbers

(* A request enters with clock `seen`: what a bucket has earned it keeps,  *)
(* also if it is swept after Idle and will start over full.                *)
LEMMA EarnedLater ==
    ASSUME NEW k \in Keys, NEW g \in Nat, NEW la \in Nat, NEW sk \in Nat, NEW seen \in Nat,
           NEW sk2, sk2 = sk + Since(la, seen),
           Burst <= Idle * PerSecond, IsTable(buckets), Earned(buckets, k, g, la, sk),
           NEW T, Untouched(T, <<"rate", k>>, seen)
    PROVE  Earned(T, k, g, seen, sk2)
<1> USE LimiterNumbers
<1>1. PICK i : i = <<"rate", k>>
  OBVIOUS
<1>2. sk2 \in Nat /\ la + sk <= seen + sk2
  BY DEF Since
<1>3. i \in DOMAIN buckets => buckets[i].touched \in Nat /\ buckets[i].tokens \in Nat
  BY DEF IsTable, Bucket
<1>4. CASE i \in DOMAIN T
  <2>1. i \in DOMAIN buckets /\ T[i] = buckets[i]
    BY <1>1, <1>4 DEF Untouched
  <2>2. PICK tokens \in Nat, touched \in Nat : tokens = T[i].tokens /\ touched = T[i].touched
    BY <1>3, <2>1
  <2>3. g + tokens <= Burst + PerSecond * (Lower(touched, la) + sk - 1)
    BY <1>1, <2>1, <2>2 DEF Earned
  <2>4. /\ Lower(touched, la) + sk - 1 \in Int /\ Lower(touched, seen) + sk2 - 1 \in Int
        /\ Lower(touched, la) + sk - 1 <= Lower(touched, seen) + sk2 - 1
    BY DEF Lower, Since
  <2>5. PerSecond * (Lower(touched, la) + sk - 1) <= PerSecond * (Lower(touched, seen) + sk2 - 1)
    BY <2>4, Products
  <2>6. g + tokens <= Burst + PerSecond * (Lower(touched, seen) + sk2 - 1)
    BY <2>3, <2>4, <2>5, Products
  <2> QED BY <1>1, <1>4, <2>2, <2>6 DEF Earned
<1>5. CASE i \notin DOMAIN T /\ i \in DOMAIN buckets
  <2>1. PICK tokens \in Nat, touched \in Nat :
          tokens = buckets[i].tokens /\ touched = buckets[i].touched
    BY <1>3, <1>5
  <2>2. Since(seen, touched) >= Idle
    BY <1>1, <1>5, <2>1 DEF Untouched
  <2> DEFINE x == Lower(touched, la) + sk - 1
             y == seen + sk2 - 1
  <2>3. g + tokens <= Burst + PerSecond * x
    BY <1>1, <1>5, <2>1 DEF Earned
  <2>4. x \in Int /\ y \in Int /\ Idle + x <= y
    BY <1>2, <2>2 DEF Lower, Since
  <2> HIDE DEF x, y
  <2>5. PerSecond * Idle + PerSecond * x <= PerSecond * y
    BY <2>4, Products
  <2>6. g <= PerSecond * y
    BY <2>3, <2>4, <2>5, Products
  <2> QED BY <1>1, <1>5, <2>6 DEF Earned, y
<1>6. CASE i \notin DOMAIN T /\ i \notin DOMAIN buckets
  <2>1. g = 0 \/ g <= PerSecond * (la + sk - 1)
    BY <1>1, <1>6 DEF Earned
  <2>2. PerSecond * (la + sk - 1) <= PerSecond * (seen + sk2 - 1)
    BY <1>2, Products
  <2>3. g = 0 \/ g <= PerSecond * (seen + sk2 - 1)
    BY <1>2, <2>1, <2>2, Products
  <2> QED BY <1>1, <1>6, <2>3 DEF Earned
<1> QED BY <1>4, <1>5, <1>6

(* The bucket that pays is refilled by what has been earned since.         *)
LEMMA EarnedCharged ==
    ASSUME NEW k \in Keys, NEW g \in Nat, NEW la \in Nat, NEW sk \in Nat, NEW seen \in Nat, seen >= 1,
           NEW sk2, sk2 = sk + Since(la, seen), NEW d \in {0, 1},
           Burst <= Idle * PerSecond, IsTable(buckets), Earned(buckets, k, g, la, sk),
           NEW T, IsTable(T), NEW b, PaidFrom(T, <<"rate", k>>, seen, b),
           T[<<"rate", k>>].tokens = Refilled(b, seen).tokens - d
    PROVE  Earned(T, k, g + d, seen, sk2)
<1> USE LimiterNumbers
<1>1. PICK i : i = <<"rate", k>>
  OBVIOUS
<1>2. sk2 \in Nat /\ la + sk <= seen + sk2
  BY DEF Since
<1>3. PICK n : n = Refilled(b, seen).tokens
  OBVIOUS
<1>4. /\ b \in Bucket /\ b.tokens \in Nat /\ b.touched \in Nat
      /\ n \in Nat /\ n <= Burst /\ n <= b.tokens + Since(seen, b.touched) * PerSecond
      /\ i \in DOMAIN T /\ T[i].touched = seen /\ T[i].tokens = n - d
  BY <1>1, <1>3, RefilledIs DEF PaidFrom, Bucket
<1> DEFINE y == seen + sk2 - 1
<1>5. Lower(seen, seen) + sk2 - 1 = y /\ y \in Nat
  BY <1>2 DEF Lower
<1>6. SUFFICES g + n <= Burst + PerSecond * y
  <2>1. g + d + (n - d) <= Burst + PerSecond * y
    BY <1>4, <1>5, <1>6, Products
  <2> QED BY <1>1, <1>4, <1>5, <2>1 DEF Earned
<1>7. CASE i \in DOMAIN buckets /\ b = buckets[i]
  <2> DEFINE x == Lower(b.touched, la) + sk - 1
             z == Since(seen, b.touched)
  <2>1. g + b.tokens <= Burst + PerSecond * x
    BY <1>1, <1>7 DEF Earned
  <2>2. x \in Int /\ z \in Nat /\ x + z <= y
    BY <1>2, <1>4 DEF Lower, Since
  <2>3. n <= b.tokens + PerSecond * z
    BY <1>4, <2>2, Products
  <2> HIDE DEF x, y, z
  <2>4. PerSecond * x + PerSecond * z <= PerSecond * y
    BY <1>5, <2>2, Products
  <2> QED BY <1>4, <1>5, <2>1, <2>2, <2>3, <2>4, Products
<1>8. CASE i \in DOMAIN buckets => Since(seen, buckets[i].touched) >= Idle
  <2> DEFINE E == [j \in {} |-> b]
  <2>1. Untouched(E, <<"rate", k>>, seen)
    BY <1>1, <1>8 DEF Untouched
  <2>2. Earned(E, k, g, seen, sk2)
    BY <2>1, EarnedLater
  <2>a. <<"rate", k>> \notin DOMAIN E
    OBVIOUS
  <2> HIDE DEF E
  <2>3. g = 0 \/ g <= PerSecond * y
    BY <2>2, <2>a DEF Earned
  <2>4. y \in Nat
    BY <1>5
  <2> HIDE DEF y
  <2>5. 0 \in Int /\ 0 <= y /\ y \in Int
    BY <2>4
  <2>6. PerSecond * 0 <= PerSecond * y
    BY <2>5, Products
  <2> QED BY <1>4, <1>5, <2>3, <2>5, <2>6, Products
<1> QED BY <1>1, <1>7, <1>8 DEF PaidFrom

LEMMA EnterInv == ASSUME LimiterInv, NEW u \in Users, Enter(u) PROVE LimiterInv'
<1>1. PICK r, T, result : r = user[u] /\ T = Acquired(r).table /\ result = Acquired(r).result
  OBVIOUS
<1>2. /\ IsTable(buckets) /\ user \in [Users -> UserStates] /\ granted \in [Keys -> Nat]
      /\ now \in Nat /\ last \in Nat /\ skew \in Nat
  BY DEF LimiterInv, LimiterType
<1>3. /\ r \in UserStates /\ r.at = "enter" /\ r.key \in Keys /\ ~r.permit
      /\ r.seen \in Nat /\ r.seen >= 1 /\ r.seen <= now /\ r.policy \in SUBSET LimitKinds
  BY <1>1, <1>2 DEF Enter, LimiterInv, UsersHold, UserStates
<1> DEFINE w == IF result # "ok" THEN Waiting
                ELSE [at |-> "admitted", key |-> r.key, policy |-> r.policy, seen |-> 0,
                      permit |-> "concurrency" \in r.policy]
           d == IF "rate" \in r.policy /\ result = "ok" THEN 1 ELSE 0
<1>4. /\ buckets' = T /\ user' = [user EXCEPT ![u] = w]
      /\ last' = r.seen /\ skew' = skew + Since(last, r.seen) /\ now' = now
  BY <1>1 DEF Enter
<1>5. granted' = [granted EXCEPT ![r.key] = @ + d]
  <2>1. granted' = [granted EXCEPT ![r.key] = IF "rate" \in r.policy /\ result = "ok" THEN @ + 1 ELSE @]
    BY <1>1 DEF Enter
  <2>2. granted[r.key] \in Nat /\ granted[r.key] + 0 = granted[r.key]
    BY <1>2, <1>3
  <2>3. CASE "rate" \in r.policy /\ result = "ok"
    BY <2>1, <2>3
  <2>4. CASE ~("rate" \in r.policy /\ result = "ok")
    BY <2>1, <2>2, <2>4
  <2> QED BY <2>3, <2>4
<1>6. /\ w \in UserStates /\ w.at # "enter"
      /\ w.at # "new" => w.key \in Keys
      /\ w.permit => w.at = "admitted"
      /\ (w.permit <=> (result = "ok" /\ "concurrency" \in r.policy))
      /\ w.permit => w.key = r.key
  <2>1. CASE result # "ok"
    <3>1. w = Waiting
      BY <2>1
    <3> HIDE DEF w
    <3> QED BY <2>1, <3>1, WaitingIs
  <2>2. CASE result = "ok"
    <3>1. w = [at |-> "admitted", key |-> r.key, policy |-> r.policy, seen |-> 0,
               permit |-> "concurrency" \in r.policy]
      BY <2>2
    <3> HIDE DEF w
    <3>2. w.at = "admitted" /\ w.key = r.key /\ (w.permit <=> "concurrency" \in r.policy)
      BY <3>1
    <3>3. w \in UserStates
      <4>1. ("concurrency" \in r.policy) \in BOOLEAN
        OBVIOUS
      <4>2. r.key \in Keys \cup {Waiting.key} /\ r.policy \in SUBSET LimitKinds /\ 0 \in Nat
        BY <1>3
      <4> QED BY <3>1, <4>1, <4>2, Zenon DEF UserStates
    <3> QED BY <1>3, <2>2, <3>2, <3>3
  <2> QED BY <2>1, <2>2
<1>7. d \in {0, 1}
  OBVIOUS
<1> HIDE DEF w
<1>8. /\ IsTable(T)
      /\ \A i \in Ids : ActiveIn(T, i) = ActiveIn(buckets, i)
            + (IF result = "ok" /\ "concurrency" \in r.policy /\ i = ConcurrencyId(r) THEN 1 ELSE 0)
      /\ result = "ok" /\ "concurrency" \in r.policy => ActiveIn(buckets, ConcurrencyId(r)) < Limit
      /\ \A q \in Keys \ {r.key} : Untouched(T, <<"rate", q>>, r.seen)
      /\ \/ Untouched(T, RateId(r), r.seen) /\ ~(result = "ok" /\ "rate" \in r.policy)
         \/ "rate" \in r.policy /\ Charged(T, result, r)
  BY <1>1, <1>2, <1>3, AcquiredIs
<1>9. LimiterType'
  <2>1. user' \in [Users -> UserStates]
    BY <1>2, <1>4, <1>6
  <2>2. granted' \in [Keys -> Nat]
    BY <1>2, <1>3, <1>5, <1>7
  <2>3. last' \in Nat /\ skew' \in Nat /\ now' \in Nat
    <3>1. Since(last, r.seen) \in Nat
      BY <1>2, <1>3 DEF Since
    <3> QED BY <1>2, <1>3, <1>4, <3>1
  <2> QED BY <1>4, <1>8, <2>1, <2>2, <2>3 DEF LimiterType
<1>10. UsersHold'
  BY <1>2, <1>4, <1>6 DEF LimiterInv, UsersHold
<1>11. ASSUME NEW q \in Keys
       PROVE  /\ Cardinality(Held(q)') = ActiveIn(T, <<"concurrency", q>>)
              /\ Cardinality(Held(q)') <= Limit
  <2>1. /\ Held(q) \in SUBSET Users /\ u \notin Held(q)
        /\ Cardinality(Held(q)) = ActiveIn(buckets, <<"concurrency", q>>)
        /\ Cardinality(Held(q)) <= Limit
        /\ Cardinality(Held(q)) \in Nat
    <3>1. Held(q) \in SUBSET Users /\ u \notin Held(q)
      BY <1>1, <1>3 DEF Held
    <3> QED BY <3>1, CountOf, LimiterNumbers DEF LimiterInv, PermitCount, PermitLimit
  <2>2. <<"concurrency", q>> \in Ids
    BY DEF Ids, LimitKinds
  <2>3. CASE w.permit /\ q = r.key
    <3>1. Held(q)' = Held(q) \cup {u}
      BY <1>2, <1>4, <1>6, <2>3 DEF Held
    <3>2. Cardinality(Held(q)') = Cardinality(Held(q)) + 1
      BY <2>1, <3>1, CountAdd, LimiterNumbers
    <3>3. /\ ActiveIn(T, <<"concurrency", q>>) = ActiveIn(buckets, <<"concurrency", q>>) + 1
          /\ ActiveIn(buckets, <<"concurrency", q>>) < Limit
      BY <1>6, <1>8, <2>2, <2>3 DEF ConcurrencyId
    <3> QED BY <2>1, <3>2, <3>3, LimiterNumbers
  <2>4. CASE ~(w.permit /\ q = r.key)
    <3>1. Held(q)' = Held(q)
      BY <1>1, <1>2, <1>3, <1>4, <1>6, <2>4 DEF Held
    <3>2. <<"concurrency", q>> = ConcurrencyId(r) => q = r.key
      BY DEF ConcurrencyId
    <3>3. ActiveIn(T, <<"concurrency", q>>) = ActiveIn(buckets, <<"concurrency", q>>) + 0
      BY <1>6, <1>8, <2>2, <2>4, <3>2
    <3> QED BY <2>1, <3>1, <3>3
  <2> QED BY <2>3, <2>4
<1>12. RateEarned'
  <2>1. 1 <= now' /\ last' <= now'
    BY <1>3, <1>4 DEF LimiterInv, RateEarned
  <2> SUFFICES ASSUME Burst <= Idle * PerSecond, NEW q \in Keys
               PROVE  Earned(T, q, granted'[q], last', skew')
    BY <1>4, <2>1 DEF RateEarned
  <2>2. Earned(buckets, q, granted[q], last, skew) /\ granted[q] \in Nat
    BY <1>2 DEF LimiterInv, RateEarned
  <2>3. CASE q # r.key \/ (Untouched(T, RateId(r), r.seen) /\ d = 0)
    <3>1. Untouched(T, <<"rate", q>>, r.seen)
      BY <1>8, <2>3 DEF RateId
    <3>2. granted'[q] = granted[q]
      BY <1>2, <1>3, <1>5, <2>2, <2>3
    <3> QED BY <1>2, <1>3, <1>4, <2>2, <3>1, <3>2, EarnedLater
  <2>4. CASE q = r.key /\ "rate" \in r.policy /\ Charged(T, result, r)
    <3>1. PICK b : /\ PaidFrom(T, <<"rate", q>>, r.seen, b)
                   /\ T[<<"rate", q>>].tokens = Refilled(b, r.seen).tokens - d
      BY <2>4 DEF Charged, RateId
    <3>2. granted'[q] = granted[q] + d
      BY <1>2, <1>3, <1>5, <2>4
    <3> HIDE DEF d
    <3> QED BY <1>2, <1>3, <1>4, <1>7, <1>8, <2>2, <3>1, <3>2, EarnedCharged, SMTT(30)
  <2> QED BY <1>8, <2>3, <2>4
<1> QED BY <1>4, <1>9, <1>10, <1>11, <1>12 DEF LimiterInv, PermitCount, PermitLimit

LEMMA LimiterTickInv == ASSUME LimiterInv, LimiterTick PROVE LimiterInv'
<1>1. now' = now + 1 /\ UNCHANGED <<buckets, user, granted, last, skew>> /\ now \in Nat /\ last \in Nat
  BY DEF LimiterTick, LimiterInv, LimiterType
<1>2. LimiterType' /\ UsersHold'
  BY <1>1 DEF LimiterInv, LimiterType, UsersHold
<1>3. PermitCount' /\ PermitLimit'
  BY <1>1 DEF LimiterInv, PermitCount, PermitLimit, Held
<1>4. RateEarned'
  BY <1>1 DEF LimiterInv, RateEarned
<1> QED BY <1>2, <1>3, <1>4 DEF LimiterInv

LEMMA LimiterStep == LimiterInv /\ [LimiterNext]_limiterVars => LimiterInv'
<1> SUFFICES ASSUME LimiterInv, [LimiterNext]_limiterVars PROVE LimiterInv'
  OBVIOUS
<1>1. CASE UNCHANGED limiterVars
  BY <1>1 DEF limiterVars, LimiterInv, LimiterType, UsersHold, PermitCount, PermitLimit, RateEarned, Held
<1>2. CASE LimiterNext
  BY <1>2, MeasureInv, EnterInv, LeaveInv, LimiterTickInv DEF LimiterNext
<1> QED BY <1>1, <1>2

\* A concurrency bucket counts exactly the permits of its key that are out, at
\* most Limit, and is never swept from under them (Limiter::acquire and
\* Permit::drop), for any number of requests and keys, any capacity and limit.
THEOREM PermitsAreCounted == LimiterSpec => []PermitsCounted
<1>1. LimiterInv => PermitsCounted
  BY DEF LimiterInv, PermitCount, PermitLimit, PermitsCounted, ActiveIn, Held
<1> QED BY LimiterInitInv, LimiterStep, <1>1, PTL DEF LimiterSpec

\* The token bucket bounds what a key is granted, in whatever order requests
\* that have read the clock enter and whatever is swept (Limiter::acquire), for
\* any rate, burst, capacity and number of keys and requests.
THEOREM RateIsBounded == LimiterSpec => []RateBound
<1>1. ASSUME LimiterInv PROVE RateBound
  <2>1. \A i \in DOMAIN buckets : buckets[i].tokens <= Burst
    BY <1>1, LimiterNumbers DEF LimiterInv, LimiterType, IsTable, Bucket
  <2>2. ASSUME Burst <= Idle * PerSecond, NEW k \in Keys
        PROVE  granted[k] <= Burst + PerSecond * ((now - 1) + skew)
    <3> DEFINE y == (now - 1) + skew
    <3>1. /\ y \in Nat /\ granted[k] \in Nat /\ last \in Nat /\ skew \in Nat /\ last + skew - 1 <= y
          /\ Earned(buckets, k, granted[k], last, skew)
      BY <1>1, <2>2 DEF LimiterInv, LimiterType, RateEarned
    <3> HIDE DEF y
    <3>2. PerSecond * 0 <= PerSecond * y /\ PerSecond * (last + skew - 1) <= PerSecond * y
      <4>1. last + skew - 1 \in Int /\ 0 \in Int /\ 0 <= y /\ y \in Int
        BY <3>1
      <4>2. PerSecond * 0 <= PerSecond * y
        BY <4>1, Products
      <4> QED BY <3>1, <4>1, <4>2, Products
    <3>3. CASE <<"rate", k>> \in DOMAIN buckets
      <4>1. PICK tokens \in Nat, touched \in Nat :
              tokens = buckets[<<"rate", k>>].tokens /\ touched = buckets[<<"rate", k>>].touched
        BY <1>1, <3>3, LimiterNumbers DEF LimiterInv, LimiterType, IsTable, Bucket
      <4> DEFINE x == Lower(touched, last) + skew - 1
      <4>2. x \in Int /\ x <= y
        BY <3>1 DEF Lower
      <4>3. granted[k] + tokens <= Burst + PerSecond * x
        BY <3>1, <3>3, <4>1 DEF Earned
      <4> HIDE DEF x
      <4>4. PerSecond * x <= PerSecond * y
        BY <3>1, <4>2, Products
      <4>5. granted[k] <= Burst + PerSecond * y
        BY <3>1, <4>2, <4>3, <4>4, Products, LimiterNumbers
      <4> QED BY <4>5 DEF y
    <3>4. CASE <<"rate", k>> \notin DOMAIN buckets
      <4>1. granted[k] = 0 \/ granted[k] <= PerSecond * (last + skew - 1)
        BY <3>1, <3>4 DEF Earned
      <4>2. granted[k] <= Burst + PerSecond * y
        BY <3>1, <3>2, <4>1, Products, LimiterNumbers
      <4> QED BY <4>2 DEF y
    <3> QED BY <3>3, <3>4
  <2> QED BY <2>1, <2>2 DEF RateBound
<1> QED BY LimiterInitInv, LimiterStep, <1>1, PTL DEF LimiterSpec

-----------------------------------------------------------------------------
(* Connections.                                                            *)

SocketStates ==
    [at : {"none", "handshake", "serving", "finishing", "wait_tunnel", "orphan", "closing",
           "established", "uncounted"},
     kind : {"plain", "tls", "quic"}, peer : Peers \cup {NoSocket.peer}, flag : BOOLEAN,
     swapped : BOOLEAN, headers : Nat, streams : Nat,
     tunnel : {"none", "waiting", "running", "aborted"}]

IsAlive(r) == r.at # "none"
IsCounted(r) == r.at # "none" /\ r.at # "uncounted"
IsPending(r) == IsCounted(r) /\ (r.flag \/ r.swapped)
SameCounts(q, r) ==
    /\ (IsAlive(q) <=> IsAlive(r)) /\ (IsCounted(q) <=> IsCounted(r))
    /\ (IsPending(q) <=> IsPending(r)) /\ q.peer = r.peer /\ q.kind = r.kind

(* What each stage of a connection still holds.  The flag and what was     *)
(* swapped out of it are never both up, and a lease that drops its counts  *)
(* has neither; only an HTTP/3 connection being served reads headers.      *)
Proper(r) ==
    /\ r.at # "none" => r.peer \in Peers
    /\ r.at \in {"none", "established", "uncounted"} => ~r.flag
    /\ r.at \in {"none", "handshake", "uncounted"} => ~r.swapped
    /\ ~(r.flag /\ r.swapped)
    /\ r.headers # 0 => r.kind = "quic" /\ r.at \in {"serving", "finishing"}
    /\ r.headers <= MaxStreams
    /\ r.tunnel = "waiting" => r.kind # "quic"

CountedAt(p) == {s \in Sockets : IsCounted(socket[s]) /\ socket[s].peer = p}
PendingAt(p) == {s \in Sockets : IsPending(socket[s]) /\ socket[s].peer = p}
CountedOn(l) == {s \in Sockets : IsCounted(socket[s]) /\ ListenerOf(socket[s].kind) = l}
AllAlive == {s \in Sockets : IsAlive(socket[s])}
AllPending == {s \in Sockets : IsPending(socket[s])}
HeaderPairs == {h \in Sockets \X (1..MaxStreams) : h[2] <= socket[h[1]].headers}

PeerCounts == [connections : Nat, pending : Nat]
SlotCounts == [connections : Int, pending : Int]
SocketsType == socket \in [Sockets -> SocketStates] /\ \A s \in Sockets : Proper(socket[s])
CountsType ==
    /\ peers \in [Peers -> PeerCounts] /\ listeners \in [AddressesServed -> Nat]
    /\ slots \in SlotCounts /\ headerSlots \in Int
PeersCounted ==
    \A p \in Peers :
        /\ peers[p].connections = Cardinality(CountedAt(p)) /\ peers[p].connections <= PerIp
        /\ peers[p].pending = Cardinality(PendingAt(p)) /\ peers[p].pending <= PendingPerIp
ListenersCounted ==
    \A l \in AddressesServed :
        listeners[l] = Cardinality(CountedOn(l)) /\ listeners[l] <= PerListener
SlotsCounted ==
    /\ slots.connections + Cardinality(AllAlive) = MaxConnections
    /\ slots.pending + Cardinality(AllPending) = MaxPending
HeadersCounted == headerSlots + Cardinality(HeaderPairs) = HeaderBudget

ConnectionsInv ==
    /\ SocketsType /\ CountsType
    /\ PeersCounted /\ ListenersCounted /\ SlotsCounted /\ HeadersCounted

LEMMA ConnectionsNumbers ==
    /\ IsFiniteSet(Sockets)
    /\ PerIp \in Nat /\ PerListener \in Nat /\ PendingPerIp \in Nat /\ MaxConnections \in Nat
    /\ MaxPending \in Nat /\ HeaderBudget \in Nat /\ MaxStreams \in Nat /\ MaxStreams >= 1
  BY ConnectionsAssumption

LEMMA NoSocketIs ==
    /\ NoSocket \in SocketStates /\ Proper(NoSocket) /\ NoSocket.at = "none"
    /\ NoSocket.flag = FALSE /\ NoSocket.swapped = FALSE /\ NoSocket.headers = 0
    /\ NoSocket.streams = 0 /\ NoSocket.tunnel = "none"
<1>1. /\ NoSocket.at = "none" /\ NoSocket.flag = FALSE /\ NoSocket.swapped = FALSE
      /\ NoSocket.headers = 0 /\ NoSocket.streams = 0 /\ NoSocket.tunnel = "none"
      /\ NoSocket \in SocketStates
  BY DEF NoSocket, SocketStates
<1> QED BY <1>1, ConnectionsNumbers DEF Proper

(* A step of one socket, whose record becomes w.                           *)
LEMMA OneSocket ==
    ASSUME SocketsType, NEW s \in Sockets, NEW r, r = socket[s], NEW w,
           socket' = [socket EXCEPT ![s] = w]
    PROVE  /\ \A p : Changed(CountedAt(p), CountedAt(p)',
                             IsCounted(r) /\ r.peer = p, IsCounted(w) /\ w.peer = p)
           /\ \A p : Changed(PendingAt(p), PendingAt(p)',
                             IsPending(r) /\ r.peer = p, IsPending(w) /\ w.peer = p)
           /\ \A l : Changed(CountedOn(l), CountedOn(l)',
                             IsCounted(r) /\ ListenerOf(r.kind) = l, IsCounted(w) /\ ListenerOf(w.kind) = l)
           /\ Changed(AllAlive, AllAlive', IsAlive(r), IsAlive(w))
           /\ Changed(AllPending, AllPending', IsPending(r), IsPending(w))
<1>1. socket'[s] = w /\ \A t \in Sockets : t # s => socket'[t] = socket[t]
  BY DEF SocketsType
<1>2. ASSUME NEW p PROVE Changed(CountedAt(p), CountedAt(p)',
                             IsCounted(r) /\ r.peer = p, IsCounted(w) /\ w.peer = p)
  <2>1. /\ CountedAt(p) \in SUBSET Sockets /\ CountedAt(p)' \in SUBSET Sockets
        /\ \A t \in Sockets : t # s => (t \in CountedAt(p) <=> t \in CountedAt(p)')
        /\ s \in CountedAt(p) <=> IsCounted(r) /\ r.peer = p
        /\ s \in CountedAt(p)' <=> IsCounted(w) /\ w.peer = p
    BY <1>1 DEF CountedAt
  <2>2. Changed(CountedAt(p), CountedAt(p)', s \in CountedAt(p), s \in CountedAt(p)')
    BY <2>1, CountChange, ConnectionsNumbers
  <2> QED BY <2>1, <2>2 DEF Changed
<1>3. ASSUME NEW p PROVE Changed(PendingAt(p), PendingAt(p)',
                             IsPending(r) /\ r.peer = p, IsPending(w) /\ w.peer = p)
  <2>1. /\ PendingAt(p) \in SUBSET Sockets /\ PendingAt(p)' \in SUBSET Sockets
        /\ \A t \in Sockets : t # s => (t \in PendingAt(p) <=> t \in PendingAt(p)')
        /\ s \in PendingAt(p) <=> IsPending(r) /\ r.peer = p
        /\ s \in PendingAt(p)' <=> IsPending(w) /\ w.peer = p
    BY <1>1 DEF PendingAt
  <2>2. Changed(PendingAt(p), PendingAt(p)', s \in PendingAt(p), s \in PendingAt(p)')
    BY <2>1, CountChange, ConnectionsNumbers
  <2> QED BY <2>1, <2>2 DEF Changed
<1>4. ASSUME NEW l PROVE Changed(CountedOn(l), CountedOn(l)',
                  IsCounted(r) /\ ListenerOf(r.kind) = l, IsCounted(w) /\ ListenerOf(w.kind) = l)
  <2>1. /\ CountedOn(l) \in SUBSET Sockets /\ CountedOn(l)' \in SUBSET Sockets
        /\ \A t \in Sockets : t # s => (t \in CountedOn(l) <=> t \in CountedOn(l)')
        /\ s \in CountedOn(l) <=> IsCounted(r) /\ ListenerOf(r.kind) = l
        /\ s \in CountedOn(l)' <=> IsCounted(w) /\ ListenerOf(w.kind) = l
    BY <1>1 DEF CountedOn
  <2>2. Changed(CountedOn(l), CountedOn(l)', s \in CountedOn(l), s \in CountedOn(l)')
    BY <2>1, CountChange, ConnectionsNumbers
  <2> QED BY <2>1, <2>2 DEF Changed
<1>5. Changed(AllAlive, AllAlive', IsAlive(r), IsAlive(w))
  <2>1. /\ AllAlive \in SUBSET Sockets /\ AllAlive' \in SUBSET Sockets
        /\ \A t \in Sockets : t # s => (t \in AllAlive <=> t \in AllAlive')
        /\ s \in AllAlive <=> IsAlive(r)
        /\ s \in AllAlive' <=> IsAlive(w)
    BY <1>1 DEF AllAlive
  <2>2. Changed(AllAlive, AllAlive', s \in AllAlive, s \in AllAlive')
    BY <2>1, CountChange, ConnectionsNumbers
  <2> QED BY <2>1, <2>2 DEF Changed
<1>6. Changed(AllPending, AllPending', IsPending(r), IsPending(w))
  <2>1. /\ AllPending \in SUBSET Sockets /\ AllPending' \in SUBSET Sockets
        /\ \A t \in Sockets : t # s => (t \in AllPending <=> t \in AllPending')
        /\ s \in AllPending <=> IsPending(r)
        /\ s \in AllPending' <=> IsPending(w)
    BY <1>1 DEF AllPending
  <2>2. Changed(AllPending, AllPending', s \in AllPending, s \in AllPending')
    BY <2>1, CountChange, ConnectionsNumbers
  <2> QED BY <2>1, <2>2 DEF Changed
<1> QED BY <1>2, <1>3, <1>4, <1>5, <1>6

LEMMA CountsKept ==
    ASSUME ConnectionsInv, UNCHANGED <<peers, listeners, slots>>,
           \A s \in Sockets : SameCounts(socket'[s], socket[s])
    PROVE  PeersCounted' /\ ListenersCounted' /\ SlotsCounted'
<1>1. ASSUME NEW p \in Peers PROVE CountedAt(p)' = CountedAt(p) /\ PendingAt(p)' = PendingAt(p)
  BY DEF CountedAt, PendingAt, SameCounts
<1>2. ASSUME NEW l \in AddressesServed PROVE CountedOn(l)' = CountedOn(l)
  BY DEF CountedOn, SameCounts
<1>3. AllAlive' = AllAlive /\ AllPending' = AllPending
  BY DEF AllAlive, AllPending, SameCounts
<1>4. PeersCounted'
  BY <1>1 DEF ConnectionsInv, PeersCounted
<1>5. ListenersCounted'
  BY <1>2 DEF ConnectionsInv, ListenersCounted
<1>6. SlotsCounted'
  BY <1>3 DEF ConnectionsInv, SlotsCounted
<1> QED BY <1>4, <1>5, <1>6

LEMMA HeadersKept ==
    ASSUME HeadersCounted, headerSlots' = headerSlots,
           \A s \in Sockets : socket'[s].headers = socket[s].headers
    PROVE  HeadersCounted'
<1>1. HeaderPairs' = HeaderPairs
  BY DEF HeaderPairs
<1> QED BY <1>1 DEF HeadersCounted

LEMMA SocketsTypeKept ==
    ASSUME SocketsType, NEW s \in Sockets, NEW w \in SocketStates, Proper(w),
           socket' = [socket EXCEPT ![s] = w]
    PROVE  SocketsType'
  BY DEF SocketsType

(* A step that changes none of the counts.                                 *)
LEMMA QuietInv ==
    ASSUME ConnectionsInv, NEW s \in Sockets, NEW w \in SocketStates, Proper(w),
           socket' = [socket EXCEPT ![s] = w], SameCounts(w, socket[s]),
           w.headers = socket[s].headers, UNCHANGED <<peers, listeners, slots, headerSlots>>
    PROVE  ConnectionsInv'
<1>1. SocketsType' /\ CountsType'
  BY SocketsTypeKept DEF ConnectionsInv, CountsType
<1>2. /\ \A t \in Sockets : SameCounts(socket'[t], socket[t])
      /\ \A t \in Sockets : socket'[t].headers = socket[t].headers
  BY DEF ConnectionsInv, SocketsType, SameCounts
<1>3. PeersCounted' /\ ListenersCounted' /\ SlotsCounted'
  BY <1>2, CountsKept
<1>4. HeadersCounted'
  BY <1>2, HeadersKept DEF ConnectionsInv
<1> QED BY <1>1, <1>3, <1>4 DEF ConnectionsInv

(* The record of a socket whose task has ended.                            *)
LEMMA EndedIs ==
    ASSUME SocketsType, NEW s \in Sockets, NEW tunnel \in {"none", "aborted"}, NEW r, r = socket[s]
    PROVE  \E w \in SocketStates :
              /\ Ended(s, tunnel) = [socket EXCEPT ![s] = w] /\ Ended(s, tunnel)[s] = w
              /\ w.at \in {"closing", "orphan"} /\ w.kind = r.kind /\ w.peer = r.peer
              /\ w.flag = r.flag /\ w.swapped = r.swapped /\ w.headers = 0
              /\ w.tunnel = tunnel
<1>1. PICK a \in {"closing", "orphan"} : a = IF tunnel = "none" THEN "closing" ELSE "orphan"
  OBVIOUS
<1> DEFINE w == [r EXCEPT !.at = a, !.headers = 0, !.streams = 0, !.tunnel = tunnel]
<1>2. r \in SocketStates /\ socket \in [Sockets -> SocketStates]
  BY DEF SocketsType
<1>3. w \in SocketStates
  BY <1>2, ZenonT(30) DEF SocketStates
<1>4. /\ w.at = a /\ w.kind = r.kind /\ w.peer = r.peer
      /\ w.flag = r.flag /\ w.swapped = r.swapped /\ w.headers = 0
      /\ w.tunnel = tunnel
  BY <1>2 DEF SocketStates
<1>5. Ended(s, tunnel) = [socket EXCEPT ![s] = w]
  <2>1. Ended(s, tunnel) = [socket EXCEPT ![s].at = a, ![s].headers = 0, ![s].streams = 0, ![s].tunnel = tunnel]
    BY <1>1 DEF Ended
  <2> QED BY <1>2, <2>1
<1> HIDE DEF w
<1>6. Ended(s, tunnel)[s] = w
  BY <1>2, <1>5
<1> QED BY <1>3, <1>4, <1>5, <1>6

LEMMA EndedInv ==
    ASSUME ConnectionsInv, NEW s \in Sockets, NEW tunnel \in {"none", "aborted"},
           socket' = Ended(s, tunnel), socket[s].headers = 0, IsCounted(socket[s]),
           socket[s].at \notin {"established"},
           UNCHANGED <<peers, listeners, slots, headerSlots>>
    PROVE  ConnectionsInv'
<1>1. PICK r : r = socket[s]
  OBVIOUS
<1>2. SocketsType /\ Proper(r)
  BY <1>1 DEF ConnectionsInv, SocketsType
<1>3. PICK w \in SocketStates :
              /\ socket' = [socket EXCEPT ![s] = w]
              /\ w.at \in {"closing", "orphan"} /\ w.kind = r.kind /\ w.peer = r.peer
              /\ w.flag = r.flag /\ w.swapped = r.swapped /\ w.headers = 0
              /\ w.tunnel # "waiting"
  BY <1>1, <1>2, EndedIs
<1>4. Proper(w) /\ SameCounts(w, r) /\ w.headers = r.headers
  BY <1>1, <1>2, <1>3 DEF Proper, SameCounts, IsAlive, IsCounted, IsPending
<1> QED BY <1>1, <1>3, <1>4, QuietInv

LEMMA QuietSteps ==
    ASSUME ConnectionsInv, NEW s \in Sockets,
           \/ HandshakeDone(s) \/ HandshakeFails(s) \/ TcpRequest(s) \/ RequestDone(s)
           \/ Upgrade(s) \/ UpgradeFlushed(s) \/ UpgradedEnds(s) \/ ConnectionEnds(s)
           \/ DropLeaseBegin(s)
    PROVE  ConnectionsInv'
<1>1. PICK r : r = socket[s]
  OBVIOUS
<1>2. /\ SocketsType /\ Proper(r) /\ r \in SocketStates /\ r.flag \in BOOLEAN /\ r.swapped \in BOOLEAN
      /\ socket \in [Sockets -> SocketStates] /\ r.headers \in Nat /\ r.streams \in Nat
      /\ headerSlots \in Int
  BY <1>1 DEF ConnectionsInv, SocketsType, SocketStates, CountsType
<1>3. SUFFICES ASSUME \/ HandshakeDone(s) \/ TcpRequest(s) \/ RequestDone(s)
                      \/ Upgrade(s) \/ UpgradeFlushed(s) \/ DropLeaseBegin(s)
               PROVE  \E w \in SocketStates :
                        /\ Proper(w) /\ SameCounts(w, r) /\ w.headers = r.headers
                        /\ socket' = [socket EXCEPT ![s] = w]
                        /\ UNCHANGED <<peers, listeners, slots, headerSlots>>
  <2>1. CASE HandshakeFails(s) \/ UpgradedEnds(s)
    <3>1. /\ socket' = Ended(s, "none") /\ UNCHANGED <<peers, listeners, slots, headerSlots>>
          /\ r.at \in {"handshake", "wait_tunnel", "orphan"}
      BY <1>1, <2>1 DEF HandshakeFails, UpgradedEnds
    <3>2. r.headers = 0 /\ IsCounted(r) /\ r.at \notin {"established"}
      BY <1>2, <3>1 DEF Proper, IsCounted
    <3> QED BY <1>1, <3>1, <3>2, EndedInv
  <2>2. CASE ConnectionEnds(s)
    <3>1. PICK tunnel \in {"none", "aborted"} : socket' = Ended(s, tunnel)
      BY <2>2 DEF ConnectionEnds
    <3>2. /\ r.kind # "quic" \/ r.headers + r.streams = 0
          /\ headerSlots' = headerSlots + r.headers /\ UNCHANGED <<peers, listeners, slots>>
      BY <1>1, <2>2 DEF ConnectionEnds, Freed
    <3>3. r.headers = 0 /\ IsCounted(r) /\ r.at \notin {"established"} /\ headerSlots' = headerSlots
      <4>1. r.headers = 0
        BY <1>2, <3>2 DEF Proper
      <4>2. r.at \in {"serving", "finishing"}
        BY <1>1, <2>2 DEF ConnectionEnds
      <4> QED BY <1>2, <3>2, <4>1, <4>2 DEF IsCounted
    <3> QED BY <1>1, <3>1, <3>2, <3>3, EndedInv
  <2>3. CASE \E w \in SocketStates :
                        /\ Proper(w) /\ SameCounts(w, r) /\ w.headers = r.headers
                        /\ socket' = [socket EXCEPT ![s] = w]
                        /\ UNCHANGED <<peers, listeners, slots, headerSlots>>
    BY <1>1, <2>3, QuietInv
  <2> QED BY <1>3, <2>1, <2>2, <2>3
<1>4. CASE HandshakeDone(s)
  <2>1. PICK f \in BOOLEAN, g \in BOOLEAN :
          /\ f = (r.kind = "quic" /\ r.flag) /\ g = (r.kind # "quic" /\ r.flag)
    OBVIOUS
  <2> DEFINE w == [r EXCEPT !.at = "serving", !.swapped = f, !.flag = g]
  <2>2. w \in SocketStates
    BY <1>2 DEF SocketStates
  <2>3. /\ w.tunnel = r.tunnel
        /\ w.at = "serving" /\ w.kind = r.kind /\ w.peer = r.peer /\ w.headers = r.headers
        /\ w.swapped = f /\ w.flag = g
    BY <1>2 DEF SocketStates
  <2>4. r.at = "handshake" /\ UNCHANGED <<peers, listeners, slots, headerSlots>>
    BY <1>1, <1>4 DEF HandshakeDone
  <2>5. socket' = [socket EXCEPT ![s] = w]
    BY <1>1, <1>2, <1>4, <2>1 DEF HandshakeDone
  <2> HIDE DEF w
  <2>6. Proper(w) /\ SameCounts(w, r)
    BY <1>2, <2>1, <2>3, <2>4 DEF Proper, SameCounts, IsAlive, IsCounted, IsPending
  <2> QED BY <2>2, <2>3, <2>4, <2>5, <2>6
<1>5. CASE TcpRequest(s)
  <2>1. PICK f \in BOOLEAN, n \in Nat : f = (r.swapped \/ r.flag) /\ n = r.streams + 1
    BY <1>2
  <2> DEFINE w == [r EXCEPT !.swapped = f, !.flag = FALSE, !.streams = n]
  <2>2. w \in SocketStates
    BY <1>2 DEF SocketStates
  <2>3. /\ w.tunnel = r.tunnel
        /\ w.at = r.at /\ w.kind = r.kind /\ w.peer = r.peer /\ w.headers = r.headers
        /\ w.swapped = f /\ w.flag = FALSE
    BY <1>2 DEF SocketStates
  <2>4. r.at = "serving" /\ UNCHANGED <<peers, listeners, slots, headerSlots>>
    BY <1>1, <1>5 DEF TcpRequest
  <2>5. socket' = [socket EXCEPT ![s] = w]
    BY <1>1, <1>2, <1>5, <2>1 DEF TcpRequest, EstablishSwap
  <2> HIDE DEF w
  <2>6. Proper(w) /\ SameCounts(w, r)
    BY <1>2, <2>1, <2>3, <2>4 DEF Proper, SameCounts, IsAlive, IsCounted, IsPending
  <2> QED BY <2>2, <2>3, <2>4, <2>5, <2>6
<1>6. CASE RequestDone(s)
  <2>1. r.streams > 0 /\ UNCHANGED <<peers, listeners, slots, headerSlots>>
    BY <1>1, <1>6 DEF RequestDone
  <2> DEFINE w == [r EXCEPT !.streams = @ - 1]
  <2>2. w \in SocketStates
    BY <1>2, <2>1 DEF SocketStates
  <2>3. /\ w.tunnel = r.tunnel
        /\ w.at = r.at /\ w.kind = r.kind /\ w.peer = r.peer /\ w.headers = r.headers
        /\ w.swapped = r.swapped /\ w.flag = r.flag
    BY <1>2 DEF SocketStates
  <2>4. socket' = [socket EXCEPT ![s] = w]
    BY <1>1, <1>2, <1>6 DEF RequestDone
  <2> HIDE DEF w
  <2>5. Proper(w) /\ SameCounts(w, r)
    BY <1>2, <2>3 DEF Proper, SameCounts, IsAlive, IsCounted, IsPending
  <2> QED BY <2>1, <2>2, <2>3, <2>4, <2>5
<1>7. CASE Upgrade(s)
  <2>1. r.at = "serving" /\ r.kind = "plain" /\ UNCHANGED <<peers, listeners, slots, headerSlots>>
    BY <1>1, <1>7 DEF Upgrade
  <2> DEFINE w == [r EXCEPT !.tunnel = "waiting"]
  <2>2. w \in SocketStates
    BY <1>2, <2>1 DEF SocketStates
  <2>3. /\ w.tunnel = "waiting"
        /\ w.at = r.at /\ w.kind = r.kind /\ w.peer = r.peer /\ w.headers = r.headers
        /\ w.swapped = r.swapped /\ w.flag = r.flag
    BY <1>2 DEF SocketStates
  <2>4. socket' = [socket EXCEPT ![s] = w]
    BY <1>1, <1>2, <1>7 DEF Upgrade
  <2> HIDE DEF w
  <2>5. Proper(w) /\ SameCounts(w, r)
    BY <1>2, <2>1, <2>3 DEF Proper, SameCounts, IsAlive, IsCounted, IsPending
  <2> QED BY <2>1, <2>2, <2>3, <2>4, <2>5
<1>8. CASE UpgradeFlushed(s)
  <2>1. r.at = "serving" /\ r.tunnel = "waiting" /\ UNCHANGED <<peers, listeners, slots, headerSlots>>
    BY <1>1, <1>8 DEF UpgradeFlushed
  <2> DEFINE w == [r EXCEPT !.at = "wait_tunnel", !.streams = 0, !.tunnel = "running"]
  <2>2. w \in SocketStates
    BY <1>2, <2>1 DEF SocketStates
  <2>3. /\ w.tunnel = "running"
        /\ w.at = "wait_tunnel" /\ w.kind = r.kind /\ w.peer = r.peer /\ w.headers = r.headers
        /\ w.swapped = r.swapped /\ w.flag = r.flag
    BY <1>2 DEF SocketStates
  <2>4. socket' = [socket EXCEPT ![s] = w]
    BY <1>1, <1>2, <1>8 DEF UpgradeFlushed
  <2> HIDE DEF w
  <2>5. Proper(w) /\ SameCounts(w, r)
    BY <1>2, <2>1, <2>3 DEF Proper, SameCounts, IsAlive, IsCounted, IsPending
  <2> QED BY <2>1, <2>2, <2>3, <2>4, <2>5
<1>9. CASE DropLeaseBegin(s)
  <2>1. r.at = "closing" /\ ~r.swapped /\ UNCHANGED <<peers, listeners, slots, headerSlots>>
    BY <1>1, <1>9 DEF DropLeaseBegin
  <2> DEFINE w == [r EXCEPT !.at = "established", !.swapped = r.flag, !.flag = FALSE]
  <2>2. w \in SocketStates
    BY <1>2, <2>1 DEF SocketStates
  <2>3. /\ w.tunnel = r.tunnel
        /\ w.at = "established" /\ w.kind = r.kind /\ w.peer = r.peer /\ w.headers = r.headers
        /\ w.swapped = r.flag /\ w.flag = FALSE
    BY <1>2 DEF SocketStates
  <2>4. socket' = [socket EXCEPT ![s] = w]
    BY <1>1, <1>2, <1>9 DEF DropLeaseBegin
  <2> HIDE DEF w
  <2>5. Proper(w) /\ SameCounts(w, r)
    BY <1>2, <2>1, <2>3 DEF Proper, SameCounts, IsAlive, IsCounted, IsPending
  <2> QED BY <2>1, <2>2, <2>3, <2>4, <2>5
<1> QED BY <1>3, <1>4, <1>5, <1>6, <1>7, <1>8, <1>9

(* Admission::acquire: one more in each of the five counts.                *)
LEMMA AcceptInv ==
    ASSUME ConnectionsInv, NEW s \in Sockets, AcceptTcp(s) \/ AcceptQuic(s)
    PROVE  ConnectionsInv'
<1>1. PICK kind \in {"plain", "tls", "quic"}, p \in Peers : AcquireSlot(s, kind, p)
  BY DEF AcceptTcp, AcceptQuic
<1>2. PICK r : r = socket[s] /\ r.at = "none" /\ headerSlots' = headerSlots
  BY DEF AcceptTcp, AcceptQuic
<1>3. /\ SocketsType /\ Proper(r) /\ socket \in [Sockets -> SocketStates]
      /\ peers \in [Peers -> PeerCounts] /\ listeners \in [AddressesServed -> Nat]
      /\ slots.connections \in Int /\ slots.pending \in Int
      /\ \A q \in Peers : peers[q].connections \in Nat /\ peers[q].pending \in Nat
  BY <1>2 DEF ConnectionsInv, SocketsType, CountsType, PeerCounts, SlotCounts
<1> DEFINE w == [NoSocket EXCEPT !.at = "handshake", !.kind = kind, !.peer = p, !.flag = TRUE]
           here == ListenerOf(kind)
<1>4. w \in SocketStates
  BY NoSocketIs DEF SocketStates
<1>5. /\ w.at = "handshake" /\ w.kind = kind /\ w.peer = p /\ w.flag = TRUE /\ w.swapped = FALSE
      /\ w.headers = 0 /\ w.tunnel = "none"
  BY NoSocketIs DEF SocketStates
<1>6. socket' = [socket EXCEPT ![s] = w]
  BY <1>1 DEF AcquireSlot
<1>7. /\ peers' = [peers EXCEPT ![p].connections = @ + 1, ![p].pending = @ + 1]
      /\ listeners' = [listeners EXCEPT ![here] = @ + 1]
      /\ slots' = [connections |-> slots.connections - 1, pending |-> slots.pending - 1]
      /\ peers[p].connections < PerIp /\ listeners[here] < PerListener
      /\ peers[p].pending < PendingPerIp
  BY <1>1 DEF AcquireSlot, Admissible
<1> HIDE DEF w
<1>8. here \in AddressesServed
  BY DEF ListenerOf, AddressesServed
<1> HIDE DEF here
<1>9. Proper(w) /\ IsAlive(w) /\ IsCounted(w) /\ IsPending(w) /\ w.headers = r.headers
  BY <1>2, <1>3, <1>5, ConnectionsNumbers DEF Proper, IsAlive, IsCounted, IsPending
<1>10. ~IsAlive(r) /\ ~IsCounted(r) /\ ~IsPending(r)
  BY <1>2 DEF IsAlive, IsCounted, IsPending
<1>11. /\ \A q : Changed(CountedAt(q), CountedAt(q)', FALSE, p = q)
       /\ \A q : Changed(PendingAt(q), PendingAt(q)', FALSE, p = q)
       /\ \A l : Changed(CountedOn(l), CountedOn(l)', FALSE, here = l)
       /\ Changed(AllAlive, AllAlive', FALSE, TRUE)
       /\ Changed(AllPending, AllPending', FALSE, TRUE)
  <2>1. ListenerOf(w.kind) = here
    BY <1>5 DEF here
  <2>2. /\ \A q : Changed(CountedAt(q), CountedAt(q)',
                             IsCounted(r) /\ r.peer = q, IsCounted(w) /\ w.peer = q)
        /\ \A q : Changed(PendingAt(q), PendingAt(q)',
                             IsPending(r) /\ r.peer = q, IsPending(w) /\ w.peer = q)
        /\ \A l : Changed(CountedOn(l), CountedOn(l)',
                             IsCounted(r) /\ ListenerOf(r.kind) = l, IsCounted(w) /\ ListenerOf(w.kind) = l)
        /\ Changed(AllAlive, AllAlive', IsAlive(r), IsAlive(w))
        /\ Changed(AllPending, AllPending', IsPending(r), IsPending(w))
    BY <1>2, <1>3, <1>6, OneSocket
  <2> QED BY <1>5, <1>9, <1>10, <2>1, <2>2 DEF Changed
<1>12. /\ peers'[p].connections = peers[p].connections + 1 /\ peers'[p].pending = peers[p].pending + 1
       /\ \A q \in Peers : q # p => peers'[q] = peers[q]
       /\ peers' \in [Peers -> PeerCounts]
  BY <1>3, <1>7 DEF PeerCounts
<1>13. /\ listeners'[here] = listeners[here] + 1
       /\ \A l \in AddressesServed : l # here => listeners'[l] = listeners[l]
       /\ listeners' \in [AddressesServed -> Nat]
  BY <1>3, <1>7, <1>8
<1>14. SocketsType' /\ CountsType'
  <2>1. slots' \in SlotCounts
    BY <1>3, <1>7 DEF SlotCounts
  <2> QED BY <1>2, <1>3, <1>4, <1>6, <1>9, <1>12, <1>13, <2>1, SocketsTypeKept
      DEF ConnectionsInv, CountsType
<1>15. PeersCounted'
  <2> SUFFICES ASSUME NEW q \in Peers
               PROVE  /\ peers'[q].connections = Cardinality(CountedAt(q)') /\ peers'[q].connections <= PerIp
                      /\ peers'[q].pending = Cardinality(PendingAt(q)') /\ peers'[q].pending <= PendingPerIp
    BY DEF PeersCounted
  <2>1. Changed(CountedAt(q), CountedAt(q)', FALSE, p = q) /\ Changed(PendingAt(q), PendingAt(q)', FALSE, p = q)
    BY <1>11
  <2> QED BY <1>3, <1>7, <1>12, <2>1, ConnectionsNumbers DEF ConnectionsInv, PeersCounted, Changed
<1>16. ListenersCounted'
  <2> SUFFICES ASSUME NEW l \in AddressesServed
               PROVE  listeners'[l] = Cardinality(CountedOn(l)') /\ listeners'[l] <= PerListener
    BY DEF ListenersCounted
  <2>1. Changed(CountedOn(l), CountedOn(l)', FALSE, here = l)
    BY <1>11
  <2> QED BY <1>3, <1>7, <1>13, <2>1, ConnectionsNumbers DEF ConnectionsInv, ListenersCounted, Changed
<1>17. SlotsCounted'
  <2>1. slots'.connections = slots.connections - 1 /\ slots'.pending = slots.pending - 1
    BY <1>7
  <2> QED BY <1>3, <1>11, <2>1, ConnectionsNumbers DEF ConnectionsInv, SlotsCounted, Changed
<1>18. HeadersCounted'
  <2>1. \A t \in Sockets : socket'[t].headers = socket[t].headers
    BY <1>2, <1>3, <1>6, <1>9
  <2> QED BY <1>2, <2>1, HeadersKept DEF ConnectionsInv
<1> QED BY <1>14, <1>15, <1>16, <1>17, <1>18 DEF ConnectionsInv

(* The rest of Lease::established: the pending counts.                     *)
LEMMA EstablishedInv ==
    ASSUME ConnectionsInv, NEW s \in Sockets, EstablishedCounts(s)
    PROVE  ConnectionsInv'
<1>1. PICK r, p : r = socket[s] /\ p = r.peer
  OBVIOUS
<1>2. /\ SocketsType /\ Proper(r) /\ r \in SocketStates /\ socket \in [Sockets -> SocketStates]
      /\ peers \in [Peers -> PeerCounts] /\ slots \in SlotCounts
      /\ slots.connections \in Int /\ slots.pending \in Int
      /\ \A q \in Peers : peers[q].connections \in Nat /\ peers[q].pending \in Nat
  BY <1>1 DEF ConnectionsInv, SocketsType, CountsType, PeerCounts, SlotCounts
<1>3. /\ r.swapped /\ socket' = [socket EXCEPT ![s].swapped = FALSE]
      /\ peers' = [peers EXCEPT ![p].pending = @ - 1]
      /\ slots' = [slots EXCEPT !.pending = @ + 1]
      /\ UNCHANGED <<listeners, headerSlots>>
  BY <1>1 DEF EstablishedCounts
<1> DEFINE w == [r EXCEPT !.swapped = FALSE]
<1>4. /\ w \in SocketStates
      /\ w.at = r.at /\ w.kind = r.kind /\ w.peer = r.peer /\ w.flag = r.flag /\ w.swapped = FALSE
      /\ w.headers = r.headers /\ w.tunnel = r.tunnel
  BY <1>2 DEF SocketStates
<1>5. socket' = [socket EXCEPT ![s] = w]
  BY <1>1, <1>2, <1>3
<1> HIDE DEF w
<1>6. /\ Proper(w) /\ (IsAlive(w) <=> IsAlive(r)) /\ (IsCounted(w) <=> IsCounted(r))
      /\ IsPending(r) /\ ~IsPending(w) /\ p \in Peers
  BY <1>1, <1>2, <1>3, <1>4 DEF Proper, IsAlive, IsCounted, IsPending
<1>7. /\ \A q : Cardinality(CountedAt(q)') = Cardinality(CountedAt(q))
      /\ \A q : Changed(PendingAt(q), PendingAt(q)', p = q, FALSE)
      /\ \A l : Cardinality(CountedOn(l)') = Cardinality(CountedOn(l))
      /\ Changed(AllAlive, AllAlive', TRUE, TRUE)
      /\ Changed(AllPending, AllPending', TRUE, FALSE)
  <2>1. /\ \A q : Changed(CountedAt(q), CountedAt(q)',
                             IsCounted(r) /\ r.peer = q, IsCounted(w) /\ w.peer = q)
        /\ \A q : Changed(PendingAt(q), PendingAt(q)',
                             IsPending(r) /\ r.peer = q, IsPending(w) /\ w.peer = q)
        /\ \A l : Changed(CountedOn(l), CountedOn(l)',
                             IsCounted(r) /\ ListenerOf(r.kind) = l, IsCounted(w) /\ ListenerOf(w.kind) = l)
        /\ Changed(AllAlive, AllAlive', IsAlive(r), IsAlive(w))
        /\ Changed(AllPending, AllPending', IsPending(r), IsPending(w))
    BY <1>1, <1>2, <1>5, OneSocket
  <2> QED BY <1>1, <1>4, <1>6, <2>1 DEF Changed
<1>8. Cardinality(PendingAt(p)) >= 1
  BY <1>7 DEF Changed
<1>9. peers[p].pending >= 1
  BY <1>6, <1>8 DEF ConnectionsInv, PeersCounted
<1>10. /\ peers'[p].connections = peers[p].connections /\ peers'[p].pending = peers[p].pending - 1
       /\ \A q \in Peers : q # p => peers'[q] = peers[q]
       /\ peers' \in [Peers -> PeerCounts]
  BY <1>2, <1>3, <1>6, <1>9 DEF PeerCounts
<1>11. /\ slots' \in SlotCounts /\ slots'.connections = slots.connections
       /\ slots'.pending = slots.pending + 1
  BY <1>2, <1>3 DEF SlotCounts
<1>12. SocketsType' /\ CountsType'
  BY <1>2, <1>3, <1>4, <1>5, <1>6, <1>10, <1>11, SocketsTypeKept DEF ConnectionsInv, CountsType
<1>13. PeersCounted'
  <2> SUFFICES ASSUME NEW q \in Peers
               PROVE  /\ peers'[q].connections = Cardinality(CountedAt(q)') /\ peers'[q].connections <= PerIp
                      /\ peers'[q].pending = Cardinality(PendingAt(q)') /\ peers'[q].pending <= PendingPerIp
    BY DEF PeersCounted
  <2>1. Cardinality(CountedAt(q)') = Cardinality(CountedAt(q)) /\ Changed(PendingAt(q), PendingAt(q)', p = q, FALSE)
    BY <1>7
  <2> QED BY <1>2, <1>10, <2>1, ConnectionsNumbers DEF ConnectionsInv, PeersCounted, Changed
<1>14. ListenersCounted'
  BY <1>3, <1>7 DEF ConnectionsInv, ListenersCounted
<1>15. SlotsCounted'
  BY <1>2, <1>7, <1>11, ConnectionsNumbers DEF ConnectionsInv, SlotsCounted, Changed
<1>16. HeadersCounted'
  <2>1. \A t \in Sockets : socket'[t].headers = socket[t].headers
    BY <1>1, <1>2, <1>4, <1>5
  <2> QED BY <1>3, <2>1, HeadersKept DEF ConnectionsInv
<1> QED BY <1>12, <1>13, <1>14, <1>15, <1>16 DEF ConnectionsInv

(* Lease::drop returns the counts of the address and of the listener.      *)
LEMMA DropCountsInv ==
    ASSUME ConnectionsInv, NEW s \in Sockets, DropLeaseCounts(s)
    PROVE  ConnectionsInv'
<1>1. PICK r, p, here : r = socket[s] /\ p = r.peer /\ here = ListenerOf(r.kind)
  OBVIOUS
<1>2. /\ SocketsType /\ Proper(r) /\ r \in SocketStates /\ socket \in [Sockets -> SocketStates]
      /\ peers \in [Peers -> PeerCounts] /\ listeners \in [AddressesServed -> Nat]
      /\ \A q \in Peers : peers[q].connections \in Nat /\ peers[q].pending \in Nat
  BY <1>1 DEF ConnectionsInv, SocketsType, CountsType, PeerCounts
<1>3. /\ r.at = "established" /\ ~r.swapped /\ socket' = [socket EXCEPT ![s].at = "uncounted"]
      /\ peers' = [peers EXCEPT ![p].connections = @ - 1]
      /\ listeners' = [listeners EXCEPT ![here] = @ - 1]
      /\ UNCHANGED <<slots, headerSlots>>
  BY <1>1 DEF DropLeaseCounts
<1>4. p \in Peers /\ here \in AddressesServed
  BY <1>1, <1>2, <1>3 DEF Proper, ListenerOf, AddressesServed
<1> DEFINE w == [r EXCEPT !.at = "uncounted"]
<1>5. /\ w \in SocketStates
      /\ w.at = "uncounted" /\ w.kind = r.kind /\ w.peer = r.peer /\ w.flag = r.flag
      /\ w.swapped = r.swapped /\ w.headers = r.headers /\ w.tunnel = r.tunnel
  BY <1>2 DEF SocketStates
<1>6. socket' = [socket EXCEPT ![s] = w]
  BY <1>1, <1>2, <1>3
<1> HIDE DEF w
<1>7. /\ Proper(w) /\ IsAlive(w) /\ IsAlive(r) /\ IsCounted(r) /\ ~IsCounted(w)
      /\ ~IsPending(r) /\ ~IsPending(w)
  BY <1>2, <1>3, <1>5 DEF Proper, IsAlive, IsCounted, IsPending
<1>8. /\ \A q : Changed(CountedAt(q), CountedAt(q)', p = q, FALSE)
      /\ \A q : Cardinality(PendingAt(q)') = Cardinality(PendingAt(q))
      /\ \A l : Changed(CountedOn(l), CountedOn(l)', here = l, FALSE)
      /\ Cardinality(AllAlive') = Cardinality(AllAlive)
      /\ Cardinality(AllPending') = Cardinality(AllPending)
  <2>1. /\ \A q : Changed(CountedAt(q), CountedAt(q)',
                             IsCounted(r) /\ r.peer = q, IsCounted(w) /\ w.peer = q)
        /\ \A q : Changed(PendingAt(q), PendingAt(q)',
                             IsPending(r) /\ r.peer = q, IsPending(w) /\ w.peer = q)
        /\ \A l : Changed(CountedOn(l), CountedOn(l)',
                             IsCounted(r) /\ ListenerOf(r.kind) = l, IsCounted(w) /\ ListenerOf(w.kind) = l)
        /\ Changed(AllAlive, AllAlive', IsAlive(r), IsAlive(w))
        /\ Changed(AllPending, AllPending', IsPending(r), IsPending(w))
    BY <1>1, <1>2, <1>6, OneSocket
  <2> QED BY <1>1, <1>5, <1>7, <2>1 DEF Changed
<1>9. peers[p].connections >= 1 /\ listeners[here] >= 1
  BY <1>4, <1>8 DEF ConnectionsInv, PeersCounted, ListenersCounted, Changed
<1>10. /\ peers'[p].connections = peers[p].connections - 1 /\ peers'[p].pending = peers[p].pending
       /\ \A q \in Peers : q # p => peers'[q] = peers[q]
       /\ peers' \in [Peers -> PeerCounts]
  BY <1>2, <1>3, <1>4, <1>9 DEF PeerCounts
<1>11. /\ listeners'[here] = listeners[here] - 1
       /\ \A l \in AddressesServed : l # here => listeners'[l] = listeners[l]
       /\ listeners' \in [AddressesServed -> Nat]
  BY <1>2, <1>3, <1>4, <1>9
<1>12. SocketsType' /\ CountsType'
  BY <1>2, <1>3, <1>5, <1>6, <1>7, <1>10, <1>11, SocketsTypeKept DEF ConnectionsInv, CountsType
<1>13. PeersCounted'
  <2> SUFFICES ASSUME NEW q \in Peers
               PROVE  /\ peers'[q].connections = Cardinality(CountedAt(q)') /\ peers'[q].connections <= PerIp
                      /\ peers'[q].pending = Cardinality(PendingAt(q)') /\ peers'[q].pending <= PendingPerIp
    BY DEF PeersCounted
  <2>1. Cardinality(PendingAt(q)') = Cardinality(PendingAt(q)) /\ Changed(CountedAt(q), CountedAt(q)', p = q, FALSE)
    BY <1>8
  <2> QED BY <1>2, <1>10, <2>1, ConnectionsNumbers DEF ConnectionsInv, PeersCounted, Changed
<1>14. ListenersCounted'
  <2> SUFFICES ASSUME NEW l \in AddressesServed
               PROVE  listeners'[l] = Cardinality(CountedOn(l)') /\ listeners'[l] <= PerListener
    BY DEF ListenersCounted
  <2>1. Changed(CountedOn(l), CountedOn(l)', here = l, FALSE)
    BY <1>8
  <2> QED BY <1>2, <1>11, <2>1, ConnectionsNumbers DEF ConnectionsInv, ListenersCounted, Changed
<1>15. SlotsCounted'
  BY <1>3, <1>8 DEF ConnectionsInv, SlotsCounted
<1>16. HeadersCounted'
  <2>1. \A t \in Sockets : socket'[t].headers = socket[t].headers
    BY <1>1, <1>2, <1>5, <1>6
  <2> QED BY <1>3, <2>1, HeadersKept DEF ConnectionsInv
<1> QED BY <1>12, <1>13, <1>14, <1>15, <1>16 DEF ConnectionsInv

(* Lease::drop ends with the connection permit.                            *)
LEMMA DropPermitInv ==
    ASSUME ConnectionsInv, NEW s \in Sockets, DropLeasePermit(s)
    PROVE  ConnectionsInv'
<1>1. PICK r : r = socket[s]
  OBVIOUS
<1>2. /\ SocketsType /\ Proper(r) /\ socket \in [Sockets -> SocketStates]
      /\ slots \in SlotCounts /\ slots.connections \in Int /\ slots.pending \in Int
  BY <1>1 DEF ConnectionsInv, SocketsType, CountsType, SlotCounts
<1>3. /\ r.at = "uncounted" /\ socket' = [socket EXCEPT ![s] = NoSocket]
      /\ slots' = [slots EXCEPT !.connections = @ + 1] /\ UNCHANGED <<peers, listeners, headerSlots>>
  BY <1>1 DEF DropLeasePermit
<1>4. /\ IsAlive(r) /\ ~IsAlive(NoSocket) /\ ~IsCounted(r) /\ ~IsCounted(NoSocket)
      /\ ~IsPending(r) /\ ~IsPending(NoSocket) /\ r.headers = 0
  BY <1>2, <1>3, NoSocketIs DEF Proper, IsAlive, IsCounted, IsPending
<1>5. /\ \A q : Cardinality(CountedAt(q)') = Cardinality(CountedAt(q))
      /\ \A q : Cardinality(PendingAt(q)') = Cardinality(PendingAt(q))
      /\ \A l : Cardinality(CountedOn(l)') = Cardinality(CountedOn(l))
      /\ Changed(AllAlive, AllAlive', TRUE, FALSE)
      /\ Cardinality(AllPending') = Cardinality(AllPending)
  <2> DEFINE w == NoSocket
  <2>1. /\ \A q : Changed(CountedAt(q), CountedAt(q)',
                             IsCounted(r) /\ r.peer = q, IsCounted(w) /\ w.peer = q)
        /\ \A q : Changed(PendingAt(q), PendingAt(q)',
                             IsPending(r) /\ r.peer = q, IsPending(w) /\ w.peer = q)
        /\ \A l : Changed(CountedOn(l), CountedOn(l)',
                             IsCounted(r) /\ ListenerOf(r.kind) = l, IsCounted(w) /\ ListenerOf(w.kind) = l)
        /\ Changed(AllAlive, AllAlive', IsAlive(r), IsAlive(w))
        /\ Changed(AllPending, AllPending', IsPending(r), IsPending(w))
    BY <1>1, <1>2, <1>3, OneSocket
  <2> QED BY <1>4, <2>1 DEF Changed
<1>6. /\ slots' \in SlotCounts /\ slots'.connections = slots.connections + 1
      /\ slots'.pending = slots.pending
  BY <1>2, <1>3 DEF SlotCounts
<1>7. SocketsType' /\ CountsType'
  BY <1>2, <1>3, <1>6, NoSocketIs, SocketsTypeKept DEF ConnectionsInv, CountsType
<1>8. PeersCounted'
  BY <1>3, <1>5 DEF ConnectionsInv, PeersCounted
<1>9. ListenersCounted'
  BY <1>3, <1>5 DEF ConnectionsInv, ListenersCounted
<1>10. SlotsCounted'
  BY <1>2, <1>5, <1>6, ConnectionsNumbers DEF ConnectionsInv, SlotsCounted, Changed
<1>11. HeadersCounted'
  <2>1. \A t \in Sockets : socket'[t].headers = socket[t].headers
    BY <1>1, <1>2, <1>3, <1>4, NoSocketIs
  <2> QED BY <1>3, <2>1, HeadersKept DEF ConnectionsInv
<1> QED BY <1>7, <1>8, <1>9, <1>10, <1>11 DEF ConnectionsInv

(* Header permits are counted as the pairs of a connection and one of its  *)
(* first `headers` streams.                                                *)
LEMMA HeaderPlaces == IsFiniteSet(Sockets \X (1..MaxStreams)) /\ HeaderPairs \in SUBSET (Sockets \X (1..MaxStreams))
<1>1. IsFiniteSet(1..MaxStreams)
  BY FS_Interval, ConnectionsNumbers
<1> QED BY <1>1, FS_Product, ConnectionsNumbers DEF HeaderPairs

(* One more or one fewer of a connection's headers.                        *)
LEMMA HeadersChange ==
    ASSUME SocketsType, NEW s \in Sockets, NEW r, r = socket[s], NEW w, w.headers \in 0..MaxStreams,
           socket' = [socket EXCEPT ![s] = w]
    PROVE  /\ Cardinality(HeaderPairs) \in Nat
           /\ w.headers = r.headers + 1 => Cardinality(HeaderPairs') = Cardinality(HeaderPairs) + 1
           /\ w.headers = r.headers - 1 => Cardinality(HeaderPairs') = Cardinality(HeaderPairs) - 1
<1> USE ConnectionsNumbers
<1>1. socket'[s] = w /\ \A t \in Sockets : t # s => socket'[t] = socket[t]
  BY DEF SocketsType
<1>2. r.headers \in Nat /\ r.headers <= MaxStreams
  BY DEF SocketsType, SocketStates, Proper
<1>3. Cardinality(HeaderPairs) \in Nat
  BY HeaderPlaces, CountOf
<1>4. ASSUME w.headers = r.headers + 1 PROVE Cardinality(HeaderPairs') = Cardinality(HeaderPairs) + 1
  <2>1. PICK h : h = <<s, w.headers>>
    OBVIOUS
  <2>2. h \in Sockets \X (1..MaxStreams) /\ h \notin HeaderPairs
    BY <1>2, <1>4, <2>1 DEF HeaderPairs
  <2>3. HeaderPairs' = HeaderPairs \cup {h}
    BY <1>1, <1>2, <1>4, <2>1, <2>2 DEF HeaderPairs
  <2> QED BY <2>2, <2>3, HeaderPlaces, CountAdd
<1>5. ASSUME w.headers = r.headers - 1 PROVE Cardinality(HeaderPairs') = Cardinality(HeaderPairs) - 1
  <2>1. PICK h : h = <<s, r.headers>>
    OBVIOUS
  <2>2. h \in HeaderPairs
    BY <1>2, <1>5, <2>1 DEF HeaderPairs
  <2>3. HeaderPairs' = HeaderPairs \ {h}
    BY <1>1, <1>2, <1>5, <2>1, <2>2 DEF HeaderPairs
  <2> QED BY <2>2, <2>3, HeaderPlaces, CountRemove
<1> QED BY <1>3, <1>4, <1>5

(* A step that moves the header permits of one connection only.            *)
LEMMA HeadersInv ==
    ASSUME ConnectionsInv, NEW s \in Sockets, NEW r, r = socket[s], NEW w \in SocketStates, Proper(w),
           socket' = [socket EXCEPT ![s] = w], SameCounts(w, r),
           UNCHANGED <<peers, listeners, slots>>,
           \/ w.headers = r.headers + 1 /\ headerSlots' = headerSlots - 1
           \/ w.headers = r.headers - 1 /\ headerSlots' = headerSlots + 1
    PROVE  ConnectionsInv'
<1>1. SocketsType' /\ CountsType'
  <2>1. SocketsType'
    BY SocketsTypeKept DEF ConnectionsInv
  <2>2. headerSlots' \in Int
    BY DEF ConnectionsInv, CountsType
  <2> QED BY <2>1, <2>2 DEF ConnectionsInv, CountsType
<1>2. \A t \in Sockets : SameCounts(socket'[t], socket[t])
  BY DEF ConnectionsInv, SocketsType, SameCounts
<1>3. PeersCounted' /\ ListenersCounted' /\ SlotsCounted'
  BY <1>2, CountsKept
<1>4. HeadersCounted'
  <2>1. w.headers \in 0..MaxStreams
    BY ConnectionsNumbers DEF SocketStates, Proper
  <2>2. /\ Cardinality(HeaderPairs) \in Nat
        /\ w.headers = r.headers + 1 => Cardinality(HeaderPairs') = Cardinality(HeaderPairs) + 1
        /\ w.headers = r.headers - 1 => Cardinality(HeaderPairs') = Cardinality(HeaderPairs) - 1
    BY <2>1, HeadersChange DEF ConnectionsInv
  <2>3. headerSlots \in Int
    BY DEF ConnectionsInv, CountsType
  <2> QED BY <2>2, <2>3, ConnectionsNumbers DEF ConnectionsInv, HeadersCounted
<1> QED BY <1>1, <1>3, <1>4 DEF ConnectionsInv

LEMMA H3Inv ==
    ASSUME ConnectionsInv, NEW s \in Sockets, H3Stream(s) \/ H3Resolved(s, TRUE) \/ H3Resolved(s, FALSE)
    PROVE  ConnectionsInv'
<1>1. PICK r : r = socket[s]
  OBVIOUS
<1>2. /\ Proper(r) /\ r \in SocketStates /\ socket \in [Sockets -> SocketStates]
      /\ r.headers \in Nat /\ r.streams \in Nat
  BY <1>1 DEF ConnectionsInv, SocketsType, SocketStates
<1>3. CASE H3Stream(s) /\ headerSlots > 0
  <2>1. /\ r.at = "serving" /\ r.kind = "quic" /\ r.headers + r.streams < MaxStreams
        /\ socket' = [socket EXCEPT ![s].headers = @ + 1] /\ headerSlots' = headerSlots - 1
        /\ UNCHANGED <<peers, listeners, slots>>
    BY <1>1, <1>3 DEF H3Stream
  <2>2. PICK n \in Nat : n = r.headers + 1 /\ n <= MaxStreams
    BY <1>2, <2>1, ConnectionsNumbers
  <2> DEFINE w == [r EXCEPT !.headers = n]
  <2>3. /\ w \in SocketStates
        /\ w.at = r.at /\ w.kind = r.kind /\ w.peer = r.peer /\ w.flag = r.flag
        /\ w.swapped = r.swapped /\ w.headers = n /\ w.tunnel = r.tunnel
    BY <1>2 DEF SocketStates
  <2>4. socket' = [socket EXCEPT ![s] = w]
    BY <1>1, <1>2, <2>1, <2>2
  <2> HIDE DEF w
  <2>5. Proper(w) /\ SameCounts(w, r)
    BY <1>2, <2>1, <2>2, <2>3 DEF Proper, SameCounts, IsAlive, IsCounted, IsPending
  <2> QED BY <1>1, <2>1, <2>2, <2>3, <2>4, <2>5, HeadersInv
<1>4. CASE H3Stream(s) /\ ~(headerSlots > 0)
  <2>1. /\ r.at = "serving" /\ socket' = [socket EXCEPT ![s].at = "finishing"]
        /\ UNCHANGED <<peers, listeners, slots, headerSlots>>
    BY <1>1, <1>4 DEF H3Stream
  <2> DEFINE w == [r EXCEPT !.at = "finishing"]
  <2>2. /\ w \in SocketStates
        /\ w.at = "finishing" /\ w.kind = r.kind /\ w.peer = r.peer /\ w.flag = r.flag
        /\ w.swapped = r.swapped /\ w.headers = r.headers /\ w.tunnel = r.tunnel
    BY <1>2 DEF SocketStates
  <2>3. socket' = [socket EXCEPT ![s] = w]
    BY <1>1, <1>2, <2>1
  <2> HIDE DEF w
  <2>4. Proper(w) /\ SameCounts(w, r)
    BY <1>2, <2>1, <2>2 DEF Proper, SameCounts, IsAlive, IsCounted, IsPending
  <2> QED BY <1>1, <2>1, <2>2, <2>3, <2>4, QuietInv
<1>5. CASE H3Resolved(s, TRUE) \/ H3Resolved(s, FALSE)
  <2>1. /\ r.headers > 0 /\ headerSlots' = headerSlots + 1 /\ UNCHANGED <<peers, listeners, slots>>
        /\ \/ socket' = [socket EXCEPT ![s].headers = @ - 1, ![s].streams = @ + 1]
           \/ socket' = [socket EXCEPT ![s].headers = @ - 1, ![s].streams = @]
    BY <1>1, <1>5 DEF H3Resolved
  <2>2. PICK n \in Nat, k \in Nat :
          n = r.headers - 1 /\ socket' = [socket EXCEPT ![s].headers = n, ![s].streams = k]
    <3>1. r.headers - 1 \in Nat /\ r.streams + 1 \in Nat
      BY <1>2, <2>1
    <3>2. CASE socket' = [socket EXCEPT ![s].headers = @ - 1, ![s].streams = @ + 1]
      <4>1. socket' = [socket EXCEPT ![s].headers = r.headers - 1, ![s].streams = r.streams + 1]
        BY <1>1, <1>2, <3>2 DEF SocketStates
      <4> QED BY <3>1, <4>1
    <3>3. CASE socket' = [socket EXCEPT ![s].headers = @ - 1, ![s].streams = @]
      <4>1. socket' = [socket EXCEPT ![s].headers = r.headers - 1, ![s].streams = r.streams]
        BY <1>1, <1>2, <3>3 DEF SocketStates
      <4> QED BY <1>2, <3>1, <4>1
    <3> QED BY <2>1, <3>2, <3>3
  <2> DEFINE w == [r EXCEPT !.headers = n, !.streams = k]
  <2>3. /\ w \in SocketStates
        /\ w.at = r.at /\ w.kind = r.kind /\ w.peer = r.peer /\ w.flag = r.flag
        /\ w.swapped = r.swapped /\ w.headers = n /\ w.tunnel = r.tunnel
    BY <1>2 DEF SocketStates
  <2>4. socket' = [socket EXCEPT ![s] = w]
    BY <1>1, <1>2, <2>2
  <2> HIDE DEF w
  <2>5. Proper(w) /\ SameCounts(w, r)
    BY <1>2, <2>1, <2>2, <2>3, ConnectionsNumbers DEF Proper, SameCounts, IsAlive, IsCounted, IsPending
  <2> QED BY <1>1, <2>1, <2>2, <2>3, <2>4, <2>5, HeadersInv
<1> QED BY <1>3, <1>4, <1>5

(* The drain timeout drops the tasks of a service, with their headers, and *)
(* keeps their leases for the drops that follow.                           *)
LEMMA DrainTimeoutInv ==
    ASSUME ConnectionsInv, NEW x \in Services, DrainTimeout(x)
    PROVE  ConnectionsInv'
<1>1. /\ SocketsType /\ socket \in [Sockets -> SocketStates]
      /\ \A s \in Sockets : Proper(socket[s]) /\ socket[s].headers \in Nat
      /\ headerSlots \in Int
  BY DEF ConnectionsInv, SocketsType, SocketStates, CountsType
<1>2. DOMAIN socket' = Sockets /\ socket' = [s \in Sockets |-> socket'[s]] /\ UNCHANGED <<peers, listeners, slots>>
  BY DEF DrainTimeout
<1>3. ASSUME NEW s \in Sockets
      PROVE  /\ socket'[s] \in SocketStates /\ Proper(socket'[s])
             /\ SameCounts(socket'[s], socket[s])
             /\ x = "h3" => socket'[s].headers = 0
             /\ x # "h3" => socket'[s].headers = socket[s].headers
  <2>1. PICK r : r = socket[s] /\ r \in SocketStates /\ Proper(r) /\ r.headers \in Nat
    BY <1>1
  <2>2. CASE s \in OfService(x) /\ r.at \in InTask
    <3>1. PICK tunnel \in {"none", "aborted"} : socket'[s] = Ended(s, tunnel)[s]
      BY <2>1, <2>2 DEF DrainTimeout
    <3>2. PICK w \in SocketStates :
              /\ socket'[s] = w /\ w.at \in {"closing", "orphan"} /\ w.kind = r.kind /\ w.peer = r.peer
              /\ w.flag = r.flag /\ w.swapped = r.swapped /\ w.headers = 0 /\ w.tunnel = tunnel
      BY <1>1, <2>1, <3>1, EndedIs
    <3>3. r.at \in {"handshake", "serving", "finishing", "wait_tunnel"} /\ ServiceOf(r.kind) = x
      BY <2>1, <2>2 DEF InTask, OfService
    <3>4. Proper(w) /\ SameCounts(w, r) /\ (x # "h3" => r.headers = 0)
      BY <2>1, <3>2, <3>3, ConnectionsNumbers
      DEF Proper, SameCounts, IsAlive, IsCounted, IsPending, ServiceOf
    <3> QED BY <2>1, <3>2, <3>4
  <2>3. CASE ~(s \in OfService(x) /\ r.at \in InTask)
    <3>1. socket'[s] = r
      BY <2>1, <2>3 DEF DrainTimeout
    <3>2. x = "h3" => r.headers = 0
      BY <2>1, <2>3 DEF OfService, InTask, ServiceOf, Proper
    <3> QED BY <2>1, <3>1, <3>2 DEF SameCounts
  <2> QED BY <2>2, <2>3
<1>4. SocketsType'
  <2>1. socket' \in [Sockets -> SocketStates]
    BY <1>2, <1>3
  <2> QED BY <1>3, <2>1 DEF SocketsType
<1>5. PeersCounted' /\ ListenersCounted' /\ SlotsCounted'
  BY <1>2, <1>3, CountsKept
<1>6. CountsType' /\ HeadersCounted'
  <2>1. CASE x = "h3"
    <3>1. headerSlots' = HeaderBudget
      BY <2>1 DEF DrainTimeout
    <3>2. HeaderPairs' = {}
      BY <1>3, <2>1, ConnectionsNumbers DEF HeaderPairs
    <3> QED BY <1>2, <3>1, <3>2, FS_EmptySet, ConnectionsNumbers
        DEF ConnectionsInv, CountsType, HeadersCounted
  <2>2. CASE x # "h3"
    <3>1. headerSlots' = headerSlots
      BY <2>2 DEF DrainTimeout
    <3>2. HeadersCounted'
      BY <1>3, <2>2, <3>1, HeadersKept DEF ConnectionsInv
    <3> QED BY <1>2, <3>1, <3>2 DEF ConnectionsInv, CountsType
  <2> QED BY <2>1, <2>2
<1> QED BY <1>4, <1>5, <1>6 DEF ConnectionsInv

LEMMA ConnectionsInitInv == ConnectionsInit => ConnectionsInv
<1> SUFFICES ASSUME ConnectionsInit PROVE ConnectionsInv
  OBVIOUS
<1> USE ConnectionsNumbers
<1>1. \A s \in Sockets : socket[s] = NoSocket
  BY DEF ConnectionsInit
<1>2. SocketsType
  BY NoSocketIs DEF ConnectionsInit, SocketsType
<1>3. CountsType
  BY DEF ConnectionsInit, CountsType, PeerCounts, SlotCounts
<1>4. /\ \A p : CountedAt(p) = {} /\ PendingAt(p) = {}
      /\ \A l : CountedOn(l) = {}
      /\ AllAlive = {} /\ AllPending = {} /\ HeaderPairs = {}
  <2>1. HeaderPairs = {}
    BY <1>1, NoSocketIs DEF HeaderPairs
  <2> QED BY <1>1, <2>1, NoSocketIs DEF CountedAt, PendingAt, CountedOn, AllAlive, AllPending,
          IsAlive, IsCounted, IsPending
<1>5. PeersCounted /\ ListenersCounted
  BY <1>4, FS_EmptySet, SMTT(30) DEF ConnectionsInit, PeersCounted, ListenersCounted
<1>6. SlotsCounted /\ HeadersCounted
  BY <1>4, FS_EmptySet DEF ConnectionsInit, SlotsCounted, HeadersCounted
<1> QED BY <1>2, <1>3, <1>5, <1>6 DEF ConnectionsInv

LEMMA ConnectionsStep == ConnectionsInv /\ [ConnectionsNext]_connectionsVars => ConnectionsInv'
<1> SUFFICES ASSUME ConnectionsInv, [ConnectionsNext]_connectionsVars PROVE ConnectionsInv'
  OBVIOUS
<1>1. ASSUME UNCHANGED <<socket, peers, listeners, slots, headerSlots>> PROVE ConnectionsInv'
  BY <1>1 DEF ConnectionsInv, SocketsType, CountsType, PeersCounted, ListenersCounted, SlotsCounted,
     HeadersCounted, CountedAt, PendingAt, CountedOn, AllAlive, AllPending, HeaderPairs
<1>2. CASE UNCHANGED connectionsVars
  BY <1>1, <1>2 DEF connectionsVars
<1>3. ASSUME NEW x \in Services, StopAccepting(x) PROVE ConnectionsInv'
  BY <1>1, <1>3 DEF StopAccepting
<1>4. ASSUME NEW s \in Sockets, Release(s) PROVE ConnectionsInv'
  BY <1>4, EstablishedInv, QuietSteps, DropCountsInv, DropPermitInv DEF Release
<1>5. CASE ConnectionsNext
  BY <1>3, <1>4, <1>5, AcceptInv, QuietSteps, H3Inv, DrainTimeoutInv DEF ConnectionsNext
<1> QED BY <1>2, <1>5

\* Every count of Admission (per address, per listener and the two semaphores)
\* and of the HTTP/3 header budget is what the connections account for, within
\* its limit, however Lease::established, Lease::drop, h2c upgrades and drain
\* timeouts interleave, for any number of connections, addresses and limits.
THEOREM AdmissionIsCounted == ConnectionsSpec => []AdmissionCounted
<1>1. ASSUME ConnectionsInv PROVE AdmissionCounted
  <2>1. ASSUME NEW p \in Peers
        PROVE  /\ CountedAt(p) = {s \in Counted : socket[s].peer = p}
               /\ PendingAt(p) = {s \in Pending : socket[s].peer = p}
    BY DEF CountedAt, PendingAt, Counted, Pending, Alive, IsCounted, IsPending
  <2>2. ASSUME NEW l \in AddressesServed
        PROVE  CountedOn(l) = {s \in Counted : ListenerOf(socket[s].kind) = l}
    BY DEF CountedOn, Counted, Alive, IsCounted
  <2>3. AllAlive = Alive /\ AllPending = Pending
    BY DEF AllAlive, AllPending, Counted, Pending, Alive, IsAlive, IsCounted, IsPending
  <2>4. Cardinality(AllAlive) \in Nat /\ Cardinality(AllPending) \in Nat
    BY CountOf, ConnectionsNumbers DEF AllAlive, AllPending
  <2>5. slots.connections \in Int /\ slots.pending \in Int
    BY <1>1 DEF ConnectionsInv, CountsType, SlotCounts
  <2>6. /\ slots.connections = MaxConnections - Cardinality(Alive)
        /\ slots.pending = MaxPending - Cardinality(Pending)
    BY <1>1, <2>3, <2>4, <2>5, ConnectionsNumbers DEF ConnectionsInv, SlotsCounted
  <2>7. headerSlots + Cardinality({h \in Sockets \X (1..MaxStreams) : h[2] <= socket[h[1]].headers})
          = HeaderBudget
    BY <1>1 DEF ConnectionsInv, HeadersCounted, HeaderPairs
  <2>8. \A p \in Peers :
          /\ peers[p].connections = Cardinality({s \in Counted : socket[s].peer = p})
          /\ peers[p].pending = Cardinality({s \in Pending : socket[s].peer = p})
          /\ peers[p].connections <= PerIp /\ peers[p].pending <= PendingPerIp
    BY <1>1, <2>1 DEF ConnectionsInv, PeersCounted
  <2>9. \A l \in AddressesServed :
          /\ listeners[l] = Cardinality({s \in Counted : ListenerOf(socket[s].kind) = l})
          /\ listeners[l] <= PerListener
    BY <1>1, <2>2 DEF ConnectionsInv, ListenersCounted
  <2> QED BY <2>6, <2>7, <2>8, <2>9 DEF AdmissionCounted
<1> QED BY ConnectionsInitInv, ConnectionsStep, <1>1, PTL DEF ConnectionsSpec

-----------------------------------------------------------------------------
(* FileLogs.  A record can be found where it was written, or in an archive *)
(* of that file, until the archive is pruned.  The archives are in the     *)
(* order of their records (InOrder, also against the file at the path),    *)
(* except for what an administrator holds; a crash between the link and    *)
(* the rename leaves a file with two names, and then every later archive   *)
(* is the same file (SameFile).                                            *)

LoggerPlaces == {"recv", "check", "append", "link", "publish", "compress", "unlink", "prune"}
ArchiveEntries == [plain : 0..MaxFiles, gz : SUBSET Nat]
Loggers == [at : LoggerPlaces, line : Nat, archive : Nat, fresh : 0..MaxFiles]

LogsType ==
    /\ lines \in Seq(Nat) /\ offered \in 0..MaxRecords
    /\ content \in [Files -> SUBSET Nat]
    /\ path \in 0..MaxFiles /\ sink \in 0..MaxFiles /\ elsewhere \in SUBSET Files
    /\ archives \in [DOMAIN archives -> ArchiveEntries]
    /\ logger \in Loggers

ArchivesBounded == \E b \in Nat : DOMAIN archives \subseteq 1..b

(* Records are written in the order in which they were offered.            *)
Written == UNION {content[f] : f \in Files}
RecordsInOrder ==
    /\ \A i \in 1..Len(lines) : lines[i] > 0 /\ lines[i] <= offered
    /\ \A i, j \in 1..Len(lines) : i < j => lines[i] < lines[j]
    /\ \A a \in Written : a > 0 /\ a <= offered /\ \A i \in 1..Len(lines) : a < lines[i]
    /\ logger.at # "recv" =>
         /\ logger.line > 0 /\ logger.line <= offered
         /\ \A i \in 1..Len(lines) : logger.line < lines[i]
         /\ \A a \in Written : a < logger.line
    /\ \A n \in DOMAIN archives : archives[n].gz \subseteq Written \cup {0}

SinkOk ==
    /\ sink # 0 => sink = path \/ sink \in elsewhere
    /\ logger.at # "recv" => sink # 0

Plains == {archives[n].plain : n \in DOMAIN archives} \ {0}

(* What has been compressed is not written to any more.                    *)
CompressedFiles ==
    \A n \in DOMAIN archives : archives[n].plain # 0 /\ archives[n].gz # NoGzip =>
        archives[n].plain \notin {path, sink} /\ archives[n].gz = content[archives[n].plain]
Compressed ==
    /\ CompressedFiles
    /\ logger.at \in {"compress", "unlink", "prune"} => path \notin Plains /\ sink \notin Plains
    /\ logger.at \in {"compress", "unlink"} =>
         logger.archive \in DOMAIN archives /\ archives[logger.archive].plain # 0
    /\ logger.at = "unlink" => archives[logger.archive].gz # NoGzip

HeldElsewhere == UNION {content[f] : f \in elsewhere}
AtPath == IF path = 0 THEN {} ELSE content[path]
Real(n) == Kept(n) \ {0}
Before(S, T) == \A a \in S, b \in T : a < b \/ a \in T \/ a \in HeldElsewhere
InOrder ==
    /\ \A n, m \in Numbers : n < m => Before(Real(n), Real(m))
    /\ \A n \in Numbers : Before(Real(n), AtPath)
SameFile == \A n, m \in Numbers : n < m /\ path # 0 /\ archives[n].plain = path => archives[m].plain = path

Lost == {r \in Written : r \notin AtPath /\ r \notin HeldElsewhere /\ \A n \in Numbers : r \notin Real(n)}
LostAreOld ==
    \A r \in Lost : (\A n \in Numbers : \A k \in Real(n) : r < k) /\ (\A k \in AtPath : r < k)
KeepsEnough == Lost # {} => Cardinality(Numbers) >= Keep

(* Between the link and the rename the file has two names, or has been     *)
(* moved away and what took its place is empty.                            *)
Publishing ==
    logger.at = "publish" =>
        /\ logger.archive \in Numbers /\ archives[logger.archive].gz = NoGzip
        /\ \/ archives[logger.archive].plain = path
           \/ archives[logger.archive].plain \in elsewhere /\ AtPath = {}
        /\ logger.fresh \in Files /\ content[logger.fresh] = {}
        /\ logger.fresh \notin elsewhere \cup {path, sink} \cup Plains
        /\ Lost # {} => Cardinality(Numbers \ {logger.archive}) >= Keep

LogsInv ==
    /\ LogsType /\ ArchivesBounded
    /\ RecordsInOrder /\ SinkOk /\ Compressed /\ InOrder /\ SameFile /\ LostAreOld /\ KeepsEnough /\ Publishing

LEMMA LogsNumbers ==
    /\ MaxFiles \in Nat /\ MaxRecords \in Nat /\ Keep \in Nat /\ Keep > 0 /\ Files \subseteq Nat /\ 0 \notin Files
    /\ Files \subseteq 0..MaxFiles /\ 0 \in 0..MaxFiles
BY FileLogsAssumption DEF Files

LEMMA NumbersAre ==
    ASSUME LogsInv
    PROVE  /\ Numbers \subseteq DOMAIN archives /\ Numbers \subseteq Nat /\ IsFiniteSet(Numbers)
           /\ Cardinality(Numbers) \in Nat /\ DOMAIN archives \subseteq Nat
<1>1. PICK b \in Nat : DOMAIN archives \subseteq 1..b
  BY DEF LogsInv, ArchivesBounded
<1>2. Numbers \subseteq 1..b
  BY <1>1 DEF Numbers
<1>3. IsFiniteSet(1..b)
  BY <1>1, FS_Interval
<1> QED BY <1>1, <1>2, <1>3, FS_Subset, FS_CardinalityType DEF Numbers

LEMMA SuccessorIs ==
    ASSUME LogsInv
    PROVE  Successor \in Nat /\ Successor > 0 /\ \A n \in Numbers : n < Successor
<1>1. PICK b \in Nat : DOMAIN archives \subseteq 1..b
  BY DEF LogsInv, ArchivesBounded
<1>2. Numbers \subseteq 0..b
  BY <1>1 DEF Numbers
<1>3. CASE Numbers = {}
  BY <1>3 DEF Successor
<1>4. CASE Numbers # {}
  <2>1. \E i \in Numbers : \A j \in Numbers : i >= j
    <3>1. PICK i \in Numbers : \A j \in Numbers : j <= i
      BY <1>2, <1>4, GreatestOf
    <3>2. \A j \in Numbers : i >= j
      BY <1>2, <3>1
    <3> QED BY <3>1, <3>2
  <2>2. Max(Numbers) \in Numbers /\ \A j \in Numbers : Max(Numbers) >= j
    BY <2>1 DEF Max
  <2>3. Successor = Max(Numbers) + 1
    BY <1>4 DEF Successor
  <2>4. PICK x \in Numbers : x = Max(Numbers) /\ \A j \in Numbers : x >= j
    BY <2>2, Zenon
  <2>5. x \in Nat /\ \A j \in Numbers : x >= j /\ j \in Nat
    BY <1>2, <2>4
  <2> QED BY <2>3, <2>4, <2>5
<1> QED BY <1>3, <1>4

LEMMA OldestIs ==
    ASSUME LogsInv, Numbers # {}
    PROVE  Min(Numbers) \in Numbers /\ \A j \in Numbers : Min(Numbers) <= j
<1>1. \E i \in Numbers : \A j \in Numbers : i =< j
  BY NumbersAre, LeastOf
<1> QED BY <1>1 DEF Min

(* Every record that can be found somewhere has been written.              *)
LEMMA RealIsWritten ==
    ASSUME LogsInv, NEW n \in DOMAIN archives
    PROVE  Real(n) \subseteq Written
<1>1. archives[n] \in ArchiveEntries /\ archives[n].gz \subseteq Written \cup {0}
  BY DEF LogsInv, LogsType, RecordsInOrder
<1>2. archives[n].plain # 0 => archives[n].plain \in Files
  BY <1>1, LogsNumbers DEF ArchiveEntries, Files
<1> QED BY <1>1, <1>2 DEF Real, Kept, Written

LEMMA AtPathIsWritten == ASSUME LogsInv PROVE AtPath \subseteq Written
BY LogsNumbers DEF LogsInv, LogsType, AtPath, Written, Files

LEMMA WrittenIs == ASSUME LogsInv PROVE Written \subseteq Nat /\ 0 \notin Written
<1>1. Written \subseteq Nat
  BY DEF LogsInv, LogsType, Written
<1> QED BY <1>1 DEF LogsInv, RecordsInOrder

LEMMA LogsInitInv == LogsInit => LogsInv
<1> SUFFICES ASSUME LogsInit PROVE LogsInv
  OBVIOUS
<1>1. DOMAIN archives = {} /\ archives = <<>>
  BY DEF LogsInit
<1>2. Numbers = {} /\ Written = {} /\ AtPath = {} /\ Plains = {}
  BY <1>1 DEF LogsInit, Numbers, Written, AtPath, Plains
<1>3. LogsType
  <2>1. archives \in [DOMAIN archives -> ArchiveEntries]
    BY <1>1
  <2>2. LoggerIdle \in Loggers
    BY LogsNumbers DEF LoggerIdle, Loggers, LoggerPlaces
  <2> QED BY <2>1, <2>2, LogsNumbers DEF LogsInit, LogsType
<1>4. ArchivesBounded
  BY <1>1 DEF ArchivesBounded
<1>5. logger.at = "recv" /\ lines = <<>> /\ sink = 0
  BY DEF LogsInit, LoggerIdle
<1>6. RecordsInOrder /\ SinkOk
  BY <1>1, <1>2, <1>5 DEF RecordsInOrder, SinkOk
<1>7. Compressed /\ Publishing
  BY <1>1, <1>5 DEF Compressed, CompressedFiles, Publishing
<1>8. InOrder /\ SameFile /\ LostAreOld /\ KeepsEnough
  BY <1>2 DEF InOrder, SameFile, LostAreOld, KeepsEnough, Lost
<1> QED BY <1>3, <1>4, <1>6, <1>7, <1>8 DEF LogsInv

-----------------------------------------------------------------------------
(* What a step does to the files, whatever the worker does.                *)
FilesOk == InOrder /\ SameFile /\ LostAreOld /\ KeepsEnough

LEMMA SameFiles ==
    ASSUME LogsInv, UNCHANGED <<content, path, archives, elsewhere>>
    PROVE  /\ FilesOk' /\ ArchivesBounded'
           /\ Numbers' = Numbers /\ Lost' = Lost /\ Written' = Written /\ Plains' = Plains /\ AtPath' = AtPath
<1>1. /\ Numbers' = Numbers /\ Written' = Written /\ Plains' = Plains /\ AtPath' = AtPath
      /\ HeldElsewhere' = HeldElsewhere
  BY DEF Numbers, Written, Plains, AtPath, HeldElsewhere
<1>2. \A n : Real(n)' = Real(n)
  BY DEF Real, Kept
<1>3. Lost' = Lost
  BY <1>1, <1>2 DEF Lost
<1>4. InOrder' /\ SameFile'
  BY <1>1, <1>2 DEF LogsInv, InOrder, Before, SameFile
<1>5. LostAreOld' /\ KeepsEnough' /\ ArchivesBounded'
  BY <1>1, <1>2, <1>3 DEF LogsInv, LostAreOld, KeepsEnough, ArchivesBounded
<1> QED BY <1>1, <1>3, <1>4, <1>5 DEF FilesOk

(* The path gets an empty file, or none; what was there is found elsewhere.*)
LEMMA NewPath ==
    ASSUME LogsInv, UNCHANGED <<content, archives>>,
           elsewhere \subseteq elsewhere', path' = 0 \/ (content[path'] = {} /\ path' \notin Plains),
           \A a \in AtPath : a \in HeldElsewhere' \/ \E n \in Numbers : a \in Real(n)
    PROVE  /\ FilesOk' /\ ArchivesBounded'
           /\ Numbers' = Numbers /\ Lost' \subseteq Lost /\ Written' = Written /\ Plains' = Plains /\ AtPath' = {}
<1>1. /\ Numbers' = Numbers /\ Written' = Written /\ Plains' = Plains /\ AtPath' = {}
      /\ HeldElsewhere \subseteq HeldElsewhere'
  BY DEF Numbers, Written, Plains, AtPath, HeldElsewhere
<1>2. \A n : Real(n)' = Real(n)
  BY DEF Real, Kept
<1>3. Lost' \subseteq Lost
  BY <1>1, <1>2 DEF Lost
<1>4. InOrder'
  BY <1>1, <1>2 DEF LogsInv, InOrder, Before
<1>5. SameFile'
  <2>1. ASSUME NEW n \in Numbers PROVE path' = 0 \/ archives[n].plain # path'
    BY NumbersAre DEF Plains
  <2> QED BY <1>1, <2>1 DEF SameFile
<1>6. LostAreOld' /\ KeepsEnough' /\ ArchivesBounded'
  BY <1>1, <1>2, <1>3 DEF LogsInv, LostAreOld, KeepsEnough, ArchivesBounded
<1> QED BY <1>1, <1>3, <1>4, <1>5, <1>6 DEF FilesOk

(* Archives go, or change their form; a record that is lost with one is    *)
(* older than what the others hold.                                        *)
LEMMA FewerArchives ==
    ASSUME LogsInv, UNCHANGED <<content, path, elsewhere>>,
           Numbers' \subseteq Numbers, \A n \in Numbers' : Real(n)' = Real(n),
           \A n \in Numbers' : archives'[n].plain = archives[n].plain \/ (archives'[n].plain = 0 /\ path \notin Plains),
           \A n \in Numbers \ Numbers' : \A a \in Real(n) : \/ a \in AtPath \/ a \in HeldElsewhere
                                                            \/ \A m \in Numbers' : n < m
    PROVE  /\ InOrder' /\ SameFile' /\ LostAreOld'
           /\ Written' = Written /\ AtPath' = AtPath
           /\ \A r \in Lost' \ Lost : \E n \in Numbers \ Numbers' : r \in Real(n)
<1>1. Written' = Written /\ AtPath' = AtPath /\ HeldElsewhere' = HeldElsewhere
  BY DEF Written, AtPath, HeldElsewhere
<1>2. InOrder'
  BY <1>1 DEF LogsInv, InOrder, Before
<1>3. SameFile'
  <2>1. CASE path \in Plains
    BY <2>1 DEF LogsInv, SameFile
  <2>2. CASE path \notin Plains
    <3>1. ASSUME NEW n \in Numbers PROVE path = 0 \/ archives[n].plain # path
      BY <2>2, NumbersAre DEF Plains
    <3> QED BY <2>2, <3>1 DEF SameFile
  <2> QED BY <2>1, <2>2
<1>4. ASSUME NEW r \in Lost', r \notin Lost
      PROVE  \E n \in Numbers \ Numbers' : r \in Real(n) /\ (\A m \in Numbers' : n < m)
  <2>1. PICK n \in Numbers : r \in Real(n)
    BY <1>1, <1>4 DEF Lost
  <2>2. n \notin Numbers'
    BY <1>4, <2>1 DEF Lost
  <2> QED BY <1>1, <1>4, <2>1, <2>2 DEF Lost
<1>5. LostAreOld'
  <2> SUFFICES ASSUME NEW r \in Lost'
               PROVE  (\A n \in Numbers' : \A k \in Real(n)' : r < k) /\ (\A k \in AtPath' : r < k)
    BY DEF LostAreOld
  <2>1. CASE r \in Lost
    BY <1>1, <2>1 DEF LogsInv, LostAreOld
  <2>2. CASE r \notin Lost
    <3>1. PICK n \in Numbers \ Numbers' : r \in Real(n) /\ (\A m \in Numbers' : n < m)
      BY <1>4, <2>2
    <3>2. r \notin AtPath /\ r \notin HeldElsewhere /\ \A m \in Numbers' : r \notin Real(m)
      BY <1>1 DEF Lost
    <3> QED BY <1>1, <3>1, <3>2 DEF LogsInv, InOrder, Before
  <2> QED BY <2>1, <2>2
<1> QED BY <1>1, <1>2, <1>3, <1>4, <1>5

-----------------------------------------------------------------------------
(* The steps of the worker that leave the archives as they are.            *)
LEMMA UnusedIs ==
    ASSUME LogsInv, NEW f, UnusedFile(f)
    PROVE  /\ f \in Files /\ f # 0 /\ content[f] = {} /\ f \notin Plains /\ f \notin elsewhere
           /\ f \notin {path, sink, logger.fresh} /\ f \in 0..MaxFiles
BY LogsNumbers DEF UnusedFile, InUse, Plains

LEMMA OrderKept ==
    ASSUME LogsInv, Written' = Written, \A n \in DOMAIN archives' : archives'[n].gz \subseteq Written \cup {0},
           lines' \in {lines, <<>>}, offered' = offered,
           logger'.at = "recv" \/ (logger.at # "recv" /\ logger'.line = logger.line)
    PROVE  RecordsInOrder'
<1>1. CASE lines' = lines
  BY <1>1 DEF LogsInv, RecordsInOrder
<1>2. CASE lines' = <<>>
  BY <1>2 DEF LogsInv, RecordsInOrder
<1> QED BY <1>1, <1>2

(* FileSink::open.                                                         *)
Opened == UNCHANGED <<path, sink>> \/ \E f \in Files : OpenFile(f) /\ path' = f /\ sink' = f

LEMMA OpenedIs ==
    ASSUME LogsInv, Opened, UNCHANGED <<content, archives, elsewhere>>
    PROVE  /\ FilesOk' /\ ArchivesBounded' /\ CompressedFiles' /\ Written' = Written
           /\ path' \in 0..MaxFiles /\ sink' \in 0..MaxFiles /\ (sink' # 0 => sink' = path' \/ sink' \in elsewhere)
<1>0. path \in 0..MaxFiles /\ sink \in 0..MaxFiles /\ SinkOk /\ CompressedFiles
  BY DEF LogsInv, LogsType, Compressed
<1>1. CASE path' = path /\ sink' \in {sink, path}
  <2>1. CompressedFiles'
    BY <1>0, <1>1 DEF CompressedFiles
  <2> QED BY <1>0, <1>1, <2>1, SameFiles DEF SinkOk
<1>2. CASE path = 0 /\ \E f \in Files : UnusedFile(f) /\ path' = f /\ sink' = f
  <2>1. PICK f \in Files : UnusedFile(f) /\ path' = f /\ sink' = f
    BY <1>2
  <2>2. AtPath = {}
    BY <1>2 DEF AtPath
  <2>3. f # 0 /\ content[f] = {} /\ f \notin Plains /\ f \in 0..MaxFiles
    BY <2>1, UnusedIs
  <2>4. FilesOk' /\ ArchivesBounded' /\ Written' = Written
    BY <2>1, <2>2, <2>3, NewPath
  <2>5. CompressedFiles'
    BY <1>0, <2>1, <2>3 DEF CompressedFiles, Plains
  <2> QED BY <2>1, <2>3, <2>4, <2>5
<1> QED BY <1>1, <1>2 DEF Opened, OpenFile

LEMMA TailIs ==
    ASSUME NEW s \in Seq(Nat), s # <<>>
    PROVE  /\ Tail(s) \in Seq(Nat) /\ Len(s) \in Nat /\ Len(s) > 0 /\ Len(Tail(s)) = Len(s) - 1
           /\ Head(s) = s[1] /\ s[1] \in Nat /\ \A i \in 1..(Len(s) - 1) : Tail(s)[i] = s[i + 1] /\ s[i + 1] \in Nat
OBVIOUS

LEMMA TakenIs ==
    ASSUME LogsInv, lines # <<>>, lines' = Tail(lines), offered' = offered, Written' = Written, UNCHANGED archives,
           logger'.at = "recv" \/ logger'.line = Head(lines)
    PROVE  lines' \in Seq(Nat) /\ RecordsInOrder' /\ Head(lines) \in Nat
<1>1. lines \in Seq(Nat) /\ RecordsInOrder
  BY DEF LogsInv, LogsType
<1>2. /\ lines' \in Seq(Nat) /\ Len(lines) \in Nat /\ Len(lines) > 0 /\ Len(lines') = Len(lines) - 1
      /\ Head(lines) = lines[1] /\ lines[1] \in Nat /\ \A i \in 1..(Len(lines) - 1) : lines'[i] = lines[i + 1] /\ lines[i + 1] \in Nat
  BY <1>1, TailIs
<1>3. \A i \in 1..Len(lines') : i + 1 \in 1..Len(lines) /\ lines'[i] = lines[i + 1] /\ lines[1] < lines[i + 1]
  BY <1>1, <1>2 DEF RecordsInOrder
<1>4. /\ \A i \in 1..Len(lines') : lines'[i] > 0 /\ lines'[i] <= offered
      /\ \A i, j \in 1..Len(lines') : i < j => lines'[i] < lines'[j]
  BY <1>1, <1>2, <1>3 DEF RecordsInOrder
<1>5. \A a \in Written : a > 0 /\ a <= offered /\ a < lines[1] /\ \A i \in 1..Len(lines') : a < lines'[i]
  BY <1>1, <1>2, <1>3 DEF RecordsInOrder
<1>6. lines[1] > 0 /\ lines[1] <= offered
  BY <1>1, <1>2 DEF RecordsInOrder
<1>7. logger'.at # "recv" =>
         /\ logger'.line > 0 /\ logger'.line <= offered'
         /\ \A i \in 1..Len(lines') : logger'.line < lines'[i]
         /\ \A a \in Written' : a < logger'.line
  BY <1>2, <1>3, <1>5, <1>6
<1>8. \A n \in DOMAIN archives' : archives'[n].gz \subseteq Written' \cup {0}
  BY <1>1 DEF RecordsInOrder
<1>9. RecordsInOrder'
  BY <1>4, <1>5, <1>7, <1>8 DEF RecordsInOrder
<1> QED BY <1>2, <1>9

LEMMA ReceiveKeeps == ASSUME LogsInv, Receive \/ OpenFails PROVE LogsInv'
<1>0. lines # <<>> /\ lines' = Tail(lines) /\ UNCHANGED <<offered, content, archives, elsewhere, reopen, moves>> /\ Opened
      /\ logger.at = "recv"
  BY DEF Receive, OpenFails, Opened
<1>1. /\ FilesOk' /\ ArchivesBounded' /\ CompressedFiles' /\ Written' = Written
      /\ path' \in 0..MaxFiles /\ sink' \in 0..MaxFiles /\ (sink' # 0 => sink' = path' \/ sink' \in elsewhere)
  BY <1>0, OpenedIs
<1>2. logger'.at = "recv" \/ (logger'.at = "check" /\ logger'.line = Head(lines) /\ sink' # 0)
  BY <1>0, LogsNumbers DEF Receive, OpenFails, LogsInv, LogsType, Loggers
<1>3. lines' \in Seq(Nat) /\ RecordsInOrder' /\ Head(lines) \in Nat
  BY <1>0, <1>1, <1>2, TakenIs
<1>4. logger' \in Loggers
  BY <1>0, <1>3 DEF Receive, OpenFails, LogsInv, LogsType, Loggers, LoggerPlaces
<1>5. LogsType'
  BY <1>0, <1>1, <1>3, <1>4 DEF LogsInv, LogsType
<1>6. SinkOk' /\ Compressed' /\ Publishing'
  BY <1>0, <1>1, <1>2 DEF SinkOk, Compressed, Publishing
<1> QED BY <1>1, <1>3, <1>5, <1>6 DEF LogsInv, FilesOk

LEMMA ReopenKeeps == ASSUME LogsInv, Reopen PROVE LogsInv'
<1>0. UNCHANGED <<lines, offered, content, archives, elsewhere, logger>> /\ Opened /\ logger.at = "recv"
  BY DEF Reopen, Opened
<1>1. /\ FilesOk' /\ ArchivesBounded' /\ CompressedFiles' /\ Written' = Written
      /\ path' \in 0..MaxFiles /\ sink' \in 0..MaxFiles /\ (sink' # 0 => sink' = path' \/ sink' \in elsewhere)
  BY <1>0, OpenedIs
<1>2. \A n \in DOMAIN archives' : archives'[n].gz \subseteq Written \cup {0}
  BY <1>0 DEF LogsInv, RecordsInOrder
<1>3. RecordsInOrder'
  BY <1>0, <1>1, <1>2, OrderKept
<1>4. LogsType'
  BY <1>0, <1>1 DEF LogsInv, LogsType
<1>5. SinkOk' /\ Compressed' /\ Publishing'
  BY <1>0, <1>1 DEF SinkOk, Compressed, Publishing
<1> QED BY <1>1, <1>3, <1>4, <1>5 DEF LogsInv, FilesOk

(* Steps that touch no file.                                               *)
LEMMA QuietKeeps ==
    ASSUME LogsInv, UNCHANGED <<content, path, archives, elsewhere>>,
           lines' \in Seq(Nat), offered' \in 0..MaxRecords, logger' \in Loggers, RecordsInOrder',
           sink' \in {sink, path, 0}, logger'.at # "recv" => sink' # 0,
           \/ logger' = logger /\ sink' = sink
           \/ logger'.at \notin {"publish", "compress", "unlink", "prune"}
    PROVE  LogsInv'
<1>1. /\ FilesOk' /\ ArchivesBounded' /\ Numbers' = Numbers /\ Lost' = Lost /\ Plains' = Plains /\ AtPath' = AtPath
  BY SameFiles
<1>2. LogsType'
  BY LogsNumbers DEF LogsInv, LogsType
<1>3. SinkOk'
  BY DEF LogsInv, SinkOk
<1>4. CompressedFiles'
  BY DEF LogsInv, Compressed, CompressedFiles
<1>5. Compressed' /\ Publishing'
  <2>1. CASE logger' = logger /\ sink' = sink
    BY <1>1, <1>4, <2>1 DEF LogsInv, Compressed, Publishing
  <2>2. CASE logger'.at \notin {"publish", "compress", "unlink", "prune"}
    BY <1>4, <2>2 DEF Compressed, Publishing
  <2> QED BY <2>1, <2>2
<1> QED BY <1>1, <1>2, <1>3, <1>5 DEF LogsInv, FilesOk

LEMMA OfferKeeps == ASSUME LogsInv, Offer PROVE LogsInv'
<1>0. UNCHANGED <<content, path, archives, elsewhere, sink, logger>> /\ offered' = offered + 1 /\ offered < MaxRecords
      /\ lines' \in {lines, Append(lines, offered')}
  BY DEF Offer
<1>1. lines \in Seq(Nat) /\ offered \in Nat /\ offered <= MaxRecords /\ RecordsInOrder /\ Written' = Written
      /\ Written \subseteq Nat /\ logger \in Loggers /\ SinkOk
  BY <1>0, LogsNumbers, WrittenIs DEF LogsInv, LogsType, Written
<1>2. offered' \in 0..MaxRecords /\ offered' \in Nat
  BY <1>0, <1>1, LogsNumbers
<1>3. lines' \in Seq(Nat)
  BY <1>0, <1>1, <1>2
<1>4. ASSUME NEW i \in 1..Len(lines')
      PROVE  /\ lines'[i] \in Nat /\ Len(lines) \in Nat
             /\ (i \in 1..Len(lines) /\ lines'[i] = lines[i]) \/ (i = Len(lines) + 1 /\ lines'[i] = offered')
  <2>1. CASE lines' = lines
    BY <1>1, <1>4, <2>1
  <2>2. CASE lines' = Append(lines, offered')
    <3>1. /\ Len(lines') = Len(lines) + 1 /\ Len(lines) \in Nat /\ lines'[Len(lines) + 1] = offered'
          /\ \A k \in 1..Len(lines) : lines'[k] = lines[k] /\ lines[k] \in Nat
      BY <1>1, <1>2, <2>2
    <3>2. i \in 1..Len(lines) \/ i = Len(lines) + 1
      BY <1>4, <3>1
    <3> QED BY <1>2, <3>1, <3>2
  <2> QED BY <1>0, <2>1, <2>2
<1>5. \A i \in 1..Len(lines') : lines'[i] > 0 /\ lines'[i] <= offered'
  BY <1>0, <1>1, <1>4 DEF RecordsInOrder
<1>6. ASSUME NEW i \in 1..Len(lines'), NEW j \in 1..Len(lines'), i < j PROVE lines'[i] < lines'[j]
  <2>1. i \in 1..Len(lines) /\ lines'[i] = lines[i]
    BY <1>3, <1>4, <1>6
  <2>2. CASE j \in 1..Len(lines) /\ lines'[j] = lines[j]
    BY <1>1, <1>6, <2>1, <2>2 DEF RecordsInOrder
  <2>3. CASE lines'[j] = offered'
    <3>1. lines[i] \in Nat /\ lines[i] <= offered
      BY <1>1, <1>4, <2>1 DEF RecordsInOrder
    <3>2. offered < offered'
      BY <1>0, <1>1
    <3> QED BY <1>1, <1>2, <2>1, <2>3, <3>1, <3>2
  <2> QED BY <1>4, <2>2, <2>3
<1>7. \A a \in Written : a > 0 /\ a <= offered' /\ \A i \in 1..Len(lines') : a < lines'[i]
  <2> SUFFICES ASSUME NEW a \in Written
               PROVE  a > 0 /\ a <= offered' /\ \A i \in 1..Len(lines') : a < lines'[i]
    OBVIOUS
  <2>1. a \in Nat /\ a > 0 /\ a <= offered /\ \A i \in 1..Len(lines) : a < lines[i]
    BY <1>1 DEF RecordsInOrder
  <2>2. a < offered'
    BY <1>0, <1>1, <2>1
  <2> QED BY <1>2, <1>4, <2>1, <2>2
<1>8. logger.at # "recv" => /\ logger.line > 0 /\ logger.line <= offered'
                            /\ \A i \in 1..Len(lines') : logger.line < lines'[i]
                            /\ \A a \in Written : a < logger.line
  BY <1>0, <1>1, <1>4 DEF RecordsInOrder, Loggers
<1>9. RecordsInOrder'
  BY <1>0, <1>1, <1>5, <1>6, <1>7, <1>8 DEF RecordsInOrder
<1> QED BY <1>0, <1>1, <1>2, <1>3, <1>9, QuietKeeps DEF SinkOk

LEMMA QuietStepsKeep == ASSUME LogsInv, CheckRotation \/ PruneDone \/ AskReopen \/ CrashLogs PROVE LogsInv'
<1>0. /\ UNCHANGED <<content, path, archives, elsewhere, offered>> /\ lines' \in {lines, <<>>}
      /\ LogsType /\ SinkOk /\ logger \in Loggers
  BY DEF CheckRotation, PruneDone, AskReopen, CrashLogs, LogsInv, LogsType
<1>1. Written' = Written /\ \A n \in DOMAIN archives' : archives'[n].gz \subseteq Written \cup {0}
  BY <1>0 DEF LogsInv, RecordsInOrder, Written
<1>2. lines' \in Seq(Nat) /\ offered' \in 0..MaxRecords
  <2>1. lines \in Seq(Nat) /\ <<>> \in Seq(Nat) /\ offered \in 0..MaxRecords
    BY <1>0 DEF LogsType
  <2> QED BY <1>0, <2>1
<1>3. CASE CheckRotation
  <2>1. PICK at \in {"append", "link"} : logger' = [logger EXCEPT !.at = at]
    BY <1>3 DEF CheckRotation
  <2>2. logger' \in Loggers /\ logger'.at = at /\ logger'.line = logger.line
    BY <1>0, <2>1 DEF Loggers, LoggerPlaces
  <2>3. sink' \in {sink, path} /\ sink' # 0 /\ logger.at = "check"
    BY <1>0, <1>3 DEF CheckRotation, SinkOk
  <2>4. RecordsInOrder'
    BY <1>0, <1>1, <2>2, <2>3, OrderKept
  <2> QED BY <1>0, <1>2, <2>2, <2>3, <2>4, QuietKeeps
<1>4. CASE PruneDone
  <2>1. logger' \in Loggers /\ logger'.at = "append" /\ logger'.line = logger.line /\ logger.at = "prune"
    BY <1>0, <1>4 DEF PruneDone, Loggers, LoggerPlaces
  <2>2. sink' = sink /\ sink # 0
    BY <1>0, <1>4 DEF PruneDone, SinkOk
  <2>3. RecordsInOrder'
    BY <1>0, <1>1, <2>1, OrderKept
  <2> QED BY <1>0, <1>2, <2>1, <2>2, <2>3, QuietKeeps
<1>5. CASE AskReopen
  <2>1. logger' = logger /\ sink' = sink
    BY <1>5 DEF AskReopen
  <2>2. RecordsInOrder'
    BY <1>0, <1>1, <2>1, OrderKept
  <2> QED BY <1>0, <1>2, <2>1, <2>2, QuietKeeps DEF SinkOk
<1>6. CASE CrashLogs
  <2>1. logger' \in Loggers /\ logger'.at = "recv" /\ sink' = 0
    BY <1>6, LogsNumbers DEF CrashLogs, LoggerIdle, Loggers, LoggerPlaces
  <2>2. RecordsInOrder'
    BY <1>0, <1>1, <2>1, OrderKept
  <2> QED BY <1>0, <1>2, <2>1, <2>2, QuietKeeps
<1> QED BY <1>3, <1>4, <1>5, <1>6

LEMMA MoveAwayKeeps == ASSUME LogsInv, MoveAway PROVE LogsInv'
<1>0. /\ UNCHANGED <<lines, offered, content, archives, sink, logger>> /\ elsewhere' = elsewhere \cup {path} /\ path # 0
      /\ (path' = 0 \/ UnusedFile(path'))
  BY DEF MoveAway
<1>1. LogsType /\ path \in Files /\ SinkOk /\ Compressed /\ Publishing
  BY <1>0, LogsNumbers DEF LogsInv, LogsType, Files
<1>2. path' = 0 \/ (content[path'] = {} /\ path' \notin Plains /\ path' # logger.fresh /\ path' \in 0..MaxFiles)
  BY <1>0, UnusedIs
<1>3. AtPath \subseteq HeldElsewhere'
  BY <1>0 DEF AtPath, HeldElsewhere
<1>4. /\ FilesOk' /\ ArchivesBounded'
      /\ Numbers' = Numbers /\ Lost' \subseteq Lost /\ Written' = Written /\ Plains' = Plains /\ AtPath' = {}
  BY <1>0, <1>2, <1>3, NewPath
<1>5. LogsType'
  BY <1>0, <1>1, <1>2, LogsNumbers DEF LogsType
<1>6. \A n \in DOMAIN archives' : archives'[n].gz \subseteq Written \cup {0}
  BY <1>0 DEF LogsInv, RecordsInOrder
<1>7. RecordsInOrder'
  BY <1>0, <1>4, <1>6, OrderKept
<1>8. SinkOk'
  BY <1>0, <1>1 DEF SinkOk
<1>9. CompressedFiles'
  BY <1>0, <1>1, <1>2 DEF Compressed, CompressedFiles, Plains
<1>10. Compressed'
  <2>1. 0 \notin Plains
    BY DEF Plains
  <2> QED BY <1>0, <1>1, <1>2, <1>4, <1>9, <2>1 DEF Compressed
<1>11. Publishing'
  BY <1>0, <1>1, <1>2, <1>4, LogsNumbers DEF Publishing
<1> QED BY <1>4, <1>5, <1>7, <1>8, <1>10, <1>11 DEF LogsInv, FilesOk

-----------------------------------------------------------------------------
(* The steps that change one archive.                                      *)
Rewritten(n, e) ==
    /\ archives' \in [DOMAIN archives \cup {n} -> ArchiveEntries]
    /\ archives'[n] = e /\ \A m \in DOMAIN archives \ {n} : archives'[m] = archives[m]
Counts(e) == e.plain # 0 \/ e.gz # NoGzip
RealOf(e) == (e.gz \cup (IF e.plain = 0 THEN {} ELSE content[e.plain])) \ {0}

LEMMA PutIs ==
    ASSUME LogsInv, NEW n \in Nat, n > 0, NEW e \in ArchiveEntries, archives' = PutArchive(n, e)
    PROVE  Rewritten(n, e)
BY DEF LogsInv, LogsType, PutArchive, Rewritten

LEMMA ExceptIs ==
    ASSUME LogsInv, NEW n \in DOMAIN archives, NEW e \in ArchiveEntries, archives' = [archives EXCEPT ![n] = e]
    PROVE  Rewritten(n, e)
BY DEF LogsInv, LogsType, Rewritten

LEMMA RewrittenIs ==
    ASSUME LogsInv, NEW n \in Nat, n > 0, NEW e \in ArchiveEntries, Rewritten(n, e), UNCHANGED content
    PROVE  /\ DOMAIN archives' = DOMAIN archives \cup {n} /\ archives' \in [DOMAIN archives' -> ArchiveEntries]
           /\ ArchivesBounded'
           /\ Numbers' = IF Counts(e) THEN Numbers \cup {n} ELSE Numbers \ {n}
           /\ Real(n)' = RealOf(e) /\ \A m \in Numbers \ {n} : Real(m)' = Real(m)
           /\ Plains' \subseteq Plains \cup {e.plain}
<1>1. DOMAIN archives' = DOMAIN archives \cup {n} /\ archives' \in [DOMAIN archives' -> ArchiveEntries]
  BY DEF Rewritten
<1>2. ArchivesBounded'
  <2>1. PICK b \in Nat : DOMAIN archives \subseteq 1..b
    BY DEF LogsInv, ArchivesBounded
  <2>2. DOMAIN archives' \subseteq 1..(b + n)
    BY <1>1, <2>1
  <2> QED BY <2>1, <2>2 DEF ArchivesBounded
<1>3. \A m \in DOMAIN archives \ {n} : archives'[m] = archives[m]
  BY DEF Rewritten
<1>4. archives'[n] = e
  BY DEF Rewritten
<1>5. Numbers' = IF Counts(e) THEN Numbers \cup {n} ELSE Numbers \ {n}
  BY <1>1, <1>3, <1>4 DEF Numbers, Counts
<1>6. Real(n)' = RealOf(e)
  BY <1>4 DEF Real, Kept, RealOf
<1>7. \A m \in Numbers \ {n} : Real(m)' = Real(m)
  <2>1. Numbers \subseteq DOMAIN archives
    BY NumbersAre
  <2> QED BY <1>3, <2>1 DEF Real, Kept
<1>8. Plains' \subseteq Plains \cup {e.plain}
  BY <1>1, <1>3, <1>4 DEF Plains
<1> QED BY <1>1, <1>2, <1>5, <1>6, <1>7, <1>8

LEMMA LinkKeeps == ASSUME LogsInv, Link PROVE LogsInv'
<1>0. /\ UNCHANGED <<lines, offered, content, path, elsewhere, sink>> /\ logger.at = "link"
      /\ LogsType /\ SinkOk /\ logger \in Loggers /\ Written' = Written /\ RecordsInOrder /\ Compressed
  BY DEF Link, LogsInv, LogsType, Written
<1>1. CASE logger' = [logger EXCEPT !.at = "append"] /\ UNCHANGED archives
  <2>1. logger' \in Loggers /\ logger'.at = "append" /\ logger'.line = logger.line
    BY <1>0, <1>1 DEF Loggers, LoggerPlaces
  <2>2. RecordsInOrder'
    BY <1>0, <1>1, <2>1, OrderKept DEF RecordsInOrder
  <2> QED BY <1>0, <1>1, <2>1, <2>2, QuietKeeps DEF SinkOk, LogsType
<1>2. CASE /\ path # 0
           /\ \E f \in Files :
              /\ UnusedFile(f)
              /\ archives' = PutArchive(Successor, [plain |-> path, gz |-> NoGzip])
              /\ logger' = [logger EXCEPT !.at = "publish", !.archive = Successor, !.fresh = f]
  <2>1. PICK f \in Files :
              /\ UnusedFile(f)
              /\ archives' = PutArchive(Successor, [plain |-> path, gz |-> NoGzip])
              /\ logger' = [logger EXCEPT !.at = "publish", !.archive = Successor, !.fresh = f]
    BY <1>2
  <2>2. PICK m \in Nat : m = Successor /\ m > 0 /\ \A n \in Numbers : n < m /\ n \in Nat
    BY SuccessorIs, NumbersAre
  <2>3. PICK e \in ArchiveEntries : e = [plain |-> path, gz |-> NoGzip] /\ e.plain = path /\ e.gz = NoGzip
    <3>1. path \in 0..MaxFiles /\ NoGzip \in SUBSET Nat
      BY <1>0 DEF LogsType, NoGzip
    <3>2. PICK z \in SUBSET Nat : z = NoGzip
      BY <3>1
    <3>3. PICK e : e = [plain |-> path, gz |-> z]
      OBVIOUS
    <3>4. e \in ArchiveEntries
      BY <3>1, <3>3 DEF ArchiveEntries
    <3>5. e.plain = path /\ e.gz = z
      BY <3>3
    <3> QED BY <3>2, <3>3, <3>4, <3>5
  <2>4. Rewritten(m, e)
    BY <2>1, <2>2, <2>3, PutIs
  <2>5. path \in Files /\ AtPath = content[path] /\ AtPath \subseteq Written /\ 0 \notin AtPath /\ m \notin Numbers
    BY <1>0, <1>2, <2>2, AtPathIsWritten, WrittenIs, LogsNumbers DEF AtPath, LogsType, Files
  <2>6. RealOf(e) = AtPath /\ Counts(e)
    BY <1>2, <2>3, <2>5 DEF RealOf, Counts, NoGzip
  <2>7. /\ DOMAIN archives' = DOMAIN archives \cup {m} /\ archives' \in [DOMAIN archives' -> ArchiveEntries]
        /\ ArchivesBounded' /\ Numbers' = Numbers \cup {m} /\ Real(m)' = AtPath
        /\ \A n \in Numbers : Real(n)' = Real(n)
        /\ Plains' \subseteq Plains \cup {path}
    BY <1>0, <2>2, <2>3, <2>4, <2>5, <2>6, RewrittenIs
  <2>8. AtPath' = AtPath /\ HeldElsewhere' = HeldElsewhere
    BY <1>0 DEF AtPath, HeldElsewhere
  <2>9. InOrder'
    <3>1. ASSUME NEW n \in Numbers', NEW k \in Numbers', n < k PROVE Before(Real(n), Real(k))'
      <4>1. n \in Numbers
        BY <2>2, <2>7, <3>1
      <4>2. CASE k \in Numbers
        BY <2>7, <2>8, <3>1, <4>1, <4>2 DEF LogsInv, InOrder, Before
      <4>3. CASE k = m
        BY <2>7, <2>8, <4>1, <4>3 DEF LogsInv, InOrder, Before
      <4> QED BY <2>7, <4>2, <4>3
    <3>2. ASSUME NEW n \in Numbers' PROVE Before(Real(n), AtPath)'
      <4>1. CASE n \in Numbers
        BY <2>7, <2>8, <4>1 DEF LogsInv, InOrder, Before
      <4>2. CASE n = m
        BY <2>7, <2>8, <4>2 DEF Before
      <4> QED BY <2>7, <4>1, <4>2
    <3> QED BY <3>1, <3>2 DEF InOrder
  <2>10. SameFile'
    <3> SUFFICES ASSUME NEW n \in Numbers', NEW k \in Numbers', n < k, path # 0, archives'[n].plain = path
                 PROVE  archives'[k].plain = path
      BY <1>0 DEF SameFile
    <3>1. n \in Numbers
      BY <2>2, <2>7
    <3>2. CASE k = m
      BY <2>3, <2>4, <3>2 DEF Rewritten
    <3>3. CASE k \in Numbers
      <4>1. archives'[n] = archives[n] /\ archives'[k] = archives[k]
        BY <2>4, <2>5, <3>1, <3>3, NumbersAre DEF Rewritten
      <4> QED BY <3>1, <3>3, <4>1 DEF LogsInv, SameFile
    <3> QED BY <2>7, <3>2, <3>3
  <2>11. Lost' \subseteq Lost
    BY <1>0, <2>7, <2>8 DEF Lost
  <2>12. LostAreOld'
    BY <2>7, <2>8, <2>11 DEF LogsInv, LostAreOld
  <2>13. Lost' # {} => Cardinality(Numbers) >= Keep
    BY <2>11 DEF LogsInv, KeepsEnough
  <2>14. Cardinality(Numbers') = Cardinality(Numbers) + 1 /\ Numbers' \ {m} = Numbers
    <3>1. IsFiniteSet(Numbers)
      BY NumbersAre
    <3>2. Cardinality(Numbers \cup {m}) = Cardinality(Numbers) + 1
      BY <2>5, <3>1, FS_AddElement
    <3>3. (Numbers \cup {m}) \ {m} = Numbers
      BY <2>5
    <3> QED BY <2>7, <3>2, <3>3
  <2>15. KeepsEnough'
    BY <2>13, <2>14, NumbersAre, LogsNumbers DEF KeepsEnough
  <2>16. logger' \in Loggers /\ logger'.at = "publish" /\ logger'.archive = m /\ logger'.fresh = f /\ logger'.line = logger.line
    <3>1. f \in 0..MaxFiles
      BY <2>1, UnusedIs
    <3>2. logger' = [logger EXCEPT !.at = "publish", !.archive = m, !.fresh = f]
      BY <2>1, <2>2
    <3>3. PICK l \in Loggers : l = [logger EXCEPT !.at = "publish", !.archive = m]
      BY <1>0 DEF Loggers, LoggerPlaces
    <3>4. logger' = [l EXCEPT !.fresh = f]
      BY <3>2, <3>3
    <3> QED BY <1>0, <3>1, <3>3, <3>4 DEF Loggers
  <2>17. /\ f # 0 /\ content[f] = {} /\ f \notin Plains /\ f \notin elsewhere /\ f \notin {path, sink}
    BY <2>1, UnusedIs
  <2>18. Publishing'
    <3>1. archives'[m] = e
      BY <2>4 DEF Rewritten
    <3>2. f \notin elsewhere' \cup {path', sink'} \cup Plains'
      BY <1>0, <2>7, <2>17
    <3>3. Lost' # {} => Cardinality(Numbers' \ {m}) >= Keep
      BY <2>13, <2>14
    <3>4. archives'[m].plain = path' /\ archives'[m].gz = NoGzip /\ m \in Numbers'
      BY <1>0, <2>3, <2>7, <3>1
    <3>5. content'[f] = {} /\ f \in Files
      BY <1>0, <2>17
    <3>6. logger'.archive = m /\ logger'.fresh = f
      BY <2>16
    <3> QED BY <3>2, <3>3, <3>4, <3>5, <3>6, Zenon DEF Publishing
  <2>19. \A n \in DOMAIN archives' : archives'[n].gz \subseteq Written \cup {0}
    <3>1. \A n \in DOMAIN archives \ {m} : archives'[n] = archives[n]
      BY <2>4 DEF Rewritten
    <3>2. archives'[m].gz = NoGzip
      BY <2>3, <2>4 DEF Rewritten
    <3> QED BY <1>0, <2>7, <3>1, <3>2 DEF RecordsInOrder, NoGzip
  <2>20. RecordsInOrder'
    BY <1>0, <2>16, <2>19, OrderKept
  <2>21. CompressedFiles'
    <3>1. \A n \in DOMAIN archives \ {m} : archives'[n] = archives[n]
      BY <2>4 DEF Rewritten
    <3>2. archives'[m].gz = NoGzip
      BY <2>3, <2>4 DEF Rewritten
    <3> QED BY <1>0, <2>7, <3>1, <3>2 DEF Compressed, CompressedFiles
  <2>22. Compressed' /\ SinkOk'
    BY <1>0, <2>16, <2>21 DEF Compressed, SinkOk
  <2>23. LogsType'
    BY <1>0, <2>7, <2>16 DEF LogsType
  <2> QED BY <2>7, <2>9, <2>10, <2>12, <2>15, <2>18, <2>20, <2>22, <2>23 DEF LogsInv
<1> QED BY <1>1, <1>2 DEF Link

(* The plain file of the archive under way.                                *)
LEMMA PublishingIs ==
    ASSUME LogsInv, logger.at = "publish"
    PROVE  /\ logger.archive \in Numbers /\ logger.archive \in Nat /\ logger.archive > 0
           /\ archives[logger.archive].plain # 0
           /\ Real(logger.archive) = content[archives[logger.archive].plain]
           /\ Real(logger.archive) \subseteq AtPath \/ Real(logger.archive) \subseteq HeldElsewhere
           /\ AtPath \subseteq Real(logger.archive)
<1>1. PICK n \in Numbers : n = logger.archive /\ archives[n].gz = NoGzip
  BY DEF LogsInv, Publishing
<1>2. n \in DOMAIN archives /\ archives[n].plain # 0 /\ n > 0 /\ n \in Nat
  <2>1. PICK b \in Nat : DOMAIN archives \subseteq 1..b
    BY DEF LogsInv, ArchivesBounded
  <2> QED BY <1>1, <2>1 DEF Numbers
<1>3. archives[n] \in ArchiveEntries
  BY <1>2 DEF LogsInv, LogsType
<1>4. archives[n].plain \in Files
  BY <1>2, <1>3, LogsNumbers DEF ArchiveEntries, Files
<1>5. 0 \notin content[archives[n].plain]
  BY <1>4, WrittenIs DEF Written
<1>6. Real(n) = content[archives[n].plain]
  BY <1>1, <1>2, <1>5 DEF Real, Kept, NoGzip
<1>7. archives[n].plain = path \/ (archives[n].plain \in elsewhere /\ AtPath = {})
  BY <1>1 DEF LogsInv, Publishing
<1>8. Real(n) \subseteq AtPath \/ Real(n) \subseteq HeldElsewhere
  BY <1>2, <1>6, <1>7 DEF AtPath, HeldElsewhere
<1>9. AtPath \subseteq Real(n)
  BY <1>2, <1>6, <1>7 DEF AtPath
<1> QED BY <1>1, <1>2, <1>6, <1>8, <1>9

LEMMA PublishKeeps == ASSUME LogsInv, Publish PROVE LogsInv'
<1>0. /\ UNCHANGED <<lines, offered, content, elsewhere>> /\ logger.at = "publish" /\ Written' = Written
      /\ LogsType /\ SinkOk /\ logger \in Loggers /\ RecordsInOrder /\ Compressed /\ Publishing
  BY DEF Publish, LogsInv, LogsType, Written
<1>1. PICK n : /\ n = logger.archive /\ n \in Numbers /\ n \in Nat /\ n > 0 /\ archives[n].plain # 0
               /\ Real(n) \subseteq AtPath \/ Real(n) \subseteq HeldElsewhere
               /\ AtPath \subseteq Real(n)
  BY <1>0, PublishingIs
<1>2. CASE /\ path' = logger.fresh /\ sink' = logger.fresh
           /\ logger' = [logger EXCEPT !.at = IF Gzip THEN "compress" ELSE "prune", !.fresh = 0]
           /\ UNCHANGED archives
  <2>1. PICK f : f = logger.fresh /\ f \in Files /\ content[f] = {} /\ f \notin Plains
    BY <1>0 DEF Publishing
  <2>2. /\ FilesOk' /\ ArchivesBounded'
        /\ Numbers' = Numbers /\ Plains' = Plains
    BY <1>0, <1>1, <1>2, <2>1, NewPath
  <2>3. PICK at \in {"compress", "prune"} : logger' = [logger EXCEPT !.at = at, !.fresh = 0]
    BY <1>2
  <2>4. logger' \in Loggers /\ logger'.at = at /\ logger'.line = logger.line /\ logger'.archive = n
    BY <1>0, <1>1, <2>3, LogsNumbers DEF Loggers, LoggerPlaces
  <2>5. RecordsInOrder'
    BY <1>0, <1>2, <2>4, OrderKept DEF RecordsInOrder
  <2>6. CompressedFiles'
    BY <1>0, <1>2, <2>1 DEF Compressed, CompressedFiles, Plains
  <2>7. n \in DOMAIN archives
    BY <1>1 DEF Numbers
  <2>8. Compressed' /\ SinkOk' /\ Publishing'
    <3>1. path' = f /\ sink' = f /\ f # 0 /\ archives' = archives /\ logger'.at \in {"compress", "prune"}
      BY <1>2, <2>1, <2>4, LogsNumbers
    <3>2. path' \notin Plains' /\ sink' \notin Plains'
      BY <2>1, <2>2, <3>1
    <3>3. logger'.archive \in DOMAIN archives' /\ archives'[logger'.archive].plain # 0
      BY <1>1, <2>4, <2>7, <3>1
    <3>4. Compressed'
      BY <2>6, <3>1, <3>2, <3>3 DEF Compressed
    <3>5. SinkOk'
      BY <3>1 DEF SinkOk
    <3>6. Publishing'
      BY <3>1 DEF Publishing
    <3> QED BY <3>4, <3>5, <3>6
  <2>9. LogsType'
    BY <1>0, <1>2, <2>1, <2>4, LogsNumbers DEF LogsType
  <2> QED BY <2>2, <2>5, <2>8, <2>9 DEF LogsInv, FilesOk
<1>3. CASE /\ archives' = PutArchive(logger.archive, [plain |-> 0, gz |-> NoGzip])
           /\ logger' = [logger EXCEPT !.at = "append", !.fresh = 0]
           /\ UNCHANGED <<path, sink>>
  <2>1. PICK e \in ArchiveEntries : e = [plain |-> 0, gz |-> NoGzip] /\ e.plain = 0 /\ e.gz = NoGzip
    <3>0. NoGzip \in SUBSET Nat
      BY DEF NoGzip
    <3>1. PICK z \in SUBSET Nat : z = NoGzip
      BY <3>0
    <3>2. PICK e : e = [plain |-> 0, gz |-> z]
      OBVIOUS
    <3>3. e \in ArchiveEntries /\ e.plain = 0 /\ e.gz = z
      BY <3>2, LogsNumbers DEF ArchiveEntries
    <3> QED BY <3>1, <3>2, <3>3
  <2>2. Rewritten(n, e) /\ ~Counts(e)
    BY <1>1, <1>3, <2>1, PutIs DEF Counts
  <2>3. /\ DOMAIN archives' = DOMAIN archives \cup {n} /\ archives' \in [DOMAIN archives' -> ArchiveEntries]
        /\ ArchivesBounded' /\ Numbers' = Numbers \ {n}
        /\ \A m \in Numbers \ {n} : Real(m)' = Real(m)
        /\ Plains' \subseteq Plains \cup {0}
    BY <1>0, <1>1, <2>1, <2>2, RewrittenIs
  <2>4. \A m \in Numbers' : archives'[m].plain = archives[m].plain
    BY <2>2, <2>3, NumbersAre DEF Rewritten
  <2>5. /\ InOrder' /\ SameFile' /\ LostAreOld' /\ AtPath' = AtPath
        /\ \A r \in Lost' \ Lost : r \in Real(n)
    <3>1. Numbers \ Numbers' \subseteq {n}
      BY <2>3
    <3> QED BY <1>0, <1>1, <1>3, <2>3, <2>4, <3>1, FewerArchives
  <2>6. Lost' \subseteq Lost
    <3>1. HeldElsewhere' = HeldElsewhere
      BY <1>0 DEF HeldElsewhere
    <3> QED BY <1>1, <2>5, <3>1 DEF Lost
  <2>7. KeepsEnough'
    BY <1>0, <1>1, <2>3, <2>6 DEF Publishing, KeepsEnough
  <2>8. logger' \in Loggers /\ logger'.at = "append" /\ logger'.line = logger.line
    BY <1>0, <1>3, LogsNumbers DEF Loggers, LoggerPlaces
  <2>9. \A m \in DOMAIN archives' : archives'[m].gz \subseteq Written \cup {0}
    BY <1>0, <2>1, <2>2, <2>3 DEF RecordsInOrder, Rewritten, NoGzip
  <2>10. RecordsInOrder'
    BY <1>0, <2>8, <2>9, OrderKept
  <2>11. CompressedFiles'
    BY <1>0, <1>3, <2>1, <2>2, <2>3 DEF Compressed, CompressedFiles, Rewritten
  <2>12. Compressed' /\ SinkOk' /\ Publishing'
    BY <1>0, <1>3, <2>8, <2>11 DEF Compressed, SinkOk, Publishing
  <2>13. LogsType'
    BY <1>0, <1>3, <2>3, <2>8 DEF LogsType
  <2> QED BY <2>3, <2>5, <2>7, <2>10, <2>12, <2>13 DEF LogsInv
<1> QED BY <1>2, <1>3 DEF Publish

(* Compression and pruning work on files that are not written any more.    *)
LEMMA ArchiveStepKeeps ==
    ASSUME LogsInv, logger.at \in {"compress", "unlink", "prune"},
           NEW n \in Numbers, NEW e \in ArchiveEntries, Rewritten(n, e),
           e.plain \in {archives[n].plain, 0}, e.gz \subseteq Written \cup {0},
           e.plain # 0 /\ e.gz # NoGzip => e.gz = content[e.plain],
           UNCHANGED <<lines, offered, content, path, elsewhere, sink>>,
           logger' \in Loggers, logger'.at \in {"unlink", "prune"}, logger'.line = logger.line,
           logger'.at = "unlink" => logger'.archive = n /\ e.plain # 0 /\ e.gz # NoGzip,
           \/ Counts(e) /\ RealOf(e) = Real(n)
           \/ ~Counts(e) /\ (\A m \in Numbers : n <= m) /\ Cardinality(Numbers) > Keep
    PROVE  LogsInv'
<1>0. /\ LogsType /\ SinkOk /\ RecordsInOrder /\ Compressed /\ CompressedFiles /\ KeepsEnough /\ Written' = Written
      /\ path \notin Plains /\ sink \notin Plains /\ n \in Nat /\ n \in DOMAIN archives
  BY NumbersAre DEF LogsInv, Compressed, Written
<1>1. n > 0
  BY <1>0 DEF LogsInv, ArchivesBounded
<1>2. /\ DOMAIN archives' = DOMAIN archives /\ archives' \in [DOMAIN archives' -> ArchiveEntries]
      /\ ArchivesBounded'
      /\ Numbers' = IF Counts(e) THEN Numbers \cup {n} ELSE Numbers \ {n}
      /\ Real(n)' = RealOf(e) /\ \A m \in Numbers \ {n} : Real(m)' = Real(m)
      /\ Plains' \subseteq Plains
  <2>1. /\ DOMAIN archives' = DOMAIN archives \cup {n} /\ archives' \in [DOMAIN archives' -> ArchiveEntries]
        /\ ArchivesBounded'
        /\ Numbers' = IF Counts(e) THEN Numbers \cup {n} ELSE Numbers \ {n}
        /\ Real(n)' = RealOf(e) /\ \A m \in Numbers \ {n} : Real(m)' = Real(m)
        /\ Plains' \subseteq Plains \cup {e.plain}
    BY <1>0, <1>1, RewrittenIs
  <2>2. e.plain = 0 \/ e.plain \in Plains
    BY <1>0 DEF Plains
  <2>3. 0 \notin Plains'
    BY DEF Plains
  <2> QED BY <1>0, <2>1, <2>2, <2>3
<1>3. \A m \in Numbers' : archives'[m].plain = archives[m].plain \/ (archives'[m].plain = 0 /\ path \notin Plains)
  BY <1>0, <1>2, NumbersAre DEF Rewritten
<1>4. Numbers' \subseteq Numbers /\ \A m \in Numbers' : Real(m)' = Real(m)
  BY <1>2
<1>5. ASSUME NEW k \in Numbers \ Numbers', NEW m \in Numbers' PROVE k < m
  <2>1. k = n /\ m # n /\ m \in Nat /\ n <= m
    BY <1>2, <1>4, <1>5, NumbersAre
  <2> QED BY <1>0, <2>1
<1>6. /\ InOrder' /\ SameFile' /\ LostAreOld' /\ AtPath' = AtPath
      /\ \A r \in Lost' \ Lost : \E k \in Numbers \ Numbers' : r \in Real(k)
  BY <1>3, <1>4, <1>5, FewerArchives
<1>7. KeepsEnough'
  <2>1. CASE Counts(e)
    <3>1. Numbers' = Numbers
      BY <1>2, <2>1
    <3>2. Lost' \subseteq Lost
      BY <1>6, <3>1
    <3> QED BY <1>0, <3>1, <3>2 DEF KeepsEnough
  <2>2. CASE ~Counts(e)
    <3>1. Cardinality(Numbers \ {n}) = Cardinality(Numbers) - 1
      BY NumbersAre, FS_RemoveElement
    <3>2. Cardinality(Numbers) > Keep /\ Cardinality(Numbers) \in Nat /\ Numbers' = Numbers \ {n}
      BY <1>2, <2>2, NumbersAre
    <3> QED BY <3>1, <3>2, LogsNumbers DEF KeepsEnough
  <2> QED BY <2>1, <2>2
<1>8. \A m \in DOMAIN archives' : archives'[m].gz \subseteq Written \cup {0}
  BY <1>0, <1>2 DEF RecordsInOrder, Rewritten
<1>9. RecordsInOrder'
  BY <1>0, <1>8, OrderKept
<1>10. CompressedFiles'
  <2> SUFFICES ASSUME NEW m \in DOMAIN archives', archives'[m].plain # 0, archives'[m].gz # NoGzip
               PROVE  archives'[m].plain \notin {path, sink} /\ archives'[m].gz = content[archives'[m].plain]
    BY DEF CompressedFiles
  <2>1. archives'[m].plain \in Plains
    BY <1>2 DEF Plains
  <2>2. archives'[m].gz = content[archives'[m].plain]
    BY <1>0, <1>2 DEF CompressedFiles, Rewritten
  <2> QED BY <1>0, <2>1, <2>2
<1>11. Compressed'
  <2>1. logger'.at = "unlink" => logger'.archive \in DOMAIN archives' /\ archives'[logger'.archive] = e
    BY <1>0, <1>2 DEF Rewritten
  <2> QED BY <1>0, <1>2, <1>10, <2>1 DEF Compressed
<1>12. SinkOk' /\ Publishing'
  BY <1>0 DEF SinkOk, Publishing
<1>13. LogsType'
  BY <1>0, <1>2 DEF LogsType
<1> QED BY <1>2, <1>6, <1>7, <1>9, <1>11, <1>12, <1>13 DEF LogsInv

LEMMA PlainEntryIs ==
    ASSUME LogsInv, NEW n \in DOMAIN archives, archives[n].plain # 0
    PROVE  /\ archives[n] \in ArchiveEntries /\ archives[n].plain \in Files /\ n \in Numbers
           /\ content[archives[n].plain] \subseteq Written /\ 0 \notin content[archives[n].plain]
           /\ content[archives[n].plain] \in SUBSET Nat
           /\ Real(n) = content[archives[n].plain]
<1>1. archives[n] \in ArchiveEntries /\ n \in Numbers
  BY DEF LogsInv, LogsType, Numbers
<1>2. archives[n].plain \in Files
  BY <1>1, LogsNumbers DEF ArchiveEntries, Files
<1>3. content[archives[n].plain] \subseteq Written
  BY <1>2 DEF Written
<1>4. archives[n].gz = NoGzip \/ archives[n].gz = content[archives[n].plain]
  BY DEF LogsInv, Compressed, CompressedFiles
<1>5. 0 \notin content[archives[n].plain] /\ content[archives[n].plain] \in SUBSET Nat
  BY <1>3, WrittenIs
<1>6. Real(n) = content[archives[n].plain]
  BY <1>4, <1>5 DEF Real, Kept, NoGzip
<1> QED BY <1>1, <1>2, <1>3, <1>5, <1>6

LEMMA CompressKeeps == ASSUME LogsInv, Compress PROVE LogsInv'
<1>0. /\ UNCHANGED <<lines, offered, content, path, elsewhere, sink>> /\ logger.at = "compress" /\ logger \in Loggers
      /\ LogsType /\ SinkOk /\ RecordsInOrder /\ Compressed
  BY DEF Compress, LogsInv, LogsType
<1>1. PICK n \in DOMAIN archives : n = logger.archive /\ archives[n].plain # 0
  BY <1>0 DEF Compressed
<1>2. PICK p : p = archives[n].plain /\ archives[n] \in ArchiveEntries /\ p \in Files /\ n \in Numbers /\ p # 0
               /\ content[p] \subseteq Written /\ 0 \notin content[p] /\ content[p] \in SUBSET Nat /\ Real(n) = content[p]
  BY <1>1, PlainEntryIs
<1>3. CASE /\ archives' = [archives EXCEPT ![logger.archive].gz = content[archives[logger.archive].plain]]
           /\ logger' = [logger EXCEPT !.at = "unlink"]
  <2>1. PICK c \in SUBSET Nat : c = content[p]
    BY <1>2
  <2>2. PICK e : e = [archives[n] EXCEPT !.gz = c]
    OBVIOUS
  <2>3. e \in ArchiveEntries /\ e.plain = p /\ e.gz = c
    BY <1>2, <2>2 DEF ArchiveEntries
  <2>4. archives' = [archives EXCEPT ![n] = e]
    BY <1>1, <1>2, <1>3, <2>1, <2>2
  <2>5. Rewritten(n, e)
    BY <2>3, <2>4, ExceptIs
  <2>6. Counts(e) /\ RealOf(e) = Real(n) /\ e.gz # NoGzip
    BY <1>2, <2>1, <2>3 DEF Counts, RealOf, NoGzip
  <2>7. logger' \in Loggers /\ logger'.at = "unlink" /\ logger'.line = logger.line /\ logger'.archive = n
    BY <1>0, <1>1, <1>3 DEF Loggers, LoggerPlaces
  <2> QED BY <1>0, <1>2, <2>1, <2>3, <2>5, <2>6, <2>7, ArchiveStepKeeps
<1>4. CASE logger' = [logger EXCEPT !.at = "prune"] /\ UNCHANGED archives
  <2>1. Rewritten(n, archives[n])
    BY <1>0, <1>4 DEF Rewritten, LogsType
  <2>2. Counts(archives[n]) /\ RealOf(archives[n]) = Real(n)
    BY <1>2 DEF Counts, RealOf, Real, Kept
  <2>3. logger' \in Loggers /\ logger'.at = "prune" /\ logger'.line = logger.line
    BY <1>0, <1>4 DEF Loggers, LoggerPlaces
  <2>4. archives[n].gz \subseteq Written \cup {0} /\ (archives[n].gz # NoGzip => archives[n].gz = content[p])
    BY <1>0, <1>2 DEF RecordsInOrder, Compressed, CompressedFiles
  <2> QED BY <1>0, <1>2, <2>1, <2>2, <2>3, <2>4, ArchiveStepKeeps
<1> QED BY <1>3, <1>4 DEF Compress

(* One name of an archive is removed; the .gz, if there is one, has all.   *)
LEMMA PlainGoes ==
    ASSUME LogsInv, logger.at \in {"unlink", "prune"}, NEW n \in DOMAIN archives, archives[n].plain # 0,
           archives' = [archives EXCEPT ![n].plain = 0],
           archives[n].gz # NoGzip \/ ((\A m \in Numbers : n <= m) /\ Cardinality(Numbers) > Keep),
           UNCHANGED <<lines, offered, content, path, elsewhere, sink>>,
           logger' \in Loggers, logger'.at = "prune", logger'.line = logger.line
    PROVE  LogsInv'
<1>2. PICK p : p = archives[n].plain /\ archives[n] \in ArchiveEntries /\ p \in Files /\ n \in Numbers /\ p # 0
               /\ 0 \notin content[p] /\ Real(n) = content[p]
  BY PlainEntryIs
<1>3. archives[n].gz \subseteq Written \cup {0} /\ (archives[n].gz # NoGzip => archives[n].gz = content[p])
  BY <1>2 DEF LogsInv, RecordsInOrder, Compressed, CompressedFiles
<1>4. PICK e : e = [archives[n] EXCEPT !.plain = 0]
  OBVIOUS
<1>5. e \in ArchiveEntries /\ e.plain = 0 /\ e.gz = archives[n].gz
  BY <1>2, <1>4, LogsNumbers DEF ArchiveEntries
<1>6. archives' = [archives EXCEPT ![n] = e]
  BY <1>4
<1>7. Rewritten(n, e)
  BY <1>5, <1>6, ExceptIs
<1>8. CASE archives[n].gz # NoGzip
  <2>1. Counts(e) /\ RealOf(e) = Real(n)
    BY <1>2, <1>3, <1>5, <1>8 DEF Counts, RealOf
  <2> QED BY <1>2, <1>3, <1>5, <1>7, <2>1, ArchiveStepKeeps
<1>9. CASE archives[n].gz = NoGzip
  <2>1. ~Counts(e)
    BY <1>5, <1>9 DEF Counts
  <2> QED BY <1>2, <1>3, <1>5, <1>7, <1>9, <2>1, ArchiveStepKeeps
<1> QED BY <1>8, <1>9

LEMMA UnlinkKeeps == ASSUME LogsInv, Unlink PROVE LogsInv'
<1>1. PICK n \in DOMAIN archives : n = logger.archive /\ archives[n].plain # 0 /\ archives[n].gz # NoGzip
  BY DEF Unlink, LogsInv, Compressed
<1>2. archives' = [archives EXCEPT ![n].plain = 0] /\ logger.at = "unlink"
      /\ UNCHANGED <<lines, offered, content, path, elsewhere, sink>>
  BY <1>1 DEF Unlink
<1>3. logger' \in Loggers /\ logger'.at = "prune" /\ logger'.line = logger.line
  BY DEF Unlink, LogsInv, LogsType, Loggers, LoggerPlaces
<1> QED BY <1>1, <1>2, <1>3, PlainGoes

LEMMA PruneKeeps == ASSUME LogsInv, PruneArchive PROVE LogsInv'
<1>0. /\ UNCHANGED <<lines, offered, content, path, elsewhere, sink, logger>> /\ logger.at = "prune"
      /\ Cardinality(Numbers) > Keep /\ logger \in Loggers
  BY DEF PruneArchive, LogsInv, LogsType
<1>1. Numbers # {}
  BY <1>0, LogsNumbers, FS_EmptySet
<1>2. PICK n \in Numbers : n = Min(Numbers) /\ \A m \in Numbers : n <= m
  BY <1>1, OldestIs, Zenon
<1>3. n \in DOMAIN archives /\ archives[n] \in ArchiveEntries
  BY <1>2, NumbersAre DEF LogsInv, LogsType
<1>4. archives' = IF archives[n].plain # 0 THEN [archives EXCEPT ![n].plain = 0] ELSE [archives EXCEPT ![n].gz = NoGzip]
  BY <1>2 DEF PruneArchive
<1>5. CASE archives[n].plain # 0
  BY <1>0, <1>2, <1>3, <1>4, <1>5, PlainGoes
<1>6. CASE archives[n].plain = 0
  <2>0. NoGzip \in SUBSET Nat
    BY DEF NoGzip
  <2>1. PICK z \in SUBSET Nat : z = NoGzip
    BY <2>0
  <2>2. PICK e : e = [archives[n] EXCEPT !.gz = z]
    OBVIOUS
  <2>3. e \in ArchiveEntries /\ e.plain = 0 /\ e.gz = z
    BY <1>3, <1>6, <2>2 DEF ArchiveEntries
  <2>4. archives' = [archives EXCEPT ![n] = e]
    BY <1>4, <1>6, <2>1, <2>2
  <2>5. Rewritten(n, e) /\ ~Counts(e)
    BY <1>3, <2>1, <2>3, <2>4, ExceptIs DEF Counts
  <2>6. e.gz \subseteq Written \cup {0}
    BY <2>1, <2>3 DEF NoGzip
  <2> QED BY <1>0, <1>2, <2>3, <2>5, <2>6, ArchiveStepKeeps
<1> QED BY <1>5, <1>6

-----------------------------------------------------------------------------
LEMMA AppendKeeps == ASSUME LogsInv, AppendLine PROVE LogsInv'
<1>0. /\ UNCHANGED <<lines, offered, path, archives, elsewhere>> /\ logger' = LoggerIdle /\ logger.at = "append"
      /\ LogsType /\ SinkOk /\ RecordsInOrder /\ Compressed
  BY DEF AppendLine, LogsInv
<1>1. logger' \in Loggers /\ logger'.at = "recv"
  BY <1>0, LogsNumbers DEF LoggerIdle, Loggers, LoggerPlaces
<1>2. CASE sink' = 0 /\ UNCHANGED content
  <2>1. Written' = Written
    BY <1>2 DEF Written
  <2>2. RecordsInOrder'
    BY <1>0, <1>1, <2>1, OrderKept DEF RecordsInOrder
  <2> QED BY <1>0, <1>1, <1>2, <2>2, QuietKeeps DEF LogsType
<1>3. CASE content' = [content EXCEPT ![sink] = @ \cup {logger.line}] /\ UNCHANGED sink
  <2>1. PICK x \in Nat : x = logger.line /\ x > 0 /\ x <= offered /\ (\A a \in Written : a < x)
                         /\ \A i \in 1..Len(lines) : x < lines[i]
    BY <1>0 DEF RecordsInOrder, LogsType, Loggers
  <2>2. sink \in Files /\ sink # 0 /\ (sink = path \/ sink \in elsewhere) /\ content \in [Files -> SUBSET Nat]
        /\ elsewhere \subseteq Files /\ path \in 0..MaxFiles
    BY <1>0, LogsNumbers DEF SinkOk, LogsType, Files
  <2>3. /\ content' \in [Files -> SUBSET Nat] /\ content'[sink] = content[sink] \cup {x}
        /\ \A f \in Files \ {sink} : content'[f] = content[f]
    BY <1>3, <2>1, <2>2
  <2>4. Written' = Written \cup {x}
    BY <2>2, <2>3 DEF Written
  <2>5. /\ AtPath' = IF path = sink THEN AtPath \cup {x} ELSE AtPath
    <3>1. path' = path /\ (path # 0 => path \in Files)
      BY <1>0, <2>2, LogsNumbers DEF Files
    <3> QED BY <2>2, <2>3, <3>1 DEF AtPath
  <2>6. /\ HeldElsewhere \subseteq HeldElsewhere' /\ HeldElsewhere' \subseteq HeldElsewhere \cup {x}
        /\ sink \in elsewhere => x \in HeldElsewhere'
    BY <1>0, <2>2, <2>3 DEF HeldElsewhere
  <2>7. Numbers' = Numbers /\ Plains' = Plains /\ ArchivesBounded'
    BY <1>0 DEF Numbers, Plains, LogsInv, ArchivesBounded
  <2>8. ASSUME NEW n \in Numbers
        PROVE  /\ Real(n)' = IF archives[n].plain = sink THEN Real(n) \cup {x} ELSE Real(n)
               /\ Real(n) \subseteq Written
    <3>1. n \in DOMAIN archives /\ archives[n] \in ArchiveEntries
      BY <1>0, NumbersAre DEF LogsType
    <3>2. archives[n].plain # 0 => archives[n].plain \in Files
      BY <3>1, LogsNumbers DEF ArchiveEntries, Files
    <3> QED BY <1>0, <2>1, <2>2, <2>3, <3>1, <3>2, RealIsWritten DEF Real, Kept
  <2>9. AtPath \subseteq Written
    BY AtPathIsWritten
  <2>10. InOrder'
    <3>1. ASSUME NEW n \in Numbers, NEW m \in Numbers, n < m PROVE Before(Real(n), Real(m))'
      <4> SUFFICES ASSUME NEW a \in Real(n)', NEW b \in Real(m)'
                   PROVE  a < b \/ a \in Real(m)' \/ a \in HeldElsewhere'
        BY DEF Before
      <4>1. CASE a \in Real(n) /\ b \in Real(m)
        BY <2>6, <2>8, <3>1, <4>1 DEF LogsInv, InOrder, Before
      <4>2. CASE a \in Real(n) /\ b = x
        BY <2>1, <2>8, <4>2
      <4>3. CASE a = x /\ archives[n].plain = sink
        <5>1. CASE sink \in elsewhere
          BY <2>6, <4>3, <5>1
        <5>2. CASE sink = path
          <6>1. archives[m].plain = sink
            BY <2>2, <3>1, <4>3, <5>2 DEF LogsInv, SameFile
          <6> QED BY <2>8, <4>3, <6>1
        <5> QED BY <2>2, <5>1, <5>2
      <4> QED BY <2>8, <4>1, <4>2, <4>3
    <3>2. ASSUME NEW n \in Numbers PROVE Before(Real(n), AtPath)'
      <4> SUFFICES ASSUME NEW a \in Real(n)', NEW b \in AtPath'
                   PROVE  a < b \/ a \in AtPath' \/ a \in HeldElsewhere'
        BY DEF Before
      <4>1. CASE a \in Real(n) /\ b \in AtPath
        BY <2>5, <2>6, <4>1 DEF LogsInv, InOrder, Before
      <4>2. CASE a \in Real(n) /\ b = x
        BY <2>1, <2>8, <4>2
      <4>3. CASE a = x
        BY <2>2, <2>5, <2>6, <4>3
      <4> QED BY <2>5, <2>8, <4>1, <4>2, <4>3
    <3> QED BY <2>7, <3>1, <3>2 DEF InOrder
  <2>11. SameFile'
    BY <1>0, <2>7 DEF LogsInv, SameFile
  <2>12. Lost' \subseteq Lost
    BY <2>2, <2>4, <2>5, <2>6, <2>7, <2>8 DEF Lost
  <2>13. LostAreOld'
    <3> SUFFICES ASSUME NEW r \in Lost'
                 PROVE  (\A n \in Numbers' : \A k \in Real(n)' : r < k) /\ (\A k \in AtPath' : r < k)
      BY DEF LostAreOld
    <3>1. r \in Lost /\ r < x
      BY <2>1, <2>12 DEF Lost
    <3> QED BY <2>5, <2>7, <2>8, <3>1 DEF LogsInv, LostAreOld
  <2>14. KeepsEnough'
    BY <2>7, <2>12 DEF LogsInv, KeepsEnough
  <2>15. RecordsInOrder'
    BY <1>0, <1>1, <2>1, <2>4 DEF RecordsInOrder
  <2>16. CompressedFiles'
    <3> SUFFICES ASSUME NEW n \in DOMAIN archives, archives[n].plain # 0, archives[n].gz # NoGzip
                 PROVE  archives[n].plain \notin {path, sink} /\ archives[n].gz = content'[archives[n].plain]
      BY <1>0, <1>3 DEF CompressedFiles
    <3>1. archives[n].plain \notin {path, sink} /\ archives[n].gz = content[archives[n].plain]
      BY <1>0 DEF Compressed, CompressedFiles
    <3>2. archives[n].plain \in Files
      BY PlainEntryIs
    <3> QED BY <2>3, <3>1, <3>2
  <2>17. Compressed' /\ SinkOk' /\ Publishing'
    BY <1>0, <1>1, <1>3, <2>16 DEF Compressed, SinkOk, Publishing
  <2>18. LogsType'
    BY <1>0, <1>1, <1>3, <2>3 DEF LogsType
  <2> QED BY <2>7, <2>10, <2>11, <2>13, <2>14, <2>15, <2>17, <2>18 DEF LogsInv
<1> QED BY <1>2, <1>3 DEF AppendLine

LEMMA LogsStep == LogsInv /\ [LogsNext]_logVars => LogsInv'
<1> SUFFICES ASSUME LogsInv, [LogsNext]_logVars PROVE LogsInv'
  OBVIOUS
<1>1. CASE UNCHANGED logVars
  <2>1. /\ UNCHANGED <<lines, offered, content, path, archives, elsewhere, sink, logger>>
        /\ LogsType /\ SinkOk /\ RecordsInOrder
    BY <1>1 DEF logVars, LogsInv
  <2>2. Written' = Written
    BY <2>1 DEF Written
  <2>3. RecordsInOrder'
    BY <2>1, <2>2 DEF RecordsInOrder
  <2> QED BY <2>1, <2>3, QuietKeeps DEF LogsType, SinkOk
<1> QED BY <1>1, OfferKeeps, ReopenKeeps, ReceiveKeeps, QuietStepsKeep, LinkKeeps, PublishKeeps, CompressKeeps,
           UnlinkKeeps, PruneKeeps, AppendKeeps, MoveAwayKeeps DEF LogsNext

(* Rotation, compression and pruning (logging/rotation.rs) lose a record   *)
(* only to pruning, oldest first, for any size, number of archives to keep *)
(* and number of crashes and moves.                                        *)
THEOREM RecordsAreRetained == LogsSpec => []RecordsRetained
<1>1. LogsInv => RecordsRetained
  <2> SUFFICES ASSUME LogsInv, NEW r \in (UNION {content[f] : f \in Files}) \ Findable
               PROVE  /\ Cardinality(Numbers) >= Keep
                      /\ \A n \in Numbers, kept \in 1..MaxRecords : kept \in Kept(n) => kept > r
    BY DEF RecordsRetained
  <2>1. r \in Lost
    <3>0. r \in Written /\ r \notin Findable
      BY DEF Written
    <3>1. Findable = (AtPath \cup HeldElsewhere) \cup (UNION {Kept(n) : n \in Numbers})
      BY DEF Findable, AtPath, HeldElsewhere
    <3>2. r \notin AtPath /\ r \notin HeldElsewhere /\ r \notin UNION {Kept(n) : n \in Numbers}
      BY <3>0, <3>1
    <3>3. \A n \in Numbers : r \notin Kept(n)
      BY <3>2
    <3> QED BY <3>0, <3>2, <3>3 DEF Lost, Real
  <2>2. ASSUME NEW n \in Numbers, NEW k \in 1..MaxRecords, k \in Kept(n) PROVE k > r
    <3>1. k \in Real(n) /\ k \in Nat
      BY <2>2, LogsNumbers DEF Real
    <3>2. r < k /\ r \in Nat
      BY <2>1, <3>1, WrittenIs DEF LogsInv, LostAreOld, Lost
    <3> QED BY <3>1, <3>2
  <2> QED BY <2>1, <2>2 DEF LogsInv, KeepsEnough
<1> QED BY <1>1, LogsInitInv, LogsStep, PTL DEF LogsSpec
=============================================================================
