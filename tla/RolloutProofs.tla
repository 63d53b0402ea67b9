--------------------------- MODULE RolloutProofs ---------------------------
(***************************************************************************)
(* Proofs about the staged rollout, for any number of replicas, stages,    *)
(* policies and writes.                                                    *)
(***************************************************************************)
EXTENDS RolloutFleet, CountTheorems

\* State::completed latches a latency rollback without sorting the window: its
\* comment says that the nearest-rank p95 exceeds the limit exactly when more
\* than floor(n/20) samples do.  That is so for every window size.
THEOREM P95CountIsExact ==
    ASSUME NEW n \in Nat \ {0}, NEW slow \in 0..n
    PROVE  P95Exceeds(n, slow) <=> slow > n \div 20
<1> DEFINE q == n \div 20
           r == n % 20
           p == (95 * n + 99) \div 100
           s == (95 * n + 99) % 100
<1>1. q \in Int /\ r \in 0..19 /\ n = 20 * q + r
  OBVIOUS
<1>2. p \in Int /\ s \in 0..99 /\ 95 * n + 99 = 100 * p + s
  OBVIOUS
<1>3. p = n - q
  <2> HIDE DEF q, r, p, s
  <2> QED BY <1>1, <1>2
<1> QED BY <1>1, <1>3 DEF P95Exceeds, P95Rank

-----------------------------------------------------------------------------
(* Types of the operators of module Rollout.                               *)

LEMMA StagesExist == Len(Steps) \in Nat /\ 0 \in StageSet
  BY StepsAssumption DEF StageSet

LEMMA DefaultProgressType == DefaultProgress \in Progress
  BY StagesExist DEF DefaultProgress, Progress, NoPolicy

LEMMA InitialType ==
    ASSUME NEW p \in Nat, NEW t \in Nat PROVE Initial(p, t) \in Progress
<1>1. \A g \in Progress : [g EXCEPT !.policy = p, !.started = t] \in Progress
  BY DEF Progress
<1> QED BY <1>1, DefaultProgressType DEF Initial

LEMMA AdvancedType ==
    ASSUME NEW g \in Progress, NEW t \in Nat
    PROVE  Advanced(g, t) \in Progress
<1>1. CASE g.stage + 1 = Len(Steps)
  BY <1>1 DEF Advanced, Progress
<1>2. CASE g.stage + 1 # Len(Steps)
  <2>1. g.stage + 1 \in StageSet
    BY <1>2, StagesExist DEF Progress, StageSet
  <2> QED BY <1>2, <2>1 DEF Advanced, Progress
<1> QED BY <1>1, <1>2

LEMMA NextProgressType ==
    ASSUME NEW p \in Nat, NEW g \in Progress, NEW t \in Nat,
           NEW gates, NEW latched, NEW ev
    PROVE  NextProgress(p, g, t, gates, latched, ev) \subseteq Progress
  BY InitialType, AdvancedType DEF NextProgress

LEMMA SyncedType ==
    ASSUME NEW k, NEW s \in State, NEW ann \in Progress
    PROVE  Synced(k, s, ann) \in State
  BY DefaultProgressType
  DEF Synced, SyncProgress, State, Samples, NoSamples

LEMMA NewStateType == NewState \in State
  BY DefaultProgressType DEF NewState, State, Samples, NoSamples

LEMMA CompletedType ==
    ASSUME NEW s \in State, NEW q, NEW failed, NEW slow
    PROVE  Completed(s, q, failed, slow) \in State
<1> DEFINE t == AddSample(s.totals, failed, slow)
<1>1. t \in Samples
  BY DEF State, Samples, AddSample, One
<1>2. Breached(t) \in BOOLEAN
  BY DEF Breached
<1> HIDE DEF t
<1>3. [s EXCEPT !.totals = t, !.latched = Breached(t)] \in State
  BY <1>1, <1>2 DEF State
<1> QED BY <1>3 DEF Completed, t

LEMMA RemoveSampleType ==
    ASSUME NEW t \in Samples, NEW failed \in BOOLEAN, NEW slow \in BOOLEAN,
           t.count > 0, failed => t.errors > 0, slow => t.slow > 0
    PROVE  RemoveSample(t, failed, slow) \in Samples
  BY DEF RemoveSample, Samples, One

-----------------------------------------------------------------------------
(* Type correctness.                                                       *)

LEMMA BoundsType == MaxUid \in Nat /\ MaxPolicy \in Nat /\ MaxPolicy >= 1
  BY FleetAssumption

LEMMA ObjectType ==
    ASSUME TypeOK
    PROVE  /\ object \in Object
           /\ Len(log) \in 1..Len(log)
           /\ \A v \in 1..Len(log) : log[v] \in Object
           /\ \A o \in Object : Key(o) \in Keys
<1>1. Len(log) \in 1..Len(log) /\ \A v \in 1..Len(log) : log[v] \in Object
  BY DEF TypeOK
<1>2. \A o \in Object : Key(o) \in Keys
  BY DEF Object, Key, Keys
<1> QED BY <1>1, <1>2 DEF object

LEMMA WriteType ==
    ASSUME TypeOK, NEW o \in Object, Write(o)
    PROVE  /\ log' \in Seq(Object)
           /\ Len(log') >= Len(log)
           /\ Len(log') >= 1
           /\ \A r \in Replicas : seen[r] \in 1..Len(log')
           /\ evidence' \in Nat
           /\ locked' \subseteq Keys
<1>1. log' = log \/ log' = Append(log, o)
  BY DEF Write
<1>2. log' \in Seq(Object) /\ Len(log') \in {Len(log), Len(log) + 1} /\ Len(log) \in Nat
  BY <1>1 DEF TypeOK
<1>3. evidence' \in Nat /\ locked' \subseteq Keys
  BY ObjectType DEF Write, TypeOK
<1> QED BY <1>2, <1>3 DEF TypeOK

\* The state of one replica is replaced by a State.
LEMMA StatesType ==
    ASSUME TypeOK, NEW r \in Replicas, NEW k \in DOMAIN states[r], NEW s \in State,
           states' = [states EXCEPT ![r] = [@ EXCEPT ![k] = s]]
    PROVE  /\ DOMAIN states' = Replicas
           /\ \A q \in Replicas : /\ DOMAIN states'[q] = DOMAIN states[q]
                                  /\ states'[q] \in [DOMAIN states[q] -> State]
  BY DEF TypeOK

\* The actions of the API server and of the operator.
LEMMA ServerType ==
    ASSUME TypeOK, Tick \/ Operator \/ Server
    PROVE  TypeOK'
<1> USE ObjectType, BoundsType
<1>1. CASE Tick
  BY <1>1 DEF Tick, TypeOK
<1>2. ASSUME NEW p \in 1..MaxPolicy, ApplyPolicy(p) PROVE TypeOK'
  <2>1. [object EXCEPT !.policy = p] \in Object
    BY DEF Object
  <2> QED BY <1>2, <2>1, WriteType DEF ApplyPolicy, TypeOK
<1>3. ASSUME NEW p \in 1..MaxPolicy, Recreate(p) PROVE TypeOK'
  <2>1. object.uid + 1 \in 1..MaxUid
    BY <1>3 DEF Object, Recreate
  <2>2. [object EXCEPT !.uid = object.uid + 1, !.policy = p,
                       !.progress = DefaultProgress, !.latched = NoPolicy] \in Object
    BY <2>1, DefaultProgressType DEF Object, NoPolicy
  <2> QED BY <1>3, <2>2, WriteType DEF Recreate, TypeOK
<1>4. ASSUME NEW m \in patches, ApplyPatch(m) PROVE TypeOK'
  <2>1. m \in Patch
    BY DEF TypeOK
  <2>2. Patched(object, m) \in Object
    BY <2>1 DEF Patch, Patched, Object
  <2> QED BY <1>4, <2>2, WriteType DEF ApplyPatch, TypeOK
<1>5. ASSUME NEW m \in patches, DropPatch(m) PROVE TypeOK'
  BY <1>5 DEF DropPatch, TypeOK
<1>6. ASSUME NEW r \in Replicas, CommandRollback(r) PROVE TypeOK'
  <2>1. LatchPatch(Len(log)) \in Patch
    BY DefaultProgressType DEF LatchPatch, Patch, Object
  <2> QED BY <1>6, <2>1 DEF CommandRollback, Commanded, Send, TypeOK
<1>7. CommandProgress(object) \in Progress
  BY InitialType, SMTT(30) DEF CommandProgress, Object, TypeOK
<1>8. ASSUME NEW g \in Progress PROVE ProgressPatch(Len(log), g) \in Patch
  BY DEF ProgressPatch, Patch, NoPolicy
<1>9. ASSUME NEW r \in Replicas, CommandPause(r) PROVE TypeOK'
  <2>1. [CommandProgress(object) EXCEPT !.paused = TRUE] \in Progress
    BY <1>7 DEF Progress
  <2> QED BY <1>9, <2>1, <1>8 DEF CommandPause, Commanded, Send, TypeOK
<1>10. ASSUME NEW r \in Replicas, CommandResume(r) PROVE TypeOK'
  <2>1. [CommandProgress(object) EXCEPT !.paused = FALSE, !.started = now] \in Progress
    BY <1>7 DEF Progress, TypeOK
  <2> QED BY <1>10, <2>1, <1>8 DEF CommandResume, Commanded, Send, TypeOK
<1>11. ASSUME NEW r \in Replicas, NEW stage \in StageSet, CommandApprove(r, stage)
       PROVE  TypeOK'
  <2>1. [CommandProgress(object) EXCEPT !.approved = stage] \in Progress
    BY <1>7 DEF Progress
  <2> QED BY <1>11, <2>1, <1>8 DEF CommandApprove, Commanded, Send, TypeOK
<1> QED
  BY <1>1, <1>2, <1>3, <1>4, <1>5, <1>6, <1>9, <1>10, <1>11 DEF Operator, Server

\* The actions of replica r.
LEMMA ReplicaType ==
    ASSUME TypeOK, NEW r \in Replicas, Requests(r) \/ Controller(r) \/ Restart(r)
    PROVE  TypeOK'
<1> USE ObjectType, BoundsType
<1>1. ASSUME StartRequest(r) PROVE TypeOK'
  <2> DEFINE k == published[r]
  <2>1. k \in DOMAIN states[r] /\ states[r][k] \in State
    BY <1>1 DEF StartRequest, TypeOK
  <2>2. [key |-> k, stage |-> states[r][k].progress.stage]
            \in [key : DOMAIN states[r], stage : StageSet]
    BY <2>1 DEF State, Progress
  <2> QED BY <1>1, <2>2 DEF StartRequest, TypeOK
<1>2. ASSUME NEW q \in inflight[r], CancelRequest(r, q) PROVE TypeOK'
  BY <1>2 DEF CancelRequest, TypeOK
<1>3. ASSUME NEW q \in inflight[r], NEW failed \in Outcomes, NEW slow \in Slows,
             FinishRequest(r, q, failed, slow)
      PROVE  TypeOK'
  <2>1. q.key \in DOMAIN states[r] /\ states[r][q.key] \in State
    BY DEF TypeOK
  <2>2. Completed(states[r][q.key], q, failed, slow) \in State
    BY <2>1, CompletedType
  <2>3. /\ DOMAIN states' = Replicas
        /\ \A p \in Replicas : /\ DOMAIN states'[p] = DOMAIN states[p]
                               /\ states'[p] \in [DOMAIN states[p] -> State]
    BY <1>3, <2>1, <2>2, StatesType DEF FinishRequest
  <2>4. evidence' \in Nat
    BY <1>3 DEF FinishRequest, TypeOK
  <2> QED BY <1>3, <2>3, <2>4 DEF FinishRequest, TypeOK
<1>4. ASSUME NEW k \in DOMAIN states[r], NEW failed \in Outcomes, NEW slow \in Slows,
             Prune(r, k, failed, slow)
      PROVE  TypeOK'
  <2> DEFINE t == RemoveSample(states[r][k].totals, failed, slow)
  <2>1. states[r][k] \in State /\ failed \in BOOLEAN /\ slow \in BOOLEAN
    BY FleetAssumption DEF TypeOK, Slows
  <2>2. t \in Samples
    BY <1>4, <2>1, RemoveSampleType DEF Prune, State
  <2>3. [states[r][k] EXCEPT !.totals = t] \in State
    BY <2>1, <2>2 DEF State
  <2>4. states' = [states EXCEPT ![r] = [@ EXCEPT ![k] = [states[r][k] EXCEPT !.totals = t]]]
    BY <1>4 DEF Prune, TypeOK
  <2>5. /\ DOMAIN states' = Replicas
        /\ \A p \in Replicas : /\ DOMAIN states'[p] = DOMAIN states[p]
                               /\ states'[p] \in [DOMAIN states[p] -> State]
    BY <2>3, <2>4, StatesType
  <2> QED BY <1>4, <2>5 DEF Prune, TypeOK
<1>5. ASSUME NEW v \in seen[r]..Len(log), Build(r, v) PROVE TypeOK'
  <2> DEFINE o    == log[v]
             k    == Key(o)
             kept == (DOMAIN states[r]) \cap (Referenced(r) \cup {k})
             old  == IF k \in DOMAIN states[r] THEN states[r][k] ELSE NewState
             sync == Synced(k, old, o.progress)
             new  == [sync EXCEPT !.latched = @ \/ o.latched = o.policy]
             f    == [j \in kept \cup {k} |-> IF j = k THEN new ELSE states[r][j]]
  <2>1. v \in 1..Len(log) /\ o \in Object /\ k \in Keys
    BY DEF TypeOK
  <2>2. old \in State
    BY NewStateType DEF TypeOK
  <2>3. sync \in State
    <3>1. o.progress \in Progress
      BY <2>1 DEF Object
    <3> HIDE DEF old
    <3> QED BY <2>2, <3>1, SyncedType
  <2>4. new \in State
    <3> HIDE DEF sync
    <3> QED BY <2>3 DEF State
  <2>5. f \in [kept \cup {k} -> State]
    <3> HIDE DEF new
    <3> QED BY <2>4 DEF TypeOK
  <2>6. seen' = [seen EXCEPT ![r] = v] /\ states' = [states EXCEPT ![r] = f]
        /\ published' = [published EXCEPT ![r] = k]
        /\ UNCHANGED <<now, log, inflight, report, view, patches, evidence, locked>>
    BY <1>5 DEF Build, Deliver
  <2> HIDE DEF f
  <2>7. ASSUME NEW q \in inflight[r] PROVE q.key \in kept
    BY DEF Referenced, TypeOK
  <2>8. inflight[r] \subseteq [key : kept \cup {k}, stage : StageSet]
    BY <2>7 DEF TypeOK
  <2>9. kept \cup {k} \subseteq Keys
    BY <2>1 DEF TypeOK
  <2> HIDE DEF k, kept
  <2>10. /\ seen' \in [Replicas -> 1..Len(log)]
         /\ DOMAIN states' = Replicas
         /\ DOMAIN published' = Replicas
    BY <2>1, <2>6 DEF TypeOK
  <2>11. ASSUME NEW p \in Replicas
         PROVE  /\ DOMAIN states'[p] \subseteq Keys
                /\ states'[p] \in [DOMAIN states'[p] -> State]
                /\ published'[p] \in DOMAIN states'[p] \cup {NoKey}
                /\ inflight'[p] \subseteq [key : DOMAIN states'[p], stage : StageSet]
    <3>1. CASE p = r
      <4>1. states'[r] = f /\ published'[r] = k /\ inflight' = inflight
        BY <2>6 DEF TypeOK
      <4> QED BY <3>1, <4>1, <2>5, <2>8, <2>9
    <3>2. CASE p # r
      BY <3>2, <2>6 DEF TypeOK
    <3> QED BY <3>1, <3>2
  <2> QED BY <2>6, <2>10, <2>11 DEF TypeOK
<1>6. ASSUME NEW v \in seen[r]..Len(log), ReconcileRollback(r, v) PROVE TypeOK'
  <2>1. v \in 1..Len(log) /\ log[v] \in Object
    BY DEF TypeOK
  <2>2. LatchPatch(v) \in Patch
    BY <2>1, DefaultProgressType DEF LatchPatch, Patch, Object
  <2> QED BY <1>6, <2>1, <2>2 DEF ReconcileRollback, Deliver, Send, TypeOK
<1>7. ASSUME NEW v \in seen[r]..Len(log), NEW gates \in BOOLEAN,
             ReconcileProgress(r, v, gates)
      PROVE  TypeOK'
  <2> DEFINE k == Key(log[v])
             s == Synced(k, states[r][k], log[v].progress)
  <2>1. v \in 1..Len(log) /\ log[v] \in Object /\ k \in DOMAIN states[r]
    BY <1>7 DEF TypeOK, ReconcileProgress
  <2>2. s \in State
    BY <2>1, SyncedType DEF TypeOK, Object
  <2>3. states' = [states EXCEPT ![r] = [@ EXCEPT ![k] = s]]
    BY <1>7 DEF ReconcileProgress
  <2>4. /\ DOMAIN states' = Replicas
        /\ \A p \in Replicas : /\ DOMAIN states'[p] = DOMAIN states[p]
                               /\ states'[p] \in [DOMAIN states[p] -> State]
    <3> HIDE DEF s
    <3> QED BY <2>1, <2>2, <2>3, StatesType
  <2>5. patches' \subseteq Patch
    <3> DEFINE ev   == FleetSamples(r, SampleKey(k, s.progress))
               next == NextProgress(log[v].policy, s.progress, now, gates, s.latched, ev)
    <3>1. next \subseteq Progress
      <4> HIDE DEF ev, s
      <4>1. log[v].policy \in Nat /\ s.progress \in Progress
        BY <2>1, <2>2, SMTT(30) DEF State, Object
      <4>2. now \in Nat
        BY DEF TypeOK
      <4> QED BY ONLY <4>1, <4>2, NextProgressType
    <3>2. patches' = patches
          \/ \E g \in next : patches' = patches \cup {ProgressPatch(v, g)}
      BY <1>7 DEF ReconcileProgress, Send
    <3> HIDE DEF next
    <3>3. \A g \in Progress : ProgressPatch(v, g) \in Patch
      BY <2>1 DEF ProgressPatch, Patch, NoPolicy, TypeOK
    <3> QED BY <3>1, <3>2, <3>3 DEF TypeOK
  <2>6. /\ seen' = [seen EXCEPT ![r] = v]
        /\ UNCHANGED <<now, log, published, inflight, report, view, evidence, locked>>
    BY <1>7 DEF ReconcileProgress, Deliver
  <2> QED BY <2>1, <2>4, <2>5, <2>6 DEF TypeOK
<1>8. ASSUME Observe(r) \/ ObserveFails(r) PROVE TypeOK'
  BY <1>8 DEF Observe, ObserveFails, TypeOK
<1>9. ASSUME Restart(r) PROVE TypeOK'
  <2>1. ASSUME NEW p \in Replicas
        PROVE  /\ DOMAIN states'[p] \subseteq Keys
               /\ states'[p] \in [DOMAIN states'[p] -> State]
               /\ published'[p] \in DOMAIN states'[p] \cup {NoKey}
               /\ inflight'[p] \subseteq [key : DOMAIN states'[p], stage : StageSet]
    <3>1. CASE p = r
      <4>1. states'[r] = NoStates /\ published'[r] = NoKey /\ inflight'[r] = {}
        BY <1>9 DEF Restart, TypeOK
      <4> QED BY <3>1, <4>1 DEF NoStates
    <3>2. CASE p # r
      BY <1>9, <3>2 DEF Restart, TypeOK
    <3> QED BY <3>1, <3>2
  <2> QED BY <1>9, <2>1 DEF Restart, TypeOK
<1> QED
  BY <1>1, <1>2, <1>3, <1>4, <1>5, <1>6, <1>7, <1>8, <1>9 DEF Requests, Controller

LEMMA InitType == Init => TypeOK
<1> SUFFICES ASSUME Init PROVE TypeOK
  OBVIOUS
<1>1. MaxUid >= 1 /\ MaxPolicy >= 1 /\ MaxUid \in Nat /\ MaxPolicy \in Nat
  BY FleetAssumption
<1>2. [uid |-> 1, policy |-> 1, progress |-> DefaultProgress, latched |-> NoPolicy]
        \in Object
  BY <1>1, DefaultProgressType DEF Object, NoPolicy
<1>3. log \in Seq(Object) /\ Len(log) = 1
  BY <1>2 DEF Init
<1> QED BY <1>3 DEF Init, TypeOK, NoStates

LEMMA NextType == TypeOK /\ [Next]_vars => TypeOK'
<1> SUFFICES ASSUME TypeOK, [Next]_vars PROVE TypeOK'
  OBVIOUS
<1>1. CASE UNCHANGED vars
  BY <1>1 DEF vars, TypeOK
<1>2. CASE Next
  BY <1>2, ServerType, ReplicaType DEF Next
<1> QED BY <1>1, <1>2

\* Every variable keeps its type.  In particular a replica never drops the
\* State of a policy that its snapshot or a request in flight still uses
\* (Rollouts::get_for keeps the referenced ones), and the window totals never
\* fall below zero when samples leave the window (Window::prune).
THEOREM TypeCorrect == Spec => []TypeOK
  BY InitType, NextType, PTL DEF Spec

-----------------------------------------------------------------------------
(* Versions of the object only move forward.                               *)

LEMMA FollowsReflexive ==
    ASSUME NEW o \in Object PROVE Follows(o, o)
  BY DefaultProgressType DEF Follows, Object, Published, Progress, StageSet

LEMMA FollowsTransitive ==
    ASSUME NEW o \in Object, NEW p \in Object, NEW q \in Object,
           Follows(o, p), Follows(p, q)
    PROVE  Follows(o, q)
<1>1. /\ Published(o) \in Progress
      /\ Published(p) \in Progress
      /\ Published(q) \in Progress
  BY DefaultProgressType DEF Published, Object
<1>2. /\ Published(o).stage \in Int /\ Published(o).started \in Int
      /\ Published(p).stage \in Int /\ Published(p).started \in Int
      /\ Published(q).stage \in Int /\ Published(q).started \in Int
  BY <1>1 DEF Progress, StageSet
<1>3. /\ o.uid \in Int /\ o.policy \in Int /\ p.uid \in Int /\ p.policy \in Int
      /\ q.uid \in Int /\ q.policy \in Int
  BY DEF Object
<1>4. CASE Key(o) = Key(p) /\ Key(p) = Key(q)
  <2>1. ~Rel!Newer(Key(p), Key(o)) /\ ~Rel!Newer(Key(q), Key(p))
    BY <1>3, <1>4 DEF Rel!Newer, Key
  <2> QED BY <1>2, <1>4, <2>1 DEF Follows
<1>5. CASE ~(Key(o) = Key(p) /\ Key(p) = Key(q))
  <2>1. Rel!Newer(Key(q), Key(o))
    BY <1>3, <1>5 DEF Follows, Rel!Newer, Key
  <2> QED BY <2>1 DEF Follows
<1> QED BY <1>4, <1>5

\* A write of an allowed successor keeps the whole invariant.
LEMMA WriteDerived ==
    ASSUME TypeOK, Derived, NEW o \in Object, WellFormed(o), Follows(object, o),
           Write(o), patches' \subseteq patches, UNCHANGED <<now, seen, states>>
    PROVE  Derived'
<1> USE ObjectType
<1>1. CASE o = object
  <2>1. log' = log
    BY <1>1 DEF Write
  <2>2. VersionsOrdered'
    BY <2>1 DEF Derived, VersionsOrdered, WellFormed, Follows
  <2>3. StatesFromVersions'
    BY <2>1, ZenonT(40) DEF Derived, StatesFromVersions
  <2>4. PatchesFromVersions'
    BY <2>1, ZenonT(40) DEF Derived, PatchesFromVersions, Successor
  <2> QED BY <2>2, <2>3, <2>4 DEF Derived
<1>2. CASE o # object
  <2>1. log' = Append(log, o) /\ Len(log) \in Nat /\ log \in Seq(Object)
    BY <1>2 DEF Write, TypeOK
  <2>2. /\ Len(log') = Len(log) + 1
        /\ log'[Len(log) + 1] = o
        /\ \A i \in 1..Len(log) : log'[i] = log[i]
    BY <2>1
  <2>3. \A i \in 1..Len(log) : Follows(log[i], o)
    <3> SUFFICES ASSUME NEW i \in 1..Len(log) PROVE Follows(log[i], o)
      OBVIOUS
    <3>1. Follows(log[i], object) /\ object \in Object /\ log[i] \in Object
      BY DEF Derived, VersionsOrdered, object
    <3> QED BY <3>1, FollowsTransitive
  <2>4. \A i \in 1..Len(log') : WellFormed(log'[i])
    BY <2>2 DEF Derived, VersionsOrdered
  <2>5. \A i, j \in 1..Len(log') : i <= j => Follows(log'[i], log'[j])
    <3> SUFFICES ASSUME NEW i \in 1..Len(log'), NEW j \in 1..Len(log'), i <= j
                 PROVE  Follows(log'[i], log'[j])
      OBVIOUS
    <3>1. CASE j \in 1..Len(log)
      <4>1. i \in 1..Len(log)
        BY <2>1, <3>1
      <4> QED BY <2>2, <3>1, <4>1 DEF Derived, VersionsOrdered
    <3>2. CASE j = Len(log) + 1 /\ i \in 1..Len(log)
      BY <2>2, <2>3, <3>2
    <3>3. CASE j = Len(log) + 1 /\ i = Len(log) + 1
      BY <2>2, <3>3, FollowsReflexive
    <3> QED BY <2>1, <2>2, <3>1, <3>2, <3>3
  <2>6. VersionsOrdered'
    BY <2>4, <2>5 DEF VersionsOrdered, WellFormed, Follows
  <2>7. StatesFromVersions'
    <3> SUFFICES ASSUME NEW r \in Replicas, NEW k \in DOMAIN states[r]
                 PROVE  \E i \in 1..seen[r] :
                           Key(log'[i]) = k /\ states[r][k].progress = Published(log'[i])
      BY DEF StatesFromVersions
    <3>1. PICK i \in 1..seen[r] :
             Key(log[i]) = k /\ states[r][k].progress = Published(log[i])
      BY DEF Derived, StatesFromVersions
    <3>2. i \in 1..Len(log)
      BY <2>1 DEF TypeOK
    <3> QED BY <2>2, <3>1, <3>2
  <2>8. PatchesFromVersions'
    <3> SUFFICES ASSUME NEW m \in patches
                 PROVE  /\ m.rv \in 1..Len(log')
                        /\ IF m.field = "latched" THEN m.latched = log'[m.rv].policy
                           ELSE Successor(log'[m.rv], m.progress)
      BY ZenonT(40) DEF PatchesFromVersions, Successor
    <3>1. m.rv \in 1..Len(log) /\ log'[m.rv] = log[m.rv]
      BY <2>2 DEF Derived, PatchesFromVersions
    <3> QED BY <2>1, <2>2, <3>1 DEF Derived, PatchesFromVersions
  <2> QED BY <2>6, <2>7, <2>8 DEF Derived
<1> QED BY <1>1, <1>2

\* Time passes.
LEMMA TickDerived ==
    ASSUME TypeOK, Derived, Tick PROVE Derived'
<1>1. now' = now + 1 /\ now \in Nat /\ UNCHANGED <<log, seen, states, patches>>
  BY DEF Tick, TypeOK
<1>2. VersionsOrdered'
  <2>1. ASSUME NEW i \in 1..Len(log) PROVE WellFormed(log[i])'
    <3>1. WellFormed(log[i]) /\ log[i].progress.started \in Nat
      BY ObjectType DEF Derived, VersionsOrdered, Object, Progress
    <3> QED BY <1>1, <3>1 DEF WellFormed
  <2> QED BY <1>1, <2>1 DEF Derived, VersionsOrdered, Follows
<1>3. StatesFromVersions'
  BY <1>1 DEF Derived, StatesFromVersions
<1>4. PatchesFromVersions'
  <2> SUFFICES ASSUME NEW m \in patches
               PROVE  /\ m.rv \in 1..Len(log)
                      /\ IF m.field = "latched" THEN m.latched = log[m.rv].policy
                         ELSE Successor(log[m.rv], m.progress)'
    BY <1>1 DEF PatchesFromVersions
  <2>1. m.progress.started \in Nat
    BY DEF TypeOK, Patch, Progress
  <2>2. Successor(log[m.rv], m.progress) => Successor(log[m.rv], m.progress)'
    BY <1>1, <2>1 DEF Successor
  <2> QED BY <2>2 DEF Derived, PatchesFromVersions
<1> QED BY <1>2, <1>3, <1>4 DEF Derived

-----------------------------------------------------------------------------
(* What replicas and commands send.                                        *)

LEMMA PublishedType ==
    ASSUME NEW o \in Object, WellFormed(o), now \in Nat
    PROVE  /\ Published(o) \in Progress
           /\ Published(o).started <= now
           /\ Published(o) # DefaultProgress =>
                 Published(o) = o.progress /\ o.progress.policy = o.policy
           /\ Published(o) # DefaultProgress <=> o.progress.policy = o.policy
           /\ Published(o) # DefaultProgress <=> Published(o).started # 0
<1>1. o.policy \in Nat /\ o.policy # 0 /\ o.progress \in Progress
  BY BoundsType DEF Object
<1>2. DefaultProgress.started = 0 /\ DefaultProgress.policy = 0
  BY DEF DefaultProgress, NoPolicy
<1> QED BY <1>1, <1>2, DefaultProgressType DEF Published, WellFormed, NoPolicy

\* sync_progress leaves a replica with the progress that the version it read
\* publishes, the case of another policy's annotation included.
LEMMA SyncedProgress ==
    ASSUME TypeOK, Derived, NEW r \in Replicas, NEW v \in seen[r]..Len(log),
           NEW s \in State,
           \/ s.progress = DefaultProgress
           \/ /\ Key(log[v]) \in DOMAIN states[r]
              /\ s.progress = states[r][Key(log[v])].progress
    PROVE  Synced(Key(log[v]), s, log[v].progress).progress = Published(log[v])
<1> DEFINE o == log[v]
           k == Key(o)
<1>1. v \in 1..Len(log) /\ o \in Object /\ WellFormed(o) /\ k[2] = o.policy
  BY ObjectType DEF TypeOK, Derived, VersionsOrdered, Key
<1>2. Synced(k, s, o.progress).progress = SyncProgress(o.policy, s.progress, o.progress)
  BY <1>1 DEF Synced, State
<1>3. CASE o.progress = DefaultProgress \/ o.progress.policy = o.policy
  BY <1>1, <1>2, <1>3 DEF SyncProgress, Published
<1>4. CASE o.progress # DefaultProgress /\ o.progress.policy # o.policy
  <2>1. Published(o) = DefaultProgress
    BY <1>4 DEF Published
  <2>2. CASE s.progress = DefaultProgress
    BY <1>2, <1>4, <2>1, <2>2 DEF SyncProgress
  <2>3. CASE k \in DOMAIN states[r] /\ s.progress = states[r][k].progress
    <3>1. PICK i \in 1..seen[r] : Key(log[i]) = k /\ s.progress = Published(log[i])
      BY <2>3 DEF Derived, StatesFromVersions
    <3>2. i \in 1..Len(log) /\ i <= v
      BY <1>1 DEF TypeOK
    <3>3. Follows(log[i], o)
      BY <1>1, <3>2 DEF Derived, VersionsOrdered
    <3>4. ~Rel!Newer(k, k)
      BY <1>1 DEF Rel!Newer, Key, Object
    <3>5. Published(log[i]) = DefaultProgress
      BY <2>1, <3>1, <3>3, <3>4 DEF Follows
    <3> QED BY <1>2, <1>4, <2>1, <3>1, <3>5 DEF SyncProgress
  <2> QED BY <2>2, <2>3
<1> QED BY <1>3, <1>4

\* next_progress decides on a successor of the published progress.
LEMMA NextSuccessor ==
    ASSUME NEW o \in Object, WellFormed(o), now \in Nat \ {0},
           NEW gates, NEW latched, NEW ev,
           NEW g \in NextProgress(o.policy, Published(o), now, gates, latched, ev)
    PROVE  Successor(o, g)
<1> DEFINE p == Published(o)
<1>1. /\ p \in Progress
      /\ p.started <= now
      /\ p # DefaultProgress => p = o.progress /\ o.progress.policy = o.policy
      /\ p # DefaultProgress <=> p.started # 0
  BY PublishedType
<1>2. o.policy \in Nat
  BY DEF Object
<1>3. p.stage \in Nat /\ p.started \in Nat
  BY <1>1 DEF Progress, StageSet
<1>4. CASE p.started = 0
  <2>1. g = Initial(o.policy, now) /\ p = DefaultProgress
    BY <1>1, <1>4 DEF NextProgress
  <2>2. g.policy = o.policy /\ g.started = now /\ g.stage = 0
    BY <2>1 DEF Initial, DefaultProgress
  <2>3. p.stage = 0 /\ ~p.promoted
    BY <2>1 DEF DefaultProgress
  <2> QED BY <1>4, <2>1, <2>2, <2>3 DEF Successor
<1>5. CASE p.started # 0
  <2>1. /\ ~p.paused /\ ~p.promoted
        /\ Steps[p.stage + 1].approval => p.approved = p.stage
        /\ g = Advanced(p, now)
    BY <1>5 DEF NextProgress, MayAdvance
  <2>2. /\ g = Advanced(p, g.started)
        /\ g.policy = p.policy
        /\ g.stage \in {p.stage, p.stage + 1}
        /\ g.started \in {p.started, now}
    BY <1>1, <2>1 DEF Advanced, Progress
  <2> QED BY <1>1, <1>3, <1>5, <2>1, <2>2 DEF Successor
<1> QED BY <1>4, <1>5

\* A command decides on a successor of the progress that the object publishes.
LEMMA CommandSuccessor ==
    ASSUME TypeOK, Derived, ~CommandProgress(object).promoted
    PROVE  LET c == CommandProgress(object) IN
           /\ Successor(object, [c EXCEPT !.paused = TRUE])
           /\ Successor(object, [c EXCEPT !.paused = FALSE, !.started = now])
           /\ Successor(object, [c EXCEPT !.approved = c.stage])
<1> DEFINE o == object
           p == Published(o)
           c == CommandProgress(o)
<1>1. o \in Object /\ WellFormed(o) /\ now \in Nat \ {0}
  BY ObjectType DEF TypeOK, Derived, VersionsOrdered, object
<1>2. /\ p \in Progress
      /\ p.started <= now
      /\ p # DefaultProgress => p = o.progress /\ o.progress.policy = o.policy
      /\ p # DefaultProgress <=> o.progress.policy = o.policy
      /\ p # DefaultProgress <=> p.started # 0
  BY <1>1, PublishedType
<1>3. o.policy \in Nat
  BY <1>1 DEF Object
<1>4. c = IF p = DefaultProgress THEN Initial(o.policy, now) ELSE p
  BY <1>2 DEF CommandProgress, Published
<1>5. c \in Progress
  BY <1>1, <1>2, <1>3, <1>4, InitialType
<1>6. /\ c.policy = o.policy /\ c.started # 0 /\ c.started <= now
      /\ p.started <= c.started /\ p.stage <= c.stage /\ ~p.promoted
  <2>1. CASE p = DefaultProgress
    BY <1>1, <1>4, <2>1 DEF Initial, DefaultProgress
  <2>2. CASE p # DefaultProgress
    BY <1>1, <1>2, <1>4, <2>2 DEF Progress, StageSet
  <2> QED BY <2>1, <2>2
<1>7. c = IF p = DefaultProgress THEN Initial(o.policy, c.started) ELSE p
  BY <1>4 DEF Initial, DefaultProgress
<1> HIDE DEF c, p, o
<1>8. Successor(o, [c EXCEPT !.paused = TRUE])
  <2> DEFINE g == [c EXCEPT !.paused = TRUE]
  <2>1. g.policy = c.policy /\ g.started = c.started /\ g.stage = c.stage
    BY <1>5 DEF Progress
  <2> HIDE DEF g
  <2>2. g = [c EXCEPT !.paused = TRUE]
    BY DEF g
  <2> QED BY <1>6, <1>7, <2>1, <2>2 DEF Successor, p, g
<1>9. Successor(o, [c EXCEPT !.paused = FALSE, !.started = now])
  <2> DEFINE g == [c EXCEPT !.paused = FALSE, !.started = now]
             d == IF p = DefaultProgress THEN Initial(o.policy, now) ELSE p
  <2>1. g.policy = c.policy /\ g.started = now /\ g.stage = c.stage
    BY <1>5 DEF Progress
  <2>2. d = c
    BY <1>4 DEF c, p, o
  <2>3. g = [d EXCEPT !.paused = FALSE, !.started = now]
    BY <2>2
  <2> QED BY <1>1, <1>2, <1>6, <2>1, <2>3 DEF Successor, p, o
<1>10. Successor(o, [c EXCEPT !.approved = c.stage])
  <2> DEFINE g == [c EXCEPT !.approved = c.stage]
  <2>1. g.policy = c.policy /\ g.started = c.started /\ g.stage = c.stage
    BY <1>5 DEF Progress
  <2> QED BY <1>6, <1>7, <2>1 DEF Successor, p
<1> QED BY <1>8, <1>9, <1>10 DEF c, o

\* A step that writes nothing keeps the invariant when the patch it sends and
\* the progress it leaves on a replica derive from versions.
LEMMA LocalDerived ==
    ASSUME TypeOK, Derived, UNCHANGED <<now, log>>,
           \A m \in patches' \ patches :
              /\ m.rv \in 1..Len(log)
              /\ IF m.field = "latched" THEN m.latched = log[m.rv].policy
                 ELSE Successor(log[m.rv], m.progress),
           \A r \in Replicas : \A k \in DOMAIN states'[r] :
              \E i \in 1..seen'[r] :
                 Key(log[i]) = k /\ states'[r][k].progress = Published(log[i])
    PROVE  Derived'
<1>1. VersionsOrdered'
  BY DEF Derived, VersionsOrdered, WellFormed, Follows
<1>2. StatesFromVersions'
  BY DEF StatesFromVersions
<1>3. PatchesFromVersions'
  <2> SUFFICES ASSUME NEW m \in patches'
               PROVE  /\ m.rv \in 1..Len(log)
                      /\ IF m.field = "latched" THEN m.latched = log[m.rv].policy
                         ELSE Successor(log[m.rv], m.progress)
    BY ZenonT(40) DEF PatchesFromVersions, Successor
  <2>1. CASE m \in patches
    BY <2>1 DEF Derived, PatchesFromVersions
  <2>2. CASE m \notin patches
    BY <2>2
  <2> QED BY <2>1, <2>2, Zenon
<1> QED BY <1>1, <1>2, <1>3 DEF Derived

LEMMA UnchangedStates ==
    ASSUME Derived, UNCHANGED <<seen, states>>
    PROVE  \A r \in Replicas : \A k \in DOMAIN states'[r] :
              \E i \in 1..seen'[r] :
                 Key(log[i]) = k /\ states'[r][k].progress = Published(log[i])
  BY DEF Derived, StatesFromVersions

-----------------------------------------------------------------------------
(* Every action keeps the invariant.                                       *)

\* An applied progress patch is allowed by the current version.
LEMMA PatchedFollows ==
    ASSUME TypeOK, Derived, NEW m \in patches, m.rv = Len(log)
    PROVE  /\ Patched(object, m) \in Object
           /\ WellFormed(Patched(object, m))
           /\ Follows(object, Patched(object, m))
           /\ m.field # "latched" =>
                 /\ Successor(object, m.progress)
                 /\ Published(Patched(object, m)) = m.progress
           /\ m.field = "latched" =>
                 Published(Patched(object, m)) = Published(object)
<1> DEFINE o == object
           n == Patched(o, m)
<1>1. o \in Object /\ WellFormed(o) /\ now \in Nat \ {0}
  BY ObjectType DEF TypeOK, Derived, VersionsOrdered, object
<1>2. m \in Patch
  BY DEF TypeOK
<1>3. n \in Object
  BY <1>1, <1>2 DEF Patch, Patched, Object
<1>4. CASE m.field = "latched"
  <2>1. m.latched = o.policy
    BY <1>4 DEF Derived, PatchesFromVersions, object
  <2>2. n.progress = o.progress /\ n.policy = o.policy /\ n.uid = o.uid
        /\ n.latched = o.policy
    BY <1>1, <1>4, <2>1 DEF Patched, Object
  <2>3. Published(n) = Published(o) /\ Key(n) = Key(o)
    BY <2>2 DEF Published, Key
  <2>4. WellFormed(n)
    BY <1>1, <2>2 DEF WellFormed, Object
  <2>5. Published(o).stage \in Int /\ Published(o).started \in Int
    BY <1>1, PublishedType DEF Progress, StageSet
  <2> HIDE DEF n, o
  <2>6. Follows(o, n)
    BY <2>3, <2>5 DEF Follows
  <2> QED BY <1>3, <1>4, <2>3, <2>4, <2>6 DEF n, o
<1>5. CASE m.field # "latched"
  <2>1. Successor(o, m.progress)
    BY <1>5 DEF Derived, PatchesFromVersions, object
  <2>2. m.field = "progress" /\ m.progress \in Progress
    BY <1>2, <1>5 DEF Patch
  <2>3. n.progress = m.progress /\ n.policy = o.policy /\ n.uid = o.uid
        /\ n.latched = o.latched
    BY <1>1, <2>2 DEF Patched, Object
  <2>4. /\ m.progress.policy = o.policy
        /\ m.progress.started # 0
        /\ m.progress.started <= now
        /\ Published(o).started <= m.progress.started
        /\ Published(o).stage <= m.progress.stage
    BY <2>1 DEF Successor
  <2>5. Published(n) = m.progress /\ Key(n) = Key(o)
    BY <2>3, <2>4 DEF Published, Key
  <2>6. o.policy \in Nat /\ o.policy # 0 /\ o.latched \in Nat
    BY <1>1, BoundsType DEF Object
  <2>7. WellFormed(n)
    BY <1>1, <2>3, <2>4, <2>6 DEF WellFormed, NoPolicy
  <2>8. m.progress # DefaultProgress
    BY <2>4 DEF DefaultProgress
  <2> HIDE DEF n, o
  <2>9. Follows(o, n)
    BY <2>4, <2>5, <2>8 DEF Follows
  <2> QED BY <1>3, <1>5, <2>1, <2>5, <2>7, <2>9 DEF n, o
<1> QED BY <1>4, <1>5

\* A newer policy, or a new object, is allowed by every version.
LEMMA PolicyFollows ==
    ASSUME TypeOK, Derived, ReuseRevisions = FALSE, NEW p \in 1..MaxPolicy
    PROVE  LET a == [object EXCEPT !.policy = p]
               b == [object EXCEPT !.uid = object.uid + 1, !.policy = p,
                                   !.progress = DefaultProgress,
                                   !.latched = NoPolicy]
           IN  /\ p > object.policy =>
                     /\ a \in Object /\ WellFormed(a) /\ Follows(object, a)
                     /\ Rel!Newer(Key(a), Key(object))
                     /\ Published(a) = DefaultProgress
                     /\ a.latched # a.policy
               /\ object.uid < MaxUid =>
                     /\ b \in Object /\ WellFormed(b) /\ Follows(object, b)
                     /\ Rel!Newer(Key(b), Key(object))
                     /\ Published(b) = DefaultProgress
                     /\ b.latched # b.policy
<1> DEFINE o == object
           a == [o EXCEPT !.policy = p]
           b == [o EXCEPT !.uid = o.uid + 1, !.policy = p,
                          !.progress = DefaultProgress, !.latched = NoPolicy]
<1>1. o \in Object /\ WellFormed(o) /\ now \in Nat \ {0}
  BY ObjectType DEF TypeOK, Derived, VersionsOrdered, object
<1>2. /\ o.policy \in 1..MaxPolicy /\ o.uid \in 1..MaxUid /\ o.progress \in Progress
      /\ o.latched \in Nat /\ MaxUid \in Nat /\ MaxPolicy \in Nat
  BY <1>1, BoundsType DEF Object
<1>3. ASSUME p > o.policy
      PROVE  /\ a \in Object /\ WellFormed(a) /\ Follows(o, a)
             /\ Rel!Newer(Key(a), Key(o))
             /\ Published(a) = DefaultProgress
             /\ a.latched # a.policy
  <2>1. a \in Object /\ a.uid = o.uid /\ a.policy = p /\ a.progress = o.progress
        /\ a.latched = o.latched
    BY <1>1 DEF Object
  <2>2. o.progress.policy \in Nat
    BY <1>2 DEF Progress
  <2> HIDE DEF a, o
  <2>3. WellFormed(a) /\ a.latched # a.policy /\ a.progress.policy # a.policy
    BY <1>1, <1>2, <1>3, <2>1, <2>2 DEF WellFormed
  <2>4. Rel!Newer(Key(a), Key(o))
    BY <1>2, <1>3, <2>1 DEF Rel!Newer, Key
  <2> QED BY <2>1, <2>3, <2>4 DEF Follows, Published
<1>4. ASSUME o.uid < MaxUid
      PROVE  /\ b \in Object /\ WellFormed(b) /\ Follows(o, b)
             /\ Rel!Newer(Key(b), Key(o))
             /\ Published(b) = DefaultProgress
             /\ b.latched # b.policy
  <2>1. o.uid + 1 \in 1..MaxUid
    BY <1>2, <1>4
  <2>2. b \in Object /\ b.uid = o.uid + 1 /\ b.policy = p
        /\ b.progress = DefaultProgress /\ b.latched = NoPolicy
    BY <1>1, <2>1, DefaultProgressType DEF Object, NoPolicy
  <2> HIDE DEF b, o
  <2>3. WellFormed(b) /\ b.latched # b.policy
    BY <1>1, <1>2, <2>2 DEF WellFormed, DefaultProgress, NoPolicy
  <2>4. Rel!Newer(Key(b), Key(o))
    BY <1>2, <2>2 DEF Rel!Newer, Key
  <2>5. Published(b) = DefaultProgress
    BY <2>2 DEF Published
  <2> QED BY <2>2, <2>3, <2>4, <2>5 DEF Follows
<1> QED BY <1>3, <1>4

LEMMA ServerDerived ==
    ASSUME TypeOK, Derived, ReuseRevisions = FALSE, Tick \/ Operator \/ Server
    PROVE  Derived'
<1>1. CASE Tick
  BY <1>1, TickDerived
<1>2. ASSUME NEW p \in 1..MaxPolicy, ApplyPolicy(p) PROVE Derived'
  <2>1. p > object.policy
    BY <1>2 DEF ApplyPolicy
  <2> QED BY <1>2, <2>1, PolicyFollows, WriteDerived DEF ApplyPolicy
<1>3. ASSUME NEW p \in 1..MaxPolicy, Recreate(p) PROVE Derived'
  BY <1>3, PolicyFollows, WriteDerived DEF Recreate
<1>4. ASSUME NEW m \in patches, ApplyPatch(m) PROVE Derived'
  BY <1>4, PatchedFollows, WriteDerived DEF ApplyPatch
<1>5. ASSUME NEW m \in patches, DropPatch(m) PROVE Derived'
  BY <1>5, LocalDerived, UnchangedStates DEF DropPatch
<1>6. ASSUME NEW r \in Replicas, CommandRollback(r) PROVE Derived'
  <2> DEFINE m == LatchPatch(Len(log))
  <2>1. patches' = patches \cup {m} /\ UNCHANGED <<now, log, seen, states>>
    BY <1>6 DEF CommandRollback, Commanded, Send
  <2>2. m.rv = Len(log) /\ m.field = "latched" /\ m.latched = log[m.rv].policy
    BY DEF LatchPatch
  <2> HIDE DEF m
  <2> QED BY <2>1, <2>2, ObjectType, LocalDerived, UnchangedStates
<1>7. ASSUME NEW g, Successor(object, g), Send(ProgressPatch(Len(log), g)),
             UNCHANGED <<now, log, seen, states>>
      PROVE  Derived'
  <2> DEFINE m == ProgressPatch(Len(log), g)
  <2>1. m.rv = Len(log) /\ m.field = "progress" /\ m.progress = g
    BY DEF ProgressPatch
  <2>2. patches' = patches \cup {m}
    BY <1>7 DEF Send
  <2> HIDE DEF m
  <2>3. Successor(log[m.rv], m.progress)
    BY <1>7, <2>1 DEF object
  <2> QED BY <1>7, <2>1, <2>2, <2>3, ObjectType, LocalDerived, UnchangedStates
<1>8. ASSUME NEW r \in Replicas, CommandPause(r) PROVE Derived'
  BY <1>8, <1>7, CommandSuccessor DEF CommandPause, Commanded
<1>9. ASSUME NEW r \in Replicas, CommandResume(r) PROVE Derived'
  BY <1>9, <1>7, CommandSuccessor DEF CommandResume, Commanded
<1>10. ASSUME NEW r \in Replicas, NEW stage \in StageSet, CommandApprove(r, stage)
       PROVE  Derived'
  BY <1>10, <1>7, CommandSuccessor DEF CommandApprove, Commanded
<1> QED
  BY <1>1, <1>2, <1>3, <1>4, <1>5, <1>6, <1>8, <1>9, <1>10 DEF Operator, Server

LEMMA ReplicaDerived ==
    ASSUME TypeOK, Derived, NEW r \in Replicas,
           Requests(r) \/ Controller(r) \/ Restart(r)
    PROVE  Derived'
<1> DEFINE Sound(q, k, p) == \E i \in 1..seen'[q] : Key(log[i]) = k /\ p = Published(log[i])
<1>1. ASSUME StartRequest(r) \/ Observe(r) \/ ObserveFails(r) PROVE Derived'
  <2>1. UNCHANGED <<now, log, seen, states, patches>>
    BY <1>1 DEF StartRequest, Observe, ObserveFails
  <2> QED BY <2>1, LocalDerived, UnchangedStates
<1>2. ASSUME NEW q \in inflight[r], CancelRequest(r, q) PROVE Derived'
  <2>1. UNCHANGED <<now, log, seen, states, patches>>
    BY <1>2 DEF CancelRequest
  <2> QED BY <2>1, LocalDerived, UnchangedStates
\* A sample that enters or leaves the window leaves the progress alone.
<1>3. ASSUME NEW k \in DOMAIN states[r], NEW s, s.progress = states[r][k].progress,
             states' = [states EXCEPT ![r] = [@ EXCEPT ![k] = s]],
             UNCHANGED <<now, log, seen, patches>>
      PROVE  Derived'
  <2>1. ASSUME NEW q \in Replicas, NEW j \in DOMAIN states'[q]
        PROVE  j \in DOMAIN states[q] /\ states'[q][j].progress = states[q][j].progress
    BY <1>3 DEF TypeOK
  <2>2. ASSUME NEW q \in Replicas, NEW j \in DOMAIN states'[q]
        PROVE  Sound(q, j, states'[q][j].progress)
    BY <1>3, <2>1 DEF Derived, StatesFromVersions
  <2> QED BY <1>3, <2>2, LocalDerived
<1>4. ASSUME NEW q \in inflight[r], NEW failed \in Outcomes, NEW slow \in Slows,
             FinishRequest(r, q, failed, slow)
      PROVE  Derived'
  <2> DEFINE s == Completed(states[r][q.key], q, failed, slow)
  <2>1. q.key \in DOMAIN states[r] /\ states[r][q.key] \in State
    BY DEF TypeOK
  <2>2. s.progress = states[r][q.key].progress
    BY <2>1 DEF Completed, State
  <2>3. states' = [states EXCEPT ![r] = [@ EXCEPT ![q.key] = s]]
        /\ UNCHANGED <<now, log, seen, patches>>
    BY <1>4 DEF FinishRequest
  <2> HIDE DEF s
  <2> QED BY <1>3, <2>1, <2>2, <2>3
<1>5. ASSUME NEW k \in DOMAIN states[r], NEW failed \in Outcomes, NEW slow \in Slows,
             Prune(r, k, failed, slow)
      PROVE  Derived'
  <2> DEFINE s == [states[r][k] EXCEPT
                     !.totals = RemoveSample(states[r][k].totals, failed, slow)]
  <2>1. states[r][k] \in State
    BY DEF TypeOK
  <2>2. s.progress = states[r][k].progress
    BY <2>1 DEF State
  <2>3. states' = [states EXCEPT ![r] = [@ EXCEPT ![k] = s]]
        /\ UNCHANGED <<now, log, seen, patches>>
    BY <1>5 DEF Prune, TypeOK
  <2> HIDE DEF s
  <2> QED BY <1>3, <2>2, <2>3
\* A replica that reads version v still only holds published progress.
<1>6. ASSUME NEW v \in seen[r]..Len(log), seen' = [seen EXCEPT ![r] = v],
             NEW q \in Replicas, NEW j \in DOMAIN states[q]
      PROVE  Sound(q, j, states[q][j].progress)
  <2>1. PICK i \in 1..seen[q] : Key(log[i]) = j /\ states[q][j].progress = Published(log[i])
    BY DEF Derived, StatesFromVersions
  <2>2. i \in 1..seen'[q]
    BY <1>6 DEF TypeOK
  <2> QED BY <2>1, <2>2
<1>7. ASSUME NEW v \in seen[r]..Len(log), Build(r, v) PROVE Derived'
  <2> DEFINE o    == log[v]
             k    == Key(o)
             kept == (DOMAIN states[r]) \cap (Referenced(r) \cup {k})
             old  == IF k \in DOMAIN states[r] THEN states[r][k] ELSE NewState
             sync == Synced(k, old, o.progress)
             new  == [sync EXCEPT !.latched = @ \/ o.latched = o.policy]
             f    == [j \in kept \cup {k} |-> IF j = k THEN new ELSE states[r][j]]
  <2>1. v \in 1..Len(log) /\ o \in Object /\ o.progress \in Progress
    <3>1. v \in 1..Len(log)
      BY DEF TypeOK
    <3> QED BY <3>1, ObjectType DEF Object
  <2>2. old \in State
    BY NewStateType DEF TypeOK
  <2>3. \/ old.progress = DefaultProgress
        \/ k \in DOMAIN states[r] /\ old.progress = states[r][k].progress
    BY DEF NewState
  <2>4. sync.progress = Published(o) /\ sync \in State
    <3> HIDE DEF old
    <3> QED BY <2>1, <2>2, <2>3, SyncedProgress, SyncedType
  <2>5. new.progress = Published(o)
    <3> HIDE DEF sync
    <3> QED BY <2>4 DEF State
  <2>6. /\ seen' = [seen EXCEPT ![r] = v]
        /\ states' = [states EXCEPT ![r] = f]
        /\ UNCHANGED <<now, log, patches>>
    BY <1>7 DEF Build, Deliver
  <2>7. ASSUME NEW q \in Replicas, NEW j \in DOMAIN states'[q]
        PROVE  Sound(q, j, states'[q][j].progress)
    <3> HIDE DEF new, kept
    <3>1. CASE q = r /\ j = k
      <4>1. states'[q][j] = new /\ v \in 1..seen'[q]
        BY <2>1, <2>6, <3>1 DEF TypeOK
      <4> QED BY <2>5, <3>1, <4>1
    <3>2. CASE ~(q = r /\ j = k)
      <4>1. j \in DOMAIN states[q] /\ states'[q][j] = states[q][j]
        BY <2>6, <3>2 DEF TypeOK, kept
      <4> HIDE DEF Sound
      <4> QED BY <1>6, <2>6, <4>1
    <3> QED BY <3>1, <3>2
  <2> HIDE DEF f
  <2> QED BY <2>6, <2>7, LocalDerived
<1>8. ASSUME NEW v \in seen[r]..Len(log), ReconcileRollback(r, v) PROVE Derived'
  <2> DEFINE m == LatchPatch(v)
  <2>1. v \in 1..Len(log)
    BY DEF TypeOK
  <2>2. m.rv = v /\ m.field = "latched" /\ m.latched = log[m.rv].policy
    BY DEF LatchPatch
  <2>3. /\ patches' = patches \cup {m}
        /\ seen' = [seen EXCEPT ![r] = v]
        /\ UNCHANGED <<now, log, states>>
    BY <1>8 DEF ReconcileRollback, Send, Deliver
  <2> HIDE DEF m
  <2>4. ASSUME NEW q \in Replicas, NEW j \in DOMAIN states'[q]
        PROVE  Sound(q, j, states'[q][j].progress)
    BY <1>6, <2>3
  <2> QED BY <2>1, <2>2, <2>3, <2>4, LocalDerived
<1>9. ASSUME NEW v \in seen[r]..Len(log), NEW gates \in BOOLEAN,
             ReconcileProgress(r, v, gates)
      PROVE  Derived'
  <2> DEFINE o    == log[v]
             k    == Key(o)
             s    == Synced(k, states[r][k], o.progress)
             ev   == FleetSamples(r, SampleKey(k, s.progress))
             next == NextProgress(o.policy, s.progress, now, gates, s.latched, ev)
  <2>1. /\ v \in 1..Len(log) /\ o \in Object /\ k \in DOMAIN states[r]
        /\ states[r][k] \in State /\ WellFormed(o) /\ now \in Nat \ {0}
    BY <1>9, ObjectType DEF TypeOK, ReconcileProgress, Derived, VersionsOrdered
  <2>2. s.progress = Published(o)
    BY <2>1, SyncedProgress
  <2>3. /\ seen' = [seen EXCEPT ![r] = v]
        /\ states' = [states EXCEPT ![r] = [@ EXCEPT ![k] = s]]
        /\ UNCHANGED <<now, log>>
        /\ patches' = patches \/ \E g \in next : patches' = patches \cup {ProgressPatch(v, g)}
    BY <1>9 DEF ReconcileProgress, Deliver, Send
  <2>4. \A g \in next : Successor(o, g)
    <3> HIDE DEF s, ev
    <3> QED BY <2>1, <2>2, NextSuccessor
  <2> HIDE DEF next, s
  <2>5. ASSUME NEW m \in patches' \ patches
        PROVE  m.rv = v /\ m.field = "progress" /\ Successor(o, m.progress)
    BY <2>3, <2>4 DEF ProgressPatch
  <2>6. ASSUME NEW q \in Replicas, NEW j \in DOMAIN states'[q]
        PROVE  Sound(q, j, states'[q][j].progress)
    <3>1. CASE q = r /\ j = k
      <4>1. states'[q][j] = s /\ v \in 1..seen'[q]
        BY <2>1, <2>3, <3>1 DEF TypeOK
      <4> QED BY <2>2, <3>1, <4>1
    <3>2. CASE ~(q = r /\ j = k)
      <4>1. j \in DOMAIN states[q] /\ states'[q][j] = states[q][j]
        BY <2>3, <3>2 DEF TypeOK
      <4> HIDE DEF Sound
      <4> QED BY <1>6, <2>3, <4>1
    <3> QED BY <3>1, <3>2
  <2> QED BY <2>1, <2>3, <2>5, <2>6, LocalDerived
<1>10. ASSUME Restart(r) PROVE Derived'
  <2>1. /\ seen' = [seen EXCEPT ![r] = Len(log)]
        /\ states' = [states EXCEPT ![r] = NoStates]
        /\ UNCHANGED <<now, log, patches>>
    BY <1>10 DEF Restart
  <2>2. Len(log) \in seen[r]..Len(log)
    BY DEF TypeOK
  <2>3. ASSUME NEW q \in Replicas, NEW j \in DOMAIN states'[q]
        PROVE  Sound(q, j, states'[q][j].progress)
    <3>1. q # r /\ states'[q] = states[q]
      BY <2>1 DEF TypeOK, NoStates
    <3> HIDE DEF Sound
    <3> QED BY <1>6, <2>1, <2>2, <3>1
  <2> QED BY <2>1, <2>3, LocalDerived
<1> QED
  BY <1>1, <1>2, <1>4, <1>5, <1>7, <1>8, <1>9, <1>10 DEF Requests, Controller

LEMMA InitDerived == Init => Derived
<1> SUFFICES ASSUME Init PROVE Derived
  OBVIOUS
<1> DEFINE o == [uid |-> 1, policy |-> 1, progress |-> DefaultProgress, latched |-> NoPolicy]
<1>1. log = <<o>> /\ now = 1 /\ patches = {} /\ \A r \in Replicas : states[r] = NoStates
  BY DEF Init
<1>2. Len(log) = 1 /\ log[1] = o /\ o \in Object
  BY <1>1, InitType DEF TypeOK
<1>3. WellFormed(o)
  BY <1>1 DEF WellFormed, DefaultProgress, NoPolicy
<1>4. Follows(o, o)
  BY <1>2, FollowsReflexive
<1> HIDE DEF o
<1>5. VersionsOrdered
  BY <1>2, <1>3, <1>4 DEF VersionsOrdered
<1>6. StatesFromVersions
  BY <1>1 DEF StatesFromVersions, NoStates
<1> QED BY <1>1, <1>5, <1>6 DEF Derived, PatchesFromVersions

LEMMA NextDerived ==
    ASSUME ReuseRevisions = FALSE
    PROVE  TypeOK /\ Derived /\ [Next]_vars => Derived'
<1> SUFFICES ASSUME TypeOK, Derived, [Next]_vars PROVE Derived'
  OBVIOUS
<1>1. CASE UNCHANGED vars
  BY <1>1, LocalDerived, UnchangedStates DEF vars
<1>2. CASE Next
  BY <1>2, ServerDerived, ReplicaDerived DEF Next
<1> QED BY <1>1, <1>2

\* While no old policy is applied again, everything the replicas hold and send
\* derives from versions of the object that only move forward.
THEOREM DerivedInvariant ==
    ASSUME ReuseRevisions = FALSE
    PROVE  Spec => []Derived
  BY InitType, NextType, InitDerived, NextDerived, PTL DEF Spec

\* No replica routes by a stage, or observes from a start, that the object has
\* not published for its current policy (sync_progress is fed by the watch, and
\* reconcile_object publishes before it adopts).
THEOREM ReplicasNeverAhead ==
    ASSUME ReuseRevisions = FALSE
    PROVE  Spec => []NeverAhead
<1>1. TypeOK /\ Derived => NeverAhead
  <2> SUFFICES ASSUME TypeOK, Derived, NEW r \in Replicas, NEW k \in DOMAIN states[r],
                      k = Key(object)
               PROVE  /\ states[r][k].progress.stage <= Published(object).stage
                      /\ states[r][k].progress.started <= Published(object).started
    BY DEF NeverAhead
  <2>1. PICK i \in 1..seen[r] : Key(log[i]) = k /\ states[r][k].progress = Published(log[i])
    BY DEF Derived, StatesFromVersions
  <2>2. i \in 1..Len(log) /\ i <= Len(log) /\ Len(log) \in 1..Len(log)
    BY DEF TypeOK
  <2>3. Follows(log[i], object)
    BY <2>2 DEF Derived, VersionsOrdered, object
  <2>4. ~Rel!Newer(k, k)
    <3>1. object \in Object
      BY ObjectType
    <3> QED BY <3>1 DEF Rel!Newer, Key, Object
  <2> QED BY <2>1, <2>3, <2>4 DEF Follows
<1> QED BY <1>1, TypeCorrect, DerivedInvariant, PTL

-----------------------------------------------------------------------------
(* The annotations implement module Release.                               *)

\* The instance's copies of the operators of module Rollout.
LEMMA SameOperators ==
    /\ Rel!DefaultProgress = DefaultProgress
    /\ \A p, t : Rel!Initial(p, t) = Initial(p, t)
    /\ \A g, t : Rel!Advanced(g, t) = Advanced(g, t)
<1>1. Rel!DefaultProgress = DefaultProgress
  BY DEF DefaultProgress, Rel!DefaultProgress, NoPolicy, NoStage, Rel!NoPolicy, Rel!NoStage
<1>2. \A p, t : Rel!Initial(p, t) = Initial(p, t)
  BY <1>1 DEF Initial, Rel!Initial
<1>3. \A g, t : Rel!Advanced(g, t) = Advanced(g, t)
  BY DEF Advanced, Rel!Advanced, NoStage, Rel!NoStage
<1> QED BY <1>1, <1>2, <1>3

LEMMA InitRefines == Init => Rel!Init
<1> SUFFICES ASSUME Init PROVE Rel!Init
  OBVIOUS
<1>1. object = [uid |-> 1, policy |-> 1, progress |-> DefaultProgress, latched |-> NoPolicy]
  BY DEF Init, object
<1>2. Key(object) = <<1, 1>> /\ Published(object) = DefaultProgress
      /\ object.latched # object.policy
  BY <1>1 DEF Key, Published, NoPolicy
<1> QED BY <1>2, SameOperators DEF Rel!Init

\* A successor of the published progress is one step of a release.
LEMMA SuccessorRefines ==
    ASSUME TypeOK, Derived, NEW g \in Progress, Successor(object, g),
           Key(object') = Key(object), Published(object') = g,
           (object.latched = object.policy)' = (object.latched = object.policy)
    PROVE  Rel!Next
<1> DEFINE o == object
           p == Published(o)
           c == IF p = DefaultProgress THEN Initial(o.policy, g.started) ELSE p
<1>1. o \in Object /\ WellFormed(o) /\ now \in Nat \ {0} /\ Key(o)[2] = o.policy
  BY ObjectType DEF TypeOK, Derived, VersionsOrdered, object, Key
<1>2. p # DefaultProgress <=> p.started # 0
  BY <1>1, PublishedType
<1>3. g.started # 0 /\ ~p.promoted
  BY DEF Successor
<1>4. UNCHANGED <<Key(object), object.latched = object.policy>>
  OBVIOUS
<1>5. CASE p = DefaultProgress /\ g = Initial(o.policy, g.started)
  BY <1>1, <1>3, <1>4, <1>5, SameOperators DEF Rel!Next, Rel!Begin
<1>6. CASE /\ p # DefaultProgress /\ ~p.paused
           /\ Steps[p.stage + 1].approval => p.approved = p.stage
           /\ g = Advanced(p, g.started)
  BY <1>2, <1>3, <1>4, <1>6, SameOperators DEF Rel!Next, Rel!Advance
<1>7. CASE g = [c EXCEPT !.paused = TRUE]
  BY <1>1, <1>3, <1>4, <1>7, SameOperators DEF Rel!Next, Rel!Pause, Rel!Commanded, Rel!Current
<1>8. CASE g = [c EXCEPT !.paused = FALSE, !.started = g.started]
  BY <1>1, <1>3, <1>4, <1>8, SameOperators DEF Rel!Next, Rel!Resume, Rel!Commanded, Rel!Current
<1>9. CASE g = [c EXCEPT !.approved = g.stage]
  BY <1>1, <1>3, <1>4, <1>9, SameOperators DEF Rel!Next, Rel!Approve, Rel!Commanded, Rel!Current
<1> QED BY <1>5, <1>6, <1>7, <1>8, <1>9 DEF Successor

LEMMA UnchangedRefines ==
    ASSUME UNCHANGED log PROVE UNCHANGED Rel!vars
  BY DEF Rel!vars, object, Key, Published

LEMMA WriteRefines ==
    ASSUME TypeOK, NEW o, Write(o)
    PROVE  object' = o
<1>1. CASE o = object
  BY <1>1 DEF Write, object
<1>2. CASE o # object
  BY <1>2 DEF Write, object, TypeOK
<1> QED BY <1>1, <1>2

LEMMA NextRefines ==
    ASSUME ReuseRevisions = FALSE
    PROVE  TypeOK /\ TypeOK' /\ Derived /\ [Next]_vars => [Rel!Next]_(Rel!vars)
<1> SUFFICES ASSUME TypeOK, TypeOK', Derived, [Next]_vars
             PROVE  [Rel!Next]_(Rel!vars)
  OBVIOUS
<1>1. CASE UNCHANGED log
  BY <1>1, UnchangedRefines
\* A newer policy, or a recreated object.
<1>2. ASSUME NEW o \in Object, Write(o), Rel!Newer(Key(o), Key(object)),
             Published(o) = DefaultProgress, o.latched # o.policy
      PROVE  Rel!Publish
  <2>1. object' = o
    BY <1>2, WriteRefines
  <2>2. Key(o) \in Nat \X (Nat \ {0})
    BY BoundsType DEF Key, Object
  <2> QED BY <1>2, <2>1, <2>2, SameOperators DEF Rel!Publish
<1>3. ASSUME NEW p \in 1..MaxPolicy, ApplyPolicy(p) PROVE Rel!Next
  <2>1. p > object.policy
    BY <1>3 DEF ApplyPolicy
  <2> QED BY <1>2, <1>3, <2>1, PolicyFollows DEF ApplyPolicy, Rel!Next
<1>4. ASSUME NEW p \in 1..MaxPolicy, Recreate(p) PROVE Rel!Next
  BY <1>2, <1>4, PolicyFollows DEF Recreate, Rel!Next
<1>5. ASSUME NEW m \in patches, ApplyPatch(m) PROVE Rel!Next
  <2>1. object' = Patched(object, m) /\ m.rv = Len(log) /\ m \in Patch
    BY <1>5, WriteRefines DEF ApplyPatch, TypeOK
  <2>2. object \in Object
    BY ObjectType
  <2>3. CASE m.field = "latched"
    <3>1. m.latched = object.policy
      BY <2>1, <2>3 DEF Derived, PatchesFromVersions, object
    <3>2. /\ Key(object') = Key(object)
          /\ Published(object') = Published(object)
          /\ object'.latched = object'.policy
      BY <2>1, <2>2, <2>3, <3>1 DEF Patched, Object, Key, Published
    <3> QED BY <3>2 DEF Rel!Next, Rel!RollBack
  <2>4. CASE m.field # "latched"
    <3>1. /\ Successor(object, m.progress)
          /\ Published(object') = m.progress
          /\ m.progress \in Progress
      BY <2>1, <2>4, PatchedFollows DEF Patch
    <3>2. /\ Key(object') = Key(object)
          /\ object'.latched = object.latched
          /\ object'.policy = object.policy
      BY <2>1, <2>2, <2>4 DEF Patched, Object, Key, Patch
    <3> QED BY <3>1, <3>2, SuccessorRefines
  <2> QED BY <2>3, <2>4
<1>6. ASSUME NEW m \in patches, DropPatch(m) PROVE UNCHANGED log
  BY <1>6 DEF DropPatch
<1>7. CASE Operator
  <2>1. ASSUME NEW r \in Replicas,
               \/ CommandRollback(r) \/ CommandPause(r) \/ CommandResume(r)
               \/ \E s \in StageSet : CommandApprove(r, s)
        PROVE  UNCHANGED log
    BY <2>1, ZenonT(40) DEF CommandRollback, CommandPause, CommandResume, CommandApprove, Commanded
  <2> QED BY <1>1, <1>3, <1>4, <1>7, <2>1 DEF Operator
<1>8. ASSUME NEW r \in Replicas, Requests(r) \/ Controller(r) \/ Restart(r)
      PROVE  UNCHANGED log
  BY <1>8, ZenonT(40) DEF Requests, Controller, Restart, StartRequest, FinishRequest,
              CancelRequest, Build, ReconcileRollback, ReconcileProgress, Observe,
              ObserveFails, Prune
<1>9. CASE Tick \/ UNCHANGED vars
  BY <1>1, <1>9 DEF Tick, vars
<1> QED BY <1>1, <1>5, <1>6, <1>7, <1>8, <1>9 DEF Next, Server

\* The annotations behave like a release of module Release for any number of
\* replicas and leaders, however late their watches and patches are: the
\* resourceVersion check of command and reconcile_object is all it takes, as
\* long as no old policy is applied again.
THEOREM FleetImplementsRelease ==
    ASSUME ReuseRevisions = FALSE
    PROVE  Spec => ImplementsRelease
<1>1. Init => Rel!Init
  BY InitRefines
<1>2. TypeOK /\ TypeOK' /\ Derived /\ [Next]_vars => [Rel!Next]_(Rel!vars)
  BY NextRefines
<1> QED BY <1>1, <1>2, TypeCorrect, DerivedInvariant, PTL
        DEF Spec, ImplementsRelease, Rel!Spec

-----------------------------------------------------------------------------
(* A stage is left on evidence.  Replica r completed done[r] requests in   *)
(* the published stage since its start; whatever is in a window, a Lease   *)
(* or an observation under that stage and start is at most that.           *)

CurrentKey  == SampleKey(Key(object), Published(object))
VersionKeys == {SampleKey(Key(log[i]), Published(log[i])) : i \in 1..Len(log)}
WantedCount == Steps[Published(object).stage + 1].min_requests

\* The windows in which samples of stage and start key are counted.
Windows(st, done, key) ==
    \A r \in Replicas : \A k \in DOMAIN st[r] :
        SampleKey(k, st[r][k].progress) = key => st[r][k].totals.count <= done[r]

\* A report names published stages, and at most n samples under key.
Honest(rep, n, keys, key) ==
    \A sk \in DOMAIN rep.samples :
        /\ rep.samples[sk] \in Samples
        /\ sk \in keys
        /\ sk = key => rep.samples[sk].count <= n

Reports(rep, done, keys, key) ==
    DOMAIN rep = Replicas /\ \A r \in Replicas : Honest(rep[r], done[r], keys, key)

Views(vw, done, keys, key) ==
    /\ DOMAIN vw = Leaders
    /\ \A l \in Leaders : \A r \in Replicas : Honest(vw[l].peers[r], done[r], keys, key)

Enough(ev, done, wanted) == ev >= SumFunctionOnSet(done, Replicas) \/ ev >= wanted

Accounted(done) ==
    /\ Enough(evidence, done, WantedCount)
    /\ Windows(states, done, CurrentKey)
    /\ Reports(report, done, VersionKeys, CurrentKey)
    /\ Views(view, done, VersionKeys, CurrentKey)

\* m, if it may still be applied, leaves the stage that o publishes.
Leaves(m, o, v) ==
    /\ m.rv = v /\ m.field = "progress"
    /\ Published(o).started # 0
    /\ m.progress.stage # Published(o).stage \/ m.progress.promoted

PatchesHaveEvidence ==
    \A m \in patches : Leaves(m, object, Len(log)) => evidence >= WantedCount

\* Requests of one stage and start are counted once, wherever the counts went,
\* and a patch that leaves the stage was decided on enough of them.
EvidenceCounted ==
    /\ \E done \in [Replicas -> Nat] : Accounted(done)
    /\ PatchesHaveEvidence

LEMMA SampleKeyIs ==
    ASSUME NEW k, NEW g, NEW l, NEW h
    PROVE  /\ SampleKey(k, g) = SampleKey(l, h) <=>
                 k = l /\ g.stage = h.stage /\ g.started = h.started
           /\ SampleKey(k, g)[1] = k
  BY DEF SampleKey

LEMMA WantedType ==
    ASSUME TypeOK PROVE WantedCount \in Nat /\ Published(object) \in Progress
<1>1. object \in Object
  BY ObjectType
<1>2. Published(object) \in Progress
  BY <1>1, DefaultProgressType DEF Published, Object
<1>3. Published(object).stage + 1 \in 1..Len(Steps)
  BY <1>2, StepsAssumption DEF Progress, StageSet
<1>4. ASSUME NEW i \in 1..Len(Steps) PROVE Steps[i].min_requests \in Nat
  <2>1. PICK R : R = [duration : Nat, min_requests : Nat, approval : BOOLEAN]
    OBVIOUS
  <2>2. Steps \in Seq(R)
    BY <2>1, StepsAssumption
  <2>3. Steps[i] \in R
    BY <2>2
  <2> QED BY <2>1, <2>3
<1> QED BY <1>2, <1>3, <1>4 DEF WantedCount

\* The windows of a replica name published stages.
LEMMA WindowsPublished ==
    ASSUME TypeOK, Derived, NEW r \in Replicas, NEW k \in DOMAIN states[r]
    PROVE  SampleKey(k, states[r][k].progress) \in VersionKeys
<1>1. PICK i \in 1..seen[r] : Key(log[i]) = k /\ states[r][k].progress = Published(log[i])
  BY DEF Derived, StatesFromVersions
<1>2. i \in 1..Len(log)
  BY DEF TypeOK
<1> QED BY <1>1, <1>2 DEF VersionKeys

\* A published stage and start never comes back after it was left.
LEMMA FreshKey ==
    ASSUME TypeOK, Derived, NEW o \in Object, Follows(object, o),
           SampleKey(Key(o), Published(o)) # CurrentKey
    PROVE  SampleKey(Key(o), Published(o)) \notin VersionKeys
<1>1. SUFFICES ASSUME NEW i \in 1..Len(log),
                      SampleKey(Key(o), Published(o)) = SampleKey(Key(log[i]), Published(log[i]))
               PROVE  FALSE
  BY DEF VersionKeys
<1>2. Follows(log[i], object) /\ log[i] \in Object /\ object \in Object
  BY ObjectType DEF Derived, VersionsOrdered, object, TypeOK
<1>3. /\ Published(o) \in Progress
      /\ Published(object) \in Progress
  BY <1>2, DefaultProgressType DEF Published, Object
<1>4. /\ Key(o) = Key(log[i])
      /\ Published(o).stage = Published(log[i]).stage
      /\ Published(o).started = Published(log[i]).started
  BY <1>1, SampleKeyIs
<1>5. ~(Rel!Newer(Key(o), Key(object)) /\ (Rel!Newer(Key(object), Key(o)) \/ Key(object) = Key(o)))
      /\ ~(Rel!Newer(Key(object), Key(o)) /\ Key(o) = Key(object))
  BY <1>2 DEF Rel!Newer, Key, Object
<1>6. /\ Key(o) = Key(object)
      /\ Published(object).stage <= Published(o).stage
      /\ Published(object).started <= Published(o).started
      /\ Published(o).stage <= Published(object).stage
      /\ Published(o).started <= Published(object).started
  BY <1>2, <1>4, <1>5 DEF Follows
<1>7. Published(o).stage = Published(object).stage /\ Published(o).started = Published(object).started
  BY <1>3, <1>6 DEF Progress, StageSet
<1> QED BY <1>6, <1>7, SampleKeyIs DEF CurrentKey

LEMMA HonestGrows ==
    ASSUME NEW rep, NEW n, NEW keys, NEW more, NEW key, keys \subseteq more,
           Honest(rep, n, keys, key)
    PROVE  Honest(rep, n, more, key)
  BY DEF Honest

LEMMA HonestOther ==
    ASSUME NEW rep, NEW n, NEW keys, NEW more, NEW key, NEW m, NEW other,
           keys \subseteq more, other \notin keys, Honest(rep, n, keys, key)
    PROVE  Honest(rep, m, more, other)
  BY DEF Honest

LEMMA HonestMore ==
    ASSUME NEW rep, NEW n \in Nat, NEW m \in Nat, NEW keys, NEW key, n <= m,
           Honest(rep, n, keys, key)
    PROVE  Honest(rep, m, keys, key)
  BY DEF Honest, Samples

LEMMA HonestNothing ==
    ASSUME NEW n, NEW keys, NEW key
    PROVE  /\ Honest(NoReport, n, keys, key)
           /\ \A r \in Replicas : Honest(NoView.peers[r], n, keys, key)
<1>1. DOMAIN NoReport.samples = {}
  BY DEF NoReport
<1>2. Honest(NoReport, n, keys, key)
  BY <1>1 DEF Honest
<1>3. \A r \in Replicas : NoView.peers[r] = NoReport
  BY DEF NoView
<1> QED BY <1>2, <1>3

\* What a replica reports is what its windows hold.
LEMMA LocalHonest ==
    ASSUME TypeOK, Derived, NEW done \in [Replicas -> Nat], Accounted(done), NEW r \in Replicas
    PROVE  Honest(LocalReport(r), done[r], VersionKeys, CurrentKey)
<1>1. SUFFICES ASSUME NEW sk \in DOMAIN LocalReport(r).samples
               PROVE  /\ LocalReport(r).samples[sk] \in Samples
                      /\ sk \in VersionKeys
                      /\ sk = CurrentKey => LocalReport(r).samples[sk].count <= done[r]
  BY DEF Honest
<1>2. /\ sk \in {SampleKey(k, states[r][k].progress) : k \in DOMAIN states[r]}
      /\ LocalReport(r).samples[sk] = states[r][sk[1]].totals
  BY DEF LocalReport
<1>3. PICK k \in DOMAIN states[r] : sk = SampleKey(k, states[r][k].progress)
  BY <1>2
<1>4. sk[1] = k
  BY <1>3, SampleKeyIs
<1>5. states[r][k].totals \in Samples
  BY DEF TypeOK, State
<1>6. sk = CurrentKey => states[r][k].totals.count <= done[r]
  BY <1>3 DEF Accounted, Windows
<1> QED BY <1>2, <1>3, <1>4, <1>5, <1>6, WindowsPublished

\* rollout_samples never adds up more than the fleet completed.
LEMMA FleetCount ==
    ASSUME TypeOK, NEW done \in [Replicas -> Nat], Accounted(done), NEW l \in Leaders,
           NEW t \in FleetSamples(l, CurrentKey)
    PROVE  t.count \in Nat /\ t.count <= SumFunctionOnSet(done, Replicas)
<1> DEFINE peers == view[l].peers
           h == [q \in Replicas |-> peers[q].samples[CurrentKey].count]
<1>1. \A q \in Replicas : CurrentKey \in DOMAIN peers[q].samples
  BY DEF FleetSamples
<1>2. t.count = SumFunctionOnSet(h, Replicas)
  BY DEF FleetSamples
<1>3. \A q \in Replicas : /\ peers[q].samples[CurrentKey] \in Samples
                          /\ peers[q].samples[CurrentKey].count <= done[q]
  BY <1>1 DEF Accounted, Views, Honest
<1>4. h \in [Replicas -> Nat] /\ \A q \in Replicas : h[q] <= done[q]
  BY <1>3 DEF Samples
<1> HIDE DEF h
<1> QED BY <1>2, <1>4, FleetAssumption, SumMonotone, SumIs

\* Reading an annotation keeps the samples only of the same stage and start.
LEMMA SyncedWindow ==
    ASSUME NEW k, NEW s \in State, NEW ann, NEW n \in Nat, NEW key,
           SampleKey(k, s.progress) = key => s.totals.count <= n
    PROVE  LET u == Synced(k, s, ann) IN
           SampleKey(k, u.progress) = key => u.totals.count <= n
<1> DEFINE u == Synced(k, s, ann)
           g == SyncProgress(k[2], s.progress, ann)
<1>1. u.progress = g /\ u.totals = IF SyncClears(s.progress, g) THEN NoSamples ELSE s.totals
  BY DEF Synced, State
<1>2. CASE SyncClears(s.progress, g)
  BY <1>1, <1>2 DEF NoSamples
<1>3. CASE ~SyncClears(s.progress, g)
  <2>1. s.progress.stage = g.stage /\ s.progress.started = g.started
    BY <1>3 DEF SyncClears
  <2>2. SampleKey(k, s.progress) = SampleKey(k, g)
    BY <2>1 DEF SampleKey
  <2> QED BY <1>1, <1>3, <2>2
<1> QED BY <1>2, <1>3

LEMMA WindowChange ==
    ASSUME TypeOK, NEW done, NEW key, Windows(states, done, key), NEW r \in Replicas, NEW f,
           states' = [states EXCEPT ![r] = f],
           \A k \in DOMAIN f : SampleKey(k, f[k].progress) = key => f[k].totals.count <= done[r]
    PROVE  Windows(states', done, key)
<1>1. states'[r] = f /\ \A q \in Replicas : q # r => states'[q] = states[q]
  BY DEF TypeOK
<1> QED BY <1>1 DEF Windows

LEMMA WindowOneChange ==
    ASSUME TypeOK, NEW done, NEW key, Windows(states, done, key), NEW r \in Replicas,
           NEW k \in DOMAIN states[r], NEW s,
           states' = [states EXCEPT ![r] = [@ EXCEPT ![k] = s]],
           SampleKey(k, s.progress) = key => s.totals.count <= done[r]
    PROVE  Windows(states', done, key)
<1>1. PICK f : f = [states[r] EXCEPT ![k] = s]
  OBVIOUS
<1>2. states' = [states EXCEPT ![r] = f]
  BY <1>1 DEF TypeOK
<1>3. DOMAIN f = DOMAIN states[r] /\ f[k] = s /\ \A j \in DOMAIN f : j # k => f[j] = states[r][j]
  BY <1>1 DEF TypeOK
<1>4. ASSUME NEW j \in DOMAIN f, SampleKey(j, f[j].progress) = key PROVE f[j].totals.count <= done[r]
  BY <1>3, <1>4 DEF Windows
<1> QED BY <1>2, <1>4, WindowChange

\* A step that leaves the object alone and forgets no evidence.
LEMMA LocalCounted ==
    ASSUME TypeOK, TypeOK', NEW done \in [Replicas -> Nat], UNCHANGED log,
           Enough(evidence', done, WantedCount), evidence' >= evidence,
           Windows(states', done, CurrentKey),
           Reports(report', done, VersionKeys, CurrentKey),
           Views(view', done, VersionKeys, CurrentKey),
           PatchesHaveEvidence,
           \A m \in patches' \ patches : Leaves(m, object, Len(log)) => evidence' >= WantedCount
    PROVE  EvidenceCounted'
<1>1. object' = object /\ VersionKeys' = VersionKeys
  BY DEF object, VersionKeys
<1>2. CurrentKey' = CurrentKey /\ WantedCount' = WantedCount
  BY <1>1 DEF CurrentKey, WantedCount
<1>3. Accounted(done)'
  BY <1>1, <1>2 DEF Accounted
<1>4. evidence \in Nat /\ evidence' \in Nat /\ WantedCount \in Nat
  BY WantedType DEF TypeOK
<1>5. PatchesHaveEvidence'
  BY <1>1, <1>2, <1>4 DEF PatchesHaveEvidence
<1> QED BY <1>3, <1>5 DEF EvidenceCounted

LEMMA WriteCounted ==
    ASSUME TypeOK, Derived, EvidenceCounted, NEW o \in Object, Follows(object, o), Write(o),
           patches' \subseteq patches, UNCHANGED <<states, report, view>>
    PROVE  EvidenceCounted'
<1>1. PICK done \in [Replicas -> Nat] : Accounted(done)
  BY DEF EvidenceCounted
<1>2. CASE o = object
  <2>1. UNCHANGED <<log, evidence>>
    BY <1>2 DEF Write
  <2>2. object' = object /\ VersionKeys' = VersionKeys
    BY <2>1 DEF object, VersionKeys
  <2>3. CurrentKey' = CurrentKey /\ WantedCount' = WantedCount
    BY <2>2 DEF CurrentKey, WantedCount
  <2>4. Accounted(done)'
    BY <1>1, <2>1, <2>2, <2>3 DEF Accounted
  <2>5. PatchesHaveEvidence'
    BY <2>1, <2>2, <2>3 DEF PatchesHaveEvidence, EvidenceCounted
  <2> QED BY <2>4, <2>5 DEF EvidenceCounted
<1>3. CASE o # object
  <2>1. /\ log' = Append(log, o) /\ object' = o /\ Len(log') = Len(log) + 1
        /\ \A i \in 1..Len(log) : i \in 1..Len(log') /\ log'[i] = log[i]
    <3>1. log' = Append(log, o) /\ log \in Seq(Object)
      BY <1>3 DEF Write, TypeOK
    <3>2. object' = o
      BY WriteRefines
    <3> QED BY <3>1, <3>2
  <2>2. VersionKeys \subseteq VersionKeys'
    BY <2>1 DEF VersionKeys
  <2>3. PatchesHaveEvidence'
    <3>1. \A m \in patches : m.rv # Len(log')
      BY <2>1 DEF Derived, PatchesFromVersions
    <3> QED BY <3>1 DEF PatchesHaveEvidence, Leaves
  <2>4. CASE SampleKey(Key(o), Published(o)) = CurrentKey
    <3>1. evidence' = evidence /\ CurrentKey' = CurrentKey
      BY <1>3, <2>1, <2>4 DEF Write, CurrentKey
    <3>2. WantedCount' = WantedCount
      <4>1. Published(o).stage = Published(object).stage
        BY <2>4, SampleKeyIs DEF CurrentKey
      <4> QED BY <2>1, <4>1 DEF WantedCount
    <3>3. Reports(report', done, VersionKeys', CurrentKey) /\ Views(view', done, VersionKeys', CurrentKey)
      BY <1>1, <2>2, HonestGrows DEF Accounted, Reports, Views
    <3>4. Accounted(done)'
      BY <1>1, <3>1, <3>2, <3>3 DEF Accounted
    <3> QED BY <2>3, <3>4 DEF EvidenceCounted
  <2>5. CASE SampleKey(Key(o), Published(o)) # CurrentKey
    <3>1. evidence' = 0 /\ CurrentKey' = SampleKey(Key(o), Published(o))
      BY <1>3, <2>1, <2>5 DEF Write, CurrentKey
    <3>2. CurrentKey' \notin VersionKeys
      BY <2>5, <3>1, FreshKey
    <3>3. PICK none : none = [r \in Replicas |-> 0]
      OBVIOUS
    <3>4. none \in [Replicas -> Nat] /\ SumFunctionOnSet(none, Replicas) = 0
      BY <3>3, SumZero, FleetAssumption
    <3>5. Reports(report', none, VersionKeys', CurrentKey') /\ Views(view', none, VersionKeys', CurrentKey')
      <4>1. \A rep, n, m : Honest(rep, n, VersionKeys, CurrentKey) => Honest(rep, m, VersionKeys', CurrentKey')
        BY <2>2, <3>2, HonestOther
      <4> QED BY <1>1, <4>1 DEF Accounted, Reports, Views
    <3>6. Windows(states', none, CurrentKey')
      BY <3>2, WindowsPublished DEF Windows
    <3>7. Enough(evidence', none, WantedCount')
      BY <3>1, <3>4 DEF Enough
    <3>8. Accounted(none)'
      BY <3>5, <3>6, <3>7 DEF Accounted
    <3> QED BY <2>3, <3>4, <3>8 DEF EvidenceCounted
  <2> QED BY <2>4, <2>5
<1> QED BY <1>2, <1>3

\* A step that changes neither the object, nor a count, nor the patches.
LEMMA SameCounts ==
    ASSUME TypeOK, TypeOK', EvidenceCounted, UNCHANGED <<log, evidence, states, report, view>>,
           \A m \in patches' \ patches : Leaves(m, object, Len(log)) => evidence >= WantedCount
    PROVE  EvidenceCounted'
<1>1. PICK done \in [Replicas -> Nat] : Accounted(done)
  BY DEF EvidenceCounted
<1>2. evidence' >= evidence
  BY DEF TypeOK
<1> QED BY <1>1, <1>2, LocalCounted DEF EvidenceCounted, Accounted

LEMMA LatchPatchLeavesNothing ==
    ASSUME NEW v, NEW o, NEW w PROVE ~Leaves(LatchPatch(v), o, w)
  BY DEF Leaves, LatchPatch

\* A command leaves the stage alone.
LEMMA CommandLeavesNothing ==
    ASSUME TypeOK, Derived, ~CommandProgress(object).promoted, NEW v, NEW w
    PROVE  LET c == CommandProgress(object) IN
           /\ ~Leaves(ProgressPatch(v, [c EXCEPT !.paused = TRUE]), object, w)
           /\ ~Leaves(ProgressPatch(v, [c EXCEPT !.paused = FALSE, !.started = now]), object, w)
           /\ \A s : ~Leaves(ProgressPatch(v, [c EXCEPT !.approved = s]), object, w)
<1> DEFINE c == CommandProgress(object)
<1>1. object \in Object /\ object.progress \in Progress
  BY ObjectType DEF Object
<1>2. CASE object.progress.policy = object.policy
  <2>1. c = Published(object) /\ c \in Progress /\ ~c.promoted
    BY <1>1, <1>2 DEF CommandProgress, Published
  <2>2. ASSUME NEW g, g.stage = c.stage, g.promoted = c.promoted
        PROVE  ~Leaves(ProgressPatch(v, g), object, w)
    BY <2>1, <2>2 DEF Leaves, ProgressPatch
  <2>3. [c EXCEPT !.paused = TRUE].stage = c.stage /\ [c EXCEPT !.paused = TRUE].promoted = c.promoted
    BY <2>1 DEF Progress
  <2>4. /\ [c EXCEPT !.paused = FALSE, !.started = now].stage = c.stage
        /\ [c EXCEPT !.paused = FALSE, !.started = now].promoted = c.promoted
    BY <2>1 DEF Progress
  <2>5. \A s : [c EXCEPT !.approved = s].stage = c.stage /\ [c EXCEPT !.approved = s].promoted = c.promoted
    BY <2>1 DEF Progress
  <2> HIDE DEF c
  <2>6. \A s : ~Leaves(ProgressPatch(v, [c EXCEPT !.approved = s]), object, w)
    BY <2>2, <2>5
  <2>7. ~Leaves(ProgressPatch(v, [c EXCEPT !.paused = TRUE]), object, w)
    BY <2>2, <2>3
  <2>8. ~Leaves(ProgressPatch(v, [c EXCEPT !.paused = FALSE, !.started = now]), object, w)
    BY <2>2, <2>4
  <2> QED BY <2>6, <2>7, <2>8 DEF c
<1>3. CASE object.progress.policy # object.policy
  <2>1. Published(object).started = 0
    BY <1>3 DEF Published, DefaultProgress
  <2>2. \A m : ~Leaves(m, object, w)
    BY <2>1 DEF Leaves
  <2> QED BY <2>2
<1> QED BY <1>2, <1>3

LEMMA ServerCounted ==
    ASSUME TypeOK, TypeOK', Derived, EvidenceCounted, ReuseRevisions = FALSE,
           Tick \/ Operator \/ Server
    PROVE  EvidenceCounted'
<1>1. CASE Tick
  <2>1. PICK done \in [Replicas -> Nat] : Accounted(done)
    BY DEF EvidenceCounted
  <2>2. /\ UNCHANGED <<log, states, patches, evidence>>
        /\ DOMAIN report' = Replicas /\ DOMAIN view' = Leaders
        /\ \A r \in Replicas : report'[r] \in {report[r], NoReport}
        /\ \A l \in Leaders : view'[l] \in {view[l], NoView}
    BY <1>1 DEF Tick
  <2>3. Reports(report', done, VersionKeys, CurrentKey)
    BY <2>1, <2>2, HonestNothing DEF Accounted, Reports
  <2>4. Views(view', done, VersionKeys, CurrentKey)
    BY <2>1, <2>2, HonestNothing DEF Accounted, Views
  <2>5. evidence' >= evidence
    BY <2>2 DEF TypeOK
  <2> QED BY <2>1, <2>2, <2>3, <2>4, <2>5, LocalCounted DEF Accounted, EvidenceCounted
<1>2. ASSUME NEW p \in 1..MaxPolicy, ApplyPolicy(p) PROVE EvidenceCounted'
  <2>1. p > object.policy
    BY <1>2 DEF ApplyPolicy
  <2> QED BY <1>2, <2>1, PolicyFollows, WriteCounted DEF ApplyPolicy
<1>3. ASSUME NEW p \in 1..MaxPolicy, Recreate(p) PROVE EvidenceCounted'
  BY <1>3, PolicyFollows, WriteCounted DEF Recreate
<1>4. ASSUME NEW m \in patches, ApplyPatch(m) PROVE EvidenceCounted'
  BY <1>4, PatchedFollows, WriteCounted DEF ApplyPatch
<1>5. ASSUME NEW m \in patches, DropPatch(m) PROVE EvidenceCounted'
  <2>1. patches' \ patches = {} /\ UNCHANGED <<log, evidence, states, report, view>>
    BY <1>5 DEF DropPatch
  <2> QED BY <2>1, SameCounts
<1>6. ASSUME NEW r \in Replicas, NEW name, Commanded(r, name), NEW m, Send(m),
             ~Leaves(m, object, Len(log))
      PROVE  EvidenceCounted'
  <2>1. patches' = patches \cup {m} /\ UNCHANGED <<log, evidence, states, report, view>>
    BY <1>6 DEF Commanded, Send
  <2>2. \A n \in patches' \ patches : n = m
    BY <2>1
  <2> QED BY <1>6, <2>1, <2>2, SameCounts
<1>7. ASSUME NEW r \in Replicas, CommandRollback(r) PROVE EvidenceCounted'
  BY <1>6, <1>7, LatchPatchLeavesNothing DEF CommandRollback
<1>8. ASSUME NEW r \in Replicas, CommandPause(r) PROVE EvidenceCounted'
  BY <1>6, <1>8, CommandLeavesNothing DEF CommandPause
<1>9. ASSUME NEW r \in Replicas, CommandResume(r) PROVE EvidenceCounted'
  BY <1>6, <1>9, CommandLeavesNothing DEF CommandResume
<1>10. ASSUME NEW r \in Replicas, NEW stage \in StageSet, CommandApprove(r, stage)
       PROVE  EvidenceCounted'
  BY <1>6, <1>10, CommandLeavesNothing DEF CommandApprove
<1> QED
  BY <1>1, <1>2, <1>3, <1>4, <1>5, <1>7, <1>8, <1>9, <1>10 DEF Operator, Server

\* What a leader publishes for the version it has read.
LEMMA DecisionHasEvidence ==
    ASSUME TypeOK, Derived, NEW done \in [Replicas -> Nat], Accounted(done), NEW r \in Leaders,
           NEW gates, NEW latched, Published(object).started # 0,
           NEW g \in NextProgress(object.policy, Published(object), now, gates, latched,
                                  FleetSamples(r, CurrentKey))
    PROVE  evidence >= WantedCount
<1>1. MayAdvance(Published(object), now, gates, latched, FleetSamples(r, CurrentKey))
  BY DEF NextProgress
<1>2. PICK t \in FleetSamples(r, CurrentKey) : t.count >= WantedCount
  BY <1>1 DEF MayAdvance, WantedCount
<1>3. t.count \in Nat /\ t.count <= SumFunctionOnSet(done, Replicas)
  BY <1>2, FleetCount
<1>4. SumFunctionOnSet(done, Replicas) \in Nat /\ WantedCount \in Nat /\ evidence \in Nat
  BY SumIs, FleetAssumption, WantedType DEF TypeOK
<1>5. Enough(evidence, done, WantedCount)
  BY DEF Accounted
<1> QED BY <1>2, <1>3, <1>4, <1>5 DEF Enough

LEMMA ReplicaCounted ==
    ASSUME TypeOK, TypeOK', Derived, EvidenceCounted, NEW r \in Replicas,
           Requests(r) \/ Controller(r) \/ Restart(r)
    PROVE  EvidenceCounted'
<1>1. PICK done \in [Replicas -> Nat] : Accounted(done)
  BY DEF EvidenceCounted
<1>2. /\ Enough(evidence, done, WantedCount)
      /\ Windows(states, done, CurrentKey)
      /\ Reports(report, done, VersionKeys, CurrentKey)
      /\ Views(view, done, VersionKeys, CurrentKey)
      /\ PatchesHaveEvidence
      /\ evidence \in Nat /\ evidence >= evidence /\ done[r] \in Nat
  BY <1>1 DEF Accounted, EvidenceCounted, TypeOK
<1>3. ASSUME UNCHANGED <<log, evidence, states, report, view, patches>> PROVE EvidenceCounted'
  BY <1>3, SameCounts
<1>4. ASSUME StartRequest(r) PROVE EvidenceCounted'
  BY <1>3, <1>4 DEF StartRequest
<1>5. ASSUME NEW q \in inflight[r], CancelRequest(r, q) PROVE EvidenceCounted'
  BY <1>3, <1>5 DEF CancelRequest
<1>6. ASSUME NEW q \in inflight[r], NEW failed \in Outcomes, NEW slow \in Slows,
             FinishRequest(r, q, failed, slow)
      PROVE  EvidenceCounted'
  <2> DEFINE k == q.key
             s == states[r][k]
             n == Completed(s, q, failed, slow)
  <2>1. k \in DOMAIN states[r] /\ s \in State
    BY DEF TypeOK
  <2>2. /\ states' = [states EXCEPT ![r] = [@ EXCEPT ![k] = n]]
        /\ UNCHANGED <<log, report, view, patches>>
        /\ evidence' = IF /\ n.totals # s.totals
                          /\ k = Key(object)
                          /\ q.stage = Published(object).stage
                          /\ s.progress.started = Published(object).started
                          /\ evidence < Steps[q.stage + 1].min_requests
                       THEN evidence + 1 ELSE evidence
    BY <1>6 DEF FinishRequest
  <2>3. evidence' >= evidence /\ evidence' \in Nat
    BY <1>2, <2>2
  <2>4. n.progress = s.progress
    BY <2>1 DEF Completed, State
  <2>5. SampleKey(k, s.progress) = CurrentKey => s.totals.count <= done[r]
    BY <1>2, <2>1 DEF Windows
  <2>6. CASE n.totals = s.totals
    <3>1. evidence' = evidence
      BY <2>2, <2>6
    <3>2. SampleKey(k, n.progress) = CurrentKey => n.totals.count <= done[r]
      BY <2>4, <2>5, <2>6
    <3> HIDE DEF n, s, k
    <3>3. Windows(states', done, CurrentKey)
      BY <1>2, <2>1, <2>2, <3>2, WindowOneChange
    <3>4. Enough(evidence', done, WantedCount)
      BY <1>2, <3>1
    <3>5. report' = report /\ view' = view /\ patches' \ patches = {} /\ UNCHANGED log
      BY <2>2
    <3> QED BY <1>2, <2>3, <3>3, <3>4, <3>5, LocalCounted
  <2>7. CASE n.totals # s.totals
    <3>1. q.stage = s.progress.stage /\ n.totals.count = s.totals.count + 1 /\ s.totals.count \in Nat
      <4>1. q.stage = s.progress.stage /\ ~s.latched
        BY <2>7 DEF Completed
      <4>2. n.totals = AddSample(s.totals, failed, slow)
        BY <2>1, <4>1 DEF Completed, State
      <4>3. s.totals.count \in Nat
        BY <2>1 DEF State, Samples
      <4> QED BY <4>1, <4>2, <4>3 DEF AddSample
    <3>2. CASE SampleKey(k, s.progress) # CurrentKey
      <4>1. evidence' = evidence
        <5>1. ~(k = Key(object) /\ q.stage = Published(object).stage
                /\ s.progress.started = Published(object).started)
          BY <3>1, <3>2, SampleKeyIs DEF CurrentKey
        <5> QED BY <2>2, <5>1
      <4>2. SampleKey(k, n.progress) = CurrentKey => n.totals.count <= done[r]
        BY <2>4, <3>2
      <4> HIDE DEF n, s, k
      <4>3. Windows(states', done, CurrentKey)
        BY <1>2, <2>1, <2>2, <4>2, WindowOneChange
      <4>4. Enough(evidence', done, WantedCount)
        BY <1>2, <4>1
      <4>5. report' = report /\ view' = view /\ patches' \ patches = {} /\ UNCHANGED log
        BY <2>2
      <4> QED BY <1>2, <2>3, <4>3, <4>4, <4>5, LocalCounted
    <3>3. CASE SampleKey(k, s.progress) = CurrentKey
      <4>1. PICK more : more = [done EXCEPT ![r] = @ + 1]
        OBVIOUS
      <4>2. /\ more \in [Replicas -> Nat] /\ more[r] = done[r] + 1
            /\ \A p \in Replicas : done[p] <= more[p]
        BY <4>1
      <4>3. SumFunctionOnSet(more, Replicas) = SumFunctionOnSet(done, Replicas) + 1
            /\ SumFunctionOnSet(done, Replicas) \in Nat
        BY <4>1, SumOneMore, SumIs, FleetAssumption
      <4>4. evidence' = IF evidence < WantedCount THEN evidence + 1 ELSE evidence
        <5>1. /\ k = Key(object) /\ q.stage = Published(object).stage
              /\ s.progress.started = Published(object).started
          BY <3>1, <3>3, SampleKeyIs DEF CurrentKey
        <5>2. WantedCount = Steps[q.stage + 1].min_requests
          BY <5>1 DEF WantedCount
        <5> QED BY <2>2, <2>7, <5>1, <5>2
      <4>5. Enough(evidence', more, WantedCount)
        <5>1. WantedCount \in Nat
          BY WantedType
        <5> QED BY <1>2, <4>3, <4>4, <5>1 DEF Enough
      <4>6. n.totals.count <= more[r]
        BY <1>2, <2>5, <3>1, <3>3, <4>2
      <4> HIDE DEF n, s, k
      <4>7. Windows(states, more, CurrentKey)
        <5>1. ASSUME NEW p \in Replicas, NEW j \in DOMAIN states[p],
                     SampleKey(j, states[p][j].progress) = CurrentKey
              PROVE  states[p][j].totals.count <= more[p]
          <6>1. states[p][j].totals.count <= done[p]
            BY <1>2, <5>1 DEF Windows
          <6>2. states[p][j].totals.count \in Nat
            BY DEF TypeOK, State, Samples
          <6> QED BY <4>2, <6>1, <6>2
        <5> QED BY <5>1 DEF Windows
      <4>8. Windows(states', more, CurrentKey)
        BY <2>1, <2>2, <4>6, <4>7, WindowOneChange
      <4>9. Reports(report', more, VersionKeys, CurrentKey) /\ Views(view', more, VersionKeys, CurrentKey)
        <5>1. ASSUME NEW p \in Replicas, NEW rep, Honest(rep, done[p], VersionKeys, CurrentKey)
              PROVE  Honest(rep, more[p], VersionKeys, CurrentKey)
          <6>1. done[p] \in Nat /\ more[p] \in Nat /\ done[p] <= more[p]
            BY <4>2
          <6> QED BY <5>1, <6>1, HonestMore
        <5>2. Reports(report, more, VersionKeys, CurrentKey)
          BY <1>2, <5>1 DEF Reports
        <5>3. Views(view, more, VersionKeys, CurrentKey)
          BY <1>2, <5>1 DEF Views
        <5> QED BY <2>2, <5>2, <5>3
      <4>10. patches' \ patches = {} /\ UNCHANGED log
        BY <2>2
      <4> QED BY <1>2, <2>3, <4>2, <4>5, <4>8, <4>9, <4>10, LocalCounted
    <3> QED BY <3>2, <3>3
  <2> QED BY <2>6, <2>7
\* A step that only changes the window of one replica.
<1>7. ASSUME Windows(states', done, CurrentKey), UNCHANGED <<log, evidence, report, view, patches>>
      PROVE  EvidenceCounted'
  <2>1. patches' \ patches = {}
    BY <1>7
  <2> QED BY <1>2, <1>7, <2>1, LocalCounted
<1>8. ASSUME NEW k \in DOMAIN states[r], NEW failed \in Outcomes, NEW slow \in Slows,
             Prune(r, k, failed, slow)
      PROVE  EvidenceCounted'
  <2> DEFINE s == [states[r][k] EXCEPT
                     !.totals = RemoveSample(states[r][k].totals, failed, slow)]
  <2>1. states[r][k] \in State
    BY DEF TypeOK
  <2>2. /\ s.progress = states[r][k].progress
        /\ s.totals.count = states[r][k].totals.count - 1
        /\ states[r][k].totals.count \in Nat
    BY <2>1 DEF State, Samples, RemoveSample
  <2>3. states' = [states EXCEPT ![r] = [@ EXCEPT ![k] = s]]
        /\ UNCHANGED <<log, evidence, report, view, patches>>
    BY <1>8 DEF Prune, TypeOK
  <2>4. SampleKey(k, s.progress) = CurrentKey => s.totals.count <= done[r]
    BY <1>2, <2>2 DEF Windows
  <2> HIDE DEF s
  <2>5. Windows(states', done, CurrentKey)
    BY <1>2, <2>3, <2>4, WindowOneChange
  <2> QED BY <1>7, <2>3, <2>5
<1>9. ASSUME NEW v \in seen[r]..Len(log), Build(r, v) PROVE EvidenceCounted'
  <2> DEFINE o    == log[v]
             k    == Key(o)
             kept == (DOMAIN states[r]) \cap (Referenced(r) \cup {k})
             old  == IF k \in DOMAIN states[r] THEN states[r][k] ELSE NewState
             sync == Synced(k, old, o.progress)
             new  == [sync EXCEPT !.latched = @ \/ o.latched = o.policy]
             f    == [j \in kept \cup {k} |-> IF j = k THEN new ELSE states[r][j]]
  <2>1. v \in 1..Len(log) /\ o.progress \in Progress
    <3>1. v \in 1..Len(log)
      BY DEF TypeOK
    <3> QED BY <3>1, ObjectType DEF Object
  <2>2. old \in State
    BY NewStateType DEF TypeOK
  <2>3. SampleKey(k, old.progress) = CurrentKey => old.totals.count <= done[r]
    BY <1>2 DEF Windows, NewState, NoSamples
  <2>4. sync \in State /\ (SampleKey(k, sync.progress) = CurrentKey => sync.totals.count <= done[r])
    <3> HIDE DEF old
    <3> QED BY <1>2, <2>1, <2>2, <2>3, SyncedType, SyncedWindow
  <2>5. SampleKey(k, new.progress) = CurrentKey => new.totals.count <= done[r]
    <3> HIDE DEF sync
    <3> QED BY <2>4 DEF State
  <2>6. states' = [states EXCEPT ![r] = f] /\ UNCHANGED <<log, evidence, report, view, patches>>
    BY <1>9 DEF Build
  <2> HIDE DEF new, k
  <2>7. \A j \in DOMAIN f : SampleKey(j, f[j].progress) = CurrentKey => f[j].totals.count <= done[r]
    BY <1>2, <2>5 DEF Windows
  <2> HIDE DEF f
  <2>8. Windows(states', done, CurrentKey)
    BY <1>2, <2>6, <2>7, WindowChange
  <2> QED BY <1>7, <2>6, <2>8
<1>10. ASSUME NEW v \in seen[r]..Len(log), ReconcileRollback(r, v) PROVE EvidenceCounted'
  <2> DEFINE m == LatchPatch(v)
  <2>1. patches' = patches \cup {m} /\ UNCHANGED <<log, evidence, states, report, view>>
    BY <1>10 DEF ReconcileRollback, Send
  <2>2. ~Leaves(m, object, Len(log))
    BY LatchPatchLeavesNothing
  <2> HIDE DEF m
  <2>3. \A n \in patches' \ patches : n = m
    BY <2>1
  <2> QED BY <2>1, <2>2, <2>3, SameCounts
<1>11. ASSUME NEW v \in seen[r]..Len(log), NEW gates \in BOOLEAN, r \in Leaders,
              ReconcileProgress(r, v, gates)
       PROVE  EvidenceCounted'
  <2> DEFINE o    == log[v]
             k    == Key(o)
             s    == Synced(k, states[r][k], o.progress)
             ev   == FleetSamples(r, SampleKey(k, s.progress))
             next == NextProgress(o.policy, s.progress, now, gates, s.latched, ev)
  <2>1. /\ v \in 1..Len(log) /\ o \in Object /\ k \in DOMAIN states[r]
        /\ states[r][k] \in State /\ o.progress \in Progress
    <3>1. v \in 1..Len(log) /\ k \in DOMAIN states[r] /\ states[r][k] \in State
      BY <1>11 DEF TypeOK, ReconcileProgress
    <3> QED BY <3>1, ObjectType DEF Object
  <2>2. s.progress = Published(o)
    BY <2>1, SyncedProgress
  <2>3. /\ states' = [states EXCEPT ![r] = [@ EXCEPT ![k] = s]]
        /\ UNCHANGED <<log, evidence, report, view>>
        /\ patches' = patches \/ \E g \in next : patches' = patches \cup {ProgressPatch(v, g)}
    BY <1>11 DEF ReconcileProgress, Send
  <2>4. SampleKey(k, s.progress) = CurrentKey => s.totals.count <= done[r]
    <3>1. SampleKey(k, states[r][k].progress) = CurrentKey => states[r][k].totals.count <= done[r]
      BY <1>2, <2>1 DEF Windows
    <3> QED BY <1>2, <2>1, <3>1, SyncedWindow
  <2>5. ASSUME v = Len(log), Published(object).started # 0, NEW g \in next
        PROVE  evidence >= WantedCount
    <3>1. o = object /\ SampleKey(k, s.progress) = CurrentKey
      BY <2>2, <2>5 DEF object, CurrentKey
    <3>2. g \in NextProgress(object.policy, Published(object), now, gates, s.latched,
                             FleetSamples(r, CurrentKey))
      BY <2>2, <2>5, <3>1
    <3> HIDE DEF next, ev, s
    <3> QED BY <1>1, <1>11, <2>5, <3>2, DecisionHasEvidence
  <2> HIDE DEF next, s
  <2>6. ASSUME NEW m \in patches' \ patches, Leaves(m, object, Len(log))
        PROVE  evidence' >= WantedCount
    <3>1. PICK g \in next : m = ProgressPatch(v, g)
      BY <2>3, <2>6
    <3>2. v = Len(log) /\ Published(object).started # 0
      BY <2>6, <3>1 DEF Leaves, ProgressPatch
    <3> QED BY <2>3, <2>5, <3>2
  <2>7. Windows(states', done, CurrentKey)
    BY <1>2, <2>1, <2>3, <2>4, WindowOneChange
  <2> QED BY <1>2, <2>3, <2>6, <2>7, LocalCounted
<1>12. ASSUME Observe(r) PROVE EvidenceCounted'
  <2>1. /\ report' = [report EXCEPT ![r] = LocalReport(r)]
        /\ view' = [l \in Leaders |-> IF l = r THEN [at |-> now, peers |-> report'] ELSE view[l]]
        /\ UNCHANGED <<log, evidence, states, patches>>
    BY <1>12 DEF Observe
  <2>2. Honest(LocalReport(r), done[r], VersionKeys, CurrentKey)
    BY <1>1, LocalHonest
  <2>3. Reports(report', done, VersionKeys, CurrentKey)
    <3> HIDE DEF LocalReport
    <3> QED BY <1>2, <2>1, <2>2 DEF Reports
  <2>4. Views(view', done, VersionKeys, CurrentKey)
    <3>1. \A l \in Leaders : view'[l].peers = report' \/ view'[l] = view[l]
      BY <2>1
    <3>2. DOMAIN view' = Leaders
      BY <2>1
    <3> QED BY <1>2, <2>3, <3>1, <3>2 DEF Reports, Views
  <2>5. patches' \ patches = {}
    BY <2>1
  <2> QED BY <1>2, <2>1, <2>3, <2>4, <2>5, LocalCounted
\* A step that only forgets observations.
<1>13. ASSUME UNCHANGED <<log, evidence, report, patches>>, Windows(states', done, CurrentKey),
              DOMAIN view' = Leaders, \A l \in Leaders : view'[l] \in {view[l], NoView}
       PROVE  EvidenceCounted'
  <2>1. Views(view', done, VersionKeys, CurrentKey)
    BY <1>2, <1>13, HonestNothing DEF Views
  <2>2. patches' \ patches = {}
    BY <1>13
  <2> QED BY <1>2, <1>13, <2>1, <2>2, LocalCounted
<1>14. ASSUME r \in Leaders, ObserveFails(r) PROVE EvidenceCounted'
  BY <1>2, <1>13, <1>14 DEF ObserveFails, Views
<1>15. ASSUME Restart(r) PROVE EvidenceCounted'
  <2>1. /\ states' = [states EXCEPT ![r] = NoStates]
        /\ view' = [l \in Leaders |-> IF l = r THEN NoView ELSE view[l]]
        /\ UNCHANGED <<log, evidence, report, patches>>
    BY <1>15 DEF Restart
  <2>2. DOMAIN NoStates = {}
    BY DEF NoStates
  <2>3. Windows(states', done, CurrentKey)
    BY <1>2, <2>1, <2>2, WindowChange
  <2> QED BY <1>13, <2>1, <2>3
<1> QED
  BY <1>4, <1>5, <1>6, <1>8, <1>9, <1>10, <1>11, <1>12, <1>14, <1>15 DEF Requests, Controller

LEMMA InitCounted == Init => EvidenceCounted
<1> SUFFICES ASSUME Init PROVE EvidenceCounted
  OBVIOUS
<1>1. PICK none : none = [r \in Replicas |-> 0]
  OBVIOUS
<1>2. none \in [Replicas -> Nat] /\ SumFunctionOnSet(none, Replicas) = 0
  BY <1>1, SumZero, FleetAssumption
<1>3. Enough(evidence, none, WantedCount)
  BY <1>2 DEF Init, Enough
<1>4. Windows(states, none, CurrentKey)
  BY DEF Init, Windows, NoStates
<1>5. Reports(report, none, VersionKeys, CurrentKey)
  <2>1. DOMAIN report = Replicas /\ \A r \in Replicas : report[r] = NoReport
    BY DEF Init
  <2> QED BY <2>1, HonestNothing DEF Reports
<1>6. Views(view, none, VersionKeys, CurrentKey)
  <2>1. DOMAIN view = Leaders /\ \A l \in Leaders : view[l] = NoView
    BY DEF Init
  <2> QED BY <2>1, HonestNothing DEF Views
<1>7. PatchesHaveEvidence
  BY DEF Init, PatchesHaveEvidence
<1> QED BY <1>2, <1>3, <1>4, <1>5, <1>6, <1>7 DEF EvidenceCounted, Accounted

LEMMA NextCounted ==
    ASSUME ReuseRevisions = FALSE
    PROVE  TypeOK /\ TypeOK' /\ Derived /\ EvidenceCounted /\ [Next]_vars => EvidenceCounted'
<1> SUFFICES ASSUME TypeOK, TypeOK', Derived, EvidenceCounted, [Next]_vars PROVE EvidenceCounted'
  OBVIOUS
<1>1. CASE UNCHANGED vars
  <2>1. UNCHANGED <<log, evidence, states, report, view, patches>>
    BY <1>1 DEF vars
  <2> QED BY <2>1, SameCounts
<1>2. CASE Next
  BY <1>2, ServerCounted, ReplicaCounted DEF Next
<1> QED BY <1>1, <1>2

\* A step that leaves a stage applies a patch that was decided on evidence.
LEMMA AdvanceStep ==
    ASSUME ReuseRevisions = FALSE, TypeOK, TypeOK', Derived, EvidenceCounted, [Next]_vars, Advances
    PROVE  evidence >= WantedCount
<1>1. object' # object
  BY DEF Advances, Published
<1>2. log' # log
  BY <1>1 DEF object
<1>3. ASSUME NEW p \in 1..MaxPolicy, ApplyPolicy(p) \/ Recreate(p) PROVE FALSE
  <2>1. Key(object') # Key(object)
    <3>1. object' \in Object /\ object \in Object
      BY ObjectType, WantedType DEF TypeOK, object
    <3>2. CASE ApplyPolicy(p)
      <4>1. object' = [object EXCEPT !.policy = p] /\ p # object.policy
        BY <3>2, WriteRefines DEF ApplyPolicy
      <4> QED BY <3>1, <4>1 DEF Key, Object
    <3>3. CASE Recreate(p)
      <4>1. object' = [object EXCEPT !.uid = object.uid + 1, !.policy = p,
                                     !.progress = DefaultProgress, !.latched = NoPolicy]
        BY <3>3, WriteRefines DEF Recreate
      <4>2. object'.uid = object.uid + 1 /\ object.uid \in Nat
        BY <3>1, <4>1, BoundsType DEF Object
      <4> QED BY <4>2 DEF Key
    <3> QED BY <1>3, <3>2, <3>3
  <2> QED BY <2>1 DEF Advances
<1>4. ASSUME NEW m \in patches, ApplyPatch(m) PROVE evidence >= WantedCount
  <2>1. object' = Patched(object, m) /\ m.rv = Len(log) /\ m \in Patch /\ object \in Object
    BY <1>4, WriteRefines, ObjectType DEF ApplyPatch, TypeOK
  <2>2. CASE m.field = "latched"
    <3>1. Published(object') = Published(object)
      BY <2>1, <2>2 DEF Patched, Object, Published
    <3> QED BY <3>1 DEF Advances
  <2>3. CASE m.field # "latched"
    <3>1. m.field = "progress"
      BY <2>1, <2>3 DEF Patch
    <3>2. Published(object') = m.progress
      BY <2>1, <2>3, PatchedFollows
    <3>3. Leaves(m, object, Len(log))
      BY <2>1, <3>1, <3>2 DEF Advances, Leaves
    <3> QED BY <3>3 DEF EvidenceCounted, PatchesHaveEvidence
  <2> QED BY <2>2, <2>3
<1>5. ASSUME NEW m \in patches, DropPatch(m) PROVE UNCHANGED log
  BY <1>5 DEF DropPatch
<1>6. ASSUME NEW r \in Replicas,
             \/ CommandRollback(r) \/ CommandPause(r) \/ CommandResume(r)
             \/ \E s \in StageSet : CommandApprove(r, s)
      PROVE  UNCHANGED log
  BY <1>6, ZenonT(40) DEF CommandRollback, CommandPause, CommandResume, CommandApprove, Commanded
<1>7. ASSUME NEW r \in Replicas, Requests(r) \/ Controller(r) \/ Restart(r)
      PROVE  UNCHANGED log
  BY <1>7, ZenonT(40) DEF Requests, Controller, Restart, StartRequest, FinishRequest,
              CancelRequest, Build, ReconcileRollback, ReconcileProgress, Observe,
              ObserveFails, Prune
<1>8. CASE Tick \/ UNCHANGED vars
  BY <1>2, <1>8 DEF Tick, vars
<1>9. CASE Operator
  BY <1>2, <1>3, <1>6, <1>9 DEF Operator
<1>10. CASE Server
  BY <1>2, <1>4, <1>5, <1>10 DEF Server
<1> QED BY <1>2, <1>7, <1>8, <1>9, <1>10 DEF Next

\* A stage is left, or a release promoted, only after the fleet really completed
\* min_requests requests in that stage since its start, for any number of
\* replicas and leaders and whatever the delays of watches, Lease reports,
\* observations and patches (completed, sync_progress, sample_key,
\* rollout_samples, next_progress), as long as no old policy is applied again.
THEOREM StagesLeftOnEvidence ==
    ASSUME ReuseRevisions = FALSE
    PROVE  Spec => AdvanceHasEvidence
<1>1. Init => EvidenceCounted
  BY InitCounted
<1>2. TypeOK /\ TypeOK' /\ Derived /\ EvidenceCounted /\ [Next]_vars => EvidenceCounted'
  BY NextCounted
<1>3. TypeOK /\ TypeOK' /\ Derived /\ EvidenceCounted /\ [Next]_vars
        => [Advances => evidence >= Steps[Published(object).stage + 1].min_requests]_vars
  BY AdvanceStep DEF WantedCount
<1> QED BY <1>1, <1>2, <1>3, TypeCorrect, DerivedInvariant, PTL DEF Spec, AdvanceHasEvidence
=============================================================================
