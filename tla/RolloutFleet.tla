---------------------------- MODULE RolloutFleet ----------------------------
(***************************************************************************)
(* A staged rollout run by every replica of the controller at once         *)
(* (src/rollout.rs, src/rollout/progress.rs, src/ingress/release.rs and    *)
(* the sample reports of src/fleet.rs).                                    *)
(*                                                                         *)
(* The Kubernetes object that owns the traffic policy is the only durable  *)
(* state: its annotations hold the policy, the release progress and the    *)
(* rolled-back revision.  A replica sees it through a watch that may lag,  *)
(* keeps one rollout State per (uid, policy) in memory, counts the         *)
(* requests that it completed in its current stage, exchanges the counts   *)
(* through Leases and publishes with patches guarded by resourceVersion.   *)
(* A patch may be lost, or be applied long after its sender gave up on it. *)
(*                                                                         *)
(* A replica of Leaders may at any time believe that it holds the leader   *)
(* Lease: nothing here depends on the election, only on resourceVersion.   *)
(***************************************************************************)
EXTENDS Rollout, FiniteSets, FiniteSetsExt

CONSTANTS
    Replicas,       \* the Pods of the controller
    Leaders,        \* those that may believe they hold the leader Lease
    Freshness,      \* min(window_seconds, FRESH_SECONDS) of fleet.rs
    ReuseRevisions, \* the operator may apply an old policy again
    Outcomes,       \* whether requests may fail and may succeed
    Commands,       \* the release commands that the operator uses
    MaxPolicy, MaxUid, MaxTime, MaxWrites, MaxInflight, MaxPatches, MaxCount

ASSUME FleetAssumption ==
    /\ IsFiniteSet(Replicas)
    /\ Replicas # {}
    /\ Leaders \subseteq Replicas
    /\ Freshness \in Nat
    /\ ReuseRevisions \in BOOLEAN
    /\ Outcomes \subseteq BOOLEAN
    /\ Commands \subseteq {"rollback", "pause", "resume", "approve"}
    /\ {MaxPolicy, MaxUid, MaxTime, MaxWrites, MaxInflight, MaxPatches,
        MaxCount} \subseteq Nat
    /\ MaxPolicy >= 1 /\ MaxUid >= 1

VARIABLES
    now,        \* wall clock in seconds, shared by all
    log,        \* log[v]: the owning object at resourceVersion v
    seen,       \* seen[r]: the version in r's reflector store
    states,     \* states[r]: Rollouts.states, a function from keys to States
    published,  \* published[r]: the key of the State in r's snapshot
    inflight,   \* inflight[r]: requests on a candidate backend
    report,     \* report[r]: what r's Lease says
    view,       \* view[r]: the last observation of all Leases by r \in Leaders
    patches,    \* patches sent to the API server and not yet answered
    evidence,   \* (history) samples of the published stage and start, counted no
                \* further than the stage asks for
    locked      \* (history) keys whose rollback was ever recorded

vars == <<now, log, seen, states, published, inflight, report,
          view, patches, evidence, locked>>

Keys   == (1..MaxUid) \X (1..MaxPolicy)
NoKey  == <<0, 0>>
Object == [uid : 1..MaxUid, policy : 1..MaxPolicy, progress : Progress,
           latched : Nat]
State  == [progress : Progress, latched : BOOLEAN, totals : Samples]
Patch  == [rv : Nat, field : {"progress", "latched"}, progress : Progress,
           latched : Nat]

\* The object as the API server has it.
object == log[Len(log)]

Key(o)          == <<o.uid, o.policy>>
SampleKey(k, g) == <<k, g.stage, g.started>>
NoReport        == [at |-> 0, samples |-> <<>>]
NoView          == [at |-> 0, peers |-> [r \in Replicas |-> NoReport]]

\* Without max_p95_ms no sample is slow.
Slows == IF HasP95 THEN BOOLEAN ELSE {FALSE}

NewState == [progress |-> DefaultProgress, latched |-> FALSE,
             totals |-> NoSamples]
NoStates == [k \in {} |-> NewState]

\* The progress that the object publishes for its own policy.
Published(o) ==
    IF o.progress.policy = o.policy THEN o.progress ELSE DefaultProgress

TypeOK ==
    /\ now \in Nat \ {0}
    /\ log \in Seq(Object)
    /\ Len(log) >= 1
    /\ seen \in [Replicas -> 1..Len(log)]
    /\ DOMAIN states = Replicas
    /\ DOMAIN published = Replicas
    /\ DOMAIN inflight = Replicas
    /\ \A r \in Replicas :
          /\ DOMAIN states[r] \subseteq Keys
          /\ states[r] \in [DOMAIN states[r] -> State]
          /\ published[r] \in DOMAIN states[r] \cup {NoKey}
          /\ inflight[r] \subseteq [key : DOMAIN states[r], stage : StageSet]
    /\ patches \subseteq Patch
    /\ evidence \in Nat
    /\ locked \subseteq Keys

Init ==
    /\ now = 1
    /\ log = << [uid |-> 1, policy |-> 1, progress |-> DefaultProgress,
                 latched |-> NoPolicy] >>
    /\ seen = [r \in Replicas |-> 1]
    /\ states = [r \in Replicas |-> NoStates]
    /\ published = [r \in Replicas |-> NoKey]
    /\ inflight = [r \in Replicas |-> {}]
    /\ report = [r \in Replicas |-> NoReport]
    /\ view = [r \in Leaders |-> NoView]
    /\ patches = {}
    /\ evidence = 0
    /\ locked = {}

-----------------------------------------------------------------------------
(* The API server.                                                         *)

\* A write that changes the object is its next version; watches lag behind.
Write(o) ==
    IF o = object THEN UNCHANGED <<log, evidence, locked>> ELSE
    /\ log' = Append(log, o)
    /\ evidence' = IF SampleKey(Key(o), Published(o))
                        = SampleKey(Key(object), Published(object))
                   THEN evidence ELSE 0
    /\ locked' = IF o.latched = o.policy THEN locked \cup {Key(o)} ELSE locked

Stale(at) == at = 0 \/ now - at > Freshness

\* A second passes.  A report or a view that is stale is never used again and
\* is kept as if it were absent.
Tick ==
    /\ now < MaxTime
    /\ now' = now + 1
    /\ report' = [r \in Replicas |-> IF now' - report[r].at > Freshness THEN NoReport ELSE report[r]]
    /\ view' = [r \in Leaders |-> IF now' - view[r].at > Freshness THEN NoView ELSE view[r]]
    /\ UNCHANGED <<log, seen, states, published, inflight, patches,
                   evidence, locked>>

\* The operator replaces the traffic policy and keeps the other annotations.
ApplyPolicy(p) ==
    /\ Len(log) < MaxWrites
    /\ p # object.policy
    /\ ReuseRevisions \/ p > object.policy
    /\ Write([object EXCEPT !.policy = p])
    /\ UNCHANGED <<now, seen, states, published, inflight, report, view,
                   patches>>

\* The operator deletes the object and creates it anew.
Recreate(p) ==
    /\ Len(log) < MaxWrites
    /\ object.uid < MaxUid
    /\ Write([object EXCEPT !.uid = object.uid + 1, !.policy = p,
                            !.progress = DefaultProgress,
                            !.latched = NoPolicy])
    /\ UNCHANGED <<now, seen, states, published, inflight, report, view,
                   patches>>

Patched(o, m) ==
    IF m.field = "progress" THEN [o EXCEPT !.progress = m.progress]
    ELSE [o EXCEPT !.latched = m.latched]

\* Mutant of ApplyPatch: patches without resourceVersion.
ApplyPatchUnconditionally(m) ==
    /\ Write(Patched(object, m))
    /\ patches' = patches \ {m}
    /\ UNCHANGED <<now, seen, states, published, inflight, report, view>>

\* A patch whose resourceVersion is current is applied.
ApplyPatch(m) ==
    /\ m.rv = Len(log)
    /\ Write(Patched(object, m))
    /\ patches' = patches \ {m}
    /\ UNCHANGED <<now, seen, states, published, inflight, report, view>>

\* A patch is lost, or answered 409 because its resourceVersion is old.
DropPatch(m) ==
    /\ patches' = patches \ {m}
    /\ UNCHANGED <<now, log, seen, states, published, inflight,
                   report, view, evidence, locked>>

ProgressPatch(v, g) ==
    [rv |-> v, field |-> "progress", progress |-> g, latched |-> NoPolicy]

LatchPatch(v) ==
    [rv |-> v, field |-> "latched", progress |-> DefaultProgress,
     latched |-> log[v].policy]

Send(m) ==
    /\ Len(log) < MaxWrites \/ m.field = "latched"
    /\ Cardinality(patches) < MaxPatches
    /\ patches' = patches \cup {m}

-----------------------------------------------------------------------------
(* The controller loop of replica r.                                       *)

\* The watch delivers the versions up to v.  It may also have been reconnected
\* and have listed the object again, without the versions in between.
Deliver(r, v) ==
    /\ v \in seen[r]..Len(log)
    /\ seen' = [seen EXCEPT ![r] = v]

\* State::sync_progress on a whole State.
Synced(k, s, ann) ==
    LET g == SyncProgress(k[2], s.progress, ann) IN
    [s EXCEPT !.progress = g,
              !.totals = IF SyncClears(s.progress, g) THEN NoSamples ELSE @]

\* The keys that Rollouts::get_for retains: some Arc still points at them.
Referenced(r) == {published[r]} \cup {q.key : q \in inflight[r]}

\* Mutant of Build: the recorded rollback is not enforced.
BuildWithoutRollback(r, v) ==
    LET o == log[v]
        k == Key(o)
        kept == (DOMAIN states[r]) \cap (Referenced(r) \cup {k})
        old  == IF k \in DOMAIN states[r] THEN states[r][k] ELSE NewState
    IN
    /\ Deliver(r, v)
    /\ states' = [states EXCEPT ![r] =
                     [j \in kept \cup {k} |->
                        IF j = k THEN Synced(k, old, o.progress) ELSE states[r][j]]]
    /\ published' = [published EXCEPT ![r] = k]
    /\ UNCHANGED <<now, log, inflight, report, view, patches, evidence, locked>>

\* Rollouts::get_for, then sync_progress and force_rollback, then publication.
Build(r, v) ==
    LET o    == log[v]
        k    == Key(o)
        kept == (DOMAIN states[r]) \cap (Referenced(r) \cup {k})
        old  == IF k \in DOMAIN states[r] THEN states[r][k] ELSE NewState
        sync == Synced(k, old, o.progress)
        new  == [sync EXCEPT !.latched = @ \/ o.latched = o.policy]
    IN
    /\ Deliver(r, v)
    /\ states' = [states EXCEPT ![r] =
                     [j \in kept \cup {k} |-> IF j = k THEN new ELSE states[r][j]]]
    /\ published' = [published EXCEPT ![r] = k]
    /\ UNCHANGED <<now, log, inflight, report, view, patches, evidence, locked>>

\* fleet::State::rollout_samples, as a set of at most one: no sum unless every
\* replica has a fresh report for exactly this stage and start.
FleetSamples(r, sk) ==
    LET peers == view[r].peers
        Sum(field) == SumFunctionOnSet([q \in Replicas |-> peers[q].samples[sk][field]], Replicas)
    IN
    IF /\ ~Stale(view[r].at)
       /\ \A q \in Replicas : /\ ~Stale(peers[q].at)
                              /\ sk \in DOMAIN peers[q].samples
    THEN {[count |-> Sum("count"), errors |-> Sum("errors"), slow |-> Sum("slow")]}
    ELSE {}

\* Mutant of ReconcileRollback: only the leader records a rollback.
ReconcileRollbackOfLeader(r, v) ==
    /\ r \in Leaders
    /\ Key(log[v]) \in DOMAIN states[r]
    /\ states[r][Key(log[v])].latched
    /\ log[v].latched # log[v].policy
    /\ Deliver(r, v)
    /\ Send(LatchPatch(v))
    /\ UNCHANGED <<now, log, states, published, inflight, report, view,
                   evidence, locked>>

\* release::reconcile_object when this replica latched a rollback.
ReconcileRollback(r, v) ==
    LET o == log[v]
        k == Key(o)
    IN
    /\ k \in DOMAIN states[r]
    /\ states[r][k].latched
    /\ o.latched # o.policy
    /\ Deliver(r, v)
    /\ Send(LatchPatch(v))
    /\ UNCHANGED <<now, log, states, published, inflight, report, view,
                   evidence, locked>>

\* Mutant of ReconcileProgress: the leader adopts what it is about to publish.
ReconcileProgressEagerly(r, v, gates) ==
    LET o == log[v]
        k == Key(o)
        s == Synced(k, states[r][k], o.progress)
        next == NextProgress(o.policy, s.progress, now, gates, s.latched,
                             FleetSamples(r, SampleKey(k, s.progress)))
    IN
    /\ k \in DOMAIN states[r]
    /\ ~states[r][k].latched
    /\ Deliver(r, v)
    /\ \E g \in next :
          /\ Send(ProgressPatch(v, g))
          /\ states' = [states EXCEPT ![r] = [@ EXCEPT ![k] = [s EXCEPT !.progress = g]]]
    /\ UNCHANGED <<now, log, published, inflight, report, view, evidence, locked>>

\* release::reconcile_object on a replica that believes it leads.
ReconcileProgress(r, v, gates) ==
    LET o == log[v]
        k == Key(o)
        s == Synced(k, states[r][k], o.progress)
        next == NextProgress(o.policy, s.progress, now, gates, s.latched,
                             FleetSamples(r, SampleKey(k, s.progress)))
    IN
    /\ k \in DOMAIN states[r]
    /\ ~states[r][k].latched
    /\ Deliver(r, v)
    /\ states' = [states EXCEPT ![r] = [@ EXCEPT ![k] = s]]
    /\ \/ next = {} /\ UNCHANGED patches
       \/ \E g \in next : Send(ProgressPatch(v, g))
    /\ UNCHANGED <<now, log, published, inflight, report, view, evidence, locked>>

-----------------------------------------------------------------------------
(* release::command: an operator's request to replica r.  It reads the     *)
(* object from the API server, not from the watch.                         *)

CommandProgress(o) ==
    IF o.progress.policy = o.policy THEN o.progress ELSE Initial(o.policy, now)

Commanded(r, name) ==
    /\ name \in Commands
    /\ {k \in DOMAIN states[r] : k[2] = object.policy} = {Key(object)}
    /\ UNCHANGED <<now, log, seen, states, published, inflight,
                   report, view, evidence, locked>>

CommandRollback(r) ==
    /\ Commanded(r, "rollback")
    /\ Send(LatchPatch(Len(log)))

CommandPause(r) ==
    LET g == CommandProgress(object) IN
    /\ Commanded(r, "pause")
    /\ ~g.promoted
    /\ Send(ProgressPatch(Len(log), [g EXCEPT !.paused = TRUE]))

CommandResume(r) ==
    LET g == CommandProgress(object) IN
    /\ Commanded(r, "resume")
    /\ ~g.promoted
    /\ Send(ProgressPatch(Len(log), [g EXCEPT !.paused = FALSE, !.started = now]))

\* The operator names the stage to approve; it must be the current one.
CommandApprove(r, stage) ==
    LET g == CommandProgress(object) IN
    /\ Commanded(r, "approve")
    /\ ~g.promoted
    /\ stage = g.stage
    /\ Send(ProgressPatch(Len(log), [g EXCEPT !.approved = stage]))

-----------------------------------------------------------------------------
(* Requests and sample reports of replica r.                               *)

\* A request is routed to a candidate backend: the stage is noted when it
\* starts, and a latched State only ever selects the fallback.
StartRequest(r) ==
    LET k == published[r] IN
    /\ k # NoKey
    /\ ~states[r][k].latched
    /\ Cardinality(inflight[r]) < MaxInflight
    /\ inflight' = [inflight EXCEPT ![r] =
                       @ \cup {[key |-> k, stage |-> states[r][k].progress.stage]}]
    /\ UNCHANGED <<now, log, seen, states, published, report, view,
                   patches, evidence, locked>>

\* State::completed.
Completed(s, q, failed, slow) ==
    LET t == AddSample(s.totals, failed, slow) IN
    IF q.stage # s.progress.stage \/ s.latched THEN s
    ELSE [s EXCEPT !.totals = t, !.latched = Breached(t)]

FinishRequest(r, q, failed, slow) ==
    LET s == states[r][q.key]
        n == Completed(s, q, failed, slow)
    IN
    /\ s.totals.count < MaxCount
    /\ inflight' = [inflight EXCEPT ![r] = @ \ {q}]
    /\ states' = [states EXCEPT ![r] = [@ EXCEPT ![q.key] = n]]
    /\ evidence' = IF /\ n.totals # s.totals
                      /\ q.key = Key(object)
                      /\ q.stage = Published(object).stage
                      /\ s.progress.started = Published(object).started
                      /\ evidence < Steps[q.stage + 1].min_requests
                   THEN evidence + 1 ELSE evidence
    /\ UNCHANGED <<now, log, seen, published, report, view, patches,
                   locked>>

\* The client goes away: no sample.
CancelRequest(r, q) ==
    /\ inflight' = [inflight EXCEPT ![r] = @ \ {q}]
    /\ UNCHANGED <<now, log, seen, states, published, report, view,
                   patches, evidence, locked>>

\* Window::prune: the oldest sample leaves the window.  The code prunes by age
\* when it adds or reports a sample; ages are left out, so this is a step of its
\* own that may come before either of them.
Prune(r, k, failed, slow) ==
    LET t == states[r][k].totals IN
    /\ t.count > 0
    /\ failed => t.errors > 0
    /\ ~failed => t.errors < t.count
    /\ slow => t.slow > 0
    /\ ~slow => t.slow < t.count
    /\ states' = [states EXCEPT ![r] =
                     [@ EXCEPT ![k].totals = RemoveSample(t, failed, slow)]]
    /\ UNCHANGED <<now, log, seen, published, inflight, report, view,
                   patches, evidence, locked>>

\* fleet::State::report: every rollout's totals under its sample key.
LocalReport(r) ==
    [at      |-> now,
     samples |-> [sk \in {SampleKey(k, states[r][k].progress) : k \in DOMAIN states[r]}
                    |-> states[r][sk[1]].totals]]

\* fleet::observe: renew the own Lease, then list all of them.
Observe(r) ==
    /\ published[r] # NoKey
    /\ report' = [report EXCEPT ![r] = LocalReport(r)]
    /\ view' = [l \in Leaders |-> IF l = r THEN [at |-> now, peers |-> report'] ELSE view[l]]
    /\ UNCHANGED <<now, log, seen, states, published, inflight,
                   patches, evidence, locked>>

\* An observation fails or times out: the view carries an error.
ObserveFails(r) ==
    /\ view[r] # NoView
    /\ view' = [view EXCEPT ![r] = NoView]
    /\ UNCHANGED <<now, log, seen, states, published, inflight,
                   report, patches, evidence, locked>>

\* The process restarts and lists the object before it builds.
Restart(r) ==
    /\ published[r] # NoKey
    /\ seen' = [seen EXCEPT ![r] = Len(log)]
    /\ states' = [states EXCEPT ![r] = NoStates]
    /\ published' = [published EXCEPT ![r] = NoKey]
    /\ inflight' = [inflight EXCEPT ![r] = {}]
    /\ view' = [l \in Leaders |-> IF l = r THEN NoView ELSE view[l]]
    /\ UNCHANGED <<now, log, report, patches, evidence, locked>>

-----------------------------------------------------------------------------
Operator ==
    \/ \E p \in 1..MaxPolicy : ApplyPolicy(p) \/ Recreate(p)
    \/ \E r \in Replicas : \/ CommandRollback(r)
                           \/ CommandPause(r)
                           \/ CommandResume(r)
                           \/ \E s \in StageSet : CommandApprove(r, s)

Requests(r) ==
    \/ StartRequest(r)
    \/ \E q \in inflight[r] :
          \/ CancelRequest(r, q)
          \/ \E failed \in Outcomes, slow \in Slows : FinishRequest(r, q, failed, slow)

Controller(r) ==
    \/ \E v \in seen[r]..Len(log) :
          \/ Build(r, v)
          \/ ReconcileRollback(r, v)
          \/ r \in Leaders /\ \E gates \in BOOLEAN : ReconcileProgress(r, v, gates)
    \/ Leaders # {} /\ Observe(r)     \* nobody else reads the Leases
    \/ r \in Leaders /\ ObserveFails(r)
    \/ \E k \in DOMAIN states[r], failed \in Outcomes, slow \in Slows :
          Prune(r, k, failed, slow)

Server == \E m \in patches : ApplyPatch(m) \/ DropPatch(m)

Next ==
    \/ Tick
    \/ Operator
    \/ Server
    \/ \E r \in Replicas : Requests(r) \/ Controller(r) \/ Restart(r)

Spec == Init /\ [][Next]_vars

(***************************************************************************)
(* The watch and the controller loop run again and again (the loop wakes   *)
(* on every event and at least every five seconds), and a rollback patch   *)
(* that is sent again and again is not lost every time.                    *)
(***************************************************************************)
Fairness ==
    /\ \A r \in Replicas :
          /\ WF_vars(Build(r, Len(log)))
          /\ WF_vars(ReconcileRollback(r, Len(log)))
    /\ SF_vars(\E m \in patches : m.field = "latched" /\ ApplyPatch(m))
    /\ WF_vars(\E m \in patches : DropPatch(m))

FairSpec == Spec /\ Fairness
-----------------------------------------------------------------------------
(* Properties.                                                             *)

\* The annotations of the object follow the abstract release of module
\* Release: stages one at a time, never past a pause or a missing approval that
\* was written before, a rollback record that only a newer policy removes, and
\* no update lost to a concurrent one (release.rs patches by resourceVersion).
Rel == INSTANCE Release WITH key <- Key(object),
                             progress <- Published(object),
                             rolledBack <- (object.latched = object.policy)
ImplementsRelease == Rel!Spec

\* The published stage was left behind in this step, or promoted.
Advances ==
    LET g == Published(object)
        h == Published(object')
    IN  /\ Key(object') = Key(object)
        /\ g.started # 0
        /\ h.stage # g.stage \/ (h.promoted /\ ~g.promoted)

\* A stage is left only after the fleet really completed min_requests requests
\* in it: no sample of an earlier stage, of the time before a resume or of
\* another policy is ever counted, whatever the delays of watches, reports and
\* patches (next_progress, rollout_samples, sample_key, completed,
\* sync_progress).
AdvanceHasEvidence ==
    [][Advances => evidence >= Steps[Published(object).stage + 1].min_requests]_vars

Latched(r, k) == k \in DOMAIN states[r] /\ states[r][k].latched

\* A threshold that latched on any replica, leader or not, is recorded in the
\* object unless a new policy arrives or the process dies with it
\* (reconcile_object patches the annotation on every pass of every replica).
LatchIsRecorded ==
    \A r \in Replicas, k \in Keys :
        (Key(object) = k /\ Latched(r, k)) ~>
            (Key(object) # k \/ object.latched = k[2] \/ ~Latched(r, k))

\* A recorded rollback reaches every replica, those that restart included
\* (Ingress build calls force_rollback for the annotated revision).
RollbackReachesAll ==
    \A r \in Replicas, k \in Keys :
        (Key(object) = k /\ object.latched = k[2]) ~>
            (Key(object) # k \/ (published[r] = k /\ Latched(r, k)))

\* docs/governance.md: a rollback locks its revision for good, and only a new
\* revision reopens the release.  The annotation keeps one revision, so the
\* rollback of a later revision forgets the lock of an earlier one.
RevisionLockPermanent ==
    Key(object) \in locked => object.latched = object.policy

(***************************************************************************)
(* The inductive invariant behind ImplementsRelease and NeverAhead.        *)
(***************************************************************************)

\* What later versions of the object may be, given the version o.
Follows(o, p) ==
    \/ Rel!Newer(Key(p), Key(o))
    \/ /\ Key(p) = Key(o)
       /\ Published(o) # DefaultProgress => Published(p) # DefaultProgress
       /\ Published(o).stage <= Published(p).stage
       /\ Published(o).started <= Published(p).started

\* An annotation is absent, or was written for a policy up to the current one.
WellFormed(o) ==
    /\ o.progress.policy <= o.policy
    /\ o.progress.policy = NoPolicy => o.progress = DefaultProgress
    /\ o.progress.policy # NoPolicy => o.progress.started # 0
    /\ o.progress.started <= now
    /\ o.latched <= o.policy

VersionsOrdered ==
    /\ \A i \in 1..Len(log) : WellFormed(log[i])
    /\ \A i, j \in 1..Len(log) : i <= j => Follows(log[i], log[j])

\* A replica's progress of a policy is one that some version it has seen
\* published for it.
StatesFromVersions ==
    \A r \in Replicas : \A k \in DOMAIN states[r] :
        \E i \in 1..seen[r] :
            Key(log[i]) = k /\ states[r][k].progress = Published(log[i])

\* g is what one command, or one decision of a leader, makes of version o.
Successor(o, g) ==
    LET p == Published(o)
        c == IF p = DefaultProgress THEN Initial(o.policy, g.started) ELSE p
    IN
    /\ g.policy = o.policy
    /\ g.started # 0 /\ p.started <= g.started /\ g.started <= now
    /\ p.stage <= g.stage
    /\ ~p.promoted
    /\ \/ p = DefaultProgress /\ g = Initial(o.policy, g.started)
       \/ /\ p # DefaultProgress /\ ~p.paused
          /\ Steps[p.stage + 1].approval => p.approved = p.stage
          /\ g = Advanced(p, g.started)
       \/ g = [c EXCEPT !.paused = TRUE]
       \/ g = [c EXCEPT !.paused = FALSE, !.started = g.started]
       \/ g = [c EXCEPT !.approved = g.stage]

PatchesFromVersions ==
    \A m \in patches :
        /\ m.rv \in 1..Len(log)
        /\ IF m.field = "latched" THEN m.latched = log[m.rv].policy
           ELSE Successor(log[m.rv], m.progress)

\* Everything a replica remembers or has sent derives from a version of the
\* object, and versions of one policy only move forward: the reason why a
\* patch that passes the resourceVersion check can be trusted.
Derived ==
    /\ VersionsOrdered
    /\ StatesFromVersions
    /\ PatchesFromVersions

\* No replica routes by a stage that the object has not published for its
\* current policy: replicas adopt stages through the watch, never on their own.
NeverAhead ==
    \A r \in Replicas : \A k \in DOMAIN states[r] :
        k = Key(object) =>
            /\ states[r][k].progress.stage <= Published(object).stage
            /\ states[r][k].progress.started <= Published(object).started
=============================================================================
