# Formal models of rgnix

TLA+ modules for the parts of rgnix whose correctness rests on the order of
events, on limits, or on two pieces of code that have to agree: staged rollouts run
by several replicas, checkpoints and status of the Ingress and Gateway controllers,
the publication of configuration versions, and the data plane from accepting a
connection to logging the request.  TLC checks them on small instances; TLAPS proves
nearly all of their safety properties for every instance.  Paths below are relative
to the repository; line numbers are in `PROJECT.json` under "map".

## The system

rgnix is an HTTP proxy in one process.  It is configured from files, from
Ingress objects or from the Gateway API.  A control plane builds an immutable
snapshot and publishes it; requests use the snapshot they started with.

| Component | State | Operations | Hard behaviour | Module |
|---|---|---|---|---|
| Rollout (`rollout.rs`, `rollout/progress.rs`) | one State per (object, policy): stage, start, window of samples, rollback latch | get_for, sync_progress, select, completed, next_progress, force_rollback | samples of the wrong stage; latch against advancement | `Rollout`, `RolloutFleet` |
| Release commands, reconciliation (`ingress/release.rs`) | annotations of the object | pause, resume, approve, rollback; reconcile_object | lost updates, late patches, lagging watches | `RolloutFleet`, `Release` |
| Replica reports (`fleet.rs`) | one Lease per Pod, a view of all | report, observe, rollout_samples, convergence | stale reports, restarts | `RolloutFleet` |
| Metric gates (`rollout/metrics.rs`) | last observation per gate, failure runs | poll, evaluate, metric rollback | stale observations | `Gates` |
| Control files (`controls.rs`) | credentials, tenant policy, gates | refresh | files that change while they are read | `Gates` |
| Ingress controller (`ingress/mod.rs`) | watch caches, history of accepted plugins and routes | build, publish, loop | six watches with different delays, pending compilation | `PluginCheckpoint` |
| Ingress checkpoints (`ingress/checkpoint.rs`) | one ConfigMap per Ingress | restore, persist, prune | concurrent replicas, reads of two objects | `PluginCheckpoint` |
| Status and leader Lease (`ingress/status.rs`, `gateway/status.rs`) | Lease, published status | claim, renew, update | takeover, lost leadership in a batch | `StatusLeader` |
| Gateway controller (`gateway/`) | listeners, routes, references, history of plugins | build, attach, resolve references | what a route needs is withdrawn | `GatewayBuild` |
| Gateway checkpoints (`gateway/checkpoint.rs`) | one ConfigMap per route | restore, write, prune, readiness | slow PUTs, restarts | `GatewayCheckpoint` |
| Routing (`routing.rs`, `gateway/routes/`) | indices of hosts and paths | lookup | indices against an ordered scan | `Routing` |
| Publication (`runtime.rs`) | snapshot, previous versions | publish, rollback, reload | reload against rollback, failures | `Publication` |
| Durable history (`history.rs`) | journal file, lock, journal in memory | initial, open, record, restore | crash between rename, sync and store | `Publication` |
| Backends (`backend.rs`, `backend/selection.rs`) | endpoints, health, DNS, cached selection | select, lease, report, maintain | cached selection, cooldown, DNS expiry | `Backend` |
| Requests (`proxy/`, `proxy/hyper/`) | permits, admission, mirrors, delivery | admit, authorize, route, retry, complete | permits at every early return; two engines and a fast path | `Proxy` |
| Connections (`proxy/hyper/admission.rs`, `mod.rs`, `h3.rs`, `h2c.rs`) | counts per peer and listener, semaphores, drain | accept, establish, upgrade, drain, drop | steps of a connection against its abort | `Connections` |
| Upstream connections (`proxy/hyper/inline.rs`) | idle connections per worker and address, a shared budget | checkout, put, evict, expire | limits of the address and the process | `UpstreamPool` |
| Static files (`proxy/static_files.rs`, `proxy/responses.rs`) | an open file, announced length | open, select, send | a file that changes while it is sent | `StaticFiles` |
| Script compiler (`script/`) | cache, queue, budgets, warm list | submit, compile, look up | queue, budget and cache at their limits | `ScriptQueue` |
| Rate limits (`traffic.rs`), tenancy (`tenancy.rs`) | buckets, quotas, counts | take, refill, sweep, retain | capacity, clock, namespaces that come and go | `Limiter`, `Tenancy` |
| OTLP (`otlp/`) | channel, batch, counters | record, export, retry, shut down | full queue at shutdown | `Export` |
| Logs (`logging/`) | queue, file, archives | append, rotate, compress, prune, reopen | crash between two file operations | `FileLogs` |
| XDP agent (`xdp/`) | pinned programs, maps and link | attach, reload, detach, drop | takeover after a crash | `Xdp` |
| Parsers, security, diagnostics, telemetry | none, or counters | | | |

The controllers call publish of the runtime; build obtains rollout States from
`Rollouts`, Tenants from `Tenants` and plugins from the compiler and stores them in
the snapshot; requests report to the State they were routed by and to the endpoint
they leased; the fleet task reads all States and exchanges totals through Leases;
the reconciliation reads States, the fleet's view and the gates and patches the
object; the patch comes back through the watch and the next build adopts it.  The
control files decide which gates the poller asks and which quotas Tenants have.

What makes each part correct, in short.

- A rollout leaves a stage only on evidence of that stage, obeys pause and approval,
  and a rollback reaches everyone.
- A plugin is served only if a replacement replica could restore it, and never after
  it was withdrawn; what is published or checkpointed never goes back.
- What refers to something missing fails closed; an index answers as the scan it
  replaces.
- A request passes every policy of its route whatever path it takes, gives back all
  it took, and counts as evidence only if the upstream is to answer for it.
- Every count (permits, leases, connections, records) is exactly what is there, and
  everything that begins ends.
- Nothing a crash leaves behind keeps the next process from starting.

The hazards are listed one by one in `PROJECT.json`.

## Modules

Rollouts and publication:

- `Rollout` holds the pure part of the rollout: sample totals, thresholds,
  progress, `SyncProgress`, `NextProgress`.
- `Release` is the abstract specification: what the annotations of an object may
  do, without replicas, messages or clocks.
- `RolloutFleet` runs `Rollout` on every replica.  `log` is the sequence of versions
  of the object, the resourceVersion is the index, and `seen` is how far a watch
  has come.  `Build`, `ReconcileRollback`, `ReconcileProgress` and the four commands
  are the handlers; patches travel in `patches`, where they may be lost or applied
  late.  `evidence` and `locked` are history variables for the properties.
- `RolloutProofs` proves theorems about `RolloutFleet`; `MCRolloutFleet` gives it two
  lists of steps.
- `PluginCheckpoint` follows the routes and the plugin of one Ingress through build,
  proposal, checkpoint and publication.  Every replica sees Ingress, plugin and
  checkpoint through watches with delays of their own; the persist task makes one
  API call per step.  Specs and sources are named by their content, as the code
  compares them: what a tenant puts back has the name it had before.  `live` (which
  contents were in force together), `written` (when each checkpoint was written) and
  `barred` are history variables for the properties.
- `Publication` has processes that start, publish, fail and crash over one history
  directory.  `stable` is what a power failure may leave of it.

Control plane:

- `Routing` computes both indices (virtual hosts, Gateway listeners) as the code
  builds and reads them, and a reference that scans all routes.
- `GatewayBuild` turns a cluster into listeners, routes and status.  Secrets, grants,
  Services, TLS policies, plugin sources and Namespaces are dependencies that come and
  go (`Reconcile`); `Ask` routes a request through the snapshot with the index of
  `Routing`.  `Eligible`, `Counted` and `Planned` are the three stages of the checks of a
  route: before, in and after the quota of its namespace.  `EntryPlaces` lists
  the entries of a listener by route, rule, match and hostname; `RouteEntry` is what is
  installed for one of them.
- `GatewayCheckpoint` is the Gateway's counterpart of `PluginCheckpoint`: build with
  its history, the writer with one step per API call, restore and readiness.
- `StatusLeader` has replicas that claim and renew a Lease against a clock, read the
  published Service and patch the status of an object; `gateway` selects the variant.
- `Gates` has the watcher of the control files, one read per step, the poller's
  rounds and the failure runs of a rollout.
- `Tenancy` has the registry of Tenants, the build's and the snapshot's references to
  them, and requests that keep theirs.
- `Xdp` has the pin directory, the kernel's link, and an agent that can be killed
  between any two calls.

Data plane:

- `Proxy` is the life of a request in Pingora (`proxy/mod.rs`) and in Hyper
  (`proxy/hyper/request.rs`), with the fast path of `plain.rs`.  `facts` says what is
  particular about a request and its route (a denied address, an external
  authorizer, a plugin that fails, a deadline, a tunnel, ...); the two requests of a
  behaviour share it.  `req` is the Context with the permits it holds; every early
  return of the code is a transition to the completion.  `transport` is the
  connection whose flush releases what queued responses hold.
- `Connections`, `UpstreamPool`, `Backend`, `Limiter`, `StaticFiles`, `ScriptQueue`,
  `FileLogs` and `Export` model the components of the table.  Where the code takes a
  lock or reads an atomic without one, the steps between are steps of the model: the
  swap of `pending` before the lock of the counts, the health revision before the
  scan, the clock before the table of buckets.

Compositions:

- `MCLifecycle` (`Proxy`, `Connections`, `ScriptQueue`), `MCDataPlane` (`Proxy`,
  `Backend`, `Limiter`, `UpstreamPool`, `StaticFiles`, `FileLogs`, `Export`) and
  `MCControlPlane` (`Routing`, `GatewayBuild`, `GatewayCheckpoint`, `StatusLeader`,
  `Gates`, `Tenancy`, `Xdp`) put the parts of one plane side by side.  The parts
  share no state: a request holds a lease, a permit or a quota by a count of its own
  module.  Their product would therefore add nothing but states, and a behaviour
  moves one of them, named by `part`; the others rest where they begin, where none of
  their fair actions is enabled.

Proofs, one module for the parts that are proved alike:

- `RolloutProofs` (`RolloutFleet`), `PublicationProofs` (`Publication`) and `PluginProofs`
  (`PluginCheckpoint`);
- `BudgetProofs`: what is counted or kept (`Tenancy`, `Export`, `Limiter`, `Connections`,
  `FileLogs`);
- `UpstreamProofs` (`Backend`, `UpstreamPool`);
- `PlatformProofs`: what meets the machine, the API server and its resources (`Xdp`,
  `Gates`, `StaticFiles`, `GatewayCheckpoint`, `StatusLeader`, `Routing`, `GatewayBuild`);
- `ProxyProofs` (`Proxy`);
- `CountTheorems`: facts about cardinalities, sums, least and greatest numbers and
  ranks that the others cite.

Operators whose comment begins with "Mutant of" are deliberately wrong variants of
the definition that follows them; each one makes TLC refute a property.

### Abstractions

Rollouts and publication.  A policy is a number that stands for revision and hash; a
spec, a source and a bundle are numbers or model values.  Ages of samples are left
out: a sample may leave the window at any time.  Requests to the fallback backend are
left out, for they are never sampled.  The gates of a stage pass or fail by choice.
The election of a leader is replaced by a set of replicas that may all believe they
lead.  A report or a view that is too old is kept as if absent, since nothing reads it
again.  A State whose snapshot is one of the eight kept for rollback is treated as
dropped once nothing routes by it (`Referenced`).  In `PluginCheckpoint` namespace quotas
and domains do not interfere, the compiler is ready or not by choice, and an
IngressClass that is missing is seen with the Ingress, not by a watch of its own.  Cutting the
persist task short is a lost write.  In `Publication` capturing the files is one step, and the size budget may evict any number of the
oldest revisions.

Control plane.  In `Routing` a host is a sequence of labels and a path a sequence of
characters that begins with a slash; hosts arrive in lower case without a final dot.
A virtual host stands for its certificate, which is right for nginx and for Gateway
listeners; the hosts an Ingress lists under `spec.tls` apart from its rules are left out.
In `GatewayBuild` the checks of a route that no other object decides are two flags, one
for those before the route is counted and one for those after; quotas are the same for
every namespace, mirrors are not part of the outcome, and a plugin source that is there
compiles (`GatewayCheckpoint` has those that do not).  `GatewayCheckpoint` has one route and one
source; the history an authentication failure restores is left out, and a PUT that
timed out is lost, never late (in `PluginCheckpoint` it may be late).  In `StatusLeader`
the clock is shared, in units of the 5 s an API call may take; a call is bounded by its
timeout, so a process that is stopped inside one is left out, and the updates of a batch,
of which the Ingress controller has up to eight under way, are made one by one.  In
`Gates` versions of a file are never used again.  In `Xdp` the contents of the maps are
left out; pinning the maps and loading the program is one step, and an agent whose first
prune fails goes on to where it may be stopped instead of stopping there.

Data plane.  In `Proxy` the answers of authorizer, plugin and upstream are facts of a
behaviour and only timing is free: budgets, deadlines, cancellations, connections.
Headers are one header an authorizer may set.  Compression and retries inside the
HTTP libraries are left out, and so are Hyper's refusals of malformed CONNECT and upgrade
requests (`hyper/request.rs` lines 439 to 502) and of a backend that is gone from the
prepared targets after the lease (line 530), which end as any refusal there does, and a
new selection on a retry of Pingora.  That a transport is marked as failed and that its
queue is drained is one step, where the drain may wait for the drop of the stream
(`hyper/io.rs` line 352).  In `Connections` an upgrade is one to h2c; tunnels are left out,
and streams of HTTP/2, which share the Lease of their connection, end with it.  In
`UpstreamPool` put is one step: the permit of a connection it evicts is
not taken by another pool before put takes it again.  In `Backend` any endpoint the balancing may choose is
chosen.  `StaticFiles` leaves out try_files and alias; both engines run the same
steps.  In `ScriptQueue` a source compiles or does not.

## Runs

| Run | Instance | Shows |
|---|---|---|
| `rollout_fleet` | 2 replicas, 1 leader, 2 stages with samples, resume, 2 seconds, 4 versions | `AdvanceHasEvidence`, `NeverAhead` |
| `rollout_commands` | 1 replica, all commands, approval, 2 policies, 2 patches under way | `ImplementsRelease`, and the inductive invariant `Derived` |
| `rollout_latch` | 2 replicas, no leader, failing requests, 2 policies, 2 uids | `LatchIsRecorded`, `RollbackReachesAll` under fairness |
| `rollout_reuse` | as above with old policies applied again | refutes `RevisionLockPermanent` |
| `plugin_checkpoint` | 2 replicas (symmetric) with 2 edits of routes and source, or an edit and a restart; or 1 with 2 edits of each, or with 3 of the source and the IngressClass; 1 write under way | `ServedIsDurable`, `CheckpointWasLive`, `WithdrawnStaysDown`, `CheckpointNeverRegresses` |
| `plugin_converges` | 1 replica, 2 edits of any kind, slow compiler, restart | `Converges` under fairness |
| `plugin_secrets` | a Secret of the policy may be missing | refutes `ServedIsDurable` |
| `publication` | 2 process slots (symmetric), 3 bundles, 3 versions, 3 failures | `ServesLatest`, `RollbackIsFaithful`, `CommittedSurvives` |
| `publication_handover` | a process may exit while another starts | refutes `ServesLatest` |
| `lifecycle` | 2 requests of one process, 2 connections of 2 peers, 4 sources of 2 namespaces; every budget 1 or 2 | `AdmissionCounted`; under fairness `RequestsRelease`, `DrainCompletes`, `ScriptsSettle` |
| `data_plane` | 2 requests with any two facts, 2 endpoints, 2 keys, 3 upstream connections, files of 3 bytes, 4 log records, 5 telemetry records | the thirteen invariants below |
| `control_plane` | routing tables of 2 hosts or 2 listeners, clusters with up to all dependencies missing, 2 replicas, 7 units of time, 2 versions of each file, 4 XDP programs | the five invariants and four action properties below |

What the properties of the last three runs say:

- `RequestsRelease`: a request ends and gives back every permit, whatever fails and
  whoever leaves.  `DrainCompletes`: a service that drains is without connections in
  the end.  `ScriptsSettle`: a source a route refers to is served or rejected, full
  queues and spent budgets only delay it.  `AdmissionCounted`: the counts of peers,
  listeners and semaphores are what the connections alive account for.
- `NoBypass`, `EnginesAgree`, `AuthorizerDecides`: no path around a policy, the same
  verdict and the same evidence from both engines and the fast path, and a header the
  authorizer decides never reaches the upstream with the client's value.
  `CancelledIsNotEvidence`: a request the client gave up says nothing about the
  upstream unless the upstream had failed before.  `NothingStranded`: no response
  waits for the flush of a transport that has failed.
- `CachedSelectionFresh`: a cached selection that may be used is the one a scan would
  make now.  `LeasesCounted`: leases and counts agree across DNS changes.
- `PermitsCounted`, `RateBound`: a sweep of the full table neither loses nor
  duplicates a permit, and the rate is bounded whatever is swept.
- `ConnectionsExclusive`: an upstream connection is idle once or used by one exchange,
  and the shared budget is exact.
- `DeliversAnnounced`: a file response that completes is the one its headers announce.
- `RecordsRetained`, `RecordsAccounted`: a log record is lost only to pruning beyond
  `keep`, oldest first, whatever crashes; every telemetry record is counted once.
- `IndexIsScan`: both indices answer as the scan.  `FailsClosed`: whatever certificate,
  authentication Secret, grant, Service or CA bundle is missing, a request meets the
  backend and the transport it would meet with all of them there, or it is refused and
  a status says so; a broken reference never shifts its share to another backend.  Plugin
  sources and Namespaces are as they are on both sides of the comparison (`Deciding`),
  for without them build() withdraws or detaches a route and a broader one may answer.
- `CheckpointsAdvance`, `RestoredBeforeReady`: a checkpoint of a Gateway route never
  goes back, and a fresh replica is ready only when a route it can restore is served.  `StatusAdvances`: a
  leader that was replaced cannot publish an older address or generation.
- `RollbackSustained`: a metric rolls back only after the required number of failures,
  in a row, over the required time, under one version of the file.
  `ControlsCoherent`: files that change while they are read never mix.
- `OneTenant`: a namespace has one Tenant for as long as anything refers to it.
- `LinkRecoverable`: whatever the agent dies in, the pinned link is one the next agent
  accepts (`docs/xdp.md` line 103).

Deadlock checking is off: the bounds let every model come to an end.

Bounds.  Two replicas suffice for every race between a process that acts and one
that lags, since replicas meet only in the API server; a lagging replica is one
whose `seen` is old.  Two stages distinguish "next stage" from "last stage, promote",
and the second needs two samples, so that one sample of the past would make the
difference.  Four versions allow a start, an advance and two concurrent writes.
Freshness 0 with two seconds makes reports go stale.  Two edits allow the orders
that the hazards name: withdraw and restore, route change against source change.
Four edits are what it takes to replace a source, change the routes twice and put the
source back between the two reads of `persist_one`, and three to withdraw a source, serve
another and put the first back: without `PutBack` and `CameBack` the run fails.  One
replica is enough there, since its own watches lag (`running`).  One write under way at a time is a
bound of the runs; the theorems have any number.
Three failures allow a rejected write followed by a crash and a power failure.
`MaxRevisions` and `MaxPrevious` are smaller than the 9 and 8 of the code so that
eviction happens.

In the last three runs every limit is 1 or 2, small enough that it is reached: budgets
of 1 for two requests, one connection pending per peer (of the limits of `Connections` only
this one and the header budget refuse in the run; the others are covered by the theorem), a queue of 2 for 4 sources, a
table of 2 buckets for two kinds of limit and two keys, 2 idle connections for
3 that are alive, a log file of 2 records with 2 archives for 4 records, a channel of 2 for 5
records.  Facts are taken two at a time, since every
disagreement between two orders of checks shows on two facts that both refuse.  An address may
leave and come back once, which gives two States of one address.  Lease duration 6,
renewal 2 and call timeout 1 are the 30, 10 and 5 seconds of the code in units of 5 s;
the clock goes one unit past a Lease, which is enough for one takeover; a Lease that is
lost and taken back within one batch (`regained`) needs two, and is left to the theorem.
Two versions of each control file can mix in every way.  Two routes and two Services per
namespace let the third route, or one with a third Service, exceed the quota, which a
missing plugin source makes room in.  Four programs and three owner maps allow an agent, its reload, a crash
and a successor that reloads.  Symmetry permutes replicas, callers, users, exchanges
and threads, of which nothing tells one from another; runs with liveness
properties use none.

Fairness.  The controller loop wakes at every event and at least once a second,
reconciles every five seconds, and publishes whenever its input changed or, while a
diagnostic stands, every five seconds: weak fairness of building and reconciling at
the newest version.  The persist task repeats every ten seconds.  A request to the
API server is answered or times out (weak fairness of dropping), and a patch that is
sent again and again is not lost every time (strong fairness of applying).  In
`Proxy` every wait of a request or a mirror has its timeout, so a request proceeds,
and a connection flushes what is queued on it or fails (weak fairness of each).  In
`Connections` destructors run to their end and the timer of a drain fires; that a
client finishes, or a handshake ends before its timeout, is not assumed.  In
`ScriptQueue` the worker takes and finishes jobs, the controller rebuilds, and the
minute of a budget passes.  Nothing is assumed about operators, clients, restarts or,
elsewhere, the clock.

## Where documentation and code differ

1. `docs/governance.md` line 84: a rollback locks its revision for good.  The lock is
   one annotation with one revision.  Roll back A, release and roll back B, apply A
   again: A starts without its rollback (`rollout_reuse`).  Within the advice never
   to reuse a revision (`docs/platform-policies.md`) this does not happen; that is
   the assumption `ReuseRevisions = FALSE` of the proofs.
2. `src/ingress/mod.rs` line 705: publication follows the acknowledgement of the
   checkpoint.  A missing policy Secret makes build forget the accepted routes; when
   it is back, changed routes are served although no checkpoint holds them
   (`plugin_secrets`).
3. `docs/platform-policies.md` line 92: a restart restores the most recently committed
   version, and versions grow.  The journal is read before the lock is taken; a
   version published in between by the process that is about to exit is put behind
   (`publication_handover`).

## Observations without a run

What modelling brought to light and the properties above are careful to allow, or the
abstractions leave out.

- History: a revision whose rename was never synced (the process died in between) is
  served by the next process without a sync, because record finds it in the journal;
  a power failure may still take it away.  `CommittedSurvives` therefore speaks of
  publications that succeeded.  A change of listeners is refused with the advice to
  restart, while a restart with `--history-dir` restores the old listeners.
- Requests: when the response hook of a plugin fails after the upstream's transport
  failed, Hyper replaces the error, which then counts neither for health nor for the
  rollout, and Pingora keeps it; `EnginesAgree` leaves this case out.  A deadline is an
  internal error without a sample in Hyper, while Pingora blames the upstream
  (`docs/platform-policies.md` line 62).  Errors of a tunnel are put down to the
  client.  A connection that closes without failing leaves a guard queued afterwards
  to the drop of the last reference to it.
- Backends: a failure recorded after a cooldown has expired, but before the next
  selection has noticed, is forgotten with the cooldown.
- Rate limits: the clock is read before the lock of the table, so a request that is
  overtaken sets the clock of a bucket back (the term `skew` of `RateBound`).  A swept
  bucket starts over full, which needs `Burst <= Idle * PerSecond` not to exceed the
  rate (`docs/product-features.md` line 50).
- Routing: the path `*` of `OPTIONS *` is matched differently by the index and by
  `PathMatch::matches`; the model has paths that begin with a slash.
- Ingress checkpoints: `persist_one` compares text (`ingress/checkpoint.rs` lines 171 to
  196).  When the tenant replaces a source, changes the routes, and changes them again
  and puts the source back between the two reads, a replica that lags checkpoints the
  routes in between with the source, a pair that was never in force; `CheckpointWasLive`
  excepts exactly this (`PutBack`).  Likewise a source that is put back after another one
  was withdrawn may find an older checkpoint, and the process serves that for a moment
  (`CameBack`).  An Ingress that has neither script nor policy any more is treated by
  its history: a replica that has accepted the built-in version keeps proposing its
  checkpoint (`ingress/mod.rs` line 611), one that has not prunes it, and two such
  replicas create and delete it in turn for ever.
- Gateway: a route whose structure or quota is refused, or whose plugin's ConfigMap or
  key is missing (`script()` fails at `gateway/build.rs` line 461, before `rejected_spec` is
  set at line 556), is not installed, so a broader route, without its plugin and its
  authentication, may answer in its place; the same happens on a listener whose selector
  no longer finds the labels of the namespace.  `docs/gateway-api.md` line 60 promises a
  500 for authentication dependencies only.  Two listeners with one port and hostname,
  which the CRD excludes, would be invalid and yet the second would take the first
  one's place in the index.  A plugin withdrawn and added again with a broken source
  may find the old checkpoint if it was not pruned yet.
- Status: a batch that stalls past its own Lease and then past its successor's claims
  the Lease again and goes on with the address it had read before, so a comment of
  `ingress/status.rs` (line 255: losing the Lease cancels pending writes) is not the
  whole story; the next batch reads again.  `StatusAdvances` excepts this case (`regained`).
  A failed GET of the Service publishes no addresses.  Clocks may differ by
  the margin of 5 s.
- Control files: a file that changes and changes back while it is read is not
  detected.  A round of the poller evaluates with the controls it began with, and an
  observation made just before a change of stage counts for the new stage.
- Scripts: `ScriptsSettle` needs that the sources compiled during one build are at most
  the 64 of the warm list, that those rejected and wanted at once are at most 128, and
  that a build comes within 30 s of a compilation.
- XDP: SIGTERM during a reload without `--persist` lets the loading thread pin an
  owner and a rates map again after the directory was cleaned up, and a crash inside
  that clean-up leaves a rates map without an owner; the next agent refuses such a
  directory.  The link is not concerned, so `LinkRecoverable` holds.
- Logs: a crash between the hard link and the rename leaves an archive that is the
  active file, which takes one of the `keep` places.
- Telemetry: a call of record that took longer than the 5 s of shutdown could be
  counted as dropped twice; the model has it finish in time.
- Files: a range that is inverted or cannot be met gives 416.

## Proofs

Every theorem is about the specification of its module (`LogsSpec`, `ProxySpec`, ...), for all
constants that satisfy the module's named assumption.  The assumptions say that sets are
finite and numbers natural, limits at least 1 where the configuration refuses 0; the
bounds of the models (`Max...`) are arbitrary numbers.  Five go further, and are what
the code has: `LeaderAssumption` asks that a renewal period and three calls fit into the
Lease (10 s and 3 * 5 s into 30 s), `RuleAssumption` that percentages are percentages,
`ProxyAssumption` that requests are numbered, and `RoutingAssumption` and
`GatewayAssumption` that tables, clusters and requests are well formed.  A table of
virtual hosts comes from one source, and the default host of Ingresses is the one
with the empty name (`ingress/mod.rs` line 1136; an nginx `default_server` may have any
names).  A wildcard has labels after it, a path begins with a slash, a host has fewer than
`usize::MAX` labels and is not the name `"?"`, which the reference uses for a host no
pattern is for.  A cluster has fewer rules in a route and matches in a rule than the
100 of `Wide` (the CRDs allow 16 and 64), and no Service is called `"none"`, the model's word
for a missing backend.  Some theorems have a hypothesis of
their own, without which a run refutes them; it is named below.

A proof has the same shape everywhere: an inductive invariant, one lemma per action
that it is kept, and a theorem that it implies the property the runs check.  What the
invariant adds to the property, and why:

| Theorem | Property | What the induction needs |
|---|---|---|
| `TypeCorrect`, `DerivedInvariant` | `Derived` | see below |
| `ReplicasNeverAhead` | `NeverAhead` | `Derived` |
| `FleetImplementsRelease` | `ImplementsRelease` | `Derived`: a patch at the current version is a `Release` step |
| `StagesLeftOnEvidence` (`ReuseRevisions = FALSE`) | `AdvanceHasEvidence` | `EvidenceCounted`: see below |
| `P95CountIsExact` | | the counting test of `completed` and `next_progress` is the nearest-rank p95 (`rollout.rs` line 326) |
| `LatestIsServed`, `RollbackFindsServed`, `PublishedSurvives` (without hand-over) | `ServesLatest`, `RollbackIsFaithful`, `CommittedSurvives` | `Good`: what every journal a stop may leave looks like; `ProcOk`: what each process knows of the disk at each point of its life |
| `CheckpointIsOfOneTime`, `CheckpointGoesForward` | `CheckpointWasLive`, `CheckpointNeverRegresses` | `CkInv`: what every log holds (`Logs`) and that the present is among `live`; `Past`: a version anywhere is made of routes and a source that have been in force; `TaskOk`: what persist_one and prune_one know between their two reads, since the checkpoint they listed was written; `WriteOk`: the same of a write under way |
| `PublishedIsDurable` (Secrets can be read) | `ServedIsDurable` | `Acknowledged`: what is accepted has been in the checkpoint |
| `RevokedIsNotRestored` | `WithdrawnStaysDown` | `Held`: a process that is not revoked any more has seen a checkpoint from after the withdrawal |
| `TenantIsShared` | `OneTenant` | counts are the requests served; whatever refers to a Tenant refers to the registry's |
| `RecordsAreAccounted` | `RecordsAccounted` | the record of a thread and the batch of the worker between a step and its counter |
| `PermitsAreCounted`, `RateIsBounded` | `PermitsCounted`, `RateBound` | `Earned`: tokens left and requests granted together are within burst and rate since the bucket's clock, give or take `skew`; what a sweep removes was full again |
| `AdmissionIsCounted` | `AdmissionCounted` | `Proper`: the flags a connection may have at each place; which of the five counts a step changes |
| `RecordsAreRetained` | `RecordsRetained` | `InOrder`: archives are in the order of their records; `SameFile`: a file with two names is the newest archive; `LostAreOld`; `Publishing`: between link and rename |
| `LeasesAreCounted`, `SelectionIsFresh` | `LeasesCounted`, `CachedSelectionFresh` | `Faithful`: what the part of a scan done so far is worth while the health revision stands; who holds the health lock |
| `ConnectionsAreExclusive` | `ConnectionsExclusive` | connections are looked for by name rather than by place: `TableOk`: a bucket holds distinct ones and no two buckets the same; the permits taken are the connections that lie anywhere (`Lying`) |
| `LinkIsRecoverable` | `LinkRecoverable` | `DirectoryOk`, `ProgramsOk`: for every place in the agent's code, what is pinned and what is attached |
| `ControlsAreCoherent`, `RollbackIsSustained` | `ControlsCoherent`, `RollbackSustained` | `WatcherOk`: what eight readings have established; `TallyCovers`: a tally never gets ahead of its answers |
| `AnnouncedIsDelivered` | `DeliversAnnounced` | `Announced`, `SentTo`: which positions the reply stands for and how many have gone |
| `CheckpointsGoForward`, `ReadyHasRestored` | `CheckpointsAdvance`, `RestoredBeforeReady` | `Current`: what list, GET and GET have established about the checkpoint a PUT may replace |
| `StatusGoesForward` | `StatusAdvances` | `Timely` and `Leads`: a batch within its time holds the Lease; `Knows`: it has the latest address anyone read; `Prepared`: until its write |
| `IndicesAreScans` | `IndexIsScan` | no induction over steps: see below |
| `MissingResourcesFailClosed` | `FailsClosed` | `GatewayOk`: the snapshot is the build from what is available; the rest is about that build, see below |
| `ContextsAreOrdered` | | `ContextOk`: where a request is, which facts it has left behind (`Cleared`), and that it is on the way to the answer the facts call for (`Follows` the `Verdict`) |
| `PoliciesAreMet`, `EnginesDoAgree`, `AuthorizerHasTheLastWord`, `CancelledTellsNothing`, `NothingIsStranded` | `NoBypass`, `EnginesAgree`, `AuthorizerDecides`, `CancelledIsNotEvidence`, `NothingStranded` | `ContextOk`; for the last, what is queued on which transport |

`Derived` is inductive together with `TypeOK`.  `NeverAhead` and the refinement are not
inductive: a patch that passes the resourceVersion check must be known to be a legal
successor of that version, and a replica's progress to be one that some version
published.  `Derived` says so: versions of one key only move forward
(`VersionsOrdered`), every State's progress stems from a version its replica has seen
(`StatesFromVersions`), and every patch under way is a successor of the version it
names (`PatchesFromVersions`).  It assumes, with the two theorems that rest on it,
`ReuseRevisions = FALSE`.  Which replicas lead is arbitrary: two leaders at once are covered.

`StagesLeftOnEvidence` is about a sum: a leader adds up what the replicas reported, some of it
long ago.  `EvidenceCounted` says that there are numbers `done[r]`, the requests replica `r`
completed in the published stage, such that every window, report and observation of
`r` for that stage and start holds at most `done[r]`, while `evidence`, what the fleet really
completed, is their sum or has reached the minimum (`Accounted`); and that a patch under way
which leaves the stage was decided on enough of it (`PatchesHaveEvidence`).  Reports name
only stages and starts that some version published, and by `Derived` one that was left
does not come back, so counts of an earlier visit fit nowhere.  The sum is the
library's fold over a set; `CountTheorems` shows that it is the number of pairs of a
replica and one of its requests, which makes it a cardinality.

`IndicesAreScans` holds of any table.  For the virtual hosts: the candidate ends of a
path are exactly where a prefix can match, whichever of the two lists of ends is used;
exact, suffixes from the longest, default is the order of the ranks (`RanksAre`); and the
map that keeps the first of equals gives the best rank's first host.  For the Gateway: the
patterns a host is looked up under are those of rank 0 or more, from the highest
(`MatchingIs`); `Precedes` is a total order; and `Select` over one more list gives the best
of all lists tried so far (`SelectIs`, `CutTried`), so a group answers with its best match
(`GroupIs`).

`MissingResourcesFailClosed` compares two builds of one cluster, from what is available and
from that and everything that does not decide which routes there are (`Deciding`,
`Extends`): the same routes are eligible and counted in both (`EligibleSame`), and allowed at
the same listeners (`AllowsSame`).  A listener without its certificate has no entries; one with it has
the same places in both (`PlacesSame`), and entries that differ in nothing but weights
(`EntryAlike`), so the index finds the same entry (`AlikeEntries`, from the uniqueness of
the best).  Weights differ in backends that became nothing (`Weakened`), so a draw falls on
the same place (`SelectAtIs`): the answer is the same, or a refusal that the route's status
tells (`RuleServes`, `RouteTold`).  A handshake looks for the same certificate in both
(`OfferingIs`).

`EnginesDoAgree` rests on one idea: `Verdict` is a function of the facts alone, and every
request that nothing but the facts decides about ends as its `Verdict`, whichever
engine serves it; so two of them agree without being compared step by step.

Attempts that failed corrected three properties.  `WithdrawnStaysDown` is false of a process
that restores a checkpoint which brings an old source back after a newer one (`CameBack`); `StatusAdvances` of a batch that lost and regained its
Lease (`regained`); and `RollbackSustained` counts the failures under one version of
the metrics file.  Their mutants and runs are the same otherwise.

Only model-checked:

- liveness (`LatchIsRecorded`, `RollbackReachesAll`, `Converges`, `RequestsRelease`,
  `DrainCompletes`, `ScriptsSettle`), which is out of the prover's reach.

## Plan

Models: convergence of replica reports (`rgnix wait`); the reload of Ingress policies.

## Not modelled

Parsers and migration (text to settings), the annotations of policies and their
preflight (a dry run of build on a copy), parsing, typing and code generation of
scripts (a source compiles or does not), the sandbox that runs them (a plugin
answers, fails or runs out of time), cryptography and TLS (libraries), the eBPF
program and its maps (C in the kernel), domain claims (a pure check), the admission
webhook, diagnostics and audit (handlers around operations that are modelled), encodings of
telemetry and bodies, the command line.  They keep no state whose order of changes
matters, or are beyond what TLC can enumerate.
