----------------------------- MODULE GatewayBuild -----------------------------
(***************************************************************************)
(* How the Gateway controller turns a cluster's resources into routes      *)
(* (gateway/build.rs, references.rs, tls_policy.rs, routes.rs), and what a *)
(* request then meets.  The resources a configuration refers to (Secrets,  *)
(* ReferenceGrants, Services, CA bundles, plugin sources, Namespaces) come *)
(* and go while it stays the same; each is a dependency that is available  *)
(* or not.                                                                 *)
(*                                                                         *)
(* A cluster is [listeners, routes, policies]:                             *)
(*   listener [name, hostname, address, https, grant, needs, allows]       *)
(*   route    [uid, ns, hostnames, parents, plugin, valid, sound, needs,   *)
(*             rules]                                                      *)
(*   rule     [matches, backends, traffic]                                 *)
(*   backend  [service, grant, needs, weight, protocol]                    *)
(*   policy   [service, needs], the older first                            *)
(* where "needs" is a set of dependencies, "grant" one that is empty for a *)
(* reference within the namespace, "plugin" the source of the route's      *)
(* script, empty without one, and "allows" the namespaces a listener       *)
(* admits, [ns, needs]: a selector needs the Namespace and its labels.     *)
(* Routes come in the order of route_objects.sort_by_key (creation time,   *)
(* namespace, name).  Two flags stand for checks that no dependency        *)
(* decides: "valid" for those before the route is counted (its namespace,  *)
(* size, hostnames, domain grant), "sound" for those after it (timeouts,   *)
(* mirroring, rule names, matches, filters).  Lists of hostnames and of    *)
(* matches hold their default where the specification leaves them empty.   *)
(***************************************************************************)
EXTENDS Routing

CONSTANTS
    Clusters,
    Dependencies,
    Asked,              \* requests
    Samples,            \* draws of Policy::select
    MaxIngresses,       \* quota: routes of a namespace
    MaxRoutes,          \* its matches, by hostname and listener
    MaxBackends         \* the Services it refers to

ASSUME QuotaAssumption == MaxIngresses \in Nat /\ MaxRoutes \in Nat /\ MaxBackends \in Nat

VARIABLES
    cluster,
    available,      \* the dependencies that exist and are valid
    snapshot,       \* [listeners, certificates, listenerStatus, routeStatus]
    outcome         \* [query, sample, result] of the last request

gatewayVars == <<cluster, available, snapshot, outcome>>

RefusedRequest == [route |-> 0, backend |-> "none", transport |-> "none"]
Unasked == [query |-> NoQuery, sample |-> 0, result |-> RefusedRequest]

-----------------------------------------------------------------------------
(* references.rs permitted: a reference into another namespace needs a     *)
(* ReferenceGrant there; and allows: the routes a listener lets attach.    *)
Permitted(reference, deps) == reference.grant \subseteq deps
Allows(listener, ns, deps) == \E a \in listener.allows : a.ns = ns /\ a.needs \subseteq deps

(* The listeners.  A second listener of the same port and hostname is      *)
(* invalid; so is one whose certificate() fails, which still claims its    *)
(* name, without a certificate.                                            *)
Unique(ls, i) == \A j \in 1..(i - 1) : <<ls[j].address, ls[j].hostname>> # <<ls[i].address, ls[i].hostname>>
CertificateResolves(l, deps) == Permitted(l, deps) /\ l.needs \subseteq deps
ListenerValid(ls, i, deps) == Unique(ls, i) /\ (ls[i].https => CertificateResolves(ls[i], deps))
Certificates(ls, deps) ==
    [i \in {j \in DOMAIN ls : ls[j].https /\ Unique(ls, j)} |->
        [hostname |-> ls[i].hostname, address |-> ls[i].address, present |-> CertificateResolves(ls[i], deps)]]

(* routes::intersect: the more specific of two hostnames, if one covers    *)
(* the other; a wildcard is compared by its text.                          *)
AsHost(pattern) == IF pattern.wild THEN <<"*">> \o pattern.labels ELSE pattern.labels
Intersect(left, right) ==
    IF left = AnyHost THEN <<right>>
    ELSE IF right \in {AnyHost, left} \/ Covers(right, AsHost(left)) THEN <<left>>
    ELSE IF Covers(left, AsHost(right)) THEN <<right>>
    ELSE <<>>

(* transport, Policies::build and apply: the oldest policy claims its      *)
(* Service, valid or not; a backend without one keeps what it declares.    *)
PolicyResolves(policy, deps) == policy.needs \subseteq deps
ServicePolicy(c, service) == First({p \in DOMAIN c.policies : c.policies[p].service = service})
Transport(c, b, deps) ==
    LET p == ServicePolicy(c, b.service)
    IN IF p # NoId THEN IF PolicyResolves(c.policies[p], deps) THEN "tls" ELSE "invalid"
       ELSE IF b.protocol = "https" THEN "invalid" ELSE "plain"

(* The backendRefs: one without its grant, Service or TLS policy becomes   *)
(* (None, weight).  The weights are listed by the place of their           *)
(* backendRef.                                                             *)
BackendResolves(c, b, deps) ==
    Permitted(b, deps) /\ b.needs \subseteq deps /\ Transport(c, b, deps) # "invalid"
Weights(c, rule, deps) ==
    [i \in {j \in DOMAIN rule.backends : rule.backends[j].weight > 0 \/ rule.traffic # {}} |->
        [weight |-> rule.backends[i].weight,
         backend |-> IF BackendResolves(c, rule.backends[i], deps) THEN rule.backends[i].service ELSE "none",
         transport |-> Transport(c, rule.backends[i], deps)]]

(* A traffic policy of which one target is unbound refuses the whole rule; *)
(* otherwise its rollout decides (module Rollout), here one choice.  A     *)
(* rule of a route whose own policy failed has no backend at all.          *)
RuleWeights(c, route, rule, deps) ==
    LET weights == Weights(c, rule, deps)
        bound == {weights[i].backend : i \in DOMAIN weights}
    IN IF ~(route.needs \subseteq deps) THEN <<>>
       ELSE IF ~(rule.traffic \subseteq bound)
            THEN <<[weight |-> 1, backend |-> "none", transport |-> "plain"]>>
       ELSE IF rule.traffic # {}
            THEN <<[weight |-> 1, backend |-> "rollout", transport |-> "plain"]>>
       ELSE weights

-----------------------------------------------------------------------------
(* build(): a route whose plugin's ConfigMap or key is missing, or that    *)
(* fails another early check, is not eligible.  The others are counted     *)
(* against the quota of their namespace in order, before their rules are   *)
(* checked and their settings resolved.  A route whose settings fail keeps *)
(* its matches (rejected_spec); one that fails earlier has none.           *)
Eligible(c, deps) == {i \in DOMAIN c.routes : c.routes[i].valid /\ c.routes[i].plugin \subseteq deps}

RouteMatches(c, route) ==
    SumFunction([r \in DOMAIN route.rules |-> Len(route.rules[r].matches)])
        * Len(route.hostnames) * Len(c.listeners)
RouteBackends(route) ==
    UNION {{route.rules[r].backends[b].service : b \in DOMAIN route.rules[r].backends} :
              r \in DOMAIN route.rules}
Counted(c, eligible) ==
    LET counted[j \in DOMAIN c.routes] ==
            LET earlier == {k \in 1..(j - 1) : c.routes[k].ns = c.routes[j].ns /\ counted[k]}
                among == earlier \cup {j}
            IN /\ j \in eligible
               /\ Cardinality(earlier) < MaxIngresses
               /\ SumFunction([k \in among |-> RouteMatches(c, c.routes[k])]) <= MaxRoutes
               /\ Cardinality(UNION {RouteBackends(c.routes[k]) : k \in among}) <= MaxBackends
    IN counted

\* Mutant of Planned: a route whose authentication is unavailable is not installed.
PlannedWhenResolved(c, i, deps) ==
    Counted(c, Eligible(c, deps))[i] /\ c.routes[i].sound /\ c.routes[i].needs \subseteq deps

Planned(c, i, deps) == Counted(c, Eligible(c, deps))[i] /\ c.routes[i].sound

(* The listeners a parentRef selects ("" for no sectionName), and the      *)
(* hostnames of the route there.                                           *)
Attached(c, route, l, deps) ==
    /\ \E p \in route.parents : p \in {"", c.listeners[l].name}
    /\ ListenerValid(c.listeners, l, deps)
    /\ Allows(c.listeners[l], route.ns, deps)
AttachedHosts(c, route, l) ==
    FlattenSeq([h \in DOMAIN route.hostnames |-> Intersect(c.listeners[l].hostname, route.hostnames[h])])

(* The entries pushed for a listener: by route, rule, match and hostname,  *)
(* each with the route's age and the places of its rule and match.         *)
Wide == 100         \* above the rules of a route and the matches of a rule the API allows
RoutePlaces(c, i, l, deps) ==
    LET route == c.routes[i]
        hosts == AttachedHosts(c, route, l)
    IN IF ~Planned(c, i, deps) \/ ~Attached(c, route, l, deps) THEN <<>>
       ELSE FlattenSeq([r \in DOMAIN route.rules |->
              FlattenSeq([m \in DOMAIN route.rules[r].matches |-> [h \in DOMAIN hosts |-> <<i, r, m, h>>]])])
EntryPlaces(c, l, deps) == FlattenSeq([i \in DOMAIN c.routes |-> RoutePlaces(c, i, l, deps)])

RouteEntry(c, l, place, deps) ==
    LET route == c.routes[place[1]]
        rule == route.rules[place[2]]
        match == rule.matches[place[3]]
    IN [hostname |-> AttachedHosts(c, route, l)[place[4]], kind |-> match.kind, path |-> match.path,
        needs |-> match.needs, order |-> (place[1] * Wide + place[2]) * Wide + place[3], uid |-> route.uid,
        weights |-> RuleWeights(c, route, rule, deps)]
RouteEntries(c, l, deps) ==
    LET places == EntryPlaces(c, l, deps)
    IN [p \in DOMAIN places |-> RouteEntry(c, l, places[p], deps)]

(* The status of a listener, and of a route towards its parents.           *)
ListenerAccepted(c, l, deps) == ListenerValid(c.listeners, l, deps)
RouteStatus(c, i, deps) ==
    LET route == c.routes[i]
        at == {l \in DOMAIN c.listeners : /\ Planned(c, i, deps) /\ Attached(c, route, l, deps)
                                          /\ AttachedHosts(c, route, l) # <<>>}
    IN [accepted |-> at # {} /\ route.needs \subseteq deps,
        resolved |-> at = {} \/ (/\ route.needs \subseteq deps
                                 /\ \A r \in DOMAIN route.rules :
                                       LET w == Weights(c, route.rules[r], deps)
                                       IN \A x \in DOMAIN w : w[x].backend # "none")]

BuildGateway(c, deps) ==
    [listeners |-> [l \in DOMAIN c.listeners |->
        [address |-> c.listeners[l].address, hostname |-> c.listeners[l].hostname,
         entries |-> RouteEntries(c, l, deps)]],
     certificates |-> Certificates(c.listeners, deps),
     listenerStatus |-> [l \in DOMAIN c.listeners |-> ListenerAccepted(c, l, deps)],
     routeStatus |-> [i \in DOMAIN c.routes |-> RouteStatus(c, i, deps)]]

-----------------------------------------------------------------------------
(* Snapshot::tls_host over the certificates of the Gateway's listeners.    *)
Offering(certs, q) ==
    LET Rank(i) == IF certs[i].hostname = AnyHost THEN 0 ELSE HostRank(certs[i].hostname, q.host, FALSE)
        offers == {i \in DOMAIN certs : certs[i].address = q.address /\ Rank(i) >= 0}
    IN First({i \in offers : \A j \in offers : Rank(j) <= Rank(i)})
Handshake(snap, q) ==
    LET best == Offering(snap.certificates, q) IN best # NoId /\ snap.certificates[best].present

(* Policy::select_at: the first backend with whose weight the sum is above *)
(* the draw.                                                               *)
SelectAt(weights, sample) ==
    LET shares == [i \in DOMAIN weights |-> weights[i].weight]
        total == SumFunction(shares)
        Through(i) == SumFunctionOnSet(shares, {k \in DOMAIN shares : k <= i})
    IN IF total = 0 THEN NoId ELSE First({i \in DOMAIN shares : sample % total < Through(i)})

(* A request to a listener: the handshake of an HTTPS one, the route, and  *)
(* the backend of the sample; without one, 404 or 500.                     *)
Served(entry, sample) ==
    LET chosen == SelectAt(entry.weights, sample)
    IN IF chosen = NoId \/ entry.weights[chosen].backend = "none" THEN RefusedRequest
       ELSE [route |-> entry.uid, backend |-> entry.weights[chosen].backend,
             transport |-> entry.weights[chosen].transport]
Result(snap, tls, q, sample) ==
    LET at == RouteGateway(snap.listeners, q)
    IN IF (tls /\ ~Handshake(snap, q)) \/ at = NoRoute THEN RefusedRequest
       ELSE Served(snap.listeners[at[1]].entries[at[2]], sample)

IsTls(c, address) == \E l \in DOMAIN c.listeners : c.listeners[l].address = address /\ c.listeners[l].https

(* Well-formed clusters, as the API server lets them in.                   *)
IsRule(rule) ==
    /\ IsList(rule.matches) /\ Len(rule.matches) < Wide
    /\ \A m \in DOMAIN rule.matches : /\ IsMatcher(rule.matches[m], {"exact", "ingress"})
                                       /\ IsFiniteSet(rule.matches[m].needs)
    /\ IsList(rule.backends) /\ "none" \notin rule.traffic
IsRoute(route) ==
    /\ IsList(route.hostnames) /\ \A h \in DOMAIN route.hostnames : IsPattern(route.hostnames[h])
    /\ IsList(route.rules) /\ Len(route.rules) < Wide
    /\ \A r \in DOMAIN route.rules : IsRule(route.rules[r])
IsCluster(c) ==
    /\ IsList(c.listeners) /\ \A l \in DOMAIN c.listeners : IsPattern(c.listeners[l].hostname)
    /\ IsList(c.routes) /\ \A i \in DOMAIN c.routes : IsRoute(c.routes[i])

ASSUME GatewayAssumption ==
    /\ \A c \in Clusters : IsCluster(c)
    /\ \A q \in Asked : IsQuery(q)

GatewayInit ==
    /\ cluster \in Clusters
    /\ available = Dependencies
    /\ snapshot = BuildGateway(cluster, available)
    /\ outcome = Unasked

(* A dependency is deleted, broken or restored, and the controller builds  *)
(* and publishes from what it sees.                                        *)
Reconcile(d) ==
    /\ outcome = Unasked
    /\ available' = (available \cup {d}) \ (available \cap {d})
    /\ snapshot' = BuildGateway(cluster, available')
    /\ UNCHANGED <<cluster, outcome>>

Ask(q, sample) ==
    /\ outcome = Unasked
    /\ outcome' = [query |-> q, sample |-> sample,
                   result |-> Result(snapshot, IsTls(cluster, q.address), q, sample)]
    /\ UNCHANGED <<cluster, available, snapshot>>

GatewayNext ==
    \/ \E d \in Dependencies : Reconcile(d)
    \/ \E q \in Asked, sample \in Samples : Ask(q, sample)

GatewaySpec == GatewayInit /\ [][GatewayNext]_gatewayVars

-----------------------------------------------------------------------------
(* What decides whether a route is installed, and where it attaches.       *)
Deciding(c) ==
    (UNION {c.routes[i].plugin : i \in DOMAIN c.routes})
    \cup (UNION {UNION {a.needs : a \in c.listeners[l].allows} : l \in DOMAIN c.listeners})

(* What a route is served with may be missing, and never opens another way *)
(* in: a request meets the backend, over the transport, it would meet with *)
(* every certificate, authentication Secret, grant, Service and CA bundle  *)
(* there, or it is refused, and then a status of a listener or a route     *)
(* says so.  The two kinds of resource that decide whether a route exists  *)
(* at all are left as they are on both sides: without the source of its    *)
(* plugin a route is withdrawn, and without the labels of its Namespace it *)
(* is detached, so that a broader route may answer in its place.           *)
FailsClosed ==
    outcome # Unasked =>
        \/ outcome.result = Result(BuildGateway(cluster, available \cup (Dependencies \ Deciding(cluster))),
                                   IsTls(cluster, outcome.query.address), outcome.query, outcome.sample)
        \/ /\ outcome.result = RefusedRequest
           /\ \/ \E l \in DOMAIN snapshot.listenerStatus : ~snapshot.listenerStatus[l]
              \/ \E i \in DOMAIN snapshot.routeStatus :
                    ~snapshot.routeStatus[i].accepted \/ ~snapshot.routeStatus[i].resolved
=============================================================================
