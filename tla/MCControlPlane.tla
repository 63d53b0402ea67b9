--------------------------- MODULE MCControlPlane ---------------------------
(***************************************************************************)
(* What decides where requests go, checked for safety: the routing indices *)
(* (Routing), the Gateway API controller (GatewayBuild) with its           *)
(* checkpoints (GatewayCheckpoint), the leader that writes status          *)
(* (StatusLeader), metric gates and control files (Gates), budgets of      *)
(* namespaces (Tenancy) and the pins of the XDP agent (Xdp).  The parts    *)
(* share no state, so a behaviour moves one of them and the others stay    *)
(* where they begin.                                                       *)
(***************************************************************************)
EXTENDS GatewayBuild, GatewayCheckpoint, StatusLeader, Gates, Tenancy, Xdp

VARIABLE part       \* the part that moves in this behaviour

(* Controllers, Reporters and Members are the same two model values.       *)
ControlPlaneSymmetry == Permutations(Controllers)

-----------------------------------------------------------------------------
Exact(labels) == [wild |-> FALSE, labels |-> labels]
Wild(labels) == [wild |-> TRUE, labels |-> labels]
XY == Exact(<<"x", "y">>)
Slash == <<"/">>
A == <<"/", "a">>
ASlash == <<"/", "a", "/">>
AB == <<"/", "a", "/", "b">>

(* Two virtual hosts, of nginx or of Ingresses.  The names overlap, the    *)
(* paths are prefixes of one another, and the hosts may share an address.  *)
Matcher(kind, path) == [kind |-> kind, path |-> path]
RouteLists(prefix) ==
    {<<Matcher("exact", A), Matcher(prefix, p), last>> :
        p \in {A, ASlash}, last \in {Matcher(prefix, Slash), Matcher("default", <<>>)}}
    \cup {<<Matcher(prefix, A)>>, <<Matcher(prefix, ASlash), Matcher(prefix, A)>>}
Names == {AnyHost, XY, Wild(<<"y">>), Wild(<<"x", "y">>)}
HostTables ==
    UNION {{[gateway |-> FALSE, listeners |-> <<>>,
             hosts |-> <<[listener |-> 80, names |-> <<n>>,
                          default |-> IF prefix = "nginx" THEN d ELSE n = AnyHost,
                          ingress |-> prefix = "ingress", routes |-> routes],
                         [listener |-> a, names |-> <<m>>,
                          default |-> prefix = "ingress" /\ m = AnyHost,
                          ingress |-> prefix = "ingress", routes |-> <<Matcher(prefix, Slash)>>]>>] :
               n \in Names, m \in Names, a \in {80, 81},
               d \in IF prefix = "nginx" THEN BOOLEAN ELSE {FALSE},
               routes \in RouteLists(prefix)} : prefix \in {"nginx", "ingress"}}

(* Two listeners, the second with a route of its own.                      *)
Choice(hostname, kind, path, needs, order) ==
    [hostname |-> hostname, kind |-> kind, path |-> path, needs |-> needs, order |-> order]
Fixed == Choice(XY, "ingress", A, {<<"header", 1>>}, 2)
GatewayTables ==
    {[gateway |-> TRUE, hosts |-> <<>>,
      listeners |-> <<[address |-> 80, hostname |-> l,
                       entries |-> <<Choice(h, k, p, n, o), Fixed, Choice(g, "ingress", q, {}, 2)>>],
                      [address |-> 80, hostname |-> AnyHost,
                       entries |-> <<Choice(AnyHost, "ingress", Slash, {}, 1)>>]>>] :
        l \in {Wild(<<"y">>), XY}, h \in {AnyHost, Wild(<<"y">>)}, g \in {AnyHost, Wild(<<"y">>)},
        k \in {"exact", "ingress"}, p \in {A, ASlash}, q \in {Slash, A}, n \in {{}, {<<"method", 1>>}},
        o \in {1, 3}}
NoTable == [gateway |-> FALSE, hosts |-> <<>>, listeners |-> <<>>]
MCTables == HostTables \cup GatewayTables
MCQueries ==
    [address : {80}, host : {<<"y">>, <<"x", "y">>, <<"z", "x", "y">>},
     path : {Slash, A, ASlash, AB, <<"/", "a", "b">>},
     has : {{}, {<<"method", 1>>}, {<<"header", 1>>}, {<<"method", 1>>, <<"header", 1>>}}]

-----------------------------------------------------------------------------
(* One Gateway with a plain and two TLS listeners, one of which admits a   *)
(* namespace by its labels, and a Service that two TLS policies claim.  A  *)
(* route with a plugin is protected; a late one comes last in the quota of *)
(* its namespace, and is within it once the plugin is gone; one with a bad *)
(* filter counts against another namespace's, and may use up its Services. *)
Admits(ns, needs) == [ns |-> ns, needs |-> needs]
MCListeners ==
    <<[name |-> "http", hostname |-> AnyHost, address |-> 80, https |-> FALSE, grant |-> {}, needs |-> {},
       allows |-> {Admits("a", {}), Admits("b", {})}],
      [name |-> "site", hostname |-> XY, address |-> 443, https |-> TRUE, grant |-> {"certGrant"},
       needs |-> {"cert"}, allows |-> {Admits("a", {})}],
      [name |-> "any", hostname |-> Wild(<<"y">>), address |-> 443, https |-> TRUE, grant |-> {}, needs |-> {},
       allows |-> {Admits("a", {}), Admits("b", {"labels"})}]>>
Target(service, grant, weight, protocol) ==
    [service |-> service, grant |-> grant, needs |-> {service}, weight |-> weight, protocol |-> protocol]
Rule(path, backends, traffic) ==
    <<[matches |-> <<[kind |-> "ingress", path |-> path, needs |-> {}]>>, backends |-> backends,
       traffic |-> traffic]>>
Private(h) == [uid |-> 1, ns |-> "a", hostnames |-> <<h>>, parents |-> {""}, plugin |-> {"plugin"}, valid |-> TRUE,
               sound |-> TRUE, needs |-> {"auth"}, rules |-> Rule(A, <<Target("web", {}, 2, "http")>>, {})]
Public(traffic) ==
    [uid |-> 2, ns |-> "a", hostnames |-> <<AnyHost>>, parents |-> {""}, plugin |-> {}, valid |-> TRUE,
     sound |-> TRUE, needs |-> {},
     rules |-> Rule(Slash, <<Target("web", {}, 1, "http"), Target("api", {"grant"}, 1, "http")>>, traffic)]
BadFilter(services) ==
    [uid |-> 4, ns |-> "b", hostnames |-> <<AnyHost>>, parents |-> {""}, plugin |-> {}, valid |-> TRUE,
     sound |-> FALSE, needs |-> {},
     rules |-> Rule(AB, [s \in DOMAIN services |-> Target(services[s], {}, 1, "http")], {})]
LateRoute(ns) ==
    [uid |-> 3, ns |-> ns, hostnames |-> <<Wild(<<"y">>)>>, parents |-> {"any"}, plugin |-> {}, valid |-> TRUE,
     sound |-> TRUE, needs |-> {}, rules |-> Rule(AB, <<Target("api", {}, 1, "https")>>, {})]
NoCluster == [listeners |-> <<>>, routes |-> <<>>, policies |-> <<>>]
ApiPolicies == <<[service |-> "api", needs |-> {"ca"}], [service |-> "api", needs |-> {}]>>
Late(ns, others, policies) == [ns |-> ns, others |-> others, policies |-> policies]
MCClusters ==
    {[listeners |-> MCListeners,
      routes |-> <<Private(first[1]), Public(first[2]), BadFilter(late.others), LateRoute(late.ns)>>,
      policies |-> late.policies] :
        first \in {<<XY, {}>>, <<Wild(<<"y">>), {"web"}>>, <<XY, {"web", "api"}>>},
        late \in {Late("a", <<"web">>, ApiPolicies), Late("b", <<"web">>, ApiPolicies),
                  Late("b", <<"web">>, <<>>), Late("b", <<"web", "old">>, ApiPolicies)}}
MCDependencies == {"cert", "certGrant", "auth", "web", "api", "grant", "ca", "plugin", "labels"}
MCAsked == [address : {80, 443}, host : {<<"x", "y">>, <<"z", "y">>}, path : {Slash, AB}, has : {{}}]

MCGatesOf == [v \in 1..MaxVersion |-> Gate]

-----------------------------------------------------------------------------
ControlPlaneVars ==
    <<part, routingVars, gatewayVars, checkpointVars, leaderVars, gateVars, tenancyVars, xdpVars>>

(* The parts with a configuration stay without one when they do not move.  *)
RoutingRests == table = NoTable /\ query = NoQuery /\ answer = NoRoute
GatewayRests == /\ cluster = NoCluster /\ available = {} /\ outcome = Unasked
                /\ snapshot = BuildGateway(NoCluster, {})

ControlPlaneInit ==
    /\ part \in {"routing", "build", "checkpoint", "leader", "gates", "tenancy", "xdp"}
    /\ IF part = "routing" THEN RoutingInit ELSE RoutingRests
    /\ IF part = "build" THEN GatewayInit ELSE GatewayRests
    /\ (part # "leader" => gateway = TRUE) /\ LeaderInit
    /\ CheckpointInit /\ GatesInit /\ TenancyInit /\ XdpInit

ControlPlaneNext ==
    \/ /\ part = "routing" /\ RoutingNext
       /\ UNCHANGED <<part, gatewayVars, checkpointVars, leaderVars, gateVars, tenancyVars, xdpVars>>
    \/ /\ part = "build" /\ GatewayNext
       /\ UNCHANGED <<part, routingVars, checkpointVars, leaderVars, gateVars, tenancyVars, xdpVars>>
    \/ /\ part = "checkpoint" /\ CheckpointNext
       /\ UNCHANGED <<part, routingVars, gatewayVars, leaderVars, gateVars, tenancyVars, xdpVars>>
    \/ /\ part = "leader" /\ LeaderNext
       /\ UNCHANGED <<part, routingVars, gatewayVars, checkpointVars, gateVars, tenancyVars, xdpVars>>
    \/ /\ part = "gates" /\ GatesNext
       /\ UNCHANGED <<part, routingVars, gatewayVars, checkpointVars, leaderVars, tenancyVars, xdpVars>>
    \/ /\ part = "tenancy" /\ TenancyNext
       /\ UNCHANGED <<part, routingVars, gatewayVars, checkpointVars, leaderVars, gateVars, xdpVars>>
    \/ /\ part = "xdp" /\ XdpNext
       /\ UNCHANGED <<part, routingVars, gatewayVars, checkpointVars, leaderVars, gateVars, tenancyVars>>

ControlPlaneSpec == ControlPlaneInit /\ [][ControlPlaneNext]_ControlPlaneVars
=============================================================================
