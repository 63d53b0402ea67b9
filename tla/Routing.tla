------------------------------- MODULE Routing -------------------------------
(***************************************************************************)
(* How a request finds its route: the index of the NGINX and Ingress       *)
(* virtual hosts (routing.rs, model.rs) and the index of the Gateway       *)
(* listeners (gateway/routes.rs, gateway/routes/index.rs).  Each answers   *)
(* with maps keyed by host suffixes and path prefixes what a scan of all   *)
(* routes would.                                                           *)
(*                                                                         *)
(* A host is the sequence of its labels and a path that of its characters; *)
(* hosts are in lower case without a final dot, as both lookups make them. *)
(* The predicates of a Gateway match (method, headers, query) are names a  *)
(* request either satisfies or not.                                        *)
(***************************************************************************)
EXTENDS Integers, Sequences, FiniteSets, FiniteSetsExt, SequencesExt

CONSTANTS
    Tables,         \* routing tables, of virtual hosts or of listeners
    Queries         \* requests: [address, host, path, has]

VARIABLES
    table,          \* the published table
    query,          \* the request routed last
    answer          \* its route, NoRoute when there is none

routingVars == <<table, query, answer>>

NoRoute == <<>>
NoId == 0
NoQuery == [address |-> 0, host |-> <<>>, path |-> <<>>, has |-> {}]

First(ids) == IF ids = {} THEN NoId ELSE Min(ids)
From(seq, i) == SubSeq(seq, i, Len(seq))
TrimSlashes(path) ==
    SubSeq(path, 1, Max({0} \cup {i \in DOMAIN path : path[i] # "/"}))

AnyHost == [wild |-> FALSE, labels |-> <<>>]
Covers(pattern, host) == pattern.wild /\ Len(host) > Len(pattern.labels)
                         /\ IsSuffix(pattern.labels, host)

-----------------------------------------------------------------------------
(***************************************************************************)
(* Virtual hosts: [listener, names, default, ingress, routes], each route  *)
(* a matcher [kind, path].                                                 *)
(***************************************************************************)
Matches(m, path) ==
    CASE m.kind = "exact" -> path = m.path
      [] m.kind = "nginx" -> IsPrefix(m.path, path)
      [] m.kind = "ingress" ->
            LET p == TrimSlashes(m.path)
            IN \/ p = <<>>
               \/ path = p
               \/ IsStrictPrefix(p, path) /\ path[Len(p) + 1] = "/"
      [] m.kind = "default" -> TRUE

(* The maps of Index::build: entry().or_insert() keeps the first.          *)
On(hosts, address) == {id \in DOMAIN hosts : hosts[id].listener = address}
Listing(hosts, address, name) ==
    {id \in On(hosts, address) : \E i \in DOMAIN hosts[id].names : hosts[id].names[i] = name}
ExactHost(hosts, address, host) ==
    First({id \in Listing(hosts, address, [wild |-> FALSE, labels |-> host]) :
              ~(host = <<>> /\ hosts[id].ingress)})
WildcardHost(hosts, address, suffix) ==
    First(Listing(hosts, address, [wild |-> TRUE, labels |-> suffix]))
DefaultHost(hosts, address) ==
    First({id \in On(hosts, address) :
              \/ hosts[id].default
              \/ hosts[id].ingress /\ id \in Listing(hosts, address, AnyHost)})

(* Index::route: the host.  Suffixes are tried from the longest; a         *)
(* wildcard of an Ingress stands for one label.                            *)
SelectHost(hosts, address, host) ==
    LET usable == {dot \in 1..(Len(host) - 1) :
                      LET id == WildcardHost(hosts, address, From(host, dot + 1))
                      IN id # NoId /\ (~hosts[id].ingress \/ dot = 1)}
        exact == ExactHost(hosts, address, host)
    IN IF exact # NoId THEN exact
       ELSE IF usable # {} THEN WildcardHost(hosts, address, From(host, Min(usable) + 1))
       ELSE DefaultHost(hosts, address)

(* Paths::route: the exact map, then the maps of prefixes from the longest *)
(* end, where an Ingress prefix must end at a slash; then the fallback.    *)
(* The candidate ends are the configured lengths, or every character of a  *)
(* path that is shorter than their list.                                   *)
\* Mutant of AtSlash: an Ingress prefix may end anywhere.
AtAnyPlace(path, end) == TRUE

AtSlash(path, end) == end = Len(path) \/ path[end + 1] = "/"

PathKey(m) == IF m.kind = "ingress" THEN TrimSlashes(m.path) ELSE m.path
KeyedPath(routes, kind, key) ==
    First({r \in DOMAIN routes : routes[r].kind = kind /\ PathKey(routes[r]) = key})
AtEnd(routes, path, end) ==
    LET nginx == KeyedPath(routes, "nginx", SubSeq(path, 1, end))
    IN IF nginx # NoId THEN nginx
       ELSE IF AtSlash(path, end) THEN KeyedPath(routes, "ingress", SubSeq(path, 1, end)) ELSE NoId
PrefixEnds(routes, path) ==
    LET lengths == {Len(PathKey(routes[r])) : r \in {x \in DOMAIN routes : routes[x].kind \in {"nginx", "ingress"}}}
    IN IF Cardinality(lengths) <= Len(path) THEN {end \in lengths : end <= Len(path)} ELSE 0..Len(path)

SelectPath(routes, path) ==
    LET exact == KeyedPath(routes, "exact", path)
        hits == {end \in PrefixEnds(routes, path) : AtEnd(routes, path, end) # NoId}
    IN IF exact # NoId THEN exact
       ELSE IF hits # {} THEN AtEnd(routes, path, Max(hits))
       ELSE First({r \in DOMAIN routes : routes[r].kind = "default"})

(* Index::route: a path the host has no route for falls back to the        *)
(* default host, for an Ingress only.                                      *)
RouteHost(hosts, q) ==
    LET id == SelectHost(hosts, q.address, q.host)
        default == DefaultHost(hosts, q.address)
        At(h) == LET r == SelectPath(hosts[h].routes, q.path)
                 IN IF r = NoId THEN NoRoute ELSE <<h, r>>
    IN IF id = NoId THEN NoRoute
       ELSE IF At(id) # NoRoute THEN At(id)
       ELSE IF hosts[id].ingress /\ default # NoId THEN At(default) ELSE NoRoute

(* model.rs host_rank and Snapshot::tls_host: the certificate is that of   *)
(* the highest rank, the first of equals.  Here a virtual host stands for  *)
(* the certificate of its server block or Ingress host; the names under    *)
(* spec.tls, which an Ingress may list apart from its hosts, are not part  *)
(* of the table.                                                           *)
ExactRank == 2147483647        \* usize::MAX, above the length of any host
HostRank(pattern, host, ingress) ==
    IF ~pattern.wild /\ pattern.labels = host THEN ExactRank
    ELSE IF pattern = AnyHost /\ ingress THEN 0
    ELSE IF Covers(pattern, host) /\ (~ingress \/ Len(host) = Len(pattern.labels) + 1)
         THEN Len(pattern.labels) + 1 ELSE -1

TlsRank(vhost, host) ==
    Max({IF vhost.default THEN 0 ELSE -1}
          \cup {HostRank(vhost.names[i], host, vhost.ingress) : i \in DOMAIN vhost.names})
TlsHost(hosts, address, host) ==
    LET offers == {id \in On(hosts, address) : TlsRank(hosts[id], host) >= 0}
    IN First({id \in offers : \A x \in offers : TlsRank(hosts[x], host) <= TlsRank(hosts[id], host)})

-----------------------------------------------------------------------------
(***************************************************************************)
(* Gateway listeners: [address, hostname, entries], each entry a route's   *)
(* match [hostname, kind, path, needs, order] where kind is "exact" or     *)
(* "ingress" and order says how old the route is.                          *)
(***************************************************************************)
(* gateway/routes/index.rs Hosts::matching: the patterns a host is looked  *)
(* up under: itself, wildcards from the longest suffix, the fallback.      *)
Matching(host) ==
    [n \in 1..(Len(host) + 1) |->
        IF n = Len(host) + 1 THEN AnyHost ELSE [wild |-> n > 1, labels |-> From(host, n)]]

(* Match::matches and gateway/routes.rs host_rank.                         *)
EntryMatches(e, q) == Matches(e, q.path) /\ e.needs \subseteq q.has
GatewayHostRank(pattern, host) ==
    IF pattern = AnyHost THEN 0
    ELSE IF ~pattern.wild /\ pattern.labels = host THEN ExactRank
    ELSE IF Covers(pattern, host) THEN Len(pattern.labels) ELSE -1

(* Entry::priority: exact, the length as written, then the predicates; and *)
(* ListenerIndex::compare: then the older route, then the later entry.     *)
Predicates(e, kind) == Cardinality({n \in e.needs : n[1] = kind})
Standing(entries, id) ==
    LET e == entries[id]
    IN <<IF e.kind = "exact" THEN 1 ELSE 0, Len(e.path),
         Predicates(e, "method"), Predicates(e, "header"), Predicates(e, "query"), -e.order, id>>
Lexicographic(a, b) == \E i \in DOMAIN a : a[i] < b[i] /\ \A j \in 1..(i - 1) : a[j] = b[j]
Precedes(entries, a, b) == Lexicographic(Standing(entries, a), Standing(entries, b))

(* ListenerIndex::select: of one sorted list, the first entry that matches,*)
(* unless the best found before precedes it.                               *)
Select(entries, ids, q, best) ==
    LET better == {id \in ids : /\ EntryMatches(entries[id], q)
                                /\ best = NoId \/ Precedes(entries, best, id)}
    IN IF better = {} THEN best
       ELSE CHOOSE id \in better : \A x \in better \ {id} : Precedes(entries, x, id)

(* gateway/routes/index.rs Index::route.  In a group of entries of one     *)
(* hostname: the exact paths, then the prefixes from the longest, cut at   *)
(* the slashes of the path, then those for every path.                     *)
Prefixed(entries, pattern, key) ==
    {id \in DOMAIN entries : /\ entries[id].hostname = pattern /\ entries[id].kind = "ingress"
                             /\ PathKey(entries[id]) = key}
GroupExact(entries, pattern, q) ==
    Select(entries, {id \in DOMAIN entries : /\ entries[id].hostname = pattern /\ entries[id].kind = "exact"
                                             /\ entries[id].path = q.path}, q, NoId)
GroupCut(entries, pattern, q, end, best) ==
    IF end > 0 /\ AtSlash(q.path, end)
    THEN Select(entries, Prefixed(entries, pattern, SubSeq(q.path, 1, end)), q, best)
    ELSE best
Group(entries, pattern, q) ==
    LET tried[n \in 0..Len(q.path)] ==
            GroupCut(entries, pattern, q, Len(q.path) - n,
                     IF n = 0 THEN GroupExact(entries, pattern, q) ELSE tried[n - 1])
    IN Select(entries, Prefixed(entries, pattern, <<>>), q, tried[Len(q.path)])

(* The most specific listener of the address answers alone, the last of    *)
(* equals (insert); in it, the groups are tried from the most specific     *)
(* until one has a match.  A single entry is not looked up.                *)
ListenerFor(listeners, q) ==
    LET At(n) == {l \in DOMAIN listeners : listeners[l].address = q.address
                                           /\ listeners[l].hostname = Matching(q.host)[n]}
        hits == {n \in DOMAIN Matching(q.host) : At(n) # {}}
    IN IF hits = {} THEN NoId ELSE Max(At(Min(hits)))
EntryFor(entries, q) ==
    LET At(n) == Group(entries, Matching(q.host)[n], q)
        hits == {n \in DOMAIN Matching(q.host) : At(n) # NoId}
    IN IF Len(entries) = 1
       THEN IF GatewayHostRank(entries[1].hostname, q.host) >= 0 /\ EntryMatches(entries[1], q) THEN 1 ELSE NoId
       ELSE IF hits = {} THEN NoId ELSE At(Min(hits))
RouteGateway(listeners, q) ==
    LET l == ListenerFor(listeners, q)
        e == EntryFor(listeners[l].entries, q)
    IN IF l = NoId THEN NoRoute ELSE IF e = NoId THEN NoRoute ELSE <<l, e>>

-----------------------------------------------------------------------------
(***************************************************************************)
(* Well-formed tables and requests.  A table comes from one source, an     *)
(* nginx configuration or Ingresses, and a virtual host of Ingresses is    *)
(* the default if its name is empty (ingress/mod.rs build).  Paths begin   *)
(* with a slash.                                                           *)
(***************************************************************************)
Text == STRING \cup {"*", "?"}          \* labels and characters; provers do not know of "?" \in STRING
Unnamed == <<"?", "?", "?", "?">>       \* a host that no pattern is for
IsList(seq) == Len(seq) \in Nat /\ DOMAIN seq = 1..Len(seq)
IsPattern(p) ==
    /\ p \in [wild : BOOLEAN, labels : Seq(Text)]
    /\ p.wild => p.labels # <<>>
    /\ \A i \in DOMAIN p.labels : p.labels[i] # "?"
IsMatcher(m, kinds) == m.kind \in kinds /\ m.path \in Seq(Text) /\ (m.kind = "default" => m.path = <<>>)
IsVirtualHost(h) ==
    /\ IsList(h.names) /\ \A i \in DOMAIN h.names : IsPattern(h.names[i])
    /\ h.default \in BOOLEAN /\ h.ingress \in BOOLEAN
    /\ h.ingress /\ h.default => \E i \in DOMAIN h.names : h.names[i] = AnyHost
    /\ IsList(h.routes)
    /\ \A r \in DOMAIN h.routes : IsMatcher(h.routes[r], {"exact", "nginx", "ingress", "default"})
AreHosts(hosts) ==
    /\ IsList(hosts)
    /\ \A id \in DOMAIN hosts : IsVirtualHost(hosts[id]) /\ hosts[id].ingress = hosts[1].ingress
AreEntries(entries) ==
    /\ IsList(entries)
    /\ \A e \in DOMAIN entries : /\ IsPattern(entries[e].hostname)
                                  /\ IsMatcher(entries[e], {"exact", "ingress"})
                                  /\ IsFiniteSet(entries[e].needs) /\ entries[e].order \in Int
AreListeners(listeners) ==
    /\ IsList(listeners)
    /\ \A l \in DOMAIN listeners : IsPattern(listeners[l].hostname) /\ AreEntries(listeners[l].entries)
IsQuery(q) ==
    /\ q.host \in Seq(Text) /\ Len(q.host) < ExactRank
    /\ q.path \in Seq(Text) /\ (q.path # <<>> => q.path[1] = "/")

ASSUME RoutingAssumption ==
    /\ \A t \in Tables : IF t.gateway THEN AreListeners(t.listeners) ELSE AreHosts(t.hosts)
    /\ \A q \in Queries : IsQuery(q)

Routed(t, q) == IF t.gateway THEN RouteGateway(t.listeners, q) ELSE RouteHost(t.hosts, q)

RoutingInit ==
    /\ table \in Tables
    /\ query = NoQuery
    /\ answer = NoRoute

Dispatch(q) ==
    /\ query' = q
    /\ answer' = Routed(table, q)
    /\ UNCHANGED table

RoutingNext == \E q \in Queries : query = NoQuery /\ Dispatch(q)

RoutingSpec == RoutingInit /\ [][RoutingNext]_routingVars

-----------------------------------------------------------------------------
(***************************************************************************)
(* The reference: what the indices stand for, said of all routes at once.  *)
(***************************************************************************)
PathOrder(routes, r) ==
    LET m == routes[r]
    IN <<CASE m.kind = "exact" -> 2 [] m.kind = "default" -> 0 [] OTHER -> 1,
         IF m.kind = "ingress" THEN Len(TrimSlashes(m.path)) ELSE Len(m.path),
         IF m.kind = "nginx" THEN 1 ELSE 0, -r>>
BestPath(routes, path) ==
    LET fit == {r \in DOMAIN routes : Matches(routes[r], path)}
    IN IF fit = {} THEN NoId
       ELSE CHOOSE r \in fit : \A x \in fit \ {r} : Lexicographic(PathOrder(routes, x), PathOrder(routes, r))

BestListener(listeners, q) ==
    LET Rank(l) == GatewayHostRank(listeners[l].hostname, q.host)
        heard == {l \in DOMAIN listeners : listeners[l].address = q.address /\ Rank(l) >= 0}
    IN IF heard = {} THEN NoId
       ELSE CHOOSE l \in heard : \A x \in heard \ {l} : Rank(x) < Rank(l) \/ (Rank(x) = Rank(l) /\ x < l)
BestEntry(entries, q) ==
    LET Rank(e) == GatewayHostRank(entries[e].hostname, q.host)
        fit == {e \in DOMAIN entries : EntryMatches(entries[e], q) /\ Rank(e) >= 0}
    IN IF fit = {} THEN NoId
       ELSE CHOOSE e \in fit : \A x \in fit \ {e} :
               Rank(x) < Rank(e) \/ (Rank(x) = Rank(e) /\ Precedes(entries, x, e))
BestRoute(listeners, q) ==
    LET l == BestListener(listeners, q)
        e == BestEntry(listeners[l].entries, q)
    IN IF l = NoId THEN NoRoute ELSE IF e = NoId THEN NoRoute ELSE <<l, e>>
BestHostRoute(hosts, q) ==
    LET id == TlsHost(hosts, q.address, q.host)
        fallback == TlsHost(hosts, q.address, Unnamed)
        Best(h) == IF h = NoId THEN NoId ELSE BestPath(hosts[h].routes, q.path)
    IN IF Best(id) # NoId THEN <<id, Best(id)>>
       ELSE IF id # NoId /\ hosts[id].ingress /\ Best(fallback) # NoId THEN <<fallback, Best(fallback)>>
       ELSE NoRoute

(* The indices and the scan agree.  A virtual host is that of the best     *)
(* rank, which is also the one whose certificate the TLS handshake for the *)
(* same name chose; its best path answers, or for an Ingress the default   *)
(* host's.  A Gateway request goes to the best match of the most specific  *)
(* host of the most specific listener.                                     *)
IndexIsScan ==
    query # NoQuery =>
        answer = IF table.gateway THEN BestRoute(table.listeners, query) ELSE BestHostRoute(table.hosts, query)
=============================================================================
