------------------------------- MODULE Proxy -------------------------------
(***************************************************************************)
(* The life of a request in the two engines of the data plane: Pingora     *)
(* (proxy/mod.rs) and Hyper (proxy/hyper/request.rs), the latter with its  *)
(* prepared fast path (proxy/hyper/plain.rs).  Both share the policy code  *)
(* of proxy/policy.rs, responses.rs, mirror.rs and completion.rs but order *)
(* the checks around it themselves.                                        *)
(*                                                                         *)
(* What a request and its route look like is one set of facts, each a      *)
(* deviation from a plain request to a healthy proxied route; both         *)
(* requests of a behaviour share it, so that what the engines make of the  *)
(* same request can be compared.  Answers of the outside (the external     *)
(* authorizer, the plugin, the upstream) are facts too; what is left to    *)
(* chance is timing: budgets, deadlines, cancellations and connections.    *)
(***************************************************************************)
EXTENDS Naturals, Sequences, FiniteSets

CONSTANTS
    Requests,       \* the requests in flight
    Scenarios,      \* [facts, engine]: the requests and routes considered
    Permits         \* the size of every budget

ASSUME ProxyAssumption ==
    /\ IsFiniteSet(Requests) /\ Requests \subseteq Nat \ {0}
    /\ Permits \in Nat \ {0}

VARIABLES
    facts,          \* what is particular about the request and its route
    engine,         \* request -> the engine of the process that serves it
    req,            \* request -> its Context and guard
    transport       \* connection -> "open", "closed", or "failed" (the failure flag)

proxyVars == <<facts, engine, req, transport>>

Engines == {"pingora", "hyper"}

(* Every limited resource a request acquires without waiting.  The         *)
(* "endpoint" permit is the upstream lease.                                *)
Budgets == {"requests", "tenant_request", "pre_auth", "tenant_auth", "post_auth",
            "tenant_plugin", "plugins", "endpoint"}

MirrorBudgets == {"mirrors", "tenant_mirror"}

(***************************************************************************)
(* Facts.  A fact that only makes sense under another implies it.          *)
(***************************************************************************)
Malformed == {"badconn", "badhost", "badpath", "noroute"}
Policies == {"denied", "https", "nocert", "tenant", "tenantrate", "limited", "rated",
             "badtoken", "external", "extdeny", "slash", "large"}
Plugins == {"script", "plugreply", "plugproxy", "plugbad", "plugfail", "badinspect", "slowbody",
            "hook", "hookfail"}
GatewayFacts == {"gateway", "gwredirect", "gwmissing", "deadline"}
Actions == {"static", "filegone", "return", "unavailable"}
Upstreams == {"up5xx", "upfail", "uptimeout", "toolarge", "streamfail"}
Transports == {"connect", "upgrade", "tunnel", "h2"}
Others == {"rollout", "mirror", "grpc", "view", "setheader"}
AllFacts == Malformed \cup Policies \cup Plugins \cup GatewayFacts \cup Actions
            \cup Upstreams \cup Transports \cup Others

(* At most one plugin outcome, one route action, one answer of the         *)
(* upstream and one transport: they exclude each other.  CONNECT and       *)
(* upgrades are followed in Hyper only.                                    *)
Consistent(F) ==
    \A group \in {Plugins, Actions \cup GatewayFacts, Upstreams, Transports} :
        \A f, g \in F \cap group : f = g

PossibleScenario(s) ==
    /\ s.facts \subseteq AllFacts /\ Consistent(s.facts)
    /\ s.engine \in [Requests -> Engines]
    /\ s.facts \cap (Transports \ {"h2"}) # {} => \A r \in Requests : s.engine[r] = "hyper"

Has(group) == facts \cap group # {}
Scripted == Has(Plugins)
Hooked == Has({"hook", "hookfail"})
Tenanted == Has({"tenant", "tenantrate"})
Limited == Has({"limited", "rated"})
External == Has({"external", "extdeny"})
GatewayRoute == Has(GatewayFacts) \/ ("mirror" \in facts /\ "rollout" \notin facts)

(***************************************************************************)
(* Action::prepare and select: the fast path serves only requests none of  *)
(* whose policies it would skip.                                           *)
(***************************************************************************)
\* Mutant of PlainRoute: the client certificate mode is not looked at.
PlainRouteWithoutMtls ==
    /\ ~Scripted /\ ~Tenanted /\ ~GatewayRoute /\ ~Limited /\ ~External
    /\ ~Has({"rollout", "view", "denied", "badtoken", "https"})
    /\ ~Has({"static", "filegone", "unavailable"})

PlainRoute ==
    /\ ~Scripted /\ ~Tenanted /\ ~GatewayRoute /\ ~Limited /\ ~External
    /\ ~Has({"rollout", "view", "denied", "badtoken", "nocert", "https"})
    /\ ~Has({"static", "filegone", "unavailable"})

PlainSelect ==
    /\ ~Has(Transports \cup {"grpc"})
    /\ ~Has(Malformed)
    /\ PlainRoute
    /\ "slash" \notin facts

(***************************************************************************)
(* The checks of each engine in their order.  A check the request fails    *)
(* ends it with a status, as an error or as an ordinary reply.             *)
(***************************************************************************)
Fails(fact, status) == [fact |-> fact, status |-> status, err |-> "internal"]
Replies(fact, status) == [fact |-> fact, status |-> status, err |-> "none"]
Passed == [fact |-> "none", status |-> 0, err |-> "none"]

(* The first check of a list that the request fails, or Passed.            *)
FirstFailure(checks) ==
    LET failed == {i \in DOMAIN checks : checks[i].fact \in facts} IN
    IF failed = {} THEN Passed
    ELSE checks[CHOOSE i \in failed : \A j \in failed : i <= j]

(* request_filter up to authorize.                                         *)
PingoraParse ==
    <<Fails("badconn", 400), Fails("badpath", 400), Fails("badhost", 400),
      Replies("noroute", 404), Fails("denied", 403), Replies("https", 308)>>

(* forward, then the head of route_request.                                *)
HyperParse ==
    <<Fails("badconn", 400), Fails("badhost", 400), Fails("badpath", 400),
      Replies("noroute", 404)>>
HyperIdentify == <<Fails("denied", 403), Replies("https", 308)>>

(* request_filter between authorize and the plugin.                        *)
\* Mutant of PingoraCheck: the length is checked before the redirect.
PingoraCheckLengthFirst == <<Fails("large", 413), Replies("slash", 301)>>

PingoraCheck == <<Replies("slash", 301), Fails("large", 413)>>

(* route_request between authorize and the plugin: only Hyper looks at     *)
(* CONNECT and at the upgrade a request asks for.                          *)
HyperCheck ==
    <<Replies("slash", 301), Fails("large", 413), Fails("connect", 405),
      Fails("upgrade", 501)>>

Parse(r) == IF engine[r] = "pingora" THEN PingoraParse ELSE HyperParse \o HyperIdentify
Check(r) == IF engine[r] = "pingora" THEN PingoraCheck ELSE HyperCheck

-----------------------------------------------------------------------------
(* HTTP/2 requests share connection 0, others have one each.               *)
Connections == Requests \cup {0}
ConnectionOf(r) == IF "h2" \in facts THEN 0 ELSE r

NewContext == [pc |-> "idle", plain |-> FALSE, status |-> 0, err |-> "none",
               held |-> {}, execution |-> FALSE, backend |-> FALSE, mirror |-> "none",
               mirrorHeld |-> {}, upgrade |-> FALSE, header |-> "none", finished |-> FALSE,
               health |-> "none", sample |-> "none", why |-> {}]

ProxyInit ==
    /\ \E s \in Scenarios : PossibleScenario(s) /\ facts = s.facts /\ engine = s.engine
    /\ req = [r \in Requests |-> NewContext]
    /\ transport = [c \in Connections |-> "open"]

(* Budgets belong to a process, and a process runs one engine.             *)
Free(r, b) ==
    Cardinality({q \in Requests : engine[q] = engine[r]
                                  /\ b \in req[q].held \cup req[q].mirrorHeld}) < Permits

(* A step that gives r the context q and leaves the others alone.          *)
Become(r, q) ==
    /\ req' = [req EXCEPT ![r] = q]
    /\ UNCHANGED <<facts, engine, transport>>

Continue(r, next) == Become(r, [req[r] EXCEPT !.pc = next])

(* A context whose outcome was decided by more than the facts.             *)
Marked(q, reason) == [q EXCEPT !.why = q.why \cup {reason}]
Released(q, budgets) == [q EXCEPT !.held = q.held \ budgets]

(* failure_response and reply: from here on the request owes an answer.    *)
Answered(q, status, err) == [q EXCEPT !.pc = "respond", !.status = status, !.err = err]
Answer(r, check) == Become(r, Answered(req[r], check.status, check.err))

Shed(r, status) == Become(r, Answered(Marked(req[r], "shed"), status, "internal"))

(* Take the budget b, or answer with 503.                                  *)
Acquire(r, b, next) ==
    IF Free(r, b) THEN Become(r, [req[r] EXCEPT !.held = req[r].held \cup {b}, !.pc = next])
    ELSE Shed(r, 503)

-----------------------------------------------------------------------------
(***************************************************************************)
(* serve of request.rs: the fast path if it applies and the request budget *)
(* has room, the general path otherwise.  Processes of different engines   *)
(* share nothing, so one of them is run after the other.                   *)
(***************************************************************************)
Arrive(r) ==
    /\ req[r].pc = "idle"
    /\ transport[ConnectionOf(r)] = "open"
    /\ \A q \in Requests : engine[q] # engine[r] => req[q].pc \in {"idle", "done"}
    /\ IF engine[r] = "hyper" /\ PlainSelect /\ Free(r, "requests")
       THEN Become(r, [req[r] EXCEPT !.pc = "plain", !.plain = TRUE, !.held = {"requests"}])
       ELSE Continue(r, "admit")

(* plain::forward: the length check, then the reply or the endpoint.       *)
PlainForward(r) ==
    /\ req[r].pc = "plain"
    /\ IF "large" \in facts THEN Answer(r, Fails("large", 413))
       ELSE IF "return" \in facts THEN Answer(r, Replies("return", 200))
       ELSE Become(r, [req[r] EXCEPT !.pc = "select", !.backend = TRUE])

(* The in-flight permit that opens forward and request_filter.             *)
Admit(r) == req[r].pc = "admit" /\ Acquire(r, "requests", "parse")

(* Validation, routing, client identity and the HTTPS redirect.            *)
ParseRequest(r) ==
    /\ req[r].pc = "parse"
    /\ LET failed == FirstFailure(Parse(r)) IN
       IF failed # Passed THEN Answer(r, failed) ELSE Continue(r, "mtls")

(***************************************************************************)
(* authorize: client certificate, tenant quota, tenant rate, limits before *)
(* authentication, token, external authorizer, limits after it.  One step  *)
(* for each budget, as another request may run between two of them.        *)
(***************************************************************************)
AuthorizeTenant(r) ==
    /\ req[r].pc = "mtls"
    /\ IF "nocert" \in facts THEN Answer(r, Fails("nocert", 403))
       ELSE IF Tenanted THEN Acquire(r, "tenant_request", "rate")
       ELSE Continue(r, "rate")

AuthorizeRate(r) ==
    /\ req[r].pc = "rate"
    /\ IF "tenantrate" \in facts THEN Answer(r, Fails("tenantrate", 429))
       ELSE IF "rated" \in facts THEN Answer(r, Fails("rated", 429))
       ELSE IF Limited THEN Acquire(r, "pre_auth", "token")
       ELSE Continue(r, "token")

AuthorizeToken(r) ==
    /\ req[r].pc = "token"
    /\ IF "badtoken" \in facts THEN Answer(r, Fails("badtoken", 401))
       ELSE IF ~External THEN Continue(r, "post")
       ELSE IF Tenanted THEN Acquire(r, "tenant_auth", "external")
       ELSE Continue(r, "external")

(* The authorizer answers; its permit is dropped either way.               *)
ExternalAnswers(r) ==
    /\ req[r].pc = "external"
    /\ LET released == Released(req[r], {"tenant_auth"}) IN
       IF "extdeny" \in facts THEN Become(r, Answered(released, 403, "internal"))
       ELSE Become(r, [released EXCEPT !.pc = "post"])

AuthorizeTraffic(r) ==
    /\ req[r].pc = "post"
    /\ IF Limited THEN Acquire(r, "post_auth", "check") ELSE Continue(r, "check")

(* The redirect to the path with a slash, the length, CONNECT and upgrade. *)
CheckRequest(r) ==
    /\ req[r].pc = "check"
    /\ LET failed == FirstFailure(Check(r)) IN
       IF failed # Passed THEN Answer(r, failed)
       ELSE Continue(r, IF Scripted THEN "tenant_plugin" ELSE "dispatch")

(* acquire_plugin: the tenant's share, then an instance of the process.    *)
AcquirePlugin(r) ==
    \/ /\ req[r].pc = "tenant_plugin"
       /\ IF Tenanted THEN Acquire(r, "tenant_plugin", "plugin") ELSE Continue(r, "plugin")
    \/ req[r].pc = "plugin" /\ Acquire(r, "plugins", "inspect")

(***************************************************************************)
(* inspect reads the body for the plugin: too large, too slow, or seen as  *)
(* far as the policy asks.                                                 *)
(***************************************************************************)
Inspect(r) ==
    /\ req[r].pc = "inspect"
    /\ IF "badinspect" \in facts THEN Answer(r, Fails("badinspect", 413))
       ELSE IF "slowbody" \in facts THEN Answer(r, Fails("slowbody", 408))
       ELSE Continue(r, "request_plugin")

(***************************************************************************)
(* request_plugin.  The instance outlives the call only for a response     *)
(* hook; otherwise it and its permits are given back.                      *)
(* A plugin that fails keeps them until the request ends.                  *)
(***************************************************************************)
RequestPlugin(r) ==
    /\ req[r].pc = "request_plugin"
    /\ LET kept == [Released(req[r], IF Hooked THEN {} ELSE {"plugins", "tenant_plugin"})
                    EXCEPT !.execution = Hooked] IN
       \/ "plugfail" \in facts /\ Answer(r, Fails("plugfail", 500))
       \/ "plugbad" \in facts /\ Become(r, Answered(kept, 500, "internal"))
       \/ "plugreply" \in facts /\ Become(r, Answered(kept, 200, "none"))
       \/ "plugproxy" \in facts /\ Become(r, [kept EXCEPT !.pc = "dispatch", !.backend = TRUE])
       \/ /\ Has({"script", "hook", "hookfail"})
          /\ Become(r, [kept EXCEPT !.pc = "dispatch"])

(***************************************************************************)
(* dispatch: the backend the plugin chose, the Gateway policy, or the      *)
(* action of the route.                                                    *)
(***************************************************************************)
Dispatch(r) ==
    /\ req[r].pc = "dispatch"
    /\ LET proxied == Become(r, [req[r] EXCEPT !.pc = "select", !.backend = TRUE]) IN
       IF req[r].backend THEN proxied
       ELSE IF "gwredirect" \in facts THEN Answer(r, Replies("gwredirect", 302))
       ELSE IF "gwmissing" \in facts /\ "rollout" \notin facts
            THEN Answer(r, Fails("gwmissing", 500))
       ELSE IF GatewayRoute THEN proxied
       ELSE IF "return" \in facts THEN Answer(r, Replies("return", 200))
       ELSE IF "unavailable" \in facts THEN Answer(r, Fails("unavailable", 503))
       ELSE IF Has({"static", "filegone"}) THEN Continue(r, "file")
       ELSE proxied

(* serve_file and responses::file.                                         *)
ServeFile(r) ==
    /\ req[r].pc = "file"
    /\ Answer(r, Replies("static", IF "filegone" \in facts THEN 404 ELSE 200))

(* select_endpoint; the lease is held until the context is dropped.        *)
SelectEndpoint(r) ==
    /\ req[r].pc = "select"
    /\ Acquire(r, "endpoint", IF "tunnel" \in facts THEN "connect" ELSE "headers")

(***************************************************************************)
(* A raw CONNECT is only opened to the configured backend; the connection  *)
(* may fail or time out.                                                   *)
(***************************************************************************)
ConnectTunnel(r) ==
    /\ req[r].pc = "connect"
    /\ \/ Become(r, Answered([req[r] EXCEPT !.upgrade = TRUE], 200, "none"))
       \/ \E status \in {403, 502, 504} : Become(r, Answered(Marked(req[r], "refused"), status, "internal"))

(***************************************************************************)
(* upstream_headers, for one header the client sends, the authorizer       *)
(* answers with, the route may set and the plugin may edit: who determines *)
(* the value the upstream sees.  The edits, the authorizer's first, are    *)
(* applied last.  Hyper skips upstream_headers for routes without plugin,  *)
(* Gateway policy and authorizer, which have no edits.                     *)
(***************************************************************************)
RouteHeader == IF "setheader" \in facts THEN "route" ELSE "client"
\* Mutant of Edited: the edits the authorizer left are only applied with a plugin.
EditedByPlugin == IF Scripted THEN "plugin" ELSE RouteHeader

Edited == IF Scripted THEN "plugin" ELSE IF External THEN "auth" ELSE RouteHeader
UpstreamHeader(r) ==
    IF engine[r] = "hyper" /\ ~Scripted /\ ~GatewayRoute /\ ~External THEN RouteHeader ELSE Edited

ForwardHeaders(r) ==
    /\ req[r].pc = "headers"
    /\ Become(r, [req[r] EXCEPT !.header = UpstreamHeader(r),
                               !.pc = IF "mirror" \in facts THEN "mirror" ELSE "upstream"])

(***************************************************************************)
(* prepare_mirror_headers: a copy is skipped for gRPC and when one of the  *)
(* mirror budgets is exhausted; the request goes on in any case.           *)
(***************************************************************************)
PrepareMirror(r) ==
    /\ req[r].pc = "mirror"
    /\ LET wanted == {"mirrors"} \cup IF Tenanted THEN {"tenant_mirror"} ELSE {} IN
       IF "grpc" \in facts \/ \E b \in wanted : ~Free(r, b)
       THEN Continue(r, "upstream")
       ELSE Become(r, [req[r] EXCEPT !.pc = "upstream", !.mirror = "buffered", !.mirrorHeld = wanted])

(* feed: the copy is sent once the body is complete, dropped when it grows *)
(* past the limit or the upload fails.                                     *)
FeedMirror(r) ==
    /\ req[r].mirror = "buffered"
    /\ \/ Become(r, [req[r] EXCEPT !.mirror = "sending"])
       \/ Become(r, [req[r] EXCEPT !.mirror = "none", !.mirrorHeld = {}])

(* MirrorRequest::send on its own task: it answers, fails or times out.    *)
\* Mutant of MirrorEnds: a mirror without a timeout.
MirrorHangs(r) == req[r].mirror = "sending" /\ UNCHANGED proxyVars

MirrorEnds(r) ==
    /\ req[r].mirror = "sending"
    /\ Become(r, [req[r] EXCEPT !.mirror = "none", !.mirrorHeld = {}])

(***************************************************************************)
(* client.request and upstream_error: what the endpoint makes of it.       *)
(***************************************************************************)
UpstreamAnswers(r) ==
    /\ req[r].pc = "upstream"
    /\ Become(r, IF "upfail" \in facts THEN Answered(req[r], 502, "upstream")
                 ELSE IF "uptimeout" \in facts THEN Answered(req[r], 504, "upstream")
                 ELSE IF "toolarge" \in facts THEN Answered(req[r], 413, "internal")
                 ELSE IF "up5xx" \in facts THEN Answered(req[r], 500, "none")
                 ELSE Answered(req[r], 200, "none"))

(***************************************************************************)
(* response_headers: the response hook runs once, on errors too, and gives *)
(* the instance and its permits back.                                      *)
(***************************************************************************)
HookFails(r) == req[r].execution /\ "hookfail" \in facts
ResponseHeaders(r) ==
    [Released(req[r], IF req[r].execution THEN {"plugins", "tenant_plugin"} ELSE {})
     EXCEPT !.execution = FALSE]

(* fail_to_proxy answers 500 for a failed hook but completion still sees   *)
(* the error that led there.                                               *)
KeepsError(r) == engine[r] = "pingora" /\ req[r].err # "none"

(* The end of serve: a CONNECT that something other than the backend       *)
(* accepted is refused, and a failed hook replaces the response.           *)
PrepareResponse(r) ==
    /\ req[r].pc = "respond"
    /\ LET refused == "tunnel" \in facts /\ req[r].status = 200 /\ ~req[r].upgrade IN
       Become(r, [ResponseHeaders(r) EXCEPT
                    !.pc = IF req[r].upgrade /\ ~HookFails(r) THEN "tunnel" ELSE "stream",
                    !.status = IF HookFails(r) THEN 500 ELSE IF refused THEN 502 ELSE req[r].status,
                    !.err = IF refused \/ (HookFails(r) /\ ~KeepsError(r)) THEN "internal"
                            ELSE req[r].err])

-----------------------------------------------------------------------------
(***************************************************************************)
(* Completion.  record_completion tells the health of the endpoint,        *)
(* complete gives the rollout its sample: both only for requests without   *)
(* an error or with one of the upstream.                                   *)
(***************************************************************************)
\* Mutant of Counts: any error is put down to the upstream.
CountsAll(q) == TRUE

Counts(q) == q.err \in {"none", "upstream"}

HealthOf(q) ==
    IF "endpoint" \notin q.held \/ ~Counts(q) THEN "none"
    ELSE IF q.err = "none" THEN "ok" ELSE "fail"

(* A gRPC response without a status of its own counts as a failure.        *)
SampleOf(q) ==
    IF "rollout" \notin facts \/ ~q.backend \/ ~Counts(q) THEN "none"
    ELSE IF q.err = "upstream" \/ q.status >= 500 \/ "grpc" \in facts THEN "fail" ELSE "ok"

(* RequestGuard::finish and Guard::finish: the first call decides.         *)
Finish(q, delivered) ==
    IF q.finished THEN q
    ELSE LET err == IF ~delivered /\ q.err = "none" THEN "downstream" ELSE q.err
             status == IF q.status = 0 THEN 499 ELSE q.status
             ended == [q EXCEPT !.err = err, !.status = status] IN
         [ended EXCEPT !.pc = "finished", !.finished = TRUE,
                       !.health = HealthOf(ended), !.sample = SampleOf(ended)]

(* A guard that ends with the step: finished, and dropped by DropContext.  *)
End(r, q, delivered) == Become(r, Finish(q, delivered))

(* Dropping the guard finishes it once more and releases all it holds; a   *)
(* buffered mirror goes with it, a mirror being sent does not.             *)
DropContext(r) ==
    /\ req[r].pc = "finished"
    /\ LET q == Finish(req[r], FALSE) IN
       Become(r, [q EXCEPT !.pc = "done", !.held = {}, !.execution = FALSE,
                           !.mirror = IF q.mirror = "sending" THEN "sending" ELSE "none",
                           !.mirrorHeld = IF q.mirror = "sending" THEN q.mirrorHeld ELSE {}])

(* Connection::queue: the guard waits for the flush of its last bytes,     *)
(* unless the transport has failed already.                                *)
\* Mutant of Queue: the state of the transport is not looked at.
QueueAlways(r) == Continue(r, "queued")

Queue(r) ==
    IF transport[ConnectionOf(r)] = "failed"
    THEN End(r, Marked(req[r], "cancelled"), FALSE)
    ELSE Continue(r, "queued")

(***************************************************************************)
(* ResponseBody::poll_frame and its drop.  The body of the upstream may    *)
(* break off after the header was sent.  Hyper then queues the guard on    *)
(* the connection; Pingora has written the response when its task ends.    *)
(***************************************************************************)
Stream(r) ==
    /\ req[r].pc = "stream"
    /\ IF "streamfail" \in facts /\ "endpoint" \in req[r].held /\ req[r].err = "none"
       THEN End(r, [req[r] EXCEPT !.err = "upstream"], FALSE)
       ELSE IF engine[r] = "hyper" THEN Queue(r)
       ELSE End(r, req[r], TRUE)

(* tunnel::run copies until one side ends or a timeout does; whichever     *)
(* side broke, the error is put down to the client.                        *)
TunnelEnds(r) ==
    /\ req[r].pc = "tunnel"
    /\ \/ End(r, req[r], TRUE)
       \/ End(r, [Marked(req[r], "cancelled") EXCEPT !.err = "downstream"], FALSE)

Queued(c) == {r \in Requests : req[r].pc = "queued" /\ ConnectionOf(r) = c}

(* Finish the guards of qs, whose responses did not arrive.                *)
FinishLost(qs) ==
    req' = [r \in Requests |->
               IF r \in qs THEN Finish(Marked(req[r], "cancelled"), FALSE) ELSE req[r]]

(* Connection::flushed: every queued response has reached the socket.      *)
Flush(c) ==
    LET queued == Queued(c) IN
    /\ transport[c] = "open"
    /\ queued # {}
    /\ req' = [r \in Requests |-> IF r \in queued THEN Finish(req[r], TRUE) ELSE req[r]]
    /\ UNCHANGED <<facts, engine, transport>>

(* TrackedIo is dropped after a timeout, which sets the failure flag, or   *)
(* because the peer closed, which does not: closed() drops the guards that *)
(* wait for a flush.                                                       *)
ConnectionFails(c) ==
    /\ transport[c] = "open"
    /\ \E r \in Requests : /\ ConnectionOf(r) = c
                           /\ engine[r] = "hyper"
                           /\ req[r].pc \in {"upstream", "stream", "queued"}
    /\ \E end \in {"failed", "closed"} : transport' = [transport EXCEPT ![c] = end]
    /\ FinishLost(Queued(c))
    /\ UNCHANGED <<facts, engine>>

(* A guard queued after closed() goes when the last request drops its      *)
(* reference to the connection.                                            *)
ConnectionDropped(c) ==
    /\ transport[c] = "closed"
    /\ Queued(c) # {}
    /\ \A r \in Requests : ConnectionOf(r) = c =>
           req[r].pc \in {"idle", "queued", "finished", "done"}
    /\ FinishLost(Queued(c))
    /\ UNCHANGED <<facts, engine, transport>>

(***************************************************************************)
(* The client goes away.  Hyper drops the future of the request wherever   *)
(* it waits, Pingora notices while it proxies.                             *)
(***************************************************************************)
Cancel(r) ==
    /\ req[r].pc \in {"upstream", "stream"}
                     \cup IF engine[r] = "hyper" THEN {"external", "inspect", "file"} ELSE {}
    /\ LET q == Marked(req[r], "cancelled") IN
       IF engine[r] = "hyper" THEN End(r, q, FALSE)
       ELSE End(r, [q EXCEPT !.err = IF q.err = "none" THEN "downstream" ELSE q.err,
                             !.status = IF q.status = 0 THEN 502 ELSE q.status], FALSE)

(***************************************************************************)
(* A deadline of the Gateway route passes.  Before the response: 504.      *)
(* Pingora blames the upstream once it proxies, Hyper never does.          *)
(***************************************************************************)
DeadlineError(r) ==
    IF engine[r] = "pingora" /\ req[r].pc \in {"upstream", "stream"} THEN "upstream" ELSE "internal"

DeadlinePasses(r) ==
    /\ "deadline" \in facts
    /\ req[r].err = "none"
    /\ \/ /\ req[r].pc \in {"external", "inspect", "file", "upstream"}
          /\ Become(r, Answered(Released(Marked(req[r], "late"), {"tenant_auth"}), 504, DeadlineError(r)))
       \/ /\ req[r].pc = "stream"
          /\ End(r, [Marked(req[r], "late") EXCEPT !.err = DeadlineError(r)], FALSE)

(* check_delivery: an overdue final flush closes the transport and drops   *)
(* every guard that waits on it; the overdue ones are marked first.        *)
DeliveryTimesOut(c) ==
    LET queued == Queued(c) IN
    /\ "deadline" \in facts
    /\ transport[c] = "open"
    /\ queued # {}
    /\ transport' = [transport EXCEPT ![c] = "failed"]
    /\ \E overdue \in (SUBSET queued) \ {{}} :
           req' = [r \in Requests |->
                     IF r \in overdue
                     THEN Finish([Marked(req[r], "late") EXCEPT !.err = "internal"], FALSE)
                     ELSE IF r \in queued THEN Finish(Marked(req[r], "cancelled"), FALSE)
                     ELSE req[r]]
    /\ UNCHANGED <<facts, engine>>

-----------------------------------------------------------------------------
(* What the proxy itself does for a request, and what befalls it.          *)
Proceed(r) ==
    \/ PlainForward(r) \/ Admit(r) \/ ParseRequest(r)
    \/ AuthorizeTenant(r) \/ AuthorizeRate(r) \/ AuthorizeToken(r) \/ ExternalAnswers(r)
    \/ AuthorizeTraffic(r) \/ CheckRequest(r) \/ AcquirePlugin(r) \/ Inspect(r) \/ RequestPlugin(r)
    \/ Dispatch(r) \/ ServeFile(r) \/ SelectEndpoint(r) \/ ConnectTunnel(r) \/ ForwardHeaders(r)
    \/ PrepareMirror(r)
    \/ UpstreamAnswers(r) \/ PrepareResponse(r) \/ Stream(r) \/ TunnelEnds(r) \/ DropContext(r)

Mirroring(r) == FeedMirror(r) \/ MirrorEnds(r)

ProxyNext ==
    \/ \E r \in Requests : Arrive(r) \/ Proceed(r) \/ Mirroring(r) \/ Cancel(r) \/ DeadlinePasses(r)
    \/ \E c \in Connections : Flush(c) \/ ConnectionFails(c) \/ ConnectionDropped(c) \/ DeliveryTimesOut(c)

(* Every wait of a request is bounded by a timeout of its own (authorizer, *)
(* inspection, upstream reads and writes, mirror), and a connection either *)
(* flushes or fails its write timeout.                                     *)
ProxyFairness ==
    /\ \A r \in Requests : WF_proxyVars(Proceed(r)) /\ WF_proxyVars(Mirroring(r))
    /\ \A c \in Connections : WF_proxyVars(Flush(c) \/ ConnectionDropped(c))

ProxySpec == ProxyInit /\ [][ProxyNext]_proxyVars /\ ProxyFairness

-----------------------------------------------------------------------------
(* The type of the request contexts.                                       *)
ProxyTypeOK ==
    /\ facts \subseteq AllFacts
    /\ engine \in [Requests -> Engines]
    /\ transport \in [Connections -> {"open", "closed", "failed"}]
    /\ \A r \in Requests :
          /\ req[r].held \subseteq Budgets /\ req[r].mirrorHeld \subseteq MirrorBudgets
          /\ req[r].err \in {"none", "internal", "upstream", "downstream"}
          /\ req[r].health \in {"none", "ok", "fail"} /\ req[r].sample \in {"none", "ok", "fail"}
          /\ req[r].mirror \in {"none", "buffered", "sending"}
          /\ req[r].mirror = "none" <=> req[r].mirrorHeld = {}

(***************************************************************************)
(* NoBypass: a request that holds an endpoint has passed every policy of   *)
(* its route, whichever engine and path it took; in particular the fast    *)
(* path never serves a request one of whose policies would refuse it.      *)
(***************************************************************************)
Refusing == Malformed \cup {"denied", "https", "nocert", "tenantrate", "rated", "badtoken",
                            "extdeny", "slash", "large", "badinspect", "slowbody", "plugfail", "plugbad",
                            "plugreply", "connect", "upgrade"}

NoBypass == \A r \in Requests : "endpoint" \in req[r].held => facts \cap Refusing = {}

(***************************************************************************)
(* EnginesAgree: the same request to the same route gets the same status,  *)
(* counts the same for the health of the endpoint and for the rollout in   *)
(* both engines and on the fast path, unless a budget shed it, a deadline  *)
(* passed or the client left.  A response hook that fails is left out of   *)
(* the counts: there the engines differ (see PrepareResponse).             *)
(***************************************************************************)
Settled(r) == req[r].pc = "done" /\ req[r].why = {}

EnginesAgree ==
    \A r, q \in Requests :
        Settled(r) /\ Settled(q) =>
            /\ req[r].status = req[q].status
            /\ "hookfail" \notin facts =>
                  /\ req[r].health = req[q].health
                  /\ req[r].sample = req[q].sample

(* AuthorizerDecides: on a route with an external authorizer, a header it  *)
(* answers with never reaches the upstream with the client's value.        *)
AuthorizerDecides ==
    \A r \in Requests : External => req[r].header # "client"

(***************************************************************************)
(* CancelledIsNotEvidence: a request its client broke off says nothing     *)
(* about the endpoint or the rollout (docs: "Client cancellations are      *)
(* excluded"), unless the upstream had failed it before.                   *)
(***************************************************************************)
CancelledIsNotEvidence ==
    \A r \in Requests :
        "cancelled" \in req[r].why /\ req[r].finished =>
            {req[r].health, req[r].sample} \subseteq
                (IF req[r].err = "upstream" THEN {"none", "fail"} ELSE {"none"})

(* NothingStranded: no response waits for the flush of a transport that    *)
(* has failed, where none would ever release its permits.                  *)
NothingStranded ==
    \A r \in Requests : req[r].pc = "queued" => transport[ConnectionOf(r)] # "failed"

(* RequestsRelease: every request that arrives ends and gives back every   *)
(* permit, its mirror's included.                                          *)
RequestsRelease ==
    \A r \in Requests :
        req[r].pc # "idle" ~> (req[r].pc = "done" /\ req[r].held = {} /\ req[r].mirrorHeld = {})
=============================================================================
