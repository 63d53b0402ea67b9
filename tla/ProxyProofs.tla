---------------------------- MODULE ProxyProofs ----------------------------
(***************************************************************************)
(* Proofs about the life of a request (Proxy): no path of either engine    *)
(* goes round a policy, the engines agree, cancelled requests are no       *)
(* evidence, and no response waits on a transport that has failed.         *)
(*                                                                         *)
(* Nothing in a request's context depends on another request, except that  *)
(* a budget may be exhausted.  So the invariant is a property ContextOk of *)
(* one context, kept by whatever step gives the request a new one, and     *)
(* that of the transports.                                                 *)
(***************************************************************************)
EXTENDS Proxy, SequenceTheorems, CountTheorems

(* The places of a context, before and after its answer is settled.        *)
Entering == {"idle", "plain", "admit", "parse", "mtls", "rate", "token", "external", "post", "check",
             "tenant_plugin", "plugin", "inspect", "request_plugin"}
Forwarding == {"connect", "headers", "mirror", "upstream"}
Answering == {"stream", "tunnel", "queued"}
Ended == {"finished", "done"}
PCs == Entering \cup {"dispatch", "file", "select"} \cup Forwarding \cup {"respond"} \cup Answering \cup Ended

Contexts ==
    [pc : PCs, plain : BOOLEAN, status : Nat, err : {"none", "internal", "upstream", "downstream"},
     held : SUBSET Budgets, execution : BOOLEAN, backend : BOOLEAN, mirror : {"none", "buffered", "sending"},
     mirrorHeld : SUBSET MirrorBudgets, upgrade : BOOLEAN, header : {"none", "client", "route", "auth", "plugin"},
     finished : BOOLEAN, health : {"none", "ok", "fail"}, sample : {"none", "ok", "fail"},
     why : SUBSET {"shed", "refused", "late", "cancelled"}]

-----------------------------------------------------------------------------
(* Which refusing facts a request has left behind at each place.           *)

Lacks(F) == \A f \in F : f \notin facts

Identified == Malformed \cup {"denied", "https"}
Metered == {"nocert", "tenantrate", "rated"}
Authorized == Identified \cup Metered \cup {"badtoken", "extdeny"}
Checked == Authorized \cup {"slash", "large", "connect", "upgrade"}

FromMtls == {"mtls", "rate", "token", "external", "post", "check", "tenant_plugin", "plugin", "inspect",
             "request_plugin"}
FromCheck == {"tenant_plugin", "plugin", "inspect", "request_plugin"}

Cleared(pc) ==
    /\ pc = "plain" => PlainSelect
    /\ pc \in FromMtls => Lacks(Identified)
    /\ pc \in FromMtls \ {"mtls"} => Lacks({"nocert"})
    /\ pc \in FromMtls \ {"mtls", "rate"} => Lacks({"tenantrate", "rated"})
    /\ pc \in FromMtls \ {"mtls", "rate", "token"} => Lacks({"badtoken"})
    /\ pc \in {"post", "check"} \cup FromCheck => Lacks({"extdeny"})
    /\ pc \in FromCheck => Lacks(Checked)
    /\ pc = "request_plugin" => Lacks({"badinspect", "slowbody"})
    /\ pc \in {"dispatch", "file", "select"} \cup Forwarding => Lacks(Refusing)

-----------------------------------------------------------------------------
(* What the facts alone decide about a request: the answer it is given,    *)
(* whether it is proxied, and whether the response hook sees it.           *)

Decide(status, err, proxied, hooked) == [status |-> status, err |-> err, proxied |-> proxied, hooked |-> hooked]
Refuse(status, err) == Decide(status, err, FALSE, FALSE)
Local(status, err) == Decide(status, err, FALSE, Hooked)

FromUpstream ==
    IF "tunnel" \in facts THEN Decide(200, "none", TRUE, Hooked)
    ELSE IF "upfail" \in facts THEN Decide(502, "upstream", TRUE, Hooked)
    ELSE IF "uptimeout" \in facts THEN Decide(504, "upstream", TRUE, Hooked)
    ELSE IF "toolarge" \in facts THEN Decide(413, "internal", TRUE, Hooked)
    ELSE IF "up5xx" \in facts THEN Decide(500, "none", TRUE, Hooked)
    ELSE Decide(200, "none", TRUE, Hooked)

FromRoute ==
    IF "plugproxy" \in facts THEN FromUpstream
    ELSE IF "gwredirect" \in facts THEN Local(302, "none")
    ELSE IF "gwmissing" \in facts /\ "rollout" \notin facts THEN Local(500, "internal")
    ELSE IF GatewayRoute THEN FromUpstream
    ELSE IF "return" \in facts THEN Local(200, "none")
    ELSE IF "unavailable" \in facts THEN Local(503, "internal")
    ELSE IF "filegone" \in facts THEN Local(404, "none")
    ELSE IF "static" \in facts THEN Local(200, "none")
    ELSE FromUpstream

FromPlugin ==
    IF "badinspect" \in facts THEN Refuse(413, "internal")
    ELSE IF "slowbody" \in facts THEN Refuse(408, "internal")
    ELSE IF "plugfail" \in facts THEN Refuse(500, "internal")
    ELSE IF "plugbad" \in facts THEN Refuse(500, "internal")
    ELSE IF "plugreply" \in facts THEN Refuse(200, "none")
    ELSE FromRoute

FromCheckList ==
    IF "slash" \in facts THEN Refuse(301, "none")
    ELSE IF "large" \in facts THEN Refuse(413, "internal")
    ELSE IF "connect" \in facts THEN Refuse(405, "internal")
    ELSE IF "upgrade" \in facts THEN Refuse(501, "internal")
    ELSE FromPlugin

FromAuthorize ==
    IF "nocert" \in facts THEN Refuse(403, "internal")
    ELSE IF "tenantrate" \in facts THEN Refuse(429, "internal")
    ELSE IF "rated" \in facts THEN Refuse(429, "internal")
    ELSE IF "badtoken" \in facts THEN Refuse(401, "internal")
    ELSE IF "extdeny" \in facts THEN Refuse(403, "internal")
    ELSE FromCheckList

Verdict ==
    IF {"badconn", "badhost", "badpath"} \cap facts # {} THEN Refuse(400, "internal")
    ELSE IF "noroute" \in facts THEN Refuse(404, "none")
    ELSE IF "denied" \in facts THEN Refuse(403, "internal")
    ELSE IF "https" \in facts THEN Refuse(308, "none")
    ELSE FromAuthorize

(* And what the end of serve and of the stream make of that.               *)
Declined == "tunnel" \in facts /\ Verdict.status = 200 /\ ~Verdict.proxied
FinalStatus ==
    IF "hookfail" \in facts /\ Verdict.hooked THEN 500 ELSE IF Declined THEN 502 ELSE Verdict.status
SentErr == IF Declined THEN "internal" ELSE Verdict.err
BreaksOff == "streamfail" \in facts /\ Verdict.proxied /\ SentErr = "none" /\ "tunnel" \notin facts
FinalErr == IF BreaksOff THEN "upstream" ELSE SentErr
FinalHealth ==
    IF ~Verdict.proxied \/ FinalErr = "internal" THEN "none" ELSE IF FinalErr = "none" THEN "ok" ELSE "fail"
FinalSample ==
    IF "rollout" \notin facts \/ ~Verdict.proxied \/ FinalErr = "internal" THEN "none"
    ELSE IF FinalErr = "upstream" \/ FinalStatus >= 500 \/ "grpc" \in facts THEN "fail" ELSE "ok"

(* A context that only the facts have decided about follows the verdict.   *)
Proxied(q) == q.backend /\ "endpoint" \in q.held
Kept(q) == ~q.backend /\ "endpoint" \notin q.held

Follows(q) ==
    /\ q.pc \in Entering => Kept(q) /\ q.err = "none" /\ ~q.execution /\ ~q.upgrade
    /\ q.pc = "dispatch" => /\ (q.backend <=> "plugproxy" \in facts) /\ "endpoint" \notin q.held
                            /\ q.err = "none" /\ (q.execution <=> Hooked) /\ ~q.upgrade
    /\ q.pc = "file" => /\ Kept(q) /\ q.err = "none" /\ (q.execution <=> Hooked) /\ ~q.upgrade
                        /\ Verdict = Local(IF "filegone" \in facts THEN 404 ELSE 200, "none")
    /\ q.pc = "select" => /\ q.backend /\ "endpoint" \notin q.held
                          /\ q.err = "none" /\ (q.execution <=> Hooked) /\ ~q.upgrade /\ Verdict = FromUpstream
    /\ q.pc \in Forwarding => /\ Proxied(q) /\ q.err = "none" /\ (q.execution <=> Hooked) /\ ~q.upgrade
                              /\ Verdict = FromUpstream /\ (q.pc = "connect" <=> "tunnel" \in facts)
    /\ q.pc = "respond" => /\ q.status = Verdict.status /\ q.err = Verdict.err /\ (q.execution <=> Verdict.hooked)
                           /\ IF Verdict.proxied THEN Proxied(q) ELSE Kept(q)
                           /\ q.upgrade <=> (Verdict.proxied /\ "tunnel" \in facts)
    /\ q.pc \in Answering => /\ q.status = FinalStatus /\ q.status # 0
                             /\ IF Verdict.proxied THEN Proxied(q) ELSE Kept(q)
                             /\ "hookfail" \notin facts => q.err = SentErr
    /\ q.pc \in Answering /\ "hookfail" \notin facts =>
           /\ (q.pc = "tunnel") <=> (Verdict.proxied /\ "tunnel" \in facts)
           /\ q.pc = "queued" => ~BreaksOff
    /\ q.pc \in Ended => /\ q.status = FinalStatus
                         /\ "hookfail" \notin facts => q.health = FinalHealth /\ q.sample = FinalSample

-----------------------------------------------------------------------------
(* A cancelled request ends at once, with an error.                        *)
Evidence(q) ==
    /\ q.finished <=> q.pc \in Ended
    /\ "cancelled" \in q.why =>
           /\ q.pc \in Ended
           /\ {q.health, q.sample} \subseteq (IF q.err = "upstream" THEN {"none", "fail"} ELSE {"none"})

ContextOk(q) ==
    /\ q \in Contexts
    /\ q.pc \in Entering \cup {"dispatch", "file", "select"} \cup Forwarding => q.why = {}
    /\ Cleared(q.pc)
    /\ "endpoint" \in q.held => Lacks(Refusing)
    /\ External => q.header # "client"
    /\ Evidence(q)
    /\ q.why = {} => Follows(q)

(* The scenario does not change.                                           *)
ScenarioOk ==
    /\ facts \subseteq AllFacts /\ Consistent(facts)
    /\ engine \in [Requests -> Engines]
    /\ \A r \in Requests : engine[r] # "hyper" => Lacks({"connect", "upgrade", "tunnel"})

TransportOk ==
    /\ transport \in [Connections -> {"open", "closed", "failed"}]
    /\ NothingStranded

ProxyInv ==
    /\ ScenarioOk /\ TransportOk
    /\ DOMAIN req = Requests /\ \A r \in Requests : ContextOk(req[r])

-----------------------------------------------------------------------------
(* The groups of facts, one by one.                                        *)
LEMMA HasIs == ASSUME NEW G PROVE Has(G) <=> \E f \in G : f \in facts
  BY DEF Has

LEMMA Groups ==
    /\ Scripted <=> \E f \in Plugins : f \in facts
    /\ Hooked <=> "hook" \in facts \/ "hookfail" \in facts
    /\ Tenanted <=> "tenant" \in facts \/ "tenantrate" \in facts
    /\ Limited <=> "limited" \in facts \/ "rated" \in facts
    /\ External <=> "external" \in facts \/ "extdeny" \in facts
  BY HasIs DEF Scripted, Hooked, Tenanted, Limited, External

LEMMA PluginFacts ==
    ASSUME ScenarioOk, NEW f \in Plugins, NEW g \in Plugins, f \in facts, g \in facts
    PROVE  f = g
  BY DEF ScenarioOk, Consistent

(* The fast path meets none of the facts a policy would act on.            *)
LEMMA PlainLacks ==
    ASSUME PlainSelect
    PROVE  /\ Lacks(Transports) /\ Lacks(Malformed) /\ Lacks(Plugins) /\ ~GatewayRoute /\ ~External
           /\ Lacks(GatewayFacts)
           /\ Lacks({"tenant", "tenantrate", "limited", "rated", "external", "extdeny", "rollout", "view", "denied",
                     "badtoken", "nocert", "https", "static", "filegone", "unavailable", "slash"})
  <1>1. ~Has(Plugins) /\ ~Has({"tenant", "tenantrate"}) /\ ~Has({"limited", "rated"})
        /\ ~Has({"external", "extdeny"}) /\ ~Has({"rollout", "view", "denied", "badtoken", "nocert", "https"})
        /\ ~Has({"static", "filegone", "unavailable"}) /\ ~Has(Transports \cup {"grpc"}) /\ ~Has(Malformed)
        /\ ~Has(GatewayFacts) /\ "slash" \notin facts /\ ~GatewayRoute /\ ~External
    BY DEF PlainSelect, PlainRoute, Scripted, Tenanted, Limited, External, GatewayRoute
  <1> QED BY <1>1, HasIs DEF Lacks, Transports, Malformed

-----------------------------------------------------------------------------
(* The verdict at each place.                                              *)

LEMMA VerdictIdentified == ASSUME Lacks(Identified) PROVE Verdict = FromAuthorize
  BY DEF Lacks, Identified, Malformed, Verdict

LEMMA VerdictAuthorized == ASSUME Lacks(Authorized) PROVE Verdict = FromCheckList
  <1>1. Lacks(Identified) /\ Lacks(Metered) /\ Lacks({"badtoken", "extdeny"})
    BY DEF Lacks, Authorized
  <1>2. FromAuthorize = FromCheckList
    BY <1>1 DEF Lacks, Metered, FromAuthorize
  <1> QED BY <1>1, <1>2, VerdictIdentified

LEMMA VerdictChecked == ASSUME Lacks(Checked) PROVE Verdict = FromPlugin
  <1>1. Lacks(Authorized) /\ Lacks({"slash", "large", "connect", "upgrade"})
    BY DEF Lacks, Checked
  <1>2. FromCheckList = FromPlugin
    BY <1>1 DEF Lacks, FromCheckList
  <1> QED BY <1>1, <1>2, VerdictAuthorized

LEMMA VerdictRouted == ASSUME Lacks(Refusing) PROVE Lacks(Checked) /\ Verdict = FromRoute
  <1>1. Lacks(Checked)
    BY DEF Lacks, Refusing, Checked, Authorized, Identified, Metered
  <1>2. FromPlugin = FromRoute
    BY DEF Lacks, Refusing, FromPlugin
  <1> QED BY <1>1, <1>2, VerdictChecked

Decisions == [status : Nat \ {0}, err : {"none", "internal", "upstream"}, proxied : BOOLEAN, hooked : BOOLEAN]

LEMMA VerdictType == Verdict \in Decisions
  <1> USE DEF Decisions, Decide, Refuse, Local
  <1>1. Hooked \in BOOLEAN
    BY DEF Hooked, Has
  <1>2. FromUpstream \in Decisions
    BY <1>1 DEF FromUpstream
  <1>3. FromRoute \in Decisions
    BY <1>1, <1>2 DEF FromRoute
  <1>4. FromPlugin \in Decisions
    BY <1>3 DEF FromPlugin
  <1>5. FromCheckList \in Decisions
    BY <1>4 DEF FromCheckList
  <1>6. FromAuthorize \in Decisions
    BY <1>5 DEF FromAuthorize
  <1> QED BY <1>6 DEF Verdict

-----------------------------------------------------------------------------
(* The ways a context changes.                                             *)

Early == Entering \cup {"dispatch", "file", "select"}

(* From one check to the next, with or without a permit of the way.        *)
LEMMA Onward ==
    ASSUME NEW q, ContextOk(q), q.pc \in Entering, NEW next \in Entering, Cleared(next),
           NEW held \in SUBSET (Budgets \ {"endpoint"}), NEW plain \in BOOLEAN
    PROVE  ContextOk([q EXCEPT !.pc = next, !.plain = plain, !.held = held])
  <1> DEFINE new == [q EXCEPT !.pc = next, !.plain = plain, !.held = held]
  <1>1. q \in Contexts /\ q.why = {} /\ q.err = "none" /\ ~q.backend /\ ~q.execution /\ ~q.upgrade /\ ~q.finished
        /\ (External => q.header # "client")
    BY DEF ContextOk, Follows, Kept, Evidence, Entering, Ended
  <1>2. new \in Contexts
    BY <1>1 DEF Contexts, PCs
  <1>3. /\ new.pc = next /\ new.held = held /\ new.why = {} /\ new.err = "none" /\ ~new.backend /\ ~new.execution
        /\ ~new.upgrade /\ ~new.finished /\ new.header = q.header
    BY <1>1 DEF Contexts
  <1>4. "endpoint" \notin held /\ next \notin {"dispatch", "file", "select", "respond"} \cup Forwarding \cup Answering \cup Ended
    BY DEF Entering, Forwarding, Answering, Ended
  <1> HIDE DEF new
  <1>5. Evidence(new)
    BY <1>3, <1>4 DEF Evidence
  <1>6. Follows(new)
    BY <1>3, <1>4 DEF Follows, Kept
  <1>7. ContextOk(new)
    BY <1>1, <1>2, <1>3, <1>4, <1>5, <1>6 DEF ContextOk
  <1> QED BY <1>7 DEF new

(* A budget that is exhausted, a deadline or a connection that is refused. *)
LEMMA Excused ==
    ASSUME NEW q \in Contexts, q.pc = "respond", q.why # {}, "cancelled" \notin q.why, ~q.finished,
           External => q.header # "client", "endpoint" \in q.held => Lacks(Refusing)
    PROVE  ContextOk(q)
  <1>1. "respond" \notin {"plain", "dispatch", "file", "select"} \cup FromMtls \cup FromCheck \cup Forwarding
                         \cup Entering \cup Ended
    BY DEF Entering, Forwarding, Ended, FromMtls, FromCheck
  <1>2. Cleared("respond")
    BY <1>1 DEF Cleared
  <1>3. Evidence(q)
    BY <1>1 DEF Evidence
  <1> QED BY <1>1, <1>2, <1>3 DEF ContextOk

(* An answer that is the verdict.                                          *)
LEMMA Verdicted ==
    ASSUME NEW q, q \in Contexts, q.why = {}, ~q.finished, External => q.header # "client",
           "endpoint" \in q.held => Lacks(Refusing), q.pc = "respond",
           q.status = Verdict.status, q.err = Verdict.err, q.execution <=> Verdict.hooked,
           IF Verdict.proxied THEN Proxied(q) ELSE Kept(q),
           q.upgrade <=> (Verdict.proxied /\ "tunnel" \in facts)
    PROVE  ContextOk(q)
  <1>1. "respond" \notin {"plain", "dispatch", "file", "select"} \cup FromMtls \cup FromCheck \cup Forwarding
                         \cup Entering \cup Answering \cup Ended
    BY DEF Entering, Forwarding, Answering, Ended, FromMtls, FromCheck
  <1>2. Cleared("respond")
    BY <1>1 DEF Cleared
  <1>3. Evidence(q)
    BY <1>1 DEF Evidence
  <1>4. Follows(q)
    BY <1>1 DEF Follows
  <1> QED BY <1>1, <1>2, <1>3, <1>4 DEF ContextOk

LEMMA Refusal ==
    ASSUME NEW q, ContextOk(q), q.pc \in Entering, NEW status \in Nat, NEW err \in {"none", "internal"},
           Verdict = Refuse(status, err), NEW held \in SUBSET q.held
    PROVE  ContextOk([q EXCEPT !.pc = "respond", !.status = status, !.err = err, !.held = held])
  <1> DEFINE new == [q EXCEPT !.pc = "respond", !.status = status, !.err = err, !.held = held]
  <1>1. /\ q \in Contexts /\ q.why = {} /\ ~q.finished /\ (External => q.header # "client")
        /\ ("endpoint" \in q.held => Lacks(Refusing)) /\ ~q.backend /\ "endpoint" \notin q.held /\ ~q.execution
        /\ ~q.upgrade
    BY DEF ContextOk, Follows, Kept, Evidence, Entering, Ended
  <1>2. new \in Contexts
    BY <1>1 DEF Contexts, PCs
  <1>3. /\ new.pc = "respond" /\ new.held = held /\ new.why = {} /\ new.finished = FALSE /\ new.header = q.header
        /\ new.status = status /\ new.err = err /\ ~new.execution /\ ~new.backend /\ ~new.upgrade
    BY <1>1 DEF Contexts
  <1>4. Verdict.status = status /\ Verdict.err = err /\ Verdict.proxied = FALSE /\ Verdict.hooked = FALSE
    BY DEF Refuse, Decide
  <1> HIDE DEF new
  <1>5. ContextOk(new)
    BY <1>1, <1>2, <1>3, <1>4, Verdicted DEF Kept
  <1> QED BY <1>5 DEF new

LEMMA LocalReply ==
    ASSUME NEW q, ContextOk(q), q.pc \in {"dispatch", "file"}, ~q.backend, NEW status \in Nat,
           NEW err \in {"none", "internal"}, Verdict = Local(status, err)
    PROVE  ContextOk([q EXCEPT !.pc = "respond", !.status = status, !.err = err])
  <1> DEFINE new == [q EXCEPT !.pc = "respond", !.status = status, !.err = err]
  <1>1. /\ q \in Contexts /\ q.why = {} /\ ~q.finished /\ (External => q.header # "client")
        /\ "endpoint" \notin q.held /\ (q.execution <=> Hooked) /\ ~q.upgrade
    BY DEF ContextOk, Follows, Kept, Evidence, Ended
  <1>0. q \in Contexts /\ "respond" \in PCs
    BY DEF ContextOk, PCs
  <1>2. new \in Contexts
    BY <1>0 DEF Contexts
  <1>3. /\ new.pc = "respond" /\ new.held = q.held /\ new.why = {} /\ new.finished = FALSE /\ new.header = q.header
        /\ new.status = status /\ new.err = err /\ new.execution = q.execution /\ ~new.backend /\ ~new.upgrade
    BY <1>1 DEF Contexts
  <1>4. Verdict.status = status /\ Verdict.err = err /\ Verdict.proxied = FALSE /\ (Verdict.hooked <=> Hooked)
    BY DEF Local, Decide
  <1> HIDE DEF new
  <1>5. ContextOk(new)
    BY <1>1, <1>2, <1>3, <1>4, Verdicted DEF Kept
  <1> QED BY <1>5 DEF new

(* What a context owes to the facts does not change, as they do not.       *)
LEMMA FactsStay ==
    ASSUME facts' = facts, NEW q, ContextOk(q)
    PROVE  ContextOk(q)'
  <1>1. (External' <=> External) /\ (Hooked' <=> Hooked) /\ (GatewayRoute' <=> GatewayRoute)
        /\ (PlainSelect' <=> PlainSelect)
    BY DEF External, Hooked, GatewayRoute, PlainSelect, PlainRoute, Scripted, Tenanted, Limited, Has
  <1>2. ASSUME NEW F PROVE Lacks(F)' <=> Lacks(F)
    BY DEF Lacks
  <1>3. Cleared(q.pc)'
    BY <1>1, <1>2 DEF ContextOk, Cleared
  <1>4. Hooked' = Hooked
    BY DEF Hooked, Has
  <1>5. FromUpstream' = FromUpstream
    BY <1>4 DEF FromUpstream, Decide
  <1>6. FromRoute' = FromRoute
    BY <1>1, <1>4, <1>5 DEF FromRoute, Local, Decide
  <1>7. FromPlugin' = FromPlugin
    BY <1>6 DEF FromPlugin
  <1>8. FromAuthorize' = FromAuthorize
    BY <1>7 DEF FromAuthorize, FromCheckList
  <1>9. Verdict' = Verdict
    BY <1>8 DEF Verdict
  <1>10. (Declined' <=> Declined) /\ SentErr' = SentErr /\ (BreaksOff' <=> BreaksOff) /\ FinalErr' = FinalErr
         /\ FinalStatus' = FinalStatus
    BY <1>9 DEF Declined, SentErr, BreaksOff, FinalErr, FinalStatus
  <1>11. FinalHealth' = FinalHealth /\ FinalSample' = FinalSample
    BY <1>9, <1>10 DEF FinalHealth, FinalSample
  <1>12. Follows(q) => Follows(q)'
    BY <1>1, <1>4, <1>5, <1>9, <1>10, <1>11 DEF Follows, Local, Decide
  <1> QED BY <1>1, <1>2, <1>3, <1>12 DEF ContextOk

(* One request changes, and the rest stays as it is.                       *)
LEMMA OneChanges ==
    ASSUME ProxyInv, NEW r \in Requests, NEW q, Become(r, q), ContextOk(q),
           q.pc = "queued" => transport[ConnectionOf(r)] # "failed"
    PROVE  ProxyInv'
  <1>1. facts' = facts /\ engine' = engine /\ transport' = transport /\ req' = [req EXCEPT ![r] = q]
        /\ DOMAIN req = Requests
    BY DEF Become, ProxyInv
  <1>2. ScenarioOk'
    BY <1>1 DEF ProxyInv, ScenarioOk, Consistent, Lacks
  <1>3. ASSUME NEW p \in Requests PROVE ContextOk(req[p])'
    <2>1. PICK c : c = req'[p]
      OBVIOUS
    <2>2. ContextOk(c)
      BY <1>1, <2>1 DEF ProxyInv
    <2>3. ContextOk(c)'
      BY <1>1, <2>2, FactsStay
    <2> QED BY <2>1, <2>3
  <1>4. TransportOk'
    BY <1>1 DEF ProxyInv, TransportOk, NothingStranded, ConnectionOf
  <1> QED BY <1>1, <1>2, <1>3, <1>4 DEF ProxyInv

-----------------------------------------------------------------------------
(* The steps of the model's own vocabulary.                                *)

LEMMA ContinueOk ==
    ASSUME ProxyInv, NEW r \in Requests, req[r].pc \in Entering, NEW next \in Entering, Cleared(next),
           Continue(r, next)
    PROVE  ProxyInv'
  <1>1. PICK q : q = req[r] /\ ContextOk(q)
    BY DEF ProxyInv
  <1>2. q \in Contexts /\ "endpoint" \notin q.held
    BY <1>1 DEF ContextOk, Follows, Kept, Entering
  <1>3. [q EXCEPT !.pc = next] = [q EXCEPT !.pc = next, !.plain = q.plain, !.held = q.held]
    BY <1>2 DEF Contexts
  <1>4. q.held \in SUBSET (Budgets \ {"endpoint"}) /\ q.plain \in BOOLEAN
    BY <1>2 DEF Contexts
  <1>5. PICK new : new = [q EXCEPT !.pc = next]
    OBVIOUS
  <1>6. ContextOk(new)
    <2>1. q.pc \in Entering
      BY <1>1
    <2>2. ContextOk([q EXCEPT !.pc = next, !.plain = q.plain, !.held = q.held])
      BY <1>1, <1>4, <2>1, Onward
    <2> QED BY <1>3, <1>5, <2>2
  <1>7. Become(r, new) /\ new.pc # "queued"
    BY <1>1, <1>2, <1>5 DEF Continue, Contexts, Entering
  <1> QED BY <1>6, <1>7, OneChanges

(* What is left of a context that is not finished.                         *)
LEMMA Unfinished ==
    ASSUME NEW q, ContextOk(q), q.pc \in Early \cup Forwarding \cup {"respond"} \cup Answering
    PROVE  /\ q \in Contexts /\ ~q.finished /\ "cancelled" \notin q.why /\ (External => q.header # "client")
           /\ "endpoint" \in q.held => Lacks(Refusing)
  BY DEF ContextOk, Evidence, Early, Entering, Forwarding, Answering, Ended

LEMMA ExcuseOk ==
    ASSUME ProxyInv, NEW r \in Requests, req[r].pc \in Early \cup Forwarding, NEW budgets,
           NEW reason \in {"shed", "refused", "late"}, NEW status \in Nat, NEW err \in {"internal", "upstream"},
           Become(r, Answered(Released(Marked(req[r], reason), budgets), status, err))
    PROVE  ProxyInv'
  <1>1. PICK q : q = req[r] /\ ContextOk(q)
    BY DEF ProxyInv
  <1>2. /\ q \in Contexts /\ ~q.finished /\ "cancelled" \notin q.why /\ (External => q.header # "client")
        /\ "endpoint" \in q.held => Lacks(Refusing)
    BY <1>1, Unfinished
  <1>3. PICK new : new = Answered(Released(Marked(q, reason), budgets), status, err)
    OBVIOUS
  <1>4. new \in Contexts
    <2>1. Marked(q, reason) \in Contexts
      BY <1>2 DEF Contexts, Marked
    <2>2. Released(Marked(q, reason), budgets) \in Contexts
      BY <2>1 DEF Contexts, Released
    <2>3. "respond" \in PCs
      BY DEF PCs
    <2> QED BY <1>3, <2>2, <2>3 DEF Contexts, Answered
  <1>5. /\ new.pc = "respond" /\ new.why = q.why \cup {reason} /\ new.held \subseteq q.held /\ new.header = q.header
        /\ new.finished = q.finished
    BY <1>2, <1>3 DEF Contexts, Answered, Released, Marked
  <1>6. ContextOk(new)
    BY <1>2, <1>4, <1>5, Excused
  <1> QED BY <1>1, <1>3, <1>5, <1>6, OneChanges

LEMMA ReleasesNothing == ASSUME NEW q \in Contexts PROVE Released(q, {}) = q
  <1>1. q.held \ {} = q.held
    OBVIOUS
  <1>2. [q EXCEPT !.held = q.held] = q
    BY DEF Contexts
  <1> QED BY <1>1, <1>2 DEF Released

LEMMA MarkedIs ==
    ASSUME NEW q \in Contexts, NEW reason \in {"shed", "refused", "late", "cancelled"}
    PROVE  Marked(q, reason) \in Contexts
  BY DEF Contexts, Marked

LEMMA ShedOk ==
    ASSUME ProxyInv, NEW r \in Requests, req[r].pc \in Early, Shed(r, 503)
    PROVE  ProxyInv'
  <1>1. req[r] \in Contexts
    BY DEF ProxyInv, ContextOk
  <1>2. Released(Marked(req[r], "shed"), {}) = Marked(req[r], "shed")
    BY <1>1, MarkedIs, ReleasesNothing
  <1>3. Become(r, Answered(Released(Marked(req[r], "shed"), {}), 503, "internal"))
    BY <1>2 DEF Shed
  <1> QED BY <1>3, ExcuseOk

LEMMA AcquireOk ==
    ASSUME ProxyInv, NEW r \in Requests, req[r].pc \in Entering, NEW next \in Entering, Cleared(next),
           NEW b \in Budgets \ {"endpoint"}, Acquire(r, b, next)
    PROVE  ProxyInv'
  <1>1. CASE ~Free(r, b)
    BY <1>1, ShedOk DEF Acquire, Early
  <1>2. CASE Free(r, b)
    <2>1. PICK q : q = req[r] /\ ContextOk(q)
      BY DEF ProxyInv
    <2>2. q \in Contexts /\ "endpoint" \notin q.held
      BY <2>1 DEF ContextOk, Follows, Kept, Entering
    <2>3. PICK held : held = q.held \cup {b}
      OBVIOUS
    <2>4. [q EXCEPT !.held = held, !.pc = next] = [q EXCEPT !.pc = next, !.plain = q.plain, !.held = held]
      BY <2>2 DEF Contexts
    <2>5. held \in SUBSET (Budgets \ {"endpoint"}) /\ q.plain \in BOOLEAN
      BY <2>2, <2>3 DEF Contexts
    <2>6. PICK new : new = [q EXCEPT !.held = held, !.pc = next]
      OBVIOUS
    <2>7. ContextOk(new)
      <3>1. q.pc \in Entering
        BY <2>1
      <3>2. ContextOk([q EXCEPT !.pc = next, !.plain = q.plain, !.held = held])
        BY <2>1, <2>5, <3>1, Onward
      <3> QED BY <2>4, <2>6, <3>2
    <2>8. Become(r, new) /\ new.pc # "queued"
      BY <1>2, <2>1, <2>2, <2>3, <2>6 DEF Acquire, Contexts, Entering
    <2> QED BY <2>7, <2>8, OneChanges
  <1> QED BY <1>1, <1>2

LEMMA RefuseOk ==
    ASSUME ProxyInv, NEW r \in Requests, req[r].pc \in Entering, NEW status \in Nat, NEW err \in {"none", "internal"},
           Verdict = Refuse(status, err), Become(r, Answered(req[r], status, err))
    PROVE  ProxyInv'
  <1>1. PICK q : q = req[r] /\ ContextOk(q)
    BY DEF ProxyInv
  <1>2. q \in Contexts
    BY <1>1 DEF ContextOk
  <1>3. PICK new : new = [q EXCEPT !.pc = "respond", !.status = status, !.err = err, !.held = q.held]
    OBVIOUS
  <1>4. Answered(q, status, err) = new
    BY <1>2, <1>3 DEF Contexts, Answered
  <1>5. ContextOk(new)
    BY <1>1, <1>3, Refusal
  <1>6. Become(r, new) /\ new.pc # "queued"
    BY <1>1, <1>2, <1>3, <1>4 DEF Contexts
  <1> QED BY <1>5, <1>6, OneChanges

LEMMA LocalOk ==
    ASSUME ProxyInv, NEW r \in Requests, req[r].pc \in {"dispatch", "file"}, ~req[r].backend, NEW status \in Nat,
           NEW err \in {"none", "internal"}, Verdict = Local(status, err), Become(r, Answered(req[r], status, err))
    PROVE  ProxyInv'
  <1>1. PICK q : q = req[r] /\ ContextOk(q)
    BY DEF ProxyInv
  <1>2. q \in Contexts
    BY <1>1 DEF ContextOk
  <1>3. PICK new : new = Answered(q, status, err)
    OBVIOUS
  <1>4. ContextOk(new)
    BY <1>1, <1>3, LocalReply DEF Answered
  <1>5. Become(r, new) /\ new.pc # "queued"
    BY <1>1, <1>2, <1>3 DEF Contexts, Answered
  <1> QED BY <1>4, <1>5, OneChanges

-----------------------------------------------------------------------------
(* The lists of checks.                                                    *)

LEMMA FirstOf ==
    ASSUME NEW n \in Nat, NEW checks, DOMAIN checks = 1..n
    PROVE  \/ FirstFailure(checks) = Passed /\ \A i \in 1..n : checks[i].fact \notin facts
           \/ \E i \in 1..n : /\ FirstFailure(checks) = checks[i] /\ checks[i].fact \in facts
                              /\ \A j \in 1..n : j < i => checks[j].fact \notin facts
  <1>1. PICK failed : failed = {i \in 1..n : checks[i].fact \in facts}
    OBVIOUS
  <1>2. FirstFailure(checks) = IF failed = {} THEN Passed ELSE checks[CHOOSE i \in failed : \A j \in failed : i <= j]
    BY <1>1 DEF FirstFailure
  <1>3. CASE failed = {}
    BY <1>1, <1>2, <1>3
  <1>4. CASE failed # {}
    <2>1. \E i \in failed : \A j \in failed : i <= j
      BY <1>1, <1>4, LeastOf
    <2>2. PICK i : i = CHOOSE k \in failed : \A j \in failed : k <= j
      OBVIOUS
    <2>3. i \in failed /\ \A j \in failed : i <= j
      BY <2>1, <2>2
    <2>4. FirstFailure(checks) = checks[i]
      BY <1>2, <1>4, <2>2
    <2> QED BY <1>1, <2>3, <2>4
  <1> QED BY <1>3, <1>4

HyperParsing ==
    <<Fails("badconn", 400), Fails("badhost", 400), Fails("badpath", 400), Replies("noroute", 404),
      Fails("denied", 403), Replies("https", 308)>>

LEMMA HyperParses == HyperParse \o HyperIdentify = HyperParsing
  <1> DEFINE Records == {Fails("badconn", 400), Fails("badhost", 400), Fails("badpath", 400),
                         Replies("noroute", 404), Fails("denied", 403), Replies("https", 308)}
  <1>1. HyperParse \in Seq(Records) /\ HyperIdentify \in Seq(Records) /\ HyperParsing \in Seq(Records)
    BY DEF HyperParse, HyperIdentify, HyperParsing
  <1>2. Len(HyperParse) = 4 /\ Len(HyperIdentify) = 2 /\ Len(HyperParsing) = 6
    BY DEF HyperParse, HyperIdentify, HyperParsing
  <1> HIDE DEF Records
  <1>3. /\ HyperParse \o HyperIdentify \in Seq(Records) /\ Len(HyperParse \o HyperIdentify) = 6
        /\ \A i \in 1..6 : (HyperParse \o HyperIdentify)[i] = IF i <= 4 THEN HyperParse[i] ELSE HyperIdentify[i - 4]
    <2>1. /\ HyperParse \o HyperIdentify \in Seq(Records)
          /\ Len(HyperParse \o HyperIdentify) = Len(HyperParse) + Len(HyperIdentify)
          /\ \A i \in 1..(Len(HyperParse) + Len(HyperIdentify)) :
                 (HyperParse \o HyperIdentify)[i]
                 = IF i <= Len(HyperParse) THEN HyperParse[i] ELSE HyperIdentify[i - Len(HyperParse)]
      BY <1>1, ConcatProperties, Zenon
    <2>2. Len(HyperParse) + Len(HyperIdentify) = 6
      BY <1>2
    <2> QED BY <1>2, <2>1, <2>2, Zenon
  <1>4. ASSUME NEW i \in 1..6 PROVE HyperParsing[i] = IF i <= 4 THEN HyperParse[i] ELSE HyperIdentify[i - 4]
    <2>1. CASE i <= 4
      BY <2>1 DEF HyperParse, HyperParsing
    <2>2. CASE i = 5
      BY <2>2 DEF HyperIdentify, HyperParsing
    <2>3. CASE i = 6
      BY <2>3 DEF HyperIdentify, HyperParsing
    <2> QED BY <2>1, <2>2, <2>3
  <1>5. PICK s : s = HyperParse \o HyperIdentify
    OBVIOUS
  <1>6. s \in Seq(Records) /\ Len(s) = 6 /\ \A i \in 1..6 : s[i] = HyperParsing[i]
    BY <1>3, <1>4, <1>5, Zenon
  <1>7. s = HyperParsing
    BY <1>1, <1>2, <1>6, SeqEqual, Zenon
  <1> QED BY <1>5, <1>7

(* A failed check is an answer, and the one the verdict gives; a list that *)
(* is passed clears its facts.                                             *)
Decided(failed) ==
    /\ failed # Passed /\ failed.status \in Nat /\ failed.err \in {"none", "internal"}
    /\ Verdict = Refuse(failed.status, failed.err)

LEMMA ParseDecides ==
    ASSUME ScenarioOk, NEW r \in Requests
    PROVE  \/ FirstFailure(Parse(r)) = Passed /\ Lacks(Identified)
           \/ Decided(FirstFailure(Parse(r)))
  <1>1. PICK f : f = FirstFailure(Parse(r))
    OBVIOUS
  <1> USE DEF Fails, Replies, Passed
  <1>2. CASE engine[r] = "pingora"
    <2>1. Parse(r) = PingoraParse
      BY <1>2 DEF Parse
    <2>2. DOMAIN PingoraParse = 1..6
      BY DEF PingoraParse
    <2>3. \/ f = Passed /\ \A i \in 1..6 : PingoraParse[i].fact \notin facts
          \/ \E i \in 1..6 : /\ f = PingoraParse[i] /\ PingoraParse[i].fact \in facts
                             /\ \A j \in 1..6 : j < i => PingoraParse[j].fact \notin facts
      BY <1>1, <2>1, <2>2, FirstOf
    <2>4. CASE f = Passed /\ \A i \in 1..6 : PingoraParse[i].fact \notin facts
      BY <1>1, <2>4 DEF PingoraParse, Lacks, Identified, Malformed
    <2>5. ASSUME NEW i \in 1..6, f = PingoraParse[i], PingoraParse[i].fact \in facts,
                 \A j \in 1..6 : j < i => PingoraParse[j].fact \notin facts
          PROVE  Decided(f)
      BY <2>5 DEF PingoraParse, Decided, Verdict
    <2> QED BY <1>1, <2>3, <2>4, <2>5
  <1>3. CASE engine[r] # "pingora"
    <2>1. Parse(r) = HyperParsing
      BY <1>3, HyperParses DEF Parse
    <2>2. DOMAIN HyperParsing = 1..6
      BY DEF HyperParsing
    <2>3. \/ f = Passed /\ \A i \in 1..6 : HyperParsing[i].fact \notin facts
          \/ \E i \in 1..6 : /\ f = HyperParsing[i] /\ HyperParsing[i].fact \in facts
                             /\ \A j \in 1..6 : j < i => HyperParsing[j].fact \notin facts
      BY <1>1, <2>1, <2>2, FirstOf
    <2>4. CASE f = Passed /\ \A i \in 1..6 : HyperParsing[i].fact \notin facts
      BY <1>1, <2>4 DEF HyperParsing, Lacks, Identified, Malformed
    <2>5. ASSUME NEW i \in 1..6, f = HyperParsing[i], HyperParsing[i].fact \in facts,
                 \A j \in 1..6 : j < i => HyperParsing[j].fact \notin facts
          PROVE  Decided(f)
      BY <2>5 DEF HyperParsing, Decided, Verdict
    <2> QED BY <1>1, <2>3, <2>4, <2>5
  <1> QED BY <1>2, <1>3

LEMMA CheckDecides ==
    ASSUME ScenarioOk, NEW r \in Requests, Lacks(Authorized)
    PROVE  \/ FirstFailure(Check(r)) = Passed /\ Lacks(Checked)
           \/ Decided(FirstFailure(Check(r)))
  <1>1. PICK f : f = FirstFailure(Check(r))
    OBVIOUS
  <1>2. Verdict = FromCheckList
    BY VerdictAuthorized
  <1>3. ASSUME f = Passed, Lacks({"slash", "large", "connect", "upgrade"}) PROVE Lacks(Checked)
    BY <1>3 DEF Lacks, Checked
  <1> USE DEF Fails, Replies, Passed
  <1>4. CASE engine[r] = "pingora"
    <2>1. Check(r) = PingoraCheck
      BY <1>4 DEF Check
    <2>2. DOMAIN PingoraCheck = 1..2
      BY DEF PingoraCheck
    <2>3. \/ f = Passed /\ \A i \in 1..2 : PingoraCheck[i].fact \notin facts
          \/ \E i \in 1..2 : /\ f = PingoraCheck[i] /\ PingoraCheck[i].fact \in facts
                             /\ \A j \in 1..2 : j < i => PingoraCheck[j].fact \notin facts
      BY <1>1, <2>1, <2>2, FirstOf
    <2>4. "connect" \notin facts /\ "upgrade" \notin facts
      BY <1>4 DEF ScenarioOk, Lacks
    <2>5. CASE f = Passed /\ \A i \in 1..2 : PingoraCheck[i].fact \notin facts
      <3>1. Lacks({"slash", "large", "connect", "upgrade"})
        BY <2>4, <2>5 DEF PingoraCheck, Lacks
      <3> QED BY <1>1, <1>3, <2>5, <3>1
    <2>6. ASSUME NEW i \in 1..2, f = PingoraCheck[i], PingoraCheck[i].fact \in facts,
                 \A j \in 1..2 : j < i => PingoraCheck[j].fact \notin facts
          PROVE  Decided(f)
      BY <1>2, <2>6 DEF PingoraCheck, Decided, FromCheckList
    <2> QED BY <1>1, <2>3, <2>5, <2>6
  <1>5. CASE engine[r] # "pingora"
    <2>1. Check(r) = HyperCheck
      BY <1>5 DEF Check
    <2>2. DOMAIN HyperCheck = 1..4
      BY DEF HyperCheck
    <2>3. \/ f = Passed /\ \A i \in 1..4 : HyperCheck[i].fact \notin facts
          \/ \E i \in 1..4 : /\ f = HyperCheck[i] /\ HyperCheck[i].fact \in facts
                             /\ \A j \in 1..4 : j < i => HyperCheck[j].fact \notin facts
      BY <1>1, <2>1, <2>2, FirstOf
    <2>4. CASE f = Passed /\ \A i \in 1..4 : HyperCheck[i].fact \notin facts
      <3>1. Lacks({"slash", "large", "connect", "upgrade"})
        BY <2>4 DEF HyperCheck, Lacks
      <3> QED BY <1>1, <1>3, <2>4, <3>1
    <2>5. ASSUME NEW i \in 1..4, f = HyperCheck[i], HyperCheck[i].fact \in facts,
                 \A j \in 1..4 : j < i => HyperCheck[j].fact \notin facts
          PROVE  Decided(f)
      BY <1>2, <2>5 DEF HyperCheck, Decided, FromCheckList
    <2> QED BY <1>1, <2>3, <2>4, <2>5
  <1> QED BY <1>4, <1>5

LEMMA AnswerDecided ==
    ASSUME ProxyInv, NEW r \in Requests, req[r].pc \in Entering, NEW check, Decided(check), Answer(r, check)
    PROVE  ProxyInv'
  BY RefuseOk DEF Decided, Answer

-----------------------------------------------------------------------------
(* From the arrival to the plugin.                                         *)

LEMMA ArriveOk == ASSUME ProxyInv, NEW r \in Requests, Arrive(r) PROVE ProxyInv'
  <1>1. CASE engine[r] = "hyper" /\ PlainSelect /\ Free(r, "requests")
    <2>1. PICK q : q = req[r] /\ ContextOk(q) /\ q.pc = "idle"
      BY DEF ProxyInv, Arrive
    <2>2. PICK new : new = [q EXCEPT !.pc = "plain", !.plain = TRUE, !.held = {"requests"}]
      OBVIOUS
    <2>3. Become(r, new)
      BY <1>1, <2>1, <2>2 DEF Arrive
    <2>4. Cleared("plain") /\ "plain" \in Entering /\ "idle" \in Entering
      BY <1>1 DEF Cleared, FromMtls, FromCheck, Forwarding, Entering
    <2>5. {"requests"} \in SUBSET (Budgets \ {"endpoint"})
      BY DEF Budgets
    <2>6. ContextOk([q EXCEPT !.pc = "plain", !.plain = TRUE, !.held = {"requests"}])
      BY <2>1, <2>4, <2>5, Onward
    <2>7. new.pc = "plain"
      BY <2>1, <2>2 DEF ContextOk, Contexts
    <2> QED BY <2>2, <2>3, <2>6, <2>7, OneChanges
  <1>2. CASE ~(engine[r] = "hyper" /\ PlainSelect /\ Free(r, "requests"))
    <2>1. Cleared("admit") /\ "admit" \in Entering /\ "idle" \in Entering
      BY DEF Cleared, FromMtls, FromCheck, Forwarding, Entering
    <2>2. Continue(r, "admit") /\ req[r].pc = "idle"
      BY <1>2 DEF Arrive
    <2> QED BY <2>1, <2>2, ContinueOk
  <1> QED BY <1>1, <1>2

LEMMA AdmitOk == ASSUME ProxyInv, NEW r \in Requests, Admit(r) PROVE ProxyInv'
  <1>1. Cleared("parse") /\ {"parse", "admit"} \subseteq Entering /\ "requests" \in Budgets \ {"endpoint"}
    BY DEF Cleared, FromMtls, FromCheck, Forwarding, Entering, Budgets
  <1> QED BY <1>1, AcquireOk DEF Admit

LEMMA ParseOk == ASSUME ProxyInv, NEW r \in Requests, ParseRequest(r) PROVE ProxyInv'
  <1>1. {"parse", "mtls"} \subseteq Entering /\ req[r].pc = "parse" /\ ScenarioOk
    BY DEF Entering, ParseRequest, ProxyInv
  <1>2. PICK f : f = FirstFailure(Parse(r))
    OBVIOUS
  <1>3. CASE f = Passed /\ Lacks(Identified)
    <2>1. Continue(r, "mtls")
      BY <1>2, <1>3 DEF ParseRequest
    <2>2. Cleared("mtls")
      BY <1>3 DEF Cleared, FromMtls, FromCheck, Forwarding
    <2> QED BY <1>1, <2>1, <2>2, ContinueOk
  <1>4. CASE Decided(f)
    <2>1. Answer(r, f)
      BY <1>2, <1>4 DEF ParseRequest, Decided
    <2> QED BY <1>1, <1>4, <2>1, AnswerDecided
  <1> QED BY <1>1, <1>2, <1>3, <1>4, ParseDecides

(* What a request at one of these places has passed.                       *)
LEMMA ClearedAt ==
    ASSUME ProxyInv, NEW r \in Requests
    PROVE  ScenarioOk /\ ContextOk(req[r]) /\ Cleared(req[r].pc)
  BY DEF ProxyInv, ContextOk

LEMMA TenantOk == ASSUME ProxyInv, NEW r \in Requests, AuthorizeTenant(r) PROVE ProxyInv'
  <1>1. {"mtls", "rate"} \subseteq Entering /\ req[r].pc = "mtls" /\ "tenant_request" \in Budgets \ {"endpoint"}
    BY DEF Entering, AuthorizeTenant, Budgets
  <1>2. Lacks(Identified)
    BY <1>1, ClearedAt DEF Cleared, FromMtls
  <1>3. CASE "nocert" \in facts
    <2>1. Verdict = Refuse(403, "internal")
      BY <1>2, <1>3, VerdictIdentified DEF FromAuthorize
    <2>2. Answer(r, Fails("nocert", 403)) /\ Decided(Fails("nocert", 403))
      BY <1>3, <2>1 DEF AuthorizeTenant, Decided, Fails, Passed
    <2> QED BY <1>1, <2>2, AnswerDecided
  <1>4. CASE "nocert" \notin facts
    <2>1. Cleared("rate")
      BY <1>2, <1>4 DEF Cleared, FromMtls, FromCheck, Forwarding, Lacks
    <2>2. Acquire(r, "tenant_request", "rate") \/ Continue(r, "rate")
      BY <1>4 DEF AuthorizeTenant
    <2> QED BY <1>1, <2>1, <2>2, AcquireOk, ContinueOk
  <1> QED BY <1>3, <1>4

LEMMA RateOk == ASSUME ProxyInv, NEW r \in Requests, AuthorizeRate(r) PROVE ProxyInv'
  <1>1. {"rate", "token"} \subseteq Entering /\ req[r].pc = "rate" /\ "pre_auth" \in Budgets \ {"endpoint"}
    BY DEF Entering, AuthorizeRate, Budgets
  <1>2. Lacks(Identified) /\ "nocert" \notin facts
    BY <1>1, ClearedAt DEF Cleared, FromMtls, Lacks
  <1>3. CASE "tenantrate" \in facts \/ "rated" \in facts
    <2>1. Verdict = Refuse(429, "internal")
      BY <1>2, <1>3, VerdictIdentified DEF FromAuthorize
    <2>2. PICK fact \in {"tenantrate", "rated"} : Answer(r, Fails(fact, 429))
      BY <1>3 DEF AuthorizeRate
    <2>3. Decided(Fails(fact, 429))
      BY <2>1 DEF Decided, Fails, Passed
    <2> QED BY <1>1, <2>2, <2>3, AnswerDecided
  <1>4. CASE "tenantrate" \notin facts /\ "rated" \notin facts
    <2>1. Cleared("token")
      BY <1>2, <1>4 DEF Cleared, FromMtls, FromCheck, Forwarding, Lacks
    <2>2. Acquire(r, "pre_auth", "token") \/ Continue(r, "token")
      BY <1>4 DEF AuthorizeRate
    <2> QED BY <1>1, <2>1, <2>2, AcquireOk, ContinueOk
  <1> QED BY <1>3, <1>4

LEMMA TokenOk == ASSUME ProxyInv, NEW r \in Requests, AuthorizeToken(r) PROVE ProxyInv'
  <1>1. {"token", "external", "post"} \subseteq Entering /\ req[r].pc = "token"
        /\ "tenant_auth" \in Budgets \ {"endpoint"}
    BY DEF Entering, AuthorizeToken, Budgets
  <1>2. Lacks(Identified) /\ "nocert" \notin facts /\ "tenantrate" \notin facts /\ "rated" \notin facts
    BY <1>1, ClearedAt DEF Cleared, FromMtls, Lacks
  <1>3. CASE "badtoken" \in facts
    <2>1. Verdict = Refuse(401, "internal")
      BY <1>2, <1>3, VerdictIdentified DEF FromAuthorize
    <2>2. Answer(r, Fails("badtoken", 401)) /\ Decided(Fails("badtoken", 401))
      BY <1>3, <2>1 DEF AuthorizeToken, Decided, Fails, Passed
    <2> QED BY <1>1, <2>2, AnswerDecided
  <1>4. CASE "badtoken" \notin facts /\ ~External
    <2>1. "extdeny" \notin facts
      BY <1>4, Groups
    <2>2. Cleared("post")
      BY <1>2, <1>4, <2>1 DEF Cleared, FromMtls, FromCheck, Forwarding, Lacks
    <2>3. Continue(r, "post")
      BY <1>4 DEF AuthorizeToken
    <2> QED BY <1>1, <2>2, <2>3, ContinueOk
  <1>5. CASE "badtoken" \notin facts /\ External
    <2>1. Cleared("external")
      BY <1>2, <1>5 DEF Cleared, FromMtls, FromCheck, Forwarding, Lacks
    <2>2. Acquire(r, "tenant_auth", "external") \/ Continue(r, "external")
      BY <1>5 DEF AuthorizeToken
    <2> QED BY <1>1, <2>1, <2>2, AcquireOk, ContinueOk
  <1> QED BY <1>3, <1>4, <1>5

(* A context that goes on.                                                 *)
LEMMA GoesOn ==
    ASSUME NEW q \in Contexts, q.pc \notin Ended, ~q.finished, q.why = {}, Cleared(q.pc), Follows(q),
           External => q.header # "client", "endpoint" \in q.held => Lacks(Refusing)
    PROVE  ContextOk(q)
  BY DEF ContextOk, Evidence

LEMMA AnsweredIs ==
    ASSUME NEW q \in Contexts, NEW status \in Nat, NEW err \in {"none", "internal", "upstream"}, NEW a,
           a = Answered(q, status, err)
    PROVE  /\ a \in Contexts /\ a.pc = "respond" /\ a.status = status /\ a.err = err /\ a.held = q.held
           /\ a.execution = q.execution /\ a.backend = q.backend /\ a.upgrade = q.upgrade /\ a.header = q.header
           /\ a.finished = q.finished /\ a.why = q.why
  <1>1. "respond" \in PCs
    BY DEF PCs
  <1> QED BY <1>1 DEF Contexts, Answered

LEMMA ExternalOk == ASSUME ProxyInv, NEW r \in Requests, ExternalAnswers(r) PROVE ProxyInv'
  <1>1. PICK q : q = req[r] /\ ContextOk(q) /\ q.pc = "external"
    BY ClearedAt DEF ExternalAnswers
  <1>2. /\ q \in Contexts /\ q.why = {} /\ ~q.finished /\ (External => q.header # "client") /\ Cleared(q.pc)
        /\ ~q.backend /\ "endpoint" \notin q.held /\ ~q.execution /\ ~q.upgrade /\ q.err = "none"
    BY <1>1 DEF ContextOk, Follows, Kept, Evidence, Entering, Ended
  <1>3. Lacks(Identified) /\ "nocert" \notin facts /\ "tenantrate" \notin facts /\ "rated" \notin facts
        /\ "badtoken" \notin facts
    BY <1>1, <1>2 DEF Cleared, FromMtls, Lacks
  <1>4. PICK released : released = Released(q, {"tenant_auth"})
    OBVIOUS
  <1>5. /\ released \in Contexts /\ released.why = {} /\ released.finished = q.finished
        /\ released.header = q.header /\ "endpoint" \notin released.held
        /\ released.backend = q.backend /\ released.execution = q.execution /\ released.upgrade = q.upgrade
        /\ released.err = q.err
    BY <1>2, <1>4 DEF Contexts, Released
  <1>6. CASE "extdeny" \in facts
    <2>1. Verdict = Refuse(403, "internal")
      BY <1>3, <1>6, VerdictIdentified DEF FromAuthorize
    <2>2. PICK new : new = Answered(released, 403, "internal")
      OBVIOUS
    <2>4. new \in Contexts
      BY <1>5, <2>2, AnsweredIs
    <2>5. /\ new.pc = "respond" /\ new.status = 403 /\ new.err = "internal" /\ new.why = {} /\ ~new.finished
          /\ new.header = q.header /\ "endpoint" \notin new.held /\ ~new.backend /\ ~new.execution /\ ~new.upgrade
      BY <1>2, <1>5, <2>2, AnsweredIs
    <2>6. Verdict.status = 403 /\ Verdict.err = "internal" /\ ~Verdict.proxied /\ ~Verdict.hooked
      BY <2>1 DEF Refuse, Decide
    <2>7. ContextOk(new)
      BY <1>2, <2>4, <2>5, <2>6, Verdicted DEF Kept
    <2>8. Become(r, new)
      BY <1>1, <1>4, <1>6, <2>2 DEF ExternalAnswers
    <2> QED BY <2>5, <2>7, <2>8, OneChanges
  <1>7. CASE "extdeny" \notin facts
    <2>1. PICK new : new = [released EXCEPT !.pc = "post"]
      OBVIOUS
    <2>2. "post" \in PCs /\ "post" \in Entering
      BY DEF PCs, Entering
    <2>3. new \in Contexts
      BY <1>5, <2>1, <2>2 DEF Contexts
    <2>4. /\ new.pc = "post" /\ new.err = "none" /\ new.why = {} /\ new.finished = FALSE
          /\ new.header = q.header /\ "endpoint" \notin new.held /\ ~new.backend /\ ~new.execution /\ ~new.upgrade
      BY <1>2, <1>5, <2>1 DEF Contexts
    <2>5. Cleared("post")
      BY <1>3, <1>7 DEF Cleared, FromMtls, FromCheck, Forwarding, Lacks
    <2>6. Follows(new)
      BY <2>2, <2>4 DEF Follows, Kept, Forwarding, Answering, Ended
    <2>7. ContextOk(new)
      BY <1>2, <2>3, <2>4, <2>5, <2>6, GoesOn DEF Ended
    <2>8. Become(r, new)
      BY <1>1, <1>4, <1>7, <2>1 DEF ExternalAnswers
    <2> QED BY <2>4, <2>7, <2>8, OneChanges
  <1> QED BY <1>6, <1>7

LEMMA TrafficOk == ASSUME ProxyInv, NEW r \in Requests, AuthorizeTraffic(r) PROVE ProxyInv'
  <1>1. {"post", "check"} \subseteq Entering /\ req[r].pc = "post" /\ "post_auth" \in Budgets \ {"endpoint"}
    BY DEF Entering, AuthorizeTraffic, Budgets
  <1>2. Cleared("post")
    BY <1>1, ClearedAt
  <1>3. Cleared("check")
    BY <1>2 DEF Cleared, FromMtls, FromCheck, Forwarding
  <1>4. Acquire(r, "post_auth", "check") \/ Continue(r, "check")
    BY DEF AuthorizeTraffic
  <1> QED BY <1>1, <1>3, <1>4, AcquireOk, ContinueOk

(* A context that has come to dispatch.                                    *)
LEMMA Dispatched ==
    ASSUME ProxyInv, NEW r \in Requests, NEW new \in Contexts, Become(r, new), new.pc = "dispatch", new.why = {},
           ~new.finished, External => new.header # "client", Lacks(Refusing), new.backend <=> "plugproxy" \in facts,
           "endpoint" \notin new.held, new.err = "none", new.execution <=> Hooked, ~new.upgrade
    PROVE  ProxyInv'
  <1>1. Cleared("dispatch") /\ "dispatch" \notin Entering \cup Forwarding \cup Answering \cup Ended
    BY DEF Cleared, FromMtls, FromCheck, Forwarding, Entering, Answering, Ended
  <1>2. Follows(new)
    BY <1>1 DEF Follows
  <1>3. ContextOk(new)
    BY <1>1, <1>2, GoesOn
  <1> QED BY <1>3, OneChanges

LEMMA CheckOk == ASSUME ProxyInv, NEW r \in Requests, CheckRequest(r) PROVE ProxyInv'
  <1>1. {"check", "tenant_plugin"} \subseteq Entering /\ req[r].pc = "check" /\ ScenarioOk
    BY DEF Entering, CheckRequest, ProxyInv
  <1>2. Lacks(Authorized)
    <2>1. Cleared("check")
      BY <1>1, ClearedAt
    <2> QED BY <2>1 DEF Cleared, FromMtls, FromCheck, Lacks, Authorized, Metered
  <1>3. PICK f : f = FirstFailure(Check(r))
    OBVIOUS
  <1>4. CASE f = Passed /\ Lacks(Checked)
    <2>1. CASE Scripted
      <3>1. Continue(r, "tenant_plugin")
        BY <1>3, <1>4, <2>1 DEF CheckRequest
      <3>2. Cleared("tenant_plugin")
        BY <1>4 DEF Cleared, FromMtls, FromCheck, Forwarding, Lacks, Checked, Authorized, Metered
      <3> QED BY <1>1, <3>1, <3>2, ContinueOk
    <2>2. CASE ~Scripted
      <3>1. PICK q : q = req[r] /\ ContextOk(q) /\ q.pc = "check"
        BY <1>1, ClearedAt
      <3>2. /\ q \in Contexts /\ q.why = {} /\ ~q.finished /\ (External => q.header # "client")
            /\ ~q.backend /\ "endpoint" \notin q.held /\ ~q.execution /\ ~q.upgrade /\ q.err = "none"
        BY <3>1 DEF ContextOk, Follows, Kept, Evidence, Entering, Ended
      <3>3. PICK new : new = [q EXCEPT !.pc = "dispatch"]
        OBVIOUS
      <3>4. "dispatch" \in PCs
        BY DEF PCs
      <3>5. new \in Contexts
        BY <3>2, <3>3, <3>4 DEF Contexts
      <3>6. /\ new.pc = "dispatch" /\ new.err = "none" /\ new.why = {} /\ new.finished = FALSE
            /\ new.header = q.header /\ "endpoint" \notin new.held /\ ~new.backend /\ ~new.execution /\ ~new.upgrade
        BY <3>2, <3>3 DEF Contexts
      <3>7. \A g \in Plugins : g \notin facts
        BY <2>2, Groups
      <3>8. "plugproxy" \notin facts /\ ~Hooked
        BY <3>7, Groups DEF Plugins
      <3>9. Lacks(Refusing)
        BY <1>4, <3>7 DEF Lacks, Refusing, Checked, Authorized, Identified, Metered, Plugins
      <3>10. Become(r, new)
        BY <1>3, <1>4, <2>2, <3>1, <3>3 DEF CheckRequest, Continue
      <3> QED BY <3>2, <3>5, <3>6, <3>8, <3>9, <3>10, Dispatched
    <2> QED BY <2>1, <2>2
  <1>5. CASE Decided(f)
    <2>1. Answer(r, f)
      BY <1>3, <1>5 DEF CheckRequest, Decided
    <2> QED BY <1>1, <1>5, <2>1, AnswerDecided
  <1> QED BY <1>1, <1>2, <1>3, <1>4, <1>5, CheckDecides

-----------------------------------------------------------------------------
(* The plugin and the dispatch.                                            *)

LEMMA AcquirePluginOk == ASSUME ProxyInv, NEW r \in Requests, AcquirePlugin(r) PROVE ProxyInv'
  <1>1. /\ {"tenant_plugin", "plugin", "inspect"} \subseteq Entering
        /\ {"tenant_plugin", "plugins"} \subseteq Budgets \ {"endpoint"}
    BY DEF Entering, Budgets
  <1>2. req[r].pc \in {"tenant_plugin", "plugin"}
    BY DEF AcquirePlugin
  <1>3. Lacks(Checked)
    BY <1>2, ClearedAt DEF Cleared, FromCheck
  <1>4. Cleared("plugin") /\ Cleared("inspect")
    BY <1>3 DEF Cleared, FromMtls, FromCheck, Forwarding, Lacks, Checked, Authorized, Metered
  <1>5. \/ Acquire(r, "tenant_plugin", "plugin") \/ Continue(r, "plugin") \/ Acquire(r, "plugins", "inspect")
    BY DEF AcquirePlugin
  <1> QED BY <1>1, <1>2, <1>4, <1>5, AcquireOk, ContinueOk

LEMMA InspectOk == ASSUME ProxyInv, NEW r \in Requests, Inspect(r) PROVE ProxyInv'
  <1>1. {"inspect", "request_plugin"} \subseteq Entering /\ req[r].pc = "inspect"
    BY DEF Entering, Inspect
  <1>2. Lacks(Checked) /\ Verdict = FromPlugin
    BY <1>1, ClearedAt, VerdictChecked DEF Cleared, FromCheck
  <1>3. CASE "badinspect" \in facts
    <2>1. Answer(r, Fails("badinspect", 413)) /\ Decided(Fails("badinspect", 413))
      BY <1>2, <1>3 DEF Inspect, Decided, Fails, Passed, FromPlugin
    <2> QED BY <1>1, <2>1, AnswerDecided
  <1>4. CASE "badinspect" \notin facts /\ "slowbody" \in facts
    <2>1. Answer(r, Fails("slowbody", 408)) /\ Decided(Fails("slowbody", 408))
      BY <1>2, <1>4 DEF Inspect, Decided, Fails, Passed, FromPlugin
    <2> QED BY <1>1, <2>1, AnswerDecided
  <1>5. CASE "badinspect" \notin facts /\ "slowbody" \notin facts
    <2>1. Continue(r, "request_plugin")
      BY <1>5 DEF Inspect
    <2>2. Cleared("request_plugin")
      BY <1>2, <1>5 DEF Cleared, FromMtls, FromCheck, Forwarding, Lacks, Checked, Authorized, Metered
    <2> QED BY <1>1, <2>1, <2>2, ContinueOk
  <1> QED BY <1>3, <1>4, <1>5

LEMMA RequestPluginOk == ASSUME ProxyInv, NEW r \in Requests, RequestPlugin(r) PROVE ProxyInv'
  <1>1. PICK q : q = req[r] /\ ContextOk(q) /\ q.pc = "request_plugin"
    BY ClearedAt DEF RequestPlugin
  <1>2. /\ q \in Contexts /\ q.why = {} /\ ~q.finished /\ (External => q.header # "client") /\ Cleared(q.pc)
        /\ ~q.backend /\ "endpoint" \notin q.held /\ ~q.execution /\ ~q.upgrade /\ q.err = "none"
    BY <1>1 DEF ContextOk, Follows, Kept, Evidence, Entering, Ended
  <1>3. Lacks(Checked) /\ Verdict = FromPlugin /\ "badinspect" \notin facts /\ "slowbody" \notin facts
    BY <1>1, <1>2, VerdictChecked DEF Cleared, FromCheck, Lacks
  <1>4. Hooked \in BOOLEAN /\ ScenarioOk
    BY ClearedAt DEF Hooked, Has
  <1>5. PICK hooked \in BOOLEAN : hooked = Hooked
    BY <1>4
  <1>6. PICK kept : kept = [Released(q, IF Hooked THEN {} ELSE {"plugins", "tenant_plugin"}) EXCEPT !.execution = hooked]
    OBVIOUS
  <1>7. /\ kept \in Contexts /\ kept.why = {} /\ ~kept.finished /\ kept.header = q.header
        /\ ~kept.backend /\ "endpoint" \notin kept.held /\ kept.execution = hooked /\ ~kept.upgrade
        /\ kept.err = "none"
    <2>1. PICK budgets : budgets = IF Hooked THEN {} ELSE {"plugins", "tenant_plugin"}
      OBVIOUS
    <2>2. PICK freed : freed = Released(q, budgets)
      OBVIOUS
    <2>3. /\ freed \in Contexts /\ freed.why = {} /\ ~freed.finished /\ freed.header = q.header
          /\ ~freed.backend /\ "endpoint" \notin freed.held /\ ~freed.upgrade /\ freed.err = "none"
      BY <1>2, <2>2 DEF Released, Contexts
    <2>4. kept = [freed EXCEPT !.execution = hooked]
      BY <1>6, <2>1, <2>2
    <2> QED BY <2>3, <2>4 DEF Contexts
  <1>8. ASSUME NEW f \in Plugins, f \in facts, NEW g \in Plugins, g # f PROVE g \notin facts
    BY <1>4, <1>8, PluginFacts
  <1>9. ASSUME NEW status \in Nat, NEW err \in {"none", "internal"}, Verdict = Refuse(status, err), ~Hooked,
               Become(r, Answered(kept, status, err))
        PROVE  ProxyInv'
    <2>1. PICK new : new = Answered(kept, status, err)
      OBVIOUS
    <2>2. /\ new \in Contexts /\ new.pc = "respond" /\ new.status = status /\ new.err = err /\ new.held = kept.held
          /\ new.execution = hooked /\ ~new.backend /\ ~new.upgrade /\ new.header = q.header
          /\ ~new.finished /\ new.why = {}
      BY <1>7, <1>9, <2>1, AnsweredIs
    <2>3. Verdict.status = status /\ Verdict.err = err /\ ~Verdict.proxied /\ ~Verdict.hooked
      BY <1>9 DEF Refuse, Decide
    <2>4. ~new.execution
      BY <1>5, <1>9, <2>2
    <2>5. ContextOk(new)
      BY <1>2, <1>7, <2>2, <2>3, <2>4, Verdicted DEF Kept
    <2> QED BY <1>9, <2>1, <2>2, <2>5, OneChanges
  <1>10. ASSUME NEW backend \in BOOLEAN, backend <=> "plugproxy" \in facts,
                "plugfail" \notin facts, "plugbad" \notin facts, "plugreply" \notin facts,
                NEW new \in Contexts, Become(r, new), new.pc = "dispatch", new.backend = backend,
                new.why = {}, ~new.finished, new.header = q.header, "endpoint" \notin new.held,
                new.execution = hooked, ~new.upgrade, new.err = "none"
         PROVE  ProxyInv'
    <2>1. Lacks(Refusing)
      BY <1>3, <1>10 DEF Lacks, Refusing, Checked, Authorized, Identified, Metered
    <2> QED BY <1>2, <1>5, <1>10, <2>1, Dispatched
  <1>11. CASE "plugfail" \in facts /\ Answer(r, Fails("plugfail", 500))
    <2>1. Decided(Fails("plugfail", 500))
      BY <1>3, <1>11 DEF Decided, Fails, Passed, FromPlugin
    <2> QED BY <1>1, <1>11, <2>1, AnswerDecided DEF Entering
  <1>12. CASE "plugbad" \in facts /\ Become(r, Answered(kept, 500, "internal"))
    <2>1. "plugfail" \notin facts /\ "hook" \notin facts /\ "hookfail" \notin facts
      BY <1>8, <1>12 DEF Plugins
    <2>2. Verdict = Refuse(500, "internal") /\ ~Hooked
      BY <1>3, <1>12, <2>1, Groups DEF FromPlugin
    <2> QED BY <1>9, <1>12, <2>2
  <1>13. CASE "plugreply" \in facts /\ Become(r, Answered(kept, 200, "none"))
    <2>1. "plugfail" \notin facts /\ "plugbad" \notin facts /\ "hook" \notin facts /\ "hookfail" \notin facts
      BY <1>8, <1>13 DEF Plugins
    <2>2. Verdict = Refuse(200, "none") /\ ~Hooked
      BY <1>3, <1>13, <2>1, Groups DEF FromPlugin
    <2> QED BY <1>9, <1>13, <2>2
  <1>14. CASE "plugproxy" \in facts /\ Become(r, [kept EXCEPT !.pc = "dispatch", !.backend = TRUE])
    <2>1. "plugfail" \notin facts /\ "plugbad" \notin facts /\ "plugreply" \notin facts
      BY <1>8, <1>14 DEF Plugins
    <2>2. PICK new : new = [kept EXCEPT !.pc = "dispatch", !.backend = TRUE]
      OBVIOUS
    <2>3. "dispatch" \in PCs
      BY DEF PCs
    <2>4. /\ new \in Contexts /\ new.pc = "dispatch" /\ new.backend = TRUE /\ new.why = {} /\ ~new.finished
          /\ new.header = q.header /\ "endpoint" \notin new.held /\ new.execution = hooked /\ ~new.upgrade
          /\ new.err = "none"
      BY <1>7, <2>2, <2>3 DEF Contexts
    <2> QED BY <1>10, <1>14, <2>1, <2>2, <2>4
  <1>15. CASE Has({"script", "hook", "hookfail"}) /\ Become(r, [kept EXCEPT !.pc = "dispatch"])
    <2>1. "plugfail" \notin facts /\ "plugbad" \notin facts /\ "plugreply" \notin facts /\ "plugproxy" \notin facts
      BY <1>8, <1>15, HasIs DEF Plugins
    <2>2. PICK new : new = [kept EXCEPT !.pc = "dispatch"]
      OBVIOUS
    <2>3. "dispatch" \in PCs
      BY DEF PCs
    <2>4. /\ new \in Contexts /\ new.pc = "dispatch" /\ new.backend = FALSE /\ new.why = {} /\ ~new.finished
          /\ new.header = q.header /\ "endpoint" \notin new.held /\ new.execution = hooked /\ ~new.upgrade
          /\ new.err = "none"
      BY <1>7, <2>2, <2>3 DEF Contexts
    <2> QED BY <1>10, <1>15, <2>1, <2>2, <2>4
  <1> QED BY <1>1, <1>5, <1>6, <1>11, <1>12, <1>13, <1>14, <1>15 DEF RequestPlugin

(* A context that is to be proxied.                                        *)
LEMMA ProxiedOk ==
    ASSUME ProxyInv, NEW r \in Requests, req[r].pc \in {"plain", "dispatch"}, Lacks(Refusing),
           Verdict = FromUpstream, req[r].execution <=> Hooked,
           Become(r, [req[r] EXCEPT !.pc = "select", !.backend = TRUE])
    PROVE  ProxyInv'
  <1>1. PICK q : q = req[r] /\ ContextOk(q)
    BY ClearedAt
  <1>2. /\ q \in Contexts /\ q.why = {} /\ ~q.finished /\ (External => q.header # "client")
        /\ "endpoint" \notin q.held /\ ~q.upgrade /\ q.err = "none"
    BY <1>1 DEF ContextOk, Follows, Kept, Evidence, Entering, Ended
  <1>3. PICK new : new = [q EXCEPT !.pc = "select", !.backend = TRUE]
    OBVIOUS
  <1>4. "select" \in PCs
    BY DEF PCs
  <1>5. /\ new \in Contexts /\ new.pc = "select" /\ new.backend /\ new.why = {} /\ ~new.finished
        /\ new.header = q.header /\ "endpoint" \notin new.held /\ new.execution = q.execution /\ ~new.upgrade
        /\ new.err = "none"
    BY <1>2, <1>3, <1>4 DEF Contexts
  <1>6. Cleared("select") /\ "select" \notin Entering \cup Forwarding \cup Answering \cup Ended
    BY DEF Cleared, FromMtls, FromCheck, Forwarding, Entering, Answering, Ended
  <1>7. Follows(new)
    BY <1>1, <1>5, <1>6 DEF Follows
  <1>8. ContextOk(new)
    BY <1>2, <1>5, <1>6, <1>7, GoesOn
  <1> QED BY <1>1, <1>3, <1>5, <1>8, OneChanges

LEMMA PlainOk == ASSUME ProxyInv, NEW r \in Requests, PlainForward(r) PROVE ProxyInv'
  <1>1. req[r].pc = "plain" /\ "plain" \in Entering /\ PlainSelect
    BY ClearedAt DEF PlainForward, Entering, Cleared
  <1>2. /\ Lacks(Transports) /\ Lacks(Malformed) /\ Lacks(Plugins) /\ ~GatewayRoute
        /\ Lacks(GatewayFacts)
        /\ Lacks({"tenant", "tenantrate", "limited", "rated", "external", "extdeny", "rollout", "view", "denied",
                  "badtoken", "nocert", "https", "static", "filegone", "unavailable", "slash"})
    BY <1>1, PlainLacks
  <1>3. Lacks(Authorized)
    BY <1>2 DEF Lacks, Authorized, Identified, Metered, Malformed
  <1>4. CASE "large" \in facts
    <2>1. Verdict = Refuse(413, "internal")
      BY <1>2, <1>3, <1>4, VerdictAuthorized DEF FromCheckList, Lacks
    <2>2. Answer(r, Fails("large", 413)) /\ Decided(Fails("large", 413))
      BY <1>4, <2>1 DEF PlainForward, Decided, Fails, Passed
    <2> QED BY <1>1, <2>2, AnswerDecided
  <1>5. CASE "large" \notin facts
    <2>1. Lacks(Refusing)
      BY <1>2, <1>5 DEF Lacks, Refusing, Malformed, Plugins, Transports
    <2>2. Verdict = FromRoute /\ ~Hooked
      BY <1>2, <2>1, VerdictRouted, Groups DEF Lacks, Plugins
    <2>3. CASE "return" \in facts
      <3>1. Verdict = Local(200, "none")
        BY <1>2, <2>2, <2>3 DEF FromRoute, Lacks, Plugins, GatewayFacts
      <3>2. Hooked \in BOOLEAN
        BY DEF Hooked, Has
      <3>3. Verdict = Refuse(200, "none")
        BY <2>2, <3>1, <3>2 DEF Local, Refuse, Decide
      <3>4. Answer(r, Replies("return", 200)) /\ Decided(Replies("return", 200))
        BY <1>5, <2>3, <3>3 DEF PlainForward, Decided, Replies, Passed
      <3> QED BY <1>1, <3>4, AnswerDecided
    <2>4. CASE "return" \notin facts
      <3>1. Verdict = FromUpstream
        BY <1>2, <2>2, <2>4 DEF FromRoute, Lacks, Plugins, GatewayFacts
      <3>2. ~req[r].execution
        BY <1>1, ClearedAt DEF ContextOk, Follows, Entering
      <3>3. Become(r, [req[r] EXCEPT !.pc = "select", !.backend = TRUE])
        BY <1>5, <2>4 DEF PlainForward
      <3> QED BY <1>1, <2>1, <2>2, <3>1, <3>2, <3>3, ProxiedOk
    <2> QED BY <2>3, <2>4
  <1> QED BY <1>4, <1>5

LEMMA DispatchOk == ASSUME ProxyInv, NEW r \in Requests, Dispatch(r) PROVE ProxyInv'
  <1>1. /\ req[r].pc = "dispatch" /\ Lacks(Refusing) /\ (req[r].backend <=> "plugproxy" \in facts)
        /\ (req[r].execution <=> Hooked) /\ req[r].why = {} /\ req[r] \in Contexts /\ "endpoint" \notin req[r].held
        /\ req[r].err = "none" /\ ~req[r].upgrade /\ ~req[r].finished /\ (External => req[r].header # "client")
    BY ClearedAt DEF Dispatch, ContextOk, Cleared, Follows, Evidence, Ended
  <1>2. Verdict = FromRoute
    BY <1>1, VerdictRouted
  <1>3. ASSUME Verdict = FromUpstream, Become(r, [req[r] EXCEPT !.pc = "select", !.backend = TRUE]) PROVE ProxyInv'
    BY <1>1, <1>3, ProxiedOk
  <1>4. ASSUME NEW status \in Nat, NEW err \in {"none", "internal"}, ~req[r].backend, Verdict = Local(status, err),
               Become(r, Answered(req[r], status, err))
        PROVE  ProxyInv'
    BY <1>1, <1>4, LocalOk
  <1>5. CASE req[r].backend
    BY <1>1, <1>2, <1>3, <1>5 DEF Dispatch, FromRoute
  <1>6. CASE ~req[r].backend /\ "gwredirect" \in facts
    <2>1. Verdict = Local(302, "none")
      BY <1>1, <1>2, <1>6 DEF FromRoute
    <2>2. Become(r, Answered(req[r], 302, "none"))
      BY <1>6 DEF Dispatch, Answer, Replies
    <2> QED BY <1>4, <1>6, <2>1, <2>2
  <1>7. CASE ~req[r].backend /\ "gwredirect" \notin facts /\ "gwmissing" \in facts /\ "rollout" \notin facts
    <2>1. Verdict = Local(500, "internal")
      BY <1>1, <1>2, <1>7 DEF FromRoute
    <2>2. Become(r, Answered(req[r], 500, "internal"))
      BY <1>7 DEF Dispatch, Answer, Fails
    <2> QED BY <1>4, <1>7, <2>1, <2>2
  <1>8. CASE ~req[r].backend /\ "gwredirect" \notin facts /\ ~("gwmissing" \in facts /\ "rollout" \notin facts)
    <2>1. CASE GatewayRoute
      BY <1>1, <1>2, <1>3, <1>8, <2>1 DEF Dispatch, FromRoute
    <2>2. CASE ~GatewayRoute /\ "return" \in facts
      <3>1. Verdict = Local(200, "none")
        BY <1>1, <1>2, <1>8, <2>2 DEF FromRoute
      <3>2. Become(r, Answered(req[r], 200, "none"))
        BY <1>8, <2>2 DEF Dispatch, Answer, Replies
      <3> QED BY <1>4, <1>8, <3>1, <3>2
    <2>3. CASE ~GatewayRoute /\ "return" \notin facts /\ "unavailable" \in facts
      <3>1. Verdict = Local(503, "internal")
        BY <1>1, <1>2, <1>8, <2>3 DEF FromRoute
      <3>2. Become(r, Answered(req[r], 503, "internal"))
        BY <1>8, <2>3 DEF Dispatch, Answer, Fails
      <3> QED BY <1>4, <1>8, <3>1, <3>2
    <2>4. CASE ~GatewayRoute /\ "return" \notin facts /\ "unavailable" \notin facts /\ Has({"static", "filegone"})
      <3>1. "static" \in facts \/ "filegone" \in facts
        BY <2>4, HasIs
      <3>2. Verdict = Local(IF "filegone" \in facts THEN 404 ELSE 200, "none")
        BY <1>1, <1>2, <1>8, <2>4, <3>1 DEF FromRoute
      <3>3. PICK q : q = req[r]
        OBVIOUS
      <3>4. PICK new : new = [q EXCEPT !.pc = "file"]
        OBVIOUS
      <3>5. "file" \in PCs
        BY DEF PCs
      <3>6. /\ new \in Contexts /\ new.pc = "file" /\ ~new.backend /\ new.why = {} /\ ~new.finished
            /\ new.header = q.header /\ "endpoint" \notin new.held /\ new.execution = q.execution /\ ~new.upgrade
            /\ new.err = "none"
        BY <1>1, <1>8, <3>3, <3>4, <3>5 DEF Contexts
      <3>7. Cleared("file") /\ "file" \notin Entering \cup Forwarding \cup Answering \cup Ended
        BY <1>1 DEF Cleared, FromMtls, FromCheck, Forwarding, Entering, Answering, Ended
      <3>8. Follows(new)
        BY <1>1, <3>2, <3>3, <3>6, <3>7 DEF Follows, Kept
      <3>9. ContextOk(new)
        BY <1>1, <3>3, <3>6, <3>7, <3>8, GoesOn
      <3>10. Become(r, new)
        BY <1>8, <2>4, <3>3, <3>4 DEF Dispatch, Continue
      <3> QED BY <3>6, <3>9, <3>10, OneChanges
    <2>5. CASE ~GatewayRoute /\ "return" \notin facts /\ "unavailable" \notin facts /\ ~Has({"static", "filegone"})
      <3>1. "static" \notin facts /\ "filegone" \notin facts
        BY <2>5, HasIs
      <3>2. Verdict = FromUpstream
        BY <1>1, <1>2, <1>8, <2>5, <3>1 DEF FromRoute
      <3>3. Become(r, [req[r] EXCEPT !.pc = "select", !.backend = TRUE])
        BY <1>8, <2>5 DEF Dispatch
      <3> QED BY <1>3, <3>2, <3>3
    <2> QED BY <2>1, <2>2, <2>3, <2>4, <2>5
  <1> QED BY <1>5, <1>6, <1>7, <1>8

LEMMA FileOk == ASSUME ProxyInv, NEW r \in Requests, ServeFile(r) PROVE ProxyInv'
  <1>1. req[r].pc = "file" /\ ~req[r].backend /\ Verdict = Local(IF "filegone" \in facts THEN 404 ELSE 200, "none")
    BY ClearedAt DEF ServeFile, ContextOk, Follows, Kept
  <1>2. PICK status \in {200, 404} : status = IF "filegone" \in facts THEN 404 ELSE 200
    OBVIOUS
  <1>3. Become(r, Answered(req[r], status, "none"))
    BY <1>2 DEF ServeFile, Answer, Replies
  <1> QED BY <1>1, <1>2, <1>3, LocalOk

-----------------------------------------------------------------------------
(* At the endpoint.                                                        *)

LEMMA ForwardIs ==
    ASSUME NEW q \in Contexts, q.pc \in Forwarding, q.why = {}, ~q.finished, External => q.header # "client",
           Lacks(Refusing), q.backend, "endpoint" \in q.held, q.err = "none", q.execution <=> Hooked, ~q.upgrade,
           Verdict = FromUpstream, q.pc = "connect" <=> "tunnel" \in facts
    PROVE  ContextOk(q)
  <1>1. Cleared(q.pc) /\ q.pc \notin {"dispatch", "file", "select", "respond"} \cup Entering \cup Answering \cup Ended
    BY DEF Cleared, FromMtls, FromCheck, Forwarding, Entering, Answering, Ended
  <1>2. Follows(q)
    BY <1>1 DEF Follows, Proxied
  <1> QED BY <1>1, <1>2, GoesOn

LEMMA AtForward ==
    ASSUME NEW q, ContextOk(q), q.pc \in Forwarding
    PROVE  /\ q \in Contexts /\ q.why = {} /\ ~q.finished /\ (External => q.header # "client") /\ Lacks(Refusing)
           /\ q.backend /\ "endpoint" \in q.held /\ q.err = "none" /\ (q.execution <=> Hooked) /\ ~q.upgrade
           /\ Verdict = FromUpstream /\ (q.pc = "connect" <=> "tunnel" \in facts)
  BY DEF ContextOk, Follows, Proxied, Evidence, Cleared, Forwarding, Ended

LEMMA SelectOk == ASSUME ProxyInv, NEW r \in Requests, SelectEndpoint(r) PROVE ProxyInv'
  <1>1. PICK next : next = IF "tunnel" \in facts THEN "connect" ELSE "headers"
    OBVIOUS
  <1>2. req[r].pc = "select" /\ Acquire(r, "endpoint", next)
    BY <1>1 DEF SelectEndpoint
  <1>3. CASE ~Free(r, "endpoint")
    BY <1>2, <1>3, ShedOk DEF Acquire, Early
  <1>4. CASE Free(r, "endpoint")
    <2>1. PICK q : q = req[r] /\ ContextOk(q) /\ q.pc = "select"
      BY <1>2, ClearedAt
    <2>2. /\ q \in Contexts /\ q.why = {} /\ ~q.finished /\ (External => q.header # "client") /\ Lacks(Refusing)
          /\ q.backend /\ q.err = "none" /\ (q.execution <=> Hooked) /\ ~q.upgrade /\ Verdict = FromUpstream
      BY <2>1 DEF ContextOk, Follows, Evidence, Cleared, Ended
    <2>3. PICK held : held = q.held \cup {"endpoint"}
      OBVIOUS
    <2>4. PICK new : new = [q EXCEPT !.held = held, !.pc = next]
      OBVIOUS
    <2>5. next \in Forwarding /\ next \in PCs /\ (next = "connect" <=> "tunnel" \in facts)
      BY <1>1 DEF Forwarding, PCs
    <2>6. held \in SUBSET Budgets
      BY <2>2, <2>3 DEF Contexts, Budgets
    <2>7. /\ new \in Contexts /\ new.pc = next /\ new.why = {} /\ ~new.finished /\ new.header = q.header
          /\ new.backend /\ new.held = held /\ new.err = "none" /\ new.execution = q.execution /\ ~new.upgrade
      BY <2>2, <2>4, <2>5, <2>6 DEF Contexts
    <2>8. ContextOk(new)
      BY <2>2, <2>3, <2>5, <2>7, ForwardIs
    <2>9. Become(r, new) /\ new.pc # "queued"
      BY <1>2, <1>4, <2>1, <2>3, <2>4, <2>5, <2>7 DEF Acquire, Forwarding
    <2> QED BY <2>8, <2>9, OneChanges
  <1> QED BY <1>3, <1>4

LEMMA TunnelOk == ASSUME ProxyInv, NEW r \in Requests, ConnectTunnel(r) PROVE ProxyInv'
  <1>1. PICK q : q = req[r] /\ ContextOk(q) /\ q.pc = "connect" /\ q.pc \in Forwarding
    BY ClearedAt DEF ConnectTunnel, Forwarding
  <1>2. /\ q \in Contexts /\ q.why = {} /\ ~q.finished /\ (External => q.header # "client") /\ Lacks(Refusing)
        /\ q.backend /\ "endpoint" \in q.held /\ q.err = "none" /\ (q.execution <=> Hooked) /\ ~q.upgrade
        /\ Verdict = FromUpstream /\ "tunnel" \in facts
    BY <1>1, AtForward
  <1>3. CASE Become(r, Answered([q EXCEPT !.upgrade = TRUE], 200, "none"))
    <2>1. PICK raised : raised = [q EXCEPT !.upgrade = TRUE]
      OBVIOUS
    <2>2. /\ raised \in Contexts /\ raised.upgrade = TRUE /\ raised.held = q.held /\ raised.backend = q.backend
          /\ raised.execution = q.execution /\ raised.header = q.header /\ raised.finished = q.finished
          /\ raised.why = q.why
      BY <1>2, <2>1 DEF Contexts
    <2>3. PICK new : new = Answered(raised, 200, "none")
      OBVIOUS
    <2>4. /\ new \in Contexts /\ new.pc = "respond" /\ new.status = 200 /\ new.err = "none" /\ new.held = q.held
          /\ new.execution = q.execution /\ new.backend /\ new.upgrade /\ new.header = q.header
          /\ ~new.finished /\ new.why = {}
      <3>1. /\ new \in Contexts /\ new.pc = "respond" /\ new.status = 200 /\ new.err = "none"
            /\ new.held = raised.held /\ new.execution = raised.execution /\ new.backend = raised.backend
            /\ new.upgrade = raised.upgrade /\ new.header = raised.header /\ new.finished = raised.finished
            /\ new.why = raised.why
        BY <2>2, <2>3, AnsweredIs
      <3> QED BY <1>2, <2>2, <3>1
    <2>5. Verdict.status = 200 /\ Verdict.err = "none" /\ Verdict.proxied /\ (Verdict.hooked <=> Hooked)
      BY <1>2 DEF FromUpstream, Decide
    <2>6. ContextOk(new)
      BY <1>2, <2>4, <2>5, Verdicted DEF Proxied
    <2> QED BY <1>3, <2>1, <2>3, <2>4, <2>6, OneChanges
  <1>4. ASSUME NEW status \in {403, 502, 504}, Become(r, Answered(Marked(q, "refused"), status, "internal"))
        PROVE  ProxyInv'
    <2>1. Released(Marked(q, "refused"), {}) = Marked(q, "refused")
      BY <1>2, MarkedIs, ReleasesNothing
    <2>2. Become(r, Answered(Released(Marked(req[r], "refused"), {}), status, "internal"))
      BY <1>1, <1>4, <2>1
    <2> QED BY <1>1, <2>2, ExcuseOk
  <1> QED BY <1>1, <1>3, <1>4 DEF ConnectTunnel

LEMMA HeadersOk == ASSUME ProxyInv, NEW r \in Requests, ForwardHeaders(r) PROVE ProxyInv'
  <1>1. PICK q : q = req[r] /\ ContextOk(q) /\ q.pc = "headers" /\ q.pc \in Forwarding
    BY ClearedAt DEF ForwardHeaders, Forwarding
  <1>2. /\ q \in Contexts /\ q.why = {} /\ ~q.finished /\ (External => q.header # "client") /\ Lacks(Refusing)
        /\ q.backend /\ "endpoint" \in q.held /\ q.err = "none" /\ (q.execution <=> Hooked) /\ ~q.upgrade
        /\ Verdict = FromUpstream /\ "tunnel" \notin facts
    BY <1>1, AtForward
  <1>3. PICK header : header = UpstreamHeader(r)
    OBVIOUS
  <1>4. header \in {"client", "route", "auth", "plugin"} /\ (External => header # "client")
    BY <1>3 DEF UpstreamHeader, Edited, RouteHeader
  <1>5. PICK next \in {"mirror", "upstream"} : next = IF "mirror" \in facts THEN "mirror" ELSE "upstream"
    OBVIOUS
  <1>6. next \in Forwarding /\ next \in PCs /\ next # "connect"
    BY DEF Forwarding, PCs
  <1>7. PICK new : new = [q EXCEPT !.header = header, !.pc = next]
    OBVIOUS
  <1>8. /\ new \in Contexts /\ new.pc = next /\ new.why = {} /\ ~new.finished /\ new.header = header
        /\ new.backend /\ new.held = q.held /\ new.err = "none" /\ new.execution = q.execution /\ ~new.upgrade
    BY <1>2, <1>4, <1>6, <1>7 DEF Contexts
  <1>9. ContextOk(new)
    BY <1>2, <1>4, <1>6, <1>8, ForwardIs
  <1>10. Become(r, new)
    BY <1>1, <1>3, <1>5, <1>7 DEF ForwardHeaders
  <1> QED BY <1>5, <1>8, <1>9, <1>10, OneChanges

LEMMA PrepareMirrorOk == ASSUME ProxyInv, NEW r \in Requests, PrepareMirror(r) PROVE ProxyInv'
  <1>1. PICK q : q = req[r] /\ ContextOk(q) /\ q.pc = "mirror" /\ q.pc \in Forwarding
    BY ClearedAt DEF PrepareMirror, Forwarding
  <1>2. /\ q \in Contexts /\ q.why = {} /\ ~q.finished /\ (External => q.header # "client") /\ Lacks(Refusing)
        /\ q.backend /\ "endpoint" \in q.held /\ q.err = "none" /\ (q.execution <=> Hooked) /\ ~q.upgrade
        /\ Verdict = FromUpstream /\ "tunnel" \notin facts
    BY <1>1, AtForward
  <1>3. "upstream" \in Forwarding /\ "upstream" \in PCs
    BY DEF Forwarding, PCs
  <1>4. PICK wanted : wanted = {"mirrors"} \cup IF Tenanted THEN {"tenant_mirror"} ELSE {}
    OBVIOUS
  <1>5. wanted \in SUBSET MirrorBudgets
    BY <1>4 DEF MirrorBudgets
  <1>6. CASE Become(r, [q EXCEPT !.pc = "upstream"])
    <2>1. PICK new : new = [q EXCEPT !.pc = "upstream"]
      OBVIOUS
    <2>2. /\ new \in Contexts /\ new.pc = "upstream" /\ new.why = {} /\ ~new.finished /\ new.header = q.header
          /\ new.backend /\ new.held = q.held /\ new.err = "none" /\ new.execution = q.execution /\ ~new.upgrade
      BY <1>2, <1>3, <2>1 DEF Contexts
    <2>3. ContextOk(new)
      BY <1>2, <1>3, <2>2, ForwardIs
    <2> QED BY <1>6, <2>1, <2>2, <2>3, OneChanges
  <1>7. CASE Become(r, [q EXCEPT !.pc = "upstream", !.mirror = "buffered", !.mirrorHeld = wanted])
    <2>1. PICK new : new = [q EXCEPT !.pc = "upstream", !.mirror = "buffered", !.mirrorHeld = wanted]
      OBVIOUS
    <2>2. /\ new \in Contexts /\ new.pc = "upstream" /\ new.why = {} /\ ~new.finished /\ new.header = q.header
          /\ new.backend /\ new.held = q.held /\ new.err = "none" /\ new.execution = q.execution /\ ~new.upgrade
      BY <1>2, <1>3, <1>5, <2>1 DEF Contexts
    <2>3. ContextOk(new)
      BY <1>2, <1>3, <2>2, ForwardIs
    <2> QED BY <1>7, <2>1, <2>2, <2>3, OneChanges
  <1> QED BY <1>1, <1>4, <1>6, <1>7 DEF PrepareMirror, Continue

LEMMA UpstreamOk == ASSUME ProxyInv, NEW r \in Requests, UpstreamAnswers(r) PROVE ProxyInv'
  <1>1. PICK q : q = req[r] /\ ContextOk(q) /\ q.pc = "upstream" /\ q.pc \in Forwarding
    BY ClearedAt DEF UpstreamAnswers, Forwarding
  <1>2. /\ q \in Contexts /\ q.why = {} /\ ~q.finished /\ (External => q.header # "client") /\ Lacks(Refusing)
        /\ q.backend /\ "endpoint" \in q.held /\ q.err = "none" /\ (q.execution <=> Hooked) /\ ~q.upgrade
        /\ Verdict = FromUpstream /\ "tunnel" \notin facts
    BY <1>1, AtForward
  <1>3. PICK status \in Nat, err \in {"none", "internal", "upstream"} :
            Verdict = Decide(status, err, TRUE, Hooked) /\ Become(r, Answered(q, status, err))
    <2>1. CASE "upfail" \in facts
      <3>1. Verdict = Decide(502, "upstream", TRUE, Hooked)
        BY <1>2, <2>1 DEF FromUpstream
      <3>2. Become(r, Answered(q, 502, "upstream"))
        BY <1>1, <2>1 DEF UpstreamAnswers
      <3>3. 502 \in Nat /\ "upstream" \in {"none", "internal", "upstream"}
        OBVIOUS
      <3> QED BY <3>1, <3>2, <3>3, Zenon
    <2>2. CASE "upfail" \notin facts /\ "uptimeout" \in facts
      <3>1. Verdict = Decide(504, "upstream", TRUE, Hooked)
        BY <1>2, <2>2 DEF FromUpstream
      <3>2. Become(r, Answered(q, 504, "upstream"))
        BY <1>1, <2>2 DEF UpstreamAnswers
      <3>3. 504 \in Nat /\ "upstream" \in {"none", "internal", "upstream"}
        OBVIOUS
      <3> QED BY <3>1, <3>2, <3>3, Zenon
    <2>3. CASE "upfail" \notin facts /\ "uptimeout" \notin facts /\ "toolarge" \in facts
      <3>1. Verdict = Decide(413, "internal", TRUE, Hooked)
        BY <1>2, <2>3 DEF FromUpstream
      <3>2. Become(r, Answered(q, 413, "internal"))
        BY <1>1, <2>3 DEF UpstreamAnswers
      <3>3. 413 \in Nat /\ "internal" \in {"none", "internal", "upstream"}
        OBVIOUS
      <3> QED BY <3>1, <3>2, <3>3, Zenon
    <2>4. CASE "upfail" \notin facts /\ "uptimeout" \notin facts /\ "toolarge" \notin facts /\ "up5xx" \in facts
      <3>1. Verdict = Decide(500, "none", TRUE, Hooked)
        BY <1>2, <2>4 DEF FromUpstream
      <3>2. Become(r, Answered(q, 500, "none"))
        BY <1>1, <2>4 DEF UpstreamAnswers
      <3>3. 500 \in Nat /\ "none" \in {"none", "internal", "upstream"}
        OBVIOUS
      <3> QED BY <3>1, <3>2, <3>3, Zenon
    <2>5. CASE "upfail" \notin facts /\ "uptimeout" \notin facts /\ "toolarge" \notin facts /\ "up5xx" \notin facts
      <3>1. Verdict = Decide(200, "none", TRUE, Hooked)
        BY <1>2, <2>5 DEF FromUpstream
      <3>2. Become(r, Answered(q, 200, "none"))
        BY <1>1, <2>5 DEF UpstreamAnswers
      <3>3. 200 \in Nat /\ "none" \in {"none", "internal", "upstream"}
        OBVIOUS
      <3> QED BY <3>1, <3>2, <3>3, Zenon
    <2> QED BY <2>1, <2>2, <2>3, <2>4, <2>5
  <1>4. PICK new : new = Answered(q, status, err)
    OBVIOUS
  <1>5. /\ new \in Contexts /\ new.pc = "respond" /\ new.status = status /\ new.err = err /\ new.held = q.held
        /\ new.execution = q.execution /\ new.backend = q.backend /\ new.upgrade = q.upgrade /\ new.header = q.header
        /\ new.finished = q.finished /\ new.why = q.why
    <2>1. q \in Contexts /\ status \in Nat /\ err \in {"none", "internal", "upstream"}
      BY <1>2, <1>3
    <2> QED BY <1>4, <2>1, AnsweredIs
  <1>6. Verdict.status = status /\ Verdict.err = err /\ Verdict.proxied /\ (Verdict.hooked <=> Hooked)
    BY <1>3 DEF Decide
  <1>7. ContextOk(new)
    BY <1>2, <1>5, <1>6, Verdicted DEF Proxied
  <1> QED BY <1>3, <1>4, <1>5, <1>7, OneChanges

-----------------------------------------------------------------------------
(* The copy of a request does not touch its context otherwise.             *)

LEMMA MirrorAside ==
    ASSUME NEW q, ContextOk(q), NEW mirror \in {"none", "sending"}, NEW budgets \in SUBSET MirrorBudgets, NEW new,
           new = [q EXCEPT !.mirror = mirror, !.mirrorHeld = budgets]
    PROVE  ContextOk(new) /\ new.pc = q.pc
  <1>1. q \in Contexts
    BY DEF ContextOk
  <1>2. /\ new \in Contexts /\ new.pc = q.pc /\ new.status = q.status /\ new.err = q.err /\ new.held = q.held
        /\ new.execution = q.execution /\ new.backend = q.backend /\ new.upgrade = q.upgrade
        /\ new.header = q.header /\ new.finished = q.finished /\ new.health = q.health /\ new.sample = q.sample
        /\ new.why = q.why
    BY <1>1 DEF Contexts
  <1>3. Evidence(q) => Evidence(new)
    BY <1>2 DEF Evidence
  <1>4. Follows(q) => Follows(new)
    BY <1>2 DEF Follows, Kept, Proxied
  <1> QED BY <1>2, <1>3, <1>4 DEF ContextOk

LEMMA MirroringOk == ASSUME ProxyInv, NEW r \in Requests, Mirroring(r) PROVE ProxyInv'
  <1>1. PICK q : q = req[r] /\ ContextOk(q)
    BY ClearedAt
  <1>2. q \in Contexts /\ q.mirrorHeld \in SUBSET MirrorBudgets
    BY <1>1 DEF ContextOk, Contexts
  <1>3. [q EXCEPT !.mirror = "sending"] = [q EXCEPT !.mirror = "sending", !.mirrorHeld = q.mirrorHeld]
    BY <1>2 DEF Contexts
  <1>4. PICK mirror \in {"none", "sending"}, budgets \in SUBSET MirrorBudgets :
            Become(r, [q EXCEPT !.mirror = mirror, !.mirrorHeld = budgets])
    <2>1. CASE Become(r, [q EXCEPT !.mirror = "sending"])
      BY <1>2, <1>3, <2>1
    <2>2. CASE Become(r, [q EXCEPT !.mirror = "none", !.mirrorHeld = {}])
      BY <2>2
    <2> QED BY <1>1, <2>1, <2>2 DEF Mirroring, FeedMirror, MirrorEnds
  <1>5. PICK new : new = [q EXCEPT !.mirror = mirror, !.mirrorHeld = budgets]
    OBVIOUS
  <1>6. ContextOk(new) /\ new.pc = q.pc
    BY <1>1, <1>4, <1>5, MirrorAside
  <1>7. new.pc = "queued" => transport[ConnectionOf(r)] # "failed"
    BY <1>1, <1>6 DEF ProxyInv, TransportOk, NothingStranded
  <1> QED BY <1>4, <1>5, <1>6, <1>7, OneChanges

-----------------------------------------------------------------------------
(* The end of serve.                                                       *)

LEMMA PrepareOk == ASSUME ProxyInv, NEW r \in Requests, PrepareResponse(r) PROVE ProxyInv'
  <1>1. PICK q : q = req[r] /\ ContextOk(q) /\ q.pc = "respond"
    BY ClearedAt DEF PrepareResponse
  <1>2. /\ q \in Contexts /\ ~q.finished /\ "cancelled" \notin q.why /\ (External => q.header # "client")
        /\ ("endpoint" \in q.held => Lacks(Refusing))
    BY <1>1, Unfinished
  <1>3. q.why = {} => Follows(q)
    BY <1>1 DEF ContextOk
  <1> DEFINE refused == "tunnel" \in facts /\ q.status = 200 /\ ~q.upgrade
             fails == q.execution /\ "hookfail" \in facts
  <1>4. PICK pc \in {"tunnel", "stream"} : pc = IF q.upgrade /\ ~fails THEN "tunnel" ELSE "stream"
    OBVIOUS
  <1>5. PICK status : status = IF fails THEN 500 ELSE IF refused THEN 502 ELSE q.status
    OBVIOUS
  <1>6. PICK err : err = IF refused \/ (fails /\ ~KeepsError(r)) THEN "internal" ELSE q.err
    OBVIOUS
  <1>7. status \in Nat /\ err \in {"none", "internal", "upstream", "downstream"} /\ pc \in PCs
    BY <1>2, <1>5, <1>6 DEF Contexts, PCs, Answering
  <1>8. PICK budgets : budgets = IF q.execution THEN {"plugins", "tenant_plugin"} ELSE {}
    OBVIOUS
  <1>9. PICK freed : freed = [Released(q, budgets) EXCEPT !.execution = FALSE]
    OBVIOUS
  <1>10. /\ freed \in Contexts /\ freed.backend = q.backend /\ freed.finished = q.finished
         /\ freed.why = q.why /\ freed.header = q.header /\ freed.held = q.held \ budgets
    BY <1>2, <1>9 DEF Released, Contexts
  <1>11. PICK new : new = [freed EXCEPT !.pc = pc, !.status = status, !.err = err]
    OBVIOUS
  <1>12. /\ new \in Contexts /\ new.pc = pc /\ new.status = status /\ new.err = err
         /\ new.backend = q.backend /\ new.finished = q.finished /\ new.why = q.why /\ new.header = q.header
         /\ new.held = q.held \ budgets
    BY <1>7, <1>10, <1>11 DEF Contexts
  <1>13. Become(r, new)
    BY <1>1, <1>4, <1>5, <1>6, <1>8, <1>9, <1>11 DEF PrepareResponse, ResponseHeaders, HookFails
  <1>14. "endpoint" \in new.held <=> "endpoint" \in q.held
    BY <1>8, <1>12
  <1>15. ASSUME q.why = {} PROVE Follows(new)
    <2>1. /\ q.status = Verdict.status /\ q.err = Verdict.err /\ (q.execution <=> Verdict.hooked)
          /\ (q.upgrade <=> (Verdict.proxied /\ "tunnel" \in facts))
          /\ IF Verdict.proxied THEN Proxied(q) ELSE Kept(q)
      BY <1>1, <1>3, <1>15 DEF Follows
    <2>2. Verdict.status \in Nat \ {0}
      BY VerdictType DEF Decisions
    <2>3. refused <=> Declined
      BY <2>1 DEF Declined
    <2>4. status = FinalStatus /\ status # 0
      BY <1>5, <2>1, <2>2, <2>3 DEF FinalStatus
    <2>5. "hookfail" \notin facts => err = SentErr
      BY <1>6, <2>1, <2>3 DEF SentErr
    <2>6. IF Verdict.proxied THEN Proxied(new) ELSE Kept(new)
      BY <1>12, <1>14, <2>1 DEF Proxied, Kept
    <2>7. "hookfail" \notin facts => ((pc = "tunnel") <=> (Verdict.proxied /\ "tunnel" \in facts))
      BY <1>4, <2>1
    <2>8. pc \in Answering /\ pc \notin Entering \cup {"dispatch", "file", "select", "respond", "queued"} \cup Forwarding
                                        \cup Ended
      BY DEF Answering, Entering, Forwarding, Ended
    <2> QED BY <1>12, <2>4, <2>5, <2>6, <2>7, <2>8 DEF Follows
  <1>16. Cleared(pc) /\ pc \notin Early \cup Forwarding \cup Ended
    BY DEF Cleared, FromMtls, FromCheck, Forwarding, Early, Entering, Ended
  <1>17. Evidence(new)
    BY <1>2, <1>12, <1>16 DEF Evidence
  <1>18. ContextOk(new)
    BY <1>2, <1>12, <1>14, <1>15, <1>16, <1>17 DEF ContextOk, Early
  <1> QED BY <1>12, <1>13, <1>18, OneChanges

-----------------------------------------------------------------------------
(* Completion.                                                             *)

ErrEnded(q, delivered) == IF ~delivered /\ q.err = "none" THEN "downstream" ELSE q.err
StatusEnded(q) == IF q.status = 0 THEN 499 ELSE q.status

LEMMA FinishIs ==
    ASSUME NEW q \in Contexts, ~q.finished, NEW delivered \in BOOLEAN, NEW a, a = Finish(q, delivered),
           NEW err, err = ErrEnded(q, delivered), NEW status, status = StatusEnded(q)
    PROVE  /\ a \in Contexts /\ a.pc = "finished" /\ a.finished /\ a.err = err /\ a.status = status
           /\ a.held = q.held /\ a.header = q.header /\ a.why = q.why
           /\ a.health = IF "endpoint" \notin q.held \/ err \notin {"none", "upstream"} THEN "none"
                         ELSE IF err = "none" THEN "ok" ELSE "fail"
           /\ a.sample = IF "rollout" \notin facts \/ ~q.backend \/ err \notin {"none", "upstream"} THEN "none"
                         ELSE IF err = "upstream" \/ status >= 500 \/ "grpc" \in facts THEN "fail" ELSE "ok"
  <1>1. PICK ended : ended = [q EXCEPT !.err = err, !.status = status]
    OBVIOUS
  <1>2. err \in {"none", "internal", "upstream", "downstream"} /\ status \in Nat
    BY DEF Contexts, ErrEnded, StatusEnded
  <1>3. /\ ended \in Contexts /\ ended.err = err /\ ended.status = status /\ ended.held = q.held
        /\ ended.header = q.header /\ ended.why = q.why /\ ended.backend = q.backend
    BY <1>1, <1>2 DEF Contexts
  <1>4. a = [ended EXCEPT !.pc = "finished", !.finished = TRUE, !.health = HealthOf(ended), !.sample = SampleOf(ended)]
    BY <1>1 DEF Finish, ErrEnded, StatusEnded
  <1>5. HealthOf(ended) = IF "endpoint" \notin q.held \/ err \notin {"none", "upstream"} THEN "none"
                          ELSE IF err = "none" THEN "ok" ELSE "fail"
    BY <1>3 DEF HealthOf, Counts
  <1>6. SampleOf(ended) = IF "rollout" \notin facts \/ ~q.backend \/ err \notin {"none", "upstream"} THEN "none"
                          ELSE IF err = "upstream" \/ status >= 500 \/ "grpc" \in facts THEN "fail" ELSE "ok"
    BY <1>3 DEF SampleOf, Counts
  <1>7. PICK health : health = HealthOf(ended)
    OBVIOUS
  <1>8. PICK sample : sample = SampleOf(ended)
    OBVIOUS
  <1>9. "finished" \in PCs
    BY DEF PCs, Ended
  <1>10. health \in {"none", "ok", "fail"}
    BY <1>5, <1>7
  <1>11. sample \in {"none", "ok", "fail"}
    BY <1>6, <1>8
  <1>12. a = [ended EXCEPT !.pc = "finished", !.finished = TRUE, !.health = health, !.sample = sample]
    BY <1>4, <1>7, <1>8
  <1>13. PICK closed : closed = [ended EXCEPT !.pc = "finished", !.finished = TRUE]
    OBVIOUS
  <1>14. closed \in Contexts
    BY <1>3, <1>9, <1>13 DEF Contexts
  <1>15. PICK reported : reported = [closed EXCEPT !.health = health]
    OBVIOUS
  <1>16. reported \in Contexts
    BY <1>10, <1>14, <1>15 DEF Contexts
  <1>17. PICK sampled : sampled = [reported EXCEPT !.sample = sample]
    OBVIOUS
  <1>18. sampled \in Contexts
    BY <1>11, <1>16, <1>17 DEF Contexts
  <1>19. a = sampled
    BY <1>12, <1>13, <1>15, <1>17
  <1>20. a.pc = "finished" /\ a.finished /\ a.health = health /\ a.sample = sample
    BY <1>3, <1>12 DEF Contexts
  <1>21. a.err = err /\ a.status = status /\ a.held = q.held /\ a.header = q.header /\ a.why = q.why
    BY <1>3, <1>12 DEF Contexts
  <1> QED BY <1>5, <1>6, <1>7, <1>8, <1>18, <1>19, <1>20, <1>21

(* What a context must be like when the guard finishes it.                 *)
Finishable(q, delivered) ==
    /\ q \in Contexts /\ ~q.finished /\ (External => q.header # "client")
    /\ "endpoint" \in q.held => Lacks(Refusing)
    /\ "cancelled" \in q.why => ~delivered
    /\ q.why = {} => /\ q.status = FinalStatus /\ q.status # 0
                     /\ IF Verdict.proxied THEN Proxied(q) ELSE Kept(q)
                     /\ "hookfail" \notin facts => q.err = FinalErr /\ (delivered \/ q.err # "none")

LEMMA FinishOk ==
    ASSUME NEW q, NEW delivered \in BOOLEAN, Finishable(q, delivered), NEW a, a = Finish(q, delivered)
    PROVE  ContextOk(a) /\ a.pc = "finished"
  <1>1. q \in Contexts /\ ~q.finished
    BY DEF Finishable
  <1>2. PICK err : err = ErrEnded(q, delivered)
    OBVIOUS
  <1>3. PICK status : status = StatusEnded(q)
    OBVIOUS
  <1>4. /\ a \in Contexts /\ a.pc = "finished" /\ a.finished /\ a.err = err /\ a.status = status
        /\ a.held = q.held /\ a.header = q.header /\ a.why = q.why
        /\ a.health = IF "endpoint" \notin q.held \/ err \notin {"none", "upstream"} THEN "none"
                      ELSE IF err = "none" THEN "ok" ELSE "fail"
        /\ a.sample = IF "rollout" \notin facts \/ ~q.backend \/ err \notin {"none", "upstream"} THEN "none"
                      ELSE IF err = "upstream" \/ status >= 500 \/ "grpc" \in facts THEN "fail" ELSE "ok"
    BY <1>1, <1>2, <1>3, FinishIs
  <1>5. "finished" \in Ended /\ "finished" \notin Early \cup Forwarding \cup {"respond"} \cup Answering
    BY DEF Early, Entering, Forwarding, Answering, Ended
  <1>6. Cleared("finished")
    BY DEF Cleared, FromMtls, FromCheck, Forwarding
  <1>7. Evidence(a)
    <2>1. ASSUME "cancelled" \in q.why PROVE err # "none"
      BY <1>2, <2>1 DEF Finishable, ErrEnded
    <2>2. ASSUME "cancelled" \in q.why, err = "upstream"
          PROVE  a.health \in {"none", "fail"} /\ a.sample \in {"none", "fail"}
      BY <1>4, <2>2
    <2>3. ASSUME "cancelled" \in q.why, err # "upstream" PROVE a.health = "none" /\ a.sample = "none"
      BY <1>4, <2>1, <2>3
    <2> QED BY <1>4, <1>5, <2>2, <2>3 DEF Evidence
  <1>8. ASSUME q.why = {} PROVE Follows(a)
    <2>1. /\ q.status = FinalStatus /\ q.status # 0 /\ IF Verdict.proxied THEN Proxied(q) ELSE Kept(q)
      BY <1>8 DEF Finishable
    <2>2. status = FinalStatus
      BY <1>3, <2>1 DEF StatusEnded
    <2>3. ASSUME "hookfail" \notin facts PROVE a.health = FinalHealth /\ a.sample = FinalSample
      <3>1. err = FinalErr
        BY <1>2, <1>8, <2>3 DEF Finishable, ErrEnded
      <3>2. FinalErr \in {"none", "internal", "upstream"}
        <4>1. Verdict.err \in {"none", "internal", "upstream"}
          BY VerdictType DEF Decisions
        <4> QED BY <4>1 DEF FinalErr, SentErr
      <3>3. "endpoint" \in q.held <=> Verdict.proxied
        BY <2>1 DEF Proxied, Kept
      <3>4. q.backend <=> Verdict.proxied
        BY <2>1 DEF Proxied, Kept
      <3>5. a.health = FinalHealth
        BY <1>4, <3>1, <3>2, <3>3 DEF FinalHealth
      <3>6. a.sample = FinalSample
        BY <1>4, <2>2, <3>1, <3>2, <3>4 DEF FinalSample
      <3> QED BY <3>5, <3>6
    <2> QED BY <1>4, <1>5, <2>2, <2>3 DEF Follows, Early
  <1>9. ContextOk(a)
    BY <1>4, <1>5, <1>6, <1>7, <1>8 DEF ContextOk, Finishable, Early
  <1> QED BY <1>4, <1>9

LEMMA EndOk ==
    ASSUME ProxyInv, NEW r \in Requests, NEW q, NEW delivered \in BOOLEAN, Finishable(q, delivered),
           End(r, q, delivered)
    PROVE  ProxyInv'
  <1>1. PICK a : a = Finish(q, delivered)
    OBVIOUS
  <1>2. ContextOk(a) /\ a.pc = "finished"
    BY <1>1, FinishOk
  <1> QED BY <1>1, <1>2, OneChanges DEF End

(* A request that is not over, once more than the facts has decided it.    *)
Pending == Early \cup Forwarding \cup {"respond"} \cup Answering

LEMMA LostFinishable ==
    ASSUME NEW q, ContextOk(q), q.pc \in Pending, NEW a, a \in Contexts, NEW reason,
           a.finished = q.finished, a.held = q.held, a.header = q.header, a.why = q.why \cup {reason}
    PROVE  Finishable(a, FALSE)
  <1>1. /\ q \in Contexts /\ ~q.finished /\ (External => q.header # "client")
        /\ "endpoint" \in q.held => Lacks(Refusing)
    BY Unfinished DEF Pending
  <1>2. a.why # {}
    OBVIOUS
  <1> QED BY <1>1, <1>2 DEF Finishable

LEMMA MarkedFields ==
    ASSUME NEW q \in Contexts, NEW reason \in {"shed", "refused", "late", "cancelled"}, NEW a, a = Marked(q, reason)
    PROVE  /\ a \in Contexts /\ a.finished = q.finished /\ a.held = q.held /\ a.header = q.header
           /\ a.why = q.why \cup {reason} /\ a.err = q.err /\ a.status = q.status
  <1>1. a \in Contexts
    BY MarkedIs
  <1> QED BY <1>1 DEF Contexts, Marked

LEMMA MarkedFinishable ==
    ASSUME NEW q, ContextOk(q), q.pc \in Pending, NEW reason \in {"late", "cancelled"},
           NEW a, a = Marked(q, reason)
    PROVE  Finishable(a, FALSE)
  <1>1. q \in Contexts
    BY DEF ContextOk
  <1>2. /\ a \in Contexts /\ a.finished = q.finished /\ a.held = q.held /\ a.header = q.header
        /\ a.why = q.why \cup {reason}
    BY <1>1, MarkedFields
  <1> QED BY <1>2, LostFinishable

(* The same for a request that is given an error and a status as well.     *)
LEMMA BlamedFinishable ==
    ASSUME NEW q, ContextOk(q), q.pc \in Pending, NEW reason \in {"late", "cancelled"},
           NEW err \in {"none", "internal", "upstream", "downstream"}, NEW status \in Nat,
           NEW m, m = Marked(q, reason),
           NEW a, a = [m EXCEPT !.err = err, !.status = status]
    PROVE  Finishable(a, FALSE)
  <1>1. q \in Contexts
    BY DEF ContextOk
  <1>2. /\ m \in Contexts /\ m.finished = q.finished /\ m.held = q.held /\ m.header = q.header
        /\ m.why = q.why \cup {reason}
    BY <1>1, MarkedFields
  <1>3. PICK e : e = [m EXCEPT !.err = err]
    OBVIOUS
  <1>4. e \in Contexts
    BY <1>2, <1>3 DEF Contexts
  <1>5. a = [e EXCEPT !.status = status]
    BY <1>3
  <1>6. a \in Contexts
    BY <1>4, <1>5 DEF Contexts
  <1>7. a.finished = q.finished /\ a.held = q.held /\ a.header = q.header /\ a.why = q.why \cup {reason}
    BY <1>2 DEF Contexts
  <1> QED BY <1>6, <1>7, LostFinishable

LEMMA MisblamedFinishable ==
    ASSUME NEW q, ContextOk(q), q.pc \in Pending, NEW reason \in {"late", "cancelled"},
           NEW err \in {"none", "internal", "upstream", "downstream"},
           NEW m, m = Marked(q, reason),
           NEW a, a = [m EXCEPT !.err = err]
    PROVE  Finishable(a, FALSE)
  <1>1. q \in Contexts
    BY DEF ContextOk
  <1>2. /\ m \in Contexts /\ m.finished = q.finished /\ m.held = q.held /\ m.header = q.header
        /\ m.why = q.why \cup {reason}
    BY <1>1, MarkedFields
  <1>3. a \in Contexts
    BY <1>2 DEF Contexts
  <1>4. a.finished = q.finished /\ a.held = q.held /\ a.header = q.header /\ a.why = q.why \cup {reason}
    BY <1>2 DEF Contexts
  <1> QED BY <1>3, <1>4, LostFinishable

(* A response that arrived in full.                                        *)
LEMMA DeliveredFinishable ==
    ASSUME NEW q, ContextOk(q), q.pc \in Answering,
           q.why = {} /\ "hookfail" \notin facts => ~BreaksOff
    PROVE  Finishable(q, TRUE)
  <1>1. /\ q \in Contexts /\ ~q.finished /\ "cancelled" \notin q.why /\ (External => q.header # "client")
        /\ "endpoint" \in q.held => Lacks(Refusing)
    BY Unfinished
  <1>2. ASSUME q.why = {}
        PROVE  /\ q.status = FinalStatus /\ q.status # 0
               /\ IF Verdict.proxied THEN Proxied(q) ELSE Kept(q)
               /\ "hookfail" \notin facts => q.err = FinalErr
    BY <1>2 DEF ContextOk, Follows, FinalErr
  <1> QED BY <1>1, <1>2 DEF Finishable

LEMMA StreamOk == ASSUME ProxyInv, NEW r \in Requests, Stream(r) PROVE ProxyInv'
  <1>1. PICK q : q = req[r] /\ ContextOk(q) /\ q.pc = "stream"
    BY ClearedAt DEF Stream
  <1>2. q.pc \in Answering /\ q.pc \in Pending /\ "queued" \in Answering
        /\ "queued" \notin Ended \cup Early \cup Forwarding \cup {"respond"}
    BY <1>1 DEF Answering, Pending, Ended, Early, Entering, Forwarding
  <1>3. /\ q \in Contexts /\ ~q.finished /\ "cancelled" \notin q.why /\ (External => q.header # "client")
        /\ ("endpoint" \in q.held => Lacks(Refusing))
    BY <1>1, <1>2, Unfinished
  <1> DEFINE breaks == "streamfail" \in facts /\ "endpoint" \in q.held /\ q.err = "none"
  <1>4. ASSUME q.why = {}
        PROVE  /\ q.status = FinalStatus /\ q.status # 0
               /\ IF Verdict.proxied THEN Proxied(q) ELSE Kept(q)
               /\ "hookfail" \notin facts => q.err = SentErr /\ ~(Verdict.proxied /\ "tunnel" \in facts)
    BY <1>1, <1>2, <1>4 DEF ContextOk, Follows
  <1>5. ASSUME q.why = {}, "hookfail" \notin facts PROVE breaks <=> BreaksOff
    BY <1>4, <1>5 DEF BreaksOff, Proxied, Kept
  <1>6. CASE breaks
    <2>1. PICK new : new = [q EXCEPT !.err = "upstream"]
      OBVIOUS
    <2>2. new \in Contexts
      BY <1>3, <2>1 DEF Contexts
    <2>3. /\ new.err = "upstream" /\ new.finished = q.finished /\ new.held = q.held /\ new.header = q.header
          /\ new.why = q.why /\ new.status = q.status /\ new.backend = q.backend
      BY <1>3, <2>1 DEF Contexts
    <2>4. ASSUME new.why = {}
          PROVE  /\ new.status = FinalStatus /\ new.status # 0
                 /\ IF Verdict.proxied THEN Proxied(new) ELSE Kept(new)
                 /\ "hookfail" \notin facts => new.err = FinalErr
      BY <1>4, <1>5, <1>6, <2>3, <2>4 DEF Proxied, Kept, FinalErr
    <2>5. Finishable(new, FALSE)
      BY <1>3, <2>2, <2>3, <2>4 DEF Finishable
    <2>6. End(r, new, FALSE)
      BY <1>1, <1>6, <2>1 DEF Stream
    <2> QED BY <2>5, <2>6, EndOk
  <1>7. CASE ~breaks /\ engine[r] # "hyper"
    <2>1. Finishable(q, TRUE)
      BY <1>1, <1>2, <1>5, <1>7, DeliveredFinishable
    <2>2. End(r, q, TRUE)
      BY <1>1, <1>7 DEF Stream
    <2> QED BY <2>1, <2>2, EndOk
  <1>8. CASE ~breaks /\ engine[r] = "hyper" /\ transport[ConnectionOf(r)] = "failed"
    <2>1. PICK new : new = Marked(q, "cancelled")
      OBVIOUS
    <2>2. Finishable(new, FALSE)
      BY <1>1, <1>2, <2>1, MarkedFinishable
    <2>3. End(r, new, FALSE)
      BY <1>1, <1>8, <2>1 DEF Stream, Queue
    <2> QED BY <2>2, <2>3, EndOk
  <1>9. CASE ~breaks /\ engine[r] = "hyper" /\ transport[ConnectionOf(r)] # "failed"
    <2>1. PICK new : new = [q EXCEPT !.pc = "queued"]
      OBVIOUS
    <2>2. "queued" \in PCs
      BY DEF PCs, Answering
    <2>3. new \in Contexts
      BY <1>3, <2>1, <2>2 DEF Contexts
    <2>4. /\ new.pc = "queued" /\ new.err = q.err /\ new.finished = q.finished /\ new.held = q.held
          /\ new.header = q.header /\ new.why = q.why /\ new.status = q.status /\ new.backend = q.backend
      BY <1>3, <2>1 DEF Contexts
    <2>5. Become(r, new)
      BY <1>1, <1>9, <2>1 DEF Stream, Queue, Continue
    <2>6. ASSUME q.why = {} PROVE Follows(new)
      <3>1. IF Verdict.proxied THEN Proxied(new) ELSE Kept(new)
        BY <1>4, <2>4, <2>6 DEF Proxied, Kept
      <3>2. "hookfail" \notin facts => ~BreaksOff /\ ~(Verdict.proxied /\ "tunnel" \in facts)
        BY <1>4, <1>5, <1>9, <2>6
      <3>3. new.pc \notin Entering \cup {"dispatch", "file", "select", "respond"} \cup Forwarding \cup Ended
        BY <1>2, <2>4 DEF Early
      <3> QED BY <1>2, <1>4, <2>4, <2>6, <3>1, <3>2, <3>3 DEF Follows
    <2>7. Cleared("queued")
      BY DEF Cleared, FromMtls, FromCheck, Forwarding
    <2>8. Evidence(new)
      BY <1>2, <1>3, <2>4 DEF Evidence
    <2>9. ContextOk(new)
      BY <1>2, <1>3, <2>3, <2>4, <2>6, <2>7, <2>8 DEF ContextOk, Early
    <2> QED BY <1>9, <2>5, <2>9, OneChanges
  <1> QED BY <1>6, <1>7, <1>8, <1>9

LEMMA TunnelEndsOk == ASSUME ProxyInv, NEW r \in Requests, TunnelEnds(r) PROVE ProxyInv'
  <1>1. PICK q : q = req[r] /\ ContextOk(q) /\ q.pc = "tunnel"
    BY ClearedAt DEF TunnelEnds
  <1>2. q.pc \in Answering /\ q.pc \in Pending
    BY <1>1 DEF Answering, Pending
  <1>3. CASE End(r, q, TRUE)
    <2>1. q.why = {} /\ "hookfail" \notin facts => ~BreaksOff
      BY <1>1, <1>2 DEF ContextOk, Follows, BreaksOff
    <2>2. Finishable(q, TRUE)
      BY <1>1, <1>2, <2>1, DeliveredFinishable
    <2> QED BY <1>3, <2>2, EndOk
  <1>4. CASE End(r, [Marked(q, "cancelled") EXCEPT !.err = "downstream"], FALSE)
    <2>1. PICK m : m = Marked(q, "cancelled")
      OBVIOUS
    <2>2. PICK new : new = [m EXCEPT !.err = "downstream"]
      OBVIOUS
    <2>3. Finishable(new, FALSE)
      BY <1>1, <1>2, <2>1, <2>2, MisblamedFinishable
    <2>4. End(r, new, FALSE)
      BY <1>4, <2>1, <2>2
    <2> QED BY <2>3, <2>4, EndOk
  <1> QED BY <1>1, <1>3, <1>4 DEF TunnelEnds

LEMMA CancelOk == ASSUME ProxyInv, NEW r \in Requests, Cancel(r) PROVE ProxyInv'
  <1>1. PICK q : q = req[r] /\ ContextOk(q) /\ q.pc \in {"upstream", "stream", "external", "inspect", "file"}
    BY ClearedAt DEF Cancel
  <1>2. q.pc \in Pending
    BY <1>1 DEF Pending, Early, Entering, Forwarding, Answering
  <1>3. PICK m : m = Marked(q, "cancelled")
    OBVIOUS
  <1>4. q \in Contexts
    BY <1>1 DEF ContextOk
  <1>5. m \in Contexts
    BY <1>3, <1>4, MarkedFields
  <1>6. CASE engine[r] = "hyper"
    <2>1. End(r, m, FALSE)
      BY <1>1, <1>3, <1>6 DEF Cancel
    <2>2. Finishable(m, FALSE)
      BY <1>1, <1>2, <1>3, MarkedFinishable
    <2> QED BY <2>1, <2>2, EndOk
  <1>7. CASE engine[r] # "hyper"
    <2>1. PICK err : err = IF m.err = "none" THEN "downstream" ELSE m.err
      OBVIOUS
    <2>2. PICK status : status = IF m.status = 0 THEN 502 ELSE m.status
      OBVIOUS
    <2>3. err \in {"none", "internal", "upstream", "downstream"} /\ status \in Nat
      BY <1>5, <2>1, <2>2 DEF Contexts
    <2>4. PICK new : new = [m EXCEPT !.err = err, !.status = status]
      OBVIOUS
    <2>5. Finishable(new, FALSE)
      BY <1>1, <1>2, <1>3, <2>3, <2>4, BlamedFinishable
    <2>6. End(r, new, FALSE)
      BY <1>1, <1>3, <1>7, <2>1, <2>2, <2>4 DEF Cancel
    <2> QED BY <2>5, <2>6, EndOk
  <1> QED BY <1>6, <1>7

LEMMA DeadlineOk == ASSUME ProxyInv, NEW r \in Requests, DeadlinePasses(r) PROVE ProxyInv'
  <1>1. PICK err \in {"internal", "upstream"} : err = DeadlineError(r)
    BY DEF DeadlineError
  <1>2. CASE req[r].pc = "stream" /\ End(r, [Marked(req[r], "late") EXCEPT !.err = DeadlineError(r)], FALSE)
    <2>1. PICK q : q = req[r] /\ ContextOk(q) /\ q.pc \in Pending
      BY <1>2, ClearedAt DEF Pending, Answering
    <2>2. PICK m : m = Marked(q, "late")
      OBVIOUS
    <2>3. PICK new : new = [m EXCEPT !.err = err]
      OBVIOUS
    <2>4. Finishable(new, FALSE)
      BY <2>1, <2>2, <2>3, MisblamedFinishable
    <2>5. End(r, new, FALSE)
      BY <1>1, <1>2, <2>1, <2>2, <2>3
    <2> QED BY <2>4, <2>5, EndOk
  <1>3. CASE /\ req[r].pc \in {"external", "inspect", "file", "upstream"}
             /\ Become(r, Answered(Released(Marked(req[r], "late"), {"tenant_auth"}), 504, DeadlineError(r)))
    <2>1. req[r].pc \in Early \cup Forwarding
      BY <1>3 DEF Early, Entering, Forwarding
    <2>2. Become(r, Answered(Released(Marked(req[r], "late"), {"tenant_auth"}), 504, err))
      BY <1>1, <1>3
    <2> QED BY <2>1, <2>2, ExcuseOk
  <1> QED BY <1>2, <1>3 DEF DeadlinePasses

LEMMA DropOk == ASSUME ProxyInv, NEW r \in Requests, DropContext(r) PROVE ProxyInv'
  <1>1. PICK q : q = req[r] /\ ContextOk(q) /\ q.pc = "finished"
    BY ClearedAt DEF DropContext
  <1>2. "finished" \in Ended /\ "done" \in Ended
        /\ "done" \notin Early \cup Forwarding \cup {"respond"} \cup Answering
    BY DEF Early, Entering, Forwarding, Answering, Ended
  <1>3. q \in Contexts /\ q.finished /\ Finish(q, FALSE) = q
    BY <1>1, <1>2 DEF ContextOk, Evidence, Finish
  <1>4. PICK mirror : mirror = IF q.mirror = "sending" THEN "sending" ELSE "none"
    OBVIOUS
  <1>5. PICK held : held = IF q.mirror = "sending" THEN q.mirrorHeld ELSE {}
    OBVIOUS
  <1>6. PICK new : new = [q EXCEPT !.pc = "done", !.held = {}, !.execution = FALSE, !.mirror = mirror,
                                   !.mirrorHeld = held]
    OBVIOUS
  <1>7. Become(r, new)
    BY <1>1, <1>3, <1>4, <1>5, <1>6 DEF DropContext
  <1>8. new \in Contexts
    <2>1. "done" \in PCs
      BY DEF PCs, Ended
    <2>2. mirror \in {"none", "buffered", "sending"} /\ held \in SUBSET MirrorBudgets
      BY <1>3, <1>4, <1>5 DEF Contexts
    <2>3. PICK dropped : dropped = [q EXCEPT !.pc = "done", !.held = {}]
      OBVIOUS
    <2>4. dropped \in Contexts
      BY <1>3, <2>1, <2>3 DEF Contexts
    <2>5. PICK idle : idle = [dropped EXCEPT !.execution = FALSE, !.mirror = mirror]
      OBVIOUS
    <2>6. idle \in Contexts
      BY <2>2, <2>4, <2>5 DEF Contexts
    <2>7. PICK gone : gone = [idle EXCEPT !.mirrorHeld = held]
      OBVIOUS
    <2>8. gone \in Contexts
      BY <2>2, <2>6, <2>7 DEF Contexts
    <2>9. new = gone
      BY <1>6, <2>3, <2>5, <2>7
    <2> QED BY <2>8, <2>9
  <1>9. /\ new.pc = "done" /\ new.held = {} /\ new.finished = q.finished /\ new.header = q.header
        /\ new.why = q.why /\ new.status = q.status
    BY <1>3, <1>6 DEF Contexts
  <1>10. new.err = q.err /\ new.health = q.health /\ new.sample = q.sample
    BY <1>3, <1>6 DEF Contexts
  <1>11. Evidence(new)
    BY <1>1, <1>2, <1>3, <1>9, <1>10 DEF ContextOk, Evidence
  <1>12. ASSUME q.why = {} PROVE Follows(new)
    <2>1. q.status = FinalStatus /\ ("hookfail" \notin facts => q.health = FinalHealth /\ q.sample = FinalSample)
      BY <1>1, <1>2, <1>12 DEF ContextOk, Follows
    <2> QED BY <1>2, <1>9, <1>10, <2>1 DEF Follows, Early
  <1>13. Cleared("done")
    BY DEF Cleared, FromMtls, FromCheck, Forwarding
  <1>14. External => new.header # "client"
    BY <1>1, <1>9 DEF ContextOk
  <1>15. ContextOk(new)
    BY <1>2, <1>8, <1>9, <1>11, <1>12, <1>13, <1>14 DEF ContextOk, Early
  <1> QED BY <1>7, <1>9, <1>15, OneChanges

-----------------------------------------------------------------------------
(* Connections: one step settles every request that waits on one.          *)

LEMMA ManyChange ==
    ASSUME ProxyInv, NEW ctx, DOMAIN ctx = Requests, req' = ctx, facts' = facts, engine' = engine,
           NEW conns \in [Connections -> {"open", "closed", "failed"}], transport' = conns,
           \A r \in Requests : ContextOk(ctx[r]),
           \A r \in Requests : ctx[r].pc = "queued" => conns[ConnectionOf(r)] # "failed"
    PROVE  ProxyInv'
  <1>1. ScenarioOk'
    BY DEF ProxyInv, ScenarioOk, Consistent, Lacks
  <1>2. ASSUME NEW p \in Requests PROVE ContextOk(req[p])'
    <2>1. PICK c : c = ctx[p]
      OBVIOUS
    <2>2. ContextOk(c)'
      BY <2>1, FactsStay
    <2> QED BY <2>1, <2>2
  <1>3. TransportOk'
    BY DEF TransportOk, NothingStranded, ConnectionOf
  <1> QED BY <1>1, <1>2, <1>3 DEF ProxyInv

LEMMA QueuedIs ==
    ASSUME ProxyInv, NEW c, NEW r \in Queued(c)
    PROVE  r \in Requests /\ ConnectionOf(r) = c /\ ContextOk(req[r]) /\ req[r].pc = "queued"
           /\ req[r].pc \in Answering /\ req[r].pc \in Pending
  BY DEF Queued, ProxyInv, Answering, Pending

LEMMA FlushOk == ASSUME ProxyInv, NEW c \in Connections, Flush(c) PROVE ProxyInv'
  <1>1. PICK ctx : ctx = [r \in Requests |-> IF r \in Queued(c) THEN Finish(req[r], TRUE) ELSE req[r]]
    OBVIOUS
  <1>2. req' = ctx /\ facts' = facts /\ engine' = engine /\ transport' = transport /\ DOMAIN ctx = Requests
    BY <1>1 DEF Flush
  <1>3. ASSUME NEW r \in Requests
        PROVE  ContextOk(ctx[r]) /\ (ctx[r].pc = "queued" => transport[ConnectionOf(r)] # "failed")
    <2>1. CASE r \in Queued(c)
      <3>1. PICK q : q = req[r] /\ ContextOk(q) /\ q.pc = "queued" /\ q.pc \in Answering
        BY <2>1, QueuedIs
      <3>2. q.why = {} /\ "hookfail" \notin facts => ~BreaksOff
        BY <3>1 DEF ContextOk, Follows
      <3>3. Finishable(q, TRUE)
        BY <3>1, <3>2, DeliveredFinishable
      <3>4. PICK a : a = Finish(q, TRUE)
        OBVIOUS
      <3>5. ContextOk(a) /\ a.pc = "finished"
        BY <3>3, <3>4, FinishOk
      <3> QED BY <1>1, <2>1, <3>1, <3>4, <3>5
    <2>2. CASE r \notin Queued(c)
      BY <1>1, <2>2 DEF ProxyInv, TransportOk, NothingStranded
    <2> QED BY <2>1, <2>2
  <1>4. transport \in [Connections -> {"open", "closed", "failed"}]
    BY DEF ProxyInv, TransportOk
  <1> QED BY <1>2, <1>3, <1>4, ManyChange

(* A connection that is lost with the requests that wait on it.            *)
LEMMA LossOk ==
    ASSUME ProxyInv, NEW c \in Connections, FinishLost(Queued(c)), facts' = facts, engine' = engine,
           NEW end \in {"open", "closed", "failed"}, transport' = [transport EXCEPT ![c] = end]
    PROVE  ProxyInv'
  <1>1. PICK ctx : ctx = [r \in Requests |-> IF r \in Queued(c) THEN Finish(Marked(req[r], "cancelled"), FALSE)
                                             ELSE req[r]]
    OBVIOUS
  <1>2. PICK conns : conns = [transport EXCEPT ![c] = end]
    OBVIOUS
  <1>3. req' = ctx /\ transport' = conns /\ DOMAIN ctx = Requests
    BY <1>1, <1>2 DEF FinishLost
  <1>4. /\ transport \in [Connections -> {"open", "closed", "failed"}]
        /\ \A r \in Requests : req[r].pc = "queued" => transport[ConnectionOf(r)] # "failed"
    BY DEF ProxyInv, TransportOk, NothingStranded
  <1>5. ASSUME NEW r \in Requests
        PROVE  ContextOk(ctx[r]) /\ (ctx[r].pc = "queued" => conns[ConnectionOf(r)] # "failed")
    <2>1. CASE r \in Queued(c)
      <3>1. PICK q : q = req[r] /\ ContextOk(q) /\ q.pc \in Pending
        BY <2>1, QueuedIs
      <3>2. PICK m : m = Marked(q, "cancelled")
        OBVIOUS
      <3>3. Finishable(m, FALSE)
        BY <3>1, <3>2, MarkedFinishable
      <3>4. PICK a : a = Finish(m, FALSE)
        OBVIOUS
      <3>5. ContextOk(a) /\ a.pc = "finished"
        BY <3>3, <3>4, FinishOk
      <3> QED BY <1>1, <2>1, <3>1, <3>2, <3>4, <3>5
    <2>2. CASE r \notin Queued(c)
      <3>1. ctx[r] = req[r] /\ ContextOk(req[r])
        BY <1>1, <2>2 DEF ProxyInv
      <3>2. ASSUME req[r].pc = "queued" PROVE conns[ConnectionOf(r)] # "failed"
        <4>1. ConnectionOf(r) # c
          BY <2>2, <3>2 DEF Queued
        <4>2. conns[ConnectionOf(r)] = transport[ConnectionOf(r)]
          BY <1>2, <4>1, <1>4 DEF ConnectionOf, Connections
        <4> QED BY <1>4, <3>2, <4>2
      <3> QED BY <3>1, <3>2
    <2> QED BY <2>1, <2>2
  <1>6. conns \in [Connections -> {"open", "closed", "failed"}]
    BY <1>2, <1>4
  <1> QED BY <1>3, <1>5, <1>6, ManyChange

LEMMA DroppedOk == ASSUME ProxyInv, NEW c \in Connections, ConnectionDropped(c) PROVE ProxyInv'
  <1>1. transport \in [Connections -> {"open", "closed", "failed"}]
    BY DEF ProxyInv, TransportOk
  <1>2. transport' = [transport EXCEPT ![c] = "closed"]
    BY <1>1 DEF ConnectionDropped
  <1> QED BY <1>2, LossOk DEF ConnectionDropped

LEMMA FailsOk == ASSUME ProxyInv, NEW c \in Connections, ConnectionFails(c) PROVE ProxyInv'
  <1>1. PICK end \in {"failed", "closed"} : transport' = [transport EXCEPT ![c] = end]
    BY DEF ConnectionFails
  <1> QED BY <1>1, LossOk DEF ConnectionFails

LEMMA TimesOutOk == ASSUME ProxyInv, NEW c \in Connections, DeliveryTimesOut(c) PROVE ProxyInv'
  <1>1. PICK overdue \in SUBSET Queued(c) :
            req' = [r \in Requests |->
                     IF r \in overdue THEN Finish([Marked(req[r], "late") EXCEPT !.err = "internal"], FALSE)
                     ELSE IF r \in Queued(c) THEN Finish(Marked(req[r], "cancelled"), FALSE)
                     ELSE req[r]]
    BY DEF DeliveryTimesOut
  <1>2. PICK ctx :
            ctx = [r \in Requests |->
                     IF r \in overdue THEN Finish([Marked(req[r], "late") EXCEPT !.err = "internal"], FALSE)
                     ELSE IF r \in Queued(c) THEN Finish(Marked(req[r], "cancelled"), FALSE)
                     ELSE req[r]]
    OBVIOUS
  <1>3. PICK conns : conns = [transport EXCEPT ![c] = "failed"]
    OBVIOUS
  <1>4. req' = ctx /\ transport' = conns /\ DOMAIN ctx = Requests /\ facts' = facts /\ engine' = engine
    BY <1>1, <1>2, <1>3 DEF DeliveryTimesOut
  <1>5. /\ transport \in [Connections -> {"open", "closed", "failed"}]
        /\ \A r \in Requests : req[r].pc = "queued" => transport[ConnectionOf(r)] # "failed"
    BY DEF ProxyInv, TransportOk, NothingStranded
  <1>6. ASSUME NEW r \in Requests
        PROVE  ContextOk(ctx[r]) /\ (ctx[r].pc = "queued" => conns[ConnectionOf(r)] # "failed")
    <2>1. CASE r \in Queued(c)
      <3>1. PICK q : q = req[r] /\ ContextOk(q) /\ q.pc \in Pending
        BY <2>1, QueuedIs
      <3>2. PICK m : m = IF r \in overdue THEN Marked(q, "late") ELSE Marked(q, "cancelled")
        OBVIOUS
      <3>3. PICK e : e = IF r \in overdue THEN [m EXCEPT !.err = "internal"] ELSE m
        OBVIOUS
      <3>4. Finishable(e, FALSE)
        <4>1. CASE r \in overdue
          <5>1. m = Marked(q, "late") /\ e = [m EXCEPT !.err = "internal"]
            BY <3>2, <3>3, <4>1
          <5> QED BY <3>1, <5>1, MisblamedFinishable
        <4>2. CASE r \notin overdue
          <5>1. e = Marked(q, "cancelled")
            BY <3>2, <3>3, <4>2
          <5> QED BY <3>1, <5>1, MarkedFinishable
        <4> QED BY <4>1, <4>2
      <3>5. PICK a : a = Finish(e, FALSE)
        OBVIOUS
      <3>6. ContextOk(a) /\ a.pc = "finished"
        BY <3>4, <3>5, FinishOk
      <3>7. ctx[r] = a
        BY <1>2, <2>1, <3>1, <3>2, <3>3, <3>5
      <3> QED BY <3>6, <3>7
    <2>2. CASE r \notin Queued(c)
      <3>1. ctx[r] = req[r] /\ ContextOk(req[r])
        BY <1>1, <1>2, <2>2 DEF ProxyInv
      <3>2. ASSUME req[r].pc = "queued" PROVE conns[ConnectionOf(r)] # "failed"
        <4>1. ConnectionOf(r) # c
          BY <2>2, <3>2 DEF Queued
        <4>2. conns[ConnectionOf(r)] = transport[ConnectionOf(r)]
          BY <1>3, <4>1, <1>5 DEF ConnectionOf, Connections
        <4> QED BY <1>5, <3>2, <4>2
      <3> QED BY <3>1, <3>2
    <2> QED BY <2>1, <2>2
  <1>7. conns \in [Connections -> {"open", "closed", "failed"}]
    BY <1>3, <1>5
  <1> QED BY <1>4, <1>6, <1>7, ManyChange

-----------------------------------------------------------------------------
(* The invariant holds at first and is kept by every step.                 *)

LEMMA InitOk == ASSUME ProxyInit PROVE ProxyInv
  <1>1. PICK s \in Scenarios : PossibleScenario(s) /\ facts = s.facts /\ engine = s.engine
    BY DEF ProxyInit
  <1>2. ScenarioOk
    <2>1. facts \subseteq AllFacts /\ Consistent(facts) /\ engine \in [Requests -> Engines]
      BY <1>1 DEF PossibleScenario
    <2>2. ASSUME NEW r \in Requests, engine[r] # "hyper" PROVE Lacks({"connect", "upgrade", "tunnel"})
      <3>1. facts \cap (Transports \ {"h2"}) = {}
        BY <1>1, <2>2 DEF PossibleScenario
      <3>2. {"connect", "upgrade", "tunnel"} \subseteq Transports \ {"h2"}
        BY DEF Transports
      <3> QED BY <3>1, <3>2 DEF Lacks
    <2> QED BY <2>1, <2>2 DEF ScenarioOk
  <1>3. PICK q : q = NewContext
    OBVIOUS
  <1>4. /\ q.pc = "idle" /\ q.held = {} /\ q.header = "none" /\ q.why = {} /\ ~q.finished /\ q.err = "none"
        /\ ~q.backend /\ ~q.execution /\ ~q.upgrade
    BY <1>3 DEF NewContext
  <1>5. q \in Contexts
    <2>1. "idle" \in PCs
      BY DEF PCs, Entering
    <2> QED BY <1>3, <2>1 DEF NewContext, Contexts
  <1>6. "idle" \in Entering
        /\ "idle" \notin {"dispatch", "file", "select", "respond"} \cup Forwarding \cup Answering \cup Ended
    BY DEF Entering, Forwarding, Answering, Ended
  <1>7. Cleared("idle")
    BY DEF Cleared, FromMtls, FromCheck, Forwarding
  <1>8. Evidence(q)
    BY <1>4, <1>6 DEF Evidence
  <1>9. Follows(q)
    BY <1>4, <1>6 DEF Follows, Kept
  <1>10. ContextOk(q)
    BY <1>4, <1>5, <1>7, <1>8, <1>9 DEF ContextOk
  <1>11. DOMAIN req = Requests /\ \A r \in Requests : req[r] = q
    BY <1>3 DEF ProxyInit
  <1>12. TransportOk
    BY <1>4, <1>11 DEF ProxyInit, TransportOk, NothingStranded
  <1> QED BY <1>2, <1>10, <1>11, <1>12 DEF ProxyInv

LEMMA ProceedOk == ASSUME ProxyInv, NEW r \in Requests, Proceed(r) PROVE ProxyInv'
  <1>1. CASE PlainForward(r) \/ Admit(r) \/ ParseRequest(r)
    BY <1>1, PlainOk, AdmitOk, ParseOk
  <1>2. CASE AuthorizeTenant(r) \/ AuthorizeRate(r) \/ AuthorizeToken(r) \/ ExternalAnswers(r) \/ AuthorizeTraffic(r)
    BY <1>2, TenantOk, RateOk, TokenOk, ExternalOk, TrafficOk
  <1>3. CASE CheckRequest(r) \/ AcquirePlugin(r) \/ Inspect(r) \/ RequestPlugin(r)
    BY <1>3, CheckOk, AcquirePluginOk, InspectOk, RequestPluginOk
  <1>4. CASE Dispatch(r) \/ ServeFile(r) \/ SelectEndpoint(r) \/ ConnectTunnel(r) \/ ForwardHeaders(r)
    BY <1>4, DispatchOk, FileOk, SelectOk, TunnelOk, HeadersOk
  <1>5. CASE PrepareMirror(r) \/ UpstreamAnswers(r) \/ PrepareResponse(r)
    BY <1>5, PrepareMirrorOk, UpstreamOk, PrepareOk
  <1>6. CASE Stream(r) \/ TunnelEnds(r) \/ DropContext(r)
    BY <1>6, StreamOk, TunnelEndsOk, DropOk
  <1> QED BY <1>1, <1>2, <1>3, <1>4, <1>5, <1>6 DEF Proceed

LEMMA StutterOk == ASSUME ProxyInv, UNCHANGED proxyVars PROVE ProxyInv'
  <1>1. /\ req' = req /\ facts' = facts /\ engine' = engine /\ transport' = transport
        /\ transport \in [Connections -> {"open", "closed", "failed"}] /\ DOMAIN req = Requests
        /\ \A r \in Requests : ContextOk(req[r])
        /\ \A r \in Requests : req[r].pc = "queued" => transport[ConnectionOf(r)] # "failed"
    BY DEF proxyVars, ProxyInv, TransportOk, NothingStranded
  <1> QED BY <1>1, ManyChange

LEMMA NextOk == ASSUME ProxyInv, [ProxyNext]_proxyVars PROVE ProxyInv'
  <1>1. CASE UNCHANGED proxyVars
    BY <1>1, StutterOk
  <1>2. ASSUME NEW r \in Requests, Arrive(r) \/ Proceed(r) \/ Mirroring(r) \/ Cancel(r) \/ DeadlinePasses(r)
        PROVE  ProxyInv'
    BY <1>2, ArriveOk, ProceedOk, MirroringOk, CancelOk, DeadlineOk
  <1>3. ASSUME NEW c \in Connections, Flush(c) \/ ConnectionFails(c) \/ ConnectionDropped(c) \/ DeliveryTimesOut(c)
        PROVE  ProxyInv'
    BY <1>3, FlushOk, FailsOk, DroppedOk, TimesOutOk
  <1> QED BY <1>1, <1>2, <1>3 DEF ProxyNext

-----------------------------------------------------------------------------
(***************************************************************************)
(* What ContextOk says holds of every request of every behaviour: where it *)
(* is, which policies it has passed, and that as long as only the facts    *)
(* decide about it, it is on the way to the answer they call for.          *)
(***************************************************************************)
THEOREM ContextsAreOrdered == ProxySpec => []ProxyInv
  <1>1. ProxyInit => ProxyInv
    BY InitOk
  <1>2. ProxyInv /\ [ProxyNext]_proxyVars => ProxyInv'
    BY NextOk
  <1> QED BY <1>1, <1>2, PTL DEF ProxySpec

(***************************************************************************)
(* No request of any set of requests, over any scenario, holds an endpoint *)
(* (select_endpoint) while a policy of its route refuses it, on the fast   *)
(* path of plain.rs or on either general path.                             *)
(***************************************************************************)
THEOREM PoliciesAreMet == ProxySpec => []NoBypass
  <1>1. ProxyInv => NoBypass
    BY DEF ProxyInv, ContextOk, NoBypass, Lacks
  <1> QED BY <1>1, ContextsAreOrdered, PTL

(***************************************************************************)
(* Two requests with the same facts, served by Pingora, by Hyper or by its *)
(* fast path, settle with the same status and count the same for health    *)
(* and rollout: each ends as the Verdict, a function of the facts, has it. *)
(***************************************************************************)
THEOREM EnginesDoAgree == ProxySpec => []EnginesAgree
  <1>1. ASSUME ProxyInv, NEW r \in Requests, Settled(r)
        PROVE  /\ req[r].status = FinalStatus
               /\ "hookfail" \notin facts => req[r].health = FinalHealth /\ req[r].sample = FinalSample
    <2>1. ContextOk(req[r]) /\ req[r].pc = "done" /\ req[r].why = {} /\ "done" \in Ended
      BY <1>1 DEF ProxyInv, Settled, Ended
    <2> QED BY <2>1 DEF ContextOk, Follows
  <1>2. ProxyInv => EnginesAgree
    BY <1>1 DEF EnginesAgree
  <1> QED BY <1>2, ContextsAreOrdered, PTL

(* The header an external authorizer answers with never leaves with the    *)
(* client's value, whichever branch of upstream_headers the engine takes.  *)
THEOREM AuthorizerHasTheLastWord == ProxySpec => []AuthorizerDecides
  <1>1. ProxyInv => AuthorizerDecides
    BY DEF ProxyInv, ContextOk, AuthorizerDecides
  <1> QED BY <1>1, ContextsAreOrdered, PTL

(***************************************************************************)
(* However a request is broken off, by the client, by the connection or by *)
(* a delivery that timed out, RequestGuard::finish records nothing of it   *)
(* against the endpoint or the rollout that the upstream did not do.       *)
(***************************************************************************)
THEOREM CancelledTellsNothing == ProxySpec => []CancelledIsNotEvidence
  <1>1. ProxyInv => CancelledIsNotEvidence
    BY DEF ProxyInv, ContextOk, Evidence, CancelledIsNotEvidence
  <1> QED BY <1>1, ContextsAreOrdered, PTL

(* Connection::queue and closed() leave no guard waiting for a flush of a  *)
(* transport that has failed.                                              *)
THEOREM NothingIsStranded == ProxySpec => []NothingStranded
  <1>1. ProxyInv => NothingStranded
    BY DEF ProxyInv, TransportOk
  <1> QED BY <1>1, ContextsAreOrdered, PTL

=============================================================================
