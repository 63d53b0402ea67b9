---------------------------- MODULE MCDataPlane -----------------------------
(***************************************************************************)
(* The parts of the data plane, checked for safety: requests in both       *)
(* engines (Proxy), the choice of endpoints and their health (Backend),    *)
(* rate and concurrency limits (Limiter), idle upstream connections        *)
(* (UpstreamPool), files (StaticFiles), log files (FileLogs) and telemetry *)
(* (Export).  The parts share no state, so a behaviour moves one of them   *)
(* and the others stay where they begin.                                   *)
(***************************************************************************)
EXTENDS Proxy, Backend, Limiter, UpstreamPool, StaticFiles, FileLogs, Export, TLC

VARIABLE part       \* the part that moves in this behaviour

(* Two requests.  In processes of different engines, any two facts: the    *)
(* engines are compared.  In one process, any two facts that have to do    *)
(* with budgets, connections or completion: the requests contend.          *)
MCRequests == 1..2
UpTo2(S) == {{}} \cup {{f, g} : f \in S, g \in S}
Contending == {"tenant", "limited", "external", "script", "hookfail",
               "mirror", "rollout", "deadline", "h2", "streamfail", "tunnel"}
MCScenarios ==
    {[facts |-> F, engine |-> <<"hyper", "pingora">>] : F \in UpTo2(AllFacts)}
    \cup {[facts |-> F, engine |-> <<e, e>>] : F \in UpTo2(Contending), e \in Engines}
    \cup {[facts |-> {f}, engine |-> <<"hyper", "hyper">>] : f \in {"connect", "upgrade"}}

(* Every form of a range of a file of up to three bytes.                   *)
Ranges == [kind : {"none", "other", "bad"}, first : {0}, last : {0}]
          \cup [kind : {"suffix"}, first : {0}, last : 0..3]
          \cup [kind : {"from"}, first : 0..2, last : {0}]
          \cup [kind : {"both"}, first : 0..2, last : 0..3]
NoRange == [kind |-> "none", first |-> 0, last |-> 0]
Posted == [method |-> "POST", range |-> NoRange, match |-> "none", since |-> "none", ifRange |-> "none"]
Gets(ranges, matches, ifRanges) ==
    [method : {"GET", "HEAD"}, range : ranges, match : matches, since : {"none", "later"},
     ifRange : ifRanges]
MCHeaders == Gets(Ranges, {"none"}, {"none", "same", "other"})
             \cup Gets({NoRange, [kind |-> "from", first |-> 1, last |-> 0]}, {"same", "other"}, {"none", "same"})
             \cup {Posted}

(* Callers, Users, Exchanges and Threads are the same two model values.    *)
DataPlaneSymmetry == Permutations(Callers)

DataPlaneVars == <<part, proxyVars, backendVars, limiterVars, poolVars, staticVars, logVars, exportVars>>

(* Where the parts with several initial states stay when they do not move. *)
ProxyRests == facts = {} /\ engine = <<"hyper", "hyper">>
BackendRests == pool.members = Addresses \X {0} /\ ~pool.health /\ ~pool.dns /\ ~pool.hash
FilesRest == /\ shelf = [kind |-> "missing", length |-> 0, same |-> FALSE]
             /\ asked = [headers |-> Posted, sendfile |-> FALSE, initial |-> FALSE]

DataPlaneInit ==
    /\ part \in {"proxy", "backend", "limiter", "upstream", "files", "logs", "export"}
    /\ (part # "proxy" => ProxyRests) /\ ProxyInit
    /\ (part # "files" => FilesRest) /\ StaticInit
    /\ BackendInit /\ (part # "backend" => BackendRests)
    /\ LimiterInit /\ UpstreamPoolInit /\ LogsInit /\ ExportInit

DataPlaneNext ==
    \/ /\ part = "proxy" /\ ProxyNext
       /\ UNCHANGED <<part, backendVars, limiterVars, poolVars, staticVars, logVars, exportVars>>
    \/ /\ part = "backend" /\ BackendNext
       /\ UNCHANGED <<part, proxyVars, limiterVars, poolVars, staticVars, logVars, exportVars>>
    \/ /\ part = "limiter" /\ LimiterNext
       /\ UNCHANGED <<part, proxyVars, backendVars, poolVars, staticVars, logVars, exportVars>>
    \/ /\ part = "upstream" /\ UpstreamPoolNext
       /\ UNCHANGED <<part, proxyVars, backendVars, limiterVars, staticVars, logVars, exportVars>>
    \/ /\ part = "files" /\ StaticNext
       /\ UNCHANGED <<part, proxyVars, backendVars, limiterVars, poolVars, logVars, exportVars>>
    \/ /\ part = "logs" /\ LogsNext
       /\ UNCHANGED <<part, proxyVars, backendVars, limiterVars, poolVars, staticVars, exportVars>>
    \/ /\ part = "export" /\ ExportNext
       /\ UNCHANGED <<part, proxyVars, backendVars, limiterVars, poolVars, staticVars, logVars>>

DataPlaneSpec == DataPlaneInit /\ [][DataPlaneNext]_DataPlaneVars
=============================================================================
