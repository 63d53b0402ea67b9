---------------------------- MODULE MCLifecycle ----------------------------
(***************************************************************************)
(* What begins and has to end: requests (Proxy), connections and their     *)
(* drain (Connections) and plugin compilations (ScriptQueue).  The parts   *)
(* share no state, so a behaviour moves one of them and the others stay    *)
(* where they begin; there none of their fair actions is enabled.          *)
(***************************************************************************)
EXTENDS Proxy, Connections, ScriptQueue

VARIABLE part       \* the part that moves in this behaviour

MCRequests == 1..2

UpTo2(S) == {{}} \cup {{f, g} : f \in S, g \in S}

(* Two requests of one process, with facts that have to do with waiting:   *)
(* permits of a tenant, a plugin or a mirror, deadlines, a shared          *)
(* connection and tunnels; any two of them in Hyper, one in Pingora.       *)
Waiting == {"tenant", "hookfail", "mirror", "deadline", "h2", "tunnel"}

MCScenarios ==
    {[facts |-> F, engine |-> <<"hyper", "hyper">>] : F \in UpTo2(Waiting)}
    \cup {[facts |-> {f}, engine |-> <<"pingora", "pingora">>] : f \in Waiting}

(* Sources a and b are of one namespace, c and d of another.               *)
MCSources == {"a", "b", "c", "d"}
MCOwner == [s \in MCSources |-> IF s \in {"a", "b"} THEN "n1" ELSE "n2"]
MCWanted == {{}, {"a", "b", "c"}}

LifecycleVars == <<part, proxyVars, connectionsVars, queueVars>>

LifecycleInit ==
    /\ part \in {"proxy", "connections", "scripts"}
    /\ ProxyInit /\ (part # "proxy" => facts = {} /\ engine = <<"hyper", "hyper">>)
    /\ ConnectionsInit
    /\ ScriptQueueInit /\ (part # "scripts" => wanted = {})

LifecycleNext ==
    \/ /\ part = "proxy" /\ ProxyNext
       /\ UNCHANGED <<part, connectionsVars, queueVars>>
    \/ /\ part = "connections" /\ ConnectionsNext
       /\ UNCHANGED <<part, proxyVars, queueVars>>
    \/ /\ part = "scripts" /\ ScriptQueueNext
       /\ UNCHANGED <<part, proxyVars, connectionsVars>>

LifecycleSpec ==
    /\ LifecycleInit /\ [][LifecycleNext]_LifecycleVars
    /\ ProxyFairness /\ ConnectionsFairness /\ ScriptQueueFairness
=============================================================================
