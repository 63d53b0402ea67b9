------------------------- MODULE MCPluginCheckpoint -------------------------
(***************************************************************************)
(* A small instance of PluginCheckpoint for its safety properties.  Either *)
(* two replicas run while the tenant edits little, or one does while the   *)
(* tenant edits more: what is put back needs more edits than what two      *)
(* replicas dispute.  The replicas are interchangeable.                    *)
(***************************************************************************)
EXTENDS PluginCheckpoint, TLC

VARIABLE running    \* the replicas that run in this behaviour

ReplicaSymmetry == Permutations(Replicas)

Alone == Cardinality(running) = 1
Stays == \A k \in 1..Len(ilog) : ilog[k].class = "ours"
Kept == \A k \in 1..Len(plog) : plog[k].uid = plog[1].uid

(* Two replicas: two edits, or one and a restart, with new contents each   *)
(* time.  One: routes changed and the source changed or put back, twice    *)
(* each; or the source up to three times, its ConfigMap recreated and the  *)
(* IngressClass away at times, or a restart in between.                    *)
Steps == Len(ilog) + Len(plog) - 2 + restarts
NewRoutes == \A k \in 1..Len(ilog) : ilog[k].spec = k
NewSources == \A k \in 1..Len(plog) : plog[k].src \in {0, k}
Disputed == Steps <= 2 /\ Stays /\ Kept /\ NewRoutes /\ NewSources
Returns == Len(ilog) <= 3 /\ Len(plog) <= 3 /\ restarts = 0 /\ Stays /\ Kept /\ NewRoutes
           /\ \A k \in 1..Len(plog) : plog[k].src # 0
Withdraws == Steps <= 3 /\ \A k \in 1..Len(ilog) : ilog[k].spec = 1
Explored == IF Alone THEN Returns \/ Withdraws ELSE Disputed

MCInit == Init /\ running \in {Replicas} \cup {{r} : r \in Replicas}
MCNext ==
    /\ UNCHANGED running
    /\ \/ Tenant
       \/ Server
       \/ \E r \in running : Controller(r) \/ Persist(r) \/ Restart(r)
    /\ Explored'
MCSpec == MCInit /\ [][MCNext]_<<vars, running>>
=============================================================================
