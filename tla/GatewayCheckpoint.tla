-------------------------- MODULE GatewayCheckpoint --------------------------
(***************************************************************************)
(* The last accepted plugin of a Gateway route: kept by each controller    *)
(* (gateway/build.rs script and History), checkpointed by its writer       *)
(* (gateway/checkpoint.rs) in a ConfigMap all replicas share, and restored *)
(* by a fresh replica before it becomes ready (gateway/controller.rs).     *)
(* One route and its source ConfigMap stand for all; compilation is        *)
(* asynchronous (module ScriptQueue), here a set of finished sources.      *)
(***************************************************************************)
EXTENDS Naturals, FiniteSets

CONSTANTS
    Controllers,
    Broken,             \* source versions that do not compile
    MaxChanges,         \* bound: edits of the tenant and restarts
    MaxWrites           \* bound: checkpoints written

ASSUME GatewayCheckpointAssumption ==
    /\ Broken \subseteq Nat
    /\ {MaxChanges, MaxWrites} \subseteq Nat

VARIABLES
    objects,        \* the API server: [spec, script, map, source, checkpoint, version]
    cache,          \* controller -> what its watches have delivered
    compiledBy,     \* controller -> sources its compiler has finished
    history,        \* controller -> the accepted plugin it serves the route with, or Nothing
    readiness,      \* controller -> snapshot.ready
    writer,         \* controller -> the state of its persist()
    changes         \* edits and restarts so far

checkpointVars == <<objects, cache, compiledBy, history, readiness, writer, changes>>

Nothing == [spec |-> 0, map |-> 0, source |-> 0]
IdleWriter == [at |-> "idle", version |-> 0, accepted |-> Nothing]
Unsynced == [spec |-> 0, script |-> FALSE, map |-> 0, source |-> 0, checkpoint |-> Nothing]

CheckpointInit ==
    /\ objects = [spec |-> 1, script |-> TRUE, map |-> 1, source |-> 1, checkpoint |-> Nothing, version |-> 0]
    /\ cache = [c \in Controllers |-> Unsynced]
    /\ compiledBy = [c \in Controllers |-> {}]
    /\ history = [c \in Controllers |-> Nothing]
    /\ readiness = [c \in Controllers |-> FALSE]
    /\ writer = [c \in Controllers |-> IdleWriter]
    /\ changes = 0

-----------------------------------------------------------------------------
(* The tenant: the route, its annotation and its ConfigMap (0 when it is   *)
(* missing) change.                                                        *)
TenantEdit ==
    /\ changes < MaxChanges
    /\ changes' = changes + 1
    /\ \/ objects' = [objects EXCEPT !.spec = @ + 1]
       \/ objects' = [objects EXCEPT !.script = ~@]
       \/ objects.map # 0 /\ objects' = [objects EXCEPT !.source = @ + 1]
       \/ objects.map # 0 /\ objects' = [objects EXCEPT !.map = @ + 1, !.source = @ + 1]
       \/ objects.map # 0 /\ objects' = [objects EXCEPT !.map = 0]
    /\ UNCHANGED <<cache, compiledBy, history, readiness, writer>>

(* observe(): one watch each for routes, ConfigMaps of the tenant and, in  *)
(* another namespace, checkpoints.  The caches lag independently.          *)
Observe(c) ==
    /\ \/ cache' = [cache EXCEPT ![c].spec = objects.spec, ![c].script = objects.script]
       \/ cache' = [cache EXCEPT ![c].map = objects.map, ![c].source = objects.source]
       \/ cache' = [cache EXCEPT ![c].checkpoint = objects.checkpoint]
    /\ cache' # cache
    /\ UNCHANGED <<objects, compiledBy, history, readiness, writer, changes>>

(* The first build waits for InitDone of every watch.                      *)
Synchronise(c) ==
    /\ cache[c].spec = 0
    /\ cache' = [cache EXCEPT ![c] = [spec |-> objects.spec, script |-> objects.script, map |-> objects.map,
                                      source |-> objects.source, checkpoint |-> objects.checkpoint]]
    /\ UNCHANGED <<objects, compiledBy, history, readiness, writer, changes>>

-----------------------------------------------------------------------------
(* restore(): the checkpoint of the route, if it is of the same ConfigMap; *)
(* not looked for while there is an accepted version.                      *)
Restorable(c) ==
    /\ history[c] = Nothing
    /\ cache[c].checkpoint # Nothing
    /\ cache[c].checkpoint.map = cache[c].map
RestorePending(c) == Restorable(c) /\ cache[c].checkpoint.source \notin compiledBy[c]

(* script() and the end of a failed preparation: the live source if it has *)
(* been compiled, else the accepted version of the same ConfigMap, else    *)
(* nothing.  What is accepted is also what is sent to the writer.          *)
LiveCompiles(c) == cache[c].source \in compiledBy[c] \ Broken
Retained(c) ==
    IF Restorable(c) /\ cache[c].checkpoint.source \in compiledBy[c] \ Broken THEN cache[c].checkpoint
    ELSE IF history[c].map = cache[c].map THEN history[c] ELSE Nothing
Accepted(c) ==
    IF ~cache[c].script \/ cache[c].map = 0 THEN Nothing
    ELSE IF LiveCompiles(c)
         THEN [spec |-> cache[c].spec, map |-> cache[c].map, source |-> cache[c].source]
    ELSE Retained(c)

(* build(): ready once no restore is pending, and from then on.            *)
\* Mutant of BecomesReady: a restore that is being compiled is not waited for.
BecomesReadyAtOnce(c) == cache[c].spec # 0

BecomesReady(c) ==
    \/ readiness[c]
    \/ ~(RestorePending(c) /\ cache[c].script /\ cache[c].map # 0 /\ ~LiveCompiles(c))

BuildRoute(c) ==
    /\ cache[c].spec # 0
    /\ history' = [history EXCEPT ![c] = Accepted(c)]
    /\ readiness' = [readiness EXCEPT ![c] = BecomesReady(c)]
    /\ UNCHANGED <<objects, cache, compiledBy, writer, changes>>

(* The compiler finishes a source a build has submitted.                   *)
Compiles(c) ==
    /\ \E s \in {cache[c].source, cache[c].checkpoint.source} \ ({0} \cup compiledBy[c]) :
         compiledBy' = [compiledBy EXCEPT ![c] = @ \cup {s}]
    /\ UNCHANGED <<objects, cache, history, readiness, writer, changes>>

-----------------------------------------------------------------------------
(* persist(): the checkpoints are listed; an accepted one that differs is  *)
(* written, and one nobody here accepts is pruned.                         *)
List(c) ==
    /\ writer[c].at = "idle" /\ cache[c].spec # 0
    /\ history[c] # objects.checkpoint
    /\ writer' = [writer EXCEPT ![c] =
                    [at |-> IF history[c] # Nothing THEN "write" ELSE "prune",
                     version |-> IF objects.checkpoint = Nothing THEN 0 ELSE objects.version,
                     accepted |-> IF history[c] # Nothing THEN history[c] ELSE objects.checkpoint]]
    /\ UNCHANGED <<objects, cache, compiledBy, history, readiness, changes>>

Move(c, at) == writer' = [writer EXCEPT ![c].at = at]
Stop(c) == writer' = [writer EXCEPT ![c] = IdleWriter]

(* write(): the live route and source must still be the accepted ones.     *)
WriteChecksRoute(c) ==
    /\ writer[c].at = "write"
    /\ IF objects.spec = writer[c].accepted.spec /\ objects.script THEN Move(c, "source") ELSE Stop(c)
    /\ UNCHANGED <<objects, cache, compiledBy, history, readiness, changes>>
WriteChecksSource(c) ==
    /\ writer[c].at = "source"
    /\ IF <<objects.map, objects.source>> = <<writer[c].accepted.map, writer[c].accepted.source>>
       THEN Move(c, "put") ELSE Stop(c)
    /\ UNCHANGED <<objects, cache, compiledBy, history, readiness, changes>>

(* A replace carries the resourceVersion that was listed; a create finds   *)
(* no object.  409 is not an error.                                        *)
\* Mutant of Applied: a replace without the version that was listed.
AppliedAnyway(put) ==
    objects' = [objects EXCEPT !.checkpoint = put.accepted, !.version = @ + 1]

Applied(put) ==
    IF put.version = (IF objects.checkpoint = Nothing THEN 0 ELSE objects.version)
    THEN objects' = [objects EXCEPT !.checkpoint = put.accepted, !.version = @ + 1]
    ELSE UNCHANGED objects

Put(c) ==
    /\ writer[c].at = "put" /\ objects.version < MaxWrites
    /\ Applied(writer[c])
    /\ Stop(c)
    /\ UNCHANGED <<cache, compiledBy, history, readiness, changes>>

(* The request is lost, or takes more than 5 s.  One that is only slow is  *)
(* a Put taken late; a read that fails is a List that was not begun.       *)
GiveUp(c) ==
    /\ writer[c].at = "put"
    /\ Stop(c)
    /\ UNCHANGED <<objects, cache, compiledBy, history, readiness, changes>>

(* prune(): a checkpoint whose route still wants a plugin of the same      *)
(* ConfigMap is another replica's and stays; a delete is conditional too.  *)
PruneChecksRoute(c) ==
    /\ writer[c].at = "prune"
    /\ Move(c, IF objects.script THEN "pruneSource" ELSE "delete")
    /\ UNCHANGED <<objects, cache, compiledBy, history, readiness, changes>>
PruneChecksSource(c) ==
    /\ writer[c].at = "pruneSource"
    /\ IF objects.map = writer[c].accepted.map THEN Stop(c) ELSE Move(c, "delete")
    /\ UNCHANGED <<objects, cache, compiledBy, history, readiness, changes>>
Delete(c) ==
    /\ writer[c].at = "delete"
    /\ objects' = IF objects.version = writer[c].version THEN [objects EXCEPT !.checkpoint = Nothing]
                  ELSE objects
    /\ Stop(c)
    /\ UNCHANGED <<cache, compiledBy, history, readiness, changes>>

Restart(c) ==
    /\ changes < MaxChanges /\ cache[c].spec # 0
    /\ changes' = changes + 1
    /\ cache' = [cache EXCEPT ![c] = Unsynced]
    /\ compiledBy' = [compiledBy EXCEPT ![c] = {}]
    /\ history' = [history EXCEPT ![c] = Nothing]
    /\ readiness' = [readiness EXCEPT ![c] = FALSE]
    /\ writer' = [writer EXCEPT ![c] = IdleWriter]
    /\ UNCHANGED objects

CheckpointNext ==
    \/ TenantEdit
    \/ \E c \in Controllers :
        \/ Synchronise(c) \/ Observe(c) \/ BuildRoute(c) \/ Compiles(c) \/ Restart(c)
        \/ List(c) \/ WriteChecksRoute(c) \/ WriteChecksSource(c) \/ Put(c) \/ GiveUp(c)
        \/ PruneChecksRoute(c) \/ PruneChecksSource(c) \/ Delete(c)

CheckpointSpec == CheckpointInit /\ [][CheckpointNext]_checkpointVars

-----------------------------------------------------------------------------
(* A checkpoint only moves forward: a replica that is behind, or a PUT     *)
(* that is slow, never puts an older route or source in the place of a     *)
(* newer one.                                                              *)
CheckpointsAdvance ==
    [][ objects.checkpoint # Nothing /\ objects'.checkpoint # Nothing =>
            /\ objects'.checkpoint.spec >= objects.checkpoint.spec
            /\ objects'.checkpoint.source >= objects.checkpoint.source ]_checkpointVars

(* A fresh replica reports ready only when the route it can restore is     *)
(* served: traffic never moves to a replica that would refuse what the one *)
(* before it answered.                                                     *)
RestoredBeforeReady ==
    [][ \A c \in Controllers :
            /\ ~readiness[c] /\ readiness'[c]
            /\ cache[c].script /\ cache[c].map # 0
            /\ cache[c].checkpoint.map = cache[c].map
            /\ cache[c].checkpoint.source \notin Broken
            => history'[c] # Nothing ]_checkpointVars
=============================================================================
