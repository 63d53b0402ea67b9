-------------------------- MODULE PluginCheckpoint --------------------------
(***************************************************************************)
(* How the replicas of the Ingress controller accept, checkpoint and       *)
(* publish the plugin and the routes of one Ingress (src/ingress/mod.rs    *)
(* and src/ingress/checkpoint.rs).                                         *)
(*                                                                         *)
(* Three objects live in the API server: the Ingress, the ConfigMap with   *)
(* the plugin source and the checkpoint ConfigMap.  Each is a log of its   *)
(* versions; the resourceVersion is the index.  Every replica watches all  *)
(* three, each watch with a delay of its own, and rebuilds its snapshot    *)
(* from what it sees.  A version (routes and plugin source) is first       *)
(* proposed, written to the checkpoint by a background task, and published *)
(* once the watch has returned the checkpoint.                             *)
(*                                                                         *)
(* A spec is the routes and policy annotations of an Ingress, a source the *)
(* text under the plugin's key.  The code compares both by content, and a  *)
(* tenant may put an earlier one back, so each is named by the position in *)
(* the log where it first appeared (a source: under its ConfigMap's uid).  *)
(***************************************************************************)
EXTENDS Integers, Sequences, FiniteSets

CONSTANTS
    Replicas,
    Policies,         \* whether the Ingress carries policy annotations
    SecretsMayFail,   \* a Secret that the policy names may be missing
    Compiled,         \* whether the compiler may have a source ready, or not yet
    Edits,            \* what the tenant does: names of edits
    MaxEdits,         \* how often
    MaxRestarts,
    MaxWrites         \* checkpoint writes under way

ASSUME CheckpointAssumption ==
    /\ IsFiniteSet(Replicas)
    /\ Policies \subseteq BOOLEAN
    /\ SecretsMayFail \in BOOLEAN
    /\ Compiled \subseteq BOOLEAN
    /\ Edits \subseteq {"routes", "unscript", "unselect", "unclass", "delete", "source",
                        "invalid", "withdraw", "recreate", "revert"}
    /\ {MaxEdits, MaxRestarts, MaxWrites} \subseteq Nat

VARIABLES
    ilog,     \* the Ingress: spec, whether rgnix.io/script and a policy are set,
              \* and its class: "ours", "other", or "missing" while this
              \* controller's IngressClass is; Gone once deleted
    plog,     \* the plugin ConfigMap: its uid, the source (0: key missing)
    clog,     \* the checkpoint: an accepted version, or NoVersion
    writes,   \* checkpoint writes sent and not yet answered
    seen,     \* seen[r]: the versions in r's reflector stores
    hist,     \* hist[r]: History, as far as it concerns this Ingress
    served,   \* served[r]: the version in r's published snapshot
    task,     \* task[r]: the persist task
    restarts, \* (bound) restarts so far
    barred,   \* (history) barred[r]: the last plugin version in which r's
              \* process found its plugin withdrawn, as far as it remembers
    live,     \* (history) positions of ilog and plog in force together
    written   \* (history) written[k]: those in force when clog[k] was written

vars == <<ilog, plog, clog, writes, seen, hist, served, task, restarts, barred,
          live, written>>

NoSpec  == 0
NoUid   == 0
Builtin == 1                           \* the uid "builtin" of policy::PASS
Version == [spec : Nat, uid : Nat, src : Nat]
NoVersion == [spec |-> NoSpec, uid |-> NoUid, src |-> 0]
Gone == [spec |-> NoSpec, script |-> FALSE, policy |-> FALSE, class |-> "other"]
Ingresses == [spec : Nat, script : BOOLEAN, policy : BOOLEAN, class : {"ours", "other", "missing"}]
Moment == [ingress : Nat, plugin : Nat]
Now == [ingress |-> Len(ilog), plugin |-> Len(plog)]

History   == [accepted : Version, routes : Nat, proposal : Version,
              revoked : BOOLEAN]
NoHistory == [accepted |-> NoVersion, routes |-> NoSpec, proposal |-> NoVersion,
              revoked |-> FALSE]

\* The persist task: off before the first build, idle, on its way to write the
\* version it wants, or on its way to delete the version it found.
Found == Version \ {NoVersion}
Idle  == [step |-> "idle", want |-> NoVersion, prev |-> NoVersion, rv |-> 0]
Off   == [Idle EXCEPT !.step = "off"]
Task  == {Idle, Off}
         \cup [step : {"ingress", "plugin"}, want : Found, prev : Version, rv : Nat]
         \cup [step : {"prune", "pruneplugin"}, want : {NoVersion}, prev : Found, rv : Nat]

Write == [op : {"create", "replace"}, rv : Nat, value : Found]
         \cup [op : {"delete"}, rv : Nat, value : {NoVersion}]

ingress    == ilog[Len(ilog)]
plugin     == plog[Len(plog)]
checkpoint == clog[Len(clog)]

TypeOK ==
    /\ ilog \in Seq(Ingresses)
    /\ plog \in Seq([uid : Nat, src : Nat, valid : BOOLEAN])
    /\ clog \in Seq(Version)
    /\ writes \subseteq Write
    /\ seen \in [Replicas -> [ingress : 1..Len(ilog), plugin : 1..Len(plog),
                              checkpoint : 1..Len(clog)]]
    /\ hist \in [Replicas -> History]
    /\ served \in [Replicas -> Version]
    /\ task \in [Replicas -> Task]
    /\ restarts \in 0..MaxRestarts
    /\ barred \in [Replicas -> Nat]
    /\ live \subseteq Moment
    /\ written \in Seq(Moment) /\ Len(written) = Len(clog)

Init ==
    /\ \E b \in Policies :
          ilog = << [spec |-> 1, script |-> TRUE, policy |-> b, class |-> "ours"] >>
    /\ plog = << [uid |-> 2, src |-> 1, valid |-> TRUE] >>
    /\ clog = << NoVersion >>
    /\ writes = {}
    /\ seen = [r \in Replicas |-> [ingress |-> 1, plugin |-> 1, checkpoint |-> 1]]
    /\ hist = [r \in Replicas |-> NoHistory]
    /\ served = [r \in Replicas |-> NoVersion]
    /\ task = [r \in Replicas |-> Off]
    /\ restarts = 0
    /\ barred = [r \in Replicas |-> 0]
    /\ live = {Now}
    /\ written = << Now >>

-----------------------------------------------------------------------------
(* The tenant edits the Ingress and the plugin.                            *)

Edit(name, i, p) ==
    /\ name \in Edits
    /\ Len(i) + Len(p) <= MaxEdits + 2
    /\ ilog' = i
    /\ plog' = p
    /\ live' = live \cup {Now'}
    /\ UNCHANGED <<clog, writes, seen, hist, served, task, restarts, barred, written>>

\* A deleted Ingress does not come back: a new one has a uid, and a checkpoint,
\* of its own.
EditIngress(name, edited) ==
    /\ ingress # Gone
    /\ Edit(name, Append(ilog, edited), plog)

EditPlugin(name, uid, src, valid) ==
    Edit(name, ilog, Append(plog, [uid |-> uid, src |-> src, valid |-> valid]))

NewSpec(script, class) ==
    [spec |-> Len(ilog) + 1, script |-> script, policy |-> ingress.policy, class |-> class]

Tenant ==
    \/ EditIngress("routes", NewSpec(TRUE, "ours"))
    \/ EditIngress("unscript", NewSpec(FALSE, "ours"))
    \/ EditIngress("unselect", NewSpec(ingress.script, "other"))
    \/ EditIngress("unclass", [ingress EXCEPT !.class = "missing"])
    \/ EditIngress("delete", Gone)
    \/ \E i \in 1..Len(ilog) : ilog[i] # ingress /\ EditIngress("revert", ilog[i])
    \/ EditPlugin("source", plugin.uid, Len(plog) + 1, TRUE)
    \/ EditPlugin("invalid", plugin.uid, Len(plog) + 1, FALSE)
    \/ plugin.src # 0 /\ EditPlugin("withdraw", plugin.uid, 0, FALSE)
    \/ EditPlugin("recreate", plugin.uid + 1, Len(plog) + 1, TRUE)
    \/ \E p \in 1..Len(plog) :
          /\ plog[p].uid = plugin.uid /\ plog[p].src \notin {0, plugin.src}
          /\ EditPlugin("revert", plog[p].uid, plog[p].src, plog[p].valid)

-----------------------------------------------------------------------------
(* build(): what one pass makes of the history, given the Ingress ing, the *)
(* plugin ConfigMap plug and the checkpoint ckpt that the replica sees.    *)

\* The plugin that the Ingress refers to, as a set of at most one; no element
\* if the key is missing.  "plain" stands for no reference at all.
Referenced(ing, plug) ==
    IF ing.script THEN
        IF plug.src = 0 THEN {} ELSE {plug}
    ELSE {[uid |-> Builtin, src |-> 0, valid |-> TRUE]}

Plain(h, ing) == ~ing.script /\ ~ing.policy /\ h.accepted = NoVersion

\* Compiler::cached: a source whose compiled form the history still holds needs
\* no compilation; another one may or may not be ready.
Ready(h, v, compiled) ==
    compiled \/ \E held \in {h.accepted, h.proposal} \ {NoVersion} :
                   held.uid = v.uid /\ held.src = v.src

\* A plugin of another uid revokes everything that was accepted.
AfterRevocation(h, s) ==
    IF h.accepted # NoVersion /\ h.accepted.uid # s.uid
    THEN [NoHistory EXCEPT !.revoked = TRUE] ELSE h

\* checkpoint::restore: only a checkpoint for the same plugin uid counts.
Durable(ckpt, s) == IF ckpt.uid = s.uid THEN ckpt ELSE NoVersion

\* Mutant of AfterRestore: a withdrawn plugin is restored from its checkpoint.
AfterRestoreRevoked(h, durable, compiles) ==
    IF durable # NoVersion /\ h.accepted # durable /\ compiles
    THEN [h EXCEPT !.accepted = durable, !.routes = durable.spec] ELSE h

AfterRestore(h, durable, compiles) ==
    IF ~h.revoked /\ durable # NoVersion /\ h.accepted # durable /\ compiles
    THEN [h EXCEPT !.accepted = durable, !.routes = durable.spec] ELSE h

\* Mutant of AfterDecision: a candidate that compiles is accepted at once.
AfterDecisionAtOnce(h, durable, candidate, compiles) ==
    IF ~compiles THEN [h EXCEPT !.proposal = NoVersion]
    ELSE [h EXCEPT !.accepted = candidate, !.proposal = candidate, !.revoked = FALSE]

\* The candidate is accepted once the checkpoint holds it, and proposed
\* until then; a candidate that does not compile is not even proposed.
AfterDecision(h, durable, candidate, compiles) ==
    IF ~compiles THEN [h EXCEPT !.proposal = NoVersion]
    ELSE IF durable = candidate
    THEN [h EXCEPT !.accepted = candidate, !.proposal = NoVersion, !.revoked = FALSE]
    ELSE [h EXCEPT !.proposal = candidate]

Withdrawn(h) ==
    [h EXCEPT !.accepted = NoVersion, !.proposal = NoVersion, !.revoked = TRUE]

\* The routes to publish: without a fresh acceptance those that served before,
\* if they are still known.  h is the history after the decision.
Routing(h, spec, fresh) ==
    IF ~fresh /\ h.routes # NoSpec THEN h.routes ELSE spec

Publish(r, h, version) ==
    /\ served' = [served EXCEPT ![r] = version]
    /\ hist' = [hist EXCEPT ![r] = [h EXCEPT !.routes = version.spec]]

Sees(r, i, p, c) ==
    /\ seen' = [seen EXCEPT ![r] = [ingress |-> i, plugin |-> p, checkpoint |-> c]]
    /\ task' = [task EXCEPT ![r] = IF @ = Off THEN Idle ELSE @]
    /\ UNCHANGED <<ilog, plog, clog, writes, restarts, live, written>>

\* The Ingress is not one of this controller's: its history is dropped.
BuildUnselected(r, i, p, c) ==
    /\ ilog[i].class = "other"
    /\ Sees(r, i, p, c)
    /\ Publish(r, NoHistory, NoVersion)
    /\ barred' = [barred EXCEPT ![r] = 0]

\* There is no IngressClass: nothing is published and all is forgotten, but not
\* what was revoked.
BuildUnclassed(r, i, p, c) ==
    /\ ilog[i].class = "missing"
    /\ Sees(r, i, p, c)
    /\ Publish(r, [NoHistory EXCEPT !.revoked = hist[r].revoked], NoVersion)
    /\ barred' = [barred EXCEPT ![r] = IF hist[r].revoked THEN @ ELSE 0]

\* No annotation asks for a plugin: the routes are published as they are.
BuildPlain(r, i, p, c) ==
    /\ ilog[i].class = "ours" /\ Plain(hist[r], ilog[i])
    /\ Sees(r, i, p, c)
    /\ Publish(r, Withdrawn(hist[r]),
               [spec |-> ilog[i].spec, uid |-> NoUid, src |-> 0])
    /\ UNCHANGED barred

\* The plugin's ConfigMap or key is missing: the routes are disabled.
BuildMissing(r, i, p, c) ==
    /\ ilog[i].class = "ours" /\ ~Plain(hist[r], ilog[i])
    /\ Referenced(ilog[i], plog[p]) = {}
    /\ Sees(r, i, p, c)
    /\ Publish(r, Withdrawn(hist[r]), NoVersion)
    /\ barred' = [barred EXCEPT ![r] = p]

\* restores, compiles: whether the compiler has finished the accepted and the new
\* source; secrets: whether the Secrets of the policy are there.
BuildPlugin(r, i, p, c, restores, compiles, secrets) ==
    \E s \in Referenced(ilog[i], plog[p]) :
        LET spec    == ilog[i].spec
            h1      == AfterRevocation(hist[r], s)
            durable == Durable(clog[c], s)
            h2      == AfterRestore(h1, durable, Ready(hist[r], durable, restores))
            cand    == [spec |-> spec, uid |-> s.uid, src |-> s.src]
            ok      == Ready(hist[r], s, compiles) /\ s.valid /\ secrets
            h3      == AfterDecision(h2, durable, cand, ok)
            fresh   == ok /\ durable = cand
        IN
        /\ ilog[i].class = "ours" /\ ~Plain(hist[r], ilog[i])
        /\ Sees(r, i, p, c)
        /\ Publish(r, h3, IF h3.accepted = NoVersion \/ ~secrets THEN NoVersion
                          ELSE [h3.accepted EXCEPT !.spec = Routing(h3, spec, fresh)])
        /\ barred' = IF h1 = hist[r] THEN barred ELSE [barred EXCEPT ![r] = p]

Build(r, i, p, c) ==
    \/ BuildUnclassed(r, i, p, c)
    \/ BuildUnselected(r, i, p, c)
    \/ BuildPlain(r, i, p, c)
    \/ BuildMissing(r, i, p, c)
    \/ \E restores, compiles \in Compiled, secrets \in {TRUE, ~(SecretsMayFail /\ ilog[i].policy)} :
          BuildPlugin(r, i, p, c, restores, compiles, secrets)

-----------------------------------------------------------------------------
(* checkpoint::persist, one step per call to the API server.  A newer      *)
(* desired state or a timeout may cut the task short: that is the same as  *)
(* a write that is lost.                                                   *)

\* Mutant of Desired: only what was accepted before is persisted.
DesiredAccepted(h) == h.accepted

Desired(h) == IF h.proposal # NoVersion THEN h.proposal ELSE h.accepted

Step(r, t) ==
    /\ task' = [task EXCEPT ![r] = t]
    /\ UNCHANGED <<ilog, plog, clog, seen, hist, served, restarts, barred, live, written>>

Send(r, w) ==
    /\ Cardinality(writes) < MaxWrites
    /\ writes' = writes \cup {w}
    /\ Step(r, Idle)

\* List the checkpoints and compare with what is desired.
PersistList(r) ==
    LET want == Desired(hist[r])
        step == IF want = checkpoint THEN "idle"
                ELSE IF want = NoVersion THEN "prune" ELSE "ingress"
    IN
    /\ task[r].step = "idle"
    /\ Step(r, IF step = "idle" THEN Idle
               ELSE [step |-> step, want |-> want, prev |-> checkpoint, rv |-> Len(clog)])
    /\ UNCHANGED writes

\* persist_one: create or replace the checkpoint.
SendCheckpoint(r) ==
    LET t == task[r] IN
    Send(r, IF t.prev = NoVersion THEN [op |-> "create", rv |-> 0, value |-> t.want]
            ELSE [op |-> "replace", rv |-> t.rv, value |-> t.want])

\* Mutant of PersistCheckIngress: the Ingress is not read again.
PersistSkipIngress(r) ==
    /\ task[r].step = "ingress"
    /\ IF task[r].want.uid = Builtin THEN SendCheckpoint(r)
       ELSE Step(r, [task[r] EXCEPT !.step = "plugin"]) /\ UNCHANGED writes

\* persist_one: the Ingress must still be the one that was accepted.
PersistCheckIngress(r) ==
    LET t == task[r] IN
    /\ t.step = "ingress"
    /\ \/ ingress.spec # t.want.spec /\ Step(r, Idle) /\ UNCHANGED writes
       \/ /\ ingress.spec = t.want.spec
          /\ IF t.want.uid = Builtin THEN SendCheckpoint(r)
             ELSE Step(r, [t EXCEPT !.step = "plugin"]) /\ UNCHANGED writes

\* persist_one: and so must the plugin.
PersistCheckPlugin(r) ==
    LET t    == task[r]
        same == plugin.uid = t.want.uid /\ plugin.src = t.want.src
    IN
    /\ t.step = "plugin"
    /\ \/ ~same /\ Step(r, Idle) /\ UNCHANGED writes
       \/ same /\ SendCheckpoint(r)

SendDelete(r) ==
    Send(r, [op |-> "delete", rv |-> task[r].rv, value |-> NoVersion])

\* prune_one: a checkpoint that this replica does not want may still be
\* wanted by the Ingress as it is now.
PruneCheckIngress(r) ==
    LET t == task[r] IN
    /\ t.step = "prune"
    /\ \/ t.prev.uid = Builtin /\ ingress.policy /\ Step(r, Idle) /\ UNCHANGED writes
       \/ /\ ~(t.prev.uid = Builtin /\ ingress.policy)
          /\ IF ~ingress.script THEN SendDelete(r)
             ELSE Step(r, [t EXCEPT !.step = "pruneplugin"]) /\ UNCHANGED writes

PruneCheckPlugin(r) ==
    LET t    == task[r]
        kept == plugin.uid = t.prev.uid /\ plugin.src # 0
    IN
    /\ t.step = "pruneplugin"
    /\ \/ kept /\ Step(r, Idle) /\ UNCHANGED writes
       \/ ~kept /\ SendDelete(r)

-----------------------------------------------------------------------------
(* The API server answers a write: create needs the name to be free, and   *)
(* replace and delete the resourceVersion to be current.                   *)

\* Mutant of Accepts: writes without resourceVersion.
AcceptsAny(w) ==
    IF w.op = "create" THEN checkpoint = NoVersion ELSE checkpoint # NoVersion

Accepts(w) ==
    IF w.op = "create" THEN checkpoint = NoVersion
    ELSE w.rv = Len(clog) /\ checkpoint # NoVersion

ApplyWrite(w) ==
    /\ Accepts(w)
    /\ clog' = Append(clog, w.value)
    /\ written' = Append(written, Now)
    /\ writes' = writes \ {w}
    /\ UNCHANGED <<ilog, plog, seen, hist, served, task, restarts, barred, live>>

\* The write is refused with 409, or lost.
DropWrite(w) ==
    /\ writes' = writes \ {w}
    /\ UNCHANGED <<ilog, plog, clog, seen, hist, served, task, restarts, barred, live, written>>

\* The process is replaced: a new one lists the objects before it builds.
Restart(r) ==
    /\ restarts < MaxRestarts
    /\ task[r] # Off
    /\ restarts' = restarts + 1
    /\ seen' = [seen EXCEPT ![r] = [ingress |-> Len(ilog), plugin |-> Len(plog),
                                    checkpoint |-> Len(clog)]]
    /\ hist' = [hist EXCEPT ![r] = NoHistory]
    /\ served' = [served EXCEPT ![r] = NoVersion]
    /\ task' = [task EXCEPT ![r] = Off]
    /\ barred' = [barred EXCEPT ![r] = 0]
    /\ UNCHANGED <<ilog, plog, clog, writes, live, written>>

-----------------------------------------------------------------------------
Controller(r) ==
    \E i \in seen[r].ingress..Len(ilog), p \in seen[r].plugin..Len(plog),
       c \in seen[r].checkpoint..Len(clog) : Build(r, i, p, c)

Persist(r) ==
    \/ PersistList(r)
    \/ PersistCheckIngress(r)
    \/ PersistCheckPlugin(r)
    \/ PruneCheckIngress(r)
    \/ PruneCheckPlugin(r)

Server == \E w \in writes : ApplyWrite(w) \/ DropWrite(w)

Next ==
    \/ Tenant
    \/ Server
    \/ \E r \in Replicas : Controller(r) \/ Persist(r) \/ Restart(r)

Spec == Init /\ [][Next]_vars

(***************************************************************************)
(* The controller loop wakes on every event and, while a diagnostic stands,*)
(* at least every five seconds; the compiler finishes; the persist task    *)
(* runs every ten seconds, is not cut short for ever, and its writes are   *)
(* not lost every time.                                                    *)
(***************************************************************************)
Fairness ==
    /\ \A r \in Replicas :
          /\ WF_vars(\/ BuildUnclassed(r, Len(ilog), Len(plog), Len(clog))
                     \/ BuildUnselected(r, Len(ilog), Len(plog), Len(clog))
                     \/ BuildPlain(r, Len(ilog), Len(plog), Len(clog))
                     \/ BuildMissing(r, Len(ilog), Len(plog), Len(clog))
                     \/ BuildPlugin(r, Len(ilog), Len(plog), Len(clog), TRUE, TRUE, TRUE))
          /\ WF_vars(Persist(r))
    /\ SF_vars(\E w \in writes : ApplyWrite(w))
    /\ WF_vars(\E w \in writes : DropWrite(w))

FairSpec == Spec /\ Fairness
-----------------------------------------------------------------------------
(* Properties.                                                             *)

UsesPlugin(v) == v.uid # NoUid

\* Publication follows the watch acknowledgement of the checkpoint (build):
\* routes and plugin that serve traffic together were checkpointed together.
ServedIsDurable ==
    \A r \in Replicas : UsesPlugin(served[r]) =>
        \E i \in 1..Len(clog) : clog[i] = served[r]

HasSource(entry, v) == entry.uid = v.uid /\ entry.src = v.src

\* The routes and the source of v were each in force at the moment m or later.
Follows(v, m) ==
    /\ \E i \in 1..Len(ilog) : i >= m.ingress /\ ilog[i].spec = v.spec
    /\ v.uid > Builtin => \E p \in 1..Len(plog) : p >= m.plugin /\ HasSource(plog[p], v)

\* Nobody wanted v at the moment m or later: the Ingress had no plugin, or
\* another one, or a built-in version had no policy to go with.
Unwanted(v, m) ==
    \/ \E i \in 1..Len(ilog) : i >= m.ingress /\ ~ilog[i].script
    \/ v.uid = Builtin /\ \E i \in 1..Len(ilog) : i >= m.ingress /\ ~ilog[i].policy
    \/ v.uid > Builtin /\ \E p \in 1..Len(plog) :
          p >= m.plugin /\ (plog[p].uid # v.uid \/ plog[p].src = 0)

\* A lagging replica never overwrites a newer accepted configuration, and never
\* prunes one that is wanted (persist_one and prune_one verify the sources after
\* they listed the checkpoint): what takes the place of a checkpoint was in
\* force, and what removes one became true, after it was written.
CheckpointNeverRegresses ==
    [][checkpoint # NoVersion /\ clog' # clog =>
          LET m == written[Len(clog)]
          IN IF checkpoint' = NoVersion THEN Unwanted(checkpoint, m)
             ELSE Follows(checkpoint', m)]_vars

\* Routes and source of v in force together; or the source in force before and
\* after the routes, and not while they were.
InForce(v) ==
    \E m \in live : ilog[m.ingress].spec = v.spec /\ HasSource(plog[m.plugin], v)
Away(v, m) ==
    /\ ilog[m.ingress].spec = v.spec /\ ~HasSource(plog[m.plugin], v)
    /\ \E before \in 1..Len(plog) : before < m.plugin /\ HasSource(plog[before], v)
PutBack(v) ==
    \E m \in live : Away(v, m) /\ \E after \in 1..Len(plog) : after > m.plugin /\ HasSource(plog[after], v)

\* A checkpoint never mixes routes and a plugin source that were not in force
\* together, although persist_one reads the two one after the other and
\* replicas see them through different watches; unless the tenant replaced the
\* source and put it back between the two reads, which compare its text.
CheckpointWasLive ==
    \A i \in 1..Len(clog) : clog[i].uid > Builtin => InForce(clog[i]) \/ PutBack(clog[i])

\* The source of v was in force in version b of the plugin or later.
Since(v, b) == \E p \in 1..Len(plog) : p >= b /\ HasSource(plog[p], v)

\* The source of v was checkpointed after one of the same plugin that was in
\* force since b: by a create that was under way all the while, or because the
\* tenant put a source back whose checkpoint is older than that of v.
CameBack(v, b) ==
    \E k \in 1..Len(clog) : \E j \in 1..k :
        /\ HasSource(clog[k], v)
        /\ clog[j].uid = v.uid /\ Since(clog[j], b)

\* Once a process has found its plugin withdrawn or recreated, no source from
\* before is served by it again, whatever checkpoints it still sees (revoked),
\* unless the checkpoints themselves bring it back after a source from since.
WithdrawnStaysDown ==
    \A r \in Replicas : served[r].uid > Builtin =>
        Since(served[r], barred[r]) \/ CameBack(served[r], barred[r])

\* When the tenant is done and left a plugin that compiles, every replica ends
\* up serving it with the current routes.
Converges ==
    <>[](ingress.class = "ours" /\ ingress.script /\ plugin.src # 0 /\ plugin.valid =>
           \A r \in Replicas :
              served[r] = [spec |-> ingress.spec, uid |-> plugin.uid, src |-> plugin.src])
=============================================================================
