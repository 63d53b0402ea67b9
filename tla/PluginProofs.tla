---------------------------- MODULE PluginProofs ----------------------------
(***************************************************************************)
(* Proofs about the checkpoint of the Ingress controller                   *)
(* (PluginCheckpoint), for any number of replicas, edits, restarts and     *)
(* writes under way.                                                       *)
(*                                                                         *)
(* The replicas act on what they saw, and their writes arrive late.  The   *)
(* inductive invariant says what a version anywhere in the system may be   *)
(* (Past: its source has existed), what a persist task knows between its   *)
(* two reads of the API server (TaskOk: the pair it wants was in force, or *)
(* its source was away while the routes were), and what a write still      *)
(* under way may do to the checkpoint it names (WriteOk).                  *)
(***************************************************************************)
EXTENDS PluginCheckpoint, TLAPS

Plugins == [uid : Nat, src : Nat, valid : BOOLEAN]
Positions == [ingress : Nat \ {0}, plugin : Nat \ {0}, checkpoint : Nat \ {0}]
Steps == {"off", "idle", "ingress", "plugin", "prune", "pruneplugin"}
Tasks == [step : Steps, want : Version, prev : Version, rv : Nat]
Writes == [op : {"create", "replace", "delete"}, rv : Nat, value : Version]

CkType ==
    /\ ilog \in Seq(Ingresses) /\ plog \in Seq(Plugins) /\ clog \in Seq(Version)
    /\ writes \in SUBSET Writes /\ seen \in [Replicas -> Positions]
    /\ hist \in [Replicas -> History] /\ served \in [Replicas -> Version]
    /\ task \in [Replicas -> Tasks] /\ written \in Seq(Moment)

(* An Ingress of this controller has routes, a plugin has a uid of its     *)
(* own, and a moment is one of the positions so far.                       *)
Routed(entry) == entry.class = "ours" => entry.spec > 0
Reached(m) == m.ingress \in 1..Len(ilog) /\ m.plugin \in 1..Len(plog)
Logs ==
    /\ Len(ilog) > 0 /\ \A k \in 1..Len(ilog) : Routed(ilog[k])
    /\ Len(plog) > 0 /\ \A k \in 1..Len(plog) : plog[k].uid > Builtin
    /\ Len(clog) > 0 /\ Len(written) = Len(clog)
    /\ \A k \in 1..Len(written) : Reached(written[k])
    /\ \A m \in live : Reached(m)

(* A version made of routes and of a source that has been in force.        *)
Past(v) == v # NoVersion => v.spec > 0 /\ v.uid >= Builtin /\ (v.uid > Builtin => Since(v, 0))

WasLive(v) == v.uid > Builtin => InForce(v) \/ PutBack(v)
LiveNow == Now \in live

LogOk == \A k \in 1..Len(clog) : Past(clog[k]) /\ WasLive(clog[k])

(* Since m the routes of v were in force; there was no policy.             *)
RoutesSince(v, m) == \E i \in 1..Len(ilog) : i >= m.ingress /\ ilog[i].spec = v.spec
NoPolicySince(m) == \E i \in 1..Len(ilog) : i >= m.ingress /\ ~ilog[i].policy

TaskOk(t) ==
    /\ Past(t.want) /\ Past(t.prev)
    /\ t.step \notin {"off", "idle"} => t.rv \in 1..Len(clog) /\ clog[t.rv] = t.prev
    /\ t.step \in {"ingress", "plugin"} => t.want # NoVersion
    /\ t.step \in {"prune", "pruneplugin"} => t.prev # NoVersion
    /\ t.step = "pruneplugin" /\ t.prev.uid = Builtin => NoPolicySince(written[t.rv])
    /\ t.step = "plugin" =>
        /\ t.want.uid > Builtin /\ RoutesSince(t.want, written[t.rv])
        /\ InForce(t.want) \/ \E m \in live : Away(t.want, m)

WriteOk(w) ==
    /\ Past(w.value) /\ WasLive(w.value)
    /\ w.op = "replace" =>
        w.value # NoVersion /\ w.rv \in 1..Len(clog) /\ Follows(w.value, written[w.rv])
    /\ w.op = "delete" =>
        w.value = NoVersion /\ w.rv \in 1..Len(clog) /\ Unwanted(clog[w.rv], written[w.rv])

HistOk(h) == Past(h.accepted) /\ Past(h.proposal)

(* Without missing Secrets what is accepted is checkpointed and its routes *)
(* are the ones remembered.                                                *)
InLog(v) == v.uid # NoUid => \E k \in 1..Len(clog) : clog[k] = v
RoutesOk(h) == h.accepted # NoVersion => h.routes = h.accepted.spec
Acknowledged(r) == InLog(served[r]) /\ InLog(hist[r].accepted) /\ RoutesOk(hist[r])

CkInv ==
    /\ CkType /\ Logs /\ LiveNow /\ LogOk
    /\ \A r \in Replicas : TaskOk(task[r]) /\ HistOk(hist[r])
    /\ \A w \in writes : WriteOk(w)
    /\ ~SecretsMayFail => \A r \in Replicas : Acknowledged(r)

-----------------------------------------------------------------------------
LEMMA NoVersionIs ==
    /\ NoVersion \in Version /\ NoVersion.spec = 0 /\ NoVersion.uid = 0 /\ NoVersion.src = 0
    /\ Past(NoVersion) /\ WasLive(NoVersion) /\ InLog(NoVersion)
  BY DEF NoVersion, Version, NoSpec, NoUid, Past, WasLive, InLog, Builtin

LEMMA AppendIs ==
    ASSUME NEW S, NEW s \in Seq(S), NEW e \in S
    PROVE  /\ Append(s, e) \in Seq(S) /\ Len(Append(s, e)) = Len(s) + 1 /\ Len(s) \in Nat
           /\ \A i \in 1..Len(s) : Append(s, e)[i] = s[i]
           /\ Append(s, e)[Len(s) + 1] = e
  OBVIOUS

LEMMA EntriesAre ==
    ASSUME CkType, Logs
    PROVE  /\ Len(ilog) \in Nat \ {0} /\ Len(plog) \in Nat \ {0} /\ Len(clog) \in Nat \ {0}
           /\ \A k \in 1..Len(ilog) : ilog[k] \in Ingresses
           /\ \A k \in 1..Len(plog) : plog[k] \in Plugins
           /\ \A k \in 1..Len(clog) : clog[k] \in Version
           /\ ingress \in Ingresses /\ ingress = ilog[Len(ilog)]
           /\ plugin \in Plugins /\ plugin = plog[Len(plog)] /\ plugin.uid > Builtin
           /\ checkpoint \in Version /\ checkpoint = clog[Len(clog)] /\ Len(clog) \in 1..Len(clog)
           /\ Len(ilog) \in 1..Len(ilog) /\ Len(plog) \in 1..Len(plog)
<1>1. Len(ilog) \in Nat \ {0} /\ Len(plog) \in Nat \ {0} /\ Len(clog) \in Nat \ {0}
  BY DEF CkType, Logs
<1>2. /\ \A k \in 1..Len(ilog) : ilog[k] \in Ingresses
      /\ \A k \in 1..Len(plog) : plog[k] \in Plugins
      /\ \A k \in 1..Len(clog) : clog[k] \in Version
  BY DEF CkType
<1>3. Len(ilog) \in 1..Len(ilog) /\ Len(plog) \in 1..Len(plog) /\ Len(clog) \in 1..Len(clog)
  BY <1>1
<1> QED BY <1>1, <1>2, <1>3 DEF Logs, ingress, plugin, checkpoint

(* What holds of versions, tasks and writes goes on to hold as the logs    *)
(* grow.                                                                   *)
Grown ==
    /\ Len(ilog) \in Nat /\ Len(plog) \in Nat /\ Len(clog) \in Nat
    /\ Len(ilog') \in Nat /\ Len(plog') \in Nat /\ Len(clog') \in Nat
    /\ Len(ilog) <= Len(ilog') /\ Len(plog) <= Len(plog') /\ Len(clog) <= Len(clog')
    /\ \A k \in 1..Len(ilog) : ilog'[k] = ilog[k]
    /\ \A k \in 1..Len(plog) : plog'[k] = plog[k]
    /\ \A k \in 1..Len(clog) : clog'[k] = clog[k] /\ written'[k] = written[k]
    /\ live \subseteq live' /\ \A m \in live : Reached(m)

LEMMA SinceGrows == ASSUME Grown, NEW v, NEW b, Since(v, b) PROVE Since(v, b)'
<1>1. PICK p \in 1..Len(plog) : p >= b /\ HasSource(plog[p], v)
  BY DEF Since
<1>2. p \in 1..Len(plog') /\ plog'[p] = plog[p]
  BY DEF Grown
<1> QED BY <1>1, <1>2 DEF Since, HasSource

LEMMA PastGrows == ASSUME Grown, NEW v, Past(v) PROVE Past(v)'
<1>1. Since(v, 0) => Since(v, 0)'
  BY SinceGrows
<1> QED BY <1>1 DEF Past

LEMMA ForceGrows ==
    ASSUME Grown, NEW v
    PROVE  /\ InForce(v) => InForce(v)'
           /\ (\E m \in live : Away(v, m)) => (\E m \in live : Away(v, m))'
           /\ PutBack(v) => PutBack(v)'
<1>1. ASSUME NEW m \in live
      PROVE  m \in live' /\ ilog'[m.ingress] = ilog[m.ingress] /\ plog'[m.plugin] = plog[m.plugin]
  BY DEF Grown, Reached
<1>2. \A k \in 1..Len(plog) : k \in 1..Len(plog') /\ plog'[k] = plog[k]
  BY DEF Grown
<1>3. InForce(v) => InForce(v)'
  BY <1>1 DEF InForce, HasSource
<1>4. ASSUME NEW m \in live, Away(v, m) PROVE Away(v, m)'
  <2>1. PICK before \in 1..Len(plog) : before < m.plugin /\ HasSource(plog[before], v)
    BY <1>4 DEF Away
  <2>2. before \in 1..Len(plog') /\ before < m.plugin /\ HasSource(plog'[before], v)
    BY <1>2, <2>1
  <2>3. ilog'[m.ingress].spec = v.spec /\ ~HasSource(plog'[m.plugin], v)
    BY <1>1, <1>4 DEF Away
  <2> QED BY <2>2, <2>3 DEF Away, HasSource
<1>5. PutBack(v) => PutBack(v)'
  <2>1. SUFFICES ASSUME PutBack(v) PROVE PutBack(v)'
    OBVIOUS
  <2>2. PICK m \in live : Away(v, m) /\ \E after \in 1..Len(plog) : after > m.plugin /\ HasSource(plog[after], v)
    BY <2>1 DEF PutBack
  <2>3. PICK after \in 1..Len(plog) : after > m.plugin /\ HasSource(plog[after], v)
    BY <2>2
  <2>4. m \in live' /\ Away(v, m)' /\ after \in 1..Len(plog') /\ HasSource(plog'[after], v)
    BY <1>1, <1>2, <1>4, <2>2, <2>3
  <2> QED BY <2>3, <2>4 DEF PutBack, HasSource
<1> QED BY <1>1, <1>3, <1>4, <1>5

LEMMA LiveGrows == ASSUME Grown, NEW v, WasLive(v) PROVE WasLive(v)'
  BY ForceGrows DEF WasLive

LEMMA RoutesGrow ==
    ASSUME Grown, NEW v, NEW m
    PROVE  (RoutesSince(v, m) => RoutesSince(v, m)') /\ (NoPolicySince(m) => NoPolicySince(m)')
<1>1. \A k \in 1..Len(ilog) : k \in 1..Len(ilog') /\ ilog'[k] = ilog[k]
  BY DEF Grown
<1> QED BY <1>1 DEF RoutesSince, NoPolicySince

LEMMA FollowsGrows == ASSUME Grown, NEW v, NEW m PROVE Follows(v, m) => Follows(v, m)'
<1>1. RoutesSince(v, m) => RoutesSince(v, m)'
  BY RoutesGrow
<1>2. Since(v, m.plugin) => Since(v, m.plugin)'
  BY SinceGrows
<1> QED BY <1>1, <1>2 DEF Follows, RoutesSince, Since

LEMMA UnwantedGrows == ASSUME Grown, NEW v, NEW m PROVE Unwanted(v, m) => Unwanted(v, m)'
<1>1. \A k \in 1..Len(ilog) : k \in 1..Len(ilog') /\ ilog'[k] = ilog[k]
  BY DEF Grown
<1>2. \A k \in 1..Len(plog) : k \in 1..Len(plog') /\ plog'[k] = plog[k]
  BY DEF Grown
<1> QED BY <1>1, <1>2 DEF Unwanted

LEMMA InLogGrows == ASSUME Grown, NEW v, InLog(v) PROVE InLog(v)'
<1>1. \A k \in 1..Len(clog) : k \in 1..Len(clog') /\ clog'[k] = clog[k]
  BY DEF Grown
<1> QED BY <1>1 DEF InLog

LEMMA TaskGrows == ASSUME Grown, NEW t, TaskOk(t) PROVE TaskOk(t)'
<1>1. PICK want, prev : want = t.want /\ prev = t.prev
  OBVIOUS
<1>2. Past(want)' /\ Past(prev)'
  BY <1>1, PastGrows DEF TaskOk
<1>3. t.rv \in 1..Len(clog) => /\ t.rv \in 1..Len(clog') /\ clog'[t.rv] = clog[t.rv]
                               /\ written'[t.rv] = written[t.rv]
  BY DEF Grown
<1>4. ASSUME t.step = "plugin"
      PROVE  /\ RoutesSince(want, written[t.rv])'
             /\ InForce(want)' \/ (\E m \in live : Away(want, m))'
  <2>1. PICK m : m = written[t.rv] /\ RoutesSince(want, m)
    BY <1>1, <1>4 DEF TaskOk
  <2>2. written'[t.rv] = m
    BY <1>3, <1>4, <2>1 DEF TaskOk
  <2>3. RoutesSince(want, m)'
    BY <2>1, RoutesGrow
  <2>4. RoutesSince(want, written[t.rv])'
    BY <2>2, <2>3 DEF RoutesSince
  <2>5. InForce(want) \/ \E n \in live : Away(want, n)
    BY <1>1, <1>4 DEF TaskOk
  <2> QED BY <2>4, <2>5, ForceGrows
<1>5. ASSUME t.step = "pruneplugin", t.prev.uid = Builtin PROVE NoPolicySince(written[t.rv])'
  <2>1. PICK m : m = written[t.rv] /\ NoPolicySince(m)
    BY <1>5 DEF TaskOk
  <2>2. written'[t.rv] = m
    BY <1>3, <1>5, <2>1 DEF TaskOk
  <2> QED BY <2>1, <2>2, RoutesGrow DEF NoPolicySince
<1> QED BY <1>1, <1>2, <1>3, <1>4, <1>5 DEF TaskOk

LEMMA WriteGrows == ASSUME Grown, NEW w, WriteOk(w) PROVE WriteOk(w)'
<1>1. PICK v : v = w.value
  OBVIOUS
<1>2. Past(v)' /\ WasLive(v)'
  BY <1>1, PastGrows, LiveGrows DEF WriteOk
<1>3. w.rv \in 1..Len(clog) => /\ w.rv \in 1..Len(clog') /\ clog'[w.rv] = clog[w.rv]
                               /\ written'[w.rv] = written[w.rv]
  BY DEF Grown
<1>4. PICK m, u : m = written[w.rv] /\ u = clog[w.rv]
  OBVIOUS
<1>5. (Follows(v, m) => Follows(v, m)') /\ (Unwanted(u, m) => Unwanted(u, m)')
  BY FollowsGrows, UnwantedGrows
<1>6. w.op = "replace" => Follows(v, written[w.rv])'
  BY <1>1, <1>3, <1>4, <1>5 DEF WriteOk, Follows
<1>7. w.op = "delete" => Unwanted(clog[w.rv], written[w.rv])'
  BY <1>3, <1>4, <1>5 DEF WriteOk, Unwanted
<1> QED BY <1>1, <1>2, <1>3, <1>6, <1>7 DEF WriteOk

LEMMA Same == ASSUME CkType, Logs, UNCHANGED <<ilog, plog, clog, live, written>>
              PROVE  Grown /\ Logs' /\ (LiveNow => LiveNow') /\ (LogOk => LogOk')
<1>1. Grown
  BY EntriesAre DEF Grown, Logs
<1>2. Logs' /\ (LiveNow => LiveNow')
  BY DEF Logs, LiveNow, Now, Reached
<1>3. ASSUME LogOk, NEW k \in 1..Len(clog) PROVE Past(clog[k])' /\ WasLive(clog[k])'
  <2>1. PICK v : v = clog[k] /\ Past(v) /\ WasLive(v)
    BY <1>3 DEF LogOk
  <2>2. Past(v)' /\ WasLive(v)'
    BY <1>1, <2>1, PastGrows, LiveGrows
  <2> QED BY <2>1, <2>2
<1>4. LogOk => LogOk'
  BY <1>3 DEF LogOk
<1> QED BY <1>1, <1>2, <1>4

(* The parts of the invariant that are about a replica, when what it holds *)
(* does not change.                                                        *)
LEMMA HistGrows == ASSUME Grown, NEW h \in History, HistOk(h) PROVE HistOk(h)'
<1>1. h.accepted \in Version /\ h.proposal \in Version
  BY DEF History
<1> QED BY <1>1, PastGrows DEF HistOk

LEMMA AcknowledgedGrows ==
    ASSUME Grown, NEW r \in Replicas, Acknowledged(r), served'[r] = served[r], hist'[r] = hist[r]
    PROVE  Acknowledged(r)'
<1>1. PICK v, a : v = served[r] /\ a = hist[r].accepted
  OBVIOUS
<1>2. InLog(v)' /\ InLog(a)'
  BY <1>1, InLogGrows DEF Acknowledged
<1> QED BY <1>1, <1>2 DEF Acknowledged, RoutesOk, InLog

LEMMA RepliesKept ==
    ASSUME CkInv, Grown, UNCHANGED <<hist, served, task>>
    PROVE  /\ \A r \in Replicas : TaskOk(task[r])' /\ HistOk(hist[r])'
           /\ ~SecretsMayFail => \A r \in Replicas : Acknowledged(r)'
<1>1. ASSUME NEW r \in Replicas PROVE TaskOk(task[r])' /\ HistOk(hist[r])'
  <2>1. PICK t, h : t = task[r] /\ h = hist[r] /\ t \in Tasks /\ h \in History /\ TaskOk(t) /\ HistOk(h)
    BY DEF CkInv, CkType
  <2>2. TaskOk(t)' /\ HistOk(h)'
    BY <2>1, TaskGrows, HistGrows
  <2> QED BY <2>1, <2>2 DEF TaskOk, HistOk, Past
<1>2. ASSUME ~SecretsMayFail, NEW r \in Replicas PROVE Acknowledged(r)'
  BY <1>2, AcknowledgedGrows DEF CkInv
<1> QED BY <1>1, <1>2

-----------------------------------------------------------------------------
LEMMA EditInv ==
    ASSUME CkInv, NEW name, NEW i, NEW p, Edit(name, i, p),
           i = ilog \/ \E e \in Ingresses : Routed(e) /\ i = Append(ilog, e),
           p = plog \/ \E e \in Plugins : e.uid > Builtin /\ p = Append(plog, e)
    PROVE  CkInv' /\ Grown
<1>1. /\ ilog' = i /\ plog' = p /\ live' = live \cup {Now'}
      /\ UNCHANGED <<clog, writes, seen, hist, served, task, written>>
  BY DEF Edit
<1>2. CkType /\ Logs /\ LogOk
  BY DEF CkInv
<1>3. /\ i \in Seq(Ingresses) /\ Len(i) \in Nat /\ Len(i) >= Len(ilog) /\ Len(i) > 0
      /\ \A k \in 1..Len(i) : Routed(i[k])
      /\ \A k \in 1..Len(ilog) : i[k] = ilog[k]
  <2>1. CASE i = ilog
    BY <1>2, <2>1, EntriesAre DEF CkType, Logs
  <2>2. CASE \E e \in Ingresses : Routed(e) /\ i = Append(ilog, e)
    <3>1. PICK e \in Ingresses : Routed(e) /\ i = Append(ilog, e)
      BY <2>2
    <3>2. /\ i \in Seq(Ingresses) /\ Len(i) = Len(ilog) + 1 /\ Len(ilog) \in Nat
          /\ \A k \in 1..Len(ilog) : i[k] = ilog[k]
          /\ i[Len(ilog) + 1] = e
      BY <1>2, <3>1, AppendIs DEF CkType
    <3> QED BY <1>2, <3>1, <3>2 DEF Logs
  <2> QED BY <2>1, <2>2
<1>4. /\ p \in Seq(Plugins) /\ Len(p) \in Nat /\ Len(p) >= Len(plog) /\ Len(p) > 0
      /\ \A k \in 1..Len(p) : p[k].uid > Builtin
      /\ \A k \in 1..Len(plog) : p[k] = plog[k]
  <2>1. CASE p = plog
    BY <1>2, <2>1, EntriesAre DEF CkType, Logs
  <2>2. CASE \E e \in Plugins : e.uid > Builtin /\ p = Append(plog, e)
    <3>1. PICK e \in Plugins : e.uid > Builtin /\ p = Append(plog, e)
      BY <2>2
    <3>2. /\ p \in Seq(Plugins) /\ Len(p) = Len(plog) + 1 /\ Len(plog) \in Nat
          /\ \A k \in 1..Len(plog) : p[k] = plog[k]
          /\ p[Len(plog) + 1] = e
      BY <1>2, <3>1, AppendIs DEF CkType
    <3> QED BY <1>2, <3>1, <3>2 DEF Logs
  <2> QED BY <2>1, <2>2
<1>5. Logs'
  <2>1. PICK now : /\ now = Now' /\ now.ingress = Len(i) /\ now.plugin = Len(p)
                   /\ Len(ilog) \in Nat /\ Len(plog) \in Nat
    <3>1. Now'.ingress = Len(i) /\ Now'.plugin = Len(p)
      BY <1>1 DEF Now
    <3> QED BY <1>2, <3>1, EntriesAre
  <2>2. ASSUME NEW m PROVE Reached(m) => Reached(m)'
    BY <1>1, <1>3, <1>4, <2>1 DEF Reached
  <2>3. Reached(now)'
    BY <1>1, <1>3, <1>4, <2>1 DEF Reached
  <2>4. \A m \in live' : Reached(m)'
    BY <1>1, <1>2, <2>1, <2>2, <2>3 DEF Logs
  <2>5. \A k \in 1..Len(written') : Reached(written[k])'
    <3>1. ASSUME NEW k \in 1..Len(written') PROVE Reached(written[k])'
      <4>1. PICK m : m = written[k] /\ Reached(m)
        BY <1>1, <1>2 DEF Logs
      <4> QED BY <1>1, <2>2, <4>1 DEF Reached
    <3> QED BY <3>1
  <2>6. Len(ilog') > 0 /\ \A k \in 1..Len(ilog') : Routed(ilog[k])'
    BY <1>1, <1>3 DEF Routed
  <2>7. Len(plog') > 0 /\ \A k \in 1..Len(plog') : (plog[k].uid > Builtin)'
    BY <1>1, <1>4 DEF Builtin
  <2>8. Len(clog') > 0 /\ Len(written') = Len(clog')
    BY <1>1, <1>2 DEF Logs
  <2> QED BY <2>4, <2>5, <2>6, <2>7, <2>8 DEF Logs
<1>6. Grown
  BY <1>1, <1>2, <1>3, <1>4, EntriesAre DEF Grown, Logs
<1>7. CkType'
  BY <1>1, <1>2, <1>3, <1>4 DEF CkType
<1>8. LiveNow'
  BY <1>1 DEF LiveNow
<1>9. LogOk'
  <2>1. ASSUME NEW k \in 1..Len(clog) PROVE Past(clog[k])' /\ WasLive(clog[k])'
    <3>1. PICK v : v = clog[k] /\ Past(v) /\ WasLive(v)
      BY <1>2 DEF LogOk
    <3>2. Past(v)' /\ WasLive(v)'
      BY <1>6, <3>1, PastGrows, LiveGrows
    <3> QED BY <1>1, <3>1, <3>2
  <2> QED BY <1>1, <2>1 DEF LogOk
<1>10. /\ \A r \in Replicas : TaskOk(task[r])' /\ HistOk(hist[r])'
       /\ ~SecretsMayFail => \A r \in Replicas : Acknowledged(r)'
  BY <1>1, <1>6, RepliesKept
<1>11. \A w \in writes' : WriteOk(w)'
  BY <1>1, <1>6, WriteGrows DEF CkInv
<1> QED BY <1>5, <1>6, <1>7, <1>8, <1>9, <1>10, <1>11 DEF CkInv

LEMMA TenantInv == ASSUME CkInv, Tenant PROVE CkInv' /\ Grown
<1>1. /\ ingress \in Ingresses /\ plugin \in Plugins /\ plugin.uid > Builtin
      /\ Len(ilog) \in Nat /\ Len(plog) \in Nat /\ Logs
      /\ \A k \in 1..Len(ilog) : ilog[k] \in Ingresses
      /\ \A k \in 1..Len(plog) : plog[k] \in Plugins
  BY EntriesAre DEF CkInv
<1>2. ASSUME NEW name, NEW e \in Ingresses, Routed(e), EditIngress(name, e) PROVE CkInv' /\ Grown
  BY <1>2, EditInv DEF EditIngress
<1>3. ASSUME NEW name, NEW uid \in Nat, uid > Builtin, NEW src \in Nat, NEW valid \in BOOLEAN,
             EditPlugin(name, uid, src, valid)
      PROVE  CkInv' /\ Grown
  <2>1. PICK e : e = [uid |-> uid, src |-> src, valid |-> valid]
    OBVIOUS
  <2>2. e \in Plugins /\ e.uid > Builtin
    BY <1>3, <2>1 DEF Plugins
  <2>3. Edit(name, ilog, Append(plog, e))
    BY <1>3, <2>1 DEF EditPlugin
  <2> QED BY <2>2, <2>3, EditInv
<1>4. ASSUME NEW script \in BOOLEAN, NEW class \in {"ours", "other"}
      PROVE  /\ NewSpec(script, class) \in Ingresses
             /\ Routed(NewSpec(script, class))
  BY <1>1 DEF NewSpec, Ingresses, Routed
<1>5. Gone \in Ingresses /\ Routed(Gone)
  BY DEF Gone, Ingresses, NoSpec, Routed
<1>6. /\ plugin.uid \in Nat /\ plugin.uid + 1 \in Nat /\ plugin.uid + 1 > Builtin
      /\ Len(plog) + 1 \in Nat /\ 0 \in Nat /\ ingress.script \in BOOLEAN
  BY <1>1 DEF Plugins, Builtin, Ingresses
<1>7. ASSUME NEW k \in 1..Len(ilog), EditIngress("revert", ilog[k]) PROVE CkInv' /\ Grown
  BY <1>1, <1>2, <1>7 DEF Logs
<1>8. ASSUME NEW k \in 1..Len(plog), EditPlugin("revert", plog[k].uid, plog[k].src, plog[k].valid)
      PROVE  CkInv' /\ Grown
  <2>1. plog[k].uid \in Nat /\ plog[k].uid > Builtin /\ plog[k].src \in Nat /\ plog[k].valid \in BOOLEAN
    BY <1>1 DEF Logs, Plugins
  <2> QED BY <1>3, <1>8, <2>1
<1>9. CASE \/ EditIngress("routes", NewSpec(TRUE, "ours")) \/ EditIngress("unscript", NewSpec(FALSE, "ours"))
           \/ EditIngress("unselect", NewSpec(ingress.script, "other")) \/ EditIngress("delete", Gone)
           \/ EditIngress("unclass", [ingress EXCEPT !.class = "missing"])
  <2>1. CASE EditIngress("routes", NewSpec(TRUE, "ours"))
    BY <1>2, <1>4, <2>1
  <2>2. CASE EditIngress("unscript", NewSpec(FALSE, "ours"))
    BY <1>2, <1>4, <2>2
  <2>3. CASE EditIngress("unselect", NewSpec(ingress.script, "other"))
    BY <1>2, <1>4, <1>6, <2>3
  <2>4. CASE EditIngress("delete", Gone)
    BY <1>2, <1>5, <2>4
  <2>5. CASE EditIngress("unclass", [ingress EXCEPT !.class = "missing"])
    <3>1. PICK e : e = [ingress EXCEPT !.class = "missing"]
      OBVIOUS
    <3>2. e \in Ingresses /\ Routed(e)
      BY <1>1, <3>1 DEF Ingresses, Routed
    <3> QED BY <1>2, <2>5, <3>1, <3>2
  <2> QED BY <1>9, <2>1, <2>2, <2>3, <2>4, <2>5
<1>10. CASE \/ EditPlugin("source", plugin.uid, Len(plog) + 1, TRUE)
            \/ EditPlugin("invalid", plugin.uid, Len(plog) + 1, FALSE)
            \/ EditPlugin("withdraw", plugin.uid, 0, FALSE)
            \/ EditPlugin("recreate", plugin.uid + 1, Len(plog) + 1, TRUE)
  BY <1>1, <1>3, <1>6, <1>10
<1> QED BY <1>7, <1>8, <1>9, <1>10 DEF Tenant

LEMMA ApplyWriteInv ==
    ASSUME CkInv, NEW w \in writes, ApplyWrite(w)
    PROVE  /\ CkInv' /\ Grown
           /\ checkpoint # NoVersion =>
                IF checkpoint' = NoVersion THEN Unwanted(checkpoint, written[Len(clog)])
                ELSE Follows(checkpoint', written[Len(clog)])
<1>1. /\ Accepts(w) /\ clog' = Append(clog, w.value) /\ writes' = writes \ {w}
      /\ written' = Append(written, Now)
      /\ UNCHANGED <<ilog, plog, seen, hist, served, task, live>>
  BY DEF ApplyWrite
<1>2. CkType /\ Logs /\ LogOk /\ WriteOk(w) /\ w \in Writes /\ w.value \in Version
  BY DEF CkInv, CkType, Writes
<1>3. PICK v : v = w.value
  OBVIOUS
<1>4. /\ clog' \in Seq(Version) /\ Len(clog') = Len(clog) + 1 /\ Len(clog) \in Nat
      /\ \A k \in 1..Len(clog) : clog'[k] = clog[k]
      /\ clog'[Len(clog) + 1] = v
  BY <1>1, <1>2, <1>3, AppendIs DEF CkType
<1>5. PICK now : now = Now /\ now \in Moment /\ Reached(now)
  <2>1. Now \in Moment /\ Now.ingress = Len(ilog) /\ Now.plugin = Len(plog)
    BY <1>2, EntriesAre DEF Now, Moment
  <2>2. Reached(Now)
    BY <1>2, <2>1, EntriesAre DEF Reached
  <2> QED BY <2>1, <2>2
<1>6. /\ written' \in Seq(Moment) /\ Len(written') = Len(clog')
      /\ \A k \in 1..Len(clog) : written'[k] = written[k]
      /\ written'[Len(clog) + 1] = now
  BY <1>1, <1>2, <1>4, <1>5, AppendIs DEF CkType, Logs
<1>7. Grown
  BY <1>1, <1>2, <1>4, <1>6, EntriesAre DEF Grown, Logs
<1>8. CkType' /\ Logs' /\ LiveNow'
  <2>1. CkType'
    BY <1>1, <1>2, <1>4, <1>6 DEF CkType
  <2>2. LiveNow'
    BY <1>1 DEF CkInv, LiveNow, Now
  <2>3. \A m : Reached(m) => Reached(m)'
    BY <1>1 DEF Reached
  <2>4. \A k \in 1..Len(written') : Reached(written'[k])
    BY <1>2, <1>4, <1>5, <1>6 DEF Logs
  <2>5. \A k \in 1..Len(written') : Reached(written[k])'
    BY <1>1, <2>4 DEF Reached
  <2>6. Len(ilog') > 0 /\ \A k \in 1..Len(ilog') : Routed(ilog[k])'
    BY <1>1, <1>2 DEF Logs, Routed
  <2>7. Len(plog') > 0 /\ \A k \in 1..Len(plog') : (plog[k].uid > Builtin)'
    BY <1>1, <1>2 DEF Logs, Builtin
  <2>8. Len(clog') > 0 /\ Len(written') = Len(clog')
    BY <1>4, <1>6
  <2>9. \A m \in live' : Reached(m)'
    BY <1>1, <1>2, <2>3 DEF Logs
  <2>10. Logs'
    BY <2>5, <2>6, <2>7, <2>8, <2>9 DEF Logs
  <2> QED BY <2>1, <2>2, <2>10
<1>9. LogOk'
  <2>1. ASSUME NEW k \in 1..Len(clog') PROVE Past(clog[k])' /\ WasLive(clog[k])'
    <3>1. PICK u : u = clog'[k] /\ Past(u) /\ WasLive(u)
      <4>1. CASE k \in 1..Len(clog)
        BY <1>2, <1>4, <4>1 DEF LogOk
      <4>2. CASE k = Len(clog) + 1
        BY <1>2, <1>3, <1>4, <4>2 DEF WriteOk
      <4> QED BY <1>4, <4>1, <4>2
    <3>2. Past(u)' /\ WasLive(u)'
      BY <1>7, <3>1, PastGrows, LiveGrows
    <3> QED BY <3>1, <3>2
  <2> QED BY <2>1 DEF LogOk
<1>10. /\ \A r \in Replicas : TaskOk(task[r])' /\ HistOk(hist[r])'
       /\ ~SecretsMayFail => \A r \in Replicas : Acknowledged(r)'
  BY <1>1, <1>7, RepliesKept
<1>11. \A x \in writes' : WriteOk(x)'
  BY <1>1, <1>7, WriteGrows DEF CkInv
<1>12. CkInv'
  BY <1>8, <1>9, <1>10, <1>11 DEF CkInv
<1>13. ASSUME checkpoint # NoVersion
       PROVE  IF v = NoVersion THEN Unwanted(checkpoint, written[Len(clog)])
              ELSE Follows(v, written[Len(clog)])
  <2>1. checkpoint = clog[Len(clog)]
    BY DEF checkpoint
  <2>2. w.op # "create" /\ w.rv = Len(clog)
    BY <1>1, <1>13 DEF Accepts
  <2>3. w.op \in {"replace", "delete"}
    BY <1>2, <2>2 DEF Writes
  <2> QED BY <1>2, <1>3, <2>1, <2>2, <2>3 DEF WriteOk
<1>14. checkpoint' = v
  BY <1>4 DEF checkpoint
<1> QED BY <1>7, <1>12, <1>13, <1>14

LEMMA DropWriteInv == ASSUME CkInv, NEW w \in writes, DropWrite(w) PROVE CkInv'
<1>1. writes' = writes \ {w} /\ UNCHANGED <<ilog, plog, clog, seen, hist, served, task, live, written>>
  BY DEF DropWrite
<1>2. Grown /\ Logs' /\ LiveNow' /\ LogOk'
  BY <1>1, Same DEF CkInv
<1>3. CkType'
  BY <1>1 DEF CkInv, CkType
<1>4. \A x \in writes' : WriteOk(x)'
  BY <1>1, <1>2, WriteGrows DEF CkInv, CkType
<1> QED BY <1>1, <1>2, <1>3, <1>4, RepliesKept DEF CkInv

LEMMA RestartInv == ASSUME CkInv, NEW r \in Replicas, Restart(r) PROVE CkInv'
<1>1. /\ seen' = [seen EXCEPT ![r] = [ingress |-> Len(ilog), plugin |-> Len(plog), checkpoint |-> Len(clog)]]
      /\ hist' = [hist EXCEPT ![r] = NoHistory] /\ served' = [served EXCEPT ![r] = NoVersion]
      /\ task' = [task EXCEPT ![r] = Off]
      /\ UNCHANGED <<ilog, plog, clog, writes, live, written>>
  BY DEF Restart
<1>2. Grown /\ Logs' /\ LiveNow' /\ LogOk'
  BY <1>1, Same DEF CkInv
<1>3. CkType
  BY DEF CkInv
<1>4. /\ NoHistory \in History /\ NoHistory.accepted = NoVersion /\ NoHistory.proposal = NoVersion
      /\ Off \in Tasks /\ Off.step = "off" /\ Off.want = NoVersion /\ Off.prev = NoVersion
  BY NoVersionIs DEF NoHistory, History, Off, Idle, Tasks, Steps, NoSpec
<1>5. CkType'
  <2>1. [ingress |-> Len(ilog), plugin |-> Len(plog), checkpoint |-> Len(clog)] \in Positions
    BY EntriesAre DEF CkInv, Positions
  <2> QED BY <1>1, <1>3, <1>4, <2>1, NoVersionIs DEF CkType
<1>6. /\ hist'[r] = NoHistory /\ served'[r] = NoVersion /\ task'[r] = Off
      /\ \A q \in Replicas : q # r => hist'[q] = hist[q] /\ served'[q] = served[q] /\ task'[q] = task[q]
  BY <1>1, <1>3 DEF CkType
<1>7. ASSUME NEW q \in Replicas PROVE TaskOk(task[q])' /\ HistOk(hist[q])'
  <2>1. PICK t, h : t = task'[q] /\ h = hist'[q] /\ t \in Tasks /\ h \in History
    BY <1>5 DEF CkType
  <2>2. TaskOk(t) /\ HistOk(h)
    <3>1. CASE q = r
      BY <1>4, <1>6, <2>1, <3>1, NoVersionIs DEF TaskOk, HistOk
    <3>2. CASE q # r
      BY <1>6, <2>1, <3>2 DEF CkInv
    <3> QED BY <3>1, <3>2
  <2>3. TaskOk(t)' /\ HistOk(h)'
    BY <1>2, <2>1, <2>2, TaskGrows, HistGrows
  <2> QED BY <2>1, <2>3 DEF TaskOk, HistOk, Past
<1>8. ASSUME ~SecretsMayFail, NEW q \in Replicas PROVE Acknowledged(q)'
  <2>1. CASE q = r
    BY <1>4, <1>6, <2>1, NoVersionIs DEF Acknowledged, InLog, RoutesOk, NoUid
  <2>2. CASE q # r
    BY <1>2, <1>6, <1>8, <2>2, AcknowledgedGrows DEF CkInv
  <2> QED BY <2>1, <2>2
<1>9. \A x \in writes' : WriteOk(x)'
  BY <1>1, <1>2, <1>3, WriteGrows DEF CkInv, CkType
<1> QED BY <1>2, <1>5, <1>7, <1>8, <1>9 DEF CkInv

-----------------------------------------------------------------------------
(* A step of a persist task, with or without a write.                      *)
LEMMA StepInv ==
    ASSUME CkInv, NEW r \in Replicas, NEW t \in Tasks, TaskOk(t), Step(r, t),
           writes' = writes \/ \E w \in Writes : writes' = writes \cup {w} /\ WriteOk(w)
    PROVE  CkInv'
<1>1. /\ task' = [task EXCEPT ![r] = t]
      /\ UNCHANGED <<ilog, plog, clog, seen, hist, served, live, written>>
  BY DEF Step
<1>2. Grown /\ Logs' /\ LiveNow' /\ LogOk'
  BY <1>1, Same DEF CkInv
<1>3. CkType
  BY DEF CkInv
<1>4. writes' \in SUBSET Writes /\ \A w \in writes' : WriteOk(w)
  BY <1>3 DEF CkInv, CkType
<1>5. CkType'
  BY <1>1, <1>3, <1>4 DEF CkType
<1>6. \A w \in writes' : WriteOk(w)'
  BY <1>2, <1>4, WriteGrows
<1>7. ASSUME NEW q \in Replicas PROVE TaskOk(task[q])' /\ HistOk(hist[q])'
  <2>1. PICK u, h : u = task'[q] /\ h = hist'[q] /\ u \in Tasks /\ h \in History
    BY <1>5 DEF CkType
  <2>2. TaskOk(u) /\ HistOk(h)
    BY <1>1, <1>3, <2>1 DEF CkInv, CkType
  <2>3. TaskOk(u)' /\ HistOk(h)'
    BY <1>2, <2>1, <2>2, TaskGrows, HistGrows
  <2> QED BY <2>1, <2>3 DEF TaskOk, HistOk, Past
<1>8. ~SecretsMayFail => \A q \in Replicas : Acknowledged(q)'
  BY <1>1, <1>2, AcknowledgedGrows DEF CkInv
<1> QED BY <1>2, <1>5, <1>6, <1>7, <1>8 DEF CkInv

LEMMA IdleIs == /\ Idle \in Tasks /\ TaskOk(Idle) /\ Idle.step = "idle"
                /\ Off \in Tasks /\ TaskOk(Off) /\ Off.step = "off"
  BY NoVersionIs DEF Idle, Off, Tasks, Steps, TaskOk

LEMMA PersistListInv == ASSUME CkInv, NEW r \in Replicas, PersistList(r) PROVE CkInv'
<1>1. PICK want : want = Desired(hist[r])
  OBVIOUS
<1>2. want \in Version /\ Past(want)
  BY <1>1 DEF CkInv, CkType, History, HistOk, Desired
<1>3. /\ checkpoint \in Version /\ Past(checkpoint) /\ checkpoint = clog[Len(clog)]
      /\ Len(clog) \in 1..Len(clog) /\ Len(clog) \in Nat
  BY EntriesAre DEF CkInv, LogOk
<1>4. PICK t : \E step \in {"idle", "prune", "ingress"} :
         /\ step = "ingress" => want # NoVersion
         /\ step = "prune" => checkpoint # NoVersion
         /\ t = IF step = "idle" THEN Idle
                ELSE [step |-> step, want |-> want, prev |-> checkpoint, rv |-> Len(clog)]
         /\ Step(r, t) /\ writes' = writes
  BY <1>1 DEF PersistList
<1>5. PICK step \in {"idle", "prune", "ingress"} :
         /\ step = "ingress" => want # NoVersion
         /\ step = "prune" => checkpoint # NoVersion
         /\ t = IF step = "idle" THEN Idle
                ELSE [step |-> step, want |-> want, prev |-> checkpoint, rv |-> Len(clog)]
         /\ Step(r, t) /\ writes' = writes
  BY <1>4
<1>6. CASE step = "idle"
  BY <1>5, <1>6, IdleIs, StepInv
<1>7. CASE step # "idle"
  <2>1. /\ t \in Tasks /\ t.step = step /\ t.want = want /\ t.prev = checkpoint /\ t.rv = Len(clog)
    BY <1>2, <1>3, <1>5, <1>7 DEF Tasks, Steps
  <2>2. TaskOk(t)
    BY <1>2, <1>3, <1>5, <2>1 DEF TaskOk
  <2> QED BY <1>5, <2>1, <2>2, StepInv
<1> QED BY <1>6, <1>7

(* persist_one sends a version that was in force and does not go back.     *)
LEMMA SendCheckpointInv ==
    ASSUME CkInv, NEW r \in Replicas, SendCheckpoint(r), task[r].step \in {"ingress", "plugin"},
           WasLive(task[r].want), Follows(task[r].want, written[task[r].rv])
    PROVE  CkInv'
<1>1. PICK t \in Tasks : t = task[r] /\ TaskOk(t)
  BY DEF CkInv, CkType
<1>2. PICK w : w = IF t.prev = NoVersion THEN [op |-> "create", rv |-> 0, value |-> t.want]
                   ELSE [op |-> "replace", rv |-> t.rv, value |-> t.want]
  OBVIOUS
<1>3. writes' = writes \cup {w} /\ Step(r, Idle)
  BY <1>1, <1>2 DEF SendCheckpoint, Send
<1>4. /\ w \in Writes /\ w.value = t.want /\ w.op \in {"create", "replace"}
      /\ w.op = "replace" => w.rv = t.rv
  BY <1>1, <1>2 DEF Writes, Tasks
<1>5. WriteOk(w)
  BY <1>1, <1>4 DEF WriteOk, TaskOk
<1> QED BY <1>3, <1>4, <1>5, IdleIs, StepInv

(* What the API server holds now comes after every moment so far.          *)
LEMMA NowFollows ==
    ASSUME CkType, Logs, NEW k \in 1..Len(clog), NEW m, m = written[k]
    PROVE  /\ Len(ilog) \in 1..Len(ilog) /\ Len(ilog) >= m.ingress /\ ingress = ilog[Len(ilog)]
           /\ Len(plog) \in 1..Len(plog) /\ Len(plog) >= m.plugin /\ plugin = plog[Len(plog)]
<1>1. Reached(m) /\ Len(ilog) \in Nat /\ Len(plog) \in Nat
  BY EntriesAre DEF Logs
<1> QED BY <1>1, EntriesAre DEF Reached

LEMMA PersistCheckIngressInv == ASSUME CkInv, NEW r \in Replicas, PersistCheckIngress(r) PROVE CkInv'
<1>1. PICK t \in Tasks : t = task[r] /\ TaskOk(t)
  BY DEF CkInv, CkType
<1>2. CkType /\ Logs /\ LiveNow /\ t.step = "ingress"
  BY <1>1 DEF CkInv, PersistCheckIngress
<1>3. PICK want, m : want = t.want /\ m = written[t.rv]
  OBVIOUS
<1>4. want \in Version /\ Past(want) /\ Past(t.prev) /\ want # NoVersion /\ t.rv \in 1..Len(clog) /\ clog[t.rv] = t.prev
  BY <1>1, <1>2, <1>3 DEF Tasks, TaskOk
<1>5. CASE Step(r, Idle) /\ writes' = writes
  BY <1>5, IdleIs, StepInv
<1>6. ingress.spec = want.spec => RoutesSince(want, m)
  BY <1>2, <1>3, <1>4, NowFollows DEF RoutesSince
<1>7. CASE ingress.spec = want.spec /\ want.uid = Builtin /\ SendCheckpoint(r)
  <2>1. WasLive(want) /\ Follows(want, m)
    BY <1>6, <1>7 DEF WasLive, Follows, RoutesSince, Builtin
  <2> QED BY <1>1, <1>2, <1>3, <1>7, <2>1, SendCheckpointInv
<1>8. CASE /\ ingress.spec = want.spec /\ want.uid # Builtin
           /\ Step(r, [t EXCEPT !.step = "plugin"]) /\ writes' = writes
  <2>1. PICK u : u = [t EXCEPT !.step = "plugin"]
    OBVIOUS
  <2>2. u \in Tasks /\ u.step = "plugin" /\ u.want = want /\ u.prev = t.prev /\ u.rv = t.rv
    BY <1>3, <2>1 DEF Tasks, Steps
  <2>3. want.uid > Builtin /\ Since(want, 0)
    BY <1>4, <1>8 DEF Past, Version, Builtin
  <2>4. InForce(want) \/ \E n \in live : Away(want, n)
    <3>1. PICK n \in live : n = Now /\ n.ingress = Len(ilog) /\ n.plugin = Len(plog)
      BY <1>2 DEF LiveNow, Now
    <3>2. ilog[n.ingress].spec = want.spec
      BY <1>2, <1>8, <3>1, EntriesAre
    <3>3. CASE HasSource(plog[n.plugin], want)
      BY <3>2, <3>3 DEF InForce
    <3>4. CASE ~HasSource(plog[n.plugin], want)
      <4>1. PICK before \in 1..Len(plog) : HasSource(plog[before], want)
        BY <2>3 DEF Since
      <4>2. before < n.plugin
        BY <1>2, <3>1, <3>4, <4>1, EntriesAre
      <4> QED BY <3>2, <3>4, <4>1, <4>2 DEF Away
    <3> QED BY <3>3, <3>4
  <2>5. TaskOk(u)
    BY <1>3, <1>4, <1>6, <1>8, <2>2, <2>3, <2>4 DEF TaskOk
  <2> QED BY <1>8, <2>1, <2>2, <2>5, StepInv
<1> QED BY <1>1, <1>3, <1>5, <1>7, <1>8 DEF PersistCheckIngress

LEMMA PersistCheckPluginInv == ASSUME CkInv, NEW r \in Replicas, PersistCheckPlugin(r) PROVE CkInv'
<1>1. PICK t \in Tasks : t = task[r] /\ TaskOk(t)
  BY DEF CkInv, CkType
<1>2. CkType /\ Logs /\ t.step = "plugin"
  BY <1>1 DEF CkInv, PersistCheckPlugin
<1>3. PICK want, m : want = t.want /\ m = written[t.rv]
  OBVIOUS
<1>4. /\ t.rv \in 1..Len(clog) /\ want.uid > Builtin /\ RoutesSince(want, m)
      /\ InForce(want) \/ \E n \in live : Away(want, n)
  BY <1>1, <1>2, <1>3 DEF TaskOk
<1>5. CASE Step(r, Idle) /\ writes' = writes
  BY <1>5, IdleIs, StepInv
<1>6. CASE plugin.uid = want.uid /\ plugin.src = want.src /\ SendCheckpoint(r)
  <2>1. /\ Len(plog) \in 1..Len(plog) /\ Len(plog) >= m.plugin
        /\ HasSource(plog[Len(plog)], want)
    BY <1>2, <1>3, <1>4, <1>6, NowFollows DEF HasSource
  <2>2. Follows(want, m)
    BY <1>4, <2>1 DEF Follows, RoutesSince
  <2>3. ASSUME NEW n \in live, Away(want, n) PROVE PutBack(want)
    <3>1. n.plugin \in 1..Len(plog) /\ ~HasSource(plog[n.plugin], want)
      BY <1>2, <2>3 DEF Logs, Reached, Away
    <3>2. Len(plog) > n.plugin
      BY <1>2, <2>1, <3>1, EntriesAre
    <3> QED BY <2>1, <2>3, <3>2 DEF PutBack
  <2>4. WasLive(want)
    BY <1>4, <2>3 DEF WasLive
  <2> QED BY <1>1, <1>2, <1>3, <1>6, <2>2, <2>4, SendCheckpointInv
<1> QED BY <1>1, <1>3, <1>5, <1>6 DEF PersistCheckPlugin

(* prune_one deletes a version that is not wanted any more.                *)
LEMMA SendDeleteInv ==
    ASSUME CkInv, NEW r \in Replicas, SendDelete(r), task[r].rv \in 1..Len(clog),
           Unwanted(clog[task[r].rv], written[task[r].rv])
    PROVE  CkInv'
<1>1. PICK t \in Tasks : t = task[r]
  BY DEF CkInv, CkType
<1>2. PICK w : w = [op |-> "delete", rv |-> t.rv, value |-> NoVersion]
  OBVIOUS
<1>3. writes' = writes \cup {w} /\ Step(r, Idle)
  BY <1>1, <1>2 DEF SendDelete, Send
<1>4. w \in Writes /\ w.op = "delete" /\ w.rv = t.rv /\ w.value = NoVersion
  BY <1>1, <1>2, NoVersionIs DEF Writes, Tasks
<1>5. WriteOk(w)
  BY <1>1, <1>4, NoVersionIs DEF WriteOk
<1> QED BY <1>3, <1>4, <1>5, IdleIs, StepInv

LEMMA PruneInv ==
    ASSUME CkInv, NEW r \in Replicas, PruneCheckIngress(r) \/ PruneCheckPlugin(r) PROVE CkInv'
<1>1. PICK t \in Tasks : t = task[r] /\ TaskOk(t) /\ t.step \in {"prune", "pruneplugin"}
  BY DEF CkInv, CkType, PruneCheckIngress, PruneCheckPlugin
<1>2. PICK prev, m : prev = t.prev /\ m = written[t.rv]
  OBVIOUS
<1>3. prev \in Version /\ Past(prev) /\ t.rv \in 1..Len(clog) /\ clog[t.rv] = prev
  BY <1>1, <1>2 DEF TaskOk, Tasks
<1>4. /\ Len(ilog) \in 1..Len(ilog) /\ Len(ilog) >= m.ingress /\ ingress = ilog[Len(ilog)]
      /\ Len(plog) \in 1..Len(plog) /\ Len(plog) >= m.plugin /\ plugin = plog[Len(plog)]
  BY <1>2, <1>3, NowFollows DEF CkInv
<1>5. CASE Step(r, Idle) /\ writes' = writes
  BY <1>5, IdleIs, StepInv
<1>6. CASE ~ingress.script /\ SendDelete(r)
  <2>1. Unwanted(prev, m)
    BY <1>4, <1>6 DEF Unwanted
  <2> QED BY <1>1, <1>2, <1>3, <1>6, <2>1, SendDeleteInv
<1>7. CASE /\ t.step = "prune" /\ ~(prev.uid = Builtin /\ ingress.policy)
           /\ Step(r, [t EXCEPT !.step = "pruneplugin"]) /\ writes' = writes
  <2>1. PICK u : u = [t EXCEPT !.step = "pruneplugin"]
    OBVIOUS
  <2>2. u \in Tasks /\ u.step = "pruneplugin" /\ u.want = t.want /\ u.prev = t.prev /\ u.rv = t.rv
    BY <2>1 DEF Tasks, Steps
  <2>3. prev.uid = Builtin => NoPolicySince(m)
    BY <1>4, <1>7 DEF NoPolicySince
  <2>4. TaskOk(u)
    BY <1>1, <1>2, <1>7, <2>2, <2>3 DEF TaskOk
  <2> QED BY <1>7, <2>1, <2>2, <2>4, StepInv
<1>8. CASE t.step = "pruneplugin" /\ ~(plugin.uid = prev.uid /\ plugin.src # 0) /\ SendDelete(r)
  <2>1. prev.uid > Builtin \/ (prev.uid = Builtin /\ NoPolicySince(m))
    BY <1>1, <1>2, <1>3, <1>8 DEF TaskOk, Past, Version, Builtin
  <2>2. Unwanted(prev, m)
    BY <1>4, <1>8, <2>1 DEF Unwanted, NoPolicySince
  <2> QED BY <1>1, <1>2, <1>3, <1>8, <2>2, SendDeleteInv
<1> QED BY <1>1, <1>2, <1>5, <1>6, <1>7, <1>8 DEF PruneCheckIngress, PruneCheckPlugin

-----------------------------------------------------------------------------
(* What a build makes of the history of r and serves.                      *)
Outcome(r, c, h, v) ==
    /\ h \in History /\ v \in Version /\ h.routes = v.spec
    /\ h.accepted \in {NoVersion, hist[r].accepted, clog[c]} /\ Past(h.proposal)
    /\ served' = [served EXCEPT ![r] = v] /\ hist' = [hist EXCEPT ![r] = h]

(* It serves what it has accepted.                                         *)
Serves(h, v) == v = h.accepted \/ (h.accepted = NoVersion /\ v.uid = NoUid)

(* The histories of a build that leaves nothing accepted.                  *)
Emptied(r) == {Withdrawn(hist[r]), NoHistory, [NoHistory EXCEPT !.revoked = hist[r].revoked]}

LEMMA EmptiedIs ==
    ASSUME CkInv, NEW r \in Replicas, NEW g \in Emptied(r)
    PROVE  g \in History /\ g.accepted = NoVersion /\ g.proposal = NoVersion
<1>1. PICK h \in History : h = hist[r] /\ h.revoked \in BOOLEAN
  BY DEF CkInv, CkType, History
<1>2. /\ Withdrawn(h) \in History /\ Withdrawn(h).accepted = NoVersion
      /\ Withdrawn(h).proposal = NoVersion
  BY NoVersionIs DEF Withdrawn, History
<1>3. PICK n : n = [NoHistory EXCEPT !.revoked = h.revoked]
  OBVIOUS
<1>4. /\ NoHistory \in History /\ NoHistory.accepted = NoVersion /\ NoHistory.proposal = NoVersion
      /\ n \in History /\ n.accepted = NoVersion /\ n.proposal = NoVersion
  BY <1>1, <1>3, NoVersionIs DEF NoHistory, History, NoSpec
<1> QED BY <1>1, <1>2, <1>3, <1>4 DEF Emptied

LEMMA EmptiedOutcome ==
    ASSUME CkInv, NEW r \in Replicas, NEW c, NEW g \in Emptied(r), NEW v \in Version, v.uid = NoUid,
           Publish(r, g, v)
    PROVE  \E h : Outcome(r, c, h, v) /\ Serves(h, v)
<1>1. g \in History /\ g.accepted = NoVersion /\ g.proposal = NoVersion
  BY EmptiedIs
<1>2. PICK h : h = [g EXCEPT !.routes = v.spec]
  OBVIOUS
<1>3. h \in History /\ h.accepted = NoVersion /\ h.proposal = NoVersion /\ h.routes = v.spec
  BY <1>1, <1>2, NoVersionIs DEF History, Version
<1>4. served' = [served EXCEPT ![r] = v] /\ hist' = [hist EXCEPT ![r] = h]
  BY <1>2 DEF Publish
<1> QED BY <1>3, <1>4, NoVersionIs DEF Outcome, Serves

LEMMA BuildPluginIs ==
    ASSUME CkInv, NEW r \in Replicas, NEW i \in 1..Len(ilog), NEW p \in 1..Len(plog),
           NEW c \in 1..Len(clog), NEW restores, NEW compiles, NEW secrets,
           BuildPlugin(r, i, p, c, restores, compiles, secrets)
    PROVE  /\ Sees(r, i, p, c)
           /\ \E h, v : Outcome(r, c, h, v) /\ (secrets /\ RoutesOk(hist[r]) => Serves(h, v))
<1>1. CkType /\ Logs
  BY DEF CkInv
<1>2. PICK s \in Referenced(ilog[i], plog[p]) :
        LET h1 == AfterRevocation(hist[r], s)
            durable == Durable(clog[c], s)
            h2 == AfterRestore(h1, durable, Ready(hist[r], durable, restores))
            cand == [spec |-> ilog[i].spec, uid |-> s.uid, src |-> s.src]
            ok == Ready(hist[r], s, compiles) /\ s.valid /\ secrets
            h3 == AfterDecision(h2, durable, cand, ok)
            fresh == ok /\ durable = cand
        IN /\ ilog[i].class = "ours" /\ Sees(r, i, p, c)
           /\ Publish(r, h3, IF h3.accepted = NoVersion \/ ~secrets THEN NoVersion
                             ELSE [h3.accepted EXCEPT !.spec = Routing(h3, ilog[i].spec, fresh)])
  BY DEF BuildPlugin
<1>3. PICK g \in History : g = hist[r] /\ g.accepted \in Version /\ g.proposal \in Version /\ g.routes \in Nat
                           /\ Past(g.accepted) /\ Past(g.proposal)
  BY DEF CkInv, CkType, History, HistOk
<1>4. PICK ck \in Version : ck = clog[c] /\ Past(ck)
  BY <1>1, EntriesAre DEF CkInv, LogOk
<1>5. PICK cand : cand = [spec |-> ilog[i].spec, uid |-> s.uid, src |-> s.src]
  OBVIOUS
<1>6. cand \in Version /\ Past(cand) /\ cand # NoVersion /\ cand.spec = ilog[i].spec
  <2>1. /\ ilog[i] \in Ingresses /\ ilog[i].spec \in Nat /\ ilog[i].spec > 0
        /\ plog[p] \in Plugins /\ plog[p].uid > Builtin /\ p \in Nat
    BY <1>1, <1>2, EntriesAre DEF Logs, Ingresses, Routed
  <2>2. CASE ilog[i].script
    <3>1. s = plog[p] /\ s.uid > Builtin /\ s.uid \in Nat /\ s.src \in Nat
      BY <1>2, <2>1, <2>2 DEF Referenced, Plugins
    <3>2. cand \in Version /\ cand.spec = ilog[i].spec /\ cand.uid = s.uid /\ cand.src = s.src
      BY <1>5, <2>1, <3>1 DEF Version
    <3>3. Since(cand, 0)
      BY <2>1, <3>1, <3>2 DEF Since, HasSource
    <3> QED BY <2>1, <3>1, <3>2, <3>3, NoVersionIs DEF Past, Builtin
  <2>3. CASE ~ilog[i].script
    <3>1. s.uid = Builtin /\ s.src = 0
      BY <1>2, <2>3 DEF Referenced
    <3>2. cand \in Version /\ cand.spec = ilog[i].spec /\ cand.uid = Builtin /\ cand.src = 0
      BY <1>5, <2>1, <3>1 DEF Version, Builtin
    <3> QED BY <2>1, <3>2, NoVersionIs DEF Past, Builtin
  <2> QED BY <2>2, <2>3
<1>7. PICK d : d = Durable(ck, s) /\ d \in {NoVersion, ck} /\ d \in Version /\ Past(d)
  BY <1>4, NoVersionIs DEF Durable
<1>8. PICK h1 \in History : /\ h1 = AfterRevocation(g, s) /\ h1.accepted \in {NoVersion, g.accepted}
                            /\ Past(h1.proposal) /\ (RoutesOk(g) => RoutesOk(h1))
  <2>1. PICK n : n = [NoHistory EXCEPT !.revoked = TRUE]
    OBVIOUS
  <2>2. n \in History /\ n.accepted = NoVersion /\ n.proposal = NoVersion
    BY <2>1, NoVersionIs DEF NoHistory, History, NoSpec
  <2>3. AfterRevocation(g, s) \in {g, n}
    BY <2>1 DEF AfterRevocation
  <2> QED BY <1>3, <2>2, <2>3, NoVersionIs DEF RoutesOk
<1>9. PICK restored \in BOOLEAN : restored = Ready(g, d, restores)
  BY DEF Ready
<1>10. PICK h2 \in History : /\ h2 = AfterRestore(h1, d, restored) /\ h2.accepted \in {NoVersion, g.accepted, ck}
                             /\ Past(h2.proposal) /\ (RoutesOk(g) => RoutesOk(h2))
  <2>1. PICK n : n = [h1 EXCEPT !.accepted = d, !.routes = d.spec]
    OBVIOUS
  <2>2. /\ n \in History /\ n.accepted = d /\ n.proposal = h1.proposal /\ n.routes = d.spec
    BY <1>7, <2>1 DEF History, Version
  <2>3. AfterRestore(h1, d, restored) \in {h1, n}
    BY <2>1 DEF AfterRestore
  <2> QED BY <1>7, <1>8, <2>2, <2>3 DEF RoutesOk
<1>11. PICK ok \in BOOLEAN : ok = (Ready(g, s, compiles) /\ s.valid /\ secrets)
  OBVIOUS
<1>12. PICK h3 \in History : /\ h3 = AfterDecision(h2, d, cand, ok)
                             /\ h3.accepted \in {NoVersion, g.accepted, ck} /\ Past(h3.proposal)
                             /\ IF ok /\ d = cand THEN h3.accepted = cand ELSE RoutesOk(g) => RoutesOk(h3)
  <2>1. PICK n1, n2, n3 : /\ n1 = [h2 EXCEPT !.proposal = NoVersion]
                          /\ n2 = [h2 EXCEPT !.accepted = cand, !.proposal = NoVersion, !.revoked = FALSE]
                          /\ n3 = [h2 EXCEPT !.proposal = cand]
    OBVIOUS
  <2>2. n1 \in History /\ n1.accepted = h2.accepted /\ n1.proposal = NoVersion /\ n1.routes = h2.routes
    BY <2>1, NoVersionIs DEF History
  <2>3. n2 \in History /\ n2.accepted = cand /\ n2.proposal = NoVersion
    BY <1>6, <2>1, NoVersionIs DEF History
  <2>4. n3 \in History /\ n3.accepted = h2.accepted /\ n3.proposal = cand /\ n3.routes = h2.routes
    BY <1>6, <2>1 DEF History
  <2>5. AfterDecision(h2, d, cand, ok) = IF ~ok THEN n1 ELSE IF d = cand THEN n2 ELSE n3
    BY <2>1 DEF AfterDecision
  <2>6. RoutesOk(h2) => RoutesOk(n1) /\ RoutesOk(n3)
    BY <2>2, <2>4 DEF RoutesOk
  <2>7. CASE ~ok
    BY <1>10, <2>2, <2>5, <2>6, <2>7, NoVersionIs
  <2>8. CASE ok /\ d = cand
    BY <1>6, <1>7, <2>3, <2>5, <2>8, NoVersionIs
  <2>9. CASE ok /\ d # cand
    BY <1>6, <1>10, <2>4, <2>5, <2>6, <2>9
  <2> QED BY <2>7, <2>8, <2>9
<1>13. PICK v : v = IF h3.accepted = NoVersion \/ ~secrets THEN NoVersion
                    ELSE [h3.accepted EXCEPT !.spec = Routing(h3, ilog[i].spec, ok /\ d = cand)]
  OBVIOUS
<1>14. Sees(r, i, p, c) /\ Publish(r, h3, v)
  BY <1>2, <1>3, <1>4, <1>5, <1>7, <1>8, <1>9, <1>10, <1>11, <1>12, <1>13
<1>15. h3.accepted \in Version /\ Past(h3.accepted) /\ h3.routes \in Nat /\ ilog[i].spec \in Nat
  BY <1>1, <1>3, <1>4, <1>12, EntriesAre, NoVersionIs DEF History, Ingresses
<1>16. v \in Version
  <2>1. Routing(h3, ilog[i].spec, ok /\ d = cand) \in Nat
    BY <1>15 DEF Routing
  <2> QED BY <1>13, <1>15, <2>1, NoVersionIs DEF Version
<1>17. ASSUME secrets, RoutesOk(g) PROVE v = h3.accepted
  <2>1. CASE h3.accepted = NoVersion
    BY <1>13, <2>1
  <2>2. CASE h3.accepted # NoVersion
    <3>1. PICK n : n = Routing(h3, ilog[i].spec, ok /\ d = cand)
      OBVIOUS
    <3>2. n = h3.accepted.spec
      <4>1. CASE ok /\ d = cand
        BY <1>6, <1>12, <3>1, <4>1 DEF Routing
      <4>2. CASE ~(ok /\ d = cand)
        <5>1. h3.routes = h3.accepted.spec
          BY <1>12, <1>17, <2>2, <4>2 DEF RoutesOk
        <5>2. h3.accepted.spec # NoSpec
          BY <1>1, <1>15, <2>2, EntriesAre DEF Past, NoSpec
        <5> QED BY <3>1, <4>2, <5>1, <5>2 DEF Routing
      <4> QED BY <4>1, <4>2
    <3>3. v = [h3.accepted EXCEPT !.spec = n]
      BY <1>13, <1>17, <2>2, <3>1
    <3> QED BY <1>15, <3>2, <3>3 DEF Version
  <2> QED BY <2>1, <2>2
<1>18. PICK h : h = [h3 EXCEPT !.routes = v.spec]
  OBVIOUS
<1>19. h \in History /\ h.accepted = h3.accepted /\ h.proposal = h3.proposal /\ h.routes = v.spec
  BY <1>12, <1>16, <1>18 DEF History, Version
<1>20. Outcome(r, c, h, v)
  BY <1>3, <1>4, <1>12, <1>14, <1>16, <1>18, <1>19 DEF Outcome, Publish
<1> QED BY <1>3, <1>14, <1>17, <1>19, <1>20 DEF Serves

(* A build, seen from outside: what it saw, accepted and served.           *)
LEMMA BuildInv ==
    ASSUME CkInv, NEW r \in Replicas, NEW i \in 1..Len(ilog), NEW p \in 1..Len(plog),
           NEW c \in 1..Len(clog), Sees(r, i, p, c), NEW h, NEW v, Outcome(r, c, h, v),
           ~SecretsMayFail => Serves(h, v)
    PROVE  CkInv'
<1>1. /\ seen' = [seen EXCEPT ![r] = [ingress |-> i, plugin |-> p, checkpoint |-> c]]
      /\ task' = [task EXCEPT ![r] = IF task[r] = Off THEN Idle ELSE task[r]]
      /\ UNCHANGED <<ilog, plog, clog, writes, live, written>>
  BY DEF Sees
<1>2. /\ h \in History /\ v \in Version /\ h.routes = v.spec
      /\ h.accepted \in {NoVersion, hist[r].accepted, clog[c]} /\ Past(h.proposal)
      /\ served' = [served EXCEPT ![r] = v] /\ hist' = [hist EXCEPT ![r] = h]
  BY DEF Outcome
<1>3. CkType /\ Grown /\ Logs' /\ LiveNow' /\ LogOk'
  BY <1>1, Same DEF CkInv
<1>4. PICK t \in Tasks : t = (IF task[r] = Off THEN Idle ELSE task[r]) /\ TaskOk(t)
  BY <1>3, IdleIs DEF CkInv, CkType
<1>5. HistOk(h)
  <2>1. Past(hist[r].accepted) /\ Past(clog[c])
    BY DEF CkInv, HistOk, LogOk
  <2> QED BY <1>2, <2>1, NoVersionIs DEF HistOk
<1>6. CkType'
  <2>1. [ingress |-> i, plugin |-> p, checkpoint |-> c] \in Positions
    BY DEF Positions
  <2> QED BY <1>1, <1>2, <1>3, <1>4, <2>1 DEF CkType
<1>7. /\ hist'[r] = h /\ served'[r] = v /\ task'[r] = t
      /\ \A q \in Replicas : q # r => hist'[q] = hist[q] /\ served'[q] = served[q] /\ task'[q] = task[q]
  BY <1>1, <1>2, <1>3, <1>4 DEF CkType
<1>8. ASSUME NEW q \in Replicas PROVE TaskOk(task[q])' /\ HistOk(hist[q])'
  <2>1. PICK u, g : u = task'[q] /\ g = hist'[q] /\ u \in Tasks /\ g \in History
    BY <1>6 DEF CkType
  <2>2. TaskOk(u) /\ HistOk(g)
    <3>1. CASE q = r
      BY <1>4, <1>5, <1>7, <2>1, <3>1
    <3>2. CASE q # r
      BY <1>7, <2>1, <3>2 DEF CkInv
    <3> QED BY <3>1, <3>2
  <2>3. TaskOk(u)' /\ HistOk(g)'
    BY <1>3, <2>1, <2>2, TaskGrows, HistGrows
  <2> QED BY <2>1, <2>3 DEF TaskOk, HistOk, Past
<1>9. ASSUME ~SecretsMayFail, NEW q \in Replicas PROVE Acknowledged(q)'
  <2>1. CASE q = r
    <3>1. Serves(h, v) /\ InLog(hist[r].accepted)
      BY <1>9 DEF CkInv, Acknowledged
    <3>2. InLog(clog[c])
      BY DEF InLog
    <3>3. InLog(h.accepted)
      BY <1>2, <3>1, <3>2, NoVersionIs
    <3>4. InLog(v) /\ RoutesOk(h)
      BY <1>2, <3>1, <3>3 DEF Serves, InLog, RoutesOk
    <3>5. PICK a : a = h.accepted
      OBVIOUS
    <3>6. InLog(v)' /\ InLog(a)'
      BY <1>3, <3>3, <3>4, <3>5, InLogGrows
    <3> QED BY <1>7, <2>1, <3>4, <3>5, <3>6 DEF Acknowledged, InLog, RoutesOk
  <2>2. CASE q # r
    BY <1>3, <1>7, <1>9, <2>2, AcknowledgedGrows DEF CkInv
  <2> QED BY <2>1, <2>2
<1>10. \A x \in writes' : WriteOk(x)'
  BY <1>1, <1>3, WriteGrows DEF CkInv, CkType
<1> QED BY <1>3, <1>6, <1>8, <1>9, <1>10 DEF CkInv

LEMMA ControllerInv == ASSUME CkInv, NEW r \in Replicas, Controller(r) PROVE CkInv'
<1>1. seen[r] \in Positions
  BY DEF CkInv, CkType
<1>2. PICK i \in seen[r].ingress..Len(ilog), p \in seen[r].plugin..Len(plog),
           c \in seen[r].checkpoint..Len(clog) : Build(r, i, p, c)
  BY DEF Controller
<1>3. i \in 1..Len(ilog) /\ p \in 1..Len(plog) /\ c \in 1..Len(clog)
  BY <1>1, EntriesAre DEF CkInv, Positions
<1>4. CASE BuildPlain(r, i, p, c)
  <2>1. PICK v : v = [spec |-> ilog[i].spec, uid |-> NoUid, src |-> 0]
    OBVIOUS
  <2>2. v \in Version /\ v.uid = NoUid
    BY <1>3, <2>1, EntriesAre DEF CkInv, Ingresses, Version, NoUid
  <2>3. Sees(r, i, p, c) /\ Publish(r, Withdrawn(hist[r]), v)
    BY <1>4, <2>1 DEF BuildPlain
  <2> QED BY <1>3, <2>2, <2>3, EmptiedOutcome, BuildInv DEF Emptied
<1>5. CASE BuildMissing(r, i, p, c) \/ BuildUnselected(r, i, p, c) \/ BuildUnclassed(r, i, p, c)
  <2>1. Sees(r, i, p, c) /\ \E g \in Emptied(r) : Publish(r, g, NoVersion)
    BY <1>5 DEF BuildMissing, BuildUnselected, BuildUnclassed, Emptied
  <2> QED BY <1>3, <2>1, NoVersionIs, EmptiedOutcome, BuildInv DEF NoUid
<1>6. CASE \E restores, compiles \in Compiled, secrets \in {TRUE, ~(SecretsMayFail /\ ilog[i].policy)} :
             BuildPlugin(r, i, p, c, restores, compiles, secrets)
  <2>1. PICK restores, compiles \in Compiled, secrets \in {TRUE, ~(SecretsMayFail /\ ilog[i].policy)} :
           BuildPlugin(r, i, p, c, restores, compiles, secrets)
    BY <1>6
  <2>2. Sees(r, i, p, c) /\ \E h, v : Outcome(r, c, h, v) /\ (secrets /\ RoutesOk(hist[r]) => Serves(h, v))
    BY <1>3, <2>1, BuildPluginIs
  <2>3. ~SecretsMayFail => secrets /\ RoutesOk(hist[r])
    BY DEF CkInv, Acknowledged
  <2> QED BY <1>3, <2>2, <2>3, BuildInv
<1> QED BY <1>2, <1>4, <1>5, <1>6 DEF Build

-----------------------------------------------------------------------------
LEMMA CkStart == Init => CkInv
<1> SUFFICES ASSUME Init PROVE CkInv
  OBVIOUS
<1>1. PICK b \in Policies : ilog = << [spec |-> 1, script |-> TRUE, policy |-> b, class |-> "ours"] >>
  BY DEF Init
<1>2. /\ plog = << [uid |-> 2, src |-> 1, valid |-> TRUE] >> /\ clog = << NoVersion >> /\ writes = {}
      /\ seen = [r \in Replicas |-> [ingress |-> 1, plugin |-> 1, checkpoint |-> 1]]
      /\ hist = [r \in Replicas |-> NoHistory] /\ served = [r \in Replicas |-> NoVersion]
      /\ task = [r \in Replicas |-> Off] /\ live = {Now} /\ written = << Now >>
  BY DEF Init
<1>3. /\ [spec |-> 1, script |-> TRUE, policy |-> b, class |-> "ours"] \in Ingresses
      /\ [uid |-> 2, src |-> 1, valid |-> TRUE] \in Plugins
      /\ Now = [ingress |-> 1, plugin |-> 1] /\ Now \in Moment
      /\ [ingress |-> 1, plugin |-> 1, checkpoint |-> 1] \in Positions
  BY <1>1, <1>2, CheckpointAssumption DEF Ingresses, Plugins, Now, Moment, Positions
<1>4. NoHistory \in History /\ NoHistory.accepted = NoVersion /\ NoHistory.proposal = NoVersion
  BY NoVersionIs DEF NoHistory, History, NoSpec
<1>5. CkType
  BY <1>1, <1>2, <1>3, <1>4, IdleIs, NoVersionIs DEF CkType
<1>6. Logs /\ LiveNow
  BY <1>1, <1>2, <1>3 DEF Logs, LiveNow, Reached, Routed, Builtin
<1>7. LogOk
  BY <1>2, NoVersionIs DEF LogOk
<1>8. \A r \in Replicas : TaskOk(task[r]) /\ HistOk(hist[r]) /\ Acknowledged(r)
  BY <1>2, <1>4, IdleIs, NoVersionIs DEF HistOk, Acknowledged, RoutesOk
<1> QED BY <1>2, <1>5, <1>6, <1>7, <1>8 DEF CkInv

LEMMA CkStep == ASSUME CkInv, [Next]_vars PROVE CkInv'
<1>1. CASE UNCHANGED vars
  <2>1. /\ UNCHANGED <<ilog, plog, clog, writes, seen, hist, served, task, live, written>>
    BY <1>1 DEF vars
  <2>2. Grown /\ Logs' /\ LiveNow' /\ LogOk'
    BY <2>1, Same DEF CkInv
  <2>3. CkType'
    BY <2>1 DEF CkInv, CkType
  <2>4. \A w \in writes' : WriteOk(w)'
    BY <2>1, <2>2, WriteGrows DEF CkInv
  <2> QED BY <2>1, <2>2, <2>3, <2>4, RepliesKept DEF CkInv
<1>2. CASE Tenant
  BY <1>2, TenantInv
<1>3. CASE Server
  BY <1>3, ApplyWriteInv, DropWriteInv DEF Server
<1>4. ASSUME NEW r \in Replicas, Controller(r) \/ Persist(r) \/ Restart(r) PROVE CkInv'
  BY <1>4, ControllerInv, RestartInv, PersistListInv, PersistCheckIngressInv, PersistCheckPluginInv, PruneInv
     DEF Persist
<1> QED BY <1>1, <1>2, <1>3, <1>4 DEF Next

LEMMA CkInductive == Spec => []CkInv
  BY CkStart, CkStep, PTL DEF Spec

(* A checkpoint never mixes routes and a plugin source that were not in    *)
(* force together (persist_one), although it reads the two one after the   *)
(* other, from replicas that saw them through different watches, and its   *)
(* write arrives later still; unless the tenant replaced the source and    *)
(* put it back between the two reads.                                      *)
THEOREM CheckpointIsOfOneTime == Spec => []CheckpointWasLive
<1>1. CkInv => CheckpointWasLive
  BY DEF CkInv, LogOk, WasLive, CheckpointWasLive
<1> QED BY <1>1, CkInductive, PTL

(* A lagging replica never overwrites a newer accepted configuration and   *)
(* never prunes one that is wanted (persist_one, prune_one): the routes    *)
(* and the source of a replacement were in force after the checkpoint it   *)
(* replaces was written, and so was the reason for a deletion.             *)
THEOREM CheckpointGoesForward == Spec => CheckpointNeverRegresses
<1>1. ASSUME CkInv, [Next]_vars, checkpoint # NoVersion, clog' # clog
      PROVE  IF checkpoint' = NoVersion THEN Unwanted(checkpoint, written[Len(clog)])
             ELSE Follows(checkpoint', written[Len(clog)])
  <2>1. clog' = clog \/ \E w \in writes : ApplyWrite(w)
    <3>1. CASE Tenant
      BY <3>1 DEF Tenant, EditIngress, EditPlugin, Edit
    <3>2. ASSUME NEW r \in Replicas, Controller(r) PROVE clog' = clog
      <4>1. PICK i, p, c : Build(r, i, p, c)
        BY <3>2 DEF Controller
      <4>2. Sees(r, i, p, c)
        <5>1. ASSUME NEW a, NEW b, NEW d, BuildPlugin(r, i, p, c, a, b, d) PROVE Sees(r, i, p, c)
          BY <5>1 DEF BuildPlugin
        <5> QED BY <4>1, <5>1 DEF Build, BuildPlain, BuildMissing, BuildUnselected, BuildUnclassed
      <4> QED BY <4>2 DEF Sees
    <3>3. ASSUME NEW r \in Replicas, Persist(r) PROVE clog' = clog
      <4>1. \A q, t : Step(q, t) => clog' = clog
        BY DEF Step
      <4>2. SendCheckpoint(r) \/ SendDelete(r) => clog' = clog
        BY <4>1 DEF SendCheckpoint, SendDelete, Send
      <4> QED BY <3>3, <4>1, <4>2 DEF Persist, PersistList, PersistCheckIngress, PersistCheckPlugin,
                                      PruneCheckIngress, PruneCheckPlugin
    <3>4. ASSUME NEW r \in Replicas, Restart(r) PROVE clog' = clog
      BY <3>4 DEF Restart
    <3> QED BY <1>1, <3>1, <3>2, <3>3, <3>4 DEF Next, Server, DropWrite, vars
  <2> QED BY <1>1, <2>1, ApplyWriteInv
<1>2. CkInv /\ [Next]_vars =>
        [checkpoint # NoVersion /\ clog' # clog =>
            LET m == written[Len(clog)]
            IN IF checkpoint' = NoVersion THEN Unwanted(checkpoint, m) ELSE Follows(checkpoint', m)]_vars
  BY <1>1
<1> QED BY <1>2, CkInductive, PTL DEF Spec, CheckpointNeverRegresses

(* Publication follows the watch acknowledgement of the checkpoint (build):*)
(* as long as the Secrets of the policy are there, routes and plugin that  *)
(* serve traffic together were checkpointed together.  Without the         *)
(* hypothesis this is false, as the run with missing Secrets shows.        *)
THEOREM PublishedIsDurable == ASSUME ~SecretsMayFail PROVE Spec => []ServedIsDurable
<1>1. CkInv => ServedIsDurable
  BY DEF CkInv, Acknowledged, InLog, ServedIsDurable, UsesPlugin
<1> QED BY <1>1, CkInductive, PTL

-----------------------------------------------------------------------------
(* What a process may hold that found its plugin withdrawn in version b    *)
(* and has seen the checkpoints up to n: once it is not revoked any more,  *)
(* it has seen a checkpoint from after b, so that an older one it restores *)
(* later came back.                                                        *)
Held(h, b, n) ==
    /\ h.revoked => h.accepted = NoVersion
    /\ h.accepted = NoVersion /\ ~h.revoked => b = 0
    /\ h.accepted.uid > Builtin =>
        /\ Since(h.accepted, b) \/ CameBack(h.accepted, b)
        /\ b > 0 => \E j \in 1..n : clog[j].uid = h.accepted.uid /\ Since(clog[j], b)

ServesHeld(v, h) == v.uid > Builtin => v.uid = h.accepted.uid /\ v.src = h.accepted.src

DownOk(r) ==
    /\ barred[r] \in 0..seen[r].plugin /\ seen[r].checkpoint \in 1..Len(clog)
    /\ Held(hist[r], barred[r], seen[r].checkpoint) /\ ServesHeld(served[r], hist[r])

DownInv == barred \in [Replicas -> Nat] /\ \A r \in Replicas : DownOk(r)

LEMMA CheckpointedGrows ==
    ASSUME Grown, NEW j \in 1..Len(clog), NEW b, Since(clog[j], b)
    PROVE  j \in 1..Len(clog') /\ clog'[j] = clog[j] /\ Since(clog[j], b)'
<1>1. PICK u : u = clog[j] /\ Since(u, b)
  OBVIOUS
<1>2. j \in 1..Len(clog') /\ clog'[j] = u
  BY <1>1 DEF Grown
<1>3. Since(u, b)'
  BY <1>1, SinceGrows
<1> QED BY <1>1, <1>2, <1>3

LEMMA CameBackGrows == ASSUME Grown, NEW v, NEW b, CameBack(v, b) PROVE CameBack(v, b)'
<1>1. PICK k \in 1..Len(clog) : \E j \in 1..k :
        HasSource(clog[k], v) /\ clog[j].uid = v.uid /\ Since(clog[j], b)
  BY DEF CameBack
<1>2. PICK j \in 1..k : HasSource(clog[k], v) /\ clog[j].uid = v.uid /\ Since(clog[j], b)
  BY <1>1
<1>3. k \in 1..Len(clog') /\ clog'[k] = clog[k] /\ j \in 1..Len(clog)
  BY DEF Grown
<1>4. clog'[j] = clog[j] /\ Since(clog[j], b)'
  BY <1>2, <1>3, CheckpointedGrows
<1> QED BY <1>2, <1>3, <1>4 DEF CameBack, HasSource

LEMMA HeldGrows ==
    ASSUME Grown, NEW h, NEW b, NEW n \in 1..Len(clog), Held(h, b, n) PROVE Held(h, b, n)'
<1>1. PICK a : a = h.accepted
  OBVIOUS
<1>2. (Since(a, b) => Since(a, b)') /\ (CameBack(a, b) => CameBack(a, b)')
  BY SinceGrows, CameBackGrows
<1>3. ASSUME NEW j \in 1..n, clog[j].uid = a.uid, Since(clog[j], b)
      PROVE  clog'[j].uid = a.uid /\ Since(clog[j], b)'
  <2>1. j \in 1..Len(clog)
    BY DEF Grown
  <2> QED BY <1>3, <2>1, CheckpointedGrows
<1> QED BY <1>1, <1>2, <1>3 DEF Held

(* Steps in which no replica builds or starts.                             *)
LEMMA DownKept ==
    ASSUME DownInv, Grown, UNCHANGED <<seen, hist, served, barred>>
    PROVE  DownInv'
<1>1. ASSUME NEW r \in Replicas PROVE DownOk(r)'
  <2>1. PICK h, b, n, v : h = hist[r] /\ b = barred[r] /\ n = seen[r].checkpoint /\ v = served[r]
    OBVIOUS
  <2>2. /\ b \in 0..seen[r].plugin /\ n \in 1..Len(clog) /\ Held(h, b, n) /\ ServesHeld(v, h)
    BY <2>1 DEF DownInv, DownOk
  <2>3. n \in 1..Len(clog')
    BY <2>2 DEF Grown
  <2>4. Held(h, b, n)'
    BY <2>2, HeldGrows
  <2> QED BY <2>1, <2>2, <2>3, <2>4 DEF DownOk, ServesHeld
<1> QED BY <1>1 DEF DownInv

(* A step of r that leaves it with h, having found its plugin withdrawn in *)
(* version b, and serving v.                                               *)
LEMMA DownBuilt ==
    ASSUME CkInv, DownInv, NEW r \in Replicas, UNCHANGED <<ilog, plog, clog, live, written>>,
           NEW i, NEW p \in Nat, NEW c \in 1..Len(clog), NEW b \in 0..p, NEW h, NEW v,
           seen' = [seen EXCEPT ![r] = [ingress |-> i, plugin |-> p, checkpoint |-> c]],
           hist' = [hist EXCEPT ![r] = h], served' = [served EXCEPT ![r] = v],
           barred' = [barred EXCEPT ![r] = b], Held(h, b, c), ServesHeld(v, h)
    PROVE  DownInv'
<1>1. barred \in [Replicas -> Nat] /\ CkType /\ Grown
  BY Same DEF DownInv, CkInv
<1>2. barred' \in [Replicas -> Nat]
  BY <1>1
<1>3. ASSUME NEW q \in Replicas PROVE DownOk(q)'
  <2>1. CASE q = r
    <3>1. /\ hist'[q] = h /\ served'[q] = v /\ barred'[q] = b
          /\ seen'[q].plugin = p /\ seen'[q].checkpoint = c
      BY <1>1, <2>1 DEF CkType
    <3>2. Held(h, b, c)'
      BY <1>1, HeldGrows
    <3> QED BY <3>1, <3>2 DEF DownOk, ServesHeld
  <2>2. CASE q # r
    <3>1. hist'[q] = hist[q] /\ served'[q] = served[q] /\ barred'[q] = barred[q] /\ seen'[q] = seen[q]
      BY <1>1, <2>2 DEF CkType
    <3>2. PICK g, a, n : g = hist[q] /\ a = barred[q] /\ n = seen[q].checkpoint
      OBVIOUS
    <3>3. DownOk(q) /\ n \in 1..Len(clog) /\ Held(g, a, n)
      BY <3>2 DEF DownInv, DownOk
    <3>4. Held(g, a, n)'
      BY <1>1, <3>3, HeldGrows
    <3> QED BY <3>1, <3>2, <3>3, <3>4 DEF DownOk, ServesHeld
  <2> QED BY <2>1, <2>2
<1> QED BY <1>2, <1>3 DEF DownInv

LEMMA WithdrawnHeld ==
    ASSUME NEW h, NEW b, h.accepted = NoVersion, h.revoked \/ b = 0, NEW n, NEW v, v.uid = NoUid
    PROVE  Held(h, b, n) /\ ServesHeld(v, h)
  BY NoVersionIs DEF Held, ServesHeld, Builtin, NoUid

LEMMA HeldSame ==
    ASSUME NEW h, NEW g, h.accepted = g.accepted, h.revoked = g.revoked, NEW b, NEW n, Held(g, b, n)
    PROVE  Held(h, b, n)
  BY DEF Held

(* checkpoint::restore of the checkpoint that r sees.                      *)
LEMMA RestoreHeld ==
    ASSUME CkInv, NEW h1 \in History, NEW d \in Version, NEW restored, NEW b \in Nat, NEW c \in 1..Len(clog),
           NEW n \in 1..c, d \in {NoVersion, clog[c]}, Held(h1, b, n),
           h1.accepted # NoVersion /\ d # NoVersion => h1.accepted.uid = d.uid
    PROVE  Held(AfterRestore(h1, d, restored), b, c)
<1>1. Len(clog) \in Nat /\ c \in Nat /\ n \in Nat
  BY EntriesAre DEF CkInv
<1>2. Held(h1, b, c)
  BY <1>1 DEF Held
<1>3. CASE AfterRestore(h1, d, restored) = h1
  BY <1>2, <1>3
<1>4. CASE ~h1.revoked /\ d # NoVersion /\ AfterRestore(h1, d, restored) = [h1 EXCEPT !.accepted = d, !.routes = d.spec]
  <2>1. PICK h : h = [h1 EXCEPT !.accepted = d, !.routes = d.spec]
    OBVIOUS
  <2>2. h.accepted = d /\ h.revoked = h1.revoked
    BY <2>1 DEF History
  <2>3. ASSUME d.uid > Builtin
        PROVE  /\ Since(d, b) \/ CameBack(d, b)
               /\ b > 0 => \E j \in 1..c : clog[j].uid = d.uid /\ Since(clog[j], b)
    <3>1. d = clog[c] /\ Since(d, 0)
      BY <1>4, <2>3 DEF CkInv, LogOk, Past
    <3>2. CASE b = 0
      BY <3>1, <3>2
    <3>3. CASE b > 0
      <4>1. h1.accepted.uid = d.uid
        BY <1>4, <3>3 DEF Held
      <4>2. PICK j \in 1..n : clog[j].uid = d.uid /\ Since(clog[j], b)
        BY <2>3, <3>3, <4>1 DEF Held
      <4>3. j \in 1..c
        BY <1>1
      <4>4. CameBack(d, b)
        BY <3>1, <4>2, <4>3 DEF CameBack, HasSource
      <4> QED BY <4>2, <4>3, <4>4
    <3> QED BY <3>2, <3>3
  <2> QED BY <1>4, <2>1, <2>2, <2>3 DEF Held
<1> QED BY <1>3, <1>4 DEF AfterRestore

LEMMA BuildPluginDown ==
    ASSUME CkInv, DownInv, NEW r \in Replicas, NEW i \in 1..Len(ilog),
           NEW p \in 1..Len(plog), p >= seen[r].plugin,
           NEW c \in 1..Len(clog), c >= seen[r].checkpoint,
           NEW restores, NEW compiles, NEW secrets,
           BuildPlugin(r, i, p, c, restores, compiles, secrets)
    PROVE  DownInv'
<1>1. CkType /\ Logs
  BY DEF CkInv
<1>2. PICK s \in Referenced(ilog[i], plog[p]) :
        LET h1 == AfterRevocation(hist[r], s)
            durable == Durable(clog[c], s)
            h2 == AfterRestore(h1, durable, Ready(hist[r], durable, restores))
            cand == [spec |-> ilog[i].spec, uid |-> s.uid, src |-> s.src]
            ok == Ready(hist[r], s, compiles) /\ s.valid /\ secrets
            h3 == AfterDecision(h2, durable, cand, ok)
            fresh == ok /\ durable = cand
        IN /\ ilog[i].class = "ours" /\ Sees(r, i, p, c)
           /\ Publish(r, h3, IF h3.accepted = NoVersion \/ ~secrets THEN NoVersion
                             ELSE [h3.accepted EXCEPT !.spec = Routing(h3, ilog[i].spec, fresh)])
           /\ barred' = IF h1 = hist[r] THEN barred ELSE [barred EXCEPT ![r] = p]
  BY DEF BuildPlugin
<1>3. PICK g \in History : g = hist[r] /\ g.accepted \in Version
  BY DEF CkInv, CkType, History
<1>4. PICK ck \in Version : ck = clog[c]
  BY <1>1, EntriesAre
<1>5. PICK cand : cand = [spec |-> ilog[i].spec, uid |-> s.uid, src |-> s.src]
  OBVIOUS
<1>6. cand \in Version /\ cand # NoVersion /\ (cand.uid > Builtin => HasSource(plog[p], cand))
  <2>1. /\ ilog[i] \in Ingresses /\ ilog[i].spec \in Nat /\ ilog[i].spec > 0 /\ plog[p] \in Plugins
    BY <1>1, <1>2, EntriesAre DEF Logs, Ingresses, Routed
  <2>2. s.uid \in Nat /\ s.src \in Nat /\ (s.uid > Builtin => s = plog[p])
    BY <1>2, <2>1 DEF Referenced, Plugins, Builtin
  <2>3. cand \in Version /\ cand.spec = ilog[i].spec /\ cand.uid = s.uid /\ cand.src = s.src
    BY <1>5, <2>1, <2>2 DEF Version
  <2> QED BY <2>1, <2>2, <2>3, NoVersionIs DEF HasSource
<1>7. PICK d : d = Durable(ck, s) /\ d \in {NoVersion, ck} /\ d \in Version /\ (d # NoVersion => d.uid = s.uid)
  BY <1>4, NoVersionIs DEF Durable
<1>8. PICK h1 \in History : /\ h1 = AfterRevocation(g, s)
                            /\ h1.accepted # NoVersion => h1.accepted.uid = s.uid
                            /\ h1 # g => h1.accepted = NoVersion /\ h1.revoked
  <2>1. PICK n : n = [NoHistory EXCEPT !.revoked = TRUE]
    OBVIOUS
  <2>2. n \in History /\ n.accepted = NoVersion /\ n.revoked
    BY <2>1, NoVersionIs DEF NoHistory, History, NoSpec
  <2> QED BY <2>1, <2>2 DEF AfterRevocation
<1>9. PICK b : b = IF h1 = g THEN barred[r] ELSE p
  OBVIOUS
<1>10. PICK n : n = seen[r].checkpoint
  OBVIOUS
<1>11. /\ b \in 0..p /\ b \in Nat /\ p \in Nat /\ n \in 1..c /\ c \in Nat /\ Len(clog) \in Nat
       /\ Held(h1, b, n)
  <2>1. /\ barred[r] \in 0..seen[r].plugin /\ seen[r].checkpoint \in 1..Len(clog)
        /\ Held(g, barred[r], n)
    BY <1>3, <1>10 DEF DownInv, DownOk
  <2>2. seen[r].plugin \in Nat /\ seen[r].checkpoint \in Nat /\ Len(plog) \in Nat /\ Len(clog) \in Nat
    BY <1>1, EntriesAre DEF CkType, Positions
  <2>3. b \in 0..p /\ b \in Nat /\ p \in Nat /\ n \in 1..c /\ c \in Nat
    BY <1>9, <1>10, <2>1, <2>2
  <2>4. Held(h1, b, n)
    <3>1. CASE h1 = g
      BY <1>9, <2>1, <3>1
    <3>2. CASE h1 # g
      BY <1>8, <3>2, NoVersionIs, WithdrawnHeld DEF NoUid
    <3> QED BY <3>1, <3>2
  <2> QED BY <2>2, <2>3, <2>4
<1>12. PICK restored : restored = Ready(g, d, restores)
  OBVIOUS
<1>13. PICK h2 \in History : h2 = AfterRestore(h1, d, restored) /\ Held(h2, b, c)
  <2>1. PICK e : e = [h1 EXCEPT !.accepted = d, !.routes = d.spec]
    OBVIOUS
  <2>2. e \in History
    BY <1>7, <2>1 DEF History, Version
  <2>3. AfterRestore(h1, d, restored) \in {h1, e}
    BY <2>1 DEF AfterRestore
  <2>4. h1.accepted # NoVersion /\ d # NoVersion => h1.accepted.uid = d.uid
    BY <1>7, <1>8
  <2>5. Held(AfterRestore(h1, d, restored), b, c)
    BY <1>4, <1>7, <1>11, <2>4, RestoreHeld
  <2> QED BY <2>2, <2>3, <2>5
<1>14. PICK ok : ok = (Ready(g, s, compiles) /\ s.valid /\ secrets)
  OBVIOUS
<1>15. PICK h3 \in History : h3 = AfterDecision(h2, d, cand, ok) /\ Held(h3, b, c)
  <2>1. PICK n1, n2, n3 : /\ n1 = [h2 EXCEPT !.proposal = NoVersion]
                          /\ n2 = [h2 EXCEPT !.accepted = cand, !.proposal = NoVersion, !.revoked = FALSE]
                          /\ n3 = [h2 EXCEPT !.proposal = cand]
    OBVIOUS
  <2>2. n1 \in History /\ n1.accepted = h2.accepted /\ n1.revoked = h2.revoked
    BY <2>1, NoVersionIs DEF History
  <2>3. n2 \in History /\ n2.accepted = cand /\ n2.revoked = FALSE
    BY <1>6, <2>1, NoVersionIs DEF History
  <2>4. n3 \in History /\ n3.accepted = h2.accepted /\ n3.revoked = h2.revoked
    BY <1>6, <2>1 DEF History
  <2>5. Held(n1, b, c) /\ Held(n3, b, c)
    BY <1>13, <2>2, <2>4, HeldSame
  <2>6. ASSUME d = cand PROVE Held(n2, b, c)
    <3>1. clog[c] = cand /\ c \in 1..c
      BY <1>4, <1>6, <1>7, <1>11, <2>6
    <3>2. cand.uid > Builtin => Since(cand, b)
      BY <1>6, <1>11 DEF Since
    <3> QED BY <1>6, <2>3, <3>1, <3>2 DEF Held
  <2>7. AfterDecision(h2, d, cand, ok) = IF ~ok THEN n1 ELSE IF d = cand THEN n2 ELSE n3
    BY <2>1 DEF AfterDecision
  <2> QED BY <2>2, <2>3, <2>4, <2>5, <2>6, <2>7
<1>16. PICK v : v = IF h3.accepted = NoVersion \/ ~secrets THEN NoVersion
                    ELSE [h3.accepted EXCEPT !.spec = Routing(h3, ilog[i].spec, ok /\ d = cand)]
  OBVIOUS
<1>17. Sees(r, i, p, c) /\ Publish(r, h3, v) /\ barred' = IF h1 = g THEN barred ELSE [barred EXCEPT ![r] = p]
  BY <1>2, <1>3, <1>4, <1>5, <1>7, <1>8, <1>12, <1>13, <1>14, <1>15, <1>16
<1>18. barred' = [barred EXCEPT ![r] = b]
  BY <1>9, <1>17 DEF DownInv
<1>19. PICK h : h = [h3 EXCEPT !.routes = v.spec]
  OBVIOUS
<1>20. h.accepted = h3.accepted /\ h.revoked = h3.revoked
  BY <1>19 DEF History
<1>21. Held(h, b, c)
  BY <1>15, <1>20, HeldSame
<1>22. ServesHeld(v, h)
  <2>1. h3.accepted \in Version
    BY DEF History
  <2> QED BY <1>16, <1>20, <2>1, NoVersionIs DEF ServesHeld, Version, Builtin
<1>23. /\ UNCHANGED <<ilog, plog, clog, live, written>> /\ hist' = [hist EXCEPT ![r] = h] /\ served' = [served EXCEPT ![r] = v]
       /\ seen' = [seen EXCEPT ![r] = [ingress |-> i, plugin |-> p, checkpoint |-> c]]
  BY <1>17, <1>19 DEF Sees, Publish
<1> QED BY <1>11, <1>18, <1>21, <1>22, <1>23, DownBuilt

LEMMA ControllerDown == ASSUME CkInv, DownInv, NEW r \in Replicas, Controller(r) PROVE DownInv'
<1>1. seen[r] \in Positions /\ hist[r] \in History /\ barred \in [Replicas -> Nat]
  BY DEF CkInv, CkType, DownInv
<1>2. PICK i \in seen[r].ingress..Len(ilog), p \in seen[r].plugin..Len(plog),
           c \in seen[r].checkpoint..Len(clog) : Build(r, i, p, c)
  BY DEF Controller
<1>3. /\ i \in 1..Len(ilog) /\ p \in 1..Len(plog) /\ c \in 1..Len(clog) /\ p \in Nat
      /\ p >= seen[r].plugin /\ c >= seen[r].checkpoint
  BY <1>1, EntriesAre DEF CkInv, Positions
<1>4. ASSUME NEW v, v.uid = NoUid, Sees(r, i, p, c), NEW g \in Emptied(r), Publish(r, g, v),
             NEW b \in 0..p, g.revoked \/ b = 0, barred' = [barred EXCEPT ![r] = b]
      PROVE  DownInv'
  <2>1. PICK h : h = [g EXCEPT !.routes = v.spec]
    OBVIOUS
  <2>2. h.accepted = NoVersion /\ h.revoked = g.revoked
    BY <2>1, EmptiedIs DEF History
  <2>3. Held(h, b, c) /\ ServesHeld(v, h)
    BY <1>4, <2>2, WithdrawnHeld
  <2>4. /\ hist' = [hist EXCEPT ![r] = h] /\ served' = [served EXCEPT ![r] = v]
        /\ seen' = [seen EXCEPT ![r] = [ingress |-> i, plugin |-> p, checkpoint |-> c]]
        /\ UNCHANGED <<ilog, plog, clog, live, written>>
    BY <1>4, <2>1 DEF Sees, Publish
  <2> QED BY <1>3, <1>4, <2>3, <2>4, DownBuilt
<1>5. barred[r] \in 0..p /\ 0 \in 0..p /\ p \in 0..p
  BY <1>1, <1>3 DEF DownInv, DownOk, Positions
<1>6. PICK w, n : w = Withdrawn(hist[r]) /\ n = [NoHistory EXCEPT !.revoked = hist[r].revoked]
  OBVIOUS
<1>7. w \in Emptied(r) /\ n \in Emptied(r) /\ w.revoked /\ n.revoked = hist[r].revoked
  BY <1>1, <1>6 DEF Emptied, Withdrawn, NoHistory, History
<1>8. CASE BuildPlain(r, i, p, c)
  <2>1. PICK v : v = [spec |-> ilog[i].spec, uid |-> NoUid, src |-> 0]
    OBVIOUS
  <2>2. Sees(r, i, p, c) /\ Publish(r, w, v) /\ barred' = barred /\ v.uid = NoUid
    BY <1>6, <1>8, <2>1 DEF BuildPlain
  <2>3. barred' = [barred EXCEPT ![r] = barred[r]]
    BY <1>1, <2>2
  <2> QED BY <1>4, <1>5, <1>7, <2>2, <2>3
<1>9. CASE BuildMissing(r, i, p, c)
  <2>1. /\ Sees(r, i, p, c) /\ Publish(r, w, NoVersion) /\ barred' = [barred EXCEPT ![r] = p]
        /\ NoVersion.uid = NoUid
    BY <1>6, <1>9, NoVersionIs DEF BuildMissing, NoUid
  <2> QED BY <1>4, <1>5, <1>7, <2>1
<1>10. CASE BuildUnselected(r, i, p, c)
  <2>1. /\ Sees(r, i, p, c) /\ Publish(r, NoHistory, NoVersion) /\ barred' = [barred EXCEPT ![r] = 0]
        /\ NoVersion.uid = NoUid /\ NoHistory \in Emptied(r)
    BY <1>10, NoVersionIs DEF BuildUnselected, NoUid, Emptied
  <2> QED BY <1>4, <1>5, <2>1
<1>11. CASE BuildUnclassed(r, i, p, c)
  <2>1. PICK b : b = IF hist[r].revoked THEN barred[r] ELSE 0
    OBVIOUS
  <2>2. /\ Sees(r, i, p, c) /\ Publish(r, n, NoVersion) /\ barred' = [barred EXCEPT ![r] = b]
        /\ NoVersion.uid = NoUid
    BY <1>6, <1>11, <2>1, NoVersionIs DEF BuildUnclassed, NoUid
  <2>3. b \in 0..p /\ (n.revoked \/ b = 0)
    BY <1>5, <1>7, <2>1
  <2> QED BY <1>4, <1>7, <2>2, <2>3
<1>12. ASSUME NEW restores, NEW compiles, NEW secrets,
             BuildPlugin(r, i, p, c, restores, compiles, secrets)
      PROVE  DownInv'
  BY <1>3, <1>12, BuildPluginDown
<1> QED BY <1>2, <1>8, <1>9, <1>10, <1>11, <1>12 DEF Build

LEMMA DownStart == Init => DownInv
<1> SUFFICES ASSUME Init PROVE DownInv
  OBVIOUS
<1>1. /\ clog = << NoVersion >> /\ hist = [r \in Replicas |-> NoHistory]
      /\ seen = [r \in Replicas |-> [ingress |-> 1, plugin |-> 1, checkpoint |-> 1]]
      /\ served = [r \in Replicas |-> NoVersion] /\ barred = [r \in Replicas |-> 0]
  BY DEF Init
<1>2. NoHistory.accepted = NoVersion /\ ~NoHistory.revoked
  BY DEF NoHistory
<1> QED BY <1>1, <1>2, NoVersionIs DEF DownInv, DownOk, Held, ServesHeld, Builtin

LEMMA DownStep == ASSUME CkInv, DownInv, [Next]_vars PROVE DownInv'
<1>1. ASSUME UNCHANGED <<ilog, plog, clog, live, written, seen, hist, served, barred>> PROVE DownInv'
  BY <1>1, Same, DownKept DEF CkInv
<1>2. CASE UNCHANGED vars
  BY <1>1, <1>2 DEF vars
<1>3. CASE Tenant
  <2>1. UNCHANGED <<seen, hist, served, barred>>
    BY <1>3 DEF Tenant, EditIngress, EditPlugin, Edit
  <2> QED BY <1>3, <2>1, TenantInv, DownKept
<1>4. CASE Server
  <2>1. PICK w \in writes : ApplyWrite(w) \/ DropWrite(w)
    BY <1>4 DEF Server
  <2>2. CASE ApplyWrite(w)
    BY <2>2, ApplyWriteInv, DownKept DEF ApplyWrite
  <2>3. CASE DropWrite(w)
    BY <1>1, <2>3 DEF DropWrite
  <2> QED BY <2>1, <2>2, <2>3
<1>5. ASSUME NEW r \in Replicas, Persist(r) PROVE DownInv'
  <2>1. \A q, t : Step(q, t) => UNCHANGED <<ilog, plog, clog, live, written, seen, hist, served, barred>>
    BY DEF Step
  <2>2. SendCheckpoint(r) \/ SendDelete(r) => \E q, t : Step(q, t)
    BY DEF SendCheckpoint, SendDelete, Send
  <2>3. \E q, t : Step(q, t)
    BY <1>5, <2>2 DEF Persist, PersistList, PersistCheckIngress, PersistCheckPlugin,
                      PruneCheckIngress, PruneCheckPlugin
  <2> QED BY <1>1, <2>1, <2>3
<1>6. ASSUME NEW r \in Replicas, Restart(r) PROVE DownInv'
  <2>1. /\ seen' = [seen EXCEPT ![r] = [ingress |-> Len(ilog), plugin |-> Len(plog), checkpoint |-> Len(clog)]]
        /\ hist' = [hist EXCEPT ![r] = NoHistory] /\ served' = [served EXCEPT ![r] = NoVersion]
        /\ barred' = [barred EXCEPT ![r] = 0] /\ UNCHANGED <<ilog, plog, clog, live, written>>
    BY <1>6 DEF Restart
  <2>2. Len(plog) \in Nat /\ Len(clog) \in 1..Len(clog) /\ 0 \in 0..Len(plog)
    BY EntriesAre DEF CkInv
  <2>3. Held(NoHistory, 0, Len(clog)) /\ ServesHeld(NoVersion, NoHistory)
    BY NoVersionIs DEF NoHistory, Held, ServesHeld, Builtin
  <2> QED BY <2>1, <2>2, <2>3, DownBuilt
<1>7. ASSUME NEW r \in Replicas, Controller(r) PROVE DownInv'
  BY <1>7, ControllerDown
<1> QED BY <1>2, <1>3, <1>4, <1>5, <1>6, <1>7 DEF Next

(* Once a process has found its plugin withdrawn or recreated (revoked),   *)
(* no source from before is served by it again, whatever checkpoints it    *)
(* still sees, unless the checkpoints themselves bring it back after a     *)
(* source from since.                                                      *)
THEOREM RevokedIsNotRestored == Spec => []WithdrawnStaysDown
<1>1. DownInv => WithdrawnStaysDown
  <2>1. ASSUME NEW v, NEW a, v.uid = a.uid, v.src = a.src, NEW b
        PROVE  (Since(a, b) => Since(v, b)) /\ (CameBack(a, b) => CameBack(v, b))
    BY <2>1 DEF Since, CameBack, HasSource
  <2>2. ASSUME DownInv, NEW r \in Replicas, served[r].uid > Builtin
        PROVE  Since(served[r], barred[r]) \/ CameBack(served[r], barred[r])
    <3>1. PICK v, a, b : v = served[r] /\ a = hist[r].accepted /\ b = barred[r]
      OBVIOUS
    <3>2. v.uid = a.uid /\ v.src = a.src /\ (Since(a, b) \/ CameBack(a, b))
      BY <2>2, <3>1 DEF DownInv, DownOk, Held, ServesHeld
    <3> QED BY <2>1, <3>1, <3>2
  <2> QED BY <2>2 DEF WithdrawnStaysDown
<1>2. CkInv /\ DownInv /\ [Next]_vars => DownInv'
  BY DownStep
<1> QED BY <1>1, <1>2, DownStart, CkInductive, PTL DEF Spec
=============================================================================
