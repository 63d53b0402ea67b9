--------------------------- MODULE PlatformProofs ---------------------------
(***************************************************************************)
(* Proofs about the parts that meet the machine, the API server and its    *)
(* resources: the pins and the link of the XDP agent (Xdp), the control    *)
(* files (Gates), static files (StaticFiles), the checkpoints of Gateway   *)
(* routes (GatewayCheckpoint), the leader that writes status               *)
(* (StatusLeader), the routing indices (Routing) and the Gateway's routes  *)
(* while what they refer to comes and goes (GatewayBuild).  In the first   *)
(* five another program, a signal, a thread left behind or another replica *)
(* may act between any two calls.  The last two are about data: what an    *)
(* index of any table answers, and what a build from any cluster serves.   *)
(***************************************************************************)
EXTENDS Xdp, Gates, StaticFiles, GatewayCheckpoint, StatusLeader, GatewayBuild, SequenceTheorems, CountTheorems

-----------------------------------------------------------------------------
(* Xdp.  The agent holds the lock of the interface, but what it found      *)
(* there, or did, must still be so when it goes on: the invariant says for *)
(* every place in its code what is pinned and what is on the interface.    *)

Places == {"off", "open", "load", "bind", "stage", "attach", "pinLink", "prune", "run", "reload", "restage",
           "replace", "detach", "detached", "drop", "dropRates", "dropDirectory"}
Pins == [dir : BOOLEAN, owner : Nat, raw : BOOLEAN, rates : BOOLEAN, programs : SUBSET Programs, link : BOOLEAN]
Agents == [at : Places, persist : BOOLEAN, keep : BOOLEAN, loaded : Nat, next : Nat, job : {"none", "load", "detach"}]

XdpType ==
    /\ pins \in Pins /\ attached \in Nat /\ uses \in [Programs -> Nat]
    /\ agent \in Agents /\ straggler \in BOOLEAN

Dropped == {"dropRates", "dropDirectory"}
Working == Places \ ({"off", "open"} \cup Dropped)
Holding == {"bind", "stage", "attach", "pinLink", "prune", "run", "reload", "restage", "replace"}
Staged == Holding \ {"bind", "stage"}
Serving == Staged \ {"attach"}
Bound(p) == p \in Programs /\ uses[p] = pins.owner

(* What the directory holds while the agent works in it.                   *)
DirectoryOk ==
    /\ pins.raw => pins.owner # 0
    /\ agent.at \in Working => pins.owner # 0 /\ ~pins.raw /\ pins.dir
    /\ agent.at \in Working \cup Dropped /\ pins.link => agent.keep /\ agent.persist
    /\ agent.at \in {"detached"} \cup Dropped => ~pins.link
    /\ agent.at = "open" => agent.job \in {"load", "detach"} /\ (agent.job = "detach" => agent.persist)

(* The program in hand, and the one to follow it.                          *)
ProgramsOk ==
    /\ agent.at \in Holding => Bound(agent.loaded)
    /\ agent.at \in Staged /\ agent.persist => agent.loaded \in pins.programs
    /\ agent.at \in Serving => attached = agent.loaded
    /\ agent.at \in {"pinLink", "prune"} => agent.persist
    /\ agent.at \in {"restage", "replace"} => Bound(agent.next)
    /\ agent.at = "replace" /\ agent.persist => agent.next \in pins.programs

XdpInv == XdpType /\ DirectoryOk /\ ProgramsOk /\ LinkRecoverable

-----------------------------------------------------------------------------
LEMMA LoadMapsIs ==
    ASSUME XdpType, NEW o \in 1..MaxOwners, LoadMaps(o)
    PROVE  /\ pins' \in Pins /\ pins.dir /\ pins'.dir /\ pins'.link = pins.link /\ pins'.programs = pins.programs
           /\ pins'.owner = o /\ o # 0 /\ (pins.owner # 0 => o = pins.owner /\ pins'.raw = pins.raw)
<1>1. pins' = [pins EXCEPT !.owner = o, !.rates = TRUE, !.raw = (pins.raw \/ pins.owner = 0)] /\ pins.dir
      /\ (pins.owner # 0 => o = pins.owner)
  BY DEF LoadMaps
<1>2. o \in Nat /\ o # 0
  BY XdpAssumption
<1> QED BY <1>1, <1>2 DEF XdpType, Pins

LEMMA PinProgramIs ==
    ASSUME XdpType, NEW p \in Programs, PinProgram(p)
    PROVE  /\ pins' \in Pins /\ pins'.dir = pins.dir /\ pins'.link = pins.link /\ pins'.owner = pins.owner
           /\ pins'.raw = pins.raw /\ pins'.programs = pins.programs \cup {p}
<1>1. pins' = [pins EXCEPT !.programs = pins.programs \cup {p}]
  BY DEF PinProgram
<1> QED BY <1>1 DEF XdpType, Pins

(* A new program leaves those loaded before it as they are.                *)
LEMMA FreshProgramIs ==
    ASSUME XdpType, NEW o \in Nat, NEW p, FreshProgram(p), uses' = [uses EXCEPT ![p] = o]
    PROVE  /\ uses' \in [Programs -> Nat] /\ p \in Programs /\ p \in Nat /\ uses'[p] = o
           /\ \A q \in Programs : uses[q] # 0 => uses'[q] = uses[q]
  BY DEF XdpType, FreshProgram, Programs

LEMMA XdpStep == ASSUME XdpInv, [XdpNext]_xdpVars PROVE XdpInv'
<1> USE DEF XdpInv, XdpType, Agents, Places, DirectoryOk, Working, Dropped, ProgramsOk, Holding, Staged,
            Serving, Bound, LinkRecoverable, OwnedLink
<1>1. ASSUME NEW persist \in BOOLEAN, NEW job \in {"load", "detach"}, job = "detach" => persist,
             Open(persist, job)
      PROVE  XdpInv'
  BY <1>1 DEF Open, NoAgent, Pins
<1>2. CASE OpenOwner
  <2>1. PICK o \in Nat \ {0} : pins' = [pins EXCEPT !.owner = o] /\ (pins.owner # 0 => o = pins.owner /\ ~pins.raw)
                               /\ (pins.owner = 0 => ~pins.link)
    BY <1>2, XdpAssumption DEF OpenOwner, Pins
  <2>2. /\ pins' \in Pins /\ pins'.owner = o /\ pins'.dir = pins.dir /\ pins'.raw = pins.raw
        /\ pins'.link = pins.link /\ pins'.programs = pins.programs
    BY <2>1 DEF Pins
  <2>3. /\ agent.at = "open" /\ pins.dir /\ UNCHANGED <<attached, uses, straggler>>
        /\ agent' = IF agent.persist \/ ~pins.link THEN [agent EXCEPT !.at = agent.job, !.keep = pins.link]
                    ELSE NoAgent
    BY <1>2 DEF OpenOwner
  <2>4. ~pins.raw
    BY <2>1
  <2>5. CASE agent.persist \/ ~pins.link
    <3>1. /\ agent' \in Agents /\ agent'.at = agent.job /\ agent'.keep = pins.link
          /\ agent'.persist = agent.persist
      BY <2>3, <2>5 DEF Pins
    <3> QED BY <2>1, <2>2, <2>3, <2>4, <2>5, <3>1 DEF Pins
  <2>6. CASE ~(agent.persist \/ ~pins.link)
    <3>1. agent' \in Agents /\ agent'.at = "off"
      BY <2>3, <2>6 DEF NoAgent
    <3> QED BY <2>1, <2>2, <2>3, <2>4, <3>1 DEF Pins
  <2> QED BY <2>5, <2>6
<1>3. CASE OpenRefused
  BY <1>3 DEF OpenRefused, NoAgent, Pins
<1>4. CASE Fail
  BY <1>4 DEF Fail, Dropping, Unheld, Pins
<1>5. CASE Configured
  <2>1. PICK o \in 1..MaxOwners, p \in Programs :
          /\ LoadMaps(o) /\ FreshProgram(p) /\ uses' = [uses EXCEPT ![p] = o]
          /\ agent' = [agent EXCEPT !.at = "bind", !.loaded = p]
    BY <1>5 DEF Configured
  <2>2. agent.at = "load" /\ UNCHANGED <<attached, straggler>> /\ o \in Nat
    BY <1>5, XdpAssumption DEF Configured
  <2>3. /\ uses' \in [Programs -> Nat] /\ p \in Programs /\ p \in Nat /\ uses'[p] = o
        /\ \A q \in Programs : uses[q] # 0 => uses'[q] = uses[q]
    BY <2>1, <2>2, FreshProgramIs
  <2>4. agent' \in Agents /\ agent'.at = "bind" /\ agent'.loaded = p /\ agent'.keep = agent.keep
        /\ agent'.persist = agent.persist
    BY <2>1, <2>3
  <2> QED BY <2>1, <2>2, <2>3, <2>4, LoadMapsIs DEF Pins
<1>6. CASE BindOwner
  BY <1>6 DEF BindOwner, Pins
<1>7. CASE Stage
  <2>1. agent.loaded \in Programs /\ PinProgram(agent.loaded)
    BY <1>7 DEF Stage
  <2>2. /\ pins' \in Pins /\ pins'.dir = pins.dir /\ pins'.link = pins.link /\ pins'.owner = pins.owner
        /\ pins'.raw = pins.raw /\ pins'.programs = pins.programs \cup {agent.loaded}
    BY <2>1, PinProgramIs
  <2> QED BY <1>7, <2>1, <2>2 DEF Stage, Pins
<1>8. CASE Attach
  <2>1. agent.at = "attach" /\ UNCHANGED <<pins, uses, straggler>>
    BY <1>8 DEF Attach
  <2>2. CASE pins.link
    <3>1. attached' = agent.loaded /\ agent' = [agent EXCEPT !.at = "prune", !.keep = agent.persist]
      BY <1>8, <2>2 DEF Attach, ReplaceFd
    <3> QED BY <2>1, <2>2, <3>1 DEF Pins
  <2>3. CASE ~pins.link
    <3>1. attached' = agent.loaded
          /\ agent' = [agent EXCEPT !.at = IF agent.persist THEN "pinLink" ELSE "run"]
      BY <1>8, <2>3 DEF Attach
    <3> QED BY <2>1, <2>3, <3>1 DEF Pins
  <2> QED BY <2>2, <2>3
<1>9. CASE PinLink
  BY <1>9 DEF PinLink, Pins
<1>10. CASE PruneOne \/ PruneEnds
  <2>1. CASE PruneOne
    BY <2>1 DEF PruneOne, Pins
  <2>2. CASE PruneEnds
    BY <2>2 DEF PruneEnds, Pins
  <2> QED BY <1>10, <2>1, <2>2
<1>11. CASE Reload
  BY <1>11 DEF Reload, Pins
<1>12. CASE ReloadEnds
  <2>1. agent.at = "reload" /\ UNCHANGED <<attached, straggler>>
    BY <1>12 DEF ReloadEnds
  <2>2. CASE agent' = [agent EXCEPT !.at = "run"] /\ UNCHANGED <<pins, uses>>
    BY <2>1, <2>2 DEF Pins
  <2>3. ASSUME NEW o \in 1..MaxOwners, NEW p \in Programs, LoadMaps(o), FreshProgram(p),
               uses' = [uses EXCEPT ![p] = o],
               agent' = [agent EXCEPT !.at = IF agent.persist THEN "restage" ELSE "replace", !.next = p]
        PROVE  XdpInv'
    <3>1. /\ uses' \in [Programs -> Nat] /\ p \in Programs /\ p \in Nat /\ uses'[p] = o
          /\ \A q \in Programs : uses[q] # 0 => uses'[q] = uses[q]
      <4>1. o \in Nat
        BY XdpAssumption
      <4> QED BY <2>3, <4>1, FreshProgramIs
    <3>2. /\ agent' \in Agents /\ agent'.at = (IF agent.persist THEN "restage" ELSE "replace")
          /\ agent'.next = p /\ agent'.loaded = agent.loaded /\ agent'.keep = agent.keep
          /\ agent'.persist = agent.persist
      BY <2>3, <3>1
    <3> QED BY <2>1, <2>3, <3>1, <3>2, LoadMapsIs DEF Pins
  <2> QED BY <1>12, <2>2, <2>3 DEF ReloadEnds
<1>13. CASE Restage
  <2>1. agent.next \in Programs /\ PinProgram(agent.next)
    BY <1>13 DEF Restage
  <2>2. /\ pins' \in Pins /\ pins'.dir = pins.dir /\ pins'.link = pins.link /\ pins'.owner = pins.owner
        /\ pins'.raw = pins.raw /\ pins'.programs = pins.programs \cup {agent.next}
    BY <2>1, PinProgramIs
  <2> QED BY <1>13, <2>1, <2>2 DEF Restage, Pins
<1>14. CASE Replace
  <2>1. agent.at = "replace" /\ UNCHANGED <<pins, uses, straggler>>
    BY <1>14 DEF Replace
  <2>2. CASE agent' = [agent EXCEPT !.at = "run", !.next = 0] /\ UNCHANGED attached
    BY <2>1, <2>2 DEF Pins
  <2>3. CASE attached' = agent.next
             /\ agent' = [agent EXCEPT !.at = IF agent.persist THEN "prune" ELSE "run",
                                       !.loaded = agent.next, !.next = 0]
    <3>1. /\ agent' \in Agents /\ agent'.at = (IF agent.persist THEN "prune" ELSE "run")
          /\ agent'.loaded = agent.next /\ agent'.keep = agent.keep /\ agent'.persist = agent.persist
      BY <2>3
    <3> QED BY <2>1, <2>3, <3>1 DEF Pins
  <2> QED BY <1>14, <2>2, <2>3 DEF Replace, ReplaceFd
<1>15. CASE StopAgent
  BY <1>15 DEF StopAgent, Dropping, Unheld, Pins
<1>16. CASE StragglerLoads
  <2>1. straggler' = FALSE /\ UNCHANGED <<attached, uses, agent>>
    BY <1>16 DEF StragglerLoads
  <2>2. CASE UNCHANGED pins
    <3>1. XdpType'
      BY <2>1, <2>2
    <3>2. DirectoryOk' /\ ProgramsOk' /\ LinkRecoverable'
      BY <2>1, <2>2
    <3> QED BY <3>1, <3>2
  <2>3. ASSUME NEW o \in 1..MaxOwners, LoadMaps(o) PROVE XdpInv'
    <3>1. XdpType'
      BY <2>1, <2>3, LoadMapsIs
    <3>2. DirectoryOk'
      BY <2>1, <2>3, LoadMapsIs
    <3>3. ProgramsOk' /\ LinkRecoverable'
      BY <2>1, <2>3, LoadMapsIs DEF Pins
    <3> QED BY <3>1, <3>2, <3>3
  <2> QED BY <1>16, <2>2, <2>3 DEF StragglerLoads
<1>17. CASE Detach \/ DetachEnds
  <2>1. CASE Detach
    BY <2>1 DEF Detach, Pins
  <2>2. CASE DetachEnds
    BY <2>2 DEF DetachEnds, Dropping, Pins
  <2> QED BY <1>17, <2>1, <2>2
<1>18. CASE UnpinOne \/ DropKeeps
  <2>1. CASE UnpinOne
    BY <2>1 DEF UnpinOne, Pins
  <2>2. CASE DropKeeps
    BY <2>2 DEF DropKeeps, NoAgent, Pins
  <2> QED BY <1>18, <2>1, <2>2
<1>19. CASE DropOwner \/ DropRates
  <2>1. CASE DropOwner
    BY <2>1 DEF DropOwner, Pins
  <2>2. CASE DropRates
    BY <2>2 DEF DropRates, Pins
  <2> QED BY <1>19, <2>1, <2>2
<1>20. CASE DropDirectory
  BY <1>20 DEF DropDirectory, NoAgent, Pins
<1>21. CASE Kill
  BY <1>21 DEF Kill, NoAgent, Unheld, Pins
<1>22. CASE UNCHANGED xdpVars
  BY <1>22 DEF xdpVars
<1> HIDE DEF XdpInv, XdpType, DirectoryOk, ProgramsOk, LinkRecoverable, OwnedLink
<1> QED BY <1>1, <1>2, <1>3, <1>4, <1>5, <1>6, <1>7, <1>8, <1>9, <1>10, <1>11, <1>12, <1>13, <1>14, <1>15, <1>16,
           <1>17, <1>18, <1>19, <1>20, <1>21, <1>22 DEF XdpNext

(* However the agent is stopped, killed or succeeded, with a loader thread *)
(* of an earlier one still running (lifecycle.rs), a pinned link is always *)
(* one that owned_link accepts: its program is pinned and uses the owner   *)
(* map of the directory.                                                   *)
THEOREM LinkIsRecoverable == XdpSpec => []LinkRecoverable
<1>1. XdpInit => XdpInv
  <2> SUFFICES ASSUME XdpInit PROVE XdpInv
    OBVIOUS
  <2>1. /\ NoPins \in Pins /\ ~NoPins.raw /\ ~NoPins.link
        /\ NoAgent \in Agents /\ NoAgent.at = "off"
    BY DEF NoPins, Pins, NoAgent, Agents, Places
  <2>2. XdpType
    BY <2>1 DEF XdpInit, XdpType
  <2> QED BY <2>1, <2>2 DEF XdpInit, XdpInv, DirectoryOk, Working, Dropped, ProgramsOk, Holding, Staged, Serving,
                            LinkRecoverable
<1>2. XdpInv /\ [XdpNext]_xdpVars => XdpInv'
  BY XdpStep
<1>3. XdpInv => LinkRecoverable
  BY DEF XdpInv
<1> QED BY <1>1, <1>2, <1>3, PTL DEF XdpSpec

-----------------------------------------------------------------------------
(* Gates.  The watcher reads the two files eight times while they are      *)
(* being written.  Versions only grow, so a file that has the same version *)
(* in the first and in the last reading had it in between: WatcherOk keeps *)
(* the policy that was on disk with the metrics file of the first digest.  *)

Versions == 1..MaxVersion
Loaded == [digest : Versions \X Versions, policy : Versions, metrics : Versions]
Digests == {<<>>} \cup (Versions \X Versions)
Observations == [digest : Digests, passed : {"none"} \cup Verdicts, checked : Nat]
Entries == [first : Nat, last : Nat, count : Nat]
Runs == [under : Nat, first : Nat, last : Nat, count : Nat]
Tallies == [digest : Digests, stage : Nat, gates : [Gate -> Entries]]
Rounds == {Idling} \cup [at : {"ask"}, state : Loaded, todo : SUBSET Gate]

GatesType ==
    /\ files \in [policy : Versions, metrics : Versions] /\ together \in SUBSET (Versions \X Versions)
    /\ watcher \in Seq(Versions) /\ controls \in Loaded /\ polling \in Rounds
    /\ observed \in [Gate -> Observations] /\ failures \in Tallies
    /\ phase \in Nat /\ rolled \in BOOLEAN /\ instant \in Nat /\ past \in [Gate -> Runs]

Met(low, metrics, high) == \E p \in Versions : <<p, metrics>> \in together /\ low <= p /\ p <= high

WatcherOk ==
    LET n == Len(watcher)
        w == watcher
    IN
    /\ n <= 8
    /\ n >= 3 => w[3] <= files.policy
    /\ n >= 4 => w[4] <= files.metrics
    /\ n >= 5 => w[3] <= w[5] /\ w[5] <= files.policy
    /\ n >= 6 => w[4] <= w[6] /\ w[6] <= files.metrics
    /\ n >= 7 => w[5] <= w[7] /\ w[7] <= files.policy
    /\ n >= 8 => w[6] <= w[8] /\ w[8] <= files.metrics
    /\ n = 4 => Met(w[3], w[4], files.policy)
    /\ n >= 5 => Met(w[3], w[4], w[5])

FilesInv == <<files.policy, files.metrics>> \in together /\ WatcherOk /\ ControlsCoherent

(* The tally of a gate never gets ahead of the answers it got.             *)
TallyCovers(run, entry, metrics) ==
    /\ run.under = metrics /\ run.last = entry.last
    /\ run.count >= entry.count /\ run.first <= entry.first

Answered(g) == polling.at = "ask" /\ g \in GatesIn(polling.state) \ polling.todo

(* What the end of the round will find of a gate that was asked in it.     *)
AnswerOk(o, entry, run) ==
    /\ o.digest = polling.state.digest
    /\ Failing(o.passed) =>
        /\ run.under = polling.state.metrics /\ run.last = o.checked /\ run.count >= 1
        /\ failures.digest = polling.state.digest /\ entry.count > 0 =>
            /\ entry.last <= o.checked
            /\ o.checked - entry.last <= Freshness =>
                 run.first <= entry.first /\ (run.count > entry.count \/ run.count = ConsecutiveFailures)

TallyInv ==
    /\ polling.at = "ask" => /\ polling.state.digest = <<polling.state.policy, polling.state.metrics>>
                              /\ polling.todo \subseteq GatesIn(polling.state)
    /\ \A g \in Gate :
        /\ past[g].last <= instant /\ past[g].first <= past[g].last
        /\ failures.gates[g].count <= ConsecutiveFailures /\ past[g].count <= ConsecutiveFailures
        /\ failures.gates[g].count > 0 => failures.digest # <<>>
        /\ IF Answered(g) THEN AnswerOk(observed[g], failures.gates[g], past[g])
           ELSE failures.gates[g].count > 0 => TallyCovers(past[g], failures.gates[g], failures.digest[2])

GatesInv == GatesType /\ FilesInv /\ TallyInv

-----------------------------------------------------------------------------
LEMMA VersionsAre == Versions \subseteq Nat /\ 1 \in Versions /\ ConsecutiveFailures \in Nat \ {0}
                     /\ Freshness \in Nat /\ FailureSeconds \in Nat
  BY GatesAssumption DEF Versions

LEMMA WatcherIs ==
    ASSUME GatesType
    PROVE  /\ Len(watcher) \in Nat /\ \A i \in 1..Len(watcher) : watcher[i] \in Versions /\ watcher[i] \in Nat
           /\ \A d \in together : d \in Versions \X Versions /\ d[1] \in Nat
           /\ files.policy \in Nat /\ files.metrics \in Nat
<1>1. watcher \in Seq(Versions) /\ together \in SUBSET (Versions \X Versions)
      /\ files \in [policy : Versions, metrics : Versions]
  BY DEF GatesType
<1>2. \A v \in Versions : v \in Nat
  BY VersionsAre
<1>3. \A i \in 1..Len(watcher) : watcher[i] \in Versions
  BY <1>1
<1>4. Len(watcher) \in Nat
  BY <1>1
<1>5. \A d \in together : d \in Versions \X Versions /\ d[1] \in Versions
  BY <1>1
<1> QED BY <1>1, <1>2, <1>3, <1>4, <1>5

(* The watcher and the administrator.                                      *)
LEMMA MetGrows ==
    ASSUME NEW low \in Nat, NEW metrics, NEW high \in Nat, NEW higher \in Nat, Met(low, metrics, high),
           together \subseteq together', high <= higher
    PROVE  Met(low, metrics, higher)'
<1>1. PICK p \in Versions : <<p, metrics>> \in together /\ low <= p /\ p <= high
  BY DEF Met
<1>2. p \in Nat
  BY VersionsAre
<1>3. <<p, metrics>> \in together' /\ low <= p /\ p <= higher
  BY <1>1, <1>2
<1> QED BY <1>3 DEF Met

LEMMA WriteFileInv ==
    ASSUME GatesType, FilesInv, NEW f \in {"policy", "metrics"}, WriteFile(f)
    PROVE  FilesInv' /\ files' \in [policy : Versions, metrics : Versions]
           /\ together' \in SUBSET (Versions \X Versions)
<1>1. /\ files' = [files EXCEPT ![f] = files[f] + 1] /\ files[f] < MaxVersion
      /\ together' = together \cup {<<files'.policy, files'.metrics>>} /\ UNCHANGED <<watcher, controls>>
  BY DEF WriteFile
<1>2. files.policy \in Versions /\ files.metrics \in Versions /\ MaxVersion \in Nat
  BY GatesAssumption DEF GatesType
<1>3. files' \in [policy : Versions, metrics : Versions]
      /\ files.policy <= files'.policy /\ files.metrics <= files'.metrics
      /\ files'.policy \in Versions /\ files'.metrics \in Versions
      /\ files'.policy \in Nat /\ files'.metrics \in Nat
  BY <1>1, <1>2 DEF GatesType, Versions
<1>4. together' \in SUBSET (Versions \X Versions) /\ together \subseteq together'
      /\ <<files'.policy, files'.metrics>> \in together'
  BY <1>1, <1>3 DEF GatesType
<1>5. WatcherOk'
  <2>1. PICK w, n, p, m, pn, mn : /\ w = watcher /\ n = Len(watcher) /\ p = files.policy /\ m = files.metrics
                                  /\ pn = files'.policy /\ mn = files'.metrics
    OBVIOUS
  <2>2. /\ n \in Nat /\ \A i \in 1..n : w[i] \in Nat
        /\ p \in Nat /\ m \in Nat /\ pn \in Nat /\ mn \in Nat /\ p <= pn /\ m <= mn
    BY <1>3, <2>1, WatcherIs
  <2>3. ASSUME n = 4 PROVE Met(w[3], w[4], pn)'
    <3>1. Met(w[3], w[4], p) /\ w[3] \in Nat
      BY <2>1, <2>2, <2>3 DEF FilesInv, WatcherOk
    <3> QED BY <1>4, <2>2, <3>1, MetGrows
  <2>4. ASSUME n >= 5 PROVE Met(w[3], w[4], w[5])'
    <3>1. Met(w[3], w[4], w[5]) /\ w[3] \in Nat /\ w[5] \in Nat /\ w[5] <= w[5]
      BY <2>1, <2>2, <2>4 DEF FilesInv, WatcherOk
    <3> QED BY <1>4, <3>1, MetGrows
  <2>5. /\ n <= 8
        /\ n >= 3 => w[3] <= pn
        /\ n >= 4 => w[4] <= mn
        /\ n >= 5 => w[3] <= w[5] /\ w[5] <= pn
        /\ n >= 6 => w[4] <= w[6] /\ w[6] <= mn
        /\ n >= 7 => w[5] <= w[7] /\ w[7] <= pn
        /\ n >= 8 => w[6] <= w[8] /\ w[8] <= mn
    <3>1. /\ n <= 8
          /\ n >= 3 => w[3] <= p
          /\ n >= 4 => w[4] <= m
          /\ n >= 5 => w[3] <= w[5] /\ w[5] <= p
          /\ n >= 6 => w[4] <= w[6] /\ w[6] <= m
          /\ n >= 7 => w[5] <= w[7] /\ w[7] <= p
          /\ n >= 8 => w[6] <= w[8] /\ w[8] <= m
      BY <2>1 DEF FilesInv, WatcherOk
    <3> QED BY <2>2, <3>1
  <2>6. watcher' = w /\ Len(watcher') = n /\ files'.policy = pn /\ files'.metrics = mn
    BY <1>1, <2>1
  <2> QED BY <2>3, <2>4, <2>5, <2>6 DEF WatcherOk, Met
<1> QED BY <1>1, <1>3, <1>4, <1>5 DEF FilesInv, ControlsCoherent

LEMMA ReadFileInv ==
    ASSUME GatesType, FilesInv, ReadFile
    PROVE  FilesInv' /\ watcher' \in Seq(Versions)
<1>1. PICK n, w, p, m : n = Len(watcher) /\ w = watcher /\ p = files.policy /\ m = files.metrics
  OBVIOUS
<1>2. PICK x : x = files[Order[n + 1]]
  OBVIOUS
<1>3. n < 8 /\ n \in Nat /\ watcher' = Append(watcher, x) /\ UNCHANGED <<files, together, controls>>
  BY <1>1, <1>2 DEF ReadFile, Order, GatesType
<1>4. /\ n \in {0, 2, 4, 6} => x = p
      /\ n \in {1, 3, 5, 7} => x = m
  BY <1>1, <1>2 DEF Order
<1>5. p \in Versions /\ m \in Versions /\ n \in {0, 2, 4, 6} \cup {1, 3, 5, 7}
  <2>1. p \in Versions /\ m \in Versions
    BY <1>1 DEF GatesType
  <2> QED BY <1>3, <2>1
<1>6. x \in Versions
  BY <1>4, <1>5
<1>7. /\ watcher' \in Seq(Versions) /\ Len(watcher') = n + 1 /\ watcher'[n + 1] = x
      /\ \A i \in 1..n : watcher'[i] = w[i]
  BY <1>1, <1>3, <1>6 DEF GatesType
<1>8. PICK v : v = watcher'
  OBVIOUS
<1>9. /\ v[n + 1] = x /\ (\A i \in 1..n : v[i] = w[i] /\ w[i] \in Nat)
      /\ x \in Nat /\ p \in Nat /\ m \in Nat
  BY <1>1, <1>5, <1>6, <1>7, <1>8, WatcherIs, VersionsAre
<1>10. /\ n >= 3 => w[3] <= p
       /\ n >= 4 => w[4] <= m
       /\ n >= 5 => w[3] <= w[5] /\ w[5] <= p
       /\ n >= 6 => w[4] <= w[6] /\ w[6] <= m
       /\ n >= 7 => w[5] <= w[7] /\ w[7] <= p
       /\ n = 4 => Met(w[3], w[4], p)
       /\ n >= 5 => Met(w[3], w[4], w[5])
       /\ <<p, m>> \in together
  BY <1>1 DEF FilesInv, WatcherOk
<1>11. /\ n + 1 >= 3 => v[3] <= p
       /\ n + 1 >= 4 => v[4] <= m
       /\ n + 1 >= 5 => v[3] <= v[5] /\ v[5] <= p
       /\ n + 1 >= 6 => v[4] <= v[6] /\ v[6] <= m
       /\ n + 1 >= 7 => v[5] <= v[7] /\ v[7] <= p
       /\ n + 1 >= 8 => v[6] <= v[8] /\ v[8] <= m
  <2>1. CASE n \in {0, 1, 2, 3}
    BY <1>4, <1>9, <1>10, <2>1
  <2>2. CASE n \in {4, 5}
    BY <1>4, <1>9, <1>10, <2>2
  <2>3. CASE n \in {6, 7}
    BY <1>4, <1>9, <1>10, <2>3
  <2> QED BY <1>5, <2>1, <2>2, <2>3
<1>12. ASSUME n + 1 = 4 PROVE Met(v[3], v[4], p)
  <2>1. v[3] <= p /\ v[4] = m
    BY <1>3, <1>4, <1>9, <1>10, <1>12
  <2> QED BY <1>5, <1>9, <1>10, <2>1 DEF Met
<1>13. ASSUME n + 1 >= 5 PROVE Met(v[3], v[4], v[5])
  <2>1. CASE n = 4
    BY <1>4, <1>9, <1>10, <2>1
  <2>2. CASE n >= 5
    BY <1>3, <1>9, <1>10, <2>2
  <2> QED BY <1>3, <1>13, <2>1, <2>2
<1>14. WatcherOk'
  <2>1. watcher' = v /\ Len(watcher') = n + 1 /\ files'.policy = p /\ files'.metrics = m /\ together' = together
        /\ n + 1 <= 8
    BY <1>1, <1>3, <1>7, <1>8
  <2> QED BY <1>11, <1>12, <1>13, <2>1 DEF WatcherOk, Met
<1> QED BY <1>3, <1>7, <1>14 DEF FilesInv, ControlsCoherent

LEMMA PublishControlsInv ==
    ASSUME GatesType, FilesInv, PublishControls
    PROVE  FilesInv' /\ watcher' \in Seq(Versions) /\ controls' \in Loaded
<1>1. /\ Len(watcher) = 8 /\ watcher[3] = watcher[7] /\ watcher[4] = watcher[8]
      /\ controls' = [digest |-> <<watcher[3], watcher[4]>>, policy |-> watcher[5], metrics |-> watcher[6]]
      /\ watcher' = <<>> /\ UNCHANGED <<files, together>>
  BY DEF PublishControls, Unchanged, Digest
<1>2. \A i \in 1..8 : watcher[i] \in Versions /\ watcher[i] \in Nat
  BY <1>1, WatcherIs
<1>3. PICK w : w = watcher
  OBVIOUS
<1>4. /\ w[3] <= w[5] /\ w[5] <= w[7] /\ w[4] <= w[6] /\ w[6] <= w[8] /\ w[3] = w[7] /\ w[4] = w[8]
      /\ Met(w[3], w[4], w[5]) /\ \A i \in 1..8 : w[i] \in Nat
  BY <1>1, <1>2, <1>3 DEF FilesInv, WatcherOk
<1>5. watcher[3] = watcher[5] /\ watcher[4] = watcher[6]
  BY <1>3, <1>4
<1>6. <<watcher[3], watcher[4]>> \in together
  <2>1. PICK p \in Versions : <<p, w[4]>> \in together /\ w[3] <= p /\ p <= w[5]
    BY <1>4 DEF Met
  <2>2. p \in Nat
    BY VersionsAre
  <2>3. p = w[3]
    BY <1>3, <1>4, <1>5, <2>1, <2>2
  <2> QED BY <1>3, <2>1, <2>3
<1>7. controls' \in Loaded /\ controls'.digest = <<controls'.policy, controls'.metrics>>
      /\ controls'.digest \in together
  BY <1>1, <1>2, <1>5, <1>6 DEF Loaded
<1>8. watcher' \in Seq(Versions) /\ Len(watcher') = 0
  BY <1>1
<1> QED BY <1>1, <1>7, <1>8 DEF FilesInv, WatcherOk, ControlsCoherent

-----------------------------------------------------------------------------
(* The tally.                                                              *)
LEMMA MinIs ==
    ASSUME NEW a \in Nat, NEW b \in Nat
    PROVE  Min({a, b}) \in {a, b} /\ Min({a, b}) <= a /\ Min({a, b}) <= b
<1>1. \E x \in {a, b} : \A y \in {a, b} : x <= y
  <2>1. CASE a <= b
    BY <2>1
  <2>2. CASE b <= a
    BY <2>2
  <2> QED BY <2>1, <2>2
<1>2. Min({a, b}) \in {a, b} /\ \A y \in {a, b} : Min({a, b}) <= y
  BY <1>1 DEF Min
<1> QED BY <1>2

Starts(run, metrics) == run.count = 0 \/ run.under # metrics \/ instant - run.last > Freshness

LEMMA RunIs ==
    ASSUME NEW run \in Runs, NEW metrics \in Nat, NEW passed, instant \in Nat
    PROVE  /\ ~Failing(passed) => Run(run, metrics, passed) = NoRun
           /\ Failing(passed) /\ Starts(run, metrics) =>
                Run(run, metrics, passed) = [under |-> metrics, first |-> instant, last |-> instant, count |-> 1]
           /\ Failing(passed) /\ ~Starts(run, metrics) =>
                \E c \in {run.count + 1, ConsecutiveFailures} :
                    /\ c <= ConsecutiveFailures
                    /\ Run(run, metrics, passed) =
                         [under |-> metrics, first |-> run.first, last |-> instant, count |-> c]
<1>1. PICK c : c = Min({run.count + 1, ConsecutiveFailures})
  OBVIOUS
<1>2. run.count \in Nat /\ c \in {run.count + 1, ConsecutiveFailures} /\ c <= ConsecutiveFailures
  BY <1>1, MinIs, VersionsAre DEF Runs
<1>3. ASSUME Failing(passed), ~Starts(run, metrics)
      PROVE  Run(run, metrics, passed) = [under |-> metrics, first |-> run.first, last |-> instant, count |-> c]
  <2>1. Run(run, metrics, passed) = [run EXCEPT !.last = instant, !.count = c]
    BY <1>1, <1>3 DEF Run, Starts
  <2> QED BY <1>3, <2>1 DEF Runs, Starts
<1>4. ASSUME Failing(passed), Starts(run, metrics)
      PROVE  Run(run, metrics, passed) = [under |-> metrics, first |-> instant, last |-> instant, count |-> 1]
  BY <1>4 DEF Run, Starts
<1>5. ~Failing(passed) => Run(run, metrics, passed) = NoRun
  BY DEF Run
<1> QED BY <1>2, <1>3, <1>4, <1>5

(* What holds of one gate.                                                 *)
GateOk(g) ==
    /\ past[g].last <= instant /\ past[g].first <= past[g].last
    /\ failures.gates[g].count <= ConsecutiveFailures /\ past[g].count <= ConsecutiveFailures
    /\ failures.gates[g].count > 0 => failures.digest # <<>>
    /\ IF Answered(g) THEN AnswerOk(observed[g], failures.gates[g], past[g])
       ELSE failures.gates[g].count > 0 => TallyCovers(past[g], failures.gates[g], failures.digest[2])

LEMMA TallyKept ==
    ASSUME GatesType, TallyInv, UNCHANGED <<polling, observed, failures, past>>, instant' \in Nat, instant <= instant'
    PROVE  TallyInv'
<1>1. \A g \in Gate : past[g].last \in Nat
  BY DEF GatesType, Runs
<1>2. \A g \in Gate : past[g].last <= instant'
  BY <1>1 DEF GatesType, TallyInv
<1> QED BY <1>2 DEF TallyInv, Answered, AnswerOk, TallyCovers, GatesIn

LEMMA EvaluatedInv ==
    ASSUME GatesType, TallyInv, NEW g \in Gate, NEW passed \in Verdicts, Evaluated(g, passed)
    PROVE  /\ TallyInv' /\ polling' \in Rounds /\ observed' \in [Gate -> Observations] /\ past' \in [Gate -> Runs]
<1>1. PICK s, todo : polling = [at |-> "ask", state |-> s, todo |-> todo] /\ s \in Loaded /\ todo \in SUBSET Gate
  BY DEF GatesType, Rounds, Evaluated, Idling
<1>2. PICK run, e, n : run = past[g] /\ e = failures.gates[g] /\ n = Run(run, s.metrics, passed)
  OBVIOUS
<1>3. /\ run \in Runs /\ e \in Entries /\ instant \in Nat /\ s.metrics \in Nat /\ s.digest \in Versions \X Versions
      /\ s.digest \in Digests
  BY <1>1, <1>2, VersionsAre DEF GatesType, Tallies, Loaded, Digests
<1>4. PICK o : o = [digest |-> s.digest, passed |-> passed, checked |-> instant]
  OBVIOUS
<1>5. /\ g \in todo /\ polling' = [at |-> "ask", state |-> s, todo |-> todo \ {g}]
      /\ observed' = [observed EXCEPT ![g] = o] /\ past' = [past EXCEPT ![g] = n]
      /\ UNCHANGED <<failures, instant>>
  BY <1>1, <1>2, <1>4 DEF Evaluated
<1>6. /\ s.digest = <<s.policy, s.metrics>> /\ todo \subseteq GatesIn(s)
      /\ run.last <= instant /\ run.first <= run.last /\ run.count <= ConsecutiveFailures
      /\ e.count > 0 => TallyCovers(run, e, failures.digest[2])
  BY <1>1, <1>2, <1>5 DEF TallyInv, Answered
<1>7. /\ run.under \in Nat /\ run.first \in Nat /\ run.last \in Nat /\ run.count \in Nat
      /\ e.first \in Nat /\ e.last \in Nat /\ e.count \in Nat
  BY <1>3 DEF Runs, Entries
<1>8. n \in Runs /\ n.last <= instant /\ n.first <= n.last /\ n.count <= ConsecutiveFailures
  <2>1. CASE ~Failing(passed)
    <3>1. n = [under |-> 0, first |-> 0, last |-> 0, count |-> 0]
      BY <1>2, <1>3, <2>1, RunIs DEF NoRun
    <3> QED BY <1>3, <3>1, VersionsAre DEF Runs
  <2>2. CASE Failing(passed) /\ Starts(run, s.metrics)
    <3>1. n = [under |-> s.metrics, first |-> instant, last |-> instant, count |-> 1]
      BY <1>2, <1>3, <2>2, RunIs
    <3> QED BY <1>3, <3>1, VersionsAre DEF Runs
  <2>3. CASE Failing(passed) /\ ~Starts(run, s.metrics)
    <3>1. PICK c \in {run.count + 1, ConsecutiveFailures} :
            /\ c <= ConsecutiveFailures
            /\ n = [under |-> s.metrics, first |-> run.first, last |-> instant, count |-> c]
      BY <1>2, <1>3, <2>3, RunIs
    <3> QED BY <1>3, <1>6, <1>7, <3>1, VersionsAre DEF Runs
  <2> QED BY <2>1, <2>2, <2>3
<1>9. o \in Observations /\ o.digest = s.digest /\ o.passed = passed /\ o.checked = instant
  BY <1>3, <1>4 DEF Observations
<1>10. polling' \in Rounds /\ observed' \in [Gate -> Observations] /\ past' \in [Gate -> Runs]
  BY <1>1, <1>5, <1>8, <1>9 DEF GatesType, Rounds
<1>11. ASSUME Failing(passed)
       PROVE  /\ n.under = s.metrics /\ n.last = instant /\ n.count >= 1
              /\ failures.digest = s.digest /\ e.count > 0 =>
                  /\ e.last <= instant
                  /\ instant - e.last <= Freshness =>
                       n.first <= e.first /\ (n.count > e.count \/ n.count = ConsecutiveFailures)
  <2>1. ASSUME failures.digest = s.digest, e.count > 0
        PROVE  run.under = s.metrics /\ run.last = e.last /\ run.count >= e.count /\ run.first <= e.first
    BY <1>6, <2>1 DEF TallyCovers
  <2>2. CASE Starts(run, s.metrics)
    <3>1. n.under = s.metrics /\ n.last = instant /\ n.count = 1
      BY <1>2, <1>3, <1>11, <2>2, RunIs
    <3> QED BY <1>3, <1>6, <1>7, <2>1, <2>2, <3>1, VersionsAre DEF Starts
  <2>3. CASE ~Starts(run, s.metrics)
    <3>1. PICK c \in {run.count + 1, ConsecutiveFailures} :
            /\ c <= ConsecutiveFailures
            /\ n = [under |-> s.metrics, first |-> run.first, last |-> instant, count |-> c]
      BY <1>2, <1>3, <1>11, <2>3, RunIs
    <3>2. n.under = s.metrics /\ n.last = instant /\ n.first = run.first /\ n.count = c
      BY <3>1
    <3> QED BY <1>3, <1>6, <1>7, <2>1, <3>1, <3>2, VersionsAre
  <2> QED BY <2>2, <2>3
<1>12. ASSUME NEW q \in Gate PROVE GateOk(q)'
  <2>1. CASE q = g
    <3>1. past'[q] = n /\ observed'[q] = o /\ failures'.gates[q] = e /\ instant' = instant
      BY <1>2, <1>5, <2>1 DEF GatesType
    <3>2. Answered(q)'
      BY <1>1, <1>5, <1>6, <2>1 DEF Answered, GatesIn
    <3>3. AnswerOk(o, e, n)'
      BY <1>5, <1>9, <1>11 DEF AnswerOk
    <3>4. e.count <= ConsecutiveFailures /\ (e.count > 0 => failures.digest # <<>>)
      BY <1>2 DEF TallyInv
    <3> QED BY <1>5, <1>8, <3>1, <3>2, <3>3, <3>4 DEF GateOk, AnswerOk
  <2>2. CASE q # g
    <3>1. past'[q] = past[q] /\ observed'[q] = observed[q] /\ failures' = failures /\ instant' = instant
      BY <1>5, <2>2 DEF GatesType
    <3>2. polling'.at = polling.at /\ polling'.state = polling.state /\ (q \in polling'.todo <=> q \in polling.todo)
      BY <1>1, <1>5, <2>2
    <3>3. Answered(q)' <=> Answered(q)
      BY <3>2 DEF Answered, GatesIn
    <3>4. GateOk(q)
      BY DEF TallyInv, GateOk
    <3> QED BY <3>1, <3>2, <3>3, <3>4 DEF GateOk, AnswerOk, TallyCovers
  <2> QED BY <2>1, <2>2
<1>13. polling'.at = "ask" /\ polling'.state = s /\ polling'.todo \subseteq GatesIn(polling'.state)
  BY <1>5, <1>6
<1> QED BY <1>6, <1>10, <1>12, <1>13 DEF TallyInv, GateOk, GatesIn

LEMMA TallyIs ==
    ASSUME NEW o \in Observations, NEW entry \in Entries, NEW digest
    PROVE  /\ ~FreshFor(o, digest) \/ ~Failing(o.passed) => Tally(o, entry, digest) = NoEntry
           /\ FreshFor(o, digest) /\ Failing(o.passed) =>
               /\ entry.count = 0 \/ o.checked - entry.last > Freshness =>
                    Tally(o, entry, digest) = [first |-> o.checked, last |-> o.checked, count |-> 1]
               /\ ~(entry.count = 0 \/ o.checked - entry.last > Freshness) /\ o.checked > entry.last =>
                    \E c \in {entry.count + 1, ConsecutiveFailures} :
                        /\ c <= ConsecutiveFailures /\ c <= entry.count + 1
                        /\ Tally(o, entry, digest) = [first |-> entry.first, last |-> o.checked, count |-> c]
               /\ ~(entry.count = 0 \/ o.checked - entry.last > Freshness) /\ ~(o.checked > entry.last) =>
                    Tally(o, entry, digest) = entry
<1>1. PICK c : c = Min({entry.count + 1, ConsecutiveFailures})
  OBVIOUS
<1>2. entry.count \in Nat /\ c \in {entry.count + 1, ConsecutiveFailures} /\ c <= ConsecutiveFailures
      /\ c <= entry.count + 1
  BY <1>1, MinIs, VersionsAre DEF Entries
<1>3. ~FreshFor(o, digest) \/ ~Failing(o.passed) => Tally(o, entry, digest) = NoEntry
  BY DEF Tally
<1>4. ASSUME FreshFor(o, digest), Failing(o.passed), entry.count = 0 \/ o.checked - entry.last > Freshness
      PROVE  Tally(o, entry, digest) = [first |-> o.checked, last |-> o.checked, count |-> 1]
  BY <1>4 DEF Tally
<1>5. ASSUME FreshFor(o, digest), Failing(o.passed), ~(entry.count = 0 \/ o.checked - entry.last > Freshness),
             o.checked > entry.last
      PROVE  Tally(o, entry, digest) = [first |-> entry.first, last |-> o.checked, count |-> c]
  <2>1. Tally(o, entry, digest) = [entry EXCEPT !.last = o.checked, !.count = c]
    BY <1>1, <1>5 DEF Tally
  <2> QED BY <2>1 DEF Entries
<1>6. ASSUME FreshFor(o, digest), Failing(o.passed), ~(entry.count = 0 \/ o.checked - entry.last > Freshness),
             ~(o.checked > entry.last)
      PROVE  Tally(o, entry, digest) = entry
  BY <1>6 DEF Tally
<1> QED BY <1>2, <1>3, <1>4, <1>5, <1>6

LEMMA NoEntryIs == NoEntry \in Entries /\ NoEntry.count = 0 /\ NoObservation \in Observations
                   /\ NoObservation.digest = <<>>
  BY DEF NoEntry, Entries, NoObservation, Observations, Digests

(* What the end of a round makes of an answer of that round.               *)
LEMMA TallyCovered ==
    ASSUME NEW o \in Observations, NEW e \in Entries, NEW run \in Runs, NEW metrics, NEW digest, instant \in Nat,
           e.count <= ConsecutiveFailures,
           Failing(o.passed) =>
              /\ run.under = metrics /\ run.last = o.checked /\ run.count >= 1 /\ run.first <= run.last
              /\ e.count > 0 =>
                  /\ e.last <= o.checked
                  /\ o.checked - e.last <= Freshness =>
                       run.first <= e.first /\ (run.count > e.count \/ run.count = ConsecutiveFailures)
    PROVE  \E t \in Entries : /\ t = Tally(o, e, digest) /\ t.count <= ConsecutiveFailures
                              /\ t.count > 0 => TallyCovers(run, t, metrics)
<1>1. /\ run.first \in Nat /\ run.last \in Nat /\ run.count \in Nat
      /\ e.first \in Nat /\ e.last \in Nat /\ e.count \in Nat /\ o.checked \in Nat
  BY DEF Runs, Entries, Observations
<1>2. PICK t : t = Tally(o, e, digest)
  OBVIOUS
<1>3. CASE ~FreshFor(o, digest) \/ ~Failing(o.passed)
  <2>1. t = NoEntry
    BY <1>2, <1>3, TallyIs
  <2> QED BY <1>2, <2>1, NoEntryIs, VersionsAre
<1>4. CASE FreshFor(o, digest) /\ Failing(o.passed)
  <2>1. CASE e.count = 0 \/ o.checked - e.last > Freshness
    <3>1. t = [first |-> o.checked, last |-> o.checked, count |-> 1]
      BY <1>2, <1>4, <2>1, TallyIs
    <3>2. t \in Entries /\ t.first = o.checked /\ t.last = o.checked /\ t.count = 1
      BY <1>1, <3>1 DEF Entries
    <3>3. 1 <= ConsecutiveFailures
      BY VersionsAre
    <3> QED BY <1>1, <1>2, <1>4, <3>2, <3>3 DEF TallyCovers
  <2>2. CASE ~(e.count = 0 \/ o.checked - e.last > Freshness) /\ o.checked > e.last
    <3>1. PICK c \in {e.count + 1, ConsecutiveFailures} :
            /\ c <= ConsecutiveFailures /\ c <= e.count + 1
            /\ t = [first |-> e.first, last |-> o.checked, count |-> c]
      BY <1>2, <1>4, <2>2, TallyIs
    <3>2. t \in Entries /\ t.first = e.first /\ t.last = o.checked /\ t.count = c
      BY <1>1, <3>1, VersionsAre DEF Entries
    <3>3. e.count > 0 /\ o.checked - e.last <= Freshness
      BY <1>1, <2>2, VersionsAre
    <3>4. run.count >= c
      BY <1>1, <1>4, <3>1, <3>3, VersionsAre
    <3> QED BY <1>1, <1>2, <1>4, <3>1, <3>2, <3>3, <3>4 DEF TallyCovers
  <2>3. CASE ~(e.count = 0 \/ o.checked - e.last > Freshness) /\ ~(o.checked > e.last)
    <3>1. t = e
      BY <1>2, <1>4, <2>3, TallyIs
    <3>2. e.count > 0 /\ o.checked - e.last <= Freshness
      BY <1>1, <2>3, VersionsAre
    <3>3. run.last = e.last /\ run.count >= e.count /\ run.first <= e.first
      BY <1>1, <1>4, <2>3, <3>2, VersionsAre
    <3> QED BY <1>2, <1>4, <3>1, <3>3 DEF TallyCovers
  <2> QED BY <2>1, <2>2, <2>3
<1> QED BY <1>3, <1>4

LEMMA EndRoundInv ==
    ASSUME GatesType, TallyInv, EndRound
    PROVE  /\ TallyInv' /\ polling' \in Rounds /\ observed' \in [Gate -> Observations] /\ failures' \in Tallies
           /\ rolled' \in BOOLEAN /\ (rolled' /\ ~rolled => \E g \in Gate : Unbroken(past[g]))
<1>1. PICK s : polling = [at |-> "ask", state |-> s, todo |-> {}] /\ s \in Loaded
  BY DEF GatesType, Rounds, EndRound, Idling
<1>2. PICK kept, before, after :
        /\ kept = [g \in Gate |-> IF g \in GatesIn(s) THEN observed[g] ELSE NoObservation]
        /\ before = IF failures.digest = s.digest /\ failures.stage = phase THEN failures
                    ELSE NoFailures(s.digest, phase)
        /\ after = [g \in Gate |-> Tally(kept[g], before.gates[g], s.digest)]
  OBVIOUS
<1>3. /\ polling' = Idling /\ observed' = kept /\ failures' = [before EXCEPT !.gates = after]
      /\ rolled' = RolledBack(after) /\ UNCHANGED <<past, instant>>
  BY <1>1, <1>2 DEF EndRound
<1>4. /\ s.digest = <<s.policy, s.metrics>> /\ s.digest \in Versions \X Versions /\ s.digest \in Digests
      /\ s.digest # <<>> /\ s.digest[2] = s.metrics
  BY <1>1 DEF TallyInv, Loaded, Digests
<1>5. /\ before \in Tallies /\ before.digest = s.digest
      /\ \A g \in Gate : /\ before.gates[g] \in Entries /\ before.gates[g].count <= ConsecutiveFailures
                         /\ before.gates[g].count > 0 => failures.digest = s.digest /\ before.gates[g] = failures.gates[g]
  <2>1. CASE before = failures /\ failures.digest = s.digest
    BY <2>1 DEF GatesType, Tallies, TallyInv
  <2>2. CASE before = NoFailures(s.digest, phase)
    <3>1. PICK e : e = [g \in Gate |-> NoEntry]
      OBVIOUS
    <3>2. e \in [Gate -> Entries] /\ \A g \in Gate : e[g] = NoEntry
      BY <3>1, NoEntryIs
    <3>3. before = [digest |-> s.digest, stage |-> phase, gates |-> e] /\ phase \in Nat
      BY <2>2, <3>1 DEF NoFailures, GatesType
    <3> QED BY <1>4, <3>2, <3>3, NoEntryIs, VersionsAre DEF Tallies
  <2> QED BY <1>2, <2>1, <2>2
<1>6. ASSUME NEW g \in Gate
      PROVE  after[g] \in Entries /\ after[g].count <= ConsecutiveFailures
             /\ (after[g].count > 0 => TallyCovers(past[g], after[g], s.metrics))
  <2>1. PICK o, e, run : o = kept[g] /\ e = before.gates[g] /\ run = past[g]
    OBVIOUS
  <2>2. after[g] = Tally(o, e, s.digest)
    BY <1>2, <2>1
  <2>3. e \in Entries /\ run \in Runs /\ instant \in Nat /\ e.count <= ConsecutiveFailures
    BY <1>5, <2>1 DEF GatesType
  <2>4. CASE g \in GatesIn(s)
    <3>1. o = observed[g] /\ o \in Observations
      BY <1>2, <2>1, <2>4 DEF GatesType
    <3>2. Answered(g)
      BY <1>1, <2>4 DEF Answered
    <3>3. AnswerOk(o, failures.gates[g], run) /\ run.first <= run.last
      BY <2>1, <3>1, <3>2 DEF TallyInv
    <3>4. Failing(o.passed) =>
              /\ run.under = s.metrics /\ run.last = o.checked /\ run.count >= 1 /\ run.first <= run.last
              /\ e.count > 0 =>
                  /\ e.last <= o.checked
                  /\ o.checked - e.last <= Freshness =>
                       run.first <= e.first /\ (run.count > e.count \/ run.count = ConsecutiveFailures)
      BY <1>1, <1>5, <2>1, <3>3 DEF AnswerOk
    <3>5. \E t \in Entries : /\ t = Tally(o, e, s.digest) /\ t.count <= ConsecutiveFailures
                             /\ t.count > 0 => TallyCovers(run, t, s.metrics)
      BY <2>3, <3>1, <3>4, TallyCovered
    <3> QED BY <2>1, <2>2, <3>5
  <2>5. CASE g \notin GatesIn(s)
    <3>1. o = NoObservation
      BY <1>2, <2>1, <2>5
    <3>2. ~FreshFor(o, s.digest)
      BY <1>4, <3>1, NoEntryIs DEF FreshFor
    <3>3. after[g] = NoEntry
      BY <2>2, <2>3, <3>1, <3>2, NoEntryIs, TallyIs
    <3> QED BY <3>3, NoEntryIs, VersionsAre
  <2> QED BY <2>4, <2>5
<1>7. /\ failures' \in Tallies /\ failures'.digest = s.digest /\ failures'.gates = after
  <2>1. after \in [Gate -> Entries]
    BY <1>2, <1>6
  <2> QED BY <1>3, <1>5, <2>1 DEF Tallies
<1>8. observed' \in [Gate -> Observations]
  BY <1>2, <1>3, NoEntryIs DEF GatesType
<1>9. polling' \in Rounds /\ polling'.at = "rest"
  BY <1>3 DEF Rounds, Idling
<1>10. TallyInv'
  <2>1. ASSUME NEW g \in Gate PROVE GateOk(g)'
    <3>1. failures'.gates[g] = after[g] /\ past'[g] = past[g] /\ instant' = instant /\ ~Answered(g)'
      BY <1>3, <1>7, <1>9 DEF Answered
    <3>2. past[g].last <= instant /\ past[g].first <= past[g].last /\ past[g].count <= ConsecutiveFailures
      BY DEF TallyInv
    <3> QED BY <1>4, <1>6, <1>7, <3>1, <3>2 DEF GateOk, TallyCovers
  <2> QED BY <1>9, <2>1 DEF TallyInv, GateOk
<1>11. ASSUME rolled', ~rolled PROVE \E g \in Gate : Unbroken(past[g])
  <2>1. PICK g \in Gate : Sustained(after[g])
    BY <1>3, <1>11 DEF RolledBack
  <2>2. PICK t, run : t = after[g] /\ run = past[g]
    OBVIOUS
  <2>3. /\ t.first \in Nat /\ t.last \in Nat /\ t.count \in Nat
        /\ run.first \in Nat /\ run.last \in Nat /\ run.count \in Nat
    BY <1>6, <2>2 DEF Entries, GatesType, Runs
  <2>4. t.count >= ConsecutiveFailures /\ t.last - t.first >= FailureSeconds
    BY <2>1, <2>2 DEF Sustained
  <2>5. TallyCovers(run, t, s.metrics)
    BY <1>6, <2>2, <2>3, <2>4, VersionsAre
  <2>6. run.count >= ConsecutiveFailures /\ run.last - run.first >= FailureSeconds
    BY <2>3, <2>4, <2>5, VersionsAre DEF TallyCovers
  <2> QED BY <2>2, <2>6 DEF Unbroken
<1>12. rolled' \in BOOLEAN
  BY <1>3 DEF RolledBack, GatesType
<1> QED BY <1>7, <1>8, <1>9, <1>10, <1>11, <1>12

LEMMA GatesStart == GatesInit => GatesInv
<1> SUFFICES ASSUME GatesInit PROVE GatesInv
  OBVIOUS
<1>1. /\ files = [policy |-> 1, metrics |-> 1] /\ together = {<<1, 1>>} /\ watcher = <<>>
      /\ controls = [digest |-> <<1, 1>>, policy |-> 1, metrics |-> 1] /\ polling = Idling
      /\ observed = [g \in Gate |-> NoObservation] /\ failures = NoFailures(<<>>, 0)
      /\ phase = 0 /\ rolled = FALSE /\ instant = 0 /\ past = [g \in Gate |-> NoRun]
  BY DEF GatesInit
<1>2. FilesInv
  <2>1. Len(watcher) = 0
    BY <1>1
  <2>2. WatcherOk
    BY <2>1 DEF WatcherOk
  <2> QED BY <1>1, <2>2 DEF FilesInv, ControlsCoherent
<1>3. PICK e : e = [g \in Gate |-> NoEntry]
  OBVIOUS
<1>4. e \in [Gate -> Entries] /\ \A g \in Gate : e[g].count = 0
  BY <1>3, NoEntryIs
<1>5. failures = [digest |-> <<>>, stage |-> 0, gates |-> e]
  BY <1>1, <1>3 DEF NoFailures
<1>6. failures \in Tallies /\ failures.gates = e
  BY <1>4, <1>5 DEF Tallies, Digests
<1>7. /\ NoRun \in Runs /\ NoRun.last = 0 /\ NoRun.first = 0 /\ NoRun.count = 0
      /\ polling \in Rounds /\ polling.at = "rest"
  BY <1>1 DEF NoRun, Runs, Rounds, Idling
<1>8. GatesType
  <2>1. /\ files \in [policy : Versions, metrics : Versions] /\ together \in SUBSET (Versions \X Versions)
        /\ watcher \in Seq(Versions) /\ controls \in Loaded
    BY <1>1, VersionsAre DEF Loaded
  <2>2. observed \in [Gate -> Observations] /\ past \in [Gate -> Runs]
    BY <1>1, <1>7, NoEntryIs
  <2> QED BY <1>1, <1>6, <1>7, <2>1, <2>2 DEF GatesType
<1>9. TallyInv
  <2>1. ASSUME NEW g \in Gate PROVE GateOk(g)
    BY <1>1, <1>4, <1>6, <1>7, VersionsAre DEF GateOk, Answered
  <2> QED BY <1>7, <2>1 DEF TallyInv, GateOk
<1> QED BY <1>2, <1>8, <1>9 DEF GatesInv

LEMMA GatesStep ==
    ASSUME GatesInv, [GatesNext]_gateVars
    PROVE  GatesInv' /\ (rolled' /\ ~rolled => \E g \in Gate : Unbroken(past[g]))
<1>1. GatesType /\ FilesInv /\ TallyInv /\ instant \in Nat /\ instant <= instant
  BY DEF GatesInv, GatesType
<1>2. ASSUME UNCHANGED <<files, together, watcher, controls>> PROVE FilesInv'
  BY <1>1, <1>2 DEF FilesInv, WatcherOk, Met, ControlsCoherent
<1>3. ASSUME UNCHANGED <<polling, observed, failures, past, instant>> PROVE TallyInv'
  BY <1>1, <1>3, TallyKept
<1>4. CASE UNCHANGED gateVars
  BY <1>1, <1>2, <1>3, <1>4 DEF gateVars, GatesInv, GatesType
<1>5. ASSUME NEW f \in {"policy", "metrics"}, WriteFile(f) PROVE GatesInv' /\ rolled' = rolled
  <2>1. UNCHANGED <<watcher, controls, polling, observed, failures, phase, rolled, instant, past>>
    BY <1>5 DEF WriteFile
  <2> QED BY <1>1, <1>3, <1>5, <2>1, WriteFileInv DEF GatesInv, GatesType
<1>6. CASE ReadFile
  <2>1. UNCHANGED <<files, together, controls, polling, observed, failures, phase, rolled, instant, past>>
    BY <1>6 DEF ReadFile
  <2> QED BY <1>1, <1>3, <1>6, <2>1, ReadFileInv DEF GatesInv, GatesType
<1>7. CASE AbandonRefresh
  <2>1. watcher' = <<>>
        /\ UNCHANGED <<files, together, controls, polling, observed, failures, phase, rolled, instant, past>>
    BY <1>7 DEF AbandonRefresh
  <2>2. watcher' \in Seq(Versions) /\ Len(watcher') = 0
    BY <2>1
  <2>3. FilesInv'
    BY <1>1, <2>1, <2>2 DEF FilesInv, WatcherOk, ControlsCoherent
  <2> QED BY <1>1, <1>3, <2>1, <2>2, <2>3 DEF GatesInv, GatesType
<1>8. CASE PublishControls
  <2>1. UNCHANGED <<files, together, polling, observed, failures, phase, rolled, instant, past>>
    BY <1>8 DEF PublishControls
  <2> QED BY <1>1, <1>3, <1>8, <2>1, PublishControlsInv DEF GatesInv, GatesType
<1>9. CASE BeginRound
  <2>1. /\ polling.at = "rest" /\ polling' = [at |-> "ask", state |-> controls, todo |-> GatesIn(controls)]
        /\ UNCHANGED <<files, together, watcher, controls, observed, failures, phase, rolled, instant, past>>
    BY <1>9 DEF BeginRound
  <2>2. controls \in Loaded /\ GatesIn(controls) \in SUBSET Gate
    BY <1>1, GatesAssumption DEF GatesType, Loaded, GatesIn, Versions
  <2>3. polling' \in Rounds
    BY <2>1, <2>2 DEF Rounds
  <2>4. ASSUME NEW g \in Gate PROVE GateOk(g)'
    <3>1. ~Answered(g) /\ ~Answered(g)'
      BY <2>1 DEF Answered, GatesIn
    <3>2. GateOk(g)
      BY <1>1 DEF TallyInv, GateOk
    <3> QED BY <2>1, <3>1, <3>2 DEF GateOk, TallyCovers
  <2>5. TallyInv'
    <3>1. polling'.state.digest = <<polling'.state.policy, polling'.state.metrics>>
          /\ polling'.todo \subseteq GatesIn(polling'.state)
      BY <1>1, <2>1 DEF FilesInv, ControlsCoherent
    <3> QED BY <2>4, <3>1 DEF TallyInv, GateOk, GatesIn
  <2> QED BY <1>1, <1>2, <2>1, <2>3, <2>5 DEF GatesInv, GatesType
<1>10. ASSUME NEW g \in Gate, NEW passed \in Verdicts, Evaluated(g, passed) PROVE GatesInv' /\ rolled' = rolled
  <2>1. UNCHANGED <<files, together, watcher, controls, failures, phase, rolled, instant>>
    BY <1>10 DEF Evaluated
  <2> QED BY <1>1, <1>2, <1>10, <2>1, EvaluatedInv DEF GatesInv, GatesType
<1>11. CASE EndRound
  <2>1. UNCHANGED <<files, together, watcher, controls, phase, instant, past>>
    BY <1>11 DEF EndRound
  <2> QED BY <1>1, <1>2, <1>11, <2>1, EndRoundInv DEF GatesInv, GatesType
<1>12. CASE NextStage
  <2>1. phase' = phase + 1
        /\ UNCHANGED <<files, together, watcher, controls, polling, observed, failures, rolled, instant, past>>
    BY <1>12 DEF NextStage
  <2> QED BY <1>1, <1>2, <1>3, <2>1 DEF GatesInv, GatesType
<1>13. CASE Wait
  <2>1. instant' = instant + 1
        /\ UNCHANGED <<files, together, watcher, controls, polling, observed, failures, phase, rolled, past>>
    BY <1>13 DEF Wait
  <2>2. instant' \in Nat /\ instant <= instant'
    BY <1>1, <2>1
  <2>3. TallyInv'
    BY <1>1, <2>1, <2>2, TallyKept
  <2> QED BY <1>1, <1>2, <2>1, <2>2, <2>3 DEF GatesInv, GatesType
<1> QED BY <1>4, <1>5, <1>6, <1>7, <1>8, <1>9, <1>10, <1>11, <1>12, <1>13 DEF GatesNext, gateVars

LEMMA GatesInductive == GatesSpec => []GatesInv
<1>1. GatesInv /\ [GatesNext]_gateVars => GatesInv'
  BY GatesStep
<1> QED BY <1>1, GatesStart, PTL DEF GatesSpec

(* Control files that are written while Controls::refresh reads them never *)
(* mix: what is published was on disk together, and is what its digest     *)
(* says.                                                                   *)
THEOREM ControlsAreCoherent == GatesSpec => []ControlsCoherent
<1>1. GatesInv => ControlsCoherent
  BY DEF GatesInv, FilesInv
<1> QED BY <1>1, GatesInductive, PTL

(* A gate rolls a rollout back (evaluate_gates) only after enough failures *)
(* in a row, over long enough, without a gap and under one version of the  *)
(* metrics file, however the controls change during the poller's rounds.   *)
THEOREM RollbackIsSustained == GatesSpec => RollbackSustained
<1>1. GatesInv /\ [GatesNext]_gateVars => [rolled' /\ ~rolled => \E g \in Gate : Unbroken(past[g])]_gateVars
  BY GatesStep
<1> QED BY <1>1, GatesInductive, PTL DEF GatesSpec, RollbackSustained
-----------------------------------------------------------------------------
(* StaticFiles.  What the header of a response says is settled by the      *)
(* file's metadata; the invariant carries, from there to the last byte,    *)
(* which positions the reply stands for and how many of them have gone.    *)

FileStates == {"open", "prefetch", "select", "send", "done", "aborted"}

StaticType ==
    /\ shelf.length \in Nat
    /\ held \in [known : Nat, now : Nat]
    /\ asked \in [headers : Headers, sendfile : BOOLEAN, initial : BOOLEAN]
    /\ reply.start \in Nat /\ reply.length \in Nat
    /\ serving \in FileStates

(* What the reply announces is what the request asked for.                 *)
Announced ==
    LET h == asked.headers
        wanted == Positions(h, held.known)
    IN /\ reply.status \in {200, 206, 304, 416}
       /\ reply.status \in {200, 206} => wanted = reply.start..(reply.start + reply.length - 1)
       /\ reply.status = 206 => wanted # {} /\ h.range.kind \in {"suffix", "from", "both"}
       /\ reply.status = 416 => wanted = {} /\ ~NotModified(h) /\ reply.length = 0
       /\ asked.initial => reply.status = 200 /\ reply.start = 0 /\ reply.length = held.known

(* The body so far: the first n announced bytes.                           *)
SentTo(n) == sent = reply.start..(reply.start + n - 1)
SentSome == \E n \in 0..reply.length : SentTo(n) /\ (Empty => n = 0)

Unranged(h) == h.method = "GET" /\ h.range.kind = "none" /\ h.match = "none" /\ h.since = "none"

StaticInv ==
    /\ StaticType
    /\ serving = "prefetch" \/ asked.initial => Unranged(asked.headers)
    /\ serving \in {"open", "prefetch", "select"} => sent = {}
    /\ serving = "send" => Announced /\ SentSome
    /\ serving = "done" => DeliversAnnounced

LEMMA IntervalSize ==
    ASSUME NEW a \in Nat, NEW n \in Nat
    PROVE  /\ Cardinality(a..(a + n - 1)) = n
           /\ n = 0 <=> a..(a + n - 1) = {}
  <1>1. a + n - 1 \in Int
    OBVIOUS
  <1>2. Cardinality(a..(a + n - 1)) = IF a > a + n - 1 THEN 0 ELSE (a + n - 1) - a + 1
    BY <1>1, FS_Interval
  <1>3. n # 0 => a \in a..(a + n - 1)
    OBVIOUS
  <1> QED BY <1>2, <1>3

(* The range that is announced holds the positions that were asked for.    *)
LEMMA RangeIsPositions ==
    ASSUME NEW h \in Headers, NEW length \in Nat,
           h.ifRange \in {"none", "same"}, h.range.kind \notin {"none", "other"},
           NEW r, r = ByteRange(h.range, length)
    PROVE  \/ r[1] = -1 /\ Positions(h, length) = {}
           \/ /\ r[1] \in Nat /\ r[2] \in Nat /\ r[1] <= r[2]
              /\ Positions(h, length) = r[1]..r[2]
  <1>1. h.range.kind \in {"bad", "suffix", "from", "both"} /\ h.range.first \in Nat /\ h.range.last \in Nat
    BY StaticAssumption DEF RangeKinds
  <1>2. CASE h.range.kind = "bad"
    BY <1>2 DEF ByteRange, Positions
  <1>3. CASE h.range.kind = "suffix"
    <2> DEFINE first == IF h.range.last >= length THEN 0 ELSE length - h.range.last
    <2>1. Positions(h, length) = {i \in 0..(length - 1) : i >= length - h.range.last}
      BY <1>3 DEF Positions
    <2>2. CASE length = 0 \/ h.range.last = 0
      <3>1. r = <<-1, -1>>
        BY <1>1, <1>3, <2>2 DEF ByteRange
      <3>2. Positions(h, length) = {}
        BY <1>1, <2>1, <2>2
      <3> QED BY <3>1, <3>2
    <2>3. CASE length # 0 /\ h.range.last # 0
      <3>1. r = <<first, length - 1>>
        BY <1>1, <1>3, <2>3 DEF ByteRange
      <3>2. first \in Nat /\ length - 1 \in Nat /\ first <= length - 1
        BY <1>1, <2>3
      <3>3. Positions(h, length) = first..(length - 1)
        BY <1>1, <2>1, <2>3
      <3> QED BY <3>1, <3>2, <3>3
    <2> QED BY <2>2, <2>3
  <1>4. CASE h.range.kind = "from"
    <2>1. Positions(h, length) = {i \in 0..(length - 1) : i >= h.range.first}
      BY <1>4 DEF Positions
    <2>2. CASE length = 0 \/ h.range.first >= length
      <3>1. r = <<-1, -1>>
        BY <1>1, <1>4, <2>2 DEF ByteRange
      <3>2. Positions(h, length) = {}
        BY <1>1, <2>1, <2>2
      <3> QED BY <3>1, <3>2
    <2>3. CASE length # 0 /\ h.range.first < length
      <3>1. r = <<h.range.first, length - 1>>
        BY <1>1, <1>4, <2>3 DEF ByteRange
      <3>2. length - 1 \in Nat /\ h.range.first <= length - 1
        BY <1>1, <2>3
      <3>3. Positions(h, length) = h.range.first..(length - 1)
        BY <1>1, <2>1, <2>3
      <3> QED BY <1>1, <3>1, <3>2, <3>3
    <2> QED BY <1>1, <2>2, <2>3
  <1>5. CASE h.range.kind = "both"
    <2> DEFINE last == IF h.range.last < length THEN h.range.last ELSE length - 1
    <2>1. Positions(h, length) = {i \in 0..(length - 1) : h.range.first <= i /\ i <= h.range.last}
      BY <1>5 DEF Positions
    <2>2. CASE length = 0 \/ h.range.first >= length \/ last < h.range.first
      <3>1. r = <<-1, -1>>
        BY <1>1, <1>5, <2>2 DEF ByteRange
      <3>2. Positions(h, length) = {}
        BY <1>1, <2>1, <2>2
      <3> QED BY <3>1, <3>2
    <2>3. CASE length # 0 /\ h.range.first < length /\ h.range.first <= last
      <3>1. r = <<h.range.first, last>>
        BY <1>1, <1>5, <2>3 DEF ByteRange
      <3>2. last \in Nat
        BY <1>1, <2>3
      <3>3. Positions(h, length) = h.range.first..last
        BY <1>1, <2>1, <2>3
      <3> QED BY <1>1, <2>3, <3>1, <3>2, <3>3
    <2> QED BY <1>1, <2>2, <2>3
  <1> QED BY <1>1, <1>2, <1>3, <1>4, <1>5

LEMMA StaticInitInv == StaticInit => StaticInv
  <1> SUFFICES ASSUME StaticInit PROVE StaticInv
    OBVIOUS
  <1>1. shelf.length \in Nat
    BY StaticAssumption DEF StaticInit
  <1>2. held \in [known : Nat, now : Nat] /\ reply.start \in Nat /\ reply.length \in Nat
    BY DEF StaticInit, NoReply
  <1>3. asked \in [headers : Headers, sendfile : BOOLEAN, initial : BOOLEAN] /\ asked.initial = FALSE
    BY DEF StaticInit
  <1>4. serving = "open" /\ serving \in FileStates /\ sent = {}
    BY DEF StaticInit, FileStates
  <1>5. StaticType
    BY <1>1, <1>2, <1>3, <1>4 DEF StaticType
  <1> QED BY <1>3, <1>4, <1>5 DEF StaticInv

LEMMA StaticStepInv == StaticInv /\ [StaticNext]_staticVars => StaticInv'
  <1> SUFFICES ASSUME StaticInv, [StaticNext]_staticVars PROVE StaticInv'
    OBVIOUS
  <1> DEFINE h == asked.headers
  <1>0. /\ held \in [known : Nat, now : Nat] /\ asked \in [headers : Headers, sendfile : BOOLEAN, initial : BOOLEAN]
        /\ reply.start \in Nat /\ reply.length \in Nat /\ serving \in FileStates /\ shelf.length \in Nat
    BY DEF StaticInv, StaticType
  <1>1. CASE Refused
    <2>1. \E status \in {405, 301, 404, 403} : FinishReply(status)
      BY <1>1 DEF Refused
    <2>2. /\ serving' = "done" /\ reply'.status \in {405, 301, 404, 403}
          /\ reply'.start = 0 /\ reply'.length = 0 /\ sent' = {} /\ UNCHANGED <<held, asked, shelf>>
      BY <1>1, <2>1 DEF Refused, FinishReply, NoReply, StaticInv
    <2> QED BY <1>0, <2>2 DEF StaticInv, StaticType, FileStates, DeliversAnnounced
  <1>2. CASE OpenCached
    <2>1. /\ held' \in [known : Nat, now : Nat] /\ serving' = "select" /\ shelf'.length \in Nat
          /\ UNCHANGED <<asked, reply, sent>> /\ sent = {}
      BY <1>0, <1>2 DEF OpenCached, Opened, StaticInv
    <2> QED BY <1>0, <2>1 DEF StaticInv, StaticType, FileStates
  <1>3. CASE OpenPath
    <2>1. /\ held' \in [known : Nat, now : Nat] /\ serving' \in {"prefetch", "select"} /\ shelf'.length \in Nat
          /\ UNCHANGED <<asked, reply, sent>> /\ sent = {}
      BY <1>0, <1>3 DEF OpenPath, Opened, StaticInv
    <2>2. serving' = "prefetch" => Unranged(h)
      BY <1>3 DEF OpenPath, Prefetches, Unranged
    <2> QED BY <1>0, <2>1, <2>2 DEF StaticInv, StaticType, FileStates
  <1>4. CASE Prefetch
    <2>1. CASE held.now >= held.known
      <3>1. /\ asked' \in [headers : Headers, sendfile : BOOLEAN, initial : BOOLEAN]
            /\ asked'.headers = asked.headers /\ serving' = "select"
            /\ UNCHANGED <<shelf, held, reply, sent>>
        BY <1>0, <1>4, <2>1 DEF Prefetch
      <3>2. Unranged(h) /\ sent = {}
        BY <1>4 DEF Prefetch, StaticInv
      <3> QED BY <1>0, <3>1, <3>2 DEF StaticInv, StaticType, FileStates
    <2>2. CASE ~(held.now >= held.known)
      <3>1. /\ serving' = "done" /\ reply'.status = 500
            /\ reply'.start = 0 /\ reply'.length = 0 /\ sent' = {} /\ UNCHANGED <<held, asked, shelf>>
        BY <1>4, <2>2 DEF Prefetch, FinishReply, NoReply, StaticInv
      <3> QED BY <1>0, <3>1 DEF StaticInv, StaticType, FileStates, DeliversAnnounced
    <2> QED BY <2>1, <2>2
  <1>5. CASE SelectBytes
    <2>0. serving = "select" /\ serving' = "send" /\ UNCHANGED <<shelf, held, asked, sent>> /\ sent = {}
      BY <1>5 DEF SelectBytes, StaticInv
    <2> DEFINE ranged == ~NotModified(h) /\ h.ifRange \in {"none", "same"} /\ h.range.kind \notin {"none", "other"}
    <2>1. PICK r : r = ByteRange(h.range, held.known)
      OBVIOUS
    <2>2. reply' = CASE ~ranged -> [status |-> IF NotModified(h) THEN 304 ELSE 200, start |-> 0,
                                    length |-> held.known]
                     [] ranged /\ r[1] < 0 -> [status |-> 416, start |-> 0, length |-> 0]
                     [] OTHER -> [status |-> 206, start |-> r[1], length |-> r[2] - r[1] + 1]
      BY <1>5, <2>1 DEF SelectBytes
    <2>3. reply'.start \in Nat /\ reply'.length \in Nat /\ Announced'
      <3>0. asked.initial => Unranged(h)
        BY DEF StaticInv
      <3>1. CASE ~ranged
        <4>1. reply'.start = 0 /\ reply'.length = held.known
              /\ reply'.status = IF NotModified(h) THEN 304 ELSE 200
          BY <2>2, <3>1
        <4>2. ~NotModified(h) => Positions(h, held.known) = 0..(held.known - 1)
          <5>1. h.ifRange \in {"none", "same", "other"}
            BY <1>0, StaticAssumption
          <5> QED BY <3>1, <5>1 DEF Positions
        <4>3. asked.initial => ~NotModified(h)
          BY <3>0 DEF Unranged, NotModified
        <4> QED BY <1>0, <2>0, <4>1, <4>2, <4>3 DEF Announced
      <3>2. CASE ranged
        <4>0. ~asked.initial
          BY <1>0, <3>0, <3>2 DEF Unranged
        <4>1. CASE r[1] = -1 /\ Positions(h, held.known) = {}
          <5>1. reply' = [status |-> 416, start |-> 0, length |-> 0]
            BY <2>2, <3>2, <4>1
          <5> QED BY <1>0, <2>0, <3>2, <4>0, <4>1, <5>1 DEF Announced
        <4>2. CASE /\ r[1] \in Nat /\ r[2] \in Nat /\ r[1] <= r[2]
                   /\ Positions(h, held.known) = r[1]..r[2]
          <5>1. reply' = [status |-> 206, start |-> r[1], length |-> r[2] - r[1] + 1]
            BY <2>2, <3>2, <4>2
          <5>2. reply'.start + reply'.length - 1 = r[2] /\ r[1] \in r[1]..r[2] /\ reply'.length \in Nat
            BY <4>2, <5>1
          <5>3. h.range.kind \in RangeKinds \ {"none", "other"}
            BY <1>0, <3>2, StaticAssumption
          <5>4. h.range.kind # "bad"
            BY <1>0, <3>2, <4>2, <5>2 DEF Positions
          <5> QED BY <1>0, <2>0, <3>2, <4>0, <4>2, <5>1, <5>2, <5>3, <5>4 DEF Announced, RangeKinds
        <4> QED BY <1>0, <2>1, <3>2, <4>1, <4>2, RangeIsPositions
      <3> QED BY <3>1, <3>2
    <2>4. SentSome'
      <3>1. reply'.start..(reply'.start + 0 - 1) = {}
        BY <2>3
      <3>2. SentTo(0)'
        BY <2>0, <3>1 DEF SentTo
      <3> QED BY <2>3, <3>2 DEF SentSome
    <2> QED BY <1>0, <2>0, <2>3, <2>4 DEF StaticInv, StaticType, FileStates
  <1>6. CASE SendNothing
    <2>0. serving = "send" /\ serving' = "done" /\ UNCHANGED <<shelf, held, asked, reply, sent>> /\ Announced
          /\ (Empty \/ Cardinality(sent) = reply.length)
      BY <1>6 DEF SendNothing, StaticInv
    <2>1. PICK n \in 0..reply.length : SentTo(n) /\ (Empty => n = 0)
      BY <2>0 DEF StaticInv, SentSome
    <2>2. n \in Nat /\ Cardinality(sent) = n /\ (n = 0 <=> sent = {})
      <3>1. n \in Nat
        BY <1>0, <2>1
      <3>2. sent = reply.start..(reply.start + n - 1)
        BY <2>1 DEF SentTo
      <3> QED BY <1>0, <3>1, <3>2, IntervalSize
    <2>3. Empty => sent = {}
      BY <2>1, <2>2
    <2>4. ~Empty => n = reply.length
      BY <2>0, <2>2
    <2>5. DeliversAnnounced'
      <3>0. Cardinality(reply.start..(reply.start + reply.length - 1)) = reply.length
            /\ (reply.length = 0 => reply.start..(reply.start + reply.length - 1) = {})
        BY <1>0, IntervalSize
      <3>1. reply.status \in {200, 206} => reply.length = Cardinality(Positions(h, held.known))
        BY <2>0, <3>0 DEF Announced
      <3>2. reply.status \in {200, 206} /\ h.method = "GET" => sent = Positions(h, held.known)
        <4>1. CASE Empty
          <5> SUFFICES ASSUME reply.status \in {200, 206}, h.method = "GET" PROVE sent = Positions(h, held.known)
            OBVIOUS
          <5>1. reply.length = 0
            BY <4>1 DEF Empty
          <5>2. Positions(h, held.known) = {}
            BY <2>0, <3>0, <5>1 DEF Announced
          <5> QED BY <2>3, <4>1, <5>2
        <4>2. CASE ~Empty
          BY <2>0, <2>1, <2>4, <4>2 DEF Announced, SentTo
        <4> QED BY <4>1, <4>2
      <3>3. reply.status \notin {200, 206} \/ h.method = "HEAD" => Empty
        BY <2>0 DEF Announced, Empty
      <3> QED BY <2>0, <2>3, <3>1, <3>2, <3>3 DEF DeliversAnnounced, Announced
    <2> QED BY <1>0, <2>0, <2>5 DEF StaticInv, StaticType, FileStates
  <1>7. CASE SendInitial
    <2>0. serving = "send" /\ serving' = "done" /\ UNCHANGED <<shelf, held, asked, reply>> /\ Announced
          /\ sent' = 0..(held.known - 1) /\ asked.initial /\ Unranged(h)
      BY <1>7 DEF SendInitial, StaticInv
    <2>1. reply.status = 200 /\ reply.start = 0 /\ reply.length = held.known
          /\ Positions(h, held.known) = 0..(0 + held.known - 1)
      BY <2>0 DEF Announced
    <2>2. held.known \in Nat /\ 0 + held.known - 1 = held.known - 1
      BY <1>0
    <2>3. reply.length = Cardinality(Positions(h, held.known))
      BY <2>1, <2>2, IntervalSize
    <2>4. DeliversAnnounced'
      BY <2>0, <2>1, <2>2, <2>3 DEF DeliversAnnounced, Unranged
    <2> QED BY <1>0, <2>0, <2>4 DEF StaticInv, StaticType, FileStates
  <1>8. CASE SendChunk
    <2> DEFINE at == reply.start + Cardinality(sent)
    <2> DEFINE left == reply.length - Cardinality(sent)
    <2>0. serving = "send" /\ UNCHANGED <<shelf, held, asked, reply>> /\ Announced /\ Announced' /\ ~Empty
      BY <1>8 DEF SendChunk, StaticInv, Announced
    <2>1. PICK n \in 0..reply.length : SentTo(n) /\ (Empty => n = 0)
      BY <2>0 DEF StaticInv, SentSome
    <2>2. n \in Nat /\ Cardinality(sent) = n /\ (n = 0 <=> sent = {})
      <3>1. n \in Nat
        BY <1>0, <2>1
      <3>2. sent = reply.start..(reply.start + n - 1)
        BY <2>1 DEF SentTo
      <3> QED BY <1>0, <3>1, <3>2, IntervalSize
    <2>3. CASE serving' = "aborted" /\ UNCHANGED sent
      BY <1>0, <2>0, <2>3 DEF StaticInv, StaticType, FileStates
    <2>4. CASE serving' = serving /\ \E m \in 1..Chunk : m <= left /\ sent' = sent \cup at..(at + m - 1)
      <3>1. PICK m \in 1..Chunk : m <= left /\ sent' = sent \cup at..(at + m - 1)
        BY <2>4
      <3>2. m \in Nat /\ n + m \in 0..reply.length
        BY <1>0, <2>2, <3>1, StaticAssumption
      <3>3. sent' = reply.start..(reply.start + n - 1) \cup (reply.start + n)..(reply.start + n + m - 1)
        BY <2>1, <2>2, <3>1 DEF SentTo
      <3>4. sent' = reply.start..(reply.start + (n + m) - 1)
        BY <1>0, <2>2, <3>2, <3>3
      <3>5. ~Empty'
        BY <2>0 DEF Empty
      <3>6. SentSome'
        BY <2>0, <3>2, <3>4, <3>5 DEF SentSome, SentTo
      <3> QED BY <1>0, <2>0, <2>4, <3>6 DEF StaticInv, StaticType, FileStates
    <2> QED BY <1>8, <2>3, <2>4 DEF SendChunk
  <1>9. CASE Rewrite
    <2>1. /\ shelf'.length \in Nat /\ held' \in [known : Nat, now : Nat] /\ held'.known = held.known
          /\ UNCHANGED <<asked, reply, sent, serving>> /\ serving \notin {"done", "aborted"}
      BY <1>0, <1>9, StaticAssumption DEF Rewrite
    <2>2. serving = "send" => Announced' /\ SentSome'
      BY <2>1 DEF StaticInv, Announced, SentSome, SentTo, Empty
    <2> QED BY <1>0, <2>1, <2>2 DEF StaticInv, StaticType
  <1>10. CASE Rename
    <2>1. /\ shelf'.length \in Nat
          /\ UNCHANGED <<held, asked, reply, sent, serving>> /\ serving \notin {"done", "aborted"}
      BY <1>10 DEF Rename
    <2>2. serving = "send" => Announced' /\ SentSome'
      BY <2>1 DEF StaticInv, Announced, SentSome, SentTo, Empty
    <2> QED BY <1>0, <2>1, <2>2 DEF StaticInv, StaticType
  <1>11. CASE UNCHANGED staticVars
    BY <1>11 DEF staticVars, StaticInv, StaticType, Announced, SentSome, SentTo, Empty, DeliversAnnounced
  <1> QED BY <1>1, <1>2, <1>3, <1>4, <1>5, <1>6, <1>7, <1>8, <1>9, <1>10, <1>11 DEF StaticNext

(***************************************************************************)
(* A response that completes delivers exactly what its header announced,   *)
(* and that is what the request asked for, for files and chunks of any     *)
(* length and any change of the file while it is sent.                     *)
(***************************************************************************)
THEOREM AnnouncedIsDelivered == StaticSpec => []DeliversAnnounced
  <1>1. StaticInv => DeliversAnnounced
    BY DEF StaticInv, DeliversAnnounced
  <1> QED BY <1>1, StaticInitInv, StaticStepInv, PTL DEF StaticSpec

-----------------------------------------------------------------------------
(* GatewayCheckpoint.  A writer lists the checkpoint, reads the route and  *)
(* then the source, and puts: the invariant (Current) says what each of    *)
(* these steps has established about the checkpoint it may replace, as     *)
(* long as its version is the one that was listed.                         *)

Kept == [spec : Nat, map : Nat, source : Nat]
Seen == [spec : Nat, script : BOOLEAN, map : Nat, source : Nat, checkpoint : Kept]
Stored == [spec : Nat, script : BOOLEAN, map : Nat, source : Nat, checkpoint : Kept, version : Nat]
Steps == {"idle", "write", "source", "put", "prune", "pruneSource", "delete"}
Writers == [at : Steps, version : Nat, accepted : Kept]

CheckpointType ==
    /\ objects \in Stored
    /\ cache \in [Controllers -> Seen]
    /\ history \in [Controllers -> Kept]
    /\ readiness \in [Controllers -> BOOLEAN]
    /\ writer \in [Controllers -> Writers]

(* A checkpoint is of a route and a source that were in force.             *)
Passed(o) ==
    /\ o.checkpoint.spec <= o.spec /\ o.checkpoint.source <= o.source
    /\ o.checkpoint # Nothing => o.version > 0

Replaces(w, o) == w.version = o.version /\ o.checkpoint # Nothing
Current(w, o) ==
    /\ w.version <= o.version
    /\ w.at \in {"source", "put"} =>
         w.accepted.spec <= o.spec /\ (Replaces(w, o) => o.checkpoint.spec <= w.accepted.spec)
    /\ w.at = "put" =>
         w.accepted.source <= o.source /\ (Replaces(w, o) => o.checkpoint.source <= w.accepted.source)

CheckpointInv ==
    /\ CheckpointType
    /\ Passed(objects)
    /\ \A c \in Controllers : Current(writer[c], objects)
    /\ \A c \in Controllers : ~readiness[c] => history[c] = Nothing

LEMMA CheckpointInitInv == CheckpointInit => CheckpointInv
BY DEF CheckpointInit, CheckpointInv, CheckpointType, Passed, Current, Replaces, Kept, Seen, Stored, Steps, Writers,
       Nothing, IdleWriter, Unsynced

(* What the tenant does leaves the checkpoint and lets the rest grow.      *)
LEMMA EditedIs ==
    ASSUME objects \in Stored, TenantEdit
    PROVE  /\ objects'.checkpoint = objects.checkpoint /\ objects'.version = objects.version
           /\ objects'.spec >= objects.spec /\ objects'.source >= objects.source
           /\ objects' \in Stored
<1>1. PICK r \in Nat, s \in Nat, m \in Nat : r = objects.spec + 1 /\ s = objects.source + 1 /\ m = objects.map + 1
  BY DEF Stored
<1>2. PICK b \in BOOLEAN : b = ~objects.script
  OBVIOUS
<1>3. CASE objects' = [objects EXCEPT !.spec = r]
  BY <1>1, <1>3 DEF Stored
<1>4. CASE objects' = [objects EXCEPT !.script = b]
  BY <1>4 DEF Stored
<1>5. CASE objects' = [objects EXCEPT !.source = s]
  BY <1>1, <1>5 DEF Stored
<1>6. CASE objects' = [objects EXCEPT !.map = m, !.source = s]
  <2>1. objects' = [[objects EXCEPT !.map = m] EXCEPT !.source = s]
    BY <1>6
  <2>2. PICK n \in Stored : n = [objects EXCEPT !.map = m]
    BY DEF Stored
  <2>3. objects' \in Stored
    BY <2>1, <2>2 DEF Stored
  <2>4. objects'.checkpoint = n.checkpoint /\ objects'.version = n.version /\ objects'.spec = n.spec /\ objects'.source = s
    BY <2>1, <2>2 DEF Stored
  <2>5. n.checkpoint = objects.checkpoint /\ n.version = objects.version /\ n.spec = objects.spec
    BY <2>2 DEF Stored
  <2> QED BY <1>1, <2>3, <2>4, <2>5 DEF Stored
<1>7. CASE objects' = [objects EXCEPT !.map = 0]
  BY <1>7 DEF Stored
<1> QED BY <1>1, <1>2, <1>3, <1>4, <1>5, <1>6, <1>7 DEF TenantEdit

LEMMA EditKeeps ==
    ASSUME CheckpointInv, TenantEdit
    PROVE  CheckpointInv' /\ objects'.checkpoint = objects.checkpoint
<1>0. objects \in Stored /\ Passed(objects) /\ \A c \in Controllers : writer[c] \in Writers
  BY DEF CheckpointInv, CheckpointType
<1>1. /\ objects'.checkpoint = objects.checkpoint /\ objects'.version = objects.version
      /\ objects'.spec >= objects.spec /\ objects'.source >= objects.source
      /\ objects' \in Stored
  BY <1>0, EditedIs
<1>2. UNCHANGED <<cache, compiledBy, history, readiness, writer>>
  BY DEF TenantEdit
<1>3. Passed(objects')
  BY <1>0, <1>1 DEF Passed, Stored, Kept
<1>4. \A c \in Controllers : Current(writer[c], objects')
  <2> SUFFICES ASSUME NEW c \in Controllers PROVE Current(writer[c], objects')
    OBVIOUS
  <2>1. Current(writer[c], objects)
    BY DEF CheckpointInv
  <2> QED BY <1>0, <1>1, <2>1 DEF Current, Replaces, Stored, Kept, Writers
<1> QED BY <1>1, <1>2, <1>3, <1>4 DEF CheckpointInv, CheckpointType

(* What a controller does by itself.                                       *)
LEMMA AcceptedIsKept == ASSUME CheckpointInv, NEW c \in Controllers PROVE Accepted(c) \in Kept
BY DEF CheckpointInv, CheckpointType, Accepted, Retained, Seen, Kept, Nothing

LEMMA UnreadyServesNothing ==
    ASSUME CheckpointInv, NEW c \in Controllers, ~BecomesReady(c)
    PROVE  Accepted(c) = Nothing
<1>1. history[c] = Nothing
  BY DEF CheckpointInv, BecomesReady
<1> QED BY <1>1 DEF BecomesReady, Accepted, Retained, RestorePending, Restorable, Nothing

LEMMA LocalStepKeeps ==
    ASSUME CheckpointInv, NEW c \in Controllers,
           Synchronise(c) \/ Observe(c) \/ BuildRoute(c) \/ Compiles(c) \/ Restart(c)
    PROVE  CheckpointInv' /\ objects' = objects
<1> USE DEF CheckpointInv, CheckpointType
<1>1. objects' = objects
  BY DEF Synchronise, Observe, BuildRoute, Compiles, Restart
<1>2. cache' \in [Controllers -> Seen]
  <2>0. ASSUME NEW s \in Seen PROVE [cache EXCEPT ![c] = s] \in [Controllers -> Seen]
    BY <2>0
  <2>1. CASE Synchronise(c) \/ Restart(c)
    <3>1. Unsynced \in Seen
      BY DEF Unsynced, Seen, Nothing, Kept
    <3>2. [spec |-> objects.spec, script |-> objects.script, map |-> objects.map,
           source |-> objects.source, checkpoint |-> objects.checkpoint] \in Seen
      BY DEF Seen, Stored
    <3> QED BY <2>0, <2>1, <3>1, <3>2 DEF Synchronise, Restart
  <2>2. CASE Observe(c)
    <3>1. [cache[c] EXCEPT !.checkpoint = objects.checkpoint] \in Seen
      BY DEF Seen, Stored
    <3>2. [cache[c] EXCEPT !.spec = objects.spec, !.script = objects.script] \in Seen
      BY DEF Seen, Stored
    <3>3. [cache[c] EXCEPT !.map = objects.map, !.source = objects.source] \in Seen
      BY DEF Seen, Stored
    <3> QED BY <2>0, <2>2, <3>1, <3>2, <3>3 DEF Observe
  <2>3. CASE BuildRoute(c) \/ Compiles(c)
    BY <2>3 DEF BuildRoute, Compiles
  <2> QED BY <2>1, <2>2, <2>3
<1>3. /\ history' \in [Controllers -> Kept] /\ readiness' \in [Controllers -> BOOLEAN]
      /\ \A d \in Controllers : ~readiness'[d] => history'[d] = Nothing
  <2>1. CASE Synchronise(c) \/ Observe(c) \/ Compiles(c)
    BY <2>1 DEF Synchronise, Observe, Compiles
  <2>2. CASE BuildRoute(c)
    <3>1. BecomesReady(c) \in BOOLEAN
      BY DEF BecomesReady
    <3> QED BY <2>2, <3>1, AcceptedIsKept, UnreadyServesNothing DEF BuildRoute
  <2>3. CASE Restart(c)
    BY <2>3 DEF Restart, Nothing, Kept
  <2> QED BY <2>1, <2>2, <2>3
<1>4. writer' \in [Controllers -> Writers] /\ \A d \in Controllers : Current(writer'[d], objects)
  <2>1. CASE Synchronise(c) \/ Observe(c) \/ Compiles(c) \/ BuildRoute(c)
    BY <2>1 DEF Synchronise, Observe, Compiles, BuildRoute
  <2>2. CASE Restart(c)
    <3>1. IdleWriter \in Writers /\ Current(IdleWriter, objects)
      BY DEF IdleWriter, Writers, Steps, Nothing, Kept, Current, Stored
    <3> QED BY <2>2, <3>1 DEF Restart
  <2> QED BY <2>1, <2>2
<1> QED BY <1>1, <1>2, <1>3, <1>4

(* A step of a writer that changes nothing but its own place.              *)
LEMMA WriterKeeps ==
    ASSUME CheckpointInv, NEW c \in Controllers, NEW w \in Writers, Current(w, objects),
           writer' = [writer EXCEPT ![c] = w],
           UNCHANGED <<objects, cache, compiledBy, history, readiness>>
    PROVE  CheckpointInv'
BY DEF CheckpointInv, CheckpointType

LEMMA IdleIsCurrent == ASSUME CheckpointInv PROVE IdleWriter \in Writers /\ Current(IdleWriter, objects)
BY DEF CheckpointInv, CheckpointType, IdleWriter, Writers, Steps, Nothing, Kept, Current, Stored

LEMMA MovedIs ==
    ASSUME CheckpointInv, NEW c \in Controllers, NEW at \in Steps, Move(c, at)
    PROVE  \E w \in Writers : /\ w.at = at /\ w.version = writer[c].version /\ w.accepted = writer[c].accepted
                              /\ writer' = [writer EXCEPT ![c] = w]
<1>1. [writer[c] EXCEPT !.at = at] \in Writers
  BY DEF CheckpointInv, CheckpointType, Writers
<1> QED BY <1>1 DEF CheckpointInv, CheckpointType, Writers, Move

LEMMA WriterStepKeeps ==
    ASSUME CheckpointInv, NEW c \in Controllers,
           \/ List(c) \/ WriteChecksRoute(c) \/ WriteChecksSource(c) \/ GiveUp(c)
           \/ PruneChecksRoute(c) \/ PruneChecksSource(c)
    PROVE  CheckpointInv' /\ objects' = objects
<1>0. UNCHANGED <<objects, cache, compiledBy, history, readiness>>
  BY DEF List, WriteChecksRoute, WriteChecksSource, GiveUp, PruneChecksRoute, PruneChecksSource
<1>1. writer[c] \in Writers /\ Current(writer[c], objects) /\ objects \in Stored /\ Passed(objects)
  BY DEF CheckpointInv, CheckpointType
<1>2. CASE Stop(c)
  BY <1>0, <1>2, IdleIsCurrent, WriterKeeps DEF Stop
<1>3. CASE List(c)
  <2>1. PICK w : w = [at |-> IF history[c] # Nothing THEN "write" ELSE "prune",
                     version |-> IF objects.checkpoint = Nothing THEN 0 ELSE objects.version,
                     accepted |-> IF history[c] # Nothing THEN history[c] ELSE objects.checkpoint]
    OBVIOUS
  <2>2. w \in Writers /\ Current(w, objects)
    BY <1>1, <2>1 DEF CheckpointInv, CheckpointType, Writers, Steps, Stored, Current
  <2> QED BY <1>0, <1>3, <2>1, <2>2, WriterKeeps DEF List
<1>4. ASSUME NEW at \in Steps, Move(c, at),
             at \notin {"source", "put"} \/ (WriteChecksRoute(c) /\ at = "source" /\ objects.spec = writer[c].accepted.spec)
             \/ (WriteChecksSource(c) /\ at = "put" /\ objects.source = writer[c].accepted.source)
      PROVE  CheckpointInv'
  <2>1. PICK w \in Writers : /\ w.at = at /\ w.version = writer[c].version /\ w.accepted = writer[c].accepted
                             /\ writer' = [writer EXCEPT ![c] = w]
    BY <1>4, MovedIs
  <2>2. Current(w, objects)
    <3>1. CASE at \notin {"source", "put"}
      BY <1>1, <2>1, <3>1 DEF Current, Writers
    <3>2. CASE at = "source" /\ objects.spec = writer[c].accepted.spec
      BY <1>1, <2>1, <3>2 DEF Current, Replaces, Passed, Writers, Stored, Kept
    <3>3. CASE WriteChecksSource(c) /\ at = "put" /\ objects.source = writer[c].accepted.source
      <4>1. writer[c].at = "source"
        BY <3>3 DEF WriteChecksSource
      <4> QED BY <1>1, <2>1, <3>3, <4>1 DEF Current, Replaces, Passed, Writers, Stored, Kept
    <3> QED BY <1>4, <3>1, <3>2, <3>3
  <2> QED BY <1>0, <2>1, <2>2, WriterKeeps
<1>5. CASE WriteChecksRoute(c)
  BY <1>2, <1>4, <1>5 DEF WriteChecksRoute, Steps
<1>6. CASE WriteChecksSource(c)
  BY <1>2, <1>4, <1>6 DEF WriteChecksSource, Steps
<1>7. CASE GiveUp(c)
  BY <1>2, <1>7 DEF GiveUp
<1>8. CASE PruneChecksRoute(c)
  BY <1>4, <1>8 DEF PruneChecksRoute, Steps
<1>9. CASE PruneChecksSource(c)
  BY <1>2, <1>4, <1>9 DEF PruneChecksSource, Steps
<1> QED BY <1>0, <1>3, <1>5, <1>6, <1>7, <1>8, <1>9

(* A step that writes the checkpoint: the other writers keep what they     *)
(* know, or have lost their version.                                       *)
LEMMA PutKeeps ==
    ASSUME CheckpointInv, NEW c \in Controllers, Put(c)
    PROVE  /\ CheckpointInv'
           /\ objects.checkpoint # Nothing => /\ objects'.checkpoint.spec >= objects.checkpoint.spec
                                              /\ objects'.checkpoint.source >= objects.checkpoint.source
<1>1. writer[c] \in Writers /\ Current(writer[c], objects) /\ objects \in Stored /\ Passed(objects)
  BY DEF CheckpointInv, CheckpointType
<1>2. /\ writer[c].at = "put" /\ writer' = [writer EXCEPT ![c] = IdleWriter]
      /\ UNCHANGED <<cache, compiledBy, history, readiness>>
  BY DEF Put, Stop
<1>3. CASE objects' = objects
  <2>1. CheckpointInv'
    BY <1>2, <1>3, IdleIsCurrent, WriterKeeps
  <2> QED BY <1>1, <1>3, <2>1 DEF Stored, Kept
<1>4. CASE /\ writer[c].version = (IF objects.checkpoint = Nothing THEN 0 ELSE objects.version)
           /\ objects' = [objects EXCEPT !.checkpoint = writer[c].accepted, !.version = @ + 1]
  <2>1. /\ objects' \in Stored /\ objects'.checkpoint = writer[c].accepted /\ objects'.version = objects.version + 1
        /\ objects'.spec = objects.spec /\ objects'.source = objects.source
    <3>1. PICK a \in Kept, v \in Nat : a = writer[c].accepted /\ v = objects.version + 1
      BY <1>1 DEF Writers, Stored
    <3>2. objects' = [objects EXCEPT !.checkpoint = a, !.version = v]
      BY <1>4, <3>1
    <3> QED BY <1>1, <3>1, <3>2 DEF Stored
  <2>2. /\ writer[c].accepted.spec <= objects.spec /\ writer[c].accepted.source <= objects.source
        /\ objects.checkpoint # Nothing => /\ objects.checkpoint.spec <= writer[c].accepted.spec
                                           /\ objects.checkpoint.source <= writer[c].accepted.source
    BY <1>1, <1>2, <1>4 DEF Current, Replaces
  <2>3. Passed(objects')
    BY <1>1, <2>1, <2>2 DEF Passed, Stored
  <2>4. \A d \in Controllers : writer'[d] \in Writers /\ Current(writer'[d], objects')
    <3> SUFFICES ASSUME NEW d \in Controllers PROVE writer'[d] \in Writers /\ Current(writer'[d], objects')
      OBVIOUS
    <3>1. writer'[d] \in Writers /\ Current(writer'[d], objects)
      BY <1>2, IdleIsCurrent DEF CheckpointInv, CheckpointType
    <3>2. writer'[d].version # objects'.version
      BY <1>1, <2>1, <3>1 DEF Current, Writers, Stored
    <3> QED BY <1>1, <2>1, <3>1, <3>2 DEF Current, Replaces, Writers, Stored
  <2>5. CheckpointInv'
    BY <1>2, <2>1, <2>3, <2>4 DEF CheckpointInv, CheckpointType
  <2> QED BY <1>1, <2>1, <2>2, <2>5 DEF Stored, Writers, Kept
<1> QED BY <1>3, <1>4 DEF Put, Applied

LEMMA DeleteKeeps ==
    ASSUME CheckpointInv, NEW c \in Controllers, Delete(c)
    PROVE  CheckpointInv' /\ objects'.checkpoint \in {objects.checkpoint, Nothing}
<1>1. writer[c] \in Writers /\ Current(writer[c], objects) /\ objects \in Stored /\ Passed(objects)
  BY DEF CheckpointInv, CheckpointType
<1>2. /\ writer' = [writer EXCEPT ![c] = IdleWriter]
      /\ UNCHANGED <<cache, compiledBy, history, readiness>>
  BY DEF Delete, Stop
<1>3. CASE objects' = objects
  BY <1>1, <1>2, <1>3, IdleIsCurrent, WriterKeeps
<1>4. CASE objects' = [objects EXCEPT !.checkpoint = Nothing]
  <2>1. /\ objects' \in Stored /\ objects'.checkpoint = Nothing /\ objects'.version = objects.version
        /\ objects'.spec = objects.spec /\ objects'.source = objects.source
    BY <1>1, <1>4 DEF Stored, Nothing, Kept
  <2>2. Passed(objects')
    BY <1>1, <2>1 DEF Passed, Stored, Nothing
  <2>3. \A d \in Controllers : writer'[d] \in Writers /\ Current(writer'[d], objects')
    <3> SUFFICES ASSUME NEW d \in Controllers PROVE writer'[d] \in Writers /\ Current(writer'[d], objects')
      OBVIOUS
    <3>1. writer'[d] \in Writers /\ Current(writer'[d], objects)
      BY <1>2, IdleIsCurrent DEF CheckpointInv, CheckpointType
    <3> QED BY <1>1, <2>1, <3>1 DEF Current, Replaces
  <2>4. CheckpointInv'
    BY <1>2, <2>1, <2>2, <2>3 DEF CheckpointInv, CheckpointType
  <2> QED BY <2>1, <2>4
<1> QED BY <1>3, <1>4 DEF Delete

LEMMA CheckpointStep == CheckpointInv /\ [CheckpointNext]_checkpointVars => CheckpointInv'
<1> SUFFICES ASSUME CheckpointInv, [CheckpointNext]_checkpointVars PROVE CheckpointInv'
  OBVIOUS
<1>1. CASE UNCHANGED checkpointVars
  BY <1>1 DEF checkpointVars, CheckpointInv, CheckpointType
<1> QED BY <1>1, EditKeeps, LocalStepKeeps, WriterStepKeeps, PutKeeps, DeleteKeeps DEF CheckpointNext

LEMMA CheckpointInvariant == CheckpointSpec => []CheckpointInv
BY CheckpointInitInv, CheckpointStep, PTL DEF CheckpointSpec

(* The checkpoint of a Gateway route (gateway/checkpoint.rs write) never   *)
(* goes back to an older route or source, whoever writes and however late. *)
THEOREM CheckpointsGoForward == CheckpointSpec => CheckpointsAdvance
<1> DEFINE Forward == objects.checkpoint # Nothing /\ objects'.checkpoint # Nothing =>
                        /\ objects'.checkpoint.spec >= objects.checkpoint.spec
                        /\ objects'.checkpoint.source >= objects.checkpoint.source
<1>1. CheckpointInv /\ [CheckpointNext]_checkpointVars => [Forward]_checkpointVars
  <2> SUFFICES ASSUME CheckpointInv, [CheckpointNext]_checkpointVars PROVE [Forward]_checkpointVars
    OBVIOUS
  <2>1. CASE UNCHANGED checkpointVars
    BY <2>1
  <2>2. objects.checkpoint \in Kept
    BY DEF CheckpointInv, CheckpointType, Stored
  <2>3. CASE objects'.checkpoint = objects.checkpoint
    BY <2>2, <2>3 DEF Kept
  <2> QED BY <2>1, <2>3, EditKeeps, LocalStepKeeps, WriterStepKeeps, PutKeeps, DeleteKeeps DEF CheckpointNext
<1> QED BY <1>1, CheckpointInvariant, PTL DEF CheckpointSpec, CheckpointsAdvance

(* A fresh replica (gateway/controller.rs) that reports ready serves the   *)
(* route it could restore.                                                 *)
THEOREM ReadyHasRestored == CheckpointSpec => RestoredBeforeReady
<1> DEFINE Restored == \A c \in Controllers :
                /\ ~readiness[c] /\ readiness'[c]
                /\ cache[c].script /\ cache[c].map # 0
                /\ cache[c].checkpoint.map = cache[c].map
                /\ cache[c].checkpoint.source \notin Broken
                => history'[c] # Nothing
<1>1. CheckpointInv /\ [CheckpointNext]_checkpointVars => [Restored]_checkpointVars
  <2> SUFFICES ASSUME CheckpointInv, CheckpointNext, NEW c \in Controllers,
                      ~readiness[c], readiness'[c], cache[c].script, cache[c].map # 0,
                      cache[c].checkpoint.map = cache[c].map, cache[c].checkpoint.source \notin Broken
               PROVE  history'[c] # Nothing
    BY DEF Restored
  <2>1. BuildRoute(c)
    <3>1. readiness' # readiness
      OBVIOUS
    <3>2. PICK d \in Controllers : BuildRoute(d) \/ Restart(d)
      BY <3>1 DEF CheckpointNext, TenantEdit, Synchronise, Observe, Compiles, List, WriteChecksRoute,
             WriteChecksSource, Put, GiveUp, PruneChecksRoute, PruneChecksSource, Delete
    <3>3. readiness \in [Controllers -> BOOLEAN]
      BY DEF CheckpointInv, CheckpointType
    <3> QED BY <3>2, <3>3 DEF BuildRoute, Restart
  <2>2. BecomesReady(c) /\ history'[c] = Accepted(c) /\ cache[c].spec # 0
    BY <2>1 DEF BuildRoute, CheckpointInv, CheckpointType
  <2>3. history[c] = Nothing /\ cache[c].checkpoint # Nothing
    BY DEF CheckpointInv, Nothing
  <2>4. CASE LiveCompiles(c)
    BY <2>2, <2>4 DEF Accepted, Nothing
  <2>5. CASE ~LiveCompiles(c)
    <3>1. Restorable(c) /\ cache[c].checkpoint.source \in compiledBy[c]
      BY <2>2, <2>3, <2>5 DEF BecomesReady, RestorePending, Restorable
    <3> QED BY <2>2, <2>3, <2>5, <3>1 DEF Accepted, Retained
  <2> QED BY <2>4, <2>5
<1> QED BY <1>1, CheckpointInvariant, PTL DEF CheckpointSpec, RestoredBeforeReady

-----------------------------------------------------------------------------
(* StatusLeader.  A batch that is within its time holds the Lease (Leads), *)
(* because a claim, the read of the Service and an update together end     *)
(* before it expires.  A batch that has held the Lease since it began has  *)
(* the latest address that anyone read (Knows), so that what is published  *)
(* when an update reads its object is no later than its own; the version   *)
(* it read keeps this true until it writes (Prepared).                     *)

Leases == [holder : Reporters \cup {NoReporter}, renewed : Nat]
Stages == {"idle", "claim", "service", "batch", "get", "patch"}
States == [at : Stages, since : Nat, now : Nat, lease : Leases, batch : BOOLEAN, renewed : Nat, regained : BOOLEAN,
           address : Nat, generation : Nat, version : Nat]
Published == [generation : Nat, version : Nat, status : [generation : Nat, address : Nat]]

LeaderType ==
    /\ gateway \in BOOLEAN /\ {statusTime, address, highest} \subseteq Nat
    /\ lease \in Leases /\ object \in Published
    /\ reporter \in [Reporters -> States]

(* The calls under way are within their time, and what is known is past.   *)
Timely(me) ==
    /\ me.now <= statusTime /\ me.renewed <= statusTime /\ me.address <= address
    /\ me.at \in {"claim", "service", "get"} => me.since <= statusTime /\ statusTime <= me.since + CallTimeout
    /\ me.at = "claim" => me.now = me.since
    /\ me.at \in {"idle", "service"} => ~me.batch
    /\ ~me.batch => me.address = NoAddress
    /\ me.at \in {"batch", "get", "patch"} => me.batch
    /\ me.at = "get" => me.since < me.renewed + RenewPeriod

Leads(r, me) ==
    /\ me.at = "service" => lease.holder = r /\ me.since <= lease.renewed + CallTimeout
    /\ me.at \in {"batch", "get", "patch"} /\ statusTime < me.renewed + RenewPeriod + CallTimeout =>
         lease.holder = r /\ me.renewed <= lease.renewed + 2 * CallTimeout

Steady(me) == ~me.regained /\ me.address # NoAddress
Knows(r, me) ==
    lease.holder = r /\ me.batch /\ Steady(me) =>
        highest <= me.address /\ \A q \in Reporters : reporter[q].address <= me.address

Prepared(me) ==
    me.at = "patch" =>
        /\ me.version <= object.version
        /\ me.version = object.version =>
             (Steady(me) => highest <= me.address) /\ (gateway => me.generation = object.generation)

LeaderInv ==
    /\ LeaderType
    /\ highest <= address
    /\ \A r \in Reporters : Timely(reporter[r])
    /\ \A r \in Reporters : Leads(r, reporter[r])
    /\ \A r \in Reporters : Knows(r, reporter[r])
    /\ \A r \in Reporters : Prepared(reporter[r])

LEMMA LeaderConstants ==
    /\ LeaseDuration \in Nat /\ RenewPeriod \in Nat /\ CallTimeout \in Nat
    /\ RenewPeriod > 0 /\ RenewPeriod + 3 * CallTimeout <= LeaseDuration
    /\ NoReporter \notin Reporters
BY LeaderAssumption

LEMMA RestingIs ==
    /\ Resting \in States /\ Resting.at = "idle" /\ Resting.since = 0 /\ Resting.now = 0 /\ ~Resting.batch
    /\ Resting.renewed = 0 /\ Resting.address = NoAddress
BY DEF Resting, States, Stages, Leases, NoLease, NoAddress

LEMMA SettledIs ==
    ASSUME NEW me \in States, NEW n, n = Settled(me)
    PROVE  /\ n \in States /\ n.at = "batch" /\ n.now = 0 /\ n.batch = me.batch /\ n.renewed = me.renewed
           /\ n.regained = me.regained /\ n.address = me.address /\ n.generation = me.generation
<1>1. PICK a \in States : a = [me EXCEPT !.at = "batch", !.since = 0]
  BY DEF States, Stages
<1>2. PICK b \in States : b = [a EXCEPT !.now = 0, !.lease = NoLease]
  BY DEF States, Leases, NoLease
<1>3. n = [b EXCEPT !.version = 0]
  BY <1>1, <1>2 DEF Settled
<1>4. n \in States /\ n.at = b.at /\ n.now = b.now /\ n.batch = b.batch /\ n.renewed = b.renewed
      /\ n.regained = b.regained /\ n.address = b.address /\ n.generation = b.generation
  BY <1>3 DEF States
<1>5. b.at = a.at /\ b.now = 0 /\ b.batch = a.batch /\ b.renewed = a.renewed
      /\ b.regained = a.regained /\ b.address = a.address /\ b.generation = a.generation
  BY <1>2 DEF States
<1>6. a.at = "batch" /\ a.batch = me.batch /\ a.renewed = me.renewed
      /\ a.regained = me.regained /\ a.address = me.address /\ a.generation = me.generation
  BY <1>1 DEF States
<1> QED BY <1>4, <1>5, <1>6

LEMMA LeaderInitInv == LeaderInit => LeaderInv
<1> SUFFICES ASSUME LeaderInit PROVE LeaderInv
  OBVIOUS
<1>1. LeaderType
  BY RestingIs DEF LeaderInit, LeaderType, Leases, NoLease, Published, NoAddress
<1> QED BY <1>1, RestingIs, LeaderConstants DEF LeaderInit, LeaderInv, Timely, Leads, Knows, Prepared, NoLease, NoAddress

(* What the invariant says of one reporter.                                *)
LEMMA OneReporter ==
    ASSUME LeaderInv, NEW r \in Reporters
    PROVE  /\ reporter[r] \in States /\ Timely(reporter[r]) /\ Leads(r, reporter[r]) /\ Knows(r, reporter[r])
           /\ Prepared(reporter[r]) /\ r # NoReporter
BY LeaderConstants DEF LeaderInv, LeaderType

(* The address a step leaves a reporter with: none, the one it had, or one *)
(* that it read as the holder of the Lease.                                *)
Inherits(r, n) == n.address \in {NoAddress, reporter[r].address} \/ lease.holder = r

LEMMA OwnStepKeeps ==
    ASSUME LeaderInv, NEW r \in Reporters, NEW n \in States, reporter' = [reporter EXCEPT ![r] = n],
           UNCHANGED <<gateway, statusTime, lease, object, address, highest>>,
           Timely(n), Leads(r, n), Prepared(n), Inherits(r, n),
           lease.holder = r /\ n.batch /\ Steady(n) =>
               highest <= n.address /\ \A q \in Reporters : reporter[q].address <= n.address
    PROVE  LeaderInv'
<1>1. LeaderType'
  BY DEF LeaderInv, LeaderType
<1>2. \A q \in Reporters : reporter'[q] = IF q = r THEN n ELSE reporter[q]
  BY DEF LeaderInv, LeaderType
<1>3. \A q \in Reporters : Timely(reporter[q])' /\ Leads(q, reporter[q])' /\ Prepared(reporter[q])'
  BY <1>2, OneReporter DEF Timely, Leads, Prepared, Steady
<1>4. ASSUME NEW q \in Reporters PROVE Knows(q, reporter[q])'
  <2>1. CASE q = r
    <3>1. n.address <= n.address
      BY DEF States
    <3> QED BY <1>2, <2>1, <3>1 DEF Knows, Steady
  <2>2. CASE q # r
    <3>1. lease.holder = q => n.address \in {NoAddress, reporter[r].address}
      BY <2>2 DEF Inherits
    <3>2. Knows(q, reporter[q]) /\ reporter[q] \in States
      BY OneReporter
    <3> QED BY <1>2, <2>2, <3>1, <3>2 DEF Knows, Steady, States, NoAddress
  <2> QED BY <2>1, <2>2
<1> QED BY <1>1, <1>3, <1>4 DEF LeaderInv

LEMMA RestKeeps ==
    ASSUME LeaderInv, NEW r \in Reporters, Rest(r), UNCHANGED <<gateway, statusTime, lease, object, address, highest>>
    PROVE  LeaderInv'
<1>1. Timely(Resting) /\ Leads(r, Resting) /\ Prepared(Resting) /\ Inherits(r, Resting)
  BY RestingIs DEF Timely, Leads, Prepared, Inherits, LeaderInv, LeaderType, NoAddress
<1> QED BY <1>1, RestingIs, OwnStepKeeps DEF Rest, Set

-----------------------------------------------------------------------------
LEMMA WakeKeeps == ASSUME LeaderInv, NEW r \in Reporters, Wake(r) PROVE LeaderInv'
<1>1. PICK a \in States : a = [Resting EXCEPT !.at = "claim", !.since = statusTime]
  BY RestingIs DEF LeaderInv, LeaderType, States, Stages
<1>2. PICK b \in States : b = [a EXCEPT !.now = statusTime, !.lease = lease]
  BY DEF LeaderInv, LeaderType, States
<1>3. PICK n \in States : n = [b EXCEPT !.generation = object.generation]
  BY DEF LeaderInv, LeaderType, States, Published
<1>4. reporter' = [reporter EXCEPT ![r] = n]
  BY <1>1, <1>2, <1>3 DEF Wake, Set
<1>5. a.at = "claim" /\ a.since = statusTime /\ ~a.batch /\ a.renewed = 0 /\ a.address = NoAddress
  BY <1>1, RestingIs DEF States
<1>6. b.at = a.at /\ b.since = a.since /\ b.now = statusTime /\ b.batch = a.batch /\ b.renewed = a.renewed
      /\ b.address = a.address
  BY <1>2 DEF States
<1>7. n.at = b.at /\ n.since = b.since /\ n.now = b.now /\ n.batch = b.batch /\ n.renewed = b.renewed
      /\ n.address = b.address
  BY <1>3 DEF States
<1>8. Timely(n) /\ Leads(r, n) /\ Prepared(n) /\ Inherits(r, n)
  BY <1>5, <1>6, <1>7, LeaderConstants DEF LeaderInv, LeaderType, Timely, Leads, Prepared, Inherits, NoAddress
<1> QED BY <1>4, <1>5, <1>6, <1>7, <1>8, OwnStepKeeps DEF Wake

LEMMA RenewKeeps == ASSUME LeaderInv, NEW r \in Reporters, Renew(r) PROVE LeaderInv'
<1>0. PICK me \in States : me = reporter[r]
  BY OneReporter
<1>1. PICK a \in States : a = [me EXCEPT !.at = "claim", !.since = statusTime]
  BY DEF LeaderInv, LeaderType, States, Stages
<1>2. PICK n \in States : n = [a EXCEPT !.now = statusTime, !.lease = lease]
  BY DEF LeaderInv, LeaderType, States
<1>3. reporter' = [reporter EXCEPT ![r] = n]
  BY <1>0, <1>1, <1>2 DEF Renew, Set
<1>4. a.at = "claim" /\ a.since = statusTime /\ a.batch = me.batch /\ a.renewed = me.renewed
      /\ a.address = me.address /\ a.regained = me.regained
  BY <1>1 DEF States
<1>5. n.at = a.at /\ n.since = a.since /\ n.now = statusTime /\ n.batch = a.batch /\ n.renewed = a.renewed
      /\ n.address = a.address /\ n.regained = a.regained
  BY <1>2 DEF States
<1>6. Timely(me) /\ Knows(r, me) /\ me.at = "batch"
  BY <1>0, OneReporter DEF Renew
<1>7. Timely(n) /\ Leads(r, n) /\ Prepared(n) /\ Inherits(r, n)
  BY <1>0, <1>4, <1>5, <1>6, LeaderConstants DEF LeaderInv, LeaderType, Timely, Leads, Prepared, Inherits, NoAddress
<1> QED BY <1>3, <1>4, <1>5, <1>6, <1>7, OwnStepKeeps DEF Renew, Knows, Steady

LEMMA NextUpdateKeeps == ASSUME LeaderInv, NEW r \in Reporters, NextUpdate(r) PROVE LeaderInv'
<1>0. PICK me \in States : me = reporter[r]
  BY OneReporter
<1>1. PICK n \in States : n = [me EXCEPT !.at = "get", !.since = statusTime]
  BY DEF LeaderInv, LeaderType, States, Stages
<1>2. reporter' = [reporter EXCEPT ![r] = n]
  BY <1>0, <1>1 DEF NextUpdate, Set
<1>3. n.at = "get" /\ n.since = statusTime /\ n.now = me.now /\ n.batch = me.batch /\ n.renewed = me.renewed
      /\ n.address = me.address /\ n.regained = me.regained
  BY <1>1 DEF States
<1>4. Timely(me) /\ Knows(r, me) /\ Leads(r, me) /\ me.at = "batch" /\ ~(statusTime - me.renewed >= RenewPeriod)
  BY <1>0, OneReporter DEF NextUpdate, RenewDue
<1>5. statusTime \in Nat /\ address \in Nat /\ me.renewed \in Nat
  BY DEF LeaderInv, LeaderType, States
<1>6. Timely(n)
  BY <1>3, <1>4, <1>5, LeaderConstants DEF Timely, NoAddress
<1>7. Leads(r, n) /\ Prepared(n) /\ Inherits(r, n)
  BY <1>0, <1>3, <1>4 DEF Leads, Prepared, Inherits
<1> QED BY <1>2, <1>3, <1>4, <1>6, <1>7, OwnStepKeeps DEF NextUpdate, Knows, Steady

(* A batch that reads its object within its time holds the Lease.          *)
LEMMA GetLeads ==
    ASSUME LeaderInv, NEW r \in Reporters, reporter[r].at = "get"
    PROVE  lease.holder = r /\ (Steady(reporter[r]) => highest <= reporter[r].address)
<1>0. PICK me \in States : me = reporter[r]
  BY OneReporter
<1>1. Timely(me) /\ Knows(r, me) /\ Leads(r, me) /\ me.at = "get" /\ statusTime \in Nat
  BY <1>0, OneReporter DEF LeaderInv, LeaderType
<1>2. statusTime < me.renewed + RenewPeriod + CallTimeout
  BY <1>1, LeaderConstants DEF Timely, States
<1> QED BY <1>0, <1>1, <1>2 DEF Leads, Knows, Timely

LEMMA SettledKeeps ==
    ASSUME LeaderInv, NEW r \in Reporters, reporter[r].at \in {"get", "patch"}, Set(r, Settled(reporter[r])),
           UNCHANGED <<gateway, statusTime, lease, object, address, highest>>
    PROVE  LeaderInv'
<1>0. PICK me \in States : me = reporter[r]
  BY OneReporter
<1>1. PICK n \in States : n = Settled(me)
  BY SettledIs
<1>2. n.at = "batch" /\ n.now = 0 /\ n.batch = me.batch /\ n.renewed = me.renewed
      /\ n.regained = me.regained /\ n.address = me.address
  BY <1>1, SettledIs
<1>3. Timely(me) /\ Knows(r, me) /\ Leads(r, me) /\ me.at \in {"get", "patch"} /\ statusTime \in Nat
  BY <1>0, OneReporter DEF LeaderInv, LeaderType
<1>4. Timely(n) /\ Leads(r, n) /\ Prepared(n) /\ Inherits(r, n)
  BY <1>0, <1>2, <1>3 DEF Timely, Leads, Prepared, Inherits
<1> QED BY <1>0, <1>1, <1>2, <1>3, <1>4, OwnStepKeeps DEF Set, Knows, Steady

LEMMA GetCurrentKeeps == ASSUME LeaderInv, NEW r \in Reporters, GetCurrent(r) PROVE LeaderInv'
<1>0. PICK me \in States : me = reporter[r]
  BY OneReporter
<1>1. CASE Set(r, Settled(me))
  BY <1>0, <1>1, SettledKeeps DEF GetCurrent
<1>2. CASE Set(r, [Settled(me) EXCEPT !.at = "patch", !.version = object.version])
           /\ (gateway => ~PublishEnds(me))
  <2>1. PICK s \in States : s = Settled(me)
    BY SettledIs
  <2>2. PICK n \in States : n = [s EXCEPT !.at = "patch", !.version = object.version]
    BY DEF LeaderInv, LeaderType, Published, States, Stages
  <2>3. n.at = "patch" /\ n.version = object.version /\ n.now = 0 /\ n.batch = me.batch /\ n.renewed = me.renewed
        /\ n.regained = me.regained /\ n.address = me.address /\ n.generation = me.generation
    BY <2>1, <2>2, SettledIs DEF States
  <2>4. Timely(me) /\ Knows(r, me) /\ Leads(r, me) /\ me.at = "get" /\ statusTime \in Nat /\ object.version \in Nat
    BY <1>0, OneReporter DEF LeaderInv, LeaderType, GetCurrent, Published
  <2>5. Steady(me) => highest <= me.address
    BY <1>0, <2>4, GetLeads
  <2>6. Timely(n) /\ Leads(r, n) /\ Inherits(r, n)
    BY <1>0, <2>3, <2>4 DEF Timely, Leads, Inherits
  <2>7. Prepared(n)
    BY <1>2, <2>3, <2>4, <2>5 DEF Prepared, Steady, PublishEnds
  <2> QED BY <1>0, <1>2, <2>1, <2>2, <2>3, <2>4, <2>6, <2>7, OwnStepKeeps DEF GetCurrent, Set, Knows, Steady
<1> QED BY <1>0, <1>1, <1>2 DEF GetCurrent

LEMMA ReadServiceKeeps == ASSUME LeaderInv, NEW r \in Reporters, ReadService(r) PROVE LeaderInv'
<1>0. PICK me \in States : me = reporter[r]
  BY OneReporter
<1>1. ASSUME NEW a \in {address, NoAddress},
             Set(r, [Settled(me) EXCEPT !.batch = TRUE, !.renewed = statusTime, !.address = a])
      PROVE  LeaderInv'
  <2>1. PICK s \in States : s = Settled(me)
    BY SettledIs
  <2>2. a \in Nat /\ a <= address /\ statusTime \in Nat /\ address \in Nat /\ highest <= address /\ lease \in Leases
    BY DEF LeaderInv, LeaderType, NoAddress
  <2>3. PICK b \in States : b = [s EXCEPT !.batch = TRUE, !.renewed = statusTime]
    BY <2>2 DEF States
  <2>4. PICK n \in States : n = [b EXCEPT !.address = a]
    BY <2>2 DEF States
  <2>5. b.at = "batch" /\ b.now = 0 /\ b.batch /\ b.renewed = statusTime
    BY <2>1, <2>3, SettledIs DEF States
  <2>6. n.at = "batch" /\ n.now = 0 /\ n.batch /\ n.renewed = statusTime /\ n.address = a
    BY <2>4, <2>5 DEF States
  <2>7. reporter' = [reporter EXCEPT ![r] = n]
    BY <1>1, <2>1, <2>3, <2>4 DEF Set
  <2>8. Timely(me) /\ Leads(r, me) /\ me.at = "service"
    BY <1>0, OneReporter DEF ReadService
  <2>9. lease.holder = r /\ statusTime <= lease.renewed + 2 * CallTimeout
    BY <2>2, <2>8, LeaderConstants DEF Timely, Leads, States, Leases
  <2>10. Timely(n) /\ Leads(r, n) /\ Prepared(n) /\ Inherits(r, n)
    BY <2>2, <2>6, <2>9 DEF Timely, Leads, Prepared, Inherits
  <2>11. \A q \in Reporters : reporter[q].address <= address
    BY OneReporter DEF Timely
  <2> QED BY <2>2, <2>6, <2>7, <2>10, <2>11, OwnStepKeeps DEF ReadService, Steady
<1> QED BY <1>0, <1>1, RestKeeps DEF ReadService

-----------------------------------------------------------------------------
(* The Lease changes hands only when it has expired, so nobody who is      *)
(* within his time loses it.                                               *)
LEMMA HolderIsSafe ==
    ASSUME LeaderInv, NEW r \in Reporters, NEW q \in Reporters, q # r,
           reporter[r].at = "claim", Writable(reporter[r], r)
    PROVE  /\ reporter[q].at # "service"
           /\ reporter[q].at \in {"batch", "get", "patch"} => statusTime >= reporter[q].renewed + RenewPeriod + CallTimeout
<1>1. PICK me \in States, you \in States : me = reporter[r] /\ you = reporter[q]
  BY OneReporter
<1>2. Timely(me) /\ Timely(you) /\ Leads(q, you) /\ q # NoReporter
  BY <1>1, OneReporter
<1>3. lease \in Leases /\ statusTime \in Nat /\ lease = me.lease /\ me.now \in Nat /\ you.renewed \in Nat /\ you.since \in Nat
  BY <1>1 DEF LeaderInv, LeaderType, Writable, States
<1>4. lease.holder = q => lease.renewed + LeaseDuration <= statusTime
  BY <1>1, <1>2, <1>3, LeaderConstants DEF Writable, Fresh, Timely, Leases
<1> QED BY <1>1, <1>2, <1>3, <1>4, LeaderConstants DEF Leads, Timely, Leases

LEMMA ClaimedKeeps ==
    ASSUME LeaderInv, NEW r \in Reporters, NEW n \in States, reporter' = [reporter EXCEPT ![r] = n],
           reporter[r].at = "claim", Writable(reporter[r], r), lease' = Claims(r, reporter[r].now),
           UNCHANGED <<gateway, statusTime, object, address, highest>>,
           Timely(n), Leads(r, n)', Prepared(n), n.address \in {NoAddress, reporter[r].address},
           n.batch /\ Steady(n) =>
               highest <= n.address /\ \A q \in Reporters : reporter[q].address <= n.address
    PROVE  LeaderInv'
<1>0. reporter[r] \in States /\ lease'.holder = r
  BY OneReporter DEF Claims
<1>1. LeaderType'
  BY <1>0 DEF LeaderInv, LeaderType, Claims, Leases, States
<1>2. \A q \in Reporters : reporter'[q] = IF q = r THEN n ELSE reporter[q]
  BY DEF LeaderInv, LeaderType
<1>3. \A q \in Reporters : Timely(reporter[q])' /\ Prepared(reporter[q])'
  BY <1>2, OneReporter DEF Timely, Prepared, Steady
<1>4. ASSUME NEW q \in Reporters PROVE Leads(q, reporter[q])'
  <2>1. CASE q = r
    BY <1>2, <2>1 DEF Leads
  <2>2. CASE q # r
    <3>1. reporter[q] \in States /\ statusTime \in Nat
      BY OneReporter DEF LeaderInv, LeaderType
    <3> QED BY <1>2, <2>2, <3>1, HolderIsSafe, LeaderConstants DEF Leads, States
  <2> QED BY <2>1, <2>2
<1>5. ASSUME NEW q \in Reporters PROVE Knows(q, reporter[q])'
  <2>1. CASE q = r
    <3>1. n.address <= n.address
      BY DEF States
    <3> QED BY <1>2, <2>1, <3>1 DEF Knows, Steady
  <2>2. CASE q # r
    BY <1>0, <2>2 DEF Knows
  <2> QED BY <2>1, <2>2
<1> QED BY <1>1, <1>3, <1>4, <1>5 DEF LeaderInv

LEMMA ContendKeeps == ASSUME LeaderInv, NEW r \in Reporters, Contend(r) PROVE LeaderInv'
<1>1. CASE lease' = lease
  BY <1>1, RestKeeps DEF Contend
<1>2. CASE Writable(reporter[r], r) /\ lease' = Claims(r, reporter[r].now)
  <2>1. Timely(Resting) /\ Leads(r, Resting)' /\ Prepared(Resting)
    BY RestingIs DEF Timely, Leads, Prepared, LeaderInv, LeaderType, NoAddress
  <2> QED BY <1>2, <2>1, RestingIs, ClaimedKeeps DEF Contend, Rest, Set
<1> QED BY <1>1, <1>2 DEF Contend

LEMMA ClaimKeeps == ASSUME LeaderInv, NEW r \in Reporters, Claim(r) PROVE LeaderInv'
<1>0. PICK me \in States : me = reporter[r]
  BY OneReporter
<1>1. PICK s \in States : s = Settled(me)
  BY SettledIs
<1>2. s.at = "batch" /\ s.now = 0 /\ s.batch = me.batch /\ s.renewed = me.renewed
      /\ s.regained = me.regained /\ s.address = me.address
  BY <1>1, SettledIs
<1>3. /\ Timely(me) /\ Knows(r, me) /\ me.at = "claim" /\ me.lease = lease
      /\ statusTime \in Nat /\ address \in Nat /\ me.now \in Nat
  BY <1>0, OneReporter DEF LeaderInv, LeaderType, Claim, Writable, States
<1>4. lease'.holder = r /\ lease'.renewed = me.now /\ statusTime <= me.now + CallTimeout
  BY <1>0, <1>3 DEF Claim, Claims, Timely
<1>5. UNCHANGED statusTime
  BY DEF Claim
<1>6. CASE me.batch
  <2>1. PICK g \in BOOLEAN : g = (me.regained \/ me.lease.holder # r)
    BY DEF States
  <2>2. PICK n \in States : n = [s EXCEPT !.renewed = statusTime, !.regained = g]
    BY <1>3 DEF States
  <2>3. reporter' = [reporter EXCEPT ![r] = n]
    BY <1>0, <1>1, <1>6, <2>1, <2>2 DEF Claim, Set
  <2>4. n.at = "batch" /\ n.now = 0 /\ n.batch /\ n.renewed = statusTime /\ n.regained = g /\ n.address = me.address
    BY <1>2, <1>6, <2>2 DEF States
  <2>5. Timely(n) /\ Prepared(n)
    BY <1>3, <2>4 DEF Timely, Prepared
  <2>6. Leads(r, n)'
    BY <1>3, <1>4, <1>5, <2>4, LeaderConstants DEF Leads
  <2>7. Steady(n) => highest <= n.address /\ \A q \in Reporters : reporter[q].address <= n.address
    BY <1>3, <1>6, <2>1, <2>4 DEF Steady, Knows
  <2> QED BY <1>0, <2>3, <2>4, <2>5, <2>6, <2>7, ClaimedKeeps DEF Claim
<1>7. CASE ~me.batch
  <2>1. PICK n \in States : n = [s EXCEPT !.at = "service", !.since = statusTime]
    BY <1>3 DEF States, Stages
  <2>2. reporter' = [reporter EXCEPT ![r] = n]
    BY <1>0, <1>1, <1>7, <2>1 DEF Claim, Set
  <2>3. n.at = "service" /\ n.since = statusTime /\ n.now = 0 /\ ~n.batch /\ n.renewed = me.renewed /\ n.address = me.address
    BY <1>2, <1>7, <2>1 DEF States
  <2>4. Timely(n) /\ Prepared(n)
    BY <1>3, <1>7, <2>3, LeaderConstants DEF Timely, Prepared
  <2>5. Leads(r, n)'
    BY <1>4, <1>5, <2>3 DEF Leads
  <2> QED BY <1>0, <2>2, <2>3, <2>4, <2>5, ClaimedKeeps DEF Claim
<1> QED BY <1>6, <1>7

-----------------------------------------------------------------------------
LEMMA PatchKeeps ==
    ASSUME LeaderInv, NEW r \in Reporters, Patch(r)
    PROVE  /\ LeaderInv'
           /\ object'.status # object.status =>
                /\ Steady(reporter[r]) => object'.status.address >= highest
                /\ object'.status.address = reporter[r].address
                /\ gateway => object'.status.generation = object.generation
<1>0. PICK me \in States : me = reporter[r]
  BY OneReporter
<1>1. me.at = "patch" /\ Set(r, Settled(me)) /\ UNCHANGED <<gateway, statusTime, lease, address>>
  BY <1>0 DEF Patch
<1>2. CASE UNCHANGED <<object, highest>>
  BY <1>0, <1>1, <1>2, SettledKeeps
<1>3. CASE /\ object.version = me.version
           /\ object' = [object EXCEPT !.version = @ + 1, !.status = Desired(me)]
           /\ highest' = IF me.address > highest THEN me.address ELSE highest
  <2>1. PICK n \in States : n = Settled(me)
    BY SettledIs
  <2>2. n.at = "batch" /\ n.now = 0 /\ n.batch = me.batch /\ n.renewed = me.renewed
        /\ n.regained = me.regained /\ n.address = me.address
    BY <2>1, SettledIs
  <2>3. /\ Timely(me) /\ Knows(r, me) /\ Leads(r, me) /\ Prepared(me)
        /\ statusTime \in Nat /\ address \in Nat /\ highest \in Nat /\ object \in Published /\ highest <= address
    BY <1>0, OneReporter DEF LeaderInv, LeaderType
  <2>4. \A q \in Reporters : reporter'[q] = IF q = r THEN n ELSE reporter[q]
    BY <1>0, <1>1, <2>1 DEF LeaderInv, LeaderType, Set
  <2>5. PICK v \in Nat, s \in [generation : Nat, address : Nat] :
            /\ v = object.version + 1 /\ s = Desired(me)
            /\ s.address = me.address /\ (gateway => s.generation = me.generation)
    <3>1. PICK g \in Nat : g = (IF gateway THEN me.generation ELSE 0)
      BY DEF States
    <3>2. Desired(me) = [generation |-> g, address |-> me.address]
      BY <3>1 DEF Desired
    <3> QED BY <2>3, <3>1, <3>2 DEF Published, States
  <2>6. object' \in Published /\ object'.version = object.version + 1 /\ object'.status = s
    BY <1>3, <2>3, <2>5 DEF Published
  <2>7. highest' \in Nat /\ highest' <= address /\ highest' >= highest /\ highest' >= me.address
        /\ highest' \in {highest, me.address}
    BY <1>3, <2>3 DEF Timely, States
  <2>8. LeaderType'
    <3>1. reporter' \in [Reporters -> States]
      BY <1>0, <1>1, <2>1 DEF LeaderInv, LeaderType, Set
    <3> QED BY <1>1, <2>6, <2>7, <3>1 DEF LeaderInv, LeaderType
  <2>9. ASSUME NEW q \in Reporters PROVE Timely(reporter[q])' /\ Leads(q, reporter[q])' /\ Prepared(reporter[q])'
    <3>1. CASE q = r
      <4>1. Timely(n) /\ Leads(r, n) /\ n.at # "patch"
        BY <1>1, <2>2, <2>3 DEF Timely, Leads
      <4> QED BY <1>1, <2>4, <3>1, <4>1 DEF Timely, Leads, Prepared
    <3>2. CASE q # r
      <4>1. reporter[q] \in States /\ Timely(reporter[q]) /\ Leads(q, reporter[q]) /\ Prepared(reporter[q])
        BY OneReporter
      <4>2. reporter[q].at = "patch" => reporter[q].version < object'.version
        BY <2>3, <2>6, <4>1 DEF Prepared, States, Published
      <4> QED BY <1>1, <2>4, <2>6, <3>2, <4>1, <4>2 DEF Timely, Leads, Prepared, States, Published
    <3> QED BY <3>1, <3>2
  <2>10. ASSUME NEW q \in Reporters PROVE Knows(q, reporter[q])'
    <3>1. \A p \in Reporters : reporter'[p].address = reporter[p].address
      BY <1>0, <2>2, <2>4
    <3>2. Knows(q, reporter[q])
      BY OneReporter
    <3>3. reporter'[q].batch = reporter[q].batch /\ reporter'[q].regained = reporter[q].regained
      BY <1>0, <2>2, <2>4
    <3> QED BY <1>0, <1>1, <2>7, <3>1, <3>2, <3>3 DEF Knows, Steady
  <2>11. LeaderInv'
    BY <1>1, <2>7, <2>8, <2>9, <2>10 DEF LeaderInv
  <2>12. Steady(me) => me.address >= highest
    BY <1>1, <1>3, <2>3 DEF Prepared, States
  <2> QED BY <1>0, <1>1, <1>3, <2>3, <2>5, <2>6, <2>11, <2>12 DEF Prepared
<1> QED BY <1>0, <1>2, <1>3 DEF Patch

LEMMA WorldKeeps ==
    ASSUME LeaderInv, EditObject \/ NewAddress \/ LeaderTick
    PROVE  LeaderInv' /\ object'.status = object.status
<1>0. statusTime \in Nat /\ address \in Nat /\ highest \in Nat /\ highest <= address /\ object \in Published
  BY DEF LeaderInv, LeaderType
<1>1. CASE EditObject
  <2>1. PICK g \in Nat, v \in Nat : g = object.generation + 1 /\ v = object.version + 1
    BY <1>0 DEF Published
  <2>2. object' = [object EXCEPT !.generation = g, !.version = v]
    BY <1>1, <2>1 DEF EditObject
  <2>3. object' \in Published /\ object'.version = v /\ object'.status = object.status
    BY <1>0, <2>2 DEF Published
  <2>4. UNCHANGED <<gateway, statusTime, lease, reporter, address, highest>>
    BY <1>1 DEF EditObject
  <2>5. \A r \in Reporters : Prepared(reporter[r])'
    <3> SUFFICES ASSUME NEW r \in Reporters, reporter[r].at = "patch" PROVE reporter[r].version < object'.version
      BY <1>0, <2>1, <2>3, <2>4, OneReporter DEF Prepared, States, Published
    <3> QED BY <1>0, <2>1, <2>3, OneReporter DEF Prepared, States, Published
  <2> QED BY <2>3, <2>4, <2>5 DEF LeaderInv, LeaderType, Timely, Leads, Knows
<1>2. CASE NewAddress
  <2>1. address' = address + 1 /\ UNCHANGED <<gateway, statusTime, lease, reporter, object, highest>>
    BY <1>2 DEF NewAddress
  <2>2. \A r \in Reporters : Timely(reporter[r])'
    BY <1>0, <2>1, OneReporter DEF Timely, States
  <2> QED BY <1>0, <2>1, <2>2 DEF LeaderInv, LeaderType, Leads, Knows, Prepared
<1>3. CASE LeaderTick
  <2>1. statusTime' = statusTime + 1 /\ UNCHANGED <<gateway, lease, reporter, object, address, highest>>
    BY <1>3 DEF LeaderTick
  <2>2. ASSUME NEW r \in Reporters PROVE Timely(reporter[r])' /\ Leads(r, reporter[r])'
    <3>1. PICK me \in States : me = reporter[r]
      BY OneReporter
    <3>2. Timely(me) /\ Leads(r, me) /\ (me.at \in {"claim", "service", "get"} => statusTime < me.since + CallTimeout)
      BY <1>3, <3>1, OneReporter DEF LeaderTick
    <3>3. me.since \in Nat /\ me.now \in Nat /\ me.renewed \in Nat
      BY DEF States
    <3> QED BY <1>0, <2>1, <3>1, <3>2, <3>3, LeaderConstants DEF Timely, Leads
  <2> QED BY <1>0, <2>1, <2>2 DEF LeaderInv, LeaderType, Knows, Prepared
<1> QED BY <1>1, <1>2, <1>3

LEMMA LeaderStep == LeaderInv /\ [LeaderNext]_leaderVars => LeaderInv'
<1> SUFFICES ASSUME LeaderInv, [LeaderNext]_leaderVars PROVE LeaderInv'
  OBVIOUS
<1>1. CASE UNCHANGED leaderVars
  BY <1>1 DEF leaderVars, LeaderInv, LeaderType, Timely, Leads, Knows, Prepared
<1>2. ASSUME NEW r \in Reporters, EndBatch(r) PROVE LeaderInv'
  BY <1>2, RestKeeps DEF EndBatch
<1> QED BY <1>1, <1>2, WakeKeeps, RenewKeeps, ClaimKeeps, ContendKeeps, ReadServiceKeeps, NextUpdateKeeps,
           GetCurrentKeeps, PatchKeeps, WorldKeeps DEF LeaderNext

LEMMA LeaderInvariant == LeaderSpec => []LeaderInv
BY LeaderInitInv, LeaderStep, PTL DEF LeaderSpec

(* Status writes of the leader (ingress/status.rs, gateway/status.rs) do   *)
(* not go back, for any timing in which the calls of a claim end within    *)
(* the Lease.                                                              *)
THEOREM StatusGoesForward == LeaderSpec => StatusAdvances
<1> DEFINE Ahead == object'.status # object.status =>
            /\ \A r \in Reporters : Publishes(r) /\ ~reporter[r].regained =>
                  object'.status.address = NoAddress \/ object'.status.address >= highest
            /\ gateway => object'.status.generation = object.generation
<1>1. LeaderInv /\ [LeaderNext]_leaderVars => [Ahead]_leaderVars
  <2> SUFFICES ASSUME LeaderInv, LeaderNext, object'.status # object.status
               PROVE  Ahead
    BY DEF Ahead
  <2>1. PICK q \in Reporters : Patch(q)
    <3>1. ASSUME NEW r \in Reporters,
                 Wake(r) \/ Renew(r) \/ Claim(r) \/ Contend(r) \/ ReadService(r) \/ NextUpdate(r) \/ GetCurrent(r)
                 \/ EndBatch(r)
          PROVE  UNCHANGED object
      BY <3>1, Zenon DEF Wake, Renew, Claim, Contend, ReadService, NextUpdate, GetCurrent, EndBatch
    <3> QED BY <3>1, WorldKeeps DEF LeaderNext
  <2>2. ASSUME NEW r \in Reporters, Publishes(r) PROVE r = q
    BY <2>1, <2>2 DEF Patch, Set, Publishes, LeaderInv, LeaderType
  <2> QED BY <2>1, <2>2, PatchKeeps DEF Ahead, Steady
<1> QED BY <1>1, LeaderInvariant, PTL DEF LeaderSpec, StatusAdvances

-----------------------------------------------------------------------------
(* Routing.  Orders: tuples of numbers are totally ordered, and a set of   *)
(* numbers has a greatest element under any total order.                   *)

LEMMA LexTransitive ==
    ASSUME NEW k \in Nat, NEW a \in [1..k -> Int], NEW b \in [1..k -> Int], NEW c \in [1..k -> Int],
           Lexicographic(a, b), Lexicographic(b, c)
    PROVE  Lexicographic(a, c)
<1>1. PICK i \in 1..k : a[i] < b[i] /\ \A j \in 1..(i - 1) : a[j] = b[j]
  BY DEF Lexicographic
<1>2. PICK i2 \in 1..k : b[i2] < c[i2] /\ \A j \in 1..(i2 - 1) : b[j] = c[j]
  BY DEF Lexicographic
<1>3. CASE i <= i2
  <2>1. a[i] < c[i]
    <3>1. CASE i = i2
      BY <1>1, <1>2, <3>1
    <3>2. CASE i < i2
      <4>1. i \in 1..(i2 - 1)
        BY <3>2
      <4> QED BY <4>1, <1>1, <1>2
    <3> QED BY <3>1, <3>2, <1>3
  <2>2. ASSUME NEW j \in 1..(i - 1) PROVE a[j] = c[j]
    <3>1. j \in 1..(i2 - 1)
      BY <1>3
    <3> QED BY <3>1, <1>1, <1>2
  <2> QED BY <2>1, <2>2 DEF Lexicographic
<1>4. CASE i2 < i
  <2>1. a[i2] < c[i2]
    <3>1. i2 \in 1..(i - 1)
      BY <1>4
    <3> QED BY <3>1, <1>1, <1>2
  <2>2. ASSUME NEW j \in 1..(i2 - 1) PROVE a[j] = c[j]
    <3>1. j \in 1..(i - 1)
      BY <1>4
    <3> QED BY <3>1, <1>1, <1>2
  <2> QED BY <2>1, <2>2 DEF Lexicographic
<1> QED BY <1>3, <1>4

LEMMA LexAsymmetric ==
    ASSUME NEW k \in Nat, NEW a \in [1..k -> Int], NEW b \in [1..k -> Int], Lexicographic(a, b)
    PROVE  ~Lexicographic(b, a)
<1>1. PICK i \in 1..k : a[i] < b[i] /\ \A j \in 1..(i - 1) : a[j] = b[j]
  BY DEF Lexicographic
<1>2. SUFFICES ASSUME NEW i2 \in 1..k, b[i2] < a[i2], \A j \in 1..(i2 - 1) : b[j] = a[j]
               PROVE  FALSE
  BY DEF Lexicographic
<1>3. CASE i = i2
  BY <1>1, <1>2, <1>3
<1>4. CASE i < i2
  <2>1. i \in 1..(i2 - 1)
    BY <1>4
  <2> QED BY <2>1, <1>1, <1>2
<1>5. CASE i2 < i
  <2>1. i2 \in 1..(i - 1)
    BY <1>5
  <2> QED BY <2>1, <1>1, <1>2
<1> QED BY <1>3, <1>4, <1>5

LEMMA LexTotal ==
    ASSUME NEW k \in Nat, NEW a \in [1..k -> Int], NEW b \in [1..k -> Int], a # b
    PROVE  Lexicographic(a, b) \/ Lexicographic(b, a)
<1>1. PICK D : D = {i \in 1..k : a[i] # b[i]}
  OBVIOUS
<1>2. D # {} /\ D \subseteq Nat
  <2>1. ~\A i \in 1..k : a[i] = b[i]
    OBVIOUS
  <2>2. PICK i \in 1..k : a[i] # b[i]
    BY <2>1
  <2>3. i \in D
    BY <1>1, <2>2
  <2>4. D # {}
    BY <2>3
  <2>5. ASSUME NEW j \in D PROVE j \in Nat
    BY <1>1
  <2> QED BY <2>4, <2>5
<1>3. PICK i \in D : \A j \in D : i <= j
  BY <1>2, LeastOf
<1>4. i \in 1..k /\ a[i] # b[i] /\ a[i] \in Int /\ b[i] \in Int
  BY <1>1
<1>5. ASSUME NEW j \in 1..(i - 1) PROVE a[j] = b[j]
  <2>1. j \in 1..k /\ j < i
    BY <1>4
  <2> QED BY <2>1, <1>1, <1>3, <1>4
<1>6. CASE a[i] < b[i]
  BY <1>4, <1>5, <1>6 DEF Lexicographic
<1>7. CASE b[i] < a[i]
  <2>1. \A j \in 1..(i - 1) : b[j] = a[j]
    BY <1>5
  <2> QED BY <1>4, <2>1, <1>7 DEF Lexicographic
<1> QED BY <1>4, <1>6, <1>7

LEMMA GreatestIn ==
    ASSUME NEW n \in Nat, NEW S \in SUBSET (1..n), S # {}, NEW R,
           \A a, b, c \in S : <<a, b>> \in R /\ <<b, c>> \in R => <<a, c>> \in R,
           \A a, b \in S : a # b => <<a, b>> \in R \/ <<b, a>> \in R
    PROVE  \E m \in S : \A x \in S \ {m} : <<x, m>> \in R
<1>1. PICK Bad : Bad = {k \in Nat : \E T \in SUBSET S : /\ T # {} /\ T \subseteq 1..k
                                                        /\ \A m \in T : ~\A x \in T \ {m} : <<x, m>> \in R}
  OBVIOUS
<1>2. SUFFICES ASSUME Bad # {} PROVE FALSE
  <2>1. n \in Bad \/ \E m \in S : \A x \in S \ {m} : <<x, m>> \in R
    BY <1>1
  <2> QED BY <2>1
<1>3. PICK k \in Bad : \A j \in Bad : k <= j
  <2>1. Bad \subseteq Nat
    BY <1>1
  <2> QED BY <1>2, <2>1, LeastOf
<1>4. PICK T \in SUBSET S : /\ T # {} /\ T \subseteq 1..k
                            /\ \A m \in T : ~\A x \in T \ {m} : <<x, m>> \in R
  BY <1>1
<1>5. k \in Nat /\ k # 0
  <2>1. k \in Nat
    BY <1>1
  <2>2. ASSUME k = 0 PROVE FALSE
    <3>1. T \subseteq 1..0
      BY <1>4, <2>2
    <3>2. T = {}
      BY <3>1
    <3> QED BY <3>2, <1>4
  <2> QED BY <2>1, <2>2
<1>6. k - 1 \notin Bad /\ k - 1 \in Nat
  BY <1>3, <1>5
<1>7. k \in T
  <2>1. SUFFICES ASSUME k \notin T PROVE FALSE
    OBVIOUS
  <2>2. ASSUME NEW x \in T PROVE x \in 1..(k - 1)
    <3>1. x \in 1..k /\ x # k
      BY <1>4, <2>1
    <3> QED BY <1>5, <3>1
  <2> QED BY <1>1, <1>4, <1>6, <2>2
<1>8. PICK U : U = T \ {k}
  OBVIOUS
<1>9. U \in SUBSET S /\ U \subseteq 1..(k - 1)
  <2>1. U \in SUBSET S
    BY <1>4, <1>8
  <2>2. ASSUME NEW x \in U PROVE x \in 1..(k - 1)
    <3>1. x \in 1..k /\ x # k
      BY <1>4, <1>8
    <3> QED BY <1>5, <3>1
  <2> QED BY <2>1, <2>2
<1>10. U # {}
  <2>1. SUFFICES ASSUME U = {} PROVE FALSE
    OBVIOUS
  <2>2. T \ {k} = {}
    BY <1>8, <2>1
  <2> QED BY <1>4, <1>7, <2>2
<1>11. PICK m \in U : \A x \in U \ {m} : <<x, m>> \in R
  BY <1>1, <1>6, <1>9, <1>10
<1>12. m \in S /\ k \in S /\ m \in T /\ m # k
  BY <1>4, <1>7, <1>8, <1>11
<1>13. CASE <<k, m>> \in R
  <2>1. \A x \in T \ {m} : <<x, m>> \in R
    BY <1>8, <1>11, <1>13
  <2> QED BY <1>4, <1>12, <2>1
<1>14. CASE <<m, k>> \in R
  <2>1. ASSUME NEW x \in T \ {k} PROVE <<x, k>> \in R
    <3>1. x \in U /\ x \in S
      BY <1>8, <1>9
    <3>2. CASE x = m
      BY <1>14, <3>2
    <3>3. CASE x # m
      <4>1. <<x, m>> \in R
        BY <1>11, <3>1, <3>3
      <4> QED BY <4>1, <1>12, <1>14, <3>1
    <3> QED BY <3>2, <3>3
  <2> QED BY <1>4, <1>7, <2>1
<1> QED BY <1>12, <1>13, <1>14

-----------------------------------------------------------------------------
(* First, Min and Max.                                                     *)

LEMMA LeastIs ==
    ASSUME NEW S, S \subseteq Nat, S # {}
    PROVE  Min(S) \in S /\ \A x \in S : Min(S) <= x
<1>1. \E x \in S : \A y \in S : x <= y
  BY LeastOf
<1> QED BY <1>1 DEF Min

LEMMA MaxIs ==
    ASSUME NEW b \in Nat, NEW S, S \subseteq -1..b, S # {}
    PROVE  Max(S) \in S /\ \A x \in S : x <= Max(S)
<1>1. PICK T : T = {x + 1 : x \in S}
  OBVIOUS
<1>2. T \subseteq 0..(b + 1) /\ T # {} /\ b + 1 \in Nat
  <2>1. ASSUME NEW t \in T PROVE t \in 0..(b + 1)
    <3>1. PICK x \in S : t = x + 1
      BY <1>1
    <3>2. x \in -1..b
      OBVIOUS
    <3> QED BY <3>1, <3>2
  <2>2. T # {}
    BY <1>1
  <2> QED BY <2>1, <2>2
<1>3. PICK t \in T : \A u \in T : u <= t
  BY <1>2, GreatestOf
<1>4. PICK s \in S : t = s + 1
  BY <1>1
<1>5. ASSUME NEW y \in S PROVE s >= y
  <2>1. y + 1 <= t
    BY <1>1, <1>3
  <2> QED BY <2>1, <1>4
<1>6. \E x \in S : \A y \in S : x >= y
  BY <1>5
<1>7. Max(S) \in S /\ \A y \in S : Max(S) >= y
  BY <1>6 DEF Max
<1> QED BY <1>7

LEMMA FirstIs ==
    ASSUME NEW S, S \subseteq Nat \ {0}
    PROVE  /\ S = {} => First(S) = NoId
           /\ S # {} => First(S) \in S /\ First(S) # NoId /\ \A x \in S : First(S) <= x
<1>1. S \subseteq Nat
  OBVIOUS
<1> QED BY <1>1, LeastIs DEF First, NoId

-----------------------------------------------------------------------------
(* Prefixes and suffixes of paths and hosts.                               *)

LEMMA PartIs ==
    ASSUME NEW t \in Seq(Text), NEW m \in 1..(Len(t) + 1), NEW n \in 0..Len(t), m <= n + 1
    PROVE  /\ SubSeq(t, m, n) \in Seq(Text)
           /\ Len(SubSeq(t, m, n)) = n - m + 1
           /\ \A i \in 1..(n - m + 1) : SubSeq(t, m, n)[i] = t[m + i - 1]
<1>1. \A i \in m..n : t[i] \in Text
  OBVIOUS
<1>2. m \in Int /\ n \in Int
  OBVIOUS
<1> QED BY <1>1, <1>2, SubSeqProperties

LEMMA PrefixIs ==
    ASSUME NEW s \in Seq(Text), NEW t \in Seq(Text)
    PROVE  IsPrefix(s, t) <=> Len(s) <= Len(t) /\ s = SubSeq(t, 1, Len(s))
<1>1. SubSeq(s, 1, Len(s)) = s
  BY SubSeqFull
<1> QED BY <1>1 DEF IsPrefix

LEMMA ReverseIs ==
    ASSUME NEW s \in Seq(Text)
    PROVE  /\ Reverse(s) \in Seq(Text) /\ Len(Reverse(s)) = Len(s)
           /\ \A i \in 1..Len(s) : Reverse(s)[i] = s[Len(s) - i + 1]
<1>1. Len(s) \in Nat /\ \A i \in 1..Len(s) : s[Len(s) - i + 1] \in Text
  OBVIOUS
<1>2. PICK f : f = [i \in 1..Len(s) |-> s[(Len(s) - i) + 1]]
  OBVIOUS
<1>3. f \in [1..Len(s) -> Text]
  BY <1>1, <1>2
<1>4. f \in Seq(Text) /\ Len(f) = Len(s)
  <2>1. f \in Seq(Text)
    BY <1>1, <1>3, SeqDef
  <2> QED BY <1>1, <1>2, <2>1
<1> QED BY <1>2, <1>4 DEF Reverse

LEMMA SuffixIs ==
    ASSUME NEW s \in Seq(Text), NEW t \in Seq(Text)
    PROVE  IsSuffix(s, t) <=> Len(s) <= Len(t) /\ s = From(t, Len(t) - Len(s) + 1)
<1>1. PICK rs : rs = Reverse(s)
  OBVIOUS
<1>2. PICK rt : rt = Reverse(t)
  OBVIOUS
<1>3. /\ rs \in Seq(Text) /\ Len(rs) = Len(s) /\ \A i \in 1..Len(s) : rs[i] = s[Len(s) - i + 1]
      /\ rt \in Seq(Text) /\ Len(rt) = Len(t) /\ \A i \in 1..Len(t) : rt[i] = t[Len(t) - i + 1]
  BY <1>1, <1>2, ReverseIs
<1>4. IsSuffix(s, t) <=> Len(rs) <= Len(rt) /\ rs = SubSeq(rt, 1, Len(rs))
  BY <1>1, <1>2, <1>3, PrefixIs DEF IsSuffix
<1>5. SUFFICES ASSUME Len(s) <= Len(t)
               PROVE  rs = SubSeq(rt, 1, Len(s)) <=> s = From(t, Len(t) - Len(s) + 1)
  BY <1>3, <1>4
<1>6. PICK u : u = SubSeq(rt, 1, Len(s))
  OBVIOUS
<1>7. PICK v : v = From(t, Len(t) - Len(s) + 1)
  OBVIOUS
<1>8. Len(s) \in Nat /\ Len(t) \in Nat
  OBVIOUS
<1>9. u \in Seq(Text) /\ Len(u) = Len(s) /\ \A i \in 1..Len(s) : u[i] = rt[i]
  <2>1. /\ 1 \in 1..(Len(rt) + 1) /\ Len(s) \in 0..Len(rt) /\ 1 <= Len(s) + 1
    BY <1>3, <1>5, <1>8
  <2> QED BY <1>3, <1>6, <1>8, <2>1, PartIs
<1>10. v \in Seq(Text) /\ Len(v) = Len(s) /\ \A i \in 1..Len(s) : v[i] = t[Len(t) - Len(s) + i]
  <2>1. /\ Len(t) - Len(s) + 1 \in 1..(Len(t) + 1) /\ Len(t) \in 0..Len(t) /\ Len(t) - Len(s) + 1 <= Len(t) + 1
    BY <1>5, <1>8
  <2>2. v = SubSeq(t, Len(t) - Len(s) + 1, Len(t))
    BY <1>7 DEF From
  <2>3. /\ v \in Seq(Text) /\ Len(v) = Len(t) - (Len(t) - Len(s) + 1) + 1
        /\ \A i \in 1..(Len(t) - (Len(t) - Len(s) + 1) + 1) : v[i] = t[(Len(t) - Len(s) + 1) + i - 1]
    BY <2>1, <2>2, PartIs
  <2>4. Len(t) - (Len(t) - Len(s) + 1) + 1 = Len(s)
    BY <1>8
  <2>5. ASSUME NEW i \in 1..Len(s) PROVE v[i] = t[Len(t) - Len(s) + i]
    <3>1. (Len(t) - Len(s) + 1) + i - 1 = Len(t) - Len(s) + i
      BY <1>8
    <3> QED BY <2>3, <2>4, <3>1
  <2> QED BY <2>3, <2>4, <2>5
<1>11. ASSUME rs = u PROVE s = v
  <2>1. ASSUME NEW i \in 1..Len(s) PROVE s[i] = v[i]
    <3>1. Len(s) - i + 1 \in 1..Len(s) /\ Len(s) - i + 1 \in 1..Len(t)
      BY <1>5, <1>8
    <3>2. rs[Len(s) - i + 1] = s[Len(s) - (Len(s) - i + 1) + 1]
      BY <1>3, <3>1
    <3>3. rt[Len(s) - i + 1] = t[Len(t) - (Len(s) - i + 1) + 1]
      BY <1>3, <3>1
    <3>4. rs[Len(s) - i + 1] = rt[Len(s) - i + 1]
      BY <1>9, <1>11, <3>1
    <3>5. /\ Len(s) - (Len(s) - i + 1) + 1 = i
          /\ Len(t) - (Len(s) - i + 1) + 1 = Len(t) - Len(s) + i
      BY <1>8
    <3> QED BY <3>2, <3>3, <3>4, <3>5, <1>10
  <2> QED BY <2>1, <1>10, SeqEqual
<1>12. ASSUME s = v PROVE rs = u
  <2>1. ASSUME NEW i \in 1..Len(s) PROVE rs[i] = u[i]
    <3>1. Len(s) - i + 1 \in 1..Len(s) /\ i \in 1..Len(t)
      BY <1>5, <1>8
    <3>2. s[Len(s) - i + 1] = t[Len(t) - Len(s) + (Len(s) - i + 1)]
      BY <1>10, <1>12, <3>1
    <3>3. Len(t) - Len(s) + (Len(s) - i + 1) = Len(t) - i + 1
      BY <1>8
    <3> QED BY <3>1, <3>2, <3>3, <1>3, <1>9
  <2> QED BY <2>1, <1>3, <1>9, SeqEqual
<1> QED BY <1>6, <1>7, <1>11, <1>12

LEMMA TrimIs == ASSUME NEW p \in Seq(Text) PROVE TrimSlashes(p) \in Seq(Text)
<1>1. PICK S : S = {0} \cup {i \in DOMAIN p : p[i] # "/"}
  OBVIOUS
<1>2. S \subseteq -1..Len(p) /\ S \subseteq 0..Len(p) /\ S # {} /\ Len(p) \in Nat
  BY <1>1
<1>3. Max(S) \in 0..Len(p)
  BY <1>2, MaxIs
<1>4. 1 \in 1..(Len(p) + 1) /\ 1 <= Max(S) + 1
  BY <1>2, <1>3
<1>5. SubSeq(p, 1, Max(S)) \in Seq(Text)
  BY <1>3, <1>4, PartIs
<1> QED BY <1>1, <1>5 DEF TrimSlashes

(* Where the key of a prefix ends in a path.                               *)
LEMMA KeyEnds ==
    ASSUME NEW key \in Seq(Text), NEW path \in Seq(Text), NEW end \in 0..Len(path), key = SubSeq(path, 1, end)
    PROVE  Len(key) = end
<1>1. 1 \in 1..(Len(path) + 1) /\ 1 <= end + 1
  OBVIOUS
<1> QED BY <1>1, PartIs

LEMMA IngressMatches ==
    ASSUME NEW m, m.kind = "ingress", m.path \in Seq(Text), NEW path \in Seq(Text)
    PROVE  Matches(m, path) <=>
               \/ PathKey(m) = <<>>
               \/ \E end \in 1..Len(path) : PathKey(m) = SubSeq(path, 1, end) /\ AtSlash(path, end)
<1>1. PICK key : key = PathKey(m)
  OBVIOUS
<1>2. key = TrimSlashes(m.path) /\ key \in Seq(Text)
  BY <1>1, TrimIs DEF PathKey
<1>3. Matches(m, path) <=> key = <<>> \/ path = key \/ (IsStrictPrefix(key, path) /\ path[Len(key) + 1] = "/")
  BY <1>2 DEF Matches
<1>4. SubSeq(path, 1, Len(path)) = path
  BY SubSeqFull
<1>5. Len(key) \in Nat /\ Len(path) \in Nat /\ (key # <<>> => Len(key) > 0)
  BY <1>2, EmptySeq
<1>6. ASSUME key # <<>>, path = key PROVE key = SubSeq(path, 1, Len(path)) /\ AtSlash(path, Len(path)) /\ Len(path) \in 1..Len(path)
  BY <1>4, <1>5, <1>6 DEF AtSlash
<1>7. ASSUME key # <<>>, IsStrictPrefix(key, path), path[Len(key) + 1] = "/"
      PROVE  key = SubSeq(path, 1, Len(key)) /\ AtSlash(path, Len(key)) /\ Len(key) \in 1..Len(path)
  <2>1. Len(key) <= Len(path) /\ key = SubSeq(path, 1, Len(key))
    BY <1>2, <1>7, PrefixIs DEF IsStrictPrefix
  <2> QED BY <2>1, <1>5, <1>7 DEF AtSlash
<1>8. ASSUME NEW end \in 1..Len(path), key = SubSeq(path, 1, end), AtSlash(path, end)
      PROVE  path = key \/ (IsStrictPrefix(key, path) /\ path[Len(key) + 1] = "/")
  <2>1. end \in 0..Len(path)
    BY <1>5
  <2>2. Len(key) = end
    BY <2>1, <1>2, <1>8, KeyEnds
  <2>3. IsPrefix(key, path)
    <3>1. Len(key) <= Len(path) /\ key = SubSeq(path, 1, Len(key))
      BY <1>5, <1>8, <2>1, <2>2
    <3> QED BY <1>2, <3>1, PrefixIs
  <2>4. CASE end = Len(path)
    BY <1>4, <1>8, <2>4
  <2>5. CASE end # Len(path)
    <3>1. path[end + 1] = "/"
      BY <1>8, <2>5 DEF AtSlash
    <3> QED BY <3>1, <2>2, <2>3, <2>5 DEF IsStrictPrefix
  <2> QED BY <2>4, <2>5
<1> QED BY <1>1, <1>3, <1>6, <1>7, <1>8

-----------------------------------------------------------------------------
(* The paths of a virtual host.  The routes the index looks up at an end   *)
(* of a prefix are those that match there, in the order of the scan.       *)

Kinds == {"exact", "nginx", "ingress", "default"}
AreRoutes(routes) == IsList(routes) /\ \A r \in DOMAIN routes : IsMatcher(routes[r], Kinds)
IsPath(path) == path \in Seq(Text) /\ (path # <<>> => path[1] = "/")

LEMMA RouteKeys ==
    ASSUME NEW routes, AreRoutes(routes), NEW r \in DOMAIN routes
    PROVE  PathKey(routes[r]) \in Seq(Text) /\ Len(PathKey(routes[r])) \in Nat /\ r \in Nat /\ r # 0
<1>1. routes[r].path \in Seq(Text) /\ r \in Nat /\ r # 0
  BY DEF AreRoutes, IsList, IsMatcher
<1>2. PathKey(routes[r]) \in Seq(Text)
  BY <1>1, TrimIs DEF PathKey
<1> QED BY <1>1, <1>2

LEMMA KeyedPathIs ==
    ASSUME NEW routes, AreRoutes(routes), NEW kind, NEW key
    PROVE  LET ids == {r \in DOMAIN routes : routes[r].kind = kind /\ PathKey(routes[r]) = key}
           IN  /\ KeyedPath(routes, kind, key) = NoId => ids = {}
               /\ KeyedPath(routes, kind, key) # NoId =>
                      /\ KeyedPath(routes, kind, key) \in ids
                      /\ \A x \in ids : KeyedPath(routes, kind, key) <= x
<1>1. PICK ids : ids = {r \in DOMAIN routes : routes[r].kind = kind /\ PathKey(routes[r]) = key}
  OBVIOUS
<1>2. ids \subseteq Nat \ {0}
  BY <1>1, RouteKeys
<1>3. KeyedPath(routes, kind, key) = First(ids)
  BY <1>1 DEF KeyedPath
<1> QED BY <1>1, <1>2, <1>3, FirstIs

(* Where a prefix route matches, it is looked up.                          *)
Prefix(routes, r, path, end) ==
    /\ routes[r].kind \in {"nginx", "ingress"} /\ PathKey(routes[r]) = SubSeq(path, 1, end)
    /\ routes[r].kind = "ingress" => AtSlash(path, end)

LEMMA PrefixMatches ==
    ASSUME NEW routes, AreRoutes(routes), NEW path, IsPath(path), NEW r \in DOMAIN routes,
           routes[r].kind \in {"nginx", "ingress"}
    PROVE  Matches(routes[r], path) <=> \E end \in 0..Len(path) : Prefix(routes, r, path, end)
<1>1. /\ path \in Seq(Text) /\ Len(path) \in Nat /\ routes[r].path \in Seq(Text)
      /\ PathKey(routes[r]) \in Seq(Text) /\ Len(PathKey(routes[r])) \in Nat
  BY RouteKeys DEF AreRoutes, IsMatcher, IsPath
<1>2. CASE routes[r].kind = "nginx"
  <2>1. PathKey(routes[r]) = routes[r].path
    BY <1>2 DEF PathKey
  <2>2. Matches(routes[r], path) <=> Len(routes[r].path) <= Len(path) /\ routes[r].path = SubSeq(path, 1, Len(routes[r].path))
    BY <1>1, <1>2, PrefixIs DEF Matches
  <2>3. ASSUME NEW end \in 0..Len(path), PathKey(routes[r]) = SubSeq(path, 1, end)
        PROVE  Len(routes[r].path) = end
    BY <1>1, <2>1, <2>3, KeyEnds
  <2>4. ASSUME Matches(routes[r], path) PROVE \E end \in 0..Len(path) : Prefix(routes, r, path, end)
    <3>1. Len(routes[r].path) \in 0..Len(path) /\ PathKey(routes[r]) = SubSeq(path, 1, Len(routes[r].path))
      BY <1>1, <2>1, <2>2, <2>4
    <3> QED BY <3>1, <1>2 DEF Prefix
  <2>5. ASSUME NEW end \in 0..Len(path), Prefix(routes, r, path, end) PROVE Matches(routes[r], path)
    <3>1. PathKey(routes[r]) = SubSeq(path, 1, end)
      BY <2>5 DEF Prefix
    <3>2. Len(routes[r].path) = end
      BY <2>3, <3>1
    <3> QED BY <1>1, <2>1, <2>2, <3>1, <3>2
  <2> QED BY <2>4, <2>5
<1>3. CASE routes[r].kind = "ingress"
  <2>1. Matches(routes[r], path) <=>
            \/ PathKey(routes[r]) = <<>>
            \/ \E end \in 1..Len(path) : PathKey(routes[r]) = SubSeq(path, 1, end) /\ AtSlash(path, end)
    BY <1>1, <1>3, IngressMatches
  <2>2. SubSeq(path, 1, 0) = <<>>
    BY SubSeqEmpty
  <2>3. AtSlash(path, 0)
    <3>1. CASE path = <<>>
      BY <3>1 DEF AtSlash
    <3>2. CASE path # <<>>
      BY <3>2 DEF AtSlash, IsPath
    <3> QED BY <3>1, <3>2
  <2>4. ASSUME Matches(routes[r], path) PROVE \E end \in 0..Len(path) : Prefix(routes, r, path, end)
    <3>1. CASE PathKey(routes[r]) = <<>>
      BY <1>1, <1>3, <2>2, <2>3, <3>1 DEF Prefix
    <3>2. CASE PathKey(routes[r]) # <<>>
      <4>1. PICK end \in 1..Len(path) : PathKey(routes[r]) = SubSeq(path, 1, end) /\ AtSlash(path, end)
        BY <2>1, <2>4, <3>2
      <4>2. end \in 0..Len(path)
        BY <1>1
      <4> QED BY <4>1, <4>2, <1>3 DEF Prefix
    <3> QED BY <3>1, <3>2
  <2>5. ASSUME NEW end \in 0..Len(path), Prefix(routes, r, path, end) PROVE Matches(routes[r], path)
    <3>1. PathKey(routes[r]) = SubSeq(path, 1, end) /\ AtSlash(path, end)
      BY <2>5, <1>3 DEF Prefix
    <3>2. CASE end = 0
      BY <2>1, <2>2, <3>1, <3>2
    <3>3. CASE end # 0
      <4>1. end \in 1..Len(path)
        BY <1>1, <3>3
      <4> QED BY <2>1, <3>1, <4>1
    <3> QED BY <3>2, <3>3
  <2> QED BY <2>4, <2>5
<1> QED BY <1>2, <1>3

LEMMA AtEndIs ==
    ASSUME NEW routes, AreRoutes(routes), NEW path, IsPath(path), NEW end \in 0..Len(path)
    PROVE  LET id == AtEnd(routes, path, end)
           IN  /\ id = NoId => \A r \in DOMAIN routes : ~Prefix(routes, r, path, end)
               /\ id # NoId =>
                      /\ id \in DOMAIN routes /\ Prefix(routes, id, path, end)
                      /\ \A r \in DOMAIN routes : Prefix(routes, r, path, end) =>
                             \/ routes[id].kind = "nginx" /\ routes[r].kind = "ingress"
                             \/ routes[id].kind = routes[r].kind /\ id <= r
<1>1. PICK key : key = SubSeq(path, 1, end)
  OBVIOUS
<1>2. PICK n : n = KeyedPath(routes, "nginx", key)
  OBVIOUS
<1>3. PICK g : g = KeyedPath(routes, "ingress", key)
  OBVIOUS
<1>4. AtEnd(routes, path, end) = IF n # NoId THEN n ELSE IF AtSlash(path, end) THEN g ELSE NoId
  BY <1>1, <1>2, <1>3 DEF AtEnd
<1>5. /\ n = NoId => \A r \in DOMAIN routes : ~(routes[r].kind = "nginx" /\ PathKey(routes[r]) = key)
      /\ n # NoId => /\ n \in DOMAIN routes /\ routes[n].kind = "nginx" /\ PathKey(routes[n]) = key
                     /\ \A r \in DOMAIN routes : routes[r].kind = "nginx" /\ PathKey(routes[r]) = key => n <= r
  BY <1>2, KeyedPathIs
<1>6. /\ g = NoId => \A r \in DOMAIN routes : ~(routes[r].kind = "ingress" /\ PathKey(routes[r]) = key)
      /\ g # NoId => /\ g \in DOMAIN routes /\ routes[g].kind = "ingress" /\ PathKey(routes[g]) = key
                     /\ \A r \in DOMAIN routes : routes[r].kind = "ingress" /\ PathKey(routes[r]) = key => g <= r
  BY <1>3, KeyedPathIs
<1>7. CASE n # NoId
  BY <1>1, <1>4, <1>5, <1>7 DEF Prefix
<1>8. CASE n = NoId /\ AtSlash(path, end)
  BY <1>1, <1>4, <1>5, <1>6, <1>8 DEF Prefix
<1>9. CASE n = NoId /\ ~AtSlash(path, end)
  BY <1>1, <1>4, <1>5, <1>9 DEF Prefix
<1> QED BY <1>7, <1>8, <1>9

LEMMA EndsAreTried ==
    ASSUME NEW routes, AreRoutes(routes), NEW path, IsPath(path)
    PROVE  /\ PrefixEnds(routes, path) \subseteq 0..Len(path)
           /\ \A end \in 0..Len(path), r \in DOMAIN routes :
                 Prefix(routes, r, path, end) => end \in PrefixEnds(routes, path) /\ Len(PathKey(routes[r])) = end
<1>1. PICK prefixed : prefixed = {x \in DOMAIN routes : routes[x].kind \in {"nginx", "ingress"}}
  OBVIOUS
<1>2. PICK lengths : lengths = {Len(PathKey(routes[r])) : r \in prefixed}
  OBVIOUS
<1>3. PrefixEnds(routes, path) = IF Cardinality(lengths) <= Len(path) THEN {end \in lengths : end <= Len(path)} ELSE 0..Len(path)
  BY <1>1, <1>2 DEF PrefixEnds
<1>4. path \in Seq(Text) /\ Len(path) \in Nat
  BY DEF IsPath
<1>5. ASSUME NEW end \in lengths PROVE end \in Nat
  <2>1. PICK r \in prefixed : end = Len(PathKey(routes[r]))
    BY <1>2
  <2> QED BY <1>1, <2>1, RouteKeys
<1>6. PrefixEnds(routes, path) \subseteq 0..Len(path)
  BY <1>3, <1>4, <1>5
<1>7. ASSUME NEW end \in 0..Len(path), NEW r \in DOMAIN routes, Prefix(routes, r, path, end)
      PROVE  end \in PrefixEnds(routes, path) /\ Len(PathKey(routes[r])) = end
  <2>1. PathKey(routes[r]) = SubSeq(path, 1, end) /\ r \in prefixed
    BY <1>1, <1>7 DEF Prefix
  <2>2. Len(PathKey(routes[r])) = end
    BY <1>4, <2>1, RouteKeys, KeyEnds
  <2>3. end \in lengths
    BY <1>2, <2>1, <2>2
  <2> QED BY <1>3, <1>4, <2>2, <2>3
<1> QED BY <1>6, <1>7

Class(m) == IF m.kind = "exact" THEN 2 ELSE IF m.kind = "default" THEN 0 ELSE 1
IsNginx(m) == IF m.kind = "nginx" THEN 1 ELSE 0

LEMMA PathOrderIs ==
    ASSUME NEW routes, AreRoutes(routes), NEW r \in DOMAIN routes
    PROVE  /\ PathOrder(routes, r) \in [1..4 -> Int]
           /\ PathOrder(routes, r) = <<Class(routes[r]), Len(PathKey(routes[r])), IsNginx(routes[r]), -r>>
<1>1. PICK o : o = <<Class(routes[r]), Len(PathKey(routes[r])), IsNginx(routes[r]), -r>>
  OBVIOUS
<1>2. routes[r].kind \in Kinds
  BY DEF AreRoutes, IsMatcher
<1>3. PathOrder(routes, r) = o
  BY <1>1, <1>2 DEF PathOrder, PathKey, Class, IsNginx, Kinds
<1>4. Class(routes[r]) \in Int /\ Len(PathKey(routes[r])) \in Int /\ IsNginx(routes[r]) \in Int /\ -r \in Int
  BY RouteKeys DEF Class, IsNginx
<1>5. DOMAIN o = 1..4 /\ o[1] \in Int /\ o[2] \in Int /\ o[3] \in Int /\ o[4] \in Int
  BY <1>1, <1>4
<1>6. o = [i \in 1..4 |-> o[i]]
  BY <1>1
<1>7. \A i \in 1..4 : o[i] \in Int
  BY <1>5
<1>8. o \in [1..4 -> Int]
  BY <1>6, <1>7
<1> QED BY <1>1, <1>3, <1>8

LEMMA LexOfFour ==
    ASSUME NEW a1 \in Int, NEW a2 \in Int, NEW a3 \in Int, NEW a4 \in Int,
           NEW b1 \in Int, NEW b2 \in Int, NEW b3 \in Int, NEW b4 \in Int,
           \/ a1 < b1
           \/ a1 = b1 /\ a2 < b2
           \/ a1 = b1 /\ a2 = b2 /\ a3 < b3
           \/ a1 = b1 /\ a2 = b2 /\ a3 = b3 /\ a4 < b4
    PROVE  Lexicographic(<<a1, a2, a3, a4>>, <<b1, b2, b3, b4>>)
<1>1. PICK a : a = <<a1, a2, a3, a4>>
  OBVIOUS
<1>2. PICK b : b = <<b1, b2, b3, b4>>
  OBVIOUS
<1>3. /\ DOMAIN a = 1..4 /\ a[1] = a1 /\ a[2] = a2 /\ a[3] = a3 /\ a[4] = a4
      /\ b[1] = b1 /\ b[2] = b2 /\ b[3] = b3 /\ b[4] = b4
  BY <1>1, <1>2
<1>4. Lexicographic(a, b) <=> \E i \in 1..4 : a[i] < b[i] /\ \A j \in 1..(i - 1) : a[j] = b[j]
  BY <1>3 DEF Lexicographic
<1>5. CASE a1 < b1
  <2>1. 1 \in 1..4 /\ a[1] < b[1] /\ \A j \in 1..(1 - 1) : a[j] = b[j]
    BY <1>3, <1>5
  <2> QED BY <1>1, <1>2, <1>4, <2>1
<1>6. CASE a1 = b1 /\ a2 < b2
  <2>1. 2 \in 1..4 /\ a[2] < b[2] /\ \A j \in 1..(2 - 1) : a[j] = b[j]
    BY <1>3, <1>6
  <2> QED BY <1>1, <1>2, <1>4, <2>1
<1>7. CASE a1 = b1 /\ a2 = b2 /\ a3 < b3
  <2>1. \A j \in 1..(3 - 1) : j = 1 \/ j = 2
    OBVIOUS
  <2>2. 3 \in 1..4 /\ a[3] < b[3] /\ \A j \in 1..(3 - 1) : a[j] = b[j]
    BY <1>3, <1>7, <2>1
  <2> QED BY <1>1, <1>2, <1>4, <2>2
<1>8. CASE a1 = b1 /\ a2 = b2 /\ a3 = b3 /\ a4 < b4
  <2>1. \A j \in 1..(4 - 1) : j = 1 \/ j = 2 \/ j = 3
    OBVIOUS
  <2>2. 4 \in 1..4 /\ a[4] < b[4] /\ \A j \in 1..(4 - 1) : a[j] = b[j]
    BY <1>3, <1>8, <2>1
  <2> QED BY <1>1, <1>2, <1>4, <2>2
<1> QED BY <1>5, <1>6, <1>7, <1>8

LEMMA PathLess ==
    ASSUME NEW routes, AreRoutes(routes), NEW x \in DOMAIN routes, NEW r \in DOMAIN routes,
           \/ Class(routes[x]) < Class(routes[r])
           \/ /\ Class(routes[x]) = Class(routes[r])
              /\ \/ Len(PathKey(routes[x])) < Len(PathKey(routes[r]))
                 \/ /\ Len(PathKey(routes[x])) = Len(PathKey(routes[r]))
                    /\ \/ IsNginx(routes[x]) < IsNginx(routes[r])
                       \/ IsNginx(routes[x]) = IsNginx(routes[r]) /\ r < x
    PROVE  Lexicographic(PathOrder(routes, x), PathOrder(routes, r))
<1>1. \A y \in {x, r} : /\ Class(routes[y]) \in Int /\ Len(PathKey(routes[y])) \in Int
                        /\ IsNginx(routes[y]) \in Int /\ -y \in Int /\ y \in Nat
  BY RouteKeys DEF Class, IsNginx
<1>2. r < x => -x < -r
  BY <1>1
<1>3. Lexicographic(<<Class(routes[x]), Len(PathKey(routes[x])), IsNginx(routes[x]), -x>>,
                    <<Class(routes[r]), Len(PathKey(routes[r])), IsNginx(routes[r]), -r>>)
  BY <1>1, <1>2, LexOfFour
<1> QED BY <1>3, PathOrderIs

Wins(routes, path, r) ==
    /\ r \in DOMAIN routes /\ Matches(routes[r], path)
    /\ \A x \in DOMAIN routes : Matches(routes[x], path) /\ x # r =>
          Lexicographic(PathOrder(routes, x), PathOrder(routes, r))

LEMMA BestPathIs ==
    ASSUME NEW routes, AreRoutes(routes), NEW path
    PROVE  /\ (\A r \in DOMAIN routes : ~Matches(routes[r], path)) => BestPath(routes, path) = NoId
           /\ \A r : Wins(routes, path, r) => BestPath(routes, path) = r
<1>1. PICK fit : fit = {r \in DOMAIN routes : Matches(routes[r], path)}
  OBVIOUS
<1>2. BestPath(routes, path) = IF fit = {} THEN NoId
            ELSE CHOOSE r \in fit : \A x \in fit \ {r} : Lexicographic(PathOrder(routes, x), PathOrder(routes, r))
  BY <1>1 DEF BestPath
<1>3. ASSUME NEW r, Wins(routes, path, r) PROVE BestPath(routes, path) = r
  <2>1. r \in fit /\ \A x \in fit \ {r} : Lexicographic(PathOrder(routes, x), PathOrder(routes, r))
    BY <1>1, <1>3 DEF Wins
  <2>2. ASSUME NEW s \in fit, \A x \in fit \ {s} : Lexicographic(PathOrder(routes, x), PathOrder(routes, s))
        PROVE  s = r
    <3>1. SUFFICES ASSUME s # r PROVE FALSE
      OBVIOUS
    <3>2. PathOrder(routes, r) \in [1..4 -> Int] /\ PathOrder(routes, s) \in [1..4 -> Int]
      BY <1>1, <2>1, PathOrderIs
    <3>3. Lexicographic(PathOrder(routes, r), PathOrder(routes, s)) /\ Lexicographic(PathOrder(routes, s), PathOrder(routes, r))
      BY <2>1, <2>2, <3>1
    <3> QED BY <3>2, <3>3, LexAsymmetric
  <2> QED BY <1>2, <2>1, <2>2
<1>4. ASSUME \A r \in DOMAIN routes : ~Matches(routes[r], path) PROVE BestPath(routes, path) = NoId
  BY <1>1, <1>2, <1>4
<1> QED BY <1>3, <1>4

(* The index of the paths of a virtual host answers as the scan.           *)
LEMMA SelectPathIsBest ==
    ASSUME NEW routes, AreRoutes(routes), NEW path, IsPath(path)
    PROVE  /\ SelectPath(routes, path) = BestPath(routes, path)
           /\ BestPath(routes, path) # NoId => BestPath(routes, path) \in DOMAIN routes
<1>1. PICK e : e = KeyedPath(routes, "exact", path)
  OBVIOUS
<1>2. PICK hits : hits = {end \in PrefixEnds(routes, path) : AtEnd(routes, path, end) # NoId}
  OBVIOUS
<1>3. PICK defaults : defaults = {r \in DOMAIN routes : routes[r].kind = "default"}
  OBVIOUS
<1>4. SelectPath(routes, path) = IF e # NoId THEN e ELSE IF hits # {} THEN AtEnd(routes, path, Max(hits)) ELSE First(defaults)
  BY <1>1, <1>2, <1>3 DEF SelectPath
<1>5. path \in Seq(Text) /\ Len(path) \in Nat
  BY DEF IsPath
<1>6. ASSUME NEW r \in DOMAIN routes
      PROVE  /\ routes[r].kind \in Kinds /\ routes[r].path \in Seq(Text) /\ r \in Nat /\ r # 0
             /\ Len(PathKey(routes[r])) \in Nat
             /\ routes[r].kind = "default" => routes[r].path = <<>>
  BY RouteKeys DEF AreRoutes, IsMatcher
<1>7. ASSUME NEW r \in DOMAIN routes, routes[r].kind = "exact"
      PROVE  /\ Matches(routes[r], path) <=> PathKey(routes[r]) = path
             /\ Class(routes[r]) = 2 /\ IsNginx(routes[r]) = 0
  BY <1>7 DEF Matches, PathKey, Class, IsNginx
<1>8. ASSUME NEW r \in DOMAIN routes, routes[r].kind = "default"
      PROVE  /\ Matches(routes[r], path) /\ Class(routes[r]) = 0 /\ IsNginx(routes[r]) = 0
             /\ Len(PathKey(routes[r])) = 0
  BY <1>6, <1>8 DEF Matches, PathKey, Class, IsNginx
<1>9. ASSUME NEW r \in DOMAIN routes, routes[r].kind \in {"nginx", "ingress"}
      PROVE  /\ Class(routes[r]) = 1
             /\ routes[r].kind = "nginx" => IsNginx(routes[r]) = 1
             /\ routes[r].kind = "ingress" => IsNginx(routes[r]) = 0
  BY <1>9 DEF Class, IsNginx
<1>10. /\ e = NoId => \A r \in DOMAIN routes : ~(routes[r].kind = "exact" /\ PathKey(routes[r]) = path)
       /\ e # NoId => /\ e \in DOMAIN routes /\ routes[e].kind = "exact" /\ PathKey(routes[e]) = path
                      /\ \A r \in DOMAIN routes : routes[r].kind = "exact" /\ PathKey(routes[r]) = path => e <= r
  BY <1>1, KeyedPathIs
<1>11. CASE e # NoId
  <2>1. ASSUME NEW x \in DOMAIN routes, Matches(routes[x], path), x # e
        PROVE  Lexicographic(PathOrder(routes, x), PathOrder(routes, e))
    <3>1. e \in DOMAIN routes /\ Class(routes[e]) = 2 /\ IsNginx(routes[e]) = 0 /\ PathKey(routes[e]) = path
      BY <1>7, <1>10, <1>11
    <3>2. CASE routes[x].kind = "exact"
      <4>1. PathKey(routes[x]) = path /\ e <= x /\ Class(routes[x]) = 2 /\ IsNginx(routes[x]) = 0
        BY <1>7, <1>10, <1>11, <2>1, <3>2
      <4>2. e < x
        BY <1>6, <2>1, <3>1, <4>1
      <4> QED BY <3>1, <4>1, <4>2, PathLess
    <3>3. CASE routes[x].kind # "exact"
      <4>1. Class(routes[x]) < Class(routes[e])
        BY <3>1, <3>3 DEF Class
      <4> QED BY <3>1, <4>1, PathLess
    <3> QED BY <3>2, <3>3
  <2>2. Wins(routes, path, e)
    BY <1>7, <1>10, <1>11, <2>1 DEF Wins
  <2> QED BY <1>4, <1>10, <1>11, <2>2, BestPathIs
<1>12. CASE e = NoId /\ hits # {}
  <2>1. hits \subseteq 0..Len(path) /\ hits \subseteq -1..Len(path)
    BY <1>2, <1>5, EndsAreTried
  <2>2. PICK end : end = Max(hits)
    OBVIOUS
  <2>3. end \in hits /\ end \in 0..Len(path) /\ \A y \in hits : y <= end
    BY <1>5, <1>12, <2>1, <2>2, MaxIs
  <2>4. PICK s : s = AtEnd(routes, path, end)
    OBVIOUS
  <2>5. /\ s # NoId /\ s \in DOMAIN routes /\ Prefix(routes, s, path, end)
        /\ \A r \in DOMAIN routes : Prefix(routes, r, path, end) =>
                             \/ routes[s].kind = "nginx" /\ routes[r].kind = "ingress"
                             \/ routes[s].kind = routes[r].kind /\ s <= r
    BY <1>2, <2>3, <2>4, AtEndIs
  <2>6. routes[s].kind \in {"nginx", "ingress"} /\ Len(PathKey(routes[s])) = end /\ Matches(routes[s], path)
    <3>1. routes[s].kind \in {"nginx", "ingress"}
      BY <2>5 DEF Prefix
    <3>2. Len(PathKey(routes[s])) = end
      BY <2>3, <2>5, EndsAreTried
    <3>3. Matches(routes[s], path)
      BY <2>3, <2>5, <3>1, PrefixMatches
    <3> QED BY <3>1, <3>2, <3>3
  <2>7. ASSUME NEW x \in DOMAIN routes, Matches(routes[x], path), x # s
        PROVE  Lexicographic(PathOrder(routes, x), PathOrder(routes, s))
    <3>1. routes[x].kind # "exact"
      BY <1>7, <1>10, <1>12, <2>7
    <3>2. CASE routes[x].kind = "default"
      BY <1>8, <1>9, <2>5, <2>6, <3>2, PathLess
    <3>3. CASE routes[x].kind \in {"nginx", "ingress"}
      <4>1. PICK end2 \in 0..Len(path) : Prefix(routes, x, path, end2)
        BY <2>7, <3>3, PrefixMatches
      <4>2. end2 \in PrefixEnds(routes, path) /\ Len(PathKey(routes[x])) = end2
        BY <4>1, EndsAreTried
      <4>3. AtEnd(routes, path, end2) # NoId
        BY <4>1, AtEndIs
      <4>4. end2 <= end
        BY <1>2, <2>3, <4>2, <4>3
      <4>5. Class(routes[x]) = 1 /\ Class(routes[s]) = 1
        BY <1>9, <2>5, <2>6, <3>3
      <4>6. CASE end2 < end
        <5>1. Len(PathKey(routes[x])) < Len(PathKey(routes[s]))
          BY <2>6, <4>2, <4>6
        <5> QED BY <5>1, <2>5, <4>5, PathLess
      <4>7. CASE end2 = end
        <5>1. Len(PathKey(routes[x])) = Len(PathKey(routes[s]))
          BY <2>6, <4>2, <4>7
        <5>2. CASE routes[s].kind = "nginx" /\ routes[x].kind = "ingress"
          <6>1. IsNginx(routes[x]) < IsNginx(routes[s])
            BY <1>9, <2>5, <5>2
          <6> QED BY <6>1, <5>1, <2>5, <4>5, PathLess
        <5>3. CASE routes[s].kind = routes[x].kind /\ s <= x
          <6>1. IsNginx(routes[x]) = IsNginx(routes[s])
            BY <5>3 DEF IsNginx
          <6>2. s < x
            BY <1>6, <2>5, <2>7, <5>3
          <6> QED BY <6>1, <6>2, <5>1, <2>5, <4>5, PathLess
        <5> QED BY <2>5, <4>1, <4>7, <5>2, <5>3
      <4> QED BY <2>3, <4>4, <4>6, <4>7
    <3> QED BY <1>6, <3>1, <3>2, <3>3 DEF Kinds
  <2>8. Wins(routes, path, s)
    BY <2>5, <2>6, <2>7 DEF Wins
  <2> QED BY <1>4, <1>12, <2>2, <2>4, <2>5, <2>8, BestPathIs
<1>13. CASE e = NoId /\ hits = {}
  <2>1. ASSUME NEW x \in DOMAIN routes, Matches(routes[x], path) PROVE routes[x].kind = "default"
    <3>1. routes[x].kind # "exact"
      BY <1>7, <1>10, <1>13, <2>1
    <3>2. ASSUME routes[x].kind \in {"nginx", "ingress"} PROVE FALSE
      <4>1. PICK end2 \in 0..Len(path) : Prefix(routes, x, path, end2)
        BY <2>1, <3>2, PrefixMatches
      <4>2. end2 \in PrefixEnds(routes, path)
        BY <4>1, EndsAreTried
      <4>3. AtEnd(routes, path, end2) # NoId
        BY <4>1, AtEndIs
      <4> QED BY <1>2, <1>13, <4>2, <4>3
    <3> QED BY <1>6, <3>1, <3>2 DEF Kinds
  <2>2. defaults \subseteq Nat \ {0}
    BY <1>3, <1>6
  <2>3. PICK d : d = First(defaults)
    OBVIOUS
  <2>4. CASE defaults = {}
    <3>1. \A r \in DOMAIN routes : ~Matches(routes[r], path)
      BY <1>3, <2>1, <2>4
    <3>2. BestPath(routes, path) = NoId
      BY <3>1, BestPathIs
    <3>3. First(defaults) = NoId
      BY <2>2, <2>4, FirstIs
    <3> QED BY <1>4, <1>13, <3>2, <3>3
  <2>5. CASE defaults # {}
    <3>1. d \in defaults /\ \A x \in defaults : d <= x
      BY <2>2, <2>3, <2>5, FirstIs
    <3>2. d \in DOMAIN routes /\ routes[d].kind = "default"
      BY <1>3, <3>1
    <3>3. ASSUME NEW x \in DOMAIN routes, Matches(routes[x], path), x # d
          PROVE  Lexicographic(PathOrder(routes, x), PathOrder(routes, d))
      <4>1. routes[x].kind = "default"
        BY <2>1, <3>3
      <4>2. d < x
        BY <1>3, <1>6, <3>1, <3>2, <3>3, <4>1
      <4> QED BY <1>8, <3>2, <4>1, <4>2, PathLess
    <3>4. Wins(routes, path, d)
      BY <1>8, <3>2, <3>3 DEF Wins
    <3> QED BY <1>4, <1>13, <2>3, <3>2, <3>4, BestPathIs
  <2> QED BY <2>4, <2>5
<1> QED BY <1>11, <1>12, <1>13

-----------------------------------------------------------------------------
(* The virtual host.  The rank of a pattern says at which of the index's   *)
(* lookups it would be found.                                              *)

ExactName(host) == [wild |-> FALSE, labels |-> host]
SuffixName(host, dot) == [wild |-> TRUE, labels |-> From(host, dot + 1)]
IsHost(host) == host \in Seq(Text) /\ Len(host) < ExactRank

LEMMA FromIs ==
    ASSUME NEW host, IsHost(host), NEW n \in 1..(Len(host) + 1)
    PROVE  From(host, n) \in Seq(Text) /\ Len(From(host, n)) = Len(host) - n + 1 /\ Len(host) \in Nat
<1>1. host \in Seq(Text) /\ Len(host) \in Nat
  BY DEF IsHost
<1>2. Len(host) \in 0..Len(host) /\ n <= Len(host) + 1
  BY <1>1
<1> QED BY <1>1, <1>2, PartIs DEF From

LEMMA PatternIs ==
    ASSUME NEW p, IsPattern(p)
    PROVE  /\ p = [wild |-> p.wild, labels |-> p.labels] /\ p.wild \in BOOLEAN /\ p.labels \in Seq(Text)
           /\ Len(p.labels) \in Nat /\ (p.wild => Len(p.labels) # 0)
<1>1. p \in [wild : BOOLEAN, labels : Seq(Text)] /\ (p.wild => p.labels # <<>>)
  BY DEF IsPattern
<1>2. p.wild \in BOOLEAN /\ p.labels \in Seq(Text) /\ p = [wild |-> p.wild, labels |-> p.labels]
  BY <1>1
<1>3. p.labels # <<>> => Len(p.labels) # 0
  BY <1>2, EmptySeq
<1> QED BY <1>1, <1>2, <1>3

(* A wildcard covers a host if it is what some suffix is looked up under.  *)
LEMMA CoversIs ==
    ASSUME NEW p, IsPattern(p), NEW host, IsHost(host)
    PROVE  /\ Covers(p, host) => /\ Len(host) - Len(p.labels) \in 1..(Len(host) - 1)
                                 /\ p = SuffixName(host, Len(host) - Len(p.labels))
           /\ \A dot \in 1..(Len(host) - 1) : p = SuffixName(host, dot) =>
                 Covers(p, host) /\ Len(p.labels) = Len(host) - dot
<1>1. /\ p = [wild |-> p.wild, labels |-> p.labels] /\ p.labels \in Seq(Text) /\ Len(p.labels) \in Nat
      /\ (p.wild => Len(p.labels) # 0)
  BY PatternIs
<1>2. host \in Seq(Text) /\ Len(host) \in Nat
  BY DEF IsHost
<1>3. ASSUME Covers(p, host)
      PROVE  /\ Len(host) - Len(p.labels) \in 1..(Len(host) - 1)
             /\ p = SuffixName(host, Len(host) - Len(p.labels))
  <2>1. p.wild /\ Len(host) > Len(p.labels) /\ IsSuffix(p.labels, host)
    BY <1>3 DEF Covers
  <2>2. p.labels = From(host, Len(host) - Len(p.labels) + 1)
    BY <1>1, <1>2, <2>1, SuffixIs
  <2>3. p.wild = TRUE
    BY <2>1, PatternIs
  <2> QED BY <1>1, <1>2, <2>1, <2>2, <2>3 DEF SuffixName
<1>4. ASSUME NEW dot \in 1..(Len(host) - 1), p = SuffixName(host, dot)
      PROVE  Covers(p, host) /\ Len(p.labels) = Len(host) - dot
  <2>1. p.wild /\ p.labels = From(host, dot + 1)
    BY <1>4 DEF SuffixName
  <2>2. dot + 1 \in 1..(Len(host) + 1)
    BY <1>2
  <2>3. Len(p.labels) = Len(host) - (dot + 1) + 1
    BY <2>1, <2>2, FromIs
  <2>4. Len(p.labels) = Len(host) - dot /\ Len(host) > Len(p.labels)
    BY <1>2, <2>3
  <2>5. Len(host) - Len(p.labels) + 1 = dot + 1
    BY <1>2, <2>4
  <2>6. IsSuffix(p.labels, host)
    BY <1>1, <1>2, <2>1, <2>4, <2>5, SuffixIs
  <2> QED BY <2>1, <2>4, <2>6 DEF Covers
<1> QED BY <1>3, <1>4

LEMMA HostRankIs ==
    ASSUME NEW p, IsPattern(p), NEW host, IsHost(host), NEW ing \in BOOLEAN
    PROVE  LET rank == HostRank(p, host, ing)
           IN  /\ rank \in -1..ExactRank /\ ExactRank \in Nat
               /\ rank = ExactRank <=> p = ExactName(host)
               /\ rank = 0 <=> p = AnyHost /\ ing /\ host # <<>>
               /\ \A dot \in 1..(Len(host) - 1) :
                     rank = Len(host) - dot + 1 <=> p = SuffixName(host, dot) /\ (~ing \/ dot = 1)
               /\ rank \in {-1, 0, ExactRank} \/ \E dot \in 1..(Len(host) - 1) : rank = Len(host) - dot + 1
<1>1. /\ p = [wild |-> p.wild, labels |-> p.labels] /\ p.labels \in Seq(Text) /\ Len(p.labels) \in Nat
      /\ p.wild \in BOOLEAN /\ (p.wild => Len(p.labels) # 0)
  BY PatternIs
<1>2. host \in Seq(Text) /\ Len(host) \in Nat /\ Len(host) < ExactRank /\ ExactRank \in Nat
  BY DEF IsHost, ExactRank
<1>3. PICK rank : rank = HostRank(p, host, ing)
  OBVIOUS
<1>4. rank = IF ~p.wild /\ p.labels = host THEN ExactRank
             ELSE IF p = AnyHost /\ ing THEN 0
             ELSE IF Covers(p, host) /\ (~ing \/ Len(host) = Len(p.labels) + 1)
             THEN Len(p.labels) + 1 ELSE -1
  BY <1>3 DEF HostRank
<1>5. (~p.wild /\ p.labels = host) <=> p = ExactName(host)
  BY <1>1 DEF ExactName
<1>6. p = AnyHost => ~p.wild /\ p.labels = <<>>
  BY DEF AnyHost
<1>7. \A dot : p = SuffixName(host, dot) => p.wild
  BY DEF SuffixName
<1>8. Covers(p, host) => p.wild /\ Len(host) - Len(p.labels) \in 1..(Len(host) - 1)
                         /\ p = SuffixName(host, Len(host) - Len(p.labels))
  BY CoversIs DEF Covers
<1>9. \A dot \in 1..(Len(host) - 1) : p = SuffixName(host, dot) => Covers(p, host) /\ Len(p.labels) = Len(host) - dot
  BY CoversIs
<1>10. CASE p = ExactName(host)
  <2>1. rank = ExactRank /\ ~p.wild /\ p.labels = host
    BY <1>4, <1>5, <1>10
  <2>2. ASSUME NEW dot \in 1..(Len(host) - 1) PROVE rank # Len(host) - dot + 1
    BY <1>2, <2>1
  <2>3. rank # 0 /\ ~(p = AnyHost /\ ing /\ host # <<>>)
    BY <1>6, <2>1 DEF ExactRank
  <2>4. rank \in -1..ExactRank
    BY <1>2, <2>1
  <2> QED BY <1>2, <1>3, <1>7, <1>10, <2>1, <2>2, <2>3, <2>4
<1>11. CASE p # ExactName(host) /\ p = AnyHost /\ ing
  <2>1. rank = 0 /\ ~p.wild
    BY <1>4, <1>5, <1>6, <1>11
  <2>2. host # <<>>
    BY <1>11 DEF ExactName, AnyHost
  <2>3. ASSUME NEW dot \in 1..(Len(host) - 1) PROVE rank # Len(host) - dot + 1
    BY <1>2, <2>1
  <2>4. rank \in -1..ExactRank /\ rank # ExactRank
    BY <1>2, <2>1
  <2> QED BY <1>2, <1>3, <1>7, <1>11, <2>1, <2>2, <2>3, <2>4
<1>12. CASE p # ExactName(host) /\ ~(p = AnyHost /\ ing) /\ Covers(p, host) /\ (~ing \/ Len(host) = Len(p.labels) + 1)
  <2>1. PICK d : d = Len(host) - Len(p.labels)
    OBVIOUS
  <2>2. /\ d \in 1..(Len(host) - 1) /\ p = SuffixName(host, d) /\ p.wild /\ (~ing \/ d = 1)
        /\ rank = Len(host) - d + 1
    BY <1>1, <1>2, <1>4, <1>5, <1>8, <1>12, <2>1
  <2>3. ASSUME NEW dot \in 1..(Len(host) - 1), dot # d PROVE rank # Len(host) - dot + 1 /\ p # SuffixName(host, dot)
    <3>1. rank # Len(host) - dot + 1
      BY <1>2, <2>2, <2>3
    <3>2. p = SuffixName(host, dot) => Len(p.labels) = Len(host) - dot
      BY <1>9
    <3>3. Len(p.labels) # Len(host) - dot
      BY <1>1, <1>2, <2>1, <2>2, <2>3
    <3> QED BY <3>1, <3>2, <3>3
  <2>4. rank \in -1..ExactRank /\ rank # ExactRank /\ rank # 0
    BY <1>2, <2>2
  <2> QED BY <1>2, <1>3, <1>6, <1>12, <2>2, <2>3, <2>4
<1>13. CASE /\ p # ExactName(host) /\ ~(p = AnyHost /\ ing)
            /\ ~(Covers(p, host) /\ (~ing \/ Len(host) = Len(p.labels) + 1))
  <2>1. rank = -1
    BY <1>4, <1>5, <1>13
  <2>2. ASSUME NEW dot \in 1..(Len(host) - 1) PROVE rank # Len(host) - dot + 1 /\ ~(p = SuffixName(host, dot) /\ (~ing \/ dot = 1))
    <3>1. rank # Len(host) - dot + 1
      BY <1>2, <2>1
    <3>2. p = SuffixName(host, dot) => ing /\ Len(host) # Len(p.labels) + 1 /\ Len(p.labels) = Len(host) - dot
      BY <1>9, <1>13
    <3> QED BY <1>1, <1>2, <3>1, <3>2
  <2>3. rank \in -1..ExactRank /\ rank # ExactRank /\ rank # 0
    BY <1>2, <2>1
  <2> QED BY <1>2, <1>3, <1>13, <2>1, <2>2, <2>3
<1> QED BY <1>10, <1>11, <1>12, <1>13

(* The rank of a virtual host is the best of its names'.                   *)
LEMMA TlsRankIs ==
    ASSUME NEW v, IsVirtualHost(v), NEW host, IsHost(host)
    PROVE  LET rank == TlsRank(v, host)
           IN  /\ rank \in -1..ExactRank /\ ExactRank \in Nat /\ ExactRank > Len(host)
               /\ v.default => rank >= 0
               /\ \A i \in DOMAIN v.names : HostRank(v.names[i], host, v.ingress) <= rank
               /\ \/ v.default /\ rank = 0
                  \/ rank = -1
                  \/ \E i \in DOMAIN v.names : rank = HostRank(v.names[i], host, v.ingress)
<1>1. PICK S : S = {IF v.default THEN 0 ELSE -1}
                      \cup {HostRank(v.names[i], host, v.ingress) : i \in DOMAIN v.names}
  OBVIOUS
<1>2. ExactRank \in Nat /\ ExactRank > Len(host) /\ Len(host) \in Nat
  BY DEF ExactRank, IsHost
<1>3. ASSUME NEW i \in DOMAIN v.names PROVE HostRank(v.names[i], host, v.ingress) \in -1..ExactRank
  <2>1. IsPattern(v.names[i]) /\ v.ingress \in BOOLEAN
    BY DEF IsVirtualHost
  <2> QED BY <2>1, HostRankIs
<1>4. ASSUME NEW x \in S PROVE x \in -1..ExactRank
  <2>1. CASE x = IF v.default THEN 0 ELSE -1
    BY <1>2, <2>1
  <2>2. CASE \E i \in DOMAIN v.names : x = HostRank(v.names[i], host, v.ingress)
    BY <1>3, <2>2
  <2> QED BY <1>1, <2>1, <2>2
<1>5. Max(S) \in S /\ \A x \in S : x <= Max(S)
  <2>1. S \subseteq -1..ExactRank /\ S # {}
    BY <1>1, <1>4
  <2> QED BY <1>2, <2>1, MaxIs
<1>6. PICK rank : rank = TlsRank(v, host)
  OBVIOUS
<1>7. rank = Max(S)
  BY <1>1, <1>6 DEF TlsRank
<1>8. rank \in -1..ExactRank
  BY <1>4, <1>5, <1>7
<1>9. v.default => rank >= 0
  <2>1. v.default => 0 \in S
    BY <1>1
  <2> QED BY <1>5, <1>7, <1>8, <2>1
<1>10. \A i \in DOMAIN v.names : HostRank(v.names[i], host, v.ingress) <= rank
  BY <1>1, <1>5, <1>7
<1>11. \/ v.default /\ rank = 0
       \/ rank = -1
       \/ \E i \in DOMAIN v.names : rank = HostRank(v.names[i], host, v.ingress)
  BY <1>1, <1>5, <1>7
<1> QED BY <1>2, <1>6, <1>8, <1>9, <1>10, <1>11

LEMMA TlsHostIs ==
    ASSUME NEW hosts, AreHosts(hosts), NEW addr, NEW host, IsHost(host)
    PROVE  /\ (\A id \in On(hosts, addr) : TlsRank(hosts[id], host) < 0) => TlsHost(hosts, addr, host) = NoId
           /\ \A R \in Nat :
                 /\ \A id \in On(hosts, addr) : TlsRank(hosts[id], host) <= R
                 /\ \E id \in On(hosts, addr) : TlsRank(hosts[id], host) = R
                 => TlsHost(hosts, addr, host) = First({id \in On(hosts, addr) : TlsRank(hosts[id], host) = R})
<1>1. PICK offers : offers = {id \in On(hosts, addr) : TlsRank(hosts[id], host) >= 0}
  OBVIOUS
<1>2. PICK best : best = {id \in offers : \A x \in offers : TlsRank(hosts[x], host) <= TlsRank(hosts[id], host)}
  OBVIOUS
<1>3. TlsHost(hosts, addr, host) = First(best)
  BY <1>1, <1>2 DEF TlsHost
<1>4. ASSUME NEW id \in On(hosts, addr) PROVE TlsRank(hosts[id], host) \in Int
  <2>1. IsVirtualHost(hosts[id])
    BY DEF On, AreHosts
  <2>2. TlsRank(hosts[id], host) \in -1..ExactRank /\ ExactRank \in Nat
    BY <2>1, TlsRankIs
  <2> QED BY <2>2
<1>5. ASSUME \A id \in On(hosts, addr) : TlsRank(hosts[id], host) < 0 PROVE TlsHost(hosts, addr, host) = NoId
  <2>1. best = {}
    BY <1>1, <1>2, <1>4, <1>5
  <2> QED BY <1>3, <2>1 DEF First
<1>6. ASSUME NEW R \in Nat, \A id \in On(hosts, addr) : TlsRank(hosts[id], host) <= R,
             \E id \in On(hosts, addr) : TlsRank(hosts[id], host) = R
      PROVE  best = {id \in On(hosts, addr) : TlsRank(hosts[id], host) = R}
  <2>1. PICK top \in On(hosts, addr) : TlsRank(hosts[top], host) = R
    BY <1>6
  <2>2. top \in offers
    BY <1>1, <2>1
  <2>3. ASSUME NEW id \in best PROVE id \in On(hosts, addr) /\ TlsRank(hosts[id], host) = R
    <3>1. id \in offers /\ TlsRank(hosts[top], host) <= TlsRank(hosts[id], host)
      BY <1>2, <2>2
    <3>2. id \in On(hosts, addr)
      BY <1>1, <3>1
    <3> QED BY <1>4, <1>6, <2>1, <3>1, <3>2
  <2>4. ASSUME NEW id \in On(hosts, addr), TlsRank(hosts[id], host) = R PROVE id \in best
    <3>1. id \in offers
      BY <1>1, <2>4
    <3>2. \A x \in offers : TlsRank(hosts[x], host) <= TlsRank(hosts[id], host)
      BY <1>1, <1>6, <2>4
    <3> QED BY <1>2, <3>1, <3>2
  <2> QED BY <2>3, <2>4
<1> QED BY <1>3, <1>5, <1>6

LEMMA OnIs ==
    ASSUME NEW hosts, AreHosts(hosts), NEW addr, NEW name
    PROVE  /\ On(hosts, addr) \subseteq Nat \ {0} /\ On(hosts, addr) \subseteq DOMAIN hosts
           /\ Listing(hosts, addr, name) \subseteq On(hosts, addr)
           /\ \A id \in On(hosts, addr) : IsVirtualHost(hosts[id]) /\ hosts[id].ingress = hosts[1].ingress
                                             /\ hosts[id].ingress \in BOOLEAN /\ hosts[id].default \in BOOLEAN
  BY DEF On, Listing, AreHosts, IsList, IsVirtualHost

(* What a host of one rank lists.                                          *)
LEMMA RanksAre ==
    ASSUME NEW hosts, AreHosts(hosts), NEW addr, NEW host, IsHost(host), NEW id \in On(hosts, addr),
           NEW ing, ing = hosts[1].ingress
    PROVE  LET rank == TlsRank(hosts[id], host)
           IN  /\ rank \in -1..ExactRank /\ ExactRank \in Nat /\ ExactRank > Len(host) /\ Len(host) \in Nat
               /\ rank = ExactRank <=> id \in Listing(hosts, addr, ExactName(host))
               /\ \A dot \in 1..(Len(host) - 1) :
                     /\ rank = Len(host) - dot + 1 => id \in Listing(hosts, addr, SuffixName(host, dot)) /\ (~ing \/ dot = 1)
                     /\ id \in Listing(hosts, addr, SuffixName(host, dot)) /\ (~ing \/ dot = 1) => Len(host) - dot + 1 <= rank
               /\ rank = 0 => hosts[id].default \/ (ing /\ id \in Listing(hosts, addr, AnyHost))
               /\ hosts[id].default \/ (ing /\ id \in Listing(hosts, addr, AnyHost)) => 0 <= rank
               /\ rank \in {-1, 0, ExactRank} \/ \E dot \in 1..(Len(host) - 1) : rank = Len(host) - dot + 1
<1>1. PICK v : v = hosts[id]
  OBVIOUS
<1>2. PICK rank : rank = TlsRank(v, host)
  OBVIOUS
<1>3. IsVirtualHost(v) /\ v.ingress = ing /\ ing \in BOOLEAN
  BY <1>1, OnIs
<1>4. \A name : id \in Listing(hosts, addr, name) <=> \E i \in DOMAIN v.names : v.names[i] = name
  BY <1>1 DEF Listing
<1>5. /\ rank \in -1..ExactRank /\ ExactRank \in Nat /\ ExactRank > Len(host) /\ Len(host) \in Nat
      /\ v.default => rank >= 0
      /\ \A i \in DOMAIN v.names : HostRank(v.names[i], host, ing) <= rank
      /\ \/ v.default /\ rank = 0
         \/ rank = -1
         \/ \E i \in DOMAIN v.names : rank = HostRank(v.names[i], host, ing)
  BY <1>2, <1>3, TlsRankIs DEF IsHost
<1>6. ASSUME NEW i \in DOMAIN v.names
      PROVE  LET r == HostRank(v.names[i], host, ing)
             IN  /\ r \in -1..ExactRank
                 /\ r = ExactRank <=> v.names[i] = ExactName(host)
                 /\ r = 0 <=> v.names[i] = AnyHost /\ ing /\ host # <<>>
                 /\ \A dot \in 1..(Len(host) - 1) :
                       r = Len(host) - dot + 1 <=> v.names[i] = SuffixName(host, dot) /\ (~ing \/ dot = 1)
                 /\ r \in {-1, 0, ExactRank} \/ \E dot \in 1..(Len(host) - 1) : r = Len(host) - dot + 1
  <2>1. IsPattern(v.names[i])
    BY <1>3 DEF IsVirtualHost
  <2> QED BY <1>3, <2>1, HostRankIs
<1>7. rank = ExactRank <=> id \in Listing(hosts, addr, ExactName(host))
  <2>1. ASSUME rank = ExactRank PROVE \E i \in DOMAIN v.names : v.names[i] = ExactName(host)
    BY <1>5, <1>6, <2>1
  <2>2. ASSUME NEW i \in DOMAIN v.names, v.names[i] = ExactName(host) PROVE rank = ExactRank
    <3>1. HostRank(v.names[i], host, ing) = ExactRank
      BY <1>6, <2>2
    <3> QED BY <1>5, <3>1
  <2> QED BY <1>4, <2>1, <2>2
<1>8. ASSUME NEW dot \in 1..(Len(host) - 1)
      PROVE  /\ rank = Len(host) - dot + 1 => id \in Listing(hosts, addr, SuffixName(host, dot)) /\ (~ing \/ dot = 1)
             /\ id \in Listing(hosts, addr, SuffixName(host, dot)) /\ (~ing \/ dot = 1) => Len(host) - dot + 1 <= rank
  <2>1. ASSUME rank = Len(host) - dot + 1
        PROVE  (\E i \in DOMAIN v.names : v.names[i] = SuffixName(host, dot)) /\ (~ing \/ dot = 1)
    <3>1. PICK i \in DOMAIN v.names : rank = HostRank(v.names[i], host, ing)
      BY <1>5, <2>1
    <3> QED BY <1>6, <2>1, <3>1
  <2>2. ASSUME NEW i \in DOMAIN v.names, v.names[i] = SuffixName(host, dot), ~ing \/ dot = 1
        PROVE  Len(host) - dot + 1 <= rank
    <3>1. HostRank(v.names[i], host, ing) = Len(host) - dot + 1
      BY <1>6, <2>2
    <3> QED BY <1>5, <3>1
  <2> QED BY <1>4, <2>1, <2>2
<1>9. rank = 0 => v.default \/ (ing /\ id \in Listing(hosts, addr, AnyHost))
  BY <1>4, <1>5, <1>6
<1>10. ASSUME v.default \/ (ing /\ id \in Listing(hosts, addr, AnyHost)) PROVE 0 <= rank
  <2>1. CASE v.default
    BY <1>5, <2>1
  <2>2. CASE ing /\ id \in Listing(hosts, addr, AnyHost)
    <3>1. PICK i \in DOMAIN v.names : v.names[i] = AnyHost
      BY <1>4, <2>2
    <3>2. CASE host = <<>>
      <4>1. v.names[i] = ExactName(host)
        BY <3>1, <3>2 DEF ExactName, AnyHost
      <4>2. HostRank(v.names[i], host, ing) = ExactRank
        BY <1>6, <4>1
      <4> QED BY <1>5, <4>2
    <3>3. CASE host # <<>>
      <4>1. HostRank(v.names[i], host, ing) = 0
        BY <1>6, <2>2, <3>1, <3>3
      <4> QED BY <1>5, <4>1
    <3> QED BY <3>2, <3>3
  <2> QED BY <1>10, <2>1, <2>2
<1>11. rank \in {-1, 0, ExactRank} \/ \E dot \in 1..(Len(host) - 1) : rank = Len(host) - dot + 1
  BY <1>5, <1>6
<1> QED BY <1>1, <1>2, <1>5, <1>7, <1>8, <1>9, <1>10, <1>11

(* The index of the hosts answers as the scan of their ranks.              *)
LEMMA SelectHostIsTls ==
    ASSUME NEW hosts, AreHosts(hosts), NEW addr, NEW host, IsHost(host)
    PROVE  SelectHost(hosts, addr, host) = TlsHost(hosts, addr, host)
<1>1. PICK ing : ing = hosts[1].ingress
  OBVIOUS
<1>2. PICK listed : listed = Listing(hosts, addr, ExactName(host))
  OBVIOUS
<1>3. PICK usable : usable = {dot \in 1..(Len(host) - 1) :
                                 LET id == WildcardHost(hosts, addr, From(host, dot + 1))
                                 IN id # NoId /\ (~hosts[id].ingress \/ dot = 1)}
  OBVIOUS
<1>4. PICK e : e = ExactHost(hosts, addr, host)
  OBVIOUS
<1>5. SelectHost(hosts, addr, host) = IF e # NoId THEN e
            ELSE IF usable # {} THEN WildcardHost(hosts, addr, From(host, Min(usable) + 1))
            ELSE DefaultHost(hosts, addr)
  BY <1>3, <1>4 DEF SelectHost
<1>6. /\ On(hosts, addr) \subseteq Nat \ {0}
      /\ \A name : Listing(hosts, addr, name) \subseteq On(hosts, addr)
      /\ \A id \in On(hosts, addr) : hosts[id].ingress = ing /\ IsVirtualHost(hosts[id])
  BY <1>1, OnIs
<1>7. \A dot : WildcardHost(hosts, addr, From(host, dot + 1)) = First(Listing(hosts, addr, SuffixName(host, dot)))
  BY DEF WildcardHost, SuffixName
<1>8. e = First({id \in listed : ~(host = <<>> /\ hosts[id].ingress)})
  BY <1>2, <1>4 DEF ExactHost, ExactName
<1>9. ASSUME NEW id \in On(hosts, addr)
      PROVE  LET rank == TlsRank(hosts[id], host)
             IN  /\ rank \in -1..ExactRank
                 /\ rank = ExactRank <=> id \in listed
                 /\ \A dot \in 1..(Len(host) - 1) :
                     /\ rank = Len(host) - dot + 1 => id \in Listing(hosts, addr, SuffixName(host, dot)) /\ (~ing \/ dot = 1)
                     /\ id \in Listing(hosts, addr, SuffixName(host, dot)) /\ (~ing \/ dot = 1) => Len(host) - dot + 1 <= rank
                 /\ rank = 0 => hosts[id].default \/ (ing /\ id \in Listing(hosts, addr, AnyHost))
                 /\ hosts[id].default \/ (ing /\ id \in Listing(hosts, addr, AnyHost)) => 0 <= rank
                 /\ rank \in {-1, 0, ExactRank} \/ \E dot \in 1..(Len(host) - 1) : rank = Len(host) - dot + 1
  BY <1>1, <1>2, <1>9, RanksAre
<1>10. ExactRank \in Nat /\ ExactRank > Len(host) /\ Len(host) \in Nat /\ ExactRank > 0
  BY DEF ExactRank, IsHost
<1>11. ASSUME listed # {} PROVE TlsHost(hosts, addr, host) = First(listed)
  <2>1. listed = {id \in On(hosts, addr) : TlsRank(hosts[id], host) = ExactRank}
    BY <1>2, <1>6, <1>9
  <2>2. \A id \in On(hosts, addr) : TlsRank(hosts[id], host) <= ExactRank
    BY <1>9, <1>10
  <2>3. \E id \in On(hosts, addr) : TlsRank(hosts[id], host) = ExactRank
    BY <1>11, <2>1
  <2>4. TlsHost(hosts, addr, host) = First({id \in On(hosts, addr) : TlsRank(hosts[id], host) = ExactRank})
    BY <1>10, <2>2, <2>3, TlsHostIs
  <2> QED BY <2>1, <2>4
<1>12. DefaultHost(hosts, addr) = First({id \in On(hosts, addr) : hosts[id].default \/ (ing /\ id \in Listing(hosts, addr, AnyHost))})
  <2>1. {id \in On(hosts, addr) : hosts[id].default \/ (hosts[id].ingress /\ id \in Listing(hosts, addr, AnyHost))}
      = {id \in On(hosts, addr) : hosts[id].default \/ (ing /\ id \in Listing(hosts, addr, AnyHost))}
    BY <1>6
  <2> QED BY <2>1 DEF DefaultHost
<1>13. listed \subseteq On(hosts, addr) /\ listed \subseteq Nat \ {0}
  BY <1>2, <1>6
<1>14. CASE listed # {} /\ ~(host = <<>> /\ ing)
  <2>1. {id \in listed : ~(host = <<>> /\ hosts[id].ingress)} = listed
    BY <1>6, <1>13, <1>14
  <2>2. e = First(listed) /\ e # NoId
    BY <1>8, <1>13, <1>14, <2>1, FirstIs
  <2> QED BY <1>5, <1>11, <1>14, <2>2
<1>15. CASE listed # {} /\ host = <<>> /\ ing
  <2>1. {id \in listed : ~(host = <<>> /\ hosts[id].ingress)} = {}
    BY <1>6, <1>13, <1>15
  <2>2. e = NoId
    BY <1>8, <2>1 DEF First
  <2>3. usable = {}
    <3>1. Len(host) = 0
      BY <1>15
    <3>2. ASSUME NEW dot \in 1..(Len(host) - 1) PROVE FALSE
      BY <3>1
    <3> QED BY <1>3, <3>2
  <2>4. listed = Listing(hosts, addr, AnyHost)
    BY <1>2, <1>15 DEF ExactName, AnyHost
  <2>5. ASSUME NEW id \in On(hosts, addr), hosts[id].default PROVE id \in listed
    <3>1. \E i \in DOMAIN hosts[id].names : hosts[id].names[i] = AnyHost
      BY <1>6, <1>15, <2>5 DEF IsVirtualHost
    <3> QED BY <2>4, <3>1 DEF Listing
  <2>6. {id \in On(hosts, addr) : hosts[id].default \/ (ing /\ id \in Listing(hosts, addr, AnyHost))} = listed
    BY <1>13, <1>15, <2>4, <2>5
  <2>7. DefaultHost(hosts, addr) = First(listed)
    BY <1>12, <2>6
  <2> QED BY <1>5, <1>11, <1>15, <2>2, <2>3, <2>7
<1>16. ASSUME listed = {} PROVE e = NoId /\ \A id \in On(hosts, addr) : TlsRank(hosts[id], host) # ExactRank
  <2>1. e = NoId
    BY <1>8, <1>16 DEF First
  <2> QED BY <1>9, <1>16, <2>1
<1>17. ASSUME NEW dot \in 1..(Len(host) - 1)
       PROVE  dot \in usable <=> Listing(hosts, addr, SuffixName(host, dot)) # {} /\ (~ing \/ dot = 1)
  <2>1. PICK ids : ids = Listing(hosts, addr, SuffixName(host, dot))
    OBVIOUS
  <2>2. ids \subseteq On(hosts, addr) /\ ids \subseteq Nat \ {0}
    BY <1>6, <2>1
  <2>3. dot \in usable <=> First(ids) # NoId /\ (~hosts[First(ids)].ingress \/ dot = 1)
    BY <1>3, <1>7, <2>1
  <2>4. ids = {} => First(ids) = NoId
    BY DEF First
  <2>5. ids # {} => First(ids) # NoId /\ hosts[First(ids)].ingress = ing
    BY <1>6, <2>2, FirstIs
  <2> QED BY <2>1, <2>3, <2>4, <2>5
<1>18. CASE listed = {} /\ usable # {}
  <2>1. usable \subseteq 1..(Len(host) - 1) /\ usable \subseteq Nat
    BY <1>3
  <2>2. PICK dot : dot = Min(usable)
    OBVIOUS
  <2>3. dot \in usable /\ dot \in 1..(Len(host) - 1) /\ \A y \in usable : dot <= y
    BY <1>18, <2>1, <2>2, LeastIs
  <2>4. PICK R : R = Len(host) - dot + 1
    OBVIOUS
  <2>5. R \in Nat /\ R >= 2 /\ R < ExactRank
    BY <1>10, <2>3, <2>4
  <2>6. PICK ids : ids = Listing(hosts, addr, SuffixName(host, dot))
    OBVIOUS
  <2>7. ids # {} /\ (~ing \/ dot = 1) /\ ids \subseteq On(hosts, addr)
    BY <1>6, <1>17, <2>3, <2>6
  <2>8. ASSUME NEW id \in On(hosts, addr) PROVE TlsRank(hosts[id], host) <= R
    <3>1. TlsRank(hosts[id], host) # ExactRank
      BY <1>16, <1>18
    <3>2. CASE TlsRank(hosts[id], host) \in {-1, 0}
      BY <2>5, <3>2
    <3>3. CASE \E d \in 1..(Len(host) - 1) : TlsRank(hosts[id], host) = Len(host) - d + 1
      <4>1. PICK d \in 1..(Len(host) - 1) : TlsRank(hosts[id], host) = Len(host) - d + 1
        BY <3>3
      <4>2. id \in Listing(hosts, addr, SuffixName(host, d)) /\ (~ing \/ d = 1)
        BY <1>9, <4>1
      <4>3. d \in usable
        BY <1>17, <4>2
      <4>4. dot <= d
        BY <2>3, <4>3
      <4> QED BY <1>10, <2>3, <2>4, <4>1, <4>4
    <3> QED BY <1>9, <3>1, <3>2, <3>3
  <2>9. ids = {id \in On(hosts, addr) : TlsRank(hosts[id], host) = R}
    <3>1. ASSUME NEW id \in On(hosts, addr), TlsRank(hosts[id], host) = R PROVE id \in ids
      BY <1>9, <2>3, <2>4, <2>6, <3>1
    <3>2. ASSUME NEW id \in ids PROVE id \in On(hosts, addr) /\ TlsRank(hosts[id], host) = R
      <4>1. id \in On(hosts, addr)
        BY <2>7
      <4>2. R <= TlsRank(hosts[id], host) /\ TlsRank(hosts[id], host) \in -1..ExactRank
        BY <1>9, <2>3, <2>4, <2>6, <2>7, <4>1
      <4> QED BY <1>10, <2>5, <2>8, <4>1, <4>2
    <3> QED BY <3>1, <3>2
  <2>10. TlsHost(hosts, addr, host) = First(ids)
    <3>1. \E id \in On(hosts, addr) : TlsRank(hosts[id], host) = R
      BY <2>7, <2>9
    <3> QED BY <2>5, <2>8, <2>9, <3>1, TlsHostIs
  <2> QED BY <1>5, <1>7, <1>16, <1>18, <2>2, <2>6, <2>10
<1>19. CASE listed = {} /\ usable = {}
  <2>1. ASSUME NEW id \in On(hosts, addr) PROVE TlsRank(hosts[id], host) \in {-1, 0}
    <3>1. TlsRank(hosts[id], host) # ExactRank
      BY <1>16, <1>19
    <3>2. ASSUME NEW d \in 1..(Len(host) - 1), TlsRank(hosts[id], host) = Len(host) - d + 1 PROVE FALSE
      <4>1. id \in Listing(hosts, addr, SuffixName(host, d)) /\ (~ing \/ d = 1)
        BY <1>9, <3>2
      <4> QED BY <1>17, <1>19, <4>1
    <3> QED BY <1>9, <3>1, <3>2
  <2>2. PICK ids : ids = {id \in On(hosts, addr) : hosts[id].default \/ (ing /\ id \in Listing(hosts, addr, AnyHost))}
    OBVIOUS
  <2>3. ids = {id \in On(hosts, addr) : TlsRank(hosts[id], host) = 0}
    <3>1. ASSUME NEW id \in On(hosts, addr)
          PROVE  (hosts[id].default \/ (ing /\ id \in Listing(hosts, addr, AnyHost))) <=> TlsRank(hosts[id], host) = 0
      <4>1. (hosts[id].default \/ (ing /\ id \in Listing(hosts, addr, AnyHost))) => 0 <= TlsRank(hosts[id], host)
        BY <1>9
      <4>2. TlsRank(hosts[id], host) = 0 => (hosts[id].default \/ (ing /\ id \in Listing(hosts, addr, AnyHost)))
        BY <1>9
      <4> QED BY <2>1, <4>1, <4>2
    <3> QED BY <2>2, <3>1
  <2>4. SelectHost(hosts, addr, host) = First(ids)
    BY <1>5, <1>12, <1>16, <1>19, <2>2
  <2>5. CASE ids = {}
    <3>1. \A id \in On(hosts, addr) : TlsRank(hosts[id], host) < 0
      BY <2>1, <2>3, <2>5
    <3>2. TlsHost(hosts, addr, host) = NoId
      BY <3>1, TlsHostIs
    <3> QED BY <2>4, <2>5, <3>2 DEF First
  <2>6. CASE ids # {}
    <3>1. \A id \in On(hosts, addr) : TlsRank(hosts[id], host) <= 0
      BY <2>1
    <3>2. \E id \in On(hosts, addr) : TlsRank(hosts[id], host) = 0
      BY <2>3, <2>6
    <3>3. TlsHost(hosts, addr, host) = First(ids)
      BY <2>3, <3>1, <3>2, TlsHostIs
    <3> QED BY <2>4, <3>3
  <2> QED BY <2>5, <2>6
<1> QED BY <1>14, <1>15, <1>18, <1>19

LEMMA FallbackIsTls ==
    ASSUME NEW hosts, AreHosts(hosts), NEW addr
    PROVE  TlsHost(hosts, addr, Unnamed) = DefaultHost(hosts, addr)
<1>1. Unnamed \in Seq(Text) /\ Len(Unnamed) = 4 /\ \A i \in 1..4 : Unnamed[i] = "?"
  <2>1. Unnamed \in Seq(Text) /\ Len(Unnamed) = 4
    <3>1. \A s \in Text : <<s, s, s, s>> \in Seq(Text) /\ Len(<<s, s, s, s>>) = 4
      OBVIOUS
    <3>2. "?" \in Text
      BY DEF Text
    <3> QED BY <3>1, <3>2 DEF Unnamed
  <2>2. Unnamed[1] = "?" /\ Unnamed[2] = "?" /\ Unnamed[3] = "?" /\ Unnamed[4] = "?"
    BY DEF Unnamed
  <2>3. \A i \in 1..4 : i = 1 \/ i = 2 \/ i = 3 \/ i = 4
    OBVIOUS
  <2> QED BY <2>1, <2>2, <2>3
<1>2. IsHost(Unnamed)
  BY <1>1 DEF IsHost, ExactRank
<1>3. ASSUME NEW id \in On(hosts, addr), NEW i \in DOMAIN hosts[id].names
      PROVE  IsPattern(hosts[id].names[i])
  BY OnIs DEF IsVirtualHost
<1>4. ASSUME NEW name, name.labels \in Seq(Text), Len(name.labels) > 0, name.labels[1] = "?"
      PROVE  Listing(hosts, addr, name) = {}
  <2>1. ASSUME NEW id \in Listing(hosts, addr, name) PROVE FALSE
    <3>1. id \in On(hosts, addr)
      BY OnIs
    <3>2. PICK i \in DOMAIN hosts[id].names : hosts[id].names[i] = name
      BY DEF Listing
    <3>3. IsPattern(name)
      BY <1>3, <3>1, <3>2
    <3>4. 1 \in DOMAIN name.labels
      BY <1>4
    <3> QED BY <1>4, <3>3, <3>4 DEF IsPattern
  <2> QED BY <2>1
<1>5. Listing(hosts, addr, ExactName(Unnamed)) = {}
  BY <1>1, <1>4 DEF ExactName
<1>6. ExactHost(hosts, addr, Unnamed) = NoId
  BY <1>5 DEF ExactHost, ExactName, First
<1>7. ASSUME NEW dot \in 1..(Len(Unnamed) - 1)
      PROVE  WildcardHost(hosts, addr, From(Unnamed, dot + 1)) = NoId
  <2>1. dot + 1 \in 1..(Len(Unnamed) + 1) /\ dot \in 1..3
    BY <1>1
  <2>2. PICK labels : labels = From(Unnamed, dot + 1)
    OBVIOUS
  <2>3. labels \in Seq(Text) /\ Len(labels) = 4 - dot
    <3>1. labels \in Seq(Text) /\ Len(labels) = Len(Unnamed) - (dot + 1) + 1
      BY <1>2, <2>1, <2>2, FromIs
    <3> QED BY <1>1, <2>1, <3>1
  <2>4. labels[1] = "?"
    <3>1. /\ dot + 1 \in 1..(Len(Unnamed) + 1) /\ Len(Unnamed) \in 0..Len(Unnamed) /\ dot + 1 <= Len(Unnamed) + 1
          /\ 1 \in 1..(Len(Unnamed) - (dot + 1) + 1)
      BY <1>1, <2>1
    <3>2. labels[1] = Unnamed[dot + 1 + 1 - 1]
      BY <1>1, <2>2, <3>1, PartIs DEF From
    <3>3. dot + 1 + 1 - 1 \in 1..4
      BY <2>1
    <3> QED BY <1>1, <3>2, <3>3
  <2>5. PICK name : name = [wild |-> TRUE, labels |-> labels]
    OBVIOUS
  <2>6. name.labels = labels /\ Len(labels) > 0
    BY <2>1, <2>3, <2>5
  <2>7. Listing(hosts, addr, name) = {}
    BY <1>4, <2>3, <2>4, <2>6
  <2> QED BY <2>2, <2>5, <2>7 DEF WildcardHost, First
<1>8. SelectHost(hosts, addr, Unnamed) = DefaultHost(hosts, addr)
  BY <1>6, <1>7 DEF SelectHost
<1> QED BY <1>2, <1>8, SelectHostIsTls

(* A virtual host that is found exists.                                    *)
LEMMA SelectHostIn ==
    ASSUME NEW hosts, AreHosts(hosts), NEW addr
    PROVE  /\ DefaultHost(hosts, addr) # NoId => DefaultHost(hosts, addr) \in DOMAIN hosts
           /\ \A host : IsHost(host) /\ TlsHost(hosts, addr, host) # NoId => TlsHost(hosts, addr, host) \in DOMAIN hosts
<1>1. ASSUME NEW S \in SUBSET On(hosts, addr), First(S) # NoId PROVE First(S) \in DOMAIN hosts
  <2>1. S \subseteq Nat \ {0} /\ S \subseteq DOMAIN hosts
    BY OnIs
  <2>2. S # {}
    BY <1>1 DEF First
  <2> QED BY <2>1, <2>2, FirstIs
<1>2. DefaultHost(hosts, addr) # NoId => DefaultHost(hosts, addr) \in DOMAIN hosts
  <2>1. PICK S : S = {id \in On(hosts, addr) :
              \/ hosts[id].default
              \/ hosts[id].ingress /\ id \in Listing(hosts, addr, AnyHost)}
    OBVIOUS
  <2>2. DefaultHost(hosts, addr) = First(S) /\ S \in SUBSET On(hosts, addr)
    BY <2>1 DEF DefaultHost
  <2> QED BY <1>1, <2>2
<1>3. ASSUME NEW host, TlsHost(hosts, addr, host) # NoId PROVE TlsHost(hosts, addr, host) \in DOMAIN hosts
  <2>1. PICK offers : offers = {id \in On(hosts, addr) : TlsRank(hosts[id], host) >= 0}
    OBVIOUS
  <2>2. PICK S : S = {id \in offers : \A x \in offers : TlsRank(hosts[x], host) <= TlsRank(hosts[id], host)}
    OBVIOUS
  <2>3. TlsHost(hosts, addr, host) = First(S) /\ S \in SUBSET On(hosts, addr)
    BY <2>1, <2>2 DEF TlsHost
  <2> QED BY <1>1, <1>3, <2>3
<1> QED BY <1>2, <1>3

LEMMA RouteHostIsBest ==
    ASSUME NEW hosts, AreHosts(hosts), NEW q, IsQuery(q)
    PROVE  RouteHost(hosts, q) = BestHostRoute(hosts, q)
<1>1. IsHost(q.host) /\ IsPath(q.path)
  BY DEF IsQuery, IsHost, IsPath
<1>2. PICK id : id = SelectHost(hosts, q.address, q.host)
  OBVIOUS
<1>3. PICK default : default = DefaultHost(hosts, q.address)
  OBVIOUS
<1>4. id = TlsHost(hosts, q.address, q.host) /\ default = TlsHost(hosts, q.address, Unnamed)
  BY <1>1, <1>2, <1>3, SelectHostIsTls, FallbackIsTls
<1>5. (id # NoId => id \in DOMAIN hosts) /\ (default # NoId => default \in DOMAIN hosts)
  BY <1>1, <1>3, <1>4, SelectHostIn
<1>6. ASSUME NEW h \in DOMAIN hosts PROVE SelectPath(hosts[h].routes, q.path) = BestPath(hosts[h].routes, q.path)
  <2>1. AreRoutes(hosts[h].routes)
    BY DEF AreHosts, IsVirtualHost, AreRoutes, Kinds
  <2> QED BY <1>1, <2>1, SelectPathIsBest
<1>7. PICK own : own = IF id = NoId THEN NoId ELSE BestPath(hosts[id].routes, q.path)
  OBVIOUS
<1>8. PICK other : other = IF default = NoId THEN NoId ELSE BestPath(hosts[default].routes, q.path)
  OBVIOUS
<1>9. BestHostRoute(hosts, q) = IF own # NoId THEN <<id, own>>
           ELSE IF id # NoId /\ hosts[id].ingress /\ other # NoId THEN <<default, other>> ELSE NoRoute
  BY <1>4, <1>7, <1>8 DEF BestHostRoute
<1>10. RouteHost(hosts, q) =
           LET At(h) == LET r == SelectPath(hosts[h].routes, q.path)
                        IN IF r = NoId THEN NoRoute ELSE <<h, r>>
           IN IF id = NoId THEN NoRoute
              ELSE IF At(id) # NoRoute THEN At(id)
              ELSE IF hosts[id].ingress /\ default # NoId THEN At(default) ELSE NoRoute
  BY <1>2, <1>3 DEF RouteHost
<1>11. CASE id = NoId
  BY <1>7, <1>9, <1>10, <1>11
<1>12. CASE id # NoId
  <2>1. SelectPath(hosts[id].routes, q.path) = own
    BY <1>5, <1>6, <1>7, <1>12
  <2>2. default # NoId => SelectPath(hosts[default].routes, q.path) = other
    BY <1>5, <1>6, <1>8
  <2>3. \A h, r : <<h, r>> # NoRoute
    BY DEF NoRoute
  <2>4. CASE own # NoId
    BY <1>9, <1>10, <1>12, <2>1, <2>3, <2>4
  <2>5. CASE own = NoId /\ hosts[id].ingress /\ default # NoId
    BY <1>9, <1>10, <1>12, <2>1, <2>2, <2>3, <2>5
  <2>6. CASE own = NoId /\ ~(hosts[id].ingress /\ default # NoId)
    BY <1>8, <1>9, <1>10, <1>12, <2>1, <2>3, <2>6
  <2> QED BY <2>4, <2>5, <2>6
<1> QED BY <1>11, <1>12

-----------------------------------------------------------------------------
(* The entries of a Gateway listener.  Precedes is a strict total order,   *)
(* and a pass of Select over one more list gives the best of all entries   *)
(* seen so far.                                                            *)

LEMMA StandingIs ==
    ASSUME NEW entries, AreEntries(entries), NEW id \in DOMAIN entries
    PROVE  Standing(entries, id) \in [1..7 -> Int] /\ Standing(entries, id)[7] = id /\ id \in Nat /\ id # 0
<1>1. PICK e : e = entries[id]
  OBVIOUS
<1>2. id \in Nat /\ id # 0 /\ IsFiniteSet(e.needs) /\ e.order \in Int /\ e.path \in Seq(Text)
  BY <1>1 DEF AreEntries, IsList, IsMatcher
<1>3. ASSUME NEW kind PROVE Predicates(e, kind) \in Int
  <2>1. IsFiniteSet({n \in e.needs : n[1] = kind})
    BY <1>2, FS_Subset
  <2>2. Cardinality({n \in e.needs : n[1] = kind}) \in Nat
    BY <2>1, FS_CardinalityType
  <2> QED BY <2>2 DEF Predicates
<1>4. PICK o : o = Standing(entries, id)
  OBVIOUS
<1>5. o = <<IF e.kind = "exact" THEN 1 ELSE 0, Len(e.path), Predicates(e, "method"), Predicates(e, "header"),
            Predicates(e, "query"), -e.order, id>>
  BY <1>1, <1>4 DEF Standing
<1>6. /\ (IF e.kind = "exact" THEN 1 ELSE 0) \in Int /\ Len(e.path) \in Int /\ -e.order \in Int /\ id \in Int
      /\ Predicates(e, "method") \in Int /\ Predicates(e, "header") \in Int /\ Predicates(e, "query") \in Int
  BY <1>2, <1>3
<1>7. /\ o[1] \in Int /\ o[2] \in Int /\ o[3] \in Int /\ o[4] \in Int /\ o[5] \in Int /\ o[6] \in Int /\ o[7] = id
  BY <1>5, <1>6
<1>8. o = [i \in 1..7 |-> o[i]]
  BY <1>5
<1>9. \A i \in 1..7 : o[i] \in Int
  BY <1>6, <1>7
<1> QED BY <1>2, <1>4, <1>7, <1>8, <1>9

LEMMA PrecedesOrder ==
    ASSUME NEW entries, AreEntries(entries), NEW a \in DOMAIN entries, NEW b \in DOMAIN entries
    PROVE  /\ \A c \in DOMAIN entries : Precedes(entries, a, b) /\ Precedes(entries, b, c) => Precedes(entries, a, c)
           /\ a # b => Precedes(entries, a, b) \/ Precedes(entries, b, a)
           /\ ~(Precedes(entries, a, b) /\ Precedes(entries, b, a))
<1>1. Standing(entries, a) \in [1..7 -> Int] /\ Standing(entries, b) \in [1..7 -> Int] /\ 7 \in Nat
  BY StandingIs
<1>2. ASSUME NEW c \in DOMAIN entries, Precedes(entries, a, b), Precedes(entries, b, c) PROVE Precedes(entries, a, c)
  <2>1. Standing(entries, c) \in [1..7 -> Int]
    BY StandingIs
  <2> QED BY <1>1, <1>2, <2>1, LexTransitive DEF Precedes
<1>3. ASSUME a # b PROVE Precedes(entries, a, b) \/ Precedes(entries, b, a)
  <2>1. Standing(entries, a) # Standing(entries, b)
    BY <1>3, StandingIs
  <2> QED BY <1>1, <2>1, LexTotal DEF Precedes
<1>4. ~(Precedes(entries, a, b) /\ Precedes(entries, b, a))
  BY <1>1, LexAsymmetric DEF Precedes
<1> QED BY <1>2, <1>3, <1>4

IsBest(entries, ids, id) == id \in ids /\ \A x \in ids \ {id} : Precedes(entries, x, id)
BestOf(entries, ids) == IF ids = {} THEN NoId ELSE CHOOSE id \in ids : \A x \in ids \ {id} : Precedes(entries, x, id)

LEMMA BestOfIs ==
    ASSUME NEW entries, AreEntries(entries), NEW ids \in SUBSET DOMAIN entries
    PROVE  /\ ids = {} => BestOf(entries, ids) = NoId
           /\ ids # {} => IsBest(entries, ids, BestOf(entries, ids)) /\ BestOf(entries, ids) # NoId
           /\ \A id : IsBest(entries, ids, id) => BestOf(entries, ids) = id
<1>1. DOMAIN entries = 1..Len(entries) /\ Len(entries) \in Nat
  BY DEF AreEntries, IsList
<1>2. ASSUME ids # {} PROVE \E id : IsBest(entries, ids, id)
  <2>1. PICK R : R = {p \in ids \X ids : Precedes(entries, p[1], p[2])}
    OBVIOUS
  <2>2. \A a, b \in ids : <<a, b>> \in R <=> Precedes(entries, a, b)
    BY <2>1
  <2>3. ASSUME NEW a \in ids, NEW b \in ids, NEW c \in ids, <<a, b>> \in R, <<b, c>> \in R PROVE <<a, c>> \in R
    <3>1. Precedes(entries, a, b) /\ Precedes(entries, b, c)
      BY <2>2, <2>3
    <3>2. Precedes(entries, a, c)
      BY <3>1, PrecedesOrder
    <3> QED BY <2>2, <3>2
  <2>4. \A a, b \in ids : a # b => <<a, b>> \in R \/ <<b, a>> \in R
    BY <2>2, PrecedesOrder
  <2>5. ids \in SUBSET (1..Len(entries))
    BY <1>1
  <2>6. PICK m \in ids : \A x \in ids \ {m} : <<x, m>> \in R
    <3>1. \A a, b, c \in ids : <<a, b>> \in R /\ <<b, c>> \in R => <<a, c>> \in R
      BY <2>3
    <3>2. Len(entries) \in Nat
      BY <1>1
    <3> QED BY ONLY <1>2, <2>4, <2>5, <3>1, <3>2, GreatestIn
  <2> QED BY <2>2, <2>6 DEF IsBest
<1>3. ASSUME NEW a, IsBest(entries, ids, a), NEW b, IsBest(entries, ids, b) PROVE a = b
  <2>1. a \in ids /\ b \in ids /\ (a # b => Precedes(entries, a, b) /\ Precedes(entries, b, a))
    BY <1>3 DEF IsBest
  <2> QED BY <2>1, PrecedesOrder
<1>4. ASSUME ids # {} PROVE IsBest(entries, ids, BestOf(entries, ids))
  BY <1>2, <1>4 DEF IsBest, BestOf
<1>5. NoId \notin ids
  BY <1>1 DEF NoId
<1>6. ids # {} => BestOf(entries, ids) # NoId
  BY <1>4, <1>5 DEF IsBest
<1>7. ASSUME NEW id, IsBest(entries, ids, id) PROVE BestOf(entries, ids) = id
  <2>1. ids # {}
    BY <1>7 DEF IsBest
  <2> QED BY <1>3, <1>4, <1>7, <2>1
<1>8. ids = {} => BestOf(entries, ids) = NoId
  BY DEF BestOf
<1> QED BY <1>4, <1>6, <1>7, <1>8

Fitting(entries, ids, q) == {id \in ids : EntryMatches(entries[id], q)}

LEMMA SelectIs ==
    ASSUME NEW entries, AreEntries(entries), NEW q, NEW seen \in SUBSET DOMAIN entries, NEW ids \in SUBSET DOMAIN entries
    PROVE  Select(entries, ids, q, BestOf(entries, Fitting(entries, seen, q)))
             = BestOf(entries, Fitting(entries, seen \cup ids, q))
<1>1. PICK A : A = Fitting(entries, seen, q)
  OBVIOUS
<1>2. PICK B : B = Fitting(entries, ids, q)
  OBVIOUS
<1>3. PICK C : C = Fitting(entries, seen \cup ids, q)
  OBVIOUS
<1>4. C = A \cup B /\ A \in SUBSET DOMAIN entries /\ B \in SUBSET DOMAIN entries /\ C \in SUBSET DOMAIN entries
  BY <1>1, <1>2, <1>3 DEF Fitting
<1>5. PICK best : best = BestOf(entries, A)
  OBVIOUS
<1>6. PICK better : better = {id \in B : best = NoId \/ Precedes(entries, best, id)}
  OBVIOUS
<1>7. better = {id \in ids : EntryMatches(entries[id], q) /\ (best = NoId \/ Precedes(entries, best, id))}
  BY <1>2, <1>6 DEF Fitting
<1>8. Select(entries, ids, q, best) = IF better = {} THEN best ELSE BestOf(entries, better)
  BY <1>7 DEF Select, BestOf
<1>9. better \in SUBSET DOMAIN entries
  BY <1>4, <1>6
<1>10. /\ A = {} => best = NoId
       /\ A # {} => best # NoId /\ best \in A /\ \A x \in A \ {best} : Precedes(entries, x, best)
  BY <1>4, <1>5, BestOfIs DEF IsBest
<1>11. CASE better = {}
  <2>1. CASE A = {}
    <3>1. B = {} /\ C = {}
      BY <1>4, <1>6, <1>10, <1>11, <2>1
    <3> QED BY <1>1, <1>3, <1>5, <1>8, <1>11, <2>1, <3>1
  <2>2. CASE A # {}
    <3>1. ASSUME NEW x \in C \ {best} PROVE Precedes(entries, x, best)
      <4>1. CASE x \in A
        BY <1>10, <2>2, <3>1, <4>1
      <4>2. CASE x \in B
        <5>1. ~Precedes(entries, best, x)
          BY <1>6, <1>11, <4>2
        <5>2. best \in DOMAIN entries /\ x \in DOMAIN entries /\ x # best
          BY <1>4, <1>10, <2>2, <3>1
        <5> QED BY <5>1, <5>2, PrecedesOrder
      <4> QED BY <1>4, <4>1, <4>2
    <3>2. IsBest(entries, C, best)
      BY <1>4, <1>10, <2>2, <3>1 DEF IsBest
    <3>3. BestOf(entries, C) = best
      BY <1>4, <3>2, BestOfIs
    <3> QED BY <1>1, <1>3, <1>5, <1>8, <1>11, <3>3
  <2> QED BY <2>1, <2>2
<1>12. CASE better # {}
  <2>1. PICK m : m = BestOf(entries, better)
    OBVIOUS
  <2>2. m \in better /\ \A x \in better \ {m} : Precedes(entries, x, m)
    BY <1>9, <1>12, <2>1, BestOfIs DEF IsBest
  <2>3. m \in B /\ m \in DOMAIN entries /\ (A # {} => Precedes(entries, best, m))
    BY <1>4, <1>6, <1>10, <2>2
  <2>4. ASSUME NEW x \in C \ {m} PROVE Precedes(entries, x, m)
    <3>1. x \in DOMAIN entries
      BY <1>4
    <3>2. CASE x \in better
      BY <2>2, <2>4, <3>2
    <3>3. CASE x \notin better
      <4>1. A # {} /\ (x \in A \/ (x \in B /\ ~Precedes(entries, best, x)))
        BY <1>4, <1>6, <1>10, <3>3
      <4>2. best \in DOMAIN entries /\ Precedes(entries, best, m)
        BY <1>4, <1>10, <2>3, <4>1
      <4>3. x = best \/ Precedes(entries, x, best)
        BY <1>10, <3>1, <4>1, <4>2, PrecedesOrder
      <4> QED BY <2>3, <3>1, <4>2, <4>3, PrecedesOrder
    <3> QED BY <3>2, <3>3
  <2>5. IsBest(entries, C, m)
    BY <1>4, <2>3, <2>4 DEF IsBest
  <2>6. BestOf(entries, C) = m
    BY <1>4, <2>5, BestOfIs
  <2> QED BY <1>1, <1>3, <1>5, <1>8, <1>12, <2>1, <2>6
<1> QED BY <1>11, <1>12

(* The entries of one hostname that the lookups down to the n-th end of a  *)
(* path have found (exact paths only for n = -1).                          *)
Tried(entries, pattern, q, n) ==
    {id \in DOMAIN entries :
        /\ entries[id].hostname = pattern
        /\ \/ entries[id].kind = "exact" /\ entries[id].path = q.path
           \/ /\ entries[id].kind = "ingress"
              /\ \E end \in 1..Len(q.path) : /\ end >= Len(q.path) - n /\ AtSlash(q.path, end)
                                             /\ PathKey(entries[id]) = SubSeq(q.path, 1, end)}

LEMMA ExactTried ==
    ASSUME NEW entries, AreEntries(entries), NEW q, IsQuery(q), NEW pattern
    PROVE  GroupExact(entries, pattern, q) = BestOf(entries, Fitting(entries, Tried(entries, pattern, q, -1), q))
<1>1. PICK ids : ids = {id \in DOMAIN entries : /\ entries[id].hostname = pattern /\ entries[id].kind = "exact"
                                                /\ entries[id].path = q.path}
  OBVIOUS
<1>2. Len(q.path) \in Nat
  BY DEF IsQuery
<1>3. \A end \in 1..Len(q.path) : ~(end >= Len(q.path) - (-1))
  BY <1>2
<1>4. Tried(entries, pattern, q, -1) = ids
  BY <1>1, <1>3 DEF Tried
<1>5. Fitting(entries, {}, q) = {} /\ BestOf(entries, {}) = NoId
  BY DEF Fitting, BestOf
<1>6. ids \in SUBSET DOMAIN entries /\ {} \in SUBSET DOMAIN entries /\ {} \cup ids = ids
  BY <1>1
<1>7. Select(entries, ids, q, BestOf(entries, Fitting(entries, {}, q))) = BestOf(entries, Fitting(entries, {} \cup ids, q))
  BY <1>6, SelectIs
<1>8. GroupExact(entries, pattern, q) = Select(entries, ids, q, NoId)
  BY <1>1 DEF GroupExact
<1> QED BY <1>4, <1>5, <1>6, <1>7, <1>8

LEMMA CutTried ==
    ASSUME NEW entries, AreEntries(entries), NEW q, IsQuery(q), NEW pattern, NEW n \in 0..Len(q.path)
    PROVE  GroupCut(entries, pattern, q, Len(q.path) - n,
                    BestOf(entries, Fitting(entries, Tried(entries, pattern, q, n - 1), q)))
             = BestOf(entries, Fitting(entries, Tried(entries, pattern, q, n), q))
<1>1. PICK end : end = Len(q.path) - n
  OBVIOUS
<1>2. Len(q.path) \in Nat /\ end \in 0..Len(q.path) /\ Len(q.path) - (n - 1) = end + 1 /\ n \in Nat
  BY <1>1 DEF IsQuery
<1>3. PICK A : A = Tried(entries, pattern, q, n - 1)
  OBVIOUS
<1>4. PICK B : B = Prefixed(entries, pattern, SubSeq(q.path, 1, end))
  OBVIOUS
<1>5. A \in SUBSET DOMAIN entries /\ B \in SUBSET DOMAIN entries
  BY <1>3, <1>4 DEF Tried, Prefixed
<1>6. CASE end > 0 /\ AtSlash(q.path, end)
  <2>1. end \in 1..Len(q.path)
    BY <1>2, <1>6
  <2>2. ASSUME NEW id \in DOMAIN entries PROVE id \in Tried(entries, pattern, q, n) <=> id \in A \/ id \in B
    <3>1. id \in B <=> /\ entries[id].hostname = pattern /\ entries[id].kind = "ingress"
                       /\ PathKey(entries[id]) = SubSeq(q.path, 1, end)
      BY <1>4 DEF Prefixed
    <3>2. (\E x \in 1..Len(q.path) : /\ x >= Len(q.path) - n /\ AtSlash(q.path, x)
                                    /\ PathKey(entries[id]) = SubSeq(q.path, 1, x))
          <=> \/ PathKey(entries[id]) = SubSeq(q.path, 1, end)
              \/ \E x \in 1..Len(q.path) : /\ x >= Len(q.path) - (n - 1) /\ AtSlash(q.path, x)
                                           /\ PathKey(entries[id]) = SubSeq(q.path, 1, x)
      <4>1. \A x \in 1..Len(q.path) : x >= Len(q.path) - n <=> x = end \/ x >= Len(q.path) - (n - 1)
        BY <1>1, <1>2
      <4> QED BY <1>6, <2>1, <4>1
    <3> QED BY <1>3, <3>1, <3>2 DEF Tried
  <2>3. Tried(entries, pattern, q, n) \subseteq DOMAIN entries
    BY DEF Tried
  <2>4. Tried(entries, pattern, q, n) = A \cup B
    BY <1>5, <2>2, <2>3
  <2>5. \A best : GroupCut(entries, pattern, q, end, best) = Select(entries, B, q, best)
    BY <1>4, <1>6 DEF GroupCut
  <2> QED BY <1>1, <1>3, <1>5, <2>4, <2>5, SelectIs
<1>7. CASE ~(end > 0 /\ AtSlash(q.path, end))
  <2>1. ASSUME NEW id \in DOMAIN entries PROVE id \in Tried(entries, pattern, q, n) <=> id \in A
    <3>1. \A x \in 1..Len(q.path) : x >= Len(q.path) - n /\ AtSlash(q.path, x) <=> x >= Len(q.path) - (n - 1) /\ AtSlash(q.path, x)
      <4>1. ASSUME NEW x \in 1..Len(q.path), x >= Len(q.path) - n, AtSlash(q.path, x) PROVE x >= Len(q.path) - (n - 1)
        <5>1. x # end
          BY <1>2, <1>7, <4>1
        <5> QED BY <1>1, <1>2, <4>1, <5>1
      <4>2. \A x \in 1..Len(q.path) : x >= Len(q.path) - (n - 1) => x >= Len(q.path) - n
        BY <1>2
      <4> QED BY <4>1, <4>2
    <3> QED BY <1>3, <3>1 DEF Tried
  <2>2. Tried(entries, pattern, q, n) \subseteq DOMAIN entries
    BY DEF Tried
  <2>3. Tried(entries, pattern, q, n) = A
    BY <1>5, <2>1, <2>2
  <2>4. \A best : GroupCut(entries, pattern, q, end, best) = best
    BY <1>7 DEF GroupCut
  <2> QED BY <1>1, <1>3, <2>3, <2>4
<1> QED BY <1>6, <1>7

(* Whatever matches in a group is seen.                                    *)
Grouped(entries, pattern, q) == {id \in DOMAIN entries : entries[id].hostname = pattern /\ EntryMatches(entries[id], q)}

LEMMA AllTried ==
    ASSUME NEW entries, AreEntries(entries), NEW q, IsQuery(q), NEW pattern
    PROVE  Fitting(entries, Tried(entries, pattern, q, Len(q.path)) \cup Prefixed(entries, pattern, <<>>), q)
             = Grouped(entries, pattern, q)
<1>1. q.path \in Seq(Text) /\ Len(q.path) \in Nat
  BY DEF IsQuery
<1>2. ASSUME NEW id \in DOMAIN entries, entries[id].hostname = pattern, EntryMatches(entries[id], q)
      PROVE  id \in Tried(entries, pattern, q, Len(q.path)) \/ id \in Prefixed(entries, pattern, <<>>)
  <2>1. entries[id].kind \in {"exact", "ingress"} /\ entries[id].path \in Seq(Text) /\ Matches(entries[id], q.path)
    BY <1>2 DEF AreEntries, IsMatcher, EntryMatches
  <2>2. CASE entries[id].kind = "exact"
    <3>1. entries[id].path = q.path
      BY <2>1, <2>2 DEF Matches
    <3> QED BY <1>2, <2>2, <3>1 DEF Tried
  <2>3. CASE entries[id].kind = "ingress"
    <3>1. \/ PathKey(entries[id]) = <<>>
          \/ \E end \in 1..Len(q.path) : PathKey(entries[id]) = SubSeq(q.path, 1, end) /\ AtSlash(q.path, end)
      BY <1>1, <2>1, <2>3, IngressMatches
    <3>2. \A end \in 1..Len(q.path) : end >= Len(q.path) - Len(q.path)
      BY <1>1
    <3> QED BY <1>2, <2>3, <3>1, <3>2 DEF Tried, Prefixed
  <2> QED BY <2>1, <2>2, <2>3
<1>3. ASSUME NEW id, id \in Tried(entries, pattern, q, Len(q.path)) \/ id \in Prefixed(entries, pattern, <<>>)
      PROVE  id \in DOMAIN entries /\ entries[id].hostname = pattern
  BY <1>3 DEF Tried, Prefixed
<1> QED BY <1>2, <1>3 DEF Fitting, Grouped

(* A group answers with the best of its entries that match.                *)
LEMMA GroupIs ==
    ASSUME NEW entries, AreEntries(entries), NEW q, IsQuery(q), NEW pattern
    PROVE  Group(entries, pattern, q) = BestOf(entries, Grouped(entries, pattern, q))
<1>1. PICK L : L = Len(q.path)
  OBVIOUS
<1>2. L \in Nat
  BY <1>1 DEF IsQuery
<1>3. PICK w : w = [n \in 0..L |-> BestOf(entries, Fitting(entries, Tried(entries, pattern, q, n), q))]
  OBVIOUS
<1>4. PICK tried : tried = CHOOSE f : f = [n \in 0..L |-> GroupCut(entries, pattern, q, L - n,
                                                IF n = 0 THEN GroupExact(entries, pattern, q) ELSE f[n - 1])]
  OBVIOUS
<1>5. Group(entries, pattern, q) = Select(entries, Prefixed(entries, pattern, <<>>), q, tried[L])
  BY <1>1, <1>4 DEF Group
<1>6. ASSUME NEW n \in 0..L, NEW before,
             before = BestOf(entries, Fitting(entries, Tried(entries, pattern, q, n - 1), q))
      PROVE  GroupCut(entries, pattern, q, L - n, before) = w[n]
  BY <1>1, <1>3, <1>6, CutTried
<1>7. GroupExact(entries, pattern, q) = BestOf(entries, Fitting(entries, Tried(entries, pattern, q, 0 - 1), q))
  BY ExactTried
<1>8. w = [n \in 0..L |-> GroupCut(entries, pattern, q, L - n, IF n = 0 THEN GroupExact(entries, pattern, q) ELSE w[n - 1])]
  <2>1. ASSUME NEW n \in 0..L
        PROVE  w[n] = GroupCut(entries, pattern, q, L - n, IF n = 0 THEN GroupExact(entries, pattern, q) ELSE w[n - 1])
    <3>1. CASE n = 0
      BY <1>6, <1>7, <3>1
    <3>2. CASE n # 0
      <4>1. n - 1 \in 0..L
        BY <1>2, <3>2
      <4>2. w[n - 1] = BestOf(entries, Fitting(entries, Tried(entries, pattern, q, n - 1), q))
        BY <1>3, <4>1
      <4> QED BY <1>6, <3>2, <4>2
    <3> QED BY <3>1, <3>2
  <2>2. w = [n \in 0..L |-> w[n]]
    BY <1>3
  <2> QED BY <2>1, <2>2
<1>9. tried = [n \in 0..L |-> GroupCut(entries, pattern, q, L - n, IF n = 0 THEN GroupExact(entries, pattern, q) ELSE tried[n - 1])]
  BY <1>4, <1>8
<1>10. \A n \in 0..L : tried[n] = w[n]
  <2>1. PICK Bad : Bad = {n \in 0..L : tried[n] # w[n]}
    OBVIOUS
  <2>2. SUFFICES ASSUME Bad # {} PROVE FALSE
    BY <2>1
  <2>3. PICK n \in Bad : \A m \in Bad : n <= m
    <3>1. Bad \subseteq Nat
      BY <2>1
    <3> QED BY <2>2, <3>1, LeastOf
  <2>4. n \in 0..L /\ tried[n] # w[n]
    BY <2>1, <2>3
  <2>5. tried[n] = GroupCut(entries, pattern, q, L - n, IF n = 0 THEN GroupExact(entries, pattern, q) ELSE tried[n - 1])
    BY <1>9, <2>4
  <2>6. CASE n = 0
    BY <1>6, <1>7, <2>4, <2>5, <2>6
  <2>7. CASE n # 0
    <3>1. n - 1 \in 0..L /\ n - 1 \notin Bad
      BY <1>2, <2>3, <2>4, <2>7
    <3>2. tried[n - 1] = w[n - 1]
      BY <2>1, <3>1
    <3>3. tried[n - 1] = BestOf(entries, Fitting(entries, Tried(entries, pattern, q, n - 1), q))
      BY <1>3, <3>1, <3>2
    <3> QED BY <1>6, <2>4, <2>5, <2>7, <3>3
  <2> QED BY <2>6, <2>7
<1>11. tried[L] = BestOf(entries, Fitting(entries, Tried(entries, pattern, q, L), q))
  BY <1>2, <1>3, <1>10
<1>12. Tried(entries, pattern, q, L) \in SUBSET DOMAIN entries /\ Prefixed(entries, pattern, <<>>) \in SUBSET DOMAIN entries
  BY DEF Tried, Prefixed
<1>13. Select(entries, Prefixed(entries, pattern, <<>>), q, tried[L])
         = BestOf(entries, Fitting(entries, Tried(entries, pattern, q, L) \cup Prefixed(entries, pattern, <<>>), q))
  BY <1>11, <1>12, SelectIs
<1>14. Fitting(entries, Tried(entries, pattern, q, L) \cup Prefixed(entries, pattern, <<>>), q) = Grouped(entries, pattern, q)
  BY <1>1, AllTried
<1> QED BY <1>5, <1>13, <1>14

-----------------------------------------------------------------------------
(* The patterns a host is looked up under are those of rank 0 or more, in  *)
(* the order of their ranks.                                               *)

RankAt(host, n) == IF n = Len(host) + 1 THEN 0 ELSE IF n = 1 THEN ExactRank ELSE Len(host) - n + 1

LEMMA RankAtIs ==
    ASSUME NEW host, IsHost(host)
    PROVE  /\ Len(host) \in Nat /\ Matching(host) = [n \in 1..(Len(host) + 1) |-> Matching(host)[n]]
           /\ DOMAIN Matching(host) = 1..(Len(host) + 1)
           /\ \A n \in 1..(Len(host) + 1) : RankAt(host, n) \in Nat
           /\ \A n, m \in 1..(Len(host) + 1) : n < m => RankAt(host, m) < RankAt(host, n)
<1>1. Len(host) \in Nat /\ Len(host) < ExactRank /\ ExactRank \in Nat
  BY DEF IsHost, ExactRank
<1> QED BY <1>1 DEF RankAt, Matching

LEMMA MatchingIs ==
    ASSUME NEW host, IsHost(host), NEW p, IsPattern(p)
    PROVE  /\ \A n \in 1..(Len(host) + 1) : p = Matching(host)[n] <=> GatewayHostRank(p, host) = RankAt(host, n)
           /\ GatewayHostRank(p, host) >= 0 => \E n \in 1..(Len(host) + 1) : p = Matching(host)[n]
           /\ GatewayHostRank(p, host) \in Int
<1>1. Len(host) \in Nat /\ Len(host) < ExactRank /\ ExactRank \in Nat /\ host \in Seq(Text)
  BY DEF IsHost, ExactRank
<1>2. PICK L : L = Len(host)
  OBVIOUS
<1>3. PICK rank : rank = GatewayHostRank(p, host)
  OBVIOUS
<1>4. rank = IF p = AnyHost THEN 0 ELSE IF ~p.wild /\ p.labels = host THEN ExactRank
             ELSE IF Covers(p, host) THEN Len(p.labels) ELSE -1
  BY <1>3 DEF GatewayHostRank
<1>5. /\ p = [wild |-> p.wild, labels |-> p.labels] /\ p.labels \in Seq(Text) /\ Len(p.labels) \in Nat
      /\ p.wild \in BOOLEAN /\ (p.wild => Len(p.labels) # 0)
  BY PatternIs
<1>6. Matching(host)[L + 1] = AnyHost
  BY <1>1, <1>2 DEF Matching
<1>7. L > 0 => Matching(host)[1] = ExactName(host)
  <2>1. From(host, 1) = host
    BY <1>1, SubSeqFull DEF From
  <2>2. L > 0 => 1 \in 1..(Len(host) + 1) /\ 1 # Len(host) + 1
    BY <1>1, <1>2
  <2>3. L > 0 => Matching(host)[1] = [wild |-> 1 > 1, labels |-> From(host, 1)]
    BY <2>2 DEF Matching
  <2>4. (1 > 1) = FALSE
    OBVIOUS
  <2> QED BY <2>1, <2>3, <2>4 DEF ExactName
<1>8. \A n \in 2..L : Matching(host)[n] = SuffixName(host, n - 1)
  <2>1. ASSUME NEW n \in 2..L PROVE Matching(host)[n] = SuffixName(host, n - 1)
    <3>1. n \in 1..(Len(host) + 1) /\ n # Len(host) + 1 /\ (n > 1) = TRUE /\ (n - 1) + 1 = n
      BY <1>1, <1>2
    <3>2. Matching(host)[n] = [wild |-> n > 1, labels |-> From(host, n)]
      BY <3>1 DEF Matching
    <3> QED BY <3>1, <3>2 DEF SuffixName
  <2> QED BY <2>1
<1>9. (~p.wild /\ p.labels = host) <=> p = ExactName(host)
  BY <1>5 DEF ExactName
<1>10. p = AnyHost => ~p.wild /\ p.labels = <<>>
  BY DEF AnyHost
<1>11. L > 0 => host # <<>>
  BY <1>2
<1>12. \A n \in 2..L : p = SuffixName(host, n - 1) => p.wild /\ Covers(p, host) /\ Len(p.labels) = L - n + 1
  <2>1. ASSUME NEW n \in 2..L, p = SuffixName(host, n - 1) PROVE p.wild /\ Covers(p, host) /\ Len(p.labels) = L - n + 1
    <3>1. n - 1 \in 1..(Len(host) - 1)
      BY <1>1, <1>2
    <3>2. Covers(p, host) /\ Len(p.labels) = Len(host) - (n - 1)
      BY <2>1, <3>1, CoversIs
    <3> QED BY <1>1, <1>2, <3>2 DEF Covers
  <2> QED BY <2>1
<1>13. Covers(p, host) => /\ p.wild /\ L - Len(p.labels) + 1 \in 2..L
                          /\ p = SuffixName(host, (L - Len(p.labels) + 1) - 1)
  <2>1. SUFFICES ASSUME Covers(p, host) PROVE /\ p.wild /\ L - Len(p.labels) + 1 \in 2..L
                          /\ p = SuffixName(host, (L - Len(p.labels) + 1) - 1)
    OBVIOUS
  <2>2. Len(host) - Len(p.labels) \in 1..(Len(host) - 1) /\ p = SuffixName(host, Len(host) - Len(p.labels)) /\ p.wild
    BY <2>1, CoversIs DEF Covers
  <2>3. (L - Len(p.labels) + 1) - 1 = Len(host) - Len(p.labels)
    BY <1>1, <1>2, <1>5
  <2> QED BY <1>1, <1>2, <1>5, <2>2, <2>3
<1>15. CASE p = AnyHost
  <2>1. rank = 0 /\ p = Matching(host)[L + 1] /\ L + 1 \in 1..(L + 1)
    BY <1>1, <1>2, <1>4, <1>6, <1>15
  <2>2. ASSUME NEW n \in 1..L PROVE p # Matching(host)[n] /\ RankAt(host, n) # 0
    <3>1. RankAt(host, n) # 0
      BY <1>1, <1>2 DEF RankAt
    <3>2. CASE n = 1
      BY <1>2, <1>7, <1>9, <1>10, <1>11, <1>15, <3>1, <3>2
    <3>3. CASE n # 1
      <4>1. n \in 2..L
        BY <1>1, <1>2, <3>3
      <4> QED BY <1>8, <1>10, <1>12, <1>15, <3>1, <4>1
    <3> QED BY <3>2, <3>3
  <2>3. RankAt(host, L + 1) = 0
    BY <1>2 DEF RankAt
  <2>4. \A n \in 1..(L + 1) : n = L + 1 \/ n \in 1..L
    BY <1>1, <1>2
  <2> QED BY <1>2, <1>3, <2>1, <2>2, <2>3, <2>4
<1>16. CASE p # AnyHost /\ p = ExactName(host)
  <2>1. L > 0 /\ rank = ExactRank /\ ~p.wild
    <3>1. host # <<>>
      BY <1>16 DEF AnyHost, ExactName
    <3> QED BY <1>1, <1>2, <1>4, <1>9, <1>16, <3>1, EmptySeq
  <2>2. p = Matching(host)[1] /\ RankAt(host, 1) = ExactRank /\ 1 \in 1..(L + 1)
    BY <1>1, <1>2, <1>7, <1>16, <2>1 DEF RankAt
  <2>3. ASSUME NEW n \in 1..(L + 1), n # 1 PROVE p # Matching(host)[n] /\ RankAt(host, n) # ExactRank
    <3>1. RankAt(host, n) # ExactRank
      BY <1>1, <1>2, <2>3 DEF RankAt
    <3>2. CASE n = L + 1
      BY <1>6, <1>16, <3>1, <3>2
    <3>3. CASE n # L + 1
      <4>1. n \in 2..L
        BY <1>1, <1>2, <2>3, <3>3
      <4> QED BY <1>8, <1>12, <2>1, <3>1, <4>1
    <3> QED BY <3>2, <3>3
  <2> QED BY <1>1, <1>2, <1>3, <2>1, <2>2, <2>3
<1>17. CASE p # AnyHost /\ p # ExactName(host) /\ Covers(p, host)
  <2>1. PICK m : m = L - Len(p.labels) + 1
    OBVIOUS
  <2>2. /\ m \in 2..L /\ p = SuffixName(host, m - 1) /\ p = Matching(host)[m] /\ rank = Len(p.labels)
        /\ m \in 1..(L + 1) /\ rank = L - m + 1
    BY <1>1, <1>2, <1>4, <1>5, <1>8, <1>9, <1>13, <1>17, <2>1
  <2>3. RankAt(host, m) = rank
    BY <1>1, <1>2, <2>2 DEF RankAt
  <2>4. ASSUME NEW n \in 1..(L + 1), n # m PROVE p # Matching(host)[n] /\ RankAt(host, n) # rank
    <3>1. RankAt(host, n) # rank
      BY <1>1, <1>2, <2>2, <2>4 DEF RankAt
    <3>2. CASE n = L + 1
      BY <1>6, <1>17, <3>1, <3>2
    <3>3. CASE n # L + 1 /\ n = 1
      BY <1>1, <1>2, <1>7, <1>17, <2>2, <3>1, <3>3
    <3>4. CASE n \in 2..L
      <4>1. p = SuffixName(host, n - 1) => Len(p.labels) = L - n + 1
        BY <1>12, <3>4
      <4>2. Len(p.labels) # L - n + 1
        <5>1. L \in Int /\ m \in Int /\ n \in Int /\ Len(p.labels) = L - m + 1
          BY <1>1, <1>2, <2>2
        <5> QED BY <2>4, <5>1
      <4> QED BY <1>8, <3>1, <3>4, <4>1, <4>2
    <3> QED BY <1>1, <1>2, <3>2, <3>3, <3>4
  <2> QED BY <1>2, <1>3, <1>5, <2>2, <2>3, <2>4
<1>18. CASE p # AnyHost /\ p # ExactName(host) /\ ~Covers(p, host)
  <2>1. rank = -1
    BY <1>4, <1>9, <1>18
  <2>2. ASSUME NEW n \in 1..(L + 1) PROVE p # Matching(host)[n] /\ RankAt(host, n) # rank
    <3>1. RankAt(host, n) # rank
      BY <1>1, <1>2, <2>1 DEF RankAt
    <3>2. CASE n = L + 1
      BY <1>6, <1>18, <3>1, <3>2
    <3>3. CASE n # L + 1 /\ n = 1
      BY <1>1, <1>2, <1>7, <1>18, <3>1, <3>3
    <3>4. CASE n \in 2..L
      BY <1>8, <1>12, <1>18, <3>1, <3>4
    <3> QED BY <1>1, <1>2, <3>2, <3>3, <3>4
  <2> QED BY <1>2, <1>3, <2>1, <2>2
<1> QED BY <1>15, <1>16, <1>17, <1>18

(* The first pattern in the order of the lookups that has an entry has the *)
(* best rank of all that have one.                                         *)
LEMMA FirstHit ==
    ASSUME NEW host, IsHost(host), NEW hits, hits \subseteq DOMAIN Matching(host), hits # {}
    PROVE  /\ Min(hits) \in hits /\ Min(hits) \in 1..(Len(host) + 1)
           /\ \A n \in hits : n = Min(hits) \/ RankAt(host, n) < RankAt(host, Min(hits))
<1>1. DOMAIN Matching(host) = 1..(Len(host) + 1) /\ Len(host) \in Nat
  BY RankAtIs
<1>2. hits \subseteq Nat
  BY <1>1
<1>3. Min(hits) \in hits /\ \A x \in hits : Min(hits) <= x
  BY <1>2, LeastIs
<1>4. ASSUME NEW n \in hits, n # Min(hits) PROVE RankAt(host, n) < RankAt(host, Min(hits))
  <2>1. Min(hits) < n /\ n \in 1..(Len(host) + 1) /\ Min(hits) \in 1..(Len(host) + 1)
    <3>1. n \in 1..(Len(host) + 1) /\ Min(hits) \in 1..(Len(host) + 1) /\ Min(hits) <= n
      BY <1>1, <1>3
    <3>2. n \in Int /\ Min(hits) \in Int
      BY <1>1, <3>1
    <3> QED BY <1>4, <3>1, <3>2
  <2> QED BY <2>1, RankAtIs
<1> QED BY <1>1, <1>3, <1>4

(* The listener that answers is the last of those of the best rank.        *)
LEMMA ListenerForIsBest ==
    ASSUME NEW listeners, AreListeners(listeners), NEW q, IsQuery(q)
    PROVE  /\ ListenerFor(listeners, q) = BestListener(listeners, q)
           /\ ListenerFor(listeners, q) # NoId => ListenerFor(listeners, q) \in DOMAIN listeners
<1>1. IsHost(q.host)
  BY DEF IsQuery, IsHost
<1>2. /\ DOMAIN listeners = 1..Len(listeners) /\ Len(listeners) \in Nat
      /\ \A l \in DOMAIN listeners : IsPattern(listeners[l].hostname)
  BY DEF AreListeners, IsList
<1>3. DOMAIN Matching(q.host) = 1..(Len(q.host) + 1) /\ Len(q.host) \in Nat
  BY <1>1, RankAtIs
<1>4. PICK heard : heard = {l \in DOMAIN listeners : listeners[l].address = q.address
                                                     /\ GatewayHostRank(listeners[l].hostname, q.host) >= 0}
  OBVIOUS
<1>5. PICK At : At = [n \in DOMAIN Matching(q.host) |->
                        {l \in DOMAIN listeners : listeners[l].address = q.address
                                                  /\ listeners[l].hostname = Matching(q.host)[n]}]
  OBVIOUS
<1>6. PICK hits : hits = {n \in DOMAIN Matching(q.host) : At[n] # {}}
  OBVIOUS
<1>7. ListenerFor(listeners, q) = IF hits = {} THEN NoId ELSE Max(At[Min(hits)])
  <2>1. hits = {n \in DOMAIN Matching(q.host) : {l \in DOMAIN listeners : listeners[l].address = q.address
                                                  /\ listeners[l].hostname = Matching(q.host)[n]} # {}}
    BY <1>5, <1>6
  <2>2. hits # {} => Min(hits) \in DOMAIN Matching(q.host)
    <3>1. hits \subseteq DOMAIN Matching(q.host)
      BY <1>6
    <3> QED BY <1>1, <1>3, <3>1, FirstHit
  <2>3. hits # {} => At[Min(hits)] = {l \in DOMAIN listeners : listeners[l].address = q.address
                                                  /\ listeners[l].hostname = Matching(q.host)[Min(hits)]}
    BY <1>5, <2>2
  <2> QED BY <2>1, <2>3 DEF ListenerFor
<1>8. ASSUME NEW l \in heard
      PROVE  \E n \in hits : l \in At[n] /\ GatewayHostRank(listeners[l].hostname, q.host) = RankAt(q.host, n)
  <2>1. l \in DOMAIN listeners /\ listeners[l].address = q.address /\ IsPattern(listeners[l].hostname)
    BY <1>2, <1>4
  <2>2. PICK n \in 1..(Len(q.host) + 1) : listeners[l].hostname = Matching(q.host)[n]
    BY <1>1, <1>4, <2>1, MatchingIs
  <2>3. GatewayHostRank(listeners[l].hostname, q.host) = RankAt(q.host, n)
    BY <1>1, <2>1, <2>2, MatchingIs
  <2>4. l \in At[n] /\ n \in hits
    BY <1>3, <1>5, <1>6, <2>1, <2>2
  <2> QED BY <2>3, <2>4
<1>9. ASSUME NEW n \in hits, NEW l \in At[n]
      PROVE  l \in heard /\ GatewayHostRank(listeners[l].hostname, q.host) = RankAt(q.host, n)
  <2>1. n \in 1..(Len(q.host) + 1)
    BY <1>3, <1>6
  <2>2. l \in DOMAIN listeners /\ listeners[l].address = q.address /\ listeners[l].hostname = Matching(q.host)[n]
    BY <1>3, <1>5, <2>1
  <2>3. GatewayHostRank(listeners[l].hostname, q.host) = RankAt(q.host, n)
    BY <1>1, <1>2, <2>1, <2>2, MatchingIs
  <2>4. RankAt(q.host, n) \in Nat
    BY <1>1, <2>1, RankAtIs
  <2> QED BY <1>4, <2>2, <2>3, <2>4
<1>10. BestListener(listeners, q) = IF heard = {} THEN NoId
          ELSE CHOOSE l \in heard : \A x \in heard \ {l} :
             \/ GatewayHostRank(listeners[x].hostname, q.host) < GatewayHostRank(listeners[l].hostname, q.host)
             \/ GatewayHostRank(listeners[x].hostname, q.host) = GatewayHostRank(listeners[l].hostname, q.host) /\ x < l
  BY <1>4 DEF BestListener
<1>11. CASE hits = {}
  <2>1. heard = {}
    BY <1>8, <1>11
  <2> QED BY <1>7, <1>10, <1>11, <2>1
<1>12. CASE hits # {}
  <2>1. PICK n : n = Min(hits)
    OBVIOUS
  <2>2. n \in hits /\ n \in 1..(Len(q.host) + 1) /\ \A m \in hits : m = n \/ RankAt(q.host, m) < RankAt(q.host, n)
    <3>1. hits \subseteq DOMAIN Matching(q.host)
      BY <1>6
    <3> QED BY <1>1, <1>12, <2>1, <3>1, FirstHit
  <2>3. PICK top : top = Max(At[n])
    OBVIOUS
  <2>4. top \in At[n] /\ \A x \in At[n] : x <= top
    <3>1. At[n] \subseteq DOMAIN listeners /\ At[n] # {}
      BY <1>3, <1>5, <1>6, <2>2
    <3>2. At[n] \subseteq -1..Len(listeners)
      BY <1>2, <3>1
    <3> QED BY <1>2, <2>3, <3>1, <3>2, MaxIs
  <2>5. top \in heard /\ top \in DOMAIN listeners /\ GatewayHostRank(listeners[top].hostname, q.host) = RankAt(q.host, n)
    BY <1>4, <1>9, <2>2, <2>4
  <2>6. ASSUME NEW x \in heard, x # top
        PROVE  \/ GatewayHostRank(listeners[x].hostname, q.host) < GatewayHostRank(listeners[top].hostname, q.host)
               \/ GatewayHostRank(listeners[x].hostname, q.host) = GatewayHostRank(listeners[top].hostname, q.host) /\ x < top
    <3>1. PICK m \in hits : x \in At[m] /\ GatewayHostRank(listeners[x].hostname, q.host) = RankAt(q.host, m)
      BY <1>8
    <3>2. CASE m = n
      <4>1. x <= top /\ x \in Nat /\ top \in Nat
        BY <1>2, <1>4, <2>4, <2>5, <3>1, <3>2
      <4> QED BY <2>5, <2>6, <3>1, <3>2, <4>1
    <3>3. CASE m # n
      BY <2>2, <2>5, <3>1, <3>3
    <3> QED BY <3>2, <3>3
  <2>7. ASSUME NEW l \in heard, \A x \in heard \ {l} :
             \/ GatewayHostRank(listeners[x].hostname, q.host) < GatewayHostRank(listeners[l].hostname, q.host)
             \/ GatewayHostRank(listeners[x].hostname, q.host) = GatewayHostRank(listeners[l].hostname, q.host) /\ x < l
        PROVE  l = top
    <3>1. SUFFICES ASSUME l # top PROVE FALSE
      OBVIOUS
    <3>2. /\ GatewayHostRank(listeners[l].hostname, q.host) \in Int /\ GatewayHostRank(listeners[top].hostname, q.host) \in Int
          /\ l \in Nat /\ top \in Nat
      BY <1>1, <1>2, <1>4, <2>5, MatchingIs
    <3>3. \/ GatewayHostRank(listeners[top].hostname, q.host) < GatewayHostRank(listeners[l].hostname, q.host)
          \/ GatewayHostRank(listeners[top].hostname, q.host) = GatewayHostRank(listeners[l].hostname, q.host) /\ top < l
      BY <2>5, <2>7, <3>1
    <3>4. \/ GatewayHostRank(listeners[l].hostname, q.host) < GatewayHostRank(listeners[top].hostname, q.host)
          \/ GatewayHostRank(listeners[l].hostname, q.host) = GatewayHostRank(listeners[top].hostname, q.host) /\ l < top
      BY <2>6, <3>1
    <3> QED BY <3>2, <3>3, <3>4
  <2>8. BestListener(listeners, q) = top
    BY <1>10, <2>5, <2>6, <2>7
  <2> QED BY <1>7, <1>12, <2>1, <2>3, <2>5, <2>8
<1> QED BY <1>11, <1>12

(* The entry that answers is the best of those of the best rank.           *)
Fits(entries, q) ==
    {e \in DOMAIN entries : EntryMatches(entries[e], q) /\ GatewayHostRank(entries[e].hostname, q.host) >= 0}
Beats(entries, q, e, x) ==
    \/ GatewayHostRank(entries[x].hostname, q.host) < GatewayHostRank(entries[e].hostname, q.host)
    \/ GatewayHostRank(entries[x].hostname, q.host) = GatewayHostRank(entries[e].hostname, q.host) /\ Precedes(entries, x, e)

LEMMA BestEntryIs ==
    ASSUME NEW entries, AreEntries(entries), NEW q, IsQuery(q)
    PROVE  /\ Fits(entries, q) = {} => BestEntry(entries, q) = NoId
           /\ \A e \in Fits(entries, q) :
                 (\A x \in Fits(entries, q) \ {e} : Beats(entries, q, e, x)) => BestEntry(entries, q) = e
<1>1. IsHost(q.host)
  BY DEF IsQuery, IsHost
<1>2. BestEntry(entries, q) = IF Fits(entries, q) = {} THEN NoId
            ELSE CHOOSE e \in Fits(entries, q) : \A x \in Fits(entries, q) \ {e} : Beats(entries, q, e, x)
  BY DEF BestEntry, Fits, Beats
<1>3. ASSUME NEW a \in Fits(entries, q), NEW b \in Fits(entries, q), a # b PROVE ~(Beats(entries, q, a, b) /\ Beats(entries, q, b, a))
  <2>1. a \in DOMAIN entries /\ b \in DOMAIN entries
    BY DEF Fits
  <2>2. GatewayHostRank(entries[a].hostname, q.host) \in Int /\ GatewayHostRank(entries[b].hostname, q.host) \in Int
    BY <1>1, <2>1, MatchingIs DEF AreEntries
  <2>3. ~(Precedes(entries, a, b) /\ Precedes(entries, b, a))
    BY <2>1, PrecedesOrder
  <2> QED BY <2>2, <2>3 DEF Beats
<1>4. ASSUME NEW e \in Fits(entries, q), \A x \in Fits(entries, q) \ {e} : Beats(entries, q, e, x)
      PROVE  BestEntry(entries, q) = e
  <2>1. ASSUME NEW f \in Fits(entries, q), \A x \in Fits(entries, q) \ {f} : Beats(entries, q, f, x) PROVE f = e
    BY <1>3, <1>4, <2>1
  <2> QED BY <1>2, <1>4, <2>1
<1> QED BY <1>2, <1>4

LEMMA EntryForIsBest ==
    ASSUME NEW entries, AreEntries(entries), NEW q, IsQuery(q)
    PROVE  /\ EntryFor(entries, q) = BestEntry(entries, q)
           /\ EntryFor(entries, q) # NoId =>
                 /\ EntryFor(entries, q) \in Fits(entries, q)
                 /\ \A x \in Fits(entries, q) \ {EntryFor(entries, q)} : Beats(entries, q, EntryFor(entries, q), x)
           /\ EntryFor(entries, q) = NoId => Fits(entries, q) = {}
<1>1. IsHost(q.host)
  BY DEF IsQuery, IsHost
<1>2. /\ DOMAIN entries = 1..Len(entries) /\ Len(entries) \in Nat
      /\ \A e \in DOMAIN entries : IsPattern(entries[e].hostname)
  BY DEF AreEntries, IsList
<1>3. DOMAIN Matching(q.host) = 1..(Len(q.host) + 1) /\ Len(q.host) \in Nat
  BY <1>1, RankAtIs
<1>4. CASE Len(entries) = 1
  <2>1. DOMAIN entries = {1}
    BY <1>2, <1>4
  <2>2. Fits(entries, q) = IF GatewayHostRank(entries[1].hostname, q.host) >= 0 /\ EntryMatches(entries[1], q) THEN {1} ELSE {}
    BY <2>1 DEF Fits
  <2>3. EntryFor(entries, q) = IF GatewayHostRank(entries[1].hostname, q.host) >= 0 /\ EntryMatches(entries[1], q) THEN 1 ELSE NoId
    BY <1>4 DEF EntryFor
  <2>4. NoId # 1
    BY DEF NoId
  <2>5. CASE GatewayHostRank(entries[1].hostname, q.host) >= 0 /\ EntryMatches(entries[1], q)
    <3>1. 1 \in Fits(entries, q) /\ \A x \in Fits(entries, q) \ {1} : Beats(entries, q, 1, x)
      BY <2>2, <2>5
    <3> QED BY <2>3, <2>4, <2>5, <3>1, BestEntryIs
  <2>6. CASE ~(GatewayHostRank(entries[1].hostname, q.host) >= 0 /\ EntryMatches(entries[1], q))
    BY <2>2, <2>3, <2>6, BestEntryIs
  <2> QED BY <2>5, <2>6
<1>5. CASE Len(entries) # 1
  <2>1. PICK At : At = [n \in DOMAIN Matching(q.host) |-> Group(entries, Matching(q.host)[n], q)]
    OBVIOUS
  <2>2. PICK hits : hits = {n \in DOMAIN Matching(q.host) : At[n] # NoId}
    OBVIOUS
  <2>3. hits \subseteq DOMAIN Matching(q.host)
    BY <2>2
  <2>4. EntryFor(entries, q) = IF hits = {} THEN NoId ELSE At[Min(hits)]
    <3>1. hits = {n \in DOMAIN Matching(q.host) : Group(entries, Matching(q.host)[n], q) # NoId}
      BY <2>1, <2>2
    <3>2. hits # {} => Min(hits) \in DOMAIN Matching(q.host)
      BY <1>1, <1>3, <2>3, FirstHit
    <3>3. hits # {} => At[Min(hits)] = Group(entries, Matching(q.host)[Min(hits)], q)
      BY <2>1, <3>2
    <3> QED BY <1>5, <3>1, <3>3 DEF EntryFor
  <2>5. ASSUME NEW n \in DOMAIN Matching(q.host)
        PROVE  LET G == Grouped(entries, Matching(q.host)[n], q)
               IN  /\ G = {} => At[n] = NoId
                   /\ G # {} => At[n] # NoId /\ At[n] \in G /\ \A x \in G \ {At[n]} : Precedes(entries, x, At[n])
    <3>1. PICK G : G = Grouped(entries, Matching(q.host)[n], q)
      OBVIOUS
    <3>2. At[n] = BestOf(entries, G)
      BY <2>1, <3>1, GroupIs
    <3>3. G \in SUBSET DOMAIN entries
      BY <3>1 DEF Grouped
    <3> QED BY <3>1, <3>2, <3>3, BestOfIs DEF IsBest
  <2>6. ASSUME NEW x \in Fits(entries, q)
        PROVE  \E n \in hits : /\ x \in Grouped(entries, Matching(q.host)[n], q)
                               /\ GatewayHostRank(entries[x].hostname, q.host) = RankAt(q.host, n)
    <3>1. x \in DOMAIN entries /\ EntryMatches(entries[x], q) /\ IsPattern(entries[x].hostname)
          /\ GatewayHostRank(entries[x].hostname, q.host) >= 0
      BY <1>2 DEF Fits
    <3>2. PICK n \in 1..(Len(q.host) + 1) : entries[x].hostname = Matching(q.host)[n]
      BY <1>1, <3>1, MatchingIs
    <3>3. GatewayHostRank(entries[x].hostname, q.host) = RankAt(q.host, n)
      BY <1>1, <3>1, <3>2, MatchingIs
    <3>4. x \in Grouped(entries, Matching(q.host)[n], q)
      BY <3>1, <3>2 DEF Grouped
    <3>5. n \in hits
      BY <1>3, <2>2, <2>5, <3>4
    <3> QED BY <3>3, <3>4, <3>5
  <2>7. CASE hits = {}
    <3>1. Fits(entries, q) = {}
      BY <2>6, <2>7
    <3> QED BY <2>4, <2>7, <3>1, BestEntryIs
  <2>8. CASE hits # {}
    <3>1. PICK n : n = Min(hits)
      OBVIOUS
    <3>2. n \in hits /\ n \in 1..(Len(q.host) + 1) /\ \A m \in hits : m = n \/ RankAt(q.host, m) < RankAt(q.host, n)
      BY <1>1, <2>3, <2>8, <3>1, FirstHit
    <3>3. PICK e : e = At[n]
      OBVIOUS
    <3>4. /\ e # NoId /\ e \in Grouped(entries, Matching(q.host)[n], q)
          /\ \A x \in Grouped(entries, Matching(q.host)[n], q) \ {e} : Precedes(entries, x, e)
      BY <2>2, <2>3, <2>5, <3>2, <3>3
    <3>5. e \in DOMAIN entries /\ entries[e].hostname = Matching(q.host)[n] /\ EntryMatches(entries[e], q)
      BY <3>4 DEF Grouped
    <3>6. GatewayHostRank(entries[e].hostname, q.host) = RankAt(q.host, n) /\ RankAt(q.host, n) \in Nat
      BY <1>1, <1>2, <3>2, <3>5, MatchingIs, RankAtIs
    <3>7. e \in Fits(entries, q)
      BY <3>5, <3>6 DEF Fits
    <3>8. ASSUME NEW x \in Fits(entries, q), x # e PROVE Beats(entries, q, e, x)
      <4>1. PICK m \in hits : /\ x \in Grouped(entries, Matching(q.host)[m], q)
                              /\ GatewayHostRank(entries[x].hostname, q.host) = RankAt(q.host, m)
        BY <2>6
      <4>2. CASE m = n
        BY <3>4, <3>6, <3>8, <4>1, <4>2 DEF Beats
      <4>3. CASE m # n
        BY <3>2, <3>6, <4>1, <4>3 DEF Beats
      <4> QED BY <4>2, <4>3
    <3>9. EntryFor(entries, q) = e
      BY <2>4, <2>8, <3>1, <3>3
    <3>10. BestEntry(entries, q) = e
      BY <3>7, <3>8, BestEntryIs
    <3> QED BY <3>4, <3>7, <3>8, <3>9, <3>10
  <2> QED BY <2>7, <2>8
<1> QED BY <1>4, <1>5

LEMMA RouteGatewayIsBest ==
    ASSUME NEW listeners, AreListeners(listeners), NEW q, IsQuery(q)
    PROVE  RouteGateway(listeners, q) = BestRoute(listeners, q)
<1>1. PICK l : l = ListenerFor(listeners, q)
  OBVIOUS
<1>2. l = BestListener(listeners, q) /\ (l # NoId => l \in DOMAIN listeners)
  BY <1>1, ListenerForIsBest
<1>3. l # NoId => EntryFor(listeners[l].entries, q) = BestEntry(listeners[l].entries, q)
  <2>1. l # NoId => AreEntries(listeners[l].entries)
    BY <1>2 DEF AreListeners
  <2> QED BY <2>1, EntryForIsBest
<1> QED BY <1>1, <1>2, <1>3 DEF RouteGateway, BestRoute

-----------------------------------------------------------------------------
RoutingOk ==
    /\ table \in Tables
    /\ query # NoQuery => query \in Queries /\ answer = Routed(table, query)

(* Every request is answered as a scan of all routes would answer it: the  *)
(* maps of Index::build, Paths::route and Hosts::matching lose no route    *)
(* and change no precedence, for tables and requests of every size.        *)
THEOREM IndicesAreScans == RoutingSpec => []IndexIsScan
<1>1. RoutingInit => RoutingOk
  BY DEF RoutingInit, RoutingOk
<1>2. RoutingOk /\ [RoutingNext]_routingVars => RoutingOk'
  BY DEF RoutingOk, RoutingNext, Dispatch, routingVars
<1>3. ASSUME RoutingOk PROVE IndexIsScan
  <2>1. SUFFICES ASSUME query # NoQuery
                 PROVE  answer = IF table.gateway THEN BestRoute(table.listeners, query) ELSE BestHostRoute(table.hosts, query)
    BY DEF IndexIsScan
  <2>2. /\ IsQuery(query) /\ answer = Routed(table, query)
        /\ IF table.gateway THEN AreListeners(table.listeners) ELSE AreHosts(table.hosts)
    BY <1>3, <2>1, RoutingAssumption DEF RoutingOk
  <2>3. CASE table.gateway
    BY <2>2, <2>3, RouteGatewayIsBest DEF Routed
  <2>4. CASE ~table.gateway
    BY <2>2, <2>4, RouteHostIsBest DEF Routed
  <2> QED BY <2>3, <2>4
<1> QED BY <1>1, <1>2, <1>3, PTL DEF RoutingSpec

-----------------------------------------------------------------------------
(* GatewayBuild.  Entries are listed by flattening lists of lists: what    *)
(* comes out was in one of them.                                           *)

Flattens(s, n, f) == f = [i \in 1..n |-> IF i = 1 THEN s[i] ELSE f[i - 1] \o s[i]]

LEMMA FlattenExists ==
    ASSUME NEW s, NEW n \in Nat \ {0}
    PROVE  \E f : Flattens(s, n, f)
<1>1. PICK Bad : Bad = {k \in Nat \ {0} : ~\E f : Flattens(s, k, f)}
  OBVIOUS
<1>2. SUFFICES ASSUME Bad # {} PROVE FALSE
  BY <1>1
<1>3. PICK k \in Bad : \A m \in Bad : k <= m
  <2>1. Bad \subseteq Nat
    BY <1>1
  <2> QED BY <1>2, <2>1, LeastOf
<1>4. k \in Nat \ {0} /\ ~\E f : Flattens(s, k, f)
  BY <1>1, <1>3
<1>5. CASE k = 1
  <2>1. PICK g : g = [i \in 1..1 |-> s[i]]
    OBVIOUS
  <2>2. g = [i \in 1..1 |-> IF i = 1 THEN s[i] ELSE g[i - 1] \o s[i]]
    <3>1. ASSUME NEW i \in 1..1 PROVE s[i] = IF i = 1 THEN s[i] ELSE g[i - 1] \o s[i]
      OBVIOUS
    <3> QED BY <2>1, <3>1
  <2>3. Flattens(s, 1, g)
    BY <2>2 DEF Flattens
  <2> QED BY <1>4, <1>5, <2>3
<1>6. CASE k # 1
  <2>1. k - 1 \in Nat \ {0} /\ k - 1 \notin Bad
    BY <1>3, <1>4, <1>6
  <2>2. PICK g : Flattens(s, k - 1, g)
    BY <1>1, <2>1
  <2>3. PICK h : h = [i \in 1..k |-> IF i = k THEN g[k - 1] \o s[k] ELSE g[i]]
    OBVIOUS
  <2>4. ASSUME NEW i \in 1..k PROVE h[i] = IF i = 1 THEN s[i] ELSE h[i - 1] \o s[i]
    <3>1. CASE i = k
      <4>1. k - 1 \in 1..k /\ k - 1 # k
        BY <1>4, <2>1
      <4>2. h[k - 1] = g[k - 1]
        BY <2>3, <4>1
      <4>3. h[k] = g[k - 1] \o s[k]
        BY <2>3, <3>1
      <4> QED BY <1>6, <3>1, <4>2, <4>3
    <3>2. CASE i # k
      <4>1. i \in 1..(k - 1) /\ h[i] = g[i]
        BY <1>4, <2>3, <3>2
      <4>2. g[i] = IF i = 1 THEN s[i] ELSE g[i - 1] \o s[i]
        BY <2>2, <4>1 DEF Flattens
      <4>3. i # 1 => h[i - 1] = g[i - 1]
        BY <1>4, <2>3, <3>2
      <4> QED BY <4>1, <4>2, <4>3
    <3> QED BY <3>1, <3>2
  <2>5. h = [i \in 1..k |-> h[i]]
    BY <2>3
  <2>6. h = [i \in 1..k |-> IF i = 1 THEN s[i] ELSE h[i - 1] \o s[i]]
    BY <2>4, <2>5
  <2>7. Flattens(s, k, h)
    BY <2>6 DEF Flattens
  <2> QED BY <1>4, <2>7
<1> QED BY <1>5, <1>6

LEMMA FlattenIn ==
    ASSUME NEW S, NEW s \in Seq(Seq(S))
    PROVE  FlattenSeq(s) \in Seq(S)
<1>1. Len(s) \in Nat /\ \A i \in 1..Len(s) : s[i] \in Seq(S)
  OBVIOUS
<1>2. CASE Len(s) = 0
  <2>1. s = <<>>
    BY <1>2
  <2> QED BY <1>2, <2>1 DEF FlattenSeq
<1>3. CASE Len(s) # 0
  <2>1. PICK n : n = Len(s)
    OBVIOUS
  <2>2. PICK f : f = CHOOSE g : Flattens(s, n, g)
    OBVIOUS
  <2>3. Flattens(s, n, f)
    <3>1. n \in Nat \ {0}
      BY <1>1, <1>3, <2>1
    <3> QED BY <2>2, <3>1, FlattenExists
  <2>4. FlattenSeq(s) = f[n]
    BY <1>3, <2>1, <2>2 DEF FlattenSeq, Flattens
  <2>5. PICK Bad : Bad = {i \in 1..n : f[i] \notin Seq(S)}
    OBVIOUS
  <2>6. Bad = {}
    <3>1. SUFFICES ASSUME Bad # {} PROVE FALSE
      OBVIOUS
    <3>2. PICK i \in Bad : \A m \in Bad : i <= m
      <4>1. Bad \subseteq Nat
        BY <2>5
      <4> QED BY <3>1, <4>1, LeastOf
    <3>3. i \in 1..n /\ f[i] \notin Seq(S)
      BY <2>5, <3>2
    <3>4. f[i] = IF i = 1 THEN s[i] ELSE f[i - 1] \o s[i]
      BY <2>3, <3>3 DEF Flattens
    <3>5. s[i] \in Seq(S)
      BY <1>1, <2>1, <3>3
    <3>6. CASE i = 1
      BY <3>3, <3>4, <3>5, <3>6
    <3>7. CASE i # 1
      <4>1. i - 1 \in 1..n /\ i - 1 \notin Bad
        BY <1>1, <2>1, <3>2, <3>3, <3>7
      <4>2. f[i - 1] \in Seq(S)
        BY <2>5, <4>1
      <4>3. f[i - 1] \o s[i] \in Seq(S)
        BY <3>5, <4>2
      <4> QED BY <3>3, <3>4, <3>7, <4>3
    <3> QED BY <3>6, <3>7
  <2>7. n \in 1..n
    BY <1>1, <1>3, <2>1
  <2> QED BY <2>4, <2>5, <2>6, <2>7
<1> QED BY <1>2, <1>3

LEMMA FlattenNone ==
    ASSUME NEW n \in Nat, NEW s, s = [i \in 1..n |-> <<>>]
    PROVE  FlattenSeq(s) = <<>>
<1>1. s \in Seq(Seq({}))
  OBVIOUS
<1>2. FlattenSeq(s) \in Seq({})
  BY <1>1, FlattenIn
<1> QED BY <1>2

(* Which entry the index finds does not depend on weights.                 *)
AlikeEntry(x, y) ==
    x.hostname = y.hostname /\ x.kind = y.kind /\ x.path = y.path /\ x.needs = y.needs /\ x.order = y.order

LEMMA AlikeFits ==
    ASSUME NEW a, NEW b, DOMAIN a = DOMAIN b, \A e \in DOMAIN a : AlikeEntry(a[e], b[e]), NEW q
    PROVE  /\ Fits(a, q) = Fits(b, q)
           /\ \A e, x \in DOMAIN a : Beats(a, q, e, x) <=> Beats(b, q, e, x)
<1>1. ASSUME NEW e \in DOMAIN a
      PROVE  /\ EntryMatches(a[e], q) <=> EntryMatches(b[e], q)
             /\ a[e].hostname = b[e].hostname
             /\ Standing(a, e) = Standing(b, e)
  <2>1. AlikeEntry(a[e], b[e])
    OBVIOUS
  <2>2. EntryMatches(a[e], q) <=> EntryMatches(b[e], q)
    <3>1. Matches(a[e], q.path) <=> Matches(b[e], q.path)
      BY <2>1 DEF AlikeEntry, Matches
    <3> QED BY <2>1, <3>1 DEF AlikeEntry, EntryMatches
  <2>3. \A kind : Predicates(a[e], kind) = Predicates(b[e], kind)
    BY <2>1 DEF AlikeEntry, Predicates
  <2>4. Standing(a, e) = Standing(b, e)
    BY <2>1, <2>3 DEF AlikeEntry, Standing
  <2> QED BY <2>1, <2>2, <2>4 DEF AlikeEntry
<1>2. Fits(a, q) = Fits(b, q)
  BY <1>1 DEF Fits
<1>3. ASSUME NEW e \in DOMAIN a, NEW x \in DOMAIN a PROVE Beats(a, q, e, x) <=> Beats(b, q, e, x)
  <2>1. Precedes(a, x, e) <=> Precedes(b, x, e)
    BY <1>1 DEF Precedes
  <2> QED BY <1>1, <2>1 DEF Beats
<1> QED BY <1>2, <1>3

LEMMA AlikeEntries ==
    ASSUME NEW a, NEW b, AreEntries(a), AreEntries(b), NEW q, IsQuery(q),
           DOMAIN a = DOMAIN b, \A e \in DOMAIN a : AlikeEntry(a[e], b[e])
    PROVE  /\ EntryFor(a, q) = EntryFor(b, q)
           /\ EntryFor(a, q) # NoId => EntryFor(a, q) \in DOMAIN a
<1>1. PICK e : e = EntryFor(a, q)
  OBVIOUS
<1>2. /\ Fits(a, q) = Fits(b, q) /\ Fits(a, q) \subseteq DOMAIN a
      /\ \A f, x \in DOMAIN a : Beats(a, q, f, x) <=> Beats(b, q, f, x)
  <2>1. Fits(a, q) \subseteq DOMAIN a
    BY DEF Fits
  <2> QED BY <2>1, AlikeFits
<1>3. EntryFor(b, q) = BestEntry(b, q)
  BY EntryForIsBest
<1>4. CASE e = NoId
  <2>1. Fits(a, q) = {}
    BY <1>1, <1>4, EntryForIsBest
  <2> QED BY <1>1, <1>2, <1>3, <1>4, <2>1, BestEntryIs
<1>5. CASE e # NoId
  <2>1. e \in Fits(a, q) /\ \A x \in Fits(a, q) \ {e} : Beats(a, q, e, x)
    BY <1>1, <1>5, EntryForIsBest
  <2>2. e \in Fits(b, q) /\ \A x \in Fits(b, q) \ {e} : Beats(b, q, e, x)
    BY <1>2, <2>1
  <2>3. BestEntry(b, q) = e
    BY <2>2, BestEntryIs
  <2> QED BY <1>1, <1>2, <1>3, <2>1, <2>3
<1> QED BY <1>4, <1>5

(* Nor which listener, on entries.                                         *)
LEMMA AlikeListeners ==
    ASSUME NEW a, NEW b, NEW q, IsQuery(q), DOMAIN a = DOMAIN b,
           \A l \in DOMAIN a : a[l].address = b[l].address /\ a[l].hostname = b[l].hostname
    PROVE  ListenerFor(a, q) = ListenerFor(b, q)
<1>1. PICK At : At = [n \in DOMAIN Matching(q.host) |->
                        {l \in DOMAIN a : a[l].address = q.address /\ a[l].hostname = Matching(q.host)[n]}]
  OBVIOUS
<1>2. PICK hits : hits = {n \in DOMAIN Matching(q.host) : At[n] # {}}
  OBVIOUS
<1>3. hits # {} => Min(hits) \in DOMAIN Matching(q.host)
  <2>1. IsHost(q.host)
    BY DEF IsQuery, IsHost
  <2>2. hits \subseteq DOMAIN Matching(q.host)
    BY <1>2
  <2> QED BY <2>1, <2>2, FirstHit
<1>4. ASSUME NEW s, DOMAIN s = DOMAIN a, \A l \in DOMAIN a : a[l].address = s[l].address /\ a[l].hostname = s[l].hostname
      PROVE  ListenerFor(s, q) = IF hits = {} THEN NoId ELSE Max(At[Min(hits)])
  <2>1. ASSUME NEW n \in DOMAIN Matching(q.host)
        PROVE  At[n] = {l \in DOMAIN s : s[l].address = q.address /\ s[l].hostname = Matching(q.host)[n]}
    BY <1>1, <1>4
  <2>2. hits = {n \in DOMAIN Matching(q.host) :
                   {l \in DOMAIN s : s[l].address = q.address /\ s[l].hostname = Matching(q.host)[n]} # {}}
    BY <1>2, <2>1
  <2>3. hits # {} => At[Min(hits)] = {l \in DOMAIN s : s[l].address = q.address
                                                        /\ s[l].hostname = Matching(q.host)[Min(hits)]}
    BY <1>3, <2>1
  <2> QED BY <2>2, <2>3 DEF ListenerFor
<1>5. ListenerFor(a, q) = IF hits = {} THEN NoId ELSE Max(At[Min(hits)])
  BY <1>4
<1>6. ListenerFor(b, q) = IF hits = {} THEN NoId ELSE Max(At[Min(hits)])
  BY <1>4
<1> QED BY <1>5, <1>6

-----------------------------------------------------------------------------
(* The places of a listener's entries: routes that attach to it, whatever  *)
(* else is missing.                                                        *)

Patterns == {p \in [wild : BOOLEAN, labels : Seq(Text)] : IsPattern(p)}

LEMMA AttachedHostsAre ==
    ASSUME NEW c, IsCluster(c), NEW i \in DOMAIN c.routes, NEW l \in DOMAIN c.listeners
    PROVE  AttachedHosts(c, c.routes[i], l) \in Seq(Patterns)
<1>1. PICK route : route = c.routes[i]
  OBVIOUS
<1>2. PICK left : left = c.listeners[l].hostname
  OBVIOUS
<1>3. left \in Patterns
  BY <1>2 DEF IsCluster, Patterns, IsPattern
<1>4. IsRoute(route)
  BY <1>1 DEF IsCluster
<1>5. ASSUME NEW h \in DOMAIN route.hostnames PROVE Intersect(left, route.hostnames[h]) \in Seq(Patterns)
  <2>1. PICK right : right = route.hostnames[h]
    OBVIOUS
  <2>2. right \in Patterns
    BY <1>4, <2>1 DEF IsRoute, Patterns, IsPattern
  <2>3. <<left>> \in Seq(Patterns) /\ <<right>> \in Seq(Patterns) /\ <<>> \in Seq(Patterns)
    BY <1>3, <2>2
  <2>4. Intersect(left, right) \in {<<left>>, <<right>>, <<>>}
    BY DEF Intersect
  <2> QED BY <2>1, <2>3, <2>4
<1>6. PICK s : s = [h \in DOMAIN route.hostnames |-> Intersect(left, route.hostnames[h])]
  OBVIOUS
<1>7. s \in Seq(Seq(Patterns))
  <2>1. DOMAIN route.hostnames = 1..Len(route.hostnames) /\ Len(route.hostnames) \in Nat
    BY <1>4 DEF IsRoute, IsList
  <2>2. s = [h \in 1..Len(route.hostnames) |-> Intersect(left, route.hostnames[h])]
    BY <1>6, <2>1
  <2>3. \A h \in 1..Len(route.hostnames) : Intersect(left, route.hostnames[h]) \in Seq(Patterns)
    BY <1>5, <2>1
  <2> QED BY <2>1, <2>2, <2>3
<1>8. AttachedHosts(c, route, l) = FlattenSeq(s)
  BY <1>2, <1>6 DEF AttachedHosts
<1> QED BY <1>1, <1>7, <1>8, FlattenIn

(* The places of route i.                                                  *)
PlacesOf(c, i, l, deps) ==
    {p \in Nat \X Nat \X Nat \X Nat :
        /\ p[1] = i /\ Planned(c, i, deps) /\ Attached(c, c.routes[i], l, deps)
        /\ p[2] \in DOMAIN c.routes[i].rules
        /\ p[3] \in DOMAIN c.routes[i].rules[p[2]].matches
        /\ p[4] \in DOMAIN AttachedHosts(c, c.routes[i], l)}
AllPlaces(c, l, deps) == UNION {PlacesOf(c, i, l, deps) : i \in DOMAIN c.routes}

LEMMA ListIsSeq ==
    ASSUME NEW S, NEW s, IsList(s), NEW f, f = [i \in DOMAIN s |-> f[i]], \A i \in DOMAIN s : f[i] \in S
    PROVE  f \in Seq(S)
<1>1. Len(s) \in Nat /\ DOMAIN s = 1..Len(s)
  BY DEF IsList
<1>2. f \in [1..Len(s) -> S]
  BY <1>1
<1> QED BY <1>1, <1>2

LEMMA RoutePlacesAre ==
    ASSUME NEW c, IsCluster(c), NEW i \in DOMAIN c.routes, NEW l \in DOMAIN c.listeners, NEW deps
    PROVE  RoutePlaces(c, i, l, deps) \in Seq(PlacesOf(c, i, l, deps))
<1>1. PICK P : P = PlacesOf(c, i, l, deps)
  OBVIOUS
<1>2. PICK route : route = c.routes[i]
  OBVIOUS
<1>3. PICK hosts : hosts = AttachedHosts(c, route, l)
  OBVIOUS
<1>4. IsList(hosts)
  <2>1. hosts \in Seq(Patterns)
    BY <1>2, <1>3, AttachedHostsAre
  <2> QED BY <2>1 DEF IsList
<1>5. IsRoute(route) /\ i \in Nat
  BY <1>2 DEF IsCluster, IsList
<1>6. CASE ~Planned(c, i, deps) \/ ~Attached(c, route, l, deps)
  <2>1. RoutePlaces(c, i, l, deps) = <<>>
    BY <1>2, <1>6 DEF RoutePlaces
  <2> QED BY <2>1
<1>7. CASE Planned(c, i, deps) /\ Attached(c, route, l, deps)
  <2>1. ASSUME NEW r \in DOMAIN route.rules, NEW m \in DOMAIN route.rules[r].matches
        PROVE  [h \in DOMAIN hosts |-> <<i, r, m, h>>] \in Seq(P)
    <3>1. r \in Nat /\ m \in Nat /\ \A h \in DOMAIN hosts : h \in Nat
      <4>1. IsRule(route.rules[r])
        BY <1>5, <2>1 DEF IsRoute
      <4>2. r \in Nat
        BY <1>5, <2>1 DEF IsRoute, IsList
      <4>3. m \in Nat
        BY <2>1, <4>1 DEF IsRule, IsList
      <4> QED BY <1>4, <4>2, <4>3 DEF IsList
    <3>2. ASSUME NEW h \in DOMAIN hosts PROVE <<i, r, m, h>> \in P
      <4>1. PICK p : p = <<i, r, m, h>>
        OBVIOUS
      <4>2. p \in Nat \X Nat \X Nat \X Nat /\ p[1] = i /\ p[2] = r /\ p[3] = m /\ p[4] = h
        BY <1>5, <3>1, <4>1
      <4>3. p \in P
        BY <1>1, <1>2, <1>3, <1>7, <2>1, <4>2 DEF PlacesOf
      <4> QED BY <4>1, <4>3
    <3>3. PICK f : f = [h \in DOMAIN hosts |-> <<i, r, m, h>>]
      OBVIOUS
    <3>4. f = [h \in DOMAIN hosts |-> f[h]] /\ \A h \in DOMAIN hosts : f[h] \in P
      BY <3>2, <3>3
    <3> QED BY <1>4, <3>3, <3>4, ListIsSeq
  <2>2. ASSUME NEW r \in DOMAIN route.rules
        PROVE  FlattenSeq([m \in DOMAIN route.rules[r].matches |-> [h \in DOMAIN hosts |-> <<i, r, m, h>>]]) \in Seq(P)
    <3>1. PICK f : f = [m \in DOMAIN route.rules[r].matches |-> [h \in DOMAIN hosts |-> <<i, r, m, h>>]]
      OBVIOUS
    <3>2. f = [m \in DOMAIN route.rules[r].matches |-> f[m]]
      BY <3>1
    <3>3. ASSUME NEW m \in DOMAIN route.rules[r].matches PROVE f[m] \in Seq(P)
      BY <2>1, <3>1
    <3>4. IsList(route.rules[r].matches)
      BY <1>5, <2>2 DEF IsRoute, IsRule
    <3>5. f \in Seq(Seq(P))
      BY <3>2, <3>3, <3>4, ListIsSeq
    <3> QED BY <3>1, <3>5, FlattenIn
  <2>3. PICK g : g = [r \in DOMAIN route.rules |->
                        FlattenSeq([m \in DOMAIN route.rules[r].matches |-> [h \in DOMAIN hosts |-> <<i, r, m, h>>]])]
    OBVIOUS
  <2>4. g \in Seq(Seq(P))
    <3>1. g = [r \in DOMAIN route.rules |-> g[r]]
      BY <2>3
    <3>2. ASSUME NEW r \in DOMAIN route.rules PROVE g[r] \in Seq(P)
      BY <2>2, <2>3
    <3>3. IsList(route.rules)
      BY <1>5 DEF IsRoute
    <3> QED BY <3>1, <3>2, <3>3, ListIsSeq
  <2>5. RoutePlaces(c, i, l, deps) = FlattenSeq(g)
    BY <1>2, <1>3, <1>7, <2>3 DEF RoutePlaces
  <2> QED BY <1>1, <2>4, <2>5, FlattenIn
<1> QED BY <1>2, <1>6, <1>7

LEMMA PlacesAre ==
    ASSUME NEW c, IsCluster(c), NEW l \in DOMAIN c.listeners, NEW deps
    PROVE  EntryPlaces(c, l, deps) \in Seq(AllPlaces(c, l, deps))
<1>1. PICK f : f = [i \in DOMAIN c.routes |-> RoutePlaces(c, i, l, deps)]
  OBVIOUS
<1>2. f = [i \in DOMAIN c.routes |-> f[i]]
  BY <1>1
<1>3. ASSUME NEW i \in DOMAIN c.routes PROVE f[i] \in Seq(AllPlaces(c, l, deps))
  <2>1. f[i] \in Seq(PlacesOf(c, i, l, deps))
    BY <1>1, RoutePlacesAre
  <2>2. PlacesOf(c, i, l, deps) \subseteq AllPlaces(c, l, deps)
    BY DEF AllPlaces
  <2> QED BY <2>1, <2>2
<1>4. IsList(c.routes)
  BY DEF IsCluster
<1>5. f \in Seq(Seq(AllPlaces(c, l, deps)))
  BY <1>2, <1>3, <1>4, ListIsSeq
<1> QED BY <1>1, <1>5, FlattenIn DEF EntryPlaces

-----------------------------------------------------------------------------
(* More dependencies never make less resolve.                              *)

LEMMA MoreResolves ==
    ASSUME NEW A, NEW D, A \subseteq D, NEW c, NEW l, NEW i
    PROVE  /\ CertificateResolves(c.listeners[i], A) => CertificateResolves(c.listeners[i], D)
           /\ ListenerValid(c.listeners, l, A) => ListenerValid(c.listeners, l, D)
BY DEF CertificateResolves, ListenerValid, Permitted

LEMMA BackendMonotone ==
    ASSUME NEW A, NEW D, A \subseteq D, NEW c, NEW b, BackendResolves(c, b, A)
    PROVE  BackendResolves(c, b, D) /\ Transport(c, b, A) = Transport(c, b, D)
<1>1. PICK p : p = ServicePolicy(c, b.service)
  OBVIOUS
<1>2. PolicyResolves(c.policies[p], A) => PolicyResolves(c.policies[p], D)
  BY DEF PolicyResolves
<1>3. Transport(c, b, A) # "invalid"
  BY DEF BackendResolves
<1>4. ASSUME NEW X
      PROVE  Transport(c, b, X) = IF p # NoId THEN IF PolicyResolves(c.policies[p], X) THEN "tls" ELSE "invalid"
                                  ELSE IF b.protocol = "https" THEN "invalid" ELSE "plain"
  BY <1>1 DEF Transport
<1>5. Transport(c, b, A) = Transport(c, b, D)
  BY <1>2, <1>3, <1>4
<1> QED BY <1>3, <1>5 DEF BackendResolves, Permitted

(* D has what A has and more, but nothing more of what decides which       *)
(* routes there are.                                                       *)
Extends(c, D, A) == A \subseteq D /\ D \cap Deciding(c) \subseteq A

LEMMA EligibleSame ==
    ASSUME NEW A, NEW D, NEW c, Extends(c, D, A)
    PROVE  Eligible(c, A) = Eligible(c, D)
<1>1. ASSUME NEW i \in DOMAIN c.routes PROVE c.routes[i].plugin \subseteq A <=> c.routes[i].plugin \subseteq D
  <2>1. c.routes[i].plugin \subseteq Deciding(c)
    BY DEF Deciding
  <2> QED BY <2>1 DEF Extends
<1> QED BY <1>1 DEF Eligible

LEMMA AllowsSame ==
    ASSUME NEW A, NEW D, NEW c, Extends(c, D, A), NEW l \in DOMAIN c.listeners, NEW ns
    PROVE  Allows(c.listeners[l], ns, A) <=> Allows(c.listeners[l], ns, D)
<1>1. ASSUME NEW a \in c.listeners[l].allows PROVE a.needs \subseteq A <=> a.needs \subseteq D
  <2>1. a.needs \subseteq UNION {b.needs : b \in c.listeners[l].allows}
    OBVIOUS
  <2>2. UNION {b.needs : b \in c.listeners[l].allows} \subseteq Deciding(c)
    BY DEF Deciding
  <2>3. a.needs \subseteq Deciding(c)
    BY <2>1, <2>2
  <2> QED BY <2>3 DEF Extends
<1> QED BY <1>1 DEF Allows

(* A listener with its certificate lists the same entries whatever else is *)
(* missing; one without lists none.                                        *)
LEMMA PlacesSame ==
    ASSUME NEW A, NEW D, NEW c, Extends(c, D, A), NEW l \in DOMAIN c.listeners,
           ListenerValid(c.listeners, l, A), ListenerValid(c.listeners, l, D)
    PROVE  EntryPlaces(c, l, A) = EntryPlaces(c, l, D)
<1>1. ASSUME NEW i \in DOMAIN c.routes PROVE RoutePlaces(c, i, l, A) = RoutePlaces(c, i, l, D)
  <2>1. Attached(c, c.routes[i], l, A) <=> Attached(c, c.routes[i], l, D)
    BY AllowsSame DEF Attached
  <2>2. Planned(c, i, A) <=> Planned(c, i, D)
    BY EligibleSame DEF Planned
  <2> QED BY <2>1, <2>2 DEF RoutePlaces
<1>2. [i \in DOMAIN c.routes |-> RoutePlaces(c, i, l, A)] = [i \in DOMAIN c.routes |-> RoutePlaces(c, i, l, D)]
  BY <1>1
<1> QED BY <1>2 DEF EntryPlaces

LEMMA PlacesNone ==
    ASSUME NEW A, NEW c, IsCluster(c), NEW l, ~ListenerValid(c.listeners, l, A)
    PROVE  EntryPlaces(c, l, A) = <<>>
<1>1. ASSUME NEW i \in DOMAIN c.routes PROVE RoutePlaces(c, i, l, A) = <<>>
  <2>1. ~Attached(c, c.routes[i], l, A)
    BY DEF Attached
  <2> QED BY <2>1 DEF RoutePlaces
<1>2. DOMAIN c.routes = 1..Len(c.routes) /\ Len(c.routes) \in Nat
  BY DEF IsCluster, IsList
<1>3. [i \in DOMAIN c.routes |-> RoutePlaces(c, i, l, A)] = [i \in 1..Len(c.routes) |-> <<>>]
  BY <1>1, <1>2
<1> QED BY <1>2, <1>3, FlattenNone DEF EntryPlaces

IsPlace(c, l, deps, place, i, r, m, h) ==
    /\ place[1] = i /\ place[2] = r /\ place[3] = m /\ place[4] = h
    /\ i \in DOMAIN c.routes /\ Planned(c, i, deps) /\ Attached(c, c.routes[i], l, deps)
    /\ r \in DOMAIN c.routes[i].rules /\ m \in DOMAIN c.routes[i].rules[r].matches
    /\ h \in DOMAIN AttachedHosts(c, c.routes[i], l)
    /\ IsRoute(c.routes[i]) /\ IsRule(c.routes[i].rules[r])
    /\ i \in Nat /\ r \in Nat /\ m \in Nat

LEMMA PlaceIs ==
    ASSUME NEW c, IsCluster(c), NEW l \in DOMAIN c.listeners, NEW deps, NEW place \in AllPlaces(c, l, deps)
    PROVE  \E i, r, m, h : IsPlace(c, l, deps, place, i, r, m, h)
<1>1. PICK i \in DOMAIN c.routes : place \in PlacesOf(c, i, l, deps)
  BY DEF AllPlaces
<1>2. /\ place[1] = i /\ Planned(c, i, deps) /\ Attached(c, c.routes[i], l, deps)
      /\ place[2] \in DOMAIN c.routes[i].rules
      /\ place[3] \in DOMAIN c.routes[i].rules[place[2]].matches
      /\ place[4] \in DOMAIN AttachedHosts(c, c.routes[i], l)
      /\ place[1] \in Nat /\ place[2] \in Nat /\ place[3] \in Nat
  BY <1>1 DEF PlacesOf
<1>3. IsRoute(c.routes[i])
  BY DEF IsCluster
<1>4. IsRule(c.routes[i].rules[place[2]])
  BY <1>2, <1>3 DEF IsRoute
<1>5. IsPlace(c, l, deps, place, i, place[2], place[3], place[4])
  BY <1>2, <1>3, <1>4 DEF IsPlace
<1> QED BY <1>5

LEMMA EntryIs ==
    ASSUME NEW c, NEW l, NEW place, NEW deps, NEW i, NEW r, NEW m, NEW h,
           place[1] = i, place[2] = r, place[3] = m, place[4] = h
    PROVE  LET e == RouteEntry(c, l, place, deps)
           IN  /\ e.hostname = AttachedHosts(c, c.routes[i], l)[h]
               /\ e.kind = c.routes[i].rules[r].matches[m].kind
               /\ e.path = c.routes[i].rules[r].matches[m].path
               /\ e.needs = c.routes[i].rules[r].matches[m].needs
               /\ e.order = (i * Wide + r) * Wide + m
               /\ e.uid = c.routes[i].uid
               /\ e.weights = RuleWeights(c, c.routes[i], c.routes[i].rules[r], deps)
BY DEF RouteEntry

LEMMA EntriesAre ==
    ASSUME NEW c, IsCluster(c), NEW l \in DOMAIN c.listeners, NEW deps
    PROVE  /\ AreEntries(RouteEntries(c, l, deps))
           /\ DOMAIN RouteEntries(c, l, deps) = DOMAIN EntryPlaces(c, l, deps)
           /\ \A p \in DOMAIN EntryPlaces(c, l, deps) :
                 /\ RouteEntries(c, l, deps)[p] = RouteEntry(c, l, EntryPlaces(c, l, deps)[p], deps)
                 /\ EntryPlaces(c, l, deps)[p] \in AllPlaces(c, l, deps)
<1>1. PICK places : places = EntryPlaces(c, l, deps)
  OBVIOUS
<1>2. PICK es : es = [p \in DOMAIN places |-> RouteEntry(c, l, places[p], deps)]
  OBVIOUS
<1>3. RouteEntries(c, l, deps) = es
  BY <1>1, <1>2 DEF RouteEntries
<1>4. places \in Seq(AllPlaces(c, l, deps))
  BY <1>1, PlacesAre
<1>5. Len(places) \in Nat /\ DOMAIN places = 1..Len(places) /\ \A p \in DOMAIN places : places[p] \in AllPlaces(c, l, deps)
  BY <1>4
<1>6. IsList(es)
  <2>1. es = [p \in 1..Len(places) |-> RouteEntry(c, l, places[p], deps)]
    BY <1>2, <1>5
  <2>2. Len(es) = Len(places) /\ DOMAIN es = 1..Len(places)
    BY <1>5, <2>1
  <2> QED BY <1>5, <2>2 DEF IsList
<1>7. ASSUME NEW p \in DOMAIN es
      PROVE  /\ IsPattern(es[p].hostname) /\ IsMatcher(es[p], {"exact", "ingress"})
             /\ IsFiniteSet(es[p].needs) /\ es[p].order \in Int
  <2>1. places[p] \in AllPlaces(c, l, deps)
    BY <1>2, <1>5
  <2>2. PICK i, r, m, h : IsPlace(c, l, deps, places[p], i, r, m, h)
    BY <2>1, PlaceIs
  <2>3. /\ places[p][1] = i /\ places[p][2] = r /\ places[p][3] = m /\ places[p][4] = h
        /\ i \in DOMAIN c.routes /\ IsRule(c.routes[i].rules[r])
        /\ m \in DOMAIN c.routes[i].rules[r].matches /\ h \in DOMAIN AttachedHosts(c, c.routes[i], l)
        /\ i \in Nat /\ r \in Nat /\ m \in Nat
    BY <2>2 DEF IsPlace
  <2>4. PICK match : match = c.routes[i].rules[r].matches[m]
    OBVIOUS
  <2>5. /\ es[p].hostname = AttachedHosts(c, c.routes[i], l)[h] /\ es[p].kind = match.kind /\ es[p].path = match.path
        /\ es[p].needs = match.needs /\ es[p].order = (i * Wide + r) * Wide + m
    <3>1. es[p] = RouteEntry(c, l, places[p], deps)
      BY <1>2
    <3> QED BY <2>3, <2>4, <3>1, EntryIs
  <2>6. IsMatcher(match, {"exact", "ingress"}) /\ IsFiniteSet(match.needs)
    BY <2>3, <2>4 DEF IsRule
  <2>7. IsPattern(es[p].hostname)
    <3>1. AttachedHosts(c, c.routes[i], l) \in Seq(Patterns)
      BY <2>3, AttachedHostsAre
    <3>2. AttachedHosts(c, c.routes[i], l)[h] \in Patterns
      BY <2>3, <3>1
    <3> QED BY <2>5, <3>2 DEF Patterns
  <2>8. es[p].order \in Int
    BY <2>3, <2>5 DEF Wide
  <2>9. IsMatcher(es[p], {"exact", "ingress"})
    BY <2>5, <2>6 DEF IsMatcher
  <2> QED BY <2>5, <2>6, <2>7, <2>8, <2>9
<1>8. AreEntries(es)
  BY <1>6, <1>7 DEF AreEntries
<1> QED BY <1>1, <1>2, <1>3, <1>5, <1>8

-----------------------------------------------------------------------------
(* The weights of a rule: what is missing takes the place of its backend   *)
(* with nothing, and moves no other.                                       *)

(* a is d but for backends that are gone.                                  *)
Weakened(a, d) ==
    /\ DOMAIN a = DOMAIN d /\ DOMAIN a \subseteq Nat \ {0}
    /\ \A x \in DOMAIN a : /\ a[x].weight = d[x].weight
                           /\ a[x].backend # "none" => a[x].backend = d[x].backend /\ a[x].transport = d[x].transport

LEMMA WeightsAre ==
    ASSUME NEW A, NEW D, A \subseteq D, NEW c, NEW rule, IsRule(rule)
    PROVE  Weakened(Weights(c, rule, A), Weights(c, rule, D))
<1>1. PICK S : S = {j \in DOMAIN rule.backends : rule.backends[j].weight > 0 \/ rule.traffic # {}}
  OBVIOUS
<1>2. S \subseteq Nat \ {0}
  BY <1>1 DEF IsRule, IsList
<1>3. ASSUME NEW X
      PROVE  Weights(c, rule, X) =
                [i \in S |-> [weight |-> rule.backends[i].weight,
                              backend |-> IF BackendResolves(c, rule.backends[i], X) THEN rule.backends[i].service ELSE "none",
                              transport |-> Transport(c, rule.backends[i], X)]]
  BY <1>1 DEF Weights
<1>4. PICK a : a = Weights(c, rule, A)
  OBVIOUS
<1>5. PICK d : d = Weights(c, rule, D)
  OBVIOUS
<1>6. DOMAIN a = S /\ DOMAIN d = S
  BY <1>3, <1>4, <1>5
<1>7. ASSUME NEW x \in S
      PROVE  /\ a[x].weight = d[x].weight
             /\ a[x].backend # "none" => a[x].backend = d[x].backend /\ a[x].transport = d[x].transport
  <2>1. PICK b : b = rule.backends[x]
    OBVIOUS
  <2>2. /\ a[x].weight = b.weight /\ a[x].transport = Transport(c, b, A)
        /\ a[x].backend = IF BackendResolves(c, b, A) THEN b.service ELSE "none"
    BY <1>3, <1>4, <2>1
  <2>3. /\ d[x].weight = b.weight /\ d[x].transport = Transport(c, b, D)
        /\ d[x].backend = IF BackendResolves(c, b, D) THEN b.service ELSE "none"
    BY <1>3, <1>5, <2>1
  <2>4. BackendResolves(c, b, A) => BackendResolves(c, b, D) /\ Transport(c, b, A) = Transport(c, b, D)
    BY BackendMonotone
  <2> QED BY <2>2, <2>3, <2>4
<1>8. Weakened(a, d)
  BY <1>2, <1>6, <1>7 DEF Weakened
<1> QED BY <1>4, <1>5, <1>8

LEMMA SelectAtIs ==
    ASSUME NEW a, NEW sample, DOMAIN a \subseteq Nat \ {0}
    PROVE  /\ SelectAt(a, sample) = NoId \/ SelectAt(a, sample) \in DOMAIN a
           /\ \A d : DOMAIN d = DOMAIN a /\ (\A x \in DOMAIN a : a[x].weight = d[x].weight)
                        => SelectAt(d, sample) = SelectAt(a, sample)
<1>1. PICK shares : shares = [i \in DOMAIN a |-> a[i].weight]
  OBVIOUS
<1>2. PICK total : total = SumFunction(shares)
  OBVIOUS
<1>3. PICK S : S = {i \in DOMAIN shares : sample % total < SumFunctionOnSet(shares, {k \in DOMAIN shares : k <= i})}
  OBVIOUS
<1>4. ASSUME NEW d, DOMAIN d = DOMAIN a, \A x \in DOMAIN a : a[x].weight = d[x].weight
      PROVE  SelectAt(d, sample) = IF total = 0 THEN NoId ELSE First(S)
  <2>1. shares = [i \in DOMAIN d |-> d[i].weight]
    BY <1>1, <1>4
  <2> QED BY <1>2, <1>3, <2>1 DEF SelectAt
<1>5. SelectAt(a, sample) = IF total = 0 THEN NoId ELSE First(S)
  BY <1>4
<1>6. S \subseteq DOMAIN a
  BY <1>1, <1>3
<1>7. First(S) = NoId \/ First(S) \in DOMAIN a
  BY <1>6, FirstIs
<1> QED BY <1>4, <1>5, <1>7

LEMMA ServedNot ==
    ASSUME NEW e, NEW sample, DOMAIN e.weights \subseteq Nat \ {0},
           \A x \in DOMAIN e.weights : e.weights[x].backend = "none"
    PROVE  Served(e, sample) = RefusedRequest
<1>1. SelectAt(e.weights, sample) = NoId \/ SelectAt(e.weights, sample) \in DOMAIN e.weights
  BY SelectAtIs
<1> QED BY <1>1 DEF Served

LEMMA ServedAlike ==
    ASSUME NEW a, NEW d, NEW sample, a.uid = d.uid, Weakened(a.weights, d.weights)
    PROVE  \/ Served(a, sample) = Served(d, sample)
           \/ Served(a, sample) = RefusedRequest /\ \E x \in DOMAIN a.weights : a.weights[x].backend = "none"
<1>1. PICK n : n = SelectAt(a.weights, sample)
  OBVIOUS
<1>2. n = SelectAt(d.weights, sample) /\ (n = NoId \/ n \in DOMAIN a.weights)
  BY <1>1, SelectAtIs DEF Weakened
<1>3. ASSUME NEW e, n = SelectAt(e.weights, sample)
      PROVE  Served(e, sample) = IF n = NoId \/ e.weights[n].backend = "none" THEN RefusedRequest
                                 ELSE [route |-> e.uid, backend |-> e.weights[n].backend,
                                       transport |-> e.weights[n].transport]
  BY <1>3 DEF Served
<1>4. CASE n = NoId
  BY <1>1, <1>2, <1>3, <1>4
<1>5. CASE n # NoId /\ a.weights[n].backend = "none"
  BY <1>1, <1>2, <1>3, <1>5
<1>6. CASE n # NoId /\ a.weights[n].backend # "none"
  <2>1. a.weights[n].backend = d.weights[n].backend /\ a.weights[n].transport = d.weights[n].transport
    BY <1>2, <1>6 DEF Weakened
  <2> QED BY <1>1, <1>2, <1>3, <1>6, <2>1
<1> QED BY <1>4, <1>5, <1>6

(* What serves a request, or refuses it and shows in the route's status.   *)
LEMMA RuleServes ==
    ASSUME NEW A, NEW D, A \subseteq D, NEW c, NEW route, NEW rule, IsRule(rule), NEW a, NEW d, NEW sample,
           a.uid = d.uid, a.weights = RuleWeights(c, route, rule, A), d.weights = RuleWeights(c, route, rule, D)
    PROVE  \/ Served(a, sample) = Served(d, sample)
           \/ /\ Served(a, sample) = RefusedRequest
              /\ \/ ~(route.needs \subseteq A)
                 \/ \E x \in DOMAIN Weights(c, rule, A) : Weights(c, rule, A)[x].backend = "none"
<1>1. PICK wa : wa = Weights(c, rule, A)
  OBVIOUS
<1>2. PICK wd : wd = Weights(c, rule, D)
  OBVIOUS
<1>0. Weakened(wa, wd)
  BY <1>1, <1>2, WeightsAre
<1>3. /\ DOMAIN wa = DOMAIN wd /\ DOMAIN wa \subseteq Nat \ {0}
      /\ \A x \in DOMAIN wa : /\ wa[x].weight = wd[x].weight
                              /\ wa[x].backend # "none" => wa[x].backend = wd[x].backend /\ wa[x].transport = wd[x].transport
  BY <1>0 DEF Weakened
<1>4. PICK Nowhere : Nowhere = <<[weight |-> 1, backend |-> "none", transport |-> "plain"]>>
  OBVIOUS
<1>5. DOMAIN Nowhere \subseteq Nat \ {0} /\ \A x \in DOMAIN Nowhere : Nowhere[x].backend = "none"
  BY <1>4
<1>6. PICK Rolled : Rolled = <<[weight |-> 1, backend |-> "rollout", transport |-> "plain"]>>
  OBVIOUS
<1>7. DOMAIN Rolled \subseteq Nat \ {0}
  BY <1>6
<1>8. PICK ba : ba = {wa[x].backend : x \in DOMAIN wa}
  OBVIOUS
<1>9. PICK bd : bd = {wd[x].backend : x \in DOMAIN wd}
  OBVIOUS
<1>10. a.weights = IF ~(route.needs \subseteq A) THEN <<>> ELSE IF ~(rule.traffic \subseteq ba) THEN Nowhere
                   ELSE IF rule.traffic # {} THEN Rolled ELSE wa
  BY <1>1, <1>4, <1>6, <1>8 DEF RuleWeights
<1>11. d.weights = IF ~(route.needs \subseteq D) THEN <<>> ELSE IF ~(rule.traffic \subseteq bd) THEN Nowhere
                   ELSE IF rule.traffic # {} THEN Rolled ELSE wd
  BY <1>2, <1>4, <1>6, <1>9 DEF RuleWeights
<1>12. CASE ~(route.needs \subseteq A)
  <2>1. a.weights = <<>>
    BY <1>10, <1>12
  <2>2. Served(a, sample) = RefusedRequest
    BY <2>1, ServedNot
  <2> QED BY <1>12, <2>2
<1>13. CASE route.needs \subseteq A /\ ~(rule.traffic \subseteq ba)
  <2>1. Served(a, sample) = RefusedRequest
    BY <1>5, <1>10, <1>13, ServedNot
  <2>2. CASE rule.traffic \subseteq bd
    <3>1. PICK b \in rule.traffic : b \notin ba
      BY <1>13
    <3>2. PICK x \in DOMAIN wd : b = wd[x].backend
      BY <1>9, <2>2, <3>1
    <3>3. wa[x].backend # b /\ x \in DOMAIN wa
      BY <1>3, <1>8, <3>1, <3>2
    <3>4. wa[x].backend = "none"
      BY <1>3, <3>2, <3>3
    <3> QED BY <1>1, <2>1, <3>3, <3>4
  <2>3. CASE ~(rule.traffic \subseteq bd)
    <3>1. d.weights = Nowhere
      BY <1>11, <1>13, <2>3
    <3>2. Served(d, sample) = RefusedRequest
      BY <1>5, <3>1, ServedNot
    <3> QED BY <2>1, <3>2
  <2> QED BY <2>2, <2>3
<1>14. CASE route.needs \subseteq A /\ rule.traffic \subseteq ba /\ rule.traffic # {}
  <2>1. rule.traffic \subseteq bd
    <3>1. ASSUME NEW b \in rule.traffic PROVE b \in bd
      <4>1. PICK x \in DOMAIN wa : b = wa[x].backend
        BY <1>8, <1>14
      <4>2. b # "none"
        BY DEF IsRule
      <4> QED BY <1>3, <1>9, <4>1, <4>2
    <3> QED BY <3>1
  <2>2. a.weights = Rolled /\ d.weights = Rolled
    BY <1>10, <1>11, <1>14, <2>1
  <2>3. Served(a, sample) = Served(d, sample)
    BY <2>2 DEF Served
  <2> QED BY <2>3
<1>15. CASE route.needs \subseteq A /\ rule.traffic \subseteq ba /\ rule.traffic = {}
  <2>1. a.weights = wa /\ d.weights = wd
    BY <1>10, <1>11, <1>15
  <2> QED BY <1>0, <1>1, <2>1, ServedAlike
<1> QED BY <1>12, <1>13, <1>14, <1>15

-----------------------------------------------------------------------------
(* The handshake: the certificate looked for is the same one, whether it   *)
(* is there or not.                                                        *)

LEMMA OfferingIs ==
    ASSUME NEW a, NEW q, DOMAIN a \subseteq Nat \ {0}
    PROVE  /\ Offering(a, q) # NoId => Offering(a, q) \in DOMAIN a
           /\ \A d : DOMAIN d = DOMAIN a /\ (\A x \in DOMAIN a : a[x].hostname = d[x].hostname /\ a[x].address = d[x].address)
                        => Offering(d, q) = Offering(a, q)
<1>1. PICK R : R = [i \in DOMAIN a |-> IF a[i].hostname = AnyHost THEN 0 ELSE HostRank(a[i].hostname, q.host, FALSE)]
  OBVIOUS
<1>2. PICK O : O = {i \in DOMAIN a : a[i].address = q.address /\ R[i] >= 0}
  OBVIOUS
<1>3. PICK B : B = {i \in O : \A j \in O : R[j] <= R[i]}
  OBVIOUS
<1>4. ASSUME NEW d, DOMAIN d = DOMAIN a, \A x \in DOMAIN a : a[x].hostname = d[x].hostname /\ a[x].address = d[x].address
      PROVE  Offering(d, q) = First(B)
  <2>1. ASSUME NEW i \in DOMAIN a
        PROVE  R[i] = IF d[i].hostname = AnyHost THEN 0 ELSE HostRank(d[i].hostname, q.host, FALSE)
    BY <1>1, <1>4
  <2>2. O = {i \in DOMAIN d : d[i].address = q.address
                               /\ (IF d[i].hostname = AnyHost THEN 0 ELSE HostRank(d[i].hostname, q.host, FALSE)) >= 0}
    BY <1>2, <1>4, <2>1
  <2>3. O \subseteq DOMAIN a
    BY <1>2
  <2>4. B = {i \in O : \A j \in O : (IF d[j].hostname = AnyHost THEN 0 ELSE HostRank(d[j].hostname, q.host, FALSE))
                                      <= (IF d[i].hostname = AnyHost THEN 0 ELSE HostRank(d[i].hostname, q.host, FALSE))}
    BY <1>3, <2>1, <2>3
  <2> QED BY <2>2, <2>4 DEF Offering
<1>5. Offering(a, q) = First(B)
  BY <1>4
<1>6. B \subseteq DOMAIN a
  BY <1>2, <1>3
<1>7. First(B) = NoId \/ First(B) \in DOMAIN a
  BY <1>6, FirstIs
<1> QED BY <1>4, <1>5, <1>7

LEMMA HandshakeIs ==
    ASSUME NEW A, NEW D, A \subseteq D, NEW c, IsCluster(c), NEW q,
           NEW snap, snap = BuildGateway(c, A), NEW full, full = BuildGateway(c, D)
    PROVE  /\ Handshake(snap, q) => Handshake(full, q)
           /\ Handshake(full, q) /\ ~Handshake(snap, q) => \E l \in DOMAIN snap.listenerStatus : ~snap.listenerStatus[l]
<1>1. PICK a : a = Certificates(c.listeners, A)
  OBVIOUS
<1>2. PICK d : d = Certificates(c.listeners, D)
  OBVIOUS
<1>3. snap.certificates = a /\ full.certificates = d
  BY <1>1, <1>2 DEF BuildGateway
<1>4. PICK S : S = {j \in DOMAIN c.listeners : c.listeners[j].https /\ Unique(c.listeners, j)}
  OBVIOUS
<1>5. ASSUME NEW X
      PROVE  Certificates(c.listeners, X) = [i \in S |-> [hostname |-> c.listeners[i].hostname, address |-> c.listeners[i].address,
                                                          present |-> CertificateResolves(c.listeners[i], X)]]
  BY <1>4 DEF Certificates
<1>6. /\ DOMAIN a = S /\ DOMAIN d = S
      /\ \A x \in S : a[x].hostname = d[x].hostname /\ a[x].address = d[x].address
      /\ \A x \in S : a[x].present = CertificateResolves(c.listeners[x], A) /\ d[x].present = CertificateResolves(c.listeners[x], D)
  <2>1. DOMAIN a = S /\ DOMAIN d = S
    BY <1>1, <1>2, <1>5
  <2>2. ASSUME NEW x \in S, NEW X, NEW s, s = Certificates(c.listeners, X)
        PROVE  /\ s[x].hostname = c.listeners[x].hostname /\ s[x].address = c.listeners[x].address
               /\ s[x].present = CertificateResolves(c.listeners[x], X)
    <3>1. PICK v : v = CertificateResolves(c.listeners[x], X)
      OBVIOUS
    <3>2. s[x] = [hostname |-> c.listeners[x].hostname, address |-> c.listeners[x].address, present |-> v]
      BY <1>5, <2>2, <3>1
    <3>3. s[x].hostname = c.listeners[x].hostname /\ s[x].address = c.listeners[x].address /\ s[x].present = v
      BY <3>2
    <3> QED BY <3>1, <3>3
  <2> QED BY <1>1, <1>2, <2>1, <2>2
<1>7. S \subseteq Nat \ {0}
  BY <1>4 DEF IsCluster, IsList
<1>8. PICK best : best = Offering(a, q)
  OBVIOUS
<1>9. best = Offering(d, q) /\ (best # NoId => best \in S)
  BY <1>6, <1>7, <1>8, OfferingIs
<1>10. /\ Handshake(snap, q) <=> best # NoId /\ CertificateResolves(c.listeners[best], A)
       /\ Handshake(full, q) <=> best # NoId /\ CertificateResolves(c.listeners[best], D)
  BY <1>3, <1>6, <1>8, <1>9 DEF Handshake
<1>11. CertificateResolves(c.listeners[best], A) => CertificateResolves(c.listeners[best], D)
  BY MoreResolves
<1>12. ASSUME Handshake(full, q), ~Handshake(snap, q) PROVE \E l \in DOMAIN snap.listenerStatus : ~snap.listenerStatus[l]
  <2>1. best \in DOMAIN c.listeners /\ c.listeners[best].https /\ ~CertificateResolves(c.listeners[best], A)
    BY <1>4, <1>9, <1>10, <1>12
  <2>2. ~ListenerAccepted(c, best, A)
    BY <2>1 DEF ListenerAccepted, ListenerValid
  <2>3. snap.listenerStatus = [l \in DOMAIN c.listeners |-> ListenerAccepted(c, l, A)]
    BY DEF BuildGateway
  <2> QED BY <2>1, <2>2, <2>3
<1> QED BY <1>10, <1>11, <1>12

-----------------------------------------------------------------------------
(* Whatever is missing, a request is answered as with everything there, or *)
(* refused with a status that tells.                                       *)

Told(snap) ==
    \/ \E l \in DOMAIN snap.listenerStatus : ~snap.listenerStatus[l]
    \/ \E i \in DOMAIN snap.routeStatus : ~snap.routeStatus[i].accepted \/ ~snap.routeStatus[i].resolved

LEMMA RouteTold ==
    ASSUME NEW A, NEW c, NEW l \in DOMAIN c.listeners, NEW i \in DOMAIN c.routes, NEW r \in DOMAIN c.routes[i].rules,
           Planned(c, i, A), Attached(c, c.routes[i], l, A), AttachedHosts(c, c.routes[i], l) # <<>>,
           \/ ~(c.routes[i].needs \subseteq A)
           \/ \E x \in DOMAIN Weights(c, c.routes[i].rules[r], A) : Weights(c, c.routes[i].rules[r], A)[x].backend = "none"
    PROVE  Told(BuildGateway(c, A))
<1>1. PICK at : at = {k \in DOMAIN c.listeners : /\ Planned(c, i, A) /\ Attached(c, c.routes[i], k, A)
                                                 /\ AttachedHosts(c, c.routes[i], k) # <<>>}
  OBVIOUS
<1>2. l \in at
  BY <1>1
<1>3. PICK status : status = RouteStatus(c, i, A)
  OBVIOUS
<1>4. status.accepted = (at # {} /\ c.routes[i].needs \subseteq A)
  BY <1>1, <1>3 DEF RouteStatus
<1>5. status.resolved = (at = {} \/ (/\ c.routes[i].needs \subseteq A
                                    /\ \A k \in DOMAIN c.routes[i].rules :
                                          \A x \in DOMAIN Weights(c, c.routes[i].rules[k], A) :
                                             Weights(c, c.routes[i].rules[k], A)[x].backend # "none"))
  BY <1>1, <1>3 DEF RouteStatus
<1>6. ~status.accepted \/ ~status.resolved
  <2>1. CASE ~(c.routes[i].needs \subseteq A)
    BY <1>4, <2>1
  <2>2. CASE \E x \in DOMAIN Weights(c, c.routes[i].rules[r], A) : Weights(c, c.routes[i].rules[r], A)[x].backend = "none"
    <3>1. at # {}
      BY <1>2
    <3> QED BY <1>5, <2>2, <3>1
  <2> QED BY <2>1, <2>2
<1>7. BuildGateway(c, A).routeStatus = [k \in DOMAIN c.routes |-> RouteStatus(c, k, A)]
  BY DEF BuildGateway
<1> QED BY <1>3, <1>6, <1>7 DEF Told

LEMMA EntryAlike ==
    ASSUME NEW c, NEW l, NEW place, NEW A, NEW D
    PROVE  /\ AlikeEntry(RouteEntry(c, l, place, A), RouteEntry(c, l, place, D))
           /\ RouteEntry(c, l, place, A).uid = RouteEntry(c, l, place, D).uid
BY DEF AlikeEntry, RouteEntry

(* Entry ea of a, found with what is available, against entry ed of d.     *)
Meets(a, d, ea, ed, sample, snap) ==
    \/ ea = NoId /\ Told(snap)
    \/ /\ ea = ed
       /\ \/ ea = NoId
          \/ Served(a[ea], sample) = Served(d[ed], sample)
          \/ Served(a[ea], sample) = RefusedRequest /\ Told(snap)

LEMMA EntryServes ==
    ASSUME NEW A, NEW D, NEW c, Extends(c, D, A), IsCluster(c), NEW l \in DOMAIN c.listeners, NEW q, IsQuery(q),
           NEW sample
    PROVE  Meets(RouteEntries(c, l, A), RouteEntries(c, l, D), EntryFor(RouteEntries(c, l, A), q),
                 EntryFor(RouteEntries(c, l, D), q), sample, BuildGateway(c, A))
<1> A \subseteq D
  BY DEF Extends
<1>1. PICK a : a = RouteEntries(c, l, A)
  OBVIOUS
<1>2. PICK d : d = RouteEntries(c, l, D)
  OBVIOUS
<1>3. PICK places : places = EntryPlaces(c, l, A)
  OBVIOUS
<1>4. /\ AreEntries(a) /\ DOMAIN a = DOMAIN places
      /\ \A p \in DOMAIN places : a[p] = RouteEntry(c, l, places[p], A) /\ places[p] \in AllPlaces(c, l, A)
  BY <1>1, <1>3, EntriesAre
<1>5. CASE ~ListenerValid(c.listeners, l, A)
  <2>1. places = <<>>
    BY <1>3, <1>5, PlacesNone
  <2>2. Fits(a, q) = {}
    BY <1>4, <2>1 DEF Fits
  <2>3. EntryFor(a, q) = NoId
    BY <1>4, <2>2, EntryForIsBest
  <2>4. BuildGateway(c, A).listenerStatus = [k \in DOMAIN c.listeners |-> ListenerAccepted(c, k, A)]
    BY DEF BuildGateway
  <2>5. Told(BuildGateway(c, A))
    BY <1>5, <2>4 DEF Told, ListenerAccepted
  <2> QED BY <1>1, <2>3, <2>5 DEF Meets
<1>6. CASE ListenerValid(c.listeners, l, A)
  <2>1. places = EntryPlaces(c, l, D)
    <3>1. ListenerValid(c.listeners, l, D)
      BY <1>6 DEF ListenerValid, CertificateResolves, Permitted
    <3> QED BY <1>3, <1>6, <3>1, PlacesSame
  <2>2. /\ AreEntries(d) /\ DOMAIN d = DOMAIN places
        /\ \A p \in DOMAIN places : d[p] = RouteEntry(c, l, places[p], D)
    BY <1>2, <2>1, EntriesAre
  <2>3. ASSUME NEW p \in DOMAIN places PROVE AlikeEntry(a[p], d[p]) /\ a[p].uid = d[p].uid
    BY <1>4, <2>2, EntryAlike
  <2>4. PICK e : e = EntryFor(a, q)
    OBVIOUS
  <2>5. e = EntryFor(d, q) /\ (e # NoId => e \in DOMAIN places)
    BY <1>4, <2>2, <2>3, <2>4, AlikeEntries
  <2>6. CASE e = NoId
    BY <1>1, <1>2, <2>4, <2>5, <2>6 DEF Meets
  <2>7. CASE e # NoId
    <3>1. e \in DOMAIN places /\ places[e] \in AllPlaces(c, l, A)
      BY <1>4, <2>5, <2>7
    <3>2. PICK i, r, m, h : IsPlace(c, l, A, places[e], i, r, m, h)
      BY <3>1, PlaceIs
    <3>3. /\ places[e][1] = i /\ places[e][2] = r /\ places[e][3] = m /\ places[e][4] = h
          /\ i \in DOMAIN c.routes /\ r \in DOMAIN c.routes[i].rules
          /\ Planned(c, i, A) /\ Attached(c, c.routes[i], l, A) /\ IsRule(c.routes[i].rules[r])
          /\ h \in DOMAIN AttachedHosts(c, c.routes[i], l)
      BY <3>2 DEF IsPlace
    <3>4. AttachedHosts(c, c.routes[i], l) # <<>>
      BY <3>3
    <3>5. a[e].weights = RuleWeights(c, c.routes[i], c.routes[i].rules[r], A)
      BY <1>4, <3>1, <3>3, EntryIs
    <3>6. d[e].weights = RuleWeights(c, c.routes[i], c.routes[i].rules[r], D)
      BY <2>2, <3>1, <3>3, EntryIs
    <3>7. a[e].uid = d[e].uid
      BY <2>3, <3>1
    <3>8. \/ Served(a[e], sample) = Served(d[e], sample)
          \/ /\ Served(a[e], sample) = RefusedRequest
             /\ \/ ~(c.routes[i].needs \subseteq A)
                \/ \E x \in DOMAIN Weights(c, c.routes[i].rules[r], A) : Weights(c, c.routes[i].rules[r], A)[x].backend = "none"
      BY <3>3, <3>5, <3>6, <3>7, RuleServes
    <3>9. Served(a[e], sample) = Served(d[e], sample) \/ (Served(a[e], sample) = RefusedRequest /\ Told(BuildGateway(c, A)))
      BY <3>3, <3>4, <3>8, RouteTold
    <3> QED BY <1>1, <1>2, <2>4, <2>5, <3>9 DEF Meets
  <2> QED BY <2>6, <2>7
<1> QED BY <1>5, <1>6

(* What Result is when listener l and its entry e are found.               *)
IsResult(snap, tls, q, sample, l, e) ==
    /\ (tls /\ ~Handshake(snap, q)) \/ l = NoId \/ e = NoId => Result(snap, tls, q, sample) = RefusedRequest
    /\ ~((tls /\ ~Handshake(snap, q)) \/ l = NoId \/ e = NoId) =>
          Result(snap, tls, q, sample) = Served(snap.listeners[l].entries[e], sample)

LEMMA ResultIs ==
    ASSUME NEW snap, NEW tls \in BOOLEAN, NEW q, NEW sample, NEW l, l = ListenerFor(snap.listeners, q),
           NEW e, e = EntryFor(snap.listeners[l].entries, q)
    PROVE  IsResult(snap, tls, q, sample, l, e)
<1>1. PICK at : at = RouteGateway(snap.listeners, q)
  OBVIOUS
<1>2. at = IF l = NoId THEN NoRoute ELSE IF e = NoId THEN NoRoute ELSE <<l, e>>
  BY <1>1 DEF RouteGateway
<1>3. <<l, e>> # NoRoute
  BY DEF NoRoute
<1>4. Result(snap, tls, q, sample) = IF (tls /\ ~Handshake(snap, q)) \/ at = NoRoute THEN RefusedRequest
                                     ELSE Served(snap.listeners[at[1]].entries[at[2]], sample)
  BY <1>1 DEF Result
<1>5. CASE l = NoId \/ e = NoId
  BY <1>2, <1>4, <1>5 DEF IsResult
<1>6. CASE ~(l = NoId \/ e = NoId)
  <2>1. at = <<l, e>> /\ at[1] = l /\ at[2] = e
    BY <1>2, <1>6
  <2> QED BY <1>3, <1>4, <1>6, <2>1 DEF IsResult
<1> QED BY <1>5, <1>6

LEMMA MissingOnlyRefuses ==
    ASSUME NEW A, NEW D, NEW c, Extends(c, D, A), IsCluster(c), NEW q, IsQuery(q), NEW tls \in BOOLEAN, NEW sample,
           NEW snap, snap = BuildGateway(c, A), NEW full, full = BuildGateway(c, D)
    PROVE  \/ Result(snap, tls, q, sample) = Result(full, tls, q, sample)
           \/ Result(snap, tls, q, sample) = RefusedRequest /\ Told(snap)
<1>1. ASSUME NEW X, NEW s, s = BuildGateway(c, X)
      PROVE  /\ DOMAIN s.listeners = DOMAIN c.listeners
             /\ \A k \in DOMAIN c.listeners : /\ s.listeners[k].address = c.listeners[k].address
                                              /\ s.listeners[k].hostname = c.listeners[k].hostname
                                              /\ s.listeners[k].entries = RouteEntries(c, k, X)
  <2>1. s.listeners = [k \in DOMAIN c.listeners |->
                         [address |-> c.listeners[k].address, hostname |-> c.listeners[k].hostname,
                          entries |-> RouteEntries(c, k, X)]]
    BY <1>1 DEF BuildGateway
  <2> QED BY <2>1
<1>2. PICK l : l = ListenerFor(snap.listeners, q)
  OBVIOUS
<1>3. l = ListenerFor(full.listeners, q)
  <2>1. DOMAIN snap.listeners = DOMAIN full.listeners
    BY <1>1
  <2>2. \A k \in DOMAIN snap.listeners : /\ snap.listeners[k].address = full.listeners[k].address
                                         /\ snap.listeners[k].hostname = full.listeners[k].hostname
    BY <1>1
  <2> QED BY <1>2, <2>1, <2>2, AlikeListeners
<1>4. l # NoId => l \in DOMAIN c.listeners
  <2>1. AreListeners(snap.listeners)
    <3>1. IsList(snap.listeners)
      <4>1. Len(c.listeners) \in Nat /\ DOMAIN c.listeners = 1..Len(c.listeners)
        BY DEF IsCluster, IsList
      <4>2. snap.listeners = [k \in 1..Len(c.listeners) |->
                         [address |-> c.listeners[k].address, hostname |-> c.listeners[k].hostname,
                          entries |-> RouteEntries(c, k, A)]]
        BY <4>1 DEF BuildGateway
      <4>3. Len(snap.listeners) = Len(c.listeners) /\ DOMAIN snap.listeners = 1..Len(c.listeners)
        BY <4>1, <4>2
      <4> QED BY <4>1, <4>3 DEF IsList
    <3>2. ASSUME NEW k \in DOMAIN snap.listeners
          PROVE  IsPattern(snap.listeners[k].hostname) /\ AreEntries(snap.listeners[k].entries)
      <4>1. /\ k \in DOMAIN c.listeners /\ snap.listeners[k].hostname = c.listeners[k].hostname
            /\ snap.listeners[k].entries = RouteEntries(c, k, A)
        BY <1>1
      <4>2. IsPattern(c.listeners[k].hostname)
        BY <4>1 DEF IsCluster
      <4>3. AreEntries(RouteEntries(c, k, A))
        BY <4>1, EntriesAre
      <4> QED BY <4>1, <4>2, <4>3
    <3> QED BY <3>1, <3>2 DEF AreListeners
  <2>2. l # NoId => l \in DOMAIN snap.listeners
    BY <1>2, <2>1, ListenerForIsBest
  <2> QED BY <1>1, <2>2
<1>5. PICK ea : ea = EntryFor(snap.listeners[l].entries, q)
  OBVIOUS
<1>6. PICK ed : ed = EntryFor(full.listeners[l].entries, q)
  OBVIOUS
<1>7. IsResult(snap, tls, q, sample, l, ea)
  BY <1>2, <1>5, ResultIs
<1>8. IsResult(full, tls, q, sample, l, ed)
  BY <1>3, <1>6, ResultIs
<1>9. /\ Handshake(snap, q) => Handshake(full, q)
      /\ Handshake(full, q) /\ ~Handshake(snap, q) => Told(snap)
  BY HandshakeIs DEF Told, Extends
<1>10. CASE (tls /\ ~Handshake(snap, q)) \/ l = NoId
  BY <1>7, <1>8, <1>9, <1>10 DEF IsResult
<1>11. CASE ~((tls /\ ~Handshake(snap, q)) \/ l = NoId)
  <2>1. /\ l \in DOMAIN c.listeners
        /\ snap.listeners[l].entries = RouteEntries(c, l, A) /\ full.listeners[l].entries = RouteEntries(c, l, D)
    BY <1>1, <1>4, <1>11
  <2>2. Meets(snap.listeners[l].entries, full.listeners[l].entries, ea, ed, sample, snap)
    BY <1>5, <1>6, <2>1, EntryServes
  <2> QED BY <1>7, <1>8, <1>9, <1>11, <2>2 DEF IsResult, Meets
<1> QED BY <1>10, <1>11

-----------------------------------------------------------------------------
(* What a request met is what the snapshot of the dependencies available   *)
(* gives it.                                                               *)
GatewayOk ==
    /\ cluster \in Clusters /\ available \subseteq Dependencies /\ snapshot = BuildGateway(cluster, available)
    /\ outcome # Unasked =>
          /\ outcome.query \in Asked
          /\ outcome.result = Result(snapshot, IsTls(cluster, outcome.query.address), outcome.query, outcome.sample)

LEMMA GatewayStep == GatewayOk /\ [GatewayNext]_gatewayVars => GatewayOk'
<1> SUFFICES ASSUME GatewayOk, [GatewayNext]_gatewayVars PROVE GatewayOk'
  OBVIOUS
<1>1. ASSUME NEW d \in Dependencies, Reconcile(d) PROVE GatewayOk'
  <2>1. /\ cluster' = cluster /\ outcome' = Unasked /\ snapshot' = BuildGateway(cluster', available')
        /\ available' = (available \cup {d}) \ (available \cap {d})
    BY <1>1 DEF Reconcile
  <2>2. available' \subseteq Dependencies
    BY <2>1 DEF GatewayOk
  <2>3. Unasked' = Unasked
    BY DEF Unasked, RefusedRequest, NoQuery
  <2> QED BY <2>1, <2>2, <2>3 DEF GatewayOk
<1>2. ASSUME NEW q \in Asked, NEW sample \in Samples, Ask(q, sample) PROVE GatewayOk'
  <2>1. /\ cluster' = cluster /\ available' = available /\ snapshot' = snapshot
        /\ outcome' = [query |-> q, sample |-> sample,
                       result |-> Result(snapshot, IsTls(cluster, q.address), q, sample)]
    BY <1>2 DEF Ask
  <2>2. outcome'.query = q /\ outcome'.sample = sample
        /\ outcome'.result = Result(snapshot, IsTls(cluster, q.address), q, sample)
    BY <2>1
  <2> QED BY <2>1, <2>2 DEF GatewayOk
<1>3. CASE UNCHANGED gatewayVars
  BY <1>3 DEF GatewayOk, gatewayVars, Unasked, RefusedRequest, NoQuery
<1> QED BY <1>1, <1>2, <1>3 DEF GatewayNext

LEMMA GatewayCloses == GatewayOk => FailsClosed
<1> SUFFICES ASSUME GatewayOk, outcome # Unasked
    PROVE  \/ outcome.result = Result(BuildGateway(cluster, available \cup (Dependencies \ Deciding(cluster))),
                                      IsTls(cluster, outcome.query.address), outcome.query, outcome.sample)
           \/ outcome.result = RefusedRequest /\ Told(snapshot)
  BY DEF FailsClosed, Told
<1>1. IsCluster(cluster) /\ IsQuery(outcome.query)
  BY GatewayAssumption DEF GatewayOk
<1>2. IsTls(cluster, outcome.query.address) \in BOOLEAN
  BY DEF IsTls
<1>3. PICK served : served = available \cup (Dependencies \ Deciding(cluster))
  OBVIOUS
<1>4. Extends(cluster, served, available)
  BY <1>3 DEF Extends
<1>5. PICK full : full = BuildGateway(cluster, served)
  OBVIOUS
<1> QED BY <1>1, <1>2, <1>3, <1>4, <1>5, MissingOnlyRefuses DEF GatewayOk

(* A request to a Gateway whose Secrets, grants, Services or CA bundles    *)
(* come and go meets the backend it would meet with all of them there, or  *)
(* is refused while a status of a listener or a route says why.  Plugin    *)
(* sources and Namespaces come and go too, but are the same on both sides  *)
(* of the comparison: without them build() withdraws or detaches a route,  *)
(* and nothing keeps a broader one from answering.                         *)
THEOREM MissingResourcesFailClosed == GatewaySpec => []FailsClosed
<1>1. GatewayInit => GatewayOk
  BY DEF GatewayInit, GatewayOk
<1>2. GatewayOk /\ [GatewayNext]_gatewayVars => GatewayOk'
  BY GatewayStep
<1>3. GatewayOk => FailsClosed
  BY GatewayCloses
<1> QED BY <1>1, <1>2, <1>3, PTL DEF GatewaySpec
=============================================================================
