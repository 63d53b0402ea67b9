-------------------------------- MODULE Xdp --------------------------------
(***************************************************************************)
(* The XDP agent's attachment (xdp/lifecycle.rs, xdp/service.rs) on one    *)
(* interface: the pin directory on bpffs, which outlives the process, and  *)
(* the kernel's link, which lives while it is pinned or the agent holds    *)
(* it.  The agent may be killed between any two system calls, and the      *)
(* thread that loads a new policy may outlive the agent's own loop.        *)
(***************************************************************************)
EXTENDS Naturals, FiniteSets

CONSTANTS
    MaxPrograms,    \* bound: programs loaded, over all processes
    MaxOwners       \* bound: owner maps created

ASSUME XdpAssumption == {MaxPrograms, MaxOwners} \subseteq Nat \ {0}

VARIABLES
    pins,       \* [dir, owner, raw, rates, programs, link]: the pin directory
    attached,   \* the program on the interface, 0 for none
    uses,       \* program -> the owner map it was loaded with, 0 if never loaded
    agent,      \* [at, persist, keep, loaded, next, job]: the process holding the lock
    straggler   \* a stopped agent's loader is still running

xdpVars == <<pins, attached, uses, agent, straggler>>

Programs == 1..MaxPrograms
NoAgent == [at |-> "off", persist |-> FALSE, keep |-> FALSE, loaded |-> 0, next |-> 0, job |-> "none"]
NoPins == [dir |-> FALSE, owner |-> 0, raw |-> FALSE, rates |-> FALSE, programs |-> {}, link |-> FALSE]
Made == {uses[p] : p \in Programs} \cup {pins.owner}

XdpInit ==
    /\ pins = NoPins
    /\ attached = 0
    /\ uses = [p \in Programs |-> 0]
    /\ agent = NoAgent
    /\ straggler = FALSE

(* A map or program gets an id of its own.                                 *)
FreshOwner(o) == o \in 1..MaxOwners /\ \A other \in Made : other < o
FreshProgram(p) == p \in Programs /\ uses[p] = 0 /\ \A q \in Programs : q < p => uses[q] # 0

-----------------------------------------------------------------------------
(* Pins::open under the interface's lock: the directory is made,           *)
Open(persist, job) ==
    /\ agent.at = "off"
    /\ agent' = [NoAgent EXCEPT !.at = "open", !.persist = persist, !.job = job]
    /\ pins' = [pins EXCEPT !.dir = TRUE]
    /\ UNCHANGED <<attached, uses, straggler>>

(* then its owner is checked or, in an empty directory, created.  The maps *)
(* and pins of another owner are left alone.                               *)
OpenOwner ==
    LET empty == pins.owner = 0 /\ ~pins.rates /\ pins.programs = {} /\ ~pins.link
        mine == pins.owner # 0 /\ ~pins.raw
    IN
    /\ agent.at = "open" /\ pins.dir
    /\ \/ /\ empty
          /\ \E o \in 1..MaxOwners : FreshOwner(o) /\ pins' = [pins EXCEPT !.owner = o]
       \/ mine /\ UNCHANGED pins
    /\ agent' = IF agent.persist \/ ~pins.link
                THEN [agent EXCEPT !.at = agent.job, !.keep = pins.link]
                ELSE NoAgent
    /\ UNCHANGED <<attached, uses, straggler>>

OpenRefused ==
    /\ agent.at = "open"
    /\ ~pins.dir \/ pins.raw \/ (pins.owner = 0 /\ (pins.rates \/ pins.programs # {} \/ pins.link))
    /\ agent' = NoAgent
    /\ UNCHANGED <<pins, attached, uses, straggler>>

(* An error past open, or the end of run: the link held by the process is  *)
(* dropped, and Pins::drop begins.                                         *)
Dropping(keep) == [agent EXCEPT !.at = "drop", !.keep = keep]
Unheld == attached' = IF pins.link THEN attached ELSE 0

Fail ==
    /\ agent.at \in {"load", "bind", "stage", "attach", "pinLink", "detach"}
    /\ agent' = Dropping(agent.keep)
    /\ Unheld
    /\ UNCHANGED <<pins, uses, straggler>>

-----------------------------------------------------------------------------
(* Loaded::configured: maps pinned by name are reused or made and pinned,  *)
(* and the program is loaded with them.                                    *)
LoadMaps(o) ==
    /\ pins.dir
    /\ IF pins.owner = 0 THEN FreshOwner(o) ELSE o = pins.owner
    /\ pins' = [pins EXCEPT !.owner = o, !.rates = TRUE, !.raw = @ \/ pins.owner = 0]

Configured ==
    /\ agent.at = "load"
    /\ \E o \in 1..MaxOwners, p \in Programs :
           /\ LoadMaps(o) /\ FreshProgram(p)
           /\ uses' = [uses EXCEPT ![p] = o]
           /\ agent' = [agent EXCEPT !.at = "bind", !.loaded = p]
    /\ UNCHANGED <<attached, straggler>>

(* Pins::attach: the program is bound to the owner and pinned,             *)
BindOwner ==
    /\ agent.at = "bind"
    /\ pins' = [pins EXCEPT !.raw = IF uses[agent.loaded] = pins.owner THEN FALSE ELSE @]
    /\ agent' = [agent EXCEPT !.at = IF agent.persist THEN "stage" ELSE "attach"]
    /\ UNCHANGED <<attached, uses, straggler>>

\* Mutant of PinProgram: the pins of older programs go as soon as the new one is pinned.
PinProgramAndPrune(p) == pins' = [pins EXCEPT !.programs = {p}]
PinProgram(p) == pins' = [pins EXCEPT !.programs = @ \cup {p}]

Stage ==
    /\ agent.at = "stage"
    /\ PinProgram(agent.loaded)
    /\ agent' = [agent EXCEPT !.at = "attach"]
    /\ UNCHANGED <<attached, uses, straggler>>

(* owned_link: the pinned link's program is pinned, and uses our owner.    *)
OwnedLink == pins.link /\ attached \in pins.programs /\ pins.owner # 0 /\ uses[attached] = pins.owner

(* BPF_LINK_UPDATE with BPF_F_REPLACE: only the program named is replaced. *)
ReplaceFd(old, next) == attached = old /\ attached' = next

(* the pinned link is switched over, or a link made, and pinned,           *)
Attach ==
    /\ agent.at = "attach"
    /\ IF pins.link
       THEN /\ OwnedLink
            /\ ReplaceFd(attached, agent.loaded)
            /\ agent' = [agent EXCEPT !.at = "prune", !.keep = agent.persist]
       ELSE /\ attached = 0
            /\ attached' = agent.loaded
            /\ agent' = [agent EXCEPT !.at = IF agent.persist THEN "pinLink" ELSE "run"]
    /\ UNCHANGED <<pins, uses, straggler>>

PinLink ==
    /\ agent.at = "pinLink" /\ pins.dir
    /\ pins' = [pins EXCEPT !.link = TRUE]
    /\ agent' = [agent EXCEPT !.at = "prune", !.keep = TRUE]
    /\ UNCHANGED <<attached, uses, straggler>>

(* prune_programs: the other programs' pins go one by one.                 *)
PruneOne ==
    /\ agent.at = "prune"
    /\ \E p \in pins.programs \ {agent.loaded} : pins' = [pins EXCEPT !.programs = @ \ {p}]
    /\ UNCHANGED <<attached, uses, agent, straggler>>
PruneEnds ==
    /\ agent.at = "prune"
    /\ agent' = [agent EXCEPT !.at = "run", !.next = 0]     \* an error only leaves pins behind
    /\ UNCHANGED <<pins, attached, uses, straggler>>

-----------------------------------------------------------------------------
(* The agent's loop: a changed policy is loaded on a thread of its own,    *)
Reload ==
    /\ agent.at = "run"
    /\ agent' = [agent EXCEPT !.at = "reload"]
    /\ UNCHANGED <<pins, attached, uses, straggler>>
ReloadEnds ==
    /\ agent.at = "reload"
    /\ \/ \E o \in 1..MaxOwners, p \in Programs :
              /\ LoadMaps(o) /\ FreshProgram(p)
              /\ uses' = [uses EXCEPT ![p] = o]
              /\ agent' = [agent EXCEPT !.at = IF agent.persist THEN "restage" ELSE "replace", !.next = p]
       \/ agent' = [agent EXCEPT !.at = "run"] /\ UNCHANGED <<pins, uses>>
    /\ UNCHANGED <<attached, straggler>>

(* then pinned, put in place of the old one, which a failure leaves where  *)
(* it is, and the old pins pruned.                                         *)
Restage ==
    /\ agent.at = "restage"
    /\ PinProgram(agent.next)
    /\ agent' = [agent EXCEPT !.at = "replace"]
    /\ UNCHANGED <<attached, uses, straggler>>
Replace ==
    /\ agent.at = "replace"
    /\ \/ /\ ReplaceFd(agent.loaded, agent.next)
          /\ agent' = [agent EXCEPT !.at = IF agent.persist THEN "prune" ELSE "run",
                                    !.loaded = agent.next, !.next = 0]
       \/ agent' = [agent EXCEPT !.at = "run", !.next = 0] /\ UNCHANGED attached
    /\ UNCHANGED <<pins, uses, straggler>>

(* SIGTERM, at rest or while a policy is loading: that thread goes on.     *)
StopAgent ==
    /\ agent.at \in {"run", "reload"}
    /\ agent' = Dropping(agent.keep)
    /\ straggler' = (straggler \/ agent.at = "reload")
    /\ Unheld
    /\ UNCHANGED <<pins, uses>>
StragglerLoads ==
    /\ straggler
    /\ \/ \E o \in 1..MaxOwners : LoadMaps(o)
       \/ UNCHANGED pins
    /\ straggler' = FALSE
    /\ UNCHANGED <<attached, uses, agent>>

(* xdp detach: the owned link is removed, then the programs' pins.         *)
Detach ==
    /\ agent.at = "detach" /\ OwnedLink
    /\ pins' = [pins EXCEPT !.link = FALSE]
    /\ attached' = 0
    /\ agent' = [agent EXCEPT !.at = "detached"]
    /\ UNCHANGED <<uses, straggler>>
DetachEnds ==
    /\ agent.at = "detached" /\ pins.programs = {}
    /\ agent' = Dropping(FALSE)
    /\ UNCHANGED <<pins, attached, uses, straggler>>
UnpinOne ==
    /\ agent.at = "detached" \/ (agent.at = "drop" /\ ~agent.keep)
    /\ \E p \in pins.programs : pins' = [pins EXCEPT !.programs = @ \ {p}]
    /\ UNCHANGED <<attached, uses, agent, straggler>>

(* Drop for Pins: nothing, or the pins in this order and the directory if  *)
(* that leaves it empty.                                                   *)
DropKeeps ==
    /\ agent.at = "drop" /\ agent.keep
    /\ agent' = NoAgent
    /\ UNCHANGED <<pins, attached, uses, straggler>>
DropOwner ==
    /\ agent.at = "drop" /\ ~agent.keep /\ pins.programs = {}
    /\ pins' = [pins EXCEPT !.owner = 0, !.raw = FALSE]
    /\ agent' = [agent EXCEPT !.at = "dropRates"]
    /\ UNCHANGED <<attached, uses, straggler>>
DropRates ==
    /\ agent.at = "dropRates"
    /\ pins' = [pins EXCEPT !.rates = FALSE]
    /\ agent' = [agent EXCEPT !.at = "dropDirectory"]
    /\ UNCHANGED <<attached, uses, straggler>>
DropDirectory ==
    /\ agent.at = "dropDirectory"
    /\ pins' = [pins EXCEPT !.dir = pins.owner # 0 \/ pins.rates \/ pins.programs # {} \/ pins.link]
    /\ agent' = NoAgent
    /\ UNCHANGED <<attached, uses, straggler>>

(* SIGKILL: what is not pinned goes.  A straggler may be of an earlier     *)
(* process.                                                                *)
Kill ==
    /\ agent.at # "off"
    /\ agent' = NoAgent
    /\ straggler' \in {FALSE, straggler}
    /\ Unheld
    /\ UNCHANGED <<pins, uses>>

XdpNext ==
    \/ \E persist \in BOOLEAN : Open(persist, "load")
    \/ Open(TRUE, "detach")
    \/ OpenOwner \/ OpenRefused \/ Fail \/ Configured \/ BindOwner \/ Stage \/ Attach \/ PinLink
    \/ PruneOne \/ PruneEnds \/ Reload \/ ReloadEnds \/ Restage \/ Replace \/ StopAgent \/ StragglerLoads
    \/ Detach \/ DetachEnds \/ DropKeeps \/ UnpinOne \/ DropOwner \/ DropRates \/ DropDirectory
    \/ Kill

XdpSpec == XdpInit /\ [][XdpNext]_xdpVars

-----------------------------------------------------------------------------
(* "Program pins are staged before replacement so interruption cannot      *)
(* leave an unrecoverable link/program mismatch" (docs/xdp.md): whenever   *)
(* the process dies, the pinned link is one that owned_link accepts, so    *)
(* the next agent takes it over and detach removes it.                     *)
LinkRecoverable == pins.link => OwnedLink /\ ~pins.raw /\ pins.dir
=============================================================================
