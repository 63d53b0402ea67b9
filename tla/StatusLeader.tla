----------------------------- MODULE StatusLeader -----------------------------
(***************************************************************************)
(* Who publishes status: the Lease of the Ingress and Gateway controllers  *)
(* and the batch of status updates a leader writes under it                *)
(* (ingress/status.rs, gateway/status.rs).  Both controllers follow the    *)
(* same protocol; where they differ, "gateway" is the mode of the model.   *)
(* The clock counts units of the 5 s an API call may take, and is shared:  *)
(* clocks that differ by more than the margin of 5 s are outside the model.*)
(* One object stands for every object of a batch.                          *)
(***************************************************************************)
EXTENDS Naturals

CONSTANTS
    Reporters,
    LeaseDuration,      \* 30 s
    RenewPeriod,        \* 10 s
    CallTimeout,        \* 5 s
    MaxStatusTime,      \* bound: the clock
    MaxGeneration, MaxAddress, MaxStatusWrites      \* bounds

NoReporter == "none"
NoAddress == 0

(* A claim, the read of the Service and an update that began in time all   *)
(* end before the Lease does: 10 s and three times 5 s are less than 30 s. *)
ASSUME LeaderAssumption ==
    /\ {LeaseDuration, RenewPeriod, CallTimeout, MaxStatusTime} \subseteq Nat
    /\ {MaxGeneration, MaxAddress, MaxStatusWrites} \subseteq Nat
    /\ RenewPeriod > 0 /\ RenewPeriod + 3 * CallTimeout <= LeaseDuration
    /\ NoReporter \notin Reporters

VARIABLES
    gateway,        \* which controller
    statusTime,
    lease,          \* [holder, renewed]; no two leases written are the same
    reporter,       \* reporter -> its place in the loop of run()
    object,         \* [generation, version, status: [generation, address]]
    address,        \* the address the published Service has, a version of it
    highest         \* the latest address ever published

leaderVars == <<gateway, statusTime, lease, reporter, object, address, highest>>

NoLease == [holder |-> NoReporter, renewed |-> 0]
Resting == [at |-> "idle", since |-> 0, now |-> 0, lease |-> NoLease, batch |-> FALSE,
            renewed |-> 0, regained |-> FALSE, address |-> NoAddress, generation |-> 0, version |-> 0]

LeaderInit ==
    /\ gateway \in BOOLEAN
    /\ statusTime = 1
    /\ lease = NoLease
    /\ reporter = [r \in Reporters |-> Resting]
    /\ object = [generation |-> 1, version |-> 1, status |-> [generation |-> 0, address |-> NoAddress]]
    /\ address = 1
    /\ highest = NoAddress

Set(r, fields) == reporter' = [reporter EXCEPT ![r] = fields]
Rest(r) == Set(r, Resting)
Settled(me) == [me EXCEPT !.at = "batch", !.since = 0, !.now = 0, !.lease = NoLease, !.version = 0]

-----------------------------------------------------------------------------
(* A report arrives or the ticker fires; a batch under way renews its      *)
(* Lease when 10 s have passed.  Either way claim_lease reads the clock    *)
(* and the Lease.                                                          *)
Wake(r) ==
    /\ reporter[r].at = "idle"
    /\ Set(r, [Resting EXCEPT !.at = "claim", !.since = statusTime, !.now = statusTime,
                              !.lease = lease, !.generation = object.generation])
    /\ UNCHANGED <<gateway, statusTime, lease, object, address, highest>>

RenewDue(r) == statusTime - reporter[r].renewed >= RenewPeriod
Renew(r) ==
    /\ reporter[r].at = "batch" /\ RenewDue(r)
    /\ Set(r, [reporter[r] EXCEPT !.at = "claim", !.since = statusTime, !.now = statusTime, !.lease = lease])
    /\ UNCHANGED <<gateway, statusTime, lease, object, address, highest>>

(* leader(): another holder's Lease is left alone until it expires; the    *)
(* replace carries the version that was read.  A batch that stalled may    *)
(* find the Lease of a successor expired and go on with what it had read:  *)
(* "regained" notes it.                                                    *)
Fresh(l, now) == l.holder # NoReporter /\ l.renewed + LeaseDuration > now
Claims(r, now) == [holder |-> r, renewed |-> now]
Writable(me, r) == lease = me.lease /\ ~(Fresh(me.lease, me.now) /\ me.lease.holder # r)

Claim(r) ==
    LET me == reporter[r] IN
    /\ me.at = "claim" /\ Writable(me, r)
    /\ lease' = Claims(r, me.now)
    /\ Set(r, IF me.batch THEN [Settled(me) EXCEPT !.renewed = statusTime,
                                                   !.regained = me.regained \/ me.lease.holder # r]
              ELSE [Settled(me) EXCEPT !.at = "service", !.since = statusTime])
    /\ UNCHANGED <<gateway, statusTime, object, address, highest>>

(* The claim is contended, or the call is lost before or after the write.  *)
Contend(r) ==
    /\ reporter[r].at = "claim"
    /\ lease' = lease \/ (Writable(reporter[r], r) /\ lease' = Claims(r, reporter[r].now))
    /\ Rest(r)
    /\ UNCHANGED <<gateway, statusTime, object, address, highest>>

(* The address of the published Service is read once for the batch; when   *)
(* that fails an Ingress batch ends, a Gateway one publishes none.         *)
ReadService(r) ==
    LET start(a) == [Settled(reporter[r]) EXCEPT !.batch = TRUE, !.renewed = statusTime,
                                        !.address = a]
    IN
    /\ reporter[r].at = "service"
    /\ \/ Set(r, start(address))
       \/ IF gateway THEN Set(r, start(NoAddress)) ELSE Rest(r)
    /\ UNCHANGED <<gateway, statusTime, lease, object, address, highest>>

-----------------------------------------------------------------------------
(* The next update of the batch begins, unless the Lease is to be renewed. *)
\* Mutant of NextUpdate: a long batch relies on the claim it began with.
NextUpdateWithoutRenewal(r) ==
    /\ reporter[r].at = "batch"
    /\ Set(r, [reporter[r] EXCEPT !.at = "get", !.since = statusTime])
    /\ UNCHANGED <<gateway, statusTime, lease, object, address, highest>>

NextUpdate(r) ==
    /\ reporter[r].at = "batch" /\ ~RenewDue(r)
    /\ Set(r, [reporter[r] EXCEPT !.at = "get", !.since = statusTime])
    /\ UNCHANGED <<gateway, statusTime, lease, object, address, highest>>

(* The status of a Gateway object tells the generation it was built from;  *)
(* an Ingress has its address only.                                        *)
Desired(me) == [generation |-> IF gateway THEN me.generation ELSE 0, address |-> me.address]

(* publish / update_ingress: the current object is read; a Gateway update  *)
(* for another generation, and a status that is there already, end it.     *)
PublishEnds(me) == object.generation # me.generation \/ object.status = Desired(me)
UpdateIngressEnds(me) == object.status = Desired(me)

GetCurrent(r) ==
    LET me == reporter[r] IN
    /\ me.at = "get"
    /\ IF (gateway /\ PublishEnds(me)) \/ (~gateway /\ UpdateIngressEnds(me))
       THEN Set(r, Settled(me))
       ELSE Set(r, [Settled(me) EXCEPT !.at = "patch", !.version = object.version])
    /\ UNCHANGED <<gateway, statusTime, lease, object, address, highest>>

(* patch_status with the resourceVersion that was read; the request may be *)
(* lost, or arrive long after the call timed out.                          *)
Patch(r) ==
    LET me == reporter[r] IN
    /\ me.at = "patch"
    /\ \/ /\ object.version = me.version /\ object.version < MaxStatusWrites
          /\ object' = [object EXCEPT !.version = @ + 1, !.status = Desired(me)]
          /\ highest' = IF me.address > highest THEN me.address ELSE highest
       \/ UNCHANGED <<object, highest>>
    /\ Set(r, Settled(me))
    /\ UNCHANGED <<gateway, statusTime, lease, address>>

(* The batch is done, or the process restarts.                             *)
EndBatch(r) ==
    /\ reporter[r].at # "idle"
    /\ Rest(r)
    /\ UNCHANGED <<gateway, statusTime, lease, object, address, highest>>

-----------------------------------------------------------------------------
EditObject ==
    /\ object.generation < MaxGeneration
    /\ object' = [object EXCEPT !.generation = @ + 1, !.version = @ + 1]
    /\ UNCHANGED <<gateway, statusTime, lease, reporter, address, highest>>

NewAddress ==
    /\ address < MaxAddress
    /\ address' = address + 1
    /\ UNCHANGED <<gateway, statusTime, lease, reporter, object, highest>>

(* A call that has a timeout ends before the clock passes it.              *)
LeaderTick ==
    /\ statusTime < MaxStatusTime
    /\ \A r \in Reporters :
         reporter[r].at \in {"claim", "service", "get"} => statusTime < reporter[r].since + CallTimeout
    /\ statusTime' = statusTime + 1
    /\ UNCHANGED <<gateway, lease, reporter, object, address, highest>>

LeaderNext ==
    \/ \E r \in Reporters :
        \/ Wake(r) \/ Renew(r) \/ Claim(r) \/ Contend(r) \/ ReadService(r)
        \/ NextUpdate(r) \/ GetCurrent(r) \/ Patch(r) \/ EndBatch(r)
    \/ EditObject \/ NewAddress \/ LeaderTick

LeaderSpec == LeaderInit /\ [][LeaderNext]_leaderVars

-----------------------------------------------------------------------------
(* What is published never goes back: a leader that has lost its Lease     *)
(* without knowing cannot put the address it read before over the one its  *)
(* successor published, unless its batch outlived that Lease as well and   *)
(* claimed it (regained); and a status is that of the generation the       *)
(* object has.                                                             *)
Publishes(r) == reporter[r].at = "patch" /\ reporter'[r] # reporter[r]
StatusAdvances ==
    [][ object'.status # object.status =>
            /\ \A r \in Reporters : Publishes(r) /\ ~reporter[r].regained =>
                  object'.status.address = NoAddress \/ object'.status.address >= highest
            /\ gateway => object'.status.generation = object.generation ]_leaderVars
=============================================================================
