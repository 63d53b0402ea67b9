------------------------------ MODULE Rollout ------------------------------
(***************************************************************************)
(* The staged traffic rollout of src/rollout.rs and src/rollout/progress.rs*)
(* as pure operators: the release progress kept in an annotation, the      *)
(* sample totals of one observation window, the thresholds that latch a    *)
(* rollback and the decision to enter the next stage.  RolloutFleet runs   *)
(* them on every replica of the controller.                                *)
(*                                                                         *)
(* A policy stands for a whole traffic-policy annotation: its revision and *)
(* its hash are one number, later policies have larger numbers.  Stages    *)
(* count from 0; Steps[s + 1] is stage s.                                  *)
(***************************************************************************)
EXTENDS Integers, Sequences

CONSTANTS
    Steps,          \* <<[duration, min_requests, approval], ...>>
    MinRequests,    \* Rollback.min_requests
    ErrorPercent,   \* Rollback.error_percent
    HasP95          \* Rollback.max_p95_ms is configured

ASSUME StepsAssumption ==
    /\ Steps \in Seq([duration : Nat, min_requests : Nat, approval : BOOLEAN])
    /\ Len(Steps) >= 1

ASSUME RuleAssumption ==
    /\ MinRequests \in Nat \ {0}
    /\ ErrorPercent \in 1..100
    /\ HasP95 \in BOOLEAN

NoPolicy == 0
NoStage  == -1
StageSet == 0..(Len(Steps) - 1)

(***************************************************************************)
(* Samples: totals over the window.  slow counts the samples above         *)
(* max_p95_ms.                                                             *)
(***************************************************************************)
Samples   == [count : Nat, errors : Nat, slow : Nat]
NoSamples == [count |-> 0, errors |-> 0, slow |-> 0]
One(b)    == IF b THEN 1 ELSE 0

AddSample(t, failed, slow) ==
    [count  |-> t.count + 1,
     errors |-> t.errors + One(failed),
     slow   |-> t.slow + One(HasP95 /\ slow)]

RemoveSample(t, failed, slow) ==
    [count  |-> t.count - 1,
     errors |-> t.errors - One(failed),
     slow   |-> t.slow - One(HasP95 /\ slow)]

MergeSamples(s, t) ==
    [count  |-> s.count + t.count,
     errors |-> s.errors + t.errors,
     slow   |-> s.slow + t.slow]

ErrorLimit(t)   == t.errors * 100 >= t.count * ErrorPercent
LatencyLimit(t) == HasP95 /\ t.slow > t.count \div 20

\* What State::completed latches on.
Breached(t) == t.count >= MinRequests /\ (ErrorLimit(t) \/ LatencyLimit(t))

(***************************************************************************)
(* The nearest-rank p95 of n samples is the sample of rank ceil(95n/100)   *)
(* in increasing order.  It exceeds the limit exactly when fewer than that *)
(* many samples lie within the limit.                                      *)
(***************************************************************************)
P95Rank(n) == (95 * n + 99) \div 100
P95Exceeds(n, slow) == n > 0 /\ n - slow < P95Rank(n)

(***************************************************************************)
(* Progress: the content of the rgnix.io/rollout-state annotation.         *)
(***************************************************************************)
Progress ==
    [policy : Nat, stage : StageSet, started : Nat, paused : BOOLEAN,
     approved : StageSet \cup {NoStage}, promoted : BOOLEAN]

DefaultProgress ==
    [policy |-> NoPolicy, stage |-> 0, started |-> 0, paused |-> FALSE,
     approved |-> NoStage, promoted |-> FALSE]

Initial(p, now) == [DefaultProgress EXCEPT !.policy = p, !.started = now]

\* Mutant of SyncProgress: the annotation of another policy is adopted too.
SyncProgressAnyPolicy(p, current, ann) == ann

\* State::sync_progress: the progress a state of policy p holds after it has
\* read the annotation ann.  An absent annotation is the default progress.
SyncProgress(p, current, ann) ==
    IF ann = DefaultProgress THEN DefaultProgress
    ELSE IF ann.policy = p THEN ann
    ELSE current

\* Mutant of SyncClears: the restart of a stage (resume) keeps the samples.
SyncClearsStageOnly(old, new) == old.stage # new.stage

\* ... and whether that empties the window.
SyncClears(old, new) == old.stage # new.stage \/ old.started # new.started

HealthySamples(t) ==
    t.count > 0 => ~ErrorLimit(t) /\ ~LatencyLimit(t)

MayAdvance(g, now, gates, latched, evidence) ==
    LET step == Steps[g.stage + 1] IN
    /\ ~g.paused
    /\ ~g.promoted
    /\ gates
    /\ now - g.started >= step.duration
    /\ step.approval => g.approved = g.stage
    /\ ~latched
    /\ \E t \in evidence : t.count >= step.min_requests /\ HealthySamples(t)

Advanced(g, now) ==
    IF g.stage + 1 = Len(Steps)
    THEN [g EXCEPT !.promoted = TRUE]
    ELSE [g EXCEPT !.stage = g.stage + 1, !.started = now, !.approved = NoStage]

\* State::next_progress: the progress to publish, as a set of at most one.
\* evidence is the fleet's samples, as a set of at most one.
NextProgress(p, g, now, gates, latched, evidence) ==
    IF g.started = 0 THEN {Initial(p, now)}
    ELSE IF MayAdvance(g, now, gates, latched, evidence) THEN {Advanced(g, now)}
    ELSE {}
=============================================================================
