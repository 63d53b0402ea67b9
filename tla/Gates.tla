------------------------------- MODULE Gates -------------------------------
(***************************************************************************)
(* The control files and the business metric gates (controls.rs,           *)
(* rollout/metrics.rs).  A watcher reads the files one after the other     *)
(* while an administrator may be writing them, and publishes what it read  *)
(* if the digests before and after agree.  A poller asks every gate of the *)
(* published file in turn, and at the end of a round each rollout counts   *)
(* the gates that keep failing and may roll back.                          *)
(***************************************************************************)
EXTENDS Naturals, Sequences, FiniteSets, FiniteSetsExt

CONSTANTS
    Gate,               \* gate names
    GatesOf,            \* version of the metrics file -> the gates it defines
    ConsecutiveFailures, FailureSeconds, UnavailableFails,   \* metric_rollback
    Freshness,          \* 60 seconds
    MaxVersion,         \* bound: versions of each file
    MaxStage,           \* bound: stages
    MaxClock            \* bound: the clock

ASSUME GatesAssumption ==
    /\ {ConsecutiveFailures, Freshness, MaxVersion} \subseteq Nat \ {0}
    /\ {FailureSeconds, MaxStage, MaxClock} \subseteq Nat /\ UnavailableFails \in BOOLEAN
    /\ GatesOf \in [1..MaxVersion -> SUBSET Gate]

VARIABLES
    files,      \* [policy, metrics]: the versions on disk
    together,   \* the pairs of versions that have been on disk at one time
    watcher,    \* the versions read so far in this refresh
    controls,     \* [digest, policy, metrics]: the published controls
    polling,    \* [at, state, todo]: the poller's round
    observed,   \* gate -> [digest, passed, checked], or none
    failures,   \* [digest, stage, gates]: gate -> [first, last, count]
    phase,      \* the rollout's stage
    rolled,     \* window.rolled_back
    instant,    \* the clock
    past        \* (history) gate -> its latest answers, if failures: [under, first, last, count]

gateVars == <<files, together, watcher, controls, polling, observed, failures, phase, rolled, instant, past>>

NoEntry == [first |-> 0, last |-> 0, count |-> 0]
NoObservation == [digest |-> <<>>, passed |-> "none", checked |-> 0]
NoRun == [under |-> 0, first |-> 0, last |-> 0, count |-> 0]
NoFailures(digest, stage) == [digest |-> digest, stage |-> stage, gates |-> [g \in Gate |-> NoEntry]]
Idling == [at |-> "rest", state |-> <<>>, todo |-> {}]

GatesInit ==
    /\ files = [policy |-> 1, metrics |-> 1] /\ together = {<<1, 1>>}
    /\ watcher = <<>>
    /\ controls = [digest |-> <<1, 1>>, policy |-> 1, metrics |-> 1]
    /\ polling = Idling
    /\ observed = [g \in Gate |-> NoObservation]
    /\ failures = NoFailures(<<>>, 0)
    /\ phase = 0 /\ rolled = FALSE /\ instant = 0
    /\ past = [g \in Gate |-> NoRun]

(* The administrator replaces a file.                                      *)
WriteFile(f) ==
    /\ files[f] < MaxVersion
    /\ files' = [files EXCEPT ![f] = @ + 1]
    /\ together' = together \cup {<<files'.policy, files'.metrics>>}
    /\ UNCHANGED <<watcher, controls, polling, observed, failures, phase, rolled, instant, past>>

-----------------------------------------------------------------------------
(* Controls::refresh reads both files to compare their digest, then load   *)
(* reads them for the digest, reads them to parse them, and reads them for *)
(* the digest again.                                                       *)
Order == <<"policy", "metrics", "policy", "metrics", "policy", "metrics", "policy", "metrics">>
Digest(i) == <<watcher[i], watcher[i + 1]>>

ReadFile ==
    /\ Len(watcher) < Len(Order)
    /\ Len(watcher) = 2 => Digest(1) # controls.digest
    /\ watcher' = Append(watcher, files[Order[Len(watcher) + 1]])
    /\ UNCHANGED <<files, together, controls, polling, observed, failures, phase, rolled, instant, past>>

(* Nothing changed, or a file does not validate, or the digests differ, or *)
(* the attempt cannot be audited: the refresh ends and comes again.        *)
AbandonRefresh ==
    /\ \/ Len(watcher) = 2 /\ Digest(1) = controls.digest
       \/ Len(watcher) \in {5, 6, 8}
    /\ watcher' = <<>>
    /\ UNCHANGED <<files, together, controls, polling, observed, failures, phase, rolled, instant, past>>

\* Mutant of Unchanged: the digest is not taken again.
UnchangedUnchecked == TRUE
Unchanged == Digest(3) = Digest(7)

PublishControls ==
    /\ Len(watcher) = 8 /\ Unchanged
    /\ controls' = [digest |-> Digest(3), policy |-> watcher[5], metrics |-> watcher[6]]
    /\ watcher' = <<>>
    /\ UNCHANGED <<files, together, polling, observed, failures, phase, rolled, instant, past>>

-----------------------------------------------------------------------------
(* Metrics::load: the gates of the metrics file that controls were read    *)
(* from; and Metrics::evaluate: what asking the provider may come to.      *)
GatesIn(state) == GatesOf[state.metrics]
Verdicts == {"yes", "no", "unknown"}

(* The poller's round, with the controls it began with: each gate is asked *)
(* and the answer kept,                                                    *)
BeginRound ==
    /\ polling.at = "rest"
    /\ polling' = [at |-> "ask", state |-> controls, todo |-> GatesIn(controls)]
    /\ UNCHANGED <<files, together, watcher, controls, observed, failures, phase, rolled, instant, past>>

Failing(passed) == passed = "no" \/ (passed = "unknown" /\ UnavailableFails)

(* (History) An answer goes on with the gate's run of failures under one   *)
(* version of the metrics file, starts another, or ends it.                *)
Run(run, metrics, passed) ==
    CASE ~Failing(passed) -> NoRun
      [] Failing(passed) /\ (run.count = 0 \/ run.under # metrics \/ instant - run.last > Freshness) ->
             [under |-> metrics, first |-> instant, last |-> instant, count |-> 1]
      [] OTHER -> [run EXCEPT !.last = instant, !.count = Min({@ + 1, ConsecutiveFailures})]

Evaluated(g, passed) ==
    /\ polling.at = "ask" /\ g \in polling.todo
    /\ polling' = [polling EXCEPT !.todo = @ \ {g}]
    /\ observed' = [observed EXCEPT ![g] = [digest |-> polling.state.digest, passed |-> passed,
                                            checked |-> instant]]
    /\ past' = [past EXCEPT ![g] = Run(@, polling.state.metrics, passed)]
    /\ UNCHANGED <<files, together, watcher, controls, failures, phase, rolled, instant>>

(* and the rollouts are evaluated, with the failures of another digest or  *)
(* stage forgotten.  A gate that is missing, stale or passing starts anew, *)
(* and so does one not seen for too long.                                  *)
FreshFor(o, digest) == o.digest = digest /\ instant - o.checked <= Freshness

\* Mutant of Tally: an answer that is not a failure does not end the failure.
TallyKeeps(o, entry, digest) ==
    IF ~FreshFor(o, digest) \/ ~Failing(o.passed) THEN entry
    ELSE IF entry.count = 0 \/ o.checked - entry.last > Freshness
         THEN [first |-> o.checked, last |-> o.checked, count |-> 1]
    ELSE IF o.checked > entry.last
         THEN [entry EXCEPT !.last = o.checked, !.count = Min({@ + 1, ConsecutiveFailures})]
    ELSE entry

Tally(o, entry, digest) ==
    IF ~FreshFor(o, digest) \/ ~Failing(o.passed) THEN NoEntry
    ELSE IF entry.count = 0 \/ o.checked - entry.last > Freshness
         THEN [first |-> o.checked, last |-> o.checked, count |-> 1]
    ELSE IF o.checked > entry.last
         THEN [entry EXCEPT !.last = o.checked, !.count = Min({@ + 1, ConsecutiveFailures})]
    ELSE entry

Sustained(entry) == entry.count >= ConsecutiveFailures /\ entry.last - entry.first >= FailureSeconds

(* The first gate that fails for long enough latches the rollback.         *)
RolledBack(gates) == rolled \/ \E g \in Gate : Sustained(gates[g])

EndRound ==
    LET digest == polling.state.digest
        kept == [g \in Gate |-> IF g \in GatesIn(polling.state) THEN observed[g] ELSE NoObservation]
        before == IF failures.digest = digest /\ failures.stage = phase THEN failures
                  ELSE NoFailures(digest, phase)
        after == [g \in Gate |-> Tally(kept[g], before.gates[g], digest)]
    IN
    /\ polling.at = "ask" /\ polling.todo = {}
    /\ polling' = Idling
    /\ observed' = kept
    /\ failures' = [before EXCEPT !.gates = after]
    /\ rolled' = RolledBack(after)
    /\ UNCHANGED <<files, together, watcher, controls, phase, instant, past>>

(* The rollout moves to its next stage; time passes.                       *)
NextStage ==
    /\ phase < MaxStage
    /\ phase' = phase + 1
    /\ UNCHANGED <<files, together, watcher, controls, polling, observed, failures, rolled, instant, past>>
Wait ==
    /\ instant < MaxClock
    /\ instant' = instant + 1
    /\ UNCHANGED <<files, together, watcher, controls, polling, observed, failures, phase, rolled, past>>

GatesNext ==
    \/ ReadFile \/ AbandonRefresh \/ PublishControls \/ BeginRound \/ EndRound \/ NextStage \/ Wait
    \/ \E f \in {"policy", "metrics"} : WriteFile(f)
    \/ \E g \in Gate, passed \in Verdicts : Evaluated(g, passed)

GatesSpec == GatesInit /\ [][GatesNext]_gateVars

-----------------------------------------------------------------------------
(* Files written while they are read never mix: what is published was on   *)
(* disk together, and is what its digest says.                             *)
ControlsCoherent ==
    /\ controls.digest = <<controls.policy, controls.metrics>>
    /\ controls.digest \in together

(* A gate rolls a rollout back only when at least its last                 *)
(* ConsecutiveFailures answers were failures, all under one version of the *)
(* metrics file, over at least FailureSeconds and without a gap.           *)
Unbroken(run) == run.count >= ConsecutiveFailures /\ run.last - run.first >= FailureSeconds
RollbackSustained == [][rolled' /\ ~rolled => \E g \in Gate : Unbroken(past[g])]_gateVars
=============================================================================
