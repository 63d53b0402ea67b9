----------------------------- MODULE ScriptQueue -----------------------------
(***************************************************************************)
(* The shared plugin compiler (script/mod.rs, script/queue.rs): one worker *)
(* thread, a bounded queue with a slot count and a budget per namespace,   *)
(* and a cache that refers to compiled plugins weakly, so that one lives   *)
(* only while a snapshot, the build under way or the warm list holds it.   *)
(* The controller rebuilds its routes again and again; a source that is    *)
(* not compiled is submitted and the build goes on without it.             *)
(***************************************************************************)
EXTENDS Naturals, Sequences, FiniteSets, SequencesExt

CONSTANTS
    Sources,            \* plugin sources
    Owner,              \* source -> its namespace
    Defective,          \* sources that do not compile
    Wanted,             \* sets of sources the routes may refer to
    Tried,              \* sources admission previews
    QueueLimit,         \* 128
    NamespaceLimit,     \* 2
    PerMinute,          \* max_compilations_per_minute
    WarmLimit,          \* 64
    RejectedLimit,      \* 128
    MaxSubmissions      \* bound: changes of routes, and previews

ASSUME ScriptQueueAssumption ==
    /\ Defective \cup Tried \subseteq Sources /\ \A w \in Wanted : w \subseteq Sources
    /\ {QueueLimit, NamespaceLimit, PerMinute, WarmLimit, RejectedLimit} \subseteq Nat \ {0}
    /\ MaxSubmissions \in Nat

VARIABLES
    queue,          \* [jobs, pending, budgets]: the State of the Queue
    working,        \* [at, source]: the worker thread
    results,        \* source -> "none", "ready" (weak) or "rejected": the cache
    warm,           \* the sources of the warm list
    builder,        \* [todo, draft, held]: the controller's build and published snapshot
    wanted,         \* the sources the routes refer to
    submissions

queueVars == <<queue, working, results, warm, builder, wanted, submissions>>

Tenants == {Owner[s] : s \in Sources}
NoSource == "none"

ScriptQueueInit ==
    /\ queue = [jobs |-> <<>>, pending |-> {}, budgets |-> [n \in Tenants |-> 0]]
    /\ working = [at |-> "wait", source |-> NoSource]
    /\ results = [s \in Sources |-> "none"]
    /\ warm = <<>>
    /\ builder = [todo |-> {}, draft |-> {}, held |-> {}]
    /\ wanted \in Wanted
    /\ submissions = 0

(* Compiler::cached: a weak entry counts while something holds the plugin. *)
Referenced(s) == s \in ToSet(warm) \cup builder.draft \cup builder.held
Cached(s) == IF results[s] = "ready" /\ ~Referenced(s) THEN "none" ELSE results[s]

(* Queue::submit.  A source that is pending is not queued again; at a      *)
(* limit nothing changes and the caller tries again later.                 *)
Submit(s) ==
    LET n == Owner[s]
        mine == {p \in queue.pending : Owner[p] = n}
        room == /\ s \notin queue.pending
                /\ Cardinality(queue.pending) < QueueLimit
                /\ Cardinality(mine) < NamespaceLimit
                /\ queue.budgets[n] < PerMinute
    IN queue' = IF room
                THEN [jobs |-> Append(queue.jobs, s), pending |-> queue.pending \cup {s},
                      budgets |-> [queue.budgets EXCEPT ![n] = @ + 1]]
                ELSE queue

(* The budget window of a namespace ends.                                  *)
MinutePasses(n) ==
    /\ queue.budgets[n] > 0
    /\ queue' = [queue EXCEPT !.budgets[n] = 0]
    /\ UNCHANGED <<working, results, warm, builder, wanted, submissions>>

-----------------------------------------------------------------------------
(* The worker: the oldest job is taken,                                    *)
TakeJob ==
    /\ working.at = "wait" /\ queue.jobs # <<>>
    /\ working' = [at |-> "build", source |-> Head(queue.jobs)]
    /\ queue' = [queue EXCEPT !.jobs = Tail(@)]
    /\ UNCHANGED <<results, warm, builder, wanted, submissions>>

(* Compiler::build: the source is rejected or becomes a plugin.            *)
Compiled(s) == IF s \in Defective THEN "rejected" ELSE "ready"

(* The warm list takes a plugin after it has forgotten the aged ones and,  *)
(* at its limit, the oldest.                                               *)
Warmed(s, aged) ==
    LET young == SelectSeq(warm, LAMBDA x : x \notin aged)
        first == IF Len(young) < WarmLimit THEN 1 ELSE Len(young) + 2 - WarmLimit
    IN Append(SubSeq(young, first, Len(young)), s)

(* compiled by from_bytes, unless it has been meanwhile; a rejection       *)
(* that finds RejectedLimit of them forgets them all first; a plugin       *)
(* stays in the warm list until WarmLimit later ones have pushed it out or *)
(* 30 seconds have passed (taken to be time enough for one build to see    *)
(* it);                                                                    *)
CompileJob ==
    LET s == working.source
        rejected == {x \in Sources : results[x] = "rejected"}
        live == [x \in Sources |-> Cached(x)]
        kept == IF Cardinality(rejected) >= RejectedLimit
                THEN [x \in Sources |-> IF live[x] = "rejected" THEN "none" ELSE live[x]]
                ELSE IF Compiled(s) = "rejected" THEN results ELSE live
    IN
    /\ working.at = "build"
    /\ results' = IF Cached(s) # "none" THEN results
                  ELSE [kept EXCEPT ![s] = Compiled(s)]
    /\ IF Compiled(s) = "rejected" THEN UNCHANGED warm
       ELSE \E aged \in SUBSET {x \in ToSet(warm) : x \in builder.held \/ x \notin wanted} :
                warm' = Warmed(s, aged)
    /\ working' = [working EXCEPT !.at = "finish"]
    /\ UNCHANGED <<queue, builder, wanted, submissions>>

(* and no longer pending, whatever became of it.                           *)
\* Mutant of FinishJob: only a success is reported to the queue.
FinishJobWhenReady ==
    /\ working.at = "finish"
    /\ queue' = IF results[working.source] = "ready"
                THEN [queue EXCEPT !.pending = @ \ {working.source}] ELSE queue
    /\ working' = [at |-> "wait", source |-> NoSource]
    /\ UNCHANGED <<results, warm, builder, wanted, submissions>>

FinishJob ==
    /\ working.at = "finish"
    /\ queue' = [queue EXCEPT !.pending = @ \ {working.source}]
    /\ working' = [at |-> "wait", source |-> NoSource]
    /\ UNCHANGED <<results, warm, builder, wanted, submissions>>

-----------------------------------------------------------------------------
(* The controller: a build (on a change, a notification or the 5 s tick),  *)
(* one route after the other through for_tenant, and its publication,      *)
(* which replaces the plugins held before.                                 *)
BeginBuild ==
    /\ builder.todo = {} /\ builder.draft = {}
    /\ builder' = [builder EXCEPT !.todo = wanted, !.held = IF wanted = {} THEN {} ELSE @]
    /\ UNCHANGED <<queue, working, results, warm, wanted, submissions>>

ForTenant(s) ==
    /\ s \in builder.todo
    /\ builder' = [builder EXCEPT !.todo = @ \ {s}, !.draft = IF Cached(s) = "ready" THEN @ \cup {s} ELSE @,
                                  !.held = IF builder.todo # {s} THEN @
                                           ELSE builder.draft \cup (IF Cached(s) = "ready" THEN {s} ELSE {})]
    /\ IF Cached(s) = "none" THEN Submit(s) ELSE UNCHANGED queue
    /\ UNCHANGED <<working, results, warm, wanted, submissions>>

EndBuild ==
    /\ builder.todo = {} /\ builder.draft # {}
    /\ builder' = [builder EXCEPT !.draft = {}]
    /\ UNCHANGED <<queue, working, results, warm, wanted, submissions>>

(* Routes change; admission previews a source and does not keep it.        *)
ChangeRoutes ==
    /\ submissions < MaxSubmissions
    /\ submissions' = submissions + 1
    /\ wanted' \in Wanted
    /\ UNCHANGED <<queue, working, results, warm, builder>>
Preview(s) ==
    /\ submissions < MaxSubmissions
    /\ submissions' = submissions + 1
    /\ IF Cached(s) = "none" THEN Submit(s) ELSE UNCHANGED queue
    /\ UNCHANGED <<working, results, warm, builder, wanted>>

ScriptQueueNext ==
    \/ TakeJob \/ CompileJob \/ FinishJob
    \/ BeginBuild \/ EndBuild \/ ChangeRoutes
    \/ \E s \in Sources : ForTenant(s)
    \/ \E s \in Tried : Preview(s)
    \/ \E n \in Tenants : MinutePasses(n)

(* The worker and the controller's loop keep running, and time passes.     *)
ScriptQueueFairness ==
    /\ WF_queueVars(TakeJob) /\ WF_queueVars(CompileJob) /\ WF_queueVars(FinishJob)
    /\ WF_queueVars(BeginBuild) /\ WF_queueVars(EndBuild)
    /\ \A s \in Sources : WF_queueVars(ForTenant(s))
    /\ \A n \in Tenants : WF_queueVars(MinutePasses(n))

-----------------------------------------------------------------------------
(* Every source a route refers to is served or rejected in the end: full   *)
(* queues, spent budgets, rejections and evictions only delay it.          *)
ScriptsSettle ==
    \A s \in Sources : []<>(\/ s \notin wanted
                            \/ s \in builder.held
                            \/ Cached(s) = "rejected")
=============================================================================
