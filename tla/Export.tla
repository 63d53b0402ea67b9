------------------------------- MODULE Export -------------------------------
(***************************************************************************)
(* OTLP export (otlp/mod.rs): request threads put records into a bounded   *)
(* channel without waiting, one worker collects a batch and sends it with  *)
(* retries under a timeout, and shutdown closes the channel and gives the  *)
(* worker a deadline.  Counters say what became of every record.           *)
(***************************************************************************)
EXTENDS Naturals, FiniteSets

CONSTANTS
    Threads,        \* threads that record
    ChannelCapacity,       \* capacity of the channel
    BatchSize,
    Attempts,       \* 3
    MaxOffered      \* bound: records offered

ASSUME ExportAssumption ==
    IsFiniteSet(Threads) /\ {ChannelCapacity, BatchSize, Attempts, MaxOffered} \subseteq Nat \ {0}

VARIABLES
    recording,  \* thread -> "none", "ready" (holds the sender) or "counted"
    open,       \* the sender has not been taken away
    channel,    \* records in the channel
    batch,      \* [at, count, attempt]: the worker
    collector,  \* records the collector has acknowledged, and the answers it gave for this batch
    counters,   \* [exported, dropped, pending]
    stage,      \* "on", "stopping" or "ended": shutdown
    taken       \* records offered so far

exportVars == <<recording, open, channel, batch, collector, counters, stage, taken>>

Gathering == [at |-> "gather", count |-> 0, attempt |-> 0]

ExportInit ==
    /\ recording = [t \in Threads |-> "none"]
    /\ open = TRUE /\ channel = 0
    /\ batch = Gathering
    /\ collector = [acknowledged |-> 0, rejected |-> 0]
    /\ counters = [exported |-> 0, dropped |-> 0, pending |-> 0]
    /\ stage = "on" /\ taken = 0

-----------------------------------------------------------------------------
(* record: one that is too large, or that finds the sender gone, is        *)
(* dropped at once,                                                        *)
Refuse ==
    /\ taken < MaxOffered /\ taken' = taken + 1
    /\ counters' = [counters EXCEPT !.dropped = @ + 1]
    /\ UNCHANGED <<recording, open, channel, batch, collector, stage>>
BeginRecord(t) ==
    /\ taken < MaxOffered /\ recording[t] = "none" /\ open
    /\ taken' = taken + 1
    /\ recording' = [recording EXCEPT ![t] = "ready"]
    /\ UNCHANGED <<open, channel, batch, collector, counters, stage>>

(* another is counted as pending                                           *)
Count(t) ==
    /\ recording[t] = "ready"
    /\ recording' = [recording EXCEPT ![t] = "counted"]
    /\ counters' = [counters EXCEPT !.pending = @ + 1]
    /\ UNCHANGED <<open, channel, batch, collector, stage, taken>>

(* before it is sent, or counted back if the channel is full.              *)
TrySend(t) ==
    /\ recording[t] = "counted"
    /\ recording' = [recording EXCEPT ![t] = "none"]
    /\ \/ /\ channel < ChannelCapacity /\ stage # "ended"
          /\ channel' = channel + 1 /\ UNCHANGED counters
       \/ /\ channel = ChannelCapacity \/ stage = "ended"
          /\ counters' = [counters EXCEPT !.pending = @ - 1, !.dropped = @ + 1]
          /\ UNCHANGED channel
    /\ UNCHANGED <<open, batch, collector, stage, taken>>

-----------------------------------------------------------------------------
(* run: a batch is gathered until it is full or the interval is over;      *)
Gather ==
    /\ stage # "ended" /\ batch.at = "gather" /\ channel > 0 /\ batch.count < BatchSize
    /\ channel' = channel - 1
    /\ batch' = [batch EXCEPT !.count = @ + 1]
    /\ UNCHANGED <<recording, open, collector, counters, stage, taken>>
SealBatch ==
    /\ stage # "ended" /\ batch.at = "gather" /\ batch.count > 0
    /\ batch' = [batch EXCEPT !.at = "send"]
    /\ UNCHANGED <<recording, open, channel, collector, counters, stage, taken>>

(* send: what becomes of an attempt.  The collector takes the batch but    *)
(* for some rejected records, or refuses it for good or with an answer     *)
(* that makes no sense, or asks for a retry, or its answer is lost.        *)
Attempt(count) == [kind : {"accepted"}, rejected : 0..count]
                  \cup [kind : {"failed", "retry"}, rejected : {0}]

(* export: attempts until one is final or they are used up.                *)
Send ==
    /\ stage # "ended" /\ batch.at = "send"
    /\ \E result \in Attempt(batch.count) :
        CASE result.kind = "accepted" ->
                /\ collector' = [acknowledged |-> collector.acknowledged + (batch.count - result.rejected),
                                 rejected |-> result.rejected]
                /\ batch' = [batch EXCEPT !.at = "accepted"]
          [] result.kind = "failed" ->
                UNCHANGED collector /\ batch' = [batch EXCEPT !.at = "failed"]
          [] result.kind = "retry" ->
                /\ UNCHANGED collector
                /\ batch' = [batch EXCEPT !.attempt = @ + 1,
                                          !.at = IF batch.attempt + 1 < Attempts THEN "send" ELSE "failed"]
    /\ UNCHANGED <<recording, open, channel, counters, stage, taken>>

(* The timeout of the whole export.                                        *)
ExportTimeout ==
    /\ stage # "ended" /\ batch.at = "send"
    /\ batch' = [batch EXCEPT !.at = "failed"]
    /\ UNCHANGED <<recording, open, channel, collector, counters, stage, taken>>

(* The batch is counted as exported, less what the collector rejected, or  *)
(* as dropped, and is no longer pending.                                   *)
\* Mutant of Settle: a failed export returns before the records stop being pending.
SettleAccepted ==
    /\ stage # "ended" /\ batch.at \in {"accepted", "failed"}
    /\ LET exported == IF batch.at = "accepted" THEN batch.count - collector.rejected ELSE 0
       IN counters' = [exported |-> counters.exported + exported,
                       dropped |-> counters.dropped + (batch.count - exported),
                       pending |-> counters.pending - (IF batch.at = "accepted" THEN batch.count ELSE 0)]
    /\ batch' = Gathering
    /\ UNCHANGED <<recording, open, channel, collector, stage, taken>>

Settle ==
    /\ stage # "ended" /\ batch.at \in {"accepted", "failed"}
    /\ LET exported == IF batch.at = "accepted" THEN batch.count - collector.rejected ELSE 0
       IN counters' = [exported |-> counters.exported + exported,
                       dropped |-> counters.dropped + (batch.count - exported),
                       pending |-> counters.pending - batch.count]
    /\ batch' = Gathering
    /\ UNCHANGED <<recording, open, channel, collector, stage, taken>>

-----------------------------------------------------------------------------
(* shutdown: the sender is taken away; threads that hold it still use it.  *)
Shutdown ==
    /\ stage = "on"
    /\ open' = FALSE /\ stage' = "stopping"
    /\ UNCHANGED <<recording, channel, batch, collector, counters, taken>>

(* The worker ends once the channel is closed and empty,                   *)
WorkerEnds ==
    /\ stage = "stopping" /\ batch = Gathering /\ channel = 0
    /\ \A t \in Threads : recording[t] = "none"
    /\ stage' = "ended"
    /\ UNCHANGED <<recording, open, channel, batch, collector, counters, taken>>

(* or at the deadline, when all that is pending is dropped.  A call of     *)
(* record that began before shutdown is taken to be over after 5 seconds.  *)
Deadline ==
    /\ stage = "stopping"
    /\ \A t \in Threads : recording[t] = "none"
    /\ counters' = [counters EXCEPT !.dropped = @ + counters.pending, !.pending = 0]
    /\ channel' = 0 /\ batch' = Gathering
    /\ stage' = "ended"
    /\ UNCHANGED <<recording, open, collector, taken>>

ExportNext ==
    \/ Refuse \/ Gather \/ SealBatch \/ Send \/ ExportTimeout \/ Settle \/ Shutdown \/ WorkerEnds \/ Deadline
    \/ \E t \in Threads : BeginRecord(t) \/ Count(t) \/ TrySend(t)

ExportSpec == ExportInit /\ [][ExportNext]_exportVars

-----------------------------------------------------------------------------
(* Every record is counted exactly once, whatever fails and whenever the   *)
(* process stops: it is exported, dropped or pending, apart from those a   *)
(* thread is about to count; and no record is counted as exported that     *)
(* the collector did not acknowledge.                                      *)
RecordsAccounted ==
    /\ taken = counters.exported + counters.dropped + counters.pending
               + Cardinality({t \in Threads : recording[t] = "ready"})
    /\ counters.pending = channel + batch.count + Cardinality({t \in Threads : recording[t] = "counted"})
    /\ counters.exported <= collector.acknowledged
=============================================================================
