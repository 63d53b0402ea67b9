---------------------------- MODULE Publication ----------------------------
(***************************************************************************)
(* Publication of configuration versions in standalone mode: publish and   *)
(* rollback of src/runtime.rs, and the durable history of src/history.rs   *)
(* across failures, crashes and restarts.                                  *)
(*                                                                         *)
(* A reload (SIGHUP) captures the source files without a lock; rollbacks   *)
(* come from the admin API.  Both publish under the publication mutex: the *)
(* journal is written to a temporary file, renamed over history.json, the  *)
(* directory is synced, and only then does the snapshot change.  Any of    *)
(* these may fail, and the process or the machine may stop between them.   *)
(* A second process may start while the first still runs; the flock on the *)
(* history directory keeps them apart, except that the journal is read     *)
(* before the lock is taken (Handover).                                    *)
(*                                                                         *)
(* A bundle stands for a captured configuration with its assets, a         *)
(* revision for a bundle under a version number.  The list of recent       *)
(* errors, metrics and the audit file are left out: a rejection changes    *)
(* nothing else.                                                           *)
(***************************************************************************)
EXTENDS Integers, Sequences, FiniteSets

CONSTANTS
    Procs,          \* process slots; a restart uses a slot again
    Bundles,
    Rebinds,        \* the bundles with other listeners than the rest
    HistoryDirs,    \* whether --history-dir may be set, may be unset
    Handover,       \* a process may exit while another one starts
    MaxRevisions,   \* 9 in history.rs
    MaxPrevious,    \* 8 in runtime.rs
    MaxVersion, MaxFailures

ASSUME PublicationAssumption ==
    /\ IsFiniteSet(Procs)
    /\ Bundles # {}
    /\ Rebinds \subseteq Bundles
    /\ HistoryDirs \subseteq BOOLEAN
    /\ Handover \in BOOLEAN
    /\ MaxRevisions \in Nat \ {0}
    /\ {MaxPrevious, MaxVersion, MaxFailures} \subseteq Nat

VARIABLES
    durable,    \* --history-dir is set
    source,     \* the bundle that the source files make
    disk,       \* history.json, the empty sequence if there is none
    stable,     \* the journals that a power failure may leave behind
    lock,       \* who holds the flock, a set of at most one process
    phase,      \* phase[p]: down, initial, open or up
    snapshot,   \* snapshot[p]: the revision that p serves, or is to serve
    journal,    \* journal[p]: History.journal
    previous,   \* previous[p]: Publication.previous
    pending,    \* pending[p]: a revision being published, as a set of at most one
    written,    \* written[p]: the journal with it has been renamed into place
    captured,   \* captured[p]: the bundle of a reload under way, likewise
    failures,   \* (bound) crashes and failed writes so far
    commits,    \* (history) the revisions that were served
    acked       \* (history) those that were published, or first recorded, with
                \* success: not the ones that a restart found in the journal

vars == <<durable, source, disk, stable, lock, phase, snapshot, journal,
          previous, pending, written, captured, failures, commits, acked>>

Revision == [version : Nat, bundle : Bundles]
Last(s)  == s[Len(s)]
Listeners(b) == b \in Rebinds

TypeOK ==
    /\ durable \in BOOLEAN
    /\ source \in Bundles
    /\ disk \in Seq(Revision) /\ Len(disk) <= MaxRevisions
    /\ disk \in stable
    /\ \A j \in stable : j \in Seq(Revision)
    /\ lock \subseteq Procs /\ Cardinality(lock) <= 1
    /\ phase \in [Procs -> {"down", "initial", "open", "up"}]
    /\ DOMAIN snapshot = Procs
    /\ \A p \in Procs :
          /\ phase[p] # "down" => snapshot[p] \in Revision
          /\ journal[p] \in Seq(Revision)
          /\ previous[p] \in Seq(Revision) /\ Len(previous[p]) <= MaxPrevious
          /\ pending[p] \subseteq Revision /\ Cardinality(pending[p]) <= 1
          /\ captured[p] \subseteq Bundles /\ Cardinality(captured[p]) <= 1
          /\ written[p] => pending[p] # {}
    /\ commits \subseteq Revision
    /\ acked \subseteq commits

Init ==
    /\ durable \in HistoryDirs
    /\ source \in Bundles
    /\ disk = <<>>
    /\ stable = {<<>>}
    /\ lock = {}
    /\ phase = [p \in Procs |-> "down"]
    /\ snapshot = [p \in Procs |-> <<>>]
    /\ journal = [p \in Procs |-> <<>>]
    /\ previous = [p \in Procs |-> <<>>]
    /\ pending = [p \in Procs |-> {}]
    /\ written = [p \in Procs |-> FALSE]
    /\ captured = [p \in Procs |-> {}]
    /\ failures = 0
    /\ commits = {}
    /\ acked = {}

disks    == <<disk, stable>>
memory   == <<snapshot, journal, previous>>
promises == <<commits, acked>>
ongoing  == <<pending, written, captured>>

\* The administrator edits the source files.
EditSource(b) ==
    /\ source' = b
    /\ UNCHANGED <<durable, disks, lock, phase, memory, ongoing, failures, promises>>

-----------------------------------------------------------------------------
(* history::record.                                                        *)

\* Mutant of Recorded: the newest revisions make room.
RecordedOldest(j, rev) ==
    LET s == Append(j, rev) IN
    {SubSeq(s, 1, k) : k \in {i \in 1..Len(s) : i <= MaxRevisions}}

\* The journals that record may leave: the new revision at the end, no more
\* than MaxRevisions, and fewer if the bundles exceed the size budget.  A single
\* bundle never does.
Recorded(j, rev) ==
    LET s == Append(j, rev) IN
    {SubSeq(s, k, Len(s)) : k \in {i \in 1..Len(s) : Len(s) - i < MaxRevisions}}

AlreadyRecorded(j, rev) == j # <<>> /\ Last(j).version = rev.version

\* The journal with the pending revision is written, synced and renamed.
WriteJournal(p) ==
    \E rev \in pending[p] :
        /\ durable
        /\ ~written[p]
        /\ ~AlreadyRecorded(journal[p], rev)
        /\ disk' \in Recorded(journal[p], rev)
        /\ stable' = stable \cup {disk'}
        /\ written' = [written EXCEPT ![p] = TRUE]
        /\ UNCHANGED <<durable, source, lock, phase, memory, pending, captured,
                       failures, promises>>

\* The revision may be served: the directory is synced, or no write is needed.
MayCommit(p, rev) ==
    durable => written[p] \/ AlreadyRecorded(journal[p], rev)

\* Mutant of Synced: the directory entry is not synced.
SyncedNever(p) ==
    /\ UNCHANGED disks
    /\ journal' = [journal EXCEPT ![p] = IF written[p] THEN disk ELSE @]

\* The directory is synced and the journal taken over.
Synced(p) ==
    /\ stable' = IF written[p] THEN {disk} ELSE stable
    /\ journal' = [journal EXCEPT ![p] = IF written[p] THEN disk ELSE @]
    /\ UNCHANGED disk

Done(p) ==
    /\ pending' = [pending EXCEPT ![p] = {}]
    /\ written' = [written EXCEPT ![p] = FALSE]
    /\ UNCHANGED captured

-----------------------------------------------------------------------------
(* Start of a process: history::initial, then History::open and record in  *)
(* runtime::serve.                                                         *)

Exited(p) ==
    /\ phase' = [phase EXCEPT ![p] = "down"]
    /\ lock' = lock \ {p}
    /\ snapshot' = [snapshot EXCEPT ![p] = <<>>]
    /\ journal' = [journal EXCEPT ![p] = <<>>]
    /\ previous' = [previous EXCEPT ![p] = <<>>]
    /\ pending' = [pending EXCEPT ![p] = {}]
    /\ written' = [written EXCEPT ![p] = FALSE]
    /\ captured' = [captured EXCEPT ![p] = {}]

\* The journal is read before the lock is taken.  Processes without a history
\* directory share nothing, and are looked at one after the other.
Initial(p) ==
    /\ phase[p] = "down"
    /\ durable \/ \A q \in Procs : phase[q] = "down"
    /\ phase' = [phase EXCEPT ![p] = "initial"]
    /\ snapshot' = [snapshot EXCEPT ![p] =
                       IF durable /\ disk # <<>> THEN Last(disk)
                       ELSE [version |-> 1, bundle |-> source]]
    /\ UNCHANGED <<durable, source, disks, lock, journal, previous, ongoing,
                   failures, promises>>

\* History::open reads the journal again, under the lock.
Open(p) ==
    /\ phase[p] = "initial"
    /\ durable
    /\ lock = {}
    /\ lock' = {p}
    /\ phase' = [phase EXCEPT ![p] = "open"]
    /\ journal' = [journal EXCEPT ![p] = disk]
    /\ pending' = [pending EXCEPT ![p] = {snapshot[p]}]
    /\ UNCHANGED <<durable, source, disks, snapshot, previous, written, captured,
                   failures, promises>>

\* "history directory already in use"
OpenFails(p) ==
    /\ phase[p] = "initial"
    /\ durable
    /\ lock # {}
    /\ Exited(p)
    /\ UNCHANGED <<durable, source, disks, failures, promises>>

\* Without a history directory; versions begin again at 1.
ServeInMemory(p) ==
    /\ phase[p] = "initial"
    /\ ~durable
    /\ phase' = [phase EXCEPT ![p] = "up"]
    /\ commits' = {snapshot[p]}
    /\ acked' = commits'
    /\ UNCHANGED <<durable, source, disks, lock, memory, ongoing, failures>>

\* The first revision is recorded and the process serves it.
Serve(p) ==
    \E rev \in pending[p] :
        /\ phase[p] = "open"
        /\ MayCommit(p, rev)
        /\ Synced(p)
        /\ Done(p)
        /\ phase' = [phase EXCEPT ![p] = "up"]
        /\ commits' = commits \cup {rev}
        /\ acked' = IF written[p] THEN acked \cup {rev} ELSE acked
        /\ UNCHANGED <<durable, source, lock, snapshot, previous, failures>>

-----------------------------------------------------------------------------
(* Shared::publish and Shared::rollback.                                   *)

\* Mutant of Candidate: a rollback takes its old version number back.
CandidateKeepsVersion(p, rev) == rev

\* What publish_locked makes of a compiled snapshot.
Candidate(p, rev) == [rev EXCEPT !.version = snapshot[p].version + 1]

Publish(p, rev) ==
    /\ phase[p] = "up"
    /\ pending[p] = {}
    /\ Listeners(rev.bundle) = Listeners(snapshot[p].bundle)
    /\ snapshot[p].version < MaxVersion
    /\ pending' = [pending EXCEPT ![p] = {Candidate(p, rev)}]

\* SIGHUP: the files are captured and compiled.
Capture(p) ==
    /\ phase[p] = "up"
    /\ captured[p] = {}
    /\ captured' = [captured EXCEPT ![p] = {source}]
    /\ UNCHANGED <<durable, source, disks, lock, phase, memory, pending, written,
                   failures, promises>>

Reload(p) ==
    \E b \in captured[p] :
        /\ Publish(p, [version |-> 0, bundle |-> b])
        /\ captured' = [captured EXCEPT ![p] = {}]
        /\ UNCHANGED <<durable, source, disks, lock, phase, memory, written,
                       failures, promises>>

\* "changing listener addresses or TLS/http2 options requires restart"
ReloadRejected(p) ==
    \E b \in captured[p] :
        /\ pending[p] = {}
        /\ Listeners(b) # Listeners(snapshot[p].bundle)
        /\ captured' = [captured EXCEPT ![p] = {}]
        /\ UNCHANGED <<durable, source, disks, lock, phase, memory, pending,
                       written, failures, promises>>

\* What a rollback may go back to.
Retained(p) == IF durable THEN journal[p] ELSE previous[p]

\* The first revision of version v, as a set of at most one.
Find(s, v) ==
    {s[i] : i \in {k \in 1..Len(s) : /\ s[k].version = v
                                     /\ \A j \in 1..(k - 1) : s[j].version # v}}

Rollback(p, v) ==
    \E rev \in Find(Retained(p), v) :
        /\ Publish(p, rev)
        /\ UNCHANGED <<durable, source, disks, lock, phase, memory, written,
                       captured, failures, promises>>

\* The current snapshot becomes the last of the previous ones.
Pushed(s, rev) ==
    LET t == Append(s, rev) IN
    IF Len(t) > MaxPrevious THEN Tail(t) ELSE t

\* The rest of publish_locked: the snapshot changes.
Commit(p) ==
    \E rev \in pending[p] :
        /\ phase[p] = "up"
        /\ MayCommit(p, rev)
        /\ Synced(p)
        /\ Done(p)
        /\ previous' = [previous EXCEPT ![p] = Pushed(@, snapshot[p])]
        /\ snapshot' = [snapshot EXCEPT ![p] = rev]
        /\ commits' = commits \cup {rev}
        /\ acked' = acked \cup {rev}
        /\ UNCHANGED <<durable, source, lock, phase, failures>>

-----------------------------------------------------------------------------
(* Failures.                                                               *)

Fails ==
    /\ failures < MaxFailures
    /\ failures' = failures + 1

\* Mutant of PublishFails: the journal is taken over before it is known to last.
PublishFailsLate(p) ==
    /\ Fails
    /\ phase[p] = "up"
    /\ pending[p] # {}
    /\ journal' = [journal EXCEPT ![p] = IF written[p] THEN disk ELSE @]
    /\ Done(p)
    /\ UNCHANGED <<durable, source, disks, lock, phase, snapshot, previous, promises>>

\* The audit record, the temporary file, the rename or the directory sync fails:
\* the update is rejected, the snapshot and the journal in memory stay.
PublishFails(p) ==
    /\ Fails
    /\ phase[p] = "up"
    /\ pending[p] # {}
    /\ Done(p)
    /\ UNCHANGED <<durable, source, disks, lock, phase, memory, promises>>

\* The process exits, crashes, or its first record fails.
Crash(p) ==
    /\ Fails
    /\ phase[p] # "down"
    /\ Handover \/ \A q \in Procs \ {p} : phase[q] # "initial"
    /\ Exited(p)
    /\ UNCHANGED <<durable, source, disks, promises>>

\* The machine stops: a rename that was not synced may be undone.
PowerFailure ==
    /\ Fails
    /\ phase' = [p \in Procs |-> "down"]
    /\ lock' = {}
    /\ snapshot' = [p \in Procs |-> <<>>]
    /\ journal' = [p \in Procs |-> <<>>]
    /\ previous' = [p \in Procs |-> <<>>]
    /\ pending' = [p \in Procs |-> {}]
    /\ written' = [p \in Procs |-> FALSE]
    /\ captured' = [p \in Procs |-> {}]
    /\ disk' \in stable
    /\ stable' = {disk'}
    /\ UNCHANGED <<durable, source, promises>>

-----------------------------------------------------------------------------
Starting(p) == Initial(p) \/ Open(p) \/ OpenFails(p) \/ ServeInMemory(p) \/ Serve(p)

Publishing(p) ==
    \/ Capture(p)
    \/ Reload(p)
    \/ ReloadRejected(p)
    \/ \E v \in 1..MaxVersion : Rollback(p, v)
    \/ WriteJournal(p)
    \/ Commit(p)

Next ==
    \/ \E b \in Bundles : EditSource(b)
    \/ \E p \in Procs : Starting(p) \/ Publishing(p) \/ PublishFails(p) \/ Crash(p)
    \/ PowerFailure

Spec == Init /\ [][Next]_vars
-----------------------------------------------------------------------------
(* Properties.                                                             *)

Up(p) == phase[p] = "up"

\* docs/platform-policies.md: on restart the most recently committed version is
\* restored, and every publication has a new, larger version.  No process serves
\* a version older than one that was published before (initial, publish_locked).
ServesLatest ==
    \A p \in Procs : Up(p) => \A c \in acked : c.version <= snapshot[p].version

\* The number of a published version names one configuration for ever, and a
\* rollback brings back what really was served under the number that the
\* operator gave, whatever was rejected, lost or half written in between
\* (record, restore).
RollbackIsFaithful ==
    /\ \A c, d \in acked : c.version = d.version => c = d
    /\ \A p \in Procs : Up(p) =>
          \A i \in 1..Len(Retained(p)) :
              LET rev == Retained(p)[i] IN
              /\ rev \in commits
              /\ \A c \in acked : c.version = rev.version => c = rev

\* A publication that succeeded is never lost: every journal that a crash or a
\* power failure may leave ends with the newest published version, or with one
\* that was about to follow it (record syncs before snapshot.store).
CommittedSurvives ==
    durable => \A j \in stable, c \in acked :
        /\ j # <<>>
        /\ Last(j).version >= c.version
        /\ Last(j).version = c.version => Last(j) = c
=============================================================================
