------------------------- MODULE PublicationProofs -------------------------
(***************************************************************************)
(* Proofs about the publication of configuration versions (Publication),   *)
(* for processes that do not hand over to each other: a process does not   *)
(* exit between another one's first read of the journal and its lock.      *)
(*                                                                         *)
(* The properties are about what was published with success (acked); they  *)
(* hold because of what every journal that a stop may leave on the disk    *)
(* looks like (Good): its versions increase, all but the last of its       *)
(* revisions were served, and none contradicts or is older than what was   *)
(* published.  The last may be a revision whose publication failed after   *)
(* the rename.  The rest of the invariant says what each process knows of  *)
(* the disk at each point of its life (ProcOk).                            *)
(***************************************************************************)
EXTENDS Publication, TLAPS

Phases == {"down", "initial", "open", "up"}

PubType ==
    /\ durable \in BOOLEAN /\ source \in Bundles
    /\ stable \in SUBSET Seq(Revision) /\ disk \in stable
    /\ lock \in SUBSET Procs /\ phase \in [Procs -> Phases]
    /\ snapshot \in [Procs -> Revision \cup {<<>>}]
    /\ journal \in [Procs -> Seq(Revision)] /\ previous \in [Procs -> Seq(Revision)]
    /\ pending \in [Procs -> SUBSET Revision] /\ written \in [Procs -> BOOLEAN]
    /\ captured \in [Procs -> SUBSET Bundles]
    /\ commits \in SUBSET Revision /\ acked \in SUBSET Revision

(* Nothing published is older than, or differs from, the revision.         *)
Compatible(rev) == \A c \in acked : c.version = rev.version => c = rev
Increasing(j) == \A i, k \in 1..Len(j) : i < k => j[i].version < j[k].version
Served(j, n) == \A i \in 1..n : j[i] \in commits
Known(j) == \A i \in 1..Len(j) : Compatible(j[i])
Good(j) ==
    /\ Increasing(j) /\ Served(j, Len(j) - 1) /\ Known(j)
    /\ \A c \in acked : j # <<>> /\ c.version <= Last(j).version
Journals == durable => \A j \in stable : Good(j)
AckedUnique == \A c, d \in acked : c.version = d.version => c = d

(* Who holds the lock; without a history directory one process runs.       *)
Running(p) == phase[p] \in {"open", "up"}
Exclusive ==
    IF durable THEN /\ lock = {} \/ \E p \in Procs : lock = {p}
                    /\ \A p \in Procs : Running(p) <=> lock = {p}
    ELSE /\ \A p, q \in Procs : phase[p] # "down" /\ phase[q] # "down" => p = q
         /\ \A p \in Procs : phase[p] # "open"
         /\ acked = commits

(* A process before it has the lock: what it read is still the end of the  *)
(* journal, or somebody else has the lock.                                 *)
QuietOk(p) ==
    phase[p] \in {"down", "initial"} => pending[p] = {} /\ ~written[p] /\ previous[p] = <<>>
InitialOk(p) ==
    phase[p] = "initial" =>
        /\ snapshot[p] \in Revision
        /\ durable /\ lock = {} /\ disk # <<>> => snapshot[p] = Last(disk)

(* With the lock, before it serves.                                        *)
OpenOk(p) ==
    phase[p] = "open" =>
        /\ snapshot[p] \in Revision /\ pending[p] = {snapshot[p]}
        /\ IF journal[p] = <<>>
           THEN acked = {} /\ (written[p] => disk # <<>> /\ Last(disk) = snapshot[p])
           ELSE disk = journal[p] /\ Last(disk) = snapshot[p] /\ ~written[p]

(* In service.                                                             *)
MemoryOk(p) == snapshot[p] \in commits /\ Served(previous[p], Len(previous[p])) /\ ~written[p]
JournalOk(p) ==
    /\ journal[p] # <<>> /\ Last(journal[p]) = snapshot[p]
    /\ Increasing(journal[p]) /\ Served(journal[p], Len(journal[p])) /\ Known(journal[p])
    /\ written[p] => disk # <<>> /\ pending[p] = {Last(disk)}
UpOk(p) ==
    phase[p] = "up" =>
        /\ snapshot[p] \in Revision
        /\ \A c \in acked : c.version <= snapshot[p].version
        /\ \A r \in pending[p] : r.version = snapshot[p].version + 1 /\ pending[p] = {r}
        /\ IF durable THEN JournalOk(p) ELSE MemoryOk(p)

ProcOk(p) == QuietOk(p) /\ InitialOk(p) /\ OpenOk(p) /\ UpOk(p)

PubInv == PubType /\ Journals /\ AckedUnique /\ Exclusive /\ \A p \in Procs : ProcOk(p)

-----------------------------------------------------------------------------
LEMMA LastIs == ASSUME NEW S, NEW j \in Seq(S), j # <<>>
                PROVE  Len(j) \in 1..Len(j) /\ Len(j) > 0 /\ Last(j) = j[Len(j)] /\ Last(j) \in S
<1>1. Len(j) \in Nat /\ Len(j) # 0
  OBVIOUS
<1> QED BY <1>1 DEF Last

(* What record leaves of a journal: the new revision, behind some of the   *)
(* old ones in their order.                                                *)
LEMMA RecordedIs ==
    ASSUME NEW j \in Seq(Revision), NEW rev \in Revision, NEW d \in Recorded(j, rev)
    PROVE  /\ d \in Seq(Revision) /\ d # <<>> /\ Last(d) = rev
           /\ \E n \in Nat : /\ Len(d) + n = Len(j) + 1
                             /\ \A i \in 1..(Len(d) - 1) : i + n \in 1..Len(j) /\ d[i] = j[i + n]
<1>1. PICK s : s = Append(j, rev)
  OBVIOUS
<1>2. s \in Seq(Revision) /\ Len(s) = Len(j) + 1 /\ s[Len(s)] = rev
  BY <1>1
<1>3. \A i \in 1..Len(j) : s[i] = j[i]
  BY <1>1
<1>4. PICK k \in 1..Len(s) : d = SubSeq(s, k, Len(s))
  BY <1>1 DEF Recorded
<1>5. d \in Seq(Revision) /\ Len(d) = Len(s) - k + 1 /\ \A i \in 1..Len(d) : d[i] = s[k + i - 1]
  BY <1>2, <1>4
<1>6. Len(j) \in Nat /\ Len(d) \in Nat /\ Len(d) > 0
  BY <1>2, <1>4, <1>5
<1>7. d # <<>> /\ d[Len(d)] = rev
  BY <1>2, <1>5, <1>6
<1>8. PICK n \in Nat : n = k - 1
  BY <1>2
<1>9. Len(d) + n = Len(j) + 1
  BY <1>2, <1>5, <1>6, <1>8
<1>10. ASSUME NEW i \in 1..(Len(d) - 1) PROVE i + n \in 1..Len(j) /\ d[i] = j[i + n]
  <2>1. i + n \in 1..Len(j) /\ i \in 1..Len(d) /\ k + i - 1 = i + n
    BY <1>6, <1>8, <1>9
  <2>2. d[i] = s[i + n]
    BY <1>5, <2>1
  <2> QED BY <1>3, <2>1, <2>2
<1> QED BY <1>5, <1>7, <1>9, <1>10 DEF Last

LEMMA PushedIs ==
    ASSUME NEW s \in Seq(Revision), NEW rev \in Revision
    PROVE  /\ Pushed(s, rev) \in Seq(Revision)
           /\ \A i \in 1..Len(Pushed(s, rev)) :
                  Pushed(s, rev)[i] = rev \/ \E k \in 1..Len(s) : Pushed(s, rev)[i] = s[k]
<1>1. PICK t : t = Append(s, rev)
  OBVIOUS
<1>2. t \in Seq(Revision) /\ Len(t) = Len(s) + 1 /\ t[Len(t)] = rev /\ \A i \in 1..Len(s) : t[i] = s[i]
  BY <1>1
<1>3. \A i \in 1..Len(t) : t[i] = rev \/ \E k \in 1..Len(s) : t[i] = s[k]
  BY <1>2
<1>4. CASE Len(t) > MaxPrevious
  <2>1. /\ Tail(t) \in Seq(Revision) /\ Len(Tail(t)) = Len(t) - 1
        /\ \A i \in 1..Len(Tail(t)) : Tail(t)[i] = t[i + 1] /\ i + 1 \in 1..Len(t)
    BY <1>2
  <2>2. Pushed(s, rev) = Tail(t)
    BY <1>1, <1>4 DEF Pushed
  <2> QED BY <1>3, <2>1, <2>2
<1>5. CASE ~(Len(t) > MaxPrevious)
  <2>1. Pushed(s, rev) = t
    BY <1>1, <1>5 DEF Pushed
  <2> QED BY <1>2, <1>3, <2>1
<1> QED BY <1>4, <1>5

-----------------------------------------------------------------------------
(* What a step of p leaves alone of the others.                            *)
Apart(p) ==
    /\ durable' = durable
    /\ \A q \in Procs \ {p} :
        /\ phase'[q] = phase[q] /\ snapshot'[q] = snapshot[q] /\ journal'[q] = journal[q]
        /\ previous'[q] = previous[q] /\ pending'[q] = pending[q] /\ written'[q] = written[q]

(* A step that changes neither the disk nor what was published.            *)
LEMMA OthersKept ==
    ASSUME PubInv, NEW p \in Procs, Apart(p), disk' = disk, commits' = commits, acked' = acked,
           lock' = {} => lock = {} \/ \A q \in Procs \ {p} : phase[q] # "initial"
    PROVE  \A q \in Procs \ {p} : ProcOk(q)'
<1> SUFFICES ASSUME NEW q \in Procs \ {p} PROVE ProcOk(q)'
  OBVIOUS
<1>1. /\ ProcOk(q) /\ durable' = durable
      /\ phase'[q] = phase[q] /\ snapshot'[q] = snapshot[q] /\ journal'[q] = journal[q]
      /\ previous'[q] = previous[q] /\ pending'[q] = pending[q] /\ written'[q] = written[q]
  BY DEF PubInv, Apart
<1>2. QuietOk(q)' /\ InitialOk(q)'
  BY <1>1 DEF ProcOk, QuietOk, InitialOk
<1>3. OpenOk(q)'
  BY <1>1 DEF ProcOk, OpenOk
<1>4. UpOk(q)'
  BY <1>1 DEF ProcOk, UpOk, JournalOk, MemoryOk, Served, Known, Compatible
<1> QED BY <1>2, <1>3, <1>4 DEF ProcOk

(* The step of a process that no other one runs beside.                    *)
Alone(p) == IF durable THEN Running(p) ELSE phase[p] # "down"

LEMMA OthersQuiet ==
    ASSUME PubInv, NEW p \in Procs, Apart(p), Alone(p), lock' = lock
    PROVE  \A q \in Procs \ {p} : ProcOk(q)'
<1> SUFFICES ASSUME NEW q \in Procs \ {p} PROVE ProcOk(q)'
  OBVIOUS
<1>1. /\ ProcOk(q) /\ durable' = durable
      /\ phase'[q] = phase[q] /\ snapshot'[q] = snapshot[q] /\ journal'[q] = journal[q]
      /\ previous'[q] = previous[q] /\ pending'[q] = pending[q] /\ written'[q] = written[q]
  BY DEF PubInv, Apart
<1>2. phase[q] \in {"down", "initial"} /\ (phase[q] = "initial" => lock # {})
  <2>1. phase[q] \in Phases
    BY DEF PubInv, PubType
  <2>2. CASE durable
    <3>1. lock = {p} /\ ~Running(q)
      BY <2>2 DEF PubInv, Exclusive, Alone
    <3> QED BY <2>1, <3>1 DEF Running, Phases
  <2>3. CASE ~durable
    BY <2>3 DEF PubInv, Exclusive, Alone
  <2> QED BY <2>2, <2>3
<1> QED BY <1>1, <1>2 DEF ProcOk, QuietOk, InitialOk, OpenOk, UpOk

(* Steps that leave the disk, the lock and what was published alone.       *)
LEMMA RestKept ==
    ASSUME PubInv, UNCHANGED <<durable, stable, commits, acked>>
    PROVE  Journals' /\ AckedUnique'
  BY DEF PubInv, Journals, AckedUnique, Good, Increasing, Served, Known, Compatible

LEMMA ExclusiveKept ==
    ASSUME PubInv, UNCHANGED <<durable, lock>>, (acked = commits) => (acked' = commits'),
           \A p \in Procs : (phase'[p] = "down" <=> phase[p] = "down") /\ (Running(p)' <=> Running(p)),
           ~durable => \A p \in Procs : phase'[p] # "open"
    PROVE  Exclusive'
  BY DEF PubInv, Exclusive, Running

-----------------------------------------------------------------------------
(* Steps of the administrator, and captures.                               *)
LEMMA AsideInv ==
    ASSUME PubInv, source' \in Bundles, captured' \in [Procs -> SUBSET Bundles],
           UNCHANGED <<durable, disk, stable, lock, phase, snapshot, journal, previous, pending,
                       written, commits, acked>>
    PROVE  PubInv'
<1>1. PubType'
  BY DEF PubInv, PubType
<1>2. Journals' /\ AckedUnique'
  BY RestKept
<1>3. Exclusive'
  BY DEF PubInv, Exclusive, Running
<1>4. ASSUME NEW p \in Procs PROVE ProcOk(p)'
  <2>1. QuietOk(p)' /\ InitialOk(p)' /\ OpenOk(p)'
    BY DEF PubInv, ProcOk, QuietOk, InitialOk, OpenOk
  <2>2. UpOk(p)'
    BY DEF PubInv, ProcOk, UpOk, JournalOk, MemoryOk, Served, Known, Compatible
  <2> QED BY <2>1, <2>2 DEF ProcOk
<1> QED BY <1>1, <1>2, <1>3, <1>4 DEF PubInv

LEMMA InitialInv == ASSUME PubInv, NEW p \in Procs, Initial(p) PROVE PubInv'
<1>1. PubType /\ ProcOk(p) /\ Exclusive
  BY DEF PubInv
<1>2. PICK rev : /\ rev = IF durable /\ disk # <<>> THEN Last(disk) ELSE [version |-> 1, bundle |-> source]
                 /\ snapshot' = [snapshot EXCEPT ![p] = rev]
  BY DEF Initial
<1>3. /\ phase[p] = "down" /\ phase' = [phase EXCEPT ![p] = "initial"]
      /\ durable \/ \A q \in Procs : phase[q] = "down"
      /\ UNCHANGED <<durable, source, disk, stable, lock, journal, previous, pending, written, captured,
                     commits, acked>>
  BY DEF Initial, disks, ongoing, promises
<1>4. rev \in Revision
  <2>1. CASE durable /\ disk # <<>>
    BY <1>1, <1>2, <2>1, LastIs DEF PubType
  <2>2. CASE ~(durable /\ disk # <<>>)
    BY <1>1, <1>2, <2>2 DEF PubType, Revision
  <2> QED BY <2>1, <2>2
<1>5. /\ phase'[p] = "initial" /\ snapshot'[p] = rev
      /\ \A q \in Procs \ {p} : phase'[q] = phase[q] /\ snapshot'[q] = snapshot[q]
  BY <1>1, <1>2, <1>3 DEF PubType
<1>6. PubType'
  BY <1>1, <1>2, <1>3, <1>4 DEF PubType, Phases
<1>7. Journals' /\ AckedUnique'
  BY <1>3, RestKept
<1>8. Exclusive'
  BY <1>1, <1>3, <1>5 DEF Exclusive, Running
<1>9. \A q \in Procs \ {p} : ProcOk(q)'
  BY <1>3, <1>5, OthersKept DEF Apart
<1>10. ProcOk(p)'
  BY <1>1, <1>2, <1>3, <1>4, <1>5 DEF ProcOk, QuietOk, InitialOk, OpenOk, UpOk
<1> QED BY <1>6, <1>7, <1>8, <1>9, <1>10 DEF PubInv

LEMMA OpenInv == ASSUME PubInv, NEW p \in Procs, Open(p) PROVE PubInv'
<1>1. PubType /\ ProcOk(p) /\ Exclusive /\ Journals
  BY DEF PubInv
<1>2. /\ phase[p] = "initial" /\ durable /\ lock = {} /\ lock' = {p}
      /\ phase' = [phase EXCEPT ![p] = "open"] /\ journal' = [journal EXCEPT ![p] = disk]
      /\ pending' = [pending EXCEPT ![p] = {snapshot[p]}]
      /\ UNCHANGED <<durable, source, disk, stable, snapshot, previous, written, captured, commits, acked>>
  BY DEF Open, disks, promises
<1>3. /\ phase'[p] = "open" /\ journal'[p] = disk /\ pending'[p] = {snapshot[p]}
      /\ \A q \in Procs \ {p} :
            phase'[q] = phase[q] /\ journal'[q] = journal[q] /\ pending'[q] = pending[q]
  BY <1>1, <1>2 DEF PubType
<1>4. /\ snapshot[p] \in Revision /\ ~written[p]
      /\ disk # <<>> => snapshot[p] = Last(disk)
  BY <1>1, <1>2 DEF ProcOk, InitialOk, QuietOk
<1>5. PubType'
  <2>1. disk \in Seq(Revision) /\ lock' \in SUBSET Procs
    BY <1>1, <1>2 DEF PubType
  <2>2. journal' \in [Procs -> Seq(Revision)] /\ pending' \in [Procs -> SUBSET Revision]
    BY <1>1, <1>2, <1>4, <2>1 DEF PubType
  <2> QED BY <1>1, <1>2, <2>1, <2>2 DEF PubType, Phases
<1>6. Journals' /\ AckedUnique'
  BY <1>2, RestKept
<1>7. Exclusive'
  <2>1. \A q \in Procs : ~Running(q)
    BY <1>1, <1>2 DEF Exclusive
  <2> QED BY <1>2, <1>3, <2>1 DEF Exclusive, Running
<1>8. \A q \in Procs \ {p} : ProcOk(q)'
  BY <1>2, <1>3, OthersKept DEF Apart
<1>9. ProcOk(p)'
  <2>1. disk = <<>> => acked = {}
    BY <1>1, <1>2 DEF PubType, Journals, Good
  <2> QED BY <1>2, <1>3, <1>4, <2>1 DEF ProcOk, QuietOk, InitialOk, OpenOk, UpOk
<1> QED BY <1>5, <1>6, <1>7, <1>8, <1>9 DEF PubInv

(* A process ends while no other one relies on what it read before.        *)
LEMMA ExitedInv ==
    ASSUME PubInv, NEW p \in Procs, Exited(p), UNCHANGED <<durable, source, disk, stable, commits, acked>>,
           lock \ {p} = {} => lock = {} \/ \A q \in Procs \ {p} : phase[q] # "initial"
    PROVE  PubInv'
<1>1. PubType /\ ProcOk(p) /\ Exclusive
  BY DEF PubInv
<1>2. /\ phase' = [phase EXCEPT ![p] = "down"] /\ lock' = lock \ {p}
      /\ snapshot' = [snapshot EXCEPT ![p] = <<>>] /\ journal' = [journal EXCEPT ![p] = <<>>]
      /\ previous' = [previous EXCEPT ![p] = <<>>] /\ pending' = [pending EXCEPT ![p] = {}]
      /\ written' = [written EXCEPT ![p] = FALSE] /\ captured' = [captured EXCEPT ![p] = {}]
  BY DEF Exited
<1>3. /\ phase'[p] = "down" /\ pending'[p] = {} /\ written'[p] = FALSE /\ previous'[p] = <<>>
      /\ \A q \in Procs \ {p} :
            /\ phase'[q] = phase[q] /\ snapshot'[q] = snapshot[q] /\ journal'[q] = journal[q]
            /\ previous'[q] = previous[q] /\ pending'[q] = pending[q] /\ written'[q] = written[q]
  BY <1>1, <1>2 DEF PubType
<1>4. PubType'
  <2>1. <<>> \in Seq(Revision)
    OBVIOUS
  <2>2. journal' \in [Procs -> Seq(Revision)] /\ previous' \in [Procs -> Seq(Revision)]
    BY <1>1, <1>2, <2>1 DEF PubType
  <2>3. snapshot' \in [Procs -> Revision \cup {<<>>}]
    BY <1>1, <1>2 DEF PubType
  <2>4. written' \in [Procs -> BOOLEAN] /\ pending' \in [Procs -> SUBSET Revision]
        /\ captured' \in [Procs -> SUBSET Bundles]
    BY <1>1, <1>2 DEF PubType
  <2> QED BY <1>1, <1>2, <2>2, <2>3, <2>4 DEF PubType, Phases
<1>5. Journals' /\ AckedUnique'
  BY RestKept
<1>6. Exclusive'
  BY <1>1, <1>2, <1>3 DEF Exclusive, Running
<1>7. \A q \in Procs \ {p} : ProcOk(q)'
  BY <1>2, <1>3, OthersKept DEF Apart
<1>8. ProcOk(p)'
  BY <1>3 DEF ProcOk, QuietOk, InitialOk, OpenOk, UpOk
<1> QED BY <1>4, <1>5, <1>6, <1>7, <1>8 DEF PubInv

LEMMA OpenFailsInv == ASSUME PubInv, NEW p \in Procs, OpenFails(p) PROVE PubInv'
<1>1. /\ phase[p] = "initial" /\ durable /\ lock # {} /\ Exited(p)
      /\ UNCHANGED <<durable, source, disk, stable, commits, acked>>
  BY DEF OpenFails, disks, promises
<1>2. lock \ {p} # {}
  <2>1. ~Running(p)
    BY <1>1 DEF Running
  <2> QED BY <1>1, <2>1 DEF PubInv, Exclusive
<1> QED BY <1>1, <1>2, ExitedInv

LEMMA CrashInv == ASSUME PubInv, NEW p \in Procs, Crash(p), ~Handover PROVE PubInv'
  BY ExitedInv DEF Crash, disks, promises

LEMMA PowerFailureInv == ASSUME PubInv, PowerFailure PROVE PubInv'
<1>1. PubType /\ Exclusive /\ Journals /\ AckedUnique
  BY DEF PubInv
<1>2. /\ phase' = [p \in Procs |-> "down"] /\ lock' = {} /\ snapshot' = [p \in Procs |-> <<>>]
      /\ journal' = [p \in Procs |-> <<>>] /\ previous' = [p \in Procs |-> <<>>]
      /\ pending' = [p \in Procs |-> {}] /\ written' = [p \in Procs |-> FALSE]
      /\ captured' = [p \in Procs |-> {}] /\ disk' \in stable /\ stable' = {disk'}
      /\ UNCHANGED <<durable, source, commits, acked>>
  BY DEF PowerFailure, promises
<1>3. PubType'
  <2>1. journal' \in [Procs -> Seq(Revision)] /\ previous' \in [Procs -> Seq(Revision)]
    BY <1>2
  <2>2. snapshot' \in [Procs -> Revision \cup {<<>>}] /\ phase' \in [Procs -> Phases]
    BY <1>2 DEF Phases
  <2>3. /\ written' \in [Procs -> BOOLEAN] /\ pending' \in [Procs -> SUBSET Revision]
        /\ captured' \in [Procs -> SUBSET Bundles]
    BY <1>2
  <2> QED BY <1>1, <1>2, <2>1, <2>2, <2>3 DEF PubType
<1>4. Journals' /\ AckedUnique'
  BY <1>1, <1>2 DEF Journals, AckedUnique, Good, Increasing, Served, Known, Compatible
<1>5. Exclusive'
  BY <1>1, <1>2 DEF Exclusive, Running
<1>6. \A p \in Procs : ProcOk(p)'
  BY <1>2 DEF ProcOk, QuietOk, InitialOk, OpenOk, UpOk
<1> QED BY <1>3, <1>4, <1>5, <1>6 DEF PubInv

LEMMA ServeInMemoryInv == ASSUME PubInv, NEW p \in Procs, ServeInMemory(p) PROVE PubInv'
<1>1. PubType /\ ProcOk(p) /\ Exclusive
  BY DEF PubInv
<1>2. /\ phase[p] = "initial" /\ ~durable /\ phase' = [phase EXCEPT ![p] = "up"]
      /\ commits' = {snapshot[p]} /\ acked' = {snapshot[p]}
      /\ UNCHANGED <<durable, source, disk, stable, lock, snapshot, journal, previous, pending, written,
                     captured>>
  BY DEF ServeInMemory, disks, memory, ongoing
<1>3. phase'[p] = "up" /\ \A q \in Procs \ {p} : phase'[q] = phase[q]
  BY <1>1, <1>2 DEF PubType
<1>4. /\ snapshot[p] \in Revision /\ pending[p] = {} /\ ~written[p] /\ previous[p] = <<>>
  BY <1>1, <1>2 DEF ProcOk, InitialOk, QuietOk
<1>5. PubType'
  BY <1>1, <1>2, <1>4 DEF PubType, Phases
<1>6. Journals' /\ AckedUnique'
  BY <1>2 DEF Journals, AckedUnique
<1>7. Exclusive'
  BY <1>1, <1>2, <1>3 DEF Exclusive, Running
<1>8. \A q \in Procs \ {p} : ProcOk(q)'
  BY <1>2, <1>3, OthersQuiet DEF Apart, Alone
<1>9. ProcOk(p)'
  <2>1. snapshot[p].version <= snapshot[p].version
    BY <1>4 DEF Revision
  <2>2. MemoryOk(p)'
    BY <1>2, <1>4 DEF MemoryOk, Served
  <2> QED BY <1>2, <1>3, <1>4, <2>1, <2>2 DEF ProcOk, QuietOk, InitialOk, OpenOk, UpOk
<1> QED BY <1>5, <1>6, <1>7, <1>8, <1>9 DEF PubInv

-----------------------------------------------------------------------------
(* Shared::publish and Shared::rollback, up to the journal.                *)
LEMMA PublishInv ==
    ASSUME PubInv, NEW p \in Procs, NEW rev \in Revision, Publish(p, rev),
           captured' \in [Procs -> SUBSET Bundles],
           UNCHANGED <<durable, source, disk, stable, lock, phase, snapshot, journal, previous, written,
                       commits, acked>>
    PROVE  PubInv'
<1>1. PubType /\ ProcOk(p) /\ Exclusive
  BY DEF PubInv
<1>2. PICK n, r : n = snapshot[p].version + 1 /\ r = [rev EXCEPT !.version = n]
  OBVIOUS
<1>3. phase[p] = "up" /\ pending[p] = {} /\ pending' = [pending EXCEPT ![p] = {r}]
  BY <1>2 DEF Publish, Candidate
<1>4. UpOk(p)
  BY <1>1 DEF ProcOk
<1>5. n \in Nat
  BY <1>2, <1>3, <1>4 DEF UpOk, Revision
<1>6. r \in Revision /\ r.version = n
  BY <1>2, <1>5 DEF Revision
<1>7. pending'[p] = {r} /\ \A q \in Procs \ {p} : pending'[q] = pending[q]
  BY <1>1, <1>3 DEF PubType
<1>8. PubType'
  <2>1. pending' \in [Procs -> SUBSET Revision]
    BY <1>1, <1>3, <1>6 DEF PubType
  <2> QED BY <1>1, <2>1 DEF PubType
<1>9. Journals' /\ AckedUnique'
  BY RestKept
<1>10. Exclusive'
  BY <1>1 DEF Exclusive, Running
<1>11. \A q \in Procs \ {p} : ProcOk(q)'
  BY <1>7, OthersKept DEF Apart
<1>12. ProcOk(p)'
  <2>1. QuietOk(p)' /\ InitialOk(p)' /\ OpenOk(p)'
    BY <1>3 DEF QuietOk, InitialOk, OpenOk
  <2>2. CASE durable
    <3>1. JournalOk(p) /\ ~written[p]
      BY <1>3, <1>4, <2>2 DEF UpOk, JournalOk
    <3>2. JournalOk(p)'
      BY <3>1 DEF JournalOk, Served, Known, Compatible
    <3> QED BY <1>2, <1>3, <1>4, <1>6, <1>7, <2>1, <2>2, <3>2 DEF ProcOk, UpOk
  <2>3. CASE ~durable
    <3>1. MemoryOk(p)'
      BY <1>3, <1>4, <2>3 DEF UpOk, MemoryOk, Served
    <3> QED BY <1>2, <1>3, <1>4, <1>6, <1>7, <2>1, <2>3, <3>1 DEF ProcOk, UpOk
  <2> QED BY <2>2, <2>3
<1> QED BY <1>8, <1>9, <1>10, <1>11, <1>12 DEF PubInv

LEMMA ReloadInv == ASSUME PubInv, NEW p \in Procs, Reload(p) PROVE PubInv'
<1>1. PICK b \in captured[p] :
        /\ Publish(p, [version |-> 0, bundle |-> b]) /\ captured' = [captured EXCEPT ![p] = {}]
        /\ UNCHANGED <<durable, source, disk, stable, lock, phase, snapshot, journal, previous, written,
                       commits, acked>>
  BY DEF Reload, disks, memory, promises
<1>2. [version |-> 0, bundle |-> b] \in Revision /\ captured' \in [Procs -> SUBSET Bundles]
  BY <1>1 DEF PubInv, PubType, Revision
<1> QED BY <1>1, <1>2, PublishInv

LEMMA RollbackInv == ASSUME PubInv, NEW p \in Procs, NEW v, Rollback(p, v) PROVE PubInv'
<1>1. PICK rev \in Find(Retained(p), v) :
        /\ Publish(p, rev)
        /\ UNCHANGED <<durable, source, disk, stable, lock, phase, snapshot, journal, previous, written,
                       captured, commits, acked>>
  BY DEF Rollback, disks, memory, promises
<1>2. PICK s : s = Retained(p) /\ s \in Seq(Revision)
  BY DEF PubInv, PubType, Retained
<1>3. PICK i \in 1..Len(s) : rev = s[i]
  BY <1>1, <1>2 DEF Find
<1>4. rev \in Revision /\ captured' \in [Procs -> SUBSET Bundles]
  BY <1>1, <1>2, <1>3 DEF PubInv, PubType
<1> QED BY <1>1, <1>4, PublishInv

(* A journal that record leaves is good.                                   *)
LEMMA GoodRecorded ==
    ASSUME PubType, NEW j \in Seq(Revision), Increasing(j), Served(j, Len(j)), Known(j),
           NEW rev \in Revision, \A i \in 1..Len(j) : j[i].version < rev.version,
           \A c \in acked : c.version < rev.version, NEW d \in Recorded(j, rev)
    PROVE  d \in Seq(Revision) /\ d # <<>> /\ Last(d) = rev /\ Good(d)
<1>1. /\ d \in Seq(Revision) /\ d # <<>> /\ Last(d) = rev
      /\ \E n \in Nat : /\ Len(d) + n = Len(j) + 1
                        /\ \A i \in 1..(Len(d) - 1) : i + n \in 1..Len(j) /\ d[i] = j[i + n]
  BY RecordedIs
<1>2. PICK n \in Nat : /\ Len(d) + n = Len(j) + 1
                       /\ \A i \in 1..(Len(d) - 1) : i + n \in 1..Len(j) /\ d[i] = j[i + n]
  BY <1>1
<1>3. Len(d) \in Nat /\ Len(j) \in Nat /\ Len(d) > 0 /\ d[Len(d)] = rev
  BY <1>1, LastIs
<1>4. rev.version \in Nat /\ \A i \in 1..Len(j) : j[i].version \in Nat
  <2>1. \A i \in 1..Len(j) : j[i] \in Revision
    OBVIOUS
  <2> QED BY <2>1 DEF Revision
<1>5. /\ \A c \in acked : c.version \in Nat
      /\ \A i \in 1..Len(d) : i = Len(d) \/ i \in 1..(Len(d) - 1)
  BY <1>3 DEF PubType, Revision
<1>6. Increasing(d)
  <2> SUFFICES ASSUME NEW i \in 1..Len(d), NEW k \in 1..Len(d), i < k PROVE d[i].version < d[k].version
    BY DEF Increasing
  <2>1. i \in 1..(Len(d) - 1) /\ i + n \in 1..Len(j) /\ d[i] = j[i + n]
    BY <1>2, <1>3
  <2>2. CASE k = Len(d)
    BY <1>3, <2>1, <2>2
  <2>3. CASE k # Len(d)
    <3>1. k + n \in 1..Len(j) /\ d[k] = j[k + n] /\ i + n < k + n
      BY <1>2, <1>3, <2>3
    <3> QED BY <2>1, <3>1 DEF Increasing
  <2> QED BY <2>2, <2>3
<1>7. Served(d, Len(d) - 1)
  BY <1>2 DEF Served
<1>8. Known(d)
  <2> SUFFICES ASSUME NEW i \in 1..Len(d) PROVE Compatible(d[i])
    BY DEF Known
  <2>1. CASE i = Len(d)
    BY <1>3, <1>4, <1>5, <2>1 DEF Compatible
  <2>2. CASE i \in 1..(Len(d) - 1)
    BY <1>2, <2>2 DEF Known
  <2> QED BY <1>5, <2>1, <2>2
<1>9. \A c \in acked : d # <<>> /\ c.version <= Last(d).version
  BY <1>1, <1>4, <1>5
<1> QED BY <1>1, <1>6, <1>7, <1>8, <1>9 DEF Good

(* In an increasing journal only the last revision has the last version.   *)
LEMMA LastAlone ==
    ASSUME NEW j \in Seq(Revision), j # <<>>, Increasing(j), NEW i \in 1..Len(j)
    PROVE  /\ j[i] \in Revision /\ j[i].version <= Last(j).version
           /\ j[i].version = Last(j).version => j[i] = Last(j)
<1>1. Len(j) \in Nat /\ Len(j) \in 1..Len(j) /\ Last(j) = j[Len(j)] /\ Last(j) \in Revision
  BY LastIs
<1>2. CASE i = Len(j)
  BY <1>1, <1>2 DEF Revision
<1>3. CASE i < Len(j)
  <2>1. j[i].version < j[Len(j)].version
    BY <1>1, <1>3 DEF Increasing
  <2>2. j[i] \in Revision
    OBVIOUS
  <2> QED BY <1>1, <2>1, <2>2 DEF Revision
<1> QED BY <1>1, <1>2, <1>3

LEMMA WriteJournalInv == ASSUME PubInv, NEW p \in Procs, WriteJournal(p) PROVE PubInv'
<1>1. PubType /\ ProcOk(p) /\ Exclusive /\ Journals
  BY DEF PubInv
<1>2. PICK rev \in pending[p] :
        /\ durable /\ ~written[p] /\ ~AlreadyRecorded(journal[p], rev)
        /\ disk' \in Recorded(journal[p], rev) /\ stable' = stable \cup {disk'}
        /\ written' = [written EXCEPT ![p] = TRUE]
        /\ UNCHANGED <<durable, source, lock, phase, snapshot, journal, previous, pending, captured,
                       commits, acked>>
  BY DEF WriteJournal, memory, promises
<1>3. PICK j, d : j = journal[p] /\ d = disk' /\ j \in Seq(Revision)
  BY <1>1 DEF PubType
<1>4. rev \in Revision /\ written'[p] = TRUE /\ \A q \in Procs \ {p} : written'[q] = written[q]
  BY <1>1, <1>2 DEF PubType
<1>5. Running(p)
  BY <1>1, <1>2 DEF ProcOk, QuietOk, PubType, Phases, Running
<1>6. ASSUME phase[p] = "open"
      PROVE  d \in Seq(Revision) /\ Good(d) /\ ProcOk(p)'
  <2>1. snapshot[p] = rev /\ pending[p] = {rev} /\ OpenOk(p)
    BY <1>1, <1>2, <1>6 DEF ProcOk, OpenOk
  <2>2. j = <<>> /\ acked = {}
    BY <1>2, <1>3, <1>6, <2>1 DEF OpenOk, AlreadyRecorded
  <2>3. Increasing(j) /\ Served(j, Len(j)) /\ Known(j) /\ \A i \in 1..Len(j) : j[i].version < rev.version
    BY <2>2 DEF Increasing, Served, Known
  <2>4. d \in Seq(Revision) /\ d # <<>> /\ Last(d) = rev /\ Good(d)
    BY <1>1, <1>2, <1>3, <1>4, <2>2, <2>3, GoodRecorded
  <2>5. ProcOk(p)'
    BY <1>2, <1>3, <1>4, <1>6, <2>1, <2>2, <2>4 DEF ProcOk, QuietOk, InitialOk, OpenOk, UpOk
  <2> QED BY <2>4, <2>5
<1>7. ASSUME phase[p] = "up"
      PROVE  d \in Seq(Revision) /\ Good(d) /\ ProcOk(p)'
  <2>1. UpOk(p)
    BY <1>1 DEF ProcOk
  <2>2. /\ rev.version = snapshot[p].version + 1 /\ pending[p] = {rev} /\ snapshot[p].version \in Nat
        /\ JournalOk(p) /\ \A c \in acked : c.version <= snapshot[p].version
    BY <1>2, <1>7, <2>1 DEF UpOk, Revision
  <2>3. Increasing(j) /\ Served(j, Len(j)) /\ Known(j) /\ j # <<>> /\ Last(j) = snapshot[p]
    BY <1>3, <2>2 DEF JournalOk
  <2>4. \A i \in 1..Len(j) : j[i].version < rev.version
    <3>1. \A i \in 1..Len(j) : j[i].version \in Nat /\ j[i].version <= snapshot[p].version
      BY <1>3, <2>3, LastAlone DEF Revision
    <3> QED BY <2>2, <3>1
  <2>5. \A c \in acked : c.version < rev.version
    <3>1. \A c \in acked : c.version \in Nat
      BY <1>1 DEF PubType, Revision
    <3> QED BY <2>2, <3>1
  <2>6. d \in Seq(Revision) /\ d # <<>> /\ Last(d) = rev /\ Good(d)
    BY <1>1, <1>2, <1>3, <1>4, <2>3, <2>4, <2>5, GoodRecorded
  <2>7. JournalOk(p)'
    BY <1>2, <1>3, <2>2, <2>6 DEF JournalOk, Served, Known, Compatible
  <2>8. ProcOk(p)'
    BY <1>2, <1>7, <2>1, <2>7 DEF ProcOk, QuietOk, InitialOk, OpenOk, UpOk
  <2> QED BY <2>6, <2>8
<1>8. d \in Seq(Revision) /\ Good(d) /\ ProcOk(p)'
  BY <1>5, <1>6, <1>7 DEF Running
<1>9. PubType'
  <2>1. written' \in [Procs -> BOOLEAN]
    BY <1>1, <1>2 DEF PubType
  <2> QED BY <1>1, <1>2, <1>3, <1>8, <2>1 DEF PubType
<1>10. Journals'
  BY <1>1, <1>2, <1>3, <1>8 DEF Journals, Good, Increasing, Served, Known, Compatible
<1>11. AckedUnique' /\ Exclusive'
  BY <1>1, <1>2 DEF PubInv, AckedUnique, Exclusive, Running
<1>12. \A q \in Procs \ {p} : ProcOk(q)'
  BY <1>2, <1>4, <1>5, OthersQuiet DEF Apart, Alone
<1> QED BY <1>8, <1>9, <1>10, <1>11, <1>12 DEF PubInv

-----------------------------------------------------------------------------
(* The journal on the disk is synced, and its last revision published.     *)
LEMMA SyncedGood ==
    ASSUME PubType, NEW d \in Seq(Revision), d # <<>>, Good(d), NEW rev, rev = Last(d),
           commits' = commits \cup {rev}, acked' = acked \cup {rev} \/ acked' = acked
    PROVE  Good(d)' /\ Served(d, Len(d))'
<1>1. /\ Len(d) \in Nat /\ Len(d) > 0 /\ Len(d) \in 1..Len(d) /\ rev = d[Len(d)] /\ rev \in Revision
      /\ rev.version \in Nat
  <2>1. Len(d) \in Nat /\ Len(d) > 0 /\ Len(d) \in 1..Len(d) /\ rev = d[Len(d)] /\ rev \in Revision
    BY LastIs
  <2> QED BY <2>1 DEF Revision
<1>2. Increasing(d) /\ Increasing(d)'
  BY DEF Good, Increasing
<1>3. Served(d, Len(d))'
  <2>1. \A i \in 1..Len(d) : i = Len(d) \/ i \in 1..(Len(d) - 1)
    BY <1>1
  <2> QED BY <1>1, <2>1 DEF Good, Served
<1>4. Served(d, Len(d) - 1)'
  BY <1>1, <1>3 DEF Served
<1>5. Known(d)'
  <2> SUFFICES ASSUME NEW i \in 1..Len(d), NEW c \in acked', c.version = d[i].version PROVE c = d[i]
    BY DEF Known, Compatible
  <2>1. CASE c \in acked
    BY <2>1 DEF Good, Known, Compatible
  <2>2. CASE c = rev
    BY <1>2, <2>2, LastAlone
  <2> QED BY <2>1, <2>2
<1>6. \A c \in acked' : d # <<>> /\ c.version <= Last(d).version
  BY <1>1 DEF Good
<1> QED BY <1>2, <1>3, <1>4, <1>5, <1>6 DEF Good

(* Published with success: the revision is newer than all before.          *)
LEMMA AckedGrows ==
    ASSUME PubType, AckedUnique, NEW rev, acked' = acked \cup {rev},
           \A c \in acked : c.version # rev.version
    PROVE  AckedUnique'
  BY DEF AckedUnique

LEMMA ServeInv == ASSUME PubInv, NEW p \in Procs, Serve(p) PROVE PubInv'
<1>1. PubType /\ ProcOk(p) /\ Exclusive /\ Journals /\ AckedUnique
  BY DEF PubInv
<1>2. PICK rev \in pending[p] :
        /\ phase[p] = "open" /\ (durable => written[p] \/ AlreadyRecorded(journal[p], rev))
        /\ stable' = (IF written[p] THEN {disk} ELSE stable) /\ disk' = disk
        /\ journal' = [journal EXCEPT ![p] = IF written[p] THEN disk ELSE journal[p]]
        /\ pending' = [pending EXCEPT ![p] = {}] /\ written' = [written EXCEPT ![p] = FALSE]
        /\ phase' = [phase EXCEPT ![p] = "up"] /\ commits' = commits \cup {rev}
        /\ acked' = (IF written[p] THEN acked \cup {rev} ELSE acked)
        /\ UNCHANGED <<durable, source, lock, snapshot, previous, captured>>
  BY DEF Serve, MayCommit, Synced, Done
<1>3. durable
  BY <1>1, <1>2 DEF Exclusive
<1>4. PICK d : d = disk /\ d \in stable /\ d \in Seq(Revision) /\ Good(d)
  BY <1>1, <1>3 DEF PubType, Journals
<1>5. rev = snapshot[p] /\ rev \in Revision /\ rev.version \in Nat
  BY <1>1, <1>2 DEF ProcOk, OpenOk, Revision
<1>6. d # <<>> /\ Last(d) = rev /\ (written[p] => acked = {}) /\ (~written[p] => journal[p] = d)
  BY <1>1, <1>2, <1>3, <1>4, <1>5 DEF ProcOk, OpenOk, AlreadyRecorded
<1>7. /\ phase'[p] = "up" /\ journal'[p] = d /\ pending'[p] = {} /\ written'[p] = FALSE
      /\ \A q \in Procs \ {p} :
            /\ phase'[q] = phase[q] /\ journal'[q] = journal[q] /\ pending'[q] = pending[q]
            /\ written'[q] = written[q]
  BY <1>1, <1>2, <1>4, <1>6 DEF PubType
<1>8. Good(d)' /\ Served(d, Len(d))'
  BY <1>1, <1>2, <1>4, <1>6, SyncedGood
<1>9. PubType'
  <2>1. written' \in [Procs -> BOOLEAN] /\ pending' \in [Procs -> SUBSET Revision]
    BY <1>1, <1>2 DEF PubType
  <2>2. journal' \in [Procs -> Seq(Revision)] /\ phase' \in [Procs -> Phases]
    BY <1>1, <1>2, <1>4 DEF PubType, Phases
  <2>3. stable' \in SUBSET Seq(Revision) /\ disk' \in stable'
    BY <1>1, <1>2, <1>4 DEF PubType
  <2> QED BY <1>1, <1>2, <1>5, <2>1, <2>2, <2>3 DEF PubType
<1>10. Journals' /\ AckedUnique'
  <2>1. CASE written[p]
    BY <1>1, <1>2, <1>4, <1>6, <1>8, <2>1 DEF Journals, AckedUnique
  <2>2. CASE ~written[p]
    BY <1>1, <1>2, <2>2 DEF Journals, AckedUnique, Good, Increasing, Served, Known, Compatible
  <2> QED BY <2>1, <2>2
<1>11. Exclusive'
  BY <1>1, <1>2, <1>3, <1>7 DEF Exclusive, Running
<1>12. \A q \in Procs \ {p} : ProcOk(q)'
  BY <1>2, <1>3, <1>7, OthersQuiet DEF Apart, Alone, Running
<1>13. ProcOk(p)'
  <2>1. JournalOk(p)'
    BY <1>2, <1>5, <1>6, <1>7, <1>8 DEF JournalOk, Good
  <2>2. \A c \in acked' : c.version <= snapshot[p].version
    BY <1>5, <1>6, <1>8 DEF Good
  <2> QED BY <1>2, <1>3, <1>5, <1>7, <2>1, <2>2 DEF ProcOk, QuietOk, InitialOk, OpenOk, UpOk
<1> QED BY <1>9, <1>10, <1>11, <1>12, <1>13 DEF PubInv

LEMMA CommitInv == ASSUME PubInv, NEW p \in Procs, Commit(p) PROVE PubInv'
<1>1. PubType /\ ProcOk(p) /\ Exclusive /\ Journals /\ AckedUnique
  BY DEF PubInv
<1>2. PICK rev \in pending[p] :
        /\ phase[p] = "up" /\ (durable => written[p] \/ AlreadyRecorded(journal[p], rev))
        /\ stable' = (IF written[p] THEN {disk} ELSE stable) /\ disk' = disk
        /\ journal' = [journal EXCEPT ![p] = IF written[p] THEN disk ELSE journal[p]]
        /\ pending' = [pending EXCEPT ![p] = {}] /\ written' = [written EXCEPT ![p] = FALSE]
        /\ previous' = [previous EXCEPT ![p] = Pushed(previous[p], snapshot[p])]
        /\ snapshot' = [snapshot EXCEPT ![p] = rev]
        /\ commits' = commits \cup {rev} /\ acked' = acked \cup {rev}
        /\ UNCHANGED <<durable, source, lock, phase, captured>>
  BY DEF Commit, MayCommit, Synced, Done
<1>3. /\ UpOk(p) /\ rev.version = snapshot[p].version + 1 /\ snapshot[p].version \in Nat
      /\ snapshot[p] \in Revision /\ rev \in Revision
      /\ \A c \in acked : c.version <= snapshot[p].version
  BY <1>1, <1>2 DEF ProcOk, UpOk, Revision, PubType
<1>4. \A c \in acked : c.version \in Nat /\ c.version < rev.version
  <2>1. \A c \in acked : c.version \in Nat
    BY <1>1 DEF PubType, Revision
  <2> QED BY <1>3, <2>1
<1>5. AckedUnique'
  <2>1. \A c \in acked : c.version # rev.version
    BY <1>3, <1>4
  <2> QED BY <1>1, <1>2, <2>1, AckedGrows
<1>6. PICK s, d : s = Pushed(previous[p], snapshot[p]) /\ d = disk /\ d \in Seq(Revision)
  BY <1>1 DEF PubType
<1>7. /\ s \in Seq(Revision)
      /\ \A i \in 1..Len(s) : s[i] = snapshot[p] \/ \E k \in 1..Len(previous[p]) : s[i] = previous[p][k]
  <2>1. previous[p] \in Seq(Revision)
    BY <1>1 DEF PubType
  <2> QED BY <1>3, <1>6, <2>1, PushedIs
<1>8. /\ journal'[p] = (IF written[p] THEN d ELSE journal[p]) /\ pending'[p] = {} /\ written'[p] = FALSE
      /\ previous'[p] = s /\ snapshot'[p] = rev
      /\ \A q \in Procs \ {p} :
            /\ journal'[q] = journal[q] /\ pending'[q] = pending[q] /\ written'[q] = written[q]
            /\ snapshot'[q] = snapshot[q] /\ previous'[q] = previous[q]
  BY <1>1, <1>2, <1>6 DEF PubType
<1>9. PubType'
  <2>1. written' \in [Procs -> BOOLEAN] /\ pending' \in [Procs -> SUBSET Revision]
    BY <1>1, <1>2 DEF PubType
  <2>2. journal' \in [Procs -> Seq(Revision)] /\ previous' \in [Procs -> Seq(Revision)]
    BY <1>1, <1>2, <1>6, <1>7 DEF PubType
  <2>3. snapshot' \in [Procs -> Revision \cup {<<>>}]
    BY <1>1, <1>2, <1>3 DEF PubType
  <2>4. stable' \in SUBSET Seq(Revision) /\ disk' \in stable'
    BY <1>1, <1>2 DEF PubType
  <2> QED BY <1>1, <1>2, <1>3, <2>1, <2>2, <2>3, <2>4 DEF PubType
<1>10. Exclusive'
  <2>1. acked = commits => acked' = commits'
    BY <1>2
  <2> QED BY <1>1, <1>2, <2>1 DEF Exclusive, Running
<1>11. \A q \in Procs \ {p} : ProcOk(q)'
  BY <1>2, <1>8, OthersQuiet DEF Apart, Alone, Running
<1>12. ASSUME Journals', IF durable THEN JournalOk(p)' ELSE MemoryOk(p)' PROVE PubInv'
  <2>1. \A c \in acked' : c.version <= rev.version
    BY <1>2, <1>3, <1>4
  <2>2. UpOk(p)'
    BY <1>2, <1>3, <1>8, <1>12, <2>1 DEF UpOk
  <2>3. ProcOk(p)'
    BY <1>2, <2>2 DEF ProcOk, QuietOk, InitialOk, OpenOk
  <2> QED BY <1>5, <1>9, <1>10, <1>11, <1>12, <2>3 DEF PubInv
<1>13. CASE durable
  <2>1. JournalOk(p)
    BY <1>2, <1>3, <1>13 DEF UpOk
  <2>2. written[p]
    BY <1>2, <1>3, <1>13, <2>1 DEF JournalOk, AlreadyRecorded
  <2>3. d # <<>> /\ Last(d) = rev /\ Good(d)
    BY <1>1, <1>2, <1>6, <1>13, <2>1, <2>2 DEF JournalOk, PubType, Journals
  <2>4. Good(d)' /\ Served(d, Len(d))'
    BY <1>1, <1>2, <1>6, <2>3, SyncedGood
  <2>5. Journals'
    BY <1>2, <1>6, <2>2, <2>4 DEF Journals
  <2>6. JournalOk(p)'
    BY <1>8, <2>2, <2>3, <2>4 DEF JournalOk, Good
  <2> QED BY <1>12, <1>13, <2>5, <2>6
<1>14. CASE ~durable
  <2>1. snapshot[p] \in commits /\ Served(previous[p], Len(previous[p])) /\ ~written[p]
    BY <1>2, <1>3, <1>14 DEF UpOk, MemoryOk
  <2>2. Served(s, Len(s))'
    BY <1>2, <1>7, <2>1 DEF Served
  <2>3. Journals' /\ MemoryOk(p)'
    BY <1>2, <1>8, <1>14, <2>2 DEF Journals, MemoryOk
  <2> QED BY <1>12, <1>14, <2>3
<1> QED BY <1>13, <1>14

LEMMA PublishFailsInv == ASSUME PubInv, NEW p \in Procs, PublishFails(p) PROVE PubInv'
<1>1. PubType /\ ProcOk(p) /\ Exclusive
  BY DEF PubInv
<1>2. /\ phase[p] = "up" /\ pending' = [pending EXCEPT ![p] = {}]
      /\ written' = [written EXCEPT ![p] = FALSE]
      /\ UNCHANGED <<durable, source, disk, stable, lock, phase, snapshot, journal, previous, captured,
                     commits, acked>>
  BY DEF PublishFails, Done, disks, memory, promises
<1>3. /\ pending'[p] = {} /\ written'[p] = FALSE
      /\ \A q \in Procs \ {p} : pending'[q] = pending[q] /\ written'[q] = written[q]
  BY <1>1, <1>2 DEF PubType
<1>4. PubType'
  <2>1. written' \in [Procs -> BOOLEAN] /\ pending' \in [Procs -> SUBSET Revision]
    BY <1>1, <1>2 DEF PubType
  <2> QED BY <1>1, <1>2, <2>1 DEF PubType
<1>5. Journals' /\ AckedUnique'
  BY <1>2, RestKept
<1>6. Exclusive'
  BY <1>1, <1>2 DEF Exclusive, Running
<1>7. \A q \in Procs \ {p} : ProcOk(q)'
  BY <1>2, <1>3, OthersKept DEF Apart
<1>8. UpOk(p)'
  BY <1>1, <1>2, <1>3 DEF ProcOk, UpOk, JournalOk, MemoryOk, Served, Known, Compatible
<1>9. ProcOk(p)'
  BY <1>2, <1>8 DEF ProcOk, QuietOk, InitialOk, OpenOk
<1> QED BY <1>4, <1>5, <1>6, <1>7, <1>9 DEF PubInv

-----------------------------------------------------------------------------
LEMMA PubInit == Init => PubInv
<1> SUFFICES ASSUME Init PROVE PubInv
  OBVIOUS
<1>1. /\ disk = <<>> /\ stable = {<<>>} /\ lock = {} /\ phase = [p \in Procs |-> "down"]
      /\ snapshot = [p \in Procs |-> <<>>] /\ journal = [p \in Procs |-> <<>>]
      /\ previous = [p \in Procs |-> <<>>] /\ pending = [p \in Procs |-> {}]
      /\ written = [p \in Procs |-> FALSE] /\ captured = [p \in Procs |-> {}]
      /\ commits = {} /\ acked = {} /\ source \in Bundles /\ durable \in BOOLEAN
  BY PublicationAssumption DEF Init
<1>2. PubType
  <2>1. journal \in [Procs -> Seq(Revision)] /\ previous \in [Procs -> Seq(Revision)]
    BY <1>1
  <2>2. snapshot \in [Procs -> Revision \cup {<<>>}] /\ phase \in [Procs -> Phases]
    BY <1>1 DEF Phases
  <2>3. /\ written \in [Procs -> BOOLEAN] /\ pending \in [Procs -> SUBSET Revision]
        /\ captured \in [Procs -> SUBSET Bundles]
    BY <1>1
  <2> QED BY <1>1, <2>1, <2>2, <2>3 DEF PubType
<1>3. Journals /\ AckedUnique
  BY <1>1 DEF Journals, AckedUnique, Good, Increasing, Served, Known, Compatible
<1>4. Exclusive
  BY <1>1 DEF Exclusive, Running
<1>5. \A p \in Procs : ProcOk(p)
  BY <1>1 DEF ProcOk, QuietOk, InitialOk, OpenOk, UpOk
<1> QED BY <1>2, <1>3, <1>4, <1>5 DEF PubInv

LEMMA PubStep == ~Handover /\ PubInv /\ [Next]_vars => PubInv'
<1> SUFFICES ASSUME ~Handover, PubInv, [Next]_vars PROVE PubInv'
  OBVIOUS
<1>1. PubType
  BY DEF PubInv
<1>2. CASE UNCHANGED vars
  BY <1>1, <1>2, AsideInv DEF vars, PubType
<1>3. ASSUME NEW b \in Bundles, EditSource(b) PROVE PubInv'
  BY <1>1, <1>3, AsideInv DEF EditSource, PubType, disks, memory, ongoing, promises
<1>4. ASSUME NEW p \in Procs, Starting(p) PROVE PubInv'
  BY <1>4, InitialInv, OpenInv, OpenFailsInv, ServeInMemoryInv, ServeInv DEF Starting
<1>5. ASSUME NEW p \in Procs, Publishing(p) PROVE PubInv'
  <2>1. CASE Capture(p) \/ ReloadRejected(p)
    <3>1. captured' \in [Procs -> SUBSET Bundles] /\ source' \in Bundles
      BY <1>1, <2>1 DEF Capture, ReloadRejected, PubType
    <3> QED BY <2>1, <3>1, AsideInv DEF Capture, ReloadRejected, disks, memory, promises
  <2>2. CASE \E v \in 1..MaxVersion : Rollback(p, v)
    BY <2>2, RollbackInv
  <2> QED BY <1>5, <2>1, <2>2, ReloadInv, WriteJournalInv, CommitInv DEF Publishing
<1>6. ASSUME NEW p \in Procs, PublishFails(p) \/ Crash(p) PROVE PubInv'
  BY <1>6, PublishFailsInv, CrashInv
<1>7. CASE PowerFailure
  BY <1>7, PowerFailureInv
<1> QED BY <1>2, <1>3, <1>4, <1>5, <1>6, <1>7 DEF Next

LEMMA PubInductive == ASSUME ~Handover PROVE Spec => []PubInv
<1>1. PubInv /\ [Next]_vars => PubInv'
  BY PubStep
<1> QED BY <1>1, PubInit, PTL DEF Spec

(***************************************************************************)
(* No process serves a version older than one published before, whatever   *)
(* fails, crashes or loses power in between and however many processes     *)
(* start beside each other, if none exits between another one's read of    *)
(* the journal and its lock (initial, History::open, publish_locked).      *)
(***************************************************************************)
THEOREM LatestIsServed == ASSUME ~Handover PROVE Spec => []ServesLatest
<1>1. PubInv => ServesLatest
  BY DEF PubInv, ProcOk, UpOk, ServesLatest, Up
<1> QED BY <1>1, PubInductive, PTL

(***************************************************************************)
(* A published version number names one configuration for ever, and what a *)
(* rollback finds under a number was served under it (record, restore).    *)
(***************************************************************************)
THEOREM RollbackFindsServed == ASSUME ~Handover PROVE Spec => []RollbackIsFaithful
<1>1. ASSUME PubInv PROVE RollbackIsFaithful
  <2>1. ASSUME NEW p \in Procs, Up(p), NEW i \in 1..Len(Retained(p))
        PROVE  Retained(p)[i] \in commits /\ \A c \in acked : c.version = Retained(p)[i].version => c = Retained(p)[i]
    <3>1. UpOk(p) /\ Exclusive /\ AckedUnique
      BY <1>1 DEF PubInv, ProcOk
    <3>2. CASE durable
      BY <2>1, <3>1, <3>2 DEF UpOk, Up, JournalOk, Served, Known, Compatible, Retained
    <3>3. CASE ~durable
      <4>1. Retained(p)[i] \in commits /\ acked = commits
        BY <2>1, <3>1, <3>3 DEF UpOk, Up, MemoryOk, Served, Retained, Exclusive
      <4> QED BY <3>1, <4>1 DEF AckedUnique
    <3> QED BY <3>2, <3>3
  <2>2. AckedUnique
    BY <1>1 DEF PubInv
  <2> QED BY <2>1, <2>2 DEF RollbackIsFaithful, AckedUnique
<1>2. PubInv => RollbackIsFaithful
  BY <1>1
<1> QED BY <1>2, PubInductive, PTL

(***************************************************************************)
(* Every journal that a crash or a power failure may leave ends with the   *)
(* newest published version or with one that was about to follow it: what  *)
(* was published with success is never lost (record syncs before the       *)
(* snapshot is stored).                                                    *)
(***************************************************************************)
THEOREM PublishedSurvives == ASSUME ~Handover PROVE Spec => []CommittedSurvives
<1>1. ASSUME PubInv, durable, NEW j \in stable, NEW c \in acked
      PROVE  j # <<>> /\ Last(j).version >= c.version /\ (Last(j).version = c.version => Last(j) = c)
  <2>1. Good(j) /\ j \in Seq(Revision) /\ c.version \in Nat
    BY <1>1 DEF PubInv, Journals, PubType, Revision
  <2>2. j # <<>> /\ c.version <= Last(j).version
    BY <2>1 DEF Good
  <2>3. Len(j) \in 1..Len(j) /\ Last(j) = j[Len(j)] /\ Last(j) \in Revision
    BY <2>1, <2>2, LastIs
  <2>4. Last(j).version = c.version => Last(j) = c
    BY <2>1, <2>3 DEF Good, Known, Compatible
  <2> QED BY <2>1, <2>2, <2>3, <2>4 DEF Revision
<1>2. PubInv => CommittedSurvives
  BY <1>1 DEF CommittedSurvives
<1> QED BY <1>2, PubInductive, PTL
=============================================================================
