------------------------------ MODULE FileLogs ------------------------------
(***************************************************************************)
(* Local log files (logging/files.rs, logging/rotation.rs): producers put  *)
(* records into a bounded queue, one worker appends them and rotates the   *)
(* file by a hard link to a numbered archive and a rename of a new file    *)
(* over the path, compresses the archive and prunes the oldest ones.  The  *)
(* process may die between any two file operations, and an administrator   *)
(* may move the file away and ask for a reopen.                            *)
(***************************************************************************)
EXTENDS Naturals, Sequences, FiniteSets, FiniteSetsExt

CONSTANTS
    LogQueueLimit,  \* 4096
    MaxBytes,       \* size=, in records
    Keep,           \* keep=
    Gzip,           \* gzip=
    MaxRecords,     \* bound: records offered
    MaxFiles,       \* bound: files made
    MaxMoves        \* bound: crashes and moves by the administrator

ASSUME FileLogsAssumption ==
    /\ {LogQueueLimit, MaxBytes, Keep, MaxRecords, MaxFiles} \subseteq Nat \ {0}
    /\ Gzip \in BOOLEAN /\ MaxMoves \in Nat

VARIABLES
    lines,      \* the records in the queue
    offered,    \* records offered so far
    content,    \* file -> the records in it
    path,       \* the file at the log's path, 0 for none
    archives,   \* number -> [plain, gz]: a file or 0, and the records of the .gz if there is one
    elsewhere,  \* files moved away
    sink,       \* the file the worker has open, 0 for none
    logger,     \* [at, line, archive, fresh]: the worker
    reopen,     \* a reopen is asked for
    moves

logVars == <<lines, offered, content, path, archives, elsewhere, sink, logger, reopen, moves>>

Files == 1..MaxFiles
NoGzip == {0}
LoggerIdle == [at |-> "recv", line |-> 0, archive |-> 0, fresh |-> 0]

LogsInit ==
    /\ lines = <<>> /\ offered = 0
    /\ content = [f \in Files |-> {}]
    /\ path = 0 /\ archives = <<>> /\ elsewhere = {}
    /\ sink = 0 /\ logger = LoggerIdle
    /\ reopen = FALSE /\ moves = 0

Numbers == {n \in DOMAIN archives : archives[n].plain # 0 \/ archives[n].gz # NoGzip}
InUse == elsewhere \cup {path, sink, logger.fresh} \cup {archives[n].plain : n \in DOMAIN archives}
UnusedFile(f) == f \in Files /\ f \notin InUse /\ content[f] = {}

(* FileSink::open: an existing file is appended to, a missing one made.    *)
OpenFile(f) == IF path # 0 THEN f = path ELSE UnusedFile(f) /\ \A g \in Files : UnusedFile(g) => f <= g

-----------------------------------------------------------------------------
(* write: a record that finds the queue full is dropped.                   *)
Offer ==
    /\ offered < MaxRecords
    /\ offered' = offered + 1
    /\ lines' = IF Len(lines) < LogQueueLimit THEN Append(lines, offered') ELSE lines
    /\ UNCHANGED <<content, path, archives, elsewhere, sink, logger, reopen, moves>>

(* run: a reopen comes first, if it fails the old file stays open,         *)
Reopen ==
    /\ logger.at = "recv" /\ reopen
    /\ reopen' = FALSE
    /\ \/ /\ sink # 0
          /\ \E f \in Files : OpenFile(f) /\ path' = f /\ sink' = f
       \/ UNCHANGED <<path, sink>>
    /\ UNCHANGED <<lines, offered, content, archives, elsewhere, logger, moves>>

(* then a record is received and its file opened if it is not, which may   *)
(* fail and drop the record.                                               *)
Receive ==
    /\ logger.at = "recv" /\ ~reopen /\ lines # <<>>
    /\ lines' = Tail(lines)
    /\ \/ sink # 0 /\ UNCHANGED <<path, sink>>
       \/ sink = 0 /\ \E f \in Files : OpenFile(f) /\ path' = f /\ sink' = f
    /\ logger' = [logger EXCEPT !.at = "check", !.line = Head(lines)]
    /\ UNCHANGED <<offered, content, archives, elsewhere, reopen, moves>>
OpenFails ==
    /\ logger.at = "recv" /\ ~reopen /\ lines # <<>> /\ sink = 0
    /\ lines' = Tail(lines)
    /\ UNCHANGED <<offered, content, path, archives, elsewhere, sink, logger, reopen, moves>>

(* rotate_if_needed.  An empty file is not rotated; the interval may end   *)
(* at any time.  A path that names another file is reopened instead.       *)
CheckRotation ==
    /\ logger.at = "check"
    /\ LET full == Cardinality(content[sink]) + 1 > MaxBytes
       IN \/ /\ ~full \/ content[sink] = {}
             /\ logger' = [logger EXCEPT !.at = "append"] /\ UNCHANGED sink
          \/ /\ content[sink] # {}
             /\ IF path = sink THEN logger' = [logger EXCEPT !.at = "link"] /\ UNCHANGED sink
                ELSE logger' = [logger EXCEPT !.at = "append"] /\ sink' = IF path # 0 THEN path ELSE sink
    /\ UNCHANGED <<lines, offered, content, path, archives, elsewhere, reopen, moves>>

(* The file gets a second name, the first free number past the newest      *)
(* archive,                                                                *)
Successor == IF Numbers = {} THEN 1 ELSE Max(Numbers) + 1

PutArchive(n, entry) == [m \in DOMAIN archives \cup {n} |-> IF m = n THEN entry ELSE archives[m]]

Link ==
    /\ logger.at = "link"
    /\ IF path = 0
       THEN logger' = [logger EXCEPT !.at = "append"] /\ UNCHANGED archives
       ELSE \E f \in Files :
              /\ UnusedFile(f) /\ \A g \in Files : UnusedFile(g) => f <= g
              /\ archives' = PutArchive(Successor, [plain |-> path, gz |-> NoGzip])
              /\ logger' = [logger EXCEPT !.at = "publish", !.archive = Successor, !.fresh = f]
    /\ UNCHANGED <<lines, offered, content, path, elsewhere, sink, reopen, moves>>

(* then the new file takes the path; if that fails the second name goes.   *)
Publish ==
    /\ logger.at = "publish"
    /\ \/ /\ path' = logger.fresh /\ sink' = logger.fresh
          /\ logger' = [logger EXCEPT !.at = IF Gzip THEN "compress" ELSE "prune", !.fresh = 0]
          /\ UNCHANGED archives
       \/ /\ archives' = PutArchive(logger.archive, [plain |-> 0, gz |-> NoGzip])
          /\ logger' = [logger EXCEPT !.at = "append", !.fresh = 0]
          /\ UNCHANGED <<path, sink>>
    /\ UNCHANGED <<lines, offered, content, elsewhere, reopen, moves>>

(* compress: the .gz is complete before it gets its name, and only then is *)
(* the plain archive removed; a failure leaves the plain archive.          *)
Compress ==
    /\ logger.at = "compress"
    /\ \/ /\ archives' = [archives EXCEPT ![logger.archive].gz = content[archives[logger.archive].plain]]
          /\ logger' = [logger EXCEPT !.at = "unlink"]
       \/ logger' = [logger EXCEPT !.at = "prune"] /\ UNCHANGED archives
    /\ UNCHANGED <<lines, offered, content, path, elsewhere, sink, reopen, moves>>
Unlink ==
    /\ logger.at = "unlink"
    /\ archives' = [archives EXCEPT ![logger.archive].plain = 0]
    /\ logger' = [logger EXCEPT !.at = "prune"]
    /\ UNCHANGED <<lines, offered, content, path, elsewhere, sink, reopen, moves>>

(* prune: all but the newest Keep numbers, both names of a number.         *)
\* Mutant of PruneArchive: one archive too many goes.
PruneArchiveOneMore ==
    /\ logger.at = "prune" /\ Cardinality(Numbers) >= Keep
    /\ LET n == Min(Numbers)
       IN archives' = IF archives[n].plain # 0 THEN [archives EXCEPT ![n].plain = 0]
                      ELSE [archives EXCEPT ![n].gz = NoGzip]
    /\ UNCHANGED <<lines, offered, content, path, elsewhere, sink, logger, reopen, moves>>

PruneArchive ==
    /\ logger.at = "prune" /\ Cardinality(Numbers) > Keep
    /\ LET n == Min(Numbers)
       IN archives' = IF archives[n].plain # 0 THEN [archives EXCEPT ![n].plain = 0]
                      ELSE [archives EXCEPT ![n].gz = NoGzip]
    /\ UNCHANGED <<lines, offered, content, path, elsewhere, sink, logger, reopen, moves>>
PruneDone ==
    /\ logger.at = "prune"          \* a removal that fails ends it early
    /\ logger' = [logger EXCEPT !.at = "append", !.archive = 0]
    /\ UNCHANGED <<lines, offered, content, path, archives, elsewhere, sink, reopen, moves>>

(* The record is appended; if that fails it is dropped and the file closed.*)
AppendLine ==
    /\ logger.at = "append"
    /\ \/ content' = [content EXCEPT ![sink] = @ \cup {logger.line}] /\ UNCHANGED sink
       \/ sink' = 0 /\ UNCHANGED content
    /\ logger' = LoggerIdle
    /\ UNCHANGED <<lines, offered, path, archives, elsewhere, reopen, moves>>

-----------------------------------------------------------------------------
(* The process dies and is started again.                                  *)
CrashLogs ==
    /\ moves < MaxMoves /\ moves' = moves + 1
    /\ lines' = <<>> /\ sink' = 0 /\ logger' = LoggerIdle /\ reopen' = FALSE
    /\ UNCHANGED <<offered, content, path, archives, elsewhere>>

(* The administrator moves the file away, may make a new one in its place, *)
(* and sends SIGUSR1.                                                      *)
MoveAway ==
    /\ moves < MaxMoves /\ moves' = moves + 1
    /\ path # 0
    /\ elsewhere' = elsewhere \cup {path}
    /\ path' \in {0} \cup {f \in Files : UnusedFile(f) /\ \A g \in Files : UnusedFile(g) => f <= g}
    /\ UNCHANGED <<lines, offered, content, archives, sink, logger, reopen>>
AskReopen ==
    /\ elsewhere # {} /\ ~reopen
    /\ reopen' = TRUE
    /\ UNCHANGED <<lines, offered, content, path, archives, elsewhere, sink, logger, moves>>

LogsNext ==
    \/ Offer \/ Reopen \/ Receive \/ OpenFails \/ CheckRotation \/ Link \/ Publish \/ Compress \/ Unlink
    \/ PruneArchive \/ PruneDone \/ AppendLine \/ CrashLogs \/ MoveAway \/ AskReopen

LogsSpec == LogsInit /\ [][LogsNext]_logVars

-----------------------------------------------------------------------------
Kept(n) == archives[n].gz \cup (IF archives[n].plain = 0 THEN {} ELSE content[archives[n].plain])
Findable == (IF path = 0 THEN {} ELSE content[path]) \cup (UNION {content[f] : f \in elsewhere})
            \cup (UNION {Kept(n) : n \in Numbers})

(* A record once written is lost only to pruning, oldest first: while one  *)
(* cannot be found at the path, among the archives or where the            *)
(* administrator moved it, at least Keep archives exist and none of them   *)
(* holds an older record.  Crashes inside a rotation, a compression or a   *)
(* prune, and files moved away at any point, do not lose any.              *)
RecordsRetained ==
    \A r \in (UNION {content[f] : f \in Files}) \ Findable :
        /\ Cardinality(Numbers) >= Keep
        /\ \A n \in Numbers, kept \in 1..MaxRecords : kept \in Kept(n) => kept > r
=============================================================================
