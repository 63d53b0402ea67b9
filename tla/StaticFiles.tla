---------------------------- MODULE StaticFiles ----------------------------
(***************************************************************************)
(* Static files (proxy/static_files.rs, proxy/responses.rs and the Hyper   *)
(* engine's hyper/responses.rs, which takes the same steps): the file is   *)
(* opened, a small one read at once on the same thread, the conditional    *)
(* and Range headers decide what is announced, and the bytes are sent,     *)
(* while other programs may replace the file or change it in place.        *)
(***************************************************************************)
EXTENDS Integers, FiniteSets

CONSTANTS
    Headers,        \* requests: [method, range, match, since, ifRange]
    MaxLength,      \* bound: the length of a file, in bytes
    SmallFile,      \* 65536
    Chunk           \* 65536

(* What the header parsers make of a request: positions are u64.          *)
RangeKinds == {"none", "other", "bad", "suffix", "from", "both"}

ASSUME StaticAssumption ==
    /\ MaxLength \in Nat /\ {SmallFile, Chunk} \subseteq Nat \ {0}
    /\ \A h \in Headers : h.range.kind \in RangeKinds /\ {h.range.first, h.range.last} \subseteq Nat
                           /\ h.ifRange \in {"none", "same", "other"}

VARIABLES
    shelf,      \* [kind, length, same]: what is at the path; same while it is the opened file
    held,       \* [known, now]: the opened file's length in its metadata, and as it is
    asked,      \* the request, with how it is served
    reply,      \* [status, start, length]: the announced response
    sent,       \* the positions sent
    serving     \* where the handler is

staticVars == <<shelf, held, asked, reply, sent, serving>>

PathKinds == {"file", "directory", "missing", "special"}
NoReply == [status |-> 0, start |-> 0, length |-> 0]

StaticInit ==
    /\ shelf \in [kind : PathKinds, length : 0..MaxLength, same : {FALSE}]
    /\ shelf.kind # "file" => shelf.length = 0
    /\ held = [known |-> 0, now |-> 0]
    /\ asked \in [headers : Headers, sendfile : BOOLEAN, initial : {FALSE}]
    /\ reply = NoReply /\ sent = {} /\ serving = "open"

FinishReply(status) == reply' = [NoReply EXCEPT !.status = status] /\ serving' = "done"

-----------------------------------------------------------------------------
(* serve_file opens the path: only a regular file goes on.                 *)
Refused ==
    /\ serving = "open"
    /\ CASE asked.headers.method \notin {"GET", "HEAD"} -> FinishReply(405)
         [] asked.headers.method \in {"GET", "HEAD"} /\ shelf.kind = "directory" -> FinishReply(301)
         [] asked.headers.method \in {"GET", "HEAD"} /\ shelf.kind = "missing" -> FinishReply(404)
         [] asked.headers.method \in {"GET", "HEAD"} /\ shelf.kind = "special" -> FinishReply(403)
         [] OTHER -> FALSE
    /\ UNCHANGED <<shelf, held, asked, sent>>

(* A small file is read while it is opened, unless it is sent by the       *)
(* kernel or the request may want only part of it.                         *)
\* Mutant of Prefetches: a range request is prefetched as well.
PrefetchesRange(h) == ~asked.sendfile /\ h.method = "GET" /\ h.match = "none" /\ h.since = "none"
Prefetches(h) ==
    ~asked.sendfile /\ h.method = "GET" /\ h.range.kind = "none" /\ h.match = "none" /\ h.since = "none"

Opened ==
    /\ serving = "open" /\ asked.headers.method \in {"GET", "HEAD"} /\ shelf.kind = "file"
    /\ held' = [known |-> shelf.length, now |-> shelf.length]
    /\ shelf' = [shelf EXCEPT !.same = TRUE]

(* For the kernel to send, the path is first looked up without waiting for *)
(* the disk, if its entries are cached; the inode that was found to be a   *)
(* file is the one that is opened.                                         *)
OpenCached ==
    /\ asked.sendfile /\ Opened
    /\ serving' = "select"
    /\ UNCHANGED <<asked, reply, sent>>

OpenPath ==
    /\ Opened
    /\ serving' = IF Prefetches(asked.headers) /\ shelf.length <= SmallFile THEN "prefetch" ELSE "select"
    /\ UNCHANGED <<asked, reply, sent>>

Prefetch ==
    /\ serving = "prefetch"
    /\ IF held.now >= held.known
       THEN asked' = [asked EXCEPT !.initial = TRUE] /\ serving' = "select" /\ UNCHANGED reply
       ELSE FinishReply(500) /\ UNCHANGED asked
    /\ UNCHANGED <<shelf, held, sent>>

-----------------------------------------------------------------------------
(* range: the first and last position asked for, cut to the file; -1 for   *)
(* one that cannot be met.                                                 *)
ByteRange(r, length) ==
    LET last == IF r.kind = "both" /\ r.last < length THEN r.last ELSE length - 1
    IN CASE length = 0 \/ r.kind = "bad" -> <<-1, -1>>
         [] length > 0 /\ r.kind = "suffix" ->
                IF r.last = 0 THEN <<-1, -1>>
                ELSE <<IF r.last >= length THEN 0 ELSE length - r.last, length - 1>>
         [] OTHER -> IF r.first >= length \/ last < r.first THEN <<-1, -1>> ELSE <<r.first, last>>

(* If-None-Match decides when it is there, If-Modified-Since otherwise.    *)
NotModified(h) == IF h.match # "none" THEN h.match = "same" ELSE h.since = "later"

(* select: the announced status, start and length.                         *)
SelectBytes ==
    /\ serving = "select"
    /\ LET h == asked.headers
           ranged == ~NotModified(h) /\ h.ifRange \in {"none", "same"} /\ h.range.kind \notin {"none", "other"}
           r == ByteRange(h.range, held.known)
       IN reply' = CASE ~ranged -> [status |-> IF NotModified(h) THEN 304 ELSE 200, start |-> 0,
                                    length |-> held.known]
                     [] ranged /\ r[1] < 0 -> [status |-> 416, start |-> 0, length |-> 0]
                     [] OTHER -> [status |-> 206, start |-> r[1], length |-> r[2] - r[1] + 1]
    /\ serving' = "send"
    /\ UNCHANGED <<shelf, held, asked, sent>>

Empty == asked.headers.method = "HEAD" \/ reply.status = 304 \/ reply.length = 0

(* The body: none, the bytes read at once, or a chunk at a time; a file    *)
(* that has become too short ends the connection.                          *)
SendNothing ==
    /\ serving = "send" /\ (Empty \/ Cardinality(sent) = reply.length)
    /\ serving' = "done"
    /\ UNCHANGED <<shelf, held, asked, reply, sent>>
SendInitial ==
    /\ serving = "send" /\ ~Empty /\ asked.initial
    /\ sent' = 0..(held.known - 1)
    /\ serving' = "done"
    /\ UNCHANGED <<shelf, held, asked, reply>>
SendChunk ==
    LET at == reply.start + Cardinality(sent)
        left == reply.length - Cardinality(sent)
    IN
    /\ serving = "send" /\ ~Empty /\ ~asked.initial /\ left > 0
    /\ IF at >= held.now
       THEN serving' = "aborted" /\ UNCHANGED sent
       ELSE /\ \E n \in 1..Chunk : /\ n <= left /\ at + n <= held.now
                                   /\ sent' = sent \cup at..(at + n - 1)
            /\ UNCHANGED serving
    /\ UNCHANGED <<shelf, held, asked, reply>>

-----------------------------------------------------------------------------
(* Another program writes into the file, or puts another in its place.     *)
Rewrite ==
    /\ serving \notin {"done", "aborted"} /\ shelf.kind = "file"
    /\ \E n \in 0..MaxLength :
           /\ n # shelf.length
           /\ shelf' = [shelf EXCEPT !.length = n]
           /\ held' = IF shelf.same THEN [held EXCEPT !.now = n] ELSE held
    /\ UNCHANGED <<asked, reply, sent, serving>>
Rename ==
    /\ serving \notin {"done", "aborted"} /\ shelf.same
    /\ \E kind \in PathKinds \ {"file"} : shelf' = [kind |-> kind, length |-> 0, same |-> FALSE]
    /\ UNCHANGED <<held, asked, reply, sent, serving>>

StaticNext ==
    \/ Refused \/ OpenCached \/ OpenPath \/ Prefetch \/ SelectBytes \/ SendNothing \/ SendInitial \/ SendChunk
    \/ Rewrite \/ Rename

StaticSpec == StaticInit /\ [][StaticNext]_staticVars

-----------------------------------------------------------------------------
(* What a request asks for, as a set of positions of a file this long.     *)
Positions(h, length) ==
    LET all == 0..(length - 1)
        r == h.range
    IN IF r.kind \in {"none", "other"} \/ h.ifRange = "other" THEN all
       ELSE CASE r.kind = "bad" -> {}
              [] r.kind = "suffix" -> {i \in all : i >= length - r.last}
              [] r.kind = "from" -> {i \in all : i >= r.first}
              [] r.kind = "both" -> {i \in all : r.first <= i /\ i <= r.last}

(* A response that completes is the one its headers announce: exactly the  *)
(* positions asked for, of the file that was opened, with the length the   *)
(* header gives, or nothing for a HEAD, a 304 or a range that cannot be    *)
(* met, however the file is changed meanwhile.                             *)
DeliversAnnounced ==
    LET h == asked.headers
        wanted == Positions(h, held.known)
    IN serving = "done" =>
        /\ reply.status \in {200, 206} => /\ reply.length = Cardinality(wanted)
                                          /\ h.method = "GET" => sent = wanted
        /\ reply.status = 206 => wanted # {} /\ h.range.kind \in {"suffix", "from", "both"}
        /\ reply.status = 416 => wanted = {} /\ ~NotModified(h)
        /\ reply.status \notin {200, 206} \/ h.method = "HEAD" => sent = {}
=============================================================================
