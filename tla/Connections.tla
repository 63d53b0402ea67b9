----------------------------- MODULE Connections -----------------------------
(***************************************************************************)
(* Downstream connections of the Hyper engine: their admission             *)
(* (proxy/hyper/admission.rs), the TCP listener and its connection tasks   *)
(* (proxy/hyper/mod.rs, tls.rs), the h2c upgrade (h2c.rs), the HTTP/3      *)
(* listener (h3.rs), and their drain.                                      *)
(*                                                                         *)
(* A Lease is dropped with the last of its references: the connection task *)
(* and, through the Connection, an upgraded tunnel.  The counts are kept   *)
(* under a lock, the budgets are semaphores, and `pending` is an atomic    *)
(* flag that is swapped before the lock is taken.                          *)
(***************************************************************************)
EXTENDS Naturals, FiniteSets

CONSTANTS
    Sockets,            \* connections alive at a time
    Peers,              \* client addresses
    PerIp, PerListener, PendingPerIp, MaxConnections, MaxPending,
    HeaderBudget,       \* HTTP/3 request headers read at a time
    MaxStreams          \* bound: requests of a connection at a time

ASSUME ConnectionsAssumption ==
    /\ IsFiniteSet(Sockets) /\ IsFiniteSet(Peers)
    /\ {PerIp, PerListener, PendingPerIp, MaxConnections, MaxPending, HeaderBudget, MaxStreams}
         \subseteq Nat \ {0}

VARIABLES
    socket,         \* socket -> its connection
    peers,          \* peer -> Counts; zero when it has no entry
    listeners,      \* listener -> connections; zero when it has no entry
    slots,          \* free permits of the two semaphores
    headerSlots,    \* free permits of the HTTP/3 header budget
    service         \* service -> "open", "draining" or "stopped"

connectionsVars == <<socket, peers, listeners, slots, headerSlots, service>>

(* What is accepted: by which service and on which address.  HTTP/3 shares *)
(* the address, and its count, with the TLS listener.                      *)
ServiceOf(kind) == IF kind = "quic" THEN "h3" ELSE "tcp"
ListenerOf(kind) == IF kind = "plain" THEN "http" ELSE "https"
Services == {"tcp", "h3"}
AddressesServed == {"http", "https"}

NoSocket == [at |-> "none", kind |-> "plain", peer |-> CHOOSE p \in Peers : TRUE,
             flag |-> FALSE, swapped |-> FALSE, headers |-> 0, streams |-> 0, tunnel |-> "none"]

ConnectionsInit ==
    /\ socket = [s \in Sockets |-> NoSocket]
    /\ peers = [p \in Peers |-> [connections |-> 0, pending |-> 0]]
    /\ listeners = [l \in AddressesServed |-> 0]
    /\ slots = [connections |-> MaxConnections, pending |-> MaxPending]
    /\ headerSlots = HeaderBudget
    /\ service = [x \in Services |-> "open"]

-----------------------------------------------------------------------------
(* Admission::acquire: every check under the lock, the semaphores last.    *)
Admissible(p, l) ==
    /\ peers[p].connections < PerIp
    /\ listeners[l] < PerListener
    /\ peers[p].pending < PendingPerIp
    /\ slots.connections > 0
    /\ slots.pending > 0

AcquireSlot(s, kind, p) ==
    /\ Admissible(p, ListenerOf(kind))
    /\ socket' = [socket EXCEPT ![s] = [NoSocket EXCEPT !.at = "handshake", !.kind = kind,
                                                        !.peer = p, !.flag = TRUE]]
    /\ peers' = [peers EXCEPT ![p].connections = @ + 1, ![p].pending = @ + 1]
    /\ listeners' = [listeners EXCEPT ![ListenerOf(kind)] = @ + 1]
    /\ slots' = [connections |-> slots.connections - 1, pending |-> slots.pending - 1]

(* A connection is accepted by one of the two loops and gets its task.  A  *)
(* refused one is closed and leaves nothing behind.                        *)
AcceptTcp(s) ==
    /\ socket[s].at = "none" /\ service["tcp"] = "open"
    /\ \E kind \in {"plain", "tls"}, p \in Peers : AcquireSlot(s, kind, p)
    /\ UNCHANGED <<headerSlots, service>>
AcceptQuic(s) ==
    /\ socket[s].at = "none" /\ service["h3"] = "open"
    /\ \E p \in Peers : AcquireSlot(s, "quic", p)
    /\ UNCHANGED <<headerSlots, service>>

(* The end of the task: what it holds is dropped.  The Lease goes with it  *)
(* unless a tunnel still holds the Connection.                             *)
Ended(s, tunnel) ==
    [socket EXCEPT ![s].at = IF tunnel = "none" THEN "closing" ELSE "orphan",
                   ![s].headers = 0, ![s].streams = 0, ![s].tunnel = tunnel]
Freed(s) == headerSlots + socket[s].headers

(* PROXY header and TLS handshake, or the QUIC handshake: each within its  *)
(* timeout.  QUIC connections are established by it; TCP connections when  *)
(* they make a request.  HTTP/3 then looks at the certificate again.       *)
HandshakeDone(s) ==
    /\ socket[s].at = "handshake"
    /\ socket' = [socket EXCEPT ![s].at = "serving",
                                ![s].swapped = socket[s].kind = "quic" /\ socket[s].flag,
                                ![s].flag = socket[s].kind # "quic" /\ @]
    /\ UNCHANGED <<peers, listeners, slots, headerSlots, service>>

HandshakeFails(s) ==
    /\ socket[s].at = "handshake"
    /\ socket' = Ended(s, "none")
    /\ UNCHANGED <<peers, listeners, slots, headerSlots, service>>

(***************************************************************************)
(* Lease::established: the first caller swaps the flag and then, under the *)
(* lock, returns the pending count and permit.                             *)
(***************************************************************************)
EstablishSwap(s) ==
    [socket EXCEPT ![s].swapped = @ \/ socket[s].flag, ![s].flag = FALSE, ![s].streams = @ + 1]

EstablishedCounts(s) ==
    /\ socket[s].swapped
    /\ socket' = [socket EXCEPT ![s].swapped = FALSE]
    /\ peers' = [peers EXCEPT ![socket[s].peer].pending = @ - 1]
    /\ slots' = [slots EXCEPT !.pending = @ + 1]
    /\ UNCHANGED <<listeners, headerSlots, service>>

(* A request on a TCP connection.                                          *)
TcpRequest(s) ==
    /\ socket[s].at = "serving" /\ socket[s].kind # "quic"
    /\ socket[s].streams < MaxStreams /\ socket[s].tunnel = "none"
    /\ socket' = EstablishSwap(s)
    /\ UNCHANGED <<peers, listeners, slots, headerSlots, service>>

(* A stream of an HTTP/3 connection: its headers are read on a permit; a   *)
(* connection that finds none is closed once its streams are done.         *)
H3Stream(s) ==
    /\ socket[s].at = "serving" /\ socket[s].kind = "quic" /\ ~socket[s].swapped
    /\ socket[s].headers + socket[s].streams < MaxStreams
    /\ IF headerSlots > 0
       THEN /\ headerSlots' = headerSlots - 1
            /\ socket' = [socket EXCEPT ![s].headers = @ + 1]
       ELSE /\ socket' = [socket EXCEPT ![s].at = "finishing"]
            /\ UNCHANGED headerSlots
    /\ UNCHANGED <<peers, listeners, slots, service>>

(* The headers are resolved, refused or time out; the permit is returned   *)
(* before the request is handled.                                          *)
H3Resolved(s, ok) ==
    /\ socket[s].headers > 0
    /\ headerSlots' = headerSlots + 1
    /\ socket' = [socket EXCEPT ![s].headers = @ - 1, ![s].streams = IF ok THEN @ + 1 ELSE @]
    /\ UNCHANGED <<peers, listeners, slots, service>>

RequestDone(s) ==
    /\ socket[s].streams > 0 /\ ~socket[s].swapped
    /\ socket' = [socket EXCEPT ![s].streams = @ - 1]
    /\ UNCHANGED <<peers, listeners, slots, headerSlots, service>>

(* h2c::upgrade: a successful first request hands its connection to a task *)
(* of its own, which waits for the socket; the connection answers 101,     *)
(* ends and waits for the tunnel.  The task holds the Connection.          *)
Upgrade(s) ==
    /\ socket[s].at = "serving" /\ socket[s].kind = "plain"
    /\ socket[s].streams = 1 /\ ~socket[s].swapped /\ socket[s].tunnel = "none"
    /\ socket' = [socket EXCEPT ![s].tunnel = "waiting"]
    /\ UNCHANGED <<peers, listeners, slots, headerSlots, service>>

UpgradeFlushed(s) ==
    /\ socket[s].at = "serving" /\ socket[s].tunnel = "waiting"
    /\ socket' = [socket EXCEPT ![s].at = "wait_tunnel", ![s].streams = 0, ![s].tunnel = "running"]
    /\ UNCHANGED <<peers, listeners, slots, headerSlots, service>>

(* The tunnel ends: bad preface, end of the connection, graceful shutdown, *)
(* or because its socket or its handle was dropped.                        *)
UpgradedEnds(s) ==
    /\ \/ socket[s].at = "wait_tunnel" /\ socket[s].tunnel = "running"
       \/ socket[s].at = "orphan"
    /\ socket' = Ended(s, "none")
    /\ UNCHANGED <<peers, listeners, slots, headerSlots, service>>

(* The connection ends: the client closes it, it fails or times out, or it *)
(* is idle when it is told to stop.  The streams of an HTTP/3 connection   *)
(* are awaited.                                                            *)
ConnectionEnds(s) ==
    /\ \/ socket[s].at = "serving" /\ socket[s].kind # "quic" /\ ~socket[s].swapped
       \/ /\ socket[s].at \in {"serving", "finishing"} /\ socket[s].kind = "quic"
          /\ ~socket[s].swapped /\ socket[s].headers + socket[s].streams = 0
    /\ socket' = Ended(s, IF socket[s].tunnel = "waiting" THEN "aborted" ELSE "none")
    /\ headerSlots' = Freed(s)
    /\ UNCHANGED <<peers, listeners, slots, service>>

(***************************************************************************)
(* Lease::drop: established, then the counts, then its permits.            *)
(***************************************************************************)
\* Mutant of DropLeaseBegin: a lease that never served a request stays pending.
DropLeaseBeginServed(s) ==
    /\ socket[s].at = "closing" /\ ~socket[s].swapped
    /\ socket' = [socket EXCEPT ![s].at = "established", ![s].flag = FALSE]
    /\ UNCHANGED <<peers, listeners, slots, headerSlots, service>>

DropLeaseBegin(s) ==
    /\ socket[s].at = "closing" /\ ~socket[s].swapped
    /\ socket' = [socket EXCEPT ![s].at = "established", ![s].swapped = socket[s].flag,
                                ![s].flag = FALSE]
    /\ UNCHANGED <<peers, listeners, slots, headerSlots, service>>

DropLeaseCounts(s) ==
    /\ socket[s].at = "established" /\ ~socket[s].swapped
    /\ socket' = [socket EXCEPT ![s].at = "uncounted"]
    /\ peers' = [peers EXCEPT ![socket[s].peer].connections = @ - 1]
    /\ listeners' = [listeners EXCEPT ![ListenerOf(socket[s].kind)] = @ - 1]
    /\ UNCHANGED <<slots, headerSlots, service>>

DropLeasePermit(s) ==
    /\ socket[s].at = "uncounted"
    /\ socket' = [socket EXCEPT ![s] = NoSocket]
    /\ slots' = [slots EXCEPT !.connections = @ + 1]
    /\ UNCHANGED <<peers, listeners, headerSlots, service>>

-----------------------------------------------------------------------------
(* Shutdown, or a fatal accept error of the TCP listener: nothing more is  *)
(* accepted.  (Only on shutdown are the connections told; either way they  *)
(* have until the drain timeout.)                                          *)
StopAccepting(x) ==
    /\ service[x] = "open"
    /\ service' = [service EXCEPT ![x] = "draining"]
    /\ UNCHANGED <<socket, peers, listeners, slots, headerSlots>>

OfService(x) == {s \in Sockets : socket[s].at # "none" /\ ServiceOf(socket[s].kind) = x}
InTask == {"handshake", "serving", "finishing", "wait_tunnel"}

(* The drain timeout: the remaining tasks are aborted.  An aborted task    *)
(* that waits for its tunnel drops the handle, which aborts the tunnel;    *)
(* one that has not handed its socket over drops the socket.               *)
\* Mutant of DrainTimeout: the remaining tasks are left alone.
DrainTimeoutWithoutAbort(x) ==
    /\ service[x] = "draining"
    /\ service' = [service EXCEPT ![x] = "stopped"]
    /\ UNCHANGED <<socket, peers, listeners, slots, headerSlots>>

DrainTimeout(x) ==
    /\ service[x] = "draining"
    /\ \A s \in OfService(x) : ~socket[s].swapped
    /\ service' = [service EXCEPT ![x] = "stopped"]
    /\ socket' = [s \in Sockets |->
        IF s \in OfService(x) /\ socket[s].at \in InTask
        THEN Ended(s, IF socket[s].tunnel # "none" THEN "aborted" ELSE "none")[s]
        ELSE socket[s]]
    /\ headerSlots' = IF x = "h3" THEN HeaderBudget ELSE headerSlots
    /\ UNCHANGED <<peers, listeners, slots>>

Release(s) ==
    EstablishedCounts(s) \/ UpgradedEnds(s) \/ DropLeaseBegin(s) \/ DropLeaseCounts(s)
    \/ DropLeasePermit(s)

ConnectionsNext ==
    \/ \E s \in Sockets :
        \/ AcceptTcp(s) \/ AcceptQuic(s) \/ HandshakeDone(s) \/ HandshakeFails(s) \/ TcpRequest(s) \/ H3Stream(s)
        \/ H3Resolved(s, TRUE) \/ H3Resolved(s, FALSE) \/ RequestDone(s)
        \/ Upgrade(s) \/ UpgradeFlushed(s) \/ ConnectionEnds(s) \/ Release(s)
    \/ \E x \in Services : StopAccepting(x) \/ DrainTimeout(x)

ConnectionsSpec == ConnectionsInit /\ [][ConnectionsNext]_connectionsVars

(* Dropping what is dropped, and the drain timer, run to their end; when   *)
(* an aborted or orphaned tunnel ends is up to the runtime, which polls it.*)
ConnectionsFairness ==
    /\ \A s \in Sockets :
        WF_connectionsVars((socket[s].at # "wait_tunnel" /\ UpgradedEnds(s)) \/ EstablishedCounts(s)
                           \/ DropLeaseBegin(s) \/ DropLeaseCounts(s) \/ DropLeasePermit(s))
    /\ \A x \in Services : WF_connectionsVars(DrainTimeout(x))

-----------------------------------------------------------------------------
Alive == {s \in Sockets : socket[s].at # "none"}
Counted == {s \in Alive : socket[s].at # "uncounted"}
Pending == {s \in Counted : socket[s].flag \/ socket[s].swapped}

(* Every count is exactly what the connections alive account for, and      *)
(* within its limit, however establishing, cancelling, upgrading and       *)
(* dropping interleave: a permit is neither lost nor returned twice, so no *)
(* client address or listener stays refused, and no entry that a drop      *)
(* unwraps is missing.                                                     *)
AdmissionCounted ==
    /\ \A p \in Peers :
        /\ peers[p].connections = Cardinality({s \in Counted : socket[s].peer = p})
        /\ peers[p].pending = Cardinality({s \in Pending : socket[s].peer = p})
        /\ peers[p].connections <= PerIp /\ peers[p].pending <= PendingPerIp
    /\ \A l \in AddressesServed :
        /\ listeners[l] = Cardinality({s \in Counted : ListenerOf(socket[s].kind) = l})
        /\ listeners[l] <= PerListener
    /\ slots.connections = MaxConnections - Cardinality(Alive)
    /\ slots.pending = MaxPending - Cardinality(Pending)
    /\ headerSlots + Cardinality({h \in Sockets \X (1..MaxStreams) : h[2] <= socket[h[1]].headers})
         = HeaderBudget

(* Drain: a service that stops accepting releases every connection within  *)
(* its timeout, idle, busy, in its handshake or upgraded.                  *)
DrainCompletes ==
    \A x \in Services : service[x] = "draining" ~> OfService(x) = {}
=============================================================================
