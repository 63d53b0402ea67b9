---------------------------- MODULE UpstreamPool ----------------------------
(***************************************************************************)
(* The worker-scoped HTTP/1 pools of the Hyper engine                      *)
(* (proxy/hyper/inline.rs).  A connection is driven by the exchange that   *)
(* uses it; between exchanges it lies idle in the bucket of its address,   *)
(* each idle one holding a permit of the budget all pools share.           *)
(***************************************************************************)
EXTENDS Naturals, Sequences, FiniteSets

CONSTANTS
    Pools,              \* Clients (one per worker and backend)
    Origins,            \* upstream addresses
    Exchanges,          \* requests in flight
    Links,              \* upstream connections alive at a time
    Maximum,            \* idle connections per address
    IdleBudget,         \* idle connections of the process
    Keepalive,
    MaxPoolTime         \* bound: the clock

ASSUME UpstreamPoolAssumption ==
    /\ IsFiniteSet(Links) /\ IsFiniteSet(Exchanges) /\ "none" \notin Links
    /\ Pools # {} /\ Origins # {}
    /\ {Maximum, IdleBudget, Keepalive, MaxPoolTime} \subseteq Nat

VARIABLES
    idle,           \* pool -> address -> sequence of [link, expires]
    permits,        \* free permits of the IdlePoolBudget
    exchange,       \* request -> its Exchange
    link,           \* connection -> "none", "open", or "closed" (by the upstream)
    poolTime

poolVars == <<idle, permits, exchange, link, poolTime>>

NoLink == "none"
Unstarted == [at |-> "new", pool |-> CHOOSE p \in Pools : TRUE,
              origin |-> CHOOSE o \in Origins : TRUE, link |-> NoLink, since |-> 0]

UpstreamPoolInit ==
    /\ idle = [p \in Pools |-> [o \in Origins |-> <<>>]]
    /\ permits = IdleBudget
    /\ exchange = [x \in Exchanges |-> Unstarted]
    /\ link = [l \in Links |-> "none"]
    /\ poolTime = 1

-----------------------------------------------------------------------------
Begin(x) ==
    /\ exchange[x].at = "new"
    /\ \E p \in Pools, o \in Origins :
        exchange' = [exchange EXCEPT ![x] = [Unstarted EXCEPT !.at = "checkout", !.pool = p,
                                                              !.origin = o, !.since = poolTime]]
    /\ UNCHANGED <<idle, permits, link, poolTime>>

(* Client::checkout, one turn of its loop: the newest idle connection of   *)
(* the address is taken, with its permit returned, and used if it has not  *)
(* expired and polling it finds it open.                                   *)
Checkout(x) ==
    LET e == exchange[x]
        entries == idle[e.pool][e.origin]
        newest == entries[Len(entries)]
        usable == newest.expires > e.since /\ link[newest.link] = "open"
    IN
    /\ e.at = "checkout" /\ entries # <<>>
    /\ idle' = [idle EXCEPT ![e.pool][e.origin] = SubSeq(entries, 1, Len(entries) - 1)]
    /\ permits' = permits + 1
    /\ exchange' = IF usable
                   THEN [exchange EXCEPT ![x].at = "sent", ![x].link = newest.link, ![x].since = 0]
                   ELSE exchange
    /\ link' = IF usable THEN link ELSE [link EXCEPT ![newest.link] = "none"]
    /\ UNCHANGED poolTime

(* No idle connection is left: a new one, which may fail.                  *)
Connect(x) ==
    /\ exchange[x].at = "checkout" /\ idle[exchange[x].pool][exchange[x].origin] = <<>>
    /\ \/ \E l \in Links :
            /\ link[l] = "none"
            /\ link' = [link EXCEPT ![l] = "open"]
            /\ exchange' = [exchange EXCEPT ![x].at = "sent", ![x].link = l, ![x].since = 0]
       \/ exchange' = [exchange EXCEPT ![x] = Unstarted] /\ UNCHANGED link
    /\ UNCHANGED <<idle, permits, poolTime>>

-----------------------------------------------------------------------------
(***************************************************************************)
(* Client::put.  A full budget costs this pool its oldest idle connection, *)
(* whatever its address; without one, or with a full bucket, the           *)
(* connection itself is dropped.                                           *)
(***************************************************************************)
Places(p) == {a \in Origins \X (1..Maximum) : a[2] <= Len(idle[p][a[1]])}
Oldest(p) ==
    CHOOSE a \in Places(p) :
        \A b \in Places(p) : idle[p][a[1]][a[2]].expires <= idle[p][b[1]][b[2]].expires

(* swap_remove: the last entry takes the place of the removed one.         *)
SwapRemove(seq, i) ==
    [j \in 1..(Len(seq) - 1) |-> IF j = i THEN seq[Len(seq)] ELSE seq[j]]

Put(p, o, l) ==
    IF Maximum = 0 \/ Keepalive = 0 \/ link[l] # "open"
    THEN [idle |-> idle, permits |-> permits, dropped |-> {l}]
    ELSE LET evicts == permits = 0 /\ Places(p) # {}
             at == Oldest(p)
             room == IF evicts THEN [idle EXCEPT ![p][at[1]] = SwapRemove(@, at[2])] ELSE idle
             free == IF evicts THEN permits + 1 ELSE permits
             gone == IF evicts THEN {idle[p][at[1]][at[2]].link} ELSE {}
             entry == [link |-> l, expires |-> poolTime + Keepalive]
         IN IF free = 0 \/ Len(room[p][o]) >= Maximum
            THEN [idle |-> room, permits |-> free, dropped |-> gone \cup {l}]
            ELSE [idle |-> [room EXCEPT ![p][o] = Append(@, entry)], permits |-> free - 1,
                  dropped |-> gone]

Pooled(put) ==
    /\ idle' = put.idle
    /\ permits' = put.permits
    /\ link' = [l \in Links |-> IF l \in put.dropped THEN "none" ELSE link[l]]

(* Client::request when the response head has come.  A connection that has *)
(* finished its framing is put back at once; otherwise it goes with the    *)
(* body, which is put back at its end.                                     *)
\* Mutant of Respond: the body keeps the connection that was put back.
RespondKeepsExchange(x) ==
    /\ exchange[x].at = "sent"
    /\ exchange' = [exchange EXCEPT ![x].at = "body"]
    /\ \/ Pooled(Put(exchange[x].pool, exchange[x].origin, exchange[x].link))
       \/ UNCHANGED <<idle, permits, link>>
    /\ UNCHANGED poolTime

Respond(x) ==
    /\ exchange[x].at = "sent"
    /\ \/ /\ Pooled(Put(exchange[x].pool, exchange[x].origin, exchange[x].link))
          /\ exchange' = [exchange EXCEPT ![x] = Unstarted]
       \/ /\ exchange' = [exchange EXCEPT ![x].at = "body"]
          /\ UNCHANGED <<idle, permits, link>>
    /\ UNCHANGED poolTime

(* InlineBody: at the end of the stream the connection is polled and put   *)
(* back if it is still open.                                               *)
BodyEnds(x) ==
    /\ exchange[x].at = "body"
    /\ Pooled(Put(exchange[x].pool, exchange[x].origin, exchange[x].link))
    /\ exchange' = [exchange EXCEPT ![x] = Unstarted]
    /\ UNCHANGED poolTime

(* The request or its body fails or is dropped, and the connection with it.*)
ExchangeFails(x) ==
    /\ exchange[x].at \in {"sent", "body"}
    /\ link' = [link EXCEPT ![exchange[x].link] = "none"]
    /\ exchange' = [exchange EXCEPT ![x] = Unstarted]
    /\ UNCHANGED <<idle, permits, poolTime>>

(* The upstream closes a connection, idle or in use.                       *)
UpstreamCloses(l) ==
    /\ link[l] = "open"
    /\ link' = [link EXCEPT ![l] = "closed"]
    /\ UNCHANGED <<idle, permits, exchange, poolTime>>

(* The cleanup task of a pool: retain keeps, in their order, the entries   *)
(* at the positions that have not expired.                                 *)
Nth(positions, n) == CHOOSE i \in positions : Cardinality({j \in positions : j <= i}) = n
Retained(seq, positions) == [n \in 1..Cardinality(positions) |-> seq[Nth(positions, n)]]

Unexpired(seq) == {i \in 1..Len(seq) : seq[i].expires > poolTime}

Cleanup(p) ==
    LET expired == {a \in Places(p) : idle[p][a[1]][a[2]].expires <= poolTime}
    IN
    /\ expired # {}
    /\ idle' = [idle EXCEPT ![p] = [o \in Origins |-> Retained(idle[p][o], Unexpired(idle[p][o]))]]
    /\ permits' = permits + Cardinality(expired)
    /\ link' = [l \in Links |-> IF \E a \in expired : idle[p][a[1]][a[2]].link = l THEN "none" ELSE link[l]]
    /\ UNCHANGED <<exchange, poolTime>>

PoolTick ==
    /\ poolTime < MaxPoolTime
    /\ poolTime' = poolTime + 1
    /\ UNCHANGED <<idle, permits, exchange, link>>

UpstreamPoolNext ==
    \/ \E x \in Exchanges :
        Begin(x) \/ Checkout(x) \/ Connect(x) \/ Respond(x) \/ BodyEnds(x) \/ ExchangeFails(x)
    \/ \E l \in Links : UpstreamCloses(l)
    \/ \E p \in Pools : Cleanup(p)
    \/ PoolTick

UpstreamPoolSpec == UpstreamPoolInit /\ [][UpstreamPoolNext]_poolVars

-----------------------------------------------------------------------------
EntriesOf(p, o) == {<<p, o, i>> : i \in 1..Len(idle[p][o])}
IdleEntries == UNION {EntriesOf(p, o) : p \in Pools, o \in Origins}
LinkAt(e) == idle[e[1]][e[2]][e[3]].link
InUseBy(l) == {x \in Exchanges : exchange[x].link = l}

(* A connection is used by one exchange or lies in one place of one pool,  *)
(* so that no two requests ever share one; every live connection is in one *)
(* of the two; and the idle ones are exactly the permits taken from the    *)
(* budget, at most Maximum to an address.                                  *)
ConnectionsExclusive ==
    /\ \A l \in Links :
        Cardinality(InUseBy(l)) + Cardinality({e \in IdleEntries : LinkAt(e) = l})
            = IF link[l] = "none" THEN 0 ELSE 1
    /\ permits + Cardinality(IdleEntries) = IdleBudget
    /\ \A p \in Pools, o \in Origins : Len(idle[p][o]) <= Maximum
=============================================================================
