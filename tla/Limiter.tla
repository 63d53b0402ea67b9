------------------------------- MODULE Limiter ------------------------------
(***************************************************************************)
(* Rate and concurrency limits of routes and namespaces (traffic.rs).      *)
(*                                                                         *)
(* A Limiter keeps buckets by key in one bounded table.  acquire reads the *)
(* clock before it takes the lock of the table, so two requests may enter  *)
(* in the other order than they read it.                                   *)
(***************************************************************************)
EXTENDS Naturals, FiniteSets

CONSTANTS
    Users,              \* requests in flight
    Keys,               \* values of the key (route, ip, header, cookie, claim)
    Capacity,           \* of the table of buckets
    Burst, PerSecond,   \* Rate
    Limit,              \* Concurrency
    Idle,               \* 60 s: how long an unused bucket is kept at least
    MaxTime             \* bound: the clock

ASSUME LimiterAssumption ==
    /\ IsFiniteSet(Users) /\ IsFiniteSet(Keys)
    /\ {Capacity, Burst, PerSecond, Limit, Idle, MaxTime} \subseteq Nat \ {0}

VARIABLES
    now,            \* the clock
    buckets,        \* [kind, key] -> Bucket, for those in the table
    user,           \* user -> its request
    granted,        \* history: key -> requests the rate has admitted
    last,           \* history: the clock of the last request to enter
    skew            \* history: by how much that clock went back, in all

limiterVars == <<now, buckets, user, granted, last, skew>>

LimitKinds == {"concurrency", "rate"}
Ids == LimitKinds \X Keys
Waiting == [at |-> "new", key |-> CHOOSE k \in Keys : TRUE, policy |-> {}, seen |-> 0,
            permit |-> FALSE]

LimiterInit ==
    /\ now = 1
    /\ buckets = [i \in {} |-> 0]
    /\ user = [u \in Users |-> Waiting]
    /\ granted = [k \in Keys |-> 0] /\ last = 0 /\ skew = 0

-----------------------------------------------------------------------------
(***************************************************************************)
(* Limiter::acquire.                                                       *)
(***************************************************************************)
(* The clock is read outside the lock.                                     *)
Measure(u) ==
    /\ user[u].at = "new"
    /\ \E k \in Keys, p \in SUBSET LimitKinds :
        /\ p # {}
        /\ user' = [user EXCEPT ![u] = [at |-> "enter", key |-> k, policy |-> p,
                                       seen |-> now, permit |-> FALSE]]
    /\ UNCHANGED <<now, buckets, granted, last, skew>>

(* Duration since, which is zero for an instant that has not come yet.     *)
Since(seen, touched) == IF seen > touched THEN seen - touched ELSE 0
Least(a, b) == IF a < b THEN a ELSE b

(* Only a full table is swept, of idle buckets without permits.            *)
\* Mutant of Swept: age alone decides.
SweptByAge(table, seen) ==
    IF Cardinality(DOMAIN table) < Capacity THEN table
    ELSE [i \in {i \in DOMAIN table : Since(seen, table[i].touched) < Idle} |-> table[i]]

\* Mutant of Swept: an unused bucket goes at once.
SweptAtOnce(table, seen) ==
    IF Cardinality(DOMAIN table) < Capacity THEN table
    ELSE [i \in {i \in DOMAIN table : table[i].active > 0} |-> table[i]]

Swept(table, seen) ==
    IF Cardinality(DOMAIN table) < Capacity THEN table
    ELSE [i \in {i \in DOMAIN table :
                    table[i].active > 0 \/ Since(seen, table[i].touched) < Idle} |-> table[i]]

Fits(table, i) == i \in DOMAIN table \/ Cardinality(DOMAIN table) < Capacity
With(table, i, b) == [j \in DOMAIN table \cup {i} |-> IF j = i THEN b ELSE table[j]]
Entry(table, i, tokens, seen) ==
    IF i \in DOMAIN table THEN table[i] ELSE [tokens |-> tokens, active |-> 0, touched |-> seen]

(* The bucket of a rate when a request looks at it: refilled up to Burst.  *)
Refilled(b, seen) ==
    [tokens |-> Least(b.tokens + Since(seen, b.touched) * PerSecond, Burst),
     active |-> b.active, touched |-> seen]

(* The stages of the locked section for request r: its concurrency bucket  *)
(* is in the table, its rate bucket is refilled and pays, and the permit   *)
(* is counted.                                                             *)
ConcurrencyId(r) == <<"concurrency", r.key>>
RateId(r) == <<"rate", r.key>>
Inserted(table, r) ==
    IF "concurrency" \notin r.policy THEN table
    ELSE With(table, ConcurrencyId(r), Entry(table, ConcurrencyId(r), 0, r.seen))
RateBucket(table, r) == Refilled(Entry(table, RateId(r), Burst, r.seen), r.seen)
Pays(b) == [b EXCEPT !.tokens = IF @ >= 1 THEN @ - 1 ELSE @]
Paid(table, r) ==
    IF "rate" \notin r.policy THEN table ELSE With(table, RateId(r), Pays(RateBucket(table, r)))
PermitAdded(b, seen) == [tokens |-> b.tokens, active |-> b.active + 1, touched |-> seen]
Admitted(table, r) ==
    IF "concurrency" \notin r.policy THEN table
    ELSE [table EXCEPT ![ConcurrencyId(r)] = PermitAdded(@, r.seen)]

(* The locked section: the table it leaves, and the status or "ok".  A     *)
(* refused request keeps what it has inserted and refilled.                *)
Acquired(r) ==
    LET swept == Swept(buckets, r.seen)
        inserted == Inserted(swept, r)
        paid == Paid(inserted, r)
    IN CASE "concurrency" \in r.policy /\ ~Fits(swept, ConcurrencyId(r)) ->
                [table |-> swept, result |-> "full"]
         [] "concurrency" \in r.policy /\ inserted[ConcurrencyId(r)].active >= Limit ->
                [table |-> inserted, result |-> "busy"]
         [] "rate" \in r.policy /\ ~Fits(inserted, RateId(r)) ->
                [table |-> inserted, result |-> "full"]
         [] "rate" \in r.policy /\ RateBucket(inserted, r).tokens < 1 ->
                [table |-> paid, result |-> "limited"]
         [] OTHER -> [table |-> Admitted(paid, r), result |-> "ok"]

Enter(u) ==
    LET r == user[u]
        acquired == Acquired(r)
    IN
    /\ r.at = "enter"
    /\ buckets' = acquired.table
    /\ user' = [user EXCEPT ![u] =
        IF acquired.result # "ok" THEN Waiting
        ELSE [at |-> "admitted", key |-> r.key, policy |-> r.policy, seen |-> 0,
              permit |-> "concurrency" \in r.policy]]
    /\ granted' = [granted EXCEPT ![r.key] =
        IF "rate" \in r.policy /\ acquired.result = "ok" THEN @ + 1 ELSE @]
    /\ last' = r.seen
    /\ skew' = skew + Since(last, r.seen)
    /\ UNCHANGED now

(* Permit::drop.                                                           *)
PermitReturned(b) ==
    [tokens |-> b.tokens, active |-> IF b.active > 0 THEN b.active - 1 ELSE 0, touched |-> now]
Returned(u) ==
    LET c == ConcurrencyId(user[u]) IN
    IF user[u].permit /\ c \in DOMAIN buckets
    THEN [buckets EXCEPT ![c] = PermitReturned(@)]
    ELSE buckets

Leave(u) ==
    /\ user[u].at = "admitted"
    /\ buckets' = Returned(u)
    /\ user' = [user EXCEPT ![u] = Waiting]
    /\ UNCHANGED <<now, granted, last, skew>>

LimiterTick ==
    /\ now < MaxTime
    /\ now' = now + 1
    /\ UNCHANGED <<buckets, user, granted, last, skew>>

LimiterNext ==
    \/ \E u \in Users : Measure(u) \/ Enter(u) \/ Leave(u)
    \/ LimiterTick

LimiterSpec == LimiterInit /\ [][LimiterNext]_limiterVars

-----------------------------------------------------------------------------
(* A bucket counts exactly the requests that hold a permit of its key, up  *)
(* to the limit: it is never swept from under them.                        *)
PermitsCounted ==
    \A k \in Keys :
        LET held == Cardinality({u \in Users : user[u].permit /\ user[u].key = k})
            i == <<"concurrency", k>>
        IN held <= Limit /\ (IF i \in DOMAIN buckets THEN buckets[i].active = held ELSE held = 0)

(* The token bucket: a key is granted at most Burst requests and PerSecond *)
(* more in every second, from the start and, as no bucket holds more than  *)
(* Burst, from any moment on, whatever is swept and in whatever order      *)
(* requests enter.  Two caveats of the code are part of the statement: a   *)
(* swept bucket starts over full, which is no more than it would have been *)
(* if it refills within Idle; and a request that read the clock before     *)
(* another but enters after it sets the clock of a bucket back, or starts  *)
(* one over in the past, so that this stretch is counted again.            *)
RateBound ==
    /\ \A i \in DOMAIN buckets : buckets[i].tokens <= Burst
    /\ Burst <= Idle * PerSecond =>
        \A k \in Keys : granted[k] <= Burst + PerSecond * ((now - 1) + skew)
=============================================================================
