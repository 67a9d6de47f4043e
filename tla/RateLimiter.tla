---------------------------- MODULE RateLimiter ----------------------------
(***************************************************************************)
(* The token buckets of core/rate_limit.py, as the gateway's endpoints and *)
(* the MCP server use them.  A caller's bucket is kept in Redis, where a   *)
(* script refills it, spends from it and renews its expiry in one step,    *)
(* and is shared by the replicas.  When Redis fails, a check is made on a  *)
(* bucket of the replica's own, of which it keeps a bounded number and     *)
(* drops the least recently used.                                          *)
(*                                                                         *)
(* A token is 60 units, so that a rate of r requests per minute refills r  *)
(* units a second; seconds are the steps of the clock.                     *)
(***************************************************************************)
EXTENDS Naturals, FiniteSets, Sequences, SequencesExt

CONSTANTS
    Replicas,
    Callers,          \* key ids and peer addresses
    KeyHolders,       \* the callers that present a key
    Override,         \* rate_limit_rpm of a key holder's tenant, or NoOverride
    NoOverride,
    AuthenticatedRpm, AnonymousRpm, BurstSeconds,
    TtlFloor,         \* 3600 in the script
    MaxTracked,       \* buckets a replica keeps
    Watched,          \* the callers whose admissions and refusals are recorded
    MaxFaults,        \* bound on Redis errors, resets and restarts
    MaxTime

VARIABLES
    now,
    shared,      \* caller -> its bucket in Redis
    expired,     \* callers whose last bucket in Redis expired
    local,       \* replica -> caller -> bucket
    order,       \* replica -> its tracked callers, least recently used first
    faults,      \* Redis errors, resets and restarts so far
    window,      \* history: a watched caller's admissions since some moment, and the
                 \* buckets it had, at each place
    promise      \* history: the last Retry-After a watched caller was told

vars == <<now, shared, expired, local, order, faults, window, promise>>

Token == 60
NoBucket == [tokens |-> 0, last |-> 0, live |-> FALSE]
NoPromise == [due |-> 0, at |-> "none"]
Redis == "redis"
Places == Replicas \union {Redis}

ASSUME RateAssumption ==
    /\ KeyHolders \subseteq Callers
    /\ \A c \in KeyHolders : Override[c] \in Nat \union {NoOverride}
    /\ {AuthenticatedRpm, AnonymousRpm, BurstSeconds, TtlFloor, MaxFaults, MaxTime} \subseteq Nat
    /\ MaxTracked \in Nat \ {0}
    /\ Watched \subseteq Callers
    /\ Redis \notin Replicas /\ "none" \notin Replicas

MaxOf(a, b) == IF a >= b THEN a ELSE b
MinOf(a, b) == IF a <= b THEN a ELSE b
CeilDiv(a, b) == (a + b - 1) \div b

\* _enforce_rate_limit: a tenant's override replaces the tier's rate, for key
\* holders only.
Rpm(c) ==
    IF c \notin KeyHolders THEN AnonymousRpm
    ELSE IF Override[c] = NoOverride THEN AuthenticatedRpm ELSE Override[c]

\* bucket_parameters: the burst, and never less than one token.
Capacity(c) == MaxOf(Token, Rpm(c) * BurstSeconds)

\* A rate of zero switches the limit off.
Unlimited(c) == Rpm(c) = 0

\* The bucket when it is looked at: new, or refilled for the time since.
Refilled(b, c) ==
    IF ~b.live THEN [tokens |-> Capacity(c), last |-> now, live |-> TRUE]
    ELSE IF now > b.last
         THEN [tokens |-> MinOf(Capacity(c), b.tokens + (now - b.last) * Rpm(c)),
               last |-> now, live |-> TRUE]
    ELSE b

Admits(b, c) == Refilled(b, c).tokens >= Token
Spent(b, c) ==
    LET full == Refilled(b, c)
    IN  IF full.tokens >= Token THEN [full EXCEPT !.tokens = @ - Token] ELSE full

\* Mutant: the wait is rounded down.
RetryAfterFloored(b, c) == MaxOf(1, (Token - Refilled(b, c).tokens) \div Rpm(c))

\* The Retry-After header: int(seconds + 0.999), and at least 1.
RetryAfter(b, c) ==
    LET deficit == Token - Refilled(b, c).tokens
    IN  MaxOf(1, (1000 * deficit + 999 * Rpm(c)) \div (1000 * Rpm(c)))

\* Mutant: the key expires when the bucket might still be filling.
TtlShort(c) == 1

\* EXPIRE: twice the time a bucket takes to fill.
Ttl(c) == MaxOf(TtlFloor, 2 * CeilDiv(Capacity(c), Rpm(c)))

-----------------------------------------------------------------------------
Tracked(r) == {c \in Callers : local[r][c].live}

TypeOK ==
    /\ now \in 0 .. MaxTime
    /\ \A c \in Callers :
          /\ shared[c].tokens \in 0 .. Capacity(c)
          /\ shared[c].last <= now
    /\ \A c \in Watched :
          /\ window[c] \in [from: 0 .. now, granted: [Places -> Nat], lives: [Places -> Nat]]
          /\ promise[c] \in [due: Nat, at: Places \union {"none"}]
    /\ expired \subseteq Callers
    /\ faults \in 0 .. MaxFaults
    /\ \A r \in Replicas :
          /\ \A c \in Callers : local[r][c].tokens \in 0 .. Capacity(c)
          /\ ToSet(order[r]) = Tracked(r)
          /\ Len(order[r]) = Cardinality(Tracked(r))
          /\ Len(order[r]) <= MaxTracked

Init ==
    /\ now = 0
    /\ shared = [c \in Callers |-> NoBucket]
    /\ expired = {}
    /\ local = [r \in Replicas |-> [c \in Callers |-> NoBucket]]
    /\ order = [r \in Replicas |-> <<>>]
    /\ faults = 0
    /\ window = [c \in Watched |-> [from |-> 0, granted |-> [at \in Places |-> 0],
                                    lives |-> [at \in Places |-> 0]]]
    /\ promise = [c \in Watched |-> NoPromise]

Fault == faults < MaxFaults /\ faults' = faults + 1
Count(condition) == IF condition THEN 1 ELSE 0

\* A bucket in Redis that starts anew although the last one did not expire, and
\* one that starts anew in a replica.
FreshShared(c) == ~shared[c].live /\ c \notin expired
MadeShared(c) == IF FreshShared(c) THEN {Redis} ELSE {}
MadeLocal(r, c) == IF local[r][c].live THEN {} ELSE {r}

\* What the caller is told by the bucket b at a place, and the buckets that were
\* made for it.
Told(c, b, at, made) ==
    IF c \notin Watched THEN UNCHANGED <<window, promise>>
    ELSE /\ window' = [window EXCEPT ![c] =
                         [from |-> @.from,
                          granted |-> [p \in Places |-> @.granted[p] + Count(p = at /\ Admits(b, c))],
                          lives |-> [p \in Places |-> @.lives[p] + Count(p \in made)]]]
         /\ promise' = [promise EXCEPT ![c] =
                          IF Admits(b, c) THEN NoPromise
                          ELSE [due |-> now + RetryAfter(b, c), at |-> at]]

\* RedisRateLimiter.check: the script.
CheckRedis(c) ==
    /\ ~Unlimited(c)
    /\ shared' = [shared EXCEPT ![c] = Spent(@, c)]
    /\ expired' = expired \ {c}
    /\ Told(c, shared[c], Redis, MadeShared(c))
    /\ UNCHANGED <<now, local, order, faults>>

\* LocalRateLimiter.check, with _evict_if_needed: the caller moves to the end,
\* and a new one pushes out the first.
TouchedOrder(r, c) ==
    LET touched == Append(Remove(order[r], c), c)
    IN  IF Len(touched) > MaxTracked THEN Tail(touched) ELSE touched

CheckLocal(r, c) ==
    /\ local' = [local EXCEPT ![r] = [d \in Callers |->
                   IF d = c THEN Spent(@[c], c)
                   ELSE IF d \in ToSet(TouchedOrder(r, c)) THEN @[d] ELSE NoBucket]]
    /\ order' = [order EXCEPT ![r] = TouchedOrder(r, c)]

\* A Redis call that raises: the script did not run, or its answer was lost.
CheckFallback(r, c) ==
    /\ Fault
    /\ ~Unlimited(c)
    /\ CheckLocal(r, c)
    /\ \/ /\ Told(c, local[r][c], r, MadeLocal(r, c))
          /\ UNCHANGED <<shared, expired>>
       \/ /\ Told(c, local[r][c], r, MadeLocal(r, c) \union MadeShared(c))
          /\ shared' = [shared EXCEPT ![c] = Spent(@, c)]
          /\ expired' = expired \ {c}
    /\ UNCHANGED now

\* Redis drops a key once its time has passed since the last check.
Expire(c) ==
    /\ shared[c].live
    /\ now >= shared[c].last + Ttl(c)
    /\ shared' = [shared EXCEPT ![c] = NoBucket]
    /\ expired' = expired \union {c}
    /\ UNCHANGED <<now, local, order, faults, window, promise>>

ClearLocal(r) ==
    /\ local' = [local EXCEPT ![r] = [c \in Callers |-> NoBucket]]
    /\ order' = [order EXCEPT ![r] = <<>>]

\* reset: the replica's buckets and, as far as Redis answers, the shared ones.
Reset(r) ==
    /\ ClearLocal(r)
    /\ \E deleted \in SUBSET Callers :
          /\ shared' = [c \in Callers |-> IF c \in deleted THEN NoBucket ELSE shared[c]]
          /\ expired' = expired \ deleted
    /\ Fault
    /\ UNCHANGED <<now, window, promise>>

\* A replica starts again and builds its limiter anew.
Restart(r) ==
    /\ ClearLocal(r)
    /\ Fault
    /\ UNCHANGED <<now, shared, expired, window, promise>>

Tick ==
    /\ now < MaxTime
    /\ now' = now + 1
    /\ UNCHANGED <<shared, expired, local, order, faults, window, promise>>

\* Somebody starts counting a caller's admissions: its buckets are as they are.
OpenWindow(c) ==
    /\ window' = [window EXCEPT ![c] =
                    [from |-> now, granted |-> [at \in Places |-> 0],
                     lives |-> [at \in Places |->
                                  Count(IF at = Redis THEN ~FreshShared(c) ELSE local[at][c].live)]]]
    /\ UNCHANGED <<now, shared, expired, local, order, faults, promise>>

Next ==
    \/ \E c \in Callers :
          \/ CheckRedis(c)
          \/ \E r \in Replicas : CheckFallback(r, c)
          \/ Expire(c)
          \/ c \in Watched /\ OpenWindow(c)
    \/ \E r \in Replicas : Reset(r) \/ Restart(r)
    \/ Tick

Spec == Init /\ [][Next]_vars

-----------------------------------------------------------------------------
\* The limit itself, over any window of time: the requests a caller was admitted
\* by Redis, and by each replica's fallback, are paid by the buckets it had there,
\* each full once and refilled at its rate, whatever answers were lost between the
\* two.  Only a lost bucket (eviction, reset, restart, a key that was never there)
\* is one more; a key that expired is none.
WindowBounded ==
    \A c \in Watched, at \in Places :
        LET w == window[c] IN
        w.granted[at] * Token <= w.lives[at] * (Capacity(c) + (now - w.from) * Rpm(c))

\* A refused caller that waits as long as it was told, and asks where it was
\* refused, is admitted.
RetryAfterHonest ==
    \A c \in Watched :
        LET b == IF promise[c].at = Redis THEN shared[c] ELSE local[promise[c].at][c] IN
        promise[c].at # "none" /\ now >= promise[c].due => Admits(b, c)
=============================================================================
