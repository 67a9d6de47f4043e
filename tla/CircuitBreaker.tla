--------------------------- MODULE CircuitBreaker ---------------------------
(***************************************************************************)
(* One judge breaker of core/circuit_breaker.py, shared by every replica   *)
(* of the gateway through Redis, with the process-local mirror each        *)
(* replica falls back to when a Redis call raises.                         *)
(*                                                                         *)
(* A caller is a thread of one replica that asks is_open(), calls the      *)
(* judge backend when it is let through, and records the outcome           *)
(* (core/semantic_judge.py, llama_guard_arbitration of core/risk.py).      *)
(* The callers in Unchecked are output_judge: they call the backend and    *)
(* record outcomes without asking is_open() first.                         *)
(*                                                                         *)
(* Time is kept as ages: the age of a timestamp is now minus it, Unset     *)
(* when the code holds None or the Redis key is absent.  An age is kept    *)
(* only as far as the code can tell it apart: a mirror's up to Cooldown,   *)
(* the Redis key's up to its expiry.  Counters stop at FailureThreshold,   *)
(* the only value they are compared with.                                  *)
(***************************************************************************)
EXTENDS Integers, FiniteSets

CONSTANTS
    Replicas,          \* gateway processes
    Callers,           \* request threads and background tasks
    Home,              \* the replica each caller runs in
    Unchecked,         \* callers that never consult is_open()
    FailureThreshold,
    Cooldown,          \* cooldown_seconds, in ticks
    MinTtl,            \* the floor of the Redis TTL (60 seconds), in ticks
    RedisMayFail,      \* may a Redis call raise at run time?
    ClientAtStart      \* what get_redis_client() may answer: TRUE for a client

ASSUME BreakerAssumption ==
    /\ Home \in [Callers -> Replicas]
    /\ Unchecked \subseteq Callers
    /\ FailureThreshold \in Nat \ {0}
    /\ Cooldown \in Nat \ {0}
    /\ MinTtl \in Nat
    /\ RedisMayFail \in BOOLEAN
    /\ ClientAtStart \subseteq BOOLEAN
    /\ ClientAtStart # {}

VARIABLES
    openAge,      \* age of the shared opened_at key
    fails,        \* the shared failure counter (0 when the key is absent)
    failsAge,     \* ticks since the counter's EXPIRE was last refreshed
    usesRedis,    \* _redis is not None, per replica
    mirrorAge,    \* age of _local_opened_at, per replica
    mirrorFails,  \* _local_fails, per replica
    pc,           \* where each caller is
    seen,         \* opened_before, read by a caller inside is_open()
    reply,        \* the count record_failure's script returned to a caller
    streak        \* history: failures since the last success, half-open or reset

shared == <<openAge, fails, failsAge>>
mirror == <<mirrorAge, mirrorFails>>
locals == <<seen, reply>>
vars == <<shared, usesRedis, mirror, pc, locals, streak>>

Unset == -1

\* Mutant: min where the code takes max.
TtlOfMin == IF 4 * Cooldown > MinTtl THEN MinTtl ELSE 4 * Cooldown

\* _ttl = max(int(cooldown_seconds) * 4, 60)
Ttl == IF 4 * Cooldown > MinTtl THEN 4 * Cooldown ELSE MinTtl

UpTo(bound, n) == IF n > bound THEN bound ELSE n

Increment(n) == UpTo(FailureThreshold, n + 1)

\* An age as a mirror keeps it: beyond the cooldown the code sees no difference.
Mirrored(age) == UpTo(Cooldown, age)

Cooling(age) == age \in 0 .. Cooldown - 1

Checked == Callers \ Unchecked

\* Between the reply of Redis and the unlocked write of the mirror:
\*   passed, blocked    is_open() got 0 or 1
\*   succeeded          record_success() deleted the keys
\*   failed, tripped    record_failure() counted, and tripped opened the breaker
Places == {"idle", "peeked", "passed", "blocked", "calling",
           "succeeded", "failed", "tripped"}

TypeOK ==
    /\ openAge \in Unset .. Ttl - 1
    /\ fails \in 0 .. FailureThreshold
    /\ failsAge \in 0 .. Ttl - 1
    /\ usesRedis \in [Replicas -> BOOLEAN]
    /\ mirrorAge \in [Replicas -> Unset .. Cooldown]
    /\ mirrorFails \in [Replicas -> 0 .. FailureThreshold]
    /\ pc \in [Callers -> Places]
    /\ seen \in [Callers -> Unset .. Cooldown]
    /\ reply \in [Callers -> 0 .. FailureThreshold]
    /\ streak \in 0 .. FailureThreshold

-----------------------------------------------------------------------------
\* CircuitBreaker.__init__ and _build: every breaker starts closed; the Redis
\* client is chosen once, at start-up.
Init ==
    /\ openAge = Unset
    /\ fails = 0
    /\ failsAge = 0
    /\ usesRedis \in [Replicas -> ClientAtStart]
    /\ mirrorAge = [r \in Replicas |-> Unset]
    /\ mirrorFails = [r \in Replicas |-> 0]
    /\ pc = [c \in Callers |-> "idle"]
    /\ seen = [c \in Callers |-> Unset]
    /\ reply = [c \in Callers |-> 0]
    /\ streak = 0

\* A call's Redis operation goes through, or raises and the code falls back.  One
\* that raises may have taken effect before its reply was lost.
ByRedis(r) == usesRedis[r]
ByMirror(r) == usesRedis[r] => RedisMayFail
LostReply(r) == usesRedis[r] /\ RedisMayFail

SetMirror(r, age, n) ==
    /\ mirrorAge' = [mirrorAge EXCEPT ![r] = age]
    /\ mirrorFails' = [mirrorFails EXCEPT ![r] = n]

ClearShared ==
    /\ openAge' = Unset
    /\ fails' = 0
    /\ failsAge' = 0

\* record_failure's script: INCR and EXPIRE the counter and, if that reaches the
\* threshold and the breaker is not open, SET opened_at.
Opens == openAge = Unset /\ Increment(fails) >= FailureThreshold

\* Mutant: EXPIRE only when INCR created the counter.
CountSharedNoRefresh ==
    /\ fails' = Increment(fails)
    /\ failsAge' = IF fails = 0 THEN 0 ELSE failsAge
    /\ openAge' = IF Opens THEN 0 ELSE openAge

CountShared ==
    /\ fails' = Increment(fails)
    /\ failsAge' = 0
    /\ openAge' = IF Opens THEN 0 ELSE openAge

Goto(c, place) == pc' = [pc EXCEPT ![c] = place]

-----------------------------------------------------------------------------
\* is_open(), first round trip: GET opened_at into opened_before.
IsOpenPeek(c) ==
    /\ pc[c] = "idle"
    /\ c \in Checked
    /\ ByRedis(Home[c])
    /\ seen' = [seen EXCEPT ![c] = Mirrored(openAge)]
    /\ Goto(c, "peeked")
    /\ UNCHANGED <<shared, usesRedis, mirror, reply, streak>>

\* Mutant: the decision is taken from the GET, not inside the script.
IsOpenCheckStale(c) ==
    /\ pc[c] = "peeked"
    /\ ByRedis(Home[c])
    /\ Goto(c, IF Cooling(seen[c]) THEN "blocked" ELSE "passed")
    /\ IF seen[c] >= Cooldown
       THEN ClearShared /\ streak' = 0
       ELSE UNCHANGED <<shared, streak>>
    /\ UNCHANGED <<usesRedis, mirror, locals>>

\* is_open(), second round trip: the Lua check.  It lets the caller through
\* when the key is absent, clears both keys and lets it through when the
\* cooldown has elapsed (the half-open transition), and otherwise blocks it.
IsOpenCheck(c) ==
    /\ pc[c] = "peeked"
    /\ ByRedis(Home[c])
    /\ \/ /\ openAge = Unset
          /\ Goto(c, "passed")
          /\ UNCHANGED <<shared, streak>>
       \/ /\ openAge >= Cooldown
          /\ Goto(c, "passed")
          /\ ClearShared
          /\ streak' = 0
       \/ /\ Cooling(openAge)
          /\ Goto(c, "blocked")
          /\ UNCHANGED <<shared, streak>>
    /\ UNCHANGED <<usesRedis, mirror, locals>>

\* Mutant: the half-open transition is missing.
IsOpenLocalNoHalfOpen(c) ==
    /\ pc[c] \in {"idle", "peeked"}
    /\ c \in Checked
    /\ ByMirror(Home[c])
    /\ Goto(c, IF mirrorAge[Home[c]] = Unset THEN "calling" ELSE "idle")
    /\ seen' = [seen EXCEPT ![c] = Unset]
    /\ UNCHANGED <<shared, usesRedis, mirror, reply, streak>>

\* is_open() on the process-local state, under _lock: no client, or either
\* round trip raised, the second perhaps after its half-open transition.
IsOpenLocal(c) ==
    LET r == Home[c] IN
    /\ pc[c] \in {"idle", "peeked"}
    /\ c \in Checked
    /\ ByMirror(r)
    /\ \/ UNCHANGED shared
       \/ pc[c] = "peeked" /\ LostReply(r) /\ openAge >= Cooldown /\ ClearShared
    /\ \/ /\ mirrorAge[r] = Unset
          /\ Goto(c, "calling")
          /\ UNCHANGED <<mirror, streak>>
       \/ /\ mirrorAge[r] >= Cooldown
          /\ Goto(c, "calling")
          /\ SetMirror(r, Unset, 0)
          /\ streak' = 0
       \/ /\ Cooling(mirrorAge[r])
          /\ Goto(c, "idle")
          /\ UNCHANGED <<mirror, streak>>
    /\ seen' = [seen EXCEPT ![c] = Unset]
    /\ UNCHANGED <<usesRedis, reply>>

\* output_judge goes straight to the backend.
OutputJudge(c) ==
    /\ pc[c] = "idle"
    /\ c \in Unchecked
    /\ Goto(c, "calling")
    /\ UNCHANGED <<shared, usesRedis, mirror, locals, streak>>

\* Mutant: only opened_at is deleted.
RecordSuccessKeepsCount(c) ==
    /\ pc[c] = "calling"
    /\ ByRedis(Home[c])
    /\ openAge' = Unset
    /\ streak' = 0
    /\ Goto(c, "succeeded")
    /\ UNCHANGED <<fails, failsAge, usesRedis, mirror, locals>>

\* The backend answered and record_success() deleted the shared keys.
RecordSuccessRedis(c) ==
    /\ pc[c] = "calling"
    /\ ByRedis(Home[c])
    /\ ClearShared
    /\ streak' = 0
    /\ Goto(c, "succeeded")
    /\ UNCHANGED <<usesRedis, mirror, locals>>

\* Mutant: only the count is cleared.
RecordSuccessKeepsOpen(c) ==
    /\ pc[c] = "calling"
    /\ ByMirror(Home[c])
    /\ SetMirror(Home[c], mirrorAge[Home[c]], 0)
    /\ streak' = 0
    /\ Goto(c, "idle")
    /\ UNCHANGED <<shared, usesRedis, locals>>

\* The backend answered and record_success() ran on the process-local state; its
\* DELETE may have gone through.
RecordSuccessLocal(c) ==
    /\ pc[c] = "calling"
    /\ ByMirror(Home[c])
    /\ SetMirror(Home[c], Unset, 0)
    /\ \/ UNCHANGED shared
       \/ LostReply(Home[c]) /\ ClearShared
    /\ streak' = 0
    /\ Goto(c, "idle")
    /\ UNCHANGED <<usesRedis, locals>>

\* The backend failed and record_failure() ran its script.
RecordFailureRedis(c) ==
    /\ pc[c] = "calling"
    /\ ByRedis(Home[c])
    /\ CountShared
    /\ reply' = [reply EXCEPT ![c] = Increment(fails)]
    /\ streak' = Increment(streak)
    /\ Goto(c, IF Opens THEN "tripped" ELSE "failed")
    /\ UNCHANGED <<usesRedis, mirror, seen>>

\* The backend failed and record_failure() counted it in the process; the script
\* may have counted it too.
RecordFailureLocal(c) ==
    LET r == Home[c]
        n == Increment(mirrorFails[r])
        opens == mirrorAge[r] = Unset /\ n >= FailureThreshold
    IN
    /\ pc[c] = "calling"
    /\ ByMirror(r)
    /\ SetMirror(r, IF opens THEN 0 ELSE mirrorAge[r], n)
    /\ \/ UNCHANGED shared
       \/ LostReply(r) /\ CountShared
    /\ streak' = Increment(streak)
    /\ Goto(c, "idle")
    /\ UNCHANGED <<usesRedis, locals>>

\* The call ended without a record: an unrecognised answer, or a Llama Guard
\* detector that is not available().
NoRecord(c) ==
    /\ pc[c] = "calling"
    /\ Goto(c, "idle")
    /\ UNCHANGED <<shared, usesRedis, mirror, locals, streak>>

\* The reply of Redis is copied into the mirror, outside _lock, after whatever
\* the other threads of the process did meanwhile.  A blocked is_open() copies
\* the answer of its FIRST round trip.
WriteMirror(c) ==
    LET r == Home[c] IN
    /\ \/ /\ pc[c] = "passed"
          /\ SetMirror(r, Unset, mirrorFails[r])
       \/ /\ pc[c] = "blocked"
          /\ SetMirror(r, seen[c], mirrorFails[r])
       \/ /\ pc[c] = "succeeded"
          /\ SetMirror(r, Unset, 0)
       \/ /\ pc[c] = "failed"
          /\ SetMirror(r, mirrorAge[r], reply[c])
       \/ /\ pc[c] = "tripped"
          /\ SetMirror(r, 0, reply[c])
    /\ Goto(c, IF pc[c] = "passed" THEN "calling" ELSE "idle")
    /\ seen' = [seen EXCEPT ![c] = Unset]
    /\ reply' = [reply EXCEPT ![c] = 0]
    /\ UNCHANGED <<shared, usesRedis, streak>>

\* The _opened_at view read by /health and the metrics scrape: it copies the
\* shared key into the mirror and takes no half-open transition.
OpenedAtView(r) ==
    /\ ByRedis(r)
    /\ mirrorAge' = [mirrorAge EXCEPT ![r] = Mirrored(openAge)]
    /\ UNCHANGED <<shared, usesRedis, mirrorFails, pc, locals, streak>>

\* reset(), the operations hook.
Reset(r) ==
    /\ SetMirror(r, Unset, 0)
    /\ \/ ByRedis(r) /\ ClearShared
       \/ ByMirror(r) /\ UNCHANGED shared
    /\ streak' = 0
    /\ UNCHANGED <<usesRedis, pc, locals>>

\* The process dies and is started again: its mirror and its calls are gone,
\* the keys in Redis are not.
Restart(r) ==
    /\ SetMirror(r, Unset, 0)
    /\ usesRedis' \in {[usesRedis EXCEPT ![r] = client] : client \in ClientAtStart}
    /\ pc' = [c \in Callers |-> IF Home[c] = r THEN "idle" ELSE pc[c]]
    /\ seen' = [c \in Callers |-> IF Home[c] = r THEN Unset ELSE seen[c]]
    /\ reply' = [c \in Callers |-> IF Home[c] = r THEN 0 ELSE reply[c]]
    /\ UNCHANGED <<shared, streak>>

Older(age) == IF age = Unset THEN Unset ELSE Mirrored(age + 1)

AgeAll ==
    /\ mirrorAge' = [r \in Replicas |-> Older(mirrorAge[r])]
    /\ seen' = [c \in Callers |-> Older(seen[c])]
    /\ UNCHANGED <<usesRedis, mirrorFails, pc, reply, streak>>

\* Mutant: no EXPIRE on the shared keys.
TickNoBackstop ==
    /\ openAge' = IF openAge = Unset THEN Unset ELSE UpTo(Ttl - 1, openAge + 1)
    /\ UNCHANGED <<fails, failsAge>>
    /\ AgeAll

\* One tick of time, and the expiry Redis applies to both keys.
Tick ==
    /\ openAge' = IF openAge = Unset \/ openAge + 1 >= Ttl THEN Unset ELSE openAge + 1
    /\ IF fails = 0 \/ failsAge + 1 >= Ttl
       THEN fails' = 0 /\ failsAge' = 0
       ELSE fails' = fails /\ failsAge' = failsAge + 1
    /\ AgeAll

CallerStep(c) ==
    \/ IsOpenPeek(c)
    \/ IsOpenCheck(c)
    \/ IsOpenLocal(c)
    \/ OutputJudge(c)
    \/ RecordSuccessRedis(c)
    \/ RecordSuccessLocal(c)
    \/ RecordFailureRedis(c)
    \/ RecordFailureLocal(c)
    \/ NoRecord(c)
    \/ WriteMirror(c)

ReplicaStep(r) == OpenedAtView(r) \/ Reset(r) \/ Restart(r)

Next ==
    \/ \E c \in Callers : CallerStep(c)
    \/ \E r \in Replicas : ReplicaStep(r)
    \/ Tick

Spec == Init /\ [][Next]_vars

\* Time passes, whatever the callers do.
TickSpec == Spec /\ WF_vars(Tick)

\* Time passes, threads run, a judge call ends (its HTTP timeout sees to that),
\* and clients keep asking the judge.
FairSpec == TickSpec /\ \A c \in Callers : WF_vars(CallerStep(c))

-----------------------------------------------------------------------------
\* An open breaker stands on a full failure counter, and the counter never
\* expires under it: the counter's EXPIRE is at least as recent as the open
\* timestamp.  Both keys are written by different calls of different replicas
\* and expire on their own.
OpenHasCount == openAge # Unset => fails >= FailureThreshold

OpenIsOlderThanCount == openAge # Unset => openAge >= failsAge

\* The breaker is open only after FailureThreshold failures recorded by any
\* replicas with no success, half-open transition or reset between them, as
\* long as Redis answers every replica.
SharedCounter == ~RedisMayFail /\ ClientAtStart = {TRUE}

OpensOnlyAfterStreak ==
    SharedCounter /\ openAge # Unset => streak >= FailureThreshold

\* A replica with no Redis opens its own breaker only on a full count, in
\* whatever order its threads record and clear.
LocalOpenHasCount ==
    \A r \in Replicas :
        ~usesRedis[r] /\ mirrorAge[r] # Unset => mirrorFails[r] >= FailureThreshold

\* A caller that asked is_open() is let through, on any replica, only when the
\* shared breaker is not cooling down at that instant.
LetThrough(c) == pc[c] \in {"idle", "peeked"} /\ pc'[c] \in {"passed", "calling"}

NoCheckedCallWhileCooling ==
    [][\A c \in Checked : LetThrough(c) => ~Cooling(openAge)]_vars

\* The open timestamp outlives the cooldown: only a recorded success, whether its
\* reply arrives or is lost, or a reset closes the breaker before it has elapsed,
\* neither the TTL backstop nor a restart does.
StaysOpenForCooldown ==
    [][Cooling(openAge) /\ openAge' = Unset =>
         \/ \E c \in Callers : RecordSuccessRedis(c) \/ RecordSuccessLocal(c)
         \/ \E r \in Replicas : Reset(r)]_vars

\* The comment on the TTL backstop (core/circuit_breaker.py, __init__): the
\* shared breaker never stays open forever, even if every process has crashed
\* and nobody calls is_open() again.
NeverWedgedOpen == (openAge # Unset) ~> (openAge = Unset)

\* A replica without Redis always half-opens again, or is restarted with a
\* client.
LocalNeverWedged ==
    \A r \in Replicas :
        ~usesRedis[r] /\ mirrorAge[r] # Unset ~> usesRedis[r] \/ mirrorAge[r] = Unset
=============================================================================
