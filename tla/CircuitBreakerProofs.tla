------------------------ MODULE CircuitBreakerProofs ------------------------
(***************************************************************************)
(* What holds of the judge breaker for any number of replicas and callers, *)
(* any threshold, cooldown and TTL floor.                                  *)
(***************************************************************************)
EXTENDS CircuitBreaker, TLAPS

\* The TTL backstop is longer than the cooldown.
LEMMA TtlExceedsCooldown == Ttl \in Nat /\ Ttl > Cooldown
  BY BreakerAssumption DEF Ttl

\* Each bounded helper stays within the range the type invariant gives it.
LEMMA IncrementType ==
  ASSUME NEW n \in 0 .. FailureThreshold
  PROVE  /\ Increment(n) \in 0 .. FailureThreshold
         /\ Increment(n) >= n
         /\ n < FailureThreshold => Increment(n) = n + 1
  BY BreakerAssumption DEF Increment, UpTo

LEMMA MirroredType ==
  ASSUME NEW age \in Unset .. Ttl
  PROVE  Mirrored(age) \in Unset .. Cooldown
  BY BreakerAssumption, TtlExceedsCooldown DEF Mirrored, UpTo, Unset

LEMMA OlderType ==
  ASSUME NEW age \in Unset .. Cooldown
  PROVE  Older(age) \in Unset .. Cooldown
  BY BreakerAssumption DEF Older, Mirrored, UpTo, Unset

-----------------------------------------------------------------------------
LEMMA InitType == Init => TypeOK
  BY BreakerAssumption, TtlExceedsCooldown DEF Init, TypeOK, Unset, Places

\* Every step of a caller keeps the types.
LEMMA CallerType ==
  ASSUME TypeOK, NEW c \in Callers, CallerStep(c)
  PROVE  TypeOK'
<1> USE BreakerAssumption, TtlExceedsCooldown DEF TypeOK, Places, Checked, Goto
<1>h. Home[c] \in Replicas
  OBVIOUS
<1>u. Unset \in Unset .. Cooldown /\ 0 \in Unset .. Cooldown /\ 0 \in 0 .. FailureThreshold
  BY DEF Unset
<1>c. ClearShared => /\ openAge' \in Unset .. Ttl - 1
                     /\ fails' \in 0 .. FailureThreshold
                     /\ failsAge' \in 0 .. Ttl - 1
  BY DEF ClearShared, Unset
<1>n. CountShared => /\ openAge' \in Unset .. Ttl - 1
                     /\ fails' \in 0 .. FailureThreshold
                     /\ failsAge' \in 0 .. Ttl - 1
  BY IncrementType DEF CountShared, Unset
<1>1. CASE IsOpenPeek(c)
  <2>1. Mirrored(openAge) \in Unset .. Cooldown
    BY MirroredType DEF Unset
  <2> QED BY <1>1, <2>1 DEF IsOpenPeek, shared, mirror
<1>2. CASE IsOpenCheck(c)
  BY <1>2, <1>c DEF IsOpenCheck, shared, mirror, locals
<1>3. CASE IsOpenLocal(c)
  <2>1. UNCHANGED shared \/ ClearShared
    BY <1>3 DEF IsOpenLocal
  <2>2. /\ openAge' \in Unset .. Ttl - 1 /\ fails' \in 0 .. FailureThreshold
        /\ failsAge' \in 0 .. Ttl - 1
    BY <2>1, <1>c DEF shared
  <2> QED BY <1>3, <1>h, <1>u, <2>2 DEF IsOpenLocal, SetMirror, mirror
<1>4. CASE OutputJudge(c)
  BY <1>4 DEF OutputJudge, shared, mirror, locals
<1>5. CASE RecordSuccessRedis(c)
  BY <1>5, <1>c DEF RecordSuccessRedis, mirror, locals
<1>6. CASE RecordSuccessLocal(c)
  BY <1>6, <1>h, <1>u, <1>c DEF RecordSuccessLocal, SetMirror, shared, locals
<1>7. CASE RecordFailureRedis(c)
  <2>1. Increment(fails) \in 0 .. FailureThreshold /\ Increment(streak) \in 0 .. FailureThreshold
    BY IncrementType
  <2> QED BY <1>7, <2>1, <1>n DEF RecordFailureRedis, mirror
<1>8. CASE RecordFailureLocal(c)
  <2>1. /\ Increment(mirrorFails[Home[c]]) \in 0 .. FailureThreshold
        /\ Increment(streak) \in 0 .. FailureThreshold
    BY <1>h, IncrementType
  <2>2. /\ openAge' \in Unset .. Ttl - 1 /\ fails' \in 0 .. FailureThreshold
        /\ failsAge' \in 0 .. Ttl - 1
    BY <1>8, <1>n DEF RecordFailureLocal, shared
  <2> QED BY <1>8, <2>1, <2>2, <1>h, <1>u DEF RecordFailureLocal, SetMirror, locals
<1>9. CASE NoRecord(c)
  BY <1>9 DEF NoRecord, shared, mirror, locals
<1>10. CASE WriteMirror(c)
  BY <1>10, <1>h, <1>u DEF WriteMirror, SetMirror, shared
<1> QED
  BY <1>1, <1>2, <1>3, <1>4, <1>5, <1>6, <1>7, <1>8, <1>9, <1>10 DEF CallerStep

\* So does every step of a replica.
LEMMA ReplicaType ==
  ASSUME TypeOK, NEW r \in Replicas, ReplicaStep(r)
  PROVE  TypeOK'
<1> USE BreakerAssumption, TtlExceedsCooldown DEF TypeOK, Places
<1>u. Unset \in Unset .. Cooldown /\ 0 \in 0 .. FailureThreshold
  BY DEF Unset
<1>1. CASE OpenedAtView(r)
  <2>1. Mirrored(openAge) \in Unset .. Cooldown
    BY MirroredType DEF Unset
  <2> QED BY <1>1, <2>1 DEF OpenedAtView, shared, locals
<1>2. CASE Reset(r)
  BY <1>2, <1>u DEF Reset, SetMirror, ClearShared, shared, locals, Unset
<1>3. CASE Restart(r)
  BY <1>3, <1>u DEF Restart, SetMirror, shared
<1> QED
  BY <1>1, <1>2, <1>3 DEF ReplicaStep

\* And so does the passing of time.
LEMMA TickType ==
  ASSUME TypeOK, Tick
  PROVE  TypeOK'
<1> USE BreakerAssumption, TtlExceedsCooldown DEF TypeOK
<1>1. /\ openAge' \in Unset .. Ttl - 1
      /\ fails' \in 0 .. FailureThreshold
      /\ failsAge' \in 0 .. Ttl - 1
  BY DEF Tick, Unset
<1>2. /\ mirrorAge' \in [Replicas -> Unset .. Cooldown]
      /\ seen' \in [Callers -> Unset .. Cooldown]
  BY OlderType DEF Tick, AgeAll
<1> QED
  BY <1>1, <1>2 DEF Tick, AgeAll

LEMMA StutterType ==
  ASSUME TypeOK, UNCHANGED vars
  PROVE  TypeOK'
  BY DEF TypeOK, vars, shared, mirror, locals

LEMMA NextType == TypeOK /\ [Next]_vars => TypeOK'
  BY CallerType, ReplicaType, TickType, StutterType DEF Next

\* Type correctness: every age stays below its expiry and every counter within
\* its threshold, so the two Redis keys are always bounded.
THEOREM TypeCorrect == Spec => []TypeOK
  BY InitType, NextType, PTL DEF Spec

-----------------------------------------------------------------------------
\* Why the failure counter cannot expire under an open breaker: its EXPIRE is
\* refreshed by the very call that opens the breaker and by every later one,
\* so its deadline is never before the open timestamp's.
CountInv == TypeOK /\ OpenHasCount /\ OpenIsOlderThanCount

LEMMA CountStep == CountInv /\ [Next]_vars => CountInv'
<1> SUFFICES ASSUME CountInv, [Next]_vars PROVE OpenHasCount' /\ OpenIsOlderThanCount'
  BY NextType DEF CountInv
<1> USE BreakerAssumption, TtlExceedsCooldown
    DEF CountInv, OpenHasCount, OpenIsOlderThanCount, TypeOK
<1>1. UNCHANGED shared => OpenHasCount' /\ OpenIsOlderThanCount'
  BY DEF shared
<1>2. ClearShared => OpenHasCount' /\ OpenIsOlderThanCount'
  BY DEF ClearShared
<1>3. CountShared => OpenHasCount' /\ OpenIsOlderThanCount'
  <2>1. Increment(fails) \in 0 .. FailureThreshold /\ Increment(fails) >= fails
    BY IncrementType
  <2> QED BY <2>1 DEF CountShared, Opens, Unset
<1>4. ASSUME NEW c \in Callers, CallerStep(c)
      PROVE  OpenHasCount' /\ OpenIsOlderThanCount'
  <2>1. UNCHANGED shared \/ ClearShared \/ CountShared
    BY <1>4 DEF CallerStep, IsOpenPeek, IsOpenCheck, IsOpenLocal, OutputJudge,
       RecordSuccessRedis, RecordSuccessLocal, RecordFailureRedis, RecordFailureLocal,
       NoRecord, WriteMirror, shared
  <2> QED BY <2>1, <1>1, <1>2, <1>3
<1>5. ASSUME NEW r \in Replicas, ReplicaStep(r)
      PROVE  OpenHasCount' /\ OpenIsOlderThanCount'
  <2>1. UNCHANGED shared \/ ClearShared
    BY <1>5 DEF ReplicaStep, OpenedAtView, Reset, Restart, shared
  <2> QED BY <2>1, <1>1, <1>2
<1>6. ASSUME Tick PROVE OpenHasCount' /\ OpenIsOlderThanCount'
  BY <1>6 DEF Tick, Unset
<1>7. ASSUME UNCHANGED vars PROVE OpenHasCount' /\ OpenIsOlderThanCount'
  BY <1>7, <1>1 DEF vars, shared
<1> QED
  BY <1>4, <1>5, <1>6, <1>7 DEF Next

\* An open breaker always stands on a full failure counter, with or without
\* Redis errors, restarts and mixed fleets.
THEOREM OpenCounted == Spec => []OpenHasCount
<1>1. Init => CountInv
  BY InitType DEF Init, CountInv, OpenHasCount, OpenIsOlderThanCount, Unset
<1>2. CountInv => OpenHasCount
  BY DEF CountInv
<1> QED
  BY <1>1, <1>2, CountStep, PTL DEF Spec

-----------------------------------------------------------------------------
\* With Redis answering every replica no call takes the local path, and the
\* shared counter never runs ahead of the consecutive failures.
AllShared == \A r \in Replicas : usesRedis[r]

StreakInv == TypeOK /\ AllShared /\ fails <= streak

LEMMA StreakStep ==
  ASSUME SharedCounter
  PROVE  StreakInv /\ [Next]_vars => StreakInv'
<1> SUFFICES ASSUME StreakInv, [Next]_vars PROVE AllShared' /\ fails' <= streak'
  BY NextType DEF StreakInv
<1> USE BreakerAssumption, TtlExceedsCooldown DEF StreakInv, TypeOK
<1>h. \A c \in Callers : Home[c] \in Replicas /\ ~ByMirror(Home[c])
  BY DEF SharedCounter, ByMirror, AllShared
<1>r. \A r \in Replicas : ~ByMirror(r)
  BY DEF SharedCounter, ByMirror, AllShared
<1>1. ASSUME NEW c \in Callers, CallerStep(c) PROVE AllShared' /\ fails' <= streak'
  <2>1. UNCHANGED usesRedis
    BY <1>1 DEF CallerStep, IsOpenPeek, IsOpenCheck, IsOpenLocal, OutputJudge,
       RecordSuccessRedis, RecordSuccessLocal, RecordFailureRedis, RecordFailureLocal,
       NoRecord, WriteMirror
  <2>2. CASE RecordFailureRedis(c)
    <3>1. /\ Increment(fails) \in 0 .. FailureThreshold
          /\ Increment(streak) \in 0 .. FailureThreshold
          /\ Increment(fails) <= Increment(streak)
      BY DEF Increment, UpTo
    <3> QED BY <2>1, <2>2, <3>1 DEF RecordFailureRedis, CountShared, AllShared
  <2>3. CASE ~RecordFailureRedis(c)
    <3>1. (UNCHANGED <<fails, streak>>) \/ (fails' = 0 /\ streak' = 0)
      BY <1>1, <1>h, <2>3 DEF CallerStep, IsOpenPeek, IsOpenCheck, IsOpenLocal,
         OutputJudge, RecordSuccessRedis, RecordSuccessLocal, RecordFailureLocal,
         NoRecord, WriteMirror, ClearShared, shared
    <3> QED BY <2>1, <3>1 DEF AllShared
  <2> QED BY <2>2, <2>3
<1>2. ASSUME NEW r \in Replicas, ReplicaStep(r) PROVE AllShared' /\ fails' <= streak'
  <2>1. CASE OpenedAtView(r)
    BY <2>1 DEF OpenedAtView, shared, AllShared
  <2>2. CASE Reset(r)
    BY <2>2, <1>r DEF Reset, ClearShared, AllShared
  <2>3. CASE Restart(r)
    BY <2>3 DEF Restart, shared, SharedCounter, AllShared
  <2> QED BY <1>2, <2>1, <2>2, <2>3 DEF ReplicaStep
<1>3. ASSUME Tick PROVE AllShared' /\ fails' <= streak'
  BY <1>3 DEF Tick, AgeAll, AllShared
<1>4. ASSUME UNCHANGED vars PROVE AllShared' /\ fails' <= streak'
  BY <1>4 DEF vars, shared, AllShared
<1> QED
  BY <1>1, <1>2, <1>3, <1>4 DEF Next

LEMMA StreakInvariant ==
  ASSUME SharedCounter
  PROVE  Spec => []StreakInv
<1>1. Init => StreakInv
  <2> SUFFICES ASSUME Init PROVE AllShared /\ fails <= streak
    BY InitType DEF StreakInv
  <2>1. usesRedis \in [Replicas -> {TRUE}]
    BY DEF Init, SharedCounter
  <2>2. \A r \in Replicas : usesRedis[r] = TRUE
    BY <2>1
  <2>3. AllShared
    BY <2>2, Zenon DEF AllShared
  <2>4. fails <= streak
    BY DEF Init
  <2> QED BY <2>3, <2>4
<1> QED
  BY <1>1, StreakStep, PTL DEF Spec

\* A breaker all replicas share through a Redis that answers is open only after
\* FailureThreshold failures in a row, whichever replicas recorded them.
THEOREM OpensOnConsecutiveFailures == Spec => []OpensOnlyAfterStreak
<1>1. CASE SharedCounter
  <2>1. Init => CountInv
    BY InitType DEF Init, CountInv, OpenHasCount, OpenIsOlderThanCount, Unset
  <2>2. CountInv /\ StreakInv => OpensOnlyAfterStreak
    BY BreakerAssumption DEF CountInv, StreakInv, TypeOK, OpenHasCount, OpensOnlyAfterStreak
  <2>3. Spec => []CountInv
    BY <2>1, CountStep, PTL DEF Spec
  <2>4. Spec => []StreakInv
    BY <1>1, StreakInvariant
  <2> QED
    BY <2>2, <2>3, <2>4, PTL
<1>2. CASE ~SharedCounter
  <2>1. OpensOnlyAfterStreak
    BY <1>2 DEF OpensOnlyAfterStreak
  <2> QED
    BY <2>1, PTL
<1> QED
  BY <1>1, <1>2

-----------------------------------------------------------------------------
\* Nothing but a recorded success or a reset closes the breaker before its
\* cooldown has elapsed: the TTL backstop is too long to, and the half-open
\* clear of is_open() waits for the cooldown.
THEOREM OpenForTheCooldown == Spec => StaysOpenForCooldown
<1>1. ASSUME TypeOK, [Next]_vars, Cooling(openAge), openAge' = Unset
      PROVE  \/ \E c \in Callers : RecordSuccessRedis(c) \/ RecordSuccessLocal(c)
             \/ \E r \in Replicas : Reset(r)
  <2> USE BreakerAssumption, TtlExceedsCooldown DEF TypeOK, Cooling, Unset
  <2>1. ASSUME NEW c \in Callers, CallerStep(c), ~RecordSuccessRedis(c), ~RecordSuccessLocal(c)
        PROVE  FALSE
    BY <1>1, <2>1 DEF CallerStep, IsOpenPeek, IsOpenCheck, IsOpenLocal, OutputJudge,
       RecordFailureRedis, RecordFailureLocal, CountShared, NoRecord, WriteMirror, shared
  <2>2. ASSUME NEW r \in Replicas, ReplicaStep(r), ~Reset(r) PROVE FALSE
    BY <1>1, <2>2 DEF ReplicaStep, OpenedAtView, Restart, shared
  <2>3. ASSUME Tick PROVE FALSE
    BY <1>1, <2>3 DEF Tick
  <2>4. ASSUME UNCHANGED vars PROVE FALSE
    BY <1>1, <2>4 DEF vars, shared
  <2> QED BY <1>1, <2>1, <2>2, <2>3, <2>4 DEF Next
<1>2. Spec => []TypeOK
  BY TypeCorrect
<1>3. TypeOK /\ [Next]_vars =>
        [Cooling(openAge) /\ openAge' = Unset =>
           \/ \E c \in Callers : RecordSuccessRedis(c) \/ RecordSuccessLocal(c)
           \/ \E r \in Replicas : Reset(r)]_vars
  BY <1>1
<1> QED
  BY <1>2, <1>3, PTL DEF Spec, StaysOpenForCooldown

\* While Redis answers every replica, no caller that asks is_open() reaches the
\* backend of a breaker that is cooling down.
THEOREM NoCallWhileCooling ==
  ASSUME SharedCounter
  PROVE  Spec => NoCheckedCallWhileCooling
<1>1. ASSUME StreakInv, [Next]_vars, NEW c \in Checked, LetThrough(c)
      PROVE  ~Cooling(openAge)
  <2> USE BreakerAssumption DEF StreakInv, TypeOK
  <2>h. \A d \in Callers : ~ByMirror(Home[d])
    BY <1>1 DEF SharedCounter, ByMirror, AllShared
  <2>1. ASSUME NEW d \in Callers, CallerStep(d) PROVE ~Cooling(openAge)
    <3>1. CASE d # c
      <4>1. pc'[c] = pc[c]
        BY <1>1, <2>1, <3>1 DEF CallerStep, IsOpenPeek, IsOpenCheck, IsOpenLocal, OutputJudge,
           RecordSuccessRedis, RecordSuccessLocal, RecordFailureRedis, RecordFailureLocal,
           NoRecord, WriteMirror, Goto, Checked
      <4> QED BY <1>1, <4>1 DEF LetThrough
    <3>2. CASE d = c
      BY <1>1, <2>1, <2>h, <3>2 DEF CallerStep, IsOpenPeek, IsOpenCheck, IsOpenLocal, OutputJudge,
         RecordSuccessRedis, RecordSuccessLocal, RecordFailureRedis, RecordFailureLocal,
         NoRecord, WriteMirror, Goto, Checked, LetThrough, Cooling, Unset
    <3> QED BY <3>1, <3>2
  <2>2. ASSUME NEW r \in Replicas, ReplicaStep(r) PROVE FALSE
    BY <1>1, <2>2 DEF ReplicaStep, OpenedAtView, Reset, Restart, LetThrough, Checked
  <2>3. ASSUME Tick PROVE FALSE
    BY <1>1, <2>3 DEF Tick, AgeAll, LetThrough
  <2>4. ASSUME UNCHANGED vars PROVE FALSE
    BY <1>1, <2>4 DEF vars, LetThrough
  <2> QED BY <1>1, <2>1, <2>2, <2>3, <2>4 DEF Next
<1>2. StreakInv /\ [Next]_vars =>
        [\A c \in Checked : LetThrough(c) => ~Cooling(openAge)]_vars
  BY <1>1
<1>3. Spec => []StreakInv
  BY StreakInvariant
<1> QED
  BY <1>2, <1>3, PTL DEF Spec, NoCheckedCallWhileCooling

-----------------------------------------------------------------------------
\* A replica without a client has no caller between a reply of Redis and its
\* unlocked write, so all of its writes are made under the lock.
LocalInv ==
    /\ TypeOK
    /\ \A c \in Callers : ~usesRedis[Home[c]] => pc[c] \in {"idle", "calling"}
    /\ LocalOpenHasCount

\* What a step may do to a mirror without Redis: nothing, clear it, or count.
MirrorMove(r) ==
    \/ mirrorAge'[r] = mirrorAge[r] /\ mirrorFails'[r] = mirrorFails[r]
    \/ mirrorAge'[r] = Unset
    \/ /\ mirrorFails'[r] = Increment(mirrorFails[r])
       /\ mirrorAge'[r] = IF mirrorAge[r] = Unset /\ Increment(mirrorFails[r]) >= FailureThreshold
                          THEN 0 ELSE mirrorAge[r]

LEMMA MirrorMoveCounts ==
  ASSUME TypeOK, NEW r \in Replicas, MirrorMove(r),
         mirrorAge[r] # Unset => mirrorFails[r] >= FailureThreshold
  PROVE  mirrorAge'[r] # Unset => mirrorFails'[r] >= FailureThreshold
<1>1. mirrorFails[r] \in 0 .. FailureThreshold
  BY DEF TypeOK
<1>2. Increment(mirrorFails[r]) \in 0 .. FailureThreshold /\ Increment(mirrorFails[r]) >= mirrorFails[r]
  BY <1>1, IncrementType
<1> QED BY <1>1, <1>2, BreakerAssumption DEF MirrorMove

LEMMA LocalStep == LocalInv /\ [Next]_vars => LocalInv'
<1> SUFFICES ASSUME LocalInv, [Next]_vars
             PROVE  /\ \A c \in Callers : ~usesRedis'[Home[c]] => pc'[c] \in {"idle", "calling"}
                    /\ \A r \in Replicas :
                          ~usesRedis'[r] /\ mirrorAge'[r] # Unset => mirrorFails'[r] >= FailureThreshold
  BY NextType DEF LocalInv, LocalOpenHasCount
<1>t. /\ TypeOK
      /\ \A c \in Callers : ~usesRedis[Home[c]] => pc[c] \in {"idle", "calling"}
      /\ \A r \in Replicas : ~usesRedis[r] /\ mirrorAge[r] # Unset => mirrorFails[r] >= FailureThreshold
  BY DEF LocalInv, LocalOpenHasCount
<1>h. \A c \in Callers : Home[c] \in Replicas
  BY BreakerAssumption
<1>1. ASSUME NEW c \in Callers, CallerStep(c)
      PROVE  /\ usesRedis' = usesRedis
             /\ ~usesRedis[Home[c]] => pc'[c] \in {"idle", "calling"} /\ MirrorMove(Home[c])
             /\ \A d \in Callers : d # c => pc'[d] = pc[d]
             /\ \A r \in Replicas : r # Home[c] => mirrorAge'[r] = mirrorAge[r] /\ mirrorFails'[r] = mirrorFails[r]
  <2>1. usesRedis' = usesRedis
    BY <1>1 DEF CallerStep, IsOpenPeek, IsOpenCheck, IsOpenLocal, OutputJudge,
       RecordSuccessRedis, RecordSuccessLocal, RecordFailureRedis, RecordFailureLocal,
       NoRecord, WriteMirror
  <2>2. \A d \in Callers : d # c => pc'[d] = pc[d]
    BY <1>1, <1>t DEF CallerStep, IsOpenPeek, IsOpenCheck, IsOpenLocal, OutputJudge,
       RecordSuccessRedis, RecordSuccessLocal, RecordFailureRedis, RecordFailureLocal,
       NoRecord, WriteMirror, Goto, TypeOK
  <2>3. \A r \in Replicas : r # Home[c] => mirrorAge'[r] = mirrorAge[r] /\ mirrorFails'[r] = mirrorFails[r]
    BY <1>1, <1>t DEF CallerStep, IsOpenPeek, IsOpenCheck, IsOpenLocal, OutputJudge,
       RecordSuccessRedis, RecordSuccessLocal, RecordFailureRedis, RecordFailureLocal,
       NoRecord, WriteMirror, SetMirror, mirror, TypeOK
  <2>4. ASSUME ~usesRedis[Home[c]] PROVE pc'[c] \in {"idle", "calling"} /\ MirrorMove(Home[c])
    <3>1. pc[c] \in {"idle", "calling"} /\ Home[c] \in Replicas
      BY <1>t, <1>h, <2>4
    <3>2. CASE IsOpenLocal(c)
      BY <1>t, <3>1, <3>2 DEF IsOpenLocal, Goto, SetMirror, mirror, TypeOK, MirrorMove
    <3>3. CASE OutputJudge(c) \/ NoRecord(c)
      BY <1>t, <3>3 DEF OutputJudge, NoRecord, Goto, mirror, TypeOK, MirrorMove
    <3>4. CASE RecordSuccessLocal(c)
      BY <1>t, <3>1, <3>4 DEF RecordSuccessLocal, Goto, SetMirror, TypeOK, MirrorMove
    <3>5. CASE RecordFailureLocal(c)
      BY <1>t, <3>1, <3>5 DEF RecordFailureLocal, Goto, SetMirror, TypeOK, MirrorMove
    <3>6. ~(IsOpenPeek(c) \/ IsOpenCheck(c) \/ RecordSuccessRedis(c) \/ RecordFailureRedis(c) \/ WriteMirror(c))
      BY <2>4, <3>1 DEF IsOpenPeek, IsOpenCheck, RecordSuccessRedis, RecordFailureRedis, WriteMirror, ByRedis
    <3> QED BY <1>1, <3>2, <3>3, <3>4, <3>5, <3>6 DEF CallerStep
  <2> QED BY <2>1, <2>2, <2>3, <2>4
<1>2. ASSUME NEW c \in Callers, CallerStep(c)
      PROVE  /\ \A d \in Callers : ~usesRedis'[Home[d]] => pc'[d] \in {"idle", "calling"}
             /\ \A r \in Replicas :
                   ~usesRedis'[r] /\ mirrorAge'[r] # Unset => mirrorFails'[r] >= FailureThreshold
  BY <1>1, <1>2, <1>t, <1>h, MirrorMoveCounts
<1>3. ASSUME NEW q \in Replicas, ReplicaStep(q)
      PROVE  /\ \A d \in Callers : ~usesRedis'[Home[d]] => pc'[d] \in {"idle", "calling"}
             /\ \A r \in Replicas :
                   ~usesRedis'[r] /\ mirrorAge'[r] # Unset => mirrorFails'[r] >= FailureThreshold
  <2>1. CASE OpenedAtView(q)
    BY <1>t, <2>1 DEF OpenedAtView, ByRedis, TypeOK
  <2>2. CASE Reset(q)
    BY <1>t, <2>2 DEF Reset, SetMirror, TypeOK
  <2>3. CASE Restart(q)
    <3>1. \A r \in Replicas : r # q => usesRedis'[r] = usesRedis[r]
      BY <1>t, <2>3 DEF Restart, TypeOK
    <3>2. \A d \in Callers : pc'[d] = IF Home[d] = q THEN "idle" ELSE pc[d]
      BY <2>3 DEF Restart
    <3>3. mirrorAge'[q] = Unset
      BY <1>t, <2>3 DEF Restart, SetMirror, TypeOK
    <3>4. \A r \in Replicas : r # q => mirrorAge'[r] = mirrorAge[r] /\ mirrorFails'[r] = mirrorFails[r]
      BY <1>t, <2>3 DEF Restart, SetMirror, TypeOK
    <3> QED BY <1>t, <1>h, <3>1, <3>2, <3>3, <3>4
  <2> QED BY <1>3, <2>1, <2>2, <2>3 DEF ReplicaStep
<1>4. ASSUME Tick
      PROVE  /\ \A d \in Callers : ~usesRedis'[Home[d]] => pc'[d] \in {"idle", "calling"}
             /\ \A r \in Replicas :
                   ~usesRedis'[r] /\ mirrorAge'[r] # Unset => mirrorFails'[r] >= FailureThreshold
  BY <1>t, <1>4 DEF Tick, AgeAll, Older
<1>5. ASSUME UNCHANGED vars
      PROVE  /\ \A d \in Callers : ~usesRedis'[Home[d]] => pc'[d] \in {"idle", "calling"}
             /\ \A r \in Replicas :
                   ~usesRedis'[r] /\ mirrorAge'[r] # Unset => mirrorFails'[r] >= FailureThreshold
  BY <1>t, <1>5 DEF vars, mirror
<1> QED BY <1>2, <1>3, <1>4, <1>5 DEF Next

\* record_failure without Redis: a replica on its own opens its breaker only on a
\* full count, whichever of its threads recorded and cleared it.
THEOREM LocalOpenCounted == Spec => []LocalOpenHasCount
<1>1. Init => LocalInv
  BY InitType DEF Init, LocalInv, LocalOpenHasCount
<1>2. LocalInv => LocalOpenHasCount
  BY DEF LocalInv
<1> QED BY <1>1, <1>2, LocalStep, PTL DEF Spec
=============================================================================
