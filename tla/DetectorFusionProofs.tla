------------------------ MODULE DetectorFusionProofs -------------------------
(***************************************************************************)
(* The cold start of the detectors for any number of requests, detectors   *)
(* and tiers, whatever is wrong with which detector.                       *)
(***************************************************************************)
EXTENDS DetectorFusion, FiniteSetTheorems, SequenceTheorems, NaturalsInduction, WellFoundedInduction,
        TLAPS

Inside == {"build", "fields", "unset", "verify"}
Places == {"none", "queued", "enter", "lock", "avail", "passed", "infer", "scored", "misshapen",
           "failed", "raised"} \union Inside
Holders == All \union {Nobody}

\* What _policy may hold.
TierTables == {<<>>} \union {ValidTiers(a) : a \in Artifacts}

FusionTypes ==
    /\ world \in Worlds
    /\ artifact \in Artifacts
    /\ policy \in [loaded: BOOLEAN, tiers: TierTables]
    /\ warm \in [done: BOOLEAN, lock: Holders, todo: Seq(Detectors)]
    /\ det \in [Detectors -> [model: BOOLEAN, ready: BOOLEAN, error: BOOLEAN, verified: BOOLEAN,
                              lock: Holders]]
    /\ visit \in [All -> [Detectors -> Places]]
    /\ req \in [All -> [at: {"idle", "policy", "reading", "warm", "warming", "score", "collect", "done"},
                        answer: Int]]
    /\ unverified \in BOOLEAN

-----------------------------------------------------------------------------
\* Locks, in every world.

\* The warm-up's lock is held by the thread that warms up and by nobody else; a
\* thread is at a detector, one of the policy's, only while it warms that one up
\* or collects.
Turns ==
    /\ \A t \in All : warm.lock = t <=> req[t].at = "warming"
    /\ \A t \in All, d \in Detectors : visit[t][d] # "none" =>
          \/ req[t].at = "warming" /\ warm.todo # <<>> /\ d = Head(warm.todo)
          \/ req[t].at = "collect"
    /\ \A t \in All, d \in Detectors : visit[t][d] # "none" => d \in Names
    /\ ToSet(warm.todo) \subseteq Names

\* A detector's lock is held by the thread that is inside its load.
LocksInside == \A t \in All, d \in Detectors : det[d].lock = t <=> visit[t][d] \in Inside

-----------------------------------------------------------------------------
\* The policy file is read by one thread, once, and before that nothing happens.

Untouched ==
    /\ ~warm.done /\ warm.lock = Nobody
    /\ ~unverified
    /\ \A t \in All : \/ req[t].at \in {"idle", "policy", "reading"}
                      \/ req[t].at = "done" /\ req[t].answer = NoPolicy
    /\ \A d \in Detectors : det[d] = Cold
    /\ \A t \in All, d \in Detectors : visit[t][d] = "none"

PolicyReadOnce ==
    /\ \A t, u \in All : req[t].at = "reading" /\ req[u].at = "reading" => t = u
    /\ \A t \in All : req[t].at = "reading" => policy.loaded /\ policy.tiers = <<>>
    /\ policy.tiers = <<>> => Untouched
    /\ policy.tiers # <<>> => policy.loaded

\* The start-up event comes first, and has read the file when it is over.
StartupFirst ==
    world.startup =>
        /\ req[Startup].at # "done" => \A t \in Threads : req[t].at = "idle"
        /\ req[Startup].at = "done" => policy.loaded /\ \A t \in All : req[t].at # "reading"
        /\ \A t \in Threads : req[t].at = "done" /\ req[t].answer = NoPolicy => policy.tiers = <<>>

-----------------------------------------------------------------------------
\* The warm-up, when there is one for everybody and nothing to refuse.

Warmable == world.parallel /\ world.tampered = {} /\ Cardinality(Names) > 1

Has(d, model, ready, error, verified, lock) ==
    /\ det[d].model = model /\ det[d].ready = ready /\ det[d].error = error
    /\ det[d].verified = verified /\ det[d].lock = lock

Untried(d) == Has(d, FALSE, FALSE, FALSE, FALSE, Nobody)
\* What a load that nobody disturbed leaves, for good.
Loaded(d) ==
    IF d \in Healthy THEN Has(d, TRUE, TRUE, FALSE, TRUE, Nobody)
    ELSE Has(d, FALSE, FALSE, TRUE, FALSE, Nobody)

\* What a thread that is at a place with a detector knows of it.
PlaceFine(t, d) ==
    /\ visit[t][d] \notin {"raised", "misshapen"}
    /\ visit[t][d] \in Inside \union {"lock"} => req[t].at = "warming"
    /\ visit[t][d] = "build" => Has(d, FALSE, FALSE, FALSE, FALSE, t)
    /\ visit[t][d] = "fields" => Has(d, TRUE, FALSE, FALSE, FALSE, t) /\ d \notin world.broken
    /\ visit[t][d] = "unset" => Has(d, TRUE, FALSE, TRUE, FALSE, t) /\ d \notin Healthy
    /\ visit[t][d] = "verify" => Has(d, TRUE, TRUE, FALSE, FALSE, t) /\ d \in Healthy
    /\ visit[t][d] \in {"avail", "passed", "failed", "infer"} => Loaded(d)
    /\ visit[t][d] \in {"infer", "scored"} => d \in Healthy
    /\ visit[t][d] = "failed" => d \notin Healthy

WarmedFirst ==
    /\ ~unverified
    /\ warm.done => \A d \in Names : Loaded(d)
    /\ \A t \in All :
          /\ req[t].at \in {"score", "collect"} => warm.done
          /\ req[t].at = "warming" => ~warm.done /\ \A d \in Names \ ToSet(warm.todo) : Loaded(d)
    /\ \A d \in Names : (\A t \in All : visit[t][d] \notin Inside) => Untried(d) \/ Loaded(d)
    /\ \A t \in All, d \in Detectors : PlaceFine(t, d)
    /\ \A t \in Threads : req[t].at = "done" /\ req[t].answer # NoPolicy => req[t].answer = TierOf(Healthy)

FusionInv ==
    /\ FusionTypes
    /\ Turns /\ LocksInside
    /\ PolicyReadOnce /\ StartupFirst
    /\ Warmable => WarmedFirst

-----------------------------------------------------------------------------
\* The operators of the model.

LEMMA TableTypes ==
  ASSUME NEW table \in TierTables
  PROVE  /\ DOMAIN table \subseteq Nat
         /\ \A i \in DOMAIN table : table[i].features \subseteq Detectors
<1>1. ASSUME NEW a \in Artifacts
      PROVE  DOMAIN a \subseteq Nat /\ \A i \in DOMAIN a : a[i].features \subseteq Detectors
  <2>1. a \in Seq([features: SUBSET Detectors, valid: BOOLEAN])
    BY FusionAssumption
  <2>2. DOMAIN a = 1..Len(a) /\ Len(a) \in Nat
    BY <2>1
  <2>3. \A i \in 1..Len(a) : a[i] \in [features: SUBSET Detectors, valid: BOOLEAN]
    BY <2>1, ElementOfSeq
  <2> QED BY <2>2, <2>3
<1>2. ASSUME NEW a \in Artifacts, table = ValidTiers(a)
      PROVE  DOMAIN table \subseteq Nat /\ \A i \in DOMAIN table : table[i].features \subseteq Detectors
  BY <1>1, <1>2 DEF ValidTiers
<1>3. DOMAIN <<>> = {}
  OBVIOUS
<1> QED BY <1>2, <1>3 DEF TierTables

LEMMA NamesType ==
  ASSUME FusionTypes
  PROVE  Names \subseteq Detectors /\ IsFiniteSet(Names) /\ Cardinality(Names) \in Nat
<1>1. \A i \in DOMAIN policy.tiers : policy.tiers[i].features \subseteq Detectors
  BY TableTypes DEF FusionTypes
<1>2. Names \subseteq Detectors
  BY <1>1 DEF Names
<1> QED BY <1>2, FusionAssumption, FS_Subset, FS_CardinalityType

LEMMA NoTiersNoNames ==
  ASSUME policy.tiers = <<>>
  PROVE  Names = {} /\ ~Warmable
<1>1. DOMAIN <<>> = {}
  OBVIOUS
<1>2. Names = {}
  BY <1>1 DEF Names
<1>3. ~(Cardinality(Names) > 1)
  BY <1>2, FS_EmptySet
<1> QED BY <1>2, <1>3 DEF Warmable

\* The warm-up's list has every name.
LEMMA InOrderCovers ==
  ASSUME NEW S, IsFiniteSet(S)
  PROVE  InOrder(S) \in Seq(S) /\ ToSet(InOrder(S)) = S
<1> DEFINE n == Cardinality(S)
<1>1. n \in Nat /\ ExistsBijection(1..n, S)
  BY FS_CardinalityType
<1>2. PICK f \in [1..n -> S] : \A i, j \in DOMAIN f : f[i] = f[j] => i = j
  BY <1>1 DEF ExistsBijection, Bijection, Injection, IsInjective
<1>3. InOrder(S) \in [1..n -> S] /\ IsInjective(InOrder(S))
  BY <1>2 DEF InOrder, SetToSeq, IsInjective
<1>4. PICK g \in [1..n -> S] : g = InOrder(S) /\ IsInjective(g)
  BY <1>3
<1>5. g \in Injection(1..n, S)
  BY <1>4 DEF Injection, IsInjective
<1>6. Cardinality(1..n) = n
  BY <1>1, FS_Interval
<1>7. g \in Surjection(1..n, S)
  BY <1>5, <1>6, FS_Injection
<1>8. g \in Seq(S)
  BY <1>1, <1>4
<1>9. ToSet(g) = S
  BY <1>4, <1>7 DEF Surjection, ToSet
<1> QED BY <1>4, <1>8, <1>9

\* A tier is a natural number, and none of the other answers.
LEMMA LeastExists ==
  ASSUME NEW F \in SUBSET Nat, F # {}
  PROVE  \E i \in F : \A j \in F : i <= j
<1>1. PICK x \in F : \A y \in F : ~(<<y, x>> \in OpToRel(<, Nat))
  BY NatLessThanWellFounded, WFMin
<1>2. \A y \in F : <<y, x>> \in Nat \X Nat /\ <<y, x>>[1] = y /\ <<y, x>>[2] = x
  OBVIOUS
<1>3. \A y \in F : ~(y < x)
  BY <1>1, <1>2, Zenon DEF OpToRel
<1> QED BY <1>3

LEMMA TierOfNat ==
  ASSUME FusionTypes, NEW S
  PROVE  TierOf(S) \in Nat
<1> DEFINE fit == {i \in DOMAIN policy.tiers : policy.tiers[i].features \subseteq S}
<1>1. fit \in SUBSET Nat
  BY TableTypes DEF FusionTypes
<1>2. CASE fit = {}
  BY <1>2 DEF TierOf, Unavailable
<1>3. CASE fit # {}
  <2>1. \E i \in fit : \A j \in fit : i <= j
    BY <1>1, <1>3, LeastExists
  <2>2. Min(fit) \in fit
    BY <2>1 DEF Min
  <2>3. TierOf(S) = Min(fit)
    BY <1>3 DEF TierOf
  <2> QED BY <1>1, <2>2, <2>3
<1> QED BY <1>2, <1>3

LEMMA TierOfNames ==
  ASSUME NEW S, NEW T, S \intersect Names = T \intersect Names
  PROVE  TierOf(S) = TierOf(T)
<1>1. \A i \in DOMAIN policy.tiers : policy.tiers[i].features \subseteq Names
  BY DEF Names
<1>2. \A i \in DOMAIN policy.tiers :
         policy.tiers[i].features \subseteq S <=> policy.tiers[i].features \subseteq T
  BY <1>1
<1>3. {i \in DOMAIN policy.tiers : policy.tiers[i].features \subseteq S}
        = {i \in DOMAIN policy.tiers : policy.tiers[i].features \subseteq T}
  BY <1>2
<1> QED BY <1>3 DEF TierOf

-----------------------------------------------------------------------------
\* What the steps assign.

DetRecords == [model: BOOLEAN, ready: BOOLEAN, error: BOOLEAN, verified: BOOLEAN, lock: Holders]
ReqRecords == [at: {"idle", "policy", "reading", "warm", "warming", "score", "collect", "done"}, answer: Int]

Moved(t, d, to) ==
    \A u \in All, e \in Detectors : visit'[u][e] = IF u = t /\ e = d THEN to ELSE visit[u][e]

Went(t, to, answer) ==
    \A u \in All : /\ req'[u].at = IF u = t THEN to ELSE req[u].at
                   /\ req'[u].answer = IF u = t THEN answer ELSE req[u].answer

OthersKept(d) == \A e \in Detectors : e # d => det'[e] = det[e]

LEMMA PutMoves ==
  ASSUME FusionTypes, NEW t \in All, NEW d \in Detectors, NEW to \in Places, Put(t, d, to)
  PROVE  visit' \in [All -> [Detectors -> Places]] /\ Moved(t, d, to)
<1>1. visit \in [All -> [Detectors -> Places]] /\ visit' = [visit EXCEPT ![t][d] = to]
  BY DEF FusionTypes, Put
<1>2. visit[t] \in [Detectors -> Places]
  BY <1>1
<1> QED BY <1>1, <1>2 DEF Moved

LEMMA GotoWent ==
  ASSUME FusionTypes, NEW t \in All,
         NEW to \in {"policy", "reading", "warm", "warming", "score", "collect"}, Goto(t, to)
  PROVE  req' \in [All -> ReqRecords] /\ Went(t, to, req[t].answer)
<1>1. PICK new : new = [req[t] EXCEPT !.at = to]
  OBVIOUS
<1>2. req \in [All -> ReqRecords]
  BY DEF FusionTypes, ReqRecords
<1>3. new \in ReqRecords /\ new.at = to /\ new.answer = req[t].answer
  BY <1>1, <1>2 DEF ReqRecords
<1>4. req' = [req EXCEPT ![t] = new]
  BY <1>1, <1>2 DEF Goto
<1> QED BY <1>2, <1>3, <1>4 DEF Went

LEMMA AnswerWent ==
  ASSUME FusionTypes, NEW t \in All, NEW a \in Int, Answer(t, a)
  PROVE  req' \in [All -> ReqRecords] /\ Went(t, "done", a)
  BY DEF FusionTypes, ReqRecords, Answer, Went

\* Assignments to some fields of one detector.
LEMMA DetSet ==
  ASSUME FusionTypes, NEW d \in Detectors, NEW new \in DetRecords, det' = [det EXCEPT ![d] = new]
  PROVE  det' \in [Detectors -> DetRecords] /\ OthersKept(d) /\ det'[d] = new
  BY DEF FusionTypes, OthersKept, DetRecords

Sets(d, model, ready, error, verified, lock) ==
    /\ det' \in [Detectors -> DetRecords]
    /\ OthersKept(d)
    /\ det'[d].model = model /\ det'[d].ready = ready /\ det'[d].error = error
    /\ det'[d].verified = verified /\ det'[d].lock = lock

LEMMA LockTaken ==
  ASSUME FusionTypes, NEW d \in Detectors, NEW t \in All,
         det' = [det EXCEPT ![d].lock = t]
  PROVE  Sets(d, det[d].model, det[d].ready, det[d].error, det[d].verified, t)
<1>1. PICK new : new = [det[d] EXCEPT !.lock = t]
  OBVIOUS
<1>2. det[d] \in DetRecords
  BY DEF FusionTypes, DetRecords
<1>3. new \in DetRecords /\ new.model = det[d].model /\ new.ready = det[d].ready /\ new.error = det[d].error /\ new.verified = det[d].verified /\ new.lock = t
  BY <1>1, <1>2 DEF DetRecords, Holders
<1>4. det' = [det EXCEPT ![d] = new]
  BY <1>1 DEF FusionTypes
<1> QED BY <1>3, <1>4, DetSet DEF Sets

LEMMA LoadFailed ==
  ASSUME FusionTypes, NEW d \in Detectors,
         det' = [det EXCEPT ![d].error = TRUE, ![d].lock = Nobody]
  PROVE  Sets(d, det[d].model, det[d].ready, TRUE, det[d].verified, Nobody)
<1>1. PICK new : new = [det[d] EXCEPT !.error = TRUE, !.lock = Nobody]
  OBVIOUS
<1>2. det[d] \in DetRecords
  BY DEF FusionTypes, DetRecords
<1>3. new \in DetRecords /\ new.model = det[d].model /\ new.ready = det[d].ready /\ new.error = TRUE /\ new.verified = det[d].verified /\ new.lock = Nobody
  BY <1>1, <1>2 DEF DetRecords, Holders
<1>4. det' = [det EXCEPT ![d] = new]
  BY <1>1 DEF FusionTypes
<1> QED BY <1>3, <1>4, DetSet DEF Sets

LEMMA ModelAssigned ==
  ASSUME FusionTypes, NEW d \in Detectors, NEW complete \in BOOLEAN,
         det' = [det EXCEPT ![d].model = TRUE, ![d].ready = complete]
  PROVE  Sets(d, TRUE, complete, det[d].error, det[d].verified, det[d].lock)
<1>1. PICK new : new = [det[d] EXCEPT !.model = TRUE, !.ready = complete]
  OBVIOUS
<1>2. det[d] \in DetRecords
  BY DEF FusionTypes, DetRecords
<1>3. new \in DetRecords /\ new.model = TRUE /\ new.ready = complete /\ new.error = det[d].error /\ new.verified = det[d].verified /\ new.lock = det[d].lock
  BY <1>1, <1>2 DEF DetRecords, Holders
<1>4. det' = [det EXCEPT ![d] = new]
  BY <1>1 DEF FusionTypes
<1> QED BY <1>3, <1>4, DetSet DEF Sets

LEMMA LabelsMissing ==
  ASSUME FusionTypes, NEW d \in Detectors,
         det' = [det EXCEPT ![d].error = TRUE]
  PROVE  Sets(d, det[d].model, det[d].ready, TRUE, det[d].verified, det[d].lock)
<1>1. PICK new : new = [det[d] EXCEPT !.error = TRUE]
  OBVIOUS
<1>2. det[d] \in DetRecords
  BY DEF FusionTypes, DetRecords
<1>3. new \in DetRecords /\ new.model = det[d].model /\ new.ready = det[d].ready /\ new.error = TRUE /\ new.verified = det[d].verified /\ new.lock = det[d].lock
  BY <1>1, <1>2 DEF DetRecords, Holders
<1>4. det' = [det EXCEPT ![d] = new]
  BY <1>1 DEF FusionTypes
<1> QED BY <1>3, <1>4, DetSet DEF Sets

LEMMA FieldsAssigned ==
  ASSUME FusionTypes, NEW d \in Detectors,
         det' = [det EXCEPT ![d].ready = TRUE]
  PROVE  Sets(d, det[d].model, TRUE, det[d].error, det[d].verified, det[d].lock)
<1>1. PICK new : new = [det[d] EXCEPT !.ready = TRUE]
  OBVIOUS
<1>2. det[d] \in DetRecords
  BY DEF FusionTypes, DetRecords
<1>3. new \in DetRecords /\ new.model = det[d].model /\ new.ready = TRUE /\ new.error = det[d].error /\ new.verified = det[d].verified /\ new.lock = det[d].lock
  BY <1>1, <1>2 DEF DetRecords, Holders
<1>4. det' = [det EXCEPT ![d] = new]
  BY <1>1 DEF FusionTypes
<1> QED BY <1>3, <1>4, DetSet DEF Sets

LEMMA ModelUnset ==
  ASSUME FusionTypes, NEW d \in Detectors,
         det' = [det EXCEPT ![d].model = FALSE, ![d].lock = Nobody]
  PROVE  Sets(d, FALSE, det[d].ready, det[d].error, det[d].verified, Nobody)
<1>1. PICK new : new = [det[d] EXCEPT !.model = FALSE, !.lock = Nobody]
  OBVIOUS
<1>2. det[d] \in DetRecords
  BY DEF FusionTypes, DetRecords
<1>3. new \in DetRecords /\ new.model = FALSE /\ new.ready = det[d].ready /\ new.error = det[d].error /\ new.verified = det[d].verified /\ new.lock = Nobody
  BY <1>1, <1>2 DEF DetRecords, Holders
<1>4. det' = [det EXCEPT ![d] = new]
  BY <1>1 DEF FusionTypes
<1> QED BY <1>3, <1>4, DetSet DEF Sets

LEMMA LockReturned ==
  ASSUME FusionTypes, NEW d \in Detectors,
         det' = [det EXCEPT ![d].lock = Nobody]
  PROVE  Sets(d, det[d].model, det[d].ready, det[d].error, det[d].verified, Nobody)
<1>1. PICK new : new = [det[d] EXCEPT !.lock = Nobody]
  OBVIOUS
<1>2. det[d] \in DetRecords
  BY DEF FusionTypes, DetRecords
<1>3. new \in DetRecords /\ new.model = det[d].model /\ new.ready = det[d].ready /\ new.error = det[d].error /\ new.verified = det[d].verified /\ new.lock = Nobody
  BY <1>1, <1>2 DEF DetRecords, Holders
<1>4. det' = [det EXCEPT ![d] = new]
  BY <1>1 DEF FusionTypes
<1> QED BY <1>3, <1>4, DetSet DEF Sets

LEMMA VerifiedSet ==
  ASSUME FusionTypes, NEW d \in Detectors,
         det' = [det EXCEPT ![d].verified = TRUE, ![d].lock = Nobody]
  PROVE  Sets(d, det[d].model, det[d].ready, det[d].error, TRUE, Nobody)
<1>1. PICK new : new = [det[d] EXCEPT !.verified = TRUE, !.lock = Nobody]
  OBVIOUS
<1>2. det[d] \in DetRecords
  BY DEF FusionTypes, DetRecords
<1>3. new \in DetRecords /\ new.model = det[d].model /\ new.ready = det[d].ready /\ new.error = det[d].error /\ new.verified = TRUE /\ new.lock = Nobody
  BY <1>1, <1>2 DEF DetRecords, Holders
<1>4. det' = [det EXCEPT ![d] = new]
  BY <1>1 DEF FusionTypes
<1> QED BY <1>3, <1>4, DetSet DEF Sets

-----------------------------------------------------------------------------
\* The steps at a detector: those that only look at it, and those of a load.

LookStep(t, d) ==
    /\ det' = det
    /\ \/ /\ visit[t][d] = "enter"
          /\ Moved(t, d, IF Settled(d) THEN "avail" ELSE "lock")
          /\ unverified' = unverified
       \/ /\ visit[t][d] = "lock" /\ det[d].lock = Nobody /\ Settled(d)
          /\ Moved(t, d, "avail")
          /\ unverified' = unverified
       \/ /\ visit[t][d] = "avail"
          /\ Moved(t, d, IF world.kind[d] = "head" /\ Available(d) /\ ~det[d].ready THEN "raised"
                         ELSE IF ~Available(d) THEN "failed"
                         ELSE IF req[t].at = "warming" THEN "passed" ELSE "infer")
          /\ unverified' = unverified
       \/ /\ visit[t][d] = "infer"
          /\ \E incomplete \in {"failed", "misshapen"} :
                Moved(t, d, IF ~det[d].model \/ det[d].error THEN "failed"
                            ELSE IF det[d].ready THEN "scored" ELSE incomplete)
          /\ unverified' = (unverified \/ (det[d].model /\ ~det[d].error /\ ~det[d].verified))

LoadStep(t, d) ==
    LET f == det[d] IN
    /\ unverified' = unverified
    /\ \/ /\ visit[t][d] = "lock" /\ f.lock = Nobody /\ ~Settled(d)
          /\ Moved(t, d, "build") /\ Sets(d, f.model, f.ready, f.error, f.verified, t)
       \/ /\ visit[t][d] = "build"
          /\ d \in world.broken \/ \E u \in All, e \in Detectors \ {d} : visit[u][e] = "build"
          /\ Moved(t, d, "avail") /\ Sets(d, f.model, f.ready, TRUE, f.verified, Nobody)
       \/ /\ visit[t][d] = "build" /\ d \notin world.broken /\ world.kind[d] # "nemo"
          /\ Moved(t, d, "fields") /\ Sets(d, TRUE, FALSE, f.error, f.verified, f.lock)
       \/ /\ visit[t][d] = "build" /\ d \notin world.broken /\ world.kind[d] = "nemo"
          /\ Moved(t, d, "verify") /\ Sets(d, TRUE, TRUE, f.error, f.verified, f.lock)
       \/ /\ visit[t][d] = "fields" /\ d \in world.mismatched
          /\ Moved(t, d, "unset") /\ Sets(d, f.model, f.ready, TRUE, f.verified, f.lock)
       \/ /\ visit[t][d] = "fields" /\ d \notin world.mismatched
          /\ Moved(t, d, "verify") /\ Sets(d, f.model, TRUE, f.error, f.verified, f.lock)
       \/ /\ visit[t][d] = "unset"
          /\ Moved(t, d, "avail") /\ Sets(d, FALSE, f.ready, f.error, f.verified, Nobody)
       \/ /\ visit[t][d] = "verify" /\ d \in world.tampered
          /\ Moved(t, d, "raised") /\ Sets(d, f.model, f.ready, f.error, f.verified, Nobody)
       \/ /\ visit[t][d] = "verify" /\ d \notin world.tampered
          /\ Moved(t, d, "avail") /\ Sets(d, f.model, f.ready, f.error, TRUE, Nobody)

VisitTypes == visit' \in [All -> [Detectors -> Places]]
Elsewhere == UNCHANGED <<world, artifact, policy, warm, req>>

LEMMA VisitShape ==
  ASSUME FusionTypes, NEW t \in All, NEW d \in Detectors, Visit(t, d)
  PROVE  Elsewhere /\ VisitTypes /\ (LookStep(t, d) \/ LoadStep(t, d))
<1> USE DEF Elsewhere, VisitTypes
<1>p. \A to \in Places : Put(t, d, to) => visit' \in [All -> [Detectors -> Places]] /\ Moved(t, d, to)
  BY PutMoves
<1>q. {"avail", "lock", "build", "fields", "verify", "unset", "raised", "failed", "passed", "infer",
       "scored", "misshapen"} \subseteq Places
  BY DEF Places, Inside
<1>1. CASE Enter(t, d)
  <2>1. PICK to \in {"avail", "lock"} : to = IF Settled(d) THEN "avail" ELSE "lock"
    OBVIOUS
  <2>2. Put(t, d, to)
    BY <1>1, <2>1 DEF Enter
  <2>3. visit' \in [All -> [Detectors -> Places]] /\ Moved(t, d, to)
    BY <1>p, <1>q, <2>2
  <2> QED BY <1>1, <2>1, <2>3 DEF Enter, LoadKeeps, LookStep
<1>2. CASE Acquire(t, d)
  <2>1. CASE Settled(d)
    BY <1>2, <1>p, <1>q, <2>1 DEF Acquire, LoadKeeps, LookStep
  <2>2. CASE ~Settled(d)
    <3>1. Put(t, d, "build") /\ det' = [det EXCEPT ![d].lock = t]
      BY <1>2, <2>2 DEF Acquire
    <3>2. Sets(d, det[d].model, det[d].ready, det[d].error, det[d].verified, t)
      BY <3>1, LockTaken
    <3> QED BY <1>2, <1>p, <1>q, <2>2, <3>1, <3>2 DEF Acquire, LoadKeeps, LoadStep
  <2> QED BY <2>1, <2>2
<1>3. CASE BuildFails(t, d)
  <2>1. Sets(d, det[d].model, det[d].ready, TRUE, det[d].verified, Nobody)
    BY <1>3, LoadFailed DEF BuildFails
  <2> QED BY <1>3, <1>p, <1>q, <2>1 DEF BuildFails, LoadKeeps, LoadStep
<1>4. ASSUME Assign(t, d, FALSE), world.kind[d] # "nemo"
      PROVE  Elsewhere /\ VisitTypes /\ LoadStep(t, d)
  <2>1. Put(t, d, "fields") /\ det' = [det EXCEPT ![d].model = TRUE, ![d].ready = FALSE]
    BY <1>4 DEF Assign
  <2>2. Sets(d, TRUE, FALSE, det[d].error, det[d].verified, det[d].lock)
    BY <2>1, ModelAssigned
  <2> QED BY <1>4, <1>p, <1>q, <2>1, <2>2 DEF Assign, LoadKeeps, LoadStep
<1>5. ASSUME Assign(t, d, TRUE), world.kind[d] = "nemo"
      PROVE  Elsewhere /\ VisitTypes /\ LoadStep(t, d)
  <2>1. Put(t, d, "verify") /\ det' = [det EXCEPT ![d].model = TRUE, ![d].ready = TRUE]
    BY <1>5 DEF Assign
  <2>2. Sets(d, TRUE, TRUE, det[d].error, det[d].verified, det[d].lock)
    BY <2>1, ModelAssigned
  <2> QED BY <1>5, <1>p, <1>q, <2>1, <2>2 DEF Assign, LoadKeeps, LoadStep
<1>6. CASE BuildTransformer(t, d) \/ BuildHead(t, d) \/ BuildGuard(t, d) \/ BuildNemo(t, d)
  BY <1>4, <1>5, <1>6 DEF BuildTransformer, BuildHead, BuildGuard, BuildNemo
<1>7. CASE SetFields(t, d)
  <2>1. CASE d \in world.mismatched
    <3>1. Put(t, d, "unset") /\ det' = [det EXCEPT ![d].error = TRUE]
      BY <1>7, <2>1 DEF SetFields
    <3>2. Sets(d, det[d].model, det[d].ready, TRUE, det[d].verified, det[d].lock)
      BY <3>1, LabelsMissing
    <3> QED BY <1>7, <1>p, <1>q, <2>1, <3>1, <3>2 DEF SetFields, LoadKeeps, LoadStep
  <2>2. CASE d \notin world.mismatched
    <3>1. Put(t, d, "verify") /\ det' = [det EXCEPT ![d].ready = TRUE]
      BY <1>7, <2>2 DEF SetFields
    <3>2. Sets(d, det[d].model, TRUE, det[d].error, det[d].verified, det[d].lock)
      BY <3>1, FieldsAssigned
    <3> QED BY <1>7, <1>p, <1>q, <2>2, <3>1, <3>2 DEF SetFields, LoadKeeps, LoadStep
  <2> QED BY <2>1, <2>2
<1>8. CASE UnsetModel(t, d)
  <2>1. Sets(d, FALSE, det[d].ready, det[d].error, det[d].verified, Nobody)
    BY <1>8, ModelUnset DEF UnsetModel
  <2> QED BY <1>8, <1>p, <1>q, <2>1 DEF UnsetModel, LoadKeeps, LoadStep
<1>9. CASE Verify(t, d)
  <2>1. CASE d \in world.tampered
    <3>1. Put(t, d, "raised") /\ det' = [det EXCEPT ![d].lock = Nobody]
      BY <1>9, <2>1 DEF Verify
    <3>2. Sets(d, det[d].model, det[d].ready, det[d].error, det[d].verified, Nobody)
      BY <3>1, LockReturned
    <3> QED BY <1>9, <1>p, <1>q, <2>1, <3>1, <3>2 DEF Verify, LoadKeeps, LoadStep
  <2>2. CASE d \notin world.tampered
    <3>1. Put(t, d, "avail") /\ det' = [det EXCEPT ![d].verified = TRUE, ![d].lock = Nobody]
      BY <1>9, <2>2 DEF Verify
    <3>2. Sets(d, det[d].model, det[d].ready, det[d].error, TRUE, Nobody)
      BY <3>1, VerifiedSet
    <3> QED BY <1>9, <1>p, <1>q, <2>2, <3>1, <3>2 DEF Verify, LoadKeeps, LoadStep
  <2> QED BY <2>1, <2>2
<1>10. CASE AskAvailable(t, d)
  <2>1. PICK to : to = IF world.kind[d] = "head" /\ Available(d) /\ ~det[d].ready THEN "raised"
                       ELSE IF ~Available(d) THEN "failed"
                       ELSE IF req[t].at = "warming" THEN "passed" ELSE "infer"
    OBVIOUS
  <2>2. to \in Places
    BY <1>q, <2>1
  <2>3. Put(t, d, to)
    BY <1>10, <2>1 DEF AskAvailable
  <2>4. visit' \in [All -> [Detectors -> Places]] /\ Moved(t, d, to)
    BY <1>p, <2>2, <2>3
  <2> QED BY <1>10, <2>1, <2>4 DEF AskAvailable, LoadKeeps, LookStep
<1>11. ASSUME NEW incomplete \in {"failed", "misshapen"}, Inferred(t, d, incomplete)
       PROVE  Elsewhere /\ VisitTypes /\ LookStep(t, d)
  <2>1. PICK to : to = IF ~det[d].model \/ det[d].error THEN "failed"
                       ELSE IF det[d].ready THEN "scored" ELSE incomplete
    OBVIOUS
  <2>2. to \in Places
    BY <1>q, <1>11, <2>1
  <2>3. Put(t, d, to)
    BY <1>11, <2>1 DEF Inferred
  <2>4. visit' \in [All -> [Detectors -> Places]] /\ Moved(t, d, to)
    BY <1>p, <2>2, <2>3
  <2> QED BY <1>11, <2>1, <2>4 DEF Inferred, LookStep
<1>12. CASE InferTransformer(t, d) \/ InferHead(t, d) \/ InferGuard(t, d) \/ InferNemo(t, d)
  BY <1>11, <1>12 DEF InferTransformer, InferHead, InferGuard, InferNemo
<1> QED BY <1>1, <1>2, <1>3, <1>6, <1>7, <1>8, <1>9, <1>10, <1>12 DEF Visit

\* Whatever it does, a step at a detector is one of a thread that was there.
LEMMA VisitMoves ==
  ASSUME NEW t \in All, NEW d \in Detectors, LookStep(t, d) \/ LoadStep(t, d)
  PROVE  /\ visit[t][d] # "none"
         /\ \A u \in All, e \in Detectors : (u # t \/ e # d) => visit'[u][e] = visit[u][e]
         /\ OthersKept(d)
<1>1. visit[t][d] # "none" /\ OthersKept(d)
  BY DEF LookStep, LoadStep, Sets, OthersKept
<1>2. \E to : Moved(t, d, to)
  BY DEF LookStep, LoadStep
<1>3. \A u \in All, e \in Detectors : (u # t \/ e # d) => visit'[u][e] = visit[u][e]
  BY <1>2 DEF Moved
<1> QED BY <1>1, <1>3

LEMMA VisitTyped ==
  ASSUME FusionTypes, NEW t \in All, NEW d \in Detectors, Visit(t, d)
  PROVE  FusionTypes'
<1>1. Elsewhere /\ VisitTypes /\ (LookStep(t, d) \/ LoadStep(t, d))
  BY VisitShape
<1>2. det' \in [Detectors -> DetRecords]
  BY <1>1 DEF LookStep, LoadStep, Sets, FusionTypes, DetRecords
<1>3. unverified' \in BOOLEAN
  BY <1>1 DEF LookStep, LoadStep, FusionTypes, DetRecords
<1> QED BY <1>1, <1>2, <1>3 DEF FusionTypes, Elsewhere, VisitTypes, DetRecords

LEMMA NamesStay ==
  ASSUME policy'.tiers = policy.tiers
  PROVE  Names' = Names
  BY DEF Names

LEMMA VisitOrder ==
  ASSUME FusionInv, NEW t \in All, NEW d \in Detectors, Visit(t, d)
  PROVE  Turns' /\ PolicyReadOnce' /\ StartupFirst'
<1>1. Elsewhere /\ (LookStep(t, d) \/ LoadStep(t, d))
  BY VisitShape DEF FusionInv
<1>2. /\ visit[t][d] # "none"
      /\ \A u \in All, e \in Detectors : (u # t \/ e # d) => visit'[u][e] = visit[u][e]
  BY <1>1, VisitMoves
<1>3. Names' = Names
  BY <1>1, NamesStay DEF Elsewhere
<1>4. Turns'
  BY <1>1, <1>2, <1>3 DEF FusionInv, Turns, Elsewhere
<1>5. policy.tiers # <<>>
  BY <1>2 DEF FusionInv, PolicyReadOnce, Untouched
<1>6. PolicyReadOnce'
  BY <1>1, <1>5 DEF FusionInv, PolicyReadOnce, Elsewhere
<1>7. StartupFirst'
  BY <1>1 DEF FusionInv, StartupFirst, Elsewhere
<1> QED BY <1>4, <1>6, <1>7

LEMMA VisitLocks ==
  ASSUME FusionInv, NEW t \in All, NEW d \in Detectors, Visit(t, d)
  PROVE  LocksInside'
<1>1. LookStep(t, d) \/ LoadStep(t, d)
  BY VisitShape DEF FusionInv
<1>2. /\ \A u \in All, e \in Detectors : (u # t \/ e # d) => visit'[u][e] = visit[u][e]
      /\ OthersKept(d)
  BY <1>1, VisitMoves
<1>3. \A u \in All, e \in Detectors : det[e].lock = u <=> visit[u][e] \in Inside
  BY DEF FusionInv, LocksInside
<1>4. Nobody \notin All
  BY FusionAssumption
<1>5. ASSUME NEW e \in Detectors, e # d, NEW u \in All
      PROVE  det'[e].lock = u <=> visit'[u][e] \in Inside
  BY <1>2, <1>3, <1>5 DEF OthersKept
<1>6. ASSUME NEW u \in All
      PROVE  det'[d].lock = u <=> visit'[u][d] \in Inside
  <2>1. CASE LookStep(t, d)
    <3>1. det' = det
      BY <2>1 DEF LookStep
    <3>2. visit[t][d] \notin Inside /\ visit'[t][d] \notin Inside
      BY <2>1 DEF LookStep, Moved, Inside
    <3> QED BY <1>2, <1>3, <3>1, <3>2
  <2>2. CASE LoadStep(t, d)
    <3>1. \/ visit[t][d] = "lock" /\ det[d].lock = Nobody /\ visit'[t][d] \in Inside /\ det'[d].lock = t
          \/ visit[t][d] \in Inside /\ visit'[t][d] \in Inside /\ det'[d].lock = det[d].lock
          \/ visit[t][d] \in Inside /\ visit'[t][d] \notin Inside /\ det'[d].lock = Nobody
      BY <2>2 DEF LoadStep, Moved, Sets, Inside
    <3>2. CASE visit[t][d] = "lock" /\ det[d].lock = Nobody /\ visit'[t][d] \in Inside /\ det'[d].lock = t
      BY <1>2, <1>3, <1>4, <3>2
    <3>3. CASE visit[t][d] \in Inside /\ visit'[t][d] \in Inside /\ det'[d].lock = det[d].lock
      BY <1>2, <1>3, <3>3
    <3>4. CASE visit[t][d] \in Inside /\ visit'[t][d] \notin Inside /\ det'[d].lock = Nobody
      BY <1>2, <1>3, <1>4, <3>4
    <3> QED BY <3>1, <3>2, <3>3, <3>4
  <2> QED BY <1>1, <2>1, <2>2
<1> QED BY <1>5, <1>6 DEF LocksInside

-----------------------------------------------------------------------------
\* While the warm-up has a detector in its hands, nobody else is at one.
LEMMA LoaderAlone ==
  ASSUME FusionInv, Warmable, NEW t \in All, NEW d \in Detectors,
         visit[t][d] \in Inside \union {"lock"}
  PROVE  /\ req[t].at = "warming" /\ ~warm.done
         /\ d \in Names /\ d \in ToSet(warm.todo)
         /\ \A u \in All, e \in Detectors : (u # t \/ e # d) => visit[u][e] = "none"
<1> USE DEF FusionInv
<1>1. req[t].at = "warming" /\ ~warm.done
  BY DEF WarmedFirst, PlaceFine
<1>2. visit[t][d] # "none"
  BY DEF Inside
<1>3. warm.todo # <<>> /\ d = Head(warm.todo) /\ d \in Names
  BY <1>1, <1>2 DEF Turns
<1>4. d \in ToSet(warm.todo)
  <2>1. PICK todo \in Seq(Detectors) : todo = warm.todo
    BY DEF FusionTypes
  <2>2. 1 \in DOMAIN todo /\ Head(todo) = todo[1]
    BY <1>3, <2>1
  <2> QED BY <1>3, <2>1, <2>2 DEF ToSet
<1>5. ASSUME NEW u \in All, NEW e \in Detectors, u # t \/ e # d, visit[u][e] # "none"
      PROVE  FALSE
  <2>1. (req[u].at = "warming" /\ e = Head(warm.todo)) \/ req[u].at = "collect"
    BY <1>5 DEF Turns
  <2>2. req[u].at # "collect"
    BY <1>1 DEF WarmedFirst
  <2>3. warm.lock = u /\ warm.lock = t
    BY <1>1, <2>1, <2>2 DEF Turns
  <2> QED BY <1>3, <1>5, <2>1, <2>2, <2>3
<1> QED BY <1>1, <1>3, <1>4, <1>5

\* A step at one detector keeps what is said of the others and of the requests.
LEMMA VisitKeeps ==
  ASSUME FusionInv, Warmable, NEW t \in All, NEW d \in Detectors, Elsewhere,
         \A u \in All, e \in Detectors : (u # t \/ e # d) => visit'[u][e] = visit[u][e],
         OthersKept(d),
         det'[d] = det[d] \/ visit[t][d] \in Inside \union {"lock"},
         visit'[t][d] \notin Inside => Untried(d)' \/ Loaded(d)',
         PlaceFine(t, d)', ~unverified'
  PROVE  WarmedFirst'
<1>1. WarmedFirst
  BY DEF FusionInv
<1>2. Names' = Names /\ Names \subseteq Detectors
  BY NamesStay, NamesType DEF Elsewhere, FusionInv
<1>3. Healthy' = Healthy /\ TierOf(Healthy)' = TierOf(Healthy)
  BY DEF Elsewhere, Healthy, TierOf
<1>4. visit[t][d] \in Inside \union {"lock"} =>
        /\ req[t].at = "warming" /\ ~warm.done
        /\ d \in Names /\ d \in ToSet(warm.todo)
        /\ \A u \in All, e \in Detectors : (u # t \/ e # d) => visit[u][e] = "none"
  BY LoaderAlone
<1>5. ASSUME NEW e \in Detectors, det'[e] = det[e]
      PROVE  (Untried(e)' <=> Untried(e)) /\ (Loaded(e)' <=> Loaded(e))
  BY <1>3, <1>5 DEF Untried, Loaded, Has
<1>6. \A e \in Detectors : e # d => det'[e] = det[e]
  BY DEF OthersKept
<1>7. warm' = warm /\ req' = req /\ world' = world
  BY DEF Elsewhere
<1>8. (warm.done => \A e \in Names : Loaded(e))'
  <2>1. SUFFICES ASSUME warm.done, NEW e \in Names PROVE Loaded(e)'
    BY <1>2, <1>7
  <2>2. det'[e] = det[e]
    BY <1>2, <1>4, <1>6, <2>1
  <2> QED BY <1>1, <1>2, <1>5, <2>1, <2>2 DEF WarmedFirst
<1>9. ASSUME NEW u \in All
      PROVE  (/\ req[u].at \in {"score", "collect"} => warm.done
              /\ req[u].at = "warming" => ~warm.done /\ \A e \in Names \ ToSet(warm.todo) : Loaded(e))'
  <2>1. req[u].at \in {"score", "collect"} => warm.done
    BY <1>1 DEF WarmedFirst
  <2>2. ASSUME req[u].at = "warming", NEW e \in Names \ ToSet(warm.todo)
        PROVE  Loaded(e)'
    <3>1. det'[e] = det[e]
      BY <1>2, <1>4, <1>6
    <3> QED BY <1>1, <1>2, <1>5, <2>2, <3>1 DEF WarmedFirst
  <2>3. req[u].at = "warming" => ~warm.done
    BY <1>1 DEF WarmedFirst
  <2> QED BY <1>2, <1>7, <2>1, <2>2, <2>3
<1>10. ASSUME NEW e \in Names, \A u \in All : visit'[u][e] \notin Inside
       PROVE  (Untried(e) \/ Loaded(e))'
  <2>1. CASE e = d
    BY <1>10, <2>1
  <2>2. CASE e # d
    <3>1. \A u \in All : visit[u][e] \notin Inside
      BY <1>2, <1>10, <2>2
    <3> QED BY <1>1, <1>2, <1>5, <1>6, <2>2, <3>1 DEF WarmedFirst
  <2> QED BY <2>1, <2>2
<1>11. ASSUME NEW u \in All, NEW e \in Detectors PROVE PlaceFine(u, e)'
  <2>1. CASE u = t /\ e = d
    BY <2>1
  <2>2. CASE (u # t \/ e # d) /\ visit[u][e] = "none"
    BY <2>2 DEF PlaceFine, Inside
  <2>3. CASE (u # t \/ e # d) /\ visit[u][e] # "none"
    <3>1. visit'[u][e] = visit[u][e] /\ det'[e] = det[e]
      BY <1>4, <1>6, <2>3
    <3>2. PlaceFine(u, e)
      BY <1>1 DEF WarmedFirst
    <3> QED BY <1>3, <1>5, <1>7, <3>1, <3>2 DEF PlaceFine, Has
  <2> QED BY <2>1, <2>2, <2>3
<1>12. (\A u \in Threads : req[u].at = "done" /\ req[u].answer # NoPolicy => req[u].answer = TierOf(Healthy))'
  BY <1>1, <1>3, <1>7 DEF WarmedFirst
<1> QED BY <1>2, <1>8, <1>9, <1>10, <1>11, <1>12 DEF WarmedFirst

\* Looking at a detector that nobody is loading.
LEMMA LookKeeps ==
  ASSUME FusionInv, Warmable, NEW t \in All, NEW d \in Detectors, Elsewhere, LookStep(t, d)
  PROVE  ~unverified' /\ PlaceFine(t, d)' /\ (Untried(d)' \/ Loaded(d)')
<1> USE DEF FusionInv
<1>1. WarmedFirst /\ PlaceFine(t, d) /\ det' = det /\ req' = req /\ world' = world
  BY DEF WarmedFirst, LookStep, Elsewhere
<1>2. visit[t][d] # "none" /\ visit[t][d] \notin Inside
  BY DEF LookStep, Inside
<1>3. d \in Names
  BY <1>2 DEF Turns
<1>4. \A u \in All : visit[u][d] \notin Inside
  <2>1. ASSUME NEW u \in All, visit[u][d] \in Inside PROVE FALSE
    <3>1. u # t => visit[t][d] = "none"
      BY <2>1, LoaderAlone
    <3> QED BY <1>2, <2>1, <3>1
  <2> QED BY <2>1
<1>5. Untried(d) \/ Loaded(d)
  BY <1>1, <1>3, <1>4 DEF WarmedFirst
<1>6. Healthy' = Healthy
  BY <1>1 DEF Healthy
<1>7. (Untried(d)' <=> Untried(d)) /\ (Loaded(d)' <=> Loaded(d))
  BY <1>1, <1>6 DEF Untried, Loaded, Has
<1>8. Settled(d) => Loaded(d)
  BY <1>5 DEF Settled, Untried, Has
<1>9. Loaded(d) => /\ Settled(d)
                   /\ det[d].model <=> d \in Healthy
                   /\ det[d].ready <=> d \in Healthy
                   /\ det[d].error <=> d \notin Healthy
                   /\ det[d].verified <=> d \in Healthy
  BY DEF Loaded, Has, Settled
<1>10. req[t].at = "warming" \/ (req[t].at = "collect" /\ Loaded(d))
  BY <1>1, <1>2, <1>3 DEF Turns, WarmedFirst
<1>11. CASE visit[t][d] = "enter"
  <2>1. visit'[t][d] = (IF Settled(d) THEN "avail" ELSE "lock") /\ unverified' = unverified
    BY <1>11 DEF LookStep, Moved
  <2>2. CASE Settled(d)
    BY <1>1, <1>7, <1>8, <2>1, <2>2 DEF PlaceFine, Inside, WarmedFirst
  <2>3. CASE ~Settled(d)
    BY <1>1, <1>5, <1>7, <1>9, <1>10, <2>1, <2>3 DEF PlaceFine, Inside, WarmedFirst
  <2> QED BY <2>2, <2>3
<1>12. CASE visit[t][d] = "lock"
  <2>1. visit'[t][d] = "avail" /\ unverified' = unverified /\ Settled(d)
    BY <1>12 DEF LookStep, Moved
  <2> QED BY <1>1, <1>7, <1>8, <2>1 DEF PlaceFine, Inside, WarmedFirst
<1>13. CASE visit[t][d] = "avail"
  <2>1. Loaded(d)
    BY <1>1, <1>13 DEF PlaceFine
  <2>2. Available(d) <=> d \in Healthy
    BY <1>9, <2>1 DEF Available, AvailableByError, AvailableByModel
  <2>3. /\ unverified' = unverified
        /\ visit'[t][d] = IF d \notin Healthy THEN "failed"
                          ELSE IF req[t].at = "warming" THEN "passed" ELSE "infer"
    BY <1>9, <1>13, <2>1, <2>2 DEF LookStep, Moved
  <2> QED BY <1>1, <1>6, <1>7, <2>1, <2>3 DEF PlaceFine, Inside, WarmedFirst
<1>14. CASE visit[t][d] = "infer"
  <2>1. Loaded(d) /\ d \in Healthy
    BY <1>1, <1>14 DEF PlaceFine
  <2>2. visit'[t][d] = "scored" /\ ~unverified'
    BY <1>1, <1>9, <1>14, <2>1 DEF LookStep, Moved, WarmedFirst
  <2> QED BY <1>6, <1>7, <2>1, <2>2 DEF PlaceFine, Inside
<1> QED BY <1>11, <1>12, <1>13, <1>14 DEF LookStep

\* Each step of a load that nobody disturbs.
LEMMA LoadKeepsFine ==
  ASSUME FusionInv, Warmable, NEW t \in All, NEW d \in Detectors, Elsewhere, LoadStep(t, d)
  PROVE  /\ visit[t][d] \in Inside \union {"lock"}
         /\ ~unverified' /\ PlaceFine(t, d)'
         /\ visit'[t][d] \notin Inside => Loaded(d)'
<1> USE DEF FusionInv
<1>1. visit[t][d] \in Inside \union {"lock"}
  BY DEF LoadStep, Inside
<1>2. /\ req[t].at = "warming" /\ d \in Names
      /\ \A u \in All, e \in Detectors : (u # t \/ e # d) => visit[u][e] = "none"
  BY <1>1, LoaderAlone
<1>3. WarmedFirst /\ PlaceFine(t, d) /\ req' = req /\ world' = world /\ ~unverified'
  BY DEF WarmedFirst, Elsewhere, LoadStep
<1>4. Healthy' = Healthy /\ (d \in Healthy <=> d \notin world.broken /\ d \notin world.mismatched)
  BY <1>3 DEF Healthy
<1>5. world.kind[d] = "nemo" => d \notin world.mismatched
  BY FusionAssumption DEF FusionTypes
<1>6. CASE visit[t][d] = "lock"
  <2>1. \A u \in All : visit[u][d] \notin Inside
    BY <1>2, <1>6 DEF Inside
  <2>2. Untried(d)
    BY <1>2, <1>3, <1>6, <2>1 DEF LoadStep, WarmedFirst, Loaded, Settled, Has, Inside
  <2>3. visit'[t][d] = "build" /\ Has(d, FALSE, FALSE, FALSE, FALSE, t)'
    BY <1>6, <2>2 DEF LoadStep, Moved, Sets, Untried, Has
  <2> QED BY <1>1, <1>2, <1>3, <2>3 DEF PlaceFine, Inside
<1>7. CASE visit[t][d] = "build"
  <2>1. Has(d, FALSE, FALSE, FALSE, FALSE, t)
    BY <1>3, <1>7 DEF PlaceFine
  <2>2. ~\E u \in All, e \in Detectors \ {d} : visit[u][e] = "build"
    BY <1>2
  <2>3. CASE d \in world.broken
    <3>1. visit'[t][d] = "avail" /\ Has(d, FALSE, FALSE, TRUE, FALSE, Nobody)'
      BY <1>7, <2>1, <2>3 DEF LoadStep, Moved, Sets, Has
    <3>2. Loaded(d)'
      BY <1>4, <2>3, <3>1 DEF Loaded
    <3> QED BY <1>1, <1>3, <3>1, <3>2 DEF PlaceFine, Inside
  <2>4. CASE d \notin world.broken /\ world.kind[d] # "nemo"
    <3>1. visit'[t][d] = "fields" /\ Has(d, TRUE, FALSE, FALSE, FALSE, t)'
      BY <1>7, <2>1, <2>2, <2>4 DEF LoadStep, Moved, Sets, Has
    <3> QED BY <1>1, <1>2, <1>3, <2>4, <3>1 DEF PlaceFine, Inside
  <2>5. CASE d \notin world.broken /\ world.kind[d] = "nemo"
    <3>1. visit'[t][d] = "verify" /\ Has(d, TRUE, TRUE, FALSE, FALSE, t)'
      BY <1>7, <2>1, <2>2, <2>5 DEF LoadStep, Moved, Sets, Has
    <3> QED BY <1>1, <1>2, <1>3, <1>4, <1>5, <2>5, <3>1 DEF PlaceFine, Inside
  <2> QED BY <2>3, <2>4, <2>5
<1>8. CASE visit[t][d] = "fields"
  <2>1. Has(d, TRUE, FALSE, FALSE, FALSE, t) /\ d \notin world.broken
    BY <1>3, <1>8 DEF PlaceFine
  <2>2. CASE d \in world.mismatched
    <3>1. visit'[t][d] = "unset" /\ Has(d, TRUE, FALSE, TRUE, FALSE, t)'
      BY <1>8, <2>1, <2>2 DEF LoadStep, Moved, Sets, Has
    <3> QED BY <1>1, <1>2, <1>3, <1>4, <2>2, <3>1 DEF PlaceFine, Inside
  <2>3. CASE d \notin world.mismatched
    <3>1. visit'[t][d] = "verify" /\ Has(d, TRUE, TRUE, FALSE, FALSE, t)'
      BY <1>8, <2>1, <2>3 DEF LoadStep, Moved, Sets, Has
    <3> QED BY <1>1, <1>2, <1>3, <1>4, <2>1, <2>3, <3>1 DEF PlaceFine, Inside
  <2> QED BY <2>2, <2>3
<1>9. CASE visit[t][d] = "unset"
  <2>1. Has(d, TRUE, FALSE, TRUE, FALSE, t) /\ d \notin Healthy
    BY <1>3, <1>9 DEF PlaceFine
  <2>2. visit'[t][d] = "avail" /\ Has(d, FALSE, FALSE, TRUE, FALSE, Nobody)'
    BY <1>9, <2>1 DEF LoadStep, Moved, Sets, Has
  <2> QED BY <1>1, <1>3, <1>4, <2>1, <2>2 DEF PlaceFine, Inside, Loaded
<1>10. CASE visit[t][d] = "verify"
  <2>1. Has(d, TRUE, TRUE, FALSE, FALSE, t) /\ d \in Healthy
    BY <1>3, <1>10 DEF PlaceFine
  <2>2. d \notin world.tampered
    BY DEF Warmable
  <2>3. visit'[t][d] = "avail" /\ Has(d, TRUE, TRUE, FALSE, TRUE, Nobody)'
    BY <1>10, <2>1, <2>2 DEF LoadStep, Moved, Sets, Has
  <2>4. Loaded(d)'
    BY <1>4, <2>1, <2>3 DEF Loaded
  <2> QED BY <1>1, <1>3, <2>3, <2>4 DEF PlaceFine, Inside
<1> QED BY <1>6, <1>7, <1>8, <1>9, <1>10 DEF LoadStep

LEMMA VisitWarm ==
  ASSUME FusionInv, NEW t \in All, NEW d \in Detectors, Visit(t, d), Warmable'
  PROVE  WarmedFirst'
<1>1. Elsewhere /\ (LookStep(t, d) \/ LoadStep(t, d))
  BY VisitShape DEF FusionInv
<1>2. Warmable
  BY <1>1, NamesStay DEF Warmable, Elsewhere
<1>3. /\ \A u \in All, e \in Detectors : (u # t \/ e # d) => visit'[u][e] = visit[u][e]
      /\ OthersKept(d)
  BY <1>1, VisitMoves
<1>4. CASE LookStep(t, d)
  <2>1. det'[d] = det[d]
    BY <1>4 DEF LookStep
  <2> QED BY <1>1, <1>2, <1>3, <1>4, <2>1, LookKeeps, VisitKeeps
<1>5. CASE LoadStep(t, d)
  BY <1>1, <1>2, <1>3, <1>5, LoadKeepsFine, VisitKeeps
<1> QED BY <1>1, <1>4, <1>5
-----------------------------------------------------------------------------
\* What the steps of a request leave alone.

SameModels == UNCHANGED <<world, artifact, det, unverified>>

LEMMA LocksStay ==
  ASSUME FusionInv, det' = det,
         \A u \in All, d \in Detectors : visit'[u][d] \in Inside <=> visit[u][d] \in Inside
  PROVE  LocksInside'
  BY DEF FusionInv, LocksInside

\* Beyond the policy: it is there, and nobody reads it any more.
LEMMA LateStep ==
  ASSUME FusionInv, NEW t \in All, req[t].at \in {"warm", "warming", "score", "collect"},
         world' = world, policy' = policy,
         NEW to \in {"warming", "score", "collect", "done"}, NEW answer, Went(t, to, answer),
         to = "done" => answer # NoPolicy
  PROVE  PolicyReadOnce' /\ StartupFirst'
<1>1. policy.tiers # <<>> /\ policy.loaded
  BY DEF FusionInv, PolicyReadOnce, Untouched
<1>2. \A u \in All : req[u].at # "reading" /\ req'[u].at # "reading"
  BY <1>1 DEF FusionInv, PolicyReadOnce, Went
<1>3. PolicyReadOnce'
  BY <1>1, <1>2 DEF PolicyReadOnce
<1>4. StartupFirst'
  <2>1. Startup \in All /\ Threads \subseteq All /\ Startup \notin Threads
    BY FusionAssumption DEF All
  <2>2. SUFFICES ASSUME world.startup
                 PROVE  /\ req'[Startup].at # "done" => \A u \in Threads : req'[u].at = "idle"
                        /\ \A u \in Threads : ~(req'[u].at = "done" /\ req'[u].answer = NoPolicy)
    BY <1>1, <1>2 DEF StartupFirst
  <2>3. /\ req[Startup].at # "done" => \A u \in Threads : req[u].at = "idle"
        /\ \A u \in Threads : ~(req[u].at = "done" /\ req[u].answer = NoPolicy)
    BY <1>1, <2>2 DEF FusionInv, StartupFirst
  <2>4. \A u \in Threads : ~(req'[u].at = "done" /\ req'[u].answer = NoPolicy)
    BY <2>1, <2>3 DEF Went
  <2>5. ASSUME req'[Startup].at # "done" PROVE \A u \in Threads : req'[u].at = "idle"
    <3>1. req[Startup].at # "done"
      BY <2>1, <2>5 DEF Went
    <3>2. t = Startup
      BY <2>1, <2>3, <3>1 DEF All
    <3> QED BY <2>1, <2>3, <3>1, <3>2 DEF Went
  <2> QED BY <2>4, <2>5
<1> QED BY <1>3, <1>4

\* What is known of the detectors stays, when a request moves.
LEMMA RequestWarm ==
  ASSUME FusionInv, Warmable, NEW t \in All, SameModels, policy'.tiers = policy.tiers,
         NEW to, NEW answer, Went(t, to, answer),
         \A u \in All, d \in Detectors : u # t => visit'[u][d] = visit[u][d],
         \A u \in All, d \in Detectors : visit'[u][d] \in Inside <=> visit[u][d] \in Inside,
         \A d \in Detectors : PlaceFine(t, d)',
         warm'.done => \A d \in Names : Loaded(d),
         \A u \in All : /\ req'[u].at \in {"score", "collect"} => warm'.done
                        /\ req'[u].at = "warming" =>
                              ~warm'.done /\ \A d \in Names \ ToSet(warm'.todo) : Loaded(d),
         t \in Threads /\ to = "done" /\ answer # NoPolicy => answer = TierOf(Healthy)
  PROVE  WarmedFirst'
<1>1. WarmedFirst
  BY DEF FusionInv
<1>2. Names' = Names /\ Names \subseteq Detectors
  BY NamesStay, NamesType DEF FusionInv
<1>3. Healthy' = Healthy /\ TierOf(Healthy)' = TierOf(Healthy)
  BY DEF SameModels, Healthy, TierOf
<1>4. ASSUME NEW d \in Detectors
      PROVE  (Untried(d)' <=> Untried(d)) /\ (Loaded(d)' <=> Loaded(d))
  BY <1>3 DEF SameModels, Untried, Loaded, Has
<1>5. (warm.done => \A d \in Names : Loaded(d))'
  BY <1>2, <1>4
<1>6. ASSUME NEW u \in All
      PROVE  (/\ req[u].at \in {"score", "collect"} => warm.done
              /\ req[u].at = "warming" => ~warm.done /\ \A d \in Names \ ToSet(warm.todo) : Loaded(d))'
  BY <1>2, <1>4
<1>7. (\A d \in Names : (\A u \in All : visit[u][d] \notin Inside) => Untried(d) \/ Loaded(d))'
  BY <1>1, <1>2, <1>4 DEF WarmedFirst
<1>8. ASSUME NEW u \in All, NEW d \in Detectors PROVE PlaceFine(u, d)'
  <2>1. CASE u = t
    BY <2>1
  <2>2. CASE u # t
    <3>1. visit'[u][d] = visit[u][d] /\ req'[u].at = req[u].at /\ det' = det /\ world' = world
      BY <2>2 DEF Went, SameModels
    <3>2. PlaceFine(u, d)
      BY <1>1 DEF WarmedFirst
    <3> QED BY <1>3, <1>4, <3>1, <3>2 DEF PlaceFine, Has
  <2> QED BY <2>1, <2>2
<1>9. (\A u \in Threads : req[u].at = "done" /\ req[u].answer # NoPolicy => req[u].answer = TierOf(Healthy))'
  <2>1. SUFFICES ASSUME NEW u \in Threads, req'[u].at = "done", req'[u].answer # NoPolicy
                 PROVE  req'[u].answer = TierOf(Healthy)
    BY <1>3
  <2>2. u \in All
    BY DEF All
  <2> QED BY <1>1, <2>1, <2>2 DEF WarmedFirst, Went
<1>10. ~unverified'
  BY <1>1 DEF WarmedFirst, SameModels
<1> QED BY <1>5, <1>6, <1>7, <1>8, <1>9, <1>10 DEF WarmedFirst

\* A thread that is at no detector says nothing of one.
LEMMA NowhereFine ==
  ASSUME NEW t, NEW d, visit'[t][d] \in {"none", "queued", "enter"}
  PROVE  PlaceFine(t, d)'
  BY DEF PlaceFine, Inside

LEMMA WarmableStays ==
  ASSUME Warmable', world' = world, policy'.tiers = policy.tiers
  PROVE  Warmable
  BY NamesStay DEF Warmable

-----------------------------------------------------------------------------
\* The policy, and whether there is one.

LEMMA BeginInv ==
  ASSUME FusionInv, NEW t \in All, Begin(t)
  PROVE  FusionInv'
<1>1. SameModels /\ policy' = policy /\ warm' = warm /\ visit' = visit /\ req[t].at = "idle"
  BY DEF Begin, SameModels
<1>2. req' \in [All -> ReqRecords] /\ Went(t, "policy", req[t].answer)
  BY GotoWent DEF FusionInv, Begin
<1>3. FusionTypes'
  BY <1>1, <1>2 DEF FusionInv, FusionTypes, SameModels, ReqRecords
<1>4. Names' = Names
  BY <1>1, NamesStay
<1>5. Turns'
  BY <1>1, <1>2, <1>4 DEF FusionInv, Turns, Went
<1>6. LocksInside'
  BY <1>1, LocksStay DEF SameModels
<1>7. PolicyReadOnce'
  BY <1>1, <1>2 DEF FusionInv, PolicyReadOnce, Untouched, Went, SameModels
<1>8. StartupFirst'
  <2>1. Startup \in All /\ Threads \subseteq All /\ Startup \notin Threads
    BY FusionAssumption DEF All
  <2>2. t # Startup /\ world.startup => req[Startup].at = "done"
    BY DEF Begin
  <2>3. t = Startup \/ t \in Threads
    BY DEF All
  <2> QED BY <1>1, <1>2, <2>1, <2>2, <2>3 DEF FusionInv, StartupFirst, Went, SameModels
<1>9. ASSUME Warmable' PROVE WarmedFirst'
  <2>1. Warmable /\ WarmedFirst
    BY <1>1, <1>9, WarmableStays DEF SameModels, FusionInv
  <2>2. \A d \in Detectors : PlaceFine(t, d)'
    BY <1>1, NowhereFine DEF FusionInv, Turns
  <2>3. /\ warm'.done => \A d \in Names : Loaded(d)
        /\ \A u \in All : /\ req'[u].at \in {"score", "collect"} => warm'.done
                          /\ req'[u].at = "warming" =>
                                ~warm'.done /\ \A d \in Names \ ToSet(warm'.todo) : Loaded(d)
    BY <1>1, <1>2, <2>1 DEF WarmedFirst, Went
  <2> QED BY <1>1, <1>2, <2>1, <2>2, <2>3, RequestWarm
<1> QED BY <1>3, <1>5, <1>6, <1>7, <1>8, <1>9 DEF FusionInv

LEMMA LoadPolicyInv ==
  ASSUME FusionInv, NEW t \in All, LoadPolicy(t)
  PROVE  FusionInv'
<1>1. /\ SameModels /\ warm' = warm /\ visit' = visit /\ req[t].at = "policy"
      /\ policy' \in [loaded: BOOLEAN, tiers: TierTables]
      /\ policy'.loaded /\ policy'.tiers = policy.tiers
  BY DEF LoadPolicy, SameModels, FusionInv, FusionTypes
<1>2. PICK to, answer :
        /\ req' \in [All -> ReqRecords] /\ Went(t, to, answer)
        /\ \/ to = "reading" /\ ~policy.loaded
           \/ to = "done" /\ answer = NoPolicy /\ policy.loaded /\ policy.tiers = <<>>
           \/ to = "warm" /\ policy.tiers # <<>>
           \/ /\ to = "score" /\ policy.tiers # <<>> /\ t # Startup
              /\ ~(world.parallel /\ Cardinality(Names) > 1)
  <2>1. CASE ~policy.loaded
    BY <2>1, GotoWent DEF FusionInv, LoadPolicy
  <2>2. CASE policy.loaded /\ policy.tiers = <<>>
    BY <2>2, AnswerWent DEF FusionInv, LoadPolicy, NoPolicy
  <2>3. CASE policy.loaded /\ policy.tiers # <<>> /\ (t = Startup \/ (world.parallel /\ Cardinality(Names) > 1))
    <3>1. Goto(t, "warm")
      BY <2>3 DEF LoadPolicy
    <3> QED BY <2>3, <3>1, GotoWent DEF FusionInv
  <2>4. CASE policy.loaded /\ policy.tiers # <<>> /\ ~(t = Startup \/ (world.parallel /\ Cardinality(Names) > 1))
    <3>1. Goto(t, "score")
      BY <2>4 DEF LoadPolicy
    <3> QED BY <2>4, <3>1, GotoWent DEF FusionInv
  <2> QED BY <2>1, <2>2, <2>3, <2>4
<1>3. FusionTypes'
  BY <1>1, <1>2 DEF FusionInv, FusionTypes, SameModels, ReqRecords
<1>4. Names' = Names
  BY <1>1, NamesStay
<1>5. Turns'
  BY <1>1, <1>2, <1>4 DEF FusionInv, Turns, Went
<1>6. LocksInside'
  BY <1>1, LocksStay DEF SameModels
<1>7. PolicyReadOnce'
  <2>1. ~policy.loaded => policy.tiers = <<>> /\ \A u \in All : req[u].at # "reading"
    BY DEF FusionInv, PolicyReadOnce
  <2>2. (policy.tiers = <<>> => Untouched)'
    BY <1>1, <1>2 DEF FusionInv, PolicyReadOnce, Untouched, Went, SameModels
  <2>3. (\A u \in All : req[u].at = "reading" => policy.loaded /\ policy.tiers = <<>>)'
    BY <1>1, <1>2, <2>1 DEF FusionInv, PolicyReadOnce, Went
  <2>4. (\A u, v \in All : req[u].at = "reading" /\ req[v].at = "reading" => u = v)'
    BY <1>2, <2>1 DEF FusionInv, PolicyReadOnce, Went
  <2> QED BY <1>1, <2>2, <2>3, <2>4 DEF PolicyReadOnce
<1>8. StartupFirst'
  <2>1. Startup \in All /\ Threads \subseteq All /\ Startup \notin Threads /\ All = Threads \union {Startup}
    BY FusionAssumption DEF All
  <2>2. SUFFICES ASSUME world.startup
                 PROVE  /\ req'[Startup].at # "done" => \A u \in Threads : req'[u].at = "idle"
                        /\ req'[Startup].at = "done" => \A u \in All : req'[u].at # "reading"
                        /\ \A u \in Threads :
                              req'[u].at = "done" /\ req'[u].answer = NoPolicy => policy.tiers = <<>>
    BY <1>1 DEF StartupFirst, SameModels
  <2>3. /\ req[Startup].at # "done" => \A u \in Threads : req[u].at = "idle"
        /\ req[Startup].at = "done" => policy.loaded /\ \A u \in All : req[u].at # "reading"
        /\ \A u \in Threads : req[u].at = "done" /\ req[u].answer = NoPolicy => policy.tiers = <<>>
    BY <2>2 DEF FusionInv, StartupFirst
  <2>4. req'[Startup].at # "done" => \A u \in Threads : req'[u].at = "idle"
    BY <1>1, <1>2, <2>1, <2>3 DEF Went
  <2>5. req'[Startup].at = "done" => \A u \in All : req'[u].at # "reading"
    BY <1>1, <1>2, <2>1, <2>3 DEF Went
  <2>6. \A u \in Threads : req'[u].at = "done" /\ req'[u].answer = NoPolicy => policy.tiers = <<>>
    BY <1>1, <1>2, <2>1, <2>3 DEF Went
  <2> QED BY <2>4, <2>5, <2>6
<1>9. ASSUME Warmable' PROVE WarmedFirst'
  <2>1. Warmable /\ WarmedFirst
    BY <1>1, <1>9, WarmableStays DEF SameModels, FusionInv
  <2>2. \A d \in Detectors : PlaceFine(t, d)'
    BY <1>1, NowhereFine DEF FusionInv, Turns
  <2>3. to # "score"
    BY <1>2, <2>1 DEF Warmable
  <2>4. /\ warm'.done => \A d \in Names : Loaded(d)
        /\ \A u \in All : /\ req'[u].at \in {"score", "collect"} => warm'.done
                          /\ req'[u].at = "warming" =>
                                ~warm'.done /\ \A d \in Names \ ToSet(warm'.todo) : Loaded(d)
    BY <1>1, <1>2, <2>1, <2>3 DEF WarmedFirst, Went
  <2> QED BY <1>1, <1>2, <2>1, <2>2, <2>4, RequestWarm
<1> QED BY <1>3, <1>5, <1>6, <1>7, <1>8, <1>9 DEF FusionInv

LEMMA ReadPolicyInv ==
  ASSUME FusionInv, NEW t \in All, ReadPolicy(t)
  PROVE  FusionInv'
<1>1. SameModels /\ warm' = warm /\ visit' = visit /\ req[t].at = "reading"
  BY DEF ReadPolicy, SameModels
<1>2. req' \in [All -> ReqRecords] /\ Went(t, "policy", req[t].answer)
  BY GotoWent DEF FusionInv, ReadPolicy
<1>3. policy.loaded /\ policy.tiers = <<>> /\ Untouched /\ \A u \in All : u # t => req[u].at # "reading"
  BY <1>1 DEF FusionInv, PolicyReadOnce
<1>4. policy' \in [loaded: BOOLEAN, tiers: TierTables] /\ policy'.loaded
  <2>1. PICK tiers \in TierTables : tiers = ValidTiers(artifact)
    BY DEF FusionInv, FusionTypes, TierTables
  <2>2. policy' = [policy EXCEPT !.tiers = tiers]
    BY <2>1 DEF ReadPolicy
  <2> QED BY <1>3, <2>2 DEF FusionInv, FusionTypes
<1>5. FusionTypes'
  BY <1>1, <1>2, <1>4 DEF FusionInv, FusionTypes, SameModels, ReqRecords
<1>6. Turns'
  <2>1. ToSet(warm.todo) = {}
    BY <1>3, NoTiersNoNames DEF FusionInv, Turns
  <2> QED BY <1>1, <1>2, <1>3, <2>1 DEF FusionInv, Turns, Went, Untouched
<1>7. LocksInside'
  BY <1>1, LocksStay DEF SameModels
<1>8. Untouched'
  BY <1>1, <1>2, <1>3 DEF Untouched, Went, SameModels
<1>9. PolicyReadOnce'
  BY <1>1, <1>2, <1>3, <1>4, <1>8 DEF PolicyReadOnce, Went
<1>10. StartupFirst'
  <2>1. Startup \in All /\ Threads \subseteq All /\ Startup \notin Threads /\ All = Threads \union {Startup}
    BY FusionAssumption DEF All
  <2>2. world.startup => t = Startup /\ \A u \in Threads : req[u].at = "idle"
    BY <1>1, <2>1 DEF FusionInv, StartupFirst
  <2> QED BY <1>1, <1>2, <2>1, <2>2 DEF StartupFirst, Went, SameModels
<1>11. WarmedFirst'
  <2>1. \A d \in Detectors : Untried(d)'
    BY <1>8 DEF Untouched, Untried, Has, Cold
  <2>2. \A u \in All, d \in Detectors : PlaceFine(u, d)'
    BY <1>8, NowhereFine DEF Untouched
  <2>3. Names' \subseteq Detectors
    BY <1>4, TableTypes DEF Names
  <2>4. (\A u \in Threads : req[u].at = "done" /\ req[u].answer # NoPolicy => req[u].answer = TierOf(Healthy))'
    BY <1>8 DEF Untouched, All
  <2> QED BY <1>8, <2>1, <2>2, <2>3, <2>4 DEF WarmedFirst, Untouched
<1> QED BY <1>5, <1>6, <1>7, <1>9, <1>10, <1>11 DEF FusionInv

-----------------------------------------------------------------------------
\* The warm-up.

LEMMA AfterWarmWent ==
  ASSUME FusionInv, NEW t \in All, AfterWarm(t)
  PROVE  \E to \in {"score", "done"}, answer \in Int :
            /\ req' \in [All -> ReqRecords] /\ Went(t, to, answer)
            /\ to = "done" => t \notin Threads /\ answer # NoPolicy
<1>1. CASE t = Startup
  <2>1. Answer(t, Unavailable)
    BY <1>1 DEF AfterWarm
  <2>2. req' \in [All -> ReqRecords] /\ Went(t, "done", Unavailable)
    BY <2>1, AnswerWent DEF FusionInv, Unavailable
  <2>3. t \notin Threads /\ Unavailable \in Int /\ Unavailable # NoPolicy
    BY <1>1, FusionAssumption DEF Unavailable, NoPolicy
  <2> QED BY <2>2, <2>3
<1>2. CASE t # Startup
  <2>1. Goto(t, "score")
    BY <1>2 DEF AfterWarm
  <2>2. req[t].answer \in Int
    BY DEF FusionInv, FusionTypes
  <2> QED BY <2>1, <2>2, GotoWent DEF FusionInv
<1> QED BY <1>1, <1>2

\* The thread that warms up is at no other detector than the next one.
LEMMA WarmerAt ==
  ASSUME FusionInv, NEW t \in All, req[t].at = "warming", warm.todo # <<>>
  PROVE  \E d \in Detectors :
            /\ d = Head(warm.todo) /\ d \in Names
            /\ \A e \in Detectors : e # d => visit[t][e] = "none"
            /\ Tail(warm.todo) \in Seq(Detectors)
            /\ ToSet(Tail(warm.todo)) \subseteq Names
            /\ \A e \in ToSet(warm.todo) : e = d \/ e \in ToSet(Tail(warm.todo))
<1>1. PICK todo \in Seq(Detectors) : todo = warm.todo
  BY DEF FusionInv, FusionTypes
<1>2. PICK d \in Detectors : d = Head(todo) /\ d = todo[1]
  BY <1>1
<1>3. \A i \in 1..Len(todo) : todo[i] \in Names
  BY <1>1 DEF FusionInv, Turns, ToSet
<1>4. /\ Tail(todo) \in Seq(Detectors) /\ Len(Tail(todo)) = Len(todo) - 1
      /\ \A i \in 1..Len(todo) - 1 : Tail(todo)[i] = todo[i + 1]
  BY <1>1
<1>5. Len(todo) \in Nat /\ Len(todo) > 0
  BY <1>1
<1>6. ToSet(Tail(todo)) \subseteq Names
  BY <1>3, <1>4, <1>5 DEF ToSet
<1>7. ASSUME NEW e \in ToSet(todo), e # d
      PROVE  e \in ToSet(Tail(todo))
  <2>1. PICK i \in 1..Len(todo) : e = todo[i]
    BY DEF ToSet
  <2>2. i - 1 \in 1..Len(Tail(todo)) /\ Tail(todo)[i - 1] = e
    BY <1>2, <1>4, <1>5, <1>7, <2>1
  <2>3. DOMAIN Tail(todo) = 1..Len(Tail(todo))
    BY <1>4
  <2> QED BY <2>2, <2>3 DEF ToSet
<1>8. \A e \in Detectors : e # d => visit[t][e] = "none"
  BY <1>1, <1>2 DEF FusionInv, Turns
<1>9. d \in Names
  BY <1>2, <1>3, <1>5
<1> QED BY <1>1, <1>2, <1>4, <1>6, <1>7, <1>8, <1>9

LEMMA WarmSkipInv ==
  ASSUME FusionInv, NEW t \in All, WarmSkip(t)
  PROVE  FusionInv'
<1>1. SameModels /\ policy' = policy /\ warm' = warm /\ visit' = visit /\ req[t].at = "warm" /\ warm.done
  BY DEF WarmSkip, SameModels
<1>2. PICK to \in {"score", "done"}, answer \in Int :
        /\ req' \in [All -> ReqRecords] /\ Went(t, to, answer)
        /\ to = "done" => t \notin Threads /\ answer # NoPolicy
  BY AfterWarmWent DEF WarmSkip
<1>3. FusionTypes'
  BY <1>1, <1>2 DEF FusionInv, FusionTypes, SameModels, ReqRecords
<1>4. Turns'
  BY <1>1, <1>2, NamesStay DEF FusionInv, Turns, Went
<1>5. LocksInside'
  BY <1>1, LocksStay DEF SameModels
<1>6. PolicyReadOnce' /\ StartupFirst'
  BY <1>1, <1>2, LateStep DEF SameModels
<1>7. ASSUME Warmable' PROVE WarmedFirst'
  <2>1. Warmable /\ WarmedFirst
    BY <1>1, <1>7, WarmableStays DEF SameModels, FusionInv
  <2>2. \A d \in Detectors : PlaceFine(t, d)'
    BY <1>1, NowhereFine DEF FusionInv, Turns
  <2>3. /\ warm'.done => \A d \in Names : Loaded(d)
        /\ \A u \in All : /\ req'[u].at \in {"score", "collect"} => warm'.done
                          /\ req'[u].at = "warming" =>
                                ~warm'.done /\ \A d \in Names \ ToSet(warm'.todo) : Loaded(d)
    BY <1>1, <1>2, <2>1 DEF WarmedFirst, Went
  <2> QED BY <1>1, <1>2, <2>1, <2>2, <2>3, RequestWarm
<1> QED BY <1>3, <1>4, <1>5, <1>6, <1>7 DEF FusionInv

LEMMA WarmEnterInv ==
  ASSUME FusionInv, NEW t \in All, WarmEnter(t)
  PROVE  FusionInv'
<1>1. SameModels /\ policy' = policy /\ visit' = visit /\ req[t].at = "warm" /\ ~warm.done /\ warm.lock = Nobody
  BY DEF WarmEnter, SameModels
<1>2. req' \in [All -> ReqRecords] /\ Went(t, "warming", req[t].answer)
  BY GotoWent DEF FusionInv, WarmEnter
<1>3. PICK todo : todo = InOrder(Names)
  OBVIOUS
<1>4. todo \in Seq(Detectors) /\ ToSet(todo) = Names
  <2>1. todo \in Seq(Names) /\ ToSet(todo) = Names /\ Names \subseteq Detectors
    BY <1>3, NamesType, InOrderCovers DEF FusionInv
  <2> QED BY <2>1
<1>5. warm' = [done |-> FALSE, lock |-> t, todo |-> todo]
  BY <1>3 DEF WarmEnter
<1>6. FusionTypes'
  BY <1>1, <1>2, <1>4, <1>5 DEF FusionInv, FusionTypes, SameModels, ReqRecords, Holders
<1>7. \A u \in All : req[u].at # "warming"
  BY <1>1, FusionAssumption DEF FusionInv, Turns
<1>8. Turns'
  BY <1>1, <1>2, <1>4, <1>5, <1>7, NamesStay DEF FusionInv, Turns, Went
<1>9. LocksInside'
  BY <1>1, LocksStay DEF SameModels
<1>10. PolicyReadOnce' /\ StartupFirst'
  BY <1>1, <1>2, LateStep DEF SameModels
<1>11. ASSUME Warmable' PROVE WarmedFirst'
  <2>1. Warmable /\ WarmedFirst
    BY <1>1, <1>11, WarmableStays DEF SameModels, FusionInv
  <2>2. \A d \in Detectors : PlaceFine(t, d)'
    BY <1>1, NowhereFine DEF FusionInv, Turns
  <2>3. /\ warm'.done => \A d \in Names : Loaded(d)
        /\ \A u \in All : /\ req'[u].at \in {"score", "collect"} => warm'.done
                          /\ req'[u].at = "warming" =>
                                ~warm'.done /\ \A d \in Names \ ToSet(warm'.todo) : Loaded(d)
    BY <1>1, <1>2, <1>4, <1>5, <2>1 DEF WarmedFirst, Went
  <2> QED BY <1>1, <1>2, <2>1, <2>2, <2>3, RequestWarm
<1> QED BY <1>6, <1>8, <1>9, <1>10, <1>11 DEF FusionInv

\* A step that leaves the request where it is.
LEMMA StaysWent ==
  ASSUME req' = req, NEW t \in All
  PROVE  Went(t, req[t].at, req[t].answer)
  BY DEF Went

LEMMA WarmNextInv ==
  ASSUME FusionInv, NEW t \in All, WarmNext(t)
  PROVE  FusionInv'
<1>1. /\ SameModels /\ policy' = policy /\ warm' = warm /\ req' = req
      /\ req[t].at = "warming" /\ warm.todo # <<>>
  BY DEF WarmNext, SameModels
<1>2. PICK d \in Detectors :
        /\ d = Head(warm.todo) /\ d \in Names
        /\ \A e \in Detectors : e # d => visit[t][e] = "none"
  BY <1>1, WarmerAt
<1>3. visit[t][d] = "none" /\ Put(t, d, "enter")
  BY <1>2 DEF WarmNext, Put
<1>4. VisitTypes /\ Moved(t, d, "enter")
  BY <1>3, PutMoves DEF FusionInv, Places, VisitTypes
<1>5. FusionTypes'
  BY <1>1, <1>4 DEF FusionInv, FusionTypes, SameModels, VisitTypes
<1>6. Turns'
  BY <1>1, <1>2, <1>4, NamesStay DEF FusionInv, Turns, Moved
<1>7. /\ \A u \in All, e \in Detectors : visit'[u][e] \in Inside <=> visit[u][e] \in Inside
      /\ \A u \in All, e \in Detectors : u # t => visit'[u][e] = visit[u][e]
  BY <1>3, <1>4 DEF Moved, Inside
<1>8. LocksInside'
  BY <1>1, <1>7, LocksStay DEF SameModels
<1>9. PolicyReadOnce' /\ StartupFirst'
  BY <1>1, LateStep, StaysWent DEF SameModels
<1>10. ASSUME Warmable' PROVE WarmedFirst'
  <2>1. Warmable /\ WarmedFirst
    BY <1>1, <1>10, WarmableStays DEF SameModels, FusionInv
  <2>2. \A e \in Detectors : PlaceFine(t, e)'
    BY <1>2, <1>4, NowhereFine DEF Moved
  <2>3. /\ warm'.done => \A e \in Names : Loaded(e)
        /\ \A u \in All : /\ req'[u].at \in {"score", "collect"} => warm'.done
                          /\ req'[u].at = "warming" =>
                                ~warm'.done /\ \A e \in Names \ ToSet(warm'.todo) : Loaded(e)
    BY <1>1, <2>1 DEF WarmedFirst
  <2> QED BY <1>1, <1>7, <2>1, <2>2, <2>3, RequestWarm, StaysWent
<1> QED BY <1>5, <1>6, <1>8, <1>9, <1>10 DEF FusionInv

LEMMA WarmDoneInv ==
  ASSUME FusionInv, NEW t \in All, WarmDone(t)
  PROVE  FusionInv'
<1>1. SameModels /\ policy' = policy /\ req' = req /\ req[t].at = "warming" /\ warm.todo # <<>>
  BY DEF WarmDone, SameModels
<1>2. PICK d \in Detectors :
        /\ d = Head(warm.todo) /\ d \in Names
        /\ \A e \in Detectors : e # d => visit[t][e] = "none"
        /\ Tail(warm.todo) \in Seq(Detectors)
        /\ ToSet(Tail(warm.todo)) \subseteq Names
        /\ \A e \in ToSet(warm.todo) : e = d \/ e \in ToSet(Tail(warm.todo))
  BY <1>1, WarmerAt
<1>3. visit[t][d] \in {"passed", "failed"} /\ Put(t, d, "none")
  BY <1>2 DEF WarmDone, Put
<1>4. VisitTypes /\ Moved(t, d, "none")
  BY <1>3, PutMoves DEF FusionInv, Places, VisitTypes
<1>5. PICK rest \in Seq(Detectors) : rest = Tail(warm.todo)
  BY <1>2
<1>6. /\ warm' \in [done: BOOLEAN, lock: Holders, todo: Seq(Detectors)]
      /\ warm'.done = warm.done /\ warm'.lock = warm.lock /\ warm'.todo = rest
  <2>1. warm' = [warm EXCEPT !.todo = rest]
    BY <1>5 DEF WarmDone
  <2> QED BY <2>1 DEF FusionInv, FusionTypes
<1>7. FusionTypes'
  BY <1>1, <1>4, <1>6 DEF FusionInv, FusionTypes, SameModels, VisitTypes
<1>8. \A u \in All : u # t => req[u].at # "warming"
  BY <1>1 DEF FusionInv, Turns
<1>9. \A e \in Detectors : visit'[t][e] = "none"
  BY <1>2, <1>4 DEF Moved
<1>10. Turns'
  <2>1. /\ \A u \in All : warm'.lock = u <=> req'[u].at = "warming"
        /\ ToSet(warm'.todo) \subseteq Names'
    BY <1>1, <1>2, <1>5, <1>6, NamesStay DEF FusionInv, Turns
  <2>2. ASSUME NEW u \in All, NEW e \in Detectors, visit'[u][e] # "none"
        PROVE  req'[u].at = "collect" /\ e \in Names'
    <3>1. u # t /\ visit[u][e] # "none"
      BY <1>4, <1>9, <2>2 DEF Moved
    <3> QED BY <1>1, <1>8, <3>1, NamesStay DEF FusionInv, Turns
  <2> QED BY <2>1, <2>2 DEF Turns
<1>11. /\ \A u \in All, e \in Detectors : visit'[u][e] \in Inside <=> visit[u][e] \in Inside
       /\ \A u \in All, e \in Detectors : u # t => visit'[u][e] = visit[u][e]
  BY <1>3, <1>4 DEF Moved, Inside
<1>12. LocksInside'
  BY <1>1, <1>11, LocksStay DEF SameModels
<1>13. PolicyReadOnce' /\ StartupFirst'
  BY <1>1, LateStep, StaysWent DEF SameModels
<1>14. ASSUME Warmable' PROVE WarmedFirst'
  <2>1. Warmable /\ WarmedFirst
    BY <1>1, <1>14, WarmableStays DEF SameModels, FusionInv
  <2>2. \A e \in Detectors : PlaceFine(t, e)'
    BY <1>9, NowhereFine
  <2>3. Loaded(d)
    BY <1>3, <2>1 DEF WarmedFirst, PlaceFine
  <2>4. /\ warm'.done => \A e \in Names : Loaded(e)
        /\ \A u \in All : /\ req'[u].at \in {"score", "collect"} => warm'.done
                          /\ req'[u].at = "warming" =>
                                ~warm'.done /\ \A e \in Names \ ToSet(warm'.todo) : Loaded(e)
    BY <1>1, <1>2, <1>5, <1>6, <2>1, <2>3 DEF WarmedFirst
  <2> QED BY <1>1, <1>11, <2>1, <2>2, <2>4, RequestWarm, StaysWent
<1> QED BY <1>7, <1>10, <1>12, <1>13, <1>14 DEF FusionInv

LEMMA WarmRaisedInv ==
  ASSUME FusionInv, NEW t \in All, WarmRaised(t)
  PROVE  FusionInv'
<1>1. SameModels /\ policy' = policy /\ req[t].at = "warming" /\ warm.todo # <<>>
  BY DEF WarmRaised, SameModels
<1>2. PICK to \in {"score", "done"}, answer \in Int :
        /\ req' \in [All -> ReqRecords] /\ Went(t, to, answer)
        /\ to = "done" => t \notin Threads /\ answer # NoPolicy
  BY AfterWarmWent DEF WarmRaised
<1>3. PICK d \in Detectors :
        /\ d = Head(warm.todo) /\ d \in Names
        /\ \A e \in Detectors : e # d => visit[t][e] = "none"
  BY <1>1, WarmerAt
<1>4. visit[t][d] = "raised" /\ Put(t, d, "none")
  BY <1>3 DEF WarmRaised, Put
<1>5. VisitTypes /\ Moved(t, d, "none")
  BY <1>4, PutMoves DEF FusionInv, Places, VisitTypes
<1>6. /\ warm' \in [done: BOOLEAN, lock: Holders, todo: Seq(Detectors)]
      /\ warm'.lock = Nobody /\ warm'.todo = <<>>
  <2>1. PICK new : new = [warm EXCEPT !.lock = Nobody, !.todo = <<>>]
    OBVIOUS
  <2>2. /\ new \in [done: BOOLEAN, lock: Holders, todo: Seq(Detectors)]
        /\ new.lock = Nobody /\ new.todo = <<>>
    <3>1. /\ warm \in [done: BOOLEAN, lock: Holders, todo: Seq(Detectors)]
          /\ Nobody \in Holders /\ <<>> \in Seq(Detectors)
      BY DEF FusionInv, FusionTypes, Holders
    <3> QED BY <2>1, <3>1
  <2> QED BY <2>1, <2>2 DEF WarmRaised
<1>7. FusionTypes'
  BY <1>1, <1>2, <1>5, <1>6 DEF FusionInv, FusionTypes, SameModels, VisitTypes, ReqRecords
<1>8. \A u \in All : u # t => req[u].at # "warming"
  BY <1>1 DEF FusionInv, Turns
<1>9. \A e \in Detectors : visit'[t][e] = "none"
  BY <1>3, <1>5 DEF Moved
<1>10. Turns'
  <2>1. ToSet(<<>>) = {}
    BY DEF ToSet
  <2> QED BY <1>1, <1>2, <1>5, <1>6, <1>8, <1>9, <2>1, NamesStay, FusionAssumption DEF FusionInv, Turns, Moved, Went
<1>11. \A u \in All, e \in Detectors : visit'[u][e] \in Inside <=> visit[u][e] \in Inside
  BY <1>4, <1>5 DEF Moved, Inside
<1>12. LocksInside'
  BY <1>1, <1>11, LocksStay DEF SameModels
<1>13. PolicyReadOnce' /\ StartupFirst'
  BY <1>1, <1>2, LateStep DEF SameModels
\* With nothing to refuse, no load raises.
<1>14. ~Warmable'
  <2>1. ~Warmable
    BY <1>4 DEF FusionInv, WarmedFirst, PlaceFine
  <2> QED BY <1>1, <2>1, WarmableStays DEF SameModels
<1> QED BY <1>7, <1>10, <1>12, <1>13, <1>14 DEF FusionInv

LEMMA WarmLeaveInv ==
  ASSUME FusionInv, NEW t \in All, WarmLeave(t)
  PROVE  FusionInv'
<1>1. SameModels /\ policy' = policy /\ visit' = visit /\ req[t].at = "warming" /\ warm.todo = <<>>
  BY DEF WarmLeave, SameModels
<1>2. PICK to \in {"score", "done"}, answer \in Int :
        /\ req' \in [All -> ReqRecords] /\ Went(t, to, answer)
        /\ to = "done" => t \notin Threads /\ answer # NoPolicy
  BY AfterWarmWent DEF WarmLeave
<1>3. /\ warm' \in [done: BOOLEAN, lock: Holders, todo: Seq(Detectors)]
      /\ warm'.done /\ warm'.lock = Nobody /\ warm'.todo = <<>>
  <2>1. PICK new : new = [warm EXCEPT !.done = TRUE, !.lock = Nobody]
    OBVIOUS
  <2>2. /\ new \in [done: BOOLEAN, lock: Holders, todo: Seq(Detectors)]
        /\ new.done /\ new.lock = Nobody /\ new.todo = <<>>
    <3>1. warm \in [done: BOOLEAN, lock: Holders, todo: Seq(Detectors)] /\ Nobody \in Holders
      BY DEF FusionInv, FusionTypes, Holders
    <3> QED BY <1>1, <2>1, <3>1
  <2> QED BY <2>1, <2>2 DEF WarmLeave
<1>4. FusionTypes'
  BY <1>1, <1>2, <1>3 DEF FusionInv, FusionTypes, SameModels, ReqRecords
<1>5. /\ \A u \in All : u # t => req[u].at # "warming"
      /\ \A e \in Detectors : visit[t][e] = "none"
  BY <1>1 DEF FusionInv, Turns
<1>6. ToSet(<<>>) = {}
  BY DEF ToSet
<1>7. Turns'
  BY <1>1, <1>2, <1>3, <1>5, <1>6, NamesStay, FusionAssumption DEF FusionInv, Turns, Went
<1>8. LocksInside'
  BY <1>1, LocksStay DEF SameModels
<1>9. PolicyReadOnce' /\ StartupFirst'
  BY <1>1, <1>2, LateStep DEF SameModels
<1>10. ASSUME Warmable' PROVE WarmedFirst'
  <2>1. Warmable /\ WarmedFirst
    BY <1>1, <1>10, WarmableStays DEF SameModels, FusionInv
  <2>2. \A d \in Detectors : PlaceFine(t, d)'
    BY <1>1, <1>5, NowhereFine
  <2>3. \A d \in Names : Loaded(d)
    BY <1>1, <1>6, <2>1 DEF WarmedFirst
  <2>4. /\ warm'.done => \A d \in Names : Loaded(d)
        /\ \A u \in All : /\ req'[u].at \in {"score", "collect"} => warm'.done
                          /\ req'[u].at = "warming" =>
                                ~warm'.done /\ \A d \in Names \ ToSet(warm'.todo) : Loaded(d)
    BY <1>2, <1>3, <1>5, <2>3 DEF Went
  <2> QED BY <1>1, <1>2, <2>1, <2>2, <2>4, RequestWarm
<1> QED BY <1>4, <1>7, <1>8, <1>9, <1>10 DEF FusionInv

-----------------------------------------------------------------------------
\* Dispatch, the pool's tasks, and the answer.

LEMMA DispatchInv ==
  ASSUME FusionInv, NEW t \in All, Dispatch(t)
  PROVE  FusionInv'
<1>1. SameModels /\ policy' = policy /\ warm' = warm /\ req[t].at = "score"
  BY DEF Dispatch, SameModels
<1>2. req' \in [All -> ReqRecords] /\ Went(t, "collect", req[t].answer)
  BY GotoWent DEF FusionInv, Dispatch
<1>3. /\ VisitTypes
      /\ \A u \in All, d \in Detectors : u # t => visit'[u][d] = visit[u][d]
      /\ \A d \in Detectors : visit'[t][d] = IF d \in Names THEN "queued" ELSE "none"
  <2>1. PICK queue : queue = [d \in Detectors |-> IF d \in Names THEN "queued" ELSE "none"]
    OBVIOUS
  <2>2. queue \in [Detectors -> Places]
    BY <2>1 DEF Places
  <2>3. visit' = [visit EXCEPT ![t] = queue] /\ visit \in [All -> [Detectors -> Places]]
    BY <2>1 DEF Dispatch, FusionInv, FusionTypes
  <2> QED BY <2>1, <2>2, <2>3 DEF VisitTypes
<1>4. FusionTypes'
  BY <1>1, <1>2, <1>3 DEF FusionInv, FusionTypes, SameModels, ReqRecords, VisitTypes
<1>5. Turns'
  BY <1>1, <1>2, <1>3, NamesStay DEF FusionInv, Turns, Went
<1>6. \A d \in Detectors : visit[t][d] = "none" /\ visit'[t][d] \in {"none", "queued"}
  BY <1>1, <1>3 DEF FusionInv, Turns
<1>7. \A u \in All, d \in Detectors : visit'[u][d] \in Inside <=> visit[u][d] \in Inside
  BY <1>3, <1>6 DEF Inside
<1>8. LocksInside'
  BY <1>1, <1>7, LocksStay DEF SameModels
<1>9. PolicyReadOnce' /\ StartupFirst'
  BY <1>1, <1>2, LateStep DEF SameModels
<1>10. ASSUME Warmable' PROVE WarmedFirst'
  <2>1. Warmable /\ WarmedFirst
    BY <1>1, <1>10, WarmableStays DEF SameModels, FusionInv
  <2>2. \A d \in Detectors : PlaceFine(t, d)'
    BY <1>6, NowhereFine
  <2>3. /\ warm'.done => \A d \in Names : Loaded(d)
        /\ \A u \in All : /\ req'[u].at \in {"score", "collect"} => warm'.done
                          /\ req'[u].at = "warming" =>
                                ~warm'.done /\ \A d \in Names \ ToSet(warm'.todo) : Loaded(d)
    BY <1>1, <1>2, <2>1 DEF WarmedFirst, Went
  <2> QED BY <1>1, <1>2, <1>3, <1>7, <2>1, <2>2, <2>3, RequestWarm
<1> QED BY <1>4, <1>5, <1>8, <1>9, <1>10 DEF FusionInv

LEMMA StartTaskInv ==
  ASSUME FusionInv, NEW t \in All, NEW d \in Detectors, StartTask(t, d)
  PROVE  FusionInv'
<1>1. /\ SameModels /\ policy' = policy /\ warm' = warm /\ req' = req
      /\ req[t].at = "collect" /\ visit[t][d] = "queued"
  BY DEF StartTask, LoadKeeps, SameModels
<1>2. VisitTypes /\ Moved(t, d, "enter")
  BY PutMoves DEF StartTask, FusionInv, Places, VisitTypes
<1>3. FusionTypes'
  BY <1>1, <1>2 DEF FusionInv, FusionTypes, SameModels, VisitTypes
<1>4. /\ \A u \in All, e \in Detectors : (u # t \/ e # d) => visit'[u][e] = visit[u][e]
      /\ visit'[t][d] = "enter"
  BY <1>2 DEF Moved
<1>5. d \in Names
  BY <1>1 DEF FusionInv, Turns
<1>6. Turns'
  BY <1>1, <1>4, <1>5, NamesStay DEF FusionInv, Turns
<1>7. \A u \in All, e \in Detectors : visit'[u][e] \in Inside <=> visit[u][e] \in Inside
  BY <1>1, <1>4 DEF Inside
<1>8. LocksInside'
  BY <1>1, <1>7, LocksStay DEF SameModels
<1>9. PolicyReadOnce' /\ StartupFirst'
  BY <1>1, LateStep, StaysWent DEF SameModels
<1>10. ASSUME Warmable' PROVE WarmedFirst'
  <2>1. Warmable /\ WarmedFirst
    BY <1>1, <1>10, WarmableStays DEF SameModels, FusionInv
  <2>2. \A e \in Detectors : PlaceFine(t, e)'
    <3>1. ASSUME NEW e \in Detectors, e # d PROVE PlaceFine(t, e)'
      <4>1. PlaceFine(t, e) /\ visit'[t][e] = visit[t][e] /\ Healthy' = Healthy
        BY <1>1, <1>4, <2>1, <3>1 DEF WarmedFirst, Healthy, SameModels
      <4> QED BY <1>1, <4>1 DEF PlaceFine, Has, Loaded, SameModels
    <3>2. PlaceFine(t, d)'
      BY <1>4, NowhereFine
    <3> QED BY <3>1, <3>2
  <2>3. /\ warm'.done => \A e \in Names : Loaded(e)
        /\ \A u \in All : /\ req'[u].at \in {"score", "collect"} => warm'.done
                          /\ req'[u].at = "warming" =>
                                ~warm'.done /\ \A e \in Names \ ToSet(warm'.todo) : Loaded(e)
    BY <1>1, <2>1 DEF WarmedFirst
  <2> QED BY <1>1, <1>4, <1>7, <2>1, <2>2, <2>3, RequestWarm, StaysWent
<1> QED BY <1>3, <1>6, <1>8, <1>9, <1>10 DEF FusionInv

LEMMA FuseInv ==
  ASSUME FusionInv, NEW t \in All, Fuse(t)
  PROVE  FusionInv'
<1> DEFINE valued == {d \in Names : visit[t][d] \in {"scored", "misshapen"}}
<1>1. /\ SameModels /\ policy' = policy /\ warm' = warm /\ req[t].at = "collect"
      /\ \A d \in Names : visit[t][d] \in Over
  BY DEF Fuse, SameModels
<1>2. PICK chosen \in Nat : chosen = TierOf(valued)
  BY TierOfNat DEF FusionInv
<1>3. PICK answer :
        answer = IF chosen # Unavailable
                    /\ \E d \in policy.tiers[chosen].features : visit[t][d] = "misshapen"
                 THEN Raised ELSE chosen
  OBVIOUS
<1>4. answer \in Int /\ answer # NoPolicy
  BY <1>2, <1>3 DEF Raised, NoPolicy
<1>5. req' \in [All -> ReqRecords] /\ Went(t, "done", answer)
  <2>1. Answer(t, answer)
    BY <1>2, <1>3 DEF Fuse
  <2> QED BY <1>4, <2>1, AnswerWent DEF FusionInv
<1>6. /\ VisitTypes
      /\ \A u \in All, d \in Detectors : u # t => visit'[u][d] = visit[u][d]
      /\ \A d \in Detectors : visit'[t][d] = "none"
  <2>1. visit' = [visit EXCEPT ![t] = [d \in Detectors |-> "none"]] /\ visit \in [All -> [Detectors -> Places]]
    BY DEF Fuse, FusionInv, FusionTypes
  <2> QED BY <2>1 DEF VisitTypes, Places
<1>7. FusionTypes'
  BY <1>1, <1>5, <1>6 DEF FusionInv, FusionTypes, SameModels, ReqRecords, VisitTypes
<1>8. Turns'
  BY <1>1, <1>5, <1>6, NamesStay DEF FusionInv, Turns, Went
<1>9. \A d \in Detectors : visit[t][d] \in Over \union {"none"}
  BY <1>1 DEF FusionInv, Turns
<1>10. \A u \in All, d \in Detectors : visit'[u][d] \in Inside <=> visit[u][d] \in Inside
  BY <1>6, <1>9 DEF Inside, Over
<1>11. LocksInside'
  BY <1>1, <1>10, LocksStay DEF SameModels
<1>12. PolicyReadOnce' /\ StartupFirst'
  BY <1>1, <1>4, <1>5, LateStep DEF SameModels
<1>13. ASSUME Warmable' PROVE WarmedFirst'
  <2>1. Warmable /\ WarmedFirst
    BY <1>1, <1>13, WarmableStays DEF SameModels, FusionInv
  <2>2. \A d \in Detectors : PlaceFine(t, d)'
    BY <1>6, NowhereFine
  <2>3. /\ warm'.done => \A d \in Names : Loaded(d)
        /\ \A u \in All : /\ req'[u].at \in {"score", "collect"} => warm'.done
                          /\ req'[u].at = "warming" =>
                                ~warm'.done /\ \A d \in Names \ ToSet(warm'.todo) : Loaded(d)
    BY <1>1, <1>5, <2>1 DEF WarmedFirst, Went
  <2>4. Names \subseteq Detectors /\ \A i \in DOMAIN policy.tiers : policy.tiers[i].features \subseteq Names
    BY NamesType DEF FusionInv, Names
  <2>5. \A d \in Names : /\ visit[t][d] \in {"scored", "failed"}
                         /\ visit[t][d] = "scored" <=> d \in Healthy
    BY <1>1, <2>1, <2>4 DEF WarmedFirst, PlaceFine, Over
  <2>6. chosen = TierOf(Healthy)
    <3>1. valued \intersect Names = Healthy \intersect Names
      BY <2>5
    <3> QED BY <1>2, <3>1, TierOfNames
  <2>7. answer = chosen
    <3>1. chosen # Unavailable => chosen \in DOMAIN policy.tiers
      <4> DEFINE fit == {i \in DOMAIN policy.tiers : policy.tiers[i].features \subseteq valued}
      <4>1. fit \in SUBSET Nat
        BY TableTypes DEF FusionInv, FusionTypes
      <4>2. ASSUME fit # {} PROVE Min(fit) \in fit
        BY <4>1, <4>2, LeastExists DEF Min
      <4> QED BY <1>2, <4>2 DEF TierOf
    <3> QED BY <1>3, <2>4, <2>5, <3>1
  <2> QED BY <1>1, <1>5, <1>6, <1>10, <2>1, <2>2, <2>3, <2>6, <2>7, RequestWarm
<1> QED BY <1>7, <1>8, <1>11, <1>12, <1>13 DEF FusionInv

-----------------------------------------------------------------------------
\* The invariant, from a cold process on.

LEMMA ColdProcess ==
  ASSUME Init
  PROVE  FusionInv
<1> USE DEF Init
<1>1. FusionTypes
  <2>1. <<>> \in TierTables /\ <<>> \in Seq(Detectors) /\ Nobody \in Holders /\ "none" \in Places
    BY DEF TierTables, Holders, Places
  <2>2. policy \in [loaded: BOOLEAN, tiers: TierTables]
    BY <2>1
  <2>3. warm \in [done: BOOLEAN, lock: Holders, todo: Seq(Detectors)]
    BY <2>1
  <2>4. Cold \in DetRecords
    BY <2>1 DEF Cold, DetRecords
  <2>5. det \in [Detectors -> DetRecords]
    BY <2>4
  <2>6. visit \in [All -> [Detectors -> Places]]
    BY <2>1
  <2>7. req \in [All -> ReqRecords]
    BY DEF ReqRecords
  <2> QED BY <2>2, <2>3, <2>5, <2>6, <2>7 DEF FusionTypes, DetRecords, ReqRecords
<1>2. policy.tiers = <<>> /\ ToSet(warm.todo) = {}
  BY DEF ToSet
<1>3. Turns /\ LocksInside
  BY <1>2, FusionAssumption DEF Turns, LocksInside, Inside, Cold
<1>4. Untouched
  BY DEF Untouched
<1>5. PolicyReadOnce /\ StartupFirst
  BY <1>2, <1>4, FusionAssumption DEF PolicyReadOnce, StartupFirst, All
<1>6. ~Warmable
  BY <1>2, NoTiersNoNames
<1> QED BY <1>1, <1>3, <1>5, <1>6 DEF FusionInv

LEMMA VisitInv ==
  ASSUME FusionInv, NEW t \in All, NEW d \in Detectors, Visit(t, d)
  PROVE  FusionInv'
<1>1. FusionTypes'
  BY VisitTyped DEF FusionInv
<1>2. Turns' /\ PolicyReadOnce' /\ StartupFirst' /\ LocksInside'
  BY VisitOrder, VisitLocks
<1>3. Warmable' => WarmedFirst'
  BY VisitWarm
<1> QED BY <1>1, <1>2, <1>3 DEF FusionInv

LEMMA StutterInv ==
  ASSUME FusionInv, UNCHANGED vars
  PROVE  FusionInv'
<1>1. Names' = Names /\ Healthy' = Healthy /\ TierOf(Healthy)' = TierOf(Healthy)
  BY DEF vars, Names, Healthy, TierOf
<1>2. FusionTypes' /\ Turns' /\ LocksInside' /\ PolicyReadOnce' /\ StartupFirst'
  BY <1>1 DEF vars, FusionInv, FusionTypes, Turns, LocksInside, PolicyReadOnce, StartupFirst, Untouched
<1>3. ASSUME Warmable' PROVE WarmedFirst'
  <2>1. WarmedFirst
    BY <1>1, <1>3 DEF vars, FusionInv, Warmable
  <2>2. \A d : (Untried(d)' <=> Untried(d)) /\ (Loaded(d)' <=> Loaded(d))
    BY <1>1 DEF vars, Untried, Loaded, Has
  <2>3. \A t, d : PlaceFine(t, d)' <=> PlaceFine(t, d)
    BY <1>1, <2>2 DEF vars, PlaceFine, Has
  <2> QED BY <1>1, <2>1, <2>2, <2>3 DEF vars, WarmedFirst
<1> QED BY <1>2, <1>3 DEF FusionInv

LEMMA StepInv ==
  ASSUME FusionInv, [Next]_vars
  PROVE  FusionInv'
<1>1. ASSUME NEW t \in All, Request(t) PROVE FusionInv'
  BY <1>1, BeginInv, LoadPolicyInv, ReadPolicyInv, WarmSkipInv, WarmEnterInv, WarmNextInv, WarmDoneInv,
     WarmRaisedInv, WarmLeaveInv, DispatchInv, FuseInv DEF Request
<1>2. ASSUME NEW t \in All, NEW d \in Detectors, Visit(t, d) \/ StartTask(t, d) PROVE FusionInv'
  BY <1>2, VisitInv, StartTaskInv
<1> QED BY <1>1, <1>2, StutterInv DEF Next, Step

LEMMA AlwaysFusionInv == Spec => []FusionInv
<1>1. Init => FusionInv
  BY ColdProcess
<1>2. FusionInv /\ [Next]_vars => FusionInv'
  BY StepInv
<1> QED BY <1>1, <1>2, PTL DEF Spec

-----------------------------------------------------------------------------
\* Warm-up and start-up together (_warm_detectors, _load_policy): whichever
\* requests race from a cold process, with the pool on and no weights refused,
\* a request that scores is answered by the best tier of the detectors that can
\* be loaded at all; and no request is told that there is no policy when the
\* start-up event has run.
THEOREM ColdStartSafe == Spec => []ColdStartLosesNothing
<1>1. ASSUME FusionInv PROVE ColdStartLosesNothing
  <2>1. SUFFICES ASSUME NEW t \in Threads, Warmable, req[t].at = "done"
                 PROVE  IF req[t].answer = NoPolicy THEN ~world.startup
                        ELSE req[t].answer = TierOf(Healthy)
    BY DEF ColdStartLosesNothing, Warmable
  <2>2. policy.tiers # <<>>
    BY <2>1, NoTiersNoNames
  <2>3. req[t].answer = NoPolicy => ~world.startup
    BY <1>1, <2>1, <2>2 DEF FusionInv, StartupFirst
  <2>4. req[t].answer # NoPolicy => req[t].answer = TierOf(Healthy)
    BY <1>1, <2>1 DEF FusionInv, WarmedFirst
  <2> QED BY <2>3, <2>4
<1> QED BY <1>1, AlwaysFusionInv, PTL

\* The locks of _load and _warm_detectors, whatever fails or raises: no two
\* threads are inside the load of one detector, one warms up at a time, a lock is
\* held by nobody but the thread that is there, and a request that has been
\* answered holds none.
LockDiscipline ==
    /\ \A t, u \in All : req[t].at = "warming" /\ req[u].at = "warming" => t = u
    /\ \A d \in Detectors :
          /\ \A t, u \in All : visit[t][d] \in Inside /\ visit[u][d] \in Inside => t = u
          /\ det[d].lock # Nobody => \E t \in All : det[d].lock = t /\ visit[t][d] \in Inside
    /\ \A t \in All : req[t].at = "done" => warm.lock # t /\ \A d \in Detectors : det[d].lock # t

\* _load and _warm_detectors give back every lock on every way out.
THEOREM LocksGivenBack == Spec => []LockDiscipline
<1>1. ASSUME FusionInv PROVE LockDiscipline
  <2>1. \A t, u \in All : req[t].at = "warming" /\ req[u].at = "warming" => t = u
    BY <1>1 DEF FusionInv, Turns
  <2>2. \A d \in Detectors, t, u \in All : visit[t][d] \in Inside /\ visit[u][d] \in Inside => t = u
    BY <1>1 DEF FusionInv, LocksInside
  <2>3. \A d \in Detectors : det[d].lock # Nobody => \E t \in All : det[d].lock = t /\ visit[t][d] \in Inside
    BY <1>1 DEF FusionInv, LocksInside, FusionTypes, Holders
  <2>4. ASSUME NEW t \in All, req[t].at = "done"
        PROVE  warm.lock # t /\ \A d \in Detectors : det[d].lock # t
    <3>1. warm.lock # t /\ \A d \in Detectors : visit[t][d] = "none"
      BY <1>1, <2>4 DEF FusionInv, Turns
    <3> QED BY <1>1, <3>1 DEF FusionInv, LocksInside, Inside
  <2> QED BY <2>1, <2>2, <2>3, <2>4 DEF LockDiscipline
<1> QED BY <1>1, AlwaysFusionInv, PTL

\* The window in which a model scores before _verify_detector_integrity has seen
\* it is closed by the warm-up: with it, and with nothing to refuse, no score
\* comes from a model that has not passed.
THEOREM WarmedScoresVerified == Spec => [](Warmable => OnlyVerifiedScores)
<1>1. FusionInv => (Warmable => OnlyVerifiedScores)
  BY DEF FusionInv, WarmedFirst, OnlyVerifiedScores
<1> QED BY <1>1, AlwaysFusionInv, PTL

\* _detectors_warmed: once it is set no request loads, unloads or locks a model.
WarmedForGood == Warmable /\ warm.done => det' = det

\* After the warm-up no step of a request changes a detector.
THEOREM NoLoadAfterWarmUp == Spec => [][WarmedForGood]_vars
<1>1. ASSUME FusionInv, Next PROVE WarmedForGood
  <2>1. PICK t \in All : Step(t)
    BY <1>1 DEF Next
  <2>2. CASE Request(t)
    BY <2>2 DEF Request, Begin, LoadPolicy, ReadPolicy, WarmSkip, WarmEnter, WarmNext, WarmDone, WarmRaised,
                WarmLeave, Dispatch, Fuse, WarmedForGood
  <2>3. ASSUME NEW d \in Detectors, StartTask(t, d) PROVE WarmedForGood
    BY <2>3 DEF StartTask, WarmedForGood
  <2>4. ASSUME NEW d \in Detectors, Visit(t, d), Warmable, warm.done PROVE det' = det
    <3>1. LookStep(t, d) \/ LoadStep(t, d)
      BY <1>1, <2>4, VisitShape DEF FusionInv
    <3>2. ~LoadStep(t, d)
      <4>1. LoadStep(t, d) => visit[t][d] \in Inside \union {"lock"}
        BY DEF LoadStep, Inside
      <4> QED BY <1>1, <2>4, <4>1, LoaderAlone
    <3> QED BY <3>1, <3>2 DEF LookStep
  <2> QED BY <2>1, <2>2, <2>3, <2>4 DEF Step, WarmedForGood
<1>2. FusionInv /\ [Next]_vars => [WarmedForGood]_vars
  BY <1>1
<1> QED BY <1>2, AlwaysFusionInv, PTL DEF Spec

\* _load_policy reads the file once: the tiers never change under a request.
TiersFixed == policy.tiers # <<>> => policy'.tiers = policy.tiers

\* Two requests that score, score by the same tiers.
THEOREM PolicyNeverReplaced == Spec => [][TiersFixed]_vars
<1>1. ASSUME FusionInv, Next PROVE TiersFixed
  <2>1. PICK t \in All : Step(t)
    BY <1>1 DEF Next
  <2>2. CASE ReadPolicy(t)
    BY <1>1, <2>2 DEF ReadPolicy, FusionInv, PolicyReadOnce, TiersFixed
  <2>3. CASE LoadPolicy(t)
    BY <1>1, <2>3 DEF LoadPolicy, FusionInv, FusionTypes, TiersFixed
  <2>4. CASE Request(t) /\ ~ReadPolicy(t) /\ ~LoadPolicy(t)
    BY <2>4 DEF Request, Begin, WarmSkip, WarmEnter, WarmNext, WarmDone, WarmRaised, WarmLeave, Dispatch, Fuse,
                TiersFixed
  <2>5. ASSUME NEW d \in Detectors, Visit(t, d) \/ StartTask(t, d) PROVE TiersFixed
    BY <1>1, <2>5, VisitShape DEF FusionInv, Elsewhere, StartTask, LoadKeeps, TiersFixed
  <2> QED BY <2>1, <2>2, <2>3, <2>4, <2>5 DEF Step
<1>2. FusionInv /\ [Next]_vars => [TiersFixed]_vars
  BY <1>1
<1> QED BY <1>2, AlwaysFusionInv, PTL DEF Spec
=============================================================================
