--------------------------- MODULE DetectorFusion ---------------------------
(***************************************************************************)
(* The detector models (core/detectors.py) and the fusion that combines    *)
(* their scores (core/fusion.py), from a cold process on.                  *)
(*                                                                         *)
(*   - Each detector loads its model at first use, under a lock of its own *)
(*     and after a test without it; the fields are assigned one by one,    *)
(*     and the weights are verified last.                                  *)
(*   - Loads of two detectors at once may fail on the library's lazy       *)
(*     import, for good.  The warm-up loads them one after the other.      *)
(*   - A request scores all the detectors of the policy's tiers in a pool, *)
(*     then takes the first tier whose detectors all have a score.         *)
(*                                                                         *)
(* What a score is does not matter here, only which model it comes from.   *)
(***************************************************************************)
EXTENDS Integers, FiniteSets, Sequences, SequencesExt

CONSTANTS
    Threads,      \* worker threads, one request each
    Startup,      \* the start-up event: a thread that only warms up
    Detectors,
    Artifacts,    \* what models/fusion_policy.json may hold
    Worlds        \* settings, and what is wrong with which detectors

VARIABLES
    world,      \* FUSION_PARALLEL and WARM_MODELS_ON_STARTUP; the class of each
                \* detector (TransformerDetector, ...); the detectors that
                \* cannot be loaded (missing, gated, no memory), those without
                \* the labels asked for, those whose weights do not verify
    artifact,   \* the policy file: a sequence of tiers, the floor last
    policy,     \* _policy_loaded, and the tiers of _policy by their place in the file
    warm,       \* _detectors_warmed and the holder of _warm_lock
    det,        \* detector -> its fields and the holder of its lock
    visit,      \* thread -> detector -> where the thread is with it
    req,        \* thread -> where its request is, and its answer
    unverified  \* history: a model that did not pass verification has scored

vars == <<world, artifact, policy, warm, det, visit, req, unverified>>

Nobody == "nobody"
All == Threads \union {Startup}
Cold == [model |-> FALSE, ready |-> FALSE, error |-> FALSE, verified |-> FALSE, lock |-> Nobody]

\* _build_registry: the class behind each name is fixed.
Registries == [Detectors -> {"transformer", "head", "guard", "nemo"}]

ASSUME FusionAssumption ==
    /\ Startup \notin Threads /\ Nobody \notin All
    /\ IsFiniteSet(Detectors)
    /\ \A a \in Artifacts : a \in Seq([features: SUBSET Detectors, valid: BOOLEAN])
    /\ Worlds \subseteq [parallel: BOOLEAN, startup: BOOLEAN, broken: SUBSET Detectors,
                    kind: Registries,
                    mismatched: SUBSET Detectors, tampered: SUBSET Detectors]
    /\ \A w \in Worlds : \A d \in w.mismatched : w.kind[d] = "transformer"

Init ==
    /\ world \in Worlds
    /\ artifact \in Artifacts
    /\ policy = [loaded |-> FALSE, tiers |-> <<>>]
    /\ warm = [done |-> FALSE, lock |-> Nobody, todo |-> <<>>]
    /\ det = [d \in Detectors |-> Cold]
    /\ visit = [t \in All |-> [d \in Detectors |-> "none"]]
    /\ req = [t \in All |-> [at |-> "idle", answer |-> 0]]
    /\ unverified = FALSE

-----------------------------------------------------------------------------
\* _load_policy, _all_tiers, _union_required_features.

\* _validate_tier: a malformed upgrade tier is dropped, a malformed floor is no
\* policy.
ValidTiers(a) ==
    IF a = <<>> \/ ~Last(a).valid THEN <<>>
    ELSE [i \in {j \in DOMAIN a : a[j].valid} |-> a[i]]

Names == UNION {policy.tiers[i].features : i \in DOMAIN policy.tiers}

\* A fixed order of the names, as _union_required_features gives one.
InOrder(S) == SetToSeq(S)

Unavailable == 0
Raised == -1
NoPolicy == -2

Goto(t, at) == req' = [req EXCEPT ![t].at = at]
Answer(t, a) == req' = [req EXCEPT ![t] = [at |-> "done", answer |-> a]]

\* A request comes once the start-up event is over, if there is one.
Begin(t) ==
    /\ req[t].at = "idle"
    /\ IF t = Startup THEN world.startup
       ELSE world.startup => req[Startup].at = "done"
    /\ Goto(t, "policy")
    /\ UNCHANGED <<world, artifact, policy, warm, det, visit, unverified>>

\* policy_available: the flag is set before the file is read, so that whoever
\* comes second meanwhile finds no policy.
LoadPolicy(t) ==
    /\ req[t].at = "policy"
    /\ IF ~policy.loaded THEN Goto(t, "reading")
       ELSE IF policy.tiers = <<>> THEN Answer(t, NoPolicy)
       ELSE Goto(t, IF t = Startup \/ (world.parallel /\ Cardinality(Names) > 1) THEN "warm" ELSE "score")
    /\ policy' = [policy EXCEPT !.loaded = TRUE]
    /\ UNCHANGED <<world, artifact, warm, det, visit, unverified>>

ReadPolicy(t) ==
    /\ req[t].at = "reading"
    /\ policy' = [policy EXCEPT !.tiers = ValidTiers(artifact)]
    /\ Goto(t, "policy")
    /\ UNCHANGED <<world, artifact, warm, det, visit, unverified>>

-----------------------------------------------------------------------------
\* _warm_detectors: one thread at a time, one detector after the other.

AfterWarm(t) == IF t = Startup THEN Answer(t, Unavailable) ELSE Goto(t, "score")

WarmSkip(t) ==
    /\ req[t].at = "warm"
    /\ warm.done
    /\ AfterWarm(t)
    /\ UNCHANGED <<world, artifact, policy, warm, det, visit, unverified>>

\* Mutant: the flag is set before the detectors are loaded.
WarmEnterEarly(t) ==
    /\ req[t].at = "warm"
    /\ ~warm.done
    /\ warm.lock = Nobody
    /\ warm' = [done |-> TRUE, lock |-> t, todo |-> InOrder(Names)]
    /\ Goto(t, "warming")
    /\ UNCHANGED <<world, artifact, policy, det, visit, unverified>>

WarmEnter(t) ==
    /\ req[t].at = "warm"
    /\ ~warm.done
    /\ warm.lock = Nobody
    /\ warm' = [done |-> FALSE, lock |-> t, todo |-> InOrder(Names)]
    /\ Goto(t, "warming")
    /\ UNCHANGED <<world, artifact, policy, det, visit, unverified>>

WarmNext(t) ==
    /\ req[t].at = "warming"
    /\ warm.todo # <<>>
    /\ LET d == Head(warm.todo) IN
       /\ visit[t][d] = "none"
       /\ visit' = [visit EXCEPT ![t][d] = "enter"]
    /\ UNCHANGED <<world, artifact, policy, warm, det, req, unverified>>

\* available() came back, whatever it said.
WarmDone(t) ==
    /\ req[t].at = "warming"
    /\ warm.todo # <<>>
    /\ LET d == Head(warm.todo) IN
       /\ visit[t][d] \in {"passed", "failed"}
       /\ visit' = [visit EXCEPT ![t][d] = "none"]
    /\ warm' = [warm EXCEPT !.todo = Tail(@)]
    /\ UNCHANGED <<world, artifact, policy, det, req, unverified>>

\* It raised: the warm-up gives up, the request goes on.
WarmRaised(t) ==
    /\ req[t].at = "warming"
    /\ warm.todo # <<>>
    /\ LET d == Head(warm.todo) IN
       /\ visit[t][d] = "raised"
       /\ visit' = [visit EXCEPT ![t][d] = "none"]
    /\ warm' = [warm EXCEPT !.lock = Nobody, !.todo = <<>>]
    /\ AfterWarm(t)
    /\ UNCHANGED <<world, artifact, policy, det, unverified>>

WarmLeave(t) ==
    /\ req[t].at = "warming"
    /\ warm.todo = <<>>
    /\ warm' = [warm EXCEPT !.done = TRUE, !.lock = Nobody]
    /\ AfterWarm(t)
    /\ UNCHANGED <<world, artifact, policy, det, visit, unverified>>

-----------------------------------------------------------------------------
\* One detector: _load, available, score_batch.

Put(t, d, at) == visit' = [visit EXCEPT ![t][d] = at]
LoadKeeps == <<world, artifact, policy, warm, req, unverified>>
Settled(d) == det[d].model \/ det[d].error

\* _load's test without the lock, and the one with it.
Enter(t, d) ==
    /\ visit[t][d] = "enter"
    /\ Put(t, d, IF Settled(d) THEN "avail" ELSE "lock")
    /\ UNCHANGED <<LoadKeeps, det>>

Acquire(t, d) ==
    /\ visit[t][d] = "lock"
    /\ det[d].lock = Nobody
    /\ IF Settled(d)
       THEN Put(t, d, "avail") /\ UNCHANGED det
       ELSE Put(t, d, "build") /\ det' = [det EXCEPT ![d].lock = t]
    /\ UNCHANGED LoadKeeps

BuildFails(t, d) ==
    /\ visit[t][d] = "build"
    /\ \/ d \in world.broken
       \/ \E u \in All, e \in Detectors \ {d} : visit[u][e] = "build"
    /\ det' = [det EXCEPT ![d].error = TRUE, ![d].lock = Nobody]
    /\ Put(t, d, "avail")
    /\ UNCHANGED LoadKeeps

\* The model is visible from here on, before the fields that go with it; only
\* NeMo's is complete.
Assign(t, d, complete) ==
    /\ visit[t][d] = "build"
    /\ d \notin world.broken
    /\ det' = [det EXCEPT ![d].model = TRUE, ![d].ready = complete]
    /\ Put(t, d, IF complete THEN "verify" ELSE "fields")
    /\ UNCHANGED LoadKeeps

BuildTransformer(t, d) == world.kind[d] = "transformer" /\ Assign(t, d, FALSE)
BuildHead(t, d) == world.kind[d] = "head" /\ Assign(t, d, FALSE)
BuildGuard(t, d) == world.kind[d] = "guard" /\ Assign(t, d, FALSE)
BuildNemo(t, d) == world.kind[d] = "nemo" /\ Assign(t, d, TRUE)

\* _positive_ids, _artifact, or the ids of the verdict tokens; a classifier may
\* turn out to have none of its labels.
SetFields(t, d) ==
    /\ visit[t][d] = "fields"
    /\ IF d \in world.mismatched
       THEN det' = [det EXCEPT ![d].error = TRUE] /\ Put(t, d, "unset")
       ELSE det' = [det EXCEPT ![d].ready = TRUE] /\ Put(t, d, "verify")
    /\ UNCHANGED LoadKeeps

UnsetModel(t, d) ==
    /\ visit[t][d] = "unset"
    /\ det' = [det EXCEPT ![d].model = FALSE, ![d].lock = Nobody]
    /\ Put(t, d, "avail")
    /\ UNCHANGED LoadKeeps

\* Mutant: an error on the way out of the load leaves the lock taken.
VerifyKeepsLock(t, d) ==
    /\ visit[t][d] = "verify"
    /\ IF d \in world.tampered
       THEN det' = [det EXCEPT ![d].model = FALSE] /\ Put(t, d, "raised")
       ELSE det' = [det EXCEPT ![d].verified = TRUE, ![d].lock = Nobody] /\ Put(t, d, "avail")
    /\ UNCHANGED LoadKeeps

\* _verify_detector_integrity, when it is asked for: an error leaves the model
\* where it is and passes through available() or score_batch().
Verify(t, d) ==
    /\ visit[t][d] = "verify"
    /\ IF d \in world.tampered
       THEN det' = [det EXCEPT ![d].lock = Nobody] /\ Put(t, d, "raised")
       ELSE det' = [det EXCEPT ![d].verified = TRUE, ![d].lock = Nobody] /\ Put(t, d, "avail")
    /\ UNCHANGED LoadKeeps

\* available(): two classes go by the error, two by the model; the embedding head
\* reads its artifact for the answer.
AvailableByError(d) == ~det[d].error
AvailableByModel(d) == det[d].model
Available(d) ==
    IF world.kind[d] \in {"transformer", "head"} THEN AvailableByError(d) ELSE AvailableByModel(d)

AskAvailable(t, d) ==
    /\ visit[t][d] = "avail"
    /\ Put(t, d, IF world.kind[d] = "head" /\ Available(d) /\ ~det[d].ready THEN "raised"
                 ELSE IF ~Available(d) THEN "failed"
                 ELSE IF req[t].at = "warming" THEN "passed" ELSE "infer")
    /\ UNCHANGED <<LoadKeeps, det>>

\* score_batch: without the ids of its labels a classifier gives a score of the
\* wrong shape, and the guard an index out of range; without its artifact the
\* head raises, as all do without a model.
Inferred(t, d, incomplete) ==
    /\ visit[t][d] = "infer"
    /\ Put(t, d, IF ~det[d].model \/ det[d].error THEN "failed"
                 ELSE IF det[d].ready THEN "scored" ELSE incomplete)
    /\ unverified' = (unverified \/ (det[d].model /\ ~det[d].error /\ ~det[d].verified))
    /\ UNCHANGED <<world, artifact, policy, warm, det, req>>

InferTransformer(t, d) == world.kind[d] = "transformer" /\ Inferred(t, d, "misshapen")
InferHead(t, d) == world.kind[d] = "head" /\ Inferred(t, d, "failed")
InferGuard(t, d) == world.kind[d] = "guard" /\ Inferred(t, d, "failed")
InferNemo(t, d) == world.kind[d] = "nemo" /\ Inferred(t, d, "failed")

Visit(t, d) ==
    \/ Enter(t, d)
    \/ Acquire(t, d)
    \/ BuildFails(t, d)
    \/ BuildTransformer(t, d)
    \/ BuildHead(t, d)
    \/ BuildGuard(t, d)
    \/ BuildNemo(t, d)
    \/ SetFields(t, d)
    \/ UnsetModel(t, d)
    \/ Verify(t, d)
    \/ AskAvailable(t, d)
    \/ InferTransformer(t, d)
    \/ InferHead(t, d)
    \/ InferGuard(t, d)
    \/ InferNemo(t, d)

-----------------------------------------------------------------------------
\* fused_threat_score.

Over == {"scored", "misshapen", "failed", "raised"}
Running == {task \in All \X Detectors :
              /\ req[task[1]].at = "collect"
              /\ visit[task[1]][task[2]] \notin Over \union {"none", "queued"}}

Dispatch(t) ==
    /\ req[t].at = "score"
    /\ visit' = [visit EXCEPT ![t] = [d \in Detectors |-> IF d \in Names THEN "queued" ELSE "none"]]
    /\ Goto(t, "collect")
    /\ UNCHANGED <<world, artifact, policy, warm, det, unverified>>

\* In the pool, which has a thread for each name; or one after the other.
StartTask(t, d) ==
    /\ req[t].at = "collect"
    /\ visit[t][d] = "queued"
    /\ IF world.parallel /\ Cardinality(Names) > 1
       THEN Cardinality(Running) < Cardinality(Names)
       ELSE \A e \in Detectors : visit[t][e] \in Over \union {"none", "queued"}
    /\ Put(t, d, "enter")
    /\ UNCHANGED <<LoadKeeps, det>>

\* The first tier whose detectors all have a score.
TierOf(S) ==
    LET fit == {i \in DOMAIN policy.tiers : policy.tiers[i].features \subseteq S}
    IN  IF fit = {} THEN Unavailable ELSE Min(fit)

Fuse(t) ==
    LET valued == {d \in Names : visit[t][d] \in {"scored", "misshapen"}}
        chosen == TierOf(valued)
    IN
    /\ req[t].at = "collect"
    /\ \A d \in Names : visit[t][d] \in Over
    /\ Answer(t, IF chosen # Unavailable
                    /\ \E d \in policy.tiers[chosen].features : visit[t][d] = "misshapen"
                 THEN Raised ELSE chosen)
    /\ visit' = [visit EXCEPT ![t] = [d \in Detectors |-> "none"]]
    /\ UNCHANGED <<world, artifact, policy, warm, det, unverified>>

Request(t) ==
    \/ Begin(t)
    \/ LoadPolicy(t)
    \/ ReadPolicy(t)
    \/ WarmSkip(t)
    \/ WarmEnter(t)
    \/ WarmNext(t)
    \/ WarmDone(t)
    \/ WarmRaised(t)
    \/ WarmLeave(t)
    \/ Dispatch(t)
    \/ Fuse(t)

Step(t) == Request(t) \/ \E d \in Detectors : Visit(t, d) \/ StartTask(t, d)

Next == \E t \in All : Step(t)

Spec == Init /\ [][Next]_vars

\* Threads are scheduled, loads end and locks are handed on: a thread that can
\* go on does.  Nothing loops, so no lock is contended for ever.  A request once
\* begun is fair, not its coming.
Fairness == \A t \in All : WF_vars(req[t].at # "idle" /\ Step(t))

FairSpec == Spec /\ Fairness

-----------------------------------------------------------------------------
\* The detectors that can score, and the tier that they allow.
Healthy == Detectors \ (world.broken \union world.mismatched)

\* Warm-up "forces every detector's lazy _load() to completion sequentially,
\* before any parallel dispatch": with it, and with nothing to refuse, a cold
\* start costs a request no tier.  Whichever requests race, each one is answered
\* by the best tier of the detectors that can be loaded; and when the start-up
\* event has run, none is told that there is no policy.  The loads that
\* the output judge and the background confirmation ask for, of a detector of
\* their own choice, are not among the ones that race here.
ColdStartLosesNothing ==
    \A t \in Threads :
        world.parallel /\ world.tampered = {} /\ Cardinality(Names) > 1 /\ req[t].at = "done" =>
            IF req[t].answer = NoPolicy THEN ~world.startup ELSE req[t].answer = TierOf(Healthy)

\* Every request that comes is answered: whatever raises gives its locks back,
\* and nobody waits for somebody who waits for him.
EveryRequestScored == \A t \in All : req[t].at # "idle" ~> req[t].at = "done"

\* ModelIntegrityError: with verification on, no score comes from a model that
\* has not passed it.
OnlyVerifiedScores == ~unverified
=============================================================================
