--------------------------- MODULE VerdictPipeline ---------------------------
(***************************************************************************)
(* Requests of the assess endpoint on several replicas, from the worker    *)
(* pool to the response, through assess_risk of core/risk.py and the two   *)
(* tiers of the semantic cache (core/cache.py):                            *)
(*                                                                         *)
(*   - a bounded pool of workers runs assess_risk; when the deadline of    *)
(*     _run_bounded passes, the client gets a 503, queued work is          *)
(*     cancelled and running work goes on;                                 *)
(*   - verdicts are looked up in, and written through to, the exact tier   *)
(*     (shared through Redis or local) and the local fuzzy tier, in two    *)
(*     steps with no lock around both;                                     *)
(*   - a verdict of the judge schedules a Llama Guard confirmation, run as *)
(*     a background task of the response.                                  *)
(*                                                                         *)
(* An entry may leave the exact tier at any moment (TTL, eviction, flush). *)
(* The fuzzy tier is an ordered dictionary, least recently used first, and *)
(* an index of the vectors in the order it had when the index was built: a *)
(* position found in the index is looked up in the dictionary.  A thread   *)
(* writes the dictionary to a file, which a restarted process loads.       *)
(***************************************************************************)
EXTENDS RiskFusion, FiniteSets, Sequences

CONSTANTS
    Requests, Prompts, Texts, Replicas, Stores,
    HomeOf,        \* the replica that serves it
    TextOf,        \* redact_pii: the text of a prompt, which keys the cache
    Evidence,      \* the signals of a prompt
    Similarities,  \* what CACHE_SIMILARITY_THRESHOLD may make of similar texts
    MaxEntries,    \* MAX_CACHE_SIZE
    Disturbed,     \* the replicas that are saved, flushed and restarted
    StoreOf,       \* the exact tier of a replica
    Workers,       \* ASSESS_MAX_CONCURRENCY
    StoreMayFail,  \* may a call of the exact tier raise?
    ServeMayFail   \* may the handler fail once the assessment is done?

ASSUME PipelineAssumption ==
    /\ HomeOf \in [Requests -> Replicas]
    /\ TextOf \in [Prompts -> Texts]
    /\ Evidence \in [Prompts -> Signals]
    /\ Similarities \subseteq [Texts -> SUBSET Texts]
    /\ MaxEntries \in Nat \ {0}
    /\ Disturbed \subseteq Replicas
    /\ StoreOf \in [Replicas -> Stores]
    /\ Workers \in Nat \ {0}
    /\ StoreMayFail \in BOOLEAN
    /\ ServeMayFail \in BOOLEAN
    /\ IsFiniteSet(Requests)

VARIABLES
    client,    \* what the client of a request sees
    work,      \* where its worker is in assess_risk
    verdict,   \* the worker's risk so far
    served,    \* the risk the client's answer was decided from
    task,      \* the request's Llama Guard confirmation
    promptOf,  \* the raw prompt of a request
    near,      \* the texts more similar to a text than the threshold
    exact,     \* Tier 1: store -> text -> risk
    entries,   \* Tier 2: cache_data of a replica
    index,     \* the texts whose vectors are the rows of its index
    file,      \* its file, as far as a load can use it
    saving     \* is its save thread alive?

clients == <<client, served>>
tier == <<entries, index>>
disk == <<file, saving>>
setting == <<promptOf, near>>
caches == <<setting, exact, tier, disk>>
vars == <<clients, work, verdict, task, caches>>

None == "none"
MaybeRisk == Risks \union {None}
Entry == [text: Texts, risk: MaybeRisk]

Text(q) == TextOf[promptOf[q]]
Signal(q) == Evidence[promptOf[q]]
Store(q) == StoreOf[HomeOf[q]]

Running == {"exact", "fuzzy", "decide", "judge", "save", "publish"}

TypeOK ==
    /\ client \in [Requests -> {"new", "waiting", "served", "unavailable"}]
    /\ work \in [Requests -> Running \union {"idle", "queued", "cancelled", "done"}]
    /\ verdict \in [Requests -> MaybeRisk]
    /\ served \in [Requests -> MaybeRisk]
    /\ task \in [Requests -> {None, "scheduled", "ready", "save", "publish", "done", "dropped", "lost"}]
    /\ promptOf \in [Requests -> Prompts]
    /\ near \in Similarities
    /\ exact \in [Stores -> [Texts -> MaybeRisk]]
    /\ entries \in [Replicas -> Seq(Entry)]
    /\ index \in [Replicas -> Seq(Texts)]
    /\ file \in [Replicas -> Seq(Entry)]
    /\ saving \in [Replicas -> BOOLEAN]

Init ==
    /\ client = [q \in Requests |-> "new"]
    /\ work = [q \in Requests |-> "idle"]
    /\ verdict = [q \in Requests |-> None]
    /\ served = [q \in Requests |-> None]
    /\ task = [q \in Requests |-> None]
    /\ exact = [st \in Stores |-> [t \in Texts |-> None]]
    /\ promptOf \in [Requests -> Prompts]
    /\ near \in Similarities
    /\ entries = [r \in Replicas |-> <<>>]
    /\ index = [r \in Replicas |-> <<>>]
    /\ file = [r \in Replicas |-> <<>>]
    /\ saving = [r \in Replicas |-> FALSE]

\* The worker of q goes on to a place with a risk.
Advance(q, place, risk) ==
    /\ work' = [work EXCEPT ![q] = place]
    /\ verdict' = [verdict EXCEPT ![q] = risk]

SetTask(q, state) == task' = [task EXCEPT ![q] = state]

-----------------------------------------------------------------------------
\* _run_bounded submits assess_risk to the pool and waits.
Submit(q) ==
    /\ client[q] = "new"
    /\ client' = [client EXCEPT ![q] = "waiting"]
    /\ work' = [work EXCEPT ![q] = "queued"]
    /\ UNCHANGED <<verdict, served, task, caches>>

Busy(r) == {q \in Requests : HomeOf[q] = r /\ work[q] \in Running}

\* A worker of the replica's pool takes the request.
Start(q) ==
    /\ work[q] = "queued"
    /\ Cardinality(Busy(HomeOf[q])) < Workers
    /\ work' = [work EXCEPT ![q] = "exact"]
    /\ UNCHANGED <<clients, verdict, task, caches>>

\* Stage 0, tier 1: an entry is the answer; no entry, or an error, is a miss.
LookupExact(q) ==
    LET hit == exact[Store(q)][Text(q)] IN
    /\ work[q] = "exact"
    /\ \/ hit # None /\ Advance(q, "done", hit)
       \/ (hit = None \/ StoreMayFail) /\ Advance(q, "fuzzy", None)
    /\ UNCHANGED <<clients, task, caches>>

\* The dictionary without its i-th entry.
Without(s, i) == [j \in 1 .. Len(s) - 1 |-> IF j < i THEN s[j] ELSE s[j + 1]]

\* _rebuild_faiss: the dictionary of r becomes s, and the index its rows.
Rebuild(r, s) ==
    /\ entries' = [entries EXCEPT ![r] = s]
    /\ index' = [index EXCEPT ![r] = [i \in DOMAIN s |-> s[i].text]]

\* Mutant: the threshold is not applied to the nearest row.
FuzzyHitsNoThreshold(q) == DOMAIN index[HomeOf[q]] \intersect DOMAIN entries[HomeOf[q]]

\* The position of the nearest row of the index, if it is above the threshold:
\* the text's own row if there is one, otherwise one of its neighbours'.
FuzzyHits(q) ==
    LET r    == HomeOf[q]
        rows == {i \in DOMAIN index[r] : index[r][i] \in near[Text(q)]}
        own  == {i \in rows : index[r][i] = Text(q)}
    IN  (IF own # {} THEN own ELSE rows) \intersect DOMAIN entries[r]

\* Stage 0, tier 2: the entry at that position of the dictionary is the answer
\* and becomes the most recently used one, while the index stays as it is; or
\* it has expired, and the index is rebuilt without it.
LookupFuzzy(q) ==
    LET r == HomeOf[q] IN
    /\ work[q] = "fuzzy"
    /\ \/ /\ FuzzyHits(q) = {}
          /\ Advance(q, "decide", None)
          /\ UNCHANGED tier
       \/ \E i \in FuzzyHits(q) :
             /\ Advance(q, "done", entries[r][i].risk)
             /\ entries' = [entries EXCEPT ![r] = Append(Without(@, i), @[i])]
             /\ UNCHANGED index
       \/ \E i \in FuzzyHits(q) :
             /\ Advance(q, "decide", None)
             /\ Rebuild(r, Without(entries[r], i))
    /\ UNCHANGED <<clients, task, setting, exact, disk>>

\* Stages 1 to 3: the evidence decides, or leaves it to the judge.
Decide(q) ==
    LET d == Deterministic(Signal(q)) IN
    /\ work[q] = "decide"
    /\ IF d.judge THEN Advance(q, "judge", None) ELSE Advance(q, "save", d.risk)
    /\ UNCHANGED <<clients, task, caches>>

\* Stage 4: the judge answers, and the confirmation is added to the background
\* tasks of the response, which may be gone already.
Judge(q) ==
    /\ work[q] = "judge"
    /\ \E answer \in JudgeVerdicts :
          Advance(q, "save", JudgeArbitration(answer, ThreatPresent(Signal(q))))
    /\ SetTask(q, IF client[q] = "waiting" THEN "scheduled" ELSE "dropped")
    /\ UNCHANGED <<clients, caches>>

\* What add keeps of the dictionary: all but the text's own entry or, in a full
\* one, all but the least recently used.
Kept(s, t) ==
    LET own == {i \in DOMAIN s : s[i].text = t}
    IN  IF own # {} THEN Without(s, CHOOSE i \in own : TRUE)
        ELSE IF Len(s) >= MaxEntries THEN Tail(s)
        ELSE s

\* FAISSCache.add, first part: dictionary and index, under the lock.
PutFuzzy(q, risk) ==
    LET r == HomeOf[q] IN
    /\ Rebuild(r, Append(Kept(entries[r], Text(q)), [text |-> Text(q), risk |-> risk]))
    /\ UNCHANGED <<setting, disk>>

\* FAISSCache.add, second part: the write-through outside the lock, whose
\* failure is logged, and a save thread unless one is alive.
PutExact(q, risk) ==
    /\ \/ exact' = [exact EXCEPT ![Store(q)][Text(q)] = risk]
       \/ StoreMayFail /\ UNCHANGED exact
    /\ saving' = [saving EXCEPT ![HomeOf[q]] = TRUE]
    /\ UNCHANGED <<setting, tier, file>>

\* Every verdict assess_risk did not read from the cache is saved (stage 5, and
\* the early returns of stages 1 and 1.5).
Save(q) ==
    /\ work[q] = "save"
    /\ PutFuzzy(q, verdict[q])
    /\ Advance(q, "publish", verdict[q])
    /\ UNCHANGED <<clients, task, exact>>

Publish(q) ==
    /\ work[q] = "publish"
    /\ PutExact(q, verdict[q])
    /\ Advance(q, "done", verdict[q])
    /\ UNCHANGED <<clients, task>>

-----------------------------------------------------------------------------
\* Mutant: the tasks of the response are forgotten.
RespondWithoutTasks(q) ==
    /\ client[q] = "waiting"
    /\ work[q] = "done"
    /\ client' = [client EXCEPT ![q] = "served"]
    /\ served' = [served EXCEPT ![q] = verdict[q]]
    /\ SetTask(q, IF task[q] = "scheduled" THEN "dropped" ELSE task[q])
    /\ UNCHANGED <<work, verdict, caches>>

\* The decision is audited and the response sent; its background tasks run.
Respond(q) ==
    /\ client[q] = "waiting"
    /\ work[q] = "done"
    /\ client' = [client EXCEPT ![q] = "served"]
    /\ served' = [served EXCEPT ![q] = verdict[q]]
    /\ SetTask(q, IF task[q] = "scheduled" THEN "ready" ELSE task[q])
    /\ UNCHANGED <<work, verdict, caches>>

\* An error response drops the background tasks added so far.
Fail(q) ==
    /\ client' = [client EXCEPT ![q] = "unavailable"]
    /\ SetTask(q, IF task[q] = "scheduled" THEN "dropped" ELSE task[q])
    /\ UNCHANGED <<served, verdict, caches>>

\* The handler fails after the assessment: the output assessment of a combined
\* call ran out of time, or _write_audit_or_fail could not write the record.
ServeFails(q) ==
    /\ ServeMayFail
    /\ client[q] = "waiting"
    /\ work[q] = "done"
    /\ Fail(q)
    /\ UNCHANGED work

\* Mutant: the deadline starts when a worker takes the request.
TimeoutOfExecution(q) ==
    /\ client[q] = "waiting"
    /\ work[q] \in Running
    /\ Fail(q)
    /\ UNCHANGED work

\* The deadline of _run_bounded covers queueing and execution: queued work is
\* cancelled, a running worker is not.
Timeout(q) ==
    /\ client[q] = "waiting"
    /\ work[q] # "done"
    /\ Fail(q)
    /\ work' = [work EXCEPT ![q] = IF @ = "queued" THEN "cancelled" ELSE @]

-----------------------------------------------------------------------------
\* llama_guard_async_confirmation: only an escalation is written.
Confirm(q) ==
    /\ task[q] = "ready"
    /\ \E answer \in GuardVerdicts :
          LET guarded == LlamaGuardArbitration(answer, verdict[q] \in {"MEDIUM", "HIGH"})
          IN  SetTask(q, IF guarded = "HIGH" /\ verdict[q] # "HIGH" THEN "save" ELSE "done")
    /\ UNCHANGED <<clients, work, verdict, caches>>

ConfirmSave(q) ==
    /\ task[q] = "save"
    /\ PutFuzzy(q, "HIGH")
    /\ SetTask(q, "publish")
    /\ UNCHANGED <<clients, work, verdict, exact>>

ConfirmPublish(q) ==
    /\ task[q] = "publish"
    /\ PutExact(q, "HIGH")
    /\ SetTask(q, "done")
    /\ UNCHANGED <<clients, work, verdict>>

\* TTL, eviction or a flush takes an entry out of the exact tier.
ForgetExact(st, t) ==
    /\ exact[st][t] # None
    /\ exact' = [exact EXCEPT ![st][t] = None]
    /\ UNCHANGED <<clients, work, verdict, task, setting, tier, disk>>

\* The save thread writes the dictionary, or fails and leaves a file that does not
\* load.
WriteFile(r) ==
    /\ saving[r]
    /\ \E s \in {entries[r], <<>>} : file' = [file EXCEPT ![r] = s]
    /\ saving' = [saving EXCEPT ![r] = FALSE]
    /\ UNCHANGED <<clients, work, verdict, task, setting, exact, tier>>

\* An entry of the file that is past its TTL is one that load will skip.
ExpireSaved(r) ==
    /\ \E i \in DOMAIN file[r] : file' = [file EXCEPT ![r] = Without(@, i)]
    /\ UNCHANGED <<clients, work, verdict, task, setting, exact, tier, saving>>

\* flush_semantic_cache: the fuzzy tier and its file, under the lock; the exact
\* tier follows (ForgetExact).  A save thread that has listed the dictionary
\* before may still write it over the emptied file.
Flush(r) ==
    /\ Rebuild(r, <<>>)
    /\ \E s \in {<<>>} \union (IF saving[r] THEN {entries[r]} ELSE {}) :
          file' = [file EXCEPT ![r] = s]
    /\ UNCHANGED <<clients, work, verdict, task, setting, exact, saving>>

\* The process dies, with its requests and their tasks, and loads the file; one
\* that was being written may not load.
Restart(r) ==
    /\ \E s \in {file[r]} \union (IF saving[r] THEN {<<>>} ELSE {}) :
          /\ Rebuild(r, s)
          /\ file' = [file EXCEPT ![r] = s]
    /\ saving' = [saving EXCEPT ![r] = FALSE]
    /\ LET dead(q) == HomeOf[q] = r IN
       /\ client' = [q \in Requests |->
                       IF dead(q) /\ client[q] = "waiting" THEN "unavailable" ELSE client[q]]
       /\ work' = [q \in Requests |->
                     IF dead(q) /\ work[q] \in Running \union {"queued"} THEN "cancelled" ELSE work[q]]
       /\ task' = [q \in Requests |->
                     IF dead(q) /\ task[q] \in {"scheduled", "ready", "save", "publish"} THEN "lost"
                     ELSE task[q]]
    /\ UNCHANGED <<verdict, served, setting, exact>>

WorkerStep(q) ==
    \/ Start(q)
    \/ LookupExact(q)
    \/ LookupFuzzy(q)
    \/ Decide(q)
    \/ Judge(q)
    \/ Save(q)
    \/ Publish(q)

TaskStep(q) == Confirm(q) \/ ConfirmSave(q) \/ ConfirmPublish(q)

ReplicaStep(r) == WriteFile(r) \/ ExpireSaved(r) \/ Flush(r) \/ Restart(r)

Next ==
    \/ \E q \in Requests :
          \/ Submit(q)
          \/ WorkerStep(q)
          \/ Respond(q)
          \/ ServeFails(q)
          \/ Timeout(q)
          \/ TaskStep(q)
    \/ \E st \in Stores, t \in Texts : ForgetExact(st, t)
    \/ \E r \in Disturbed : ReplicaStep(r)

Spec == Init /\ [][Next]_vars

\* The event loop answers a finished request and fires its deadline.  What a task
\* does once the guard has escalated ends: it writes to memory, and to Redis, whose
\* calls have timeouts.  Nothing is assumed of the workers, nor of the guard itself
\* (Confirm), whose local model has no deadline: they may hang.
LoopSpec ==
    Spec /\ \A q \in Requests :
                /\ WF_vars(Respond(q) \/ ServeFails(q))
                /\ WF_vars(Timeout(q))
                /\ WF_vars(ConfirmSave(q) \/ ConfirmPublish(q))

-----------------------------------------------------------------------------
\* The prompts whose verdict a lookup of text t may return: its own and, with the
\* fuzzy tier on, any, because a position of the index may be that of another
\* entry of the dictionary.
Origins(t) == {p \in Prompts : TextOf[p] = t \/ near[t] # {}}

AboveFloor(risk, origins) == \E p \in origins : Rank(risk) >= Rank(Floor(Evidence[p]))

\* Whatever the interleaving of workers, zombies of timed-out requests,
\* confirmations, restarts and both cache tiers, a client is never served a risk
\* below what the deterministic evidence allows for the prompt: a vetoed prompt
\* is always HIGH, a prompt in the upper ambiguous band is never LOW.  With the
\* fuzzy tier on this is the evidence on one of the prompts, not on this one.
NeverBelowFloor ==
    \A q \in Requests : client[q] = "served" => AboveFloor(served[q], Origins(Text(q)))

\* Every client is answered, even if every worker hangs: the deadline covers
\* queueing as well as execution.
EveryClientAnswered ==
    \A q \in Requests : client[q] = "waiting" ~> client[q] \in {"served", "unavailable"}

\* The confirmation of a verdict that was served is never dropped: it is with the
\* guard, which may hang, or comes to its end with an escalation written to both
\* tiers, unless its process dies.
ServedIsConfirmed ==
    \A q \in Requests :
        client[q] = "served" /\ task[q] # None ~>
            task[q] \in {"done", "lost"} \/ [](task[q] = "ready")

\* FAISSCache.lookup, "indices map 1:1": with the fuzzy tier on, a client is served
\* a risk that the evidence on the prompt, or on one more similar to it than the
\* threshold, allows.
ServedIsNear ==
    \A q \in Requests :
        client[q] = "served" =>
            AboveFloor(served[q], {p \in Prompts : TextOf[p] = Text(q) \/ TextOf[p] \in near[Text(q)]})
=============================================================================
