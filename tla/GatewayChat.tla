----------------------------- MODULE GatewayChat -----------------------------
(***************************************************************************)
(* Requests of /api/v1/gateway/chat (gateway_chat of api/main.py) in one   *)
(* process: the gates, the input assessment, the policy decision, the      *)
(* review and the audit record, the provider calls with their fallbacks,   *)
(* the output assessment and the token accounting of core/token_quota.py.  *)
(*                                                                         *)
(* The handler is a coroutine: the code between two awaits is one step.    *)
(* It awaits the input assessment, each provider call and the output       *)
(* assessment, each under a deadline.  A provider call runs in a thread of *)
(* a bounded pool; at the deadline one that is queued is cancelled and one *)
(* that is running goes on.  What can fail in a behaviour is its world,    *)
(* chosen at the start.                                                    *)
(***************************************************************************)
EXTENDS Integers, Sequences, FiniteSets

CONSTANTS
    Requests, Tenants,
    TenantOf,
    Admissible,   \* requests that are authenticated, of tenants not suspended
    Chosen,       \* the provider a request asks for, or "unset"
    Default,      \* LLM_GATEWAY_DEFAULT_PROVIDER
    Fallbacks,    \* GATEWAY_FALLBACK_PROVIDERS, a sequence
    Known,        \* the providers get_provider knows
    Policy,       \* policy_decision: the action for a request of a risk
    Quota,        \* the daily quota of a tenant; 0 is none
    MaxTokens,    \* bound on the tokens of one call
    PoolSize,     \* GATEWAY_MAX_CONCURRENCY
    Worlds        \* what may fail (Redis, the review file, the audit writes), if
                  \* SQLite has the authority over audit, if it fails closed

Risks == {"LOW", "MEDIUM", "HIGH"}
Passing == {"ALLOW", "RESTRICT"}
Stopping == {"BLOCK", "REVIEW"}

\* A usage on which extract_total_tokens raises: a number of input tokens and a
\* text for the output tokens, or the reverse, are added.
Malformed == -2

\* extract_total_tokens of the usage a provider reports: 0 if there is none or of
\* no known shape; -1 stands for a negative one.
Usages == Malformed .. MaxTokens

\* The providers a request may go to, in order: the fallbacks apply only when
\* the caller left the choice to the gateway.
Attempts(q) ==
    IF Chosen[q] # "unset" THEN <<Chosen[q]>> ELSE <<Default>> \o Fallbacks

Turns == 1 .. Len(Fallbacks) + 1

ASSUME GatewayAssumption ==
    /\ TenantOf \in [Requests -> Tenants]
    /\ Admissible \subseteq Requests
    /\ Fallbacks \in Seq(STRING)
    /\ Chosen \in [Requests -> STRING]
    /\ Default \in STRING
    /\ Known \subseteq STRING
    /\ Policy \in [Requests -> [Risks -> Passing \union Stopping]]
    /\ Quota \in [Tenants -> Nat]
    /\ MaxTokens \in Nat
    /\ PoolSize \in Nat \ {0}
    /\ Worlds \subseteq [redisFails : BOOLEAN, reviewFails : BOOLEAN, auditFails : BOOLEAN,
                         sqlite : BOOLEAN, closed : BOOLEAN]
    /\ IsFiniteSet(Requests)

VARIABLES
    world,
    pc,        \* where the handler of a request is
    turn,      \* the attempt it is waiting for
    calls,     \* the provider calls of a request, by turn
    tokens,    \* the usage its provider reported
    answer,    \* what the client was told
    reviews,   \* requests with a review in the queue
    audit,     \* the records written: <<request, event, decision>>
    used,      \* today's counter of a tenant in Redis
    local,     \* and in the fallback tracker of the process
    today      \* history: requests whose client got the decision on the output today

flow == <<pc, turn, calls, tokens, answer>>
effects == <<reviews, audit>>
quotas == <<used, local, today>>
vars == <<world, flow, effects, quotas>>

\* Answers given before a provider is called, and after.
Early == {"refused", "quota", "not_assessed", "failed", "unaudited_input", "BLOCK", "REVIEW",
          "unknown"}
Late == {"provider_failed", "error", "not_vetted", "unaudited_output", "blocked", "shown"}

Places == {"new", "input", "call", "output", "answered"}
CallStates == {"none", "queued", "running", "cancelled", "ended"}

TypeOK ==
    /\ world \in Worlds
    /\ pc \in [Requests -> Places]
    /\ turn \in [Requests -> Turns \union {0}]
    /\ calls \in [Requests -> [Turns -> CallStates]]
    /\ tokens \in [Requests -> Usages]
    /\ answer \in [Requests -> Early \union Late \union {"none"}]
    /\ reviews \subseteq Requests
    /\ audit \subseteq Requests \X {"input", "output"} \X (Passing \union Stopping)
    /\ used \in [Tenants -> Nat]
    /\ local \in [Tenants -> Nat]
    /\ today \subseteq Requests

Init ==
    /\ world \in Worlds
    /\ pc = [q \in Requests |-> "new"]
    /\ turn = [q \in Requests |-> 0]
    /\ calls = [q \in Requests |-> [i \in Turns |-> "none"]]
    /\ tokens = [q \in Requests |-> 0]
    /\ answer = [q \in Requests |-> "none"]
    /\ reviews = {}
    /\ audit = {}
    /\ used = [t \in Tenants |-> 0]
    /\ local = [t \in Tenants |-> 0]
    /\ today = {}

Goto(q, place) == pc' = [pc EXCEPT ![q] = place]

\* The handler returns or raises.
Answer(q, what) ==
    /\ Goto(q, "answered")
    /\ answer' = [answer EXCEPT ![q] = what]

-----------------------------------------------------------------------------
\* No valid key, a suspended tenant, or too many requests.
Refuse(q) ==
    /\ pc[q] = "new"
    /\ Answer(q, "refused")
    /\ UNCHANGED <<world, turn, calls, tokens, effects, quotas>>

\* The tokens would_exceed may find used: those of Redis or, if it raises, of
\* the fallback tracker.
Readings(q) ==
    {used[TenantOf[q]]} \union (IF world.redisFails THEN {local[TenantOf[q]]} ELSE {})

\* Mutant: the last token of the quota may be spent twice.
WouldExceedLate(q, reading) ==
    Quota[TenantOf[q]] > 0 /\ reading > Quota[TenantOf[q]]

WouldExceed(q, reading) ==
    Quota[TenantOf[q]] > 0 /\ reading >= Quota[TenantOf[q]]

QuotaExhausted(q) ==
    /\ pc[q] = "new" /\ q \in Admissible
    /\ \E n \in Readings(q) : WouldExceed(q, n)
    /\ Answer(q, "quota")
    /\ UNCHANGED <<world, turn, calls, tokens, effects, quotas>>

\* The gates are passed and the input assessment awaited.
Admit(q) ==
    /\ pc[q] = "new" /\ q \in Admissible
    /\ \E n \in Readings(q) : ~WouldExceed(q, n)
    /\ Goto(q, "input")
    /\ UNCHANGED <<world, turn, calls, tokens, answer, effects, quotas>>

InputTimeout(q) ==
    /\ pc[q] = "input"
    /\ Answer(q, "not_assessed")
    /\ UNCHANGED <<world, turn, calls, tokens, effects, quotas>>

\* The risk is known and policy_decision has an action for it; REVIEW is queued
\* before the decision is recorded.
Decided(q, decision) ==
    /\ pc[q] = "input"
    /\ \E risk \in Risks : Policy[q][risk] = decision
    /\ reviews' = IF decision = "REVIEW" THEN reviews \union {q} ELSE reviews

\* enqueue_review raises once the review is in memory: its file is not written.
ReviewRaises(q) ==
    /\ world.reviewFails
    /\ Decided(q, "REVIEW")
    /\ Answer(q, "failed")
    /\ UNCHANGED <<world, turn, calls, tokens, audit, quotas>>

\* A write to SQLite raises if that is the authority; a write to the JSONL file
\* never does, its handler swallows the error.
AuditRaises == world.auditFails /\ world.sqlite

\* A record may be lost and the request go on.
AuditLossy == world.auditFails /\ ~(world.sqlite /\ world.closed)

\* _write_audit_or_fail, when it returns.
Recorded(q, event, decision) ==
    \/ audit' = audit \union {<<q, event, decision>>}
    \/ AuditLossy /\ UNCHANGED audit

\* _write_audit_or_fail, when it raises: 503.
NotRecorded == AuditRaises /\ world.closed /\ UNCHANGED audit

\* Mutant: the first call is handed to the pool before the decision is recorded.
InputUnauditedCalled(q) ==
    /\ \E d \in Passing : Decided(q, d)
    /\ NotRecorded
    /\ Answer(q, "unaudited_input")
    /\ calls' = [calls EXCEPT ![q][1] = "queued"]
    /\ UNCHANGED <<world, turn, tokens, quotas>>

InputUnaudited(q) ==
    /\ \E d \in Passing \union Stopping : Decided(q, d)
    /\ NotRecorded
    /\ Answer(q, "unaudited_input")
    /\ UNCHANGED <<world, turn, calls, tokens, quotas>>

InputStops(q) ==
    \E d \in Stopping :
        /\ Decided(q, d)
        /\ Recorded(q, "input", d)
        /\ Answer(q, d)
        /\ UNCHANGED <<world, turn, calls, tokens, quotas>>

\* A call is handed to the pool, and awaited.
Submit(q, i) ==
    /\ turn' = [turn EXCEPT ![q] = i]
    /\ Goto(q, "call")
    /\ UNCHANGED answer

UnknownProvider(q) ==
    \E d \in Passing :
        /\ Decided(q, d)
        /\ Recorded(q, "input", d)
        /\ Attempts(q)[1] \notin Known
        /\ Answer(q, "unknown")
        /\ UNCHANGED <<world, turn, calls, tokens, quotas>>

InputPasses(q) ==
    \E d \in Passing :
        /\ Decided(q, d)
        /\ Recorded(q, "input", d)
        /\ Attempts(q)[1] \in Known
        /\ Submit(q, 1)
        /\ calls' = [calls EXCEPT ![q][1] = "queued"]
        /\ UNCHANGED <<world, tokens, quotas>>
-----------------------------------------------------------------------------
Running == {c \in Requests \X Turns : calls[c[1]][c[2]] = "running"}

SetCall(q, i, state) == calls' = [calls EXCEPT ![q][i] = state]

\* A thread of the pool takes the call: the provider sees the prompt.
CallStarts(q, i) ==
    /\ calls[q][i] = "queued"
    /\ Cardinality(Running) < PoolSize
    /\ SetCall(q, i, "running")
    /\ UNCHANGED <<world, pc, turn, tokens, answer, effects, quotas>>

\* The provider answers, and reports its usage.
CallAnswers(q) ==
    /\ pc[q] = "call" /\ calls[q][turn[q]] = "running"
    /\ SetCall(q, turn[q], "ended")
    /\ \E n \in Usages : tokens' = [tokens EXCEPT ![q] = n]
    /\ Goto(q, "output")
    /\ UNCHANGED <<world, turn, answer, effects, quotas>>

\* The failed attempt is logged; log_gateway_event may raise, which nothing
\* catches.
AttemptLogRaises(q) ==
    /\ AuditRaises
    /\ Answer(q, "error")
    /\ UNCHANGED turn

\* Mutant: the fallbacks are tried in turns.
RemainingForever(q) ==
    {i \in 1 .. Len(Attempts(q)) : i # turn[q] /\ Attempts(q)[i] \in Known}

\* The attempts still to make: fallbacks that are unknown are skipped, and the
\* default is no fallback of itself.
Remaining(q) ==
    {i \in 1 .. Len(Attempts(q)) : i > turn[q] /\ Attempts(q)[i] \in Known \ {Default}}

NextAttempt(q) ==
    IF Remaining(q) = {} THEN Answer(q, "provider_failed") /\ UNCHANGED turn
    ELSE \E i \in Remaining(q) : (\A j \in Remaining(q) : i <= j) /\ Submit(q, i)

\* The attempt of q is over, and its call is left in a state: the next one, if
\* any, is queued.
AttemptOver(q, state) ==
    /\ NextAttempt(q) \/ AttemptLogRaises(q)
    /\ calls' = [calls EXCEPT ![q] =
                    [i \in Turns |-> IF i = turn[q] THEN state
                                     ELSE IF i = turn'[q] THEN "queued" ELSE @[i]]]
    /\ UNCHANGED <<world, tokens, effects, quotas>>

CallFails(q) ==
    /\ pc[q] = "call" /\ calls[q][turn[q]] = "running"
    /\ AttemptOver(q, "ended")

\* Mutant: the queued call is not cancelled.
CallTimesOutQueued(q) ==
    /\ pc[q] = "call"
    /\ AttemptOver(q, calls[q][turn[q]])

\* The deadline of _run_gateway_bounded: a queued call is cancelled, a running
\* one goes on.
CallTimesOut(q) ==
    /\ pc[q] = "call"
    /\ AttemptOver(q, IF calls[q][turn[q]] = "queued" THEN "cancelled" ELSE "running")

\* A call nobody waits for any more ends, and frees its thread.
CallAbandoned(q, i) ==
    /\ calls[q][i] = "running"
    /\ ~(pc[q] = "call" /\ turn[q] = i)
    /\ SetCall(q, i, "ended")
    /\ UNCHANGED <<world, pc, turn, tokens, answer, effects, quotas>>

-----------------------------------------------------------------------------
OutputTimeout(q) ==
    /\ pc[q] = "output"
    /\ Answer(q, "not_vetted")
    /\ UNCHANGED <<world, turn, calls, tokens, effects, quotas>>

OutputUnaudited(q) ==
    /\ pc[q] = "output"
    /\ NotRecorded
    /\ Answer(q, "unaudited_output")
    /\ UNCHANGED <<world, turn, calls, tokens, reviews, quotas>>

\* log_gateway_event raises after the output was recorded, before its tokens are.
OutputLogRaises(q) ==
    /\ pc[q] = "output"
    /\ AuditRaises
    /\ \E d \in {"ALLOW", "BLOCK"} : Recorded(q, "output", d)
    /\ Answer(q, "error")
    /\ UNCHANGED <<world, turn, calls, tokens, reviews, quotas>>

\* The output is recorded and logged; the sum of its tokens raises: 500.
UsageRaises(q) ==
    /\ pc[q] = "output"
    /\ tokens[q] = Malformed
    /\ \E d \in {"ALLOW", "BLOCK"} : Recorded(q, "output", d)
    /\ Answer(q, "error")
    /\ UNCHANGED <<world, turn, calls, tokens, reviews, quotas>>

\* Mutant: the usage is recorded as it was reported.
CountTokensRaw(q) ==
    LET t == TenantOf[q] IN
    \/ /\ used' = [used EXCEPT ![t] = @ + tokens[q]]
       /\ UNCHANGED local
    \/ /\ world.redisFails
       /\ local' = [local EXCEPT ![t] = @ + tokens[q]]
       /\ UNCHANGED used

\* A positive usage is counted by Redis or, if record raises, by the fallback
\* tracker; it may raise after Redis has counted.
CountTokens(q) ==
    LET t == TenantOf[q] IN
    \/ /\ tokens[q] <= 0
       /\ UNCHANGED <<used, local>>
    \/ /\ tokens[q] > 0
       /\ used' = [used EXCEPT ![t] = @ + tokens[q]]
       /\ UNCHANGED local
    \/ /\ tokens[q] > 0
       /\ world.redisFails
       /\ local' = [local EXCEPT ![t] = @ + tokens[q]]
       /\ used' \in {used, [used EXCEPT ![t] = @ + tokens[q]]}

\* Mutant: only an output that is shown is paid for.
RespondCountsShown(q) ==
    /\ pc[q] = "output"
    /\ tokens[q] # Malformed
    /\ \E d \in {"ALLOW", "BLOCK"} :
          /\ Recorded(q, "output", d)
          /\ IF d = "BLOCK" THEN UNCHANGED <<used, local>> ELSE CountTokens(q)
          /\ Answer(q, IF d = "BLOCK" THEN "blocked" ELSE "shown")
    /\ today' = today \union {q}
    /\ UNCHANGED <<world, turn, calls, tokens, reviews>>

\* assess_output has a decision: it is recorded, the tokens are counted, and the
\* client gets the content unless it is blocked.
Respond(q) ==
    /\ pc[q] = "output"
    /\ tokens[q] # Malformed
    /\ \E d \in {"ALLOW", "BLOCK"} :
          /\ Recorded(q, "output", d)
          /\ CountTokens(q)
          /\ Answer(q, IF d = "BLOCK" THEN "blocked" ELSE "shown")
    /\ today' = today \union {q}
    /\ UNCHANGED <<world, turn, calls, tokens, reviews>>

\* What the handler awaits raises what it does not catch: 500.
Raises(q) ==
    /\ \/ /\ pc[q] \in {"input", "output"}
          /\ UNCHANGED calls
       \/ /\ pc[q] = "call" /\ calls[q][turn[q]] = "running"
          /\ SetCall(q, turn[q], "ended")
    /\ Answer(q, IF pc[q] = "input" THEN "failed" ELSE "error")
    /\ UNCHANGED <<world, turn, tokens, effects, quotas>>

\* Both trackers key their counters by the UTC day.
Midnight ==
    /\ used' = [t \in Tenants |-> 0]
    /\ local' = [t \in Tenants |-> 0]
    /\ today' = {}
    /\ UNCHANGED <<world, flow, effects>>

Handler(q) ==
    \/ Refuse(q) \/ QuotaExhausted(q) \/ Admit(q)
    \/ ReviewRaises(q) \/ InputUnaudited(q) \/ InputStops(q) \/ UnknownProvider(q) \/ InputPasses(q)
    \/ CallAnswers(q) \/ CallFails(q)
    \/ OutputUnaudited(q) \/ OutputLogRaises(q) \/ UsageRaises(q) \/ Respond(q) \/ Raises(q)

Deadline(q) == InputTimeout(q) \/ CallTimesOut(q) \/ OutputTimeout(q)

Thread(q, i) == CallStarts(q, i) \/ CallAbandoned(q, i)

Next ==
    \/ \E q \in Requests : Handler(q) \/ Deadline(q)
    \/ \E q \in Requests, i \in Turns : Thread(q, i)
    \/ Midnight

Spec == Init /\ [][Next]_vars

\* The event loop takes up a request and fires its deadlines; no worker and no
\* provider need ever answer.
LoopSpec ==
    /\ Spec
    /\ \A q \in Requests : WF_vars(Refuse(q) \/ QuotaExhausted(q) \/ Admit(q))
    /\ \A q \in Requests : WF_vars(Deadline(q))

-----------------------------------------------------------------------------
\* The provider of an attempt was called.
Started(q, i) == calls[q][i] \in {"running", "ended"}

Called(q) == \E i \in Turns : Started(q, i)

\* A request on record as allowed, or in a world where records may be lost.
OnRecord(q, event, decisions) ==
    \/ AuditLossy
    \/ \E d \in decisions : <<q, event, d>> \in audit

StageOf(q) ==
    IF answer[q] = "shown"
    THEN IF OnRecord(q, "input", Passing) /\ OnRecord(q, "output", Passing)
         THEN "shown" ELSE "unrecorded"
    ELSE IF pc[q] = "answered" THEN "closed"
    ELSE IF pc[q] \in {"call", "output"}
         THEN IF OnRecord(q, "input", Passing) THEN "cleared" ELSE "unrecorded"
    ELSE "open"

Contract == INSTANCE GatewayContract
    WITH stage <- [q \in Requests |-> StageOf(q)],
         called <- {c \in Requests \X Turns : Started(c[1], c[2])}

\* gateway_chat keeps the contract of the gateway: "the provider is only ever
\* called if [the input guardrails] allow it", on record; no attempt, the first or
\* a fallback, is called once the client has its answer, nor called twice; and
\* content is shown only when its output was assessed and recorded.
KeepsContract == Contract!Spec

\* A client that was told "The provider was NOT called" was told the truth, also
\* of what the threads of the pool do afterwards.
NotCalledIsTrue == \A q \in Requests : answer[q] \in Early => ~Called(q)

InFlight(t) == {q \in Requests : TenantOf[q] = t /\ pc[q] \in {"input", "call", "output"}}

\* The most today's counter of a tenant can become if nobody else is admitted.
Exposure(t) == used[t] + MaxTokens * Cardinality(InFlight(t))

\* With Redis answering, a tenant overruns its quota by no more than the calls in
\* flight when it reached it: from then on the exposure only falls.
OverrunBounded ==
    [][\A t \in Tenants :
         ~world.redisFails /\ Quota[t] > 0 /\ used[t] >= Quota[t] => Exposure(t)' <= Exposure(t)]_vars

\* The tokens of the requests in today of a tenant, one by one.
Delivered(t) ==
    {unit \in today \X (1 .. MaxTokens) : TenantOf[unit[1]] = t /\ unit[2] <= tokens[unit[1]]}

\* With Redis answering, today's counter is the positive usage of the requests
\* whose client was shown an output, or told that it was blocked, today, each
\* counted once: what is refused, fails or times out costs nothing.
CountsDelivered ==
    ~world.redisFails => \A t \in Tenants : used[t] = Cardinality(Delivered(t))

\* Every request is answered, if every worker and every provider hangs: each wait
\* has a deadline and the fallbacks run out.
EveryRequestAnswered == \A q \in Requests : pc[q] # "answered" ~> pc[q] = "answered"
=============================================================================
