# Verification of the Gatekeeper gateway

TLA+ modules, TLC runs and TLAPS proofs for the AI governance gateway in `src/`:
a FastAPI service that assesses prompts and model outputs, decides by policy,
calls model providers and tools on behalf of tenants, and keeps an audit trail.
`PROJECT.json` maps every definition to the lines it models and lists the runs,
their mutants, the hazards, the findings and the theorems.

## The system

| Component | State it keeps | Operations | Interacts with |
|---|---|---|---|
| Circuit breaker (`core/circuit_breaker.py`) | two Redis keys per judge backend, one local mirror per process | `is_open`, `record_success`, `record_failure`, `reset`, `_opened_at` | judges, `/health`; Redis expiry |
| Judges (`core/semantic_judge.py`) | none | `semantic_judge`, `output_judge` | Ollama over HTTP, the breaker |
| Risk decision (`core/risk.py`) | none | stages 0 to 5 of `assess_risk`, `fuse_signals`, the two arbiters | cache, detectors, judges, breaker |
| Semantic cache (`core/cache.py`, `core/cache_backend.py`) | exact tier (Redis or a local LRU), fuzzy tier (local index), two files | `add`, `lookup`, `flush`, background saves | every assessment, confirmations |
| Request handling (`api/main.py`) | bounded worker pools, background tasks | `/assess`, `/gateway/chat`, `/tools/call`, reviews, policies | everything |
| Review queue (`core/review_queue.py`) | a dictionary in memory, one JSON file | `enqueue`, `get`, `list_pending`, `resolve` | handlers on the event loop and in threads |
| Policies (`core/policy.py`, `core/policy_versioning.py`) | tenant policies in memory, the live file, snapshots | `load`, `get`, `policy_decision`, `deploy_policy`, `rollback_to` | every decision, admin endpoints |
| Tenants and keys (`core/tenancy.py`, `core/auth.py`) | tables loaded from files | `load`, `get`, `lookup`, `resolve_principal` | every request |
| Rate limiter, token quota (`core/rate_limit.py`, `core/token_quota.py`) | buckets and daily counters, in Redis with a local fallback | `check`; `would_exceed`, `record` | every request; gateway chat |
| Audit trail (`core/logger.py`, `core/audit_store.py`, `core/activity.py`) | JSONL file, SQLite mirror | `log_*_event`, `write`, `recent`, `by_request_id` | every decision |
| Tools and MCP (`core/tools.py`, `core/mcp_*.py`) | tool registry, SSE sessions | `decide_tool_call`, `execute_tool`, JSON-RPC dispatch | policy, audit, review |
| Fusion and detectors (`core/fusion.py`, `core/detectors.py`, ...) | loaded models, a scoring pool | `fused_threat_score` | risk decision |

What is hard in it, and where (`PROJECT.json`, "hazards", has the lines):

- **Replicas and threads.** State is shared through Redis with a local mirror or
  fallback; threads of one process share dictionaries, most of them with no lock
  (review queue, policies, tenants), some with a lock around part of an operation
  (cache).
- **Deadlines.** A worker thread cannot be cancelled: after the client's 503 it goes
  on, writes the cache and schedules work.
- **Background work.** Confirmations live in the background tasks of a response.
- **Failure of one step of several.** Redis, the judge, the audit file and the
  providers fail separately; each has its own fail-open or fail-closed rule.
- **Crashes** between the steps of a file update (review queue, policy deployment,
  key file, cache file, audit migration).
- **Cold starts.** Policies, tenants, detectors and their libraries load lazily, from
  threads that race; several flags say "loaded" before the load.
- **Two copies of one thing.** Dictionary and index of the cache, JSONL and SQLite,
  Redis and the mirror: written in two steps, read separately.
- **Time.** Cooldowns, TTLs, daily quotas.

What makes each part correct:

- breaker: opens only on consecutive failures, blocks for the cooldown, is never
  wedged open, its two keys stay coherent;
- risk decision: vetoes cannot be cleared, more evidence never lowers a verdict,
  a lost arbiter is never lenient;
- pipeline and cache: no interleaving serves a verdict below what the evidence
  allows; every client is answered; confirmations are not dropped;
- review queue: a review is resolved once, completely; what was acknowledged
  survives crashes; the file stays readable;
- policies and tenants: a request sees the old or the new table, never neither; a
  deployment can be rolled back to what it replaced;
- gateway chat: no provider call without an assessed, allowed and audited prompt; no
  content without an assessed and audited output; tokens used are counted;
- limits: a tenant's consumption stays within its quota up to the calls in flight; over
  any window a caller is admitted no more than its buckets can pay;
- detectors: a cold start costs no request a detector that works; no score of weights
  that did not verify; every request is answered;
- tools: a handler runs only for an allowed call, and the client is told the truth;
- audit: no decision is served that is not recorded where readers look; a reader sees
  its own tenant; a migration skips no line.

## Modules

```
RiskFusion ─┬─ RiskEvidence ────┬─ VerdictProofs
            └─ VerdictPipeline ─┘
IdentityStores ── PolicyStore ── Admission ── AdmissionProofs
AuditTrail ── ToolCalls ── ToolCallsProofs
GatewayContract ◁ GatewayChat ── GatewayChatProofs
CircuitBreaker ── CircuitBreakerProofs          ReviewQueue ── ReviewQueueProofs
RateLimiter ── RateLimiterProofs                DetectorFusion ── DetectorFusionProofs
```

Lines are EXTENDS; `◁` is implementation through an INSTANCE.

Each `MC...` module gives the model values and the constant functions of the runs.
Definitions whose comment starts with *Mutant* are used by no specification: each is
a plausible bug that takes the place of one definition, to show that a property
notices it.

### CircuitBreaker

The two Redis keys are `openAge` and `fails`/`failsAge`, the mirrors `mirrorAge` and
`mirrorFails`. Timestamps are ages in ticks, kept only as far as the code can tell
them apart, so the state space is finite with no bound on time. `is_open` is three
steps, as in the code: the `GET` (`IsOpenPeek`), the Lua script (`IsOpenCheck`) and
the write of the mirror outside the lock (`WriteMirror`); `record_success` and
`record_failure` are two. A Redis call goes through or raises, which sends the call to
the mirror (`IsOpenLocal`, `RecordSuccessLocal`, `RecordFailureLocal`); one that raises
may have taken effect before its reply was lost (`LostReply`). `Tick` passes
time and expires keys; `Restart` loses a process's mirror and calls. Callers in
`Unchecked` are `output_judge`.

### RiskFusion, RiskEvidence

`RiskFusion` is the decision of `assess_risk` as functions of a record of signals:
the symbolic veto, the fast path, `fuse_signals`, the ambiguous band and the two
arbiters. Scores are natural numbers; only comparisons and the midpoint of the band
are used, and the midpoint is compared doubled so that it needs no fraction.
`RiskEvidence` grows the evidence one signal at a time, with arbiter answers chosen
arbitrarily and fixed, so that monotonicity is an action property.

### VerdictPipeline

Requests on replicas: submission to the pool, `assess_risk` in steps (exact lookup,
fuzzy lookup, decision, judge, save to the fuzzy tier, write-through to the exact
tier), the response, the deadline, and the confirmation as a task of the response.
Zombies of timed-out requests go on. The prompts of the requests and the similarity of
texts are chosen at the start and fixed (`setting`); a similarity that is empty for
every text is a threshold of 1.0, which turns the fuzzy tier off.

The exact tier is a map of a store that replicas may share; its calls may raise and its
entries may disappear at any moment (`ForgetExact`: TTL, eviction, flush). The fuzzy
tier is the code's ordered dictionary (`entries`, least recently used first) and its
index (`index`, the texts in the order of the last rebuild): a lookup finds a *position*
in the index and reads that position of the dictionary. `add` evicts and rebuilds; a hit
moves its entry to the end and does not rebuild; an expired one is deleted with a
rebuild. Every `add` starts a save thread unless one is alive; `WriteFile` is its end,
whole or torn; `Flush` empties dictionary and file; `Restart` loses the memory, the
requests and the tasks of a replica and loads the file. Replicas in `Disturbed` are
saved, flushed and restarted.

What the handler does between the verdict and the response (policy, output assessment,
review, audit) is one step that succeeds (`Respond`) or fails and drops the tasks
(`ServeFails`). An exception inside `assess_risk` itself, which ends the request with a
500 and writes nothing, is not modelled.

### ReviewQueue

The memory is `loaded` and `records`; the files are inodes, so that a writer that has
the staging file open goes on writing to it after it has been moved. Every call is the
sequence of steps another thread can see between: the flag and the read of `load`, the
assignment of `_records`, the check and the assignments of `resolve`, and open,
write and replace of `_save`. Enqueues exclude each other (they run on the event loop
without awaiting); everything else overlaps, except calls in `alone`, which their
callers serialize. `alone` is chosen at the start from `Lockings`, so one run covers
both the discipline the tests of the repository ask for and its absence. `json.dump`
writes the dictionary of one moment; a key added since the file was opened may make it
raise, and writing over another writer's text may leave the end of it. `raced` is the
history of two calls having been between the open and the replace of their saves at once.

### GatewayChat, GatewayContract

`GatewayContract` is what the gateway promises of a request: an attempt, the first or a
fallback, reaches a provider only for a cleared prompt, at most once and never once the
client has its answer, and content is shown only when a provider was called and its output
vetted. `GatewayChat` is the handler
`gateway_chat` and shown to implement it. The handler is a coroutine, so the code
between two awaits is one step: gates and quota (`Refuse`, `QuotaExhausted`, `Admit`);
policy decision, review, audit record and the hand-over of the first call
(`InputStops`, `UnknownProvider`, `InputPasses`, or an error on the way); each provider
call (`CallAnswers`, `CallFails`, `CallTimesOut`), whose failure is logged and followed
by the next known fallback or the error answer; output record, log and token count
(`Respond`, or an error on the way: a record, the log, or the sum of an unusual usage,
`UsageRaises`). Provider calls are threads of a bounded pool, with
a state of their own that survives the wait: at its deadline a queued call is cancelled
and a running one goes on. `stage` is mapped from `pc`, `answer` and the records of
`audit`; a call or an answer that lacks its record has no stage of the contract, so the
refinement also says that what is called and shown is on record, except where the
configuration lets records be lost. A world says what may fail: Redis (then the quota
is read from, or counted in, the local tracker, perhaps after Redis has counted), the
review file, and the audit writes, which raise only if SQLite is the read authority.
The risk, the output's decision and the provider's answer are arbitrary; the gates of
key, tenant and rate are one refusal.

### IdentityStores, PolicyStore, Admission

`Admission` composes the three stores a request reads on its way to a decision.
`IdentityStores` has the keys and the tenants: `KeyStore.load` is one step, as its lock
makes it (a file it cannot read leaves the keys as they were, one that is missing or no
object empties them), `TenantStore.load` is clear, read and fill, with no lock; the key
tool, a process of its own, reads the file, truncates it and writes it back, may die on
the way (`ToolDies`), and two operators do not wait for each other. `PolicyStore` has the policy
store's load step by step (`EnterLoad`, `LoadClear`, `LoadRead`, which sets the default
action as written, `LoadCorrect`, which checks it, `LoadFill` tenant by tenant, `LoadFinish`), lazy or forced, in any number of threads at once; deploy and
rollback as snapshot, truncation, copy and reload; restarts that keep the files.
`Admission` adds the requests: each endpoint of `main.py` is a record of the gate it puts
before its callers and of its duty, and a request reads the keys, the tenant and the
policy (usable, then the table, then the rules) at moments of their own. History
variables say what the properties need to know: the contents the live file has had
(`everLive`), whether a store was loaded alone from the current file (`drift`, `tdrift`),
whether two loads of the policies overlapped (`mixed`), whether two commands of the key
tool did or one died over a truncated file (`crossed`), and whether a request found the
policies usable, as one load alone left them, and has met no load since (`steady`).

### RateLimiter

Buckets in Redis (`shared`, one script call each) and in each replica (`local`, with the
LRU `order` of at most `MaxTracked`). A check goes to Redis (`CheckRedis`), or to the
local bucket after an error that comes before or after the script ran (`CheckFallback`,
by way of `CheckLocal`). A token is 60 units so that requests per minute refill whole
units a second. `Expire` is the key's TTL; `Reset` deletes keys one by one and may fail on
the way, so any subset of them is gone. `window` is the history of what a watched caller was
granted since a moment and of how many buckets it had, at each place that keeps one (Redis
and every replica); `promise` is what a 429 told it, and where.

### DetectorFusion

Detectors of the four classes load at first use: the test without the lock, the lock,
the fields one by one, the integrity check last; a load that races another's lazy import
may fail for good. `fusion.py` is the policy flag and file, the warm-up with its lock and
flag, the pool's tasks (`Dispatch`, `StartTask`, `Visit`) and the choice of the first
tier whose detectors all scored (`Fuse`). A world says which detectors are broken, have
the wrong labels, or do not verify, and which settings are on. Scores are left out.

### AuditTrail, ToolCalls

`AuditTrail` has the two writes of a record (`AppendLine`, whose error is swallowed, and
`WriteRow`, whose error counts when SQLite is the read authority), the four readers with
the tenant scope and the backward scan in chunks, and the migration: per line the check
of the ledger, the row, the ledger entry, with a crash between any two. `ToolCalls` has
three processes on top of it (API, MCP over HTTP, MCP over stdio), each handling a
message from its gates through `decide_tool_call`, the handler's effect, the record and
the answer; and the SSE sessions, from `Connect` over the stream's `Await`, `Deliver`
and `Ping` to its end by disconnect or age.

## Runs

Passing runs:

| Run | Instance | Shows |
|---|---|---|
| `breaker_shared` | 2 replicas, 3 callers (one `output_judge`), threshold 2, cooldown 1, Redis reliable | coherence of the keys, opening only on consecutive failures, no checked call while cooling, open for the cooldown, never wedged |
| `breaker_faulty` | 1 replica, 2 callers, cooldown 2, any Redis call may raise before or after its effect, the client may be missing | coherence of the keys; the local breaker's count and its half-opening |
| `risk_evidence` | all signals over scores 0..`MaxScore`, several fusion bands, an inverted one included | monotonicity, suspicion, outage |
| `verdict_pipeline` | 2 requests with any of 2 prompts (vetoed, upper band), 1 worker, fuzzy tier off or on, 2 entries, saves, flushes and restarts, faults on | floor; every client is answered though workers may hang; a confirmation of a served verdict ends, hangs in the model or dies with its process |
| `review_queue` | 2 resolves of one review, 2 enqueues, a read; all serialized, or one only; crashes anywhere | serialized: durability, resolutions that stay; otherwise: a whole file until two saves overlap, and the next undisturbed save repairs it |
| `gateway_chat` | 3 requests of one tenant (default provider with two fallbacks, one unknown; a named provider; an unknown one), quota 1, at most 1 token a call, 1 thread, 3 worlds | the contract for every attempt, truth of "NOT called", what is counted, the quota's overrun, every request is answered |
| `admission` | 2 threads, 2 operators, 2 keys, 2 tenants, 3 capabilities, 3 policy files (one malformed; the first may be missing), 3 tenant files (one missing), `MaxOps` 2 requests, commands, edits or restarts | a request that no load disturbs, in a store no two loads filled together, is decided exactly as a file that was live says, another one gets BLOCK, an error or something a live file mentions; quiet stores hold their files; a deploy alone names the version it replaced; completed key commands add up; a torn key file costs no key |
| `rate_limiter` | 2 replicas that track 1 caller each, 2 callers, 3 faults, 4 seconds | the window bound; waiting for Retry-After works |
| `detector_fusion` | 2 requests and the start-up event, 3 detectors, 2 policy files, 6 worlds | no tier lost to a cold start; every request answered |
| `tool_calls` | 2 messages over any transport, 1 session, 4 tools, 4 settings of the audit trail, 1 crash, up to 2 migrations, a file with a legacy and a torn line | truth of what clients are told, traceable answers, scope of readers, complete migration, ends of streams |

The bounds are the smallest in which the interesting cases happen: two replicas to
disagree, a threshold of 2 so that a streak can be interrupted, a TTL of at least four
cooldowns so that both ends of it are reached, one worker so that requests queue, two
requests that may have one prompt so that they overwrite each other's entries, two
resolvers of one review with opposite outcomes, a quota that one call exhausts and one
thread, so that an abandoned call keeps a fallback waiting; two threads so that a load
runs under a request or another load, two operators so that they cross; a replica that
tracks fewer callers than there are, so that it evicts, and enough seconds for a key to
expire; two requests so that they race to the lazy loads, beside the warm-up; chunks of two
lines and a scan limit of two chunks in a file of up to four lines, so that both cut it.
`MaxOps`, `MaxFaults`, `MaxTime`, `MaxCrashes` and the migrations of a setting are the
bounds on otherwise endless behaviour; elsewhere nothing grows but counters bounded by
the number of requests. The threads of `admission`, its operators and the replicas of
`rate_limiter` are symmetric; `NoKeyIsForgotten` is an action property, which symmetry
does not disturb, and the runs of liveness properties use none.

Runs that end in a violation compare the code with a sentence of its own; each has a
finding:

| Run | The repository says | The code |
|---|---|---|
| `verdict_stale_index` | `core/cache.py:201`: "Since we rebuild FAISS directly from OrderedDict.values(), indices map 1:1" | a fuzzy hit moves its entry to the end (`:208`) with no rebuild; the next position found in the index is another entry's, and a vetoed prompt is served the LOW of an unrelated one |
| `detector_unverified` | `tests/test_model_pinning.py:85`: "loading must raise a distinct, loud ModelIntegrityError — not a warning" | the model is assigned before the check (`core/detectors.py:282`), the warm-up logs the error, and the next call scores with it |

### Known behaviour

Differences between the code and its documentation, or worth knowing, that the models
have and the properties leave room for:

- after the cooldown every caller passes the breaker until an outcome is recorded
  (`core/circuit_breaker.py:83`, against "exactly one request is let through as a probe",
  `:18`);
- `output_judge` never asks the breaker, so calls are attempted while it is open
  (`core/semantic_judge.py:266`, against "without attempting the call at all");
- the mirror is written from the first of `is_open`'s two round trips and may say closed
  when the second said open (`core/circuit_breaker.py:161`);
- an enforcing domain guardrail returns MEDIUM before the score is looked at, so an
  off-domain prompt whose score is HIGH is lowered (`core/risk.py:446`, against
  "escalated to MEDIUM risk", `core/config.py:96`);
- `FAISSCache.add` overwrites whatever is cached, so a slower worker writes LOW over a
  HIGH a confirmation has just cached (`core/cache.py:91`, against "a cached HIGH can
  never be served back down", `core/risk.py:595`);
- a request that times out loses its confirmation while its worker goes on to cache the
  verdict (`api/main.py:539`, against `:535`);
- two overlapping reviewers of one review may both be told it worked
  (`core/review_queue.py:137`, against `:128`), can leave APPROVED with the decision
  BLOCK;
- two saves that overlap share one staging file: the second can truncate it just before
  the first moves it over the queue's file (`core/review_queue.py:95`), which is then torn
  until the next undisturbed save, and for good if the process dies before that; a start
  that meets it begins with an empty queue. `tests/test_review_queue_edge_cases.py:162-165`
  and `:183` say the file is never truncated or half-written "regardless of how many
  writers raced";
- the queue says it is loaded before it has read its file, so an enqueue that overlaps
  the first call is acknowledged and dropped (`core/review_queue.py:72`, against "every write that didn't
  error is durably present", `tests/test_review_queue_edge_cases.py:164`);
- `PolicyStore.get`, "Never raises", raises KeyError while a reload has emptied the
  table; `TenantStore` answers with the active default while it loads, also for a
  suspended tenant;
- a request that races a load of the policies may be decided from a half-filled table: by
  the default tenant's rules, although its own tenant has some that are not filled in yet,
  and, when loads overlap, by rules of one file and the default action of another
  (`core/policy.py:165-202`, against "no window where the old and new policy could both be
  enforced", `api/main.py:1475-1477`); between `:186` and `:192` it may even be answered
  with a default action that is none of the valid ones;
- a tenant file that cannot be read loads no tenants, so every tenant is the active
  default, a suspended one included (`core/tenancy.py:135-141`, against "Fail CLOSED on a
  corrupt store", `:136`, and `tests/test_tenancy.py:117`);
- a key file that is missing or is no object empties the key store at the next reload
  (`core/auth.py:151-155`, `:170-174`); one that is not JSON leaves the keys;
- two deploys that overlap may return a wrong rollback target; the command-line deploy
  reloads only its own process;
- two overlapping runs of the key tool undo one another, a revocation included;
- Retry-After is rounded up from `retry_after + 0.999`, so a wait may be told up to a
  millisecond short; the model's seconds do not resolve that;
- a review stays queued when the audit record of its request fails closed
  (`api/main.py:909`); REVIEW decisions over MCP enqueue none; an approved review
  executes nothing by itself; an MCP notification, which gets no answer, runs its tool;
- tokens of a call whose output was not assessed in time, or not recorded, are counted
  nowhere (`api/main.py:1024`); `log_gateway_event`, which is not behind
  `_write_audit_or_fail`, has the same effect when it raises;
- a usage with one integer and one string count makes `extract_total_tokens` raise
  TypeError (`core/token_quota.py:304`, against "counts as 0 rather than raising",
  `:292-293`): the client gets a 500 after its output was recorded, and no token is counted;
- with JSONL as the read source, the default, a failing write is swallowed by the logging
  handler and the decision is served unrecorded (`core/logger.py:24-45`, against "fails
  CLOSED with HTTP 503", `core/config.py:220-226`); `AnsweredIsTraceable` is about SQLite;
- the activity feed's first pass may drop the rest of its last chunk and say
  `scan_truncated` is false; reading from SQLite with the mirror disabled reads an empty
  table;
- the migration is not idempotent at a crash between the row and its ledger entry
  (`scripts/migrate_audit_to_sqlite.py:82`, against "Idempotent", `:10`): a line is then
  imported twice, and none is left out;
- an MCP session whose stream never starts stays registered (`core/mcp_http_server.py:78`).

### Fairness

- `TickSpec`: time passes. Nothing else is needed for the TTL backstop.
- `FairSpec` of `CircuitBreaker`: also, threads run, judge calls end (they have HTTP
  timeouts) and clients go on asking: a breaker half-opens only when asked.
- `LoopSpec` of `VerdictPipeline`: the event loop answers finished requests and fires
  deadlines, and a background task that has its answer stores it. Workers may hang, and so
  may a confirmation inside Llama Guard, whose local model has no timeout
  (`core/detectors.py:761-798`).
- `LoopSpec` of `GatewayChat`: the event loop takes up requests and fires deadlines.
  Workers and providers may hang.
- `FairSpec` of `DetectorFusion`: a thread that has begun and can go on does: loads end
  and locks are handed on. Nothing loops, so no lock is contended for ever.
- `FairSpec` of `ToolCalls`: a message once taken is handled to its end and time passes;
  a stream gets its turns (strong fairness: asyncio runs what is ready in turn, and a
  session's queue may be filled and emptied meanwhile). The write of an event is assumed
  to complete: a reader that stalls without disconnecting holds its stream in that await
  (`core/mcp_http_server.py:122`). Nothing makes a stream start.

Deadlock checking is off where requests or calls are made once or their number is
bounded (`VerdictPipeline`, `ReviewQueue`, `RiskEvidence`, `Admission`, `DetectorFusion`,
`ToolCalls`): those instances end.

## Proofs

All theorems hold for any value of the constants that satisfies the named assumptions
of the modules.

**CircuitBreakerProofs.** `TypeCorrect`. `OpenCounted`: "open implies a full counter" is
not inductive, because the counter could expire under an open timestamp;
`CountInv` adds that the counter's last `EXPIRE` is at least as recent as the open
timestamp, so with one TTL the counter outlives it. `OpensOnConsecutiveFailures`:
`StreakInv` adds that the shared counter never exceeds the history of failures since
the last success. `OpenForTheCooldown` needs four cooldowns to be longer than one
(`Cooldown > 0`). `NoCallWhileCooling` is assumed to run with Redis answering
(`SharedCounter`): with faults a mirror may be stale, as described above.
`LocalOpenCounted` is about replicas that run without a client: `LocalInv` adds that none of
their calls is between a reply of Redis and the unlocked write of the mirror, so every write
of their mirror is one of those under the lock.

**VerdictProofs** is about the decision and about the pipeline that serves it. Lemmas on the
decision functions (ranges, the cut, the ambiguous band, the arbiters) give
`EvidenceNeverLowers`, `SuspicionSurvives` and `OutageNeverLenient`, and the floor of the
pipeline rests on them. `PipelineTypeCorrect`. `ServedAboveFloor`: that a client is served
above the floor is not inductive, because what it gets may come from either tier or,
after a restart, from a file. `FloorInv` adds that every entry of the exact tier, of the
dictionary and of the file is above the floor of some prompt of its text
(`CachesGrounded`, over `AllGrounded` of the sequences), and every verdict in flight above
that of a prompt its lookup may match (`WorkGrounded`). Lemmas on `Without`, `Append` and
`Kept` say that reordering, eviction and rebuilds only keep or add such entries; the index
is not part of the argument, so with the fuzzy tier on the theorem speaks of *some*
prompt, and `verdict_stale_index` shows that it cannot say more.

**GatewayChatProofs.** `GatewayKeepsContract` is the refinement, by the invariant
`RequestInv` of each request: the contract alone is not inductive, because a call that
is queued today may run tomorrow. The contract's `called` has an element for each attempt,
so a fallback that starts late is a step of its own. `RequestInv` adds that only the call
its handler awaits is queued and the ones after it have not been made, so no thread can
start one later, and
that what is called or shown is on record; a step of one request leaves the others'
alone (`OthersUntouched`). `NotCalledForever` follows from the same invariant.
`OverrunByInFlightOnly`: once the quota is reached `Admit` is
disabled for the tenant, and an answered request gives back at least the tokens it adds.
`ChargedForDelivered`: the counter is the number of token units (`Delivered`) of today's
requests; `AccountInv` adds that these have been answered, so that none is added twice.

**ReviewQueueProofs.** Three arguments. `UndisturbedSaveRepairs` holds whatever the other
calls did: `AloneInv` says that a call its caller serializes is the only active one and
what the staging file holds at each of its steps. `FileWholeUnlessRaced` is about any
callers, until two saves overlap: `StagedInv` says that up to then the staging file is not
the queue's, and is torn or whole as the one save that has it open is before or after its
write. The two other theorems are about callers that serialize every call (`Serialized`). Their invariant `SerialInv` says that the staging
file is never the queue's file (`FilesApart`), that memory and file differ exactly by what
the active call has changed so far (`MemoryFollows`, place by place), that an id of an
enqueue that has not run is nowhere (`NotYetOnFile`, from `FreshIds`: uuid4 gives no id
twice), and that what was acknowledged is on file (`Acked`). Neither is inductive
without the second: the next save writes whatever memory holds. `SerialReviewsKept` is the
action property of the same invariant.

**RateLimiterProofs.** `LimitHolds`: that grants are bounded is not inductive, because the
bound says nothing of what a bucket may still grant. `PaidAt` adds what its tokens are
worth now: grants and level together are at most one full bucket and its refill for each
life. A refill moves time into the level, a grant moves level into the grants, and a key
that expires had time to be full. `WaitsAreHonest`: `PromiseKept` says that the bucket
which refused reaches a token by the time told; a caller who spends it takes the promise
with it. Rates and bursts are any natural numbers, a rate of 0 included (which promises
nothing).

**AdmissionProofs.** Each store is proved over its own moves (`KeyMove`, `TenantMove`,
`PolicyMove`); an action of `Admission` is at most one move of each. `KeyFileWhole`: while
commands do not overlap, the one running holds the ledger with its change in its copy
(`KeySerial`). `KeysAreRemembered` is an action property of the same. `StoresFollowFiles`:
while one load runs and nothing disturbs it, the tenants filled so far are those of the file
(`StoreSerial`, `TenantSerial`); of a tenant file that cannot be read it says nothing. `RollbackTargets`: a deploy that is alone has snapshotted the
file it replaces under the name it returns. `DecisionsHaveFiles` has two halves. For any request, whatever is in the table
or in a load's buffer was written in a file that was live (`FromFiles`), and so were the
rules a request has picked (`RulesFor`). For an undisturbed one: as long as no two loads
overlapped, a usable store is the whole of one file (`StoreWhole`, with `Staged` for the
load under way, which has made the store unusable), and a request that found it so keeps
that file until its answer, because whoever loads ends its being undisturbed
(`Undisturbed`); the lemma `StoreSays` says that looking a rule up in such a store is
looking it up in the file.

**ToolCallsProofs.** `ToolInv` is the audit trail (`TrailInv`) and the calls (`CallsInv`).
`MigrationsAreComplete`: every line before the migration's position has its row, also the
line between its row and its ledger entry, so a crash in between repeats a row and leaves
none out; rows are never deleted. `ReadersSeeTheirTenant` needs the types only: it is
about the scans, wherever the chunks cut the file. `ClientsAreToldTheTruth` and
`DecisionsAreTraceable`: `CallFair` says what a call at each place may have done, has on
record and will answer; because a session's stream tells results later, the same is said
of every result in its queue (`Waiting`).

**DetectorFusionProofs.** The invariant `FusionInv` has a part for every world and one for
those in which the warm-up is for everybody and nothing is refused (`Warmable`: the pool on,
more than one name, no tampered weights). For every world: the warm-up's lock is held by the
thread that warms up, a thread is at a detector only while it warms that one up or collects
(`Turns`), and a detector's lock is held by the thread inside its load (`LocksInside`); the
policy file has one reader, before whom nothing has happened (`PolicyReadOnce`,
`StartupFirst`). `LocksGivenBack` and `PolicyNeverReplaced` follow. For `Warmable` worlds
`WarmedFirst` adds that only the warm-up loads, that a detector outside a load is untried or
loaded for good, that those which the warm-up has behind it are loaded, and what a thread
knows of a detector at each place (`PlaceFine`). `ColdStartSafe` is not inductive without
it: the answer of a request depends on whether every load ran alone (`LoaderAlone`), since a
load that meets another may fail for good. `NoLoadAfterWarmUp` and `WarmedScoresVerified`
come from the same invariant; without the warm-up, or with tampered weights, the second does
not hold (`detector_unverified`). TLC has checked `FusionInv` on the instance of
`detector_fusion`.

Assumptions on the constants, beyond their types: ids of reviews are fresh (`FreshIds`);
the names of the sessions are not those of the other transports; Redis is not the name of
a replica; capabilities of keys are among those the policies know; old audit files are
finite; there are finitely many detectors, and "nobody" is not a thread. TLC evaluates all
of them in the runs.

Only model-checked:

- the liveness properties `NeverWedgedOpen`, `LocalNeverWedged`, `EveryClientAnswered`,
  `ServedIsConfirmed`, `EveryRequestAnswered`, `EveryRequestScored` and `StreamsEnd`:
  fairness is beyond the prover;
- the two runs that end in a violation, which are counterexamples.

## Plan

The modules of the plan are written, and every safety property that a passing run checks
is stated by a theorem.

Modelling left, where it is worth it: the ordered checks of `assess_output`, the file of a
local exact tier, log rotation.

## Not modelled

Embeddings, the detectors' arithmetic and fusion weights (numerical; their scores are
inputs), regular expressions of normalisation and redaction (the redacted text is a
constant function), the checks of `assess_output` (any decision is possible), errors of
the operating system inside a save of the review queue, a copy of a policy file met
half-written that happens to be valid YAML (a file in the middle of a copy is unreadable),
the loads of detectors asked for outside `fusion.py` (the `toxic_bert` fallback of the
output judge and the Llama Guard confirmation use the same registry and could race the
first requests), the back-pressure of a stalled SSE reader, prompt
texts and answer parsing of the judges (any verdict is possible), metrics and benchmark
views, schemas, the UI, configuration (constants of the modules), and offline evaluation
and training scripts, which are sequential batch programs over files.
