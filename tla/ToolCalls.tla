----------------------------- MODULE ToolCalls ------------------------------
(***************************************************************************)
(* Governed tool calls: core/tools.py behind POST /api/v1/tools/call and   *)
(* the MCP servers (core/mcp_compat.py, mcp_server.py, mcp_http_server.py),*)
(* with their records in the audit trail.                                  *)
(*                                                                         *)
(* Three processes share the trail: the API, the MCP server over HTTP and  *)
(* the one over stdio.  Each handles one message at a time from its gates  *)
(* to its answer: execute_tool never awaits, and stdio is read line by     *)
(* line.  A tool runs before its call is on record.  Over SSE the answer   *)
(* goes to the queue of a session, which a stream of its own empties.      *)
(***************************************************************************)
EXTENDS AuditTrail

CONSTANTS
    Calls,       \* messages that clients send, numbered as they arrive
    Inputs,      \* setting -> what they may say
    ToolSpecs,   \* name -> risk_level, capability_required, handler
    Sessions,    \* SSE sessions
    Lifetime,    \* MAX_SESSION_LIFETIME_SECONDS
    MaxCrashes   \* bound: processes that die and are started again

VARIABLES
    busy,     \* process -> the call it handles
    call,     \* call -> where it is, what it says, what became of it
    effects,  \* the calls whose handler has run
    reviews,  \* the calls in the review queue
    sess,     \* session -> where its stream is, its age and its queue
    crashes

vars == <<audit, busy, call, effects, reviews, sess, crashes>>

Servers == {"api", "mcp", "stdio"}
Nobody == 0
CapabilityRank == [GENERAL |-> 0, ELEVATED |-> 1, INTERNAL |-> 2]
Decisions == {"BLOCK", "REVIEW", "output", "error in tool"}
Messages == {"call", "bad params", "informative", "silent", "unknown", "unparsable"}
NoStream == [at |-> "none", age |-> 0, queue |-> <<>>]

ASSUME ToolAssumption ==
    /\ \A n \in DOMAIN ToolSpecs :
          ToolSpecs[n] \in [risk: {"LOW", "MEDIUM", "HIGH"}, needs: DOMAIN CapabilityRank, handler: BOOLEAN]
    /\ \A i \in UNION {Inputs[x] : x \in Settings} :
          /\ i.via \in {"api", "rpc", "stdio"} \union Sessions
          /\ i.msg \in Messages
          /\ i.args \in {"good", "invalid", "disallowed"}
          /\ i.cap \in DOMAIN CapabilityRank
    /\ Sessions \intersect {"api", "rpc", "stdio"} = {}
    /\ Calls \subseteq Nat \ {Nobody}

Init ==
    /\ AuditInit
    /\ busy = [v \in Servers |-> Nobody]
    /\ call = [c \in Calls |-> [at |-> "idle", said |-> CHOOSE i \in Inputs[setting] : TRUE,
                                result |-> "none", told |-> "nothing"]]
    /\ effects = {}
    /\ reviews = {}
    /\ sess = [s \in Sessions |-> NoStream]
    /\ crashes = 0

ServerOf(via) == IF via \in {"api", "stdio"} THEN via ELSE "mcp"
Server(c) == ServerOf(call[c].said.via)

-----------------------------------------------------------------------------
\* Processes.

\* A process dies and is started again.  What it was doing is gone, its clients
\* know nothing; its registry is filled again from the same modules.
Crash(v) ==
    /\ crashes < MaxCrashes
    /\ crashes' = crashes + 1
    /\ busy' = [busy EXCEPT ![v] = Nobody]
    /\ call' = [c \in Calls |-> IF busy[v] = c THEN [call[c] EXCEPT !.at = "done"] ELSE call[c]]
    /\ sess' = IF v = "mcp" THEN [s \in Sessions |-> NoStream] ELSE sess
    /\ UNCHANGED <<audit, effects, reviews>>

-----------------------------------------------------------------------------
\* A message, up to the tool call in it.  It waits for its process to be free.

Ready(c, i) ==
    /\ call[c].at = "idle"
    /\ \A b \in Calls : b < c => call[b].at # "idle"
    /\ busy[ServerOf(i.via)] = Nobody

\* Too long, no JSON, no object; a session that is not there.
Malformed(i) == i.msg = "unparsable" \/ (i.via \in Sessions /\ sess[i.via].at = "none")

Untouched == <<audit, effects, reviews, sess, crashes>>
Say(c, i, what) ==
    /\ call' = [call EXCEPT ![c] = [at |-> "done", said |-> i, result |-> "none", told |-> what]]
    /\ UNCHANGED <<Untouched, busy>>

Reject(c, i) == Ready(c, i) /\ Malformed(i) /\ Say(c, i, "rejected")

\* The key, the tenant or the rate.
Refuse(c, i) == Ready(c, i) /\ ~Malformed(i) /\ i.via # "stdio" /\ Say(c, i, "refused")

\* handle_request, when it calls no tool: initialize, tools/list, a notification,
\* an unknown method, bad parameters.
Answer(i) == CASE i.msg = "silent" -> "nothing"
               [] i.msg = "informative" -> "info"
               [] OTHER -> IF i.id THEN "rejected" ELSE "nothing"

Reply(c, i) ==
    /\ Ready(c, i) /\ ~Malformed(i)
    /\ i.msg # "call"
    /\ i.via \notin Sessions
    /\ Say(c, i, Answer(i))

\* 202; an answer, if there is one, is put in the session's queue.
Put(s, c, answer) == sess' = IF answer = "nothing" THEN sess ELSE [sess EXCEPT ![s].queue = Append(@, c)]

ReplySse(c, i) ==
    /\ Ready(c, i) /\ ~Malformed(i)
    /\ i.msg # "call"
    /\ i.via \in Sessions
    /\ call' = [call EXCEPT ![c] = [at |-> "done", said |-> i, result |-> Answer(i), told |-> "accepted"]]
    /\ Put(i.via, c, Answer(i))
    /\ UNCHANGED <<audit, busy, effects, reviews, crashes>>

-----------------------------------------------------------------------------
\* execute_tool.

\* register_demo_tools and register_real_tools, at the start of a process.
Registered(tool) == tool \in DOMAIN ToolSpecs

\* check_tool_access, validate_arguments.
HasAccess(i) == CapabilityRank[i.cap] >= CapabilityRank[ToolSpecs[i.tool].needs]
ValidArguments(i) == i.args # "invalid"

\* decide_tool_call: the first check that fails decides.
DecideToolCall(i) ==
    IF ~HasAccess(i) \/ ~ValidArguments(i) THEN "BLOCK"
    ELSE IF ToolSpecs[i.tool].risk = "HIGH" THEN "REVIEW" ELSE "ALLOW"

\* The registry's answer, the decision, and the handler.
Decided(i) ==
    IF ~Registered(i.tool) THEN "BLOCK"
    ELSE IF DecideToolCall(i) # "ALLOW" THEN DecideToolCall(i)
    ELSE IF ToolSpecs[i.tool].handler THEN "ALLOW" ELSE "BLOCK"

\* Mutant: a tool that needs a reviewer is tried on the way.
DecideRunsFirst(c, i) ==
    /\ Ready(c, i) /\ ~Malformed(i)
    /\ i.msg = "call"
    /\ call' = [call EXCEPT ![c].at = IF Decided(i) = "BLOCK" THEN "line" ELSE "run", ![c].said = i,
                            ![c].result = IF Decided(i) = "ALLOW" THEN "none" ELSE Decided(i)]
    /\ busy' = [busy EXCEPT ![ServerOf(i.via)] = c]
    /\ UNCHANGED Untouched

Decide(c, i) ==
    /\ Ready(c, i) /\ ~Malformed(i)
    /\ i.msg = "call"
    /\ call' = [call EXCEPT ![c].at = IF Decided(i) = "ALLOW" THEN "run" ELSE "line", ![c].said = i,
                            ![c].result = IF Decided(i) = "ALLOW" THEN "none" ELSE Decided(i)]
    /\ busy' = [busy EXCEPT ![ServerOf(i.via)] = c]
    /\ UNCHANGED Untouched

\* The handler refuses (_http_get, before it sends anything), or does its work
\* and returns, or fails in the middle of it.
RunHandler(c) ==
    /\ call[c].at = "run"
    /\ \E result \in {"output", "error in tool"} :
          /\ call[c].said.args = "disallowed" => result = "error in tool"
          /\ call' = [call EXCEPT ![c].at = "line", ![c].result = result]
    /\ effects' = IF call[c].said.args = "disallowed" THEN effects ELSE effects \union {c}
    /\ UNCHANGED <<audit, busy, reviews, sess, crashes>>

\* log_tool_event.
LogLine(c) ==
    /\ call[c].at = "line"
    /\ AppendLine(ToolEvent(c, call[c].said.tenant))
    /\ call' = [call EXCEPT ![c].at = IF setting.enabled THEN "mirror" ELSE "finish"]
    /\ UNCHANGED <<busy, effects, reviews, sess, crashes>>

MirrorRow(c) ==
    /\ call[c].at = "mirror"
    /\ WriteRow(ToolEvent(c, call[c].said.tenant))
    /\ call' = [call EXCEPT ![c].at = "finish"]
    /\ UNCHANGED <<busy, effects, reviews, sess, crashes>>

MirrorFails(c) ==
    /\ call[c].at = "mirror"
    /\ call' = [call EXCEPT ![c].at = IF MirrorRaises THEN "raised" ELSE "finish"]
    /\ UNCHANGED <<Untouched, busy>>

-----------------------------------------------------------------------------
\* The answer.

Tell(c, what) == call' = [call EXCEPT ![c].at = "done", ![c].told = what]
Release(c) == busy' = [busy EXCEPT ![Server(c)] = Nobody]

\* A decision to review is queued, which may fail after it is done.
FinishApi(c) ==
    /\ call[c].at = "finish"
    /\ call[c].said.via = "api"
    /\ IF call[c].result = "REVIEW"
       THEN \/ reviews' = reviews \union {c} /\ Tell(c, "REVIEW")
            \/ reviews' \in {reviews, reviews \union {c}} /\ Tell(c, "failure")
       ELSE Tell(c, call[c].result) /\ UNCHANGED reviews
    /\ Release(c)
    /\ UNCHANGED <<audit, effects, sess, crashes>>

\* A notification is executed too, and answered by nothing.
FinishRpc(c) ==
    /\ call[c].at = "finish"
    /\ call[c].said.via \in {"rpc", "stdio"}
    /\ Tell(c, IF call[c].said.id THEN call[c].result ELSE "nothing")
    /\ Release(c)
    /\ UNCHANGED Untouched

FinishSse(c) ==
    /\ call[c].at = "finish"
    /\ call[c].said.via \in Sessions
    /\ Tell(c, "accepted")
    /\ Put(call[c].said.via, c, IF call[c].said.id THEN call[c].result ELSE "nothing")
    /\ Release(c)
    /\ UNCHANGED <<audit, effects, reviews, crashes>>

\* The record failed: 500, or -32603, or nothing.
Fail(c) ==
    /\ call[c].at = "raised"
    /\ Tell(c, IF call[c].said.via = "stdio" /\ ~call[c].said.id THEN "nothing" ELSE "failure")
    /\ Release(c)
    /\ UNCHANGED Untouched

Message(c, i) == Reject(c, i) \/ Refuse(c, i) \/ Reply(c, i) \/ ReplySse(c, i) \/ Decide(c, i)

Work(c) ==
    \/ RunHandler(c)
    \/ LogLine(c)
    \/ MirrorRow(c)
    \/ MirrorFails(c)
    \/ FinishApi(c)
    \/ FinishRpc(c)
    \/ FinishSse(c)
    \/ Fail(c)

-----------------------------------------------------------------------------
\* mcp_sse and its event_generator, on the loop of the MCP server.

SessKeeps == <<audit, busy, effects, reviews, crashes>>
LoopFree == busy["mcp"] = Nobody

\* Bound: sessions that nobody will post to are left out.
Connect(s) ==
    /\ LoopFree
    /\ \E i \in Inputs[setting] : i.via = s
    /\ sess[s].at = "none"
    /\ sess' = [sess EXCEPT ![s] = [NoStream EXCEPT !.at = "registered"]]
    /\ UNCHANGED <<SessKeeps, call>>

StartStream(s) ==
    /\ LoopFree
    /\ sess[s].at = "registered"
    /\ sess' = [sess EXCEPT ![s].at = "loop"]
    /\ UNCHANGED <<SessKeeps, call>>

\* Mutant: the lifetime is looked at only when there is nothing to send.
AwaitUnlessIdle(s) ==
    /\ LoopFree
    /\ sess[s].at = "loop"
    /\ sess' = [sess EXCEPT ![s].at = "wait"]
    /\ UNCHANGED <<SessKeeps, call>>

\* Go on, within the lifetime and unless told that the client is gone.
Await(s) ==
    /\ LoopFree
    /\ sess[s].at = "loop"
    /\ sess[s].age <= Lifetime
    /\ sess' = [sess EXCEPT ![s].at = "wait"]
    /\ UNCHANGED <<SessKeeps, call>>

\* The lifetime is over, or the client is known to be gone.
CloseStream(s) ==
    /\ LoopFree
    /\ sess[s].at = "loop"
    /\ sess' = [sess EXCEPT ![s] = NoStream]
    /\ UNCHANGED <<SessKeeps, call>>

\* A client that is gone does not get it.
Deliver(s) ==
    /\ LoopFree
    /\ sess[s].at = "wait"
    /\ sess[s].queue # <<>>
    /\ sess' = [sess EXCEPT ![s].at = "loop", ![s].queue = Tail(@)]
    /\ LET c == Head(sess[s].queue) IN
       call' \in {call, [call EXCEPT ![c].told = call[c].result]}
    /\ UNCHANGED SessKeeps

\* Nothing for a second: a ping, or the end if the client asked for one round; a
\* write may also fail, which ends the stream.
Ping(s) ==
    /\ LoopFree
    /\ sess[s].at = "wait"
    /\ sess[s].queue = <<>>
    /\ sess' \in {[sess EXCEPT ![s].at = "loop"], [sess EXCEPT ![s] = NoStream]}
    /\ UNCHANGED <<SessKeeps, call>>

Stream(s) == Await(s) \/ CloseStream(s) \/ Deliver(s) \/ Ping(s)

Tick ==
    /\ \E s \in Sessions : sess[s].at # "none" /\ sess[s].age <= Lifetime
    /\ sess' = [s \in Sessions |-> IF sess[s].at # "none" /\ sess[s].age <= Lifetime
                                   THEN [sess[s] EXCEPT !.age = @ + 1] ELSE sess[s]]
    /\ UNCHANGED <<SessKeeps, call>>

-----------------------------------------------------------------------------
Next ==
    \/ \E v \in Servers : Crash(v)
    \/ \E c \in Calls : Work(c) \/ \E i \in Inputs[setting] : Message(c, i)
    \/ \E s \in Sessions : Connect(s) \/ StartStream(s) \/ Stream(s)
    \/ Tick
    \/ Migrate /\ UNCHANGED <<busy, call, effects, reviews, sess, crashes>>

Spec == Init /\ [][Next]_vars

\* A message once taken is handled to its end, tools included; asyncio runs what
\* is ready in turn, and time passes.  Nothing makes a stream start.
Fairness ==
    /\ WF_vars(\E c \in Calls : Work(c))
    /\ \A s \in Sessions : SF_vars(Stream(s))
    /\ WF_vars(Tick)

FairSpec == Spec /\ Fairness

-----------------------------------------------------------------------------
\* What a client is told is true.  "A handler NEVER runs for BLOCK or REVIEW":
\* told of either, of a refusal or of a message that was not understood, over
\* whichever transport, its call has had no effect and never will; and what had
\* an effect was within its caller's capability, valid and not HIGH, with or
\* without anybody to answer.  Told over the API to wait for a reviewer, it is in
\* the queue.
ToldIsTrue ==
    \A c \in Calls :
        /\ call[c].told \in {"BLOCK", "REVIEW", "refused", "rejected"} => c \notin effects
        /\ call[c].told = "REVIEW" /\ call[c].said.via = "api" => c \in reviews
        /\ c \in effects => /\ ToolSpecs[call[c].said.tool].risk # "HIGH"
                            /\ HasAccess(call[c].said) /\ ValidArguments(call[c].said)

\* With SQLite as the read authority, no decision is served that the audit trail
\* does not hold: whoever has got one, over whichever transport, finds the call
\* by its request id, in the scope of its own tenant.
AnsweredIsTraceable ==
    \A c \in Calls :
        setting.read /\ setting.enabled /\ call[c].told \in Decisions =>
            ToolEvent(c, call[c].said.tenant) \in SqliteTrace(c, call[c].said.tenant)

\* "A session can never leak indefinitely even if disconnect detection never
\* fires at all": a stream that has started ends, and its session with it,
\* whatever is posted to it meanwhile.
StreamsEnd ==
    \A s \in Sessions : sess[s].at \in {"loop", "wait"} ~> sess[s].at \notin {"loop", "wait"}
=============================================================================
