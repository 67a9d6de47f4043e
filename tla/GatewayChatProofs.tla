-------------------------- MODULE GatewayChatProofs --------------------------
(***************************************************************************)
(* The gateway for any requests, providers, quotas, pools and worlds.      *)
(***************************************************************************)
EXTENDS GatewayChat, FiniteSetTheorems, TLAPS

\* Attempts are numbered by Turns.
LEMMA AttemptTurns ==
  ASSUME NEW q \in Requests
  PROVE  1 \in Turns /\ 1 .. Len(Attempts(q)) \subseteq Turns /\ Turns \subseteq Nat \ {0}
<1>1. Len(Fallbacks) \in Nat
  BY GatewayAssumption
<1>2. Len(<<Chosen[q]>>) = 1 /\ Len(<<Default>> \o Fallbacks) = Len(Fallbacks) + 1
  BY GatewayAssumption
<1> QED BY <1>1, <1>2 DEF Attempts, Turns

\* What one request, or a thread of one of its calls, does.
RequestStep(q) == Handler(q) \/ Deadline(q) \/ \E i \in Turns : Thread(q, i)

LEMMA StepsOfNext == Next <=> (\E q \in Requests : RequestStep(q)) \/ Midnight
  BY DEF Next, RequestStep

LEMMA AnswerType ==
  ASSUME TypeOK, NEW q \in Requests, NEW what \in Early \union Late, Answer(q, what)
  PROVE  pc' \in [Requests -> Places] /\ answer' \in [Requests -> Early \union Late \union {"none"}]
  BY DEF TypeOK, Answer, Goto, Places

LEMMA SubmitType ==
  ASSUME TypeOK, NEW q \in Requests, NEW i \in Turns, Submit(q, i)
  PROVE  /\ pc' \in [Requests -> Places] /\ turn' \in [Requests -> Turns \union {0}]
         /\ answer' \in [Requests -> Early \union Late \union {"none"}]
  BY DEF TypeOK, Submit, Goto, Places

LEMMA CallType ==
  ASSUME TypeOK, NEW q \in Requests, NEW i \in Turns, NEW s \in CallStates
  PROVE  [calls EXCEPT ![q][i] = s] \in [Requests -> [Turns -> CallStates]]
<1>1. calls[q] \in [Turns -> CallStates]
  BY DEF TypeOK
<1>2. [calls[q] EXCEPT ![i] = s] \in [Turns -> CallStates]
  BY <1>1
<1> QED BY <1>2 DEF TypeOK

\* The end of an attempt: an answer, or the next call.
LEMMA AttemptOverType ==
  ASSUME TypeOK, NEW q \in Requests, NEW s \in CallStates, AttemptOver(q, s)
  PROVE  /\ pc' \in [Requests -> Places] /\ turn' \in [Requests -> Turns \union {0}]
         /\ answer' \in [Requests -> Early \union Late \union {"none"}]
         /\ calls' \in [Requests -> [Turns -> CallStates]]
         /\ UNCHANGED <<world, tokens, effects, quotas>>
<1>1. Remaining(q) \subseteq Turns
  BY AttemptTurns DEF Remaining
<1>2. \/ Answer(q, "provider_failed") /\ UNCHANGED turn
      \/ Answer(q, "error") /\ UNCHANGED turn
      \/ \E i \in Turns : Submit(q, i)
  BY <1>1 DEF AttemptOver, NextAttempt, AttemptLogRaises
<1>3. turn \in [Requests -> Turns \union {0}]
  BY DEF TypeOK
<1>4. /\ pc' \in [Requests -> Places] /\ turn' \in [Requests -> Turns \union {0}]
      /\ answer' \in [Requests -> Early \union Late \union {"none"}]
  <2>1. {"provider_failed", "error"} \subseteq Late
    BY DEF Late
  <2> QED BY <1>2, <1>3, <2>1, AnswerType, SubmitType
<1>5. calls' \in [Requests -> [Turns -> CallStates]]
  <2> DEFINE row == [i \in Turns |-> IF i = turn[q] THEN s
                                      ELSE IF i = turn'[q] THEN "queued" ELSE calls[q][i]]
  <2>1. calls' = [calls EXCEPT ![q] = row]
    BY DEF AttemptOver
  <2>2. row \in [Turns -> CallStates]
    BY DEF TypeOK, CallStates
  <2> QED BY <2>1, <2>2 DEF TypeOK
<1> QED BY <1>4, <1>5 DEF AttemptOver

LEMMA FlowType ==
  ASSUME TypeOK, NEW q \in Requests, RequestStep(q)
  PROVE  /\ pc' \in [Requests -> Places] /\ turn' \in [Requests -> Turns \union {0}]
         /\ calls' \in [Requests -> [Turns -> CallStates]]
         /\ tokens' \in [Requests -> Usages]
         /\ answer' \in [Requests -> Early \union Late \union {"none"}]
<1>0. /\ pc \in [Requests -> Places] /\ turn \in [Requests -> Turns \union {0}]
      /\ calls \in [Requests -> [Turns -> CallStates]]
      /\ tokens \in [Requests -> Usages]
      /\ answer \in [Requests -> Early \union Late \union {"none"}]
  BY DEF TypeOK
<1>a. {"refused", "quota", "not_assessed", "failed", "unaudited_input", "unknown"} \subseteq Early
      /\ Stopping \subseteq Early
  BY DEF Early, Stopping
<1>b. {"error", "not_vetted", "unaudited_output", "blocked", "shown"} \subseteq Late
  BY DEF Late
<1>c. {"queued", "running", "cancelled", "ended"} \subseteq CallStates /\ 1 \in Turns
  BY AttemptTurns DEF CallStates
<1>1. CASE Refuse(q) \/ QuotaExhausted(q) \/ InputTimeout(q)
  BY <1>0, <1>1, <1>a, AnswerType DEF Refuse, QuotaExhausted, InputTimeout
<1>2. CASE Admit(q)
  BY <1>0, <1>2 DEF Admit, Goto, Places
<1>3. CASE ReviewRaises(q) \/ InputUnaudited(q) \/ InputStops(q) \/ UnknownProvider(q)
  BY <1>0, <1>3, <1>a, AnswerType DEF ReviewRaises, InputUnaudited, InputStops, UnknownProvider
<1>4. CASE InputPasses(q)
  <2>1. Submit(q, 1) /\ calls' = [calls EXCEPT ![q][1] = "queued"] /\ UNCHANGED tokens
    BY <1>4 DEF InputPasses
  <2> QED BY <1>0, <1>c, <2>1, SubmitType, CallType
<1>5. CASE CallAnswers(q)
  <2>1. /\ SetCall(q, turn[q], "ended") /\ UNCHANGED <<turn, answer>>
        /\ \E n \in Usages : tokens' = [tokens EXCEPT ![q] = n]
        /\ Goto(q, "output")
    BY <1>5 DEF CallAnswers
  <2>2. pc' \in [Requests -> Places] /\ tokens' \in [Requests -> Usages]
    BY <1>0, <2>1 DEF Goto, Places
  <2>3. calls' \in [Requests -> [Turns -> CallStates]]
    <3>1. CASE turn[q] \in Turns
      BY <1>c, <2>1, <3>1, CallType DEF SetCall
    <3>2. CASE turn[q] \notin Turns
      BY <1>0, <2>1, <3>2 DEF SetCall
    <3> QED BY <3>1, <3>2
  <2> QED BY <1>0, <2>1, <2>2, <2>3
<1>6. CASE CallFails(q) \/ CallTimesOut(q)
  BY <1>0, <1>6, <1>c, AttemptOverType DEF CallFails, CallTimesOut
<1>7. ASSUME NEW i \in Turns, Thread(q, i)
      PROVE  calls' \in [Requests -> [Turns -> CallStates]] /\ UNCHANGED <<pc, turn, tokens, answer>>
  BY <1>7, <1>c, CallType DEF Thread, CallStarts, CallAbandoned, SetCall
<1>8. CASE OutputTimeout(q) \/ OutputUnaudited(q) \/ OutputLogRaises(q) \/ UsageRaises(q) \/ Respond(q)
  BY <1>0, <1>8, <1>b, AnswerType DEF OutputTimeout, OutputUnaudited, OutputLogRaises, UsageRaises, Respond
<1>9. CASE Raises(q)
  <2>1. Answer(q, "failed") \/ Answer(q, "error")
    BY <1>9 DEF Raises
  <2>2. calls' = calls \/ calls' = [calls EXCEPT ![q][turn[q]] = "ended"]
    BY <1>9 DEF Raises, SetCall
  <2>3. calls' \in [Requests -> [Turns -> CallStates]]
    <3>1. CASE turn[q] \in Turns
      <4>1. [calls EXCEPT ![q][turn[q]] = "ended"] \in [Requests -> [Turns -> CallStates]]
        BY <1>c, <3>1, CallType
      <4> QED BY <1>0, <2>2, <4>1
    <3>2. CASE turn[q] \notin Turns
      BY <1>0, <2>2, <3>2
    <3> QED BY <3>1, <3>2
  <2> QED BY <1>0, <1>9, <1>a, <1>b, <2>1, <2>3, AnswerType DEF Raises
<1> QED
  BY <1>0, <1>1, <1>2, <1>3, <1>4, <1>5, <1>6, <1>7, <1>8, <1>9 DEF RequestStep, Handler, Deadline

\* What a step of one request does to the shared state.
LEMMA EffectsType ==
  ASSUME TypeOK, NEW q \in Requests, RequestStep(q)
  PROVE  /\ world' = world
         /\ reviews' \subseteq Requests
         /\ audit \subseteq audit'
         /\ audit' \subseteq Requests \X {"input", "output"} \X (Passing \union Stopping)
         /\ used' \in [Tenants -> Nat] /\ local' \in [Tenants -> Nat]
         /\ today' \subseteq Requests
<1> USE DEF TypeOK, effects, quotas
<1>1. CASE Refuse(q) \/ QuotaExhausted(q) \/ Admit(q) \/ InputTimeout(q)
  BY <1>1 DEF Refuse, QuotaExhausted, Admit, InputTimeout
<1>2. CASE ReviewRaises(q) \/ InputUnaudited(q)
  BY <1>2 DEF ReviewRaises, InputUnaudited, NotRecorded, Decided
<1>3. CASE InputStops(q) \/ UnknownProvider(q) \/ InputPasses(q)
  BY <1>3 DEF InputStops, UnknownProvider, InputPasses, Recorded, Decided
<1>4. CASE CallAnswers(q) \/ CallFails(q) \/ CallTimesOut(q)
  BY <1>4 DEF CallAnswers, CallFails, CallTimesOut, AttemptOver
<1>5. ASSUME NEW i \in Turns, Thread(q, i) PROVE UNCHANGED <<world, effects, quotas>>
  BY <1>5 DEF Thread, CallStarts, CallAbandoned
<1>6. CASE OutputTimeout(q) \/ OutputUnaudited(q) \/ Raises(q)
  BY <1>6 DEF OutputTimeout, OutputUnaudited, NotRecorded, Raises
<1>7. CASE OutputLogRaises(q) \/ UsageRaises(q)
  BY <1>7 DEF OutputLogRaises, UsageRaises, Recorded, Passing, Stopping
<1>8. CASE Respond(q)
  <2>1. UNCHANGED <<world, reviews>> /\ today' = today \union {q} /\ CountTokens(q)
        /\ \E d \in {"ALLOW", "BLOCK"} : Recorded(q, "output", d)
    BY <1>8 DEF Respond
  <2>2. TenantOf[q] \in Tenants /\ tokens[q] \in Int
    BY GatewayAssumption DEF Usages, Malformed
  <2>3. used' \in [Tenants -> Nat] /\ local' \in [Tenants -> Nat]
    <3> DEFINE t == TenantOf[q]
    <3>1. tokens[q] > 0 => /\ [used EXCEPT ![t] = @ + tokens[q]] \in [Tenants -> Nat]
                           /\ [local EXCEPT ![t] = @ + tokens[q]] \in [Tenants -> Nat]
      BY <2>2
    <3> QED BY <2>1, <3>1 DEF CountTokens
  <2> QED BY <2>1, <2>3 DEF Recorded, Passing, Stopping
<1> QED BY <1>1, <1>2, <1>3, <1>4, <1>5, <1>6, <1>7, <1>8 DEF RequestStep, Handler, Deadline

LEMMA StartTypes == Init => TypeOK
  BY GatewayAssumption DEF Init, TypeOK, Usages, Malformed, Places, CallStates

\* The gateway's state keeps its type, whatever is asked of it and whatever
\* fails.
THEOREM GatewayTypeCorrect == Spec => []TypeOK
<1>1. Init => TypeOK
  BY StartTypes
<1>2. TypeOK /\ [Next]_vars => TypeOK'
  <2> SUFFICES ASSUME TypeOK, [Next]_vars PROVE TypeOK'
    OBVIOUS
  <2>1. ASSUME NEW q \in Requests, RequestStep(q) PROVE TypeOK'
    BY <2>1, FlowType, EffectsType DEF TypeOK
  <2>2. CASE Midnight
    BY <2>2 DEF Midnight, TypeOK, flow, effects
  <2>3. CASE UNCHANGED vars
    BY <2>3 DEF TypeOK, vars, flow, effects, quotas
  <2> QED BY <2>1, <2>2, <2>3, StepsOfNext
<1> QED BY <1>1, <1>2, PTL DEF Spec

-----------------------------------------------------------------------------
\* What holds of a request between two steps.  Only the call awaited is queued, so
\* that no call starts once the handler has moved on; the calls after it have not
\* been made; what is called and what is shown is on record.
RequestInv(q) ==
    /\ pc[q] # "answered" <=> answer[q] = "none"
    /\ pc[q] \in {"new", "input"} \/ answer[q] \in Early => \A i \in Turns : calls[q][i] = "none"
    /\ pc[q] = "call" => /\ turn[q] \in Turns
                         /\ calls[q][turn[q]] \in {"queued", "running"}
                         /\ \A i \in Turns : i > turn[q] => calls[q][i] = "none"
    /\ \A i \in Turns : calls[q][i] = "queued" => pc[q] = "call" /\ turn[q] = i
    /\ pc[q] = "output" \/ answer[q] = "shown" => Called(q)
    /\ pc[q] \in {"call", "output"} \/ answer[q] = "shown" => OnRecord(q, "input", Passing)
    /\ answer[q] = "shown" => OnRecord(q, "output", Passing)

GatewayInv == TypeOK /\ \A q \in Requests : RequestInv(q)

\* A step of one request leaves the flow of the others alone.
LEMMA OthersUntouched ==
  ASSUME TypeOK, NEW q \in Requests, RequestStep(q), NEW p \in Requests, p # q
  PROVE  pc'[p] = pc[p] /\ turn'[p] = turn[p] /\ calls'[p] = calls[p] /\ answer'[p] = answer[p]
<1> USE DEF TypeOK, Answer, Goto, Submit, SetCall
<1>1. CASE Refuse(q) \/ QuotaExhausted(q) \/ Admit(q) \/ InputTimeout(q)
  BY <1>1 DEF Refuse, QuotaExhausted, Admit, InputTimeout
<1>2. CASE ReviewRaises(q) \/ InputUnaudited(q) \/ InputStops(q) \/ UnknownProvider(q)
  BY <1>2 DEF ReviewRaises, InputUnaudited, InputStops, UnknownProvider
<1>3. CASE InputPasses(q)
  BY <1>3 DEF InputPasses
<1>4. CASE CallAnswers(q)
  BY <1>4 DEF CallAnswers
<1>5. ASSUME NEW s, AttemptOver(q, s)
      PROVE  pc'[p] = pc[p] /\ turn'[p] = turn[p] /\ calls'[p] = calls[p] /\ answer'[p] = answer[p]
  BY <1>5 DEF AttemptOver, NextAttempt, AttemptLogRaises
<1>6. CASE CallFails(q) \/ CallTimesOut(q)
  BY <1>5, <1>6 DEF CallFails, CallTimesOut
<1>7. ASSUME NEW i \in Turns, Thread(q, i)
      PROVE  pc'[p] = pc[p] /\ turn'[p] = turn[p] /\ calls'[p] = calls[p] /\ answer'[p] = answer[p]
  BY <1>7 DEF Thread, CallStarts, CallAbandoned
<1>8. CASE OutputTimeout(q) \/ OutputUnaudited(q) \/ OutputLogRaises(q) \/ UsageRaises(q) \/ Respond(q)
  BY <1>8 DEF OutputTimeout, OutputUnaudited, OutputLogRaises, UsageRaises, Respond
<1>9. CASE Raises(q)
  BY <1>9 DEF Raises
<1> QED BY <1>1, <1>2, <1>3, <1>4, <1>6, <1>7, <1>8, <1>9 DEF RequestStep, Handler, Deadline

\* Records are never taken back, and the world does not change.
LEMMA RecordsStay ==
  ASSUME world' = world, audit \subseteq audit', NEW q, NEW event, NEW decisions,
         OnRecord(q, event, decisions)
  PROVE  OnRecord(q, event, decisions)'
  BY DEF OnRecord, AuditLossy

LEMMA JustRecorded ==
  ASSUME NEW q, NEW event, NEW decisions, NEW d \in decisions, Recorded(q, event, d), world' = world
  PROVE  OnRecord(q, event, decisions)'
  BY DEF Recorded, OnRecord, AuditLossy

\* The end of an attempt keeps the calls in order.
LEMMA AttemptOverInv ==
  ASSUME GatewayInv, NEW q \in Requests, pc[q] = "call", NEW s \in {"running", "cancelled", "ended"},
         s = "running" => calls[q][turn[q]] = "running", AttemptOver(q, s)
  PROVE  RequestInv(q)'
<1> USE DEF GatewayInv
<1>1. /\ Remaining(q) \subseteq Turns /\ Turns \subseteq Nat \ {0}
      /\ \A i \in Remaining(q) : i > turn[q]
  BY AttemptTurns DEF Remaining
<1>2. /\ turn[q] \in Turns /\ \A i \in Turns : i > turn[q] => calls[q][i] = "none"
      /\ \A i \in Turns : calls[q][i] = "queued" => turn[q] = i
      /\ OnRecord(q, "input", Passing) /\ answer[q] = "none"
  BY DEF RequestInv
<1>3. OnRecord(q, "input", Passing)'
  BY <1>2, RecordsStay DEF AttemptOver, effects
<1>4. \A i \in Turns : calls'[q][i] = IF i = turn[q] THEN s
                                       ELSE IF i = turn'[q] THEN "queued" ELSE calls[q][i]
  BY DEF AttemptOver, TypeOK
<1>5. CASE (Answer(q, "provider_failed") \/ Answer(q, "error")) /\ UNCHANGED turn
  <2>1. pc'[q] = "answered" /\ answer'[q] \in {"provider_failed", "error"}
    BY <1>5 DEF Answer, Goto, TypeOK
  <2>2. \A i \in Turns : calls'[q][i] # "queued"
    BY <1>2, <1>4, <1>5
  <2> QED BY <2>1, <2>2 DEF RequestInv, Early
<1>6. ASSUME NEW j \in Remaining(q), Submit(q, j)
      PROVE  RequestInv(q)'
  <2>1. pc'[q] = "call" /\ turn'[q] = j /\ answer'[q] = "none"
    BY <1>2, <1>6 DEF Submit, Goto, TypeOK
  <2>2. j \in Turns /\ j > turn[q]
    BY <1>1
  <2>3. calls'[q][j] = "queued" /\ \A i \in Turns : i > j => calls'[q][i] = "none"
    <3>1. calls'[q][j] = "queued"
      <4>0. j \in Nat /\ turn[q] \in Nat
        BY <1>1, <1>2, <2>2
      <4>1. j # turn[q]
        BY <2>2, <4>0
      <4> QED BY <1>4, <2>1, <2>2, <4>1
    <3>2. ASSUME NEW i \in Turns, i > j PROVE calls'[q][i] = "none"
      <4>0. i \in Nat /\ j \in Nat /\ turn[q] \in Nat
        BY <1>1, <1>2, <2>2
      <4>1. i > turn[q] /\ i # turn[q] /\ i # j
        BY <2>2, <3>2, <4>0
      <4> QED BY <1>2, <1>4, <2>1, <4>1
    <3> QED BY <3>1, <3>2
  <2>4. \A i \in Turns : calls'[q][i] = "queued" => i = j
    BY <1>2, <1>4, <2>1
  <2> QED BY <1>3, <2>1, <2>2, <2>3, <2>4 DEF RequestInv, Early
<1> QED BY <1>5, <1>6 DEF AttemptOver, NextAttempt, AttemptLogRaises

\* An answer, with the calls left as they were or ended.
LEMMA ActorInv ==
  ASSUME GatewayInv, NEW q \in Requests, RequestStep(q)
  PROVE  RequestInv(q)'
<1> USE DEF GatewayInv
<1>0. RequestInv(q) /\ TypeOK
  OBVIOUS
<1>e. world' = world /\ audit \subseteq audit'
  BY EffectsType
<1>t. \A what : Answer(q, what) => pc'[q] = "answered" /\ answer'[q] = what
  BY DEF Answer, Goto, TypeOK
<1>1. CASE Refuse(q) \/ QuotaExhausted(q) \/ InputTimeout(q)
  <2>1. UNCHANGED calls /\ pc[q] \in {"new", "input"} /\ pc'[q] = "answered"
        /\ answer'[q] \in {"refused", "quota", "not_assessed"}
    BY <1>1, <1>t DEF Refuse, QuotaExhausted, InputTimeout
  <2> QED BY <1>0, <2>1 DEF RequestInv, Early
<1>2. CASE Admit(q)
  <2>1. UNCHANGED <<calls, answer>> /\ pc[q] = "new" /\ pc'[q] = "input"
    BY <1>2 DEF Admit, Goto, TypeOK
  <2> QED BY <1>0, <2>1 DEF RequestInv, Early
<1>3. CASE ReviewRaises(q) \/ InputUnaudited(q) \/ InputStops(q) \/ UnknownProvider(q)
  <2>1. UNCHANGED calls /\ pc[q] = "input" /\ pc'[q] = "answered"
        /\ answer'[q] \in Early \ {"none"}
    BY <1>3, <1>t DEF ReviewRaises, InputUnaudited, InputStops, UnknownProvider, Decided, Early,
       Stopping
  <2> QED BY <1>0, <2>1 DEF RequestInv, Early
<1>4. CASE InputPasses(q)
  <2>1. /\ pc[q] = "input" /\ pc'[q] = "call" /\ UNCHANGED answer /\ turn'[q] = 1
    BY <1>4 DEF InputPasses, Decided, Submit, Goto, TypeOK
  <2>2. /\ 1 \in Turns /\ Turns \subseteq Nat \ {0}
        /\ \A i \in Turns : calls'[q][i] = IF i = 1 THEN "queued" ELSE calls[q][i]
    BY <1>4, AttemptTurns DEF InputPasses, TypeOK
  <2>3. OnRecord(q, "input", Passing)'
    BY <1>4, <1>e, JustRecorded DEF InputPasses
  <2> QED BY <1>0, <2>1, <2>2, <2>3 DEF RequestInv, Early
<1>5. CASE CallAnswers(q)
  <2>1. /\ pc[q] = "call" /\ pc'[q] = "output" /\ UNCHANGED answer /\ turn[q] \in Turns
        /\ answer[q] = "none"
    BY <1>0, <1>5 DEF CallAnswers, Goto, TypeOK, RequestInv
  <2>2. \A i \in Turns : calls'[q][i] = IF i = turn[q] THEN "ended" ELSE calls[q][i]
    BY <1>5 DEF CallAnswers, SetCall, TypeOK
  <2>3. Called(q)'
    BY <2>1, <2>2 DEF Called, Started
  <2>4. OnRecord(q, "input", Passing)'
    BY <1>0, <1>e, <2>1, RecordsStay DEF RequestInv
  <2> QED BY <1>0, <2>1, <2>2, <2>3, <2>4 DEF RequestInv, Early
<1>6. CASE CallFails(q) \/ CallTimesOut(q)
  BY <1>0, <1>6, AttemptOverInv DEF CallFails, CallTimesOut, RequestInv
<1>7. ASSUME NEW i \in Turns, Thread(q, i) PROVE RequestInv(q)'
  <2>1. UNCHANGED <<pc, turn, answer, audit, world>>
    BY <1>7 DEF Thread, CallStarts, CallAbandoned, effects
  <2>2. \E s \in {"running", "ended"} :
           /\ \A j \in Turns : calls'[q][j] = IF j = i THEN s ELSE calls[q][j]
           /\ calls[q][i] \in {"queued", "running"}
           /\ s = "ended" => calls[q][i] = "running" /\ ~(pc[q] = "call" /\ turn[q] = i)
    BY <1>7 DEF Thread, CallStarts, CallAbandoned, SetCall, TypeOK
  <2>3. Called(q)'
    BY <2>2 DEF Called, Started
  <2>4. \A event : OnRecord(q, event, Passing) <=> OnRecord(q, event, Passing)'
    BY <2>1 DEF OnRecord, AuditLossy
  <2> QED BY <1>0, <2>1, <2>2, <2>3, <2>4 DEF RequestInv, Early
<1>8. CASE OutputTimeout(q) \/ OutputUnaudited(q) \/ OutputLogRaises(q) \/ UsageRaises(q) \/ Raises(q)
  <2>1. /\ pc[q] \in {"input", "call", "output"} /\ pc'[q] = "answered"
        /\ answer'[q] \in {"failed", "not_vetted", "unaudited_output", "error"}
        /\ answer'[q] = "failed" => pc[q] = "input" /\ UNCHANGED calls
    BY <1>8, <1>t DEF OutputTimeout, OutputUnaudited, OutputLogRaises, UsageRaises, Raises
  <2>2. \A i \in Turns : calls'[q][i] = "queued" => calls[q][i] = "queued"
    BY <1>8 DEF OutputTimeout, OutputUnaudited, OutputLogRaises, UsageRaises, Raises, SetCall, TypeOK
  <2>3. \A i \in Turns : calls'[q][i] # "queued"
    <3>1. CASE pc[q] # "call"
      BY <1>0, <2>2, <3>1 DEF RequestInv
    <3>2. CASE pc[q] = "call"
      BY <1>0, <1>8, <3>2 DEF RequestInv, OutputTimeout, OutputUnaudited, OutputLogRaises, UsageRaises, Raises,
         SetCall, TypeOK
    <3> QED BY <3>1, <3>2
  <2> QED BY <1>0, <2>1, <2>3 DEF RequestInv, Early
<1>9. CASE Respond(q)
  <2>1. PICK d \in {"ALLOW", "BLOCK"} :
           Recorded(q, "output", d) /\ Answer(q, IF d = "BLOCK" THEN "blocked" ELSE "shown")
    BY <1>9 DEF Respond
  <2>2. /\ pc[q] = "output" /\ UNCHANGED calls /\ pc'[q] = "answered"
        /\ answer'[q] = IF d = "BLOCK" THEN "blocked" ELSE "shown"
    BY <1>9, <1>t, <2>1 DEF Respond
  <2>3. OnRecord(q, "input", Passing)' /\ Called(q)'
    BY <1>0, <1>e, <2>2, RecordsStay DEF RequestInv, Called, Started
  <2>4. d = "ALLOW" => OnRecord(q, "output", Passing)'
    BY <1>e, <2>1, JustRecorded DEF Passing
  <2> QED BY <1>0, <2>2, <2>3, <2>4 DEF RequestInv, Early
<1> QED
  BY <1>1, <1>2, <1>3, <1>4, <1>5, <1>6, <1>7, <1>8, <1>9 DEF RequestStep, Handler, Deadline

LEMMA FrameInv ==
  ASSUME NEW q \in Requests, RequestInv(q), world' = world, audit \subseteq audit',
         pc'[q] = pc[q], turn'[q] = turn[q], calls'[q] = calls[q], answer'[q] = answer[q]
  PROVE  RequestInv(q)'
<1>1. \A event : OnRecord(q, event, Passing) => OnRecord(q, event, Passing)'
  BY RecordsStay
<1>2. Called(q)' <=> Called(q)
  BY DEF Called, Started
<1> QED BY <1>1, <1>2 DEF RequestInv

LEMMA GatewayInvariant == Spec => []GatewayInv
<1>1. Init => GatewayInv
  <2> SUFFICES ASSUME Init PROVE GatewayInv
    OBVIOUS
  <2>1. TypeOK
    BY GatewayAssumption DEF Init, TypeOK, Usages, Malformed, Places, CallStates
  <2> QED BY <2>1 DEF Init, GatewayInv, RequestInv, Early
<1>2. GatewayInv /\ [Next]_vars => GatewayInv'
  <2> SUFFICES ASSUME GatewayInv, [Next]_vars PROVE GatewayInv'
    OBVIOUS
  <2>1. ASSUME NEW q \in Requests, RequestStep(q) PROVE GatewayInv'
    <3>1. TypeOK'
      BY <2>1, FlowType, EffectsType DEF TypeOK, GatewayInv
    <3>2. ASSUME NEW p \in Requests, p # q PROVE RequestInv(p)'
      BY <2>1, <3>2, OthersUntouched, EffectsType, FrameInv DEF GatewayInv
    <3> QED BY <2>1, <3>1, <3>2, ActorInv DEF GatewayInv
  <2>2. CASE Midnight
    <3>1. TypeOK'
      BY <2>2 DEF Midnight, TypeOK, flow, effects, GatewayInv
    <3> QED BY <2>2, <3>1, FrameInv DEF Midnight, flow, effects, GatewayInv
  <2>3. CASE UNCHANGED vars
    <3>1. TypeOK'
      BY <2>3 DEF TypeOK, vars, flow, effects, quotas, GatewayInv
    <3> QED BY <2>3, <3>1, FrameInv DEF vars, flow, effects, GatewayInv
  <2> QED BY <2>1, <2>2, <2>3, StepsOfNext
<1> QED BY <1>1, <1>2, PTL DEF Spec

\* "The provider was NOT called" stays true for ever, in every interleaving of
\* handlers, deadlines and the threads of the pool.
THEOREM NotCalledForever == Spec => []NotCalledIsTrue
<1>1. GatewayInv => NotCalledIsTrue
  BY DEF GatewayInv, RequestInv, NotCalledIsTrue, Called, Started
<1> QED BY <1>1, GatewayInvariant, PTL

-----------------------------------------------------------------------------
\* The stage of a request, once nothing is called or shown off the record.
LEMMA StageIs ==
  ASSUME NEW q \in Requests, RequestInv(q)
  PROVE  /\ answer[q] = "shown" => StageOf(q) = "shown"
         /\ pc[q] = "answered" /\ answer[q] # "shown" => StageOf(q) = "closed"
         /\ pc[q] \in {"call", "output"} => StageOf(q) = "cleared"
         /\ pc[q] \in {"new", "input"} => StageOf(q) = "open"
  BY DEF StageOf, RequestInv

\* The same of the state after a step.
LEMMA StageBecomes ==
  ASSUME NEW q \in Requests, RequestInv(q)'
  PROVE  /\ answer'[q] = "shown" => StageOf(q)' = "shown"
         /\ pc'[q] = "answered" /\ answer'[q] # "shown" => StageOf(q)' = "closed"
         /\ pc'[q] \in {"call", "output"} => StageOf(q)' = "cleared"
         /\ pc'[q] \in {"new", "input"} => StageOf(q)' = "open"
  BY DEF StageOf, RequestInv

\* A step that calls no provider for q.
CallsKept(q) == \A i \in Turns : Started(q, i)' <=> Started(q, i)

\* A step that calls the provider of its attempt i, and no other.
OneMore(q, i) ==
    /\ ~Started(q, i) /\ Started(q, i)'
    /\ \A j \in Turns : j # i => (Started(q, j)' <=> Started(q, j))

LEMMA AttemptOverStage ==
  ASSUME GatewayInv, NEW q \in Requests, RequestInv(q)', pc[q] = "call",
         NEW s \in {"running", "cancelled", "ended"},
         s = "cancelled" <=> calls[q][turn[q]] = "queued", AttemptOver(q, s)
  PROVE  /\ StageOf(q) = "cleared" /\ StageOf(q)' \in {"cleared", "closed"}
         /\ CallsKept(q)
<1>1. RequestInv(q) /\ TypeOK
  BY DEF GatewayInv
<1>2. \/ pc'[q] = "call" /\ turn'[q] \in Remaining(q)
      \/ pc'[q] = "answered" /\ answer'[q] # "shown" /\ turn'[q] = turn[q]
  BY <1>1 DEF AttemptOver, NextAttempt, AttemptLogRaises, Answer, Submit, Goto, TypeOK
<1>3. \A i \in Turns : calls'[q][i] = IF i = turn[q] THEN s
                                       ELSE IF i = turn'[q] THEN "queued" ELSE calls[q][i]
  BY <1>1 DEF AttemptOver, TypeOK
<1>4. turn'[q] # turn[q] => turn'[q] \in Turns /\ calls[q][turn'[q]] = "none"
  BY <1>1, <1>2, AttemptTurns DEF Remaining, RequestInv
<1>5. s = "cancelled" \/ calls[q][turn[q]] = "running"
  BY <1>1 DEF RequestInv
<1>6. CallsKept(q)
  BY <1>1, <1>3, <1>4, <1>5 DEF CallsKept, Started, RequestInv
<1> QED BY <1>1, <1>2, <1>6, StageIs, StageBecomes

\* Every step of a request is a step of the contract for it, or none.
LEMMA ActorStage ==
  ASSUME GatewayInv, NEW q \in Requests, RequestInv(q)', RequestStep(q)
  PROVE  \/ StageOf(q)' = StageOf(q) /\ CallsKept(q)
         \/ StageOf(q) = "open" /\ StageOf(q)' = "cleared" /\ CallsKept(q)
         \/ StageOf(q) = "cleared" /\ StageOf(q)' = "cleared" /\ \E i \in Turns : OneMore(q, i)
         \/ /\ StageOf(q) = "cleared" /\ StageOf(q)' = "shown"
            /\ Called(q) /\ CallsKept(q)
         \/ /\ StageOf(q) \in {"open", "cleared"} /\ StageOf(q)' = "closed"
            /\ CallsKept(q)
<1>0. RequestInv(q) /\ TypeOK
  BY DEF GatewayInv
<1>t. \A what : Answer(q, what) => pc'[q] = "answered" /\ answer'[q] = what
  BY <1>0 DEF Answer, Goto, TypeOK
<1>c. UNCHANGED calls => CallsKept(q)
  BY DEF CallsKept, Started
<1>1. CASE Refuse(q) \/ QuotaExhausted(q) \/ InputTimeout(q)
  <2>1. UNCHANGED calls /\ pc[q] \in {"new", "input"} /\ pc'[q] = "answered" /\ answer'[q] # "shown"
    BY <1>1, <1>t DEF Refuse, QuotaExhausted, InputTimeout
  <2> QED BY <1>0, <1>c, <2>1, StageIs, StageBecomes
<1>2. CASE Admit(q)
  <2>1. UNCHANGED calls /\ pc[q] = "new" /\ pc'[q] = "input"
    BY <1>0, <1>2 DEF Admit, Goto, TypeOK
  <2> QED BY <1>0, <1>c, <2>1, StageIs, StageBecomes
<1>3. CASE ReviewRaises(q) \/ InputUnaudited(q) \/ InputStops(q) \/ UnknownProvider(q)
  <2>1. UNCHANGED calls /\ pc[q] = "input" /\ pc'[q] = "answered" /\ answer'[q] # "shown"
    BY <1>3, <1>t DEF ReviewRaises, InputUnaudited, InputStops, UnknownProvider, Decided, Stopping
  <2> QED BY <1>0, <1>c, <2>1, StageIs, StageBecomes
<1>4. CASE InputPasses(q)
  <2>1. pc[q] = "input" /\ pc'[q] = "call"
    BY <1>0, <1>4 DEF InputPasses, Decided, Submit, Goto, TypeOK
  <2>2. /\ 1 \in Turns
        /\ \A i \in Turns : calls'[q][i] = IF i = 1 THEN "queued" ELSE calls[q][i]
    BY <1>0, <1>4, AttemptTurns DEF InputPasses, TypeOK
  <2>3. CallsKept(q)
    BY <1>0, <2>1, <2>2 DEF CallsKept, Started, RequestInv
  <2> QED BY <1>0, <2>1, <2>3, StageIs, StageBecomes
<1>5. CASE CallAnswers(q)
  <2>1. pc[q] = "call" /\ pc'[q] = "output" /\ turn[q] \in Turns /\ calls[q][turn[q]] = "running"
    BY <1>0, <1>5 DEF CallAnswers, Goto, TypeOK, RequestInv
  <2>2. \A i \in Turns : calls'[q][i] = IF i = turn[q] THEN "ended" ELSE calls[q][i]
    BY <1>0, <1>5 DEF CallAnswers, SetCall, TypeOK
  <2>3. CallsKept(q)
    BY <2>1, <2>2 DEF CallsKept, Started
  <2> QED BY <1>0, <2>1, <2>3, StageIs, StageBecomes
<1>6. CASE CallFails(q) \/ CallTimesOut(q)
  <2>1. pc[q] = "call" /\ calls[q][turn[q]] \in {"queued", "running"}
    BY <1>0, <1>6 DEF CallFails, CallTimesOut, RequestInv
  <2> QED BY <1>6, <2>1, AttemptOverStage DEF CallFails, CallTimesOut
<1>7. ASSUME NEW i \in Turns, Thread(q, i)
      PROVE  \/ StageOf(q)' = StageOf(q) /\ CallsKept(q)
             \/ StageOf(q) = "cleared" /\ StageOf(q)' = "cleared" /\ OneMore(q, i)
  <2>1. UNCHANGED <<pc, turn, answer, audit, world>>
    BY <1>7 DEF Thread, CallStarts, CallAbandoned, effects
  <2>2. StageOf(q)' = StageOf(q)
    BY <2>1 DEF StageOf, OnRecord, AuditLossy
  <2>3. \E s \in {"running", "ended"} :
           /\ \A j \in Turns : calls'[q][j] = IF j = i THEN s ELSE calls[q][j]
           /\ calls[q][i] = "running" \/ calls[q][i] = "queued"
    BY <1>0, <1>7 DEF Thread, CallStarts, CallAbandoned, SetCall, TypeOK
  <2>5. CASE calls[q][i] = "running"
    BY <2>2, <2>3, <2>5 DEF CallsKept, Started
  <2>6. CASE calls[q][i] = "queued"
    <3>1. OneMore(q, i)
      BY <2>3, <2>6 DEF OneMore, Started
    <3> QED BY <1>0, <2>2, <2>6, <3>1, StageIs, StageBecomes DEF RequestInv
  <2> QED BY <2>3, <2>5, <2>6
<1>8. CASE OutputTimeout(q) \/ OutputUnaudited(q) \/ OutputLogRaises(q) \/ UsageRaises(q) \/ Raises(q)
  <2>1. /\ pc[q] \in {"input", "call", "output"} /\ pc'[q] = "answered" /\ answer'[q] # "shown"
    BY <1>8, <1>t DEF OutputTimeout, OutputUnaudited, OutputLogRaises, UsageRaises, Raises
  <2>2. \/ UNCHANGED calls
        \/ /\ turn[q] \in Turns /\ calls[q][turn[q]] = "running"
           /\ calls' = [calls EXCEPT ![q][turn[q]] = "ended"]
    BY <1>0, <1>8 DEF OutputTimeout, OutputUnaudited, OutputLogRaises, UsageRaises, Raises, SetCall, RequestInv
  <2>3. CallsKept(q)
    <3>1. CASE UNCHANGED calls
      BY <1>c, <3>1
    <3>2. CASE /\ turn[q] \in Turns /\ calls[q][turn[q]] = "running"
               /\ calls' = [calls EXCEPT ![q][turn[q]] = "ended"]
      <4>1. \A i \in Turns : calls'[q][i] = IF i = turn[q] THEN "ended" ELSE calls[q][i]
        BY <1>0, <3>2 DEF TypeOK
      <4> QED BY <3>2, <4>1 DEF CallsKept, Started
    <3> QED BY <2>2, <3>1, <3>2
  <2> QED BY <1>0, <2>1, <2>3, StageIs, StageBecomes
<1>9. CASE Respond(q)
  <2>1. /\ UNCHANGED calls /\ pc[q] = "output" /\ pc'[q] = "answered"
        /\ answer'[q] \in {"shown", "blocked"}
    BY <1>9, <1>t DEF Respond
  <2>2. Called(q) /\ CallsKept(q)
    BY <1>0, <1>c, <2>1 DEF RequestInv
  <2> QED BY <1>0, <2>1, <2>2, StageIs, StageBecomes
<1> QED
  BY <1>1, <1>2, <1>3, <1>4, <1>5, <1>6, <1>7, <1>8, <1>9 DEF RequestStep, Handler, Deadline

\* What the others do not do: a step of q is one of q alone.
LEMMA OthersStage ==
  ASSUME GatewayInv, GatewayInv', NEW q \in Requests, RequestStep(q), NEW p \in Requests, p # q
  PROVE  StageOf(p)' = StageOf(p) /\ CallsKept(p)
<1>1. pc'[p] = pc[p] /\ calls'[p] = calls[p] /\ answer'[p] = answer[p]
  BY OthersUntouched DEF GatewayInv
<1>2. RequestInv(p) /\ RequestInv(p)' /\ pc[p] \in Places
  BY DEF GatewayInv, TypeOK
<1>3. CallsKept(p)
  BY <1>1 DEF CallsKept, Started
<1>4. StageOf(p)' = StageOf(p)
  BY <1>1, <1>2, StageIs, StageBecomes DEF Places
<1> QED BY <1>3, <1>4

\* gateway_chat implements the contract of the gateway, for any number of
\* requests, any chain of providers and whatever fails: in particular no thread of
\* the pool calls a provider, asked for or a fallback, for a client that has its
\* answer.
THEOREM GatewayKeepsContract == Spec => KeepsContract
<1>1. Init => Contract!Init
  <2> SUFFICES ASSUME Init PROVE Contract!Init
    OBVIOUS
  <2>1. \A q \in Requests : StageOf(q) = "open" /\ \A i \in Turns : ~Started(q, i)
    BY DEF Init, StageOf, Started
  <2> QED BY <2>1 DEF Contract!Init
<1>2. GatewayInv /\ GatewayInv' /\ [Next]_vars => [Contract!Next]_(Contract!vars)
  <2> SUFFICES ASSUME GatewayInv, GatewayInv', [Next]_vars
               PROVE  Contract!Next \/ UNCHANGED Contract!vars
    OBVIOUS
  <2> DEFINE stages == [q \in Requests |-> StageOf(q)]
             started == {c \in Requests \X Turns : Started(c[1], c[2])}
  <2>1. ASSUME NEW q \in Requests, RequestStep(q)
        PROVE  Contract!Next \/ UNCHANGED Contract!vars
    <3>1. \A p \in Requests : p # q => StageOf(p)' = StageOf(p) /\ CallsKept(p)
      BY <2>1, OthersStage
    <3>2. /\ stages' = [stages EXCEPT ![q] = StageOf(q)']
          /\ stages[q] = StageOf(q)
      BY <3>1
    <3>3. CallsKept(q) => started' = started
      BY <3>1 DEF CallsKept
    <3>4. ASSUME NEW i \in Turns, OneMore(q, i)
          PROVE  <<q, i>> \notin started /\ started' = started \union {<<q, i>>}
      BY <3>1, <3>4 DEF CallsKept, OneMore
    <3>5. Called(q) => \E i \in Turns : <<q, i>> \in started
      BY DEF Called
    <3>6. StageOf(q)' = StageOf(q) => stages' = stages
      BY <3>2
    <3>7. GatewayInv /\ RequestInv(q)'
      BY DEF GatewayInv
    <3> HIDE DEF stages, started
    <3>8. \/ StageOf(q)' = StageOf(q) /\ CallsKept(q)
          \/ StageOf(q) = "open" /\ StageOf(q)' = "cleared" /\ CallsKept(q)
          \/ StageOf(q) = "cleared" /\ StageOf(q)' = "cleared" /\ \E i \in Turns : OneMore(q, i)
          \/ /\ StageOf(q) = "cleared" /\ StageOf(q)' = "shown"
             /\ Called(q) /\ CallsKept(q)
          \/ /\ StageOf(q) \in {"open", "cleared"} /\ StageOf(q)' = "closed"
             /\ CallsKept(q)
      BY <2>1, <3>7, ActorStage
    <3>9. \/ stages' = stages /\ started' = started
          \/ stages[q] = "open" /\ stages' = [stages EXCEPT ![q] = "cleared"] /\ started' = started
          \/ /\ stages[q] = "cleared" /\ stages' = stages
             /\ \E i \in Turns : <<q, i>> \notin started /\ started' = started \union {<<q, i>>}
          \/ /\ stages[q] = "cleared" /\ stages' = [stages EXCEPT ![q] = "shown"]
             /\ (\E i \in Turns : <<q, i>> \in started) /\ started' = started
          \/ /\ stages[q] \in {"open", "cleared"} /\ stages' = [stages EXCEPT ![q] = "closed"]
             /\ started' = started
      BY <3>2, <3>3, <3>4, <3>5, <3>6, <3>8
    <3> QED
      BY <3>9
      DEF Contract!Next, Contract!Clear, Contract!Call, Contract!Show, Contract!Close,
          Contract!Move, Contract!vars, stages, started
  <2>2. CASE UNCHANGED <<flow, effects, world>>
    BY <2>2 DEF flow, effects, StageOf, OnRecord, AuditLossy, Started, Contract!vars
  <2> QED BY <2>1, <2>2, StepsOfNext DEF Midnight, vars
<1> QED BY <1>1, <1>2, GatewayInvariant, PTL DEF Spec, KeepsContract, Contract!Spec

-----------------------------------------------------------------------------
LEMMA InFlightFinite ==
  ASSUME NEW t
  PROVE  IsFiniteSet(InFlight(t)) /\ Cardinality(InFlight(t)) \in Nat
  BY GatewayAssumption, FS_Subset, FS_CardinalityType DEF InFlight

LEMMA ProductOrder ==
  ASSUME NEW m \in Nat, NEW a \in Nat, NEW b \in Nat, a <= b
  PROVE  m * a <= m * b /\ m * a \in Nat /\ m * b \in Nat
<1>1. m * (b - a) >= 0
  BY SMT
<1>2. m * b = m * a + m * (b - a)
  BY SMT
<1> QED BY <1>1, <1>2

\* A step that admits nobody shrinks what is in flight, and counts nothing.
LEMMA OnlyAdmitAdds ==
  ASSUME TypeOK, NEW q \in Requests, RequestStep(q), ~Admit(q), NEW t
  PROVE  InFlight(t)' \subseteq InFlight(t)
<1>1. \A p \in Requests : p # q => pc'[p] = pc[p]
  BY OthersUntouched
<1>2. pc'[q] \in {"input", "call", "output"} => pc[q] \in {"input", "call", "output"}
  <2> USE DEF TypeOK, Answer, Goto, Submit
  <2>1. CASE UNCHANGED pc
    BY <2>1
  <2>2. CASE \E what : Answer(q, what)
    BY <2>2
  <2>3. CASE pc[q] \in {"input", "call", "output"}
    BY <2>3
  <2> QED
    BY <2>1, <2>2, <2>3
    DEF RequestStep, Handler, Deadline, Thread, Refuse, QuotaExhausted, InputTimeout, ReviewRaises,
        InputUnaudited, InputStops, UnknownProvider, InputPasses, Decided, CallAnswers, CallFails,
        CallTimesOut, CallStarts, CallAbandoned, OutputTimeout, OutputUnaudited, OutputLogRaises, UsageRaises,
        Respond, Raises
<1> QED BY <1>1, <1>2 DEF InFlight

\* What Redis has counted moves only when a request is answered with its output.
LEMMA OnlyRespondCounts ==
  ASSUME NEW q \in Requests, RequestStep(q), ~Respond(q)
  PROVE  UNCHANGED used
  BY DEF RequestStep, Handler, Deadline, Thread, Refuse, QuotaExhausted, Admit, InputTimeout,
         ReviewRaises, InputUnaudited, InputStops, UnknownProvider, InputPasses, CallAnswers,
         CallFails, CallTimesOut, AttemptOver, CallStarts, CallAbandoned, OutputTimeout,
         OutputUnaudited, OutputLogRaises, UsageRaises, Raises, quotas

LEMMA ExposureFalls ==
  ASSUME TypeOK, [Next]_vars, NEW t \in Tenants, ~world.redisFails, Quota[t] > 0, used[t] >= Quota[t]
  PROVE  Exposure(t)' <= Exposure(t)
<1> DEFINE flying == Cardinality(InFlight(t))
           flyingNext == Cardinality(InFlight(t)')
<1> USE GatewayAssumption
<1>0. used[t] \in Nat /\ MaxTokens \in Nat /\ flying \in Nat /\ IsFiniteSet(InFlight(t))
  BY InFlightFinite DEF TypeOK
<1>1. InFlight(t)' \subseteq InFlight(t) => flyingNext \in Nat /\ flyingNext <= flying
  BY <1>0, FS_Subset, FS_CardinalityType
<1>2. ASSUME used'[t] \in Nat, used'[t] <= used[t], InFlight(t)' \subseteq InFlight(t)
      PROVE  Exposure(t)' <= Exposure(t)
  <2>1. /\ MaxTokens * flyingNext <= MaxTokens * flying
        /\ MaxTokens * flyingNext \in Nat /\ MaxTokens * flying \in Nat
    BY <1>0, <1>1, <1>2, ProductOrder
  <2> HIDE DEF flying, flyingNext
  <2>2. used'[t] + MaxTokens * flyingNext <= used[t] + MaxTokens * flying
    BY <1>0, <1>2, <2>1
  <2> QED BY <2>2 DEF Exposure, flying, flyingNext
<1>3. ASSUME NEW q \in Requests, Admit(q) PROVE InFlight(t)' \subseteq InFlight(t)
  <2>1. TenantOf[q] # t
    BY <1>3 DEF Admit, Readings, WouldExceed, TypeOK
  <2> QED BY <1>3, <2>1 DEF Admit, Goto, InFlight, TypeOK
<1>4. ASSUME NEW q \in Requests, RequestStep(q), ~Respond(q) PROVE Exposure(t)' <= Exposure(t)
  <2>1. used'[t] = used[t]
    BY <1>4, OnlyRespondCounts
  <2>2. InFlight(t)' \subseteq InFlight(t)
    BY <1>3, <1>4, OnlyAdmitAdds
  <2>3. used'[t] \in Nat /\ used'[t] <= used[t]
    BY <1>0, <2>1
  <2> QED BY <1>2, <2>2, <2>3
<1>5. ASSUME NEW q \in Requests, Respond(q) PROVE Exposure(t)' <= Exposure(t)
  <2>1. RequestStep(q) /\ ~Admit(q)
    BY <1>5 DEF RequestStep, Handler, Respond, Admit
  <2>2. InFlight(t)' \subseteq InFlight(t)
    BY <2>1, OnlyAdmitAdds
  <2>3. CASE TenantOf[q] # t
    <3>1. used'[t] = used[t]
      BY <1>5, <2>3 DEF Respond, CountTokens, TypeOK
    <3> QED BY <1>0, <1>2, <2>2, <3>1
  <2>4. CASE TenantOf[q] = t
    <3>1. used'[t] \in Nat /\ used'[t] <= used[t] + MaxTokens
      <4>1. tokens[q] \in Int /\ tokens[q] <= MaxTokens
        BY DEF TypeOK, Usages, Malformed
      <4> QED BY <1>0, <1>5, <2>4, <4>1 DEF Respond, CountTokens, TypeOK
    <3>2. q \in InFlight(t) /\ q \notin InFlight(t)'
      BY <1>5, <2>4 DEF Respond, InFlight, Answer, Goto, TypeOK
    <3>3. /\ IsFiniteSet(InFlight(t) \ {q})
          /\ Cardinality(InFlight(t) \ {q}) = flying - 1
      BY <1>0, <3>2, FS_RemoveElement
    <3>4. flyingNext \in Nat /\ flyingNext <= flying - 1 /\ flying - 1 \in Nat
      <4>1. InFlight(t)' \subseteq InFlight(t) \ {q}
        BY <2>2, <3>2
      <4>2. flyingNext \in Nat /\ flyingNext <= Cardinality(InFlight(t) \ {q})
            /\ Cardinality(InFlight(t) \ {q}) \in Nat
        BY <3>3, <4>1, FS_Subset, FS_CardinalityType
      <4> QED BY <3>3, <4>2
    <3> HIDE DEF flying, flyingNext
    <3>5. /\ MaxTokens * flyingNext <= MaxTokens * (flying - 1)
          /\ MaxTokens * flyingNext \in Nat /\ MaxTokens * (flying - 1) \in Nat
      BY <1>0, <3>4, ProductOrder
    <3>6. MaxTokens * flying = MaxTokens * (flying - 1) + MaxTokens
      BY <1>0, SMT
    <3>7. used'[t] + MaxTokens * flyingNext <= used[t] + MaxTokens * flying
      BY <1>0, <3>1, <3>5, <3>6
    <3> QED BY <3>7 DEF Exposure, flying, flyingNext
  <2> QED BY <2>3, <2>4
<1>6. CASE Midnight
  BY <1>0, <1>2, <1>6 DEF Midnight, flow, InFlight
<1>7. CASE UNCHANGED vars
  BY <1>0, <1>2, <1>7 DEF vars, flow, quotas, InFlight
<1> QED BY <1>4, <1>5, <1>6, <1>7, StepsOfNext

\* With Redis answering, a tenant overruns its quota by no more than the calls
\* that were in flight when it reached it could use.
THEOREM OverrunByInFlightOnly == Spec => OverrunBounded
<1>1. TypeOK /\ [Next]_vars =>
        [\A t \in Tenants :
           ~world.redisFails /\ Quota[t] > 0 /\ used[t] >= Quota[t] =>
             Exposure(t)' <= Exposure(t)]_vars
  BY ExposureFalls
<1> QED BY <1>1, GatewayTypeCorrect, PTL DEF Spec, OverrunBounded

-----------------------------------------------------------------------------
\* What is counted was delivered, and the reverse.  A request is of today only
\* once it is answered, so its usage no longer changes.
AccountInv ==
    /\ TypeOK
    /\ \A q \in today : pc[q] = "answered"
    /\ CountsDelivered

LEMMA DeliveredFinite ==
  ASSUME TypeOK, NEW t
  PROVE  IsFiniteSet(Delivered(t)) /\ Cardinality(Delivered(t)) \in Nat
<1>1. IsFiniteSet(today) /\ IsFiniteSet(1 .. MaxTokens)
  BY GatewayAssumption, FS_Subset, FS_Interval DEF TypeOK
<1>2. IsFiniteSet(today \X (1 .. MaxTokens))
  BY <1>1, FS_Product
<1> QED BY <1>2, FS_Subset, FS_CardinalityType DEF Delivered

\* The tokens of one request are as many as its usage says, if it is positive.
LEMMA UnitsOfOne ==
  ASSUME NEW q, NEW n \in Usages
  PROVE  /\ IsFiniteSet({q} \X (1 .. n))
         /\ Cardinality({q} \X (1 .. n)) = IF n > 0 THEN n ELSE 0
<1>1. n \in Int /\ 1 \in Int
  BY GatewayAssumption DEF Usages, Malformed
<1>2. IsFiniteSet(1 .. n) /\ Cardinality(1 .. n) = IF n > 0 THEN n ELSE 0
  BY <1>1, FS_Interval
<1>3. IsFiniteSet({q}) /\ Cardinality({q}) = 1
  BY FS_Singleton
<1>4. /\ IsFiniteSet({q} \X (1 .. n))
      /\ Cardinality({q} \X (1 .. n)) = Cardinality({q}) * Cardinality(1 .. n)
  BY <1>2, <1>3, FS_Product
<1>5. PICK m \in Nat : m = IF n > 0 THEN n ELSE 0
  BY <1>1
<1> QED BY <1>2, <1>3, <1>4, <1>5

\* No other step touches what is of today, or its usage.
LEMMA OnlyRespondDelivers ==
  ASSUME AccountInv, NEW q \in Requests, RequestStep(q), ~Respond(q)
  PROVE  /\ today' = today /\ world' = world
         /\ \A p \in today : pc'[p] = "answered" /\ tokens'[p] = tokens[p]
<1>1. today' = today /\ world' = world
  BY DEF RequestStep, Handler, Deadline, Thread, Refuse, QuotaExhausted, Admit, InputTimeout,
         ReviewRaises, InputUnaudited, InputStops, UnknownProvider, InputPasses, CallAnswers,
         CallFails, CallTimesOut, AttemptOver, CallStarts, CallAbandoned, OutputTimeout,
         OutputUnaudited, OutputLogRaises, UsageRaises, Raises, quotas
<1>2. \A p \in Requests : p # q => pc'[p] = pc[p] /\ tokens'[p] = tokens[p]
  <2>1. tokens' = tokens \/ \E n \in Usages : tokens' = [tokens EXCEPT ![q] = n]
    BY DEF RequestStep, Handler, Deadline, Thread, Refuse, QuotaExhausted, Admit, InputTimeout,
           ReviewRaises, InputUnaudited, InputStops, UnknownProvider, InputPasses, CallAnswers,
           CallFails, CallTimesOut, AttemptOver, CallStarts, CallAbandoned, OutputTimeout,
           OutputUnaudited, OutputLogRaises, UsageRaises, Raises
  <2>2. \A p \in Requests : p # q => tokens'[p] = tokens[p]
    BY <2>1 DEF AccountInv, TypeOK
  <2> QED BY <2>2, OthersUntouched DEF AccountInv
<1>3. q \in today => pc'[q] = "answered" /\ tokens'[q] = tokens[q]
  BY DEF AccountInv, TypeOK, RequestStep, Handler, Deadline, Thread, Refuse, QuotaExhausted, Admit,
         InputTimeout, ReviewRaises, InputUnaudited, InputStops, UnknownProvider, InputPasses, Decided,
         CallAnswers, CallFails, CallTimesOut, CallStarts, CallAbandoned, OutputTimeout,
         OutputUnaudited, OutputLogRaises, UsageRaises, Raises
<1> QED BY <1>1, <1>2, <1>3 DEF AccountInv, TypeOK

LEMMA RespondDelivers ==
  ASSUME AccountInv, NEW q \in Requests, Respond(q), ~world.redisFails, NEW t \in Tenants
  PROVE  used'[t] = Cardinality(Delivered(t)')
<1>1. /\ today' = today \union {q} /\ tokens' = tokens /\ q \notin today
  BY DEF Respond, AccountInv
<1>2. used[t] = Cardinality(Delivered(t)) /\ used[t] \in Nat /\ used \in [Tenants -> Nat]
  BY DEF AccountInv, CountsDelivered, TypeOK
<1>3. tokens[q] \in Usages /\ tokens[q] \in Int /\ tokens[q] <= MaxTokens /\ MaxTokens \in Nat
  BY GatewayAssumption DEF AccountInv, TypeOK, Usages, Malformed
<1>4. IF tokens[q] > 0 THEN used' = [used EXCEPT ![TenantOf[q]] = @ + tokens[q]] ELSE used' = used
  BY <1>3 DEF Respond, CountTokens
<1>5. CASE TenantOf[q] # t
  <2>1. Delivered(t)' = Delivered(t)
    BY <1>1, <1>5 DEF Delivered
  <2>2. used'[t] = used[t]
    BY <1>2, <1>4, <1>5
  <2> QED BY <1>2, <2>1, <2>2
<1>6. CASE TenantOf[q] = t
  <2>1. Delivered(t)' = Delivered(t) \union ({q} \X (1 .. tokens[q]))
    BY <1>1, <1>3, <1>6 DEF Delivered
  <2>2. Delivered(t) \intersect ({q} \X (1 .. tokens[q])) = {}
    BY <1>1 DEF Delivered
  <2>3. IsFiniteSet(Delivered(t)) /\ Cardinality(Delivered(t)) \in Nat
    BY DeliveredFinite DEF AccountInv
  <2>4. PICK n \in Usages : n = tokens[q]
    BY <1>3
  <2>5. /\ IsFiniteSet({q} \X (1 .. n))
        /\ Cardinality({q} \X (1 .. n)) = IF n > 0 THEN n ELSE 0
    BY UnitsOfOne
  <2>6. Cardinality(Delivered(t)') = Cardinality(Delivered(t)) + Cardinality({q} \X (1 .. n))
    <3>1. PICK A, B : A = Delivered(t) /\ B = {q} \X (1 .. n)
      OBVIOUS
    <3>2. Cardinality(A \union B) = Cardinality(A) + Cardinality(B) - Cardinality(A \intersect B)
      BY <2>3, <2>5, <3>1, FS_Union
    <3>3. Cardinality(A \intersect B) = 0
      BY <2>2, <2>4, <3>1, FS_EmptySet
    <3>4. Cardinality(A) \in Nat /\ Cardinality(B) \in Nat
      BY <2>3, <2>5, <3>1, FS_CardinalityType
    <3> QED BY <2>1, <2>4, <3>1, <3>2, <3>3, <3>4
  <2>7. used'[t] = used[t] + (IF n > 0 THEN n ELSE 0)
    BY <1>2, <1>3, <1>4, <1>6, <2>4
  <2> QED BY <1>2, <2>5, <2>6, <2>7
<1> QED BY <1>5, <1>6

LEMMA AccountStep == AccountInv /\ TypeOK' /\ [Next]_vars => AccountInv'
<1> SUFFICES ASSUME AccountInv, TypeOK', [Next]_vars PROVE AccountInv'
  OBVIOUS
<1>1. ASSUME NEW q \in Requests, RequestStep(q), ~Respond(q) PROVE AccountInv'
  <2>1. /\ today' = today /\ world' = world /\ used' = used
        /\ \A p \in today : pc'[p] = "answered" /\ tokens'[p] = tokens[p]
    BY <1>1, OnlyRespondDelivers, OnlyRespondCounts
  <2>2. \A t \in Tenants : Delivered(t)' = Delivered(t)
    BY <2>1 DEF Delivered
  <2> QED BY <2>1, <2>2 DEF AccountInv, CountsDelivered
<1>2. ASSUME NEW q \in Requests, Respond(q) PROVE AccountInv'
  <2>1. world' = world /\ \A p \in today' : pc'[p] = "answered"
    BY <1>2 DEF Respond, Answer, Goto, AccountInv, TypeOK
  <2>2. \A t \in Tenants : ~world.redisFails => used'[t] = Cardinality(Delivered(t)')
    BY <1>2, RespondDelivers
  <2> QED BY <2>1, <2>2 DEF AccountInv, CountsDelivered
<1>3. CASE Midnight
  <2>1. today' = {} /\ \A t \in Tenants : used'[t] = 0
    BY <1>3 DEF Midnight
  <2>2. \A t \in Tenants : Delivered(t)' = {}
    BY <2>1 DEF Delivered
  <2> QED BY <2>1, <2>2, FS_EmptySet DEF AccountInv, CountsDelivered
<1>4. CASE UNCHANGED vars
  BY <1>4 DEF AccountInv, CountsDelivered, Delivered, vars, flow, quotas, TypeOK
<1> QED BY <1>1, <1>2, <1>3, <1>4, StepsOfNext

\* With Redis answering, what a tenant is charged today is the usage of what was
\* decided today, each request once, whatever is refused, times out or fails.
THEOREM ChargedForDelivered == Spec => []CountsDelivered
<1>1. Init => AccountInv
  <2> SUFFICES ASSUME Init, TypeOK PROVE AccountInv
    BY StartTypes
  <2>1. today = {} /\ \A t \in Tenants : used[t] = 0
    BY DEF Init
  <2>2. \A t \in Tenants : Delivered(t) = {}
    BY <2>1 DEF Delivered
  <2> QED BY <2>1, <2>2, FS_EmptySet DEF AccountInv, CountsDelivered
<1>2. AccountInv => CountsDelivered
  BY DEF AccountInv
<1> QED BY <1>1, <1>2, AccountStep, GatewayTypeCorrect, PTL DEF Spec
=============================================================================
