--------------------------- MODULE ToolCallsProofs ---------------------------
(***************************************************************************)
(* Governed tool calls and their audit trail for any number of messages,   *)
(* tools, tenants, sessions, crashes and migrations, and any old file.     *)
(***************************************************************************)
EXTENDS ToolCalls, TLAPS

\* The records there can be: the lines of the old file, and the events of calls.
Said == UNION {Inputs[x] \union {CHOOSE i \in Inputs[x] : TRUE} : x \in Settings}
Events == {ToolEvent(c, i.tenant) : c \in Calls, i \in Said}
Records == Events \union UNION {ToSet(old) : old \in OldLines}

\* The audit trail: whatever the ledger or the running migration knows has its
\* row, and so has the line between its row and its ledger entry.
Migrations == [at: {"idle", "line", "ledger"}, seen: SUBSET Records, next: Nat \ {0}, runs: Nat]

TrailType ==
    /\ setting \in Settings
    /\ jsonl \in Seq(Records)
    /\ db \in Seq(Records)
    /\ mig \in Migrations

KnownHaveRows ==
    /\ ledger \subseteq ToSet(db)
    /\ mig.at # "idle" =>
          /\ mig.seen \subseteq ToSet(db)
          /\ mig.next <= Len(jsonl) + 1
          /\ \A i \in 1..(mig.next - 1) : jsonl[i].kind # "bad" => jsonl[i] \in ToSet(db)
    /\ mig.at = "ledger" => mig.next <= Len(jsonl) /\ Line \in ToSet(db)

TrailInv == TrailType /\ KnownHaveRows

\* The calls.  What must never be told of a call that had an effect is also
\* never its result, which may be told later, by a stream.
CallPlaces == {"idle", "run", "line", "mirror", "finish", "raised", "done"}
Answers == {"none", "nothing", "info", "accepted", "failure", "BLOCK", "REVIEW",
            "refused", "rejected", "output", "error in tool"}
NoEffect == {"BLOCK", "REVIEW", "refused", "rejected"}

CallsType ==
    /\ call \in [Calls -> [at: CallPlaces, said: Said, result: Answers, told: Answers]]
    /\ sess \in [Sessions -> [at: {"none", "registered", "loop", "wait"}, age: Nat, queue: Seq(Calls)]]

\* The row that a decision has to have before it is served.
HasRow(c) == setting.read /\ setting.enabled => ToolEvent(c, call[c].said.tenant) \in ToSet(db)

NotRunYet(c) ==
    /\ call[c].at \in {"idle", "run"} => c \notin effects
    /\ call[c].at = "run" => Decided(call[c].said) = "ALLOW"
    /\ call[c].at # "done" => call[c].told = "nothing"

EffectFair(c) ==
    /\ call[c].result \in NoEffect \/ call[c].told \in NoEffect => c \notin effects
    /\ c \in effects => /\ ToolSpecs[call[c].said.tool].risk # "HIGH"
                        /\ HasAccess(call[c].said) /\ ValidArguments(call[c].said)

AnswerFair(c) ==
    /\ call[c].told = "REVIEW" /\ call[c].said.via = "api" => c \in reviews
    /\ call[c].at = "finish" \/ call[c].told \in Decisions => HasRow(c)

CallFair(c) == NotRunYet(c) /\ EffectFair(c) /\ AnswerFair(c)

\* What waits in a session's queue was posted to that session and is over.
Waiting(s, c) ==
    /\ call[c].at = "done"
    /\ call[c].said.via = s
    /\ call[c].result \in Decisions => HasRow(c)

CallsInv ==
    /\ CallsType
    /\ \A c \in Calls : CallFair(c)
    /\ \A s \in Sessions : \A c \in ToSet(sess[s].queue) : Waiting(s, c)

ToolInv == TrailInv /\ CallsInv
-----------------------------------------------------------------------------
\* The audit trail.

LEMMA Grows ==
  ASSUME NEW S, NEW q \in Seq(S), NEW r \in S
  PROVE  /\ Append(q, r) \in Seq(S)
         /\ Len(Append(q, r)) = Len(q) + 1
         /\ \A i \in 1..Len(q) : Append(q, r)[i] = q[i]
         /\ ToSet(Append(q, r)) = ToSet(q) \union {r}
<1>1. /\ Append(q, r) \in Seq(S)
      /\ Len(Append(q, r)) = Len(q) + 1
      /\ \A i \in 1..Len(q) : Append(q, r)[i] = q[i]
      /\ Append(q, r)[Len(q) + 1] = r
  OBVIOUS
<1>2. DOMAIN q = 1..Len(q) /\ DOMAIN Append(q, r) = 1..(Len(q) + 1) /\ Len(q) \in Nat
  BY <1>1
<1> QED BY <1>1, <1>2 DEF ToSet

\* What a step may do to the trail.
TrailMove ==
    \/ Migrate
    \/ \E rec \in Records : AppendLine(rec) \/ WriteRow(rec)
    \/ UNCHANGED audit

LEMMA InSet ==
  ASSUME NEW S, NEW q \in Seq(S)
  PROVE  \A i \in 1..Len(q) : q[i] \in ToSet(q) /\ q[i] \in S
  BY DEF ToSet

LEMMA TrailStarts == Init => TrailInv
<1> SUFFICES ASSUME Init PROVE TrailInv
  OBVIOUS
<1> USE DEF Init, AuditInit
<1>1. jsonl \in Seq(ToSet(jsonl)) /\ ToSet(jsonl) \subseteq Records
  BY AuditAssumption DEF Records
<1>2. jsonl \in Seq(Records)
  BY <1>1
<1>3. db \in Seq(Records) /\ ledger = {}
  OBVIOUS
<1>4. mig \in Migrations
  BY DEF Migrations
<1> QED BY <1>2, <1>3, <1>4 DEF TrailInv, TrailType, KnownHaveRows

\* A record of the migration that has moved on.
LEMMA MovedOn ==
  ASSUME NEW m \in Migrations, NEW at \in {"idle", "line", "ledger"}, NEW S \in SUBSET Records
  PROVE  /\ m.next + 1 \in Nat \ {0}
         /\ [m EXCEPT !.next = @ + 1] \in Migrations
         /\ [m EXCEPT !.at = at, !.seen = S, !.next = @ + 1] \in Migrations
<1>1. m.next \in Nat /\ m.next + 1 \in Nat \ {0}
  BY DEF Migrations
<1>2. PICK n \in Nat \ {0} : n = m.next + 1
  BY <1>1
<1>3. [m EXCEPT !.next = n] \in Migrations /\ [m EXCEPT !.at = at, !.seen = S, !.next = n] \in Migrations
  BY DEF Migrations
<1> QED BY <1>1, <1>2, <1>3

LEMMA TrailStep ==
  ASSUME TrailInv, TrailMove
  PROVE  /\ TrailInv'
         /\ setting' = setting
         /\ ToSet(db) \subseteq ToSet(db')
<1> USE DEF TrailInv, TrailType, KnownHaveRows
<1>d. Len(jsonl) \in Nat /\ mig.next \in Nat /\ mig.next >= 1 /\ ledger \subseteq Records
  BY DEF ToSet, Migrations
<1>1. CASE MigrateStart
  BY <1>1, <1>d DEF MigrateStart, Migrations
<1>2. CASE MigrateSkip
  <2>1. /\ mig'.at = "line" /\ mig'.seen = mig.seen /\ mig'.next = mig.next + 1
        /\ mig' \in Migrations
        /\ jsonl' = jsonl /\ ledger' = ledger /\ setting' = setting /\ db' = db
        /\ mig.at = "line" /\ mig.next <= Len(jsonl)
        /\ jsonl[mig.next] \in mig.seen \/ jsonl[mig.next].kind = "bad"
    BY <1>2, <1>d, MovedOn DEF MigrateSkip, More, Line, Migrations
  <2>2. \A i \in 1..mig.next : jsonl[i].kind # "bad" => jsonl[i] \in ToSet(db)
    BY <1>d, <2>1
  <2> QED BY <1>d, <2>1, <2>2
<1>3. CASE MigrateWrite
  <2>1. Line \in Records
    BY <1>3, <1>d, InSet DEF MigrateWrite, More, Line
  <2>2. PICK line \in Records : line = Line
    BY <2>1
  <2>3. /\ db' = Append(db, line)
        /\ db' \in Seq(Records) /\ ToSet(db) \subseteq ToSet(db') /\ line \in ToSet(db')
    BY <1>3, <2>2, Grows DEF MigrateWrite
  <2>4. /\ Line' = Line /\ mig'.at = "ledger" /\ mig'.seen = mig.seen /\ mig'.next = mig.next
        /\ jsonl' = jsonl /\ ledger' = ledger /\ setting' = setting
        /\ mig.at = "line" /\ mig.next <= Len(jsonl)
        /\ mig' \in Migrations
    BY <1>3 DEF MigrateWrite, More, Line, Migrations
  <2> QED BY <2>2, <2>3, <2>4, <1>d
<1>4. CASE MigrateLedger
  <2>1. jsonl[mig.next] \in Records /\ jsonl[mig.next] \in ToSet(db) /\ mig.next <= Len(jsonl)
    BY <1>4, <1>d, InSet DEF MigrateLedger, Line
  <2>2. /\ mig'.at = "line" /\ mig'.seen = mig.seen \union {jsonl[mig.next]} /\ mig'.next = mig.next + 1
        /\ mig' \in Migrations
        /\ jsonl' = jsonl /\ ledger' = ledger \union {jsonl[mig.next]} /\ setting' = setting /\ db' = db
        /\ mig.at = "ledger"
    <3>1. mig.seen \union {jsonl[mig.next]} \in SUBSET Records
      BY <2>1 DEF Migrations
    <3>2. mig' = [mig EXCEPT !.at = "line", !.seen = mig.seen \union {jsonl[mig.next]}, !.next = @ + 1]
      BY <1>4 DEF MigrateLedger, Line
    <3>3. mig' \in Migrations
      BY <3>1, <3>2, MovedOn
    <3>4. mig'.at = "line" /\ mig'.seen = mig.seen \union {jsonl[mig.next]} /\ mig'.next = mig.next + 1
      BY <3>2 DEF Migrations
    <3> QED BY <1>4, <3>3, <3>4 DEF MigrateLedger, Line
  <2>3. \A i \in 1..mig.next : jsonl[i].kind # "bad" => jsonl[i] \in ToSet(db)
    BY <1>d, <2>1, <2>2
  <2> QED BY <1>d, <2>1, <2>2, <2>3
<1>5. CASE MigrateEnd \/ MigrateStops
  BY <1>5, <1>d DEF MigrateEnd, MigrateStops, Migrations
<1>6. ASSUME NEW rec \in Records, AppendLine(rec) PROVE TrailInv' /\ setting' = setting /\ db' = db
  <2>1. CASE jsonl' = jsonl
    BY <1>6, <2>1 DEF AppendLine, Line
  <2>2. CASE jsonl' = Append(jsonl, rec)
    <3>1. /\ jsonl' \in Seq(Records) /\ Len(jsonl') = Len(jsonl) + 1
          /\ \A i \in 1..Len(jsonl) : jsonl'[i] = jsonl[i]
      BY <2>2, Grows
    <3>2. setting' = setting /\ db' = db /\ ledger' = ledger /\ mig' = mig
      BY <1>6 DEF AppendLine
    <3>3. mig.at = "ledger" => Line' = Line
      BY <1>d, <3>1, <3>2 DEF Line
    <3>4. ASSUME mig.at # "idle"
          PROVE  /\ mig.next <= Len(jsonl') + 1
                 /\ \A i \in 1..(mig.next - 1) : jsonl'[i].kind # "bad" => jsonl'[i] \in ToSet(db)
      <4>1. \A i \in 1..(mig.next - 1) : i \in 1..Len(jsonl)
        BY <1>d, <3>4
      <4> QED BY <1>d, <3>1, <3>4, <4>1
    <3>5. mig.at = "ledger" => mig.next <= Len(jsonl') /\ Line' \in ToSet(db)
      BY <1>d, <3>1, <3>3
    <3> QED BY <3>1, <3>2, <3>4, <3>5
  <2> QED BY <1>6, <2>1, <2>2 DEF AppendLine
<1>7. ASSUME NEW rec \in Records, WriteRow(rec)
      PROVE  TrailInv' /\ setting' = setting /\ ToSet(db) \subseteq ToSet(db')
  <2>1. db' \in Seq(Records) /\ ToSet(db) \subseteq ToSet(db')
    BY <1>7, Grows DEF WriteRow
  <2>2. setting' = setting /\ jsonl' = jsonl /\ ledger' = ledger /\ mig' = mig /\ Line' = Line
    BY <1>7 DEF WriteRow, Line
  <2> QED BY <1>d, <2>1, <2>2
<1>8. CASE UNCHANGED audit
  BY <1>8 DEF audit, Line
<1>9. Migrate => MigrateStart \/ MigrateSkip \/ MigrateWrite \/ MigrateLedger \/ MigrateEnd \/ MigrateStops
  BY DEF Migrate
<1> QED BY <1>1, <1>2, <1>3, <1>4, <1>5, <1>6, <1>7, <1>8, <1>9 DEF TrailMove
-----------------------------------------------------------------------------
\* The calls.  Most steps move one call that is not over and leave the others.

CallRecords == [at: CallPlaces, said: Said, result: Answers, told: Answers]
Streams == [at: {"none", "registered", "loop", "wait"}, age: Nat, queue: Seq(Calls)]

\* Nothing of the trail is lost.
TrailKept == setting' = setting /\ ToSet(db) \subseteq ToSet(db')

LEMMA FairKept ==
  ASSUME TrailKept, NEW c \in Calls, CallFair(c), call'[c] = call[c],
         c \in effects' <=> c \in effects, reviews \subseteq reviews'
  PROVE  CallFair(c)'
<1>1. NotRunYet(c)'
  BY DEF CallFair, NotRunYet
<1>2. EffectFair(c)'
  BY DEF CallFair, EffectFair
<1>3. AnswerFair(c)'
  BY DEF CallFair, AnswerFair, HasRow, TrailKept
<1> QED BY <1>1, <1>2, <1>3 DEF CallFair

LEMMA WaitingKept ==
  ASSUME TrailKept, NEW s \in Sessions, NEW c \in Calls, Waiting(s, c),
         call'[c].at = "done", call'[c].said = call[c].said, call'[c].result = call[c].result
  PROVE  Waiting(s, c)'
  BY DEF Waiting, HasRow, TrailKept

\* A step that moves one call, and may put it into the queue of a session.
LEMMA OneCall ==
  ASSUME CallsInv, TrailKept, NEW c \in Calls, call[c].at # "done",
         call' \in [Calls -> CallRecords],
         \A b \in Calls \ {c} : call'[b] = call[b],
         effects' \in {effects, effects \union {c}}, reviews \subseteq reviews',
         CallFair(c)',
         \/ sess' = sess
         \/ \E s \in Sessions : /\ sess' = [sess EXCEPT ![s].queue = Append(@, c)]
                                /\ Waiting(s, c)'
  PROVE  CallsInv'
<1>1. \A b \in Calls : CallFair(b)'
  <2> TAKE b \in Calls
  <2>1. CASE b = c
    BY <2>1
  <2>2. CASE b # c
    <3>1. CallFair(b) /\ call'[b] = call[b] /\ (b \in effects' <=> b \in effects)
      BY <2>2 DEF CallsInv
    <3> QED BY <3>1, FairKept
  <2> QED BY <2>1, <2>2
<1>2. ASSUME NEW s \in Sessions, NEW b \in Calls, Waiting(s, b)
      PROVE  Waiting(s, b)'
  <2>1. b # c
    BY <1>2 DEF Waiting
  <2> QED BY <1>2, <2>1, WaitingKept DEF Waiting
<1>3. \A s \in Sessions : sess[s].queue \in Seq(Calls) /\ ToSet(sess[s].queue) \subseteq Calls
  BY DEF CallsInv, CallsType, ToSet
<1>4. CASE sess' = sess
  <2>1. ASSUME NEW s \in Sessions, NEW b \in ToSet(sess[s].queue) PROVE Waiting(s, b)'
    <3>1. b \in Calls /\ Waiting(s, b)
      BY <1>3 DEF CallsInv
    <3> QED BY <1>2, <3>1
  <2> QED BY <1>1, <1>4, <2>1 DEF CallsInv, CallsType, CallRecords
<1>5. ASSUME NEW s \in Sessions, sess' = [sess EXCEPT ![s].queue = Append(@, c)], Waiting(s, c)'
      PROVE  CallsInv'
  <2>1. sess \in [Sessions -> Streams]
    BY DEF CallsInv, CallsType, Streams
  <2>2. PICK q \in Seq(Calls) : q = Append(sess[s].queue, c) /\ ToSet(q) = ToSet(sess[s].queue) \union {c}
    <3>1. PICK old \in Seq(Calls) : old = sess[s].queue
      BY <1>3
    <3>2. Append(old, c) \in Seq(Calls) /\ ToSet(Append(old, c)) = ToSet(old) \union {c}
      BY Grows
    <3> QED BY <3>1, <3>2
  <2>3. sess' = [sess EXCEPT ![s].queue = q]
    BY <1>5, <2>2
  <2>4. /\ sess' \in [Sessions -> Streams]
        /\ sess'[s].queue = q
        /\ \A x \in Sessions \ {s} : sess'[x] = sess[x]
    BY <2>1, <2>3 DEF Streams
  <2>5. ASSUME NEW x \in Sessions, NEW b \in ToSet(sess'[x].queue)
        PROVE  Waiting(x, b)'
    <3>1. b \in ToSet(sess[x].queue) \/ (x = s /\ b = c)
      BY <2>2, <2>4
    <3>2. b \in ToSet(sess[x].queue) => b \in Calls /\ Waiting(x, b)
      BY <1>3 DEF CallsInv
    <3> QED BY <1>2, <1>5, <3>1, <3>2
  <2> QED BY <1>1, <2>4, <2>5 DEF CallsInv, CallsType, CallRecords, Streams
<1> QED BY <1>4, <1>5

LEMMA CallsStart == Init => CallsInv
<1> SUFFICES ASSUME Init PROVE CallsInv
  OBVIOUS
<1>1. setting \in Settings
  BY DEF Init, AuditInit
<1>2. PICK i \in Said : i = CHOOSE j \in Inputs[setting] : TRUE
  BY <1>1 DEF Said
<1>3. /\ call = [c \in Calls |-> [at |-> "idle", said |-> i, result |-> "none", told |-> "nothing"]]
      /\ effects = {}
      /\ sess = [s \in Sessions |-> [at |-> "none", age |-> 0, queue |-> <<>>]]
  BY <1>2 DEF Init, NoStream
<1>4. CallsType
  BY <1>3 DEF CallsType, CallPlaces, Answers
<1>5. \A c \in Calls : CallFair(c)
  BY <1>3 DEF CallFair, NotRunYet, EffectFair, AnswerFair, NoEffect, Decisions
<1>6. \A s \in Sessions : ToSet(sess[s].queue) = {}
  BY <1>3 DEF ToSet
<1> QED BY <1>4, <1>5, <1>6 DEF CallsInv

\* The parameters of a message are among those that are said.
LEMMA SaidType ==
  ASSUME setting \in Settings, NEW i \in Inputs[setting]
  PROVE  i \in Said
  BY DEF Said

-----------------------------------------------------------------------------
\* A message that calls no tool.

LEMMA AnswerValues ==
  ASSUME NEW i
  PROVE  Answer(i) \in {"nothing", "info", "rejected"}
  BY DEF Answer

LEMMA SayStep ==
  ASSUME CallsInv, TrailKept, NEW c \in Calls, NEW i \in Said, NEW what \in Answers,
         what \notin Decisions, call[c].at = "idle", Say(c, i, what)
  PROVE  CallsInv'
<1>1. /\ call' = [call EXCEPT ![c] = [at |-> "done", said |-> i, result |-> "none", told |-> what]]
      /\ effects' = effects /\ reviews' = reviews /\ sess' = sess
  BY DEF Say, Untouched
<1>2. call \in [Calls -> CallRecords] /\ c \notin effects
  BY DEF CallsInv, CallsType, CallRecords, CallFair, NotRunYet
<1>3. PICK r \in CallRecords : r = [at |-> "done", said |-> i, result |-> "none", told |-> what]
  BY DEF CallRecords, CallPlaces, Answers
<1>4. call' \in [Calls -> CallRecords] /\ call'[c] = r /\ \A b \in Calls \ {c} : call'[b] = call[b]
  BY <1>1, <1>2, <1>3
<1>5. CallFair(c)'
  BY <1>1, <1>2, <1>3, <1>4 DEF CallFair, NotRunYet, EffectFair, AnswerFair, Decisions
<1> QED BY <1>1, <1>4, <1>5, OneCall

LEMMA ReplySseStep ==
  ASSUME CallsInv, TrailKept, NEW c \in Calls, NEW i \in Said, ReplySse(c, i)
  PROVE  CallsInv'
<1>1. PICK a \in {"nothing", "info", "rejected"} : a = Answer(i)
  BY AnswerValues
<1>2. PICK r \in CallRecords : r = [at |-> "done", said |-> i, result |-> a, told |-> "accepted"]
  BY DEF CallRecords, CallPlaces, Answers
<1>3. /\ call' = [call EXCEPT ![c] = r] /\ call[c].at = "idle" /\ i.via \in Sessions
      /\ effects' = effects /\ reviews' = reviews
      /\ sess' = sess \/ sess' = [sess EXCEPT ![i.via].queue = Append(@, c)]
  BY <1>1, <1>2 DEF ReplySse, Put, Ready
<1>4. call \in [Calls -> CallRecords] /\ c \notin effects
  BY <1>3 DEF CallsInv, CallsType, CallRecords, CallFair, NotRunYet
<1>5. call' \in [Calls -> CallRecords] /\ call'[c] = r /\ \A b \in Calls \ {c} : call'[b] = call[b]
  BY <1>3, <1>4
<1>6. CallFair(c)'
  BY <1>2, <1>3, <1>4, <1>5 DEF CallFair, NotRunYet, EffectFair, AnswerFair, Decisions
<1>7. Waiting(i.via, c)'
  <2>1. r.at = "done" /\ r.said = i /\ r.result = a /\ a \notin Decisions
    BY <1>2 DEF Decisions
  <2> QED BY <1>5, <2>1 DEF Waiting
<1> QED BY <1>3, <1>5, <1>6, <1>7, OneCall

-----------------------------------------------------------------------------
\* The decision and the handler.

\* What decide_tool_call allows is within the caller's capability, valid and not
\* HIGH.
LEMMA AllowedMeans ==
  ASSUME NEW i
  PROVE  /\ Decided(i) \in {"ALLOW", "BLOCK", "REVIEW"}
         /\ Decided(i) = "ALLOW" => /\ ToolSpecs[i.tool].risk # "HIGH"
                                    /\ HasAccess(i) /\ ValidArguments(i)
  BY DEF Decided, DecideToolCall

LEMMA DecideStep ==
  ASSUME CallsInv, TrailKept, NEW c \in Calls, NEW i \in Said, Decide(c, i)
  PROVE  CallsInv'
<1>1. PICK d \in {"ALLOW", "BLOCK", "REVIEW"} : d = Decided(i)
  BY AllowedMeans
<1>2. PICK at \in {"run", "line"}, result \in {"none", "BLOCK", "REVIEW"} :
        /\ at = IF d = "ALLOW" THEN "run" ELSE "line"
        /\ call' = [call EXCEPT ![c].at = at, ![c].said = i, ![c].result = result]
        /\ call[c].at = "idle" /\ effects' = effects /\ reviews' = reviews /\ sess' = sess
  <2>1. PICK at \in {"run", "line"} : at = IF d = "ALLOW" THEN "run" ELSE "line"
    OBVIOUS
  <2>2. PICK result \in {"none", "BLOCK", "REVIEW"} : result = IF d = "ALLOW" THEN "none" ELSE d
    OBVIOUS
  <2> QED BY <1>1, <2>1, <2>2 DEF Decide, Ready, Untouched
<1>3. /\ call \in [Calls -> CallRecords] /\ c \notin effects
      /\ call[c].told = "nothing"
  BY <1>2 DEF CallsInv, CallsType, CallRecords, CallFair, NotRunYet
<1>4. /\ call' \in [Calls -> CallRecords]
      /\ \A b \in Calls \ {c} : call'[b] = call[b]
      /\ call'[c].told = "nothing" /\ call'[c].said = i
      /\ call'[c].at = at
  <2>1. PICK old \in CallRecords : old = call[c]
    BY <1>3
  <2>2. PICK new : new = [old EXCEPT !.at = at, !.said = i, !.result = result]
    OBVIOUS
  <2>3. /\ new \in CallRecords
        /\ new.at = at /\ new.said = i /\ new.told = old.told
    BY <2>2 DEF CallRecords, CallPlaces, Answers
  <2>4. call' = [call EXCEPT ![c] = new]
    BY <1>2, <1>3, <2>1, <2>2
  <2> QED BY <1>3, <2>1, <2>3, <2>4
<1>5. NotRunYet(c)'
  <2>1. call'[c].at = "run" => Decided(call'[c].said) = "ALLOW"
    BY <1>1, <1>2, <1>4
  <2> QED BY <1>2, <1>3, <1>4, <2>1 DEF NotRunYet
<1>6. EffectFair(c)' /\ AnswerFair(c)'
  BY <1>2, <1>3, <1>4 DEF EffectFair, AnswerFair, Decisions
<1> QED BY <1>2, <1>4, <1>5, <1>6, OneCall DEF CallFair

LEMMA RunStep ==
  ASSUME CallsInv, TrailKept, NEW c \in Calls, RunHandler(c)
  PROVE  CallsInv'
<1>1. PICK result \in {"output", "error in tool"} :
        call' = [call EXCEPT ![c].at = "line", ![c].result = result]
  BY DEF RunHandler
<1>2. /\ call[c].at = "run" /\ effects' \in {effects, effects \union {c}}
      /\ reviews' = reviews /\ sess' = sess
  BY DEF RunHandler
<1>3. /\ call \in [Calls -> CallRecords]
      /\ call[c].told = "nothing" /\ Decided(call[c].said) = "ALLOW"
  BY <1>2 DEF CallsInv, CallsType, CallRecords, CallFair, NotRunYet
<1>4. /\ call' \in [Calls -> CallRecords]
      /\ \A b \in Calls \ {c} : call'[b] = call[b]
      /\ call'[c].told = "nothing" /\ call'[c].said = call[c].said
      /\ call'[c].at = "line" /\ call'[c].result = result
  BY <1>1, <1>3 DEF CallRecords, CallPlaces, Answers
<1>5. PICK i : i = call[c].said
  OBVIOUS
<1>6. /\ ToolSpecs[i.tool].risk # "HIGH"
      /\ HasAccess(i) /\ ValidArguments(i)
  BY <1>3, <1>5, AllowedMeans
<1>7. CallFair(c)'
  BY <1>2, <1>4, <1>5, <1>6 DEF CallFair, NotRunYet, EffectFair, AnswerFair, Decisions, NoEffect
<1> QED BY <1>2, <1>4, <1>7, OneCall
-----------------------------------------------------------------------------
\* The record and the answer.

\* A call whose handler is behind it is at a place, and its client told something.
NowAt(c, at, what) ==
    /\ call' \in [Calls -> CallRecords]
    /\ \A b \in Calls \ {c} : call'[b] = call[b]
    /\ call'[c].said = call[c].said /\ call'[c].result = call[c].result
    /\ call'[c].at = at /\ call'[c].told = what

LEMMA NowAtMeans ==
  ASSUME CallsInv, NEW c \in Calls, NEW at \in CallPlaces, NEW what \in Answers
  PROVE  /\ call' = [call EXCEPT ![c].at = at] => NowAt(c, at, call[c].told)
         /\ call' = [call EXCEPT ![c].at = at, ![c].told = what] => NowAt(c, at, what)
<1>1. call \in [Calls -> CallRecords]
  BY DEF CallsInv, CallsType, CallRecords
<1>2. PICK old \in CallRecords : old = call[c]
  BY <1>1
<1>3. PICK new : new = [old EXCEPT !.at = at]
  OBVIOUS
<1>4. PICK new2 : new2 = [old EXCEPT !.at = at, !.told = what]
  OBVIOUS
<1>5. /\ new \in CallRecords /\ new.at = at
      /\ new.said = old.said /\ new.result = old.result /\ new.told = old.told
  BY <1>3 DEF CallRecords
<1>6. /\ new2 \in CallRecords /\ new2.at = at
      /\ new2.said = old.said /\ new2.result = old.result /\ new2.told = what
  BY <1>4 DEF CallRecords
<1>7. call' = [call EXCEPT ![c].at = at] => call' = [call EXCEPT ![c] = new]
  BY <1>1, <1>2, <1>3
<1>8. call' = [call EXCEPT ![c].at = at, ![c].told = what] => call' = [call EXCEPT ![c] = new2]
  BY <1>1, <1>2, <1>4
<1> QED BY <1>1, <1>2, <1>5, <1>6, <1>7, <1>8 DEF NowAt

LEMMA MoveOn ==
  ASSUME CallsInv, TrailKept, NEW c \in Calls, call[c].at \notin {"idle", "run", "done"},
         NEW at \in {"line", "mirror", "finish", "raised", "done"}, NEW what \in Answers,
         NowAt(c, at, what), at # "done" => what = "nothing",
         effects' = effects, reviews \subseteq reviews',
         what \in NoEffect => c \notin effects,
         what = "REVIEW" /\ call[c].said.via = "api" => c \in reviews',
         at = "finish" \/ what \in Decisions => HasRow(c)',
         \/ sess' = sess
         \/ \E s \in Sessions : sess' = [sess EXCEPT ![s].queue = Append(@, c)] /\ Waiting(s, c)'
  PROVE  CallsInv'
<1>1. NotRunYet(c)'
  BY DEF NowAt, NotRunYet
<1>2. EffectFair(c) /\ CallFair(c)
  BY DEF CallsInv, CallFair
<1>3. EffectFair(c)'
  BY <1>2 DEF NowAt, EffectFair
<1>4. AnswerFair(c)'
  BY DEF NowAt, AnswerFair
<1>5. CallFair(c)'
  BY <1>1, <1>3, <1>4 DEF CallFair
<1>6. call' \in [Calls -> CallRecords] /\ \A b \in Calls \ {c} : call'[b] = call[b]
  BY DEF NowAt
<1> QED BY <1>5, <1>6, OneCall

\* What is known of a call that has been decided.
LEMMA BehindIt ==
  ASSUME CallsInv, NEW c \in Calls
  PROVE  /\ call[c].at # "done" => call[c].told = "nothing"
         /\ call[c].result \in NoEffect => c \notin effects
         /\ call[c].at = "finish" => HasRow(c)
         /\ call[c].result \in Answers /\ call[c].told \in Answers
  BY DEF CallsInv, CallsType, CallFair, NotRunYet, EffectFair, AnswerFair

LEMMA RowKept ==
  ASSUME TrailKept, NEW c \in Calls, call'[c].said = call[c].said, HasRow(c)
  PROVE  HasRow(c)'
  BY DEF HasRow, TrailKept

LEMMA LogStep ==
  ASSUME CallsInv, TrailKept, NEW c \in Calls, LogLine(c)
  PROVE  CallsInv'
<1>1. PICK at \in {"mirror", "finish"} :
        /\ at = IF setting.enabled THEN "mirror" ELSE "finish"
        /\ call' = [call EXCEPT ![c].at = at]
  BY DEF LogLine
<1>2. /\ call[c].at = "line" /\ effects' = effects /\ reviews' = reviews /\ sess' = sess
      /\ call[c].told = "nothing"
  BY BehindIt DEF LogLine
<1>3. NowAt(c, at, "nothing")
  BY <1>1, <1>2, NowAtMeans DEF CallPlaces, Answers
<1>4. at = "finish" => HasRow(c)'
  BY <1>1 DEF HasRow, TrailKept
<1> QED BY <1>2, <1>3, <1>4, MoveOn DEF Answers, NoEffect, Decisions

LEMMA MirrorStep ==
  ASSUME CallsInv, TrailKept, TrailType, NEW c \in Calls, MirrorRow(c) \/ MirrorFails(c)
  PROVE  CallsInv'
<1>1. /\ call[c].at = "mirror" /\ effects' = effects /\ reviews' = reviews /\ sess' = sess
      /\ call[c].told = "nothing" /\ call[c].said \in Said
  BY BehindIt DEF MirrorRow, MirrorFails, Untouched, CallsInv, CallsType
<1>2. PICK at \in {"finish", "raised"} :
        /\ call' = [call EXCEPT ![c].at = at]
        /\ MirrorFails(c) => at = IF MirrorRaises THEN "raised" ELSE "finish"
  BY DEF MirrorRow, MirrorFails
<1>3. NowAt(c, at, "nothing")
  BY <1>1, <1>2, NowAtMeans DEF CallPlaces, Answers
<1>4. at = "finish" => HasRow(c)'
  <2>1. CASE MirrorRow(c)
    <3>1. PICK rec : rec = ToolEvent(c, call[c].said.tenant)
      OBVIOUS
    <3>2. rec \in Records
      BY <1>1, <3>1 DEF Records, Events
    <3>3. db' = Append(db, rec)
      BY <2>1, <3>1 DEF MirrorRow, WriteRow
    <3>4. rec \in ToSet(db')
      BY <3>2, <3>3, Grows DEF TrailType
    <3> QED BY <1>3, <3>1, <3>4 DEF HasRow, NowAt
  <2>2. CASE MirrorFails(c)
    BY <1>2, <2>2 DEF MirrorRaises, HasRow, TrailKept
  <2> QED BY <2>1, <2>2
<1> QED BY <1>1, <1>3, <1>4, MoveOn DEF Answers, NoEffect, Decisions

LEMMA FinishApiStep ==
  ASSUME CallsInv, TrailKept, NEW c \in Calls, FinishApi(c)
  PROVE  CallsInv'
<1>1. call[c].at = "finish" /\ effects' = effects /\ sess' = sess /\ reviews \subseteq reviews'
  BY DEF FinishApi
<1>2. PICK what \in Answers :
        /\ call' = [call EXCEPT ![c].at = "done", ![c].told = what]
        /\ what = call[c].result \/ what = "failure"
        /\ what = "REVIEW" => c \in reviews'
  <2>1. CASE call[c].result = "REVIEW"
    BY <2>1 DEF FinishApi, Tell, Answers
  <2>2. CASE call[c].result # "REVIEW"
    BY <2>2, BehindIt DEF FinishApi, Tell
  <2> QED BY <2>1, <2>2
<1>3. NowAt(c, "done", what)
  BY <1>2, NowAtMeans DEF CallPlaces
<1>4. HasRow(c)'
  BY <1>1, <1>3, BehindIt, RowKept DEF NowAt
<1>5. what \in NoEffect => c \notin effects
  BY <1>2, BehindIt DEF NoEffect
<1> QED BY <1>1, <1>2, <1>3, <1>4, <1>5, MoveOn

LEMMA FinishRpcStep ==
  ASSUME CallsInv, TrailKept, NEW c \in Calls, FinishRpc(c)
  PROVE  CallsInv'
<1>1. /\ call[c].at = "finish" /\ effects' = effects /\ sess' = sess /\ reviews' = reviews
      /\ call[c].said.via # "api"
  BY DEF FinishRpc, Untouched
<1>2. PICK what \in Answers :
        /\ call' = [call EXCEPT ![c].at = "done", ![c].told = what]
        /\ what = call[c].result \/ what = "nothing"
  <2>1. PICK what : what = IF call[c].said.id THEN call[c].result ELSE "nothing"
    OBVIOUS
  <2>2. what \in Answers /\ (what = call[c].result \/ what = "nothing")
    BY <2>1, BehindIt DEF Answers
  <2> QED BY <2>1, <2>2 DEF FinishRpc, Tell
<1>3. NowAt(c, "done", what)
  BY <1>2, NowAtMeans DEF CallPlaces
<1>4. HasRow(c)'
  BY <1>1, <1>3, BehindIt, RowKept DEF NowAt
<1>5. what \in NoEffect => c \notin effects
  BY <1>2, BehindIt DEF NoEffect
<1> QED BY <1>1, <1>2, <1>3, <1>4, <1>5, MoveOn

LEMMA FinishSseStep ==
  ASSUME CallsInv, TrailKept, NEW c \in Calls, FinishSse(c)
  PROVE  CallsInv'
<1>1. /\ call[c].at = "finish" /\ effects' = effects /\ reviews' = reviews
      /\ call[c].said.via \in Sessions
      /\ call' = [call EXCEPT ![c].at = "done", ![c].told = "accepted"]
      /\ sess' = sess \/ sess' = [sess EXCEPT ![call[c].said.via].queue = Append(@, c)]
  BY DEF FinishSse, Tell, Put
<1>2. NowAt(c, "done", "accepted")
  BY <1>1, NowAtMeans DEF CallPlaces, Answers
<1>3. HasRow(c)'
  BY <1>1, <1>2, BehindIt, RowKept DEF NowAt
<1>4. PICK s \in Sessions : s = call[c].said.via
  BY <1>1
<1>5. Waiting(s, c)'
  BY <1>2, <1>3, <1>4 DEF Waiting, NowAt
<1>6. sess' = sess \/ sess' = [sess EXCEPT ![s].queue = Append(@, c)]
  BY <1>1, <1>4
<1> QED BY <1>1, <1>2, <1>3, <1>5, <1>6, MoveOn DEF Answers, NoEffect, Decisions

LEMMA FailStep ==
  ASSUME CallsInv, TrailKept, NEW c \in Calls, Fail(c)
  PROVE  CallsInv'
<1>1. /\ call[c].at = "raised" /\ effects' = effects /\ sess' = sess /\ reviews' = reviews
  BY DEF Fail, Untouched
<1>2. PICK what \in {"nothing", "failure"} : call' = [call EXCEPT ![c].at = "done", ![c].told = what]
  BY DEF Fail, Tell
<1>3. NowAt(c, "done", what)
  BY <1>2, NowAtMeans DEF CallPlaces, Answers
<1> QED BY <1>1, <1>3, MoveOn DEF Answers, NoEffect, Decisions
-----------------------------------------------------------------------------
\* Crashes and streams, which add nothing to a queue.

LEMMA NothingQueued ==
  ASSUME CallsInv, TrailKept,
         call' \in [Calls -> CallRecords], \A c \in Calls : CallFair(c)',
         \A c \in Calls : /\ call'[c].said = call[c].said /\ call'[c].result = call[c].result
                          /\ call[c].at = "done" => call'[c].at = "done",
         sess' \in [Sessions -> Streams],
         \A s \in Sessions : ToSet(sess'[s].queue) \subseteq ToSet(sess[s].queue)
  PROVE  CallsInv'
<1>1. ASSUME NEW s \in Sessions, NEW c \in ToSet(sess'[s].queue) PROVE Waiting(s, c)'
  <2>1. c \in ToSet(sess[s].queue) /\ sess[s].queue \in Seq(Calls)
    BY DEF CallsInv, CallsType
  <2>2. c \in Calls
    BY <2>1 DEF ToSet
  <2>3. Waiting(s, c)
    BY <2>1 DEF CallsInv
  <2> QED BY <2>2, <2>3, WaitingKept DEF Waiting
<1> QED BY <1>1 DEF CallsInv, CallsType, CallRecords, Streams

LEMMA CrashStep ==
  ASSUME CallsInv, TrailKept, NEW v \in Servers, Crash(v)
  PROVE  CallsInv'
<1>1. /\ call \in [Calls -> CallRecords] /\ sess \in [Sessions -> Streams]
      /\ effects' = effects /\ reviews' = reviews
      /\ sess' = sess \/ sess' = [s \in Sessions |-> NoStream]
  BY DEF CallsInv, CallsType, CallRecords, Streams, Crash
<1>2. /\ call' \in [Calls -> CallRecords]
      /\ \A c \in Calls : /\ call'[c].said = call[c].said /\ call'[c].result = call[c].result
                          /\ call'[c].told = call[c].told
                          /\ call'[c].at = "done" \/ call'[c] = call[c]
  <2>1. call' = [c \in Calls |-> IF busy[v] = c THEN [call[c] EXCEPT !.at = "done"] ELSE call[c]]
    BY DEF Crash
  <2>2. \A r \in CallRecords : LET n == [r EXCEPT !.at = "done"] IN
          /\ n \in CallRecords
          /\ n.said = r.said /\ n.result = r.result /\ n.told = r.told /\ n.at = "done"
    BY DEF CallRecords, CallPlaces
  <2>3. ASSUME NEW c \in Calls
        PROVE  /\ call'[c] \in CallRecords
               /\ call'[c].said = call[c].said /\ call'[c].result = call[c].result
               /\ call'[c].told = call[c].told
               /\ call'[c].at = "done" \/ call'[c] = call[c]
    <3>1. CASE busy[v] = c
      BY <1>1, <2>1, <2>2, <3>1
    <3>2. CASE busy[v] # c
      BY <1>1, <2>1, <3>2
    <3> QED BY <3>1, <3>2
  <2> QED BY <2>1, <2>3
<1>3. ASSUME NEW c \in Calls PROVE CallFair(c)'
  <2>1. CASE call'[c] = call[c]
    BY <1>1, <2>1, FairKept DEF CallsInv
  <2>2. CASE call'[c].at = "done"
    <3>1. CallFair(c)
      BY DEF CallsInv
    <3>2. NotRunYet(c)'
      BY <2>2 DEF NotRunYet
    <3>3. EffectFair(c)'
      BY <1>1, <1>2, <3>1 DEF CallFair, EffectFair
    <3>4. AnswerFair(c)'
      BY <1>1, <1>2, <2>2, <3>1, RowKept DEF CallFair, AnswerFair
    <3> QED BY <3>2, <3>3, <3>4 DEF CallFair
  <2> QED BY <1>2, <2>1, <2>2
<1>4. /\ sess' \in [Sessions -> Streams]
      /\ \A s \in Sessions : ToSet(sess'[s].queue) \subseteq ToSet(sess[s].queue)
  <2>1. NoStream \in Streams /\ ToSet(NoStream.queue) = {}
    BY DEF NoStream, Streams, ToSet
  <2> QED BY <1>1, <2>1
<1> QED BY <1>2, <1>3, <1>4, NothingQueued

\* The calls stay; a session moves on, keeping its queue, or ends.
LEMMA StreamOnly ==
  ASSUME CallsInv, TrailKept, call' = call, effects' = effects, reviews' = reviews,
         sess' \in [Sessions -> Streams],
         \A s \in Sessions : sess'[s].queue = sess[s].queue \/ sess'[s].queue = <<>>
  PROVE  CallsInv'
<1>1. call \in [Calls -> CallRecords]
  BY DEF CallsInv, CallsType, CallRecords
<1>2. \A c \in Calls : CallFair(c)'
  BY FairKept DEF CallsInv
<1>3. \A s \in Sessions : ToSet(sess'[s].queue) \subseteq ToSet(sess[s].queue)
  BY DEF ToSet
<1> QED BY <1>1, <1>2, <1>3, NothingQueued

LEMMA SessionStep ==
  ASSUME CallsInv, TrailKept, NEW s \in Sessions,
         Connect(s) \/ StartStream(s) \/ Await(s) \/ CloseStream(s) \/ Ping(s)
  PROVE  CallsInv'
<1>1. call' = call /\ effects' = effects /\ reviews' = reviews
  BY DEF Connect, StartStream, Await, CloseStream, Ping, SessKeeps
<1>2. sess \in [Sessions -> Streams]
  BY DEF CallsInv, CallsType, Streams
<1>3. PICK new \in Streams : /\ sess' = [sess EXCEPT ![s] = new]
                             /\ new.queue = sess[s].queue \/ new.queue = <<>>
  <2>1. PICK old \in Streams : old = sess[s]
    BY <1>2
  <2>2. \A at \in {"none", "registered", "loop", "wait"} : LET n == [old EXCEPT !.at = at] IN
          n \in Streams /\ n.queue = old.queue /\ [sess EXCEPT ![s].at = at] = [sess EXCEPT ![s] = n]
    BY <1>2, <2>1 DEF Streams
  <2>3. /\ NoStream \in Streams /\ NoStream.queue = <<>>
    BY DEF NoStream, Streams
  <2>4. PICK new : new = [NoStream EXCEPT !.at = "registered"]
    OBVIOUS
  <2>5. new \in Streams /\ new.queue = <<>>
    <3>1. PICK none \in Streams : none = NoStream /\ none.queue = <<>>
      BY <2>3
    <3>2. new = [none EXCEPT !.at = "registered"]
      BY <2>4, <3>1
    <3> QED BY <3>1, <3>2 DEF Streams
  <2> QED BY <2>1, <2>2, <2>3, <2>4, <2>5 DEF Connect, StartStream, Await, CloseStream, Ping
<1>4. /\ sess' \in [Sessions -> Streams]
      /\ \A x \in Sessions : sess'[x].queue = sess[x].queue \/ sess'[x].queue = <<>>
  BY <1>2, <1>3
<1> QED BY <1>1, <1>4, StreamOnly

LEMMA TickStep ==
  ASSUME CallsInv, TrailKept, Tick
  PROVE  CallsInv'
<1>1. call' = call /\ effects' = effects /\ reviews' = reviews
  BY DEF Tick, SessKeeps
<1>2. sess \in [Sessions -> Streams]
  BY DEF CallsInv, CallsType, Streams
<1>3. sess' = [s \in Sessions |-> IF sess[s].at # "none" /\ sess[s].age <= Lifetime
                                  THEN [sess[s] EXCEPT !.age = @ + 1] ELSE sess[s]]
  BY DEF Tick
<1>4. \A r \in Streams : [r EXCEPT !.age = @ + 1] \in Streams /\ [r EXCEPT !.age = @ + 1].queue = r.queue
  BY DEF Streams
<1>5. ASSUME NEW s \in Sessions PROVE sess'[s] \in Streams /\ sess'[s].queue = sess[s].queue
  BY <1>2, <1>3, <1>4
<1>6. sess' \in [Sessions -> Streams] /\ \A s \in Sessions : sess'[s].queue = sess[s].queue
  BY <1>3, <1>5
<1> QED BY <1>1, <1>6, StreamOnly

\* A result is told by the stream it was queued for: no result that a call over
\* the API would have to be queued for review for.
LEMMA DeliverStep ==
  ASSUME CallsInv, TrailKept, NEW s \in Sessions, Deliver(s)
  PROVE  CallsInv'
<1>1. sess \in [Sessions -> Streams] /\ call \in [Calls -> CallRecords]
  BY DEF CallsInv, CallsType, Streams, CallRecords
<1>2. PICK old \in Streams : old = sess[s]
  BY <1>1
<1>3. PICK q \in Seq(Calls) : q = old.queue /\ q # <<>>
  BY <1>2 DEF Streams, Deliver
<1>4. PICK c \in Calls : c = Head(q) /\ c \in ToSet(q)
  <2>1. Head(q) = q[1] /\ 1 \in DOMAIN q /\ q[1] \in Calls
    BY <1>3
  <2> QED BY <2>1 DEF ToSet
<1>5. Waiting(s, c)
  BY <1>2, <1>3, <1>4 DEF CallsInv
<1>6. PICK rest \in Seq(Calls) : rest = Tail(q) /\ ToSet(rest) \subseteq ToSet(q)
  <2>1. /\ Tail(q) \in Seq(Calls)
        /\ \A n \in DOMAIN Tail(q) : n + 1 \in DOMAIN q /\ Tail(q)[n] = q[n + 1]
    BY <1>3
  <2> QED BY <2>1 DEF ToSet
<1>7. /\ sess' \in [Sessions -> Streams]
      /\ \A x \in Sessions : ToSet(sess'[x].queue) \subseteq ToSet(sess[x].queue)
  <2>1. PICK new : new = [old EXCEPT !.at = "loop", !.queue = rest]
    OBVIOUS
  <2>2. new \in Streams /\ new.queue = rest
    BY <2>1 DEF Streams
  <2>3. sess' = [sess EXCEPT ![s].at = "loop", ![s].queue = rest]
    BY <1>2, <1>3, <1>6 DEF Deliver
  <2>4. sess' = [sess EXCEPT ![s] = new]
    BY <1>1, <1>2, <2>1, <2>3
  <2> QED BY <1>1, <1>2, <1>3, <1>6, <2>2, <2>4
<1>8. effects' = effects /\ reviews' = reviews /\ call' \in {call, [call EXCEPT ![c].told = call[c].result]}
  BY <1>2, <1>3, <1>4 DEF Deliver, SessKeeps
<1>9. /\ call' \in [Calls -> CallRecords]
      /\ \A b \in Calls \ {c} : call'[b] = call[b]
      /\ call'[c].at = call[c].at /\ call'[c].said = call[c].said /\ call'[c].result = call[c].result
      /\ call'[c].told \in {call[c].told, call[c].result}
  BY <1>1, <1>8 DEF CallRecords
<1>10. ASSUME NEW b \in Calls PROVE CallFair(b)'
  <2>1. CallFair(b)
    BY DEF CallsInv
  <2>2. CASE b # c
    BY <1>8, <1>9, <2>1, <2>2, FairKept
  <2>3. CASE b = c
    <3>1. call[c].at = "done" /\ call[c].said.via \in Sessions /\ (call[c].result \in Decisions => HasRow(c))
      BY <1>5 DEF Waiting
    <3>2. call[c].said.via # "api"
      BY <3>1, ToolAssumption
    <3>3. NotRunYet(c)'
      BY <1>9, <3>1 DEF NotRunYet
    <3>4. EffectFair(c)'
      BY <1>8, <1>9, <2>1, <2>3 DEF CallFair, EffectFair
    <3>5. AnswerFair(c)'
      BY <1>9, <2>1, <2>3, <3>1, <3>2, RowKept DEF CallFair, AnswerFair
    <3> QED BY <2>3, <3>3, <3>4, <3>5 DEF CallFair
  <2> QED BY <2>2, <2>3
<1> QED BY <1>7, <1>9, <1>10, NothingQueued
-----------------------------------------------------------------------------
\* The whole.

LEMMA MovesTheTrail ==
  ASSUME ToolInv, [Next]_vars
  PROVE  TrailMove
<1>1. ASSUME NEW c \in Calls, Work(c) PROVE TrailMove
  <2>1. ToolEvent(c, call[c].said.tenant) \in Records
    BY DEF ToolInv, CallsInv, CallsType, Records, Events
  <2>2. LogLine(c) \/ MirrorRow(c) => TrailMove
    BY <2>1 DEF LogLine, MirrorRow, TrailMove
  <2>3. CASE UNCHANGED audit
    BY <2>3 DEF TrailMove
  <2> QED
    BY <1>1, <2>2, <2>3
       DEF Work, RunHandler, MirrorFails, FinishApi, FinishRpc, FinishSse, Fail, Untouched
<1>2. ASSUME NEW c \in Calls, NEW i \in Inputs[setting], Message(c, i) PROVE UNCHANGED audit
  BY <1>2 DEF Message, Reject, Refuse, Reply, ReplySse, Decide, Say, Untouched
<1>3. ASSUME NEW s \in Sessions, Connect(s) \/ StartStream(s) \/ Stream(s) PROVE UNCHANGED audit
  BY <1>3 DEF Connect, StartStream, Stream, Await, CloseStream, Deliver, Ping, SessKeeps
<1>4. ASSUME NEW v \in Servers, Crash(v) PROVE UNCHANGED audit
  BY <1>4 DEF Crash
<1>5. Tick \/ UNCHANGED vars => UNCHANGED audit
  BY DEF Tick, SessKeeps, vars
<1> QED BY <1>1, <1>2, <1>3, <1>4, <1>5 DEF Next, TrailMove

LEMMA MessageStep ==
  ASSUME CallsInv, TrailKept, NEW c \in Calls, NEW i \in Said, Message(c, i)
  PROVE  CallsInv'
<1>1. CASE Reject(c, i)
  BY <1>1, SayStep DEF Reject, Ready, Answers, Decisions
<1>2. CASE Refuse(c, i)
  BY <1>2, SayStep DEF Refuse, Ready, Answers, Decisions
<1>3. CASE Reply(c, i)
  <2>1. PICK a \in {"nothing", "info", "rejected"} : a = Answer(i)
    BY AnswerValues
  <2> QED BY <1>3, <2>1, SayStep DEF Reply, Ready, Answers, Decisions
<1> QED BY <1>1, <1>2, <1>3, ReplySseStep, DecideStep DEF Message

LEMMA WorkStep ==
  ASSUME CallsInv, TrailKept, TrailType, NEW c \in Calls, Work(c)
  PROVE  CallsInv'
  BY RunStep, LogStep, MirrorStep, FinishApiStep, FinishRpcStep, FinishSseStep, FailStep DEF Work

LEMMA SameCalls ==
  ASSUME CallsInv, TrailKept, UNCHANGED <<call, effects, reviews, sess>>
  PROVE  CallsInv'
<1>1. sess \in [Sessions -> Streams]
  BY DEF CallsInv, CallsType, Streams
<1> QED BY <1>1, StreamOnly

LEMMA ToolInvariant == Spec => []ToolInv
<1>1. Init => ToolInv
  BY TrailStarts, CallsStart DEF ToolInv
<1>2. ToolInv /\ [Next]_vars => ToolInv'
  <2> SUFFICES ASSUME ToolInv, [Next]_vars PROVE ToolInv'
    OBVIOUS
  <2>1. /\ TrailInv' /\ TrailKept
    BY MovesTheTrail, TrailStep DEF ToolInv, TrailKept
  <2>2. CallsInv /\ TrailType
    BY DEF ToolInv, TrailInv
  <2>3. ASSUME NEW v \in Servers, Crash(v) PROVE CallsInv'
    BY <2>1, <2>2, <2>3, CrashStep
  <2>4. ASSUME NEW c \in Calls, Work(c) PROVE CallsInv'
    BY <2>1, <2>2, <2>4, WorkStep
  <2>5. ASSUME NEW c \in Calls, NEW i \in Inputs[setting], Message(c, i) PROVE CallsInv'
    <3>1. i \in Said
      BY <2>2, SaidType DEF TrailType
    <3> QED BY <2>1, <2>2, <2>5, <3>1, MessageStep
  <2>6. ASSUME NEW s \in Sessions, Connect(s) \/ StartStream(s) \/ Stream(s) PROVE CallsInv'
    BY <2>1, <2>2, <2>6, SessionStep, DeliverStep DEF Stream
  <2>7. Tick => CallsInv'
    BY <2>1, <2>2, TickStep
  <2>8. UNCHANGED <<call, effects, reviews, sess>> => CallsInv'
    BY <2>1, <2>2, SameCalls
  <2>9. CallsInv'
    BY <2>3, <2>4, <2>5, <2>6, <2>7, <2>8 DEF Next, vars
  <2> QED BY <2>1, <2>9 DEF ToolInv
<1> QED BY <1>1, <1>2, PTL DEF Spec

\* No client is told that its call was blocked, waits for a reviewer or was
\* refused when a tool ran for it, over any transport; and no tool runs beyond its
\* caller's capability, with invalid arguments or at HIGH risk.
THEOREM ClientsAreToldTheTruth == Spec => []ToldIsTrue
<1>1. ToolInv => ToldIsTrue
  BY DEF ToolInv, CallsInv, CallFair, EffectFair, AnswerFair, NoEffect, ToldIsTrue
<1> QED BY <1>1, ToolInvariant, PTL

\* Where SQLite is what readers read, whoever is served a decision finds its call
\* in the audit trail, in the scope of its own tenant.
THEOREM DecisionsAreTraceable == Spec => []AnsweredIsTraceable
<1>1. ToolInv => AnsweredIsTraceable
  BY DEF ToolInv, CallsInv, CallFair, AnswerFair, HasRow, AnsweredIsTraceable, SqliteTrace,
         Matches, ToolEvent
<1> QED BY <1>1, ToolInvariant, PTL

\* No migration passes over a line that has no row, however often it is stopped
\* and started while the processes write.
THEOREM MigrationsAreComplete == Spec => []MigrationSkipsNothing
<1>1. ToolInv => MigrationSkipsNothing
  BY DEF ToolInv, TrailInv, KnownHaveRows, MigrationSkipsNothing
<1> QED BY <1>1, ToolInvariant, PTL

-----------------------------------------------------------------------------
\* Reading.  What a reader is shown has passed the filter, chunks or no chunks.

LEMMA FeedsAreFiltered ==
  ASSUME NEW limit, NEW scope, NEW shown \in Feeds(limit, scope), NEW r \in shown
  PROVE  Matches(r, scope)
<1>1. \A S, n : NewestOf(S, n) \subseteq S
  BY DEF NewestOf
<1>2. \A S : \A i \in Kept(S, scope) : Matches(jsonl[i], scope)
  BY DEF Kept
<1>3. CASE shown = JsonlFeed(limit, scope)
  <2>1. PICK S, T, U : /\ JsonlFeed(limit, scope) = Lines(NewestOf(U, limit))
                       /\ U \subseteq Kept(S, scope) \union Kept(T, scope)
    BY DEF JsonlFeed
  <2>2. PICK i \in U : r = jsonl[i]
    BY <1>1, <1>3, <2>1 DEF Lines
  <2> QED BY <1>2, <2>1, <2>2
<1>4. CASE shown = SqliteFeed(limit, scope)
  BY <1>1, <1>4 DEF SqliteFeed
<1> QED BY <1>3, <1>4 DEF Feeds

LEMMA TracesAreFiltered ==
  ASSUME NEW rid, NEW scope, NEW shown \in Traces(rid, scope), NEW r \in shown
  PROVE  Matches(r, scope)
<1>1. CASE shown = JsonlTrace(rid, scope)
  BY <1>1 DEF JsonlTrace, Lines, Kept
<1>2. CASE shown = SqliteTrace(rid, scope)
  BY <1>2 DEF SqliteTrace
<1> QED BY <1>1, <1>2 DEF Traces

\* Whatever the file and the database hold, and wherever the backward scan cuts
\* the file, a caller who is not INTERNAL sees its own tenant only.
THEOREM ReadersSeeTheirTenant == Spec => []ReadsStayInScope
<1>1. ReadsStayInScope
  <2> SUFFICES ASSUME NEW tenant \in Tenants, NEW limit \in 1..Chunk,
                      NEW cap \in {"GENERAL", "ELEVATED"},
                      NEW asked \in Tenants \union {Unset, Everyone},
                      NEW scope, scope = Scope(cap, tenant, asked),
                      NEW shown, NEW r \in shown,
                      \/ shown \in Feeds(limit, scope)
                      \/ \E x : shown \in Traces(x, scope)
               PROVE  r.tenant = tenant
    BY DEF ReadsStayInScope
  <2>1. scope = tenant /\ scope # Everyone
    BY AuditAssumption DEF Scope
  <2>2. Matches(r, scope)
    BY FeedsAreFiltered, TracesAreFiltered
  <2> QED BY <2>1, <2>2 DEF Matches
<1> QED BY <1>1, PTL
=============================================================================
