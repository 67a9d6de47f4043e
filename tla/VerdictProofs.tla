---------------------------- MODULE VerdictProofs ----------------------------
(***************************************************************************)
(* How the verdict of core/risk.py answers to evidence, for every          *)
(* threshold, guardrail mode and fusion policy, and what the pipeline that *)
(* computes, caches and serves it keeps for any number of requests,        *)
(* replicas, workers and prompts.                                          *)
(***************************************************************************)
EXTENDS RiskEvidence, VerdictPipeline, SequenceTheorems, TLAPS

\* t is at least as suspicious as u and differs from it in nothing else.
AtLeast(t, u) ==
    /\ t.rules = u.rules
    /\ u.hits \subseteq t.hits
    /\ t.meta >= u.meta
    /\ t.threat >= u.threat
    /\ t.fusionScore >= u.fusionScore
    /\ t.aligned = u.aligned
    /\ t.educational = u.educational
    /\ t.fusion = u.fusion
    /\ t.fusionHigh = u.fusionHigh
    /\ t.fusionMedium = u.fusionMedium

LEMMA RankOrder ==
  /\ Rank("LOW") = 0
  /\ Rank("MEDIUM") = 1
  /\ Rank("HIGH") = 2
  BY DEF Rank

\* A rule that is matched, or a list that is missing, is a veto.
LEMMA HardBanMeans ==
  ASSUME NEW u \in Signals
  PROVE  HardBanTriggered(u) <=> (~u.rules \/ u.hits # {})
  BY DEF HardBanTriggered, CheckSymbolicViolations, Signals, SymbolicLists

LEMMA ClearedValues ==
  ASSUME NEW b \in BOOLEAN
  PROVE  /\ Cleared(b) \in {"LOW", "MEDIUM"}
         /\ b => Cleared(b) = "MEDIUM"
         /\ Cleared(b) = "LOW" => ~b /\ JudgeMayClearToLow
  BY DEF Cleared

LEMMA ScoreTypes ==
  ASSUME NEW u \in Signals
  PROVE  /\ Score(u) \in Nat /\ Medium(u) \in Nat /\ High(u) \in Nat
         /\ ThreatPresent(u) \in BOOLEAN
  BY FusionAssumption DEF Signals, Score, Medium, High, ThreatPresent, InUpperAmbiguousBand

LEMMA CutShape ==
  ASSUME NEW sc \in Nat, NEW m \in Nat, NEW h \in Nat, NEW e \in BOOLEAN
  PROVE  /\ Cut(sc, m, h, e).risk \in Risks
         /\ Cut(sc, m, h, e).judge \in BOOLEAN
         /\ Cut(sc, m, h, e).judge => ~e /\ sc >= m /\ sc < h
<1>1. CASE sc >= h \/ sc < m \/ e
  BY <1>1 DEF Cut, Risks
<1>2. CASE ~(sc >= h \/ sc < m \/ e)
  BY <1>2 DEF Cut, Risks
<1> QED BY <1>1, <1>2

\* The ambiguous zone and what the deterministic stages say outside it.
LEMMA DeterministicShape ==
  ASSUME NEW u \in Signals
  PROVE  /\ Deterministic(u).risk \in Risks
         /\ Deterministic(u).judge \in BOOLEAN
         /\ Deterministic(u).judge =>
              /\ ~u.educational
              /\ Score(u) >= Medium(u) /\ Score(u) < High(u)
              /\ ~HardBanTriggered(u) /\ ~FastPathHigh(u)
<1>1. u.educational \in BOOLEAN
  BY DEF Signals
<1>2. LET c == Cut(Score(u), Medium(u), High(u), u.educational)
      IN  /\ c.risk \in Risks
          /\ c.judge \in BOOLEAN
          /\ c.judge => ~u.educational /\ Score(u) >= Medium(u) /\ Score(u) < High(u)
  BY <1>1, ScoreTypes, CutShape
<1> DEFINE HighRisk == [risk |-> "HIGH", judge |-> FALSE]
<1> DEFINE MediumRisk == [risk |-> "MEDIUM", judge |-> FALSE]
<1>3. \/ Deterministic(u) = HighRisk
      \/ Deterministic(u) = MediumRisk
      \/ /\ Deterministic(u) = Cut(Score(u), Medium(u), High(u), u.educational)
         /\ ~HardBanTriggered(u) /\ ~FastPathHigh(u)
  BY DEF Deterministic, FuseSignals
<1>4. /\ HighRisk.risk \in Risks /\ HighRisk.judge = FALSE
      /\ MediumRisk.risk \in Risks /\ MediumRisk.judge = FALSE
  BY DEF Risks
<1> QED
  BY <1>2, <1>3, <1>4

LEMMA JudgeValues ==
  ASSUME NEW v \in JudgeVerdicts, NEW b \in BOOLEAN
  PROVE  /\ JudgeArbitration(v, b) \in Risks
         /\ v = "SAFE" => JudgeArbitration(v, b) = Cleared(b)
         /\ v # "SAFE" => JudgeArbitration(v, b) = JudgeArbitration(v, TRUE)
         /\ v # "SAFE" => JudgeArbitration(v, b) \in {"MEDIUM", "HIGH"}
         /\ v = "JUDGE_OFFLINE" => JudgeArbitration(v, b) = "HIGH"
  BY ClearedValues DEF JudgeArbitration, JudgeVerdicts, Risks

LEMMA GuardValues ==
  ASSUME NEW v \in GuardVerdicts \ {"none"}, NEW b \in BOOLEAN
  PROVE  /\ LlamaGuardArbitration(v, b) \in Risks
         /\ v = "safe" => LlamaGuardArbitration(v, b) = Cleared(b)
         /\ v = "unsafe" => LlamaGuardArbitration(v, b) = "HIGH"
  BY ClearedValues DEF LlamaGuardArbitration, GuardVerdicts, Risks

-----------------------------------------------------------------------------
\* More evidence keeps the deterministic verdict or raises it, and a prompt
\* that moves within the ambiguous zone never loses the cap on a SAFE answer.
LEMMA DeterministicMonotone ==
  ASSUME NEW t \in Signals, NEW u \in Signals, AtLeast(t, u)
  PROVE  /\ ~Deterministic(u).judge /\ ~Deterministic(t).judge =>
              Rank(Deterministic(t).risk) >= Rank(Deterministic(u).risk)
         /\ Deterministic(u).judge /\ ~Deterministic(t).judge =>
              Deterministic(t).risk = "HIGH"
         /\ ~Deterministic(u).judge /\ Deterministic(t).judge =>
              Deterministic(u).risk = "LOW"
         /\ Deterministic(u).judge /\ Deterministic(t).judge =>
              (ThreatPresent(u) => ThreatPresent(t))
<1>1. HardBanTriggered(u) => HardBanTriggered(t)
  BY HardBanMeans DEF AtLeast, Signals
<1>2. FastPathHigh(u) => FastPathHigh(t)
  BY FusionAssumption DEF AtLeast, Signals, FastPathHigh
<1>3. /\ Score(t) >= Score(u) /\ Medium(t) = Medium(u) /\ High(t) = High(u)
      /\ ClassifyTopicality(t) = ClassifyTopicality(u)
      /\ t.educational = u.educational
  BY FusionAssumption DEF AtLeast, Signals, Score, Medium, High, ClassifyTopicality
<1>4. u.meta >= MetaThreshold => t.meta >= MetaThreshold
  BY FusionAssumption DEF AtLeast, Signals
<1>5. ThreatPresent(u) => ThreatPresent(t)
  BY <1>3, ScoreTypes DEF ThreatPresent, InUpperAmbiguousBand
<1>6. CASE HardBanTriggered(t) \/ FastPathHigh(t)
  <2>1. Deterministic(t) = [risk |-> "HIGH", judge |-> FALSE]
    BY <1>6 DEF Deterministic
  <2>2. Deterministic(u).risk \in Risks
    BY DeterministicShape
  <2> QED BY <2>1, <2>2, RankOrder DEF Risks
<1>7. CASE ~(HardBanTriggered(t) \/ FastPathHigh(t))
  <2>1. Deterministic(t) = FuseSignals(t) /\ Deterministic(u) = FuseSignals(u)
    BY <1>1, <1>2, <1>7 DEF Deterministic
  <2>2. ~(t.meta >= MetaThreshold) /\ ~(u.meta >= MetaThreshold)
    BY <1>4, <1>7 DEF FastPathHigh
  <2>3. CASE GuardrailMode = "enforcing" /\ ClassifyTopicality(u) = "OUT_OF_DOMAIN"
    BY <1>3, <2>1, <2>2, <2>3, RankOrder DEF FuseSignals
  <2>4. CASE ~(GuardrailMode = "enforcing" /\ ClassifyTopicality(u) = "OUT_OF_DOMAIN")
    <3>1. /\ Deterministic(t) = Cut(Score(t), Medium(u), High(u), u.educational)
          /\ Deterministic(u) = Cut(Score(u), Medium(u), High(u), u.educational)
      BY <1>3, <2>1, <2>2, <2>4 DEF FuseSignals
    <3>2. u.educational \in BOOLEAN
      BY DEF Signals
    <3> QED BY <1>3, <1>5, <3>1, <3>2, ScoreTypes, RankOrder DEF Cut
  <2> QED BY <2>3, <2>4
<1> QED BY <1>6, <1>7

LEMMA ClearedMonotone ==
  ASSUME NEW a \in BOOLEAN, NEW b \in BOOLEAN, a => b
  PROVE  Rank(Cleared(b)) >= Rank(Cleared(a))
  BY RankOrder DEF Cleared

\* The whole of stages 1 to 4, for a fixed answer of each arbiter.
LEMMA VerdictMonotone ==
  ASSUME NEW t \in Signals, NEW u \in Signals, AtLeast(t, u),
         NEW j \in JudgeVerdicts, NEW g \in GuardVerdicts
  PROVE  /\ Rank(AsyncVerdict(t, j)) >= Rank(AsyncVerdict(u, j))
         /\ Rank(SyncVerdict(t, g, j)) >= Rank(SyncVerdict(u, g, j))
<1>t. /\ ThreatPresent(t) \in BOOLEAN /\ ThreatPresent(u) \in BOOLEAN
      /\ Deterministic(t).risk \in Risks /\ Deterministic(u).risk \in Risks
      /\ Deterministic(t).judge \in BOOLEAN /\ Deterministic(u).judge \in BOOLEAN
  BY ScoreTypes, DeterministicShape
<1>r. \A x \in Risks : Rank(x) \in Nat /\ Rank(x) <= Rank("HIGH") /\ Rank("LOW") <= Rank(x)
  BY RankOrder DEF Risks
<1>1. ASSUME ThreatPresent(u) => ThreatPresent(t)
      PROVE  Rank(JudgeArbitration(j, ThreatPresent(t))) >= Rank(JudgeArbitration(j, ThreatPresent(u)))
  <2>1. CASE j = "SAFE"
    BY <1>1, <1>t, <2>1, JudgeValues, ClearedMonotone
  <2>2. CASE j # "SAFE"
    <3>1. JudgeArbitration(j, ThreatPresent(t)) = JudgeArbitration(j, ThreatPresent(u))
      BY <1>t, <2>2, JudgeValues
    <3>2. JudgeArbitration(j, ThreatPresent(u)) \in Risks
      BY <1>t, JudgeValues
    <3> QED BY <3>1, <3>2, <1>r
  <2> QED BY <2>1, <2>2
<1>2. ASSUME ThreatPresent(u) => ThreatPresent(t), g # "none"
      PROVE  Rank(LlamaGuardArbitration(g, ThreatPresent(t)))
               >= Rank(LlamaGuardArbitration(g, ThreatPresent(u)))
  <2>1. CASE g = "safe"
    BY <1>2, <1>t, <2>1, GuardValues, ClearedMonotone
  <2>2. CASE g # "safe"
    <3>1. g = "unsafe"
      BY <1>2, <2>2 DEF GuardVerdicts
    <3>2. /\ LlamaGuardArbitration(g, ThreatPresent(t)) = "HIGH"
          /\ LlamaGuardArbitration(g, ThreatPresent(u)) = "HIGH"
      BY <1>2, <1>t, <3>1, GuardValues
    <3> QED BY <3>2, RankOrder
  <2> QED BY <2>1, <2>2
<1>3. /\ JudgeArbitration(j, ThreatPresent(t)) \in Risks
      /\ JudgeArbitration(j, ThreatPresent(u)) \in Risks
      /\ g # "none" => /\ LlamaGuardArbitration(g, ThreatPresent(t)) \in Risks
                       /\ LlamaGuardArbitration(g, ThreatPresent(u)) \in Risks
  BY <1>t, JudgeValues, GuardValues
<1>4. CASE Deterministic(u).judge /\ Deterministic(t).judge
  <2>1. ThreatPresent(u) => ThreatPresent(t)
    BY <1>4, DeterministicMonotone
  <2> QED BY <1>1, <1>2, <1>4, <2>1 DEF AsyncVerdict, SyncVerdict
<1>5. CASE Deterministic(u).judge /\ ~Deterministic(t).judge
  <2>1. Deterministic(t).risk = "HIGH"
    BY <1>5, DeterministicMonotone
  <2>2. AsyncVerdict(t, j) = "HIGH" /\ SyncVerdict(t, g, j) = "HIGH"
    BY <1>5, <2>1 DEF AsyncVerdict, SyncVerdict
  <2>3. AsyncVerdict(u, j) \in Risks /\ SyncVerdict(u, g, j) \in Risks
    BY <1>3, <1>5 DEF AsyncVerdict, SyncVerdict
  <2> QED BY <1>r, <2>2, <2>3
<1>6. CASE ~Deterministic(u).judge /\ Deterministic(t).judge
  <2>1. Deterministic(u).risk = "LOW"
    BY <1>6, DeterministicMonotone
  <2>2. AsyncVerdict(u, j) = "LOW" /\ SyncVerdict(u, g, j) = "LOW"
    BY <1>6, <2>1 DEF AsyncVerdict, SyncVerdict
  <2>3. AsyncVerdict(t, j) \in Risks /\ SyncVerdict(t, g, j) \in Risks
    BY <1>3, <1>6 DEF AsyncVerdict, SyncVerdict
  <2> QED BY <1>r, <2>2, <2>3
<1>7. CASE ~Deterministic(u).judge /\ ~Deterministic(t).judge
  BY <1>7, DeterministicMonotone DEF AsyncVerdict, SyncVerdict
<1> QED BY <1>t, <1>4, <1>5, <1>6, <1>7

-----------------------------------------------------------------------------
LEMMA EvidenceType == EvidenceSpec => []EvidenceTypeOK
<1>1. EvidenceInit => EvidenceTypeOK
  BY EvidenceAssumption DEF EvidenceInit, EvidenceTypeOK, Signals
<1>2. EvidenceTypeOK /\ [EvidenceNext]_evidenceVars => EvidenceTypeOK'
  BY DEF EvidenceTypeOK, EvidenceNext, MatchRule, RaiseMeta, RaiseThreat, RaiseFusion, evidenceVars, Signals
<1> QED BY <1>1, <1>2, PTL DEF EvidenceSpec

\* Every step of RiskEvidence adds evidence.
LEMMA StepAdds ==
  ASSUME EvidenceTypeOK, [EvidenceNext]_evidenceVars
  PROVE  AtLeast(evidence', evidence) /\ judge' = judge /\ guard' = guard
  BY DEF EvidenceTypeOK, EvidenceNext, MatchRule, RaiseMeta, RaiseThreat, RaiseFusion, evidenceVars,
         Signals, AtLeast

\* More evidence never lowers a verdict.
THEOREM EvidenceNeverLowers == EvidenceSpec => Monotone
<1>1. EvidenceTypeOK /\ EvidenceTypeOK' /\ [EvidenceNext]_evidenceVars =>
        [/\ Rank(AsyncVerdict(evidence, judge)') >= Rank(AsyncVerdict(evidence, judge))
         /\ Rank(SyncVerdict(evidence, guard, judge)') >= Rank(SyncVerdict(evidence, guard, judge))]_evidenceVars
  BY StepAdds, VerdictMonotone DEF EvidenceTypeOK
<1> QED BY <1>1, EvidenceType, PTL DEF EvidenceSpec, Monotone

\* The upper half of the ambiguous band is never cleared to LOW.
THEOREM SuspicionSurvives == EvidenceSpec => []SuspicionIsKept
<1>1. EvidenceTypeOK => SuspicionIsKept
  <2> SUFFICES ASSUME EvidenceTypeOK, Score(evidence) >= Medium(evidence),
                      2 * Score(evidence) >= Medium(evidence) + High(evidence)
               PROVE  AsyncVerdict(evidence, judge) # "LOW" /\ SyncVerdict(evidence, guard, judge) # "LOW"
    BY DEF SuspicionIsKept
  <2> USE DEF EvidenceTypeOK
  <2>1. ThreatPresent(evidence)
    BY DEF ThreatPresent, InUpperAmbiguousBand
  <2>2. CASE Deterministic(evidence).judge
    BY <2>1, <2>2, JudgeValues, GuardValues, ClearedValues
       DEF AsyncVerdict, SyncVerdict, GuardVerdicts
  <2>3. CASE ~Deterministic(evidence).judge
    <3>1. Deterministic(evidence).risk # "LOW"
      BY ScoreTypes DEF Deterministic, FuseSignals, Cut
    <3> QED BY <2>3, <3>1 DEF AsyncVerdict, SyncVerdict
  <2>4. Deterministic(evidence).judge \in BOOLEAN
    BY DeterministicShape
  <2> QED BY <2>2, <2>3, <2>4
<1> QED BY <1>1, EvidenceType, PTL

\* A judge that is offline is at least as strict as one that answers.
THEOREM OutageNeverLenient == EvidenceSpec => []OutageIsStrictest
<1>1. EvidenceTypeOK => OutageIsStrictest
  <2> SUFFICES ASSUME EvidenceTypeOK, NEW answer \in JudgeVerdicts
               PROVE  /\ Rank(AsyncVerdict(evidence, "JUDGE_OFFLINE")) >= Rank(AsyncVerdict(evidence, answer))
                      /\ Rank(SyncVerdict(evidence, guard, "JUDGE_OFFLINE"))
                           >= Rank(SyncVerdict(evidence, guard, answer))
    BY DEF OutageIsStrictest
  <2> USE DEF EvidenceTypeOK
  <2>1. "JUDGE_OFFLINE" \in JudgeVerdicts /\ ThreatPresent(evidence) \in BOOLEAN
    BY ScoreTypes DEF JudgeVerdicts
  <2>2. /\ JudgeArbitration("JUDGE_OFFLINE", ThreatPresent(evidence)) = "HIGH"
        /\ JudgeArbitration(answer, ThreatPresent(evidence)) \in Risks
    BY <2>1, JudgeValues
  <2>3. \A x \in Risks : Rank("HIGH") >= Rank(x) /\ Rank(x) >= Rank(x)
    BY RankOrder DEF Risks
  <2>4. /\ Deterministic(evidence).risk \in Risks
        /\ guard # "none" => LlamaGuardArbitration(guard, ThreatPresent(evidence)) \in Risks
    BY <2>1, DeterministicShape, GuardValues
  <2> QED BY <2>2, <2>3, <2>4 DEF AsyncVerdict, SyncVerdict
<1> QED BY <1>1, EvidenceType, PTL

-----------------------------------------------------------------------------
\* What a request resolves to is in the sets it should be in.
LEMMA RequestTypes ==
  ASSUME TypeOK, NEW q \in Requests
  PROVE  /\ promptOf[q] \in Prompts /\ Text(q) \in Texts /\ Signal(q) \in Signals
         /\ HomeOf[q] \in Replicas /\ Store(q) \in Stores
         /\ Text(q) = TextOf[promptOf[q]] /\ Signal(q) = Evidence[promptOf[q]]
  BY PipelineAssumption DEF Text, Signal, Store, TypeOK

LEMMA NoneIsNoRisk == None \notin Risks /\ Risks \subseteq MaybeRisk /\ None \in MaybeRisk
  BY DEF None, Risks, MaybeRisk

-----------------------------------------------------------------------------
\* What the decision stages answer, and that the floor is the least of it.

LEMMA StageTypes ==
  ASSUME NEW u \in Signals
  PROVE  /\ ThreatPresent(u) \in BOOLEAN
         /\ Deterministic(u).risk \in Risks
         /\ Cleared(ThreatPresent(u)) \in {"LOW", "MEDIUM"}
  BY ScoreTypes, DeterministicShape, ClearedValues

\* Any answer of the judge is a risk, and only SAFE can be below MEDIUM.
LEMMA JudgeAnswers ==
  ASSUME NEW v \in JudgeVerdicts, NEW b \in BOOLEAN
  PROVE  /\ JudgeArbitration(v, b) \in Risks
         /\ JudgeArbitration(v, b) \in {Cleared(b), "MEDIUM", "HIGH"}
  BY JudgeValues

\* The risk a worker computes is a risk, and at least the prompt's floor.
LEMMA ComputedAboveFloor ==
  ASSUME TypeOK, NEW q \in Requests
  PROVE  /\ ~Deterministic(Signal(q)).judge =>
              /\ Deterministic(Signal(q)).risk \in Risks
              /\ Rank(Deterministic(Signal(q)).risk) >= Rank(Floor(Signal(q)))
         /\ \A j \in JudgeVerdicts : Deterministic(Signal(q)).judge =>
              /\ JudgeArbitration(j, ThreatPresent(Signal(q))) \in Risks
              /\ Rank(JudgeArbitration(j, ThreatPresent(Signal(q)))) >= Rank(Floor(Signal(q)))
         /\ Rank("HIGH") >= Rank(Floor(Signal(q)))
<1>1. PICK u \in Signals : u = Signal(q)
  BY RequestTypes
<1>2. Rank("LOW") = 0 /\ Rank("MEDIUM") = 1 /\ Rank("HIGH") = 2
  BY DEF Rank
<1>3. \A x \in Risks : Rank(x) >= Rank(x) /\ Rank("HIGH") >= Rank(x)
  BY <1>2 DEF Risks
<1>4. /\ ThreatPresent(u) \in BOOLEAN
      /\ Deterministic(u).risk \in Risks
      /\ Cleared(ThreatPresent(u)) \in {"LOW", "MEDIUM"}
  BY StageTypes
<1>5. CASE Deterministic(u).judge
  <2>1. Floor(u) = Cleared(ThreatPresent(u))
    BY <1>5 DEF Floor
  <2>2. ASSUME NEW j \in JudgeVerdicts
        PROVE  /\ JudgeArbitration(j, ThreatPresent(u)) \in Risks
               /\ Rank(JudgeArbitration(j, ThreatPresent(u))) >= Rank(Floor(u))
    <3>1. PICK answer : answer = JudgeArbitration(j, ThreatPresent(u))
      OBVIOUS
    <3>2. answer \in Risks /\ answer \in {Floor(u), "MEDIUM", "HIGH"}
      BY <1>4, <2>1, <3>1, JudgeAnswers
    <3>3. Rank(answer) >= Rank(Floor(u))
      BY <1>2, <1>4, <2>1, <3>2
    <3> QED BY <3>1, <3>2, <3>3
  <2>3. Rank("HIGH") >= Rank(Floor(u))
    BY <1>2, <1>4, <2>1
  <2> QED BY <1>1, <1>5, <2>2, <2>3
<1>6. CASE ~Deterministic(u).judge
  <2>1. Floor(u) = Deterministic(u).risk
    BY <1>6 DEF Floor
  <2> QED BY <1>1, <1>3, <1>4, <1>6, <2>1
<1> QED BY <1>5, <1>6

-----------------------------------------------------------------------------
\* What the steps do to the dictionary of a replica.

LEMMA WithoutFacts ==
  ASSUME NEW S, NEW s \in Seq(S), NEW i \in DOMAIN s
  PROVE  /\ Without(s, i) \in Seq(S)
         /\ \A j \in DOMAIN Without(s, i) : \E k \in DOMAIN s : Without(s, i)[j] = s[k]
<1> DEFINE w == Without(s, i)
<1>1. Len(s) \in Nat /\ DOMAIN s = 1 .. Len(s) /\ \A k \in 1 .. Len(s) : s[k] \in S
  BY LenProperties, ElementOfSeq
<1>2. Len(s) - 1 \in Nat
  BY <1>1
<1>3. DOMAIN w = 1 .. Len(s) - 1
  BY DEF Without
<1>4. \A j \in 1 .. Len(s) - 1 : \E k \in 1 .. Len(s) : w[j] = s[k]
  <2> SUFFICES ASSUME NEW j \in 1 .. Len(s) - 1 PROVE \E k \in 1 .. Len(s) : w[j] = s[k]
    OBVIOUS
  <2>1. w[j] = IF j < i THEN s[j] ELSE s[j + 1]
    BY DEF Without
  <2>2. j \in 1 .. Len(s) /\ j + 1 \in 1 .. Len(s)
    BY <1>1
  <2> QED BY <2>1, <2>2
<1>5. \A j \in 1 .. Len(s) - 1 : w[j] \in S
  BY <1>1, <1>4
<1>6. w = [j \in 1 .. Len(s) - 1 |-> w[j]]
  BY <1>3 DEF Without
<1>7. w \in Seq(S)
  BY <1>2, <1>5, <1>6, IsASeq
<1> QED BY <1>1, <1>3, <1>4, <1>7

\* A replaced entry comes from the dictionary, or is the new one.
LEMMA AppendFacts ==
  ASSUME NEW S, NEW s \in Seq(S), NEW e \in S
  PROVE  /\ Append(s, e) \in Seq(S)
         /\ \A j \in DOMAIN Append(s, e) :
              Append(s, e)[j] = e \/ \E k \in DOMAIN s : Append(s, e)[j] = s[k]
<1>1. /\ Append(s, e) \in Seq(S)
      /\ Len(Append(s, e)) = Len(s) + 1
      /\ \A k \in 1 .. Len(s) : Append(s, e)[k] = s[k]
      /\ Append(s, e)[Len(s) + 1] = e
  BY AppendProperties
<1>2. Len(s) \in Nat /\ DOMAIN s = 1 .. Len(s) /\ DOMAIN Append(s, e) = 1 .. Len(s) + 1
  BY <1>1, LenProperties
<1>3. \A j \in 1 .. Len(s) + 1 : j = Len(s) + 1 \/ j \in 1 .. Len(s)
  BY <1>2
<1> QED BY <1>1, <1>2, <1>3

LEMMA KeptFacts ==
  ASSUME NEW s \in Seq(Entry), NEW t
  PROVE  /\ Kept(s, t) \in Seq(Entry)
         /\ \A j \in DOMAIN Kept(s, t) : \E k \in DOMAIN s : Kept(s, t)[j] = s[k]
<1> DEFINE own == {i \in DOMAIN s : s[i].text = t}
<1>1. CASE own # {}
  <2>1. PICK i \in DOMAIN s : Kept(s, t) = Without(s, i)
    BY <1>1 DEF Kept
  <2>2. /\ Without(s, i) \in Seq(Entry)
        /\ \A j \in DOMAIN Without(s, i) : \E k \in DOMAIN s : Without(s, i)[j] = s[k]
    BY WithoutFacts
  <2> QED BY <2>1, <2>2
<1>2. CASE own = {} /\ Len(s) >= MaxEntries
  <2>1. Kept(s, t) = Tail(s)
    BY <1>2 DEF Kept
  <2>2. s # <<>> /\ Len(s) \in Nat /\ DOMAIN s = 1 .. Len(s)
    BY <1>2, PipelineAssumption, LenProperties, EmptySeq
  <2>3. /\ Tail(s) \in Seq(Entry) /\ Len(Tail(s)) = Len(s) - 1
        /\ \A j \in 1 .. Len(Tail(s)) : Tail(s)[j] = s[j + 1]
    BY <2>2, HeadTailProperties
  <2>4. DOMAIN Tail(s) = 1 .. Len(s) - 1
    BY <2>3, LenProperties
  <2>5. \A j \in 1 .. Len(s) - 1 : j + 1 \in 1 .. Len(s)
    BY <2>2
  <2> QED BY <2>1, <2>2, <2>3, <2>4, <2>5
<1>3. CASE own = {} /\ ~(Len(s) >= MaxEntries)
  BY <1>3 DEF Kept
<1> QED BY <1>1, <1>2, <1>3

\* Rebuild keeps the types of the dictionary and of the index.
LEMMA RebuildType ==
  ASSUME TypeOK, NEW r \in Replicas, NEW s \in Seq(Entry), Rebuild(r, s)
  PROVE  entries' \in [Replicas -> Seq(Entry)] /\ index' \in [Replicas -> Seq(Texts)]
<1>1. Len(s) \in Nat /\ DOMAIN s = 1 .. Len(s) /\ \A i \in 1 .. Len(s) : s[i] \in Entry
  BY LenProperties, ElementOfSeq
<1>2. \A i \in 1 .. Len(s) : s[i].text \in Texts
  BY <1>1 DEF Entry
<1>3. [i \in 1 .. Len(s) |-> s[i].text] \in Seq(Texts)
  BY <1>1, <1>2, IsASeq
<1>4. entries' = [entries EXCEPT ![r] = s]
  BY DEF Rebuild
<1>5. index' = [index EXCEPT ![r] = [i \in 1 .. Len(s) |-> s[i].text]]
  BY <1>1 DEF Rebuild
<1> QED BY <1>3, <1>4, <1>5 DEF TypeOK

LEMMA PutFuzzyType ==
  ASSUME TypeOK, NEW q \in Requests, NEW risk \in MaybeRisk, PutFuzzy(q, risk)
  PROVE  entries' \in [Replicas -> Seq(Entry)] /\ index' \in [Replicas -> Seq(Texts)]
<1> DEFINE r == HomeOf[q]
           s == Kept(entries[r], Text(q))
           e == [text |-> Text(q), risk |-> risk]
<1>1. r \in Replicas /\ Text(q) \in Texts /\ entries[r] \in Seq(Entry)
  BY RequestTypes DEF TypeOK
<1>2. s \in Seq(Entry) /\ e \in Entry
  BY <1>1, KeptFacts DEF Entry
<1>3. Append(s, e) \in Seq(Entry)
  BY <1>2, AppendFacts
<1>4. Rebuild(r, Append(s, e))
  BY DEF PutFuzzy
<1> QED BY <1>1, <1>3, <1>4, RebuildType

-----------------------------------------------------------------------------
\* A verdict a worker has computed or a tier holds for text t came from the
\* evidence on some prompt with that text.
Grounded(risk, t) ==
    risk \in Risks /\ \E p \in Prompts : TextOf[p] = t /\ Rank(risk) >= Rank(Floor(Evidence[p]))

\* Every entry of a dictionary is.
AllGrounded(s) == \A i \in DOMAIN s : Grounded(s[i].risk, s[i].text)

CachesGrounded ==
    /\ \A st \in Stores, t \in Texts : exact[st][t] # None => Grounded(exact[st][t], t)
    /\ \A r \in Replicas : AllGrounded(entries[r]) /\ AllGrounded(file[r])

WorkGrounded ==
    \A q \in Requests :
        /\ work[q] = "judge" => Deterministic(Signal(q)).judge
        /\ work[q] \in {"save", "publish"} => Grounded(verdict[q], Text(q))
        /\ work[q] = "done" => AboveFloor(verdict[q], Origins(Text(q)))

FloorInv == TypeOK /\ CachesGrounded /\ WorkGrounded /\ NeverBelowFloor

\* Prompts and threshold never change.
LEMMA SettingFixed ==
  ASSUME [Next]_vars
  PROVE  UNCHANGED setting
<1> USE DEF caches, setting
<1>1. ASSUME NEW q \in Requests,
             Submit(q) \/ WorkerStep(q) \/ Respond(q) \/ ServeFails(q) \/ Timeout(q) \/ TaskStep(q)
      PROVE  UNCHANGED setting
  BY <1>1 DEF Submit, WorkerStep, Start, LookupExact, LookupFuzzy, Decide, Judge, Save, Publish,
     PutFuzzy, PutExact, Respond, ServeFails, Timeout, Fail, TaskStep, Confirm, ConfirmSave,
     ConfirmPublish
<1>2. ASSUME NEW st \in Stores, NEW t \in Texts, ForgetExact(st, t) PROVE UNCHANGED setting
  BY <1>2 DEF ForgetExact
<1>3. ASSUME NEW r \in Disturbed, ReplicaStep(r) PROVE UNCHANGED setting
  BY <1>3 DEF ReplicaStep, WriteFile, ExpireSaved, Flush, Restart
<1>4. ASSUME UNCHANGED vars PROVE UNCHANGED setting
  BY <1>4 DEF vars
<1> QED BY <1>1, <1>2, <1>3, <1>4 DEF Next

\* So a request keeps its text and its signals, and a text its origins.
LEMMA RequestFixed ==
  ASSUME [Next]_vars
  PROVE  /\ \A q \in Requests : Text(q)' = Text(q) /\ Signal(q)' = Signal(q)
         /\ \A t : Origins(t)' = Origins(t)
  BY SettingFixed DEF setting, Text, Signal, Origins

\* A text's own verdict is allowed for it, and with the fuzzy tier on any is.
LEMMA GroundedIsAboveFloor ==
  ASSUME NEW t \in Texts, NEW u, NEW risk, Grounded(risk, u), u = t \/ near[t] # {}
  PROVE  AboveFloor(risk, Origins(t))
  BY DEF Grounded, AboveFloor, Origins

LEMMA OwnGrounded ==
  ASSUME TypeOK, NEW q \in Requests, NEW risk \in Risks, Rank(risk) >= Rank(Floor(Signal(q)))
  PROVE  Grounded(risk, Text(q))
  BY RequestTypes DEF Grounded

\* Types of every step of one request.
LEMMA RequestStepType ==
  ASSUME TypeOK, NEW q \in Requests,
         Submit(q) \/ WorkerStep(q) \/ Respond(q) \/ ServeFails(q) \/ Timeout(q) \/ TaskStep(q)
  PROVE  client' \in [Requests -> {"new", "waiting", "served", "unavailable"}]
         /\ work' \in [Requests -> Running \union {"idle", "queued", "cancelled", "done"}]
         /\ task' \in [Requests -> {None, "scheduled", "ready", "save", "publish", "done", "dropped", "lost"}]
<1> USE DEF TypeOK, Running, Advance, SetTask, Fail, clients
<1>1. CASE Submit(q)
  BY <1>1 DEF Submit
<1>2. CASE WorkerStep(q)
  BY <1>2 DEF WorkerStep, Start, LookupExact, LookupFuzzy, Decide, Judge, Save, Publish
<1>3. CASE Respond(q)
  BY <1>3 DEF Respond
<1>4. CASE ServeFails(q)
  BY <1>4 DEF ServeFails
<1>5. CASE Timeout(q)
  BY <1>5 DEF Timeout
<1>6. CASE TaskStep(q)
  BY <1>6 DEF TaskStep, Confirm, ConfirmSave, ConfirmPublish
<1> QED BY <1>1, <1>2, <1>3, <1>4, <1>5, <1>6

\* One entry of one store changes.
LEMMA EntryChange ==
  ASSUME NEW A, NEW B, NEW V, NEW f \in [A -> [B -> V]], NEW a \in A, NEW b \in B, NEW v \in V
  PROVE  /\ [f EXCEPT ![a][b] = v] \in [A -> [B -> V]]
         /\ \A x \in A, y \in B :
              [f EXCEPT ![a][b] = v][x][y] = IF x = a /\ y = b THEN v ELSE f[x][y]
  OBVIOUS

LEMMA ComputedTypes ==
  ASSUME TypeOK, NEW q \in Requests
  PROVE  /\ Deterministic(Signal(q)).risk \in MaybeRisk
         /\ \A j \in JudgeVerdicts : JudgeArbitration(j, ThreatPresent(Signal(q))) \in MaybeRisk
         /\ "HIGH" \in MaybeRisk
<1>1. Signal(q) \in Signals
  BY RequestTypes
<1>2. ThreatPresent(Signal(q)) \in BOOLEAN /\ Deterministic(Signal(q)).risk \in Risks
  BY <1>1, StageTypes
<1> QED BY <1>2, JudgeAnswers, NoneIsNoRisk DEF Risks

LEMMA PutExactType ==
  ASSUME TypeOK, NEW q \in Requests, NEW risk \in MaybeRisk, PutExact(q, risk)
  PROVE  exact' \in [Stores -> [Texts -> MaybeRisk]]
<1>1. Store(q) \in Stores /\ Text(q) \in Texts
  BY RequestTypes
<1>2. exact \in [Stores -> [Texts -> MaybeRisk]]
  BY DEF TypeOK
<1>3. [exact EXCEPT ![Store(q)][Text(q)] = risk] \in [Stores -> [Texts -> MaybeRisk]]
  BY <1>1, <1>2, EntryChange
<1> QED BY <1>2, <1>3 DEF PutExact

\* A hit is a position of the dictionary.
LEMMA HitFacts ==
  ASSUME TypeOK, NEW q \in Requests, NEW i \in FuzzyHits(q)
  PROVE  /\ HomeOf[q] \in Replicas /\ entries[HomeOf[q]] \in Seq(Entry)
         /\ i \in DOMAIN entries[HomeOf[q]]
         /\ entries[HomeOf[q]][i] \in Entry
         /\ near[Text(q)] # {}
<1>1. HomeOf[q] \in Replicas /\ entries[HomeOf[q]] \in Seq(Entry)
  BY RequestTypes DEF TypeOK
<1>2. i \in DOMAIN entries[HomeOf[q]] /\ \E t \in near[Text(q)] : TRUE
  BY DEF FuzzyHits
<1>3. entries[HomeOf[q]][i] \in Entry
  BY <1>1, <1>2, LenProperties, ElementOfSeq
<1> QED BY <1>1, <1>2, <1>3

LEMMA LookupFuzzyType ==
  ASSUME TypeOK, NEW q \in Requests, LookupFuzzy(q)
  PROVE  /\ verdict' \in [Requests -> MaybeRisk]
         /\ entries' \in [Replicas -> Seq(Entry)] /\ index' \in [Replicas -> Seq(Texts)]
<1> DEFINE r == HomeOf[q]
<1> USE NoneIsNoRisk DEF TypeOK
<1>1. CASE FuzzyHits(q) = {} /\ Advance(q, "decide", None) /\ UNCHANGED tier
  BY <1>1 DEF Advance, tier
<1>2. ASSUME NEW i \in FuzzyHits(q), Advance(q, "done", entries[r][i].risk),
             entries' = [entries EXCEPT ![r] = Append(Without(@, i), @[i])], UNCHANGED index
      PROVE  /\ verdict' \in [Requests -> MaybeRisk]
             /\ entries' \in [Replicas -> Seq(Entry)] /\ index' \in [Replicas -> Seq(Texts)]
  <2>1. Without(entries[r], i) \in Seq(Entry) /\ entries[r][i] \in Entry /\ r \in Replicas
    BY HitFacts, WithoutFacts
  <2>2. Append(Without(entries[r], i), entries[r][i]) \in Seq(Entry)
    BY <2>1, AppendFacts
  <2>3. entries[r][i].risk \in MaybeRisk
    BY <2>1 DEF Entry
  <2>4. entries' = [entries EXCEPT ![r] = Append(Without(entries[r], i), entries[r][i])]
    BY <1>2
  <2> QED BY <1>2, <2>2, <2>3, <2>4 DEF Advance
<1>3. ASSUME NEW i \in FuzzyHits(q), Advance(q, "decide", None), Rebuild(r, Without(entries[r], i))
      PROVE  /\ verdict' \in [Requests -> MaybeRisk]
             /\ entries' \in [Replicas -> Seq(Entry)] /\ index' \in [Replicas -> Seq(Texts)]
  <2>1. Without(entries[r], i) \in Seq(Entry) /\ r \in Replicas
    BY HitFacts, WithoutFacts
  <2>2. entries' \in [Replicas -> Seq(Entry)] /\ index' \in [Replicas -> Seq(Texts)]
    BY <1>3, <2>1, RebuildType
  <2> QED BY <1>3, <2>2 DEF Advance
<1> QED BY <1>1, <1>2, <1>3 DEF LookupFuzzy

LEMMA RequestStepRisks ==
  ASSUME TypeOK, NEW q \in Requests,
         Submit(q) \/ WorkerStep(q) \/ Respond(q) \/ ServeFails(q) \/ Timeout(q) \/ TaskStep(q)
  PROVE  /\ verdict' \in [Requests -> MaybeRisk]
         /\ served' \in [Requests -> MaybeRisk]
         /\ exact' \in [Stores -> [Texts -> MaybeRisk]]
         /\ entries' \in [Replicas -> Seq(Entry)] /\ index' \in [Replicas -> Seq(Texts)]
         /\ file' \in [Replicas -> Seq(Entry)] /\ saving' \in [Replicas -> BOOLEAN]
<1> USE RequestTypes, NoneIsNoRisk, PipelineAssumption DEF TypeOK, tier, disk
<1>1. CASE Submit(q) \/ Start(q) \/ ServeFails(q) \/ Timeout(q) \/ Confirm(q)
  BY <1>1 DEF Submit, Start, ServeFails, Timeout, Confirm, Fail, clients, caches
<1>2. CASE LookupExact(q)
  <2>1. exact[Store(q)][Text(q)] \in MaybeRisk
    OBVIOUS
  <2>2. \E risk \in MaybeRisk : verdict' = [verdict EXCEPT ![q] = risk]
    BY <1>2, <2>1 DEF LookupExact, Advance
  <2> QED BY <1>2, <2>2 DEF LookupExact, clients, caches
<1>3. CASE LookupFuzzy(q)
  <2>1. UNCHANGED <<served, exact, file, saving>>
    BY <1>3 DEF LookupFuzzy, clients
  <2> QED BY <1>3, <2>1, LookupFuzzyType
<1>4. CASE Decide(q)
  <2>1. \E risk \in MaybeRisk : verdict' = [verdict EXCEPT ![q] = risk]
    BY <1>4, ComputedTypes DEF Decide, Advance
  <2> QED BY <1>4, <2>1 DEF Decide, clients, caches
<1>5. CASE Judge(q)
  BY <1>5, ComputedTypes DEF Judge, Advance, clients, caches
<1>6. CASE Save(q)
  <2>1. verdict[q] \in MaybeRisk
    OBVIOUS
  <2>2. entries' \in [Replicas -> Seq(Entry)] /\ index' \in [Replicas -> Seq(Texts)]
    BY <1>6, <2>1, PutFuzzyType DEF Save
  <2> QED BY <1>6, <2>1, <2>2 DEF Save, PutFuzzy, Advance, clients
<1>7. CASE Publish(q)
  <2>1. verdict[q] \in MaybeRisk
    OBVIOUS
  <2>2. exact' \in [Stores -> [Texts -> MaybeRisk]]
    BY <1>7, <2>1, PutExactType DEF Publish
  <2> QED BY <1>7, <2>1, <2>2 DEF Publish, PutExact, Advance, clients
<1>8. CASE Respond(q)
  BY <1>8 DEF Respond, caches
<1>9. CASE ConfirmSave(q)
  <2>1. entries' \in [Replicas -> Seq(Entry)] /\ index' \in [Replicas -> Seq(Texts)]
    BY <1>9, ComputedTypes, PutFuzzyType DEF ConfirmSave
  <2> QED BY <1>9, <2>1 DEF ConfirmSave, PutFuzzy, clients
<1>10. CASE ConfirmPublish(q)
  <2>1. exact' \in [Stores -> [Texts -> MaybeRisk]]
    BY <1>10, ComputedTypes, PutExactType DEF ConfirmPublish
  <2> QED BY <1>10, <2>1 DEF ConfirmPublish, PutExact, clients
<1> QED
  BY <1>1, <1>2, <1>3, <1>4, <1>5, <1>6, <1>7, <1>8, <1>9, <1>10 DEF WorkerStep, TaskStep

LEMMA ForgetType ==
  ASSUME TypeOK, NEW st \in Stores, NEW t \in Texts, ForgetExact(st, t)
  PROVE  TypeOK'
  BY NoneIsNoRisk, EntryChange DEF ForgetExact, clients, setting, tier, disk, TypeOK

\* The file only ever holds entries of the dictionary.
LEMMA FileFacts ==
  ASSUME TypeOK, NEW r \in Replicas, WriteFile(r) \/ ExpireSaved(r) \/ Flush(r) \/ Restart(r)
  PROVE  \E s \in Seq(Entry) :
            /\ file' = [file EXCEPT ![r] = s]
            /\ \A j \in DOMAIN s : \/ \E k \in DOMAIN entries[r] : s[j] = entries[r][k]
                                  \/ \E k \in DOMAIN file[r] : s[j] = file[r][k]
            /\ Restart(r) => Rebuild(r, s)
<1>1. <<>> \in Seq(Entry) /\ DOMAIN <<>> = {}
  BY EmptySeq
<1>2. entries[r] \in Seq(Entry) /\ file[r] \in Seq(Entry)
  BY DEF TypeOK
<1>3. CASE WriteFile(r) /\ ~Restart(r)
  BY <1>1, <1>2, <1>3 DEF WriteFile
<1>4. CASE ExpireSaved(r) /\ ~Restart(r)
  <2>1. PICK i \in DOMAIN file[r] : file' = [file EXCEPT ![r] = Without(@, i)]
    BY <1>4 DEF ExpireSaved
  <2>2. /\ Without(file[r], i) \in Seq(Entry)
        /\ \A j \in DOMAIN Without(file[r], i) :
              \E k \in DOMAIN file[r] : Without(file[r], i)[j] = file[r][k]
    BY <1>2, <2>1, WithoutFacts
  <2> QED BY <1>4, <2>1, <2>2
<1>5. CASE Flush(r) /\ ~Restart(r)
  <2>1. PICK s \in {<<>>} \union {entries[r]} : file' = [file EXCEPT ![r] = s]
    BY <1>5 DEF Flush
  <2> QED BY <1>1, <1>2, <1>5, <2>1
<1>6. CASE Restart(r)
  <2>1. PICK s \in {file[r]} \union {<<>>} : Rebuild(r, s) /\ file' = [file EXCEPT ![r] = s]
    BY <1>6 DEF Restart
  <2> QED BY <1>1, <1>2, <2>1
<1> QED BY <1>3, <1>4, <1>5, <1>6

LEMMA ReplicaType ==
  ASSUME TypeOK, NEW r \in Replicas, ReplicaStep(r)
  PROVE  TypeOK'
<1>1. PICK s \in Seq(Entry) : /\ file' = [file EXCEPT ![r] = s]
                              /\ Restart(r) => Rebuild(r, s)
  BY FileFacts DEF ReplicaStep
<1>2. file' \in [Replicas -> Seq(Entry)]
  BY <1>1 DEF TypeOK
<1>3. CASE WriteFile(r) \/ ExpireSaved(r)
  BY <1>2, <1>3 DEF WriteFile, ExpireSaved, TypeOK, clients, setting, tier
<1>4. CASE Flush(r)
  <2>1. entries' \in [Replicas -> Seq(Entry)] /\ index' \in [Replicas -> Seq(Texts)]
    BY <1>4, EmptySeq, RebuildType DEF Flush
  <2> QED BY <1>2, <1>4, <2>1 DEF Flush, TypeOK, clients, setting
<1>5. CASE Restart(r)
  <2>1. entries' \in [Replicas -> Seq(Entry)] /\ index' \in [Replicas -> Seq(Texts)]
    BY <1>1, <1>5, RebuildType
  <2>2. /\ client' \in [Requests -> {"new", "waiting", "served", "unavailable"}]
        /\ work' \in [Requests -> Running \union {"idle", "queued", "cancelled", "done"}]
        /\ task' \in [Requests -> {None, "scheduled", "ready", "save", "publish", "done", "dropped", "lost"}]
        /\ saving' \in [Replicas -> BOOLEAN]
    BY <1>5 DEF Restart, TypeOK
  <2> QED BY <1>2, <1>5, <2>1, <2>2 DEF Restart, TypeOK, setting
<1> QED BY <1>3, <1>4, <1>5 DEF ReplicaStep

LEMMA PipelineTypeStep == TypeOK /\ [Next]_vars => TypeOK'
<1> SUFFICES ASSUME TypeOK, [Next]_vars PROVE TypeOK'
  OBVIOUS
<1>1. ASSUME NEW q \in Requests,
             Submit(q) \/ WorkerStep(q) \/ Respond(q) \/ ServeFails(q) \/ Timeout(q) \/ TaskStep(q)
      PROVE  TypeOK'
  BY <1>1, RequestStepType, RequestStepRisks, SettingFixed DEF TypeOK, setting
<1>2. ASSUME UNCHANGED vars PROVE TypeOK'
  BY <1>2 DEF TypeOK, vars, clients, caches, setting, tier, disk
<1> QED BY <1>1, <1>2, ForgetType, ReplicaType, PipelineAssumption DEF Next

LEMMA PipelineInitType == Init => TypeOK
<1>1. <<>> \in Seq(Entry) /\ <<>> \in Seq(Texts)
  BY EmptySeq
<1> QED BY <1>1, NoneIsNoRisk DEF Init, TypeOK, Running

\* Type correctness: in particular a worker never carries, a tier never holds
\* and a client is never served anything but a risk level.
THEOREM PipelineTypeCorrect == Spec => []TypeOK
  BY PipelineInitType, PipelineTypeStep, PTL DEF Spec

-----------------------------------------------------------------------------
\* The inductive step of FloorInv, one conjunct at a time.
LEMMA PutFuzzyGrounded ==
  ASSUME FloorInv, NEW q \in Requests, NEW risk \in Risks, Grounded(risk, Text(q)),
         PutFuzzy(q, risk), UNCHANGED exact
  PROVE  CachesGrounded'
<1> DEFINE r == HomeOf[q]
           s == Kept(entries[r], Text(q))
           e == [text |-> Text(q), risk |-> risk]
<1>1. TypeOK /\ CachesGrounded
  BY DEF FloorInv
<1>2. r \in Replicas /\ Text(q) \in Texts /\ entries[r] \in Seq(Entry) /\ e \in Entry
  BY <1>1, RequestTypes, NoneIsNoRisk DEF TypeOK, Entry
<1>3. /\ s \in Seq(Entry) /\ \A j \in DOMAIN s : \E k \in DOMAIN entries[r] : s[j] = entries[r][k]
  BY <1>2, KeptFacts
<1>4. \A j \in DOMAIN Append(s, e) : Append(s, e)[j] = e \/ \E k \in DOMAIN s : Append(s, e)[j] = s[k]
  BY <1>2, <1>3, AppendFacts
<1>5. AllGrounded(Append(s, e))
  BY <1>1, <1>2, <1>3, <1>4 DEF CachesGrounded, AllGrounded
<1>6. entries' = [entries EXCEPT ![r] = Append(s, e)] /\ UNCHANGED file
  BY DEF PutFuzzy, Rebuild, disk
<1>7. \A x \in Replicas : entries'[x] = IF x = r THEN Append(s, e) ELSE entries[x]
  BY <1>1, <1>6 DEF TypeOK
<1> QED BY <1>1, <1>5, <1>6, <1>7 DEF CachesGrounded, AllGrounded, Grounded

LEMMA PutExactGrounded ==
  ASSUME FloorInv, NEW q \in Requests, NEW risk \in Risks, Grounded(risk, Text(q)),
         PutExact(q, risk)
  PROVE  CachesGrounded'
<1> USE DEF FloorInv, TypeOK
<1>1. UNCHANGED <<entries, file>>
  BY DEF PutExact, tier
<1>2. CASE UNCHANGED exact
  BY <1>1, <1>2 DEF CachesGrounded, AllGrounded, Grounded
<1>3. CASE exact' = [exact EXCEPT ![Store(q)][Text(q)] = risk]
  <2>1. /\ Store(q) \in Stores /\ Text(q) \in Texts /\ risk \in MaybeRisk
    BY RequestTypes, NoneIsNoRisk
  <2>2. \A st \in Stores, t \in Texts :
           exact'[st][t] = IF st = Store(q) /\ t = Text(q) THEN risk ELSE exact[st][t]
    BY <1>3, <2>1, EntryChange
  <2>3. \A st \in Stores, t \in Texts : exact'[st][t] # None => Grounded(exact'[st][t], t)
    BY <2>2 DEF CachesGrounded
  <2> QED BY <1>1, <2>3 DEF CachesGrounded, AllGrounded, Grounded
<1> QED BY <1>2, <1>3 DEF PutExact

LEMMA LookupFuzzyGrounded ==
  ASSUME FloorInv, NEW q \in Requests, LookupFuzzy(q)
  PROVE  CachesGrounded'
<1> DEFINE r == HomeOf[q]
<1>0. TypeOK /\ CachesGrounded
  BY DEF FloorInv
<1>1. UNCHANGED <<exact, file>>
  BY DEF LookupFuzzy, disk
<1>2. ASSUME NEW s, AllGrounded(s), r \in Replicas, entries' = [entries EXCEPT ![r] = s]
      PROVE  CachesGrounded'
  <2>1. \A x \in Replicas : entries'[x] = IF x = r THEN s ELSE entries[x]
    BY <1>0, <1>2 DEF TypeOK
  <2> QED BY <1>0, <1>1, <1>2, <2>1 DEF CachesGrounded, AllGrounded, Grounded
<1>3. CASE UNCHANGED tier
  BY <1>0, <1>1, <1>3 DEF CachesGrounded, AllGrounded, Grounded, tier
<1>4. ASSUME NEW i \in FuzzyHits(q)
      PROVE  /\ AllGrounded(Without(entries[r], i)) /\ r \in Replicas
             /\ AllGrounded(Append(Without(entries[r], i), entries[r][i]))
  <2>1. r \in Replicas /\ entries[r] \in Seq(Entry) /\ i \in DOMAIN entries[r] /\ entries[r][i] \in Entry
    BY <1>0, <1>4, HitFacts
  <2>2. AllGrounded(entries[r])
    BY <1>0, <2>1 DEF CachesGrounded
  <2>3. /\ Without(entries[r], i) \in Seq(Entry)
        /\ \A j \in DOMAIN Without(entries[r], i) :
              \E k \in DOMAIN entries[r] : Without(entries[r], i)[j] = entries[r][k]
    BY <2>1, WithoutFacts
  <2>4. AllGrounded(Without(entries[r], i))
    BY <2>2, <2>3 DEF AllGrounded
  <2>5. \A j \in DOMAIN Append(Without(entries[r], i), entries[r][i]) :
           \/ Append(Without(entries[r], i), entries[r][i])[j] = entries[r][i]
           \/ \E k \in DOMAIN Without(entries[r], i) :
                 Append(Without(entries[r], i), entries[r][i])[j] = Without(entries[r], i)[k]
    BY <2>1, <2>3, AppendFacts
  <2> QED BY <2>1, <2>2, <2>4, <2>5 DEF AllGrounded
<1>5. ASSUME NEW i \in FuzzyHits(q), entries' = [entries EXCEPT ![r] = Append(Without(@, i), @[i])]
      PROVE  CachesGrounded'
  <2>1. entries' = [entries EXCEPT ![r] = Append(Without(entries[r], i), entries[r][i])]
    BY <1>5
  <2> QED BY <1>2, <1>4, <1>5, <2>1
<1>6. ASSUME NEW i \in FuzzyHits(q), Rebuild(r, Without(entries[r], i)) PROVE CachesGrounded'
  BY <1>2, <1>4, <1>6 DEF Rebuild
<1> QED BY <1>3, <1>5, <1>6 DEF LookupFuzzy

LEMMA ReplicaGrounded ==
  ASSUME FloorInv, NEW r \in Replicas, ReplicaStep(r)
  PROVE  CachesGrounded'
<1>1. TypeOK /\ CachesGrounded
  BY DEF FloorInv
<1>2. PICK s \in Seq(Entry) :
         /\ file' = [file EXCEPT ![r] = s]
         /\ \A j \in DOMAIN s : \/ \E k \in DOMAIN entries[r] : s[j] = entries[r][k]
                               \/ \E k \in DOMAIN file[r] : s[j] = file[r][k]
         /\ Restart(r) => Rebuild(r, s)
  BY <1>1, FileFacts DEF ReplicaStep
<1>3. AllGrounded(s)
  BY <1>1, <1>2 DEF CachesGrounded, AllGrounded
<1>4. \A x \in Replicas : file'[x] = IF x = r THEN s ELSE file[x]
  BY <1>1, <1>2 DEF TypeOK
<1>5. UNCHANGED exact
  BY DEF ReplicaStep, WriteFile, ExpireSaved, Flush, Restart
<1>6. CASE WriteFile(r) \/ ExpireSaved(r)
  <2>1. UNCHANGED entries
    BY <1>6 DEF WriteFile, ExpireSaved, tier
  <2> QED BY <1>1, <1>3, <1>4, <1>5, <2>1 DEF CachesGrounded, AllGrounded, Grounded
<1>7. CASE Flush(r)
  <2>1. \A x \in Replicas : entries'[x] = IF x = r THEN <<>> ELSE entries[x]
    BY <1>1, <1>7 DEF Flush, Rebuild, TypeOK
  <2>2. AllGrounded(<<>>)
    BY EmptySeq DEF AllGrounded
  <2> QED BY <1>1, <1>3, <1>4, <1>5, <2>1, <2>2 DEF CachesGrounded, AllGrounded, Grounded
<1>8. CASE Restart(r)
  <2>1. \A x \in Replicas : entries'[x] = IF x = r THEN s ELSE entries[x]
    BY <1>1, <1>2, <1>8 DEF Rebuild, TypeOK
  <2> QED BY <1>1, <1>3, <1>4, <1>5, <2>1 DEF CachesGrounded, AllGrounded, Grounded
<1> QED BY <1>6, <1>7, <1>8 DEF ReplicaStep

LEMMA CachesStep ==
  ASSUME FloorInv, [Next]_vars
  PROVE  CachesGrounded'
<1>0. TypeOK /\ CachesGrounded /\ WorkGrounded
  BY DEF FloorInv
<1>1. ASSUME UNCHANGED caches PROVE CachesGrounded'
  BY <1>0, <1>1 DEF CachesGrounded, AllGrounded, caches, tier, disk, Grounded
<1>2. ASSUME NEW q \in Requests, Save(q) \/ Publish(q) PROVE CachesGrounded'
  <2>1. Grounded(verdict[q], Text(q)) /\ verdict[q] \in Risks
    BY <1>0, <1>2 DEF Save, Publish, WorkGrounded, Grounded
  <2> QED BY <1>2, <2>1, PutFuzzyGrounded, PutExactGrounded DEF Save, Publish
<1>3. ASSUME NEW q \in Requests, ConfirmSave(q) \/ ConfirmPublish(q) PROVE CachesGrounded'
  <2>1. "HIGH" \in Risks /\ Grounded("HIGH", Text(q))
    BY <1>0, ComputedAboveFloor, OwnGrounded DEF Risks
  <2> QED BY <1>3, <2>1, PutFuzzyGrounded, PutExactGrounded DEF ConfirmSave, ConfirmPublish
<1>4. ASSUME NEW st \in Stores, NEW t \in Texts, ForgetExact(st, t) PROVE CachesGrounded'
  <2>1. \A x \in Stores, y \in Texts : exact'[x][y] \in {None, exact[x][y]}
    BY <1>0, <1>4, NoneIsNoRisk, EntryChange DEF ForgetExact, TypeOK
  <2> QED BY <1>0, <1>4, <2>1 DEF ForgetExact, tier, disk, CachesGrounded, AllGrounded, Grounded
<1>5. ASSUME NEW q \in Requests,
             Submit(q) \/ WorkerStep(q) \/ Respond(q) \/ ServeFails(q) \/ Timeout(q) \/ TaskStep(q)
      PROVE  CachesGrounded'
  BY <1>1, <1>2, <1>3, <1>5, LookupFuzzyGrounded DEF Submit, WorkerStep, Start, LookupExact,
     Decide, Judge, Respond, ServeFails, Timeout, TaskStep, Confirm, Fail
<1>6. ASSUME UNCHANGED vars PROVE CachesGrounded'
  BY <1>1, <1>6 DEF vars
<1> QED BY <1>4, <1>5, <1>6, ReplicaGrounded, PipelineAssumption DEF Next

\* The worker of one request; the others' places and risks are untouched.
LEMMA WorkStep ==
  ASSUME FloorInv, [Next]_vars
  PROVE  WorkGrounded'
<1> USE DEF FloorInv, TypeOK
<1> DEFINE Good(q, place, risk) ==
      /\ place = "judge" => Deterministic(Signal(q)).judge
      /\ place \in {"save", "publish"} => Grounded(risk, Text(q))
      /\ place = "done" => AboveFloor(risk, Origins(Text(q)))
<1>0. /\ \A q \in Requests : Text(q)' = Text(q) /\ Signal(q)' = Signal(q)
      /\ \A t : Origins(t)' = Origins(t)
  BY RequestFixed
<1>1. ASSUME NEW q \in Requests, NEW place, NEW risk, Advance(q, place, risk), Good(q, place, risk)
      PROVE  WorkGrounded'
  BY <1>0, <1>1 DEF Advance, WorkGrounded, AboveFloor, Grounded
<1>2. ASSUME UNCHANGED <<work, verdict>> PROVE WorkGrounded'
  BY <1>0, <1>2 DEF WorkGrounded, AboveFloor, Grounded
<1>3. ASSUME NEW q \in Requests, NEW place \in {"queued", "exact", "cancelled"},
             work' = [work EXCEPT ![q] = place], UNCHANGED verdict
      PROVE  WorkGrounded'
  BY <1>0, <1>3 DEF WorkGrounded, AboveFloor, Grounded
<1>4. ASSUME NEW q \in Requests, WorkerStep(q) PROVE WorkGrounded'
  <2>1. CASE Start(q)
    BY <1>3, <2>1 DEF Start
  <2>2. CASE LookupExact(q)
    <3>1. ASSUME exact[Store(q)][Text(q)] # None
          PROVE  Good(q, "done", exact[Store(q)][Text(q)])
      <4>1. Grounded(exact[Store(q)][Text(q)], Text(q)) /\ Text(q) \in Texts
        BY <3>1, RequestTypes DEF CachesGrounded
      <4> QED BY <4>1, GroundedIsAboveFloor
    <3>2. Good(q, "fuzzy", None)
      OBVIOUS
    <3> QED BY <1>1, <2>2, <3>1, <3>2 DEF LookupExact
  <2>3. CASE LookupFuzzy(q)
    <3>1. ASSUME NEW i \in FuzzyHits(q)
          PROVE  Good(q, "done", entries[HomeOf[q]][i].risk)
      <4>1. HomeOf[q] \in Replicas /\ i \in DOMAIN entries[HomeOf[q]] /\ near[Text(q)] # {}
        BY <3>1, HitFacts
      <4>2. Grounded(entries[HomeOf[q]][i].risk, entries[HomeOf[q]][i].text) /\ Text(q) \in Texts
        BY <4>1, RequestTypes DEF CachesGrounded, AllGrounded
      <4> QED BY <4>1, <4>2, GroundedIsAboveFloor
    <3>2. Good(q, "decide", None)
      OBVIOUS
    <3> QED BY <1>1, <2>3, <3>1, <3>2 DEF LookupFuzzy
  <2>4. CASE Decide(q)
    <3>1. Deterministic(Signal(q)).judge => Good(q, "judge", None)
      OBVIOUS
    <3>2. ~Deterministic(Signal(q)).judge => Good(q, "save", Deterministic(Signal(q)).risk)
      BY ComputedAboveFloor, OwnGrounded
    <3> QED BY <1>1, <2>4, <3>1, <3>2 DEF Decide
  <2>5. CASE Judge(q)
    <3>1. Deterministic(Signal(q)).judge
      BY <2>5 DEF Judge, WorkGrounded
    <3>2. ASSUME NEW j \in JudgeVerdicts
          PROVE  Good(q, "save", JudgeArbitration(j, ThreatPresent(Signal(q))))
      BY <3>1, ComputedAboveFloor, OwnGrounded
    <3> QED BY <1>1, <2>5, <3>2 DEF Judge
  <2>6. CASE Save(q)
    <3>1. Good(q, "publish", verdict[q])
      BY <2>6 DEF Save, WorkGrounded
    <3> QED BY <1>1, <2>6, <3>1 DEF Save
  <2>7. CASE Publish(q)
    <3>1. Grounded(verdict[q], Text(q)) /\ Text(q) \in Texts
      BY <2>7, RequestTypes DEF Publish, WorkGrounded
    <3>2. Good(q, "done", verdict[q])
      BY <3>1, GroundedIsAboveFloor
    <3> QED BY <1>1, <2>7, <3>2 DEF Publish
  <2> QED BY <1>4, <2>1, <2>2, <2>3, <2>4, <2>5, <2>6, <2>7 DEF WorkerStep
<1>5. ASSUME NEW q \in Requests, Submit(q) PROVE WorkGrounded'
  BY <1>3, <1>5 DEF Submit
<1>6. ASSUME NEW q \in Requests, Timeout(q) PROVE WorkGrounded'
  <2>1. work' = work \/ work' = [work EXCEPT ![q] = "cancelled"]
    BY <1>6 DEF Timeout
  <2> QED BY <1>2, <1>3, <1>6, <2>1 DEF Timeout, Fail
<1>7. ASSUME NEW q \in Requests, Respond(q) \/ ServeFails(q) \/ TaskStep(q) PROVE WorkGrounded'
  BY <1>2, <1>7 DEF Respond, ServeFails, Fail, TaskStep, Confirm, ConfirmSave, ConfirmPublish
<1>8. ASSUME NEW st \in Stores, NEW t \in Texts, ForgetExact(st, t) PROVE WorkGrounded'
  BY <1>2, <1>8 DEF ForgetExact
<1>9. ASSUME NEW r \in Disturbed, ReplicaStep(r) PROVE WorkGrounded'
  <2>1. CASE Restart(r)
    <3>1. \A q \in Requests : work'[q] \in {work[q], "cancelled"} /\ verdict'[q] = verdict[q]
      BY <2>1 DEF Restart
    <3>2. \A q \in Requests : Good(q, work'[q], verdict'[q])
      BY <3>1 DEF WorkGrounded
    <3> QED BY <1>0, <3>2 DEF WorkGrounded, AboveFloor, Grounded
  <2> QED BY <1>2, <1>9, <2>1 DEF ReplicaStep, WriteFile, ExpireSaved, Flush
<1>10. ASSUME UNCHANGED vars PROVE WorkGrounded'
  BY <1>2, <1>10 DEF vars
<1> QED BY <1>4, <1>5, <1>6, <1>7, <1>8, <1>9, <1>10 DEF Next

LEMMA ServedStep ==
  ASSUME FloorInv, [Next]_vars
  PROVE  NeverBelowFloor'
<1> USE DEF FloorInv, TypeOK
<1>0. /\ \A q \in Requests : Text(q)' = Text(q)
      /\ \A t : Origins(t)' = Origins(t)
  BY RequestFixed
<1>1. ASSUME UNCHANGED clients PROVE NeverBelowFloor'
  BY <1>0, <1>1 DEF clients, NeverBelowFloor, AboveFloor
<1>2. ASSUME NEW q \in Requests, Respond(q) PROVE NeverBelowFloor'
  BY <1>0, <1>2 DEF Respond, NeverBelowFloor, WorkGrounded, AboveFloor
<1>3. ASSUME NEW q \in Requests, Submit(q) \/ ServeFails(q) \/ Timeout(q) PROVE NeverBelowFloor'
  BY <1>0, <1>3 DEF Submit, ServeFails, Timeout, Fail, NeverBelowFloor, AboveFloor
<1>4. ASSUME NEW q \in Requests, WorkerStep(q) \/ TaskStep(q) PROVE UNCHANGED clients
  BY <1>4 DEF WorkerStep, Start, LookupExact, LookupFuzzy, Decide, Judge, Save, Publish,
     TaskStep, Confirm, ConfirmSave, ConfirmPublish
<1>5. ASSUME NEW st \in Stores, NEW t \in Texts, ForgetExact(st, t) PROVE UNCHANGED clients
  BY <1>5 DEF ForgetExact
<1>6. ASSUME NEW r \in Disturbed, ReplicaStep(r) PROVE NeverBelowFloor'
  <2>1. \A q \in Requests : client'[q] = "served" => client[q] = "served" /\ served'[q] = served[q]
    BY <1>6 DEF ReplicaStep, WriteFile, ExpireSaved, Flush, Restart, clients
  <2> QED BY <1>0, <2>1 DEF NeverBelowFloor, AboveFloor
<1>7. ASSUME UNCHANGED vars PROVE UNCHANGED clients
  BY <1>7 DEF vars
<1> QED BY <1>1, <1>2, <1>3, <1>4, <1>5, <1>6, <1>7 DEF Next

\* No interleaving of workers, timed-out workers, confirmations, restarts and
\* cache tiers serves a client a risk below the floor of the evidence on a prompt
\* of its text or, with the fuzzy tier on, on some prompt.
THEOREM ServedAboveFloor == Spec => []NeverBelowFloor
<1>1. Init => FloorInv
  <2> SUFFICES ASSUME Init PROVE CachesGrounded /\ WorkGrounded /\ NeverBelowFloor
    BY PipelineInitType DEF FloorInv
  <2>1. DOMAIN <<>> = {}
    OBVIOUS
  <2> QED BY <2>1 DEF Init, CachesGrounded, AllGrounded, WorkGrounded, NeverBelowFloor
<1>2. FloorInv /\ [Next]_vars => FloorInv'
  BY PipelineTypeStep, CachesStep, WorkStep, ServedStep DEF FloorInv
<1>3. FloorInv => NeverBelowFloor
  BY DEF FloorInv
<1> QED BY <1>1, <1>2, <1>3, PTL DEF Spec
=============================================================================
