----------------------------- MODULE RiskFusion -----------------------------
(***************************************************************************)
(* The decision stages of core/risk.py that are functions of the evidence: *)
(* the symbolic veto (stage 1), the fast path (1.5), fuse_signals (3) and  *)
(* the two arbiters of stage 4.  Scores are natural numbers, on whatever   *)
(* scale the thresholds use; the evidence is a record of signals:          *)
(*                                                                         *)
(*   rules      the three symbolic lists were loaded (not None)            *)
(*   hits       the symbolic lists the normalised prompt matches           *)
(*   meta       meta_intent_score                                          *)
(*   threat     threat_score, similarity to the nearest anchor             *)
(*   aligned    domain_aligned: "unknown" when the guardrail is off        *)
(*   educational                                                           *)
(*   fusion     fusion_available, with fusionScore and the thresholds the  *)
(*              fusion policy ships, fusionHigh and fusionMedium           *)
(***************************************************************************)
EXTENDS Naturals

CONSTANTS
    MetaThreshold,        \* META_INTENT_THRESHOLD
    HighThreshold,        \* SEMANTIC_THRESHOLD_HIGH
    MediumThreshold,      \* SEMANTIC_THRESHOLD_MEDIUM
    GuardrailMode,        \* DOMAIN_GUARDRAIL_MODE
    JudgeMayClearToLow    \* JUDGE_MAY_CLEAR_TO_LOW

ASSUME FusionAssumption ==
    /\ MetaThreshold \in Nat
    /\ HighThreshold \in Nat
    /\ MediumThreshold \in Nat
    /\ GuardrailMode \in {"off", "advisory", "enforcing"}
    /\ JudgeMayClearToLow \in BOOLEAN

Risks == {"LOW", "MEDIUM", "HIGH"}

\* The order risk levels are compared in.
Rank(risk) == CASE risk = "LOW" -> 0 [] risk = "MEDIUM" -> 1 [] risk = "HIGH" -> 2

SymbolicLists == {"jailbreak", "override", "hard_ban"}

\* What semantic_judge may answer; JUDGE_OFFLINE stands for every answer
\* judge_arbitration does not recognise.
JudgeVerdicts == {"SAFE", "DANGEROUS", "AMBIGUOUS", "JUDGE_OFFLINE"}

\* What the Llama Guard detector may answer: none when its breaker is open, it
\* is unavailable, or it raised.
GuardVerdicts == {"safe", "unsafe", "none"}

Signals ==
    [rules : BOOLEAN, hits : SUBSET SymbolicLists, meta : Nat, threat : Nat,
     aligned : {"unknown", "yes", "no"}, educational : BOOLEAN,
     fusion : BOOLEAN, fusionScore : Nat, fusionHigh : Nat, fusionMedium : Nat]

-----------------------------------------------------------------------------
\* check_symbolic_violations: the lists are tried in order; missing lists are a
\* violation in themselves.
CheckSymbolicViolations(s) ==
    IF ~s.rules THEN "SYMBOLIC_POLICY_MISSING"
    ELSE IF "jailbreak" \in s.hits THEN "JAILBREAK_DETECTED"
    ELSE IF "override" \in s.hits THEN "INSTRUCTION_OVERRIDE_DETECTED"
    ELSE IF "hard_ban" \in s.hits THEN "HARD_BAN_DETECTED"
    ELSE "none"

HardBanTriggered(s) == CheckSymbolicViolations(s) # "none"

\* _fast_path_decision: it may only escalate.
FastPathHigh(s) == s.meta >= MetaThreshold \/ s.threat >= HighThreshold

ClassifyTopicality(s) ==
    IF s.aligned = "unknown" THEN "UNKNOWN"
    ELSE IF s.aligned = "yes" THEN "IN_DOMAIN" ELSE "OUT_OF_DOMAIN"

\* Mutant: the restriction applies to the lower half of the band.
InLowerAmbiguousBand(score, medium, high) ==
    \/ high <= medium
    \/ 2 * score < medium + high

\* _in_upper_ambiguous_band, score >= medium + (high - medium) / 2.0 in integers.
InUpperAmbiguousBand(score, medium, high) ==
    \/ high <= medium
    \/ 2 * score >= medium + high

\* The three-way cut fuse_signals makes of the fused score, or of the anchor
\* score when fusion is unavailable.
Cut(score, medium, high, educational) ==
    IF score >= high THEN [risk |-> "HIGH", judge |-> FALSE]
    ELSE IF score >= medium /\ educational THEN [risk |-> "MEDIUM", judge |-> FALSE]
    ELSE IF score >= medium THEN [risk |-> "MEDIUM", judge |-> TRUE]
    ELSE [risk |-> "LOW", judge |-> FALSE]

Score(s) == IF s.fusion THEN s.fusionScore ELSE s.threat
Medium(s) == IF s.fusion THEN s.fusionMedium ELSE MediumThreshold
High(s) == IF s.fusion THEN s.fusionHigh ELSE HighThreshold

\* fuse_signals: meta-intent vetoes, an enforcing guardrail answers MEDIUM for
\* an off-topic prompt, and the cut of the score decides the rest.
FuseSignals(s) ==
    IF s.meta >= MetaThreshold THEN [risk |-> "HIGH", judge |-> FALSE]
    ELSE IF GuardrailMode = "enforcing" /\ ClassifyTopicality(s) = "OUT_OF_DOMAIN"
         THEN [risk |-> "MEDIUM", judge |-> FALSE]
    ELSE Cut(Score(s), Medium(s), High(s), s.educational)

ThreatPresent(s) == InUpperAmbiguousBand(Score(s), Medium(s), High(s))

\* Mutant: the cap no longer looks at the evidence.
ClearedBySetting(threatPresent) == IF JudgeMayClearToLow THEN "LOW" ELSE "MEDIUM"

\* A SAFE answer is capped at MEDIUM when the evidence is in the upper half of
\* the ambiguous band, or when the deployment never lets a judge clear.
Cleared(threatPresent) ==
    IF threatPresent \/ ~JudgeMayClearToLow THEN "MEDIUM" ELSE "LOW"

\* Mutant: a judge that is offline leaves the fused MEDIUM standing.
JudgeFailOpen(verdict, threatPresent) ==
    CASE verdict = "DANGEROUS" -> "HIGH"
      [] verdict = "SAFE" -> Cleared(threatPresent)
      [] verdict = "AMBIGUOUS" -> "MEDIUM"
      [] verdict = "JUDGE_OFFLINE" -> "MEDIUM"

JudgeArbitration(verdict, threatPresent) ==
    CASE verdict = "DANGEROUS" -> "HIGH"
      [] verdict = "SAFE" -> Cleared(threatPresent)
      [] verdict = "AMBIGUOUS" -> "MEDIUM"
      [] verdict = "JUDGE_OFFLINE" -> "HIGH"

\* llama_guard_arbitration; "none" is its None.
LlamaGuardArbitration(verdict, threatPresent) ==
    CASE verdict = "unsafe" -> "HIGH"
      [] verdict = "safe" -> Cleared(threatPresent)
      [] verdict = "none" -> "none"

-----------------------------------------------------------------------------
\* Stages 1 to 3 of assess_risk.
Deterministic(s) ==
    IF HardBanTriggered(s) \/ FastPathHigh(s) THEN [risk |-> "HIGH", judge |-> FALSE]
    ELSE FuseSignals(s)

\* Stage 4 with a background scheduler: the judge alone, on the request path.
AsyncVerdict(s, judge) ==
    IF Deterministic(s).judge
    THEN JudgeArbitration(judge, ThreatPresent(s))
    ELSE Deterministic(s).risk

\* Stage 4 without one: Llama Guard, then the judge if it has no answer.
SyncVerdict(s, guard, judge) ==
    IF Deterministic(s).judge
    THEN IF guard # "none" THEN LlamaGuardArbitration(guard, ThreatPresent(s))
         ELSE JudgeArbitration(judge, ThreatPresent(s))
    ELSE Deterministic(s).risk

\* The least risk any arbiter can leave a prompt with.
Floor(s) ==
    IF Deterministic(s).judge THEN Cleared(ThreatPresent(s)) ELSE Deterministic(s).risk
=============================================================================
