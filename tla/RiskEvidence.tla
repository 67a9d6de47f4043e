---------------------------- MODULE RiskEvidence ----------------------------
(***************************************************************************)
(* The evidence on one prompt, growing: each step makes one signal more    *)
(* suspicious.  It asks of the decision stages of RiskFusion how a verdict *)
(* answers to more evidence.                                               *)
(***************************************************************************)
EXTENDS RiskFusion

CONSTANTS
    MaxScore,       \* bound on the scores
    FusionBands     \* the <<medium, high>> thresholds a fusion policy may ship

ASSUME EvidenceAssumption ==
    /\ MaxScore \in Nat
    /\ FusionBands \subseteq Nat \X Nat

VARIABLES
    evidence,   \* the signals so far
    judge,      \* what the judge would answer
    guard       \* what Llama Guard would answer

evidenceVars == <<evidence, judge, guard>>

Scores == 0 .. MaxScore

EvidenceTypeOK == evidence \in Signals /\ judge \in JudgeVerdicts /\ guard \in GuardVerdicts

\* collect_semantic_signals: any combination of signals, with the domain left
\* unevaluated exactly when the guardrail is off; the arbiters may answer
\* anything.
EvidenceInit ==
    \E band \in FusionBands, aligned \in {"unknown", "yes", "no"},
       educational, fusion, rules \in BOOLEAN :
        /\ (aligned = "unknown") <=> (GuardrailMode = "off")
        /\ evidence = [rules |-> rules, hits |-> {}, meta |-> 0, threat |-> 0,
                       aligned |-> aligned, educational |-> educational, fusion |-> fusion,
                       fusionScore |-> 0, fusionHigh |-> band[2], fusionMedium |-> band[1]]
        /\ judge \in JudgeVerdicts
        /\ guard \in GuardVerdicts

MatchRule(list) ==
    /\ list \notin evidence.hits
    /\ evidence' = [evidence EXCEPT !.hits = @ \union {list}]
    /\ UNCHANGED <<judge, guard>>

RaiseMeta ==
    /\ evidence.meta < MaxScore
    /\ evidence' = [evidence EXCEPT !.meta = @ + 1]
    /\ UNCHANGED <<judge, guard>>

RaiseThreat ==
    /\ evidence.threat < MaxScore
    /\ evidence' = [evidence EXCEPT !.threat = @ + 1]
    /\ UNCHANGED <<judge, guard>>

RaiseFusion ==
    /\ evidence.fusionScore < MaxScore
    /\ evidence' = [evidence EXCEPT !.fusionScore = @ + 1]
    /\ UNCHANGED <<judge, guard>>

EvidenceNext ==
    \/ \E list \in SymbolicLists : MatchRule(list)
    \/ RaiseMeta
    \/ RaiseThreat
    \/ RaiseFusion

EvidenceSpec == EvidenceInit /\ [][EvidenceNext]_evidenceVars

-----------------------------------------------------------------------------
\* More evidence never lowers the verdict: with the same arbiter answers, a
\* prompt that matches one more rule or scores higher is never given a lower
\* risk, on the request path or on the synchronous one, whatever the guardrail
\* mode and however the fusion policy's thresholds are ordered.
Monotone ==
    [][/\ Rank(AsyncVerdict(evidence, judge)') >= Rank(AsyncVerdict(evidence, judge))
       /\ Rank(SyncVerdict(evidence, guard, judge)') >= Rank(SyncVerdict(evidence, guard, judge))
      ]_evidenceVars

\* A score in the upper half of the ambiguous band is never cleared to LOW by
\* any path through stages 1 to 4, whichever arbiter answers and whatever it
\* says.
SuspicionIsKept ==
    Score(evidence) >= Medium(evidence) /\ 2 * Score(evidence) >= Medium(evidence) + High(evidence) =>
        /\ AsyncVerdict(evidence, judge) # "LOW"
        /\ SyncVerdict(evidence, guard, judge) # "LOW"

\* Losing an arbiter is never lenient: with the judge offline the verdict is at
\* least what any answer of the judge gives, on both paths.
OutageIsStrictest ==
    \A answer \in JudgeVerdicts :
        /\ Rank(AsyncVerdict(evidence, "JUDGE_OFFLINE")) >= Rank(AsyncVerdict(evidence, answer))
        /\ Rank(SyncVerdict(evidence, guard, "JUDGE_OFFLINE")) >= Rank(SyncVerdict(evidence, guard, answer))
=============================================================================
