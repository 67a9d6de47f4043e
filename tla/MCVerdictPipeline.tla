------------------------- MODULE MCVerdictPipeline -------------------------
(***************************************************************************)
(* Instances of VerdictPipeline on one replica.  Prompts: one vetoed by a  *)
(* rule, one in the upper half of the ambiguous band (never cleared to     *)
(* LOW) and a plain one.                                                   *)
(***************************************************************************)
EXTENDS VerdictPipeline

CONSTANTS q1, q2, q3, q4, r1, redis

Plain == [rules |-> TRUE, hits |-> {}, meta |-> 0, threat |-> 0, aligned |-> "unknown",
          educational |-> FALSE, fusion |-> TRUE, fusionScore |-> 0,
          fusionHigh |-> 6, fusionMedium |-> 2]

MCEvidence ==
    [p \in Prompts |->
        CASE p = "vetoed" -> [Plain EXCEPT !.hits = {"jailbreak"}]
          [] p = "upper"  -> [Plain EXCEPT !.fusionScore = 5]
          [] p = "plain"  -> Plain]

\* A prompt's text is its own; redaction changes none of these.
MCTextOf == [p \in Prompts |-> p]

\* The fuzzy tier is off (a threshold of 1.0), or takes a text for itself only.
TierOff == [t \in Texts |-> {}]
TierOn == [t \in Texts |-> {t}]
OffOrOn == {TierOff, TierOn}
JustOn == {TierOn}

OneReplica == [q \in Requests |-> r1]
SharedStore == [r \in Replicas |-> redis]
=============================================================================
