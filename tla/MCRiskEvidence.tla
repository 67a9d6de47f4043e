--------------------------- MODULE MCRiskEvidence ---------------------------
(***************************************************************************)
(* RiskEvidence with scores up to four, a fusion policy with an odd-width  *)
(* band and one whose medium is above its high.                            *)
(***************************************************************************)
EXTENDS RiskEvidence

MCBands == {<<1, 4>>, <<4, 3>>}
=============================================================================
