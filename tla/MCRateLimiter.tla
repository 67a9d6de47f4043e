---------------------------- MODULE MCRateLimiter ----------------------------
(***************************************************************************)
(* A key holder whose tenant has a rate of its own (40 a minute, so that a *)
(* token is a second and a half and the burst, which would be less than a  *)
(* token, is raised to one), an anonymous caller that refills a token a    *)
(* second, and two replicas that remember one caller each.                 *)
(***************************************************************************)
EXTENDS RateLimiter, TLC

CONSTANTS r1, r2, key, peer

MCOverride == (key :> 40)

MCSymmetry == Permutations(Replicas)
=============================================================================
