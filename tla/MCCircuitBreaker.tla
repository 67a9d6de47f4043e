-------------------------- MODULE MCCircuitBreaker --------------------------
(***************************************************************************)
(* Instances of CircuitBreaker: two replicas, three callers.               *)
(***************************************************************************)
EXTENDS CircuitBreaker

CONSTANTS r1, r2, c1, c2, c3

\* c1 and c2 share a process; c3 is on the other replica.
MCHome == [c \in {c1, c2, c3} |-> IF c = c3 THEN r2 ELSE r1]

\* Every caller in one process.
MCHomeSingle == [c \in {c1, c2} |-> r1]
=============================================================================
