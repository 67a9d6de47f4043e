---------------------------- MODULE MCReviewQueue ----------------------------
(***************************************************************************)
(* Instances of ReviewQueue: two reviewers of one review of an earlier     *)
(* life of the process, with opposite outcomes, while new reviews are      *)
(* enqueued and the old one is read.                                       *)
(***************************************************************************)
EXTENDS ReviewQueue

CONSTANTS ann, bob, ask1, ask2, look, old, new1, new2

MCKindOf == [o \in Ops |-> CASE o \in {ann, bob}   -> "resolve"
                             [] o \in {ask1, ask2} -> "enqueue"
                             [] o = look           -> "read"]

MCIdOf == [o \in Ops |-> CASE o \in {ann, bob, look} -> old
                           [] o = ask1                -> new1
                           [] o = ask2                -> new2]

MCOutcomeOf == [o \in Ops |-> IF o = ann THEN "APPROVED" ELSE "REJECTED"]

\* Every call is serialized by its caller, or only the last enqueue is.
MCLockings == {Ops, {ask2}}
=============================================================================
