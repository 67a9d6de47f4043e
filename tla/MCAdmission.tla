---------------------------- MODULE MCAdmission ----------------------------
(***************************************************************************)
(* Two threads of the gateway, two runs of the key tool, the default       *)
(* tenant and one with rules of its own.  One file gives both tenants      *)
(* rules, another leaves acme and a risk level out, and the first file may *)
(* be missing or have values the parser refuses.                           *)
(***************************************************************************)
EXTENDS Admission

CONSTANTS p1, p2, o1, o2, admin, user

MCTenantOf == (admin :> "default") @@ (user :> "acme")

Rules(high, medium) == [c \in Capabilities |-> [HIGH |-> high, MEDIUM |-> medium]]
File(action, default, acme) ==
    [shape |-> "object", default_action |-> action, rules |-> [default |-> default, acme |-> acme]]

Strict == File("BLOCK", Rules("BLOCK", "ALLOW"), Rules("BLOCK", "BLOCK"))
Sparse == File("RESTRICT", Rules("REVIEW", Absent), NoRules)
Broken == File(Bad, Rules("BLOCK", Bad), Rules(Bad, Bad))
Missing == [Truncated EXCEPT !.shape = "none"]

MCCandidates == {Strict, Sparse, Broken}
MCFirstFiles == {Strict, Broken, Missing}

MCFirstGrants == {(admin :> "INTERNAL") @@ (user :> "GENERAL")}
MCTenantFiles == {[readable |-> TRUE, status |-> [default |-> "active", acme |-> "suspended"]],
                  [readable |-> TRUE, status |-> [default |-> NotGranted, acme |-> Malformed]],
                  NoTenantFile}

MCSymmetry == Permutations(Procs) \union Permutations(Operators)
=============================================================================
