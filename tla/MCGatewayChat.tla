---------------------------- MODULE MCGatewayChat ----------------------------
(***************************************************************************)
(* Three requests of a tenant: one leaves the choice of the provider to    *)
(* the gateway, with an unknown and a known fallback, one names a          *)
(* provider, and one a provider the gateway does not know.  There is one   *)
(* thread for the calls.                                                   *)
(***************************************************************************)
EXTENDS GatewayChat

CONSTANTS q1, q2, odd, acme

MCTenantOf == [q \in Requests |-> acme]

MCChosen == [q \in Requests |-> CASE q = q1  -> "unset"
                                  [] q = q2  -> "ollama"
                                  [] q = odd -> "bogus"]

MCFallbacks == <<"ollama", "bogus", "anthropic">>

MCPolicy == [q \in Requests |->
                IF q = odd THEN [r \in Risks |-> "RESTRICT"]
                ELSE [LOW |-> "ALLOW", MEDIUM |-> "REVIEW", HIGH |-> "BLOCK"]]

MCQuota == [t \in Tenants |-> 1]

World(redis, review, auditing, authority, failing) ==
    [redisFails |-> redis, reviewFails |-> review, auditFails |-> auditing,
     sqlite |-> authority, closed |-> failing]

\* What may fail need not.  Redis and the review file may; or the audit trail in
\* SQLite, failing closed or not.  With the JSONL file as the authority records
\* are lost as in the last world, and nothing raises.
MCWorlds ==
    {World(TRUE, TRUE, FALSE, TRUE, TRUE),
     World(FALSE, FALSE, TRUE, TRUE, TRUE),
     World(FALSE, FALSE, TRUE, TRUE, FALSE)}
=============================================================================
