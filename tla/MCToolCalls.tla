---------------------------- MODULE MCToolCalls -----------------------------
(***************************************************************************)
(* Two messages of two tenants, one SSE session, four tools: one that      *)
(* anybody may call, one that needs ELEVATED, one without a handler, one   *)
(* of HIGH risk; each setting of the audit trail with its own messages.    *)
(***************************************************************************)
EXTENDS ToolCalls, TLC

CONSTANTS s1, ta, tb, past

Spec3(risk, needs, handler) == [risk |-> risk, needs |-> needs, handler |-> handler]
MCToolSpecs == [echo   |-> Spec3("LOW", "GENERAL", TRUE),
                get    |-> Spec3("MEDIUM", "ELEVATED", TRUE),
                bare   |-> Spec3("LOW", "GENERAL", FALSE),
                delete |-> Spec3("HIGH", "INTERNAL", TRUE)]

Says(via, tenant, cap, id, msg, tool, args) ==
    [via |-> via, tenant |-> tenant, cap |-> cap, id |-> id, msg |-> msg, tool |-> tool, args |-> args]

Setting(enabled, read, migrations) == [enabled |-> enabled, read |-> read, migrations |-> migrations]

\* SQLite as the read authority, with and without a migration; as a mirror; off.
Migrated == Setting(TRUE, TRUE, 2)
Authority == Setting(TRUE, TRUE, 0)
Mirror == Setting(TRUE, FALSE, 1)
Off == Setting(FALSE, FALSE, 0)
MCSettings == {Migrated, Authority, Mirror, Off}

MCInputs ==
    (Migrated :> {Says("api", tb, "ELEVATED", TRUE, "call", "get", "disallowed")})
    @@ (Authority :> {Says("api", ta, "INTERNAL", TRUE, "call", "delete", "good"),
                      Says("rpc", tb, "GENERAL", TRUE, "call", "get", "good"),
                      Says(s1, tb, "GENERAL", TRUE, "call", "echo", "good"),
                      Says(s1, ta, "GENERAL", TRUE, "call", "nosuch", "good")})
    @@ (Mirror :> {Says("stdio", ta, "ELEVATED", TRUE, "call", "bare", "good"),
                   Says("stdio", ta, "GENERAL", FALSE, "call", "echo", "good"),
                   Says("api", tb, "ELEVATED", TRUE, "call", "get", "good")})
    @@ (Off :> {Says("stdio", ta, "GENERAL", TRUE, "unparsable", "echo", "good"),
                Says("stdio", ta, "GENERAL", TRUE, "call", "echo", "invalid"),
                Says("rpc", ta, "GENERAL", TRUE, "informative", "echo", "good"),
                Says(s1, ta, "GENERAL", TRUE, "bad params", "echo", "good"),
                Says("rpc", ta, "GENERAL", FALSE, "unknown", "echo", "good"),
                Says("rpc", ta, "GENERAL", FALSE, "silent", "echo", "good"),
                Says("api", ta, "INTERNAL", TRUE, "call", "delete", "good")})

\* A line of an earlier version, and what a crash has left of another.
MCOldLines == {<<[rid |-> past, tenant |-> Unset, kind |-> "legacy"],
                 [rid |-> past, tenant |-> ta, kind |-> "bad"]>>}
=============================================================================
