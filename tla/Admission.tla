----------------------------- MODULE Admission -----------------------------
(***************************************************************************)
(* A request on its way to a decision (api/main.py): the key store says    *)
(* who calls, the tenant store whether that tenant is suspended, and the   *)
(* policy store what its rules make of the risk.  Each of the three stores *)
(* is read at a moment of its own, while other threads reload them, deploy *)
(* a policy, issue and revoke keys, and the process restarts.              *)
(***************************************************************************)
EXTENDS PolicyStore, TLC

CONSTANTS
    AuthRequired,   \* AUTH_MODE = "required"
    NoKey,          \* the caller presents no key, or one nobody issued
    MaxOps          \* bound on requests, commands, edits and restarts

VARIABLES
    req,        \* the request each thread serves; steady is history: no load has
                \* touched the store since the request found it usable
    ops         \* how many of those there were

admissionVars == <<policyVars, identityVars, req, ops>>

\* What an endpoint asks of the caller: a key when AUTH_MODE says so ("open"), a
\* key in any case ("known"), or INTERNAL; and what it does then: decide on a
\* risk by the policy, change the policy, or read what others have written.
Endpoint(gate, duty) == [gate |-> gate, duty |-> duty]

Assess == Endpoint("open", "decide")
ProtectionSettings == Endpoint("open", "decide")  \* shows the rules of a decision
PrivacySettings == Endpoint("open", "read")
GatewayProviders == Endpoint("internal", "read")
ToolsCatalogue == Endpoint("internal", "read")
ActivityFeed == Endpoint("open", "read")
ActivityTrace == Endpoint("open", "read")
GetReviewStatus == Endpoint("open", "read")
WhoAmI == Endpoint("known", "read")
RawLogs == Endpoint("internal", "read")
Benchmarks == Endpoint("internal", "read")
ListReviews == Endpoint("internal", "read")
GetPolicy == Endpoint("internal", "read")
ValidatePolicy == Endpoint("internal", "read")
PolicyAdmin == Endpoint("internal", "admin")      \* deploy and rollback

Endpoints == {Assess, ProtectionSettings, PrivacySettings, GatewayProviders, ToolsCatalogue,
              ActivityFeed, ActivityTrace, GetReviewStatus, WhoAmI, RawLogs, Benchmarks,
              ListReviews, GetPolicy, ValidatePolicy, PolicyAdmin}

NoRisk == "none"
IdleReq == [at |-> "idle", duty |-> "read", capability |-> "GENERAL", tenant |-> DefaultTenant,
            risk |-> NoRisk, own |-> FALSE, rules |-> NoRules, answer |-> "none", steady |-> FALSE]

AdmissionTypeOK ==
    /\ PolicyTypeOK
    /\ IdentityTypeOK
    /\ \A p \in Procs :
          /\ req[p].at \in {"idle", "tenant", "admin", "check", "bind", "pick", "act", "done"}
          /\ req[p].tenant \in Tenants
          /\ req[p].capability \in Capability
          /\ req[p].answer \in ValidActions \union {Bad, "none", "error"}

Init ==
    /\ PolicyInit
    /\ IdentityInit
    /\ req = [p \in Procs |-> IdleReq]
    /\ ops = 0

Free(p) == req[p].at \in {"idle", "done"} /\ load[p].at = "idle" /\ tload[p].at = "idle" /\ job[p].at = "idle"
Spend == ops < MaxOps /\ ops' = ops + 1

-----------------------------------------------------------------------------
\* resolve_principal: no key, or one the store does not know, is GENERAL of the
\* default tenant.
KnownKey(k) == k # NoKey /\ Authenticated(k)
CapabilityOf(k) == IF KnownKey(k) THEN Principal(k) ELSE "GENERAL"
TenantOfCaller(k) == IF KnownKey(k) THEN TenantOf[k] ELSE DefaultTenant

Passes(k, gate) ==
    CASE gate = "open"     -> AuthRequired => KnownKey(k)
      [] gate = "known"    -> KnownKey(k)
      [] gate = "internal" -> CapabilityOf(k) = "INTERNAL"

\* The endpoint authenticates; 401 or 403 when the caller does not pass.
Arrive(p, k, endpoint, risk) ==
    /\ Free(p)
    /\ keyStore' = IF k = NoKey THEN keyStore ELSE Lookups
    /\ req' = [req EXCEPT ![p] =
                 IF ~Passes(k, endpoint.gate) THEN IdleReq
                 ELSE [IdleReq EXCEPT !.at = "tenant", !.duty = endpoint.duty,
                                      !.risk = IF endpoint.duty = "decide" THEN risk ELSE NoRisk,
                                      !.capability = CapabilityOf(k),
                                      !.tenant = TenantOfCaller(k)]]
    /\ Spend
    /\ UNCHANGED <<policyVars, keyFile, tool, ledger, crossed, tenantVars>>

\* Where the endpoint goes on once the caller is let in.
Handler(duty) ==
    CASE duty = "decide" -> "check" [] duty = "admin" -> "admin" [] duty = "read" -> "idle"

\* resolve_tenant: the first caller loads the store.
ResolveTenant(p) ==
    /\ req[p].at = "tenant"
    /\ tload[p].at = "idle"
    /\ \/ /\ TenantLazyLoad(p)
          /\ UNCHANGED req
       \/ /\ tenantStore.loaded
          /\ req' = [req EXCEPT ![p] = IF Suspended(@.tenant) THEN IdleReq
                                       ELSE [@ EXCEPT !.at = Handler(req[p].duty)]]
          /\ UNCHANGED identityVars
    /\ UNCHANGED <<policyVars, ops>>

\* The deploy and rollback endpoints, admitted: the job is theirs from here.
Administer(p) ==
    /\ req[p].at = "admin"
    /\ \/ \E file \in Candidates : StartDeploy(p, file, FALSE)
       \/ \E v \in DOMAIN versions : StartRollback(p, v, FALSE)
    /\ req' = [req EXCEPT ![p] = IdleReq]
    /\ UNCHANGED <<identityVars, ops>>

\* ... or the file does not validate, or there is no such version: 422, 404.
AdminRefused(p) ==
    /\ req[p].at = "admin"
    /\ req' = [req EXCEPT ![p] = IdleReq]
    /\ UNCHANGED <<policyVars, identityVars, ops>>

-----------------------------------------------------------------------------
\* policy_decision, with PolicyStore.get, in the steps other threads can see.

Answer(p, a) == req' = [req EXCEPT ![p].at = "done", ![p].answer = a]
PolicyStep(p, at) == req[p].at = at /\ load[p].at = "idle"

\* get: the first caller loads; a store that is not usable fails closed.
CheckUsable(p) ==
    /\ PolicyStep(p, "check")
    /\ \/ /\ LazyLoad(p)
          /\ UNCHANGED req
       \/ /\ mem.loaded
          /\ IF mem.usable THEN req' = [req EXCEPT ![p].at = "bind", ![p].steady = ~mixed]
                           ELSE Answer(p, "BLOCK")
          /\ UNCHANGED policyVars
    /\ UNCHANGED <<identityVars, ops>>

\* self._tenants.get is bound to the dictionary of this moment ...
BindTenants(p) ==
    /\ PolicyStep(p, "bind")
    /\ req' = [req EXCEPT ![p].at = "pick", ![p].own = FALSE]
    /\ UNCHANGED <<policyVars, identityVars, ops>>

\* ... then the default tenant is looked up in the one of that moment, for all
\* of the callers, and the caller's own rules in the dictionary bound before.
PickRules(p) ==
    LET own == IF req[p].own THEN req[p].rules ELSE mem.tenants[req[p].tenant] IN
    /\ PolicyStep(p, "pick")
    /\ IF Defined(mem.tenants[DefaultTenant])
       THEN req' = [req EXCEPT ![p].at = "act",
                               ![p].rules = IF Defined(own) THEN own ELSE mem.tenants[DefaultTenant]]
       ELSE Answer(p, "error")
    /\ UNCHANGED <<policyVars, identityVars, ops>>

\* What the rules leave out has the default action of the store by now.
TakeAction(p) ==
    /\ PolicyStep(p, "act")
    /\ Answer(p, Lookup(req[p].rules, req[p].capability, req[p].risk, mem.default_action))
    /\ UNCHANGED <<policyVars, identityVars, ops>>

\* A step of somebody's load.  Clearing the store makes a new dictionary: who
\* had bound the old one keeps what it held.  The others are disturbed.
Load(p) ==
    /\ LoadStep(p)
    /\ req' = [q \in Procs |->
                 IF load[p].at = "clear" /\ req[q].at = "pick" /\ ~req[q].own
                 THEN [req[q] EXCEPT !.own = TRUE, !.rules = mem.tenants[req[q].tenant],
                                     !.steady = FALSE]
                 ELSE [req[q] EXCEPT !.steady = @ /\ req[q].at = "done"]]
    /\ UNCHANGED <<identityVars, ops>>

-----------------------------------------------------------------------------
\* Everybody else: the tools, reloads, edits, restarts.

Job(p) == JobStep(p) /\ UNCHANGED <<identityVars, req, ops>>

PolicyTool(p) ==
    /\ Free(p)
    /\ \/ \E file \in Candidates : StartDeploy(p, file, TRUE)
       \/ \E v \in DOMAIN versions : StartRollback(p, v, TRUE)
    /\ Spend
    /\ UNCHANGED <<identityVars, req>>

KeyTool(o) ==
    /\ \/ \E k \in Keys, g \in Grants \union {NotGranted} : ToolStart(o, k, g) /\ Spend
       \/ ToolStep(o) /\ UNCHANGED ops
       \/ RemoveKeyFile /\ Spend
    /\ UNCHANGED <<policyVars, req>>

Reload(p) ==
    /\ \/ ReloadKeys /\ UNCHANGED ops
       \/ Free(p) /\ TenantEnter(p) /\ Spend
    /\ UNCHANGED <<policyVars, req>>

TenantLoad(p) == TenantLoadStep(p) /\ UNCHANGED <<policyVars, req, ops>>

Edit ==
    /\ \E file \in TenantFiles : EditTenants(file)
    /\ Spend
    /\ UNCHANGED <<policyVars, req>>

Restart ==
    /\ PolicyRestart
    /\ IdentityRestart
    /\ req' = [p \in Procs |-> IdleReq]
    /\ Spend

Next ==
    \/ \E p \in Procs :
          \/ \E k \in Keys \union {NoKey}, endpoint \in Endpoints, risk \in RiskLevels :
                Arrive(p, k, endpoint, risk)
          \/ ResolveTenant(p)
          \/ Administer(p)
          \/ AdminRefused(p)
          \/ CheckUsable(p)
          \/ BindTenants(p)
          \/ PickRules(p)
          \/ TakeAction(p)
          \/ Load(p)
          \/ Job(p)
          \/ PolicyTool(p)
          \/ Reload(p)
          \/ TenantLoad(p)
    \/ \E o \in Operators : KeyTool(o)
    \/ Edit
    \/ Restart

Spec == Init /\ [][Next]_admissionVars

-----------------------------------------------------------------------------
\* Once nobody is loading, copying or editing, both stores hold what their files
\* say: a deployed policy is enforced and a suspension in force.
StoresSettled == SettledEnforcesFile /\ TenantsSettled

\* What a file says of a tenant without rules of its own is what it says of the
\* default tenant; a file without rules for that one says BLOCK.
HasRules(file, t) ==
    file.shape = "object" /\ \E c \in Capabilities, r \in RiskLevels : file.rules[t][c][r] \in ValidActions

Says(file, tenant, capability, risk) ==
    LET t == IF HasRules(file, tenant) THEN tenant ELSE DefaultTenant
        rule == file.rules[t][capability][risk]
    IN  IF ~HasRules(file, DefaultTenant) THEN "BLOCK"
        ELSE IF rule \in ValidActions THEN rule
        ELSE IF file.default_action \in ValidActions THEN file.default_action
        ELSE "BLOCK"

\* All that is written in a file about a tenant or about the default tenant.
Mentions(file, tenant, capability, risk) ==
    {file.default_action} \union {file.rules[t][capability][risk] : t \in {tenant, DefaultTenant}}

\* policy_decision, whatever deploys, rollbacks, reloads, tools and restarts went
\* before: a request that found the store usable, as one load alone left it, and
\* met no load on its way is decided exactly as one file that was live says, all
\* of its answer from that file, whichever files are being copied meanwhile.  Who
\* met a load, or what overlapping loads left, may have read a store half emptied
\* and half filled: it is blocked, is an error, or gets something that is written
\* in a live file, for its tenant or for the default.
DecisionsFromFiles ==
    \A p \in Procs : req[p].at = "done" /\ req[p].duty = "decide" =>
        IF req[p].steady
        THEN \E f \in everLive : req[p].answer = Says(f, req[p].tenant, req[p].capability, req[p].risk)
        ELSE \/ req[p].answer \in {"BLOCK", "error"}
             \/ \E f \in everLive :
                   req[p].answer \in Mentions(f, req[p].tenant, req[p].capability, req[p].risk)
=============================================================================
