--------------------------- MODULE IdentityStores ---------------------------
(***************************************************************************)
(* Who a caller is: the API keys of core/auth.py and the tenants of        *)
(* core/tenancy.py, each a file and the store a process loads from it.     *)
(*                                                                         *)
(*   - KeyStore.load builds the new dictionary under a lock that lookups   *)
(*     take too, and swaps it in: one step here.  A file it cannot read    *)
(*     leaves the keys as they were.                                       *)
(*   - TenantStore.load takes no lock, empties the dictionary first and    *)
(*     fills it tenant by tenant; an unknown tenant is the active default. *)
(*   - scripts/manage_api_keys.py reads the key file, changes its copy and *)
(*     writes the whole file back, truncating it first.  Operators do not  *)
(*     wait for each other.                                                *)
(***************************************************************************)
EXTENDS Naturals, FiniteSets

CONSTANTS
    Procs,          \* threads of the gateway
    Operators,      \* runs of the key tool
    Keys,           \* API keys (their hashes)
    Tenants,
    TenantOf,       \* the tenant a key is issued for
    Grants,         \* the capabilities a key may be issued
    FirstGrants,    \* the key files there may be at first
    TenantFiles     \* the tenant files an editor may leave

VARIABLES
    keyFile,      \* config/api_keys.json
    keyStore,     \* KeyStore: _keys, _loaded
    tool,         \* the key tool: where it is, and its copy of the file
    ledger,       \* history: what the completed commands of the tool add up to
    crossed,      \* history: two commands ran at once, or one was cut off
    tenantFile,   \* config/tenants.json
    tenantStore,  \* TenantStore: _tenants, _loaded
    tload,        \* where each thread is in TenantStore.load
    tdrift        \* history: the tenants were not loaded alone from their file

keyVars == <<keyFile, keyStore, tool, ledger, crossed>>
tenantVars == <<tenantFile, tenantStore, tload, tdrift>>
identityVars == <<keyVars, tenantVars>>

Capability == {"GENERAL", "ELEVATED", "INTERNAL"}
NotGranted == "absent"
Malformed == "bad"

KeyFiles == [readable: BOOLEAN, grants: [Keys -> Capability \union {NotGranted, Malformed}]]
NoGrants == [k \in Keys |-> NotGranted]
NoKeyFile == [readable |-> FALSE, grants |-> NoGrants]

TenantTables(values) == [Tenants -> values]
NoTenants == [t \in Tenants |-> NotGranted]
NoTenantFile == [readable |-> FALSE, status |-> NoTenants]

IdleTool == [at |-> "idle", key |-> CHOOSE k \in Keys : TRUE, grant |-> NotGranted, copy |-> NoGrants]
IdleTload == [at |-> "idle", raw |-> NoTenants, todo |-> {}]

ASSUME IdentityAssumption ==
    /\ TenantOf \in [Keys -> Tenants]
    /\ Grants \subseteq Capability
    /\ FirstGrants \subseteq [Keys -> Capability \union {NotGranted, Malformed}]
    /\ \A f \in TenantFiles : f.readable \in BOOLEAN /\
          f.status \in TenantTables({"active", "suspended", NotGranted, Malformed})

IdentityTypeOK ==
    /\ keyFile \in KeyFiles
    /\ keyStore \in [keys: [Keys -> Capability \union {NotGranted}], loaded: BOOLEAN]
    /\ \A o \in Operators :
          /\ tool[o].at \in {"idle", "truncate", "write"}
          /\ tool[o].copy \in [Keys -> Capability \union {NotGranted, Malformed}]
    /\ tenantStore \in [tenants: TenantTables({"active", "suspended", NotGranted}), loaded: BOOLEAN]
    /\ \A p \in Procs : tload[p].at \in {"idle", "clear", "read", "fill"} /\ tload[p].todo \subseteq Tenants
    /\ crossed \in BOOLEAN /\ tdrift \in BOOLEAN

IdentityInit ==
    /\ \E g \in FirstGrants : keyFile = [readable |-> TRUE, grants |-> g]
    /\ keyStore = [keys |-> NoGrants, loaded |-> FALSE]
    /\ tool = [o \in Operators |-> IdleTool]
    /\ ledger = keyFile.grants
    /\ crossed = FALSE
    /\ tenantFile \in TenantFiles
    /\ tenantStore = [tenants |-> NoTenants, loaded |-> FALSE]
    /\ tload = [p \in Procs |-> IdleTload]
    /\ tdrift = FALSE

TLoading == {p \in Procs : tload[p].at # "idle"}
Busy == {o \in Operators : tool[o].at # "idle"}

-----------------------------------------------------------------------------
\* A grant whose capability is not a known one is ignored, alone.
ParseGrants(grants) == [k \in Keys |-> IF grants[k] = Malformed THEN NotGranted ELSE grants[k]]

\* Mutant: the store is wiped before the file is known to be good.
LoadedKeysWiped(store, file) ==
    [keys |-> IF file.readable THEN ParseGrants(file.grants) ELSE NoGrants, loaded |-> TRUE]

\* KeyStore.load: the store it leaves, given the file.  A file that is missing or
\* holds no object is one without grants: every key is gone with it.
LoadedKeys(store, file) ==
    [keys |-> IF file.readable THEN ParseGrants(file.grants) ELSE store.keys, loaded |-> TRUE]

\* reload_keys.
ReloadKeys ==
    /\ keyStore' = LoadedKeys(keyStore, keyFile)
    /\ UNCHANGED <<keyFile, tool, ledger, crossed, tenantVars>>

\* KeyStore.lookup loads first; resolve_principal makes an unknown key GENERAL.
Lookups == IF keyStore.loaded THEN keyStore ELSE LoadedKeys(keyStore, keyFile)
Authenticated(k) == Lookups.keys[k] # NotGranted
Principal(k) == IF Authenticated(k) THEN Lookups.keys[k] ELSE "GENERAL"

\* manage_api_keys issue and revoke, _load: an unreadable file is not
\* overwritten; issue wants a new key, revoke a known one.
ToolStart(o, k, grant) ==
    /\ tool[o].at = "idle"
    /\ keyFile.readable
    /\ (grant = NotGranted) <=> (keyFile.grants[k] # NotGranted)
    /\ tool' = [tool EXCEPT ![o] = [at |-> "truncate", key |-> k, grant |-> grant,
                                    copy |-> [keyFile.grants EXCEPT ![k] = grant]]]
    /\ crossed' = (crossed \/ Busy # {})
    /\ UNCHANGED <<keyFile, keyStore, ledger, tenantVars>>

\* _save: open(path, "w") empties the file ...
ToolTruncate(o) ==
    /\ tool[o].at = "truncate"
    /\ keyFile' = NoKeyFile
    /\ tool' = [tool EXCEPT ![o].at = "write"]
    /\ UNCHANGED <<keyStore, ledger, crossed, tenantVars>>

\* Mutant: only the entry of the command is written.
ToolWriteOne(o) ==
    LET k == tool[o].key IN
    /\ tool[o].at = "write"
    /\ keyFile' = [readable |-> TRUE, grants |-> [NoGrants EXCEPT ![k] = tool[o].grant]]
    /\ ledger' = [ledger EXCEPT ![k] = tool[o].grant]
    /\ tool' = [tool EXCEPT ![o] = IdleTool]
    /\ UNCHANGED <<keyStore, crossed, tenantVars>>

\* ... and json.dump writes the copy, whatever the file became meanwhile.
ToolWrite(o) ==
    /\ tool[o].at = "write"
    /\ keyFile' = [readable |-> TRUE, grants |-> tool[o].copy]
    /\ ledger' = [ledger EXCEPT ![tool[o].key] = tool[o].grant]
    /\ tool' = [tool EXCEPT ![o] = IdleTool]
    /\ UNCHANGED <<keyStore, crossed, tenantVars>>

\* The command is killed; between the truncation and the write, the file stays
\* empty.
ToolDies(o) ==
    /\ tool[o].at # "idle"
    /\ tool' = [tool EXCEPT ![o] = IdleTool]
    /\ crossed' = (crossed \/ tool[o].at = "write")
    /\ UNCHANGED <<keyFile, keyStore, ledger, tenantVars>>

ToolStep(o) == ToolTruncate(o) \/ ToolWrite(o) \/ ToolDies(o)

\* Somebody moves the key file away, as the tool asks for when it is unreadable,
\* or leaves something in it that is no object: nothing is granted any more.
RemoveKeyFile ==
    /\ keyFile' = [readable |-> TRUE, grants |-> NoGrants]
    /\ ledger' = NoGrants
    /\ crossed' = (crossed \/ Busy # {})
    /\ UNCHANGED <<keyStore, tool, tenantVars>>

-----------------------------------------------------------------------------
\* TenantStore.load, by a reload or by the first get.
TenantEnter(p) ==
    /\ tload[p].at = "idle"
    /\ tload' = [tload EXCEPT ![p].at = "clear"]
    /\ tdrift' = (tdrift \/ TLoading # {})
    /\ UNCHANGED <<keyVars, tenantFile, tenantStore>>

TenantLazyLoad(p) == ~tenantStore.loaded /\ TenantEnter(p)

TenantClear(p) ==
    /\ tload[p].at = "clear"
    /\ tenantStore' = [tenants |-> NoTenants, loaded |-> TRUE]
    /\ tload' = [tload EXCEPT ![p].at = "read"]
    /\ tdrift' = (TLoading # {p})
    /\ UNCHANGED <<keyVars, tenantFile>>

\* A file that is missing, unreadable or not an object leaves no tenants.
TenantRead(p) ==
    /\ tload[p].at = "read"
    /\ tload' = [tload EXCEPT ![p] = IF tenantFile.readable
                                     THEN [at |-> "fill", raw |-> tenantFile.status, todo |-> Tenants]
                                     ELSE IdleTload]
    /\ UNCHANGED <<keyVars, tenantFile, tenantStore, tdrift>>

\* Mutant: a status that is not a valid one makes the tenant active.
ParseStatusLenient(status) == IF status = Malformed THEN "active" ELSE status

\* A tenant whose status is not a valid one is ignored, alone.
ParseStatus(status) == IF status = Malformed THEN NotGranted ELSE status

TenantFill(p, t) ==
    /\ tload[p].at = "fill"
    /\ t \in tload[p].todo
    /\ tenantStore' = [tenantStore EXCEPT !.tenants[t] =
                         IF ParseStatus(tload[p].raw[t]) = NotGranted THEN @
                         ELSE ParseStatus(tload[p].raw[t])]
    /\ tload' = [tload EXCEPT ![p] = IF @.todo = {t} THEN IdleTload ELSE [@ EXCEPT !.todo = tload[p].todo \ {t}]]
    /\ UNCHANGED <<keyVars, tenantFile, tdrift>>

TenantLoadStep(p) ==
    \/ TenantClear(p)
    \/ TenantRead(p)
    \/ \E t \in Tenants : TenantFill(p, t)

\* TenantConfig.suspended of resolve_tenant: only a loaded tenant can be.
Suspended(t) == tenantStore.tenants[t] = "suspended"

\* Somebody edits config/tenants.json; the gateway learns at the next reload.
EditTenants(file) ==
    /\ file # tenantFile
    /\ tenantFile' = file
    /\ tdrift' = TRUE
    /\ UNCHANGED <<keyVars, tenantStore, tload>>

\* The gateway's process; the key tool runs in others.
IdentityRestart ==
    /\ keyStore' = [keys |-> NoGrants, loaded |-> FALSE]
    /\ tenantStore' = [tenants |-> NoTenants, loaded |-> FALSE]
    /\ tload' = [p \in Procs |-> IdleTload]
    /\ tdrift' = FALSE
    /\ UNCHANGED <<keyFile, tool, ledger, crossed, tenantFile>>

-----------------------------------------------------------------------------
\* The status a file gives: only the valid ones count.
Status(s) == IF s \in {"active", "suspended"} THEN s ELSE NotGranted

\* A suspension in the file is in force once the store has been loaded alone from
\* a file it can read.  Nothing is promised of a file it cannot: there the code
\* forgets every suspension, although it says it fails closed.
TenantsSettled ==
    tenantStore.loaded /\ ~tdrift /\ TLoading = {} /\ tenantFile.readable =>
        \A t \in Tenants : tenantStore.tenants[t] = Status(tenantFile.status[t])

\* issue and revoke: the key file holds what the commands that ended add up to,
\* no revoked key back and no other key lost, unless two of them ran at once.
KeyFileHoldsGrants ==
    ~crossed /\ Busy = {} => keyFile = [readable |-> TRUE, grants |-> ledger]

\* KeyStore.__init__: "a perfectly valid key would resolve to a false 401" is
\* what the lock and the swap are for.  A key that the store knew is known for
\* as long as no command touches it, through reloads that meet a torn file.
NoKeyIsForgotten ==
    [][\A k \in Keys :
         /\ keyStore.loaded /\ keyStore'.loaded
         /\ keyStore.keys[k] # NotGranted
         /\ ~crossed' /\ ledger[k] = keyStore.keys[k]
         /\ \A o \in Operators : tool[o].key # k \/ tool[o].at = "idle"
         => keyStore'.keys[k] # NotGranted]_identityVars
=============================================================================
