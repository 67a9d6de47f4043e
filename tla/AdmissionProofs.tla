-------------------------- MODULE AdmissionProofs ---------------------------
(***************************************************************************)
(* The stores a request is decided by, for any number of threads, runs of  *)
(* the key tool, tenants, keys, policy files, edits and restarts.          *)
(*                                                                         *)
(* Each store has steps of its own, and a step of the gateway is at most   *)
(* one step of each store: the invariant of a store is proved over its own *)
(* steps.                                                                  *)
(***************************************************************************)
EXTENDS Admission, TLAPS

-----------------------------------------------------------------------------
\* The key file and the store of the keys.

GrantTables == [Keys -> Capability \union {NotGranted, Malformed}]
ToolRecords == [at: {"idle", "truncate", "write"}, key: Keys \union {IdleTool.key},
                grant: Capability \union {NotGranted}, copy: GrantTables]

KeyTypes ==
    /\ keyFile \in KeyFiles
    /\ keyStore \in [keys: [Keys -> Capability \union {NotGranted}], loaded: BOOLEAN]
    /\ tool \in [Operators -> ToolRecords]
    /\ ledger \in GrantTables
    /\ crossed \in BOOLEAN

\* One command at a time: its copy is the ledger with its change, and the file
\* is the ledger until the command empties it.
KeySerial ==
    /\ \A o, u \in Busy : o = u
    /\ \A o \in Busy : tool[o].copy = [ledger EXCEPT ![tool[o].key] = tool[o].grant]
    /\ (\A o \in Operators : tool[o].at # "write") => keyFile = [readable |-> TRUE, grants |-> ledger]
    /\ keyFile.readable => keyFile.grants = ledger

KeyInv == KeyTypes /\ (~crossed => KeySerial)

\* The steps of the keys.
KeyMove ==
    \/ keyStore' = Lookups /\ UNCHANGED <<keyFile, tool, ledger, crossed>>
    \/ keyStore' = LoadedKeys(keyStore, keyFile) /\ UNCHANGED <<keyFile, tool, ledger, crossed>>
    \/ \E o \in Operators, k \in Keys, g \in Grants \union {NotGranted} : ToolStart(o, k, g)
    \/ \E o \in Operators : ToolStep(o)
    \/ RemoveKeyFile
    \/ IdentityRestart

-----------------------------------------------------------------------------
\* The tenant file and the store of the tenants.

Statuses == {"active", "suspended", NotGranted}
TloadRecords == [at: {"idle", "clear", "read", "fill"}, raw: [Tenants -> Statuses \union {Malformed}],
                 todo: SUBSET Tenants]

TenantTypes ==
    /\ tenantFile \in TenantFiles
    /\ tenantStore \in [tenants: [Tenants -> Statuses], loaded: BOOLEAN]
    /\ tload \in [Procs -> TloadRecords]
    /\ tdrift \in BOOLEAN

FileStatus(t) == IF tenantFile.readable THEN Status(tenantFile.status[t]) ELSE NotGranted

\* A load that runs alone, of a file nobody edits: none is done, all are still
\* to do, or those that are not to do any more are.
TenantSerial ==
    /\ \A p, q \in TLoading : p = q
    /\ tenantStore.loaded =>
         /\ TLoading = {} => \A t \in Tenants : tenantStore.tenants[t] = FileStatus(t)
         /\ \A p \in Procs : tload[p].at = "read" => tenantStore.tenants = NoTenants
         /\ \A p \in Procs : tload[p].at = "fill" =>
              /\ tenantFile.readable /\ tload[p].raw = tenantFile.status
              /\ \A t \in Tenants :
                    tenantStore.tenants[t] = IF t \in tload[p].todo THEN NotGranted ELSE FileStatus(t)

TenantInv == TenantTypes /\ (~tdrift => TenantSerial)

TenantMove ==
    \/ \E p \in Procs : TenantEnter(p)
    \/ \E p \in Procs : TenantLoadStep(p)
    \/ \E file \in TenantFiles : EditTenants(file)
    \/ IdentityRestart

-----------------------------------------------------------------------------
\* The live policy file, its versions and the store of the policy.

LoadRecords == [at: {"idle", "clear", "read", "correct", "fill", "finish"}, raw: PolicyFiles,
                todo: SUBSET Tenants]
JobRecords == [at: {"idle", "name", "save", "truncate", "write", "reload"}, cli: BOOLEAN,
               restore: BOOLEAN, content: PolicyFiles, version: PolicyFiles, saved: PolicyFiles,
               replaced: PolicyFiles, alone: BOOLEAN]
Stores == [tenants: [Tenants -> RuleSets(ValidActions \union {Absent})],
           default_action: ValidActions \union {Bad}, usable: BOOLEAN, loaded: BOOLEAN]

PolicyTypes ==
    /\ live \in PolicyFiles
    /\ DOMAIN versions \subseteq PolicyFiles
    /\ \A v \in DOMAIN versions : versions[v] \in PolicyFiles
    /\ mem \in Stores
    /\ load \in [Procs -> LoadRecords]
    /\ job \in [Procs -> JobRecords]
    /\ \A p \in Procs : job[p].restore => job[p].version \in DOMAIN versions
    /\ everLive \subseteq PolicyFiles
    /\ mixed \in BOOLEAN
    /\ drift \in BOOLEAN

\* A command that nobody disturbs has saved, under the name it will report, the
\* file it replaces.
JobSerial ==
    \A p \in Procs : job[p].alone =>
        /\ \A q \in Procs : q # p => job[q].at = "idle"
        /\ job[p].at = "save" => job[p].saved = live
        /\ job[p].at = "truncate" =>
              live.shape = "none" \/ (job[p].saved \in DOMAIN versions /\ versions[job[p].saved] = live)
        /\ job[p].at \in {"write", "reload"} =>
              \/ job[p].replaced.shape = "none"
              \/ job[p].saved \in DOMAIN versions /\ versions[job[p].saved] = job[p].replaced

\* The store is what a load, alone, makes of this file.
Holds(f) ==
    /\ mem.tenants = Parsed(f) /\ Defined(Parsed(f)[DefaultTenant])
    /\ mem.default_action = DefaultAction(f)

\* What a load that runs alone has made of its file so far.
Staged(p) ==
    /\ load[p].at \in {"read", "correct"} => mem.tenants = Emptied /\ ~mem.usable
    /\ load[p].at = "correct" => mem.default_action = load[p].raw.default_action /\ load[p].todo = Tenants
    /\ load[p].at \in {"fill", "finish"} =>
         /\ load[p].raw.shape = "object" /\ ~mem.usable
         /\ mem.default_action = DefaultAction(load[p].raw)
         /\ load[p].at = "finish" => load[p].todo = {}
         /\ \A t \in Tenants :
               mem.tenants[t] = IF t \in load[p].todo THEN NoRules ELSE Parsed(load[p].raw)[t]

\* No loads overlapped: a store that is usable is one file's.
StoreWhole ==
    /\ \A p, q \in Loading : p = q
    /\ mem.usable => \E f \in everLive : Holds(f)
    /\ \A p \in Procs : Staged(p)

\* The live file is empty, about to be written, or a load of it is about to start.
Dirty == \E p \in Procs : job[p].at = "write" \/ load[p].at = "clear"

Enforced ==
    /\ mem.tenants = Parsed(live)
    /\ mem.usable = Defined(Parsed(live)[DefaultTenant])
    /\ mem.usable => mem.default_action = DefaultAction(live)

HasRead == {"correct", "fill", "finish"}

\* Nor did the tool write the file: the store is the live file's.
StoreSerial ==
    /\ ~mixed
    /\ mem.loaded /\ ~Dirty =>
         /\ Loading = {} => Enforced
         /\ \A p \in Procs : load[p].at \in HasRead => load[p].raw = live

\* Whatever overlaps: the store has nothing that no file ever said.
RuleFrom(t, c, r) == {Absent} \union {f.rules[t][c][r] : f \in everLive}

FromFiles ==
    /\ live = Truncated \/ live \in everLive
    /\ mem.default_action \in {"BLOCK"} \union {f.default_action : f \in everLive}
    /\ \A t \in Tenants, c \in Capabilities, r \in RiskLevels : mem.tenants[t][c][r] \in RuleFrom(t, c, r)
    /\ \A p \in Procs : load[p].at \in HasRead => load[p].raw \in everLive

PolicyInv == PolicyTypes /\ JobSerial /\ (~mixed => StoreWhole) /\ (~drift => StoreSerial) /\ FromFiles

PolicyMove ==
    \/ \E p \in Procs : LazyLoad(p)
    \/ \E p \in Procs : LoadStep(p)
    \/ \E p \in Procs : JobStep(p)
    \/ \E p \in Procs, file \in Candidates, cli \in BOOLEAN : StartDeploy(p, file, cli)
    \/ \E p \in Procs, v \in DOMAIN versions, cli \in BOOLEAN : StartRollback(p, v, cli)
    \/ PolicyRestart

-----------------------------------------------------------------------------
\* The requests.

ReqRecords == [at: {"idle", "tenant", "admin", "check", "bind", "pick", "act", "done"},
               duty: {"decide", "admin", "read"}, capability: Capability, tenant: Tenants,
               risk: RiskLevels \union {NoRisk}, own: BOOLEAN,
               rules: RuleSets(ValidActions \union {Absent}),
               answer: ValidActions \union {Bad, "none", "error"}, steady: BOOLEAN]

RulesFor(q) == \A c \in Capabilities, r \in RiskLevels :
                  q.rules[c][r] \in RuleFrom(q.tenant, c, r) \union RuleFrom(DefaultTenant, c, r)

\* The rules PolicyStore.get returns for a tenant, of a file's store.
ChosenRules(f, t) == Parsed(f)[IF Defined(Parsed(f)[t]) THEN t ELSE DefaultTenant]

\* Nobody has loaded the store under the request: it has all from one file.
Undisturbed(q) ==
    /\ q.at \in {"bind", "pick", "act", "done"}
    /\ q.at = "pick" => ~q.own
    /\ q.at \in {"bind", "pick", "act"} =>
         \E f \in everLive : Holds(f) /\ (q.at = "act" => q.rules = ChosenRules(f, q.tenant))
    /\ q.at = "done" => \E f \in everLive : q.answer = Says(f, q.tenant, q.capability, q.risk)

Mentioned(q, a) == \E f \in everLive : a \in Mentions(f, q.tenant, q.capability, q.risk)

RequestFine(q) ==
    /\ q.duty = "decide" => q.risk \in RiskLevels
    /\ q.at \in {"check", "bind", "pick", "act", "done"} => q.duty = "decide"
    /\ q.at = "act" \/ (q.at = "pick" /\ q.own) => RulesFor(q)
    /\ q.at = "done" => q.answer \in {"BLOCK", "error"} \/ Mentioned(q, q.answer)
    /\ q.steady => Undisturbed(q)

RequestInv == req \in [Procs -> ReqRecords] /\ \A p \in Procs : RequestFine(req[p])

AdmissionInv == KeyInv /\ TenantInv /\ PolicyInv /\ RequestInv

-----------------------------------------------------------------------------
\* The keys.

LEMMA KeyInitially == IdentityInit => KeyInv
<1> SUFFICES ASSUME IdentityInit PROVE KeyInv
  OBVIOUS
<1>1. PICK g \in FirstGrants : keyFile = [readable |-> TRUE, grants |-> g]
  BY DEF IdentityInit
<1>2. g \in GrantTables
  BY <1>1, IdentityAssumption DEF GrantTables
<1>3. IdleTool \in ToolRecords /\ IdleTool.at = "idle"
  BY DEF IdleTool, ToolRecords, GrantTables, NoGrants, Capability, NotGranted
<1>4. keyStore \in [keys: [Keys -> Capability \union {NotGranted}], loaded: BOOLEAN]
  BY DEF IdentityInit, NoGrants
<1>5. KeyTypes
  BY <1>1, <1>2, <1>3, <1>4 DEF KeyTypes, IdentityInit, KeyFiles, GrantTables
<1>6. Busy = {}
  BY <1>3 DEF Busy, IdentityInit
<1>7. KeySerial
  BY <1>1, <1>6 DEF KeySerial, IdentityInit
<1> QED BY <1>5, <1>7 DEF KeyInv

LEMMA LoadedKeysType ==
  ASSUME KeyTypes
  PROVE  /\ LoadedKeys(keyStore, keyFile) \in [keys: [Keys -> Capability \union {NotGranted}], loaded: BOOLEAN]
         /\ Lookups \in [keys: [Keys -> Capability \union {NotGranted}], loaded: BOOLEAN]
<1>1. keyFile.grants \in GrantTables
  BY DEF KeyTypes, KeyFiles, GrantTables
<1>2. ParseGrants(keyFile.grants) \in [Keys -> Capability \union {NotGranted}]
  BY <1>1 DEF ParseGrants, GrantTables
<1>3. keyStore.keys \in [Keys -> Capability \union {NotGranted}]
  BY DEF KeyTypes
<1>4. LoadedKeys(keyStore, keyFile) \in [keys: [Keys -> Capability \union {NotGranted}], loaded: BOOLEAN]
  BY <1>2, <1>3 DEF LoadedKeys
<1> QED BY <1>4 DEF Lookups, KeyTypes

\* The store changes, the file and the tool do not.
LEMMA KeyLookupKeeps ==
  ASSUME KeyInv, keyStore' \in {Lookups, LoadedKeys(keyStore, keyFile)},
         UNCHANGED <<keyFile, tool, ledger, crossed>>
  PROVE  KeyInv'
<1>1. KeyTypes'
  BY LoadedKeysType DEF KeyInv, KeyTypes
<1>2. ~crossed' => KeySerial'
  BY DEF KeyInv, KeySerial, Busy
<1> QED BY <1>1, <1>2 DEF KeyInv

LEMMA ToolStartKeeps ==
  ASSUME KeyInv, NEW o \in Operators, NEW k \in Keys, NEW g \in Grants \union {NotGranted},
         ToolStart(o, k, g)
  PROVE  KeyInv'
<1>0. KeyTypes /\ keyFile' = keyFile /\ ledger' = ledger /\ keyStore' = keyStore
  BY DEF KeyInv, ToolStart
<1>1. keyFile.grants \in GrantTables /\ keyFile.readable
  BY <1>0 DEF KeyTypes, KeyFiles, GrantTables, ToolStart
<1>2. g \in Capability \union {NotGranted}
  BY IdentityAssumption
<1>3. PICK copy \in GrantTables : copy = [keyFile.grants EXCEPT ![k] = g]
  BY <1>1, <1>2 DEF GrantTables
<1>4. PICK new \in ToolRecords : new = [at |-> "truncate", key |-> k, grant |-> g, copy |-> copy]
  BY <1>2, <1>3 DEF ToolRecords
<1>5. tool' = [tool EXCEPT ![o] = new]
  BY <1>3, <1>4 DEF ToolStart
<1>6. tool' \in [Operators -> ToolRecords] /\ tool'[o] = new /\ \A u \in Operators : u # o => tool'[u] = tool[u]
  BY <1>0, <1>5 DEF KeyTypes
<1>7. KeyTypes'
  BY <1>0, <1>6 DEF KeyTypes, ToolStart
<1>8. ASSUME ~crossed' PROVE KeySerial'
  <2>1. ~crossed /\ Busy = {}
    BY <1>8 DEF ToolStart
  <2>2. KeySerial
    BY <2>1 DEF KeyInv
  <2>3. \A u \in Operators : tool[u].at = "idle"
    BY <2>1 DEF Busy
  <2>4. keyFile = [readable |-> TRUE, grants |-> ledger]
    BY <2>2, <2>3 DEF KeySerial
  <2>5. Busy' = {o}
    BY <1>4, <1>6, <2>3 DEF Busy
  <2>6. tool'[o].copy = [ledger EXCEPT ![k] = g] /\ tool'[o].key = k /\ tool'[o].grant = g
    BY <1>3, <1>4, <1>6, <2>4
  <2> QED BY <1>0, <2>4, <2>5, <2>6 DEF KeySerial
<1> QED BY <1>7, <1>8 DEF KeyInv

LEMMA ToolTruncateKeeps ==
  ASSUME KeyInv, NEW o \in Operators, ToolTruncate(o)
  PROVE  KeyInv'
<1>0. KeyTypes /\ keyFile' = NoKeyFile /\ ledger' = ledger /\ keyStore' = keyStore /\ crossed' = crossed
      /\ tool[o].at = "truncate"
  BY DEF KeyInv, ToolTruncate
<1>1. tool' = [tool EXCEPT ![o].at = "write"]
  BY DEF ToolTruncate
<1>2. /\ tool' \in [Operators -> ToolRecords] /\ tool'[o].at = "write"
      /\ tool'[o].copy = tool[o].copy /\ tool'[o].key = tool[o].key /\ tool'[o].grant = tool[o].grant
      /\ \A u \in Operators : u # o => tool'[u] = tool[u]
  BY <1>0, <1>1 DEF KeyTypes, ToolRecords
<1>3. NoKeyFile \in KeyFiles /\ ~NoKeyFile.readable
  BY DEF NoKeyFile, KeyFiles, NoGrants
<1>4. KeyTypes'
  BY <1>0, <1>2, <1>3 DEF KeyTypes
<1>5. ASSUME ~crossed' PROVE KeySerial'
  <2>1. KeySerial
    BY <1>0, <1>5 DEF KeyInv
  <2>2. Busy' = Busy
    BY <1>0, <1>2 DEF Busy
  <2>3. \A u \in Busy : tool'[u].copy = [ledger EXCEPT ![tool'[u].key] = tool'[u].grant]
    BY <1>2, <2>1 DEF KeySerial, Busy
  <2> QED BY <1>0, <1>2, <1>3, <2>1, <2>2, <2>3 DEF KeySerial
<1> QED BY <1>4, <1>5 DEF KeyInv

LEMMA ToolWriteKeeps ==
  ASSUME KeyInv, NEW o \in Operators, ToolWrite(o)
  PROVE  KeyInv'
<1>0. KeyTypes /\ keyFile' = [readable |-> TRUE, grants |-> tool[o].copy] /\ keyStore' = keyStore
      /\ crossed' = crossed /\ tool[o].at = "write" /\ tool' = [tool EXCEPT ![o] = IdleTool]
      /\ ledger' = [ledger EXCEPT ![tool[o].key] = tool[o].grant]
  BY DEF KeyInv, ToolWrite
<1>1. IdleTool \in ToolRecords /\ IdleTool.at = "idle"
  BY DEF IdleTool, ToolRecords, GrantTables, NoGrants
<1>2. /\ tool' \in [Operators -> ToolRecords] /\ tool'[o].at = "idle"
      /\ \A u \in Operators : u # o => tool'[u] = tool[u]
  BY <1>0, <1>1 DEF KeyTypes
<1>3. tool[o] \in ToolRecords
  BY <1>0 DEF KeyTypes
<1>4. tool[o].copy \in GrantTables /\ tool[o].grant \in Capability \union {NotGranted}
  BY <1>3 DEF ToolRecords
<1>5. keyFile' \in KeyFiles
  BY <1>0, <1>4 DEF KeyFiles, GrantTables
<1>6. ledger' \in GrantTables
  BY <1>0, <1>4 DEF KeyTypes, GrantTables
<1>7. KeyTypes'
  BY <1>0, <1>2, <1>5, <1>6 DEF KeyTypes
<1>8. ASSUME ~crossed' PROVE KeySerial'
  <2>1. KeySerial
    BY <1>0, <1>8 DEF KeyInv
  <2>2. o \in Busy
    BY <1>0 DEF Busy
  <2>3. \A u \in Operators : u # o => tool[u].at = "idle"
    BY <2>1, <2>2 DEF KeySerial, Busy
  <2>4. Busy' = {}
    BY <1>2, <2>3 DEF Busy
  <2>5. ledger' = tool[o].copy
    BY <1>0, <2>1, <2>2 DEF KeySerial
  <2> QED BY <1>0, <2>4, <2>5 DEF KeySerial
<1> QED BY <1>7, <1>8 DEF KeyInv

LEMMA ToolDiesKeeps ==
  ASSUME KeyInv, NEW o \in Operators, ToolDies(o)
  PROVE  KeyInv'
<1>0. KeyTypes /\ keyFile' = keyFile /\ ledger' = ledger /\ keyStore' = keyStore
      /\ tool' = [tool EXCEPT ![o] = IdleTool] /\ tool[o].at # "idle"
  BY DEF KeyInv, ToolDies
<1>1. IdleTool \in ToolRecords /\ IdleTool.at = "idle"
  BY DEF IdleTool, ToolRecords, GrantTables, NoGrants
<1>2. /\ tool' \in [Operators -> ToolRecords] /\ tool'[o].at = "idle"
      /\ \A u \in Operators : u # o => tool'[u] = tool[u]
  BY <1>0, <1>1 DEF KeyTypes
<1>3. KeyTypes'
  BY <1>0, <1>2 DEF KeyTypes, ToolDies
<1>4. ASSUME ~crossed' PROVE KeySerial'
  <2>1. KeySerial /\ tool[o].at # "write"
    BY <1>4 DEF KeyInv, ToolDies
  <2>2. \A u \in Operators : u # o => tool[u].at = "idle"
    BY <1>0, <2>1 DEF KeySerial, Busy
  <2>3. keyFile = [readable |-> TRUE, grants |-> ledger]
    BY <2>1, <2>2 DEF KeySerial
  <2>4. Busy' = {}
    BY <1>2, <2>2 DEF Busy
  <2> QED BY <1>0, <2>3, <2>4 DEF KeySerial
<1> QED BY <1>3, <1>4 DEF KeyInv

LEMMA RemoveKeyFileKeeps ==
  ASSUME KeyInv, RemoveKeyFile
  PROVE  KeyInv'
<1>0. KeyTypes /\ keyFile' = [readable |-> TRUE, grants |-> NoGrants] /\ ledger' = NoGrants
      /\ keyStore' = keyStore /\ tool' = tool
  BY DEF KeyInv, RemoveKeyFile
<1>1. NoGrants \in GrantTables
  BY DEF NoGrants, GrantTables
<1>2. KeyTypes'
  BY <1>0, <1>1 DEF KeyTypes, KeyFiles, GrantTables, RemoveKeyFile
<1>3. ASSUME ~crossed' PROVE KeySerial'
  <2>1. Busy = {}
    BY <1>3 DEF RemoveKeyFile
  <2>2. Busy' = {}
    BY <1>0, <2>1 DEF Busy
  <2> QED BY <1>0, <2>2 DEF KeySerial
<1> QED BY <1>2, <1>3 DEF KeyInv

\* The tool goes on while the gateway is restarted.
LEMMA KeyRestartKeeps ==
  ASSUME KeyInv, IdentityRestart
  PROVE  KeyInv'
<1>0. KeyTypes /\ UNCHANGED <<keyFile, tool, ledger, crossed>>
      /\ keyStore' = [keys |-> NoGrants, loaded |-> FALSE]
  BY DEF KeyInv, IdentityRestart
<1>1. keyStore' \in [keys: [Keys -> Capability \union {NotGranted}], loaded: BOOLEAN]
  BY <1>0 DEF NoGrants
<1>2. KeyTypes'
  BY <1>0, <1>1 DEF KeyTypes
<1>3. ~crossed' => KeySerial'
  BY <1>0 DEF KeyInv, KeySerial, Busy
<1> QED BY <1>2, <1>3 DEF KeyInv

LEMMA KeyMoveKeeps ==
  ASSUME KeyInv, KeyMove \/ UNCHANGED keyVars
  PROVE  KeyInv'
<1>1. CASE UNCHANGED keyVars
  BY <1>1 DEF keyVars, KeyInv, KeyTypes, KeySerial, Busy
<1>2. CASE KeyMove
  BY <1>2, KeyLookupKeeps, ToolStartKeeps, ToolTruncateKeeps, ToolWriteKeeps, ToolDiesKeeps,
     RemoveKeyFileKeeps, KeyRestartKeeps DEF KeyMove, ToolStep
<1> QED BY <1>1, <1>2

\* A key the store knew, that the file still grants, is known after every step.
LEMMA KeyMoveRemembers ==
  ASSUME KeyInv, KeyMove \/ UNCHANGED keyVars, NEW k \in Keys,
         keyStore.loaded, keyStore'.loaded, keyStore.keys[k] # NotGranted,
         ~crossed', ledger[k] = keyStore.keys[k]
  PROVE  keyStore'.keys[k] # NotGranted
<1>0. KeyTypes
  BY DEF KeyInv
<1>1. CASE keyStore' = keyStore
  BY <1>1
<1>2. CASE keyStore' = LoadedKeys(keyStore, keyFile) /\ UNCHANGED <<keyFile, tool, ledger, crossed>>
  <2>1. KeySerial
    BY <1>2 DEF KeyInv
  <2>2. CASE ~keyFile.readable
    BY <1>2, <2>2 DEF LoadedKeys
  <2>3. CASE keyFile.readable
    <3>1. keyFile.grants[k] = keyStore.keys[k]
      BY <2>1, <2>3 DEF KeySerial
    <3>2. keyStore.keys[k] \in Capability \union {NotGranted}
      BY <1>0 DEF KeyTypes
    <3>3. keyFile.grants[k] # Malformed
      BY <3>1, <3>2 DEF Capability, NotGranted, Malformed
    <3>4. keyStore'.keys = ParseGrants(keyFile.grants)
      BY <1>2, <2>3 DEF LoadedKeys
    <3> QED BY <3>1, <3>3, <3>4 DEF ParseGrants
  <2> QED BY <2>2, <2>3
<1>3. CASE IdentityRestart
  BY <1>3 DEF IdentityRestart
<1>4. CASE keyStore' = Lookups
  BY <1>1, <1>4 DEF Lookups
<1> QED BY <1>1, <1>2, <1>3, <1>4 DEF KeyMove, keyVars, ToolStart, ToolStep, ToolTruncate, ToolWrite,
                                           ToolDies, RemoveKeyFile

-----------------------------------------------------------------------------
\* The tenants.

LEMMA IdleTloadType == IdleTload \in TloadRecords /\ IdleTload.at = "idle"
  BY DEF IdleTload, TloadRecords, NoTenants, Statuses

LEMMA EmptyTenantStore ==
  /\ [tenants |-> NoTenants, loaded |-> FALSE] \in [tenants: [Tenants -> Statuses], loaded: BOOLEAN]
  /\ [tenants |-> NoTenants, loaded |-> TRUE] \in [tenants: [Tenants -> Statuses], loaded: BOOLEAN]
  BY DEF NoTenants, Statuses

LEMMA TenantFileType ==
  ASSUME NEW f \in TenantFiles
  PROVE  f.readable \in BOOLEAN /\ f.status \in [Tenants -> Statuses \union {Malformed}]
  BY IdentityAssumption DEF TenantTables, Statuses

LEMMA TenantInitially == IdentityInit => TenantInv
<1> SUFFICES ASSUME IdentityInit PROVE TenantInv
  OBVIOUS
<1>1. TenantTypes
  BY IdleTloadType, EmptyTenantStore DEF TenantTypes, IdentityInit
<1>2. TLoading = {} /\ ~tenantStore.loaded
  BY IdleTloadType DEF TLoading, IdentityInit
<1> QED BY <1>1, <1>2 DEF TenantInv, TenantSerial

LEMMA TenantEnterKeeps ==
  ASSUME TenantInv, NEW p \in Procs, TenantEnter(p)
  PROVE  TenantInv'
<1>0. TenantTypes /\ tenantFile' = tenantFile /\ tenantStore' = tenantStore
      /\ tload' = [tload EXCEPT ![p].at = "clear"]
  BY DEF TenantInv, TenantEnter
<1>1. /\ tload' \in [Procs -> TloadRecords] /\ tload'[p].at = "clear"
      /\ \A q \in Procs : q # p => tload'[q] = tload[q]
  BY <1>0 DEF TenantTypes, TloadRecords
<1>2. TenantTypes'
  BY <1>0, <1>1 DEF TenantTypes, TenantEnter
<1>3. ASSUME ~tdrift' PROVE TenantSerial'
  <2>1. TLoading = {}
    BY <1>3 DEF TenantEnter
  <2>2. TLoading' = {p}
    BY <1>1, <2>1 DEF TLoading
  <2>3. \A q \in Procs : tload'[q].at \notin {"read", "fill"}
    BY <1>1, <2>1 DEF TLoading
  <2> QED BY <2>2, <2>3 DEF TenantSerial
<1> QED BY <1>2, <1>3 DEF TenantInv

LEMMA TenantClearKeeps ==
  ASSUME TenantInv, NEW p \in Procs, TenantClear(p)
  PROVE  TenantInv'
<1>0. TenantTypes /\ tenantFile' = tenantFile /\ tenantStore' = [tenants |-> NoTenants, loaded |-> TRUE]
      /\ tload' = [tload EXCEPT ![p].at = "read"]
  BY DEF TenantInv, TenantClear
<1>1. /\ tload' \in [Procs -> TloadRecords] /\ tload'[p].at = "read"
      /\ \A q \in Procs : q # p => tload'[q] = tload[q]
  BY <1>0 DEF TenantTypes, TloadRecords
<1>2. TenantTypes'
  BY <1>0, <1>1, EmptyTenantStore DEF TenantTypes, TenantClear
<1>3. ASSUME ~tdrift' PROVE TenantSerial'
  <2>1. TLoading = {p}
    BY <1>3 DEF TenantClear
  <2>2. TLoading' = {p}
    BY <1>1, <2>1 DEF TLoading
  <2>3. \A q \in Procs : tload'[q].at # "fill"
    BY <1>1, <2>1 DEF TLoading
  <2>4. tenantStore'.tenants = NoTenants
    BY <1>0
  <2> QED BY <2>2, <2>3, <2>4 DEF TenantSerial
<1> QED BY <1>2, <1>3 DEF TenantInv

LEMMA TenantReadKeeps ==
  ASSUME TenantInv, NEW p \in Procs, TenantRead(p)
  PROVE  TenantInv'
<1>0. TenantTypes /\ tenantFile' = tenantFile /\ tenantStore' = tenantStore /\ tdrift' = tdrift
      /\ tload[p].at = "read"
  BY DEF TenantInv, TenantRead
<1>1. PICK new : new = IF tenantFile.readable THEN [at |-> "fill", raw |-> tenantFile.status, todo |-> Tenants]
                       ELSE IdleTload
  OBVIOUS
<1>2. new \in TloadRecords
  BY <1>0, <1>1, IdleTloadType, TenantFileType DEF TenantTypes, TloadRecords
<1>3. tload' = [tload EXCEPT ![p] = new]
  BY <1>1 DEF TenantRead
<1>4. /\ tload' \in [Procs -> TloadRecords] /\ tload'[p] = new
      /\ \A q \in Procs : q # p => tload'[q] = tload[q]
  BY <1>0, <1>2, <1>3 DEF TenantTypes
<1>5. TenantTypes'
  BY <1>0, <1>4 DEF TenantTypes
<1>6. ASSUME ~tdrift' PROVE TenantSerial'
  <2>1. TenantSerial /\ p \in TLoading
    BY <1>0, <1>6 DEF TenantInv, TLoading
  <2>2. \A q \in Procs : q # p => tload[q].at = "idle"
    BY <2>1 DEF TenantSerial, TLoading
  <2>3. TLoading' \subseteq {p}
    BY <1>4, <2>2 DEF TLoading
  <2>4. ASSUME tenantStore.loaded
        PROVE  tenantStore.tenants = NoTenants /\ \A t \in Tenants : tenantStore.tenants[t] = NotGranted
    BY <1>0, <2>1, <2>4 DEF TenantSerial, NoTenants
  <2>5. CASE tenantFile.readable
    <3>1. tload'[p].at = "fill" /\ tload'[p].raw = tenantFile.status /\ tload'[p].todo = Tenants
      BY <1>1, <1>4, <2>5
    <3>2. p \in TLoading'
      BY <3>1 DEF TLoading
    <3> QED BY <1>0, <1>4, <2>2, <2>3, <2>4, <2>5, <3>1, <3>2 DEF TenantSerial
  <2>6. CASE ~tenantFile.readable
    <3>1. tload'[p].at = "idle"
      BY <1>1, <1>4, <2>6, IdleTloadType
    <3>2. \A q \in Procs : tload'[q].at = "idle"
      BY <1>4, <2>2, <3>1
    <3>3. \A t \in Tenants : FileStatus(t)' = NotGranted
      BY <1>0, <2>6 DEF FileStatus
    <3> QED BY <1>0, <2>3, <2>4, <3>2, <3>3 DEF TenantSerial
  <2> QED BY <2>5, <2>6
<1> QED BY <1>5, <1>6 DEF TenantInv

LEMMA ParsedStatus ==
  ASSUME NEW s \in Statuses \union {Malformed}
  PROVE  ParseStatus(s) = Status(s) /\ ParseStatus(s) \in Statuses
  BY DEF ParseStatus, Status, Statuses, Malformed, NotGranted

LEMMA TenantFillKeeps ==
  ASSUME TenantInv, NEW p \in Procs, NEW t \in Tenants, TenantFill(p, t)
  PROVE  TenantInv'
<1>0. TenantTypes /\ tenantFile' = tenantFile /\ tdrift' = tdrift /\ tload[p].at = "fill" /\ t \in tload[p].todo
  BY DEF TenantInv, TenantFill
<1>1. PICK old \in TloadRecords : old = tload[p] /\ old.raw[t] \in Statuses \union {Malformed}
                                  /\ old.todo \subseteq Tenants /\ old.at = "fill"
  BY <1>0 DEF TenantTypes, TloadRecords
<1>2. PICK s \in Statuses : s = ParseStatus(old.raw[t]) /\ s = Status(old.raw[t])
  BY <1>1, ParsedStatus
<1>3. PICK tenants \in [Tenants -> Statuses] : tenants = tenantStore.tenants
  BY <1>0 DEF TenantTypes
<1>4. tenantStore' = [tenantStore EXCEPT !.tenants[t] = IF s = NotGranted THEN @ ELSE s]
  BY <1>1, <1>2 DEF TenantFill
<1>5. /\ tenantStore' \in [tenants: [Tenants -> Statuses], loaded: BOOLEAN]
      /\ tenantStore'.loaded = tenantStore.loaded
      /\ tenantStore'.tenants[t] = IF s = NotGranted THEN tenants[t] ELSE s
      /\ \A u \in Tenants : u # t => tenantStore'.tenants[u] = tenants[u]
  BY <1>0, <1>3, <1>4 DEF TenantTypes
<1>6. PICK new : new = IF old.todo = {t} THEN IdleTload ELSE [old EXCEPT !.todo = old.todo \ {t}]
  OBVIOUS
<1>7. /\ new \in TloadRecords
      /\ old.todo # {t} => new.at = "fill" /\ new.todo = old.todo \ {t} /\ new.raw = old.raw
  BY <1>1, <1>6, IdleTloadType DEF TloadRecords
<1>8. tload' = [tload EXCEPT ![p] = new]
  BY <1>1, <1>6 DEF TenantFill
<1>9. /\ tload' \in [Procs -> TloadRecords] /\ tload'[p] = new
      /\ \A q \in Procs : q # p => tload'[q] = tload[q]
  BY <1>0, <1>7, <1>8 DEF TenantTypes
<1>10. TenantTypes'
  BY <1>0, <1>5, <1>9 DEF TenantTypes
<1>11. ASSUME ~tdrift' PROVE TenantSerial'
  <2>1. TenantSerial /\ p \in TLoading
    BY <1>0, <1>11 DEF TenantInv, TLoading
  <2>2. \A q \in Procs : q # p => tload[q].at = "idle"
    BY <2>1 DEF TenantSerial, TLoading
  <2>3. TLoading' \subseteq {p}
    BY <1>9, <2>2 DEF TLoading
  <2>4. ASSUME tenantStore.loaded
        PROVE  /\ tenantFile.readable /\ old.raw = tenantFile.status
               /\ \A u \in Tenants : tenantStore'.tenants[u] =
                     IF u \in old.todo \ {t} THEN NotGranted ELSE FileStatus(u)
    <3>1. tenantFile.readable /\ old.raw = tenantFile.status
          /\ \A u \in Tenants : tenants[u] = IF u \in old.todo THEN NotGranted ELSE FileStatus(u)
      BY <1>0, <1>1, <1>3, <2>1, <2>4 DEF TenantSerial
    <3>2. FileStatus(t) = s /\ tenants[t] = NotGranted
      BY <1>0, <1>1, <1>2, <3>1 DEF FileStatus
    <3>3. tenantStore'.tenants[t] = FileStatus(t)
      BY <1>5, <3>2
    <3> QED BY <1>5, <3>1, <3>3
  <2>5. \A u \in Tenants : FileStatus(u)' = FileStatus(u)
    BY <1>0 DEF FileStatus
  <2>6. CASE old.todo = {t}
    <3>1. \A q \in Procs : tload'[q].at = "idle"
      BY <1>6, <1>9, <2>2, <2>6, IdleTloadType
    <3>2. tenantStore'.loaded => \A u \in Tenants : tenantStore'.tenants[u] = FileStatus(u)'
      BY <1>5, <2>4, <2>5, <2>6
    <3> QED BY <2>3, <3>1, <3>2 DEF TenantSerial
  <2>7. CASE old.todo # {t}
    <3>1. tload'[p].at = "fill" /\ tload'[p].raw = old.raw /\ tload'[p].todo = old.todo \ {t} /\ p \in TLoading'
      BY <1>7, <1>9, <2>7 DEF TLoading
    <3>2. \A q \in Procs : tload'[q].at # "read" /\ (tload'[q].at = "fill" => q = p)
      BY <1>9, <2>2, <3>1
    <3>3. tenantStore'.loaded =>
            /\ tenantFile'.readable /\ tload'[p].raw = tenantFile'.status
            /\ \A u \in Tenants :
                  tenantStore'.tenants[u] = IF u \in tload'[p].todo THEN NotGranted ELSE FileStatus(u)'
      BY <1>0, <1>5, <2>4, <2>5, <3>1
    <3> QED BY <2>3, <3>1, <3>2, <3>3 DEF TenantSerial
  <2> QED BY <2>6, <2>7
<1> QED BY <1>10, <1>11 DEF TenantInv

LEMMA TenantMoveKeeps ==
  ASSUME TenantInv, TenantMove \/ UNCHANGED tenantVars
  PROVE  TenantInv'
<1>1. CASE UNCHANGED tenantVars
  BY <1>1 DEF tenantVars, TenantInv, TenantTypes, TenantSerial, TLoading, FileStatus
<1>2. ASSUME NEW file \in TenantFiles, EditTenants(file) PROVE TenantInv'
  BY <1>2 DEF EditTenants, TenantInv, TenantTypes
<1>3. CASE IdentityRestart
  <2>1. TenantTypes'
    BY <1>3, IdleTloadType, EmptyTenantStore DEF TenantTypes, TenantInv, IdentityRestart
  <2>2. TLoading' = {} /\ ~tenantStore'.loaded
    BY <1>3, IdleTloadType DEF TLoading, IdentityRestart
  <2> QED BY <2>1, <2>2 DEF TenantInv, TenantSerial
<1> QED BY <1>1, <1>2, <1>3, TenantEnterKeeps, TenantClearKeeps, TenantReadKeeps, TenantFillKeeps
        DEF TenantMove, TenantLoadStep

-----------------------------------------------------------------------------
\* The policy: what its records are.

CleanRules == RuleSets(ValidActions \union {Absent})

LEMMA EmptyTypes ==
  /\ NoRules \in CleanRules /\ NoRules \in RuleSets(ValidActions \union {Absent, Bad})
  /\ Emptied \in [Tenants -> CleanRules] /\ \A t \in Tenants : Emptied[t] = NoRules
  /\ ~Defined(NoRules)
  BY DEF NoRules, Emptied, CleanRules, RuleSets, Defined

LEMMA TruncatedType ==
  /\ Truncated \in PolicyFiles /\ Truncated.shape = "unreadable"
  /\ NoVersion \in PolicyFiles
<1>1. Emptied \in [Tenants -> RuleSets(ValidActions \union {Absent, Bad})]
  BY EmptyTypes DEF Emptied
<1>2. Truncated \in PolicyFiles /\ Truncated.shape = "unreadable"
  BY <1>1 DEF Truncated, PolicyFiles, ValidActions
<1> QED BY <1>2 DEF NoVersion, PolicyFiles

LEMMA IdleTypes ==
  /\ IdleLoad \in LoadRecords /\ IdleLoad.at = "idle"
  /\ IdleJob \in JobRecords /\ IdleJob.at = "idle" /\ ~IdleJob.alone /\ ~IdleJob.restore
  BY TruncatedType DEF IdleLoad, IdleJob, LoadRecords, JobRecords

LEMMA UnloadedType == Unloaded \in Stores /\ ~Unloaded.loaded /\ Unloaded.default_action = "BLOCK"
                      /\ Unloaded.tenants = Emptied /\ ~Unloaded.usable
  BY EmptyTypes DEF Unloaded, Stores, CleanRules, ValidActions

LEMMA DefaultActionType ==
  ASSUME NEW f \in PolicyFiles
  PROVE  /\ f.default_action \in ValidActions \union {Bad}
         /\ DefaultAction(f) \in ValidActions /\ DefaultAction(f) \in {"BLOCK", f.default_action}
  BY DEF DefaultAction, PolicyFiles, ValidActions

LEMMA EntryParsed ==
  ASSUME NEW rules \in RuleSets(ValidActions \union {Absent, Bad})
  PROVE  /\ ParseTenantEntry(rules) \in CleanRules
         /\ \A c \in Capabilities, r \in RiskLevels : ParseTenantEntry(rules)[c][r] \in {Absent, rules[c][r]}
         /\ ~Defined(ParseTenantEntry(rules)) => ParseTenantEntry(rules) = NoRules
<1>1. ParseTenantEntry(rules) \in CleanRules
  BY DEF ParseTenantEntry, CleanRules, RuleSets, Bad, Absent, ValidActions
<1>2. \A c \in Capabilities, r \in RiskLevels : ParseTenantEntry(rules)[c][r] \in {Absent, rules[c][r]}
  BY DEF ParseTenantEntry
<1>3. ASSUME ~Defined(ParseTenantEntry(rules)) PROVE ParseTenantEntry(rules) = NoRules
  <2>1. PICK e \in CleanRules : e = ParseTenantEntry(rules)
    BY <1>1
  <2>2. \A c \in Capabilities, r \in RiskLevels : e[c][r] = Absent
    BY <1>3, <2>1 DEF Defined
  <2>3. \A c \in Capabilities : e[c] = [r \in RiskLevels |-> Absent]
    BY <2>2 DEF CleanRules, RuleSets
  <2>4. e = [c \in Capabilities |-> [r \in RiskLevels |-> Absent]]
    BY <2>3 DEF CleanRules, RuleSets
  <2> QED BY <2>1, <2>4 DEF NoRules
<1> QED BY <1>1, <1>2, <1>3

LEMMA FileRules ==
  ASSUME NEW f \in PolicyFiles, NEW t \in Tenants
  PROVE  f.rules[t] \in RuleSets(ValidActions \union {Absent, Bad})
  BY DEF PolicyFiles

-----------------------------------------------------------------------------
\* What the parts of the invariant do not notice.

LEMMA FromFilesGrows ==
  ASSUME FromFiles, everLive \subseteq everLive', mem' = mem,
         live' = Truncated \/ live' \in everLive',
         \A p \in Procs : load'[p].at \in HasRead => load'[p] = load[p]
  PROVE  FromFiles'
<1>1. \A t, c, r : RuleFrom(t, c, r) \subseteq RuleFrom(t, c, r)'
  BY DEF RuleFrom
<1>2. \A t \in Tenants, c \in Capabilities, r \in RiskLevels : mem'.tenants[t][c][r] \in RuleFrom(t, c, r)'
  BY <1>1 DEF FromFiles
<1>3. mem'.default_action \in {"BLOCK"} \union {f.default_action : f \in everLive'}
  BY DEF FromFiles
<1>4. \A p \in Procs : load'[p].at \in HasRead => load'[p].raw \in everLive'
  BY DEF FromFiles
<1> QED BY <1>2, <1>3, <1>4 DEF FromFiles

LEMMA WholeUndisturbed ==
  ASSUME StoreWhole, mem' = mem, load' = load, everLive \subseteq everLive'
  PROVE  StoreWhole'
<1>1. Loading' = Loading /\ (\A f : Holds(f) => Holds(f)') /\ \A p \in Procs : Staged(p) => Staged(p)'
  BY DEF Loading, Holds, Staged
<1> QED BY <1>1 DEF StoreWhole

LEMMA StoreUndisturbed ==
  ASSUME StoreSerial, mem' = mem, load' = load, live' = live, mixed' = mixed, Dirty => Dirty'
  PROVE  StoreSerial'
<1>1. Loading' = Loading /\ (Enforced <=> Enforced')
  BY DEF Loading, Enforced
<1> QED BY <1>1 DEF StoreSerial

LEMMA JobsUndisturbed ==
  ASSUME JobSerial, job' = job, versions' = versions, live' = live
  PROVE  JobSerial'
  BY DEF JobSerial

\* Whoever works while another job is alone is that job.
LEMMA WorksAlone ==
  ASSUME JobSerial, NEW p \in Procs, NEW q \in Procs, job[p].at # "idle", job[q].alone
  PROVE  p = q
  BY DEF JobSerial

-----------------------------------------------------------------------------
LEMMA PolicyInitially == PolicyInit => PolicyInv
<1> SUFFICES ASSUME PolicyInit PROVE PolicyInv
  OBVIOUS
<1>1. live \in PolicyFiles
  BY PolicyAssumption DEF PolicyInit
<1>2. PolicyTypes
  BY <1>1, IdleTypes, UnloadedType DEF PolicyTypes, PolicyInit
<1>3. JobSerial
  BY IdleTypes DEF JobSerial, PolicyInit
<1>4. StoreSerial
  BY IdleTypes, UnloadedType DEF StoreSerial, Loading, PolicyInit
<1>6. StoreWhole
  BY IdleTypes, UnloadedType DEF StoreWhole, Staged, Loading, PolicyInit
<1>5. FromFiles
  <2>1. \A t \in Tenants, c \in Capabilities, r \in RiskLevels : mem.tenants[t][c][r] = Absent
    BY UnloadedType, EmptyTypes DEF PolicyInit, NoRules
  <2> QED BY <2>1, IdleTypes, UnloadedType DEF FromFiles, RuleFrom, PolicyInit, HasRead
<1> QED BY <1>2, <1>3, <1>4, <1>6, <1>5 DEF PolicyInv

LEMMA PolicyRestartKeeps ==
  ASSUME PolicyInv, PolicyRestart
  PROVE  PolicyInv'
<1>1. PolicyTypes'
  BY IdleTypes, UnloadedType DEF PolicyInv, PolicyTypes, PolicyRestart
<1>2. JobSerial'
  BY IdleTypes DEF JobSerial, PolicyRestart
<1>3. StoreSerial'
  BY IdleTypes, UnloadedType DEF StoreSerial, Loading, PolicyRestart
<1>5. StoreWhole'
  BY IdleTypes, UnloadedType DEF StoreWhole, Staged, Loading, PolicyRestart
<1>4. FromFiles'
  <2>1. \A t \in Tenants, c \in Capabilities, r \in RiskLevels : mem'.tenants[t][c][r] = Absent
    BY UnloadedType, EmptyTypes DEF PolicyRestart, NoRules
  <2> QED BY <2>1, IdleTypes, UnloadedType DEF FromFiles, RuleFrom, PolicyRestart, PolicyInv, HasRead
<1> QED BY <1>1, <1>2, <1>3, <1>5, <1>4 DEF PolicyInv

LEMMA EnterLoadIs ==
  ASSUME PolicyInv, NEW p \in Procs, EnterLoad(p), mem' = mem, everLive \subseteq everLive'
  PROVE  /\ load' \in [Procs -> LoadRecords] /\ load'[p].at = "clear"
         /\ \A q \in Procs : q # p => load'[q] = load[q]
         /\ mixed' \in BOOLEAN /\ drift' \in BOOLEAN
         /\ ~mixed' => StoreWhole'
         /\ ~drift' => StoreSerial'
<1>1. /\ load' \in [Procs -> LoadRecords] /\ load'[p].at = "clear"
      /\ \A q \in Procs : q # p => load'[q] = load[q]
  BY DEF PolicyInv, PolicyTypes, EnterLoad, LoadRecords
<1>2. mixed' \in BOOLEAN /\ drift' \in BOOLEAN
  BY DEF EnterLoad
<1>3. ASSUME Loading = {} PROVE Loading' = {p} /\ \A q \in Procs : Staged(q)'
  BY <1>1, <1>3 DEF Loading, Staged
<1>4. ASSUME ~mixed' PROVE StoreWhole'
  <2>1. Loading = {} /\ StoreWhole
    BY <1>4 DEF EnterLoad, PolicyInv
  <2>2. \A f : Holds(f) => Holds(f)'
    BY DEF Holds
  <2> QED BY <1>3, <2>1, <2>2 DEF StoreWhole
<1>5. ASSUME ~drift' PROVE StoreSerial'
  <2>1. Loading = {} /\ StoreSerial
    BY <1>5 DEF EnterLoad, PolicyInv
  <2>2. ~mixed'
    BY <2>1 DEF EnterLoad, StoreSerial
  <2>3. Dirty'
    BY <1>1 DEF Dirty
  <2> QED BY <2>2, <2>3 DEF StoreSerial
<1> QED BY <1>1, <1>2, <1>4, <1>5

LEMMA LazyLoadKeeps ==
  ASSUME PolicyInv, NEW p \in Procs, LazyLoad(p)
  PROVE  PolicyInv'
<1>0. /\ PolicyTypes /\ JobSerial /\ FromFiles
      /\ UNCHANGED <<live, versions, mem, job, everLive>> /\ EnterLoad(p)
  BY DEF PolicyInv, LazyLoad
<1>1. /\ load' \in [Procs -> LoadRecords] /\ load'[p].at = "clear"
      /\ \A q \in Procs : q # p => load'[q] = load[q]
      /\ mixed' \in BOOLEAN /\ drift' \in BOOLEAN
      /\ ~mixed' => StoreWhole'
      /\ ~drift' => StoreSerial'
  BY <1>0, EnterLoadIs
<1>2. PolicyTypes'
  BY <1>0, <1>1 DEF PolicyTypes
<1>3. JobSerial'
  BY <1>0, JobsUndisturbed
<1>4. FromFiles'
  BY <1>0, <1>1, FromFilesGrows DEF FromFiles, HasRead
<1> QED BY <1>1, <1>2, <1>3, <1>4 DEF PolicyInv

LEMMA LoadClearKeeps ==
  ASSUME PolicyInv, NEW p \in Procs, LoadClear(p)
  PROVE  PolicyInv'
<1>0. /\ PolicyTypes /\ JobSerial /\ FromFiles
      /\ UNCHANGED <<live, versions, job, everLive>>
      /\ mem' = [mem EXCEPT !.tenants = Emptied, !.usable = FALSE, !.loaded = TRUE]
      /\ load' = [load EXCEPT ![p].at = "read"]
      /\ mixed' = (Loading # {p}) /\ drift' = (Loading # {p})
  BY DEF PolicyInv, LoadClear
<1>1. /\ load' \in [Procs -> LoadRecords] /\ load'[p].at = "read"
      /\ \A q \in Procs : q # p => load'[q] = load[q]
  BY <1>0 DEF PolicyTypes, LoadRecords
<1>2. mem' \in Stores /\ mem'.tenants = Emptied /\ ~mem'.usable /\ mem'.default_action = mem.default_action
  BY <1>0, EmptyTypes DEF PolicyTypes, Stores, CleanRules
<1>3. PolicyTypes'
  BY <1>0, <1>1, <1>2 DEF PolicyTypes
<1>4. JobSerial'
  BY <1>0, JobsUndisturbed
<1>5. ASSUME Loading = {p} PROVE StoreWhole' /\ StoreSerial'
  <2>1. \A q \in Procs : q # p => load'[q].at = "idle"
    BY <1>1, <1>5 DEF Loading
  <2>2. Loading' = {p}
    BY <1>1, <2>1 DEF Loading
  <2>3. \A q \in Procs : Staged(q)'
    BY <1>1, <1>2, <2>1 DEF Staged
  <2>4. \A q \in Procs : load'[q].at \notin HasRead
    BY <1>1, <2>1 DEF HasRead
  <2>5. StoreWhole'
    BY <1>2, <2>2, <2>3 DEF StoreWhole
  <2> QED BY <1>0, <1>5, <2>2, <2>4, <2>5 DEF StoreSerial
<1>6. FromFiles'
  <2>1. \A t \in Tenants, c \in Capabilities, r \in RiskLevels : mem'.tenants[t][c][r] = Absent
    BY <1>2, EmptyTypes DEF NoRules
  <2> QED BY <1>0, <1>1, <1>2, <2>1 DEF FromFiles, RuleFrom, HasRead
<1> QED BY <1>0, <1>3, <1>4, <1>5, <1>6 DEF PolicyInv

\* A load that ends takes its job with it.
LEMMA EndLoadIs ==
  ASSUME PolicyTypes, JobSerial, NEW p \in Procs, EndLoad(p), versions' = versions, live' = live
  PROVE  /\ load' \in [Procs -> LoadRecords] /\ load'[p].at = "idle"
         /\ \A q \in Procs : q # p => load'[q] = load[q]
         /\ job' \in [Procs -> JobRecords]
         /\ \A q \in Procs : job'[q].restore => job'[q].version \in DOMAIN versions
         /\ \A q \in Procs : job'[q].at = "write" <=> job[q].at = "write"
         /\ JobSerial'
<1>1. /\ load' \in [Procs -> LoadRecords] /\ load'[p].at = "idle"
      /\ \A q \in Procs : q # p => load'[q] = load[q]
  BY IdleTypes DEF PolicyTypes, EndLoad
<1>2. job' = [job EXCEPT ![p] = IF job[p].at = "reload" THEN IdleJob ELSE job[p]]
  BY DEF EndLoad
<1>3. /\ job' \in [Procs -> JobRecords]
      /\ \A q \in Procs : job'[q] = job[q] \/ (q = p /\ job[p].at = "reload" /\ job'[q] = IdleJob)
  BY <1>2, IdleTypes DEF PolicyTypes
<1>4. /\ \A q \in Procs : job'[q].restore => job'[q].version \in DOMAIN versions
      /\ \A q \in Procs : job'[q].at = "write" <=> job[q].at = "write"
  BY <1>3, IdleTypes DEF PolicyTypes
<1>5. JobSerial'
  BY <1>3, IdleTypes DEF JobSerial
<1> QED BY <1>1, <1>3, <1>4, <1>5

\* Nobody else loads, while the loads do not overlap.
LEMMA LoadsAlone ==
  ASSUME PolicyInv, ~mixed, NEW p \in Procs, load[p].at # "idle"
  PROVE  StoreWhole /\ Staged(p) /\ \A q \in Procs : q # p => load[q].at = "idle"
  BY DEF PolicyInv, StoreWhole, Loading

\* A load ends with a store that has no tenants, of a file that has none.
LEMMA EndsEmpty ==
  ASSUME PolicyInv, NEW p \in Procs, load[p].at \in {"read", "correct"}, EndLoad(p),
         UNCHANGED <<live, versions, everLive, mixed, drift>>,
         mem' \in Stores, mem'.tenants = mem.tenants, mem'.usable = mem.usable, mem'.loaded = mem.loaded,
         mem'.default_action \in {"BLOCK"} \union {f.default_action : f \in everLive},
         load[p].at = "read" => live.shape # "object",
         load[p].at = "correct" => load[p].raw.shape # "object"
  PROVE  PolicyInv'
<1>0. PolicyTypes /\ JobSerial /\ FromFiles /\ (~drift => StoreSerial)
  BY DEF PolicyInv
<1>1. /\ load' \in [Procs -> LoadRecords] /\ load'[p].at = "idle"
      /\ \A q \in Procs : q # p => load'[q] = load[q]
      /\ job' \in [Procs -> JobRecords]
      /\ \A q \in Procs : job'[q].restore => job'[q].version \in DOMAIN versions
      /\ \A q \in Procs : job'[q].at = "write" <=> job[q].at = "write"
      /\ JobSerial'
  BY <1>0, EndLoadIs
<1>2. PolicyTypes'
  BY <1>0, <1>1 DEF PolicyTypes
<1>3. ASSUME ~mixed PROVE /\ mem.tenants = Emptied /\ ~mem.usable
                          /\ \A q \in Procs : load'[q].at = "idle"
  BY <1>1, <1>3, LoadsAlone DEF Staged
<1>4. ~mixed' => StoreWhole'
  BY <1>3 DEF StoreWhole, Staged, Loading
<1>5. ASSUME ~drift' PROVE StoreSerial'
  <2>1. StoreSerial /\ ~mixed
    BY <1>0, <1>5 DEF StoreSerial
  <2>2. \A q \in Procs : load'[q].at \notin HasRead
    BY <1>3, <2>1 DEF HasRead
  <2>3. ASSUME mem'.loaded, ~Dirty' PROVE Enforced'
    <3>1. ~Dirty
      BY <1>1, <2>3 DEF Dirty
    <3>2. load[p].at = "correct" => load[p].raw = live
      BY <2>1, <2>3, <3>1 DEF StoreSerial, HasRead
    <3>3. live.shape # "object"
      BY <3>2
    <3>4. Parsed(live) = Emptied
      BY <3>3 DEF Parsed, Emptied
    <3>5. ~Defined(Parsed(live)[DefaultTenant])
      BY <3>4, EmptyTypes, PolicyAssumption
    <3> QED BY <1>3, <2>1, <3>4, <3>5 DEF Enforced, Stores, Defined
  <2> QED BY <2>1, <2>2, <2>3 DEF StoreSerial
<1>6. FromFiles'
  BY <1>0, <1>1 DEF FromFiles, RuleFrom, HasRead
<1> QED BY <1>1, <1>2, <1>4, <1>5, <1>6 DEF PolicyInv

LEMMA LoadReadKeeps ==
  ASSUME PolicyInv, NEW p \in Procs, LoadRead(p)
  PROVE  PolicyInv'
<1>0. /\ PolicyTypes /\ JobSerial /\ FromFiles /\ load[p].at = "read" /\ (~drift => StoreSerial)
      /\ UNCHANGED <<live, versions, everLive, mixed, drift>>
  BY DEF PolicyInv, LoadRead
<1>1. CASE live.shape \in {"listed", "object"}
  <2>1. /\ mem' = [mem EXCEPT !.default_action = live.default_action] /\ job' = job
        /\ load' = [load EXCEPT ![p] = [at |-> "correct", raw |-> live, todo |-> Tenants]]
    BY <1>1 DEF LoadRead
  <2>2. live \in everLive /\ live.default_action \in ValidActions \union {Bad}
    BY <1>0, <1>1, TruncatedType, DefaultActionType DEF FromFiles, PolicyTypes
  <2>3. /\ mem' \in Stores /\ mem'.default_action = live.default_action
        /\ mem'.tenants = mem.tenants /\ mem'.usable = mem.usable /\ mem'.loaded = mem.loaded
    BY <1>0, <2>1, <2>2 DEF PolicyTypes, Stores
  <2>4. [at |-> "correct", raw |-> live, todo |-> Tenants] \in LoadRecords
    BY <1>0 DEF LoadRecords, PolicyTypes
  <2>5. /\ load' \in [Procs -> LoadRecords]
        /\ load'[p].at = "correct" /\ load'[p].raw = live /\ load'[p].todo = Tenants
        /\ \A q \in Procs : q # p => load'[q] = load[q]
    BY <1>0, <2>1, <2>4 DEF PolicyTypes
  <2>6. PolicyTypes'
    BY <1>0, <2>1, <2>3, <2>5 DEF PolicyTypes
  <2>7. JobSerial'
    BY <1>0, <2>1, JobsUndisturbed
  <2>8. ASSUME ~mixed
        PROVE  StoreWhole' /\ Loading' = {p} /\ \A q \in Procs : q # p => load'[q].at = "idle"
    <3>1. /\ mem.tenants = Emptied /\ ~mem.usable
          /\ \A q \in Procs : q # p => load'[q].at = "idle"
      BY <1>0, <2>5, <2>8, LoadsAlone DEF Staged
    <3>2. Loading' = {p}
      BY <2>5, <3>1 DEF Loading
    <3>3. \A q \in Procs : Staged(q)'
      BY <2>3, <2>5, <3>1 DEF Staged
    <3> QED BY <2>3, <3>1, <3>2, <3>3 DEF StoreWhole
  <2>9. ASSUME ~drift' PROVE StoreSerial'
    <3>1. ~mixed
      BY <1>0, <2>9 DEF StoreSerial
    <3>2. \A q \in Procs : load'[q].at \in HasRead => load'[q].raw = live
      BY <2>5, <2>8, <3>1 DEF HasRead
    <3>3. Loading' # {}
      BY <2>8, <3>1
    <3> QED BY <1>0, <3>1, <3>2, <3>3 DEF StoreSerial
  <2>10. FromFiles'
    BY <1>0, <2>2, <2>3, <2>5 DEF FromFiles, RuleFrom
  <2> QED BY <1>0, <2>6, <2>7, <2>8, <2>9, <2>10 DEF PolicyInv
<1>2. CASE live.shape \notin {"listed", "object"}
  <2>1. EndLoad(p) /\ mem' = mem
    BY <1>2 DEF LoadRead
  <2>2. mem' \in Stores /\ mem'.default_action \in {"BLOCK"} \union {f.default_action : f \in everLive}
    BY <1>0, <2>1 DEF PolicyTypes, FromFiles
  <2> QED BY <1>0, <1>2, <2>1, <2>2, EndsEmpty
<1> QED BY <1>1, <1>2

LEMMA LoadCorrectKeeps ==
  ASSUME PolicyInv, NEW p \in Procs, LoadCorrect(p)
  PROVE  PolicyInv'
<1>0. /\ PolicyTypes /\ JobSerial /\ FromFiles /\ load[p].at = "correct" /\ (~drift => StoreSerial)
      /\ UNCHANGED <<live, versions, everLive, mixed, drift>>
  BY DEF PolicyInv, LoadCorrect
<1>1. PICK action : action = IF mem.default_action = Bad THEN "BLOCK" ELSE mem.default_action
  OBVIOUS
<1>2. mem' = [mem EXCEPT !.default_action = action]
  BY <1>1 DEF LoadCorrect
<1>3. action \in ValidActions /\ action \in {"BLOCK"} \union {f.default_action : f \in everLive}
  BY <1>0, <1>1 DEF PolicyTypes, Stores, FromFiles, ValidActions
<1>4. /\ mem' \in Stores /\ mem'.default_action = action
      /\ mem'.tenants = mem.tenants /\ mem'.usable = mem.usable /\ mem'.loaded = mem.loaded
  BY <1>0, <1>2, <1>3 DEF PolicyTypes, Stores
<1>5. CASE load[p].raw.shape = "object"
  <2>1. load' = [load EXCEPT ![p].at = "fill"] /\ job' = job
    BY <1>5 DEF LoadCorrect
  <2>2. /\ load' \in [Procs -> LoadRecords]
        /\ load'[p].at = "fill" /\ load'[p].raw = load[p].raw /\ load'[p].todo = load[p].todo
        /\ \A q \in Procs : q # p => load'[q] = load[q]
    BY <1>0, <2>1 DEF PolicyTypes, LoadRecords
  <2>3. PolicyTypes'
    BY <1>0, <1>4, <2>1, <2>2 DEF PolicyTypes
  <2>4. JobSerial'
    BY <1>0, <2>1, JobsUndisturbed
  <2>5. ASSUME ~mixed PROVE StoreWhole'
    <3>1. /\ mem.tenants = Emptied /\ ~mem.usable /\ load[p].todo = Tenants
          /\ mem.default_action = load[p].raw.default_action
          /\ \A q \in Procs : q # p => load'[q].at = "idle"
      BY <1>0, <2>2, <2>5, LoadsAlone DEF Staged
    <3>2. Loading' = {p}
      BY <2>2, <3>1 DEF Loading
    <3>3. action = DefaultAction(load[p].raw)
      BY <1>1, <3>1 DEF DefaultAction
    <3>4. \A t \in Tenants : mem'.tenants[t] = NoRules
      BY <1>4, <3>1, EmptyTypes
    <3>5. Staged(p)'
      BY <1>4, <1>5, <2>2, <3>1, <3>3, <3>4 DEF Staged
    <3>6. \A q \in Procs : q # p => Staged(q)'
      BY <3>1 DEF Staged
    <3> QED BY <1>4, <3>1, <3>2, <3>5, <3>6 DEF StoreWhole
  <2>6. ASSUME ~drift' PROVE StoreSerial'
    <3>1. StoreSerial
      BY <1>0, <2>6
    <3>2. Loading' # {} /\ (Dirty => Dirty')
      BY <1>0, <2>1, <2>2 DEF Loading, Dirty
    <3> QED BY <1>0, <1>4, <2>2, <3>1, <3>2 DEF StoreSerial, HasRead
  <2>7. FromFiles'
    BY <1>0, <1>3, <1>4, <2>2 DEF FromFiles, RuleFrom, HasRead
  <2> QED BY <1>0, <2>3, <2>4, <2>5, <2>6, <2>7 DEF PolicyInv
<1>6. CASE load[p].raw.shape # "object"
  <2>1. EndLoad(p)
    BY <1>6 DEF LoadCorrect
  <2> QED BY <1>0, <1>3, <1>4, <1>6, <2>1, EndsEmpty
<1> QED BY <1>5, <1>6

LEMMA LoadFillKeeps ==
  ASSUME PolicyInv, NEW p \in Procs, NEW t \in Tenants, LoadFill(p, t)
  PROVE  PolicyInv'
<1>0. /\ PolicyTypes /\ JobSerial /\ FromFiles /\ load[p].at = "fill" /\ (~drift => StoreSerial)
      /\ UNCHANGED <<live, versions, job, everLive, mixed, drift>> /\ t \in load[p].todo
  BY DEF PolicyInv, LoadFill
<1>1. PICK old \in LoadRecords : old = load[p]
  BY <1>0 DEF PolicyTypes
<1>2. old.raw \in PolicyFiles /\ old.raw \in everLive /\ old.todo \subseteq Tenants
  BY <1>0, <1>1 DEF LoadRecords, FromFiles, HasRead
<1>3. PICK rules \in CleanRules :
         /\ rules = ParseTenantEntry(old.raw.rules[t])
         /\ \A c \in Capabilities, r \in RiskLevels : rules[c][r] \in {Absent, old.raw.rules[t][c][r]}
         /\ ~Defined(rules) => rules = NoRules
  BY <1>2, EntryParsed, FileRules
<1>4. PICK put \in CleanRules : put = IF Defined(rules) THEN rules ELSE mem.tenants[t]
  BY <1>0 DEF PolicyTypes, Stores, CleanRules
<1>5. mem' = [mem EXCEPT !.tenants[t] = put]
  BY <1>1, <1>3, <1>4 DEF LoadFill
<1>6. /\ mem' \in Stores /\ mem'.tenants[t] = put
      /\ \A u \in Tenants : u # t => mem'.tenants[u] = mem.tenants[u]
      /\ mem'.default_action = mem.default_action /\ mem'.usable = mem.usable /\ mem'.loaded = mem.loaded
  BY <1>0, <1>5 DEF PolicyTypes, Stores, CleanRules
<1>7. load' = [load EXCEPT ![p].todo = old.todo \ {t}, ![p].at = IF old.todo = {t} THEN "finish" ELSE "fill"]
  BY <1>1 DEF LoadFill
<1>8. /\ load' \in [Procs -> LoadRecords] /\ load'[p].raw = old.raw /\ load'[p].todo = old.todo \ {t}
      /\ load'[p].at = (IF old.todo = {t} THEN "finish" ELSE "fill")
      /\ \A q \in Procs : q # p => load'[q] = load[q]
  BY <1>0, <1>1, <1>2, <1>7 DEF PolicyTypes, LoadRecords
<1>9. PolicyTypes'
  BY <1>0, <1>6, <1>8 DEF PolicyTypes
<1>10. JobSerial'
  BY <1>0, JobsUndisturbed
<1>11. ASSUME ~mixed PROVE StoreWhole'
  <2>1. StoreWhole /\ Staged(p) /\ \A q \in Procs : q # p => load'[q].at = "idle"
    BY <1>0, <1>8, <1>11, LoadsAlone
  <2>2. Loading' = {p}
    BY <1>8, <2>1 DEF Loading
  <2>3. /\ old.raw.shape = "object"
        /\ mem.default_action = DefaultAction(old.raw) /\ ~mem.usable
        /\ \A u \in Tenants : mem.tenants[u] = IF u \in old.todo THEN NoRules ELSE Parsed(old.raw)[u]
    BY <1>0, <1>1, <2>1 DEF Staged
  <2>4. Parsed(old.raw)[t] = rules
    BY <1>3, <2>3 DEF Parsed
  <2>5. mem'.tenants[t] = Parsed(old.raw)[t]
    BY <1>0, <1>1, <1>3, <1>4, <1>6, <2>3, <2>4
  <2>6. \A u \in Tenants : mem'.tenants[u] = IF u \in old.todo \ {t} THEN NoRules ELSE Parsed(old.raw)[u]
    BY <1>6, <2>3, <2>5
  <2>7. old.todo = {t} => old.todo \ {t} = {}
    OBVIOUS
  <2>8. Staged(p)'
    BY <1>6, <1>8, <2>3, <2>6, <2>7 DEF Staged
  <2>9. \A q \in Procs : q # p => Staged(q)'
    BY <2>1 DEF Staged
  <2> QED BY <1>6, <2>2, <2>3, <2>8, <2>9 DEF StoreWhole
<1>12. ASSUME ~drift' PROVE StoreSerial'
  <2>1. StoreSerial
    BY <1>0, <1>12
  <2>2. Loading' # {} /\ (Dirty => Dirty')
    BY <1>0, <1>8 DEF Loading, Dirty
  <2> QED BY <1>0, <1>1, <1>6, <1>8, <2>1, <2>2 DEF StoreSerial, HasRead
<1>13. FromFiles'
  <2>1. ASSUME NEW u \in Tenants, NEW c \in Capabilities, NEW r \in RiskLevels
        PROVE  mem'.tenants[u][c][r] \in RuleFrom(u, c, r)
    <3>1. mem.tenants[u][c][r] \in RuleFrom(u, c, r)
      BY <1>0 DEF FromFiles
    <3>2. rules[c][r] \in RuleFrom(t, c, r)
      BY <1>2, <1>3 DEF RuleFrom
    <3> QED BY <1>4, <1>6, <3>1, <3>2
  <2>2. \A u, c, r : RuleFrom(u, c, r)' = RuleFrom(u, c, r)
    BY <1>0 DEF RuleFrom
  <2>3. \A q \in Procs : load'[q].at \in HasRead => load'[q].raw \in everLive
    BY <1>0, <1>2, <1>8 DEF FromFiles
  <2> QED BY <1>0, <1>6, <2>1, <2>2, <2>3 DEF FromFiles
<1> QED BY <1>0, <1>9, <1>10, <1>11, <1>12, <1>13 DEF PolicyInv

LEMMA LoadFinishKeeps ==
  ASSUME PolicyInv, NEW p \in Procs, LoadFinish(p)
  PROVE  PolicyInv'
<1>0. /\ PolicyTypes /\ JobSerial /\ FromFiles /\ load[p].at = "finish" /\ (~drift => StoreSerial)
      /\ UNCHANGED <<live, versions, everLive, mixed, drift>> /\ EndLoad(p)
  BY DEF PolicyInv, LoadFinish
<1>1. PICK usable \in BOOLEAN : usable = (mem.usable \/ Defined(mem.tenants[DefaultTenant]))
  OBVIOUS
<1>2. mem' = [mem EXCEPT !.usable = usable]
  BY <1>1 DEF LoadFinish
<1>3. /\ mem' \in Stores /\ mem'.usable = usable
      /\ mem'.tenants = mem.tenants /\ mem'.default_action = mem.default_action /\ mem'.loaded = mem.loaded
  BY <1>0, <1>2 DEF PolicyTypes, Stores
<1>4. /\ load' \in [Procs -> LoadRecords] /\ load'[p].at = "idle"
      /\ \A q \in Procs : q # p => load'[q] = load[q]
      /\ job' \in [Procs -> JobRecords]
      /\ \A q \in Procs : job'[q].restore => job'[q].version \in DOMAIN versions
      /\ \A q \in Procs : job'[q].at = "write" <=> job[q].at = "write"
      /\ JobSerial'
  BY <1>0, EndLoadIs
<1>5. PolicyTypes'
  BY <1>0, <1>3, <1>4 DEF PolicyTypes
<1>6. PICK raw \in PolicyFiles : raw = load[p].raw /\ raw \in everLive
  BY <1>0 DEF PolicyTypes, LoadRecords, FromFiles, HasRead
<1>7. ASSUME ~mixed
      PROVE  /\ \A q \in Procs : load'[q].at = "idle"
             /\ mem.tenants = Parsed(raw) /\ mem.default_action = DefaultAction(raw)
             /\ usable = Defined(Parsed(raw)[DefaultTenant])
  <2>1. Staged(p) /\ \A q \in Procs : load'[q].at = "idle"
    BY <1>0, <1>4, <1>7, LoadsAlone
  <2>2. /\ mem.default_action = DefaultAction(raw) /\ ~mem.usable
        /\ \A u \in Tenants : mem.tenants[u] = Parsed(raw)[u]
    BY <1>0, <1>6, <2>1 DEF Staged
  <2>3. mem.tenants = Parsed(raw)
    BY <1>0, <2>2 DEF PolicyTypes, Stores, Parsed
  <2>4. usable = Defined(Parsed(raw)[DefaultTenant])
    BY <1>1, <2>2, <2>3 DEF Defined
  <2> QED BY <2>1, <2>2, <2>3, <2>4
<1>8. ASSUME ~mixed PROVE StoreWhole'
  <2>1. \A q \in Procs : Staged(q)'
    BY <1>7, <1>8 DEF Staged
  <2>2. Loading' = {}
    BY <1>7, <1>8 DEF Loading
  <2>3. mem'.usable => Holds(raw)'
    BY <1>3, <1>7, <1>8 DEF Holds
  <2> QED BY <1>0, <1>6, <2>1, <2>2, <2>3 DEF StoreWhole
<1>9. ASSUME ~drift' PROVE StoreSerial'
  <2>1. StoreSerial /\ ~mixed
    BY <1>0, <1>9 DEF StoreSerial
  <2>2. \A q \in Procs : load'[q].at \notin HasRead
    BY <1>7, <2>1 DEF HasRead
  <2>3. ASSUME mem'.loaded, ~Dirty' PROVE Enforced'
    <3>1. ~Dirty
      BY <1>0, <1>4, <2>3 DEF Dirty
    <3>2. raw = live
      BY <1>0, <1>3, <1>6, <2>1, <2>3, <3>1 DEF StoreSerial, HasRead
    <3> QED BY <1>0, <1>3, <1>7, <2>1, <3>2 DEF Enforced
  <2> QED BY <1>0, <2>1, <2>2, <2>3 DEF StoreSerial
<1>10. FromFiles'
  BY <1>0, <1>3, <1>4 DEF FromFiles, RuleFrom, HasRead
<1> QED BY <1>0, <1>4, <1>5, <1>8, <1>9, <1>10 DEF PolicyInv

-----------------------------------------------------------------------------
\* The commands.

LEMMA StartJobKeeps ==
  ASSUME PolicyInv, NEW p \in Procs, NEW new \in JobRecords,
         new.restore => new.version \in DOMAIN versions, StartJob(p, new)
  PROVE  PolicyInv'
<1>0. /\ PolicyTypes /\ JobSerial /\ FromFiles /\ (~drift => StoreSerial) /\ job[p].at = "idle"
      /\ UNCHANGED <<live, versions, mem, load, everLive, mixed, drift>>
  BY DEF PolicyInv, StartJob
<1>1. PICK alone \in BOOLEAN : alone = (Working = {})
  OBVIOUS
<1>2. job' = [q \in Procs |-> IF q = p THEN [new EXCEPT !.at = "name", !.alone = alone]
                              ELSE [job[q] EXCEPT !.alone = FALSE]]
  BY <1>1 DEF StartJob
<1>3. PICK mine : mine = [new EXCEPT !.at = "name", !.alone = alone]
  OBVIOUS
<1>m. /\ mine \in JobRecords /\ mine.at = "name" /\ mine.alone = alone
      /\ mine.restore = new.restore /\ mine.version = new.version
  BY <1>3 DEF JobRecords
<1>4. ASSUME NEW q \in Procs, q # p
      PROVE  /\ job'[q] \in JobRecords /\ ~job'[q].alone /\ job'[q].at = job[q].at
             /\ job'[q].restore = job[q].restore /\ job'[q].version = job[q].version
  BY <1>0, <1>2, <1>4 DEF PolicyTypes, JobRecords
<1>5. job'[p] = mine
  BY <1>2, <1>3
<1>6. job' \in [Procs -> JobRecords]
  BY <1>2, <1>m, <1>4, <1>5
<1>7. \A q \in Procs : job'[q].restore => job'[q].version \in DOMAIN versions
  BY <1>0, <1>m, <1>4, <1>5 DEF PolicyTypes
<1>8. PolicyTypes'
  BY <1>0, <1>6, <1>7 DEF PolicyTypes
<1>9. JobSerial'
  <2>1. alone => \A q \in Procs : job[q].at = "idle"
    BY <1>1 DEF Working
  <2> QED BY <1>m, <1>4, <1>5, <2>1 DEF JobSerial
<1>10. ~drift' => StoreSerial'
  <2>1. Dirty => Dirty'
    BY <1>0, <1>m, <1>4, <1>5 DEF Dirty
  <2> QED BY <1>0, <2>1, StoreUndisturbed
<1>11. FromFiles'
  BY <1>0, FromFilesGrows DEF FromFiles
<1>12. ~mixed' => StoreWhole'
  BY <1>0, WholeUndisturbed DEF PolicyInv
<1> QED BY <1>8, <1>9, <1>10, <1>11, <1>12 DEF PolicyInv

LEMMA StartDeployKeeps ==
  ASSUME PolicyInv, NEW p \in Procs, NEW file \in Candidates, NEW cli \in BOOLEAN, StartDeploy(p, file, cli)
  PROVE  PolicyInv'
<1>1. file \in PolicyFiles
  BY PolicyAssumption
<1>2. PICK idle \in JobRecords : idle = IdleJob /\ ~idle.restore
  BY IdleTypes
<1>3. PICK new : new = [idle EXCEPT !.content = file, !.cli = cli]
  OBVIOUS
<1>4. new \in JobRecords /\ new.restore = idle.restore
  BY <1>1, <1>3 DEF JobRecords
<1>5. StartJob(p, new)
  BY <1>2, <1>3 DEF StartDeploy
<1> QED BY <1>2, <1>4, <1>5, StartJobKeeps

LEMMA StartRollbackKeeps ==
  ASSUME PolicyInv, NEW p \in Procs, NEW v \in DOMAIN versions, NEW cli \in BOOLEAN, StartRollback(p, v, cli)
  PROVE  PolicyInv'
<1>1. v \in PolicyFiles
  BY DEF PolicyInv, PolicyTypes
<1>2. PICK idle \in JobRecords : idle = IdleJob
  BY IdleTypes
<1>3. PICK new : new = [idle EXCEPT !.restore = TRUE, !.version = v, !.cli = cli]
  OBVIOUS
<1>4. new \in JobRecords /\ new.version = v
  BY <1>1, <1>3 DEF JobRecords
<1>5. StartJob(p, new)
  BY <1>2, <1>3 DEF StartRollback
<1> QED BY <1>4, <1>5, StartJobKeeps

LEMMA SnapshotNameKeeps ==
  ASSUME PolicyInv, NEW p \in Procs, SnapshotName(p)
  PROVE  PolicyInv'
<1>0. /\ PolicyTypes /\ JobSerial /\ FromFiles /\ (~drift => StoreSerial) /\ job[p].at = "name"
      /\ UNCHANGED <<live, versions, mem, load, everLive, mixed, drift>>
  BY DEF PolicyInv, SnapshotName
<1>1. PICK at \in {"truncate", "save"}, saved \in PolicyFiles :
         /\ at = IF live.shape = "none" THEN "truncate" ELSE "save"
         /\ saved = IF live.shape = "none" THEN NoVersion ELSE live
  BY <1>0, TruncatedType DEF PolicyTypes
<1>2. job' = [job EXCEPT ![p].at = at, ![p].saved = saved]
  BY <1>1 DEF SnapshotName
<1>3. /\ job' \in [Procs -> JobRecords] /\ \A q \in Procs : q # p => job'[q] = job[q]
      /\ job'[p].at = at /\ job'[p].saved = saved /\ job'[p].alone = job[p].alone
      /\ job'[p].restore = job[p].restore /\ job'[p].version = job[p].version
  <2>1. job \in [Procs -> JobRecords] /\ job[p] \in JobRecords
    BY <1>0 DEF PolicyTypes
  <2>2. PICK new : new = [job[p] EXCEPT !.at = at, !.saved = saved]
    OBVIOUS
  <2>3. /\ new \in JobRecords /\ new.at = at /\ new.saved = saved /\ new.alone = job[p].alone
        /\ new.restore = job[p].restore /\ new.version = job[p].version
    BY <2>1, <2>2 DEF JobRecords
  <2>4. job' = [job EXCEPT ![p] = new]
    BY <1>2, <2>1, <2>2
  <2>5. job'[p] = new /\ \A q \in Procs : q # p => job'[q] = job[q]
    BY <2>1, <2>4
  <2>6. job' \in [Procs -> JobRecords]
    BY <2>1, <2>3, <2>4
  <2> QED BY <2>3, <2>5, <2>6
<1>4. PolicyTypes'
  BY <1>0, <1>3 DEF PolicyTypes
<1>5. JobSerial'
  BY <1>0, <1>1, <1>3 DEF JobSerial
<1>6. ~drift' => StoreSerial'
  <2>1. Dirty => Dirty'
    BY <1>0, <1>1, <1>3 DEF Dirty
  <2> QED BY <1>0, <2>1, StoreUndisturbed
<1>7. FromFiles'
  BY <1>0, FromFilesGrows DEF FromFiles
<1>8. ~mixed' => StoreWhole'
  BY <1>0, WholeUndisturbed DEF PolicyInv
<1> QED BY <1>4, <1>5, <1>6, <1>7, <1>8 DEF PolicyInv

LEMMA SnapshotSaveKeeps ==
  ASSUME PolicyInv, NEW p \in Procs, SnapshotSave(p)
  PROVE  PolicyInv'
<1>0. /\ PolicyTypes /\ JobSerial /\ FromFiles /\ (~drift => StoreSerial) /\ job[p].at = "save"
      /\ UNCHANGED <<live, mem, load, everLive, mixed, drift>>
      /\ job' = [job EXCEPT ![p].at = "truncate"]
  BY DEF PolicyInv, SnapshotSave
<1>1. /\ job' \in [Procs -> JobRecords] /\ \A q \in Procs : q # p => job'[q] = job[q]
      /\ job'[p].at = "truncate" /\ job'[p].saved = job[p].saved /\ job'[p].alone = job[p].alone
      /\ job'[p].restore = job[p].restore /\ job'[p].version = job[p].version
  BY <1>0 DEF PolicyTypes, JobRecords
<1>2. PICK name \in PolicyFiles : name = job[p].saved
  BY <1>0 DEF PolicyTypes, JobRecords
<1>3. versions' = [v \in DOMAIN versions \union {name} |-> IF v = name THEN live ELSE versions[v]]
  BY <1>2 DEF SnapshotSave
<1>4. DOMAIN versions' = DOMAIN versions \union {name} /\ versions'[name] = live
      /\ \A v \in DOMAIN versions' : versions'[v] \in PolicyFiles
  BY <1>0, <1>3 DEF PolicyTypes
<1>5. PolicyTypes'
  BY <1>0, <1>1, <1>2, <1>4 DEF PolicyTypes
<1>6. JobSerial'
  <2>1. \A q \in Procs : q # p => ~job'[q].alone
    BY <1>0, <1>1, WorksAlone
  <2>2. job[p].alone => \A q \in Procs : q # p => job'[q].at = "idle"
    BY <1>0, <1>1 DEF JobSerial
  <2>3. job'[p].saved \in DOMAIN versions' /\ versions'[job'[p].saved] = live'
    BY <1>0, <1>1, <1>2, <1>4
  <2> QED BY <1>1, <2>1, <2>2, <2>3 DEF JobSerial
<1>7. ~drift' => StoreSerial'
  <2>1. Dirty => Dirty'
    BY <1>0, <1>1 DEF Dirty
  <2> QED BY <1>0, <2>1, StoreUndisturbed
<1>8. FromFiles'
  BY <1>0, FromFilesGrows DEF FromFiles
<1>9. ~mixed' => StoreWhole'
  BY <1>0, WholeUndisturbed DEF PolicyInv
<1> QED BY <1>5, <1>6, <1>7, <1>8, <1>9 DEF PolicyInv

LEMMA CopyTruncateKeeps ==
  ASSUME PolicyInv, NEW p \in Procs, CopyTruncate(p)
  PROVE  PolicyInv'
<1>0. /\ PolicyTypes /\ JobSerial /\ FromFiles /\ (~drift => StoreSerial) /\ job[p].at = "truncate"
      /\ UNCHANGED <<versions, mem, load, everLive, mixed, drift>>
      /\ job' = [job EXCEPT ![p].at = "write", ![p].replaced = live]
      /\ live' = Truncated
  BY DEF PolicyInv, CopyTruncate
<1>1. /\ job' \in [Procs -> JobRecords] /\ \A q \in Procs : q # p => job'[q] = job[q]
      /\ job'[p].at = "write" /\ job'[p].saved = job[p].saved /\ job'[p].alone = job[p].alone
      /\ job'[p].restore = job[p].restore /\ job'[p].version = job[p].version
      /\ job'[p].replaced = live
  <2>1. job \in [Procs -> JobRecords] /\ job[p] \in JobRecords /\ live \in PolicyFiles
    BY <1>0 DEF PolicyTypes
  <2>2. PICK new : new = [job[p] EXCEPT !.at = "write", !.replaced = live]
    OBVIOUS
  <2>3. /\ new \in JobRecords /\ new.at = "write" /\ new.saved = job[p].saved
        /\ new.alone = job[p].alone /\ new.restore = job[p].restore
        /\ new.version = job[p].version /\ new.replaced = live
    BY <2>1, <2>2 DEF JobRecords
  <2>4. job' = [job EXCEPT ![p] = new]
    BY <1>0, <2>1, <2>2
  <2>5. job'[p] = new /\ \A q \in Procs : q # p => job'[q] = job[q]
    BY <2>1, <2>4
  <2>6. job' \in [Procs -> JobRecords]
    BY <2>1, <2>3, <2>4
  <2> QED BY <2>3, <2>5, <2>6
<1>2. PolicyTypes'
  BY <1>0, <1>1, TruncatedType DEF PolicyTypes
<1>3. JobSerial'
  <2>1. \A q \in Procs : q # p => ~job'[q].alone
    BY <1>0, <1>1, WorksAlone
  <2>2. job[p].alone =>
          /\ \A q \in Procs : q # p => job'[q].at = "idle"
          /\ live.shape = "none" \/ (job[p].saved \in DOMAIN versions /\ versions[job[p].saved] = live)
    BY <1>0, <1>1 DEF JobSerial
  <2> QED BY <1>0, <1>1, <2>1, <2>2 DEF JobSerial
<1>4. ~drift' => StoreSerial'
  <2>1. Dirty' /\ Loading' = Loading
    BY <1>0, <1>1 DEF Dirty, Loading
  <2> QED BY <1>0, <2>1 DEF StoreSerial
<1>5. FromFiles'
  BY <1>0, FromFilesGrows
<1>6. ~mixed' => StoreWhole'
  BY <1>0, WholeUndisturbed DEF PolicyInv
<1> QED BY <1>2, <1>3, <1>4, <1>5, <1>6 DEF PolicyInv

LEMMA CopyWriteKeeps ==
  ASSUME PolicyInv, NEW p \in Procs, CopyWrite(p)
  PROVE  PolicyInv'
<1>0. /\ PolicyTypes /\ JobSerial /\ FromFiles /\ (~drift => StoreSerial) /\ job[p].at = "write"
      /\ UNCHANGED <<versions, mem>>
  BY DEF PolicyInv, CopyWrite
<1>1. PICK file : file = IF job[p].restore THEN versions[job[p].version] ELSE job[p].content
  OBVIOUS
<1>2. file \in PolicyFiles
  BY <1>0, <1>1 DEF PolicyTypes, JobRecords
<1>3. live' = file /\ everLive' = everLive \union {file}
  BY <1>1 DEF CopyWrite
<1>4. \A q \in Procs : q # p => ~job[q].alone
  BY <1>0, WorksAlone
<1>5. CASE job[p].cli
  <2>1. job' = [job EXCEPT ![p] = IdleJob] /\ drift' /\ load' = load /\ mixed' = mixed /\ drift' \in BOOLEAN
    BY <1>5 DEF CopyWrite
  <2>2. /\ job' \in [Procs -> JobRecords] /\ job'[p] = IdleJob /\ \A q \in Procs : q # p => job'[q] = job[q]
    BY <1>0, <2>1, IdleTypes DEF PolicyTypes
  <2>3. PolicyTypes'
    BY <1>0, <1>2, <1>3, <2>1, <2>2, IdleTypes DEF PolicyTypes
  <2>4. JobSerial'
    BY <1>4, <2>2, IdleTypes DEF JobSerial
  <2>5. FromFiles'
    BY <1>0, <1>3, <2>1, FromFilesGrows
  <2>6. ~mixed' => StoreWhole'
    BY <1>0, <1>3, <2>1, WholeUndisturbed DEF PolicyInv
  <2> QED BY <2>1, <2>3, <2>4, <2>5, <2>6 DEF PolicyInv
<1>6. CASE ~job[p].cli
  <2>1. job' = [job EXCEPT ![p].at = "reload"] /\ EnterLoad(p)
    BY <1>6 DEF CopyWrite
  <2>2. /\ job' \in [Procs -> JobRecords] /\ \A q \in Procs : q # p => job'[q] = job[q]
        /\ job'[p].at = "reload" /\ job'[p].saved = job[p].saved /\ job'[p].alone = job[p].alone
        /\ job'[p].restore = job[p].restore /\ job'[p].version = job[p].version
        /\ job'[p].replaced = job[p].replaced
    BY <1>0, <2>1 DEF PolicyTypes, JobRecords
  <2>3. /\ load' \in [Procs -> LoadRecords] /\ load'[p].at = "clear"
        /\ \A q \in Procs : q # p => load'[q] = load[q]
        /\ mixed' \in BOOLEAN /\ drift' \in BOOLEAN
        /\ ~mixed' => StoreWhole'
        /\ ~drift' => StoreSerial'
    BY <1>0, <1>3, <2>1, EnterLoadIs
  <2>4. PolicyTypes'
    BY <1>0, <1>2, <1>3, <2>2, <2>3 DEF PolicyTypes
  <2>5. JobSerial'
    BY <1>0, <1>4, <2>2 DEF JobSerial
  <2>6. FromFiles'
    BY <1>0, <1>3, <2>3, FromFilesGrows DEF HasRead
  <2> QED BY <2>3, <2>4, <2>5, <2>6 DEF PolicyInv
<1> QED BY <1>5, <1>6

LEMMA PolicyMoveKeeps ==
  ASSUME PolicyInv, PolicyMove \/ UNCHANGED policyVars
  PROVE  PolicyInv' /\ everLive \subseteq everLive'
<1>1. CASE UNCHANGED policyVars
  <2>1. PolicyTypes' /\ JobSerial'
    BY <1>1 DEF policyVars, PolicyInv, PolicyTypes, JobSerial
  <2>2. (~drift' => StoreSerial') /\ (~mixed' => StoreWhole')
    <3>1. Dirty => Dirty'
      BY <1>1 DEF policyVars, Dirty
    <3> QED BY <1>1, <3>1, StoreUndisturbed, WholeUndisturbed DEF policyVars, PolicyInv
  <2>3. FromFiles'
    BY <1>1 DEF policyVars, PolicyInv, FromFiles, RuleFrom
  <2> QED BY <1>1, <2>1, <2>2, <2>3 DEF policyVars, PolicyInv
<1>2. CASE PolicyMove
  <2>1. PolicyInv'
    BY <1>2, LazyLoadKeeps, LoadClearKeeps, LoadReadKeeps, LoadCorrectKeeps, LoadFillKeeps, LoadFinishKeeps,
       SnapshotNameKeeps, SnapshotSaveKeeps, CopyTruncateKeeps, CopyWriteKeeps,
       StartDeployKeeps, StartRollbackKeeps, PolicyRestartKeeps
       DEF PolicyMove, LoadStep, JobStep
  <2>2. everLive \subseteq everLive'
    BY <1>2 DEF PolicyMove, LoadStep, JobStep, LazyLoad, LoadClear, LoadRead, LoadCorrect, LoadFill, LoadFinish,
                SnapshotName, SnapshotSave, CopyTruncate, CopyWrite, StartDeploy, StartRollback,
                StartJob, PolicyRestart
  <2> QED BY <2>1, <2>2
<1> QED BY <1>1, <1>2

-----------------------------------------------------------------------------
\* A step of the gateway is a step of each store, or none.

LEMMA MovesTheKeys == [Next]_admissionVars => KeyMove \/ UNCHANGED keyVars
<1> SUFFICES ASSUME [Next]_admissionVars PROVE KeyMove \/ UNCHANGED keyVars
  OBVIOUS
<1>1. CASE UNCHANGED admissionVars
  BY <1>1 DEF admissionVars, identityVars
<1>2. ASSUME NEW p \in Procs, NEW k \in Keys \union {NoKey}, NEW e \in Endpoints, NEW risk \in RiskLevels,
             Arrive(p, k, e, risk)
      PROVE  KeyMove \/ UNCHANGED keyVars
  BY <1>2 DEF Arrive, KeyMove, keyVars
<1>3. ASSUME NEW p \in Procs, ResolveTenant(p) PROVE KeyMove \/ UNCHANGED keyVars
  BY <1>3 DEF ResolveTenant, TenantLazyLoad, TenantEnter, identityVars
<1>4. ASSUME NEW p \in Procs, \/ Administer(p) \/ AdminRefused(p) \/ CheckUsable(p) \/ BindTenants(p)
                              \/ PickRules(p) \/ TakeAction(p) \/ Load(p) \/ Job(p) \/ PolicyTool(p)
      PROVE  KeyMove \/ UNCHANGED keyVars
  BY <1>4 DEF Administer, AdminRefused, CheckUsable, BindTenants, PickRules, TakeAction, Load, Job,
              PolicyTool, identityVars
<1>5. ASSUME NEW p \in Procs, Reload(p) PROVE KeyMove \/ UNCHANGED keyVars
  BY <1>5 DEF Reload, ReloadKeys, TenantEnter, KeyMove
<1>6. ASSUME NEW p \in Procs, TenantLoad(p) PROVE KeyMove \/ UNCHANGED keyVars
  BY <1>6 DEF TenantLoad, TenantLoadStep, TenantClear, TenantRead, TenantFill
<1>7. ASSUME NEW o \in Operators, KeyTool(o) PROVE KeyMove \/ UNCHANGED keyVars
  BY <1>7 DEF KeyTool, KeyMove
<1>8. CASE Edit
  BY <1>8 DEF Edit, EditTenants
<1>9. CASE Restart
  BY <1>9 DEF Restart, KeyMove
<1> QED BY <1>1, <1>2, <1>3, <1>4, <1>5, <1>6, <1>7, <1>8, <1>9 DEF Next

LEMMA MovesTheTenants == [Next]_admissionVars => TenantMove \/ UNCHANGED tenantVars
<1> SUFFICES ASSUME [Next]_admissionVars PROVE TenantMove \/ UNCHANGED tenantVars
  OBVIOUS
<1>1. CASE UNCHANGED admissionVars
  BY <1>1 DEF admissionVars, identityVars
<1>2. ASSUME NEW p \in Procs, NEW k \in Keys \union {NoKey}, NEW e \in Endpoints, NEW risk \in RiskLevels,
             Arrive(p, k, e, risk)
      PROVE  TenantMove \/ UNCHANGED tenantVars
  BY <1>2 DEF Arrive
<1>3. ASSUME NEW p \in Procs, ResolveTenant(p) PROVE TenantMove \/ UNCHANGED tenantVars
  BY <1>3 DEF ResolveTenant, TenantLazyLoad, TenantMove, identityVars
<1>4. ASSUME NEW p \in Procs, \/ Administer(p) \/ AdminRefused(p) \/ CheckUsable(p) \/ BindTenants(p)
                              \/ PickRules(p) \/ TakeAction(p) \/ Load(p) \/ Job(p) \/ PolicyTool(p)
      PROVE  TenantMove \/ UNCHANGED tenantVars
  BY <1>4 DEF Administer, AdminRefused, CheckUsable, BindTenants, PickRules, TakeAction, Load, Job,
              PolicyTool, identityVars
<1>5. ASSUME NEW p \in Procs, Reload(p) PROVE TenantMove \/ UNCHANGED tenantVars
  BY <1>5 DEF Reload, ReloadKeys, TenantMove
<1>6. ASSUME NEW p \in Procs, TenantLoad(p) PROVE TenantMove \/ UNCHANGED tenantVars
  BY <1>6 DEF TenantLoad, TenantMove
<1>7. ASSUME NEW o \in Operators, KeyTool(o) PROVE TenantMove \/ UNCHANGED tenantVars
  BY <1>7 DEF KeyTool, ToolStart, ToolStep, ToolTruncate, ToolWrite, ToolDies, RemoveKeyFile
<1>8. CASE Edit
  BY <1>8 DEF Edit, TenantMove
<1>9. CASE Restart
  BY <1>9 DEF Restart, TenantMove
<1> QED BY <1>1, <1>2, <1>3, <1>4, <1>5, <1>6, <1>7, <1>8, <1>9 DEF Next

LEMMA MovesThePolicy == [Next]_admissionVars => PolicyMove \/ UNCHANGED policyVars
<1> SUFFICES ASSUME [Next]_admissionVars PROVE PolicyMove \/ UNCHANGED policyVars
  OBVIOUS
<1>1. CASE UNCHANGED admissionVars
  BY <1>1 DEF admissionVars
<1>2. ASSUME NEW p \in Procs, NEW k \in Keys \union {NoKey}, NEW e \in Endpoints, NEW risk \in RiskLevels,
             Arrive(p, k, e, risk)
      PROVE  PolicyMove \/ UNCHANGED policyVars
  BY <1>2 DEF Arrive
<1>3. ASSUME NEW p \in Procs, \/ ResolveTenant(p) \/ AdminRefused(p) \/ BindTenants(p) \/ PickRules(p)
                              \/ TakeAction(p) \/ Reload(p) \/ TenantLoad(p)
      PROVE  PolicyMove \/ UNCHANGED policyVars
  BY <1>3 DEF ResolveTenant, AdminRefused, BindTenants, PickRules, TakeAction, Reload, TenantLoad
<1>4. ASSUME NEW p \in Procs, Administer(p) PROVE PolicyMove \/ UNCHANGED policyVars
  BY <1>4 DEF Administer, PolicyMove
<1>5. ASSUME NEW p \in Procs, CheckUsable(p) PROVE PolicyMove \/ UNCHANGED policyVars
  BY <1>5 DEF CheckUsable, PolicyMove
<1>6. ASSUME NEW p \in Procs, Load(p) \/ Job(p) PROVE PolicyMove \/ UNCHANGED policyVars
  BY <1>6 DEF Load, Job, PolicyMove
<1>7. ASSUME NEW p \in Procs, PolicyTool(p) PROVE PolicyMove \/ UNCHANGED policyVars
  BY <1>7 DEF PolicyTool, PolicyMove
<1>8. ASSUME NEW o \in Operators, KeyTool(o) PROVE PolicyMove \/ UNCHANGED policyVars
  BY <1>8 DEF KeyTool
<1>9. CASE Edit \/ Restart
  BY <1>9 DEF Edit, Restart, PolicyMove
<1> QED BY <1>1, <1>2, <1>3, <1>4, <1>5, <1>6, <1>7, <1>8, <1>9 DEF Next

-----------------------------------------------------------------------------
\* The requests.

\* What a request has been given stays a file's, as files come and never go.
LEMMA RequestGrows ==
  ASSUME everLive \subseteq everLive', NEW q, RequestFine(q), mem' = mem \/ (q.steady => q.at = "done")
  PROVE  RequestFine(q)'
<1>1. \A t, c, r : RuleFrom(t, c, r) \subseteq RuleFrom(t, c, r)'
  BY DEF RuleFrom
<1>2. RulesFor(q) => RulesFor(q)'
  BY <1>1 DEF RulesFor
<1>3. Mentioned(q, q.answer) => Mentioned(q, q.answer)'
  BY DEF Mentioned, Mentions
<1>4. ASSUME q.steady PROVE Undisturbed(q)'
  <2>1. Undisturbed(q)
    BY <1>4 DEF RequestFine
  <2>2. mem' = mem => \A f : Holds(f) => Holds(f)'
    BY DEF Holds
  <2>3. \A f : Says(f, q.tenant, q.capability, q.risk)' = Says(f, q.tenant, q.capability, q.risk)
    BY DEF Says, HasRules
  <2> QED BY <1>4, <2>1, <2>2, <2>3 DEF Undisturbed, ChosenRules, Parsed
<1> QED BY <1>2, <1>3, <1>4 DEF RequestFine

\* What a file's store gives is what the file says.
LEMMA StoreSays ==
  ASSUME NEW f \in PolicyFiles, NEW t \in Tenants, NEW c \in Capabilities, NEW r \in RiskLevels,
         Defined(Parsed(f)[DefaultTenant])
  PROVE  Lookup(ChosenRules(f, t), c, r, DefaultAction(f)) = Says(f, t, c, r)
<1>1. ASSUME NEW u \in Tenants, NEW d \in Capabilities, NEW e \in RiskLevels
      PROVE  f.rules[u][d][e] \in ValidActions \union {Absent, Bad}
  BY FileRules DEF RuleSets
<1>2. f.shape = "object"
  BY PolicyAssumption, EmptyTypes DEF Parsed
<1>3. ASSUME NEW u \in Tenants, NEW d \in Capabilities, NEW e \in RiskLevels
      PROVE  Parsed(f)[u][d][e] = IF f.rules[u][d][e] \in ValidActions THEN f.rules[u][d][e] ELSE Absent
  <2>1. Parsed(f)[u][d][e] = IF f.rules[u][d][e] = Bad THEN Absent ELSE f.rules[u][d][e]
    BY <1>2 DEF Parsed, ParseTenantEntry
  <2> QED BY <1>1, <2>1 DEF ValidActions, Absent, Bad
<1>4. Absent \notin ValidActions /\ Bad \notin ValidActions
  BY DEF Absent, Bad, ValidActions
<1>5. \A u \in Tenants : Defined(Parsed(f)[u]) <=> HasRules(f, u)
  BY <1>2, <1>3, <1>4 DEF Defined, HasRules
<1>6. PICK u \in Tenants : u = (IF HasRules(f, t) THEN t ELSE DefaultTenant) /\ ChosenRules(f, t) = Parsed(f)[u]
  BY <1>5, PolicyAssumption DEF ChosenRules
<1>7. HasRules(f, DefaultTenant)
  BY <1>5, PolicyAssumption
<1>8. DefaultAction(f) = IF f.default_action \in ValidActions THEN f.default_action ELSE "BLOCK"
  BY <1>4, DefaultActionType DEF DefaultAction
<1>9. PICK rule : rule = f.rules[u][c][r]
  OBVIOUS
<1>10. Parsed(f)[u][c][r] = IF rule \in ValidActions THEN rule ELSE Absent
  BY <1>3, <1>9
<1>11. Says(f, t, c, r) = IF rule \in ValidActions THEN rule ELSE DefaultAction(f)
  BY <1>6, <1>7, <1>8, <1>9 DEF Says
<1> QED BY <1>4, <1>6, <1>10, <1>11 DEF Lookup

LEMMA IdleReqFine ==
  /\ IdleReq \in ReqRecords /\ IdleReq.at = "idle" /\ IdleReq.duty = "read" /\ ~IdleReq.steady
  /\ RequestFine(IdleReq)
<1>1. IdleReq \in ReqRecords /\ IdleReq.at = "idle" /\ IdleReq.duty = "read" /\ ~IdleReq.steady
  BY EmptyTypes, PolicyAssumption DEF IdleReq, ReqRecords, CleanRules, Capability
<1> QED BY <1>1 DEF RequestFine

\* One request becomes another that is fine.
LEMMA RequestMoves ==
  ASSUME RequestInv, everLive \subseteq everLive', mem' = mem, NEW p \in Procs, NEW new \in ReqRecords,
         RequestFine(new), req' = [req EXCEPT ![p] = new]
  PROVE  RequestInv'
<1>1. /\ req' \in [Procs -> ReqRecords] /\ req'[p] = new
      /\ \A q \in Procs : q # p => req'[q] = req[q]
  BY DEF RequestInv
<1>2. ASSUME NEW q \in Procs PROVE RequestFine(req[q])'
  <2>1. PICK r : r = req'[q]
    OBVIOUS
  <2>2. RequestFine(r)
    BY <1>1, <2>1 DEF RequestInv
  <2>3. RequestFine(r)'
    BY <2>2, RequestGrows
  <2> QED BY <2>1, <2>3
<1> QED BY <1>1, <1>2 DEF RequestInv

LEMMA CallerTypes ==
  ASSUME KeyTypes, NEW k \in Keys \union {NoKey}
  PROVE  CapabilityOf(k) \in Capability /\ TenantOfCaller(k) \in Tenants
<1>1. Lookups.keys \in [Keys -> Capability \union {NotGranted}]
  BY LoadedKeysType
<1>2. KnownKey(k) => k \in Keys /\ Lookups.keys[k] \in Capability
  BY <1>1 DEF KnownKey, Authenticated
<1>3. KnownKey(k) => CapabilityOf(k) \in Capability
  BY <1>2 DEF CapabilityOf, Principal, KnownKey
<1>4. ~KnownKey(k) => CapabilityOf(k) \in Capability
  BY DEF CapabilityOf, Capability
<1>5. TenantOfCaller(k) \in Tenants
  BY <1>2, IdentityAssumption, PolicyAssumption DEF TenantOfCaller
<1> QED BY <1>3, <1>4, <1>5

LEMMA ArriveKeeps ==
  ASSUME AdmissionInv, everLive \subseteq everLive', NEW p \in Procs, NEW k \in Keys \union {NoKey},
         NEW e \in Endpoints, NEW risk \in RiskLevels, Arrive(p, k, e, risk)
  PROVE  RequestInv'
<1>1. CapabilityOf(k) \in Capability /\ TenantOfCaller(k) \in Tenants
  BY CallerTypes DEF AdmissionInv, KeyInv
<1>2. e.duty \in {"decide", "admin", "read"}
  BY DEF Endpoints, Endpoint, Assess, ProtectionSettings, PrivacySettings, GatewayProviders,
         ToolsCatalogue, ActivityFeed, ActivityTrace, GetReviewStatus, WhoAmI, RawLogs, Benchmarks,
         ListReviews, GetPolicy, ValidatePolicy, PolicyAdmin
<1>3. PICK idle \in ReqRecords : idle = IdleReq /\ ~idle.steady
  BY IdleReqFine
<1>4. PICK r \in RiskLevels \union {NoRisk} :
         r = (IF e.duty = "decide" THEN risk ELSE NoRisk) /\ (e.duty = "decide" => r \in RiskLevels)
  OBVIOUS
<1>5. PICK new : new = [idle EXCEPT !.at = "tenant", !.duty = e.duty, !.risk = r,
                                    !.capability = CapabilityOf(k), !.tenant = TenantOfCaller(k)]
  OBVIOUS
<1>6. new \in ReqRecords /\ new.at = "tenant" /\ new.duty = e.duty /\ new.risk = r /\ ~new.steady
  BY <1>1, <1>2, <1>3, <1>4, <1>5 DEF ReqRecords
<1>7. RequestFine(new)
  BY <1>4, <1>6 DEF RequestFine
<1>8. req' = [req EXCEPT ![p] = IF ~Passes(k, e.gate) THEN IdleReq ELSE new]
  BY <1>3, <1>4, <1>5 DEF Arrive
<1>9. PICK next \in ReqRecords : next = (IF ~Passes(k, e.gate) THEN IdleReq ELSE new) /\ RequestFine(next)
  BY <1>6, <1>7, IdleReqFine
<1>10. mem' = mem
  BY DEF Arrive, policyVars
<1> QED BY <1>8, <1>9, <1>10, RequestMoves DEF AdmissionInv

LEMMA ResolveTenantKeeps ==
  ASSUME AdmissionInv, everLive \subseteq everLive', NEW p \in Procs, ResolveTenant(p)
  PROVE  RequestInv'
<1>0. RequestInv /\ mem' = mem
  BY DEF AdmissionInv, ResolveTenant, policyVars
<1>1. PICK old \in ReqRecords : old = req[p] /\ RequestFine(old) /\ old.at = "tenant" /\ ~old.steady
  BY <1>0 DEF RequestInv, ResolveTenant, RequestFine, Undisturbed
<1>2. CASE req' = req
  <2>1. req' = [req EXCEPT ![p] = old]
    BY <1>0, <1>1, <1>2 DEF RequestInv
  <2> QED BY <1>0, <1>1, <2>1, RequestMoves
<1>3. CASE req' # req
  <2>1. PICK at : at = Handler(old.duty)
    OBVIOUS
  <2>2. at \in {"check", "admin", "idle"} /\ (at = "check" => old.duty = "decide")
    BY <2>1 DEF Handler, ReqRecords
  <2>3. PICK new : new = [old EXCEPT !.at = at]
    OBVIOUS
  <2>4. new \in ReqRecords /\ new.at = at /\ new.duty = old.duty /\ new.risk = old.risk /\ ~new.steady
    BY <1>1, <2>2, <2>3 DEF ReqRecords
  <2>5. RequestFine(new)
    BY <1>1, <2>2, <2>4 DEF RequestFine
  <2>6. req' = [req EXCEPT ![p] = IF Suspended(old.tenant) THEN IdleReq ELSE new]
    BY <1>1, <1>3, <2>1, <2>3 DEF ResolveTenant
  <2>7. PICK next \in ReqRecords : next = (IF Suspended(old.tenant) THEN IdleReq ELSE new) /\ RequestFine(next)
    BY <2>4, <2>5, IdleReqFine
  <2> QED BY <1>0, <2>6, <2>7, RequestMoves
<1> QED BY <1>2, <1>3

\* An answer that is BLOCK, an error, or some file's.
LEMMA AnswerKeeps ==
  ASSUME RequestInv, everLive \subseteq everLive', mem' = mem, NEW p \in Procs,
         NEW a \in ValidActions \union {Bad, "error"},
         req[p].at \in {"check", "bind", "pick", "act"},
         a \in {"BLOCK", "error"} \/ Mentioned(req[p], a),
         req[p].steady => \E f \in everLive : a = Says(f, req[p].tenant, req[p].capability, req[p].risk),
         Answer(p, a)
  PROVE  RequestInv'
<1>1. PICK old \in ReqRecords : old = req[p] /\ RequestFine(old)
  BY DEF RequestInv
<1>2. PICK new : new = [old EXCEPT !.at = "done", !.answer = a]
  OBVIOUS
<1>3. /\ new \in ReqRecords /\ new.at = "done" /\ new.answer = a /\ new.duty = old.duty
      /\ new.risk = old.risk /\ new.tenant = old.tenant /\ new.capability = old.capability
      /\ new.steady = old.steady
  BY <1>2 DEF ReqRecords
<1>4. new.answer \in {"BLOCK", "error"} \/ Mentioned(new, new.answer)
  BY <1>1, <1>3 DEF Mentioned
<1>5. new.steady => Undisturbed(new)
  BY <1>1, <1>3 DEF Undisturbed
<1>6. RequestFine(new)
  BY <1>1, <1>3, <1>4, <1>5 DEF RequestFine
<1>7. req' = [req EXCEPT ![p] = new]
  BY <1>1, <1>2 DEF Answer
<1> QED BY <1>3, <1>6, <1>7, RequestMoves

\* A usable store that no loads mixed up is one file's.
LEMMA CheckUsableKeeps ==
  ASSUME AdmissionInv, everLive \subseteq everLive', NEW p \in Procs, CheckUsable(p)
  PROVE  RequestInv'
<1>0. RequestInv /\ PolicyInv /\ mem' = mem
  BY DEF AdmissionInv, CheckUsable, LazyLoad, policyVars
<1>1. PICK old \in ReqRecords : old = req[p] /\ RequestFine(old) /\ old.at = "check" /\ ~old.steady
  BY <1>0 DEF RequestInv, CheckUsable, PolicyStep, RequestFine, Undisturbed
<1>2. CASE req' = req
  <2>1. req' = [req EXCEPT ![p] = old]
    BY <1>0, <1>1, <1>2 DEF RequestInv
  <2> QED BY <1>0, <1>1, <2>1, RequestMoves
<1>3. CASE mem.usable /\ req' = [req EXCEPT ![p].at = "bind", ![p].steady = ~mixed]
  <2>1. PICK steady \in BOOLEAN : steady = ~mixed
    OBVIOUS
  <2>2. PICK new : new = [old EXCEPT !.at = "bind", !.steady = steady]
    OBVIOUS
  <2>3. /\ new \in ReqRecords /\ new.at = "bind" /\ new.duty = old.duty /\ new.risk = old.risk
        /\ new.steady = steady
    BY <2>2 DEF ReqRecords
  <2>4. steady => \E f \in everLive : Holds(f)
    BY <1>0, <1>3, <2>1 DEF PolicyInv, StoreWhole
  <2>5. new.steady => Undisturbed(new)
    BY <2>3, <2>4 DEF Undisturbed
  <2>6. RequestFine(new)
    BY <1>1, <2>3, <2>5 DEF RequestFine
  <2>7. req' = [req EXCEPT ![p] = new]
    BY <1>1, <1>3, <2>1, <2>2
  <2> QED BY <1>0, <2>3, <2>6, <2>7, RequestMoves
<1>4. CASE Answer(p, "BLOCK")
  BY <1>0, <1>1, <1>4, AnswerKeeps DEF ValidActions
<1> QED BY <1>2, <1>3, <1>4 DEF CheckUsable

LEMMA BindTenantsKeeps ==
  ASSUME AdmissionInv, everLive \subseteq everLive', NEW p \in Procs, BindTenants(p)
  PROVE  RequestInv'
<1>0. RequestInv /\ mem' = mem
  BY DEF AdmissionInv, BindTenants, policyVars
<1>1. PICK old \in ReqRecords : old = req[p] /\ RequestFine(old) /\ old.at = "bind"
  BY <1>0 DEF RequestInv, BindTenants, PolicyStep
<1>2. PICK new : new = [old EXCEPT !.at = "pick", !.own = FALSE]
  OBVIOUS
<1>3. /\ new \in ReqRecords /\ new.at = "pick" /\ ~new.own /\ new.duty = old.duty /\ new.risk = old.risk
      /\ new.steady = old.steady
  BY <1>2 DEF ReqRecords
<1>4. new.steady => Undisturbed(new)
  BY <1>1, <1>3 DEF RequestFine, Undisturbed
<1>5. RequestFine(new)
  BY <1>1, <1>3, <1>4 DEF RequestFine
<1>6. req' = [req EXCEPT ![p] = new]
  BY <1>1, <1>2 DEF BindTenants
<1> QED BY <1>0, <1>3, <1>5, <1>6, RequestMoves

\* What the store holds for a tenant is something a file said.
LEMMA StoreRules ==
  ASSUME PolicyInv, NEW t \in Tenants
  PROVE  /\ mem.tenants[t] \in CleanRules
         /\ \A c \in Capabilities, r \in RiskLevels : mem.tenants[t][c][r] \in RuleFrom(t, c, r)
  BY DEF PolicyInv, PolicyTypes, Stores, CleanRules, FromFiles

LEMMA PickRulesKeeps ==
  ASSUME AdmissionInv, everLive \subseteq everLive', NEW p \in Procs, PickRules(p)
  PROVE  RequestInv'
<1>0. RequestInv /\ PolicyInv /\ mem' = mem
  BY DEF AdmissionInv, PickRules, policyVars
<1>1. PICK old \in ReqRecords : old = req[p] /\ RequestFine(old) /\ old.at = "pick"
  BY <1>0 DEF RequestInv, PickRules, PolicyStep
<1>2. old.tenant \in Tenants /\ old.rules \in CleanRules /\ DefaultTenant \in Tenants
  BY <1>1, PolicyAssumption DEF ReqRecords, CleanRules
<1>3. PICK own \in CleanRules : own = IF old.own THEN old.rules ELSE mem.tenants[old.tenant]
  BY <1>0, <1>2, StoreRules
<1>4. PICK rules \in CleanRules : rules = IF Defined(own) THEN own ELSE mem.tenants[DefaultTenant]
  BY <1>0, <1>2, StoreRules
<1>5. ASSUME NEW c \in Capabilities, NEW r \in RiskLevels
      PROVE  rules[c][r] \in RuleFrom(old.tenant, c, r) \union RuleFrom(DefaultTenant, c, r)
  <2>1. old.own => old.rules[c][r] \in RuleFrom(old.tenant, c, r) \union RuleFrom(DefaultTenant, c, r)
    BY <1>1 DEF RequestFine, RulesFor
  <2>2. /\ mem.tenants[old.tenant][c][r] \in RuleFrom(old.tenant, c, r)
        /\ mem.tenants[DefaultTenant][c][r] \in RuleFrom(DefaultTenant, c, r)
    BY <1>0, <1>2, StoreRules
  <2> QED BY <1>3, <1>4, <2>1, <2>2
<1>6. ASSUME old.steady
      PROVE  \E f \in everLive : Holds(f) /\ rules = ChosenRules(f, old.tenant) /\ Defined(mem.tenants[DefaultTenant])
  <2>1. PICK f \in everLive : Holds(f) /\ ~old.own
    BY <1>1, <1>6 DEF RequestFine, Undisturbed
  <2>2. mem.tenants = Parsed(f) /\ Defined(Parsed(f)[DefaultTenant])
    BY <2>1 DEF Holds
  <2>3. rules = ChosenRules(f, old.tenant)
    BY <1>3, <1>4, <2>1, <2>2 DEF ChosenRules
  <2> QED BY <2>1, <2>2, <2>3
<1>7. PICK new : new = [old EXCEPT !.at = "act", !.rules = rules]
  OBVIOUS
<1>8. /\ new \in ReqRecords /\ new.at = "act" /\ new.rules = rules /\ new.duty = old.duty
      /\ new.risk = old.risk /\ new.tenant = old.tenant /\ new.steady = old.steady
  BY <1>7 DEF ReqRecords, CleanRules
<1>9. RequestFine(new)
  <2>1. RulesFor(new)
    BY <1>5, <1>8 DEF RulesFor
  <2>2. new.steady => Undisturbed(new)
    BY <1>6, <1>8 DEF Undisturbed
  <2> QED BY <1>1, <1>8, <2>1, <2>2 DEF RequestFine
<1>10. CASE Defined(mem.tenants[DefaultTenant])
  <2>1. req' = [req EXCEPT ![p] = new]
    BY <1>1, <1>3, <1>4, <1>7, <1>10 DEF PickRules
  <2> QED BY <1>0, <1>8, <1>9, <2>1, RequestMoves
<1>11. CASE ~Defined(mem.tenants[DefaultTenant])
  <2>1. Answer(p, "error")
    BY <1>11 DEF PickRules
  <2>2. ~req[p].steady
    BY <1>1, <1>6, <1>11
  <2> QED BY <1>0, <1>1, <2>1, <2>2, AnswerKeeps
<1> QED BY <1>10, <1>11

LEMMA TakeActionKeeps ==
  ASSUME AdmissionInv, everLive \subseteq everLive', NEW p \in Procs, TakeAction(p)
  PROVE  RequestInv'
<1>0. RequestInv /\ PolicyInv /\ mem' = mem
  BY DEF AdmissionInv, TakeAction, policyVars
<1>1. PICK old \in ReqRecords : old = req[p] /\ RequestFine(old) /\ old.at = "act"
  BY <1>0 DEF RequestInv, TakeAction, PolicyStep
<1>2. old.risk \in RiskLevels /\ RulesFor(old)
  BY <1>1 DEF RequestFine
<1>3. old.capability \in Capabilities /\ old.rules \in CleanRules /\ old.tenant \in Tenants
  BY <1>1, PolicyAssumption DEF ReqRecords, CleanRules
<1>4. PICK rule \in ValidActions \union {Absent} : rule = old.rules[old.capability][old.risk]
  BY <1>2, <1>3 DEF CleanRules, RuleSets
<1>5. rule \in RuleFrom(old.tenant, old.capability, old.risk) \union RuleFrom(DefaultTenant, old.capability, old.risk)
  BY <1>2, <1>3, <1>4 DEF RulesFor
<1>6. /\ mem.default_action \in ValidActions \union {Bad}
      /\ mem.default_action \in {"BLOCK"} \union {f.default_action : f \in everLive}
  BY <1>0 DEF PolicyInv, PolicyTypes, Stores, FromFiles
<1>7. PICK a : a = IF rule # Absent THEN rule ELSE mem.default_action
  OBVIOUS
<1>8. a \in ValidActions \union {Bad, "error"}
  BY <1>4, <1>6, <1>7
<1>9. a \in {"BLOCK", "error"} \/ Mentioned(old, a)
  <2>1. CASE rule = Absent
    BY <1>6, <1>7, <2>1 DEF Mentioned, Mentions
  <2>2. CASE rule # Absent
    <3>1. PICK f \in everLive, t \in {old.tenant, DefaultTenant} : rule = f.rules[t][old.capability][old.risk]
      BY <1>5, <2>2 DEF RuleFrom
    <3>2. a \in Mentions(f, old.tenant, old.capability, old.risk)
      BY <1>7, <2>2, <3>1 DEF Mentions
    <3> QED BY <3>2 DEF Mentioned
  <2> QED BY <2>1, <2>2
<1>10. ASSUME old.steady PROVE \E f \in everLive : a = Says(f, old.tenant, old.capability, old.risk)
  <2>1. PICK f \in everLive : Holds(f) /\ old.rules = ChosenRules(f, old.tenant)
    BY <1>1, <1>10 DEF RequestFine, Undisturbed
  <2>2. f \in PolicyFiles
    BY <1>0 DEF PolicyInv, PolicyTypes
  <2>3. Defined(Parsed(f)[DefaultTenant]) /\ mem.default_action = DefaultAction(f)
    BY <2>1 DEF Holds
  <2>4. a = Lookup(ChosenRules(f, old.tenant), old.capability, old.risk, DefaultAction(f))
    BY <1>4, <1>7, <2>1, <2>3 DEF Lookup
  <2>5. Lookup(ChosenRules(f, old.tenant), old.capability, old.risk, DefaultAction(f))
          = Says(f, old.tenant, old.capability, old.risk)
    BY <1>2, <1>3, <2>2, <2>3, StoreSays
  <2> QED BY <2>4, <2>5
<1>11. Answer(p, a)
  BY <1>1, <1>4, <1>7 DEF TakeAction, Lookup
<1> QED BY <1>0, <1>1, <1>8, <1>9, <1>10, <1>11, AnswerKeeps

\* Who had bound the dictionary that is cleared keeps what it held.
LEMMA LoadKeepsRequests ==
  ASSUME AdmissionInv, everLive \subseteq everLive', NEW p \in Procs, Load(p)
  PROVE  RequestInv'
<1>0. RequestInv /\ PolicyInv
  BY DEF AdmissionInv
<1>1. ASSUME NEW q \in Procs PROVE req'[q] \in ReqRecords /\ RequestFine(req[q])'
  <2>1. PICK old \in ReqRecords : old = req[q] /\ RequestFine(old)
    BY <1>0 DEF RequestInv
  <2>2. PICK new : new = [old EXCEPT !.own = TRUE, !.rules = mem.tenants[old.tenant], !.steady = FALSE]
    OBVIOUS
  <2>3. old.tenant \in Tenants
    BY <2>1 DEF ReqRecords
  <2>4. mem.tenants[old.tenant] \in CleanRules
    BY <1>0, <2>3, StoreRules
  <2>5. /\ new \in ReqRecords /\ new.rules = mem.tenants[old.tenant] /\ new.duty = old.duty /\ new.at = old.at
        /\ new.risk = old.risk /\ new.tenant = old.tenant /\ new.capability = old.capability
        /\ new.answer = old.answer /\ ~new.steady
    BY <2>2, <2>4 DEF ReqRecords, CleanRules
  <2>6. RulesFor(new)
    BY <1>0, <2>3, <2>5, StoreRules DEF RulesFor
  <2>7. RequestFine(new)
    BY <2>1, <2>5, <2>6 DEF RequestFine, Mentioned
  <2>8. PICK steady \in BOOLEAN : steady = (old.steady /\ old.at = "done")
    OBVIOUS
  <2>9. PICK same : same = [old EXCEPT !.steady = steady]
    OBVIOUS
  <2>10. /\ same \in ReqRecords /\ same.rules = old.rules /\ same.duty = old.duty /\ same.at = old.at
         /\ same.risk = old.risk /\ same.tenant = old.tenant /\ same.capability = old.capability
         /\ same.answer = old.answer /\ same.own = old.own /\ same.steady = steady
    BY <2>9 DEF ReqRecords
  <2>11. RulesFor(old) => RulesFor(same)
    BY <2>10 DEF RulesFor
  <2>12. Mentioned(old, old.answer) => Mentioned(same, same.answer)
    BY <2>10 DEF Mentioned
  <2>13. steady => Undisturbed(same)
    BY <2>1, <2>8, <2>10 DEF RequestFine, Undisturbed
  <2>14. RequestFine(same)
    BY <2>1, <2>10, <2>11, <2>12, <2>13 DEF RequestFine
  <2>15. req'[q] = IF load[p].at = "clear" /\ old.at = "pick" /\ ~old.own THEN new ELSE same
    BY <2>1, <2>2, <2>8, <2>9 DEF Load
  <2>16. PICK next \in ReqRecords : next = req'[q] /\ RequestFine(next) /\ (next.steady => next.at = "done")
    BY <2>5, <2>7, <2>8, <2>10, <2>14, <2>15
  <2>17. RequestFine(next)'
    BY <2>16, RequestGrows
  <2> QED BY <2>16, <2>17
<1>2. req' \in [Procs -> ReqRecords]
  BY <1>1 DEF Load
<1> QED BY <1>1, <1>2 DEF RequestInv

LEMMA RequestStep ==
  ASSUME AdmissionInv, [Next]_admissionVars, everLive \subseteq everLive'
  PROVE  RequestInv'
<1>0. RequestInv
  BY DEF AdmissionInv
<1>1. ASSUME req' = req, mem' = mem PROVE RequestInv'
  <2>1. ASSUME NEW q \in Procs PROVE RequestFine(req[q])'
    <3>1. PICK r : r = req[q] /\ RequestFine(r)
      BY <1>0 DEF RequestInv
    <3>2. RequestFine(r)'
      BY <1>1, <3>1, RequestGrows
    <3> QED BY <1>1, <3>1, <3>2
  <2> QED BY <1>0, <1>1, <2>1 DEF RequestInv
<1>2. ASSUME NEW p \in Procs, req' = [req EXCEPT ![p] = IdleReq], mem' = mem PROVE RequestInv'
  BY <1>0, <1>2, IdleReqFine, RequestMoves
<1>3. CASE Restart
  BY <1>3, IdleReqFine DEF Restart, RequestInv, RequestFine
<1>4. ASSUME NEW p \in Procs, Administer(p) \/ AdminRefused(p) PROVE RequestInv'
  BY <1>2, <1>4 DEF Administer, AdminRefused, StartDeploy, StartRollback, StartJob, policyVars
<1>5. ASSUME NEW p \in Procs, Job(p) \/ PolicyTool(p) \/ Reload(p) \/ TenantLoad(p) PROVE RequestInv'
  BY <1>1, <1>5 DEF Job, PolicyTool, Reload, TenantLoad, JobStep, SnapshotName, SnapshotSave,
                    CopyTruncate, CopyWrite, StartDeploy, StartRollback, StartJob, policyVars
<1>6. ASSUME NEW o \in Operators, KeyTool(o) PROVE RequestInv'
  BY <1>1, <1>6 DEF KeyTool, policyVars
<1>7. CASE Edit
  BY <1>1, <1>7 DEF Edit, policyVars
<1>8. CASE UNCHANGED admissionVars
  BY <1>1, <1>8 DEF admissionVars, policyVars
<1> QED BY <1>3, <1>4, <1>5, <1>6, <1>7, <1>8, ArriveKeeps, ResolveTenantKeeps, CheckUsableKeeps,
           BindTenantsKeeps, PickRulesKeeps, TakeActionKeeps, LoadKeepsRequests DEF Next

-----------------------------------------------------------------------------
LEMMA AdmissionInitially == Init => AdmissionInv
<1> SUFFICES ASSUME Init PROVE AdmissionInv
  OBVIOUS
<1>1. RequestInv
  BY IdleReqFine DEF Init, RequestInv
<1> QED BY <1>1, KeyInitially, TenantInitially, PolicyInitially DEF Init, AdmissionInv

LEMMA AdmissionStep == AdmissionInv /\ [Next]_admissionVars => AdmissionInv'
<1> SUFFICES ASSUME AdmissionInv, [Next]_admissionVars PROVE AdmissionInv'
  OBVIOUS
<1>1. KeyInv'
  BY MovesTheKeys, KeyMoveKeeps DEF AdmissionInv
<1>2. TenantInv'
  BY MovesTheTenants, TenantMoveKeeps DEF AdmissionInv
<1>3. PolicyInv' /\ everLive \subseteq everLive'
  BY MovesThePolicy, PolicyMoveKeeps DEF AdmissionInv
<1>4. RequestInv'
  BY <1>3, RequestStep
<1> QED BY <1>1, <1>2, <1>3, <1>4 DEF AdmissionInv

LEMMA AdmissionInvariant == Spec => []AdmissionInv
  BY AdmissionInitially, AdmissionStep, PTL DEF Spec

\* PolicyStore.load and TenantStore.load: once nobody is loading, copying or
\* editing, each store holds what its file says, unless loads overlapped or the
\* tool wrote the file.
THEOREM StoresFollowFiles == Spec => []StoresSettled
<1>1. AdmissionInv => StoresSettled
  <2> SUFFICES ASSUME AdmissionInv PROVE SettledEnforcesFile /\ TenantsSettled
    BY DEF StoresSettled
  <2>1. TenantsSettled
    BY DEF AdmissionInv, TenantInv, TenantSerial, TenantsSettled, FileStatus
  <2>2. ASSUME mem.loaded, ~drift, Loading = {}, Working = {} PROVE Enforced
    <3>1. ~Dirty
      BY <2>2 DEF Dirty, Loading, Working
    <3> QED BY <2>2, <3>1 DEF AdmissionInv, PolicyInv, StoreSerial
  <2>3. SettledEnforcesFile
    BY <2>2 DEF SettledEnforcesFile, Enforced
  <2> QED BY <2>1, <2>3
<1> QED BY <1>1, AdmissionInvariant, PTL

\* deploy_policy and rollback_to: the version a command names holds the very file
\* it replaced, when no other change ran meanwhile.
THEOREM RollbackTargets == Spec => []RollbackTargetExact
<1>1. AdmissionInv => RollbackTargetExact
  BY DEF AdmissionInv, PolicyInv, JobSerial, RollbackTargetExact, Working
<1> QED BY <1>1, AdmissionInvariant, PTL

\* policy_decision: a request that found the store usable and that no load
\* disturbed is decided exactly as one file that was live says, however copies,
\* reloads, tools and restarts interleave with it; the others are blocked, get an
\* error, or something that is written in a live file.
THEOREM DecisionsHaveFiles == Spec => []DecisionsFromFiles
<1>1. AdmissionInv => DecisionsFromFiles
  BY DEF AdmissionInv, RequestInv, RequestFine, Undisturbed, Mentioned, DecisionsFromFiles
<1> QED BY <1>1, AdmissionInvariant, PTL

\* manage_api_keys issue and revoke: the key file holds what the commands that
\* ended add up to, unless two of them ran at once.
THEOREM KeyFileWhole == Spec => []KeyFileHoldsGrants
<1>1. AdmissionInv => KeyFileHoldsGrants
  BY DEF AdmissionInv, KeyInv, KeySerial, KeyFileHoldsGrants, Busy
<1> QED BY <1>1, AdmissionInvariant, PTL

\* KeyStore.load and lookup: a key the store knew stays known through every
\* reload, the ones that meet a torn file too.
THEOREM KeysAreRemembered == Spec => NoKeyIsForgotten
<1>1. AdmissionInv /\ [Next]_admissionVars =>
        [\A k \in Keys :
           /\ keyStore.loaded /\ keyStore'.loaded
           /\ keyStore.keys[k] # NotGranted
           /\ ~crossed' /\ ledger[k] = keyStore.keys[k]
           /\ \A o \in Operators : tool[o].key # k \/ tool[o].at = "idle"
           => keyStore'.keys[k] # NotGranted]_identityVars
  BY MovesTheKeys, KeyMoveRemembers DEF AdmissionInv
<1> QED BY <1>1, AdmissionInvariant, PTL DEF Spec, NoKeyIsForgotten
=============================================================================
