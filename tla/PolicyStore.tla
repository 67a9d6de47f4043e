---------------------------- MODULE PolicyStore ----------------------------
(***************************************************************************)
(* The policy store of one gateway process (core/policy.py), the live      *)
(* policy file it is loaded from and the versions kept beside that file    *)
(* (core/policy_versioning.py).                                            *)
(*                                                                         *)
(*   - PolicyStore.load takes no lock: it empties the live dictionary,     *)
(*     reads the file, adds the tenants one by one and only then says the  *)
(*     store is usable.  Requests read the store at any of these moments,  *)
(*     and several loads may run at once.                                  *)
(*   - A deploy or a rollback snapshots the live file, copies another one  *)
(*     over it (which truncates it first) and reloads.  The command-line   *)
(*     tool does so in a process of its own, whose reload is not ours.     *)
(*   - The process may be restarted at any step; the files stay.           *)
(*                                                                         *)
(* A policy file gives each tenant a map capability -> risk -> action.  A  *)
(* value the parser refuses is Bad; a missing key is Absent; a tenant with *)
(* no entry has every action Absent, a malformed one every action Bad.     *)
(***************************************************************************)
EXTENDS Naturals, FiniteSets, IdentityStores

CONSTANTS
    DefaultTenant, Capabilities, RiskLevels,
    Candidates,       \* the policy files somebody may deploy
    FirstFiles        \* what the live file may be at first

VARIABLES
    live,       \* the policy file on disk
    versions,   \* POLICY_VERSIONS_DIR: version name -> content
    mem,        \* PolicyStore: _tenants, _default_action, _usable, _loaded
    load,       \* where each thread is in PolicyStore.load
    job,        \* where each thread is in deploy_policy or rollback_to
    everLive,   \* history: the contents the live file has had
    mixed,      \* history: the store may hold what two overlapping loads left
    drift       \* history: ... or is not loaded from what the live file is now

policyVars == <<live, versions, mem, load, job, everLive, mixed, drift>>

ValidActions == {"BLOCK", "RESTRICT", "ALLOW", "REVIEW"}
Absent == "absent"
Bad == "bad"

RuleSets(values) == [Capabilities -> [RiskLevels -> values]]

\* "none": no file; "unreadable": not YAML or JSON, or without tenants (which a
\* truncated file is too); "listed": tenants is not an object.
PolicyFiles == [shape: {"none", "unreadable", "listed", "object"},
                default_action: ValidActions \union {Bad},
                rules: [Tenants -> RuleSets(ValidActions \union {Absent, Bad})]]

NoRules == [c \in Capabilities |-> [r \in RiskLevels |-> Absent]]
Emptied == [t \in Tenants |-> NoRules]
Truncated == [shape |-> "unreadable", default_action |-> "BLOCK", rules |-> Emptied]

\* A version is named after the second and the hash of the content.  Seconds
\* only tell more names apart: here every snapshot is taken in the same one.
NoVersion == [Truncated EXCEPT !.shape = "none"]

IdleLoad == [at |-> "idle", raw |-> Truncated, todo |-> {}]
IdleJob == [at |-> "idle", cli |-> FALSE, restore |-> FALSE, content |-> Truncated,
            version |-> NoVersion, saved |-> NoVersion, replaced |-> Truncated,
            alone |-> FALSE]

ASSUME PolicyAssumption ==
    /\ DefaultTenant \in Tenants
    /\ Capability \subseteq Capabilities
    /\ Candidates \subseteq PolicyFiles
    /\ FirstFiles \subseteq PolicyFiles

PolicyTypeOK ==
    /\ live \in PolicyFiles
    /\ DOMAIN versions \subseteq PolicyFiles
    /\ \A v \in DOMAIN versions : versions[v] \in PolicyFiles
    /\ mem \in [tenants: [Tenants -> RuleSets(ValidActions \union {Absent})],
                default_action: ValidActions \union {Bad}, usable: BOOLEAN, loaded: BOOLEAN]
    /\ \A p \in Procs :
          /\ load[p] \in [at: {"idle", "clear", "read", "correct", "fill", "finish"},
                          raw: PolicyFiles, todo: SUBSET Tenants]
          /\ job[p].at \in {"idle", "name", "save", "truncate", "write", "reload"}
          /\ job[p].saved \in PolicyFiles
    /\ everLive \subseteq PolicyFiles
    /\ mixed \in BOOLEAN /\ drift \in BOOLEAN

\* PolicyStore.__init__: nothing is loaded until the first request asks.
Unloaded == [tenants |-> Emptied, default_action |-> "BLOCK", usable |-> FALSE, loaded |-> FALSE]

PolicyInit ==
    /\ live \in FirstFiles
    /\ versions = [v \in {} |-> Truncated]
    /\ mem = Unloaded
    /\ load = [p \in Procs |-> IdleLoad]
    /\ job = [p \in Procs |-> IdleJob]
    /\ everLive = {live}
    /\ mixed = FALSE
    /\ drift = FALSE

Working == {p \in Procs : job[p].at # "idle"}
Loading == {p \in Procs : load[p].at # "idle"}

-----------------------------------------------------------------------------
\* What a file says.

Defined(rules) == \E c \in Capabilities, r \in RiskLevels : rules[c][r] # Absent

\* Mutant: an action is kept without looking it up in VALID_ACTIONS.
KeepEveryAction(rules) == [c \in Capabilities |-> [r \in RiskLevels |->
    IF rules[c][r] = Bad THEN "ALLOW" ELSE rules[c][r]]]

\* _parse_tenant_entry: what is malformed is dropped, alone.
ParseTenantEntry(rules) == [c \in Capabilities |-> [r \in RiskLevels |->
    IF rules[c][r] = Bad THEN Absent ELSE rules[c][r]]]

\* validate_policy_file: every problem is an error, so none may be left.
Valid(file) ==
    /\ file.shape = "object"
    /\ file.default_action # Bad
    /\ Defined(file.rules[DefaultTenant])
    /\ \A t \in Tenants, c \in Capabilities, r \in RiskLevels : file.rules[t][c][r] # Bad

DefaultAction(file) == IF file.default_action = Bad THEN "BLOCK" ELSE file.default_action

\* The store that a load, alone, makes of a file.
Parsed(file) == [t \in Tenants |->
    IF file.shape = "object" THEN ParseTenantEntry(file.rules[t]) ELSE NoRules]

\* policy_decision on a tenant's rules: an undefined capability or risk has the
\* file's default action, whichever tenant it is.
Lookup(rules, capability, risk, default) ==
    IF rules[capability][risk] # Absent THEN rules[capability][risk] ELSE default

-----------------------------------------------------------------------------
\* PolicyStore.load, in the steps other threads can see.

\* load(force=True), or the first get: load has passed its test of _loaded.
\* Loads that overlap leave a store nobody can tell.
EnterLoad(p) ==
    /\ load' = [load EXCEPT ![p].at = "clear"]
    /\ mixed' = (mixed \/ Loading # {})
    /\ drift' = (drift \/ Loading # {})

LazyLoad(p) ==
    /\ ~mem.loaded
    /\ load[p].at = "idle"
    /\ EnterLoad(p)
    /\ UNCHANGED <<live, versions, mem, job, everLive>>

LoadClear(p) ==
    /\ load[p].at = "clear"
    /\ mem' = [mem EXCEPT !.tenants = Emptied, !.usable = FALSE, !.loaded = TRUE]
    /\ load' = [load EXCEPT ![p].at = "read"]
    /\ mixed' = (Loading # {p})
    /\ drift' = (Loading # {p})
    /\ UNCHANGED <<live, versions, job, everLive>>

\* The load of p ends, and with it the deploy or rollback it belongs to.
EndLoad(p) ==
    /\ load' = [load EXCEPT ![p] = IdleLoad]
    /\ job' = [job EXCEPT ![p] = IF @.at = "reload" THEN IdleJob ELSE @]

\* The file's default action is stored as it is written ...
LoadRead(p) ==
    /\ load[p].at = "read"
    /\ IF live.shape \in {"listed", "object"}
       THEN /\ mem' = [mem EXCEPT !.default_action = live.default_action]
            /\ load' = [load EXCEPT ![p] = [at |-> "correct", raw |-> live, todo |-> Tenants]]
            /\ UNCHANGED job
       ELSE EndLoad(p) /\ UNCHANGED mem
    /\ UNCHANGED <<live, versions, everLive, mixed, drift>>

\* ... and what the store has by now is replaced when it is not an action.
LoadCorrect(p) ==
    /\ load[p].at = "correct"
    /\ mem' = [mem EXCEPT !.default_action = IF @ = Bad THEN "BLOCK" ELSE @]
    /\ IF load[p].raw.shape = "object"
       THEN load' = [load EXCEPT ![p].at = "fill"] /\ UNCHANGED job
       ELSE EndLoad(p)
    /\ UNCHANGED <<live, versions, everLive, mixed, drift>>

\* One tenant, in the file's order; an entry without a valid action is ignored.
LoadFill(p, t) ==
    LET rules == ParseTenantEntry(load[p].raw.rules[t]) IN
    /\ load[p].at = "fill"
    /\ t \in load[p].todo
    /\ mem' = [mem EXCEPT !.tenants[t] = IF Defined(rules) THEN rules ELSE @]
    /\ load' = [load EXCEPT ![p].todo = @ \ {t},
                            ![p].at = IF load[p].todo = {t} THEN "finish" ELSE "fill"]
    /\ UNCHANGED <<live, versions, job, everLive, mixed, drift>>

LoadFinish(p) ==
    /\ load[p].at = "finish"
    /\ mem' = [mem EXCEPT !.usable = @ \/ Defined(mem.tenants[DefaultTenant])]
    /\ EndLoad(p)
    /\ UNCHANGED <<live, versions, everLive, mixed, drift>>

LoadStep(p) ==
    \/ LoadClear(p)
    \/ LoadRead(p)
    \/ LoadCorrect(p)
    \/ \E t \in Tenants : LoadFill(p, t)
    \/ LoadFinish(p)

-----------------------------------------------------------------------------
\* deploy_policy and rollback_to: snapshot, copy, reload.

StartJob(p, new) ==
    /\ job[p].at = "idle" /\ load[p].at = "idle"
    /\ job' = [q \in Procs |-> IF q = p THEN [new EXCEPT !.at = "name", !.alone = (Working = {})]
                                        ELSE [job[q] EXCEPT !.alone = FALSE]]
    /\ UNCHANGED <<live, versions, mem, load, everLive, mixed, drift>>

\* POST /api/v1/policy/deploy, and the deploy command of the tool: a file that
\* does not validate is refused and changes nothing.
StartDeploy(p, file, cli) ==
    /\ Valid(file)
    /\ StartJob(p, [IdleJob EXCEPT !.content = file, !.cli = cli])

\* POST /api/v1/policy/rollback: an unknown version is a 404.
StartRollback(p, version, cli) ==
    /\ version \in DOMAIN versions
    /\ StartJob(p, [IdleJob EXCEPT !.restore = TRUE, !.version = version, !.cli = cli])

\* Mutant: the name is returned and nothing is saved under it.
SnapshotNameUnsaved(p) ==
    /\ job[p].at = "name"
    /\ job' = [job EXCEPT ![p].at = "truncate", ![p].saved = live]
    /\ UNCHANGED <<live, versions, mem, load, everLive, mixed, drift>>

\* snapshot_policy, first half: the name is made of the hash of the file as it
\* is now; no file, no snapshot.
SnapshotName(p) ==
    /\ job[p].at = "name"
    /\ job' = [job EXCEPT ![p].at = IF live.shape = "none" THEN "truncate" ELSE "save",
                          ![p].saved = IF live.shape = "none" THEN NoVersion ELSE live]
    /\ UNCHANGED <<live, versions, mem, load, everLive, mixed, drift>>

\* snapshot_policy, second half: the file is copied as it is by now.
SnapshotSave(p) ==
    LET name == job[p].saved IN
    /\ job[p].at = "save"
    /\ versions' = [v \in DOMAIN versions \union {name} |-> IF v = name THEN live ELSE versions[v]]
    /\ job' = [job EXCEPT ![p].at = "truncate"]
    /\ UNCHANGED <<live, mem, load, everLive, mixed, drift>>

\* shutil.copy2 over the live file: it is open for writing, and empty ...
CopyTruncate(p) ==
    /\ job[p].at = "truncate"
    /\ live' = Truncated
    /\ job' = [job EXCEPT ![p].at = "write", ![p].replaced = live]
    /\ UNCHANGED <<versions, mem, load, everLive, mixed, drift>>

\* Mutant: the new file is in place, and the store keeps the old one.
CopyWriteNoReload(p) ==
    LET file == IF job[p].restore THEN versions[job[p].version] ELSE job[p].content IN
    /\ job[p].at = "write"
    /\ live' = file
    /\ everLive' = everLive \union {file}
    /\ job' = [job EXCEPT ![p] = IdleJob]
    /\ UNCHANGED <<versions, mem, load, mixed, drift>>

\* ... then it has the content, and the store is reloaded: here, or in the
\* tool's own process, which leaves ours with what it had.
CopyWrite(p) ==
    LET file == IF job[p].restore THEN versions[job[p].version] ELSE job[p].content IN
    /\ job[p].at = "write"
    /\ live' = file
    /\ everLive' = everLive \union {file}
    /\ IF job[p].cli
       THEN /\ job' = [job EXCEPT ![p] = IdleJob]
            /\ drift' = TRUE
            /\ UNCHANGED <<load, mixed>>
       ELSE /\ job' = [job EXCEPT ![p].at = "reload"]
            /\ EnterLoad(p)
    /\ UNCHANGED <<versions, mem>>

JobStep(p) ==
    \/ SnapshotName(p)
    \/ SnapshotSave(p)
    \/ CopyTruncate(p)
    \/ CopyWrite(p)

\* The process ends wherever it is, and another one starts with the files.
PolicyRestart ==
    /\ mem' = Unloaded
    /\ load' = [p \in Procs |-> IdleLoad]
    /\ job' = [p \in Procs |-> IdleJob]
    /\ mixed' = FALSE
    /\ drift' = FALSE
    /\ UNCHANGED <<live, versions, everLive>>

-----------------------------------------------------------------------------
\* Once nobody is loading or copying, the store enforces the live file,
\* whatever requests, reloads and restarts happened before: deploy and rollback
\* "reload it immediately".  Not so when two loads overlapped, which fill one
\* dictionary from two files, or when the tool wrote the file.
SettledEnforcesFile ==
    /\ mem.loaded /\ ~drift
    /\ Loading = {} /\ Working = {}
    => /\ mem.tenants = Parsed(live)
       /\ mem.usable = Defined(Parsed(live)[DefaultTenant])
       /\ mem.usable => mem.default_action = DefaultAction(live)

\* deploy_policy: "the caller always has the exact rollback target for what it
\* just deployed": the version it names holds the very file it replaced, when no
\* other change ran meanwhile.
RollbackTargetExact ==
    \A p \in Working : job[p].alone /\ job[p].at \in {"write", "reload"} =>
        \/ job[p].replaced.shape = "none"
        \/ job[p].saved \in DOMAIN versions /\ versions[job[p].saved] = job[p].replaced
=============================================================================
