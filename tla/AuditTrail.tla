----------------------------- MODULE AuditTrail -----------------------------
(***************************************************************************)
(* The audit trail: core/logger.py, core/audit_store.py, core/activity.py  *)
(* and scripts/migrate_audit_to_sqlite.py.                                 *)
(*                                                                         *)
(* A record is written twice, to the JSONL file and to the SQLite mirror,  *)
(* in two steps.  The logging handler swallows an error of the first; an   *)
(* error of the second is raised only when SQLite is what readers read.    *)
(* Readers see one tenant, or all of them for an INTERNAL caller, from     *)
(* SQLite or from the end of the file in chunks.  The migration copies the *)
(* lines of the file to SQLite and remembers their hashes in a ledger.     *)
(*                                                                         *)
(* The file is measured in lines: a chunk ends in the middle of one, which *)
(* is carried over to the chunk before it.                                 *)
(***************************************************************************)
EXTENDS Naturals, FiniteSets, Sequences, SequencesExt

CONSTANTS
    Settings,       \* AUDIT_SQLITE_ENABLED and AUDIT_READ_FROM_SQLITE; a bound
                    \* on the migrations that are started
    OldLines,       \* what the file may hold from earlier versions and crashes
    Tenants,
    Unset,          \* the tenant of a line that names none
    Everyone,       \* no filter on the tenant
    Chunk,          \* CHUNK_SIZE
    MaxChunks       \* MAX_BYTES_SCANNED, in chunks

VARIABLES
    setting,
    jsonl,   \* the lines of the file
    db,      \* the rows of SQLite, in the order of their ids
    ledger,  \* the table migrated_line
    mig      \* the migration: where it is, the hashes it knows, its next line

audit == <<setting, jsonl, db, ledger, mig>>

ASSUME AuditAssumption ==
    /\ Settings \subseteq [enabled: BOOLEAN, read: BOOLEAN, migrations: Nat]
    /\ \A old \in OldLines : old \in Seq(ToSet(old))
    /\ {Chunk, MaxChunks} \subseteq Nat \ {0}
    /\ Everyone \notin Tenants /\ Unset \notin Tenants

AuditInit ==
    /\ setting \in Settings
    /\ jsonl \in OldLines
    /\ db = <<>>
    /\ ledger = {}
    /\ mig = [at |-> "idle", seen |-> {}, next |-> 1, runs |-> 0]

-----------------------------------------------------------------------------
\* Writing: log_tool_event and the other log_* functions, _mirror_to_sqlite.

ToolEvent(rid, tenant) == [rid |-> rid, tenant |-> tenant, kind |-> "tool_call"]

\* The handler writes the line, or swallows the error of writing it.
AppendLine(rec) ==
    /\ jsonl' \in {jsonl, Append(jsonl, rec)}
    /\ UNCHANGED <<setting, db, ledger, mig>>

\* audit_store.write: one row in one transaction.
WriteRow(rec) == db' = Append(db, rec) /\ UNCHANGED <<setting, jsonl, ledger, mig>>

\* Mutant: no failure of the mirror is the caller's.
MirrorRaisesNever == FALSE

\* _mirror_to_sqlite: whether a write that failed is raised.
MirrorRaises == setting.read

-----------------------------------------------------------------------------
\* Reading: get_recent_activity, find_by_request_id.

\* _resolve_activity_tenant_scope.
Scope(cap, tenant, asked) == IF cap = "INTERNAL" /\ asked # Unset THEN asked ELSE tenant

Matches(rec, scope) == scope = Everyone \/ rec.tenant = scope

\* The lines that are whole once the file has been read down to a position.
Whole(pos) == IF pos = 0 THEN DOMAIN jsonl ELSE (pos + 2)..Len(jsonl)
After(pos, chunks) == IF pos <= chunks * Chunk THEN 0 ELSE pos - chunks * Chunk

\* The n largest of a set of positions.
NewestOf(S, n) == {i \in S : Cardinality({j \in S : j > i}) < n}

\* _tail_raw_lines: chunk after chunk until there are enough lines.
ChunksRead(needed) ==
    CHOOSE k \in 1..MaxChunks :
        LET enough(m) == \/ After(Len(jsonl), m) = 0
                         \/ Cardinality(Whole(After(Len(jsonl), m))) >= needed
        IN  /\ enough(k) \/ k = MaxChunks
            /\ \A m \in 1..(k - 1) : ~enough(m)

Kept(S, scope) == {i \in S : jsonl[i].kind # "bad" /\ Matches(jsonl[i], scope)}
Lines(S) == {jsonl[i] : i \in S}

\* Mutant: the second pass forgets the filter.
JsonlFeedUnscoped(limit, scope) ==
    LET pos   == After(Len(jsonl), ChunksRead(limit))
        first == Kept(NewestOf(Whole(pos), limit), scope)
        more  == Kept(Whole(After(pos, MaxChunks)) \ Whole(pos), Everyone)
    IN  Lines(NewestOf(first \union (IF Cardinality(first) < limit /\ pos > 0 THEN more ELSE {}), limit))

\* The first pass takes as many lines as events are wanted, and drops the rest
\* of its last chunk; the second goes on below that chunk, unless the first gave
\* up.
JsonlFeed(limit, scope) ==
    LET pos      == After(Len(jsonl), ChunksRead(limit))
        gaveUp   == pos > 0 /\ Cardinality(Whole(pos)) < limit
        first    == Kept(NewestOf(Whole(pos), limit), scope)
        more     == Kept(Whole(After(pos, MaxChunks)) \ Whole(pos), scope)
        goesOn   == Cardinality(first) < limit /\ ~gaveUp /\ pos > 0
    IN  Lines(NewestOf(first \union (IF goesOn THEN more ELSE {}), limit))

JsonlTrace(rid, scope) ==
    {r \in Lines(Kept(Whole(After(Len(jsonl), MaxChunks)), scope)) : r.rid = rid}

\* audit_store.recent: the newest rows of each table, then the newest of them;
\* legacy rows are older than the others.
SqliteFeed(limit, scope) ==
    LET rows(kind) == {i \in DOMAIN db : db[i].kind = kind /\ Matches(db[i], scope)}
        events     == NewestOf(rows("tool_call"), limit)
        old        == NewestOf(rows("legacy"), limit - Cardinality(events))
    IN  {db[i] : i \in events \union old}

\* audit_store.by_request_id.
SqliteTrace(rid, scope) == {r \in ToSet(db) : r.rid = rid /\ Matches(r, scope)}

\* SQLite when it is the read authority, the file when it is not or when the
\* read fails.
Feeds(limit, scope) ==
    {JsonlFeed(limit, scope)} \union (IF setting.read THEN {SqliteFeed(limit, scope)} ELSE {})
Traces(rid, scope) ==
    {JsonlTrace(rid, scope)} \union (IF setting.read THEN {SqliteTrace(rid, scope)} ELSE {})

-----------------------------------------------------------------------------
\* migrate: it may be run again, and may be stopped, at any moment.

MigrateStart ==
    /\ mig.at = "idle"
    /\ mig.runs < setting.migrations
    /\ mig' = [at |-> "line", seen |-> ledger, next |-> 1, runs |-> mig.runs + 1]
    /\ UNCHANGED <<setting, jsonl, db, ledger>>

More == mig.at = "line" /\ mig.next <= Len(jsonl)
Line == jsonl[mig.next]

\* A line it knows, or cannot parse.
MigrateSkip ==
    /\ More
    /\ Line \in mig.seen \/ Line.kind = "bad"
    /\ mig' = [mig EXCEPT !.next = @ + 1]
    /\ UNCHANGED <<setting, jsonl, db, ledger>>

\* Mutant: the ledger first.
MigrateWriteLedgerFirst ==
    /\ More
    /\ Line \notin mig.seen /\ Line.kind # "bad"
    /\ ledger' = ledger \union {Line}
    /\ mig' = [mig EXCEPT !.at = "ledger"]
    /\ UNCHANGED <<setting, jsonl, db>>

MigrateWrite ==
    /\ More
    /\ Line \notin mig.seen /\ Line.kind # "bad"
    /\ db' = Append(db, Line)
    /\ mig' = [mig EXCEPT !.at = "ledger"]
    /\ UNCHANGED <<setting, jsonl, ledger>>

MigrateLedger ==
    /\ mig.at = "ledger"
    /\ ledger' = ledger \union {Line}
    /\ mig' = [mig EXCEPT !.at = "line", !.seen = @ \union {Line}, !.next = @ + 1]
    /\ UNCHANGED <<setting, jsonl, db>>

MigrateEnd ==
    /\ mig.at = "line"
    /\ mig.next > Len(jsonl)
    /\ mig' = [mig EXCEPT !.at = "idle"]
    /\ UNCHANGED <<setting, jsonl, db, ledger>>

\* Killed, or a write raised.
MigrateStops ==
    /\ mig.at \in {"line", "ledger"}
    /\ mig' = [mig EXCEPT !.at = "idle"]
    /\ UNCHANGED <<setting, jsonl, db, ledger>>

Migrate ==
    \/ MigrateStart
    \/ MigrateSkip
    \/ MigrateWrite
    \/ MigrateLedger
    \/ MigrateEnd
    \/ MigrateStops

-----------------------------------------------------------------------------
\* The migration "never" drops a line: what the ledger tells it to skip has its
\* row, and the lines it has passed are in SQLite, wherever it was stopped
\* before and whatever else is written meanwhile.
MigrationSkipsNothing ==
    /\ ledger \subseteq ToSet(db)
    /\ mig.at # "idle" =>
          \A i \in 1..(mig.next - 1) : jsonl[i].kind # "bad" => jsonl[i] \in ToSet(db)

\* Whatever the size of the file, the filters and the source, a caller who is not
\* INTERNAL is shown events of its own tenant only, in the feed and in a trace.
ReadsStayInScope ==
    LET rids == {r.rid : r \in ToSet(jsonl) \union ToSet(db)} IN
    \A tenant \in Tenants, limit \in 1..Chunk :
        \A scope \in {Scope(cap, tenant, asked) : cap \in {"GENERAL", "ELEVATED"},
                                                 asked \in Tenants \union {Unset, Everyone}} :
            \A shown \in Feeds(limit, scope) \union UNION {Traces(x, scope) : x \in rids} :
                \A r \in shown : r.tenant = tenant
=============================================================================
