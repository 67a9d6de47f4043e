----------------------------- MODULE ReviewQueue -----------------------------
(***************************************************************************)
(* The human-review queue (core/review_queue.py): one dictionary in memory *)
(* shared by every request, loaded lazily from a JSON file and written     *)
(* back whole by every change, through one fixed staging file.  There is   *)
(* no lock.  enqueue is called by the async handlers, on the event loop,   *)
(* so two enqueues never overlap; the review endpoints are plain functions *)
(* that run in threads and overlap with everything.                        *)
(*                                                                         *)
(* A file is an inode: replacing moves the staging inode over the queue's, *)
(* and a writer keeps writing to the inode it opened.  A crash loses the   *)
(* memory and keeps the files.                                             *)
(***************************************************************************)
EXTENDS Naturals, FiniteSets

CONSTANTS
    Ops,        \* the calls made
    Ids,        \* review ids
    KindOf,     \* which call an op is
    IdOf,       \* the review an op is about
    OutcomeOf,  \* the outcome a resolve passes
    Lockings,   \* the sets of calls that a lock of their callers may serialize
    MayCrash    \* may the process crash and restart?

Outcomes == {"APPROVED", "REJECTED"}

ASSUME QueueAssumption ==
    /\ KindOf \in [Ops -> {"enqueue", "resolve", "read"}]
    /\ IdOf \in [Ops -> Ids]
    /\ OutcomeOf \in [Ops -> Outcomes]
    /\ Lockings \subseteq SUBSET Ops
    /\ MayCrash \in BOOLEAN
    /\ "seed" \notin Ops /\ "none" \notin Ops

\* uuid4: no two reviews are given one id.
ASSUME FreshIds ==
    \A o, p \in Ops :
        KindOf[o] = "enqueue" /\ KindOf[p] = "enqueue" /\ IdOf[o] = IdOf[p] => o = p

VARIABLES
    alone,     \* the calls that overlap with no other: chosen once, by the callers
    loaded,    \* _loaded
    records,   \* _records, as a function that is Absent outside its keys
    pc,        \* where each call is
    buffer,    \* what a call's load has read
    detached,  \* resolves whose record is no longer the one in _records
    fd,        \* the inode a call has open for writing
    keys,      \* the keys of _records when a call opened the staging file
    tmp,       \* the inode of <path>.tmp
    path,      \* the inode of the queue's file
    content,   \* what each inode holds
    raced      \* history: two calls have written the staging file at a time

memory == <<loaded, records, detached>>
disk == <<tmp, path, content>>
writer == <<fd, keys>>
vars == <<alone, memory, pc, buffer, writer, disk, raced>>

None == "none"
Absent == [status |-> "absent", reviewer |-> None, decision |-> None]
Pending == [status |-> "PENDING", reviewer |-> None, decision |-> None]
Record == [status: {"PENDING"} \union Outcomes,
           reviewer: Ops \union {None},
           decision: {"ALLOW", "BLOCK", None}]
Contents == [Ids -> Record \union {Absent}]
Inodes == Ops \union {"seed"}

Empty == [i \in Ids |-> Absent]
Torn == [whole |-> FALSE, map |-> Empty]
Whole(map) == [whole |-> TRUE, map |-> map]
Keys(map) == {i \in Ids : map[i] # Absent}

\* Reviews of an earlier life of the process: those no call enqueues.
Seeded == [i \in Ids |->
             IF \E o \in Ops : KindOf[o] = "enqueue" /\ IdOf[o] = i THEN Absent ELSE Pending]

Loading == {"exists", "loading"}
Resolving == {"status", "reviewer", "decision"}
Acting == Resolving \union {"act", "open", "write", "replace"}
Active == {o \in Ops : pc[o] \in Loading \union Acting}

TypeOK ==
    /\ alone \in Lockings
    /\ loaded \in BOOLEAN
    /\ records \in Contents
    /\ pc \in [Ops -> {"new", "returned", "raised", "lost"} \union Loading \union Acting]
    /\ buffer \in [Ops -> Contents]
    /\ detached \subseteq Ops
    /\ fd \in [Ops -> Inodes \union {None}]
    /\ keys \in [Ops -> SUBSET Ids]
    /\ tmp \in Inodes \union {None}
    /\ path \in Inodes \union {None}
    /\ content \in [Inodes -> [whole: BOOLEAN, map: Contents]]
    /\ raced \in BOOLEAN

Init ==
    /\ alone \in Lockings
    /\ loaded = FALSE
    /\ records = Empty
    /\ pc = [o \in Ops |-> "new"]
    /\ buffer = [o \in Ops |-> Empty]
    /\ detached = {}
    /\ fd = [o \in Ops |-> None]
    /\ keys = [o \in Ops |-> {}]
    /\ tmp = None
    /\ path \in {None, "seed"}
    /\ content = [n \in Inodes |-> IF n = "seed" THEN Whole(Seeded) ELSE Torn]
    /\ raced = FALSE

Goto(o, place) == pc' = [pc EXCEPT ![o] = place]

-----------------------------------------------------------------------------
\* A call starts, with load: the first one marks the queue as loaded, and only
\* then reads the file.
Begin(o) ==
    /\ pc[o] = "new"
    /\ o \in alone => Active = {}
    /\ Active \intersect alone = {}
    /\ KindOf[o] = "enqueue" => \A p \in Active : KindOf[p] # "enqueue"
    /\ Goto(o, IF loaded THEN "act" ELSE "exists")
    /\ loaded' = TRUE
    /\ UNCHANGED <<records, detached, buffer, writer, disk>>

\* Mutant: the queue of an earlier life is not read.
LoadReadEmpty(o) ==
    /\ pc[o] = "exists"
    /\ Goto(o, "loading")
    /\ UNCHANGED <<memory, buffer, writer, disk>>

\* The file is read; a missing or an unreadable one is an empty queue.
LoadRead(o) ==
    /\ pc[o] = "exists"
    /\ buffer' = [buffer EXCEPT ![o] =
                    IF path = None THEN Empty ELSE content[path].map]
    /\ Goto(o, "loading")
    /\ UNCHANGED <<memory, writer, disk>>

\* _records becomes a new dictionary; a resolve that holds a record of the old
\* one writes to it in vain.
LoadAssign(o) ==
    /\ pc[o] = "loading"
    /\ records' = buffer[o]
    /\ detached' = detached \union {p \in Ops : pc[p] \in Resolving}
    /\ buffer' = [buffer EXCEPT ![o] = Empty]
    /\ Goto(o, "act")
    /\ UNCHANGED <<loaded, writer, disk>>

Enqueue(o) ==
    /\ pc[o] = "act" /\ KindOf[o] = "enqueue"
    /\ records' = [records EXCEPT ![IdOf[o]] = Pending]
    /\ Goto(o, "open")
    /\ UNCHANGED <<loaded, detached, buffer, writer, disk>>

\* get and list_pending change nothing but what load changes.
Read(o) ==
    /\ pc[o] = "act" /\ KindOf[o] = "read"
    /\ Goto(o, "returned")
    /\ UNCHANGED <<memory, buffer, writer, disk>>

\* KeyError for an unknown review, ValueError for a resolved one.
ResolveRefused(o) ==
    /\ pc[o] = "act" /\ KindOf[o] = "resolve"
    /\ records[IdOf[o]].status # "PENDING"
    /\ Goto(o, "raised")
    /\ UNCHANGED <<memory, buffer, writer, disk>>

ResolveCheck(o) ==
    /\ pc[o] = "act" /\ KindOf[o] = "resolve"
    /\ records[IdOf[o]].status = "PENDING"
    /\ Goto(o, "status")
    /\ UNCHANGED <<memory, buffer, writer, disk>>

\* A field of the record that ResolveCheck found is assigned.
SetField(o, record) ==
    /\ records' = IF o \in detached THEN records ELSE [records EXCEPT ![IdOf[o]] = record]
    /\ UNCHANGED <<loaded, detached, buffer, writer, disk>>

SetStatus(o) ==
    /\ pc[o] = "status"
    /\ SetField(o, [records[IdOf[o]] EXCEPT !.status = OutcomeOf[o]])
    /\ Goto(o, "reviewer")

SetReviewer(o) ==
    /\ pc[o] = "reviewer"
    /\ SetField(o, [records[IdOf[o]] EXCEPT !.reviewer = o])
    /\ Goto(o, "decision")

\* _RESOLUTION_TO_DECISION
DecisionOf(outcome) == IF outcome = "APPROVED" THEN "ALLOW" ELSE "BLOCK"

SetDecision(o) ==
    /\ pc[o] = "decision"
    /\ SetField(o, [records[IdOf[o]] EXCEPT !.decision = DecisionOf(OutcomeOf[o])])
    /\ Goto(o, "open")

-----------------------------------------------------------------------------
\* Mutant: _save opens the queue's own file.
SaveOpenInPlace(o) ==
    /\ pc[o] = "open"
    /\ LET inode == IF path = None THEN o ELSE path IN
       /\ fd' = [fd EXCEPT ![o] = inode]
       /\ tmp' = inode
       /\ content' = [content EXCEPT ![inode] = Torn]
    /\ keys' = [keys EXCEPT ![o] = Keys(records)]
    /\ Goto(o, "write")
    /\ UNCHANGED <<memory, buffer, path>>

\* Mutant: the staging file is opened for appending.
SaveOpenAppend(o) ==
    /\ pc[o] = "open"
    /\ LET inode == IF tmp = None THEN o ELSE tmp IN
       /\ fd' = [fd EXCEPT ![o] = inode]
       /\ tmp' = inode
       /\ UNCHANGED content
    /\ keys' = [keys EXCEPT ![o] = Keys(records)]
    /\ Goto(o, "write")
    /\ UNCHANGED <<memory, buffer, path>>

\* _save: open(tmp, "w") creates the staging file, or truncates the one that is
\* there, whoever is writing to it.
SaveOpen(o) ==
    /\ pc[o] = "open"
    /\ LET inode == IF tmp = None THEN o ELSE tmp IN
       /\ fd' = [fd EXCEPT ![o] = inode]
       /\ tmp' = inode
       /\ content' = [content EXCEPT ![inode] = Torn]
    /\ keys' = [keys EXCEPT ![o] = Keys(records)]
    /\ Goto(o, "write")
    /\ UNCHANGED <<memory, buffer, path>>

Written(o, data) ==
    /\ content' = [content EXCEPT ![fd[o]] = data]
    /\ fd' = [fd EXCEPT ![o] = None]
    /\ keys' = [keys EXCEPT ![o] = {}]
    /\ UNCHANGED <<memory, buffer, tmp, path>>

\* json.dump writes the whole dictionary from the start of the file; over a
\* longer text another writer left there, the end of that text remains.
SaveWrite(o) ==
    /\ pc[o] = "write"
    /\ \/ Written(o, Whole(records))
       \/ content[fd[o]].whole /\ Written(o, Torn)
    /\ Goto(o, "replace")

\* A key added while json.dump iterates: RuntimeError, with part of it written.
SaveChanged(o) ==
    /\ pc[o] = "write"
    /\ Keys(records) # keys[o]
    /\ Written(o, Torn)
    /\ Goto(o, "raised")

\* Mutant: the call returns with the staging file written.
SaveWithoutReplace(o) ==
    /\ pc[o] = "replace" /\ tmp # None
    /\ tmp' = None
    /\ Goto(o, "returned")
    /\ UNCHANGED <<memory, buffer, writer, path, content>>

\* os.replace
SaveReplace(o) ==
    /\ pc[o] = "replace" /\ tmp # None
    /\ path' = tmp
    /\ tmp' = None
    /\ Goto(o, "returned")
    /\ UNCHANGED <<memory, buffer, writer, content>>

\* FileNotFoundError: another call has moved the staging file already.
SaveVanished(o) ==
    /\ pc[o] = "replace" /\ tmp = None
    /\ Goto(o, "raised")
    /\ UNCHANGED <<memory, buffer, writer, disk>>

\* The process dies and restarts: the files stay, the calls in flight are lost.
Crash ==
    /\ MayCrash
    /\ loaded
    /\ loaded' = FALSE
    /\ records' = Empty
    /\ pc' = [o \in Ops |-> IF o \in Active THEN "lost" ELSE pc[o]]
    /\ buffer' = [o \in Ops |-> Empty]
    /\ detached' = {}
    /\ fd' = [o \in Ops |-> None]
    /\ keys' = [o \in Ops |-> {}]
    /\ UNCHANGED disk

Step ==
    \/ \E o \in Ops :
          \/ Begin(o)
          \/ LoadRead(o)
          \/ LoadAssign(o)
          \/ Enqueue(o)
          \/ Read(o)
          \/ ResolveRefused(o)
          \/ ResolveCheck(o)
          \/ SetStatus(o)
          \/ SetReviewer(o)
          \/ SetDecision(o)
          \/ SaveOpen(o)
          \/ SaveWrite(o)
          \/ SaveChanged(o)
          \/ SaveReplace(o)
          \/ SaveVanished(o)
    \/ Crash

\* Two calls are between opening the staging file and replacing the queue's.
Overlap == \E o, p \in Ops : o # p /\ {pc[o], pc[p]} \subseteq {"write", "replace"}

\* The callers' locking is part of their code.
Next ==
    /\ Step
    /\ raced' = (raced \/ Overlap')
    /\ UNCHANGED alone

Spec == Init /\ [][Next]_vars

-----------------------------------------------------------------------------
Returned(kind) == {o \in Ops : KindOf[o] = kind /\ pc[o] = "returned"}

\* What a load would find of a review.
OnFile(i) == IF path = None THEN Absent ELSE content[path].map[i]

\* Every call is serialized by its caller, as the tests say it must be.
Serialized == alone = Ops

\* _save: until two saves overlap, the queue's file is a complete one, whatever
\* other calls do between the steps of a save, whenever one raises and whenever
\* the process dies.  Two saves that overlap may tear it: both write the one
\* staging file, and the first to replace moves what the second has truncated.
FileNeverTorn == ~raced /\ path # None => content[path].whole

\* A serialized call that returned has made its change durable: no crash,
\* restart or later call loses a review that was acknowledged, or overwrites the
\* outcome, the reviewer or the decision of the one who resolved it.
AckedIsDurable ==
    Serialized =>
        /\ \A o \in Returned("enqueue") : OnFile(IdOf[o]) # Absent
        /\ \A o \in Returned("resolve") :
              OnFile(IdOf[o]) = [status |-> OutcomeOf[o], reviewer |-> o,
                                 decision |-> DecisionOf(OutcomeOf[o])]

\* A review once in the file stays there, and once resolved keeps its outcome and
\* its reviewer.
ReviewsAreKept ==
    [][Serialized =>
         \A i \in Ids :
             /\ OnFile(i) # Absent => OnFile(i)' # Absent
             /\ OnFile(i).status \in Outcomes => OnFile(i)' = OnFile(i)]_vars

\* A call that nobody disturbs leaves the file whole and equal to the memory,
\* whatever crashes and races left behind before it: a torn queue file, or a
\* staging file, whole or torn.
SaveRepairs ==
    [][\A o \in alone :
         pc[o] = "replace" /\ pc'[o] = "returned" =>
             path' # None /\ content'[path'] = Whole(records')]_vars
=============================================================================
