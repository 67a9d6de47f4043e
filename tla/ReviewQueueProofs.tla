------------------------- MODULE ReviewQueueProofs --------------------------
(***************************************************************************)
(* What the review queue keeps for any number of calls, reviews and        *)
(* crashes, when its callers serialize the calls, and what a single call   *)
(* that nobody disturbs does for the file.                                 *)
(***************************************************************************)
EXTENDS ReviewQueue, TLAPS

\* What a load would find.
FileMap == IF path = None THEN Empty ELSE content[path].map

Made(status, reviewer, decision) ==
    [status |-> status, reviewer |-> reviewer, decision |-> decision]
ResolvedBy(o) == Made(OutcomeOf[o], o, DecisionOf(OutcomeOf[o]))

Saving == {"open", "write", "replace"}

\* What a serialized call has at a place.
AloneAt(o) ==
    /\ pc[o] = "write" => /\ tmp # None /\ fd[o] = tmp
                          /\ content[tmp] = Torn
                          /\ keys[o] = Keys(records)
    /\ pc[o] = "replace" => tmp # None /\ content[tmp] = Whole(records)

\* A call that its caller serializes is alone, and the staging file is its own.
AloneInv == \A o \in alone : o \in Active => Active = {o} /\ AloneAt(o)

\* The staging file is never the queue's, and a call that has not opened it yet
\* has no inode anywhere.
Unopened == {"new", "act", "open"} \union Loading \union Resolving

FilesApart ==
    /\ path # None => content[path].whole
    /\ tmp # None => tmp # path
    /\ \A o \in Ops : pc[o] \in Unopened => path # o /\ tmp # o

\* How far the memory is ahead of the file when a call is at a place.
Change(o) ==
    LET found == FileMap[IdOf[o]] IN
    CASE pc[o] = "status"   -> found
      [] pc[o] = "reviewer" -> Made(OutcomeOf[o], found.reviewer, found.decision)
      [] pc[o] = "decision" -> Made(OutcomeOf[o], o, found.decision)
      [] OTHER              -> IF KindOf[o] = "enqueue" THEN Pending ELSE ResolvedBy(o)

AtPlace(o) ==
    /\ pc[o] = "loading" => buffer[o] = FileMap
    /\ pc[o] = "act" => records = FileMap
    /\ pc[o] \in Resolving => KindOf[o] = "resolve"
    /\ pc[o] \in Saving => KindOf[o] # "read"
    /\ pc[o] \in Resolving \union Saving =>
          /\ records = [FileMap EXCEPT ![IdOf[o]] = Change(o)]
          /\ KindOf[o] = "resolve" => FileMap[IdOf[o]].status = "PENDING"

MemoryFollows ==
    /\ detached = {}
    /\ ~loaded => Active = {}
    /\ loaded /\ Active = {} => records = FileMap
    /\ \A o \in Ops : AtPlace(o)

\* A review that is still to be enqueued is in no file.
NotYetOnFile ==
    \A o \in Ops : KindOf[o] = "enqueue" /\ pc[o] \in {"new"} \union Loading \union Acting =>
        FileMap[IdOf[o]] = Absent

Acked ==
    /\ \A o \in Returned("enqueue") : FileMap[IdOf[o]] # Absent
    /\ \A o \in Returned("resolve") : FileMap[IdOf[o]] = ResolvedBy(o)

SerialInv == FilesApart /\ MemoryFollows /\ NotYetOnFile /\ Acked

-----------------------------------------------------------------------------
\* The records and the contents that the steps make.
LEMMA Constants ==
  /\ Pending \in Record /\ Absent \notin Record
  /\ Empty \in Contents /\ Seeded \in Contents
  /\ Torn \in [whole: BOOLEAN, map: Contents] /\ Torn.whole = FALSE
  /\ None \notin Inodes
<1>1. Pending \in Record
  BY DEF Pending, Record, None
<1>2. Absent \notin Record
  BY DEF Absent, Record, Outcomes
<1>3. Empty \in Contents /\ Seeded \in Contents
  BY <1>1 DEF Empty, Seeded, Contents
<1>4. Torn \in [whole: BOOLEAN, map: Contents] /\ Torn.whole = FALSE
  BY <1>3 DEF Torn
<1>5. None \notin Inodes
  BY QueueAssumption DEF Inodes, None
<1> QED BY <1>1, <1>2, <1>3, <1>4, <1>5

LEMMA WholeType ==
  ASSUME NEW map \in Contents
  PROVE  Whole(map) \in [whole: BOOLEAN, map: Contents] /\ Whole(map).whole /\ Whole(map).map = map
  BY DEF Whole

\* Each assignment of resolve makes a record of a record.
LEMMA AssignedRecords ==
  ASSUME NEW o \in Ops, NEW r \in Record
  PROVE  /\ [r EXCEPT !.status = OutcomeOf[o]] = Made(OutcomeOf[o], r.reviewer, r.decision)
         /\ [r EXCEPT !.reviewer = o] = Made(r.status, o, r.decision)
         /\ [r EXCEPT !.decision = DecisionOf(OutcomeOf[o])]
              = Made(r.status, r.reviewer, DecisionOf(OutcomeOf[o]))
         /\ Made(OutcomeOf[o], r.reviewer, r.decision) \in Record
         /\ Made(r.status, o, r.decision) \in Record
         /\ Made(r.status, r.reviewer, DecisionOf(OutcomeOf[o])) \in Record
         /\ ResolvedBy(o) \in Record
<1> USE QueueAssumption DEF Record, Outcomes, Made, DecisionOf
<1>1. [r EXCEPT !.status = OutcomeOf[o]] = Made(OutcomeOf[o], r.reviewer, r.decision)
  OBVIOUS
<1>2. [r EXCEPT !.reviewer = o] = Made(r.status, o, r.decision)
  OBVIOUS
<1>3. [r EXCEPT !.decision = DecisionOf(OutcomeOf[o])]
        = Made(r.status, r.reviewer, DecisionOf(OutcomeOf[o]))
  OBVIOUS
<1>4. Made(OutcomeOf[o], r.reviewer, r.decision) \in Record
  OBVIOUS
<1>5. Made(r.status, o, r.decision) \in Record
  OBVIOUS
<1>6. Made(r.status, r.reviewer, DecisionOf(OutcomeOf[o])) \in Record
  OBVIOUS
<1>7. ResolvedBy(o) \in Record
  BY DEF ResolvedBy
<1> QED BY <1>1, <1>2, <1>3, <1>4, <1>5, <1>6, <1>7

LEMMA ResolvedRecord ==
  ASSUME NEW o \in Ops
  PROVE  ResolvedBy(o) \in Record /\ ResolvedBy(o) # Absent /\ Pending # Absent
<1>1. ResolvedBy(o) \in Record
  BY Constants, AssignedRecords
<1> QED BY <1>1, Constants

\* What resolve assigns to a record that is still in the dictionary.
LEMMA FieldSet ==
  ASSUME NEW o \in Ops, records[IdOf[o]] \in Record, o \notin detached
  PROVE  LET r == records[IdOf[o]] IN
         /\ SetStatus(o) =>
              records' = [records EXCEPT ![IdOf[o]] = Made(OutcomeOf[o], r.reviewer, r.decision)]
         /\ SetReviewer(o) =>
              records' = [records EXCEPT ![IdOf[o]] = Made(r.status, o, r.decision)]
         /\ SetDecision(o) =>
              records' = [records EXCEPT ![IdOf[o]] =
                            Made(r.status, r.reviewer, DecisionOf(OutcomeOf[o]))]
<1>1. PICK r \in Record : r = records[IdOf[o]]
  OBVIOUS
<1>2. SetStatus(o) => records' = [records EXCEPT ![IdOf[o]] = [r EXCEPT !.status = OutcomeOf[o]]]
  BY <1>1 DEF SetStatus, SetField
<1>3. SetReviewer(o) => records' = [records EXCEPT ![IdOf[o]] = [r EXCEPT !.reviewer = o]]
  BY <1>1 DEF SetReviewer, SetField
<1>4. SetDecision(o) =>
        records' = [records EXCEPT ![IdOf[o]] = [r EXCEPT !.decision = DecisionOf(OutcomeOf[o])]]
  BY <1>1 DEF SetDecision, SetField
<1> QED BY <1>1, <1>2, <1>3, <1>4, AssignedRecords

\* A resolve writes to a record that is in the dictionary, or that no longer is.
HeldRecords ==
    \A o \in Ops : pc[o] \in Resolving /\ o \notin detached => records[IdOf[o]] \in Record

TypeInv == TypeOK /\ HeldRecords

LEMMA InitType == Init => TypeInv
<1> SUFFICES ASSUME Init PROVE TypeInv
  OBVIOUS
<1>1. content \in [Inodes -> [whole: BOOLEAN, map: Contents]]
  BY Constants, WholeType DEF Init
<1>2. HeldRecords
  BY DEF Init, HeldRecords, Resolving
<1> QED BY <1>1, <1>2, Constants DEF Init, TypeInv, TypeOK, Inodes

LEMMA StepType ==
  ASSUME TypeInv, [Next]_vars
  PROVE  TypeInv'
<1> USE QueueAssumption, Constants DEF TypeInv, TypeOK, HeldRecords, Goto, memory, disk, writer,
        Loading, Acting, Resolving
<1>v. CASE UNCHANGED vars
  BY <1>v DEF vars
<1> SUFFICES ASSUME Step, UNCHANGED alone, raced' \in BOOLEAN PROVE TypeInv'
  <2>1. Next => raced' \in BOOLEAN
    BY DEF Next
  <2> QED BY <1>v, <2>1 DEF Next
<1>1. ASSUME NEW o \in Ops, Begin(o) PROVE TypeInv'
  BY <1>1 DEF Begin
<1>2. ASSUME NEW o \in Ops, LoadRead(o) PROVE TypeInv'
  BY <1>2 DEF LoadRead
<1>3. ASSUME NEW o \in Ops, LoadAssign(o) PROVE TypeInv'
  BY <1>3 DEF LoadAssign
<1>4. ASSUME NEW o \in Ops, Enqueue(o) PROVE TypeInv'
  BY <1>4 DEF Enqueue, Contents
<1>5. ASSUME NEW o \in Ops, Read(o) PROVE TypeInv'
  BY <1>5 DEF Read
<1>6. ASSUME NEW o \in Ops, ResolveRefused(o) PROVE TypeInv'
  BY <1>6 DEF ResolveRefused
<1>7. ASSUME NEW o \in Ops, ResolveCheck(o) PROVE TypeInv'
  BY <1>7 DEF ResolveCheck, Contents, Absent
<1>8. ASSUME NEW o \in Ops, pc[o] \in Resolving,
             NEW place \in {"reviewer", "decision", "open"}, Goto(o, place),
             o \in detached, UNCHANGED <<records, loaded, detached, buffer, writer, disk>>
      PROVE  TypeInv'
  BY <1>8
<1>9. ASSUME NEW o \in Ops, SetStatus(o) PROVE TypeInv'
  <2>1. /\ pc[o] \in Resolving /\ Goto(o, "reviewer")
        /\ UNCHANGED <<loaded, detached, buffer, writer, disk>>
    BY <1>9 DEF SetStatus, SetField
  <2>2. CASE o \in detached
    BY <1>9, <2>1, <2>2, <1>8 DEF SetStatus, SetField
  <2>3. CASE o \notin detached
    <3>1. PICK r \in Record : r = records[IdOf[o]]
      BY <2>1, <2>3
    <3>2. PICK new \in Record : new = Made(OutcomeOf[o], r.reviewer, r.decision)
      BY AssignedRecords
    <3>3. records' = [records EXCEPT ![IdOf[o]] = new]
      BY <1>9, <2>3, <3>1, FieldSet, <3>2
    <3> QED BY <2>1, <2>3, <3>3 DEF Contents
  <2> QED BY <2>2, <2>3
<1>10. ASSUME NEW o \in Ops, SetReviewer(o) PROVE TypeInv'
  <2>1. /\ pc[o] \in Resolving /\ Goto(o, "decision")
        /\ UNCHANGED <<loaded, detached, buffer, writer, disk>>
    BY <1>10 DEF SetReviewer, SetField
  <2>2. CASE o \in detached
    BY <1>10, <2>1, <2>2, <1>8 DEF SetReviewer, SetField
  <2>3. CASE o \notin detached
    <3>1. PICK r \in Record : r = records[IdOf[o]]
      BY <2>1, <2>3
    <3>2. PICK new \in Record : new = Made(r.status, o, r.decision)
      BY AssignedRecords
    <3>3. records' = [records EXCEPT ![IdOf[o]] = new]
      BY <1>10, <2>3, <3>1, FieldSet, <3>2
    <3> QED BY <2>1, <2>3, <3>3 DEF Contents
  <2> QED BY <2>2, <2>3
<1>11. ASSUME NEW o \in Ops, SetDecision(o) PROVE TypeInv'
  <2>1. /\ pc[o] \in Resolving /\ Goto(o, "open")
        /\ UNCHANGED <<loaded, detached, buffer, writer, disk>>
    BY <1>11 DEF SetDecision, SetField
  <2>2. CASE o \in detached
    BY <1>11, <2>1, <2>2, <1>8 DEF SetDecision, SetField
  <2>3. CASE o \notin detached
    <3>1. PICK r \in Record : r = records[IdOf[o]]
      BY <2>1, <2>3
    <3>2. PICK new \in Record : new = Made(r.status, r.reviewer, DecisionOf(OutcomeOf[o]))
      BY AssignedRecords
    <3>3. records' = [records EXCEPT ![IdOf[o]] = new]
      BY <1>11, <2>3, <3>1, FieldSet, <3>2
    <3> QED BY <2>1, <2>3, <3>3 DEF Contents
  <2> QED BY <2>2, <2>3
<1>12. ASSUME NEW o \in Ops, SaveOpen(o) PROVE TypeInv'
  <2>1. Keys(records) \in SUBSET Ids
    BY DEF Keys
  <2> DEFINE inode == IF tmp = None THEN o ELSE tmp
  <2>2. inode \in Inodes
    BY DEF Inodes
  <2> HIDE DEF inode
  <2>3. /\ fd' = [fd EXCEPT ![o] = inode] /\ tmp' = inode
        /\ content' = [content EXCEPT ![inode] = Torn]
        /\ keys' = [keys EXCEPT ![o] = Keys(records)]
        /\ Goto(o, "write") /\ UNCHANGED <<memory, buffer, path>>
    BY <1>12 DEF SaveOpen, inode
  <2> QED BY <2>1, <2>2, <2>3
<1>13. ASSUME NEW o \in Ops, NEW data \in [whole: BOOLEAN, map: Contents], Written(o, data),
              NEW place \in {"replace", "raised"}, Goto(o, place)
       PROVE  TypeInv'
  <2>1. /\ content' \in [Inodes -> [whole: BOOLEAN, map: Contents]]
        /\ fd' \in [Ops -> Inodes \union {None}] /\ keys' \in [Ops -> SUBSET Ids]
    BY <1>13 DEF Written
  <2>2. UNCHANGED <<memory, buffer, tmp, path>>
    BY <1>13 DEF Written
  <2>3. pc' = [pc EXCEPT ![o] = place]
    BY <1>13
  <2>4. HeldRecords'
    BY <2>2, <2>3
  <2>5. pc' \in [Ops -> {"new", "returned", "raised", "lost"} \union Loading \union Acting]
    BY <2>3
  <2> QED BY <2>1, <2>2, <2>4, <2>5
<1>14. ASSUME NEW o \in Ops, SaveWrite(o) PROVE TypeInv'
  BY <1>14, <1>13, WholeType DEF SaveWrite
<1>15. ASSUME NEW o \in Ops, SaveChanged(o) PROVE TypeInv'
  BY <1>15, <1>13 DEF SaveChanged
<1>16. ASSUME NEW o \in Ops, SaveReplace(o) PROVE TypeInv'
  BY <1>16 DEF SaveReplace
<1>17. ASSUME NEW o \in Ops, SaveVanished(o) PROVE TypeInv'
  BY <1>17 DEF SaveVanished
<1>18. CASE Crash
  BY <1>18 DEF Crash, Active
<1> QED BY <1>1, <1>2, <1>3, <1>4, <1>5, <1>6, <1>7, <1>9, <1>10, <1>11, <1>12, <1>14, <1>15,
           <1>16, <1>17, <1>18 DEF Step
LEMMA TypeCorrect == Spec => []TypeInv
  BY InitType, StepType, PTL DEF Spec

-----------------------------------------------------------------------------
\* A call that goes on is the only one, if it or another in progress is to be
\* alone.
LEMMA OnlyItself ==
  ASSUME TypeOK, AloneInv, UNCHANGED alone,
         NEW o \in Active, NEW place, Goto(o, place),
         NEW a \in alone, a \in Active'
  PROVE  a = o /\ Active = {o} /\ Active' = {o} /\ pc'[o] = place /\ o \in Ops
<1>1. o \in Ops /\ pc' = [pc EXCEPT ![o] = place]
  BY DEF Active, Goto
<1>2. Active' \subseteq Active
  BY <1>1 DEF Active, TypeOK
<1>3. Active = {a}
  BY <1>2 DEF AloneInv
<1> QED BY <1>1, <1>2, <1>3 DEF TypeOK

LEMMA InitAlone == Init => AloneInv
  BY DEF Init, AloneInv, Active, Loading, Acting, Resolving

LEMMA StepAlone ==
  ASSUME TypeInv, AloneInv, [Next]_vars
  PROVE  AloneInv'
<1> USE Constants DEF memory, disk, writer
<1>v. CASE UNCHANGED vars
  BY <1>v DEF vars, AloneInv, AloneAt, Active, Keys
<1> SUFFICES ASSUME Step, UNCHANGED alone, NEW a \in alone, a \in Active'
             PROVE  Active' = {a} /\ AloneAt(a)'
  BY <1>v DEF Next, AloneInv
<1>t. TypeOK
  BY DEF TypeInv
<1>a. /\ "new" \notin Loading \union Acting
      /\ \A o \in Ops : pc[o] \in Loading \union Acting <=> o \in Active
  BY DEF Loading, Acting, Resolving, Active
<1>1. ASSUME NEW o \in Ops, Begin(o) PROVE Active' = {a} /\ AloneAt(a)'
  <2>1. Active' = Active \union {o} /\ pc'[o] \notin {"write", "replace"}
    BY <1>1, <1>t DEF Begin, Active, Goto, TypeOK, Loading, Acting, Resolving
  <2>2. a \notin Active
    BY <1>1 DEF Begin
  <2> QED BY <1>1, <2>1, <2>2, <1>t DEF Begin, AloneAt
<1>2. ASSUME NEW o \in Active, NEW place, Goto(o, place), place \notin {"write", "replace"}
      PROVE  Active' = {a} /\ AloneAt(a)'
  BY <1>2, <1>t, OnlyItself DEF AloneAt
<1>3. ASSUME NEW o \in Ops,
             \/ LoadRead(o) \/ LoadAssign(o) \/ Enqueue(o) \/ Read(o) \/ ResolveRefused(o)
             \/ ResolveCheck(o) \/ SetStatus(o) \/ SetReviewer(o) \/ SetDecision(o)
             \/ SaveChanged(o) \/ SaveReplace(o) \/ SaveVanished(o)
      PROVE  Active' = {a} /\ AloneAt(a)'
  <2>1. o \in Active
    BY <1>3 DEF LoadRead, LoadAssign, Enqueue, Read, ResolveRefused, ResolveCheck, SetStatus,
         SetReviewer, SetDecision, SaveChanged, SaveReplace, SaveVanished, Active, Loading, Acting,
         Resolving
  <2>2. \E place : Goto(o, place) /\ place \notin {"write", "replace"}
    BY <1>3 DEF LoadRead, LoadAssign, Enqueue, Read, ResolveRefused, ResolveCheck, SetStatus,
         SetReviewer, SetDecision, SaveChanged, SaveReplace, SaveVanished
  <2> QED BY <2>1, <2>2, <1>2
<1>4. ASSUME NEW o \in Ops, SaveOpen(o) PROVE Active' = {a} /\ AloneAt(a)'
  <2>1. o \in Active /\ Goto(o, "write")
    BY <1>4 DEF SaveOpen, Active, Acting
  <2>2. a = o /\ Active' = {o} /\ pc'[o] = "write"
    BY <2>1, <1>t, OnlyItself
  <2> DEFINE inode == IF tmp = None THEN o ELSE tmp
  <2>3. inode \in Inodes /\ inode # None
    BY <1>t DEF TypeOK, Inodes
  <2>4. /\ fd' = [fd EXCEPT ![o] = inode] /\ tmp' = inode
        /\ content' = [content EXCEPT ![inode] = Torn]
        /\ keys' = [keys EXCEPT ![o] = Keys(records)] /\ records' = records
    BY <1>4 DEF SaveOpen
  <2> HIDE DEF inode
  <2> QED BY <2>2, <2>3, <2>4, <1>t DEF AloneAt, TypeOK, Keys
<1>5. ASSUME NEW o \in Ops, SaveWrite(o) PROVE Active' = {a} /\ AloneAt(a)'
  <2>1. o \in Active /\ Goto(o, "replace") /\ pc[o] = "write"
    BY <1>5 DEF SaveWrite, Active, Acting
  <2>2. a = o /\ Active' = {o} /\ pc'[o] = "replace" /\ Active = {o}
    BY <2>1, <1>t, OnlyItself
  <2>3. tmp # None /\ fd[o] = tmp /\ content[tmp] = Torn
    BY <2>1, <2>2 DEF AloneInv, AloneAt
  <2>4. Written(o, Whole(records))
    BY <1>5, <2>3 DEF SaveWrite
  <2> QED BY <2>2, <2>3, <2>4, <1>t DEF AloneAt, TypeOK, Written
<1>6. CASE Crash
  BY <1>6, <1>t, <1>a DEF Crash, Active, TypeOK, Loading, Acting, Resolving
<1> QED BY <1>1, <1>3, <1>4, <1>5, <1>6 DEF Step

\* _save: a call that nobody disturbs leaves the file whole and equal to the
\* memory, whatever crashes and races left behind before it.
THEOREM UndisturbedSaveRepairs == Spec => SaveRepairs
<1>1. TypeInv /\ AloneInv /\ [Next]_vars =>
        [\A o \in alone : pc[o] = "replace" /\ pc'[o] = "returned" =>
            path' # None /\ content'[path'] = Whole(records')]_vars
  <2> SUFFICES ASSUME TypeInv, AloneInv, Next, NEW o \in alone,
                      pc[o] = "replace", pc'[o] = "returned"
               PROVE  path' # None /\ content'[path'] = Whole(records')
    BY DEF vars
  <2>1. o \in Active /\ o \in Ops
    BY QueueAssumption DEF Active, Acting, TypeInv, TypeOK
  <2>2. tmp # None /\ content[tmp] = Whole(records) /\ Active = {o}
    BY <2>1 DEF AloneInv, AloneAt
  <2>3. SaveReplace(o)
    <3>1. ASSUME NEW p \in Ops, NEW place, Goto(p, place), p # o PROVE FALSE
      BY <2>1, <3>1 DEF TypeInv, TypeOK, Goto
    <3>2. \A p \in Ops : p # o =>
            ~ (\/ Begin(p) \/ LoadRead(p) \/ LoadAssign(p) \/ Enqueue(p) \/ Read(p)
               \/ ResolveRefused(p) \/ ResolveCheck(p) \/ SetStatus(p) \/ SetReviewer(p)
               \/ SetDecision(p) \/ SaveOpen(p) \/ SaveWrite(p) \/ SaveChanged(p)
               \/ SaveReplace(p) \/ SaveVanished(p))
      BY <3>1 DEF Begin, LoadRead, LoadAssign, Enqueue, Read, ResolveRefused, ResolveCheck,
           SetStatus, SetReviewer, SetDecision, SaveOpen, SaveWrite, SaveChanged, SaveReplace,
           SaveVanished
    <3>3. ~ Crash
      BY <2>1 DEF Crash
    <3>4. pc[o] # "replace" \/ SaveReplace(o) \/ SaveVanished(o)
      <4>1. \/ Begin(o) \/ LoadRead(o) \/ LoadAssign(o) \/ Enqueue(o) \/ Read(o)
            \/ ResolveRefused(o) \/ ResolveCheck(o) \/ SetStatus(o) \/ SetReviewer(o)
            \/ SetDecision(o) \/ SaveOpen(o) \/ SaveWrite(o) \/ SaveChanged(o)
            \/ SaveReplace(o) \/ SaveVanished(o)
        BY <2>1, <3>2, <3>3 DEF Next, Step
      <4> QED BY <4>1 DEF Begin, LoadRead, LoadAssign, Enqueue, Read, ResolveRefused,
            ResolveCheck, SetStatus, SetReviewer, SetDecision, SaveOpen, SaveWrite, SaveChanged
    <3> QED BY <2>2, <3>4 DEF SaveVanished
  <2> QED BY <2>2, <2>3 DEF SaveReplace, memory
<1>2. Spec => []AloneInv
  BY InitAlone, StepAlone, TypeCorrect, PTL DEF Spec
<1> QED BY <1>1, <1>2, TypeCorrect, PTL DEF Spec, SaveRepairs
-----------------------------------------------------------------------------
\* Until two saves overlap, the call that writes the staging file has truncated it
\* itself, and the one that is about to replace has written it whole.
Staging == {"write", "replace"}

Staged ==
    /\ \A o \in Ops : pc[o] = "write" => tmp # None /\ fd[o] = tmp /\ content[tmp] = Torn
    /\ \A o \in Ops : pc[o] = "replace" => tmp # None /\ content[tmp].whole

StagedInv == ~raced => ~Overlap /\ FilesApart /\ Staged

LEMMA OneStages ==
  ASSUME TypeOK, ~Overlap, NEW o \in Ops, pc[o] \in Staging, NEW p \in Ops, p # o
  PROVE  pc[p] \notin Staging
  BY DEF Overlap, Staging

\* A call that leaves the files alone, and does not go on to stage one.
LEMMA StagedStays ==
  ASSUME TypeOK, FilesApart, Staged, NEW o \in Ops, NEW place, Goto(o, place), UNCHANGED <<disk, fd>>,
         place \notin Staging, place \in Unopened => pc[o] \in Unopened
  PROVE  FilesApart' /\ Staged'
<1>1. \A p \in Ops : pc'[p] = IF p = o THEN place ELSE pc[p]
  BY DEF Goto, TypeOK
<1>2. FilesApart'
  BY <1>1 DEF FilesApart, disk
<1>3. Staged'
  BY <1>1 DEF Staged, Staging, disk
<1> QED BY <1>2, <1>3

LEMMA StepStaged ==
  ASSUME TypeInv, TypeInv', StagedInv, Next, ~raced'
  PROVE  FilesApart' /\ Staged'
<1>t. /\ TypeOK /\ ~raced /\ ~Overlap /\ ~Overlap' /\ FilesApart /\ Staged /\ Step
      /\ TypeOK'
  BY DEF StagedInv, TypeInv, Next
<1> USE Constants DEF memory, writer
<1>1. ASSUME NEW o \in Ops,
             \/ Begin(o) \/ LoadRead(o) \/ LoadAssign(o) \/ Enqueue(o) \/ Read(o)
             \/ ResolveRefused(o) \/ ResolveCheck(o) \/ SetStatus(o) \/ SetReviewer(o)
             \/ SetDecision(o) \/ SaveVanished(o)
      PROVE  FilesApart' /\ Staged'
  <2>1. UNCHANGED <<disk, fd>>
    BY <1>1 DEF Begin, LoadRead, LoadAssign, Enqueue, Read, ResolveRefused, ResolveCheck, SetStatus,
         SetReviewer, SetDecision, SetField, SaveVanished
  <2>2. \E place : Goto(o, place) /\ place \notin Staging /\ (place \in Unopened => pc[o] \in Unopened)
    BY <1>1 DEF Begin, LoadRead, LoadAssign, Enqueue, Read, ResolveRefused, ResolveCheck, SetStatus,
         SetReviewer, SetDecision, SaveVanished, Staging, Unopened, Loading, Resolving
  <2> QED BY <1>t, <2>1, <2>2, StagedStays
<1>2. ASSUME NEW o \in Ops, SaveOpen(o) PROVE FilesApart' /\ Staged'
  <2> DEFINE inode == IF tmp = None THEN o ELSE tmp
  <2>1. inode \in Inodes /\ inode # path /\ inode # None
    BY <1>2, <1>t DEF SaveOpen, TypeOK, Inodes, FilesApart, Unopened
  <2>2. /\ tmp' = inode /\ path' = path /\ content' = [content EXCEPT ![inode] = Torn]
        /\ fd' = [fd EXCEPT ![o] = inode] /\ pc' = [pc EXCEPT ![o] = "write"] /\ pc[o] = "open"
    BY <1>2 DEF SaveOpen, Goto
  <2>3. \A p \in Ops : pc'[p] = IF p = o THEN "write" ELSE pc[p]
    BY <2>2, <1>t DEF TypeOK
  <2>4. \A p \in Ops : p # o => pc'[p] \notin Staging
    BY <1>t, <2>3, OneStages DEF Overlap, Staging
  <2>5. ASSUME NEW p \in Ops, pc'[p] \in Unopened PROVE path' # p /\ tmp' # p
    <3>1. p # o /\ pc[p] \in Unopened
      BY <2>3, <2>5 DEF Unopened, Loading, Resolving
    <3> QED BY <1>t, <2>2, <3>1 DEF FilesApart
  <2> HIDE DEF inode
  <2>6. FilesApart'
    BY <1>t, <2>1, <2>2, <2>5 DEF FilesApart, TypeOK
  <2>7. Staged'
    BY <1>t, <2>1, <2>2, <2>3, <2>4 DEF Staged, Staging, TypeOK
  <2> QED BY <2>6, <2>7
<1>3. ASSUME NEW o \in Ops, SaveWrite(o) \/ SaveChanged(o) PROVE FilesApart' /\ Staged'
  <2>1. pc[o] = "write" /\ tmp # None /\ tmp # path /\ fd[o] = tmp /\ content[tmp] = Torn
    BY <1>3, <1>t DEF SaveWrite, SaveChanged, Staged, FilesApart
  <2>2. PICK data, place :
          /\ content' = [content EXCEPT ![tmp] = data] /\ tmp' = tmp /\ path' = path
          /\ Goto(o, place) /\ place \in {"replace", "raised"} /\ (place = "replace" => data.whole)
    BY <1>3, <2>1, WholeType, <1>t DEF SaveWrite, SaveChanged, Written, TypeOK
  <2>3. \A p \in Ops : pc'[p] = IF p = o THEN place ELSE pc[p]
    BY <2>2, <1>t DEF Goto, TypeOK
  <2>4. \A p \in Ops : p # o => pc[p] \notin Staging
    BY <1>t, <2>1, OneStages DEF Staging
  <2>5. FilesApart'
    BY <1>t, <2>1, <2>2, <2>3 DEF FilesApart, TypeOK, Unopened, Loading, Resolving
  <2>6. Staged'
    BY <1>t, <2>1, <2>2, <2>3, <2>4 DEF Staged, Staging, TypeOK
  <2> QED BY <2>5, <2>6
<1>4. ASSUME NEW o \in Ops, SaveReplace(o) PROVE FilesApart' /\ Staged'
  <2>1. pc[o] = "replace" /\ tmp # None /\ content[tmp].whole
    BY <1>4, <1>t DEF SaveReplace, Staged
  <2>2. path' = tmp /\ tmp' = None /\ content' = content /\ Goto(o, "returned")
    BY <1>4 DEF SaveReplace
  <2>3. \A p \in Ops : pc'[p] = IF p = o THEN "returned" ELSE pc[p]
    BY <2>2, <1>t DEF Goto, TypeOK
  <2>4. \A p \in Ops : p # o => pc[p] \notin Staging
    BY <1>t, <2>1, OneStages DEF Staging
  <2>5. FilesApart'
    BY <1>t, <2>1, <2>2, <2>3 DEF FilesApart, Unopened, Loading, Resolving, Inodes
  <2>6. Staged'
    BY <2>3, <2>4 DEF Staged, Staging
  <2> QED BY <2>5, <2>6
<1>5. CASE Crash
  <2>1. \A p \in Ops : pc'[p] \notin Staging /\ (pc'[p] \in Unopened => pc[p] \in Unopened)
    BY <1>5, <1>t DEF Crash, Active, TypeOK, Staging, Unopened, Loading, Acting, Resolving
  <2> QED BY <1>5, <1>t, <2>1 DEF Crash, disk, FilesApart, Staged, Staging
<1> QED BY <1>t, <1>1, <1>2, <1>3, <1>4, <1>5 DEF Step

\* _save: whatever the moment, the interleaving with other calls and the crashes,
\* the file is a complete one until two saves overlap.
THEOREM FileWholeUnlessRaced == Spec => []FileNeverTorn
<1>1. Init => StagedInv
  <2> SUFFICES ASSUME Init PROVE StagedInv
    OBVIOUS
  <2>1. path \in {None, "seed"} /\ \A o \in Ops : pc[o] = "new" /\ path # o /\ tmp # o
    BY QueueAssumption DEF Init, None
  <2>2. path # None => content[path].whole
    BY <2>1, Constants, WholeType DEF Init, Inodes
  <2>3. FilesApart
    BY <2>1, <2>2 DEF FilesApart, Init
  <2> QED BY <2>1, <2>3 DEF StagedInv, Staged, Overlap
<1>2. TypeInv /\ TypeInv' /\ StagedInv /\ [Next]_vars => StagedInv'
  <2> SUFFICES ASSUME TypeInv, TypeInv', StagedInv, [Next]_vars, ~raced' PROVE StagedInv'
    BY DEF StagedInv
  <2>1. CASE UNCHANGED vars
    <3>1. UNCHANGED <<pc, fd, tmp, path, content, raced>>
      BY <2>1 DEF vars, disk, writer
    <3> QED BY <3>1 DEF StagedInv, Overlap, FilesApart, Staged
  <2>2. CASE Next
    <3>1. ~Overlap'
      BY <2>2 DEF Next
    <3> QED BY <2>2, <3>1, StepStaged DEF StagedInv
  <2> QED BY <2>1, <2>2
<1>3. StagedInv => FileNeverTorn
  BY DEF StagedInv, FilesApart, FileNeverTorn
<1> QED BY <1>1, <1>2, <1>3, TypeCorrect, PTL DEF Spec

-----------------------------------------------------------------------------
\* Serialized calls: one at a time.
Quiet == {"new", "returned", "raised", "lost"}

LEMMA OthersQuiet ==
  ASSUME TypeOK, AloneInv, Serialized, NEW o \in Active, NEW p \in Ops, p # o
  PROVE  pc[p] \in Quiet
  BY DEF AloneInv, Serialized, Active, TypeOK, Quiet, Loading, Acting, Resolving

LEMMA FileMapType ==
  ASSUME TypeOK
  PROVE  FileMap \in Contents /\ \A i \in Ids : OnFile(i) = FileMap[i]
  BY Constants DEF TypeOK, FileMap, OnFile, Empty, Contents

\* A call that goes on, and does not end, before it replaces the file.
LEMMA FileStays ==
  ASSUME TypeOK, SerialInv, NEW o \in Ops, NEW place, Goto(o, place),
         pc[o] \in {"new"} \union Loading \union Acting,
         place = "returned" => KindOf[o] = "read",
         FileMap' = FileMap
  PROVE  NotYetOnFile' /\ Acked'
<1>1. \A p \in Ops : pc'[p] = IF p = o THEN place ELSE pc[p]
  BY DEF Goto, TypeOK
<1>2. NotYetOnFile'
  BY <1>1 DEF NotYetOnFile, SerialInv
<1>3. Acked'
  BY <1>1 DEF Acked, SerialInv, Returned
<1> QED BY <1>2, <1>3

LEMMA FilesStay ==
  ASSUME TypeOK, FilesApart, NEW o \in Ops, NEW place, Goto(o, place), UNCHANGED disk,
         place \in Unopened => pc[o] \in Unopened
  PROVE  FilesApart' /\ FileMap' = FileMap
<1>1. \A p \in Ops : pc'[p] = IF p = o THEN place ELSE pc[p]
  BY DEF Goto, TypeOK
<1> QED BY <1>1 DEF FilesApart, disk, FileMap

\* Of the calls, only the one that goes on matters to the memory.
LEMMA MemoryOf ==
  ASSUME TypeOK, TypeOK', AloneInv, Serialized, NEW o \in Ops, NEW place, Goto(o, place),
         Active \subseteq {o}, AtPlace(o)',
         detached' = {}, loaded',
         place \in Quiet => records' = FileMap'
  PROVE  MemoryFollows'
<1>1. \A p \in Ops : pc'[p] = IF p = o THEN place ELSE pc[p]
  BY DEF Goto, TypeOK
<1>2. ASSUME NEW p \in Ops, p # o PROVE AtPlace(p)'
  <2>1. pc'[p] \in Quiet
    BY <1>1, <1>2 DEF Active, TypeOK, Quiet, Loading, Acting, Resolving
  <2> QED BY <2>1 DEF AtPlace, Quiet, Resolving, Saving
<1>3. Active' = {} => place \notin Loading \union Acting
  BY <1>1 DEF Active
<1>4. place \in Quiet \union Loading \union Acting
  BY <1>1 DEF TypeOK, Quiet
<1> QED BY <1>2, <1>3, <1>4 DEF MemoryFollows
LEMMA InitSerial == Init => SerialInv
<1> SUFFICES ASSUME Init PROVE SerialInv
  OBVIOUS
<1> USE QueueAssumption, Constants DEF Init
<1>1. path \in {None, "seed"} /\ \A o \in Ops : pc[o] = "new" /\ path # o /\ tmp # o
  BY DEF None
<1>2. FileMap = Empty \/ FileMap = Seeded
  <2>1. CASE path = None
    BY <2>1 DEF FileMap
  <2>2. CASE path = "seed"
    BY <2>2, WholeType DEF FileMap, Inodes
  <2> QED BY <1>1, <2>1, <2>2
<1>3. FilesApart
  <2>1. path # None => content[path].whole
    BY <1>1, WholeType DEF Inodes
  <2> QED BY <1>1, <2>1 DEF FilesApart
<1>4. MemoryFollows
  BY <1>1 DEF MemoryFollows, AtPlace, Active, Loading, Acting, Resolving, Saving
<1>5. NotYetOnFile
  BY <1>1, <1>2 DEF NotYetOnFile, Empty, Seeded
<1>6. Acked
  BY <1>1 DEF Acked, Returned
<1> QED BY <1>3, <1>4, <1>5, <1>6 DEF SerialInv

\* The calls up to their save, and what they do to the memory.
LEMMA SerialCall ==
  ASSUME TypeInv, TypeInv', AloneInv, Serialized, SerialInv, NEW o \in Ops,
         \/ Begin(o) \/ LoadRead(o) \/ LoadAssign(o) \/ Enqueue(o) \/ Read(o)
         \/ ResolveRefused(o) \/ ResolveCheck(o) \/ SetStatus(o) \/ SetReviewer(o)
         \/ SetDecision(o)
  PROVE  SerialInv'
<1> USE QueueAssumption DEF memory
<1>t. TypeOK /\ TypeOK' /\ FileMap \in Contents
  BY FileMapType DEF TypeInv
<1>p. UNCHANGED disk /\ pc[o] \in Unopened /\ pc[o] # "open"
  BY DEF Begin, LoadRead, LoadAssign, Enqueue, Read, ResolveRefused, ResolveCheck, SetStatus,
       SetReviewer, SetDecision, SetField, Unopened, Loading, Resolving
<1>m. MemoryFollows
  BY DEF SerialInv
<1>o. Active \subseteq {o}
  <2>1. CASE pc[o] = "new"
    BY <2>1 DEF Begin, Serialized, LoadRead, LoadAssign, Enqueue, Read, ResolveRefused,
         ResolveCheck, SetStatus, SetReviewer, SetDecision
  <2>2. CASE pc[o] # "new"
    BY <1>p, <2>2 DEF AloneInv, Serialized, Active, Unopened, Acting
  <2> QED BY <2>1, <2>2
<1>g. ASSUME NEW place, Goto(o, place), place = "returned" => KindOf[o] = "read",
             FileMap' = FileMap => AtPlace(o)', detached' = {}, loaded',
             place \in Quiet /\ FileMap' = FileMap => records' = FileMap'
      PROVE  SerialInv'
  <2>1. FilesApart' /\ FileMap' = FileMap
    BY <1>g, <1>p, <1>t, FilesStay DEF SerialInv
  <2>2. NotYetOnFile' /\ Acked'
    BY <1>g, <2>1, <1>p, <1>t, FileStays DEF Unopened, Acting
  <2>3. MemoryFollows'
    BY <1>g, <2>1, <1>t, <1>o, MemoryOf
  <2> QED BY <2>1, <2>2, <2>3 DEF SerialInv
<1>l. pc[o] # "new" => loaded
  BY <1>p, <1>m DEF MemoryFollows, Active, Unopened, Acting
<1>1. CASE Begin(o)
  <2>1. pc'[o] \in {"act", "exists"} /\ loaded' /\ detached' = {} /\ records' = records
    BY <1>1, <1>m, <1>t DEF Begin, Goto, TypeOK, MemoryFollows
  <2>2. pc'[o] = "act" => records = FileMap
    <3>1. Active = {}
      BY <1>1 DEF Begin, Serialized
    <3>2. pc'[o] = "act" => loaded
      BY <1>1, <1>t DEF Begin, Goto, TypeOK
    <3> QED BY <3>1, <3>2, <1>m DEF MemoryFollows
  <2>3. FileMap' = FileMap => AtPlace(o)'
    BY <2>1, <2>2 DEF AtPlace, Resolving, Saving
  <2> QED BY <1>1, <2>1, <2>3, <1>g DEF Begin, Quiet
<1>2. CASE LoadRead(o)
  <2>1. pc'[o] = "loading" /\ buffer'[o] = FileMap /\ loaded' /\ detached' = {}
    BY <1>2, <1>m, <1>l, <1>t DEF LoadRead, Goto, TypeOK, MemoryFollows, FileMap
  <2>2. FileMap' = FileMap => AtPlace(o)'
    BY <2>1 DEF AtPlace, Resolving, Saving
  <2> QED BY <1>2, <2>1, <2>2, <1>g DEF LoadRead, Quiet
<1>3. CASE LoadAssign(o)
  <2>1. pc'[o] = "act" /\ records' = FileMap /\ loaded'
    BY <1>3, <1>m, <1>l, <1>t DEF LoadAssign, Goto, TypeOK, MemoryFollows, AtPlace
  <2>2. detached' = {}
    BY <1>3, <1>m, <1>o, <1>t DEF LoadAssign, MemoryFollows, Active, Acting, Resolving
  <2>3. FileMap' = FileMap => AtPlace(o)'
    BY <2>1 DEF AtPlace, Resolving, Saving
  <2> QED BY <1>3, <2>1, <2>2, <2>3, <1>g DEF LoadAssign, Quiet
<1>4. CASE Enqueue(o)
  <2>1. /\ pc'[o] = "open" /\ KindOf[o] = "enqueue" /\ loaded' /\ detached' = {}
        /\ records' = [FileMap EXCEPT ![IdOf[o]] = Pending]
    BY <1>4, <1>m, <1>l, <1>t DEF Enqueue, Goto, TypeOK, MemoryFollows, AtPlace
  <2>2. FileMap' = FileMap => AtPlace(o)'
    BY <2>1 DEF AtPlace, Resolving, Saving, Change
  <2> QED BY <1>4, <2>1, <2>2, <1>g DEF Enqueue, Quiet
<1>5. CASE Read(o) \/ ResolveRefused(o)
  <2>1. /\ pc'[o] \in {"returned", "raised"} /\ loaded' /\ detached' = {} /\ records' = FileMap
        /\ pc'[o] = "returned" => KindOf[o] = "read"
    BY <1>5, <1>m, <1>l, <1>t DEF Read, ResolveRefused, Goto, TypeOK, MemoryFollows, AtPlace
  <2>2. FileMap' = FileMap => AtPlace(o)'
    BY <2>1 DEF AtPlace, Resolving, Saving
  <2>3. Goto(o, pc'[o])
    BY <1>5, <1>t DEF Read, ResolveRefused, Goto, TypeOK
  <2>4. PICK place : place = pc'[o]
    OBVIOUS
  <2> QED BY <2>1, <2>2, <2>3, <2>4, <1>g DEF Goto
<1>6. CASE ResolveCheck(o)
  <2>1. /\ pc'[o] = "status" /\ KindOf[o] = "resolve" /\ loaded' /\ detached' = {}
        /\ records' = FileMap /\ FileMap[IdOf[o]].status = "PENDING"
    BY <1>6, <1>m, <1>l, <1>t DEF ResolveCheck, Goto, TypeOK, MemoryFollows, AtPlace
  <2>2. FileMap = [FileMap EXCEPT ![IdOf[o]] = FileMap[IdOf[o]]]
    BY <1>t DEF Contents
  <2>3. FileMap' = FileMap => AtPlace(o)'
    BY <2>1, <2>2 DEF AtPlace, Resolving, Saving, Change
  <2> QED BY <1>6, <2>1, <2>3, <1>g DEF ResolveCheck, Quiet
<1>7. CASE SetStatus(o) \/ SetReviewer(o) \/ SetDecision(o)
  <2>1. /\ pc[o] \in Resolving /\ KindOf[o] = "resolve" /\ loaded' /\ detached' = {}
        /\ o \notin detached /\ FileMap[IdOf[o]].status = "PENDING"
        /\ records = [FileMap EXCEPT ![IdOf[o]] = Change(o)]
    BY <1>7, <1>m, <1>l DEF SetStatus, SetReviewer, SetDecision, SetField, MemoryFollows, AtPlace,
         Resolving
  <2>2. records[IdOf[o]] \in Record /\ records[IdOf[o]] = Change(o)
    BY <2>1, <1>t DEF TypeInv, HeldRecords, Contents
  <2>3. CASE SetStatus(o)
    <3>1. pc[o] = "status" /\ pc'[o] = "reviewer" /\ Goto(o, "reviewer")
      BY <2>3, <1>t DEF SetStatus, Goto, TypeOK
    <3>2. Change(o) = FileMap[IdOf[o]]
      BY <3>1 DEF Change
    <3>3. records' = [FileMap EXCEPT ![IdOf[o]] =
            Made(OutcomeOf[o], FileMap[IdOf[o]].reviewer, FileMap[IdOf[o]].decision)]
      BY <2>1, <2>2, <2>3, <3>2, <1>t, FieldSet DEF Contents
    <3>4. FileMap' = FileMap => AtPlace(o)'
      BY <2>1, <3>1, <3>3 DEF AtPlace, Resolving, Saving, Change
    <3> QED BY <2>1, <3>1, <3>4, <1>g DEF Quiet
  <2>4. CASE SetReviewer(o)
    <3>1. pc[o] = "reviewer" /\ pc'[o] = "decision" /\ Goto(o, "decision")
      BY <2>4, <1>t DEF SetReviewer, Goto, TypeOK
    <3>2. Change(o) = Made(OutcomeOf[o], FileMap[IdOf[o]].reviewer, FileMap[IdOf[o]].decision)
      BY <3>1 DEF Change
    <3>3. records' = [FileMap EXCEPT ![IdOf[o]] = Made(OutcomeOf[o], o, FileMap[IdOf[o]].decision)]
      BY <2>1, <2>2, <2>4, <3>2, <1>t, FieldSet DEF Contents, Made
    <3>4. FileMap' = FileMap => AtPlace(o)'
      BY <2>1, <3>1, <3>3 DEF AtPlace, Resolving, Saving, Change
    <3> QED BY <2>1, <3>1, <3>4, <1>g DEF Quiet
  <2>5. CASE SetDecision(o)
    <3>1. pc[o] = "decision" /\ pc'[o] = "open" /\ Goto(o, "open")
      BY <2>5, <1>t DEF SetDecision, Goto, TypeOK
    <3>2. Change(o) = Made(OutcomeOf[o], o, FileMap[IdOf[o]].decision)
      BY <3>1 DEF Change
    <3>3. records' = [FileMap EXCEPT ![IdOf[o]] = ResolvedBy(o)]
      BY <2>1, <2>2, <2>5, <3>2, <1>t, FieldSet DEF Contents, Made, ResolvedBy
    <3>4. FileMap' = FileMap => AtPlace(o)'
      BY <2>1, <3>1, <3>3 DEF AtPlace, Resolving, Saving, Change
    <3> QED BY <2>1, <3>1, <3>4, <1>g DEF Quiet
  <2> QED BY <1>7, <2>3, <2>4, <2>5
<1> QED BY <1>1, <1>2, <1>3, <1>4, <1>5, <1>6, <1>7
\* A serialized call that saves: what it found, and what it changed in memory.
LEMMA SavingCall ==
  ASSUME TypeInv, AloneInv, Serialized, SerialInv, NEW o \in Ops, pc[o] \in Saving
  PROVE  /\ Active = {o} /\ AloneAt(o)
         /\ loaded /\ detached = {} /\ KindOf[o] \in {"enqueue", "resolve"}
         /\ records = [FileMap EXCEPT ![IdOf[o]] = Change(o)]
         /\ Change(o) = IF KindOf[o] = "enqueue" THEN Pending ELSE ResolvedBy(o)
         /\ KindOf[o] = "enqueue" => FileMap[IdOf[o]] = Absent
         /\ KindOf[o] = "resolve" => FileMap[IdOf[o]].status = "PENDING"
<1>1. o \in Active /\ pc[o] \in Acting
  BY DEF Saving, Acting, Active
<1>2. Active = {o} /\ AloneAt(o)
  BY <1>1 DEF AloneInv, Serialized
<1>3. MemoryFollows /\ AtPlace(o)
  BY DEF SerialInv, MemoryFollows
<1>4. KindOf[o] = "enqueue" => FileMap[IdOf[o]] = Absent
  BY <1>1 DEF SerialInv, NotYetOnFile
<1> QED BY <1>1, <1>2, <1>3, <1>4, QueueAssumption
       DEF MemoryFollows, AtPlace, Change, Saving, Resolving

\* The file changes in one step, to what the memory holds.
LEMMA NewFile ==
  ASSUME TypeInv, AloneInv, Serialized, SerialInv, NEW o \in Ops, SaveReplace(o)
  PROVE  /\ FileMap' = records /\ content'[path'].whole
         /\ \A i \in Ids : FileMap'[i] = IF i = IdOf[o] THEN Change(o) ELSE FileMap[i]
<1>1. pc[o] \in Saving /\ pc[o] = "replace"
  BY DEF SaveReplace, Saving
<1>2. FileMap' = records /\ content'[path'].whole
  BY <1>1, SavingCall, WholeType DEF SaveReplace, AloneAt, FileMap, TypeInv, TypeOK
<1>3. FileMap \in Contents /\ IdOf[o] \in Ids
  BY FileMapType, QueueAssumption DEF TypeInv
<1> QED BY <1>1, <1>2, <1>3, SavingCall DEF Contents

\* A save that has not come to its end.
LEMMA SameFile ==
  ASSUME TypeInv, AloneInv, Serialized, SerialInv, NEW o \in Ops, SaveOpen(o) \/ SaveWrite(o)
  PROVE  path' = path /\ FileMap' = FileMap /\ (path # None => content'[path] = content[path])
<1>1. CASE SaveOpen(o)
  <2> DEFINE inode == IF tmp = None THEN o ELSE tmp
  <2>1. inode \in Inodes /\ inode # path
    BY <1>1 DEF SaveOpen, TypeInv, TypeOK, Inodes, SerialInv, FilesApart, Unopened
  <2>2. path' = path /\ content' = [content EXCEPT ![inode] = Torn]
    BY <1>1 DEF SaveOpen
  <2> HIDE DEF inode
  <2> QED BY <2>1, <2>2 DEF TypeInv, TypeOK, FileMap
<1>2. CASE SaveWrite(o)
  <2>1. tmp # None /\ tmp # path /\ fd[o] = tmp
    BY <1>2, SavingCall DEF SaveWrite, Saving, AloneAt, SerialInv, FilesApart
  <2>2. path' = path /\ \E data : content' = [content EXCEPT ![tmp] = data]
    BY <1>2, <2>1 DEF SaveWrite, Written
  <2> QED BY <2>1, <2>2 DEF TypeInv, TypeOK, FileMap
<1> QED BY <1>1, <1>2

LEMMA SerialSave ==
  ASSUME TypeInv, TypeInv', AloneInv, Serialized, SerialInv, NEW o \in Ops,
         SaveOpen(o) \/ SaveWrite(o) \/ SaveChanged(o) \/ SaveReplace(o) \/ SaveVanished(o)
  PROVE  SerialInv'
<1> USE QueueAssumption, Constants DEF memory
<1>t. TypeOK /\ TypeOK'
  BY DEF TypeInv
<1>p. pc[o] \in Saving /\ pc[o] \in Acting
  BY DEF SaveOpen, SaveWrite, SaveChanged, SaveReplace, SaveVanished, Saving, Acting
<1>m. /\ Active = {o} /\ AloneAt(o)
      /\ loaded /\ detached = {} /\ KindOf[o] \in {"enqueue", "resolve"}
      /\ records = [FileMap EXCEPT ![IdOf[o]] = Change(o)]
      /\ Change(o) = IF KindOf[o] = "enqueue" THEN Pending ELSE ResolvedBy(o)
      /\ KindOf[o] = "enqueue" => FileMap[IdOf[o]] = Absent
      /\ KindOf[o] = "resolve" => FileMap[IdOf[o]].status = "PENDING"
  BY <1>p, SavingCall
<1>1. CASE SaveOpen(o)
  <2> DEFINE inode == IF tmp = None THEN o ELSE tmp
  <2>1. inode \in Inodes /\ inode # path /\ inode # None /\ pc[o] = "open"
    BY <1>1, <1>t DEF SaveOpen, TypeOK, Inodes, SerialInv, FilesApart, Unopened
  <2>2. /\ tmp' = inode /\ path' = path /\ content' = [content EXCEPT ![inode] = Torn]
        /\ Goto(o, "write") /\ UNCHANGED memory
    BY <1>1 DEF SaveOpen
  <2>3. \A p \in Ops : pc'[p] = IF p = o THEN "write" ELSE pc[p]
    BY <2>2, <1>t DEF Goto, TypeOK
  <2>4. ASSUME NEW p \in Ops, pc'[p] \in Unopened PROVE path' # p /\ tmp' # p
    <3>1. p # o /\ pc[p] \in Unopened
      BY <2>3, <2>4 DEF Unopened, Loading, Resolving
    <3> QED BY <2>2, <3>1 DEF SerialInv, FilesApart
  <2> HIDE DEF inode
  <2>5. FileMap' = FileMap /\ (path # None => content'[path] = content[path])
    BY <1>1, SameFile
  <2>6. FilesApart'
    BY <2>1, <2>2, <2>4, <2>5 DEF SerialInv, FilesApart
  <2>7. NotYetOnFile' /\ Acked'
    BY <2>2, <2>5, <1>p, <1>t, FileStays
  <2>8. AtPlace(o)'
    BY <1>m, <2>2, <2>3, <2>5 DEF AtPlace, Resolving, Saving, Change
  <2>9. MemoryFollows'
    BY <1>m, <1>t, <2>2, <2>8, MemoryOf DEF Quiet
  <2> QED BY <2>6, <2>7, <2>9 DEF SerialInv
<1>2. CASE SaveWrite(o)
  <2>1. pc[o] = "write" /\ tmp # None /\ tmp # path /\ fd[o] = tmp /\ content[tmp] = Torn
    BY <1>2, <1>m DEF SaveWrite, AloneAt, SerialInv, FilesApart
  <2>2. /\ content' = [content EXCEPT ![tmp] = Whole(records)] /\ tmp' = tmp /\ path' = path
        /\ Goto(o, "replace") /\ UNCHANGED memory
    BY <1>2, <2>1 DEF SaveWrite, Written
  <2>3. \A p \in Ops : pc'[p] = IF p = o THEN "replace" ELSE pc[p]
    BY <2>2, <1>t DEF Goto, TypeOK
  <2>4. FileMap' = FileMap /\ (path # None => content'[path] = content[path])
    BY <1>2, SameFile
  <2>5. FilesApart'
    BY <2>1, <2>2, <2>3, <2>4 DEF SerialInv, FilesApart, Unopened, Loading, Resolving
  <2>6. NotYetOnFile' /\ Acked'
    BY <2>2, <2>4, <1>p, <1>t, FileStays
  <2>7. AtPlace(o)'
    BY <1>m, <2>2, <2>3, <2>4 DEF AtPlace, Resolving, Saving, Change
  <2>8. MemoryFollows'
    BY <1>m, <1>t, <2>2, <2>7, MemoryOf DEF Quiet
  <2> QED BY <2>5, <2>6, <2>8 DEF SerialInv
<1>3. CASE SaveReplace(o)
  <2>1. pc[o] = "replace" /\ tmp # None /\ tmp # path /\ content[tmp] = Whole(records)
    BY <1>3, <1>m DEF SaveReplace, AloneAt, SerialInv, FilesApart
  <2>2. /\ path' = tmp /\ tmp' = None /\ content' = content
        /\ Goto(o, "returned") /\ UNCHANGED memory
    BY <1>3 DEF SaveReplace
  <2>3. \A p \in Ops : pc'[p] = IF p = o THEN "returned" ELSE pc[p]
    BY <2>2, <1>t DEF Goto, TypeOK
  <2>4. FileMap' = records /\ content'[path'].whole
    BY <1>3, NewFile
  <2>5. FilesApart'
    BY <2>1, <2>2, <2>3, <2>4
       DEF SerialInv, FilesApart, Unopened, Loading, Resolving, Inodes
  <2>6. MemoryFollows'
    <3>1. AtPlace(o)'
      BY <2>3 DEF AtPlace, Resolving, Saving
    <3> QED BY <1>m, <1>t, <2>2, <2>4, <3>1, MemoryOf
  <2>7. \A i \in Ids : FileMap'[i] = IF i = IdOf[o] THEN Change(o) ELSE FileMap[i]
    BY <1>3, NewFile
  <2>8. NotYetOnFile'
    <3> SUFFICES ASSUME NEW p \in Ops, KindOf[p] = "enqueue", 
                        pc'[p] \in {"new"} \union Loading \union Acting
                 PROVE  FileMap'[IdOf[p]] = Absent
      BY DEF NotYetOnFile
    <3>1. p # o /\ FileMap[IdOf[p]] = Absent
      BY <2>3 DEF SerialInv, NotYetOnFile, Loading, Acting, Resolving
    <3>2. IdOf[p] # IdOf[o]
      BY <3>1, <1>m, FreshIds DEF Absent
    <3> QED BY <3>1, <3>2, <2>7
  <2>9. Acked'
    <3>1. ASSUME NEW p \in Ops, pc'[p] = "returned", KindOf[p] \in {"enqueue", "resolve"}, p # o
          PROVE  /\ KindOf[p] = "enqueue" => FileMap'[IdOf[p]] # Absent
                 /\ KindOf[p] = "resolve" => FileMap'[IdOf[p]] = ResolvedBy(p)
      <4>1. /\ KindOf[p] = "enqueue" => FileMap[IdOf[p]] # Absent
            /\ KindOf[p] = "resolve" => FileMap[IdOf[p]] = ResolvedBy(p)
        BY <3>1, <2>3 DEF SerialInv, Acked, Returned
      <4>2. CASE IdOf[p] # IdOf[o]
        BY <4>1, <4>2, <2>7
      <4>3. CASE IdOf[p] = IdOf[o]
        <5>1. KindOf[o] = "resolve"
          BY <3>1, <4>1, <4>3, <1>m, ResolvedRecord
        <5>2. ResolvedBy(p).status # "PENDING"
          BY DEF ResolvedBy, Made, Outcomes
        <5>3. KindOf[p] = "enqueue"
          BY <3>1, <4>1, <4>3, <5>1, <5>2, <1>m
        <5> QED BY <4>3, <5>1, <5>3, <2>7, <1>m, ResolvedRecord
      <4> QED BY <4>2, <4>3
    <3>2. /\ KindOf[o] = "enqueue" => FileMap'[IdOf[o]] # Absent
          /\ KindOf[o] = "resolve" => FileMap'[IdOf[o]] = ResolvedBy(o)
      BY <2>7, <1>m, ResolvedRecord
    <3> QED BY <3>1, <3>2 DEF Acked, Returned
  <2> QED BY <2>5, <2>6, <2>8, <2>9 DEF SerialInv
<1>4. CASE SaveChanged(o) \/ SaveVanished(o)
  BY <1>4, <1>m DEF SaveChanged, SaveVanished, AloneAt
<1> QED BY <1>1, <1>2, <1>3, <1>4

LEMMA SerialCrash ==
  ASSUME TypeInv, SerialInv, Crash
  PROVE  SerialInv'
<1>1. \A p \in Ops : pc'[p] \in Quiet /\ (pc'[p] # pc[p] => pc'[p] = "lost")
  BY DEF Crash, Active, TypeInv, TypeOK, Quiet
<1>2. FileMap' = FileMap /\ FilesApart'
  BY <1>1 DEF Crash, disk, FileMap, SerialInv, FilesApart, Unopened, Loading, Resolving
<1>3. MemoryFollows'
  BY <1>1 DEF Crash, MemoryFollows, AtPlace, Active, Quiet, Loading, Acting, Resolving, Saving
<1>4. NotYetOnFile'
  BY <1>1, <1>2 DEF SerialInv, NotYetOnFile, Loading, Acting, Resolving
<1>5. Acked'
  BY <1>1, <1>2 DEF SerialInv, Acked, Returned
<1> QED BY <1>2, <1>3, <1>4, <1>5 DEF SerialInv

QueueInv == TypeInv /\ AloneInv /\ (Serialized => SerialInv)

LEMMA QueueInvariant == Spec => []QueueInv
<1>1. Init => QueueInv
  BY InitType, InitAlone, InitSerial DEF QueueInv
<1>2. QueueInv /\ [Next]_vars => QueueInv'
  <2> SUFFICES ASSUME QueueInv, [Next]_vars, Serialized' PROVE SerialInv'
    BY StepType, StepAlone DEF QueueInv
  <2>1. TypeInv /\ TypeInv' /\ AloneInv
    BY StepType DEF QueueInv
  <2>2. Serialized /\ SerialInv
    BY DEF QueueInv, Serialized, Next, vars
  <2>3. CASE UNCHANGED vars
    BY <2>2, <2>3 DEF vars, memory, disk, writer, SerialInv, FilesApart, MemoryFollows, AtPlace,
         Change, NotYetOnFile, Acked, Returned, FileMap, Active
  <2>4. CASE Step
    BY <2>1, <2>2, <2>4, SerialCall, SerialSave, SerialCrash DEF Step
  <2> QED BY <2>3, <2>4 DEF Next
<1> QED BY <1>1, <1>2, PTL DEF Spec

\* enqueue and resolve: no crash, restart or later call loses what a serialized
\* call was acknowledged.
THEOREM SerialAckDurable == Spec => []AckedIsDurable
<1>1. QueueInv => AckedIsDurable
  <2> SUFFICES ASSUME QueueInv, Serialized PROVE AckedIsDurable
    BY DEF AckedIsDurable
  <2>1. Acked /\ \A i \in Ids : OnFile(i) = FileMap[i]
    BY FileMapType DEF QueueInv, TypeInv, SerialInv
  <2>2. \A o \in Ops : IdOf[o] \in Ids
    BY QueueAssumption
  <2> QED BY <2>1, <2>2 DEF Acked, AckedIsDurable, Returned, ResolvedBy, Made
<1> QED BY <1>1, QueueInvariant, PTL

\* A review once in the file stays there, and once resolved keeps its outcome and
\* its reviewer: a step either leaves the file, or changes a review that was new
\* or pending.
THEOREM SerialReviewsKept == Spec => ReviewsAreKept
<1>1. QueueInv /\ QueueInv' /\ [Next]_vars =>
        [Serialized =>
           \A i \in Ids :
               /\ OnFile(i) # Absent => OnFile(i)' # Absent
               /\ OnFile(i).status \in Outcomes => OnFile(i)' = OnFile(i)]_vars
  <2> SUFFICES ASSUME QueueInv, QueueInv', Step, Serialized, NEW i \in Ids
               PROVE  /\ OnFile(i) # Absent => OnFile(i)' # Absent
                      /\ OnFile(i).status \in Outcomes => OnFile(i)' = OnFile(i)
    BY DEF Next
  <2>1. TypeInv /\ TypeInv' /\ AloneInv /\ SerialInv
    BY DEF QueueInv
  <2>2. OnFile(i) = FileMap[i] /\ OnFile(i)' = FileMap'[i]
    BY DEF OnFile, FileMap, Empty
  <2>3. CASE FileMap' = FileMap
    BY <2>2, <2>3
  <2>4. ASSUME NEW o \in Ops, SaveReplace(o)
        PROVE  /\ OnFile(i) # Absent => OnFile(i)' # Absent
               /\ OnFile(i).status \in Outcomes => OnFile(i)' = OnFile(i)
    <3>1. FileMap'[i] = IF i = IdOf[o] THEN Change(o) ELSE FileMap[i]
      BY <2>1, <2>4, NewFile
    <3>2. CASE i # IdOf[o]
      BY <2>2, <3>1, <3>2
    <3>3. CASE i = IdOf[o]
      <4>1. pc[o] \in Saving
        BY <2>4 DEF SaveReplace, Saving
      <4>2. FileMap[i].status \notin Outcomes /\ Change(o) # Absent
        BY <2>1, <3>3, <4>1, SavingCall, ResolvedRecord DEF Absent, Outcomes
      <4> QED BY <2>2, <3>1, <3>3, <4>2
    <3> QED BY <3>2, <3>3
  <2>5. ASSUME NEW o \in Ops, SaveOpen(o) \/ SaveWrite(o) PROVE FileMap' = FileMap
    BY <2>1, <2>5, SameFile
  <2>6. UNCHANGED disk => FileMap' = FileMap
    BY DEF disk, FileMap
  <2>7. ASSUME NEW o \in Ops, SaveChanged(o) PROVE FALSE
    BY <2>1, <2>7, SavingCall DEF SaveChanged, Saving, AloneAt
  <2>8. ASSUME NEW o \in Ops,
               \/ Begin(o) \/ LoadRead(o) \/ LoadAssign(o) \/ Enqueue(o) \/ Read(o)
               \/ ResolveRefused(o) \/ ResolveCheck(o) \/ SetStatus(o) \/ SetReviewer(o)
               \/ SetDecision(o) \/ SaveVanished(o)
        PROVE  UNCHANGED disk
    BY <2>8 DEF Begin, LoadRead, LoadAssign, Enqueue, Read, ResolveRefused, ResolveCheck,
         SetStatus, SetReviewer, SetDecision, SetField, SaveVanished
  <2>9. Crash => UNCHANGED disk
    BY DEF Crash
  <2> QED BY <2>3, <2>4, <2>5, <2>6, <2>7, <2>8, <2>9 DEF Step
<1> QED BY <1>1, QueueInvariant, PTL DEF Spec, ReviewsAreKept
=============================================================================
