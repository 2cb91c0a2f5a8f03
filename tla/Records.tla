------------------------------ MODULE Records ------------------------------
(***************************************************************************)
(* One keyed record: its current value, its revisions, its search document *)
(* and the canonical snapshots kept in R2.  Every write bumps the fence of *)
(* the record's name; set, patch, archive and unarchive must present the   *)
(* current one, create and put present none.                               *)
(*                                                                         *)
(* A call waits where the code awaits: for R2 before the Durable Object is *)
(* called, and between the read a patch merges into and its transaction,   *)
(* while it hashes the merged value.  Replays of a call under one key are  *)
(* the subject of Receipts.                                                *)
(*                                                                         *)
(* A value is a function of its fields, a patch sets some of them, and a   *)
(* content of 0 stands for a field the value lacks, so that a null in a    *)
(* patch sets 0.  A value stands for its hash too.                         *)
(***************************************************************************)
EXTENDS Integers, Sequences

CONSTANTS
    Author,       \* sessions, each with one call at a time
    Field,
    Datum,
    NoRecord,
    NoValue,
    MaxVersion,   \* bounds the revisions
    MaxClaims     \* bounds the claims on the record's name

Value == [Field -> Datum]
RecordRow == [value : Value, revision : Nat, archived : BOOLEAN]
DocRow == [value : Value, tombstoned : BOOLEAN]

ASSUME RecordsAssumption ==
    /\ NoRecord \notin RecordRow \union DocRow /\ NoValue \notin Value
    /\ MaxVersion \in Nat /\ MaxClaims \in Nat

VARIABLES
    backend,      \* "hosted", "snapshots" (hosted, history = snapshot), "embedded"
    record,
    recordFence,  \* its row in fences, 0 without one
    history,      \* record_revisions
    searchDoc,    \* record_search_docs
    snapshots,    \* the values whose canonical JSON is in R2
    seen,         \* [Author -> the revision and the fence it last learned]
    edits         \* [Author -> its call]

recordVars == <<backend, record, recordFence, history, searchDoc, snapshots, seen, edits>>

Patch == UNION {[fields -> Datum] : fields \in SUBSET Field}
Merged(patch, value) ==
    [f \in Field |-> IF f \in DOMAIN patch THEN patch[f] ELSE value[f]]

Unseen == [version |-> 0, fence |-> 0]
Idling == [at |-> "idle", op |-> "none", fence |-> 0, input |-> NoValue,
           value |-> NoValue, version |-> 0]

\* The same call, at another wait.
Moved(e, at, value, version) ==
    [at |-> at, op |-> e.op, fence |-> e.fence, input |-> e.input,
     value |-> value, version |-> version]

Replacing == {"create", "put", "set"}
Fenced == {"set", "patch", "archive", "unarchive"}

RecordsInit ==
    /\ backend \in {"hosted", "snapshots", "embedded"}
    /\ record = NoRecord
    /\ recordFence = 0
    /\ history = << >>
    /\ searchDoc = NoRecord
    /\ snapshots = {}
    /\ seen = [a \in Author |-> Unseen]
    /\ edits = [a \in Author |-> Idling]

Exists == record # NoRecord
StoreKeeps == UNCHANGED <<backend, record, recordFence, history, searchDoc>>

-----------------------------------------------------------------------------
(* What an author learns outside its writes.                               *)

\* getRecord in the Durable Object, where nothing runs between its statements;
\* getRecordMeta is one statement everywhere.
ReadRecord(a) ==
    /\ edits[a] = Idling /\ Exists
    /\ seen' = [seen EXCEPT ![a] = [version |-> record.revision, fence |-> recordFence]]
    /\ UNCHANGED <<snapshots, edits>> /\ StoreKeeps

\* getRecord of the embedded backend: other processes write between the
\* statement that reads the row and the one that reads the fence.
ReadRow(a) ==
    /\ edits[a] = Idling /\ Exists /\ backend = "embedded"
    /\ edits' = [edits EXCEPT ![a] = Moved(@, "reading", NoValue, record.revision)]
    /\ UNCHANGED <<snapshots, seen>> /\ StoreKeeps

ReadFence(a) ==
    /\ edits[a].at = "reading"
    /\ seen' = [seen EXCEPT ![a] = [version |-> edits[a].version, fence |-> recordFence]]
    /\ edits' = [edits EXCEPT ![a] = Idling]
    /\ UNCHANGED snapshots /\ StoreKeeps

\* A claim on the record's name shares its fence row and shows no value.
ClaimName(a) ==
    /\ edits[a] = Idling /\ recordFence < MaxVersion + MaxClaims
    /\ recordFence' = recordFence + 1
    /\ seen' = [seen EXCEPT ![a] = [version |-> 0, fence |-> recordFence + 1]]
    /\ UNCHANGED <<backend, record, history, searchDoc, snapshots, edits>>

-----------------------------------------------------------------------------
(* A call on its way to its transaction.                                   *)

\* An author presents the fence it last learned.
SendWrite(a, op, input) ==
    /\ edits[a] = Idling
    /\ op \in Fenced => seen[a].fence > 0
    /\ edits' = [edits EXCEPT ![a] =
           [at |-> "sent", op |-> op, fence |-> IF op \in Fenced THEN seen[a].fence ELSE 0,
            input |-> input, value |-> input, version |-> 0]]
    /\ UNCHANGED <<snapshots, seen>> /\ StoreKeeps

\* writeCanonicalSnapshot before the Durable Object is called.
PutSnapshot(a) ==
    /\ backend = "snapshots" /\ edits[a].at = "sent" /\ edits[a].op \in Replacing
    /\ snapshots' = snapshots \union {edits[a].value}
    /\ edits' = [edits EXCEPT ![a] = Moved(@, "stored", @.value, 0)]
    /\ UNCHANGED seen /\ StoreKeeps

\* patchRecord up to its await.
MergePatch(a) ==
    /\ edits[a].at = "sent" /\ edits[a].op = "patch"
    /\ Exists /\ ~record.archived
    /\ edits' = [edits EXCEPT ![a] = Moved(@, "merged", Merged(@.input, record.value), 0)]
    /\ UNCHANGED <<snapshots, seen>> /\ StoreKeeps

\* Mutant of MayCommit: the database is written before R2.
MayCommit_BeforeR2(a, op) ==
    edits[a].op = op /\ edits[a].at \in IF op = "patch" THEN {"merged"} ELSE {"sent", "stored"}

MayCommit(a, op) ==
    /\ edits[a].op = op
    /\ edits[a].at = IF op = "patch" THEN "merged"
                     ELSE IF backend = "snapshots" /\ op \in Replacing THEN "stored"
                     ELSE "sent"

\* assertResourceFence.
FenceMatches(a) == recordFence # 0 /\ edits[a].fence = recordFence

-----------------------------------------------------------------------------
(* The transactions.                                                       *)

NextRevision == IF Exists THEN record.revision + 1 ELSE 1

\* Mutant of Bumped: only the first write of a name touches its fence row.
Bumped_Once == IF recordFence = 0 THEN 1 ELSE recordFence

Bumped == recordFence + 1

\* The rows every write leaves: record, fence and revision, naming the snapshot
\* the worker put in R2.
WriteRows(a, value, archived) ==
    /\ NextRevision <= MaxVersion
    /\ record' = [value |-> value, revision |-> NextRevision, archived |-> archived]
    /\ recordFence' = Bumped
    /\ history' = Append(history,
           [value |-> value,
            snapshot |-> IF backend = "snapshots" /\ edits[a].op \in Replacing
                         THEN value ELSE NoValue])
    /\ UNCHANGED <<backend, snapshots>>

\* writeSearchDoc, which leaves a document of the same hash alone.
IndexDoc(value, tombstoned) ==
    searchDoc' = IF searchDoc # NoRecord /\ searchDoc.value = value THEN searchDoc
                 ELSE [value |-> value, tombstoned |-> tombstoned]

\* The answer arrives or is lost; a patch goes on to its snapshot first.
Answer(a) ==
    /\ seen' \in {seen, [seen EXCEPT ![a] = [version |-> NextRevision, fence |-> Bumped]]}
    /\ edits' = [edits EXCEPT ![a] =
           IF @.op = "patch" /\ backend = "snapshots"
           THEN Moved(@, "patched", @.value, NextRevision)
           ELSE Idling]

CreateRecord(a) ==
    /\ MayCommit(a, "create") /\ ~Exists
    /\ WriteRows(a, edits[a].value, FALSE)
    /\ IndexDoc(edits[a].value, FALSE)
    /\ Answer(a)

\* putRecord leaves an archived record archived and hidden.
PutRecord(a) ==
    LET archived == Exists /\ record.archived IN
    /\ MayCommit(a, "put")
    /\ WriteRows(a, edits[a].value, archived)
    /\ IndexDoc(edits[a].value, archived)
    /\ Answer(a)

\* setRecord leaves it archived too, and shows its document.
SetRecord(a) ==
    /\ MayCommit(a, "set") /\ Exists /\ FenceMatches(a)
    /\ WriteRows(a, edits[a].value, record.archived)
    /\ IndexDoc(edits[a].value, FALSE)
    /\ Answer(a)

PatchRecord(a) ==
    /\ MayCommit(a, "patch") /\ Exists /\ ~record.archived /\ FenceMatches(a)
    /\ WriteRows(a, edits[a].value, FALSE)
    /\ IndexDoc(edits[a].value, FALSE)
    /\ Answer(a)

ArchiveRecord(a, archived) ==
    /\ MayCommit(a, IF archived THEN "archive" ELSE "unarchive")
    /\ Exists /\ FenceMatches(a) /\ record.archived # archived
    /\ WriteRows(a, record.value, archived)
    /\ searchDoc' = [searchDoc EXCEPT !.tombstoned = archived]
    /\ Answer(a)

-----------------------------------------------------------------------------
(* After a patch of a snapshot type.                                       *)

PutPatchedSnapshot(a) ==
    /\ edits[a].at = "patched"
    /\ snapshots' = snapshots \union {edits[a].value}
    /\ edits' = [edits EXCEPT ![a] = Moved(@, "stamping", @.value, @.version)]
    /\ UNCHANGED seen /\ StoreKeeps

\* stampArtifacts, on the revision the patch wrote.
StampArtifacts(a) ==
    /\ edits[a].at = "stamping"
    /\ history' = [history EXCEPT ![edits[a].version].snapshot = edits[a].value]
    /\ edits' = [edits EXCEPT ![a] = Idling]
    /\ UNCHANGED <<backend, record, recordFence, searchDoc, snapshots, seen>>

\* The call is refused, R2 fails, or its worker or process dies.
EditEnds(a) ==
    /\ edits[a] # Idling
    /\ edits' = [edits EXCEPT ![a] = Idling]
    /\ UNCHANGED <<snapshots, seen>> /\ StoreKeeps

-----------------------------------------------------------------------------

CommitEdit(a) ==
    \/ CreateRecord(a) \/ PutRecord(a) \/ SetRecord(a) \/ PatchRecord(a)
    \/ \E archived \in BOOLEAN : ArchiveRecord(a, archived)

RecordsNext == \E a \in Author :
    \/ ReadRecord(a) \/ ReadRow(a) \/ ReadFence(a) \/ ClaimName(a)
    \/ \E op \in Replacing, value \in Value : SendWrite(a, op, value)
    \/ \E patch \in Patch : SendWrite(a, "patch", patch)
    \/ \E op \in {"archive", "unarchive"} : SendWrite(a, op, NoValue)
    \/ PutSnapshot(a) \/ MergePatch(a) \/ CommitEdit(a)
    \/ PutPatchedSnapshot(a) \/ StampArtifacts(a) \/ EditEnds(a)

RecordsSpec == RecordsInit /\ [][RecordsNext]_recordVars

-----------------------------------------------------------------------------

Commits(a) == record' # record /\ edits'[a] # edits[a]

\* No write that presents a fence loses another's update (patchRecord,
\* setRecord): a patch that read its base before an await is merged into the
\* very value it replaces, and an author that read the record replaces the
\* revision it read. In the embedded backend a read may pair a row with a later
\* fence (getRecordMeta: getRecord "has no such guarantee").
NoUpdateIsLost ==
    [][\A a \in Author : Commits(a) =>
          /\ edits[a].op = "patch" => record'.value = Merged(edits[a].input, record.value)
          /\ edits[a].op \in Fenced /\ seen[a].version # 0 /\ backend # "embedded" =>
                 seen[a].version = record.revision]_recordVars

\* The tables tell one story (insertRevisionRow, writeSearchDoc, stampArtifacts):
\* the last revision is the record, a revision's snapshot is in R2 with that
\* revision's value, and a live record can be found by its current text although
\* a document of the same hash is not rewritten.
TablesAgree ==
    /\ Exists =>
           /\ Len(history) = record.revision
           /\ history[record.revision].value = record.value
           /\ searchDoc.value = record.value
           /\ record.archived \/ ~searchDoc.tombstoned
    /\ \A i \in DOMAIN history :
           history[i].snapshot # NoValue =>
               history[i].snapshot = history[i].value /\ history[i].value \in snapshots
=============================================================================
