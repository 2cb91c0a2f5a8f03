-------------------------- MODULE ArtifactRevisions --------------------------
(***************************************************************************)
(* The revisions of one artifact lineage, kept in two stores.  A writer    *)
(* reserves a revision number under the lineage's claim, puts the bytes in *)
(* R2, has the commit accepted, and the commit record in R2 is written     *)
(* before the revision is published.  Deletion, expiry and destruction are *)
(* recorded in the database, then as a fact in R2, and only then are bytes *)
(* deleted.  The writer, the Durable Object's alarm and the sweep can each *)
(* die between any two steps.  If the database is lost, it is rebuilt from *)
(* the commit records and facts in R2.                                     *)
(*                                                                         *)
(* The revision ledger and the pointer table hold the same facts about a   *)
(* revision and are one row here.  Retention is assigned at reservation;   *)
(* its backfill for older rows, tags, search text and reviews are data.    *)
(***************************************************************************)
EXTENDS Integers, FiniteSets

CONSTANTS
    Op,            \* operation ids: one write and its retries
    Content,       \* hashes of bytes
    Drain,         \* the alarm and the sweep
    NoOp, NoRevision,
    MaxRevision,   \* bounds the revision numbers
    MaxLineageFence

Revision == 1 .. MaxRevision

ASSUME RevisionsAssumption == MaxRevision \in Nat /\ MaxLineageFence \in Nat

OperationRow == [state : {"reserved", "accepted", "published", "aborted"},
                 revision : Revision, content : Content, fence : Nat]
RevisionRow == [content : Content, retired : {"no", "manual", "expired", "destroy"},
                gone : BOOLEAN]

ASSUME NoRowsAssumption == NoOp \notin OperationRow /\ NoRevision \notin RevisionRow

VARIABLES
    lineageFence,  \* the fence of claim artifact:<lineage>
    lineageHeld,   \* its claim is live
    nextRevision,
    destroyed,     \* destroyed_at of the lineage
    ops,           \* artifact_revision_operations
    rows,          \* artifact_revisions with artifact_pointers
    work,          \* artifact_lifecycle_operations: [fact -> its state]
    blobs, commits, facts, \* R2: bytes, commit records, lifecycle records
    writers,       \* where each operation's request is
    drains,        \* where each lifecycle pass is
    recovery       \* revisions still to be rebuilt after the database was lost

revisionDb == <<lineageFence, lineageHeld, nextRevision, destroyed, ops, rows, work>>
revisionVars == <<revisionDb, blobs, commits, facts, writers, drains, recovery>>

Retire == <<"destroy", 0>>
Fact == {Retire} \cup ({"tombstone", "deleted"} \X Revision)

IdleDrain == [at |-> "idle", revision |-> 0, group |-> FALSE]

RevisionsInit ==
    /\ lineageFence = 0 /\ lineageHeld = FALSE /\ nextRevision = 1
    /\ destroyed = FALSE
    /\ ops = [o \in Op |-> NoOp]
    /\ rows = [r \in Revision |-> NoRevision]
    /\ work = [f \in Fact |-> "none"]
    /\ blobs = {} /\ commits = {} /\ facts = {}
    /\ writers = [o \in Op |-> "idle"]
    /\ drains = [d \in Drain |-> IdleDrain]
    /\ recovery = [todo |-> {}, facts |-> {}, lost |-> FALSE]

InState(o, states) == ops[o] # NoOp /\ ops[o].state \in states
Pending == {o \in Op : InState(o, {"reserved", "accepted"})}
Usable(r) == rows[r] # NoRevision /\ rows[r].retired = "no" /\ ~rows[r].gone
Available(r) == Usable(r) /\ ~destroyed
Recovered == recovery.todo = {}
HoldsFence(o) == lineageHeld /\ ops[o].fence = lineageFence

-----------------------------------------------------------------------------
(* The lineage's claim.                                                    *)

TakeLineage ==
    /\ Recovered /\ ~lineageHeld /\ lineageFence < MaxLineageFence
    /\ lineageFence' = lineageFence + 1 /\ lineageHeld' = TRUE
    /\ UNCHANGED <<nextRevision, destroyed, ops, rows, work,
                   blobs, commits, facts, writers, drains, recovery>>

LoseLineage ==
    /\ lineageHeld
    /\ lineageHeld' = FALSE
    /\ UNCHANGED <<lineageFence, nextRevision, destroyed, ops, rows, work,
                   blobs, commits, facts, writers, drains, recovery>>

-----------------------------------------------------------------------------
(* Writing a revision.                                                     *)

\* A new lease discards an unfinished reservation, never an accepted commit.
MayAbort(o) == ops[o].state = "reserved" /\ ops[o].fence # lineageFence

Duplicates(c) == {r \in Revision : Usable(r) /\ rows[r].content = c}

\* reserveArtifactRevision: a write of known content is answered with the
\* revision that has it; a restore always makes a new revision.
Reserve(o, c, restore) ==
    /\ Recovered /\ ops[o] = NoOp /\ writers[o] = "idle"
    /\ lineageHeld /\ ~destroyed
    /\ restore => Duplicates(c) # {}
    /\ \A p \in Pending : MayAbort(p)
    /\ LET swept == [p \in Op |-> IF p \in Pending THEN [ops[p] EXCEPT !.state = "aborted"]
                                  ELSE ops[p]]
           fresh(state, r) == [state |-> state, revision |-> r, content |-> c,
                               fence |-> lineageFence]
       IN  \/ /\ ~restore /\ Duplicates(c) # {}
              /\ ops' = [swept EXCEPT ![o] =
                            fresh("published", CHOOSE r \in Duplicates(c) :
                                                   \A q \in Duplicates(c) : q <= r)]
              /\ UNCHANGED <<nextRevision, writers>>
           \/ /\ restore \/ Duplicates(c) = {}
              /\ nextRevision <= MaxRevision
              /\ ops' = [swept EXCEPT ![o] = fresh("reserved", nextRevision)]
              /\ nextRevision' = nextRevision + 1
              /\ writers' = [writers EXCEPT ![o] = "putting"]
    /\ UNCHANGED <<lineageFence, lineageHeld, destroyed, rows, work,
                   blobs, commits, facts, drains, recovery>>

\* The request is sent again under its key and starts over with what the
\* operation has come to.
RetryWrite(o) ==
    /\ writers[o] = "idle" /\ InState(o, {"reserved"})
    /\ writers' = [writers EXCEPT ![o] = "putting"]
    /\ UNCHANGED <<revisionDb, blobs, commits, facts, drains, recovery>>

PutBytes(o) ==
    /\ writers[o] = "putting"
    /\ blobs' = blobs \cup {<<ops[o].revision, ops[o].content>>}
    /\ writers' = [writers EXCEPT ![o] = "committing"]
    /\ UNCHANGED <<revisionDb, commits, facts, drains, recovery>>

\* acceptArtifactRevision, after the commit route found the bytes and armed
\* the alarm; a lapsed fence leaves the reservation as it is.
Accept(o) ==
    /\ writers[o] = "committing"
    /\ writers' = [writers EXCEPT ![o] = "idle"]
    /\ IF InState(o, {"reserved"}) /\ HoldsFence(o)
       THEN ops' = [ops EXCEPT ![o].state = "accepted"]
       ELSE UNCHANGED ops
    /\ UNCHANGED <<lineageFence, lineageHeld, nextRevision, destroyed, rows, work,
                   blobs, commits, facts, drains, recovery>>

\* The writer dies, or R2 answers it with an error.
WriterDies(o) ==
    /\ writers[o] # "idle"
    /\ writers' = [writers EXCEPT ![o] = "idle"]
    /\ UNCHANGED <<revisionDb, blobs, commits, facts, drains, recovery>>

\* publish: the commit record is created in R2 first, by the request or by the
\* alarm; writing it twice changes nothing.
PutCommitRecord(o) ==
    /\ InState(o, {"accepted"})
    /\ <<ops[o].revision, ops[o].content>> \notin commits
    /\ commits' = commits \cup {<<ops[o].revision, ops[o].content>>}
    /\ UNCHANGED <<revisionDb, blobs, facts, writers, drains, recovery>>

\* insertPublishedPointer: what the ledger already says of the revision stands.
RowPublished(r, c) ==
    IF rows[r] # NoRevision THEN rows[r]
    ELSE [content |-> c, retired |-> "no", gone |-> FALSE]

\* Mutant of Publish: the revision is published before its commit record.
Publish_Early(o) ==
    /\ InState(o, {"accepted"})
    /\ rows' = [rows EXCEPT ![ops[o].revision] = RowPublished(ops[o].revision, ops[o].content)]
    /\ ops' = [ops EXCEPT ![o].state = "published"]
    /\ UNCHANGED <<lineageFence, lineageHeld, nextRevision, destroyed, work,
                   blobs, commits, facts, writers, drains, recovery>>

Publish(o) ==
    /\ InState(o, {"accepted"})
    /\ <<ops[o].revision, ops[o].content>> \in commits
    /\ rows' = [rows EXCEPT ![ops[o].revision] = RowPublished(ops[o].revision, ops[o].content)]
    /\ ops' = [ops EXCEPT ![o].state = "published"]
    /\ UNCHANGED <<lineageFence, lineageHeld, nextRevision, destroyed, work,
                   blobs, commits, facts, writers, drains, recovery>>

-----------------------------------------------------------------------------
(* Deleting revisions.                                                     *)

Idle == Pending = {}

NewerUsable(r) == \E q \in Revision : q > r /\ Usable(q)

Accepted(r, reason) ==
    /\ rows' = [rows EXCEPT ![r].retired = reason]
    /\ work' = [work EXCEPT ![<<"tombstone", r>>] = "pending"]
    /\ UNCHANGED <<lineageFence, lineageHeld, nextRevision, destroyed, ops,
                   blobs, commits, facts, writers, drains, recovery>>

\* acceptDeletion, asked for by the holder of the lineage.
DeleteRevision(r) ==
    /\ Recovered /\ lineageHeld /\ Idle
    /\ rows[r] # NoRevision /\ work[<<"tombstone", r>>] = "none"
    /\ Accepted(r, "manual")

\* The retention of a revision may have run out at any time; a newer usable
\* one has to stand behind it.
MayExpire(r) == Usable(r) /\ NewerUsable(r)

\* prepareLifecycle: the sweep and the alarm retire what has expired and every
\* revision of a destroyed lineage.
Expire(r) ==
    /\ Idle /\ ~destroyed /\ work[<<"tombstone", r>>] = "none"
    /\ MayExpire(r)
    /\ Accepted(r, "expired")

RetireMember(r) ==
    /\ Idle /\ destroyed /\ work[<<"tombstone", r>>] = "none"
    /\ rows[r] # NoRevision /\ ~rows[r].gone
    /\ Accepted(r, IF rows[r].retired = "no" THEN "destroy" ELSE rows[r].retired)

\* destroyLineage.
Destroy ==
    /\ Recovered /\ lineageHeld /\ Idle /\ ~destroyed /\ nextRevision > 1
    /\ destroyed' = TRUE
    /\ work' = [work EXCEPT ![Retire] = "pending"]
    /\ UNCHANGED <<lineageFence, lineageHeld, nextRevision, ops, rows,
                   blobs, commits, facts, writers, drains, recovery>>

-----------------------------------------------------------------------------
(* The lifecycle queue.                                                    *)

Published(f) == IF f[1] = "tombstone" THEN "published" ELSE "done"

\* publishLifecycleRecord: the immutable record is created in R2, then the
\* operation is marked; whoever finds it pending may do either.
WriteFact(f) ==
    /\ work[f] = "pending" /\ f \notin facts
    /\ facts' = facts \cup {f}
    /\ UNCHANGED <<revisionDb, blobs, commits, writers, drains, recovery>>

MarkFact(f) ==
    /\ work[f] = "pending" /\ f \in facts
    /\ work' = [work EXCEPT ![f] = Published(f)]
    /\ UNCHANGED <<lineageFence, lineageHeld, nextRevision, destroyed, ops, rows,
                   blobs, commits, facts, writers, drains, recovery>>

\* drainLifecycle takes up one tombstone.
StartDrain(d, r) ==
    /\ drains[d].at = "idle"
    /\ work[<<"tombstone", r>>] \in {"pending", "published"}
    /\ drains' = [drains EXCEPT ![d] = [at |-> "records", revision |-> r, group |-> destroyed]]
    /\ UNCHANGED <<revisionDb, blobs, commits, facts, writers, recovery>>

\* Mutant of RecordsWritten: bytes are deleted while the tombstone is only in
\* the database.
RecordsWritten_Skip(d) == work[<<"tombstone", drains[d].revision>>] # "none"

RecordsWritten(d) ==
    /\ drains[d].group => work[Retire] # "pending"
    /\ work[<<"tombstone", drains[d].revision>>] \notin {"none", "pending"}

DeleteBytes(d) ==
    /\ drains[d].at = "records" /\ RecordsWritten(d)
    /\ blobs' = {b \in blobs : b[1] # drains[d].revision}
    /\ drains' = [drains EXCEPT ![d].at = "deleted"]
    /\ UNCHANGED <<revisionDb, commits, facts, writers, recovery>>

\* The confirmation is queued with its time before its record is written.
QueueConfirmation(d) ==
    LET f == <<"deleted", drains[d].revision>> IN
    /\ drains[d].at = "deleted"
    /\ work' = [work EXCEPT ![f] = IF @ = "none" THEN "pending" ELSE @]
    /\ drains' = [drains EXCEPT ![d].at = "confirming"]
    /\ UNCHANGED <<lineageFence, lineageHeld, nextRevision, destroyed, ops, rows,
                   blobs, commits, facts, writers, recovery>>

FinishDrain(d) ==
    LET r == drains[d].revision IN
    /\ drains[d].at = "confirming" /\ work[<<"deleted", r>>] = "done"
    /\ rows' = [rows EXCEPT ![r].gone = TRUE]
    /\ work' = [work EXCEPT ![<<"tombstone", r>>] = "done"]
    /\ drains' = [drains EXCEPT ![d] = IdleDrain]
    /\ UNCHANGED <<lineageFence, lineageHeld, nextRevision, destroyed, ops,
                   blobs, commits, facts, writers, recovery>>

\* R2 fails or the Durable Object stops; the operation is retried later.
DrainDies(d) ==
    /\ drains[d].at # "idle"
    /\ drains' = [drains EXCEPT ![d] = IdleDrain]
    /\ UNCHANGED <<revisionDb, blobs, commits, facts, writers, recovery>>

-----------------------------------------------------------------------------
(* Losing the database, once, and rebuilding it from R2.                   *)

LoseDatabase ==
    /\ ~recovery.lost /\ commits # {}
    /\ recovery' = [todo |-> {b[1] : b \in commits}, facts |-> {}, lost |-> TRUE]
    /\ lineageFence' = 0 /\ lineageHeld' = FALSE /\ nextRevision' = 1
    /\ destroyed' = FALSE
    /\ ops' = [o \in Op |-> NoOp]
    /\ rows' = [r \in Revision |-> NoRevision]
    /\ work' = [f \in Fact |-> "none"]
    /\ writers' = [o \in Op |-> "idle"]
    /\ drains' = [d \in Drain |-> IdleDrain]
    /\ UNCHANGED <<blobs, commits, facts>>

ContentOf(r) == (CHOOSE b \in commits : b[1] = r)[2]

\* Mutant of RecoverFacts: the commit is rebuilt without its lifecycle records.
RecoverFacts_None(r) ==
    /\ r \in recovery.todo \ recovery.facts
    /\ recovery' = [recovery EXCEPT !.facts = @ \cup {r}]
    /\ UNCHANGED <<revisionDb, blobs, commits, facts, writers, drains>>

\* recoverArtifactLifecycle and reconcileLifecycle: what R2 says of the lineage
\* and of the revision goes in before its commit.
RecoverFacts(r) ==
    LET dead == <<"tombstone", r>> \in facts \/ <<"deleted", r>> \in facts IN
    /\ r \in recovery.todo \ recovery.facts
    /\ recovery' = [recovery EXCEPT !.facts = @ \cup {r}]
    /\ destroyed' = (destroyed \/ Retire \in facts)
    /\ rows' = IF dead
               THEN [rows EXCEPT ![r] = [content |-> ContentOf(r), retired |-> "manual",
                                         gone |-> <<"deleted", r>> \in facts]]
               ELSE rows
    /\ work' = [f \in Fact |->
                   IF f \in facts /\ f[2] \in {0, r} THEN Published(f) ELSE work[f]]
    /\ UNCHANGED <<lineageFence, lineageHeld, nextRevision, ops,
                   blobs, commits, facts, writers, drains>>

\* reconcileArtifactCommit: the operation is inserted as accepted and published.
ReconcileCommit(r) ==
    /\ r \in recovery.todo \cap recovery.facts
    /\ rows' = [rows EXCEPT ![r] = RowPublished(r, ContentOf(r))]
    /\ nextRevision' = IF nextRevision > r THEN nextRevision ELSE r + 1
    /\ recovery' = [recovery EXCEPT !.todo = @ \ {r}]
    /\ UNCHANGED <<lineageFence, lineageHeld, destroyed, ops, work,
                   blobs, commits, facts, writers, drains>>

-----------------------------------------------------------------------------

RevisionsNext ==
    \/ TakeLineage \/ LoseLineage \/ Destroy \/ LoseDatabase
    \/ \E o \in Op :
          \/ \E c \in Content, restore \in BOOLEAN : Reserve(o, c, restore)
          \/ RetryWrite(o) \/ PutBytes(o) \/ Accept(o) \/ WriterDies(o)
          \/ PutCommitRecord(o) \/ Publish(o)
    \/ \E r \in Revision :
          \/ DeleteRevision(r) \/ Expire(r) \/ RetireMember(r)
          \/ RecoverFacts(r) \/ ReconcileCommit(r)
          \/ \E d \in Drain : StartDrain(d, r)
    \/ \E f \in Fact : WriteFact(f) \/ MarkFact(f)
    \/ \E d \in Drain : DeleteBytes(d) \/ QueueConfirmation(d) \/ FinishDrain(d) \/ DrainDies(d)

RevisionsSpec == RevisionsInit /\ [][RevisionsNext]_revisionVars

-----------------------------------------------------------------------------

\* A revision a reader can open has its bytes in R2, through every death of a
\* writer or a lifecycle pass and after the database is rebuilt (publish,
\* drainLifecycle, recoverArtifactLifecycle).
AvailableRevisionsHaveContent ==
    \A r \in Revision : Available(r) => <<r, rows[r].content>> \in blobs

\* What R2 records as retired is not available once the database is rebuilt:
\* an acknowledged destruction and a published tombstone survive its loss.
RetiredStaysRetired ==
    Recovered =>
        /\ \A r \in Revision : <<"tombstone", r>> \in facts => ~Available(r)
        /\ Retire \in facts => destroyed

\* Every published revision can be rebuilt from a commit record in R2, of its
\* own content (publish, reconcile).
RevisionsAreRecoverable ==
    \A r \in Revision :
        rows[r] # NoRevision => \E b \in commits : b[1] = r /\ b[2] = rows[r].content
=============================================================================
