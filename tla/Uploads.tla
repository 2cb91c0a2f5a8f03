------------------------------ MODULE Uploads ------------------------------
(***************************************************************************)
(* Uploads of one artifact under its content-addressed key.  The bytes go  *)
(* to R2 first and are registered in the Durable Object afterwards; when   *)
(* the registration cannot be completed the upload takes the bytes out     *)
(* again.  Deletion, by a request or by the sweep, marks the pointer,      *)
(* deletes the bytes and confirms; reconciliation adopts bytes without a   *)
(* pointer and marks pointers without bytes.  Any of them can die between  *)
(* two steps.  Keys do not interact, so there is one.                      *)
(***************************************************************************)
EXTENDS Integers

CONSTANTS
    Upload,       \* upload requests for the key
    Removal       \* deletions: requests and the sweep

Tries == 2        \* MAX_ATTEMPTS

VARIABLES
    blob,         \* the bytes are in R2
    pointer,      \* the row of artifact_pointers
    logged,       \* the journal has a tombstone or an expiry of the key
    confirmed,    \* blob_deleted_at is set
    uploads,
    removals,
    adopting,     \* reconciliation listed the key and has not applied it yet
    repairing     \* reconciliation found the bytes of a live pointer missing

uploadVars == <<blob, pointer, logged, confirmed, uploads, removals, adopting, repairing>>

UploadsInit ==
    /\ blob = FALSE /\ pointer = "none" /\ logged = FALSE /\ confirmed = FALSE
    /\ uploads = [u \in Upload |-> [at |-> "idle", tries |-> 0]]
    /\ removals = [d \in Removal |-> "idle"]
    /\ adopting = FALSE /\ repairing = FALSE

UploadMoves(u, at) == uploads' = [uploads EXCEPT ![u].at = at]

-----------------------------------------------------------------------------
(* Uploading.                                                              *)

\* R2 keeps the bytes that are already there.
PutBlob(u) ==
    /\ uploads[u].at = "idle"
    /\ blob' = TRUE
    /\ UploadMoves(u, "registering")
    /\ UNCHANGED <<pointer, logged, confirmed, removals, adopting, repairing>>

\* upsertPointer: an existing row stands, marked or not.
Registered == IF pointer = "none" THEN "live" ELSE pointer

\* No answer arrives, or a 5xx: once more, then take the bytes out.
TryFails(u) ==
    uploads' = [uploads EXCEPT ![u].tries = @ + 1,
                   ![u].at = IF uploads[u].tries + 1 < Tries THEN @ ELSE "compensating"]

\* The row is written; its answer may be lost.
RegisterPointer(u) ==
    /\ uploads[u].at = "registering"
    /\ pointer' = Registered
    /\ UploadMoves(u, "ok") \/ TryFails(u)
    /\ UNCHANGED <<blob, logged, confirmed, removals, adopting, repairing>>

\* Nothing is written: a 4xx is passed on and the bytes stay, anything else is
\* tried again.
RegistrationFails(u) ==
    /\ uploads[u].at = "registering"
    /\ UploadMoves(u, "refused") \/ TryFails(u)
    /\ UNCHANGED <<blob, pointer, logged, confirmed, removals, adopting, repairing>>

\* compensateAndRespond: "cleaned" is the 502, "stranded" the 500 that names
\* the bytes left behind.
Compensate(u) ==
    /\ uploads[u].at = "compensating"
    /\ \/ blob' = FALSE /\ UploadMoves(u, "cleaned")
       \/ UploadMoves(u, "stranded") /\ UNCHANGED blob
    /\ UNCHANGED <<pointer, logged, confirmed, removals, adopting, repairing>>

UploadDies(u) ==
    /\ uploads[u].at \in {"registering", "compensating"}
    /\ UploadMoves(u, "dead")
    /\ UNCHANGED <<blob, pointer, logged, confirmed, removals, adopting, repairing>>

-----------------------------------------------------------------------------
(* Deleting and reconciling.                                               *)

\* tombstonePointer: journalled even when there is no such row.
Tombstone ==
    /\ pointer' = IF pointer = "live" THEN "tombstoned" ELSE pointer
    /\ logged' = TRUE

StartRemoval(d) ==
    /\ removals[d] = "idle"
    /\ Tombstone
    /\ removals' = [removals EXCEPT ![d] = "deleting"]
    /\ UNCHANGED <<blob, confirmed, uploads, adopting, repairing>>

DeleteBlob(d) ==
    /\ removals[d] = "deleting"
    /\ blob' = FALSE
    /\ removals' = [removals EXCEPT ![d] = "confirming"]
    /\ UNCHANGED <<pointer, logged, confirmed, uploads, adopting, repairing>>

ConfirmDeleted(d) ==
    /\ removals[d] = "confirming"
    /\ confirmed' = (confirmed \/ pointer # "none")
    /\ removals' = [removals EXCEPT ![d] = "done"]
    /\ UNCHANGED <<blob, pointer, logged, uploads, adopting, repairing>>

\* R2 or the Durable Object fails it, or it dies.
RemovalEnds(d) ==
    /\ removals[d] \in {"deleting", "confirming"}
    /\ removals' = [removals EXCEPT ![d] = "done"]
    /\ UNCHANGED <<blob, pointer, logged, confirmed, uploads, adopting, repairing>>

ListBlob ==
    /\ blob /\ ~adopting
    /\ adopting' = TRUE
    /\ UNCHANGED <<blob, pointer, logged, confirmed, uploads, removals, repairing>>

\* reconcilePointers: a key that was ever tombstoned is not brought back.
AdoptBlob ==
    /\ adopting
    /\ adopting' = FALSE
    /\ pointer' = IF logged THEN pointer ELSE Registered
    /\ UNCHANGED <<blob, logged, confirmed, uploads, removals, repairing>>

FindBlobMissing ==
    /\ pointer = "live" /\ ~blob /\ ~repairing
    /\ repairing' = TRUE
    /\ UNCHANGED <<blob, pointer, logged, confirmed, uploads, removals, adopting>>

RepairPointer ==
    /\ repairing
    /\ repairing' = FALSE
    /\ Tombstone
    /\ UNCHANGED <<blob, confirmed, uploads, removals, adopting>>

-----------------------------------------------------------------------------

UploadsNext ==
    \/ \E u \in Upload : PutBlob(u) \/ RegisterPointer(u) \/ RegistrationFails(u)
                         \/ Compensate(u) \/ UploadDies(u)
    \/ \E d \in Removal : StartRemoval(d) \/ DeleteBlob(d) \/ ConfirmDeleted(d) \/ RemovalEnds(d)
    \/ ListBlob \/ AdoptBlob \/ FindBlobMissing \/ RepairPointer

UploadsSpec == UploadsInit /\ [][UploadsNext]_uploadVars

-----------------------------------------------------------------------------

\* An upload that answers that its bytes were cleaned up leaves no pointer that
\* still offers them (compensateAndRespond: "no pointer row, clean state").
CompensationLeavesCleanState ==
    [][\A u \in Upload :
          uploads[u].at = "compensating" /\ uploads'[u].at = "cleaned" => pointer' # "live"]_uploadVars
=============================================================================
