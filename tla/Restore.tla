------------------------------ MODULE Restore ------------------------------
(***************************************************************************)
(* Replacing a project with an archive.  A client locks the project, takes *)
(* a safety archive of it, clears the tables, sends the archive's rows and *)
(* has them verified; what was restored is invalidated before the project  *)
(* opens again.  A client can die at any step, and is then resumed or      *)
(* rolled back by another, while the first may still be running.           *)
(*                                                                         *)
(* Of the tables only the fences, the claims and the unfinished managed    *)
(* work are kept.  An attempt's fence does not exceed its task's, except   *)
(* in half-loaded tables, where it only raises the task's fence further.   *)
(* Blobs and D1 rows are restored idempotently and are left out, and so    *)
(* are agents' epochs, which are kept like fences.                         *)
(***************************************************************************)
EXTENDS Integers, FiniteSets

CONSTANTS
    Task,
    Client,       \* processes that run an import, a resume or a rollback
    NoArchive,
    MaxRestored   \* bounds grants and restores

ASSUME RestoreAssumption == MaxRestored \in Nat \ {0} /\ NoArchive \notin {"given", "safety"}

VARIABLES
    project,      \* the tables of the project
    archives,     \* the archive to import, of any project state, and the safety archive
    lock,         \* _project_transfer_state
    chunks,       \* _project_transfer_chunks: [Section -> the archive it came from]
    clients,
    spent         \* [Task -> the highest fence any tenure may still hold]

restoreVars == <<project, archives, lock, chunks, clients, spent>>

Section == {"fences", "work"}

Unlocked == [mode |-> "none", session |-> NoArchive, archive |-> NoArchive,
             applying |-> FALSE, saved |-> [t \in Task |-> 0]]
NoChunks == [s \in Section |-> NoArchive]
Blank == [fences |-> [t \in Task |-> 0], claims |-> [t \in Task |-> 0], unfinished |-> {}]
AtRest == [at |-> "idle", archive |-> NoArchive]
Dead == [at |-> "dead", archive |-> NoArchive]

\* Rows a running project can have had when it was exported.
Snapshot ==
    {s \in [fences : [Task -> 0 .. MaxRestored - 1], claims : [Task -> 0 .. MaxRestored - 1],
            unfinished : SUBSET Task] :
        \A t \in Task : /\ s.claims[t] \in {0, s.fences[t]}
                        /\ t \in s.unfinished => s.fences[t] > 0}

RestoreInit ==
    /\ project = Blank
    /\ \E given \in Snapshot : archives = [given |-> given, safety |-> Blank]
    /\ lock = Unlocked /\ chunks = NoChunks
    /\ clients = [k \in Client |-> AtRest]
    /\ spent = [t \in Task |-> 0]

Larger(m, n) == IF m > n THEN m ELSE n

-----------------------------------------------------------------------------
(* The project at work; the lock refuses every write.                      *)

GrantTask(t, managed) ==
    /\ lock.mode = "none"
    /\ project.claims[t] = 0 /\ project.fences[t] < MaxRestored
    /\ project' = [project EXCEPT !.fences[t] = @ + 1,
                                  !.claims[t] = project.fences[t] + 1,
                                  !.unfinished = IF managed THEN @ \cup {t} ELSE @]
    /\ spent' = [spent EXCEPT ![t] = Larger(@, project.fences[t] + 1)]
    /\ UNCHANGED <<archives, lock, chunks, clients>>

\* The claim ends, and with it, or not, the managed work.
EndGrant(t, finished) ==
    /\ lock.mode = "none"
    /\ project' = [project EXCEPT !.claims[t] = 0,
                                  !.unfinished = IF finished THEN @ \ {t} ELSE @]
    /\ project' # project
    /\ UNCHANGED <<archives, lock, chunks, clients, spent>>

-----------------------------------------------------------------------------
(* The safety export.                                                      *)

Quiescent == project.unfinished = {}
MayStart(k) == clients[k] \in {AtRest, Dead}
Owns(k) == lock.mode = "export" /\ lock.session = k

BeginExport(k) ==
    /\ MayStart(k) /\ lock = Unlocked
    /\ \A t \in Task : Larger(project.fences[t], archives["given"].fences[t]) < MaxRestored
    /\ lock' = [Unlocked EXCEPT !.mode = "export", !.session = k]
    /\ clients' = [clients EXCEPT ![k] = [AtRest EXCEPT !.at = "exporting"]]
    /\ UNCHANGED <<project, archives, chunks, spent>>

\* Its lifetime ran out, or the client gave the lock back.
ExportEnds ==
    /\ lock.mode = "export"
    /\ lock' = Unlocked
    /\ UNCHANGED <<project, archives, chunks, clients, spent>>

Leaves(k) == clients' = [clients EXCEPT ![k] = AtRest]

TakeSafety(k) ==
    /\ clients[k].at = "exporting"
    /\ IF Owns(k)
       THEN /\ archives' = [archives EXCEPT !["safety"] = project]
            /\ clients' = [clients EXCEPT ![k].at = "saved"]
       ELSE Leaves(k) /\ UNCHANGED archives
    /\ UNCHANGED <<project, lock, chunks, spent>>

\* The export lock becomes the import lock, unless work is unfinished.
Promote(k) ==
    /\ clients[k].at = "saved"
    /\ IF Owns(k) /\ Quiescent
       THEN /\ lock' = [lock EXCEPT !.mode = "import", !.archive = "given"]
            /\ clients' = [clients EXCEPT ![k] = [at |-> "preparing", archive |-> "given"]]
       ELSE /\ lock' = IF Owns(k) THEN Unlocked ELSE lock
            /\ Leaves(k)
    /\ UNCHANGED <<project, archives, chunks, spent>>

-----------------------------------------------------------------------------
(* The import, its resumption and its rollback.                            *)

Importing == lock.mode \in {"import", "rollback"}

ResumeImport(k) ==
    /\ MayStart(k) /\ Importing
    /\ clients' = [clients EXCEPT ![k] = [at |-> "preparing", archive |-> lock.archive]]
    /\ UNCHANGED <<project, archives, lock, chunks, spent>>

\* Mutant of ForgottenChunks: a retarget keeps the chunk receipts.
ForgottenChunks_Kept == chunks

ForgottenChunks == NoChunks

\* retargetTransfer to the safety archive.
RollBack(k) ==
    /\ MayStart(k) /\ Importing
    /\ clients' = [clients EXCEPT ![k] = [at |-> "preparing", archive |-> "safety"]]
    /\ IF lock.mode = "rollback"
       THEN UNCHANGED <<lock, chunks>>
       ELSE /\ lock' = [lock EXCEPT !.mode = "rollback", !.archive = "safety",
                                    !.applying = FALSE]
            /\ chunks' = ForgottenChunks
    /\ UNCHANGED <<project, archives, spent>>

\* Mutant of Preserved: what an earlier preparation saved is overwritten.
Preserved_Current == project.fences

\* preserveRestoreFences.
Preserved == [t \in Task |-> Larger(lock.saved[t], project.fences[t])]

\* Mutant of Unprepared: every client prepares the tables it finds.
Unprepared_Always == TRUE

\* The tables were not yet prepared for the target of the lock.
Unprepared == ~lock.applying

\* prepare: keep the fences and clear the tables, once for each target.
PrepareTables(k) ==
    /\ clients[k].at = "preparing"
    /\ IF Unprepared => Quiescent
       THEN clients' = [clients EXCEPT ![k].at = "fences"]
       ELSE Leaves(k)
    /\ IF Unprepared /\ Quiescent
       THEN /\ lock' = [lock EXCEPT !.applying = TRUE, !.saved = Preserved]
            /\ project' = Blank
       ELSE UNCHANGED <<lock, project>>
    /\ UNCHANGED <<archives, chunks, spent>>

HasRows(a, s) ==
    IF s = "fences" THEN archives[a].fences # Blank.fences ELSE archives[a].unfinished # {}

SameRows(a, b, s) ==
    IF s = "fences" THEN archives[a].fences = archives[b].fences
                         /\ archives[a].claims = archives[b].claims
    ELSE archives[a].unfinished = archives[b].unfinished

Loaded(a, s) ==
    IF s = "fences" THEN [project EXCEPT !.fences = archives[a].fences,
                                         !.claims = archives[a].claims]
    ELSE [project EXCEPT !.unfinished = archives[a].unfinished]

\* rows: a chunk is inserted once; sent again it must be the same, and a lock
\* that is not applying refuses the insertion.
LoadRows(k, s) ==
    LET a == clients[k].archive
        next == IF s = "fences" THEN "work" ELSE "verifying"
        fresh == chunks[s] = NoArchive /\ HasRows(a, s)
    IN  /\ clients[k].at = s
        /\ IF fresh /\ lock.applying
           THEN /\ project' = Loaded(a, s)
                /\ chunks' = [chunks EXCEPT ![s] = a]
           ELSE UNCHANGED <<project, chunks>>
        /\ IF \/ ~HasRows(a, s)
              \/ fresh /\ lock.applying
              \/ chunks[s] # NoArchive /\ SameRows(chunks[s], a, s)
           THEN clients' = [clients EXCEPT ![k].at = next]
           ELSE Leaves(k)
        /\ UNCHANGED <<archives, lock, spent>>

\* The digest over the tables is the archive's.
Verified(a) == project = archives[a]

\* invalidateRestoredExecutions: above the destination's and the archive's.
Raised(t) ==
    LET highest == Larger(project.fences[t], lock.saved[t])
    IN  IF highest = 0 THEN 0 ELSE highest + 1

\* finalize: the tables are read at once, and their digest is awaited outside
\* any transaction.
CheckDigest(k) ==
    /\ clients[k].at = "verifying"
    /\ IF Verified(clients[k].archive)
       THEN clients' = [clients EXCEPT ![k].at = "opening"]
       ELSE Leaves(k)
    /\ UNCHANGED <<project, archives, lock, chunks, spent>>

\* Its transaction asks again for the session only, not for the digest, the
\* target or its preparation.  invalidateRestoredExecutions refuses managed work
\* without its task or its entry, which tables of no whole archive may hold.
\* Requests that still name the finished session are refused.
OpenRestored(k) ==
    /\ clients[k].at = "opening"
    /\ \/ /\ project' = [project EXCEPT !.fences = [t \in Task |-> Raised(t)],
                                        !.claims = Blank.claims]
          /\ spent' = [t \in Task |-> Larger(spent[t], project.fences[t])]
          /\ lock' = Unlocked /\ chunks' = NoChunks
          /\ clients' = [c \in Client |-> IF clients[c] = Dead THEN Dead ELSE AtRest]
       \/ /\ ~Quiescent /\ \A a \in DOMAIN archives : ~Verified(a)
          /\ Leaves(k)
          /\ UNCHANGED <<project, lock, chunks, spent>>
    /\ UNCHANGED archives

\* A request under way ends with its client: one that goes on alone is that of a
\* client that lives on and does nothing more.
ClientDies(k) ==
    /\ ~MayStart(k)
    /\ clients' = [clients EXCEPT ![k] = Dead]
    /\ UNCHANGED <<project, archives, lock, chunks, spent>>

-----------------------------------------------------------------------------

ClientStep(k) ==
    \/ TakeSafety(k) \/ Promote(k) \/ PrepareTables(k)
    \/ CheckDigest(k) \/ OpenRestored(k)
    \/ \E s \in Section : LoadRows(k, s)

Recover(k) == ResumeImport(k) \/ RollBack(k)

RestoreNext ==
    \/ \E t \in Task, flag \in BOOLEAN : GrantTask(t, flag) \/ EndGrant(t, flag)
    \/ \E k \in Client : BeginExport(k) \/ ClientStep(k) \/ Recover(k) \/ ClientDies(k)
    \/ ExportEnds

\* Clients keep going, an interrupted restore is resumed or rolled back, and
\* in the end no client dies.
RestoreFairness ==
    /\ \A k \in Client : WF_restoreVars(ClientStep(k))
    /\ WF_restoreVars(\E k \in Client : Recover(k))
    /\ <>[][\A k \in Client : clients'[k] = Dead => clients[k] = Dead]_restoreVars

RestoreSpec == RestoreInit /\ [][RestoreNext]_restoreVars

FairRestoreSpec == RestoreSpec /\ RestoreFairness

-----------------------------------------------------------------------------

\* No grant of the destination's past or of the archive's is valid after a
\* restore, however often it was interrupted: the next fences are new, and a
\* claim in an open project is its task's last grant (preserveRestoreFences,
\* invalidateRestoredExecutions).
OldGrantsStayDead ==
    lock.mode = "none" =>
        \A t \in Task : /\ project.fences[t] >= spent[t]
                        /\ project.claims[t] \in {0, spent[t]}

\* An import that nobody rolled back opens on its whole archive, never on half of
\* it or on cleared tables, however many clients resumed it, died and sent its
\* chunks again while the digest of another was still awaited
\* (prepareSnapshotRestore, acceptChunk, finalize).
ResumedImportsAreWhole ==
    [][lock.mode = "import" /\ lock'.mode = "none" =>
          project = archives[lock.archive]]_restoreVars

\* An import under way ends, in the end, with an open project.
RestoresFinish == Importing ~> lock.mode = "none"

-----------------------------------------------------------------------------
(* A statement the code does not keep.                                     *)

\* A locked project opens only on the tables whose digest was verified ("the
\* project stays hidden ... until finalize, resume, or rollback verifies the
\* semantic digest", docs/05-OPERATIONS.md).  A rollback that starts while a
\* finalization awaits its digest clears the tables under it.
RestoredProjectsAreWhole ==
    [][Importing /\ lock'.mode = "none" =>
          \E a \in DOMAIN archives : project = archives[a]]_restoreVars
=============================================================================
