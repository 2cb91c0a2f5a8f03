---------------------------- MODULE ManagedQueue ----------------------------
(***************************************************************************)
(* Managed dispatch: tasks enrolled in a queue are executed by attempts,   *)
(* each under a reservation and a fenced, leased claim of its task.  Every *)
(* command is one transaction.  Commands about attempts expire what has    *)
(* lapsed first, in a transaction of its own; that is ExpireAttempts here, *)
(* and a command finds nothing lapsed.  The claim, task and gate requests  *)
(* of module Coordination go on beside the queue, with the restrictions    *)
(* managed work puts on them.                                              *)
(*                                                                         *)
(* Which queued entry claim-next picks (priority, capabilities, target,    *)
(* permissions, dependencies) is left open: any entry that is ready here   *)
(* may be the one.  A command with a stale expected revision changes       *)
(* nothing and is not an action.                                           *)
(***************************************************************************)
EXTENDS AttemptRows

mqVars == <<vars, queueVars>>

QueueInit ==
    /\ Init
    /\ policy = [enabled |-> FALSE, paused |-> TRUE, execution_limit |-> 0,
                 wip_limit |-> 0, lease |-> MaxTtl]
    /\ entries = [i \in EntryId |-> NoRow]
    /\ attempts = [a \in AttemptId |-> NoRow]
    /\ reservations = [e \in Entity |-> NoRow]
    /\ questions = [q \in Question |-> NoRow]

-----------------------------------------------------------------------------
(* Time.                                                                   *)

ExpireAttempts ==
    /\ Lapsed # {}
    /\ MayExpireAll(Db)
    /\ Commit(AllExpired(Db))

\* The sweep deletes expired claims and expires attempts in one transaction.
Swept ==
    [Db EXCEPT !.claims = [n \in Name |-> IF Live(@[n]) THEN @[n] ELSE NoClaim]]

QueueSweep ==
    /\ Lapsed # {} \/ Swept # Db
    /\ MayExpireAll(Swept)
    /\ Commit(AllExpired(Swept))

\* Mutant of RowAged: a lapsed lease goes on counting.
RowAged_PastZero(row) == IF row # NoRow THEN [row EXCEPT !.left = @ - 1] ELSE row

RowAged(row) == IF row # NoRow /\ row.left > 0 THEN [row EXCEPT !.left = @ - 1] ELSE row

QueueTick ==
    /\ Tick
    /\ entries' = [i \in EntryId |-> RowAged(entries[i])]
    /\ attempts' = [a \in AttemptId |-> RowAged(attempts[a])]
    /\ UNCHANGED <<policy, reservations, questions>>

-----------------------------------------------------------------------------
(* The queue.                                                              *)

Configure(p) ==
    /\ p \in Maintainer
    /\ policy' \in Policies \ {policy}
    /\ UNCHANGED <<vars, entries, attempts, reservations, questions>>

NextIn(ids, rows) ==
    {i \in ids : rows[i] = NoRow /\ \A j \in ids : rows[j] = NoRow => i <= j}

Enroll(p, e, retry_safe) ==
    /\ Created(e) /\ e \notin archived /\ e \in Lifecycle
    /\ ~ManagedTask(e)
    /\ ~Live(claims[TypedName[e]])
    /\ \E i \in NextIn(EntryId, entries) :
          entries' = [entries EXCEPT ![i] =
            [task |-> e, assigner |-> PrincipalOf[p], retry_safe |-> retry_safe,
             left |-> 0, state |-> "queued"]]
    /\ UNCHANGED <<vars, policy, attempts, reservations, questions>>

EntryControl(p, i) == p \in Maintainer \/ entries[i].assigner = PrincipalOf[p]

Withdraw(p, i) ==
    /\ entries[i] # NoRow /\ EntryControl(p, i)
    /\ entries[i].state = "queued"
    /\ LET res == reservations[entries[i].task] IN res # NoRow => ~res.held
    /\ Commit([Db EXCEPT !.entries[i].state = "withdrawn",
                         !.reservations[entries[i].task] = NoRow])

Occupied == {e \in Entity : reservations[e] # NoRow}
Executions == {e \in Occupied : reservations[e].held}

\* Mutant of Dispatching: off by one at the limit.
Dispatching_AtLimit ==
    policy.enabled /\ ~policy.paused /\ Cardinality(Executions) <= policy.execution_limit

Dispatching ==
    policy.enabled /\ ~policy.paused /\ Cardinality(Executions) < policy.execution_limit

WipFits == policy.wip_limit > 0 => Cardinality(Occupied) < policy.wip_limit

Ready(e) == e \notin archived /\ ~GateBlocked(gates, {e, TypedName[e]})

\* What keeps an entry back, apart from capacity.
Eligible(i) ==
    LET e == entries[i].task
        res == reservations[e]
    IN
    /\ entries[i] # NoRow /\ entries[i].state = "queued" /\ entries[i].left = 0
    /\ Ready(e) /\ work[e] = "open"
    /\ ~Live(claims[TypedName[e]])
    /\ \A a \in AttemptId :
          IsAttempt(Db, a) /\ attempts[a].task = e => attempts[a].state = "terminal"
    /\ res # NoRow => ~res.held /\ res.entry = i

\* Mutant of Latest: attempts that were never accepted do not count.
Latest_Accepted(i) ==
    LET A == {a \in AttemptsOf(Db, i) : attempts[a].accepted} IN
    IF A = {} THEN NoRow
    ELSE CHOOSE a \in A : \A b \in A : attempts[b].fence <= attempts[a].fence

\* The attempt with the highest fence, or none.
Latest(i) ==
    LET A == AttemptsOf(Db, i) IN
    IF A = {} THEN NoRow
    ELSE CHOOSE a \in A : \A b \in A : attempts[b].fence <= attempts[a].fence

\* The new attempt a of entry i, its claim, its slot and its place.
Reserved(p, i, a) ==
    LET e == entries[i].task
        s == Acquired(Db, TypedName[e], p, policy.lease)
    IN
    [s EXCEPT
        !.attempts[a] =
            [entry |-> i, task |-> e, owner |-> p, state |-> "reserved",
             fence |-> s.claims[TypedName[e]].fence, left |-> policy.lease,
             accepted |-> FALSE, cancel |-> FALSE, suspend |-> FALSE,
             session |-> NoRow, pred |-> Latest(i), outcome |-> NoRow],
        !.reservations[e] = [entry |-> i, attempt |-> a, held |-> TRUE],
        !.entries[i].state = "admitted"]

ClaimNext(p, i) ==
    LET r == TypedName[entries[i].task] IN
    /\ Eligible(i) /\ Dispatching
    /\ reservations[entries[i].task] = NoRow => WipFits
    /\ MayAcquire(Db, r, p)
    /\ fences[r] < MaxGrant
    /\ \E a \in NextIn(AttemptId, attempts) : Commit(Reserved(p, i, a))

-----------------------------------------------------------------------------
(* Commands of the owner, under its live grant.                            *)

Accept(p, a) ==
    /\ GrantValid(Db, a, p)
    /\ attempts[a].state = "reserved" /\ ~attempts[a].cancel
    /\ MayTransition(Db, a, "start")
    /\ Commit([Transitioned(Db, a, "start") EXCEPT
                !.attempts[a] = [@ EXCEPT !.state = "starting", !.accepted = TRUE]])

Started(p, a, session) ==
    /\ GrantValid(Db, a, p)
    /\ attempts[a].state = "starting"
    /\ Commit([Db EXCEPT !.attempts[a] = [@ EXCEPT !.state = "running",
                                                   !.session = session]])

Heartbeat(p, a) ==
    /\ GrantValid(Db, a, p)
    /\ Commit([Db EXCEPT !.claims[ResourceOf(Db, a)] = Renewed(@, policy.lease),
                         !.attempts[a].left = policy.lease])

\* An execution that was never accepted has no result but a cancellation.
MayReport(a, outcome) ==
    attempts[a].accepted \/ (attempts[a].cancel /\ outcome = "cancelled")

\* Without a live grant the recorded fence is the proof, and a fresh one is
\* taken for the length of the transaction.
Finish(p, a, outcome) ==
    LET asleep == attempts[a].state \in {"suspended", "resume_pending"}
        s == IF asleep THEN Refenced(Db, a, p) ELSE Db
    IN
    /\ attempts[a].owner = p
    /\ IF asleep THEN MayRefence(Db, a, p) ELSE GrantValid(Db, a, p)
    /\ MayReport(a, outcome)
    /\ MayTransition(s, a, outcome)
    /\ Commit(Finished(s, a, outcome))

ConfirmSuspension(p, a) ==
    /\ GrantValid(Db, a, p)
    /\ attempts[a].state = "running"
    /\ attempts[a].suspend /\ ~attempts[a].cancel
    /\ Commit([Revoked(Db, a) EXCEPT
                !.attempts[a] = [@ EXCEPT !.state = "suspended", !.left = 0,
                                          !.suspend = FALSE],
                !.reservations[attempts[a].task].held = FALSE])

MoreFences(a) == fences[ResourceOf(Db, a)] < MaxGrant

ClaimResume(p, a) ==
    /\ attempts[a].owner = p
    /\ attempts[a].state = "resume_pending" /\ ~attempts[a].cancel
    /\ Dispatching
    /\ Ready(attempts[a].task) /\ work[attempts[a].task] # "terminal"
    /\ MayRefence(Db, a, p) /\ MoreFences(a)
    /\ Commit([Refenced(Db, a, p) EXCEPT
                !.attempts[a].state = "starting",
                !.reservations[attempts[a].task].held = TRUE])

\* The native session was restarted: same attempt, new session, new fence.
ReplaceSession(p, a, session) ==
    /\ attempts[a].owner = p
    /\ attempts[a].state \in {"running", "uncertain"}
    /\ attempts[a].session \notin {NoRow, session}
    /\ ~attempts[a].cancel
    /\ MayRefence(Db, a, p) /\ MoreFences(a)
    /\ Commit([Refenced(Db, a, p) EXCEPT !.attempts[a].session = session])

-----------------------------------------------------------------------------
(* Requests to an execution, by its owner, assigner or a maintainer.       *)

Control(p, a) ==
    \/ p \in Maintainer
    \/ attempts[a].owner = p
    \/ entries[attempts[a].entry].assigner = PrincipalOf[p]

\* Mutants of RequestCancellation: also of what is over, and leaving open
\* questions alone.
RequestCancellation_Late(p, a) ==
    Control(p, a) /\ Commit([Superseded(Db, a) EXCEPT !.attempts[a].cancel = TRUE])
RequestCancellation_KeepsQuestions(p, a) ==
    /\ Control(p, a) /\ attempts[a].state # "terminal"
    /\ Commit([Db EXCEPT !.attempts[a].cancel = TRUE])

RequestCancellation(p, a) ==
    /\ Control(p, a)
    /\ attempts[a].state # "terminal"
    /\ Commit([Superseded(Db, a) EXCEPT !.attempts[a].cancel = TRUE])

RequestSuspension(p, a) ==
    /\ Control(p, a)
    /\ attempts[a].state \in {"starting", "running"}
    /\ Commit([Db EXCEPT !.attempts[a].suspend = TRUE])

RequestResume(p, a) ==
    /\ Control(p, a)
    /\ attempts[a].state = "suspended" /\ ~attempts[a].cancel
    /\ Commit([Db EXCEPT !.attempts[a].state = "resume_pending"])

\* Another run of work whose last attempt stopped without success.
Retry(p, a) ==
    LET t == attempts[a] IN
    /\ Control(p, a)
    /\ t.state = "terminal" /\ t.outcome \in {"failure", "cancelled", "never_ran"}
    /\ Latest(t.entry) = a /\ entries[t.entry].state = "finished"
    /\ ~ManagedTask(t.task)
    /\ WipFits
    /\ Commit(Rescheduled(Db, a, 0))

-----------------------------------------------------------------------------
(* Recovery: what the owner or a maintainer observed of an execution.      *)

Observer(p, a) == p \in Maintainer \/ attempts[a].owner = p

\* An observed session must be the recorded one, when one is recorded.
SameSession(a, session) == attempts[a].session \in {NoRow, session}

ReconcileUnknown(p, a) ==
    /\ Observer(p, a)
    /\ attempts[a].state \in {"starting", "running", "uncertain"}
    /\ Commit([Revoked(Db, a) EXCEPT
                !.attempts[a] = [@ EXCEPT !.state = "uncertain", !.left = 0]])

ReconcileSuspended(p, a, session) ==
    /\ Observer(p, a) /\ SameSession(a, session)
    /\ attempts[a].state \in {"uncertain", "running", "suspended"}
    /\ Commit([Revoked(Db, a) EXCEPT
                !.attempts[a] = [@ EXCEPT !.state = "suspended", !.left = 0,
                                          !.suspend = FALSE, !.session = session],
                !.reservations[attempts[a].task].held = FALSE])

ReconcileRunning(p, a, session) ==
    /\ Observer(p, a) /\ SameSession(a, session)
    /\ attempts[a].state \in {"starting", "running", "uncertain"}
    /\ MayRefence(Db, a, attempts[a].owner) /\ MoreFences(a)
    /\ Commit([Refenced(Db, a, attempts[a].owner) EXCEPT
                !.attempts[a].session = session])

ReconcileStopped(p, a, outcome) ==
    LET s == Refenced(Db, a, attempts[a].owner) IN
    /\ Observer(p, a)
    /\ attempts[a].state # "terminal"
    /\ MayReport(a, outcome)
    /\ MayRefence(Db, a, attempts[a].owner)
    /\ MayTransition(s, a, outcome)
    /\ Commit(Finished(s, a, outcome))

Rebind(p, a, q) ==
    /\ p \in Maintainer
    /\ attempts[a].state \in {"starting", "running", "uncertain"}
    /\ attempts[a].session # NoRow
    /\ MayRefence(Db, a, q) /\ MoreFences(a)
    /\ Commit(Refenced(Db, a, q))

\* The maintainer gives the execution up without knowing that it stopped.
ForceRecovery(p, a) ==
    LET s == Refenced(Db, a, attempts[a].owner) IN
    /\ p \in Maintainer
    /\ attempts[a].state # "terminal"
    /\ MayRefence(Db, a, attempts[a].owner)
    /\ MayTransition(s, a, "abandoned")
    /\ Commit(Rescheduled(Ended(s, a, "abandoned"), a, 0))

-----------------------------------------------------------------------------
(* Questions of a running attempt; they do not expire attempts first.      *)

Ask(p, a, q) ==
    /\ GrantValid(Db, a, p)
    /\ attempts[a].accepted /\ ~attempts[a].cancel
    /\ questions[q] = NoRow
    /\ Commit([Db EXCEPT !.questions[q] =
                [attempt |-> a, fence |-> attempts[a].fence, valid |-> TRUE,
                 state |-> "open"]])

\* By the responder, or for a cancellation also a maintainer or the requester.
CloseQuestion(q, state) ==
    /\ questions[q] # NoRow /\ questions[q].state = "open" /\ questions[q].valid
    /\ Commit([Db EXCEPT !.questions[q] = [@ EXCEPT !.state = state,
                                                    !.valid = (state = "answered")]])

-----------------------------------------------------------------------------
(* The unmanaged requests, beside the queue.                               *)

ManagedName(n) == \E e \in Entity : ManagedTask(e) /\ Canonical(n) = TypedName[e]

UnmanagedClaim(p) ==
    /\ \E n \in Name :
          /\ ~ManagedName(n)
          /\ \/ \E mode \in Mode, ttl \in Ttl : Acquire(p, n, mode, ttl)
             \/ \E ttl \in Ttl : Renew(p, n, fences[Canonical(n)], ttl)
             \/ Release(p, n, fences[Canonical(n)])
    /\ UNCHANGED queueVars

\* While a task is managed its lifecycle field moves only under the grant of an
\* accepted attempt, and never by hand to a terminal value.  A patch that leaves
\* the field as it is needs a fence, or names none (fence 0), which edits the
\* content of the task and nothing modelled here.
LifecycleWrite(p, e, f) ==
    \E a \in AttemptId :
        /\ IsAttempt(Db, a) /\ attempts[a].task = e
        /\ attempts[a].accepted /\ attempts[a].fence = f
        /\ GrantValid(Db, a, p)

\* Mutant of TaskWrite: the grant is enough, for a terminal value too.
TaskWrite_AnyValue(p, e, f, patch) ==
    /\ ManagedTask(e) /\ patch \notin {"content", work[e]} => LifecycleWrite(p, e, f)
    /\ UpdateEntity(e, f, patch)
    /\ UNCHANGED queueVars

TaskWrite(p, e, f, patch) ==
    /\ ManagedTask(e) /\ patch \notin {"content", work[e]} =>
            patch # "terminal" /\ LifecycleWrite(p, e, f)
    /\ UpdateEntity(e, f, patch)
    /\ UNCHANGED queueVars

TaskArchive(e, f) == ~ManagedTask(e) /\ ArchiveEntity(e, f) /\ UNCHANGED queueVars

TaskCreate(e, state) == CreateEntity(e, state) /\ UNCHANGED queueVars

QueueGates == GateRequest /\ UNCHANGED queueVars

Stop(p) == Crash(p) /\ UNCHANGED queueVars

-----------------------------------------------------------------------------
AttemptCommand(p, a) ==
    \/ Accept(p, a) \/ Heartbeat(p, a) \/ ConfirmSuspension(p, a)
    \/ ClaimResume(p, a) \/ RequestCancellation(p, a) \/ RequestSuspension(p, a)
    \/ RequestResume(p, a) \/ Retry(p, a) \/ ReconcileUnknown(p, a)
    \/ ForceRecovery(p, a)
    \/ \E outcome \in Outcome \ {"abandoned"} :
          Finish(p, a, outcome) \/ ReconcileStopped(p, a, outcome)
    \/ \E session \in Session :
          \/ Started(p, a, session) \/ ReplaceSession(p, a, session)
          \/ ReconcileSuspended(p, a, session) \/ ReconcileRunning(p, a, session)
    \/ \E q \in Participant : Rebind(p, a, q)

QueueCommand(p) ==
    \/ Configure(p)
    \/ \E e \in Entity, retry_safe \in BOOLEAN : Enroll(p, e, retry_safe)
    \/ /\ Lapsed = {}
       /\ \/ \E i \in EntryId : Withdraw(p, i) \/ ClaimNext(p, i)
          \/ \E a \in AttemptId : IsAttempt(Db, a) /\ AttemptCommand(p, a)

QuestionRequest(p) ==
    \E q \in Question :
        \/ \E a \in AttemptId : IsAttempt(Db, a) /\ Ask(p, a, q)
        \/ \E state \in {"answered", "cancelled"} : CloseQuestion(q, state)

Unmanaged(p) ==
    \/ UnmanagedClaim(p)
    \/ \E e \in Entity, f \in 1..MaxGrant :
          \/ \E patch \in Patch : TaskWrite(p, e, f, patch)
          \/ TaskArchive(e, f)
    \/ \E e \in Entity, state \in WorkState : TaskCreate(e, state)
    \/ QueueGates
    \/ Stop(p)

QueueNext ==
    \/ \E p \in running : QueueCommand(p) \/ QuestionRequest(p) \/ Unmanaged(p)
    \/ ExpireAttempts
    \/ QueueSweep
    \/ QueueTick

QueueFairness == WF_mqVars(QueueTick) /\ WF_mqVars(QueueSweep)

QueueSpec == QueueInit /\ [][QueueNext]_mqVars
FairQueueSpec == QueueSpec /\ QueueFairness

-----------------------------------------------------------------------------
(* Properties.                                                             *)

Active(a) == IsAttempt(Db, a) /\ attempts[a].state # "terminal"

ActiveOn(e) == {a \in AttemptId : Active(a) /\ attempts[a].task = e}

\* A task has at most one unfinished enrollment and one unfinished attempt, and
\* an entry is admitted exactly while it has that attempt: no sequence of
\* expiry, recovery, retry and withdrawal runs a task twice or strands an
\* admitted entry (reserveInTransaction, expireInTransaction, enroll).
OneExecutionPerTask ==
    \A e \in Entity :
        LET U == {i \in EntryId : entries[i] # NoRow /\ entries[i].task = e
                                  /\ entries[i].state \in Unfinished}
        IN
        /\ Cardinality(U) <= 1 /\ Cardinality(ActiveOn(e)) <= 1
        /\ {attempts[a].entry : a \in ActiveOn(e)}
                = {i \in U : entries[i].state = "admitted"}

\* The capacity row is evidence of execution: a slot is held exactly while an
\* attempt is reserved, executing or of unknown fate, whichever command, expiry
\* or recovery changed the attempt ("Expiry is an execution state transition,
\* not a deletion of capacity evidence", attempt-ops.ts).
SlotsFollowExecution ==
    \A e \in Entity :
        (reservations[e] # NoRow /\ reservations[e].held)
            <=> \E a \in ActiveOn(e) : attempts[a].state \in Executing \cup {"uncertain"}

\* An attempt's own lease and the claim of its task always agree, so that the
\* two expiry tests (attempt row and claim row) cannot disagree; and a grant
\* that was given up left a fence that nobody can write under (revoke,
\* heartbeat, refence, sweep).
GrantsFollowClaims ==
    \A a \in AttemptId : IsAttempt(Db, a) =>
        LET t == attempts[a]
            c == claims[ResourceOf(Db, a)]
        IN IF t.state \in Executing
           THEN c = [holder |-> t.owner, mode |-> "exclusive", fence |-> t.fence,
                     left |-> t.left]
           ELSE t.fence < fences[ResourceOf(Db, a)]

\* Work whose execution was authorized keeps its place in the work-in-progress
\* limit until it is finished or withdrawn, through suspension, uncertainty,
\* retry and the expiry of a later reservation (scheduleRetryInTransaction,
\* expireInTransaction).
StartedWorkKeepsItsPlace ==
    \A i \in EntryId :
        (/\ entries[i] # NoRow /\ entries[i].state \in Unfinished
         /\ \E a \in AttemptsOf(Db, i) : attempts[a].accepted)
            => reservations[entries[i].task] # NoRow
               /\ reservations[entries[i].task].entry = i

\* A later attempt of an entry names an earlier one, has a later fence, and
\* starts only after every earlier one is over (claimNext's predecessor).
SuccessorsComeLater ==
    \A a, b \in AttemptId :
        IsAttempt(Db, a) /\ IsAttempt(Db, b) /\ attempts[a].entry = attempts[b].entry
        /\ attempts[a].fence > attempts[b].fence
            => attempts[b].state = "terminal" /\ attempts[a].pred # NoRow
               /\ attempts[attempts[a].pred].fence < attempts[a].fence

\* An open question belongs to an execution that still stands: not cancelled,
\* not over, and under the fence it was asked with (invalidateQuestions).
OpenQuestionsStand ==
    \A q \in Question :
        questions[q] # NoRow /\ questions[q].state = "open" =>
            LET t == attempts[questions[q].attempt] IN
            t.state # "terminal" /\ ~t.cancel /\ t.fence = questions[q].fence

\* A slot is newly taken only within the execution limit and a place only
\* within the work-in-progress limit, by whichever of claim-next, resume, retry
\* and recovery takes it; lowering a limit evicts nobody (claimNext, claimResume).
GrantsRespectLimits ==
    [][ /\ ~(Executions' \subseteq Executions)
            => Cardinality(Executions') <= policy.execution_limit
        /\ ~(Occupied' \subseteq Occupied) /\ policy.wip_limit > 0
            => Cardinality(Occupied') <= policy.wip_limit ]_mqVars

\* "A terminal attempt's result is permanent": no competing result, late
\* reconciliation, forced recovery or retry rewrites it (finish, reconcile).
ResultsArePermanent ==
    [][\A a \in AttemptId :
        IsAttempt(Db, a) /\ attempts[a].state = "terminal"
            => attempts'[a] = attempts[a]]_mqVars

\* While a task is managed it becomes terminal only in the transaction that
\* records the result of its attempt (checkManagedWrite, finishInTransaction).
TerminalOnlyWithResult ==
    [][\A e \in Entity :
        ManagedTask(e) /\ work[e] # "terminal" /\ work'[e] = "terminal"
            => \E a \in ActiveOn(e) : attempts'[a].state = "terminal"]_mqVars

\* Mutant of Applicable: any grant of the attempt makes its answers good.
Applicable_ByGrant(q) ==
    /\ questions[q] # NoRow /\ questions[q].state = "answered"
    /\ \E p \in Participant : GrantValid(Db, questions[q].attempt, p)

\* The answer of q may be acted upon by the session that asked.
Applicable(q) ==
    /\ questions[q] # NoRow
    /\ questions[q].state = "answered" /\ questions[q].valid
    /\ LET a == questions[q].attempt IN
       /\ ~attempts[a].cancel /\ attempts[a].fence = questions[q].fence
       /\ \E p \in Participant : GrantValid(Db, a, p)

\* An answer that has lost its authority never regains it: neither a rebind, a
\* resume after suspension, nor a reconnection after an expired lease makes the
\* new tenure act on the old tenure's answer (question-ops.ts applicable).
AnswersNeverRevive ==
    [][\A q \in Question :
        questions[q] # NoRow /\ questions[q].state = "answered" /\ ~Applicable(q)
            => ~Applicable(q)']_mqVars

\* A session that dies after claiming and before accepting does not hold its
\* slot for ever: once the lease is over, the sweep gives the entry back
\* (expireInTransaction, sweep).
DeadReservationsYield ==
    \A p \in Mortal, a \in AttemptId :
        LET held == IsAttempt(Db, a) /\ attempts[a].owner = p
                    /\ attempts[a].state = "reserved"
        IN (p \notin running /\ held) ~> ~held

-----------------------------------------------------------------------------
(* A statement of the source that this code does not keep.                 *)

\* "Expiry must persist even when the following command is rejected ... a late
\* sweep is never required" (attempt-ops.ts execute): nothing a project can
\* contain keeps lapsed attempts from expiring.
ExpiryNeverFails == MayExpireAll(Db)
=============================================================================
