----------------------------- MODULE AttemptRows -----------------------------
(***************************************************************************)
(* The rows of the managed queue and what the shared helpers of the        *)
(* attempt code do to them.  A command of the queue is one transaction     *)
(* built from several of these helpers, each of which reads what the one   *)
(* before it wrote.  They are therefore functions from database contents   *)
(* to database contents; a command commits the composition, or nothing     *)
(* when one of the helpers would throw (the May... predicates).            *)
(***************************************************************************)
EXTENDS Coordination, FiniteSetsExt

CONSTANTS
    EntryId,        \* queue entry ids, handed out in increasing order
    AttemptId,      \* attempt ids, handed out in increasing order
    Session,        \* names of native execution sessions (provider and id)
    Question,       \* question ids
    NoRow,          \* "no such row", or a null column
    Maintainer,     \* the sessions with maintainer authority
    Policies,       \* the queue policies a maintainer may configure
    OnStart,        \* lifecycle.on_start, by class, or "unmapped"
    OutcomeWork,    \* lifecycle.outcomes, by class, or "unmapped"
    RetryLimit,     \* retry_policy.max_attempts
    InitialBackoff, \* retry_policy.initial_backoff_ms, in ticks
    MaxBackoff,     \* retry_policy.max_backoff_ms, in ticks
    MaxGrant        \* bound: no attempt goes on under a fence above this one
                    \* (MaxFence bounds the claims made beside the queue)

Outcome == {"success", "failure", "cancelled", "abandoned"}
Mapped == (WorkState \ {"absent"}) \cup {"unmapped"}

\* A limit of 0 stands for null.
PolicyRow == [enabled: BOOLEAN, paused: BOOLEAN,
              execution_limit: Nat, wip_limit: Nat, lease: Ttl]

ASSUME IdAssumption == EntryId \subseteq Nat \ {0} /\ AttemptId \subseteq Nat \ {0}
ASSUME MaintainerAssumption == Maintainer \subseteq Participant
ASSUME PolicyAssumption ==
    Policies \subseteq {p \in PolicyRow : p.enabled => p.execution_limit > 0}
\* "The start state cannot be terminal" (the schema of a work unit).
ASSUME MappingAssumption ==
    OnStart \in Mapped \ {"terminal"} /\ OutcomeWork \in [Outcome -> Mapped]
ASSUME RetryAssumption ==
    /\ RetryLimit \in Nat \ {0} /\ InitialBackoff \in Nat \ {0}
    /\ MaxBackoff \in Nat /\ InitialBackoff <= MaxBackoff
ASSUME MaxGrantAssumption == MaxGrant \in Nat

VARIABLES
    policy,         \* the queue policy row
    entries,        \* entries[i]: the enrollment of a task
    attempts,       \* attempts[a]: one execution of an entry
    reservations,   \* reservations[e]: the capacity row of a task
    questions       \* questions[q]: what a running attempt asked

queueVars == <<policy, entries, attempts, reservations, questions>>

EntryRow == [task: Entity, assigner: Principal, retry_safe: BOOLEAN,
             left: 0..MaxBackoff,
             state: {"queued", "admitted", "finished", "withdrawn"}]

\* "never_ran" is an abandoned outcome of a reservation that was not accepted;
\* "abandoned" is the one a maintainer forces while execution is unresolved.
AttemptRow == [entry: EntryId, task: Entity, owner: Participant, fence: Nat \ {0},
               left: 0..MaxTtl, accepted: BOOLEAN, cancel: BOOLEAN, suspend: BOOLEAN,
               session: Session \cup {NoRow}, pred: AttemptId \cup {NoRow},
               outcome: Outcome \cup {"never_ran", NoRow},
               state: {"reserved", "starting", "running", "suspended",
                       "resume_pending", "uncertain", "terminal"}]

\* wip_held is always true, so a row that exists counts as work in progress.
ReservationRow == [entry: EntryId, attempt: AttemptId, held: BOOLEAN]

QuestionRow == [attempt: AttemptId, fence: Nat, valid: BOOLEAN,
                state: {"open", "answered", "cancelled", "superseded"}]

ASSUME NoRowAssumption ==
    /\ NoRow \notin EntryRow \cup AttemptRow \cup ReservationRow \cup QuestionRow
    /\ NoRow \notin AttemptId

QueueTypeOK ==
    /\ policy \in PolicyRow
    /\ entries \in [EntryId -> EntryRow \cup {NoRow}]
    /\ attempts \in [AttemptId -> AttemptRow \cup {NoRow}]
    /\ reservations \in [Entity -> ReservationRow \cup {NoRow}]
    /\ questions \in [Question -> QuestionRow \cup {NoRow}]

Executing == {"reserved", "starting", "running"}
Unfinished == {"queued", "admitted"}

-----------------------------------------------------------------------------
(* The database a transaction reads and writes.                            *)

Db == [fences |-> fences, claims |-> claims, journal |-> journal, work |-> work,
       written |-> written, gates |-> gates, entries |-> entries,
       attempts |-> attempts, reservations |-> reservations,
       questions |-> questions]

Commit(s) ==
    /\ fences' = s.fences /\ claims' = s.claims /\ journal' = s.journal
    /\ work' = s.work /\ written' = s.written /\ gates' = s.gates
    /\ entries' = s.entries /\ attempts' = s.attempts
    /\ reservations' = s.reservations /\ questions' = s.questions
    /\ UNCHANGED <<archived, running, policy>>

ManagedTask(e) ==
    \E i \in EntryId : entries[i] # NoRow /\ entries[i].task = e
                       /\ entries[i].state \in Unfinished

IsAttempt(s, a) == s.attempts[a] # NoRow
AttemptsOf(s, i) == {a \in AttemptId : IsAttempt(s, a) /\ s.attempts[a].entry = i}
ResourceOf(s, a) == TypedName[s.attempts[a].task]

\* p holds the execution authority of a: attempt, claim and fence agree on it.
GrantValid(s, a, p) ==
    LET t == s.attempts[a]
        c == s.claims[ResourceOf(s, a)]
    IN
    /\ t.state \in Executing /\ t.left > 0 /\ t.owner = p
    /\ Live(c) /\ c.holder = p /\ c.fence = t.fence
    /\ s.fences[ResourceOf(s, a)] = t.fence

-----------------------------------------------------------------------------
(* The helpers.                                                            *)

\* Mutant of Revoked: the claim goes, its fence stays good.
Revoked_SameFence(s, a) ==
    LET f == s.attempts[a].fence IN
    [s EXCEPT !.claims[ResourceOf(s, a)] =
        IF @ # NoClaim /\ @.fence = f THEN NoClaim ELSE @]

\* Deletes the claim and retires the fence, but only those of this attempt.
Revoked(s, a) ==
    LET r == ResourceOf(s, a)
        f == s.attempts[a].fence
    IN [s EXCEPT !.claims[r] = IF @ # NoClaim /\ @.fence = f THEN NoClaim ELSE @,
                 !.fences[r] = IF @ = f THEN f + 1 ELSE @]

\* The exclusive acquire inside a transaction (the same rules as Acquire).
MayAcquire(s, r, p) == ~Refuses(s.claims[r], p, "exclusive")

Acquired(s, r, p, ttl) ==
    IF Live(s.claims[r]) /\ HeldBy(s.claims[r], p)
    THEN [s EXCEPT !.claims[r] = Renewed(@, ttl)]
    ELSE LET f == s.fences[r] + 1 IN
         [s EXCEPT !.fences[r] = f,
                   !.claims[r] = [holder |-> p, mode |-> "exclusive",
                                  fence |-> f, left |-> ttl],
                   !.journal = @ \cup {[resource |-> r, fence |-> f, holder |-> p]}]

\* Every question of the attempt loses its standing.
Invalidated(row, a) ==
    IF row # NoRow /\ row.attempt = a /\ row.valid
    THEN [row EXCEPT !.valid = FALSE,
                     !.state = IF @ = "open" THEN "superseded" ELSE @]
    ELSE row

Superseded(s, a) ==
    [s EXCEPT !.questions = [q \in Question |-> Invalidated(@[q], a)]]

\* The attempt goes on, or is settled, under a fresh grant of p.
MayRefence(s, a, p) == MayAcquire(Revoked(s, a), ResourceOf(s, a), p)

Refenced(s, a, p) ==
    LET r == ResourceOf(s, a)
        u == Acquired(Revoked(Superseded(s, a), a), r, p, policy.lease)
    IN [u EXCEPT !.attempts[a] =
            [@ EXCEPT !.state = "running", !.owner = p, !.left = policy.lease,
                      !.fence = u.claims[r].fence]]

\* The lifecycle write that goes with a start or an outcome.  It is a task
\* update under the attempt's own authority, with the gate check of one.
Target(kind) == IF kind = "start" THEN OnStart ELSE OutcomeWork[kind]

\* Mutant of MayTransition: the attempt's own writes pass every gate.
MayTransition_NoGates(s, a, kind) ==
    /\ s.attempts[a].task \notin archived
    /\ Target(kind) # "unmapped" => GrantValid(s, a, s.attempts[a].owner)

MayTransition(s, a, kind) ==
    LET e == s.attempts[a].task IN
    /\ e \notin archived
    /\ Target(kind) # "unmapped" => GrantValid(s, a, s.attempts[a].owner)
    /\ Target(kind) = "terminal" => ~GateBlocked(s.gates, UpdateGateNames(e))

Transitioned(s, a, kind) ==
    LET e == s.attempts[a].task IN
    IF Target(kind) = "unmapped" THEN s
    ELSE [s EXCEPT !.work[e] = Target(kind),
                   !.written[e] = s.attempts[a].fence,
                   !.gates = IF Target(kind) = "terminal"
                             THEN GatesSettled(@, UpdateGateNames(e)) ELSE @]

\* The entry waits again; its place in the work-in-progress limit is kept.
Rescheduled(s, a, delay) ==
    LET t == s.attempts[a] IN
    [s EXCEPT !.entries[t.entry] = [@ EXCEPT !.state = "queued", !.left = delay],
              !.reservations[t.task] =
                    [entry |-> t.entry, attempt |-> a, held |-> FALSE]]

Backoff(n) ==
    LET b == InitialBackoff * 2^(n - 1) IN IF b \in 0..MaxBackoff THEN b ELSE MaxBackoff

RetryDue(s, a, outcome) ==
    LET t == s.attempts[a] IN
    /\ outcome = "failure" /\ ~t.cancel
    /\ s.entries[t.entry].retry_safe
    /\ Cardinality(AttemptsOf(s, t.entry)) < RetryLimit

\* The attempt ends: result, task status, authority and capacity together.
Ended(s, a, outcome) ==
    LET t == s.attempts[a] IN
    Revoked([Superseded(Transitioned(s, a, outcome), a) EXCEPT
                !.attempts[a] = [@ EXCEPT !.state = "terminal", !.left = 0,
                                          !.outcome = outcome],
                !.reservations[t.task] = NoRow,
                !.entries[t.entry].state = "finished"], a)

Finished(s, a, outcome) ==
    LET d == Ended(s, a, outcome) IN
    IF RetryDue(s, a, outcome)
    THEN Rescheduled(d, a, Backoff(Cardinality(AttemptsOf(d, s.attempts[a].entry))))
    ELSE d

-----------------------------------------------------------------------------
(* Expiry.                                                                 *)

\* Mutant of Lapsed: only accepted executions expire.
Lapsed_Accepted == {a \in AttemptId : IsAttempt(Db, a) /\ attempts[a].left = 0
                        /\ attempts[a].state \in {"starting", "running"}}

Lapsed == {a \in AttemptId : IsAttempt(Db, a) /\ attempts[a].state \in Executing
                             /\ attempts[a].left = 0}

\* A reservation whose cancellation was asked for ends as cancelled; another
\* unaccepted one gives its capacity back; accepted execution may still run.
MayExpire(s, a) ==
    LET t == s.attempts[a] IN
    ~t.accepted /\ t.cancel =>
        MayRefence(s, a, t.owner) /\ MayTransition(Refenced(s, a, t.owner), a, "cancelled")

\* Mutants of Expired: an accepted execution goes back to the queue or gives up
\* its slot, and a reservation after a retry gives up the place it was given.
Expired_Requeued(a, s) ==
    LET t == s.attempts[a] IN
    [Revoked(s, a) EXCEPT
        !.attempts[a] = [@ EXCEPT !.state = "uncertain", !.left = 0],
        !.entries[t.entry].state = "queued"]
Expired_FreesSlot(a, s) ==
    LET t == s.attempts[a] IN
    [Revoked(s, a) EXCEPT
        !.attempts[a] = [@ EXCEPT !.state = "uncertain", !.left = 0],
        !.reservations[t.task].held = FALSE]
Expired_LosesPlace(a, s) ==
    LET t == s.attempts[a] IN
    IF t.accepted
    THEN [Revoked(s, a) EXCEPT
            !.attempts[a] = [@ EXCEPT !.state = "uncertain", !.left = 0]]
    ELSE [Revoked(s, a) EXCEPT
            !.attempts[a] = [@ EXCEPT !.state = "terminal", !.left = 0,
                                      !.outcome = "never_ran"],
            !.reservations[t.task] = NoRow,
            !.entries[t.entry].state = "queued"]

Expired(a, s) ==
    LET t == s.attempts[a]
        u == Revoked(s, a)
        ranBefore == t.pred # NoRow /\ \E b \in AttemptsOf(s, t.entry) : s.attempts[b].accepted
    IN
    IF t.accepted
    THEN [u EXCEPT !.attempts[a] = [@ EXCEPT !.state = "uncertain", !.left = 0]]
    ELSE IF t.cancel THEN Ended(Refenced(s, a, t.owner), a, "cancelled")
    ELSE [u EXCEPT !.attempts[a] = [@ EXCEPT !.state = "terminal", !.left = 0,
                                             !.outcome = "never_ran"],
                   !.reservations[t.task] = IF ranBefore
                                            THEN [@ EXCEPT !.held = FALSE] ELSE NoRow,
                   !.entries[t.entry].state = "queued"]

\* All lapsed attempts expire in one transaction, or none does.
MayExpireAll(s) == \A a \in Lapsed : MayExpire(s, a)
AllExpired(s) == FoldSet(Expired, s, Lapsed)
=============================================================================
