---------------------------- MODULE MCQueueRules ----------------------------
(* Four questions about ManagedQueue that need different instances, one at *)
(* a time: capacity with two tasks, questions with two sessions on one      *)
(* task, gates beside one session's work on a task that is created in any   *)
(* state, after gates on its bare id if need be, and the executor of one    *)
(* session.  The other subjects begin by creating their tasks open.         *)
EXTENDS MCManagedQueue, Executor

VARIABLE subject

rulesVars == <<subject, execVars>>

Rows(ids, rows) == {i \in ids : rows[i] # NoRow}

\* Attempts run in one native session.
OneSession ==
    \A a \in Rows(AttemptId, attempts) :
        attempts[a].session \in {NoRow, CHOOSE s \in Session : TRUE}

\* One session works.
OneWorker ==
    OneSession /\ \A a \in Rows(AttemptId, attempts) : attempts[a].owner = alice1

\* Later grants only end an attempt.
Grants(most) ==
    \A a \in Rows(AttemptId, attempts) : attempts[a].fence > most => attempts[a].state = "terminal"

\* Entries, claims and gates are those of task e alone.
UsesOnly(e) ==
    /\ \A i \in Rows(EntryId, entries) : entries[i].task = e
    /\ \A n \in Name : fences[n] > 0 => n \in {e, TypedName[e]}
    /\ \A g \in Gate : gates[g] # NoGate => gates[g].resource \in {e, TypedName[e]}

\* One entry and one attempt are used, under one policy.
OneEntry ==
    /\ policy.wip_limit = 0
    /\ Rows(EntryId, entries) \subseteq {1} /\ Rows(AttemptId, attempts) \subseteq {1}

OneTask == OneEntry /\ \E e \in Entity : UsesOnly(e)

\* One task is created, which may be after its gates: its bare id is claimed at
\* most once, and not beyond the creation.
OneNewTask ==
    /\ OneEntry
    /\ \E e \in Entity :
          /\ UsesOnly(e) /\ fences[e] <= 1 /\ (Created(e) => claims[e] = NoClaim)
          /\ \A x \in Entity \ {e} : ~Created(x)

\* Two tasks, with nothing going on beside the queue and nothing cancelled,
\* which leaves every way to take and to give back capacity.  Only the second
\* entry may be one that is retried by itself.
Capacity ==
    /\ QueueCommand(alice1) \/ ExpireAttempts \/ QueueTick
    /\ OneWorker' /\ Grants(2)'
    /\ \A a \in Rows(AttemptId, attempts)' : ~attempts'[a].cancel
    /\ entries'[1] # NoRow => ~entries'[1].retry_safe

\* Managed work and its questions.
Questions ==
    /\ \/ \E p \in Participant : QueueCommand(p) \/ QuestionRequest(p)
       \/ ExpireAttempts \/ QueueTick
    /\ OneTask'

\* Managed work, gates, and the claims and writes of the session beside them.
Gates ==
    /\ QueueCommand(alice1) \/ Unmanaged(alice1) \/ ExpireAttempts \/ QueueTick
    /\ OneNewTask' /\ OneWorker' /\ Grants(3)'

\* Managed work under the executor of one session; one attempt is not retried.
Execution ==
    /\ ExecutorNext
    /\ OneTask' /\ OneSession' /\ Grants(2)'
    /\ \A i \in Rows(EntryId, entries)' : ~entries'[i].retry_safe

RulesInit == subject \in {"capacity", "questions", "gates", "execution"} /\ ExecutorInit

\* What the other subjects begin with: one task, or all for capacity.
TasksCreated ==
    {e \in Entity : Created(e)} # {} /\ (subject = "capacity" => \A e \in Entity : Created(e))

RulesNext ==
    /\ UNCHANGED subject
    /\ \/ subject = "execution" /\ TasksCreated /\ Execution
       \/ /\ \/ subject # "gates" /\ ~TasksCreated /\ \E e \in Entity : TaskCreate(e, "open")
             \/ subject = "capacity" /\ TasksCreated /\ Capacity
             \/ subject = "questions" /\ TasksCreated /\ Questions
             \/ subject = "gates" /\ Gates
          /\ UNCHANGED <<native, loop>>

RulesSpec == RulesInit /\ [][RulesNext]_rulesVars
=============================================================================
