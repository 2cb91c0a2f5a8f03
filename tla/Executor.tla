------------------------------ MODULE Executor ------------------------------
(***************************************************************************)
(* The QueueExecutor of one worker between the managed queue and the       *)
(* native runtime it starts its work in.  step() is a sequence of awaits:  *)
(* read the attempt, inspect the runtime, renew, call the runtime, inspect *)
(* again, read again, report.  Between any two of them leases run out,     *)
(* operators send commands, the execution moves on, and the executor may   *)
(* die and be restarted under the same participant.                        *)
(*                                                                         *)
(* The runtime keeps a durable record for each attempt, as its adapter's   *)
(* contract says.  Replaced sessions, whose observation becomes one        *)
(* ReplaceSession command, are left out: an execution keeps its session.   *)
(***************************************************************************)
EXTENDS ManagedQueue

CONSTANT Worker      \* the session whose executor it is

ASSUME WorkerAssumption == Worker \in Participant

VARIABLES
    native,     \* native[a]: the runtime's record of attempt a
    loop        \* where step() is, and what it has read so far

execVars == <<mqVars, native, loop>>

Stopped == Outcome \ {"abandoned"}

\* "launching" is a launch intent without an acknowledged execution.
NativeRow == [state: {"absent", "launching", "running", "suspended"} \cup Stopped,
              cancel: BOOLEAN]

Idle == [at |-> "idle"]

ExecutorInit ==
    /\ QueueInit
    /\ native = [a \in AttemptId |-> [state |-> "absent", cancel |-> FALSE]]
    /\ loop = Idle

NativeSession == CHOOSE s \in Session : TRUE

-----------------------------------------------------------------------------
(* The runtime.                                                            *)

Became(a, state) ==
    /\ native' = [native EXCEPT ![a].state = state]
    /\ UNCHANGED <<mqVars, loop>>

Launches(a) == native[a].state = "launching" /\ Became(a, "running")
Exits(a) == native[a].state = "running" /\ \E o \in {"success", "failure"} : Became(a, o)
Obeys(a) ==
    /\ native[a].cancel /\ native[a].state \in {"launching", "running", "suspended"}
    /\ Became(a, "cancelled")

\* What inspect() may answer: the truth, or that it does not know.
Observed(a) ==
    IF native[a].state = "launching" THEN {"unknown"}
    ELSE IF native[a].state = "running" THEN {"running", "unknown"}
    ELSE {native[a].state}

-----------------------------------------------------------------------------
(* One call of step().                                                     *)

\* An attempt as it is read: its row apart from the clock.
View(a) == [attempts[a] EXCEPT !.left = 0]
ViewNext(a) == [attempts'[a] EXCEPT !.left = 0]

\* The revision a command expects is the one that was read.
Current == View(loop.id) = loop.row

Return == loop' = Idle
GoOn(at) == loop' = [loop EXCEPT !.at = at, !.row = ViewNext(loop.id), !.grant = TRUE]

Poll(a) ==
    /\ loop.at = "idle" /\ Active(a) /\ attempts[a].owner = Worker
    /\ loop' = [at |-> IF attempts[a].state \in {"reserved", "resume_pending"}
                       THEN "grant" ELSE "inspect",
                id |-> a, row |-> View(a), grant |-> GrantValid(Db, a, Worker),
                seen |-> "nothing"]
    /\ UNCHANGED <<mqVars, native>>

\* A reservation is accepted or, cancelled before its launch, finished; suspended
\* work whose resumption was requested asks for a new grant.
ObtainGrant ==
    /\ loop.at = "grant"
    /\ \/ /\ loop.row.state = "reserved" /\ loop.grant /\ loop.row.cancel
          /\ Finish(Worker, loop.id, "cancelled") /\ Return
       \/ /\ loop.row.state = "reserved" /\ loop.grant
          /\ Accept(Worker, loop.id) /\ GoOn("inspect")
       \/ /\ loop.row.state = "resume_pending"
          /\ ClaimResume(Worker, loop.id) /\ GoOn("inspect")

Inspect ==
    /\ loop.at \in {"inspect", "acted"}
    /\ \E seen \in Observed(loop.id) :
          loop' = [loop EXCEPT !.at = IF @ = "inspect" THEN "decide" ELSE "reread",
                               !.seen = seen]
    /\ UNCHANGED <<mqVars, native>>

\* What was seen is evidence, not work to go on with.
Settles ==
    \/ loop.seen \in Stopped \/ loop.row.state = "uncertain"
    \/ ~loop.grant /\ loop.row.state \in {"starting", "running"}

Reconcile ==
    /\ loop.at = "decide" /\ Settles
    /\ \/ /\ loop.seen \in {"absent", "unknown"} /\ loop.row.state # "uncertain"
          /\ ReconcileUnknown(Worker, loop.id)
       \/ loop.seen \in Stopped /\ ReconcileStopped(Worker, loop.id, loop.seen)
       \/ loop.seen = "suspended" /\ ReconcileSuspended(Worker, loop.id, NativeSession)
       \/ loop.seen = "running" /\ ReconcileRunning(Worker, loop.id, NativeSession)
    /\ Return

\* Cancelled work that is suspended: verify that it is still ours, then cancel.
Retain ==
    /\ loop.at = "decide" /\ ~Settles /\ loop.row.state = "suspended"
    /\ loop.row.cancel /\ loop.seen = "suspended"
    /\ ReconcileSuspended(Worker, loop.id, NativeSession)
    /\ GoOn("dispose")

Dispose ==
    /\ loop.at = "dispose"
    /\ native' = [native EXCEPT ![loop.id].cancel = TRUE]
    /\ Return /\ UNCHANGED mqVars

Proceeds == loop.at = "decide" /\ ~Settles /\ loop.row.state # "suspended"

ReportUnknown ==
    /\ Proceeds /\ loop.seen = "unknown"
    /\ ReconcileUnknown(Worker, loop.id) /\ Return

\* A renewal goes by the fence, whatever the revision, and brings the row up to
\* date: before the runtime is called, and while the call lasts.
Renews ==
    /\ (Proceeds /\ loop.seen # "unknown") \/ loop.at = "acted"
    /\ attempts[loop.id].fence = loop.row.fence
    /\ Heartbeat(Worker, loop.id)
    /\ GoOn(IF loop.at = "decide" THEN "act" ELSE "acted")

\* Mutant of NeverLaunched: no session was reported, so nothing runs.
NeverLaunched_Unseen == loop.row.session = NoRow

NeverLaunched == loop.seen = "absent" /\ loop.row.session = NoRow

CancelBeforeLaunch ==
    /\ loop.at = "act" /\ loop.row.cancel /\ NeverLaunched
    /\ Finish(Worker, loop.id, "cancelled") /\ Return

\* The call of the runtime; a call that throws leaves things as they were.
Called ==
    IF loop.row.cancel THEN {[native[loop.id] EXCEPT !.cancel = TRUE]}
    ELSE IF NeverLaunched /\ loop.row.state = "starting" /\ native[loop.id].state = "absent"
         THEN {[native[loop.id] EXCEPT !.state = "launching"]}
    ELSE IF loop.seen = "suspended" /\ loop.row.state = "starting"
            /\ native[loop.id].state = "suspended"
         THEN {[native[loop.id] EXCEPT !.state = "running"]}
    ELSE IF loop.row.suspend /\ loop.seen = "running" /\ native[loop.id].state = "running"
         THEN {[native[loop.id] EXCEPT !.state = "suspended"]}
    ELSE {}

Act ==
    /\ loop.at = "act" /\ ~(loop.row.cancel /\ NeverLaunched)
    /\ \E row \in Called \cup {native[loop.id]} : native' = [native EXCEPT ![loop.id] = row]
    /\ loop' = [loop EXCEPT !.at = "acted"]
    /\ UNCHANGED mqVars

\* Authority is read after the second inspection.
Reread ==
    /\ loop.at = "reread"
    /\ IF attempts[loop.id].fence = loop.row.fence /\ GrantValid(Db, loop.id, Worker)
       THEN loop' = [loop EXCEPT !.at = "report", !.row = View(loop.id)]
       ELSE Return
    /\ UNCHANGED <<mqVars, native>>

Report ==
    /\ loop.at = "report"
    /\ \/ loop.seen \in Stopped /\ Finish(Worker, loop.id, loop.seen)
       \/ /\ loop.seen = "running" /\ loop.row.state = "starting"
          /\ Started(Worker, loop.id, NativeSession)
       \/ /\ loop.seen = "suspended" /\ loop.row.suspend /\ ~loop.row.cancel
          /\ ConfirmSuspension(Worker, loop.id)
       \/ loop.seen \in {"absent", "unknown"} /\ ReconcileUnknown(Worker, loop.id)
    /\ Return

Revised ==
    /\ loop.at # "idle" /\ Current
    /\ ObtainGrant \/ Reconcile \/ Retain \/ ReportUnknown \/ CancelBeforeLaunch \/ Report

\* A lapsed lease expires before the command is looked at.
Command == Lapsed = {} /\ (Revised \/ Renews) /\ UNCHANGED native

\* A refused command, and a return without one, end the step.
Ends ==
    /\ loop.at \in {"grant", "decide", "act", "report"}
    /\ loop.at = "act" => loop.row.cancel /\ NeverLaunched
    /\ IF Lapsed = {} THEN ~ENABLED Command ELSE ~MayExpireAll(Db)
    /\ Return /\ UNCHANGED <<mqVars, native>>

Dies == loop.at # "idle" /\ Return /\ UNCHANGED <<mqVars, native>>

StepOn ==
    \/ Command \/ Inspect \/ Dispose \/ Act \/ Reread \/ Ends
    \/ \E a \in AttemptId : Poll(a)

-----------------------------------------------------------------------------

\* The others may say what they like.
Operators ==
    /\ \E p \in Participant \ {Worker} : QueueCommand(p)
    /\ UNCHANGED <<native, loop>>

ClaimsWork ==
    /\ loop.at = "idle" /\ Lapsed = {}
    /\ \E i \in EntryId : ClaimNext(Worker, i)
    /\ UNCHANGED <<native, loop>>

Clock == (QueueTick \/ ExpireAttempts) /\ UNCHANGED <<native, loop>>

ExecutorNext ==
    \/ StepOn \/ Dies \/ ClaimsWork \/ Operators \/ Clock
    \/ \E a \in AttemptId : Launches(a) \/ Exits(a) \/ Obeys(a)

\* The worker keeps stepping and stays up in the end, commands and time expire
\* leases, and a runtime that was told to cancel does.
ExecutorFairness ==
    /\ WF_execVars(StepOn) /\ WF_execVars(Clock)
    /\ <>[][Dies => StepOn]_execVars
    /\ \A a \in AttemptId : WF_execVars(Launches(a)) /\ WF_execVars(Obeys(a))

ExecutorSpec == ExecutorInit /\ [][ExecutorNext]_execVars
FairExecutorSpec == ExecutorSpec /\ ExecutorFairness

-----------------------------------------------------------------------------
(* Properties.                                                             *)

\* The executor gives capacity back only for what is true of the execution at
\* that moment: a result is the one the runtime recorded, a cancellation without
\* one is of work that was never launched, and suspended work is not running;
\* although it looked before it renewed or read again (QueueExecutor.advance:
\* "Only confirmed stopped execution or safe quiescence releases the applicable
\* reservation", docs/05-OPERATIONS.md).
ReportsAreTrue ==
    [][loop.at # "idle" /\ loop' # loop =>
        \A a \in AttemptId :
            Active(a) /\ attempts'[a].state # attempts[a].state =>
                /\ attempts'[a].state = "terminal" =>
                      \/ native[a].state = attempts'[a].outcome
                      \/ native[a].state = "absent" /\ attempts'[a].outcome = "cancelled"
                /\ attempts'[a].state = "suspended" =>
                      native[a].state \notin {"launching", "running"}]_execVars

\* Suspended work of a stepping executor whose cancellation was requested does not
\* stay as it is: the executor disposes of it, whether or not somebody asked for
\* its resumption before ("Finishing or cancelling safely suspended work does not
\* require a new external execution slot", docs/02-ARCHITECTURE.md).
CancelledSuspensionEnds ==
    \A a \in AttemptId :
        LET asked == /\ Active(a) /\ attempts[a].owner = Worker /\ attempts[a].cancel
                     /\ attempts[a].state \in {"suspended", "resume_pending"}
                     /\ native[a].state = "suspended"
        IN asked ~> ~asked
=============================================================================
