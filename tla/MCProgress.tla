----------------------------- MODULE MCProgress -----------------------------
(* What happens between the steps of clients and in the end, one component  *)
(* at a time: the subject chosen at the start runs, the others keep their   *)
(* first state.                                                             *)
EXTENDS ClientWrites, ManagedQueue, Dispatch, Restore

CONSTANTS alice1, bob1, alice, bob, t1, n1, r1

VARIABLE subject

progressVars == <<subject, mqVars, call, dispatchVars, restoreVars>>

MCPrincipal == {alice, bob}
MCPrincipalOf == [p \in Participant |-> IF p = bob1 THEN bob ELSE alice]
MCTypedName == [e \in Entity |-> n1]
MCPolicies == {[enabled |-> TRUE, paused |-> FALSE, execution_limit |-> 1,
                wip_limit |-> 0, lease |-> MaxTtl]}
MCOutcomeWork == [o \in Outcome |-> IF o \in {"success", "cancelled"} THEN "terminal" ELSE "open"]

\* Claims and gates of sessions that may crash.  The leases asked for are short
\* and grants are few.
ShortLeases ==
    \A n \in Name : /\ fences[n] <= 2
                    /\ claims[n] # NoClaim => claims[n].left <= 1
                    /\ \A g \in Gate : gates[g] # NoGate => gates[g].left <= 1

Time == Next /\ ShortLeases' /\ UNCHANGED <<queueVars, call>>

\* The requests of update() and archive() over HTTP.
Calls == CallsNext /\ UNCHANGED <<queueVars>>

\* Managed work of sessions that may crash, with nothing granted beside it.
Queue ==
    /\ \/ \E p \in running : \/ QueueCommand(p)
                             \/ Unmanaged(p) /\ UNCHANGED <<fences, gates>>
       \/ ExpireAttempts \/ QueueSweep \/ QueueTick
    /\ \A n \in Name : fences'[n] <= 2
    /\ UNCHANGED call

\* One session attaches and stays, as its agent does; messages go to the agent
\* and none is published over its budget.  This holds back the
\* environment, never the connector.
OneSession ==
    /\ epoch <= 1 /\ ~retired
    /\ \A r \in Run : bindings[r].state \in IF r = r1 THEN {"none", "active"} ELSE {"none"}
    /\ \A d \in Delivery : mail[d].target = NoRun
    /\ \A d \in Delivery : mail[d].stopped => mail[d].fetched

ProgressInit ==
    /\ subject \in {"time", "calls", "queue", "dispatch", "restore"}
    /\ QueueInit /\ call = [p \in Participant |-> NoCall]
    /\ DispatchInit /\ RestoreInit
    \* The archive holds no unfinished work.
    /\ archives["given"].unfinished = {}
    /\ subject # "restore" => archives["given"] = Blank

ProgressNext ==
    /\ UNCHANGED subject
    /\ \/ subject = "time" /\ Time
       \/ subject = "calls" /\ Calls
       \/ subject = "queue" /\ Queue
       \/ subject \in {"dispatch", "restore"} /\ UNCHANGED <<mqVars, call>>
    /\ IF subject = "dispatch" THEN DispatchNext /\ OneSession'
       ELSE UNCHANGED dispatchVars
    /\ IF subject = "restore" THEN RestoreNext ELSE UNCHANGED restoreVars

ProgressSpec ==
    /\ ProgressInit /\ [][ProgressNext]_progressVars
    /\ DispatchFairness /\ RestoreFairness
    \* Fairness of Coordination and QueueFairness, each of the runs it is about.
    /\ WF_progressVars(subject = "time" /\ Tick
            /\ UNCHANGED <<subject, queueVars, call, dispatchVars, restoreVars>>)
    /\ WF_progressVars(subject = "queue" /\ QueueTick
            /\ UNCHANGED <<subject, call, dispatchVars, restoreVars>>)
    /\ WF_progressVars(subject = "queue" /\ QueueSweep
            /\ UNCHANGED <<subject, call, dispatchVars, restoreVars>>)
=============================================================================
