------------------------------ MODULE Dispatch ------------------------------
(***************************************************************************)
(* The mailbox of one agent: which run may consume it, how messages wait   *)
(* for it, and how the host's connector wakes the session that holds it.   *)
(* The server keeps bindings, deliveries and an outbox with an expiring    *)
(* lease; the connector keeps a ledger on disk, acts on the session in     *)
(* between, and can die at any step.                                       *)
(*                                                                         *)
(* A run has at most one binding, so a run stands for its binding too.     *)
(* Who may bind or publish, rooms and threads, reply chains and profiles   *)
(* are left out; the hop and pair budgets stop a delivery from waking when *)
(* it is published, the wake budgets when it would be leased.  Bindings    *)
(* that only poll are never woken and are left out.                        *)
(***************************************************************************)
EXTENDS Integers, FiniteSets

CONSTANTS
    Run,           \* acting runs of the agent
    NoRun,
    MaxDelivery,   \* bounds the messages
    MaxEpoch,      \* bounds attachments and archivals
    MaxRewakes     \* wakes of a fetched delivery before it counts as stalled

Delivery == 1 .. MaxDelivery

\* Attempts the outbox or the connector can still refer to.
Token == 1 .. 2
NoToken == 0

ASSUME DispatchAssumption ==
    MaxDelivery \in Nat /\ MaxEpoch \in Nat /\ MaxRewakes \in Nat /\ NoRun \notin Run

VARIABLES
    retired,       \* the agent is archived
    epoch,         \* binding_epoch of the agent
    bindings,      \* [Run -> the state and the epoch of its binding]
    mail,          \* message_recipients
    outbox,        \* dispatch_outbox
    wakes,         \* dispatch_attempts; unfetched: recipients not fetched since
                   \* the lease; live: not run out and not reported
    entry,         \* the connector's ledger: the run it serves and its pending wake
    connector,     \* what the connector is doing, in memory
    nudges         \* [Delivery -> wakes the session may have received for it
                   \* while it had not fetched it since their lease]

serverVars == <<retired, epoch, bindings, mail, outbox, wakes>>
dispatchVars == <<serverVars, entry, connector, nudges>>

NoPending == [token |-> NoToken, outcome |-> "none", reported |-> FALSE]
Resting == [at |-> "resting", token |-> NoToken, outcome |-> "none",
            fetched |-> FALSE, reportable |-> FALSE, live |-> FALSE]
Down == [Resting EXCEPT !.at = "down"]
NoAttempt == [run |-> NoRun, gen |-> 0, unfetched |-> {}, outcome |-> "none", live |-> FALSE]
NoMail == [state |-> "none", target |-> NoRun, gen |-> 0,
           stopped |-> FALSE, fetched |-> FALSE, rewakes |-> 0]

InUse == {outbox.lease, entry.pending.token, connector.token} \ {NoToken}

DispatchInit ==
    /\ retired = FALSE /\ epoch = 0
    /\ bindings = [r \in Run |-> [state |-> "none", epoch |-> 0]]
    /\ mail = [d \in Delivery |-> NoMail]
    /\ outbox = [state |-> "quiet", gen |-> 0, lease |-> NoToken, due |-> FALSE]
    /\ wakes = [t \in Token |-> NoAttempt]
    /\ entry = [run |-> NoRun, pending |-> NoPending]
    /\ connector = Resting
    /\ nudges = [d \in Delivery |-> 0]

-----------------------------------------------------------------------------
(* Bindings.                                                               *)

\* activeBinding: the run whose binding is active at the agent's epoch.
Holds(r) == r \in Run /\ bindings[r] = [state |-> "active", epoch |-> epoch] /\ ~retired

\* rearm without a publication; gen 0 stands for no row yet.
Rearmed == [state |-> "pending", gen |-> IF outbox.gen = 0 THEN 1 ELSE outbox.gen,
            lease |-> NoToken, due |-> TRUE]

Quieted == [outbox EXCEPT !.state = "quiet", !.lease = NoToken]

\* Mutant of BindingsEnded: a replaced binding stays active.
BindingsEnded_Not(state) == bindings

BindingsEnded(state) == [r \in Run |-> IF bindings[r].state = "active"
                               THEN [bindings[r] EXCEPT !.state = state] ELSE bindings[r]]

\* attach by a run without a binding, which replaces the current one; a run
\* that has one only renews it or is refused.
Attach(r) ==
    /\ ~retired /\ bindings[r].state = "none" /\ epoch < MaxEpoch
    /\ epoch' = epoch + 1
    /\ bindings' = [BindingsEnded("replaced") EXCEPT ![r] = [state |-> "active", epoch |-> epoch + 1]]
    /\ outbox' = Rearmed
    /\ nudges' = [d \in Delivery |-> 0]
    /\ UNCHANGED <<retired, mail, wakes, entry, connector>>

\* release, or expire when the run is closed or revoked.
EndBinding ==
    /\ BindingsEnded("released") # bindings
    /\ bindings' = BindingsEnded("released")
    /\ UNCHANGED <<retired, epoch, mail, outbox, wakes, entry, connector, nudges>>

ArchiveAgent ==
    /\ ~retired /\ epoch < MaxEpoch
    /\ retired' = TRUE
    /\ epoch' = epoch + 1
    /\ bindings' = BindingsEnded("released")
    /\ outbox' = IF outbox.gen = 0 THEN outbox ELSE Quieted
    /\ UNCHANGED <<mail, wakes, entry, connector, nudges>>

UnarchiveAgent ==
    /\ retired
    /\ retired' = FALSE
    /\ UNCHANGED <<epoch, bindings, mail, outbox, wakes, entry, connector, nudges>>

-----------------------------------------------------------------------------
(* Messages.                                                               *)

\* publish to the agent or to its current binding alone.
PublishMessage(d, exact, stopped) ==
    /\ ~retired
    /\ mail[d].state = "none" /\ \A e \in Delivery : e < d => mail[e].state # "none"
    /\ \E target \in IF exact THEN {r \in Run : bindings[r].state = "active"} ELSE {NoRun} :
           mail' = [mail EXCEPT ![d] = [NoMail EXCEPT !.state = "pending", !.target = target,
                                            !.gen = outbox.gen + 1, !.stopped = stopped]]
    /\ outbox' = [outbox EXCEPT !.state = "pending", !.gen = @ + 1, !.due = TRUE]
    /\ UNCHANGED <<retired, epoch, bindings, wakes, entry, connector, nudges>>

\* pendingWhere.
PendingFor(r) == {d \in Delivery : mail[d].state = "pending" /\ mail[d].target \in {NoRun, r}}

\* fetchInbox.
Fetch(r) ==
    /\ Holds(r) /\ PendingFor(r) # {}
    /\ mail' = [d \in Delivery |-> IF d \in PendingFor(r)
                                   THEN [mail[d] EXCEPT !.fetched = TRUE] ELSE mail[d]]
    /\ wakes' = [t \in Token |-> IF wakes[t].run = r
                                    THEN [wakes[t] EXCEPT !.unfetched = @ \ PendingFor(r)]
                                    ELSE wakes[t]]
    /\ nudges' = [d \in Delivery |-> IF d \in PendingFor(r) THEN 0 ELSE nudges[d]]
    /\ UNCHANGED <<retired, epoch, bindings, outbox, entry, connector>>

\* Nothing but its state is read of a delivery that is over.
Closed(d) ==
    /\ mail' = [mail EXCEPT ![d] = [NoMail EXCEPT !.state = "closed"]]
    /\ wakes' = [t \in Token |-> [wakes[t] EXCEPT !.unfetched = @ \ {d}]]
    /\ nudges' = [nudges EXCEPT ![d] = 0]

\* acknowledge, accepting or declining; the last one quiets the outbox.
Acknowledge(r, d) ==
    /\ Holds(r) /\ d \in PendingFor(r)
    /\ Closed(d)
    /\ outbox' = IF PendingFor(r) = {d} THEN Quieted ELSE outbox
    /\ UNCHANGED <<retired, epoch, bindings, entry, connector>>

\* Its time to live runs out; every reader looks at the time first.
DeliveryExpires(d) ==
    /\ mail[d].state = "pending"
    /\ Closed(d)
    /\ UNCHANGED <<retired, epoch, bindings, outbox, entry, connector>>

\* resumeDelivery by a maintainer.
Resume(d) ==
    /\ mail[d].state = "pending" /\ mail[d].stopped
    /\ mail' = [mail EXCEPT ![d].stopped = FALSE, ![d].rewakes = 0]
    /\ outbox' = Rearmed
    /\ UNCHANGED <<retired, epoch, bindings, wakes, entry, connector, nudges>>

LeaseRunsOut(t) ==
    /\ t \in InUse /\ wakes[t].live
    /\ wakes' = [wakes EXCEPT ![t].live = FALSE]
    /\ UNCHANGED <<retired, epoch, bindings, mail, outbox, entry, connector, nudges>>

BackoffEnds ==
    /\ outbox.gen > 0 /\ ~outbox.due
    /\ outbox' = [outbox EXCEPT !.due = TRUE]
    /\ UNCHANGED <<retired, epoch, bindings, mail, wakes, entry, connector, nudges>>

-----------------------------------------------------------------------------
(* Leasing a wake and reporting it.                                        *)

LeaseLive == outbox.lease # NoToken /\ wakes[outbox.lease].live

FreeToken == CHOOSE t \in Token \ InUse : \A u \in Token \ InUse : t <= u

Wakeable(r) == {d \in PendingFor(r) : ~mail[d].stopped}
Stalled(d) == mail[d].fetched /\ mail[d].rewakes >= MaxRewakes

MayLease(r) == Holds(r) /\ outbox.gen > 0 /\ outbox.due /\ ~LeaseLive

\* leaseDispatch when a delivery can wake the session.
LeaseDispatch(r, t) ==
    LET eligible == {d \in Wakeable(r) : ~Stalled(d)} IN
    /\ MayLease(r) /\ eligible # {}
    /\ mail' = [d \in Delivery |->
           IF d \in eligible /\ mail[d].fetched THEN [mail[d] EXCEPT !.rewakes = @ + 1]
           ELSE IF d \in Wakeable(r) \ eligible THEN [mail[d] EXCEPT !.stopped = TRUE]
           ELSE mail[d]]
    /\ wakes' = [u \in Token |->
           IF u = t THEN [run |-> r, gen |-> outbox.gen, unfetched |-> eligible,
                          outcome |-> "leased", live |-> TRUE]
           ELSE IF u \in InUse THEN wakes[u] ELSE NoAttempt]
    /\ outbox' = [outbox EXCEPT !.lease = t]
    /\ UNCHANGED <<retired, epoch, bindings>>

\* leaseDispatch when nothing may wake it: what is left is stalled, or the wake
\* budgets of the hour are used up, or there is nothing.
LeaseNothing(r) ==
    /\ MayLease(r)
    /\ mail' = [d \in Delivery |-> IF d \in Wakeable(r)
                                   THEN [mail[d] EXCEPT !.stopped = TRUE] ELSE mail[d]]
    /\ outbox' = Quieted
    /\ UNCHANGED <<retired, epoch, bindings, wakes>>

MayReportDispatch(t) ==
    /\ Holds(wakes[t].run)
    /\ wakes[t].outcome = "leased" /\ wakes[t].live /\ outbox.lease = t

\* Mutant of Unchanged: a publication since the lease is not noticed.
Unchanged_Always(t) == TRUE

Unchanged(t) == outbox.gen = wakes[t].gen

\* reportDispatch.
ReportDispatch(t, outcome) ==
    /\ wakes' = [wakes EXCEPT ![t].outcome = outcome, ![t].live = FALSE]
    /\ outbox' = [outbox EXCEPT !.lease = NoToken,
                     !.state = IF Unchanged(t) /\ outcome = "accepted" THEN "quiet" ELSE "pending",
                     !.due = ~Unchanged(t)]
    /\ UNCHANGED <<retired, epoch, bindings, mail>>

-----------------------------------------------------------------------------
(* The connector.                                                          *)

ConnectorKeeps == UNCHANGED <<serverVars, nudges>>

RegisterSession(r) ==
    /\ entry.run = NoRun /\ Holds(r)
    /\ entry' = [run |-> r, pending |-> NoPending]
    /\ nudges' = [d \in Delivery |-> 0]
    /\ UNCHANGED <<serverVars, connector>>

\* The pending wake is forgotten with the registration.
Unregister ==
    /\ entry.run # NoRun /\ connector = Resting
    /\ entry' = [run |-> NoRun, pending |-> NoPending]
    /\ UNCHANGED <<serverVars, connector, nudges>>

\* tick: asks for a lease when no wake is pending.
RequestLease ==
    /\ connector = Resting /\ entry.run # NoRun /\ entry.pending = NoPending
    /\ \/ /\ LeaseDispatch(entry.run, FreeToken)
          /\ connector' = [Resting EXCEPT !.at = "leased", !.token = FreeToken]
       \/ LeaseNothing(entry.run) /\ UNCHANGED connector
    /\ UNCHANGED <<entry, nudges>>

\* Mutant of RecordLease: the ledger is written only after the wake.
RecordLease_Late ==
    /\ connector.at = "leased"
    /\ connector' = [connector EXCEPT !.at = "recorded"]
    /\ UNCHANGED entry /\ ConnectorKeeps

\* The ledger names the lease before the session is touched.
RecordLease ==
    /\ connector.at = "leased"
    /\ entry' = [entry EXCEPT !.pending = [NoPending EXCEPT !.token = connector.token]]
    /\ connector' = [connector EXCEPT !.at = "recorded"]
    /\ ConnectorKeeps

\* The native wake, with what the harness says of it: it arrived, it did not
\* (deferred or rejected), or it may have.
WakeSession(outcome, arrived) ==
    /\ connector.at = "recorded"
    /\ arrived <=> outcome = "accepted" \/ (outcome = "unknown" /\ arrived)
    /\ nudges' = [d \in Delivery |->
                     IF arrived /\ d \in wakes[connector.token].unfetched
                     THEN nudges[d] + 1 ELSE nudges[d]]
    /\ connector' = [connector EXCEPT !.at = "woken", !.outcome = outcome]
    /\ UNCHANGED <<serverVars, entry>>

RecordOutcome ==
    /\ connector.at = "woken"
    /\ entry' = [entry EXCEPT !.pending.token = connector.token,
                              !.pending.outcome = connector.outcome]
    /\ connector' = Resting
    /\ ConnectorKeeps

\* reconcile, first half: the recipients of the pending wake as the server sees
\* them now.
ReadStatus ==
    LET t == entry.pending.token
        known == wakes[t].outcome # "leased"
    IN  /\ connector = Resting /\ entry.pending # NoPending /\ Holds(entry.run)
        /\ entry' = IF known THEN [entry EXCEPT !.pending.outcome = wakes[t].outcome,
                                                !.pending.reported = TRUE]
                    ELSE entry
        /\ connector' = [at |-> "status", token |-> t, outcome |-> "none",
                         fetched |-> wakes[t].unfetched = {},
                         reportable |-> outbox.lease = t /\ wakes[t].live,
                         live |-> wakes[t].live]
        /\ ConnectorKeeps

ReportedOutcome ==
    IF entry.pending.outcome # "none" THEN entry.pending.outcome
    ELSE IF connector.fetched THEN "accepted" ELSE "unknown"

\* A wake that may have arrived is not repeated before it shows in a fetch.
AwaitsFetch ==
    ~connector.fetched /\ entry.pending.outcome \in {"none", "unknown", "accepted"}

\* Mutant of Settled: a report that can no longer be made is waited for.
Settled_Reported(pending) ==
    IF AwaitsFetch \/ ~pending.reported THEN pending ELSE NoPending

Settled(pending) ==
    IF AwaitsFetch \/ (~pending.reported /\ connector.live) THEN pending ELSE NoPending

\* reconcile, second half: the report, where one is due, and what becomes of the
\* pending wake.
FinishReconcile ==
    /\ connector.at = "status"
    /\ connector' = Resting
    /\ IF ~entry.pending.reported /\ connector.reportable
       THEN /\ MayReportDispatch(entry.pending.token)
            /\ ReportDispatch(entry.pending.token, ReportedOutcome)
            /\ \/ entry' = [entry EXCEPT !.pending =
                                Settled([entry.pending EXCEPT !.reported = TRUE])]
               \/ UNCHANGED entry       \* the answer is lost
       ELSE /\ entry' = [entry EXCEPT !.pending = Settled(entry.pending)]
            /\ UNCHANGED serverVars
    /\ UNCHANGED nudges

\* The report is refused or cannot be delivered.
ReportFails ==
    /\ connector.at = "status" /\ ~entry.pending.reported /\ connector.reportable
    /\ ~MayReportDispatch(entry.pending.token)
    /\ connector' = Resting
    /\ UNCHANGED entry /\ ConnectorKeeps

ConnectorDies ==
    /\ connector \notin {Resting, Down}
    /\ connector' = Down
    /\ UNCHANGED entry /\ ConnectorKeeps

\* What it knew beside the ledger is gone.
ConnectorStarts ==
    /\ connector = Down
    /\ connector' = Resting
    /\ UNCHANGED entry /\ ConnectorKeeps

-----------------------------------------------------------------------------

ConnectorStep ==
    \/ ConnectorStarts \/ RequestLease \/ RecordLease \/ RecordOutcome
    \/ ReadStatus \/ FinishReconcile \/ ReportFails
    \/ \E outcome \in {"accepted", "deferred", "unknown"}, arrived \in BOOLEAN :
           WakeSession(outcome, arrived)

DispatchNext ==
    \/ EndBinding \/ ArchiveAgent \/ UnarchiveAgent \/ BackoffEnds
    \/ \E r \in Run : Attach(r) \/ Fetch(r) \/ RegisterSession(r)
    \/ \E r \in Run, d \in Delivery : Acknowledge(r, d)
    \/ \E d \in Delivery : DeliveryExpires(d) \/ Resume(d)
    \/ \E d \in Delivery, exact, stopped \in BOOLEAN : PublishMessage(d, exact, stopped)
    \/ \E t \in Token : LeaseRunsOut(t)
    \/ ConnectorStep \/ Unregister \/ ConnectorDies

\* The connector keeps running its ticks, in the end without dying; time passes.
DispatchFairness ==
    /\ <>[][connector' = Down => connector = Down]_dispatchVars
    /\ WF_dispatchVars(ConnectorStep)
    /\ WF_dispatchVars(BackoffEnds)
    /\ \A t \in Token : WF_dispatchVars(LeaseRunsOut(t))

DispatchSpec == DispatchInit /\ [][DispatchNext]_dispatchVars

FairDispatchSpec == DispatchSpec /\ DispatchFairness

-----------------------------------------------------------------------------

\* One run at a time consumes a mailbox: the last one attached, until it is
\* replaced or released or the agent is archived (attach, activeBinding).
TheMailboxHasOneConsumer ==
    \A r \in Run : bindings[r].state = "active" =>
        /\ bindings[r].epoch = epoch
        /\ \A s \in Run : bindings[s].state = "active" => s = r

\* A delivery the session has not fetched is behind at most one native wake that
\* may have reached it, wherever the connector dies (HostConnector.reconcile:
\* "recovery never repeats a native wake").
WakesAreNotRepeated == \A d \in Delivery : mail[d].state = "pending" => nudges[d] <= 1

\* A report never quiets a publication that came after its lease
\* (reportDispatch).
ReportsQuietNothingNewer ==
    [][\A t \in Token :
          wakes[t].outcome = "leased" /\ wakes'[t].outcome = "accepted"
          /\ outbox'.state = "quiet" =>
              \A d \in Delivery : mail[d].state = "pending" => mail[d].gen <= wakes[t].gen]_dispatchVars

\* A message that may wake the session the connector serves is offered to it
\* in a lease, unless the connector still waits for an earlier wake to show in a
\* fetch, or the binding or the message ends first.
Offered(d) == \E t \in {outbox.lease, connector.token, entry.pending.token} \ {NoToken} :
                  d \in wakes[t].unfetched
WaitsForFetch ==
    entry.pending # NoPending /\ wakes[entry.pending.token].unfetched # {}
WaitingMailWakesTheSession ==
    \A d \in Delivery :
        Holds(entry.run) /\ d \in Wakeable(entry.run) ~>
            Offered(d) \/ WaitsForFetch \/ ~Holds(entry.run) \/ d \notin Wakeable(entry.run)
=============================================================================
