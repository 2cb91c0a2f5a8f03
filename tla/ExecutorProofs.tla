--------------------------- MODULE ExecutorProofs ---------------------------
(***************************************************************************)
(* Theorems about module Executor, for every number of tasks, entries,     *)
(* attempts, operators and sessions, and every policy and mapping.         *)
(*                                                                         *)
(* The argument for ReportsAreTrue: a call of step() takes what it saw of  *)
(* the runtime through its awaits, and a command is decided from that.     *)
(* What was seen stays true until the call itself changes the runtime: a   *)
(* stopped execution stays stopped, a suspended one is not started by      *)
(* anyone else, and one that is absent stays so because only an accepted   *)
(* attempt is launched, by its executor.  That an attempt cancelled while  *)
(* it is a reservation was never launched needs, of the queue, that no     *)
(* step turns an attempt into a reservation again (ReservationsAreFirst).  *)
(***************************************************************************)
EXTENDS Executor, QueueProofs

USE WorkerAssumption

-----------------------------------------------------------------------------
(* The attempt row a command of the executor leaves.                       *)

HasAttempts(s) == "attempts" \in DOMAIN s

\* The helpers that are about other tables leave the attempts alone.
LEMMA OtherTables ==
    ASSUME NEW s, HasAttempts(s), NEW a, NEW kind, NEW delay
    PROVE  /\ HasAttempts(Revoked(s, a)) /\ Revoked(s, a).attempts = s.attempts
           /\ HasAttempts(Superseded(s, a)) /\ Superseded(s, a).attempts = s.attempts
           /\ HasAttempts(Transitioned(s, a, kind))
           /\ Transitioned(s, a, kind).attempts = s.attempts
           /\ HasAttempts(Rescheduled(s, a, delay))
           /\ Rescheduled(s, a, delay).attempts = s.attempts
<1>1. HasAttempts(Revoked(s, a)) /\ Revoked(s, a).attempts = s.attempts
  BY DEF Revoked, HasAttempts
<1>2. HasAttempts(Superseded(s, a)) /\ Superseded(s, a).attempts = s.attempts
  BY DEF Superseded, HasAttempts
<1>3. HasAttempts(Transitioned(s, a, kind)) /\ Transitioned(s, a, kind).attempts = s.attempts
  BY DEF Transitioned, HasAttempts
<1>4. HasAttempts(Rescheduled(s, a, delay)) /\ Rescheduled(s, a, delay).attempts = s.attempts
  BY DEF Rescheduled, HasAttempts
<1> QED
  BY <1>1, <1>2, <1>3, <1>4

\* The row of an attempt that is over with this outcome.
IsOver(u, outcome) == u.state = "terminal" /\ u.outcome = outcome

LEMMA EndedRow ==
    ASSUME NEW s, HasAttempts(s), NEW a \in AttemptId,
           s.attempts \in [AttemptId -> AttemptRow \cup {NoRow}],
           s.attempts[a] \in AttemptRow, NEW outcome
    PROVE  IsOver(Finished(s, a, outcome).attempts[a], outcome)
<1> DEFINE w == Superseded(Transitioned(s, a, outcome), a)
           u == OverRow(s.attempts[a], outcome)
           t == s.attempts[a]
           x == [w EXCEPT !.attempts[a] = [@ EXCEPT !.state = "terminal", !.left = 0,
                                                    !.outcome = outcome],
                          !.reservations[t.task] = NoRow,
                          !.entries[t.entry].state = "finished"]
           d == Ended(s, a, outcome)
<1>1. HasAttempts(w) /\ w.attempts = s.attempts
  BY OtherTables
<1>2. d = Revoked(x, a)
  BY Zenon DEF Ended
<1> HIDE DEF w
<1>3. HasAttempts(x) /\ x.attempts = [s.attempts EXCEPT ![a] = u]
  BY <1>1 DEF HasAttempts, OverRow
<1>4. IsOver(u, outcome)
  <2> HIDE DEF t
  <2>1. s.attempts[a] \in AttemptRow
    OBVIOUS
  <2> QED
    BY <2>1 DEF IsOver, OverRow, AttemptRow
<1> HIDE DEF x, u, d
<1>5. HasAttempts(d) /\ d.attempts = [s.attempts EXCEPT ![a] = u]
  BY <1>2, <1>3, OtherTables
<1>6. Finished(s, a, outcome).attempts = d.attempts
  <2> DEFINE delay == Backoff(Cardinality(AttemptsOf(d, s.attempts[a].entry)))
  <2>1. Rescheduled(d, a, delay).attempts = d.attempts
    BY <1>5, OtherTables
  <2>2. Finished(s, a, outcome) \in {d, Rescheduled(d, a, delay)}
    BY DEF Finished, d
  <2> QED
    BY <2>1, <2>2
<1> QED
  BY <1>4, <1>5, <1>6

\* The tables as a command finds them.
LEMMA TablesHere ==
    ASSUME QueueInv, NEW a \in AttemptId, IsAttempt(Db, a)
    PROVE  /\ HasAttempts(Db) /\ Db.attempts = attempts
           /\ attempts \in [AttemptId -> AttemptRow \cup {NoRow}]
           /\ attempts[a] \in AttemptRow
<1>1. Db \in Contents /\ Db.attempts = attempts
  BY DbFields DEF QueueInv, RowsAgree
<1>2. HasAttempts(Db)
  BY DEF HasAttempts, Db
<1>3. attempts \in [AttemptId -> AttemptRow \cup {NoRow}]
  BY <1>1 DEF Contents
<1> QED
  BY <1>1, <1>2, <1>3 DEF IsAttempt

\* Contents whose row of a was replaced are committed.
LEMMA RowCommitted ==
    ASSUME NEW w, HasAttempts(w), NEW a \in AttemptId,
           w.attempts \in [AttemptId -> AttemptRow \cup {NoRow}], NEW u,
           NEW d, d.attempts = [w.attempts EXCEPT ![a] = u], Commit(d)
    PROVE  attempts'[a] = u
  BY DEF Commit

LEMMA AcceptLeaves ==
    ASSUME QueueInv, NEW p, NEW a \in AttemptId, IsAttempt(Db, a), Accept(p, a)
    PROVE  attempts'[a].state = "starting"
<1> DEFINE w == Transitioned(Db, a, "start")
           d == [w EXCEPT !.attempts[a] = [@ EXCEPT !.state = "starting", !.accepted = TRUE]]
           u == [attempts[a] EXCEPT !.state = "starting", !.accepted = TRUE]
<1>1. HasAttempts(w) /\ w.attempts = attempts
  BY TablesHere, OtherTables
<1>2. Commit(d)
  BY Zenon DEF Accept
<1> HIDE DEF w
<1>3. d.attempts = [attempts EXCEPT ![a] = u]
  BY <1>1 DEF HasAttempts
<1>4. u.state = "starting"
  BY TablesHere DEF AttemptRow
<1> HIDE DEF d, u
<1>5. attempts'[a] = u
  BY <1>2, <1>3, TablesHere, RowCommitted
<1> QED
  BY <1>4, <1>5

LEMMA StartedLeaves ==
    ASSUME QueueInv, NEW p, NEW a \in AttemptId, IsAttempt(Db, a), NEW session,
           Started(p, a, session)
    PROVE  attempts'[a].state = "running"
<1> DEFINE d == [Db EXCEPT !.attempts[a] = [@ EXCEPT !.state = "running",
                                                     !.session = session]]
           u == [attempts[a] EXCEPT !.state = "running", !.session = session]
<1>1. Commit(d)
  BY Zenon DEF Started
<1>2. d.attempts = [attempts EXCEPT ![a] = u]
  BY TablesHere DEF HasAttempts
<1>3. u.state = "running"
  BY TablesHere DEF AttemptRow
<1> HIDE DEF d, u
<1>4. attempts'[a] = u
  BY <1>1, <1>2, TablesHere, RowCommitted
<1> QED
  BY <1>3, <1>4

LEMMA HeartbeatLeaves ==
    ASSUME QueueInv, NEW p, NEW a \in AttemptId, IsAttempt(Db, a), Heartbeat(p, a)
    PROVE  attempts'[a].state = attempts[a].state
<1> DEFINE d == [Db EXCEPT !.claims[ResourceOf(Db, a)] = Renewed(@, policy.lease),
                           !.attempts[a].left = policy.lease]
           u == [attempts[a] EXCEPT !.left = policy.lease]
<1>1. Commit(d)
  BY Zenon DEF Heartbeat
<1>2. d.attempts = [attempts EXCEPT ![a] = u]
  BY TablesHere DEF HasAttempts
<1>3. u.state = attempts[a].state
  BY TablesHere DEF AttemptRow
<1> HIDE DEF d, u
<1>4. attempts'[a] = u
  BY <1>1, <1>2, TablesHere, RowCommitted
<1> QED
  BY <1>3, <1>4

LEMMA UnknownLeaves ==
    ASSUME QueueInv, NEW p, NEW a \in AttemptId, IsAttempt(Db, a), ReconcileUnknown(p, a)
    PROVE  attempts'[a].state = "uncertain"
<1> DEFINE w == Revoked(Db, a)
           d == [w EXCEPT !.attempts[a] = [@ EXCEPT !.state = "uncertain", !.left = 0]]
           u == [attempts[a] EXCEPT !.state = "uncertain", !.left = 0]
<1>1. HasAttempts(w) /\ w.attempts = attempts
  BY TablesHere, OtherTables
<1>2. Commit(d)
  BY Zenon DEF ReconcileUnknown
<1> HIDE DEF w
<1>3. d.attempts = [attempts EXCEPT ![a] = u]
  BY <1>1 DEF HasAttempts
<1>4. u.state = "uncertain"
  BY TablesHere DEF AttemptRow
<1> HIDE DEF d, u
<1>5. attempts'[a] = u
  BY <1>2, <1>3, TablesHere, RowCommitted
<1> QED
  BY <1>4, <1>5

LEMMA SuspensionLeaves ==
    ASSUME QueueInv, NEW p, NEW a \in AttemptId, IsAttempt(Db, a), NEW session,
           ReconcileSuspended(p, a, session) \/ ConfirmSuspension(p, a)
    PROVE  attempts'[a].state = "suspended"
<1> DEFINE w == Revoked(Db, a)
           e == attempts[a].task
<1>1. HasAttempts(w) /\ w.attempts = attempts
  BY TablesHere, OtherTables
<1>2. CASE ReconcileSuspended(p, a, session)
  <2> DEFINE d == [w EXCEPT !.attempts[a] = [@ EXCEPT !.state = "suspended", !.left = 0,
                                                      !.suspend = FALSE,
                                                      !.session = session],
                            !.reservations[e].held = FALSE]
             u == [attempts[a] EXCEPT !.state = "suspended", !.left = 0,
                                      !.suspend = FALSE, !.session = session]
  <2>1. Commit(d)
    BY <1>2, Zenon DEF ReconcileSuspended
  <2> HIDE DEF w, e
  <2>2. d.attempts = [attempts EXCEPT ![a] = u]
    BY <1>1 DEF HasAttempts
  <2>3. u.state = "suspended"
    BY TablesHere DEF AttemptRow
  <2> HIDE DEF d, u
  <2>4. attempts'[a] = u
    BY <2>1, <2>2, TablesHere, RowCommitted
  <2> QED
    BY <2>3, <2>4
<1>3. CASE ConfirmSuspension(p, a)
  <2> DEFINE d == [w EXCEPT !.attempts[a] = [@ EXCEPT !.state = "suspended", !.left = 0,
                                                      !.suspend = FALSE],
                            !.reservations[e].held = FALSE]
             u == [attempts[a] EXCEPT !.state = "suspended", !.left = 0, !.suspend = FALSE]
  <2>1. Commit(d)
    BY <1>3, Zenon DEF ConfirmSuspension
  <2> HIDE DEF w, e
  <2>2. d.attempts = [attempts EXCEPT ![a] = u]
    BY <1>1 DEF HasAttempts
  <2>3. u.state = "suspended"
    BY TablesHere DEF AttemptRow
  <2> HIDE DEF d, u
  <2>4. attempts'[a] = u
    BY <2>1, <2>2, TablesHere, RowCommitted
  <2> QED
    BY <2>3, <2>4
<1> QED
  BY <1>2, <1>3

\* The tables under a fresh grant.
LEMMA RefencedHere ==
    ASSUME QueueInv, NEW a \in AttemptId, ActiveIn(Db, a), NEW p \in Participant
    PROVE  LET w == Refenced(Db, a, p) IN
           /\ HasAttempts(w) /\ w.attempts \in [AttemptId -> AttemptRow \cup {NoRow}]
           /\ w.attempts[a] \in AttemptRow /\ w.attempts[a].state = "running"
<1> DEFINE w == Refenced(Db, a, p)
<1>1. RowsAgree(Db) /\ policy.lease \in Ttl
  BY Found
<1>2. Touches(Db, w, a) /\ w.attempts[a] \in AttemptRow /\ w.attempts[a].state = "running"
  BY <1>1, FreshGrant
<1> HIDE DEF w
<1>3. w \in Contents
  BY <1>2 DEF Touches
<1>4. HasAttempts(w) /\ w.attempts \in [AttemptId -> AttemptRow \cup {NoRow}]
  BY <1>3 DEF HasAttempts, Contents
<1> QED
  BY <1>2, <1>4 DEF w

LEMMA ResumeLeaves ==
    ASSUME QueueInv, NEW p \in Participant, NEW a \in AttemptId, IsAttempt(Db, a),
           ClaimResume(p, a)
    PROVE  attempts'[a].state = "starting"
<1> DEFINE w == Refenced(Db, a, p)
           e == attempts[a].task
           d == [w EXCEPT !.attempts[a].state = "starting", !.reservations[e].held = TRUE]
           u == [w.attempts[a] EXCEPT !.state = "starting"]
<1>1. ActiveIn(Db, a)
  BY DbFields DEF ClaimResume, ActiveIn
<1>2. /\ HasAttempts(w) /\ w.attempts \in [AttemptId -> AttemptRow \cup {NoRow}]
      /\ w.attempts[a] \in AttemptRow
  BY <1>1, RefencedHere
<1>3. Commit(d)
  BY Zenon DEF ClaimResume
<1> HIDE DEF w, e
<1>4. d.attempts = [w.attempts EXCEPT ![a] = u]
  BY <1>2 DEF HasAttempts
<1>5. u.state = "starting"
  BY <1>2 DEF AttemptRow
<1> HIDE DEF d, u
<1>6. attempts'[a] = u
  BY <1>2, <1>3, <1>4, RowCommitted
<1> QED
  BY <1>5, <1>6

LEMMA RunningLeaves ==
    ASSUME QueueInv, NEW p, NEW a \in AttemptId, IsAttempt(Db, a), NEW session,
           ReconcileRunning(p, a, session)
    PROVE  attempts'[a].state = "running"
<1> DEFINE w == Refenced(Db, a, attempts[a].owner)
           d == [w EXCEPT !.attempts[a].session = session]
           u == [w.attempts[a] EXCEPT !.session = session]
<1>1. ActiveIn(Db, a)
  BY DbFields DEF ReconcileRunning, ActiveIn
<1>2. attempts[a].owner \in Participant
  BY <1>1, Found, DbFields
<1>3. /\ HasAttempts(w) /\ w.attempts \in [AttemptId -> AttemptRow \cup {NoRow}]
      /\ w.attempts[a] \in AttemptRow /\ w.attempts[a].state = "running"
  BY <1>1, <1>2, RefencedHere
<1>4. Commit(d)
  BY Zenon DEF ReconcileRunning
<1> HIDE DEF w
<1>5. d.attempts = [w.attempts EXCEPT ![a] = u]
  BY <1>3 DEF HasAttempts
<1>6. u.state = "running"
  BY <1>3 DEF AttemptRow
<1> HIDE DEF d, u
<1>7. attempts'[a] = u
  BY <1>3, <1>4, <1>5, RowCommitted
<1> QED
  BY <1>6, <1>7

LEMMA ResultLeaves ==
    ASSUME QueueInv, NEW p \in Participant, NEW a \in AttemptId, IsAttempt(Db, a),
           NEW outcome, Finish(p, a, outcome) \/ ReconcileStopped(p, a, outcome)
    PROVE  IsOver(attempts'[a], outcome)
<1>1. ActiveIn(Db, a)
  BY DbFields DEF Finish, ReconcileStopped, GrantValid, ActiveIn, Executing
<1>2. attempts[a].owner \in Participant
  BY <1>1, Found, DbFields
<1>3. \/ Commit(Finished(Db, a, outcome))
      \/ Commit(Finished(Refenced(Db, a, p), a, outcome))
      \/ Commit(Finished(Refenced(Db, a, attempts[a].owner), a, outcome))
  BY Zenon DEF Finish, ReconcileStopped
<1>4. CASE Commit(Finished(Db, a, outcome))
  <2>1. IsOver(Finished(Db, a, outcome).attempts[a], outcome)
    BY TablesHere, EndedRow
  <2> QED
    BY <1>4, <2>1 DEF Commit
<1>5. ASSUME NEW q \in Participant, Commit(Finished(Refenced(Db, a, q), a, outcome))
      PROVE  IsOver(attempts'[a], outcome)
  <2> DEFINE w == Refenced(Db, a, q)
  <2>1. /\ HasAttempts(w) /\ w.attempts \in [AttemptId -> AttemptRow \cup {NoRow}]
        /\ w.attempts[a] \in AttemptRow
    BY <1>1, RefencedHere
  <2> HIDE DEF w
  <2>2. IsOver(Finished(w, a, outcome).attempts[a], outcome)
    BY <2>1, EndedRow
  <2> QED
    BY <1>5, <2>2 DEF Commit, w
<1> QED
  BY <1>2, <1>3, <1>4, <1>5

-----------------------------------------------------------------------------
(* The invariant.                                                          *)

\* The parts of what step() has read.
LoopShape(l) ==
    l = [at |-> l.at, id |-> l.id, row |-> l.row, grant |-> l.grant, seen |-> l.seen]

\* What was seen of the runtime still holds of its record.
StillSeen(state, seen) ==
    /\ seen \in Stopped \cup {"absent"} => state = seen
    /\ seen = "suspended" => state \notin {"launching", "running"}

\* Where a call of step() relies on what it saw.  Once the runtime was called it
\* does not rely on an absence any more.
LoopStands ==
    /\ LoopShape(loop) /\ loop.at # "idle"
    /\ loop.id \in AttemptId /\ IsAttempt(Db, loop.id)
    /\ loop.row.state # "reserved" => attempts[loop.id].state # "reserved"
    /\ loop.at \in {"decide", "dispose", "act"} =>
            StillSeen(native[loop.id].state, loop.seen)
    /\ loop.at \in {"reread", "report"} /\ loop.seen # "absent" =>
            StillSeen(native[loop.id].state, loop.seen)

\* The runtime knows only attempts that were accepted.
NativeIsLater ==
    \A a \in AttemptId :
        native[a].state # "absent" => IsAttempt(Db, a) /\ attempts[a].state # "reserved"

ExecutorInv ==
    /\ QueueInv
    /\ running = Participant
    /\ native \in [AttemptId -> NativeRow]
    /\ NativeIsLater
    /\ loop = Idle \/ LoopStands

\* A command about attempt a that says what is true of its execution.
Honest(a) ==
    \/ Accept(Worker, a) \/ ClaimResume(Worker, a) \/ Heartbeat(Worker, a)
    \/ ReconcileUnknown(Worker, a)
    \/ Started(Worker, a, NativeSession) \/ ReconcileRunning(Worker, a, NativeSession)
    \/ /\ ReconcileSuspended(Worker, a, NativeSession) \/ ConfirmSuspension(Worker, a)
       /\ native[a].state \notin {"launching", "running"}
    \/ \E outcome \in Stopped :
          /\ Finish(Worker, a, outcome) \/ ReconcileStopped(Worker, a, outcome)
          /\ \/ native[a].state = outcome
             \/ native[a].state = "absent" /\ outcome = "cancelled"

\* The call of step() ends or goes on.
Proceed ==
    \/ Return
    \/ \E at \in {"inspect", "dispose", "act", "acted"} :
          GoOn(at) /\ (at \in {"dispose", "act"} => loop.at = "decide")

-----------------------------------------------------------------------------
(* The commands of the executor.                                           *)

LEMMA CommandsAreHonest ==
    ASSUME ExecutorInv, Command
    PROVE  LoopStands /\ Lapsed = {} /\ native' = native /\ Honest(loop.id) /\ Proceed
<1>1. LoopStands
  <2>1. Idle.at = "idle"
    BY DEF Idle
  <2> QED
    BY <2>1 DEF Command, Revised, Renews, Proceeds, ExecutorInv
<1> USE <1>1
<1>2. Lapsed = {} /\ native' = native /\ (Revised \/ Renews)
  BY DEF Command
<1>3. "cancelled" \in Stopped /\ "absent" \notin Stopped
      /\ Stopped \subseteq Outcome /\ "suspended" \notin Stopped
  BY DEF Stopped, Outcome
<1>4. CASE Current /\ ObtainGrant
  <2>1. CASE /\ loop.row.state = "reserved"
             /\ Finish(Worker, loop.id, "cancelled") /\ Return
    <3>1. attempts[loop.id] \in AttemptRow
      BY TablesHere DEF LoopStands, ExecutorInv
    <3>2. View(loop.id).state = attempts[loop.id].state
      BY <3>1 DEF View, AttemptRow
    <3>3. attempts[loop.id].state = "reserved"
      BY <1>4, <2>1, <3>2 DEF Current
    <3>4. native[loop.id].state = "absent"
      BY <3>3 DEF ExecutorInv, NativeIsLater, LoopStands
    <3> QED
      BY <1>2, <1>3, <2>1, <3>4 DEF Honest, Proceed
  <2>2. CASE (Accept(Worker, loop.id) \/ ClaimResume(Worker, loop.id)) /\ GoOn("inspect")
    BY <1>2, <2>2 DEF Honest, Proceed
  <2> QED
    BY <1>4, <2>1, <2>2 DEF ObtainGrant
<1>5. CASE Reconcile
  <2>1. StillSeen(native[loop.id].state, loop.seen) /\ Return
    BY <1>5 DEF Reconcile, LoopStands
  <2>2. CASE ReconcileUnknown(Worker, loop.id)
    BY <1>2, <2>1, <2>2 DEF Honest, Proceed
  <2>3. CASE loop.seen \in Stopped /\ ReconcileStopped(Worker, loop.id, loop.seen)
    BY <1>2, <2>1, <2>3 DEF Honest, Proceed, StillSeen
  <2>4. CASE loop.seen = "suspended" /\ ReconcileSuspended(Worker, loop.id, NativeSession)
    BY <1>2, <2>1, <2>4 DEF Honest, Proceed, StillSeen
  <2>5. CASE ReconcileRunning(Worker, loop.id, NativeSession)
    BY <1>2, <2>1, <2>5 DEF Honest, Proceed
  <2> QED
    BY <1>5, <2>2, <2>3, <2>4, <2>5 DEF Reconcile
<1>6. CASE Retain
  <2>1. /\ loop.at = "decide" /\ loop.seen = "suspended"
        /\ ReconcileSuspended(Worker, loop.id, NativeSession) /\ GoOn("dispose")
    BY <1>6 DEF Retain
  <2>2. native[loop.id].state \notin {"launching", "running"}
    BY <2>1 DEF LoopStands, StillSeen
  <2> QED
    BY <1>2, <2>1, <2>2 DEF Honest, Proceed
<1>7. CASE ReportUnknown
  BY <1>2, <1>7 DEF ReportUnknown, Honest, Proceed
<1>8. CASE CancelBeforeLaunch
  <2>1. loop.at = "act" /\ loop.seen = "absent" /\ Finish(Worker, loop.id, "cancelled") /\ Return
    BY <1>8 DEF CancelBeforeLaunch, NeverLaunched
  <2>2. native[loop.id].state = "absent"
    BY <2>1 DEF LoopStands, StillSeen
  <2> QED
    BY <1>2, <1>3, <2>1, <2>2 DEF Honest, Proceed
<1>9. CASE Report
  <2>1. loop.at = "report" /\ Return
    BY <1>9 DEF Report
  <2>2. CASE loop.seen \in Stopped /\ Finish(Worker, loop.id, loop.seen)
    <3>1. native[loop.id].state = loop.seen
      BY <1>3, <2>1, <2>2 DEF LoopStands, StillSeen
    <3> QED
      BY <1>2, <2>1, <2>2, <3>1 DEF Honest, Proceed
  <2>3. CASE Started(Worker, loop.id, NativeSession) \/ ReconcileUnknown(Worker, loop.id)
    BY <1>2, <2>1, <2>3 DEF Honest, Proceed
  <2>4. CASE loop.seen = "suspended" /\ ConfirmSuspension(Worker, loop.id)
    <3>1. native[loop.id].state \notin {"launching", "running"}
      BY <2>1, <2>4 DEF LoopStands, StillSeen
    <3> QED
      BY <1>2, <2>1, <2>4, <3>1 DEF Honest, Proceed
  <2> QED
    BY <1>9, <2>2, <2>3, <2>4 DEF Report
<1>10. CASE Renews
  <2>1. /\ Heartbeat(Worker, loop.id)
        /\ \/ loop.at = "decide" /\ GoOn("act")
           \/ GoOn("acted")
    BY <1>10 DEF Renews, Proceeds
  <2> QED
    BY <1>2, <2>1 DEF Honest, Proceed
<1> QED
  BY <1>2, <1>4, <1>5, <1>6, <1>7, <1>8, <1>9, <1>10 DEF Revised

LEMMA SessionHere == Session # {} => NativeSession \in Session
  BY DEF NativeSession

\* What is over is not commanded any more.
LEMMA HonestIsActive ==
    ASSUME NEW a, Honest(a)
    PROVE  attempts[a].state # "terminal"
<1>1. ASSUME NEW p, NEW outcome, Finish(p, a, outcome) \/ ReconcileStopped(p, a, outcome)
      PROVE  attempts[a].state # "terminal"
  BY <1>1, DbFields DEF Finish, ReconcileStopped, GrantValid, Executing
<1>2. ASSUME NEW p, NEW session,
             \/ Started(p, a, session) \/ ReconcileRunning(p, a, session)
             \/ ReconcileSuspended(p, a, session)
      PROVE  attempts[a].state # "terminal"
  BY <1>2 DEF Started, ReconcileRunning, ReconcileSuspended
<1>3. ASSUME NEW p, \/ Accept(p, a) \/ ClaimResume(p, a) \/ Heartbeat(p, a)
                    \/ ReconcileUnknown(p, a) \/ ConfirmSuspension(p, a)
      PROVE  attempts[a].state # "terminal"
  BY <1>3, DbFields DEF Accept, ClaimResume, Heartbeat, ReconcileUnknown,
                        ConfirmSuspension, GrantValid, Executing
<1> QED
  BY <1>1, <1>2, <1>3, Zenon DEF Honest

LEMMA HonestIsCommand ==
    ASSUME Session # {}, NEW a, Honest(a)
    PROVE  AttemptCommand(Worker, a) /\ ~Retry(Worker, a)
<1>1. NativeSession \in Session
  BY SessionHere
<1>2. ~Retry(Worker, a)
  BY HonestIsActive DEF Retry
<1>3. AttemptCommand(Worker, a)
  <2>1. CASE \/ Accept(Worker, a) \/ ClaimResume(Worker, a) \/ Heartbeat(Worker, a)
             \/ ReconcileUnknown(Worker, a) \/ ConfirmSuspension(Worker, a)
    BY <2>1 DEF AttemptCommand
  <2>2. CASE \/ Started(Worker, a, NativeSession)
             \/ ReconcileRunning(Worker, a, NativeSession)
             \/ ReconcileSuspended(Worker, a, NativeSession)
    BY <1>1, <2>2 DEF AttemptCommand
  <2>3. ASSUME NEW outcome \in Stopped,
               Finish(Worker, a, outcome) \/ ReconcileStopped(Worker, a, outcome)
        PROVE  AttemptCommand(Worker, a)
    BY <2>3 DEF AttemptCommand, Stopped
  <2> QED
    BY <2>1, <2>2, <2>3, Zenon DEF Honest
<1> QED
  BY <1>2, <1>3

\* A command moves the rows of one attempt and of no other.
LEMMA HonestMoves ==
    ASSUME Session # {}, ExecutorInv, NEW a \in AttemptId, IsAttempt(Db, a), Honest(a)
    PROVE  \A b \in AttemptId \ {a} : attempts'[b] = attempts[b]
<1>1. PICK d : RowsMoved(Db, d, a) /\ Commit(d)
  BY HonestIsCommand, CommandMoves DEF ExecutorInv
<1>2. d.attempts = attempts' /\ Db.attempts = attempts
  BY <1>1, DbFields DEF Commit
<1> QED
  BY <1>1, <1>2 DEF RowsMoved, Touches

\* A result is the one the runtime recorded, and a suspension is one in fact.
LEMMA HonestIsTrue ==
    ASSUME ExecutorInv, NEW a \in AttemptId, IsAttempt(Db, a), Honest(a),
           attempts'[a].state # attempts[a].state
    PROVE  /\ attempts'[a].state = "terminal" =>
                 \/ native[a].state = attempts'[a].outcome
                 \/ native[a].state = "absent" /\ attempts'[a].outcome = "cancelled"
           /\ attempts'[a].state = "suspended" =>
                 native[a].state \notin {"launching", "running"}
<1>1. QueueInv
  BY DEF ExecutorInv
<1>2. CASE Accept(Worker, a)
  BY <1>1, <1>2, AcceptLeaves
<1>3. CASE ClaimResume(Worker, a)
  BY <1>1, <1>3, ResumeLeaves
<1>4. CASE Heartbeat(Worker, a)
  BY <1>1, <1>4, HeartbeatLeaves
<1>5. CASE ReconcileUnknown(Worker, a)
  BY <1>1, <1>5, UnknownLeaves
<1>6. CASE Started(Worker, a, NativeSession)
  BY <1>1, <1>6, StartedLeaves
<1>7. CASE ReconcileRunning(Worker, a, NativeSession)
  BY <1>1, <1>7, RunningLeaves
<1>8. CASE /\ ReconcileSuspended(Worker, a, NativeSession) \/ ConfirmSuspension(Worker, a)
           /\ native[a].state \notin {"launching", "running"}
  BY <1>1, <1>8, SuspensionLeaves
<1>9. ASSUME NEW outcome \in Stopped,
             Finish(Worker, a, outcome) \/ ReconcileStopped(Worker, a, outcome),
             \/ native[a].state = outcome
             \/ native[a].state = "absent" /\ outcome = "cancelled"
      PROVE  /\ attempts'[a].state = "terminal"
             /\ \/ native[a].state = attempts'[a].outcome
                \/ native[a].state = "absent" /\ attempts'[a].outcome = "cancelled"
  <2>1. IsOver(attempts'[a], outcome)
    BY <1>1, <1>9, ResultLeaves
  <2> QED
    BY <1>9, <2>1 DEF IsOver
<1> QED
  BY <1>2, <1>3, <1>4, <1>5, <1>6, <1>7, <1>8, <1>9 DEF Honest

-----------------------------------------------------------------------------
(* The steps of the executor are steps of the queue.                       *)

\* The end of a step is none of the queue's.
LEMMA EndsLeaves == Ends => Return /\ UNCHANGED <<mqVars, native>>
  BY DEF Ends

LEMMA QueueCommandRuns ==
    ASSUME NEW p, QueueCommand(p), QueueInv
    PROVE  running' = running
<1>1. ASSUME NEW d, Commit(d) PROVE running' = running
  BY <1>1 DEF Commit
<1>2. CASE Configure(p) \/ \E e \in Entity, retry_safe \in BOOLEAN : Enroll(p, e, retry_safe)
  BY <1>2 DEF Configure, Enroll, vars
<1>3. ASSUME NEW i, Withdraw(p, i) \/ ClaimNext(p, i)
      PROVE  running' = running
  BY <1>1, <1>3, Zenon DEF Withdraw, ClaimNext
<1>4. ASSUME NEW a, AttemptCommand(p, a) PROVE running' = running
  BY <1>1, <1>4, Zenon DEF AttemptCommand, Accept, Heartbeat, ConfirmSuspension, ClaimResume,
       RequestCancellation, RequestSuspension, RequestResume, Retry, ReconcileUnknown,
       ForceRecovery, Finish, ReconcileStopped, Started, ReplaceSession,
       ReconcileSuspended, ReconcileRunning, Rebind
<1> QED
  BY <1>2, <1>3, <1>4, Zenon DEF QueueCommand

LEMMA CommandIsQueue ==
    ASSUME Session # {}, ExecutorInv, Command
    PROVE  QueueNext
<1>1. /\ LoopStands /\ Lapsed = {} /\ Honest(loop.id)
      /\ loop.id \in AttemptId /\ IsAttempt(Db, loop.id)
  BY CommandsAreHonest DEF LoopStands
<1>2. Worker \in running
  BY DEF ExecutorInv
<1>3. AttemptCommand(Worker, loop.id)
  BY <1>1, HonestIsCommand
<1>4. QueueCommand(Worker)
  BY <1>1, <1>3 DEF QueueCommand
<1> QED
  BY <1>2, <1>4 DEF QueueNext

LEMMA ExecutorSteps ==
    ASSUME Session # {}, ExecutorInv, [ExecutorNext]_execVars
    PROVE  [QueueNext]_mqVars
<1>1. Worker \in running /\ running = Participant
  BY DEF ExecutorInv
<1>2. CASE Command
  BY <1>2, CommandIsQueue
<1>3. CASE Inspect \/ Dispose \/ Act \/ Reread \/ Dies \/ \E a \in AttemptId : Poll(a)
  BY <1>3 DEF Inspect, Dispose, Act, Reread, Dies, Poll
<1>4. CASE Ends
  BY <1>4, EndsLeaves
<1>5. CASE ClaimsWork
  <2>1. QueueCommand(Worker)
    BY <1>5 DEF ClaimsWork, QueueCommand
  <2> QED
    BY <1>1, <2>1 DEF QueueNext
<1>6. CASE Operators
  BY <1>1, <1>6 DEF Operators, QueueNext
<1>7. CASE Clock
  BY <1>7 DEF Clock, QueueNext
<1>8. CASE \E a \in AttemptId : Launches(a) \/ Exits(a) \/ Obeys(a)
  BY <1>8 DEF Launches, Exits, Obeys, Became
<1>9. CASE UNCHANGED execVars
  BY <1>9 DEF execVars
<1> QED
  BY <1>2, <1>3, <1>4, <1>5, <1>6, <1>7, <1>8, <1>9 DEF ExecutorNext, StepOn

\* Nobody stops in this composition.
LEMMA AllRun ==
    ASSUME Session # {}, ExecutorInv, [ExecutorNext]_execVars
    PROVE  running' = running
<1>1. QueueInv
  BY DEF ExecutorInv
<1>2. CASE Command
  <2>1. AttemptCommand(Worker, loop.id) /\ Lapsed = {}
        /\ loop.id \in AttemptId /\ IsAttempt(Db, loop.id)
    BY <1>2, CommandsAreHonest, HonestIsCommand DEF LoopStands
  <2>2. QueueCommand(Worker)
    BY <2>1 DEF QueueCommand
  <2> QED
    BY <1>1, <2>2, QueueCommandRuns
<1>3. CASE UNCHANGED mqVars
  BY <1>3 DEF mqVars, vars
<1>4. CASE Inspect \/ Dispose \/ Act \/ Reread \/ Dies \/ \E a \in AttemptId : Poll(a)
  BY <1>3, <1>4 DEF Inspect, Dispose, Act, Reread, Dies, Poll
<1>5. CASE Ends
  BY <1>3, <1>5, EndsLeaves
<1>6. CASE ClaimsWork
  <2>1. QueueCommand(Worker)
    BY <1>6 DEF ClaimsWork, QueueCommand
  <2> QED
    BY <1>1, <2>1, QueueCommandRuns
<1>7. CASE Operators
  BY <1>1, <1>7, QueueCommandRuns DEF Operators
<1>8. CASE Clock
  BY <1>8 DEF Clock, QueueTick, ExpireAttempts, Commit, Tick
<1>9. CASE \E a \in AttemptId : Launches(a) \/ Exits(a) \/ Obeys(a)
  BY <1>3, <1>9 DEF Launches, Exits, Obeys, Became
<1>10. CASE UNCHANGED execVars
  BY <1>3, <1>10 DEF execVars
<1> QED
  BY <1>2, <1>4, <1>5, <1>6, <1>7, <1>8, <1>9, <1>10 DEF ExecutorNext, StepOn

-----------------------------------------------------------------------------
(* The induction step.                                                     *)

\* What a step of the queue leaves of the attempts.
Later ==
    /\ QueueInv' /\ running' = Participant
    /\ \A a \in AttemptId : IsAttempt(Db, a) =>
          /\ IsAttempt(Db, a)' /\ attempts'[a] \in AttemptRow
          /\ attempts'[a].state = "reserved" => attempts[a].state = "reserved"

LEMMA StepsAreLater ==
    ASSUME Session # {}, ExecutorInv, [ExecutorNext]_execVars
    PROVE  Later
<1>1. QueueInv' /\ Keeps(Db, Db')
  BY ExecutorSteps, QueueSteps DEF ExecutorInv
<1>2. running' = Participant
  BY AllRun DEF ExecutorInv
<1>3. Db.attempts = attempts /\ Db'.attempts = attempts'
  BY DEF Db
<1>4. Db' \in Contents
  BY <1>1 DEF QueueInv, RowsAgree
<1> QED
  BY <1>1, <1>2, <1>3, <1>4 DEF Later, Keeps, ReservationsAreFirst, IsAttempt, Contents

\* The runtime stays behind the queue when its record does not change.
LEMMA NativeStays ==
    ASSUME ExecutorInv, Later, native' = native
    PROVE  native' \in [AttemptId -> NativeRow] /\ NativeIsLater'
  BY DEF ExecutorInv, NativeIsLater, Later

\* A step of others: what was read and seen goes on to hold.
LEMMA OthersLeaveTheLoop ==
    ASSUME ExecutorInv, Later, native' = native, loop' = loop
    PROVE  ExecutorInv'
<1>1. native' \in [AttemptId -> NativeRow] /\ NativeIsLater'
  BY NativeStays
<1>2. CASE loop = Idle
  BY <1>1, <1>2 DEF ExecutorInv, Later
<1>3. CASE LoopStands
  <2>1. LoopStands'
    BY <1>3 DEF LoopStands, Later, StillSeen, LoopShape
  <2> QED
    BY <1>1, <2>1 DEF ExecutorInv, Later
<1> QED
  BY <1>2, <1>3 DEF ExecutorInv

LEMMA ReturnsKeep ==
    ASSUME ExecutorInv, Later, native' = native, Return
    PROVE  ExecutorInv'
<1>1. native' \in [AttemptId -> NativeRow] /\ NativeIsLater'
  BY NativeStays
<1> QED
  BY <1>1 DEF ExecutorInv, Later, Return, Idle

LEMMA CommandKeepsLoop ==
    ASSUME ExecutorInv, Later, Command
    PROVE  ExecutorInv'
<1>1. /\ LoopStands /\ native' = native /\ Proceed
      /\ LoopShape(loop) /\ loop.id \in AttemptId /\ IsAttempt(Db, loop.id)
  BY CommandsAreHonest DEF LoopStands
<1>2. CASE Return
  BY <1>1, <1>2, ReturnsKeep
<1>3. ASSUME NEW at \in {"inspect", "dispose", "act", "acted"}, GoOn(at),
             at \in {"dispose", "act"} => loop.at = "decide"
      PROVE  LoopStands'
  <2> DEFINE row == ViewNext(loop.id)
  <2>1. IsAttempt(Db', loop.id) /\ attempts'[loop.id] \in AttemptRow
    BY <1>1 DEF Later
  <2>2. row.state = attempts'[loop.id].state
    BY <2>1 DEF ViewNext, AttemptRow
  <2>3. loop' = [loop EXCEPT !.at = at, !.row = row, !.grant = TRUE]
    BY <1>3 DEF GoOn
  <2> HIDE DEF row
  <2>4. /\ LoopShape(loop') /\ loop'.at = at /\ loop'.id = loop.id
        /\ loop'.row = row /\ loop'.seen = loop.seen
    BY <1>1, <2>3 DEF LoopShape
  <2>5. at \in {"dispose", "act"} => StillSeen(native[loop.id].state, loop.seen)
    BY <1>1, <1>3 DEF LoopStands
  <2> QED
    BY <1>1, <1>3, <2>1, <2>2, <2>4, <2>5 DEF LoopStands
<1>4. native' \in [AttemptId -> NativeRow] /\ NativeIsLater'
  BY <1>1, NativeStays
<1> QED
  BY <1>1, <1>2, <1>3, <1>4 DEF Proceed, ExecutorInv, Later

LEMMA PollKeeps ==
    ASSUME ExecutorInv, Later, NEW a \in AttemptId, Poll(a)
    PROVE  ExecutorInv'
<1>1. /\ IsAttempt(Db, a) /\ native' = native /\ attempts' = attempts /\ UNCHANGED mqVars
      /\ \E at \in {"grant", "inspect"} :
            loop' = [at |-> at, id |-> a, row |-> View(a),
                     grant |-> GrantValid(Db, a, Worker), seen |-> "nothing"]
  BY DEF Poll, Active, mqVars, queueVars
<1>2. IsAttempt(Db, a)' /\ attempts[a] \in AttemptRow
  BY <1>1 DEF Later
<1>3. View(a).state = attempts[a].state
  BY <1>2 DEF View, AttemptRow
<1>4. LoopStands'
  BY <1>1, <1>2, <1>3 DEF LoopStands, LoopShape
<1>5. native' \in [AttemptId -> NativeRow] /\ NativeIsLater'
  BY <1>1, NativeStays
<1> QED
  BY <1>4, <1>5 DEF ExecutorInv, Later

LEMMA InspectKeeps ==
    ASSUME ExecutorInv, Later, Inspect
    PROVE  ExecutorInv'
<1>1. /\ LoopStands /\ LoopShape(loop) /\ loop.id \in AttemptId /\ IsAttempt(Db, loop.id)
  <2>1. loop # Idle
    BY DEF Inspect, Idle
  <2> QED
    BY <2>1 DEF ExecutorInv, LoopStands
<1>2. /\ native' = native /\ attempts' = attempts /\ loop.at \in {"inspect", "acted"}
  BY DEF Inspect, mqVars, queueVars
<1>3. PICK seen \in Observed(loop.id) :
          loop' = [loop EXCEPT !.at = IF @ = "inspect" THEN "decide" ELSE "reread",
                               !.seen = seen]
  BY DEF Inspect
<1>4. PICK at \in {"decide", "reread"} : loop' = [loop EXCEPT !.at = at, !.seen = seen]
  BY <1>3
<1>5. /\ LoopShape(loop') /\ loop'.at = at /\ loop'.id = loop.id
      /\ loop'.row = loop.row /\ loop'.seen = seen
  BY <1>1, <1>4 DEF LoopShape
<1>6. StillSeen(native[loop.id].state, seen)
  BY <1>3 DEF Observed, StillSeen, Stopped, Outcome
<1>7. LoopStands'
  BY <1>1, <1>2, <1>5, <1>6 DEF LoopStands, Later
<1>8. native' \in [AttemptId -> NativeRow] /\ NativeIsLater'
  BY <1>2, NativeStays
<1> QED
  BY <1>7, <1>8 DEF ExecutorInv, Later

LEMMA RereadKeeps ==
    ASSUME ExecutorInv, Later, Reread
    PROVE  ExecutorInv'
<1>1. /\ LoopStands /\ LoopShape(loop) /\ loop.id \in AttemptId /\ IsAttempt(Db, loop.id)
  <2>1. loop # Idle
    BY DEF Reread, Idle
  <2> QED
    BY <2>1 DEF ExecutorInv, LoopStands
<1>2. /\ native' = native /\ attempts' = attempts /\ loop.at = "reread"
      /\ Return \/ loop' = [loop EXCEPT !.at = "report", !.row = View(loop.id)]
  BY DEF Reread, mqVars, queueVars
<1>3. CASE Return
  BY <1>2, <1>3, ReturnsKeep
<1>4. CASE loop' = [loop EXCEPT !.at = "report", !.row = View(loop.id)]
  <2>1. /\ LoopShape(loop') /\ loop'.at = "report" /\ loop'.id = loop.id
        /\ loop'.row = View(loop.id) /\ loop'.seen = loop.seen
    BY <1>1, <1>4 DEF LoopShape
  <2>2. IsAttempt(Db', loop.id) /\ attempts[loop.id] \in AttemptRow
    BY <1>1, <1>2 DEF Later
  <2>3. View(loop.id).state = attempts[loop.id].state
    BY <2>2 DEF View, AttemptRow
  <2>4. LoopStands'
    BY <1>1, <1>2, <2>1, <2>2, <2>3 DEF LoopStands
  <2>5. native' \in [AttemptId -> NativeRow] /\ NativeIsLater'
    BY <1>2, NativeStays
  <2> QED
    BY <2>4, <2>5 DEF ExecutorInv, Later
<1> QED
  BY <1>2, <1>3, <1>4

\* The runtime's record of one attempt is replaced.
LEMMA RecordReplaced ==
    ASSUME ExecutorInv, Later, NEW a \in AttemptId, NEW row \in NativeRow,
           native' = [native EXCEPT ![a] = row],
           row.state = "absent" \/ (IsAttempt(Db, a) /\ attempts[a].state # "reserved")
    PROVE  native' \in [AttemptId -> NativeRow] /\ NativeIsLater'
  BY DEF ExecutorInv, NativeIsLater, Later

\* The runtime's own steps contradict nothing that was seen of it.
LEMMA RuntimeKeeps ==
    ASSUME ExecutorInv, Later, NEW a \in AttemptId, Launches(a) \/ Exits(a) \/ Obeys(a)
    PROVE  ExecutorInv'
<1>1. native[a] \in NativeRow
  BY DEF ExecutorInv
<1>2. \E state \in {"running"} \cup Stopped :
          /\ Became(a, state) /\ native[a].state \in {"launching", "running", "suspended"}
          /\ state = "running" => native[a].state = "launching"
  BY DEF Launches, Exits, Obeys, Stopped, Outcome
<1>3. PICK state \in {"running"} \cup Stopped :
          /\ Became(a, state) /\ native[a].state \in {"launching", "running", "suspended"}
          /\ state = "running" => native[a].state = "launching"
  BY <1>2
<1> DEFINE row == [native[a] EXCEPT !.state = state]
<1>4. row \in NativeRow /\ row.state = state
  BY <1>1 DEF NativeRow
<1>5. /\ native' = [native EXCEPT ![a] = row] /\ loop' = loop /\ attempts' = attempts
  BY <1>3 DEF Became, mqVars, queueVars
<1> HIDE DEF row
<1>6. IsAttempt(Db, a) /\ attempts[a].state # "reserved"
  BY <1>3 DEF ExecutorInv, NativeIsLater
<1>7. native' \in [AttemptId -> NativeRow] /\ NativeIsLater'
  BY <1>4, <1>5, <1>6, RecordReplaced
<1>8. ASSUME NEW b \in AttemptId, NEW seen, StillSeen(native[b].state, seen)
      PROVE  StillSeen(native'[b].state, seen)
  <2>1. CASE b # a
    BY <1>5, <1>8, <2>1 DEF ExecutorInv
  <2>2. CASE b = a
    <3>1. native'[b].state = state
      BY <1>4, <1>5, <2>2 DEF ExecutorInv
    <3> QED
      BY <1>3, <1>8, <2>2, <3>1 DEF StillSeen, Stopped, Outcome
  <2> QED
    BY <2>1, <2>2
<1>9. CASE loop = Idle
  BY <1>5, <1>7, <1>9 DEF ExecutorInv, Later
<1>10. CASE LoopStands
  <2>1. LoopStands'
    BY <1>5, <1>8, <1>10 DEF LoopStands, Later
  <2> QED
    BY <1>7, <2>1 DEF ExecutorInv, Later
<1> QED
  BY <1>9, <1>10 DEF ExecutorInv

LEMMA DisposeKeeps ==
    ASSUME ExecutorInv, Later, Dispose
    PROVE  ExecutorInv'
<1>1. loop.id \in AttemptId
  <2>1. loop # Idle
    BY DEF Dispose, Idle
  <2> QED
    BY <2>1 DEF ExecutorInv, LoopStands
<1> DEFINE row == [native[loop.id] EXCEPT !.cancel = TRUE]
<1>2. native[loop.id] \in NativeRow /\ TRUE \in BOOLEAN
  BY <1>1 DEF ExecutorInv
<1>3. row \in NativeRow /\ row.state = native[loop.id].state
  BY <1>2 DEF NativeRow
<1>4. native' = [native EXCEPT ![loop.id] = row] /\ Return
  BY DEF Dispose
<1>5. row.state = "absent" \/ (IsAttempt(Db, loop.id) /\ attempts[loop.id].state # "reserved")
  BY <1>1, <1>3 DEF ExecutorInv, NativeIsLater
<1> HIDE DEF row
<1>6. native' \in [AttemptId -> NativeRow] /\ NativeIsLater'
  BY <1>1, <1>3, <1>4, <1>5, RecordReplaced
<1> QED
  BY <1>4, <1>6 DEF ExecutorInv, Later, Return, Idle

LEMMA ActKeeps ==
    ASSUME ExecutorInv, Later, Act
    PROVE  ExecutorInv'
<1>1. /\ LoopStands /\ LoopShape(loop) /\ loop.id \in AttemptId /\ IsAttempt(Db, loop.id)
  <2>1. loop # Idle
    BY DEF Act, Idle
  <2> QED
    BY <2>1 DEF ExecutorInv, LoopStands
<1>2. /\ attempts' = attempts /\ loop.at = "act" /\ loop' = [loop EXCEPT !.at = "acted"]
  BY DEF Act, mqVars, queueVars
<1>3. PICK row \in Called \cup {native[loop.id]} : native' = [native EXCEPT ![loop.id] = row]
  BY DEF Act
<1>4. native[loop.id] \in NativeRow /\ TRUE \in BOOLEAN
  BY <1>1 DEF ExecutorInv
<1>5. \/ row \in {[native[loop.id] EXCEPT !.cancel = TRUE], native[loop.id]}
      \/ /\ loop.row.state = "starting"
         /\ row = [native[loop.id] EXCEPT !.state = "launching"]
      \/ /\ native[loop.id].state # "absent"
         /\ \E state \in {"running", "suspended"} :
                row = [native[loop.id] EXCEPT !.state = state]
  BY <1>3 DEF Called
<1>6. row \in NativeRow
      /\ (row.state = native[loop.id].state \/ loop.row.state = "starting"
          \/ native[loop.id].state # "absent")
  BY <1>4, <1>5 DEF NativeRow
<1>7. row.state = "absent" \/ attempts[loop.id].state # "reserved"
  BY <1>1, <1>6 DEF LoopStands, ExecutorInv, NativeIsLater
<1>8. native' \in [AttemptId -> NativeRow] /\ NativeIsLater'
  BY <1>1, <1>3, <1>6, <1>7, RecordReplaced
<1>9. /\ LoopShape(loop') /\ loop'.at = "acted" /\ loop'.id = loop.id /\ loop'.row = loop.row
  BY <1>1, <1>2 DEF LoopShape
<1>10. LoopStands'
  BY <1>1, <1>2, <1>9 DEF LoopStands, Later
<1> QED
  BY <1>8, <1>10 DEF ExecutorInv, Later

LEMMA ExecutorStarts == ExecutorInit => ExecutorInv
<1> SUFFICES ASSUME ExecutorInit PROVE ExecutorInv
  OBVIOUS
<1>1. QueueInv /\ running = Participant
  BY QueueStarts DEF ExecutorInit, QueueInit, Init
<1>2. [state |-> "absent", cancel |-> FALSE] \in NativeRow
  <2>1. FALSE \in BOOLEAN
    OBVIOUS
  <2> QED
    BY <2>1 DEF NativeRow
<1>3. native \in [AttemptId -> NativeRow] /\ NativeIsLater /\ loop = Idle
  BY <1>2 DEF ExecutorInit, NativeIsLater
<1> QED
  BY <1>1, <1>3 DEF ExecutorInv

\* The induction step of the composition.
LEMMA ExecutorKeeps ==
    ASSUME Session # {}, ExecutorInv, [ExecutorNext]_execVars
    PROVE  ExecutorInv'
<1> USE StepsAreLater
<1>1. CASE Command
  BY <1>1, CommandKeepsLoop
<1>2. CASE Inspect
  BY <1>2, InspectKeeps
<1>3. CASE Dispose
  BY <1>3, DisposeKeeps
<1>4. CASE Act
  BY <1>4, ActKeeps
<1>5. CASE Reread
  BY <1>5, RereadKeeps
<1>6. CASE Ends
  BY <1>6, EndsLeaves, ReturnsKeep
<1>7. CASE Dies
  BY <1>7, ReturnsKeep DEF Dies
<1>8. ASSUME NEW a \in AttemptId, Poll(a) PROVE ExecutorInv'
  BY <1>8, PollKeeps
<1>9. CASE ClaimsWork \/ Operators \/ Clock
  BY <1>9, OthersLeaveTheLoop DEF ClaimsWork, Operators, Clock
<1>10. ASSUME NEW a \in AttemptId, Launches(a) \/ Exits(a) \/ Obeys(a)
       PROVE  ExecutorInv'
  BY <1>10, RuntimeKeeps
<1>11. CASE UNCHANGED execVars
  BY <1>11, OthersLeaveTheLoop DEF execVars
<1> QED
  BY <1>1, <1>2, <1>3, <1>4, <1>5, <1>6, <1>7, <1>8, <1>9, <1>10, <1>11
  DEF ExecutorNext, StepOn

\* A step of the call that changes an attempt is a command about that attempt.
LEMMA OnlyCommandsReport ==
    ASSUME Session # {}, ExecutorInv, ExecutorNext, loop' # loop,
           NEW a \in AttemptId, Active(a), attempts'[a].state # attempts[a].state
    PROVE  IsAttempt(Db, a) /\ Honest(a)
<1>1. CASE Command
  <2>1. loop.id \in AttemptId /\ IsAttempt(Db, loop.id) /\ Honest(loop.id)
    BY <1>1, CommandsAreHonest DEF LoopStands
  <2>2. a = loop.id
    BY <2>1, HonestMoves
  <2> QED
    BY <2>1, <2>2
<1>2. CASE UNCHANGED mqVars
  BY <1>2 DEF mqVars, queueVars
<1>3. CASE Inspect \/ Dispose \/ Act \/ Reread \/ Dies \/ \E b \in AttemptId : Poll(b)
  BY <1>2, <1>3 DEF Inspect, Dispose, Act, Reread, Dies, Poll
<1>4. CASE Ends
  BY <1>2, <1>4, EndsLeaves
<1>5. CASE ClaimsWork \/ Operators \/ Clock
  BY <1>5 DEF ClaimsWork, Operators, Clock
<1>6. CASE \E b \in AttemptId : Launches(b) \/ Exits(b) \/ Obeys(b)
  BY <1>6 DEF Launches, Exits, Obeys, Became
<1> QED
  BY <1>1, <1>3, <1>4, <1>5, <1>6 DEF ExecutorNext, StepOn

-----------------------------------------------------------------------------
(* What holds in every execution, when there are sessions to report.       *)

\* What a call of step() relies on after its awaits still holds, whatever
\* operators, clock and runtime did between them (QueueExecutor.advance).
THEOREM ExecutorHolds == Session # {} => (ExecutorSpec => []ExecutorInv)
<1> SUFFICES ASSUME Session # {} PROVE ExecutorSpec => []ExecutorInv
  OBVIOUS
<1>1. ExecutorInit => ExecutorInv
  BY ExecutorStarts
<1>2. ExecutorInv /\ [ExecutorNext]_execVars => ExecutorInv'
  BY ExecutorKeeps
<1>3. QED
  BY <1>1, <1>2, PTL DEF ExecutorSpec

\* An executor beside its operators is one more user of the queue: every step of
\* the two and of the runtime is a step of the queue or none of its business, so
\* what is proved of the queue holds of it (every executor call is a queue command).
THEOREM ExecutorObeysQueue == Session # {} => (ExecutorSpec => QueueSpec)
<1> SUFFICES ASSUME Session # {} PROVE ExecutorSpec => QueueSpec
  OBVIOUS
<1>1. ExecutorInit => QueueInit
  BY DEF ExecutorInit
<1>2. ExecutorInv /\ [ExecutorNext]_execVars => [QueueNext]_mqVars
  BY ExecutorSteps
<1>3. ExecutorSpec => []ExecutorInv
  BY ExecutorHolds
<1>4. QED
  BY <1>1, <1>2, <1>3, PTL DEF ExecutorSpec, QueueSpec

\* A result that the executor reports is the one the runtime recorded, a
\* cancellation without one is of work that never ran, and what it confirms as
\* suspended is not running ("Only confirmed stopped execution or safe quiescence
\* releases the applicable reservation", docs/05-OPERATIONS.md).
THEOREM ReportsHold == Session # {} => (ExecutorSpec => ReportsAreTrue)
<1> SUFFICES ASSUME Session # {} PROVE ExecutorSpec => ReportsAreTrue
  OBVIOUS
<1>1. ExecutorInv /\ [ExecutorNext]_execVars =>
        [loop.at # "idle" /\ loop' # loop =>
            \A a \in AttemptId :
                Active(a) /\ attempts'[a].state # attempts[a].state =>
                    /\ attempts'[a].state = "terminal" =>
                          \/ native[a].state = attempts'[a].outcome
                          \/ native[a].state = "absent" /\ attempts'[a].outcome = "cancelled"
                    /\ attempts'[a].state = "suspended" =>
                          native[a].state \notin {"launching", "running"}]_execVars
  <2> SUFFICES ASSUME ExecutorInv, [ExecutorNext]_execVars, loop' # loop,
                      NEW a \in AttemptId, Active(a),
                      attempts'[a].state # attempts[a].state
               PROVE  /\ attempts'[a].state = "terminal" =>
                            \/ native[a].state = attempts'[a].outcome
                            \/ /\ native[a].state = "absent"
                               /\ attempts'[a].outcome = "cancelled"
                      /\ attempts'[a].state = "suspended" =>
                            native[a].state \notin {"launching", "running"}
    OBVIOUS
  <2>1. ExecutorNext
    BY DEF execVars
  <2>2. IsAttempt(Db, a) /\ Honest(a)
    BY <2>1, OnlyCommandsReport
  <2> QED
    BY <2>2, HonestIsTrue
<1>2. ExecutorSpec => []ExecutorInv
  BY ExecutorHolds
<1>3. QED
  BY <1>1, <1>2, PTL DEF ExecutorSpec, ReportsAreTrue
=============================================================================
