----------------------------- MODULE QueueProofs -----------------------------
(***************************************************************************)
(* Theorems about module ManagedQueue, for every number of tasks, entries, *)
(* attempts, questions and sessions, every policy and every bound.         *)
(*                                                                         *)
(* The argument rests on one inductive invariant, QueueInv: the contents   *)
(* of the database agree with each other (RowsAgree, module AttemptProofs) *)
(* and nobody executes without a claim row.  Fifteen of the commands are a *)
(* move of the rows of one unfinished attempt (RowsMoved); each of the     *)
(* other requests has a lemma of its own.  What a step keeps of the state  *)
(* before it (Keeps) gives the action properties.                          *)
(*                                                                         *)
(* The last part shows that what module CoordinationProofs proves of the   *)
(* requests beside the queue holds with the queue as well: InOrder adds to *)
(* QueueInv that claims, fences, grants and writes agree, and Advances is  *)
(* what a step does to them.                                               *)
(***************************************************************************)
EXTENDS ManagedQueue, AttemptProofs, CoordinationProofs

USE PrincipalOfAssumption, MaxTtlAssumption, NoClaimAssumption, NameAssumption,
    MortalAssumption, MaxFenceAssumption, IdAssumption, MaintainerAssumption,
    PolicyAssumption, MappingAssumption, RetryAssumption, MaxGrantAssumption,
    NoRowAssumption

-----------------------------------------------------------------------------
(* Commands on an unfinished attempt, in contents s.                       *)

\* The attempt row changes, the grant and the place do not.
LEMMA RowMoves ==
    ASSUME NEW s, RowsAgree(s), ExecutionsHaveClaims(s), NEW a \in AttemptId,
           ActiveIn(s, a), NEW w, Touches(s, w, a),
           w.claims = s.claims, w.fences = s.fences,
           w.entries = s.entries, w.reservations = s.reservations,
           \A e \in Entity : w.work[e] = "terminal" => s.work[e] = "terminal",
           NEW u, Becomes(s.attempts[a], u), u.state # "terminal",
           u.state \in Executing <=> s.attempts[a].state \in Executing,
           u.state \in Holding <=> s.attempts[a].state \in Holding,
           u.fence = s.attempts[a].fence, u.left = s.attempts[a].left,
           u.owner = s.attempts[a].owner,
           ~(u.cancel /\ ~s.attempts[a].cancel) \/ NoneOpen(w, a)
    PROVE  RowsMoved(s, SetAttempt(w, a, u), a)
<1> DEFINE d == SetAttempt(w, a, u)
<1>1. Attached(s, a) /\ s \in Contents /\ IsAttempt(s, a)
  BY ActiveRows DEF RowsAgree, ActiveIn
<1>2. /\ Touches(s, d, a) /\ d.attempts[a] = u
      /\ d.entries = w.entries /\ d.reservations = w.reservations
      /\ d.claims = w.claims /\ d.fences = w.fences /\ d.work = w.work
      /\ d.questions = w.questions
  <2>1. AttemptSet(s, w, a, u)
    BY <1>1, SetAttemptRows
  <2> QED
    BY <2>1 DEF AttemptSet
<1> HIDE DEF d
<1>3. s.attempts[a].state \in Executing => s.claims[ResourceOf(s, a)] # NoClaim
  BY <1>1 DEF ExecutionsHaveClaims
<1>4. ClaimMoved(s, d, a)
  BY <1>2, <1>3, GrantKept
<1>5. PlaceMoved(s, d, a)
  BY <1>2, PlaceKept
<1>6. EndsTogether(s, d, a)
  <2>1. s.attempts[a].task \in Entity
    BY <1>1, AttemptTypes
  <2>2. NoneOpen(w, a) => NoneOpen(d, a)
    BY <1>2 DEF NoneOpen
  <2> QED
    BY <1>2, <2>1, <2>2 DEF EndsTogether
<1> QED
  BY <1>2, <1>4, <1>5, <1>6 DEF RowsMoved, d

\* The attempt goes on under a fresh grant, in the slot it has or has taken.
LEMMA RegrantMoves ==
    ASSUME NEW s, RowsAgree(s), NEW a \in AttemptId, ActiveIn(s, a),
           NEW p \in Participant, policy.lease \in Ttl, NEW d,
           Touches(s, d, a),
           d.claims = Refenced(s, a, p).claims, d.fences = Refenced(s, a, p).fences,
           d.work = Refenced(s, a, p).work, d.questions = Refenced(s, a, p).questions,
           d.entries = s.entries,
           d.attempts[a].state \in Executing,
           d.attempts[a].fence = Refenced(s, a, p).attempts[a].fence,
           d.attempts[a].left = Refenced(s, a, p).attempts[a].left,
           d.attempts[a].owner = Refenced(s, a, p).attempts[a].owner,
           \/ d.reservations = s.reservations /\ s.attempts[a].state \in Holding
           \/ d.reservations[s.attempts[a].task]
                = Taken(s.reservations[s.attempts[a].task])
    PROVE  RowsMoved(s, d, a)
<1>1. NoneOpen(Refenced(s, a, p), a) /\ Refenced(s, a, p).work = s.work
  BY FreshGrant
<1>2. ClaimMoved(s, d, a)
  BY TakenAnew
<1>3. d.attempts[a].state # "terminal" /\ d.attempts[a].state \in Holding
  BY DEF Executing, Holding
<1>4. PlaceMoved(s, d, a)
  <2>1. CASE d.reservations = s.reservations /\ s.attempts[a].state \in Holding
    BY <1>3, <2>1, PlaceKept
  <2>2. CASE d.reservations[s.attempts[a].task]
                = Taken(s.reservations[s.attempts[a].task])
    <3> DEFINE place == Taken(s.reservations[s.attempts[a].task])
    <3>1. IsPlace(place, s.attempts[a].entry) /\ place.held
      BY TurnedRow
    <3> HIDE DEF place
    <3>2. d.reservations[s.attempts[a].task] = place
      BY <2>2 DEF place
    <3> QED
      BY <1>3, <3>1, <3>2, PlaceTurned
  <2> QED
    BY <2>1, <2>2
<1>5. EndsTogether(s, d, a)
  BY <1>1 DEF EndsTogether, NoneOpen
<1> QED
  BY <1>2, <1>4, <1>5 DEF RowsMoved

\* The execution is suspended: its grant and its slot are given up.
LEMMA SuspendMoves ==
    ASSUME NEW s, RowsAgree(s), NEW a \in AttemptId, ActiveIn(s, a), NEW u,
           Becomes(s.attempts[a], u), u.state = "suspended",
           u.fence = s.attempts[a].fence, u.cancel = s.attempts[a].cancel
    PROVE  LET d == SetPlace(SetAttempt(Revoked(s, a), a, u), s.attempts[a].task,
                             Freed(s.reservations[s.attempts[a].task]))
           IN RowsMoved(s, d, a) /\ d.attempts[a] = u
<1> DEFINE e == s.attempts[a].task
           w == Revoked(s, a)
           x == SetAttempt(w, a, u)
           place == Freed(s.reservations[e])
           d == SetPlace(x, e, place)
<1>1. s \in Contents /\ IsAttempt(s, a) /\ Attached(s, a)
  BY ActiveRows DEF RowsAgree, ActiveIn
<1>2. Touches(s, w, a)
  BY <1>1, RevokedTouches
<1>3. w.entries = s.entries /\ w.work = s.work
  BY <1>1, RevokedRows
<1>4. IsPlace(place, s.attempts[a].entry) /\ ~place.held
  BY TurnedRow
<1> HIDE DEF place
<1>5. /\ Touches(s, x, a) /\ x.attempts[a] = u
      /\ x.entries = w.entries
      /\ x.claims = w.claims /\ x.fences = w.fences /\ x.work = w.work
  <2>1. AttemptSet(s, w, a, u)
    BY <1>1, <1>2, SetAttemptRows
  <2> QED
    BY <2>1 DEF AttemptSet
<1> HIDE DEF x
<1>6. /\ Touches(s, d, a) /\ d.reservations[e] = place
      /\ d.entries = x.entries /\ d.attempts = x.attempts
      /\ d.claims = x.claims /\ d.fences = x.fences /\ d.work = x.work
  <2>1. place \in ReservationRow \cup {NoRow}
    BY <1>4 DEF IsPlace
  <2>2. PlaceSet(s, x, a, place)
    BY <1>1, <1>5, <2>1, SetPlaceRows
  <2> QED
    BY <2>2 DEF PlaceSet
<1> HIDE DEF d
<1>7. ClaimMoved(s, d, a)
  BY <1>5, <1>6, GivenUp DEF Executing
<1>8. PlaceMoved(s, d, a)
  BY <1>3, <1>4, <1>5, <1>6, PlaceTurned DEF Holding, Executing
<1>9. EndsTogether(s, d, a)
  BY <1>3, <1>5, <1>6 DEF EndsTogether
<1> QED
  BY <1>5, <1>6, <1>7, <1>8, <1>9 DEF RowsMoved, d, x, place

\* The attempt is over under the grant it has.
LEMMA EndedMoves ==
    ASSUME NEW s, RowsAgree(s), NEW a \in AttemptId, ActiveIn(s, a), NEW d,
           EndedBy(s, d, a)
    PROVE  RowsMoved(s, d, a) /\ d.attempts[a].state = "terminal"
<1> DEFINE r == ResourceOf(s, a)
<1>1. /\ Attached(s, a) /\ s.attempts[a].fence <= s.fences[r]
      /\ s.claims[r] # NoClaim => s.claims[r].fence = s.fences[r]
  BY ActiveRows
<1>2. s.fences[r] \in Nat
  <2>1. s \in Contents /\ IsAttempt(s, a)
    BY DEF RowsAgree, ActiveIn
  <2> QED
    BY <2>1, AttemptTypes, RowTypes
<1>3. Touches(s, s, a)
  BY <1>1, TouchesItself
<1>4. s.fences[r] >= s.fences[r]
  BY <1>2
<1>5. RowsMoved(s, d, a)
  BY <1>1, <1>3, <1>4, EndMoves
<1> QED
  BY <1>5 DEF EndedBy

\* The rows that the commands leave.
AcceptedRow(t) == [t EXCEPT !.state = "starting", !.accepted = TRUE]
StartedRow(t, session) == [t EXCEPT !.state = "running", !.session = session]
CancelledRow(t) == [t EXCEPT !.cancel = TRUE]
ToSuspendRow(t) == [t EXCEPT !.suspend = TRUE]
ToResumeRow(t) == [t EXCEPT !.state = "resume_pending"]
ResumedRow(t) == [t EXCEPT !.state = "starting"]
SessionRow(t, session) == [t EXCEPT !.session = session]
SuspendedRow(t) == [t EXCEPT !.state = "suspended", !.left = 0, !.suspend = FALSE]
FoundSuspendedRow(t, session) ==
    [t EXCEPT !.state = "suspended", !.left = 0, !.suspend = FALSE, !.session = session]
BeatenRow(t, left) == [t EXCEPT !.left = left]

\* The grant in the row, and whether it is to be cancelled, are unchanged.
SameGrant(t, u) ==
    u.fence = t.fence /\ u.left = t.left /\ u.owner = t.owner

LEMMA AcceptedRowIs ==
    ASSUME NEW t \in AttemptRow
    PROVE  LET u == AcceptedRow(t) IN
           Becomes(t, u) /\ SameGrant(t, u) /\ u.state = "starting" /\ u.cancel = t.cancel
<1> DEFINE u == [t EXCEPT !.state = "starting", !.accepted = TRUE]
<1>1. u \in AttemptRow
  BY DEF AttemptRow
<1>2. /\ u.entry = t.entry /\ u.task = t.task /\ u.pred = t.pred /\ u.fence = t.fence
      /\ u.left = t.left /\ u.owner = t.owner /\ u.state = "starting"
  BY DEF AttemptRow
<1>3. u.accepted /\ u.cancel = t.cancel
  BY DEF AttemptRow
<1> QED
  BY <1>1, <1>2, <1>3 DEF AcceptedRow, Becomes, SameGrant

LEMMA StartedRowIs ==
    ASSUME NEW t \in AttemptRow, NEW session \in Session
    PROVE  LET u == StartedRow(t, session) IN
           Becomes(t, u) /\ SameGrant(t, u) /\ u.state = "running" /\ u.cancel = t.cancel
<1> DEFINE u == [t EXCEPT !.state = "running", !.session = session]
<1>1. u \in AttemptRow
  BY DEF AttemptRow
<1>2. /\ u.entry = t.entry /\ u.task = t.task /\ u.pred = t.pred /\ u.fence = t.fence
      /\ u.left = t.left /\ u.owner = t.owner /\ u.state = "running"
  BY DEF AttemptRow
<1>3. u.accepted = t.accepted /\ u.cancel = t.cancel
  BY DEF AttemptRow
<1> QED
  BY <1>1, <1>2, <1>3 DEF StartedRow, Becomes, SameGrant

LEMMA CancelledRowIs ==
    ASSUME NEW t \in AttemptRow
    PROVE  LET u == CancelledRow(t) IN
           Becomes(t, u) /\ SameGrant(t, u) /\ u.state = t.state
<1> DEFINE u == [t EXCEPT !.cancel = TRUE]
<1>1. u \in AttemptRow
  BY DEF AttemptRow
<1>2. /\ u.entry = t.entry /\ u.task = t.task /\ u.pred = t.pred /\ u.fence = t.fence
      /\ u.left = t.left /\ u.owner = t.owner /\ u.state = t.state
  BY DEF AttemptRow
<1>3. u.accepted = t.accepted /\ u.cancel
  BY DEF AttemptRow
<1> QED
  BY <1>1, <1>2, <1>3 DEF CancelledRow, Becomes, SameGrant

LEMMA ToSuspendRowIs ==
    ASSUME NEW t \in AttemptRow
    PROVE  LET u == ToSuspendRow(t) IN
           Becomes(t, u) /\ SameGrant(t, u) /\ u.state = t.state /\ u.cancel = t.cancel
<1> DEFINE u == [t EXCEPT !.suspend = TRUE]
<1>1. u \in AttemptRow
  BY DEF AttemptRow
<1>2. /\ u.entry = t.entry /\ u.task = t.task /\ u.pred = t.pred /\ u.fence = t.fence
      /\ u.left = t.left /\ u.owner = t.owner /\ u.state = t.state
  BY DEF AttemptRow
<1>3. u.accepted = t.accepted /\ u.cancel = t.cancel
  BY DEF AttemptRow
<1> QED
  BY <1>1, <1>2, <1>3 DEF ToSuspendRow, Becomes, SameGrant

LEMMA ToResumeRowIs ==
    ASSUME NEW t \in AttemptRow
    PROVE  LET u == ToResumeRow(t) IN
           /\ Becomes(t, u) /\ SameGrant(t, u) /\ u.state = "resume_pending"
           /\ u.cancel = t.cancel
<1> DEFINE u == [t EXCEPT !.state = "resume_pending"]
<1>1. u \in AttemptRow
  BY DEF AttemptRow
<1>2. /\ u.entry = t.entry /\ u.task = t.task /\ u.pred = t.pred /\ u.fence = t.fence
      /\ u.left = t.left /\ u.owner = t.owner /\ u.state = "resume_pending"
  BY DEF AttemptRow
<1>3. u.accepted = t.accepted /\ u.cancel = t.cancel
  BY DEF AttemptRow
<1> QED
  BY <1>1, <1>2, <1>3 DEF ToResumeRow, Becomes, SameGrant

LEMMA ResumedRowIs ==
    ASSUME NEW t \in AttemptRow
    PROVE  LET u == ResumedRow(t) IN
           /\ Becomes(t, u) /\ SameGrant(t, u) /\ u.state = "starting"
<1> DEFINE u == [t EXCEPT !.state = "starting"]
<1>1. u \in AttemptRow
  BY DEF AttemptRow
<1>2. /\ u.entry = t.entry /\ u.task = t.task /\ u.pred = t.pred /\ u.fence = t.fence
      /\ u.left = t.left /\ u.owner = t.owner /\ u.state = "starting"
  BY DEF AttemptRow
<1>3. u.accepted = t.accepted /\ u.cancel = t.cancel
  BY DEF AttemptRow
<1> QED
  BY <1>1, <1>2, <1>3 DEF ResumedRow, Becomes, SameGrant

LEMMA SessionRowIs ==
    ASSUME NEW t \in AttemptRow, NEW session \in Session
    PROVE  LET u == SessionRow(t, session) IN
           Becomes(t, u) /\ SameGrant(t, u) /\ u.state = t.state
<1> DEFINE u == [t EXCEPT !.session = session]
<1>1. u \in AttemptRow
  BY DEF AttemptRow
<1>2. /\ u.entry = t.entry /\ u.task = t.task /\ u.pred = t.pred /\ u.fence = t.fence
      /\ u.left = t.left /\ u.owner = t.owner /\ u.state = t.state
  BY DEF AttemptRow
<1>3. u.accepted = t.accepted /\ u.cancel = t.cancel
  BY DEF AttemptRow
<1> QED
  BY <1>1, <1>2, <1>3 DEF SessionRow, Becomes, SameGrant

LEMMA SuspendedRowIs ==
    ASSUME NEW t \in AttemptRow
    PROVE  LET u == SuspendedRow(t) IN
           /\ Becomes(t, u) /\ u.state = "suspended"
           /\ u.fence = t.fence /\ u.cancel = t.cancel
<1> DEFINE u == [t EXCEPT !.state = "suspended", !.left = 0, !.suspend = FALSE]
<1>1. u \in AttemptRow
  <2>1. 0 \in 0..MaxTtl
    OBVIOUS
  <2> QED
    BY <2>1 DEF AttemptRow
<1>2. /\ u.entry = t.entry /\ u.task = t.task /\ u.pred = t.pred /\ u.fence = t.fence
      /\ u.state = "suspended"
  BY DEF AttemptRow
<1>3. u.accepted = t.accepted /\ u.cancel = t.cancel
  BY DEF AttemptRow
<1> QED
  BY <1>1, <1>2, <1>3 DEF SuspendedRow, Becomes

LEMMA FoundSuspendedRowIs ==
    ASSUME NEW t \in AttemptRow, NEW session \in Session
    PROVE  LET u == FoundSuspendedRow(t, session) IN
           /\ Becomes(t, u) /\ u.state = "suspended"
           /\ u.fence = t.fence /\ u.cancel = t.cancel
<1> DEFINE u == [t EXCEPT !.state = "suspended", !.left = 0, !.suspend = FALSE,
                          !.session = session]
<1>1. u \in AttemptRow
  <2>1. 0 \in 0..MaxTtl
    OBVIOUS
  <2> QED
    BY <2>1 DEF AttemptRow
<1>2. /\ u.entry = t.entry /\ u.task = t.task /\ u.pred = t.pred /\ u.fence = t.fence
      /\ u.state = "suspended"
  BY DEF AttemptRow
<1>3. u.accepted = t.accepted /\ u.cancel = t.cancel
  BY DEF AttemptRow
<1> QED
  BY <1>1, <1>2, <1>3 DEF FoundSuspendedRow, Becomes

LEMMA BeatenRowIs ==
    ASSUME NEW t \in AttemptRow, NEW left \in 0..MaxTtl
    PROVE  LET u == BeatenRow(t, left) IN
           /\ Becomes(t, u) /\ u.state = t.state /\ u.left = left
           /\ u.fence = t.fence /\ u.owner = t.owner /\ u.cancel = t.cancel
<1> DEFINE u == [t EXCEPT !.left = left]
<1>1. u \in AttemptRow
  BY DEF AttemptRow
<1>2. /\ u.entry = t.entry /\ u.task = t.task /\ u.pred = t.pred /\ u.fence = t.fence
      /\ u.left = left /\ u.owner = t.owner /\ u.state = t.state
  BY DEF AttemptRow
<1>3. u.accepted = t.accepted /\ u.cancel = t.cancel
  BY DEF AttemptRow
<1> QED
  BY <1>1, <1>2, <1>3 DEF BeatenRow, Becomes

-----------------------------------------------------------------------------
(* What a step keeps.                                                      *)

OccupiedIn(s) == {e \in Entity : s.reservations[e] # NoRow}
ExecutionsIn(s) == {e \in OccupiedIn(s) : s.reservations[e].held}

\* Places and slots that are newly taken fit the limits of the policy.
FitsLimits(s, d) ==
    /\ ~(ExecutionsIn(d) \subseteq ExecutionsIn(s))
          => Cardinality(ExecutionsIn(d)) <= policy.execution_limit
    /\ ~(OccupiedIn(d) \subseteq OccupiedIn(s)) /\ policy.wip_limit > 0
          => Cardinality(OccupiedIn(d)) <= policy.wip_limit

ManagedIn(s, e) == \E i \in EntryId : UnfinishedIn(s, i) /\ s.entries[i].task = e

ManagedEnds(s, d) ==
    \A e \in Entity :
        ManagedIn(s, e) /\ s.work[e] # "terminal" /\ d.work[e] = "terminal"
            => \E b \in AttemptId : /\ ActiveIn(s, b) /\ s.attempts[b].task = e
                                    /\ d.attempts[b].state = "terminal"

Keeps(s, d) ==
    /\ RowsAgree(d) /\ ExecutionsHaveClaims(d)
    /\ ReservationsAreFirst(s, d) /\ ResultsKept(s, d) /\ AnswersStayLost(s, d)
    /\ ManagedEnds(s, d) /\ FitsLimits(s, d)

LEMMA OldPlacesFit ==
    ASSUME NEW s, NEW d, NoNewPlaces(s, d)
    PROVE  FitsLimits(s, d)
  BY DEF NoNewPlaces, FitsLimits, OccupiedIn, ExecutionsIn

LEMMA GrantIsNoGap == \A t \in AttemptRow : GrantOf(t) # NoClaim
<1> SUFFICES ASSUME NEW t \in AttemptRow
             PROVE  GrantOf(t) \in Claim
  OBVIOUS
<1> QED
  BY DEF GrantOf, Claim, AttemptRow, Mode

LEMMA MovedExecutions ==
    ASSUME NEW s, NEW d, RowsAgree(s), ExecutionsHaveClaims(s), NEW a \in AttemptId,
           ActiveIn(s, a), RowsMoved(s, d, a)
    PROVE  ExecutionsHaveClaims(d)
<1> SUFFICES ASSUME NEW b \in AttemptId, IsAttempt(d, b), d.attempts[b].state \in Executing
             PROVE  d.claims[ResourceOf(d, b)] # NoClaim
  BY DEF ExecutionsHaveClaims
<1>0. PICK i, e, r : OwnRows(s, d, a, i, e, r)
  BY OwnRowsMove
<1>1. CASE b = a
  <2>1. d.claims[r] = GrantOf(d.attempts[a])
    BY <1>0, <1>1 DEF OwnRows, RowsMoved, ClaimMoved
  <2>2. d.attempts[a] \in AttemptRow
    BY <1>0, RowTypes DEF OwnRows, IsAttempt
  <2> QED
    BY <1>0, <1>1, <2>1, <2>2, GrantIsNoGap DEF OwnRows
<1>2. CASE b # a
  <2>1. OtherRowsKept(s, d, a, b)
    BY <1>2, OtherRows
  <2>2. s.attempts[b].state # "terminal"
    BY <2>1 DEF OtherRowsKept, Executing
  <2> QED
    BY <2>1, <2>2 DEF OtherRowsKept, ExecutionsHaveClaims
<1> QED
  BY <1>1, <1>2

LEMMA MoveKeeps ==
    ASSUME NEW s, NEW d, RowsAgree(s), ExecutionsHaveClaims(s), NEW a \in AttemptId,
           ActiveIn(s, a), RowsMoved(s, d, a), FitsLimits(s, d)
    PROVE  Keeps(s, d)
<1>1. RowsAgree(d) /\ ExecutionsHaveClaims(d)
  BY MovedRowsAgree, MovedExecutions
<1>2. Follows(s, d)
  BY MovedFollows
<1> QED
  BY <1>1, <1>2 DEF Keeps, Follows, TasksEnd, ManagedEnds

-----------------------------------------------------------------------------
(* The fifteen commands that move the rows of one attempt.                 *)

QueueInv ==
    /\ archived \subseteq Entity /\ running \subseteq Participant
    /\ policy \in PolicyRow
    /\ RowsAgree(Db) /\ ExecutionsHaveClaims(Db)

\* The step commits contents d, which move the rows of a and take no new place.
Moves(d, a) ==
    ActiveIn(Db, a) /\ RowsMoved(Db, d, a) /\ NoNewPlaces(Db, d) /\ Commit(d)

LEMMA DbFields ==
    /\ Db.fences = fences /\ Db.claims = claims /\ Db.journal = journal
    /\ Db.work = work /\ Db.written = written /\ Db.gates = gates
    /\ Db.entries = entries /\ Db.attempts = attempts
    /\ Db.reservations = reservations /\ Db.questions = questions
  BY DEF Db

LEMMA LeaseType == policy \in PolicyRow => policy.lease \in Ttl
  BY DEF PolicyRow

\* What a command finds of the attempt it is about.
LEMMA Found ==
    ASSUME QueueInv, NEW a \in AttemptId, ActiveIn(Db, a)
    PROVE  /\ RowsAgree(Db) /\ ExecutionsHaveClaims(Db) /\ policy.lease \in Ttl
           /\ Attached(Db, a) /\ Touches(Db, Db, a)
           /\ Db.attempts[a] \in AttemptRow /\ Db.attempts[a].owner \in Participant
<1>1. RowsAgree(Db) /\ ExecutionsHaveClaims(Db) /\ policy.lease \in Ttl
  BY LeaseType DEF QueueInv
<1>2. Attached(Db, a)
  BY <1>1, ActiveRows
<1>3. Touches(Db, Db, a)
  BY <1>2, TouchesItself
<1>4. Db \in Contents /\ IsAttempt(Db, a)
  BY <1>2 DEF Attached
<1>5. Db.attempts[a] \in AttemptRow /\ Db.attempts[a].owner \in Participant
  BY <1>4, AttemptTypes
<1> QED
  BY <1>1, <1>2, <1>3, <1>5

\* A row that keeps its grant and its place.
LEMMA RowMovesHere ==
    ASSUME QueueInv, NEW a \in AttemptId, ActiveIn(Db, a), NEW u,
           Becomes(attempts[a], u), SameGrant(attempts[a], u), u.cancel = attempts[a].cancel,
           u.state # "terminal",
           u.state \in Executing <=> attempts[a].state \in Executing,
           u.state \in Holding <=> attempts[a].state \in Holding,
           Commit(SetAttempt(Db, a, u))
    PROVE  Moves(SetAttempt(Db, a, u), a)
<1> DEFINE d == SetAttempt(Db, a, u)
<1>1. /\ RowsAgree(Db) /\ ExecutionsHaveClaims(Db)
      /\ Attached(Db, a) /\ Touches(Db, Db, a)
  BY Found
<1>2. Db.attempts[a] = attempts[a]
  BY DbFields
<1>3. RowsMoved(Db, d, a)
  BY <1>1, <1>2, RowMoves DEF SameGrant
<1>4. d.attempts[a] = u
  <2>1. Becomes(Db.attempts[a], u)
    BY <1>2
  <2>2. AttemptSet(Db, Db, a, u)
    BY <1>1, <2>1, SetAttemptRows
  <2> QED
    BY <2>2 DEF AttemptSet
<1> HIDE DEF d
<1>5. NoNewPlaces(Db, d)
  BY <1>1, <1>2, <1>3, <1>4, MovedPlaces
<1> QED
  BY <1>3, <1>5 DEF Moves, d

LEMMA AcceptMoves ==
    ASSUME QueueInv, NEW p, NEW a \in AttemptId, IsAttempt(Db, a), Accept(p, a)
    PROVE  \E d : Moves(d, a)
<1> DEFINE w == Transitioned(Db, a, "start")
           u == AcceptedRow(attempts[a])
           d == SetAttempt(w, a, u)
<1>1. ActiveIn(Db, a) /\ attempts[a].state = "reserved" /\ Db.attempts[a] = attempts[a]
  BY DbFields DEF Accept, ActiveIn
<1>2. /\ RowsAgree(Db) /\ ExecutionsHaveClaims(Db)
      /\ Attached(Db, a) /\ attempts[a] \in AttemptRow
  BY <1>1, Found
<1>3. /\ Touches(Db, w, a) /\ w.attempts = Db.attempts
      /\ w.claims = Db.claims /\ w.fences = Db.fences
      /\ w.entries = Db.entries /\ w.reservations = Db.reservations
      /\ Db.work[Db.attempts[a].task] # "terminal" => w.work[Db.attempts[a].task] # "terminal"
  BY <1>2, TransitionedRows
<1>4. \A e \in Entity : w.work[e] = "terminal" => Db.work[e] = "terminal"
  BY <1>3 DEF Touches
<1>5. Commit([w EXCEPT !.attempts[a] = [@ EXCEPT !.state = "starting", !.accepted = TRUE]])
  BY Zenon DEF Accept
<1>6. Commit(SetAttempt(w, a, AcceptedRow(w.attempts[a])))
  BY <1>5, Zenon DEF SetAttempt, AcceptedRow
<1>7. Commit(d)
  BY <1>1, <1>3, <1>6
<1>8. Becomes(attempts[a], u) /\ SameGrant(attempts[a], u) /\ u.state = "starting"
      /\ u.cancel = attempts[a].cancel
  BY <1>2, AcceptedRowIs
<1> HIDE DEF w, u
<1>9. RowsMoved(Db, d, a)
  BY <1>1, <1>2, <1>3, <1>4, <1>8, RowMoves DEF SameGrant, Executing, Holding
<1>10. d.attempts[a] = u
  <2>1. Becomes(Db.attempts[a], u)
    BY <1>1, <1>8
  <2>2. AttemptSet(Db, w, a, u)
    BY <1>2, <1>3, <2>1, SetAttemptRows
  <2> QED
    BY <2>2 DEF AttemptSet
<1> HIDE DEF d
<1>11. NoNewPlaces(Db, d)
  BY <1>1, <1>2, <1>8, <1>9, <1>10, MovedPlaces DEF Holding, Executing
<1> QED
  BY <1>1, <1>7, <1>9, <1>11 DEF Moves

LEMMA StartedMoves ==
    ASSUME QueueInv, NEW p, NEW a \in AttemptId, IsAttempt(Db, a), NEW session \in Session,
           Started(p, a, session)
    PROVE  \E d : Moves(d, a)
<1> DEFINE u == StartedRow(attempts[a], session)
<1>1. ActiveIn(Db, a) /\ attempts[a].state = "starting" /\ Db.attempts[a] = attempts[a]
  BY DbFields DEF Started, ActiveIn
<1>2. attempts[a] \in AttemptRow
  BY <1>1, Found
<1>3. Commit([Db EXCEPT !.attempts[a] = [@ EXCEPT !.state = "running", !.session = session]])
  BY Zenon DEF Started
<1>4. Commit(SetAttempt(Db, a, StartedRow(Db.attempts[a], session)))
  BY <1>3, Zenon DEF SetAttempt, StartedRow
<1>5. Commit(SetAttempt(Db, a, u))
  BY <1>1, <1>4
<1>6. Becomes(attempts[a], u) /\ SameGrant(attempts[a], u) /\ u.state = "running"
      /\ u.cancel = attempts[a].cancel
  BY <1>2, StartedRowIs
<1> HIDE DEF u
<1>7. Moves(SetAttempt(Db, a, u), a)
  BY <1>1, <1>5, <1>6, RowMovesHere DEF Executing, Holding
<1> QED
  BY <1>7

LEMMA RequestSuspensionMoves ==
    ASSUME QueueInv, NEW p, NEW a \in AttemptId, IsAttempt(Db, a), RequestSuspension(p, a)
    PROVE  \E d : Moves(d, a)
<1> DEFINE u == ToSuspendRow(attempts[a])
<1>1. ActiveIn(Db, a) /\ attempts[a].state # "terminal" /\ Db.attempts[a] = attempts[a]
  BY DbFields DEF RequestSuspension, ActiveIn
<1>2. attempts[a] \in AttemptRow
  BY <1>1, Found
<1>3. Commit([Db EXCEPT !.attempts[a].suspend = TRUE])
  BY Zenon DEF RequestSuspension
<1>4. Commit(SetAttempt(Db, a, ToSuspendRow(Db.attempts[a])))
  BY <1>3, Zenon DEF SetAttempt, ToSuspendRow
<1>5. Commit(SetAttempt(Db, a, u))
  BY <1>1, <1>4
<1>6. Becomes(attempts[a], u) /\ SameGrant(attempts[a], u) /\ u.state = attempts[a].state
      /\ u.cancel = attempts[a].cancel
  BY <1>2, ToSuspendRowIs
<1> HIDE DEF u
<1>7. Moves(SetAttempt(Db, a, u), a)
  BY <1>1, <1>5, <1>6, RowMovesHere
<1> QED
  BY <1>7

LEMMA RequestResumeMoves ==
    ASSUME QueueInv, NEW p, NEW a \in AttemptId, IsAttempt(Db, a), RequestResume(p, a)
    PROVE  \E d : Moves(d, a)
<1> DEFINE u == ToResumeRow(attempts[a])
<1>1. ActiveIn(Db, a) /\ attempts[a].state = "suspended" /\ Db.attempts[a] = attempts[a]
  BY DbFields DEF RequestResume, ActiveIn
<1>2. attempts[a] \in AttemptRow
  BY <1>1, Found
<1>3. Commit([Db EXCEPT !.attempts[a].state = "resume_pending"])
  BY Zenon DEF RequestResume
<1>4. Commit(SetAttempt(Db, a, ToResumeRow(Db.attempts[a])))
  BY <1>3, Zenon DEF SetAttempt, ToResumeRow
<1>5. Commit(SetAttempt(Db, a, u))
  BY <1>1, <1>4
<1>6. Becomes(attempts[a], u) /\ SameGrant(attempts[a], u) /\ u.state = "resume_pending"
      /\ u.cancel = attempts[a].cancel
  BY <1>2, ToResumeRowIs
<1> HIDE DEF u
<1>7. Moves(SetAttempt(Db, a, u), a)
  BY <1>1, <1>5, <1>6, RowMovesHere DEF Executing, Holding
<1> QED
  BY <1>7

LEMMA RequestCancellationMoves ==
    ASSUME QueueInv, NEW p, NEW a \in AttemptId, IsAttempt(Db, a), RequestCancellation(p, a)
    PROVE  \E d : Moves(d, a)
<1> DEFINE w == Superseded(Db, a)
           u == CancelledRow(attempts[a])
           d == SetAttempt(w, a, u)
<1>1. ActiveIn(Db, a) /\ attempts[a].state # "terminal" /\ Db.attempts[a] = attempts[a]
  BY DbFields DEF RequestCancellation, ActiveIn
<1>2. /\ RowsAgree(Db) /\ ExecutionsHaveClaims(Db)
      /\ Attached(Db, a) /\ Touches(Db, Db, a) /\ attempts[a] \in AttemptRow
  BY <1>1, Found
<1>3. /\ w \in Contents
      /\ w.fences = Db.fences /\ w.claims = Db.claims /\ w.work = Db.work
      /\ w.entries = Db.entries /\ w.attempts = Db.attempts
      /\ w.reservations = Db.reservations
      /\ QuestionsMoved(Db, w) /\ NoneOpen(w, a)
  <2>1. Db \in Contents /\ OpenIsValid(Db)
    BY <1>2 DEF Attached
  <2> QED
    BY <2>1, SupersededRows
<1>4. Commit([w EXCEPT !.attempts[a].cancel = TRUE])
  BY Zenon DEF RequestCancellation
<1>5. Commit(SetAttempt(w, a, CancelledRow(w.attempts[a])))
  BY <1>4, Zenon DEF SetAttempt, CancelledRow
<1>6. Commit(d)
  BY <1>1, <1>3, <1>5
<1>7. Becomes(Db.attempts[a], u) /\ SameGrant(attempts[a], u) /\ u.state = attempts[a].state
  BY <1>1, <1>2, CancelledRowIs
<1> HIDE DEF w, u
<1>8. Touches(Db, w, a)
  BY <1>2, <1>3 DEF Touches
<1>9. RowsMoved(Db, d, a)
  BY <1>1, <1>2, <1>3, <1>7, <1>8, RowMoves DEF SameGrant
<1>10. d.attempts[a] = u
  <2>1. AttemptSet(Db, w, a, u)
    BY <1>2, <1>7, <1>8, SetAttemptRows
  <2> QED
    BY <2>1 DEF AttemptSet
<1> HIDE DEF d
<1>11. NoNewPlaces(Db, d)
  BY <1>1, <1>2, <1>7, <1>9, <1>10, MovedPlaces
<1> QED
  BY <1>1, <1>6, <1>9, <1>11 DEF Moves

LEMMA ReconcileUnknownMoves ==
    ASSUME QueueInv, NEW p, NEW a \in AttemptId, IsAttempt(Db, a), ReconcileUnknown(p, a)
    PROVE  \E d : Moves(d, a)
<1> DEFINE w == Revoked(Db, a)
           d == SetAttempt(w, a, Uncertain(Db.attempts[a]))
<1>1. ActiveIn(Db, a) /\ Db.attempts[a].state \in Holding /\ Db.attempts[a] = attempts[a]
  BY DbFields DEF ReconcileUnknown, ActiveIn, Holding, Executing
<1>2. RowsAgree(Db) /\ Attached(Db, a)
  BY <1>1, Found
<1>3. w.attempts = Db.attempts
  BY <1>2, RevokedRows DEF Attached
<1>4. Commit([w EXCEPT !.attempts[a] = [@ EXCEPT !.state = "uncertain", !.left = 0]])
  BY Zenon DEF ReconcileUnknown
<1>5. Commit(SetAttempt(w, a, Uncertain(w.attempts[a])))
  BY <1>4, Zenon DEF SetAttempt, Uncertain
<1>6. Commit(d)
  BY <1>3, <1>5
<1>7. RowsMoved(Db, d, a) /\ d.attempts[a].state = "uncertain"
  BY <1>1, <1>2, UncertainMoves
<1> HIDE DEF d
<1>8. NoNewPlaces(Db, d)
  BY <1>1, <1>2, <1>7, MovedPlaces
<1> QED
  BY <1>1, <1>6, <1>7, <1>8 DEF Moves

\* A suspension, confirmed or observed.
LEMMA SuspensionMoves ==
    ASSUME QueueInv, NEW a \in AttemptId, ActiveIn(Db, a), NEW u,
           Becomes(attempts[a], u), u.state = "suspended",
           u.fence = attempts[a].fence, u.cancel = attempts[a].cancel,
           Commit(SetPlace(SetAttempt(Revoked(Db, a), a, u), attempts[a].task,
                           Freed(Revoked(Db, a).reservations[attempts[a].task])))
    PROVE  \E d : Moves(d, a)
<1> DEFINE d == SetPlace(SetAttempt(Revoked(Db, a), a, u), Db.attempts[a].task,
                         Freed(Db.reservations[Db.attempts[a].task]))
<1>1. RowsAgree(Db) /\ Attached(Db, a) /\ Db.attempts[a] = attempts[a]
  BY Found, DbFields
<1>2. Revoked(Db, a).reservations = Db.reservations
  BY <1>1, RevokedRows DEF Attached
<1>3. Commit(d)
  BY <1>1, <1>2
<1>4. RowsMoved(Db, d, a) /\ d.attempts[a] = u
  <2>1. /\ Becomes(Db.attempts[a], u)
        /\ u.fence = Db.attempts[a].fence /\ u.cancel = Db.attempts[a].cancel
    BY <1>1
  <2> QED
    BY <1>1, <2>1, SuspendMoves
<1> HIDE DEF d
<1>5. NoNewPlaces(Db, d)
  BY <1>1, <1>4, MovedPlaces DEF Holding, Executing
<1> QED
  BY <1>3, <1>4, <1>5 DEF Moves

\* The slot of task e is given up, with the attempt row.
LEMMA SlotGivenUp ==
    ASSUME NEW w \in Contents, NEW a \in AttemptId, NEW e \in Entity, NEW u
    PROVE  [w EXCEPT !.attempts[a] = u, !.reservations[e].held = FALSE]
             = SetPlace(SetAttempt(w, a, u), e, Freed(w.reservations[e]))
  BY DEF SetPlace, SetAttempt, Contents, Freed

LEMMA ConfirmSuspensionMoves ==
    ASSUME QueueInv, NEW p, NEW a \in AttemptId, IsAttempt(Db, a), ConfirmSuspension(p, a)
    PROVE  \E d : Moves(d, a)
<1> DEFINE w == Revoked(Db, a)
           e == attempts[a].task
           u == SuspendedRow(attempts[a])
<1>1. ActiveIn(Db, a) /\ Db.attempts[a] = attempts[a]
  BY DbFields DEF ConfirmSuspension, ActiveIn
<1>2. attempts[a] \in AttemptRow /\ Attached(Db, a)
  BY <1>1, Found
<1>3. w.attempts = Db.attempts /\ w \in Contents
  BY <1>2, RevokedRows DEF Attached
<1>4. Commit([w EXCEPT !.attempts[a] = [@ EXCEPT !.state = "suspended", !.left = 0,
                                                 !.suspend = FALSE],
                       !.reservations[e].held = FALSE])
  BY Zenon DEF ConfirmSuspension
<1>5. Commit([w EXCEPT !.attempts[a] = SuspendedRow(w.attempts[a]), !.reservations[e].held = FALSE])
  BY <1>4, Zenon DEF SuspendedRow
<1>6. Commit([w EXCEPT !.attempts[a] = u, !.reservations[e].held = FALSE])
  BY <1>1, <1>3, <1>5
<1>7. Becomes(attempts[a], u) /\ u.state = "suspended"
      /\ u.fence = attempts[a].fence /\ u.cancel = attempts[a].cancel
  BY <1>2, SuspendedRowIs
<1> HIDE DEF u, e, w
<1>8. e \in Entity
  BY <1>2 DEF e, AttemptRow
<1>9. Commit(SetPlace(SetAttempt(w, a, u), e, Freed(w.reservations[e])))
  BY <1>3, <1>6, <1>8, SlotGivenUp
<1> QED
  BY <1>1, <1>7, <1>9, SuspensionMoves DEF w, e

LEMMA ReconcileSuspendedMoves ==
    ASSUME QueueInv, NEW p, NEW a \in AttemptId, IsAttempt(Db, a), NEW session \in Session,
           ReconcileSuspended(p, a, session)
    PROVE  \E d : Moves(d, a)
<1> DEFINE w == Revoked(Db, a)
           e == attempts[a].task
           u == FoundSuspendedRow(attempts[a], session)
<1>1. ActiveIn(Db, a) /\ Db.attempts[a] = attempts[a]
  BY DbFields DEF ReconcileSuspended, ActiveIn
<1>2. attempts[a] \in AttemptRow /\ Attached(Db, a)
  BY <1>1, Found
<1>3. w.attempts = Db.attempts /\ w \in Contents
  BY <1>2, RevokedRows DEF Attached
<1>4. Commit([w EXCEPT !.attempts[a] = [@ EXCEPT !.state = "suspended", !.left = 0,
                                                 !.suspend = FALSE, !.session = session],
                       !.reservations[e].held = FALSE])
  BY Zenon DEF ReconcileSuspended
<1>5. Commit([w EXCEPT !.attempts[a] = FoundSuspendedRow(w.attempts[a], session), !.reservations[e].held = FALSE])
  BY <1>4, Zenon DEF FoundSuspendedRow
<1>6. Commit([w EXCEPT !.attempts[a] = u, !.reservations[e].held = FALSE])
  BY <1>1, <1>3, <1>5
<1>7. Becomes(attempts[a], u) /\ u.state = "suspended"
      /\ u.fence = attempts[a].fence /\ u.cancel = attempts[a].cancel
  BY <1>2, FoundSuspendedRowIs
<1> HIDE DEF u, e, w
<1>8. e \in Entity
  BY <1>2 DEF e, AttemptRow
<1>9. Commit(SetPlace(SetAttempt(w, a, u), e, Freed(w.reservations[e])))
  BY <1>3, <1>6, <1>8, SlotGivenUp
<1> QED
  BY <1>1, <1>7, <1>9, SuspensionMoves DEF w, e

\* The attempt goes on under a fresh grant, in the slot it has.
LEMMA RegrantsHere ==
    ASSUME QueueInv, NEW a \in AttemptId, ActiveIn(Db, a), attempts[a].state \in Holding,
           NEW p \in Participant, NEW u, Becomes(Refenced(Db, a, p).attempts[a], u),
           SameGrant(Refenced(Db, a, p).attempts[a], u), u.state \in Executing,
           Commit(SetAttempt(Refenced(Db, a, p), a, u))
    PROVE  \E d : Moves(d, a)
<1> DEFINE w == Refenced(Db, a, p)
           d == SetAttempt(w, a, u)
<1>1. /\ RowsAgree(Db) /\ policy.lease \in Ttl /\ Attached(Db, a)
      /\ Db.attempts[a] = attempts[a]
  BY Found, DbFields
<1>2. Touches(Db, w, a) /\ w.entries = Db.entries /\ w.reservations = Db.reservations
  BY <1>1, FreshGrant
<1>3. Becomes(Db.attempts[a], u)
  BY <1>2 DEF Touches, Becomes
<1> HIDE DEF w
<1>4. /\ Touches(Db, d, a) /\ d.attempts[a] = u
      /\ d.entries = w.entries /\ d.reservations = w.reservations
      /\ d.claims = w.claims /\ d.fences = w.fences /\ d.work = w.work
      /\ d.questions = w.questions
  <2>1. AttemptSet(Db, w, a, u)
    BY <1>1, <1>2, <1>3, SetAttemptRows
  <2> QED
    BY <2>1 DEF AttemptSet
<1>5. Commit(d)
  BY DEF w
<1> HIDE DEF d
<1>6. RowsMoved(Db, d, a)
  <2>1. d.entries = Db.entries /\ d.reservations = Db.reservations
    BY <1>2, <1>4
  <2>2. /\ d.attempts[a].state \in Executing
        /\ d.attempts[a].fence = w.attempts[a].fence
        /\ d.attempts[a].left = w.attempts[a].left
        /\ d.attempts[a].owner = w.attempts[a].owner
    BY <1>4 DEF SameGrant, w
  <2> QED
    BY <1>1, <1>4, <2>1, <2>2, RegrantMoves DEF w
<1>7. NoNewPlaces(Db, d)
  BY <1>1, <1>6, MovedPlaces
<1> QED
  BY <1>5, <1>6, <1>7 DEF Moves

\* It does, in the session that was observed or that replaces the old one.
LEMMA SessionMoves ==
    ASSUME QueueInv, NEW a \in AttemptId, ActiveIn(Db, a), attempts[a].state \in Holding,
           NEW p \in Participant, NEW session \in Session,
           Commit([Refenced(Db, a, p) EXCEPT !.attempts[a].session = session])
    PROVE  \E d : Moves(d, a)
<1> DEFINE w == Refenced(Db, a, p)
           t == w.attempts[a]
           u == SessionRow(t, session)
<1>1. RowsAgree(Db) /\ policy.lease \in Ttl
  BY Found
<1>2. t.state = "running" /\ t \in AttemptRow
  BY <1>1, FreshGrant
<1>3. Commit(SetAttempt(w, a, u))
  BY Zenon DEF SetAttempt, SessionRow
<1> HIDE DEF w
<1>4. Becomes(t, u) /\ SameGrant(t, u) /\ u.state = t.state
  BY <1>2, SessionRowIs
<1> HIDE DEF t, u
<1>5. u.state \in Executing
  BY <1>2, <1>4 DEF Executing
<1> QED
  BY <1>3, <1>4, <1>5, RegrantsHere DEF w, t

LEMMA ReplaceSessionMoves ==
    ASSUME QueueInv, NEW p \in Participant, NEW a \in AttemptId, IsAttempt(Db, a),
           NEW session \in Session, ReplaceSession(p, a, session)
    PROVE  \E d : Moves(d, a)
<1>1. ActiveIn(Db, a) /\ attempts[a].state \in Holding
  BY DbFields DEF ReplaceSession, ActiveIn, Holding, Executing
<1>2. Commit([Refenced(Db, a, p) EXCEPT !.attempts[a].session = session])
  BY DEF ReplaceSession
<1> QED
  BY <1>1, <1>2, SessionMoves

LEMMA ReconcileRunningMoves ==
    ASSUME QueueInv, NEW p, NEW a \in AttemptId, IsAttempt(Db, a),
           NEW session \in Session, ReconcileRunning(p, a, session)
    PROVE  \E d : Moves(d, a)
<1>1. ActiveIn(Db, a) /\ attempts[a].state \in Holding
  BY DbFields DEF ReconcileRunning, ActiveIn, Holding, Executing
<1>2. Commit([Refenced(Db, a, attempts[a].owner) EXCEPT !.attempts[a].session = session])
  BY DEF ReconcileRunning
<1>3. attempts[a].owner \in Participant
  BY <1>1, Found, DbFields
<1> QED
  BY <1>1, <1>2, <1>3, SessionMoves

LEMMA RebindMoves ==
    ASSUME QueueInv, NEW p, NEW a \in AttemptId, IsAttempt(Db, a), NEW q \in Participant,
           Rebind(p, a, q)
    PROVE  \E d : Moves(d, a)
<1> DEFINE d == Refenced(Db, a, q)
<1>1. ActiveIn(Db, a) /\ Db.attempts[a].state \in Holding
  BY DbFields DEF Rebind, ActiveIn, Holding, Executing
<1>2. Commit(d)
  BY DEF Rebind
<1>3. RowsAgree(Db) /\ policy.lease \in Ttl
  BY <1>1, Found
<1>4. /\ Touches(Db, d, a) /\ d.entries = Db.entries /\ d.reservations = Db.reservations
      /\ d.attempts[a].state = "running"
  BY <1>1, <1>3, FreshGrant
<1>5. RowsMoved(Db, d, a)
  <2>1. d.attempts[a].state \in Executing
    BY <1>4 DEF Executing
  <2> QED
    BY <1>1, <1>3, <1>4, <2>1, RegrantMoves
<1> HIDE DEF d
<1>6. NoNewPlaces(Db, d)
  BY <1>1, <1>3, <1>5, MovedPlaces
<1> QED
  BY <1>1, <1>2, <1>5, <1>6 DEF Moves

\* A heartbeat extends the attempt's own lease and its claim together.
SetClaim(w, r, c) == [w EXCEPT !.claims[r] = c]

Beaten(s, a, left) ==
    SetAttempt(SetClaim(s, ResourceOf(s, a), Renewed(s.claims[ResourceOf(s, a)], left)), a,
               BeatenRow(s.attempts[a], left))

LEMMA RenewedGrant ==
    ASSUME NEW t \in AttemptRow, NEW left \in Ttl
    PROVE  /\ Renewed(GrantOf(t), left) \in Claim
           /\ Renewed(GrantOf(t), left).fence = t.fence
           /\ Renewed(GrantOf(t), left) = GrantOf(BeatenRow(t, left))
<1> DEFINE u == BeatenRow(t, left)
           c == [holder |-> t.owner, mode |-> "exclusive", fence |-> t.fence, left |-> left]
<1>1. left \in 0..MaxTtl
  BY DEF Ttl
<1>2. u.owner = t.owner /\ u.fence = t.fence /\ u.left = left
  BY <1>1, BeatenRowIs
<1> HIDE DEF u
<1>3. Renewed(GrantOf(t), left) = c
  BY DEF Renewed, GrantOf
<1>4. GrantOf(u) = c
  BY <1>2 DEF GrantOf
<1>5. c \in Claim /\ c.fence = t.fence
  BY <1>1 DEF Claim, Mode, AttemptRow
<1> QED
  BY <1>3, <1>4, <1>5 DEF u

LEMMA BeatMoves ==
    ASSUME NEW s, RowsAgree(s), NEW a \in AttemptId, ActiveIn(s, a),
           s.attempts[a].state \in Executing, s.attempts[a].left > 0,
           NEW left \in Ttl
    PROVE  /\ RowsMoved(s, Beaten(s, a, left), a)
           /\ Beaten(s, a, left).attempts[a].state = s.attempts[a].state
<1> DEFINE t == s.attempts[a]
           r == ResourceOf(s, a)
           u == BeatenRow(t, left)
           c == Renewed(s.claims[r], left)
           C == [s.claims EXCEPT ![r] = c]
           w == SetClaim(s, r, c)
           d == Beaten(s, a, left)
<1>1. /\ s \in Contents /\ IsAttempt(s, a) /\ Attached(s, a) /\ Touches(s, s, a)
      /\ t \in AttemptRow /\ r \in Name /\ r = TypedName[t.task]
      /\ s.fences[r] \in Nat
  <2>1. s \in Contents /\ IsAttempt(s, a) /\ Attached(s, a)
    BY ActiveRows DEF RowsAgree, ActiveIn
  <2>2. t \in AttemptRow /\ r \in Name /\ r = TypedName[t.task]
    BY <2>1, AttemptTypes
  <2>3. s.fences[r] \in Nat
    BY <2>1, <2>2, RowTypes
  <2>4. Touches(s, s, a)
    BY <2>1, TouchesItself
  <2> QED
    BY <2>1, <2>2, <2>3, <2>4
<1>2. s.claims[r] = GrantOf(t) /\ t.fence = s.fences[r]
  BY <1>1 DEF RowsAgree, ClaimsFit
<1>3. c \in Claim /\ c.fence = t.fence /\ c = GrantOf(u)
  BY <1>1, <1>2, RenewedGrant
<1>4. Becomes(t, u) /\ u.state = t.state /\ u.fence = t.fence /\ u.cancel = t.cancel
  <2>1. left \in 0..MaxTtl
    BY DEF Ttl
  <2> QED
    BY <1>1, <2>1, BeatenRowIs
<1> HIDE DEF c, u, t
<1>5. /\ C \in [Name -> Claim \cup {NoClaim}]
      /\ C[r] = c /\ \A n \in Name \ {r} : C[n] = s.claims[n]
  BY <1>1, <1>3 DEF Contents
<1>6. w = [s EXCEPT !.claims = C]
  BY <1>1 DEF SetClaim, Contents
<1> HIDE DEF C
<1>7. /\ w \in Contents /\ w.claims = C /\ w.fences = s.fences /\ w.work = s.work
      /\ w.entries = s.entries /\ w.attempts = s.attempts
      /\ w.reservations = s.reservations /\ w.questions = s.questions
  BY <1>1, <1>5, <1>6 DEF Contents
<1> HIDE DEF w
<1>8. Touches(s, w, a)
  <2>1. \A n \in Name \ {TypedName[s.attempts[a].task]} :
            w.claims[n] = s.claims[n] /\ w.fences[n] = s.fences[n]
    BY <1>1, <1>5, <1>7 DEF t
  <2>2. QuestionsMoved(s, w)
    BY <1>1, <1>7, QuestionsStay DEF Attached
  <2> QED
    BY <1>1, <1>7, <2>1, <2>2 DEF Touches
<1>9. d = SetAttempt(w, a, u)
  BY DEF Beaten, w, u, c, t
<1> HIDE DEF d
<1>10. /\ Touches(s, SetAttempt(w, a, u), a) /\ SetAttempt(w, a, u).attempts[a] = u
       /\ SetAttempt(w, a, u).entries = w.entries
       /\ SetAttempt(w, a, u).reservations = w.reservations
       /\ SetAttempt(w, a, u).claims = w.claims
       /\ SetAttempt(w, a, u).fences = w.fences
       /\ SetAttempt(w, a, u).work = w.work
  <2>1. Becomes(s.attempts[a], u)
    BY <1>4 DEF t
  <2>2. AttemptSet(s, w, a, u)
    BY <1>1, <1>8, <2>1, SetAttemptRows
  <2> QED
    BY <2>2 DEF AttemptSet
<1>11. /\ Touches(s, d, a) /\ d.attempts[a] = u
       /\ d.entries = s.entries /\ d.reservations = s.reservations
       /\ d.claims[r] = c /\ d.fences = s.fences /\ d.work = s.work
  BY <1>5, <1>7, <1>9, <1>10
<1>12. ClaimMoved(s, d, a)
  <2>1. u.state \in Executing /\ t.state \in Executing /\ t.left > 0
    BY <1>4 DEF t
  <2>2. d.fences[r] >= s.fences[r]
    BY <1>1, <1>11
  <2> QED
    BY <1>2, <1>3, <1>4, <1>11, <2>1, <2>2 DEF ClaimMoved, t
<1>13. PlaceMoved(s, d, a)
  <2>1. d.attempts[a].state = s.attempts[a].state /\ s.attempts[a].state # "terminal"
    BY <1>4, <1>11 DEF t, ActiveIn
  <2> QED
    BY <1>11, <2>1, PlaceKept
<1>14. EndsTogether(s, d, a)
  BY <1>4, <1>11 DEF EndsTogether, t, ActiveIn
<1> QED
  BY <1>4, <1>11, <1>12, <1>13, <1>14 DEF RowsMoved, t, d

LEMMA HeartbeatMoves ==
    ASSUME QueueInv, NEW p, NEW a \in AttemptId, IsAttempt(Db, a), Heartbeat(p, a)
    PROVE  \E d : Moves(d, a)
<1> DEFINE d == Beaten(Db, a, policy.lease)
<1>1. /\ ActiveIn(Db, a) /\ Db.attempts[a].state \in Executing
      /\ Db.attempts[a].left > 0
  BY DEF Heartbeat, GrantValid, ActiveIn, Executing
<1>2. RowsAgree(Db) /\ policy.lease \in Ttl /\ Db \in Contents
  BY <1>1, Found DEF Attached
<1>3. Commit([Db EXCEPT !.claims[ResourceOf(Db, a)] = Renewed(@, policy.lease),
                        !.attempts[a].left = policy.lease])
  BY DEF Heartbeat
<1>4. [Db EXCEPT !.claims[ResourceOf(Db, a)] = Renewed(@, policy.lease),
                 !.attempts[a].left = policy.lease] = d
  BY <1>2 DEF Beaten, SetAttempt, SetClaim, BeatenRow, Contents
<1>5. Commit(d)
  BY <1>3, <1>4
<1> HIDE DEF d
<1>6. RowsMoved(Db, d, a) /\ d.attempts[a].state = Db.attempts[a].state
  BY <1>1, <1>2, BeatMoves DEF d
<1>7. NoNewPlaces(Db, d)
  BY <1>1, <1>2, <1>6, MovedPlaces
<1> QED
  BY <1>1, <1>5, <1>6, <1>7 DEF Moves

\* The command ends the attempt under the grant it has, or a fresh one.
LEMMA EndsHere ==
    ASSUME QueueInv, NEW a \in AttemptId, ActiveIn(Db, a), NEW d, Commit(d),
           EndedBy(Db, d, a) \/ \E p \in Participant : EndedBy(Refenced(Db, a, p), d, a)
    PROVE  Moves(d, a)
<1>1. RowsAgree(Db) /\ policy.lease \in Ttl
  BY Found
<1>2. RowsMoved(Db, d, a) /\ d.attempts[a].state = "terminal"
  <2>1. CASE EndedBy(Db, d, a)
    BY <1>1, <2>1, EndedMoves
  <2>2. ASSUME NEW p \in Participant, EndedBy(Refenced(Db, a, p), d, a)
        PROVE  RowsMoved(Db, d, a) /\ d.attempts[a].state = "terminal"
    BY <1>1, <2>2, RefencedEnd
  <2> QED
    BY <2>1, <2>2
<1>3. NoNewPlaces(Db, d)
  BY <1>1, <1>2, MovedPlaces DEF Holding, Executing
<1> QED
  BY <1>2, <1>3 DEF Moves

LEMMA FinishMoves ==
    ASSUME QueueInv, NEW p \in Participant, NEW a \in AttemptId, IsAttempt(Db, a),
           NEW outcome \in Outcome, Finish(p, a, outcome)
    PROVE  \E d : Moves(d, a)
<1> DEFINE w == Refenced(Db, a, p)
           asleep == attempts[a].state \in {"suspended", "resume_pending"}
<1>1. ActiveIn(Db, a) /\ Db.attempts[a] = attempts[a]
  BY DbFields DEF Finish, GrantValid, ActiveIn, Executing
<1>2. RowsAgree(Db) /\ policy.lease \in Ttl /\ Attached(Db, a)
  BY <1>1, Found
<1>3. Attached(w, a)
  BY <1>1, <1>2, FreshGrant
<1>4. Commit(Finished(IF asleep THEN w ELSE Db, a, outcome))
  BY DEF Finish
<1> HIDE DEF w
<1>5. CASE asleep
  <2>1. Commit(Finished(w, a, outcome))
    BY <1>4, <1>5
  <2>2. EndedBy(w, Finished(w, a, outcome), a)
    BY <1>3, FinishedRows
  <2> QED
    BY <1>1, <2>1, <2>2, EndsHere DEF w
<1>6. CASE ~asleep
  <2>1. Commit(Finished(Db, a, outcome))
    BY <1>4, <1>6
  <2>2. EndedBy(Db, Finished(Db, a, outcome), a)
    BY <1>2, FinishedRows
  <2> QED
    BY <1>1, <2>1, <2>2, EndsHere
<1> QED
  BY <1>5, <1>6

LEMMA ReconcileStoppedMoves ==
    ASSUME QueueInv, NEW p, NEW a \in AttemptId, IsAttempt(Db, a),
           NEW outcome \in Outcome, ReconcileStopped(p, a, outcome)
    PROVE  \E d : Moves(d, a)
<1> DEFINE w == Refenced(Db, a, attempts[a].owner)
<1>1. ActiveIn(Db, a) /\ Db.attempts[a] = attempts[a]
  BY DbFields DEF ReconcileStopped, ActiveIn
<1>2. /\ RowsAgree(Db) /\ policy.lease \in Ttl
      /\ attempts[a].owner \in Participant
  BY <1>1, Found
<1>3. Attached(w, a)
  BY <1>1, <1>2, FreshGrant
<1>4. Commit(Finished(w, a, outcome))
  BY DEF ReconcileStopped
<1> HIDE DEF w
<1>5. EndedBy(w, Finished(w, a, outcome), a)
  BY <1>3, FinishedRows
<1> QED
  BY <1>1, <1>2, <1>4, <1>5, EndsHere DEF w

LEMMA ForceRecoveryMoves ==
    ASSUME QueueInv, NEW p, NEW a \in AttemptId, IsAttempt(Db, a), ForceRecovery(p, a)
    PROVE  \E d : Moves(d, a)
<1> DEFINE w == Refenced(Db, a, attempts[a].owner)
<1>1. ActiveIn(Db, a) /\ Db.attempts[a] = attempts[a]
  BY DbFields DEF ForceRecovery, ActiveIn
<1>2. /\ RowsAgree(Db) /\ policy.lease \in Ttl
      /\ attempts[a].owner \in Participant
  BY <1>1, Found
<1>3. Attached(w, a)
  BY <1>1, <1>2, FreshGrant
<1>4. Commit(Rescheduled(Ended(w, a, "abandoned"), a, 0))
  BY DEF ForceRecovery
<1> HIDE DEF w
<1>5. EndedBy(w, Rescheduled(Ended(w, a, "abandoned"), a, 0), a)
  <2>1. "abandoned" \in Outcome /\ 0 \in 0..MaxBackoff
    BY DEF Outcome
  <2> QED
    BY <1>3, <2>1, RescheduledEnd
<1> QED
  BY <1>1, <1>2, <1>4, <1>5, EndsHere DEF w

\* A set that grows by one member at most stays within a limit it was below.
LEMMA OneMoreFits ==
    ASSUME NEW S, IsFiniteSet(S), NEW x, NEW T, T \subseteq S \cup {x},
           NEW limit \in Nat, Cardinality(S) < limit
    PROVE  Cardinality(T) <= limit
<1>1. /\ IsFiniteSet(S \cup {x})
      /\ Cardinality(S \cup {x}) = IF x \in S THEN Cardinality(S) ELSE Cardinality(S) + 1
  BY FS_AddElement
<1>2. IsFiniteSet(T) /\ Cardinality(T) <= Cardinality(S \cup {x})
  BY <1>1, FS_Subset
<1>3. Cardinality(S) \in Nat /\ Cardinality(T) \in Nat /\ Cardinality(S \cup {x}) \in Nat
  BY <1>1, <1>2, FS_CardinalityType
<1> QED
  BY <1>1, <1>2, <1>3

\* Only the place of one task is taken, and it fits.
LEMMA OnePlaceMore ==
    ASSUME NEW s, NEW d, RowsAreFew(s), policy \in PolicyRow, NEW e \in Entity,
           \A x \in Entity \ {e} : d.reservations[x] = s.reservations[x],
           e \in ExecutionsIn(d) => Cardinality(ExecutionsIn(s)) < policy.execution_limit,
           s.reservations[e] = NoRow /\ policy.wip_limit > 0
              => Cardinality(OccupiedIn(s)) < policy.wip_limit
    PROVE  FitsLimits(s, d)
<1>1. policy.execution_limit \in Nat /\ policy.wip_limit \in Nat
  BY DEF PolicyRow
<1>2. IsFiniteSet(OccupiedIn(s))
  BY DEF RowsAreFew, OccupiedIn
<1>3. IsFiniteSet(ExecutionsIn(s))
  <2>1. ExecutionsIn(s) \subseteq OccupiedIn(s)
    BY DEF ExecutionsIn
  <2> QED
    BY <1>2, <2>1, FS_Subset
<1>4. /\ OccupiedIn(d) \subseteq OccupiedIn(s) \cup {e}
      /\ ExecutionsIn(d) \subseteq ExecutionsIn(s) \cup {e}
  BY DEF OccupiedIn, ExecutionsIn
<1>5. ASSUME ~(ExecutionsIn(d) \subseteq ExecutionsIn(s))
      PROVE  Cardinality(ExecutionsIn(d)) <= policy.execution_limit
  <2>1. e \in ExecutionsIn(d)
    BY <1>4, <1>5
  <2> QED
    BY <1>1, <1>3, <1>4, <2>1, OneMoreFits
<1>6. ASSUME ~(OccupiedIn(d) \subseteq OccupiedIn(s)), policy.wip_limit > 0
      PROVE  Cardinality(OccupiedIn(d)) <= policy.wip_limit
  <2>1. e \notin OccupiedIn(s)
    BY <1>4, <1>6
  <2>2. s.reservations[e] = NoRow
    BY <2>1 DEF OccupiedIn
  <2> QED
    BY <1>1, <1>2, <1>4, <1>6, <2>2, OneMoreFits
<1> QED
  BY <1>5, <1>6 DEF FitsLimits

LEMMA PlacesHere ==
    Occupied = OccupiedIn(Db) /\ Executions = ExecutionsIn(Db)
  BY DEF Occupied, Executions, OccupiedIn, ExecutionsIn, Db

\* A suspended execution goes on: it takes a slot again, in the place it kept.
LEMMA ClaimResumeMoves ==
    ASSUME QueueInv, NEW p \in Participant, NEW a \in AttemptId, IsAttempt(Db, a),
           ClaimResume(p, a)
    PROVE  \E d : /\ ActiveIn(Db, a) /\ RowsMoved(Db, d, a) /\ FitsLimits(Db, d)
                  /\ Commit(d)
<1> DEFINE w == Refenced(Db, a, p)
           t == w.attempts[a]
           e == Db.attempts[a].task
           u == ResumedRow(t)
           x == SetAttempt(w, a, u)
           place == Taken(Db.reservations[e])
           d == SetPlace(x, e, place)
<1>1. ActiveIn(Db, a) /\ Db.attempts[a] = attempts[a]
  BY DbFields DEF ClaimResume, ActiveIn
<1>2. /\ RowsAgree(Db) /\ policy.lease \in Ttl /\ Attached(Db, a) /\ e \in Entity
      /\ Db.reservations[e] # NoRow /\ IsPlace(place, Db.attempts[a].entry)
  <2>1. RowsAgree(Db) /\ policy.lease \in Ttl /\ Attached(Db, a)
    BY <1>1, Found
  <2>2. e \in Entity
    BY <2>1, AttemptTypes DEF Attached
  <2>3. Db.reservations[e] # NoRow
    BY <1>1, <2>1, ActiveRows
  <2>4. IsPlace(place, Db.attempts[a].entry)
    BY <1>1, <2>1, TurnedRow
  <2> QED
    BY <2>1, <2>2, <2>3, <2>4
<1>3. /\ Touches(Db, w, a) /\ w.entries = Db.entries /\ w.reservations = Db.reservations
      /\ t.state = "running" /\ t \in AttemptRow
  BY <1>1, <1>2, FreshGrant
<1>4. w \in Contents
  BY <1>3 DEF Touches
<1>5. Commit(d)
  <2>1. Commit([w EXCEPT !.attempts[a].state = "starting",
                         !.reservations[attempts[a].task].held = TRUE])
    BY DEF ClaimResume
  <2>2. Commit([w EXCEPT !.attempts[a].state = "starting", !.reservations[e].held = TRUE])
    BY <1>1, <2>1
  <2> HIDE DEF w, e
  <2>3. [w EXCEPT !.attempts[a].state = "starting", !.reservations[e].held = TRUE]
          = SetPlace(SetAttempt(w, a, ResumedRow(w.attempts[a])), e, Taken(w.reservations[e]))
    BY <1>4 DEF SetPlace, SetAttempt, ResumedRow, Taken, Contents
  <2> QED
    BY <1>3, <2>2, <2>3
<1>6. Becomes(t, u) /\ SameGrant(t, u) /\ u.state = "starting"
  BY <1>3, ResumedRowIs
<1> HIDE DEF w, u, t, place
<1>7. Becomes(Db.attempts[a], u)
  BY <1>3, <1>6 DEF Touches, Becomes, t
<1>8. /\ Touches(Db, x, a) /\ x.attempts[a] = u
      /\ x.entries = w.entries /\ x.reservations = w.reservations
      /\ x.claims = w.claims /\ x.fences = w.fences /\ x.work = w.work
      /\ x.questions = w.questions
  <2>1. Attached(Db, a) /\ Touches(Db, w, a)
    BY <1>2, <1>3
  <2>2. AttemptSet(Db, w, a, u)
    BY <2>1, <1>7, SetAttemptRows
  <2> QED
    BY <2>2 DEF AttemptSet
<1> HIDE DEF x
<1>9. /\ Touches(Db, d, a) /\ d.reservations[e] = place
      /\ d.entries = x.entries /\ d.attempts = x.attempts
      /\ d.claims = x.claims /\ d.fences = x.fences /\ d.work = x.work
      /\ d.questions = x.questions
  <2>1. place \in ReservationRow \cup {NoRow}
    BY <1>2 DEF IsPlace
  <2>2. PlaceSet(Db, x, a, place)
    BY <1>2, <1>8, <2>1, SetPlaceRows
  <2> QED
    BY <2>2 DEF PlaceSet, e
<1> HIDE DEF d
<1>10. RowsMoved(Db, d, a)
  <2>1. /\ d.claims = w.claims /\ d.fences = w.fences /\ d.work = w.work
        /\ d.questions = w.questions /\ d.entries = Db.entries
    BY <1>3, <1>8, <1>9
  <2>2. /\ d.attempts[a].state \in Executing
        /\ d.attempts[a].fence = w.attempts[a].fence
        /\ d.attempts[a].left = w.attempts[a].left
        /\ d.attempts[a].owner = w.attempts[a].owner
    BY <1>6, <1>8, <1>9 DEF SameGrant, Executing, t
  <2>3. d.reservations[Db.attempts[a].task] = Taken(Db.reservations[Db.attempts[a].task])
    BY <1>9 DEF place
  <2> QED
    BY <1>1, <1>2, <1>9, <2>1, <2>2, <2>3, RegrantMoves DEF w
<1>11. FitsLimits(Db, d)
  <2>1. \A y \in Entity \ {e} : d.reservations[y] = Db.reservations[y]
    BY <1>9 DEF Touches
  <2>2. Cardinality(ExecutionsIn(Db)) < policy.execution_limit
    BY PlacesHere DEF ClaimResume, Dispatching
  <2>3. RowsAreFew(Db) /\ policy \in PolicyRow
    BY <1>2 DEF RowsAgree, QueueInv
  <2> HIDE DEF e
  <2> QED
    BY <1>2, <2>1, <2>2, <2>3, OnePlaceMore
<1> QED
  BY <1>1, <1>5, <1>10, <1>11

-----------------------------------------------------------------------------
(* What a transaction leaves.                                              *)

LEMMA Committed ==
    ASSUME NEW d \in Contents, Commit(d)
    PROVE  Db' = d
  BY DEF Contents, Commit, Db

LEMMA CommitKeeps ==
    ASSUME QueueInv, NEW d, Commit(d), Keeps(Db, d)
    PROVE  QueueInv' /\ Keeps(Db, Db')
<1>1. d \in Contents
  BY DEF Keeps, RowsAgree
<1>2. Db' = d
  BY <1>1, Committed
<1>3. archived' = archived /\ running' = running /\ policy' = policy
  BY DEF Commit
<1>4. RowsAgree(Db') /\ ExecutionsHaveClaims(Db')
  BY <1>2 DEF Keeps
<1> QED
  BY <1>2, <1>3, <1>4 DEF QueueInv

\* Every command on an unfinished attempt.
LEMMA CommandMoves ==
    ASSUME QueueInv, NEW p \in Participant, NEW a \in AttemptId, IsAttempt(Db, a),
           AttemptCommand(p, a), ~Retry(p, a)
    PROVE  \E d : /\ ActiveIn(Db, a) /\ RowsMoved(Db, d, a) /\ FitsLimits(Db, d)
                  /\ Commit(d)
<1>1. CASE ClaimResume(p, a)
  BY <1>1, ClaimResumeMoves
<1>2. CASE \E d : Moves(d, a)
  <2>1. PICK d : Moves(d, a)
    BY <1>2
  <2> QED
    BY <2>1, OldPlacesFit DEF Moves
<1>3. CASE Accept(p, a)
  BY <1>2, <1>3, AcceptMoves
<1>4. CASE Heartbeat(p, a)
  BY <1>2, <1>4, HeartbeatMoves
<1>5. CASE ConfirmSuspension(p, a)
  BY <1>2, <1>5, ConfirmSuspensionMoves
<1>6. CASE RequestCancellation(p, a)
  BY <1>2, <1>6, RequestCancellationMoves
<1>7. CASE RequestSuspension(p, a)
  BY <1>2, <1>7, RequestSuspensionMoves
<1>8. CASE RequestResume(p, a)
  BY <1>2, <1>8, RequestResumeMoves
<1>9. CASE ReconcileUnknown(p, a)
  BY <1>2, <1>9, ReconcileUnknownMoves
<1>10. CASE ForceRecovery(p, a)
  BY <1>2, <1>10, ForceRecoveryMoves
<1>11. ASSUME NEW outcome \in Outcome, Finish(p, a, outcome) \/ ReconcileStopped(p, a, outcome)
       PROVE  \E d : Moves(d, a)
  BY <1>11, FinishMoves, ReconcileStoppedMoves
<1>12. ASSUME NEW session \in Session,
              \/ Started(p, a, session) \/ ReplaceSession(p, a, session)
              \/ ReconcileSuspended(p, a, session) \/ ReconcileRunning(p, a, session)
       PROVE  \E d : Moves(d, a)
  <2>1. CASE Started(p, a, session)
    BY <2>1, StartedMoves
  <2>2. CASE ReplaceSession(p, a, session)
    BY <2>2, ReplaceSessionMoves
  <2>3. CASE ReconcileSuspended(p, a, session)
    BY <2>3, ReconcileSuspendedMoves
  <2>4. CASE ReconcileRunning(p, a, session)
    BY <2>4, ReconcileRunningMoves
  <2> QED
    BY <1>12, <2>1, <2>2, <2>3, <2>4
<1>13. ASSUME NEW q \in Participant, Rebind(p, a, q)
       PROVE  \E d : Moves(d, a)
  BY <1>13, RebindMoves
<1> QED
  BY <1>1, <1>2, <1>3, <1>4, <1>5, <1>6, <1>7, <1>8, <1>9, <1>10, <1>11, <1>12, <1>13
  DEF AttemptCommand

LEMMA CommandKeeps ==
    ASSUME QueueInv, NEW p \in Participant, NEW a \in AttemptId, IsAttempt(Db, a),
           AttemptCommand(p, a), ~Retry(p, a)
    PROVE  QueueInv' /\ Keeps(Db, Db')
<1>1. PICK d : /\ ActiveIn(Db, a) /\ RowsMoved(Db, d, a) /\ FitsLimits(Db, d)
               /\ Commit(d)
  BY CommandMoves
<1>2. RowsAgree(Db) /\ ExecutionsHaveClaims(Db)
  BY DEF QueueInv
<1>3. Keeps(Db, d)
  BY <1>1, <1>2, MoveKeeps
<1> QED
  BY <1>1, <1>3, CommitKeeps

-----------------------------------------------------------------------------
(* Requests beside the queue.                                              *)

\* Nothing of the queue changes, nor the claims of what is unfinished.
Beside(s, d) ==
    /\ d \in Contents
    /\ d.entries = s.entries /\ d.attempts = s.attempts
    /\ d.reservations = s.reservations /\ d.questions = s.questions
    /\ \A n \in Name :
          /\ s.fences[n] <= d.fences[n]
          /\ d.claims[n] # NoClaim => d.claims[n].fence = d.fences[n]
    /\ \A e \in Entity : ManagedIn(s, e) =>
          /\ d.claims[TypedName[e]] = s.claims[TypedName[e]]
          /\ d.fences[TypedName[e]] = s.fences[TypedName[e]]
          /\ s.work[e] # "terminal" => d.work[e] # "terminal"
    /\ \A e \in Entity : s.work[e] # "absent" => d.work[e] # "absent"

\* The task of an unfinished attempt is managed.
LEMMA ActiveIsManaged ==
    ASSUME NEW s, RowsAgree(s), NEW a \in AttemptId, ActiveIn(s, a)
    PROVE  /\ s.attempts[a].task \in Entity /\ s.attempts[a].entry \in EntryId
           /\ ManagedIn(s, s.attempts[a].task)
           /\ ResourceOf(s, a) = TypedName[s.attempts[a].task]
<1>1. s \in Contents /\ IsAttempt(s, a)
  BY DEF RowsAgree, ActiveIn
<1>2. /\ s.attempts[a].task \in Entity /\ s.attempts[a].entry \in EntryId
      /\ ResourceOf(s, a) = TypedName[s.attempts[a].task]
  BY <1>1, AttemptTypes
<1>3. /\ s.entries[s.attempts[a].entry] # NoRow
      /\ s.entries[s.attempts[a].entry].task = s.attempts[a].task
      /\ s.entries[s.attempts[a].entry].state = "admitted"
  BY <1>1 DEF RowsAgree, AttemptsFit, ActiveIn
<1> QED
  BY <1>2, <1>3 DEF ManagedIn, UnfinishedIn, Unfinished

LEMMA BesideGrants ==
    ASSUME NEW s, RowsAgree(s), NEW d, Beside(s, d), NEW a \in AttemptId, ActiveIn(s, a)
    PROVE  /\ IsAttempt(d, a) /\ d.attempts[a] = s.attempts[a]
           /\ ResourceOf(d, a) = ResourceOf(s, a)
           /\ d.claims[ResourceOf(s, a)] = s.claims[ResourceOf(s, a)]
           /\ d.fences[ResourceOf(s, a)] = s.fences[ResourceOf(s, a)]
  BY ActiveIsManaged DEF Beside, ActiveIn, IsAttempt, ResourceOf

LEMMA BesideClaimsFit ==
    ASSUME NEW s, RowsAgree(s), NEW d, Beside(s, d)
    PROVE  ClaimsFit(d)
<1>1. \A n \in Name : d.claims[n] # NoClaim => d.claims[n].fence = d.fences[n]
  BY DEF Beside
<1>2. ASSUME NEW a \in AttemptId, IsAttempt(d, a)
      PROVE  LET t == d.attempts[a]
                 c == d.claims[ResourceOf(d, a)]
                 f == d.fences[ResourceOf(d, a)]
             IN IF t.state \in Executing
                THEN t.fence = f /\ (c = GrantOf(t) \/ (c = NoClaim /\ t.left = 0))
                ELSE t.fence < f /\ (t.state # "terminal" => ~Live(c))
  <2> DEFINE t == s.attempts[a]
             r == ResourceOf(s, a)
  <2>1. s \in Contents /\ d \in Contents /\ IsAttempt(s, a) /\ d.attempts[a] = t
        /\ ResourceOf(d, a) = r
    BY <1>2 DEF RowsAgree, Beside, IsAttempt, ResourceOf
  <2>2. r \in Name /\ t.fence \in Nat
    BY <2>1, AttemptTypes
  <2>3. s.fences[r] \in Nat /\ d.fences[r] \in Nat /\ s.fences[r] <= d.fences[r]
    BY <2>1, <2>2, RowTypes DEF Beside
  <2>4. IF t.state \in Executing
        THEN /\ t.fence = s.fences[r]
             /\ s.claims[r] = GrantOf(t) \/ (s.claims[r] = NoClaim /\ t.left = 0)
        ELSE t.fence < s.fences[r] /\ (t.state # "terminal" => ~Live(s.claims[r]))
    BY <2>1 DEF RowsAgree, ClaimsFit
  <2>5. CASE t.state = "terminal"
    <3>1. t.fence < s.fences[r]
      BY <2>4, <2>5 DEF Executing
    <3>2. t.fence < d.fences[r]
      BY <2>2, <2>3, <3>1
    <3> QED
      BY <2>1, <2>5, <3>2 DEF Executing
  <2>6. CASE t.state # "terminal"
    <3>0. ActiveIn(s, a)
      BY <2>1, <2>6 DEF ActiveIn
    <3>1. d.claims[r] = s.claims[r] /\ d.fences[r] = s.fences[r]
      BY <3>0, BesideGrants
    <3> QED
      BY <2>1, <2>4, <2>6, <3>1
  <2> QED
    BY <2>5, <2>6
<1> QED
  BY <1>1, <1>2 DEF ClaimsFit

LEMMA BesideAgrees ==
    ASSUME NEW s, RowsAgree(s), NEW d, Beside(s, d)
    PROVE  RowsAgree(d)
<1>1. d \in Contents /\ ClaimsFit(d)
  BY BesideClaimsFit DEF Beside
<1>2. AttemptsFit(d)
  BY DEF RowsAgree, AttemptsFit, Beside, IsAttempt
<1>3. OneAtATime(d)
  BY DEF RowsAgree, OneAtATime, Beside, IsAttempt, ActiveIn, UnfinishedIn
<1>4. PlacesFit(d)
  BY DEF RowsAgree, PlacesFit, Beside, IsAttempt, ActiveIn, UnfinishedIn
<1>5. FencesFit(d)
  BY DEF RowsAgree, FencesFit, Beside, IsAttempt
<1>6. QuestionsFit(d)
  BY DEF RowsAgree, QuestionsFit, Beside, IsAttempt
<1>7. RowsAreFew(d)
  BY DEF RowsAgree, RowsAreFew, Beside, IsAttempt
<1>8. TasksExist(d)
  <2>1. \A i \in EntryId : s.entries[i] # NoRow => s.entries[i].task \in Entity
    BY RowTypes DEF RowsAgree, EntryRow
  <2> QED
    BY <2>1 DEF RowsAgree, TasksExist, Beside
<1> QED
  BY <1>1, <1>2, <1>3, <1>4, <1>5, <1>6, <1>7, <1>8 DEF RowsAgree

LEMMA BesideAnswers ==
    ASSUME NEW s, RowsAgree(s), NEW d, Beside(s, d)
    PROVE  AnswersStayLost(s, d)
<1> SUFFICES ASSUME NEW q \in Question, LostIn(s, q), ~LostIn(d, q)
             PROVE  FALSE
  BY DEF AnswersStayLost
<1> DEFINE a == s.questions[q].attempt
<1>1. d.questions[q] = s.questions[q] /\ d.attempts = s.attempts
  BY DEF Beside
<1>2. ApplicableIn(d, q)
  BY <1>1 DEF LostIn
<1>3. PICK p \in Participant : GrantValid(d, a, p)
  BY <1>1, <1>2 DEF ApplicableIn
<1>4. a \in AttemptId /\ IsAttempt(s, a)
  <2>1. s.questions[q] \in QuestionRow
    BY RowTypes DEF LostIn, RowsAgree
  <2>2. IsAttempt(s, a)
    BY DEF LostIn, RowsAgree, QuestionsFit
  <2> QED
    BY <2>1, <2>2 DEF QuestionRow
<1>5. ActiveIn(s, a)
  BY <1>1, <1>3, <1>4 DEF GrantValid, ActiveIn, Executing
<1>6. /\ ResourceOf(d, a) = ResourceOf(s, a)
      /\ d.claims[ResourceOf(s, a)] = s.claims[ResourceOf(s, a)]
      /\ d.fences[ResourceOf(s, a)] = s.fences[ResourceOf(s, a)]
  <2> HIDE DEF a
  <2> QED
    BY <1>4, <1>5, BesideGrants
<1>7. GrantValid(s, a, p)
  BY <1>1, <1>3, <1>6 DEF GrantValid
<1> QED
  BY <1>1, <1>2, <1>7 DEF ApplicableIn, LostIn

LEMMA BesideKeeps ==
    ASSUME NEW s, RowsAgree(s), ExecutionsHaveClaims(s), NEW d, Beside(s, d)
    PROVE  Keeps(s, d)
<1>1. RowsAgree(d) /\ AnswersStayLost(s, d)
  BY BesideAgrees, BesideAnswers
<1>2. ExecutionsHaveClaims(d)
  <2> SUFFICES ASSUME NEW a \in AttemptId, IsAttempt(d, a), d.attempts[a].state \in Executing
               PROVE  d.claims[ResourceOf(d, a)] # NoClaim
    BY DEF ExecutionsHaveClaims
  <2>1. ActiveIn(s, a) /\ s.attempts[a].state \in Executing
    BY DEF Beside, ActiveIn, IsAttempt, Executing
  <2>2. /\ ResourceOf(d, a) = ResourceOf(s, a)
        /\ d.claims[ResourceOf(s, a)] = s.claims[ResourceOf(s, a)]
    BY <2>1, BesideGrants
  <2> QED
    BY <2>1, <2>2 DEF ExecutionsHaveClaims, ActiveIn
<1>3. ReservationsAreFirst(s, d) /\ ResultsKept(s, d) /\ ManagedEnds(s, d)
  BY DEF ReservationsAreFirst, ResultsKept, ManagedEnds, Beside, IsAttempt
<1>4. FitsLimits(s, d)
  BY DEF FitsLimits, OccupiedIn, ExecutionsIn, Beside
<1> QED
  BY <1>1, <1>2, <1>3, <1>4 DEF Keeps

LEMMA TablesType ==
    ASSUME QueueInv
    PROVE  /\ TypeOK /\ Db \in Contents
           /\ \A n \in Name : claims[n] # NoClaim => claims[n].fence = fences[n]
<1>1. /\ Db \in Contents
      /\ \A n \in Name : Db.claims[n] # NoClaim => Db.claims[n].fence = Db.fences[n]
  BY DEF QueueInv, RowsAgree, ClaimsFit
<1>2. TypeOK
  BY <1>1, DbFields DEF Contents, TypeOK, GrantRow, QueueInv
<1> QED
  BY <1>1, <1>2, DbFields

LEMMA ManagedHere ==
    ASSUME NEW e
    PROVE  ManagedTask(e) <=> ManagedIn(Db, e)
  BY DEF ManagedTask, ManagedIn, UnfinishedIn, Db

LEMMA BesideStep ==
    ASSUME QueueInv, TypeOK', policy' \in PolicyRow,
           UNCHANGED <<entries, attempts, reservations, questions>>,
           \A n \in Name : /\ fences[n] <= fences'[n]
                           /\ claims'[n] # NoClaim => claims'[n].fence = fences'[n],
           \A e \in Entity : ManagedTask(e) =>
              /\ claims'[TypedName[e]] = claims[TypedName[e]]
              /\ fences'[TypedName[e]] = fences[TypedName[e]]
              /\ work[e] # "terminal" => work'[e] # "terminal",
           \A e \in Entity : work[e] # "absent" => work'[e] # "absent"
    PROVE  QueueInv' /\ Keeps(Db, Db')
<1>1. /\ Db'.fences = fences' /\ Db'.claims = claims' /\ Db'.journal = journal'
      /\ Db'.work = work' /\ Db'.written = written' /\ Db'.gates = gates'
      /\ Db'.entries = entries /\ Db'.attempts = attempts
      /\ Db'.reservations = reservations /\ Db'.questions = questions
  BY DEF Db
<1>2. Db' \in Contents
  <2>1. Db \in Contents
    BY TablesType
  <2>2. /\ entries \in [EntryId -> EntryRow \cup {NoRow}]
        /\ attempts \in [AttemptId -> AttemptRow \cup {NoRow}]
        /\ reservations \in [Entity -> ReservationRow \cup {NoRow}]
        /\ questions \in [Question -> QuestionRow \cup {NoRow}]
    BY <2>1, DbFields DEF Contents
  <2>3. /\ fences' \in [Name -> Nat] /\ claims' \in [Name -> Claim \cup {NoClaim}]
        /\ journal' \in SUBSET GrantRow /\ work' \in [Entity -> WorkState]
        /\ written' \in [Entity -> Nat] /\ gates' \in [Gate -> GateRow \cup {NoGate}]
    BY DEF TypeOK, GrantRow
  <2> QED
    BY <2>2, <2>3 DEF Db, Contents
<1>3. Beside(Db, Db')
  BY <1>1, <1>2, DbFields, ManagedHere DEF Beside
<1>4. RowsAgree(Db) /\ ExecutionsHaveClaims(Db)
  BY DEF QueueInv
<1>5. Keeps(Db, Db')
  BY <1>3, <1>4, BesideKeeps
<1>6. archived' \subseteq Entity /\ running' \subseteq Participant
  BY DEF TypeOK
<1> QED
  BY <1>5, <1>6 DEF QueueInv, Keeps

\* A claim row that is no unfinished work's, and its fence.
LEMMA ClaimRowStep ==
    ASSUME QueueInv, NEW r \in Name, \A e \in Entity : ManagedTask(e) => r # TypedName[e],
           NEW c \in Claim \cup {NoClaim}, NEW f \in Nat, fences[r] <= f,
           c # NoClaim => c.fence = f,
           claims' = [claims EXCEPT ![r] = c], fences' = [fences EXCEPT ![r] = f],
           journal' \in SUBSET GrantRow, UNCHANGED <<running, table, queueVars>>
    PROVE  QueueInv' /\ Keeps(Db, Db')
<1>1. /\ TypeOK /\ policy \in PolicyRow
      /\ \A n \in Name : claims[n] # NoClaim => claims[n].fence = fences[n]
  BY TablesType DEF QueueInv
<1>2. TypeOK'
  BY <1>1 DEF TypeOK, GrantRow, table
<1>3. UNCHANGED <<policy, entries, attempts, reservations, questions, work>>
  BY DEF queueVars, table
<1>4. ASSUME NEW n \in Name
      PROVE  /\ fences[n] <= fences'[n]
             /\ claims'[n] # NoClaim => claims'[n].fence = fences'[n]
  <2>1. n # r => fences'[n] = fences[n] /\ claims'[n] = claims[n] /\ fences[n] \in Nat
    BY <1>1 DEF TypeOK
  <2>2. fences'[r] = f /\ claims'[r] = c
    BY <1>1 DEF TypeOK
  <2> QED
    BY <1>1, <2>1, <2>2
<1>5. ASSUME NEW e \in Entity, ManagedTask(e)
      PROVE  /\ claims'[TypedName[e]] = claims[TypedName[e]]
             /\ fences'[TypedName[e]] = fences[TypedName[e]]
             /\ work[e] # "terminal" => work'[e] # "terminal"
  BY <1>1, <1>3, <1>5 DEF TypeOK
<1> QED
  BY <1>1, <1>2, <1>3, <1>4, <1>5, BesideStep

LEMMA UnmanagedClaimKeeps ==
    ASSUME QueueInv, NEW p \in Participant, UnmanagedClaim(p)
    PROVE  QueueInv' /\ Keeps(Db, Db')
<1>1. PICK n \in Name :
          /\ ~ManagedName(n)
          /\ \/ \E mode \in Mode, ttl \in Ttl : Acquire(p, n, mode, ttl)
             \/ \E ttl \in Ttl : Renew(p, n, fences[Canonical(n)], ttl)
             \/ Release(p, n, fences[Canonical(n)])
  BY DEF UnmanagedClaim
<1> DEFINE r == Canonical(n)
           c == claims[r]
<1>2. /\ TypeOK /\ r \in Name
      /\ fences[r] \in Nat /\ c \in Claim \cup {NoClaim} /\ journal \in SUBSET GrantRow
      /\ c # NoClaim => c.fence = fences[r]
      /\ fences = [fences EXCEPT ![r] = fences[r]]
  <2>1. TypeOK
    BY TablesType
  <2>2. r \in Name
    BY <2>1 DEF Canonical, TypeOK
  <2> HIDE DEF r
  <2>3. c # NoClaim => c.fence = fences[r]
    BY <2>2, TablesType
  <2> QED
    BY <2>1, <2>2, <2>3 DEF TypeOK, GrantRow
<1>3. \A e \in Entity : ManagedTask(e) => r # TypedName[e]
  BY <1>1 DEF ManagedName
<1>4. UNCHANGED queueVars
  BY DEF UnmanagedClaim
<1>5. ASSUME NEW ttl \in Ttl, Live(c),
             claims' = [claims EXCEPT ![r] = Renewed(@, ttl)],
             UNCHANGED <<fences, journal, running, table>>
      PROVE  QueueInv' /\ Keeps(Db, Db')
  <2>1. c \in Claim
    BY <1>2, <1>5 DEF Live
  <2>2. Renewed(c, ttl) \in Claim /\ Renewed(c, ttl).fence = c.fence
    BY <2>1, RenewedType
  <2>3. claims' = [claims EXCEPT ![r] = Renewed(c, ttl)]
    BY <1>5
  <2>4. /\ fences' = [fences EXCEPT ![r] = fences[r]] /\ journal' \in SUBSET GrantRow
        /\ UNCHANGED <<running, table, queueVars>>
        /\ fences[r] <= fences[r] /\ c.fence = fences[r]
    BY <1>2, <1>4, <1>5, <2>1
  <2> HIDE DEF r, c
  <2> QED
    BY <1>2, <1>3, <2>2, <2>3, <2>4, ClaimRowStep
<1>6. ASSUME NEW mode \in Mode, NEW ttl \in Ttl, AcquireNew(p, n, mode, ttl)
      PROVE  QueueInv' /\ Keeps(Db, Db')
  <2> DEFINE f == fences[r] + 1
             new == [holder |-> p, mode |-> mode, fence |-> f, left |-> ttl]
             grant == [resource |-> r, fence |-> f, holder |-> p]
  <2>1. f \in Nat \ {0} /\ fences[r] <= f
    BY <1>2
  <2>2. /\ fences' = [fences EXCEPT ![r] = f] /\ claims' = [claims EXCEPT ![r] = new]
        /\ journal' = journal \cup {grant} /\ UNCHANGED <<running, table>>
    BY <1>6 DEF AcquireNew
  <2> HIDE DEF f
  <2>3. new \in Claim /\ new.fence = f /\ grant \in GrantRow
    BY <1>2, <2>1 DEF Claim, Ttl, GrantRow
  <2>4. journal' \in SUBSET GrantRow
    BY <1>2, <2>2, <2>3
  <2>5. f \in Nat /\ new \in Claim \cup {NoClaim} /\ UNCHANGED <<running, table, queueVars>>
    BY <1>4, <2>1, <2>2, <2>3
  <2> HIDE DEF r, c, new, grant
  <2> QED
    BY <1>2, <1>3, <2>1, <2>2, <2>3, <2>4, <2>5, ClaimRowStep
<1>7. CASE Release(p, n, fences[Canonical(n)])
  <2>1. /\ claims' = [claims EXCEPT ![r] = NoClaim]
        /\ UNCHANGED <<fences, journal, running, table>>
    BY <1>7 DEF Release
  <2>2. /\ fences' = [fences EXCEPT ![r] = fences[r]] /\ journal' \in SUBSET GrantRow
        /\ UNCHANGED <<running, table, queueVars>>
        /\ fences[r] <= fences[r] /\ NoClaim \in Claim \cup {NoClaim}
    BY <1>2, <1>4, <2>1
  <2> HIDE DEF r, c
  <2> QED
    BY <1>2, <1>3, <2>1, <2>2, ClaimRowStep
<1> QED
  BY <1>1, <1>5, <1>6, <1>7 DEF Acquire, AcquireHeld, Renew

\* No claim and no fence changes, and no managed task becomes terminal.
LEMMA TableStep ==
    ASSUME QueueInv, TypeOK', policy' \in PolicyRow,
           UNCHANGED <<fences, claims, entries, attempts, reservations, questions>>,
           \A e \in Entity :
              ManagedTask(e) /\ work[e] # "terminal" => work'[e] # "terminal",
           \A e \in Entity : work[e] # "absent" => work'[e] # "absent"
    PROVE  QueueInv' /\ Keeps(Db, Db')
<1>1. TypeOK /\ \A n \in Name : claims[n] # NoClaim => claims[n].fence = fences[n]
  BY TablesType
<1>2. ASSUME NEW n \in Name
      PROVE  /\ fences[n] <= fences'[n]
             /\ claims'[n] # NoClaim => claims'[n].fence = fences'[n]
  <2>1. fences[n] \in Nat
    BY <1>1 DEF TypeOK
  <2> QED
    BY <1>1, <2>1
<1> QED
  BY <1>2, BesideStep

LEMMA TaskWriteKeeps ==
    ASSUME QueueInv, NEW p, NEW e \in Entity, NEW f \in Nat, NEW patch \in Patch,
           TaskWrite(p, e, f, patch)
    PROVE  QueueInv' /\ Keeps(Db, Db')
<1>1. TypeOK /\ policy \in PolicyRow
  BY TablesType DEF QueueInv
<1>2. /\ UpdateEntity(e, f, patch) /\ UNCHANGED queueVars
      /\ ManagedTask(e) /\ patch \notin {"content", work[e]} => patch # "terminal"
  BY DEF TaskWrite
<1>3. GatesSettled(gates, UpdateGateNames(e)) \in [Gate -> GateRow \cup {NoGate}]
  BY <1>1, GatesSettledType
<1>4. gates' \in [Gate -> GateRow \cup {NoGate}]
  BY <1>1, <1>2, <1>3 DEF UpdateEntity, TypeOK
<1>5. /\ work' = [work EXCEPT ![e] = IF patch = "content" THEN @ ELSE patch]
      /\ written' = [written EXCEPT ![e] = f]
      /\ UNCHANGED <<fences, claims, archived, journal, running>>
  BY <1>2 DEF UpdateEntity
<1>6. TypeOK'
  BY <1>1, <1>4, <1>5 DEF TypeOK, Patch, WorkState
<1>7. ASSUME NEW x \in Entity, ManagedTask(x), work[x] # "terminal"
      PROVE  work'[x] # "terminal"
  BY <1>1, <1>2, <1>5, <1>7 DEF TypeOK
<1>8. ASSUME NEW x \in Entity, work[x] # "absent"
      PROVE  work'[x] # "absent"
  BY <1>1, <1>5, <1>8 DEF TypeOK, Patch
<1> QED
  BY <1>1, <1>2, <1>5, <1>6, <1>7, <1>8, TableStep DEF queueVars

LEMMA TaskArchiveKeeps ==
    ASSUME QueueInv, NEW e \in Entity, NEW f \in Nat, TaskArchive(e, f)
    PROVE  QueueInv' /\ Keeps(Db, Db')
<1>1. /\ TypeOK /\ policy \in PolicyRow
      /\ \A n \in Name : claims[n] # NoClaim => claims[n].fence = fences[n]
  BY TablesType DEF QueueInv
<1>2. ~ManagedTask(e) /\ UNCHANGED queueVars
  BY DEF TaskArchive
<1>3. /\ gates' = GatesSettled(gates, {e})
      /\ claims' = [claims EXCEPT ![TypedName[e]] = NoClaim]
      /\ archived' = archived \cup {e} /\ written' = [written EXCEPT ![e] = f]
      /\ UNCHANGED <<fences, work, journal, running>>
  BY DEF TaskArchive, ArchiveEntity
<1>4. gates' \in [Gate -> GateRow \cup {NoGate}]
  BY <1>1, <1>3, GatesSettledType
<1>5. TypeOK'
  BY <1>1, <1>3, <1>4 DEF TypeOK
<1>6. ASSUME NEW n \in Name
      PROVE  /\ fences[n] <= fences'[n]
             /\ claims'[n] # NoClaim => claims'[n].fence = fences'[n]
  <2>1. fences[n] \in Nat /\ (claims'[n] = claims[n] \/ claims'[n] = NoClaim)
    BY <1>1, <1>3 DEF TypeOK
  <2> QED
    BY <1>1, <1>3, <2>1
<1>7. ASSUME NEW x \in Entity, ManagedTask(x)
      PROVE  /\ claims'[TypedName[x]] = claims[TypedName[x]]
             /\ fences'[TypedName[x]] = fences[TypedName[x]]
             /\ work[x] # "terminal" => work'[x] # "terminal"
  <2>1. x # e
    BY <1>2, <1>7
  <2>2. TypedName[x] # TypedName[e] /\ TypedName[x] \in Name
    BY <2>1
  <2> QED
    BY <1>1, <1>3, <2>2 DEF TypeOK
<1>8. \A x \in Entity : work[x] # "absent" => work'[x] # "absent"
  BY <1>3
<1> QED
  BY <1>1, <1>2, <1>5, <1>6, <1>7, <1>8, BesideStep DEF queueVars

\* A step of module Coordination that leaves every claim as it is.
LEMMA CoordinationStep ==
    ASSUME QueueInv, [Next]_vars, UNCHANGED <<fences, claims, queueVars>>,
           \A e \in Entity :
              ManagedTask(e) /\ work[e] # "terminal" => work'[e] # "terminal",
           \A e \in Entity : work[e] # "absent" => work'[e] # "absent"
    PROVE  QueueInv' /\ Keeps(Db, Db')
<1>1. TypeOK /\ policy \in PolicyRow
  BY TablesType DEF QueueInv
<1>2. TypeOK'
  BY <1>1, TypeStep
<1>3. UNCHANGED <<policy, entries, attempts, reservations, questions>>
  BY DEF queueVars
<1> QED
  BY <1>1, <1>2, <1>3, TableStep

\* Managed work exists, so creating a task is never about it.
LEMMA ManagedExist ==
    ASSUME QueueInv, NEW e \in Entity, ManagedTask(e)
    PROVE  work[e] # "absent"
  BY DbFields DEF QueueInv, RowsAgree, TasksExist, ManagedTask

LEMMA TableRequestKeeps ==
    ASSUME QueueInv, NEW p \in running,
           \/ \E e \in Entity, state \in WorkState : TaskCreate(e, state)
           \/ QueueGates
           \/ Stop(p)
    PROVE  QueueInv' /\ Keeps(Db, Db')
<1>1. ASSUME NEW e \in Entity, NEW state \in WorkState, TaskCreate(e, state)
      PROVE  QueueInv' /\ Keeps(Db, Db')
  <2>1. /\ CreateEntity(e, state) /\ UNCHANGED <<fences, claims>> /\ UNCHANGED queueVars
        /\ work[e] = "absent" /\ state # "absent" /\ work' = [work EXCEPT ![e] = state]
    BY <1>1 DEF TaskCreate, CreateEntity, Created
  <2>2. Next
    BY <2>1 DEF Next, EntityRequest
  <2>3. work \in [Entity -> WorkState]
    BY TablesType DEF TypeOK
  <2>4. /\ \A x \in Entity : ManagedTask(x) => work'[x] = work[x]
        /\ \A x \in Entity : work[x] # "absent" => work'[x] # "absent"
    BY <2>1, <2>3, ManagedExist
  <2> QED
    BY <2>1, <2>2, <2>4, CoordinationStep
<1>2. CASE QueueGates
  <2>1. GateRequest /\ UNCHANGED queueVars
    BY <1>2 DEF QueueGates
  <2>2. Next
    BY <2>1 DEF Next
  <2>3. UNCHANGED <<fences, claims, work>>
    BY <2>1 DEF GateRequest, CreateGate, SettleGate, ListGates
  <2> QED
    BY <2>1, <2>2, <2>3, CoordinationStep
<1>3. CASE Stop(p)
  <2>1. Crash(p) /\ UNCHANGED queueVars /\ UNCHANGED <<fences, claims, work>>
    BY <1>3 DEF Stop, Crash, table
  <2>2. Next
    BY <2>1 DEF Next
  <2> QED
    BY <2>1, <2>2, CoordinationStep
<1> QED
  BY <1>1, <1>2, <1>3

LEMMA ConfigureKeeps ==
    ASSUME QueueInv, NEW p, Configure(p)
    PROVE  QueueInv' /\ Keeps(Db, Db')
<1>1. TypeOK
  BY TablesType
<1>2. policy' \in PolicyRow
  BY DEF Configure
<1>3. UNCHANGED vars /\ UNCHANGED <<entries, attempts, reservations, questions>>
  BY DEF Configure
<1>4. TypeOK'
  BY <1>1, <1>3, TypeStep
<1>5. UNCHANGED <<fences, claims, work>>
  BY <1>3 DEF vars
<1> QED
  BY <1>2, <1>3, <1>4, <1>5, TableStep

LEMMA StutterKeeps ==
    ASSUME QueueInv, UNCHANGED mqVars
    PROVE  QueueInv' /\ Keeps(Db, Db')
<1>1. UNCHANGED vars /\ UNCHANGED queueVars /\ UNCHANGED <<fences, claims, work>>
  BY DEF mqVars, vars
<1> QED
  BY <1>1, CoordinationStep

LEMMA UnmanagedKeeps ==
    ASSUME QueueInv, NEW p \in running, Unmanaged(p)
    PROVE  QueueInv' /\ Keeps(Db, Db')
<1>1. p \in Participant /\ 1..MaxGrant \subseteq Nat
  BY DEF QueueInv
<1>2. ASSUME NEW e \in Entity, NEW f \in 1..MaxGrant,
             (\E patch \in Patch : TaskWrite(p, e, f, patch)) \/ TaskArchive(e, f)
      PROVE  QueueInv' /\ Keeps(Db, Db')
  BY <1>1, <1>2, TaskWriteKeeps, TaskArchiveKeeps
<1> QED
  BY <1>1, <1>2, UnmanagedClaimKeeps, TableRequestKeeps DEF Unmanaged

-----------------------------------------------------------------------------
(* Questions.                                                              *)

\* One question differs: it had no answer, and its new row is one that stands
\* or is closed.
SetQuestion(s, q, row) == [s EXCEPT !.questions[q] = row]

LEMMA QuestionKeeps ==
    ASSUME NEW s, RowsAgree(s), ExecutionsHaveClaims(s), NEW q \in Question,
           NEW row \in QuestionRow, IsAttempt(s, row.attempt),
           s.attempts[row.attempt].accepted, row.fence <= s.attempts[row.attempt].fence,
           row.state = "open" =>
              /\ row.valid /\ s.attempts[row.attempt].state # "terminal"
              /\ ~s.attempts[row.attempt].cancel
              /\ row.fence = s.attempts[row.attempt].fence,
           s.questions[q] # NoRow => s.questions[q].state # "answered"
    PROVE  Keeps(s, SetQuestion(s, q, row))
<1> DEFINE d == SetQuestion(s, q, row)
           Q == [s.questions EXCEPT ![q] = row]
<1>1. s \in Contents
  BY DEF RowsAgree
<1>2. /\ Q \in [Question -> QuestionRow \cup {NoRow}]
      /\ Q[q] = row /\ \A o \in Question \ {q} : Q[o] = s.questions[o]
  BY <1>1 DEF Contents
<1>3. d = [s EXCEPT !.questions = Q]
  BY <1>1 DEF SetQuestion, Contents
<1> HIDE DEF Q
<1>4. /\ d \in Contents /\ d.questions = Q
      /\ d.fences = s.fences /\ d.claims = s.claims /\ d.work = s.work
      /\ d.entries = s.entries /\ d.attempts = s.attempts
      /\ d.reservations = s.reservations
  BY <1>1, <1>2, <1>3 DEF Contents
<1> HIDE DEF d
<1>5. QuestionsFit(d)
  <2> SUFFICES ASSUME NEW o \in Question, d.questions[o] # NoRow
               PROVE  LET new == d.questions[o]
                          t == d.attempts[new.attempt]
                      IN
                      /\ IsAttempt(d, new.attempt) /\ t.accepted /\ new.fence <= t.fence
                      /\ new.state = "open" =>
                            /\ new.valid /\ t.state # "terminal" /\ ~t.cancel
                            /\ new.fence = t.fence
    BY DEF QuestionsFit
  <2>1. CASE o = q
    <3>1. d.questions[o] = row
      BY <1>2, <1>4, <2>1
    <3>2. d.attempts = s.attempts
      BY <1>4
    <3> QED
      BY <3>1, <3>2 DEF IsAttempt
  <2>2. CASE o # q
    <3>1. d.questions[o] = s.questions[o]
      BY <1>2, <1>4, <2>2
    <3>2. d.attempts = s.attempts
      BY <1>4
    <3>3. QuestionsFit(s)
      BY DEF RowsAgree
    <3> QED
      BY <3>1, <3>2, <3>3 DEF QuestionsFit, IsAttempt
  <2> QED
    BY <2>1, <2>2
<1>6. RowsAgree(d)
  <2>1. AttemptsFit(d)
    BY <1>4 DEF RowsAgree, AttemptsFit, IsAttempt
  <2>2. OneAtATime(d)
    <3>1. OneAtATime(s)
      BY DEF RowsAgree
    <3> QED
      BY <1>4, <3>1 DEF OneAtATime, IsAttempt, ActiveIn, UnfinishedIn
  <2>3. PlacesFit(d)
    <3>1. PlacesFit(s)
      BY DEF RowsAgree
    <3>2. d.entries = s.entries /\ d.attempts = s.attempts /\ d.reservations = s.reservations
      BY <1>4
    <3>3. /\ \A b : IsAttempt(d, b) <=> IsAttempt(s, b)
          /\ \A b : ActiveIn(d, b) <=> ActiveIn(s, b)
          /\ \A j : UnfinishedIn(d, j) <=> UnfinishedIn(s, j)
      BY <3>2 DEF IsAttempt, ActiveIn, UnfinishedIn
    <3>4. ASSUME NEW x \in Entity, d.reservations[x] # NoRow
          PROVE  LET j == d.reservations[x].entry IN
                 /\ UnfinishedIn(d, j) /\ d.entries[j].task = x
                 /\ d.reservations[x].held =>
                       \E b \in AttemptId : /\ ActiveIn(d, b) /\ d.attempts[b].task = x
                                            /\ d.attempts[b].state \in Holding
      BY <3>1, <3>2, <3>3, <3>4 DEF PlacesFit
    <3>5. ASSUME NEW b \in AttemptId, ActiveIn(d, b)
          PROVE  LET place == d.reservations[d.attempts[b].task] IN
                 place # NoRow /\ (place.held <=> d.attempts[b].state \in Holding)
      BY <3>1, <3>2, <3>3, <3>5 DEF PlacesFit
    <3>6. ASSUME NEW j \in EntryId, NEW b \in AttemptId, UnfinishedIn(d, j), IsAttempt(d, b),
                 d.attempts[b].entry = j, d.attempts[b].accepted
          PROVE  d.reservations[d.entries[j].task] # NoRow
      BY <3>1, <3>2, <3>3, <3>6 DEF PlacesFit
    <3> QED
      BY <3>4, <3>5, <3>6 DEF PlacesFit
  <2>4. ClaimsFit(d)
    <3>1. ClaimsFit(s)
      BY DEF RowsAgree
    <3>2. \A n \in Name : d.claims[n] # NoClaim => d.claims[n].fence = d.fences[n]
      BY <1>4, <3>1 DEF ClaimsFit
    <3>3. ASSUME NEW b \in AttemptId, IsAttempt(d, b)
          PROVE  LET t == d.attempts[b]
                     c == d.claims[ResourceOf(d, b)]
                     f == d.fences[ResourceOf(d, b)]
                 IN IF t.state \in Executing
                    THEN t.fence = f /\ (c = GrantOf(t) \/ (c = NoClaim /\ t.left = 0))
                    ELSE t.fence < f /\ (t.state # "terminal" => ~Live(c))
      <4>1. IsAttempt(s, b)
        BY <1>4, <3>3 DEF IsAttempt
      <4>2. ResourceOf(d, b) = ResourceOf(s, b)
        BY <1>4 DEF ResourceOf
      <4> QED
        BY <1>4, <3>1, <4>1, <4>2 DEF ClaimsFit
    <3> QED
      BY <3>2, <3>3 DEF ClaimsFit
  <2>5. FencesFit(d)
    <3>1. FencesFit(s)
      BY DEF RowsAgree
    <3> QED
      BY <1>4, <3>1 DEF FencesFit, IsAttempt
  <2>6. RowsAreFew(d)
    BY <1>4 DEF RowsAgree, RowsAreFew, IsAttempt
  <2>7. TasksExist(d)
    BY <1>4 DEF RowsAgree, TasksExist
  <2> QED
    BY <1>4, <1>5, <2>1, <2>2, <2>3, <2>4, <2>5, <2>6, <2>7 DEF RowsAgree
<1>7. AnswersStayLost(s, d)
  <2> SUFFICES ASSUME NEW o \in Question, LostIn(s, o)
               PROVE  LostIn(d, o)
    BY DEF AnswersStayLost
  <2>1. o # q
    BY DEF LostIn
  <2>2. d.questions[o] = s.questions[o]
    BY <1>2, <1>4, <2>1
  <2>3. \A a, p : GrantValid(d, a, p) <=> GrantValid(s, a, p)
    BY <1>4 DEF GrantValid, ResourceOf
  <2> QED
    BY <1>4, <2>2, <2>3 DEF LostIn, ApplicableIn
<1>8. ExecutionsHaveClaims(d) /\ ResultsKept(s, d) /\ ManagedEnds(s, d)
  BY <1>4 DEF ExecutionsHaveClaims, ResultsKept, ManagedEnds, IsAttempt, ResourceOf
<1>9. FitsLimits(s, d)
  BY <1>4 DEF FitsLimits, OccupiedIn, ExecutionsIn
<1>10. ReservationsAreFirst(s, d)
  BY <1>4 DEF ReservationsAreFirst, IsAttempt
<1> QED
  BY <1>6, <1>7, <1>8, <1>9, <1>10 DEF Keeps, d

LEMMA AskKeeps ==
    ASSUME QueueInv, NEW p, NEW a \in AttemptId, IsAttempt(Db, a), NEW q \in Question,
           Ask(p, a, q)
    PROVE  QueueInv' /\ Keeps(Db, Db')
<1> DEFINE row == [attempt |-> a, fence |-> attempts[a].fence, valid |-> TRUE, state |-> "open"]
<1>1. /\ RowsAgree(Db) /\ ExecutionsHaveClaims(Db) /\ Db.attempts[a] = attempts[a]
      /\ attempts[a].state # "terminal"
  BY DbFields DEF QueueInv, Ask, GrantValid, Executing
<1>2. attempts[a].fence \in Nat
  <2>1. Db \in Contents
    BY TablesType
  <2> QED
    BY <1>1, <2>1, AttemptTypes
<1>3. row \in QuestionRow
  <2>1. TRUE \in BOOLEAN
    OBVIOUS
  <2> QED
    BY <1>2, <2>1 DEF QuestionRow
<1>4. /\ attempts[a].accepted /\ ~attempts[a].cancel /\ questions[q] = NoRow
      /\ Commit([Db EXCEPT !.questions[q] = row])
  BY DEF Ask
<1>5. Commit(SetQuestion(Db, q, row))
  BY <1>4 DEF SetQuestion
<1>6. row.attempt = a /\ row.fence = attempts[a].fence /\ row.valid
  OBVIOUS
<1> HIDE DEF row
<1>7. /\ IsAttempt(Db, row.attempt) /\ Db.attempts[row.attempt].accepted
      /\ row.fence <= Db.attempts[row.attempt].fence
      /\ row.fence = Db.attempts[row.attempt].fence
      /\ row.valid /\ Db.attempts[row.attempt].state # "terminal"
      /\ ~Db.attempts[row.attempt].cancel
      /\ Db.questions[q] = NoRow
  BY <1>1, <1>2, <1>4, <1>6, DbFields
<1>8. Keeps(Db, SetQuestion(Db, q, row))
  BY <1>1, <1>3, <1>7, QuestionKeeps
<1> QED
  BY <1>5, <1>8, CommitKeeps

LEMMA CloseQuestionKeeps ==
    ASSUME QueueInv, NEW q \in Question, NEW state \in {"answered", "cancelled"},
           CloseQuestion(q, state)
    PROVE  QueueInv' /\ Keeps(Db, Db')
<1> DEFINE old == Db.questions[q]
           row == [old EXCEPT !.state = state, !.valid = (state = "answered")]
<1>1. RowsAgree(Db) /\ ExecutionsHaveClaims(Db) /\ old = questions[q]
  BY DbFields DEF QueueInv
<1>2. old # NoRow /\ old.state = "open"
  BY <1>1 DEF CloseQuestion
<1>3. Commit([Db EXCEPT !.questions[q] = [@ EXCEPT !.state = state,
                                                   !.valid = (state = "answered")]])
  BY DEF CloseQuestion
<1>4. Commit(SetQuestion(Db, q, row))
  BY <1>3, Zenon DEF SetQuestion
<1>5. old \in QuestionRow
  <2>1. Db \in Contents
    BY TablesType
  <2> QED
    BY <1>2, <2>1, RowTypes
<1>6. row \in QuestionRow /\ row.attempt = old.attempt /\ row.fence = old.fence
      /\ row.state # "open"
  <2>1. (state = "answered") \in BOOLEAN
    OBVIOUS
  <2> HIDE DEF old
  <2>2. row \in QuestionRow
    BY <1>5, <2>1 DEF QuestionRow
  <2>3. row.attempt = old.attempt /\ row.fence = old.fence /\ row.state # "open"
    BY <1>5 DEF QuestionRow
  <2> QED
    BY <2>2, <2>3
<1>7. /\ IsAttempt(Db, old.attempt) /\ Db.attempts[old.attempt].accepted
      /\ old.fence <= Db.attempts[old.attempt].fence
  BY <1>1, <1>2 DEF RowsAgree, QuestionsFit
<1> HIDE DEF row
<1>8. Keeps(Db, SetQuestion(Db, q, row))
  BY <1>1, <1>2, <1>6, <1>7, QuestionKeeps
<1> QED
  BY <1>4, <1>8, CommitKeeps

-----------------------------------------------------------------------------
(* Entries that are enrolled, withdrawn or retried.                        *)

\* Entry i of task e, with which nothing is under way, changes, and its place.
EntryTurned(s, d, i, e) ==
    /\ d \in Contents
    /\ d.attempts = s.attempts /\ d.claims = s.claims /\ d.fences = s.fences
    /\ d.questions = s.questions /\ d.work = s.work
    /\ \A j \in EntryId \ {i} : d.entries[j] = s.entries[j]
    /\ \A x \in Entity \ {e} : d.reservations[x] = s.reservations[x]
    /\ d.entries[i] # NoRow /\ d.entries[i].task = e
    /\ d.entries[i].state \in {"queued", "withdrawn"}
    /\ s.entries[i] # NoRow => s.entries[i].task = e /\ s.entries[i].state # "admitted"
    /\ s.entries[i] = NoRow => s.work[e] # "absent"
    /\ \A j \in EntryId \ {i} : UnfinishedIn(s, j) => s.entries[j].task # e
    /\ LET place == d.reservations[e] IN
       /\ place # NoRow => /\ d.entries[i].state = "queued"
                           /\ place.entry = i /\ ~place.held
       /\ d.entries[i].state = "queued" /\ place = NoRow =>
              \A a \in AttemptId :
                  IsAttempt(s, a) /\ s.attempts[a].entry = i => ~s.attempts[a].accepted

LEMMA TurnedIsIdle ==
    ASSUME NEW s, RowsAgree(s), NEW d, NEW i \in EntryId, NEW e \in Entity,
           EntryTurned(s, d, i, e), NEW a \in AttemptId, ActiveIn(s, a)
    PROVE  /\ s.attempts[a].task \in Entity \ {e} /\ s.attempts[a].entry \in EntryId \ {i}
           /\ s.entries[s.attempts[a].entry].state = "admitted"
<1> DEFINE j == s.attempts[a].entry
<1>1. /\ s.attempts[a].task \in Entity /\ j \in EntryId
      /\ s.entries[j] # NoRow /\ s.entries[j].task = s.attempts[a].task
      /\ s.entries[j].state = "admitted"
  <2>1. s.attempts[a].task \in Entity /\ j \in EntryId
    BY ActiveIsManaged
  <2>2. Attached(s, a) /\ s.entries[j].state = "admitted"
    BY ActiveRows
  <2> QED
    BY <2>1, <2>2 DEF Attached
<1> HIDE DEF j
<1>2. j # i
  BY <1>1 DEF EntryTurned
<1>3. UnfinishedIn(s, j)
  BY <1>1 DEF UnfinishedIn, Unfinished
<1>4. s.entries[j].task # e
  BY <1>1, <1>2, <1>3 DEF EntryTurned
<1> QED
  BY <1>1, <1>2, <1>4 DEF j

LEMMA TurnedAttemptsFit ==
    ASSUME NEW s, RowsAgree(s), NEW d, NEW i \in EntryId, NEW e \in Entity,
           EntryTurned(s, d, i, e)
    PROVE  AttemptsFit(d)
<1> SUFFICES ASSUME NEW a \in AttemptId, IsAttempt(d, a)
             PROVE  LET t == d.attempts[a] IN
                    /\ d.entries[t.entry] # NoRow /\ d.entries[t.entry].task = t.task
                    /\ t.state = "terminal" => t.left = 0
                    /\ t.state # "terminal" => d.entries[t.entry].state = "admitted"
                    /\ t.pred # NoRow => /\ IsAttempt(d, t.pred)
                                         /\ d.attempts[t.pred].entry = t.entry
                                         /\ d.attempts[t.pred].fence < t.fence
  BY DEF AttemptsFit
<1> DEFINE t == s.attempts[a]
<1>1. d.attempts = s.attempts /\ d.attempts[a] = t /\ IsAttempt(s, a) /\ s \in Contents
  BY DEF EntryTurned, IsAttempt, RowsAgree
<1>2. /\ s.entries[t.entry] # NoRow /\ s.entries[t.entry].task = t.task
      /\ t.state = "terminal" => t.left = 0
      /\ t.pred # NoRow => /\ IsAttempt(s, t.pred)
                           /\ s.attempts[t.pred].entry = t.entry
                           /\ s.attempts[t.pred].fence < t.fence
  BY <1>1 DEF RowsAgree, AttemptsFit
<1>3. t.entry \in EntryId
  BY <1>1, AttemptTypes
<1>4. d.entries[t.entry] # NoRow /\ d.entries[t.entry].task = t.task
  BY <1>2, <1>3 DEF EntryTurned
<1>5. t.state # "terminal" => d.entries[t.entry].state = "admitted"
  <2> SUFFICES ASSUME t.state # "terminal"
               PROVE  d.entries[t.entry].state = "admitted"
    OBVIOUS
  <2>1. ActiveIn(s, a)
    BY <1>1 DEF ActiveIn
  <2>2. t.entry \in EntryId \ {i} /\ s.entries[t.entry].state = "admitted"
    BY <2>1, TurnedIsIdle
  <2> QED
    BY <2>2 DEF EntryTurned
<1> QED
  BY <1>1, <1>2, <1>4, <1>5 DEF IsAttempt

LEMMA TurnedOneAtATime ==
    ASSUME NEW s, RowsAgree(s), NEW d, NEW i \in EntryId, NEW e \in Entity,
           EntryTurned(s, d, i, e)
    PROVE  OneAtATime(d)
<1>1. ASSUME NEW j \in EntryId, j # i, UnfinishedIn(d, j)
      PROVE  /\ UnfinishedIn(s, j) /\ d.entries[j].task = s.entries[j].task
             /\ d.entries[j].task # e
  BY <1>1 DEF EntryTurned, UnfinishedIn
<1>2. \A j, k \in EntryId :
          UnfinishedIn(d, j) /\ UnfinishedIn(d, k)
          /\ d.entries[j].task = d.entries[k].task => j = k
  <2> SUFFICES ASSUME NEW j \in EntryId, NEW k \in EntryId, UnfinishedIn(d, j),
                      UnfinishedIn(d, k), d.entries[j].task = d.entries[k].task
               PROVE  j = k
    OBVIOUS
  <2>1. d.entries[i].task = e
    BY DEF EntryTurned
  <2>2. CASE j = i \/ k = i
    BY <1>1, <2>1, <2>2
  <2>3. CASE j # i /\ k # i
    <3>1. UnfinishedIn(s, j) /\ UnfinishedIn(s, k) /\ s.entries[j].task = s.entries[k].task
      BY <1>1, <2>3
    <3> QED
      BY <3>1 DEF RowsAgree, OneAtATime
  <2> QED
    BY <2>2, <2>3
<1>3. \A a, b \in AttemptId :
          ActiveIn(d, a) /\ ActiveIn(d, b)
          /\ d.attempts[a].task = d.attempts[b].task => a = b
  <2>1. \A a, b \in AttemptId :
            ActiveIn(s, a) /\ ActiveIn(s, b)
            /\ s.attempts[a].task = s.attempts[b].task => a = b
    BY DEF RowsAgree, OneAtATime
  <2>2. d.attempts = s.attempts
    BY DEF EntryTurned
  <2> QED
    BY <2>1, <2>2 DEF ActiveIn, IsAttempt
<1>4. \A j \in EntryId :
          d.entries[j] # NoRow /\ d.entries[j].state = "admitted"
            => \E a \in AttemptId : ActiveIn(d, a) /\ d.attempts[a].entry = j
  <2> SUFFICES ASSUME NEW j \in EntryId, d.entries[j] # NoRow,
                      d.entries[j].state = "admitted"
               PROVE  \E a \in AttemptId : ActiveIn(d, a) /\ d.attempts[a].entry = j
    OBVIOUS
  <2>1. d.entries[j] = s.entries[j] /\ d.attempts = s.attempts
    BY DEF EntryTurned
  <2>2. \E a \in AttemptId : ActiveIn(s, a) /\ s.attempts[a].entry = j
    BY <2>1 DEF RowsAgree, OneAtATime
  <2> QED
    BY <2>1, <2>2 DEF ActiveIn, IsAttempt
<1> QED
  BY <1>2, <1>3, <1>4 DEF OneAtATime

LEMMA TurnedPlacesFit ==
    ASSUME NEW s, RowsAgree(s), NEW d, NEW i \in EntryId, NEW e \in Entity,
           EntryTurned(s, d, i, e)
    PROVE  PlacesFit(d)
<1>0. s \in Contents /\ d.attempts = s.attempts
  BY DEF RowsAgree, EntryTurned
<1>1. ASSUME NEW x \in Entity, d.reservations[x] # NoRow
      PROVE  LET j == d.reservations[x].entry IN
             /\ UnfinishedIn(d, j) /\ d.entries[j].task = x
             /\ d.reservations[x].held =>
                   \E a \in AttemptId : /\ ActiveIn(d, a) /\ d.attempts[a].task = x
                                        /\ d.attempts[a].state \in Holding
  <2>1. CASE x = e
    BY <1>1, <2>1 DEF EntryTurned, UnfinishedIn, Unfinished
  <2>2. CASE x # e
    <3> DEFINE row == s.reservations[x]
               j == row.entry
    <3>1. d.reservations[x] = row /\ row # NoRow
      BY <1>1, <2>2 DEF EntryTurned
    <3>2. j \in EntryId
      BY <1>0, <3>1, RowTypes DEF ReservationRow
    <3>3. /\ UnfinishedIn(s, j) /\ s.entries[j].task = x
          /\ row.held =>
                \E a \in AttemptId : /\ ActiveIn(s, a) /\ s.attempts[a].task = x
                                     /\ s.attempts[a].state \in Holding
      BY <3>1 DEF RowsAgree, PlacesFit
    <3> HIDE DEF row, j
    <3>4. d.entries[j] = s.entries[j]
      BY <2>2, <3>2, <3>3 DEF EntryTurned, UnfinishedIn
    <3> QED
      BY <1>0, <3>1, <3>3, <3>4 DEF UnfinishedIn, ActiveIn, IsAttempt, j
  <2> QED
    BY <2>1, <2>2
<1>2. ASSUME NEW a \in AttemptId, ActiveIn(d, a)
      PROVE  LET row == d.reservations[d.attempts[a].task] IN
             row # NoRow /\ (row.held <=> d.attempts[a].state \in Holding)
  <2>1. ActiveIn(s, a) /\ d.attempts[a] = s.attempts[a]
    BY <1>0, <1>2 DEF ActiveIn, IsAttempt
  <2>2. s.attempts[a].task \in Entity \ {e}
    BY <2>1, TurnedIsIdle
  <2>3. d.reservations[s.attempts[a].task] = s.reservations[s.attempts[a].task]
    BY <2>2 DEF EntryTurned
  <2> QED
    BY <2>1, <2>3 DEF RowsAgree, PlacesFit
<1>3. ASSUME NEW j \in EntryId, NEW a \in AttemptId, UnfinishedIn(d, j), IsAttempt(d, a),
             d.attempts[a].entry = j, d.attempts[a].accepted
      PROVE  d.reservations[d.entries[j].task] # NoRow
  <2>1. CASE j = i
    <3>1. d.entries[i].state = "queued" /\ d.entries[i].task = e
      BY <1>3, <2>1 DEF EntryTurned, UnfinishedIn, Unfinished
    <3> QED
      BY <1>0, <1>3, <2>1, <3>1 DEF EntryTurned, IsAttempt
  <2>2. CASE j # i
    <3>1. UnfinishedIn(s, j) /\ d.entries[j] = s.entries[j] /\ s.entries[j].task # e
      BY <1>3, <2>2 DEF EntryTurned, UnfinishedIn
    <3>2. s.entries[j].task \in Entity
      BY <1>0, <3>1, RowTypes DEF UnfinishedIn, EntryRow
    <3>3. d.reservations[s.entries[j].task] = s.reservations[s.entries[j].task]
      BY <3>1, <3>2 DEF EntryTurned
    <3>4. s.reservations[s.entries[j].task] # NoRow
      <4>1. PlacesFit(s) /\ s.attempts = d.attempts
        BY <1>0 DEF RowsAgree, EntryTurned
      <4>2. IsAttempt(s, a) /\ s.attempts[a].entry = j /\ s.attempts[a].accepted
        BY <1>3, <4>1 DEF IsAttempt
      <4> QED
        BY <3>1, <4>1, <4>2 DEF PlacesFit
    <3> QED
      BY <3>1, <3>3, <3>4
  <2> QED
    BY <2>1, <2>2
<1> QED
  BY <1>1, <1>2, <1>3 DEF PlacesFit

LEMMA TurnedKeeps ==
    ASSUME NEW s, RowsAgree(s), ExecutionsHaveClaims(s), NEW d, NEW i \in EntryId,
           NEW e \in Entity, EntryTurned(s, d, i, e), FitsLimits(s, d)
    PROVE  Keeps(s, d)
<1>1. /\ d \in Contents /\ d.attempts = s.attempts /\ d.claims = s.claims
      /\ d.fences = s.fences /\ d.questions = s.questions /\ d.work = s.work
  BY DEF EntryTurned
<1>2. RowsAgree(d)
  <2>1. ClaimsFit(d) /\ FencesFit(d)
    <3>1. ClaimsFit(s) /\ FencesFit(s)
      BY DEF RowsAgree
    <3>2. ClaimsFit(d)
      BY <1>1, <3>1 DEF ClaimsFit, IsAttempt, ResourceOf
    <3>3. FencesFit(d)
      BY <1>1, <3>1 DEF FencesFit, IsAttempt
    <3> QED
      BY <3>2, <3>3
  <2>2. QuestionsFit(d)
    BY <1>1 DEF RowsAgree, QuestionsFit, IsAttempt
  <2>3. RowsAreFew(d)
    <3> DEFINE S == {x \in Entity : s.reservations[x] # NoRow}
               D == {x \in Entity : d.reservations[x] # NoRow}
    <3>1. IsFiniteSet(S) /\ IsFiniteSet({a \in AttemptId : IsAttempt(d, a)})
      BY <1>1 DEF RowsAgree, RowsAreFew, IsAttempt
    <3>2. D \subseteq S \cup {e}
      BY DEF EntryTurned
    <3> HIDE DEF S, D
    <3>3. IsFiniteSet(D)
      BY <3>1, <3>2, FS_AddElement, FS_Subset
    <3> QED
      BY <3>1, <3>3 DEF RowsAreFew, D
  <2>4. TasksExist(d)
    BY <1>1 DEF RowsAgree, TasksExist, EntryTurned
  <2> QED
    BY <1>1, <2>1, <2>2, <2>3, <2>4, TurnedAttemptsFit, TurnedOneAtATime, TurnedPlacesFit
    DEF RowsAgree
<1>3. AnswersStayLost(s, d)
  BY <1>1 DEF AnswersStayLost, LostIn, ApplicableIn, GrantValid, ResourceOf
<1>4. ExecutionsHaveClaims(d) /\ ResultsKept(s, d) /\ ManagedEnds(s, d)
  BY <1>1 DEF ExecutionsHaveClaims, ResultsKept, ManagedEnds, IsAttempt, ResourceOf
<1>5. ReservationsAreFirst(s, d)
  BY <1>1 DEF ReservationsAreFirst, IsAttempt
<1> QED
  BY <1>2, <1>3, <1>4, <1>5 DEF Keeps

LEMMA SetEntryIs ==
    ASSUME NEW s \in Contents, NEW i \in EntryId, NEW row \in EntryRow
    PROVE  LET d == SetEntry(s, i, row) IN
           /\ d \in Contents /\ d.attempts = s.attempts /\ d.claims = s.claims
           /\ d.fences = s.fences /\ d.questions = s.questions /\ d.work = s.work
           /\ d.reservations = s.reservations /\ d.entries[i] = row
           /\ \A j \in EntryId \ {i} : d.entries[j] = s.entries[j]
<1> DEFINE N == [s.entries EXCEPT ![i] = row]
           d == SetEntry(s, i, row)
<1>1. N \in [EntryId -> EntryRow \cup {NoRow}] /\ N[i] = row
      /\ \A j \in EntryId \ {i} : N[j] = s.entries[j]
  BY DEF Contents
<1>2. d = [s EXCEPT !.entries = N]
  BY DEF SetEntry, Contents
<1> HIDE DEF N, d
<1>3. /\ d \in Contents /\ d.attempts = s.attempts /\ d.claims = s.claims
      /\ d.fences = s.fences /\ d.questions = s.questions /\ d.work = s.work
      /\ d.reservations = s.reservations /\ d.entries = N
  BY <1>1, <1>2 DEF Contents
<1> QED
  BY <1>1, <1>3 DEF d

LEMMA SetPlaceIs ==
    ASSUME NEW s \in Contents, NEW e \in Entity, NEW place \in ReservationRow \cup {NoRow}
    PROVE  LET d == SetPlace(s, e, place) IN
           /\ d \in Contents /\ d.attempts = s.attempts /\ d.claims = s.claims
           /\ d.fences = s.fences /\ d.questions = s.questions /\ d.work = s.work
           /\ d.entries = s.entries /\ d.reservations[e] = place
           /\ \A x \in Entity \ {e} : d.reservations[x] = s.reservations[x]
<1> DEFINE P == [s.reservations EXCEPT ![e] = place]
           d == SetPlace(s, e, place)
<1>1. P \in [Entity -> ReservationRow \cup {NoRow}] /\ P[e] = place
      /\ \A x \in Entity \ {e} : P[x] = s.reservations[x]
  BY DEF Contents
<1>2. d = [s EXCEPT !.reservations = P]
  BY DEF SetPlace, Contents
<1> HIDE DEF P, d
<1>3. /\ d \in Contents /\ d.attempts = s.attempts /\ d.claims = s.claims
      /\ d.fences = s.fences /\ d.questions = s.questions /\ d.work = s.work
      /\ d.entries = s.entries /\ d.reservations = P
  BY <1>1, <1>2 DEF Contents
<1> QED
  BY <1>1, <1>3 DEF d

\* A task that is not managed has no place, and its entries are over.
LEMMA UnmanagedIsIdle ==
    ASSUME QueueInv, NEW e \in Entity, ~ManagedTask(e)
    PROVE  /\ Db.reservations[e] = NoRow
           /\ \A j \in EntryId : UnfinishedIn(Db, j) => Db.entries[j].task # e
<1>1. ~ManagedIn(Db, e)
  BY ManagedHere
<1>2. Db.reservations[e] # NoRow =>
        /\ UnfinishedIn(Db, Db.reservations[e].entry)
        /\ Db.entries[Db.reservations[e].entry].task = e
  BY DEF QueueInv, RowsAgree, PlacesFit
<1>3. Db.reservations[e] # NoRow => Db.reservations[e].entry \in EntryId
  <2>1. Db \in Contents
    BY TablesType
  <2> QED
    BY <2>1, RowTypes DEF ReservationRow
<1> QED
  BY <1>1, <1>2, <1>3 DEF ManagedIn

\* No slot and no place is taken.
LEMMA PlacesKept ==
    ASSUME NEW s, NEW d, d.reservations = s.reservations
    PROVE  FitsLimits(s, d)
  BY DEF FitsLimits, OccupiedIn, ExecutionsIn

LEMMA EnrollKeeps ==
    ASSUME QueueInv, NEW p \in Participant, NEW e \in Entity, NEW retry_safe,
           retry_safe \in BOOLEAN, Enroll(p, e, retry_safe)
    PROVE  QueueInv' /\ Keeps(Db, Db')
<1>1. PICK i \in NextIn(EntryId, entries) :
          entries' = [entries EXCEPT ![i] =
            [task |-> e, assigner |-> PrincipalOf[p], retry_safe |-> retry_safe,
             left |-> 0, state |-> "queued"]]
  BY DEF Enroll
<1> DEFINE row == [task |-> e, assigner |-> PrincipalOf[p], retry_safe |-> retry_safe,
                   left |-> 0, state |-> "queued"]
           d == SetEntry(Db, i, row)
<1>2. i \in EntryId /\ Db.entries[i] = NoRow
  BY DbFields DEF NextIn
<1>3. row \in EntryRow
  <2>1. PrincipalOf[p] \in Principal /\ 0 \in 0..MaxBackoff
    OBVIOUS
  <2> QED
    BY <2>1 DEF EntryRow
<1>4. row # NoRow /\ row.task = e /\ row.state = "queued"
  BY <1>3
<1>5. entries' = [entries EXCEPT ![i] = row]
  BY <1>1
<1> HIDE DEF row
<1>6. Db \in Contents /\ RowsAgree(Db) /\ ExecutionsHaveClaims(Db)
  BY TablesType DEF QueueInv
<1>7. Commit(d)
  <2>1. d.entries = [entries EXCEPT ![i] = row]
    BY <1>6, DbFields DEF SetEntry, Contents
  <2>2. /\ d.fences = fences /\ d.claims = claims /\ d.journal = journal
        /\ d.work = work /\ d.written = written /\ d.gates = gates
        /\ d.attempts = attempts /\ d.reservations = reservations
        /\ d.questions = questions
    BY <1>6, DbFields DEF SetEntry, Contents
  <2>3. UNCHANGED vars /\ UNCHANGED <<policy, attempts, reservations, questions>>
    BY DEF Enroll
  <2> HIDE DEF d
  <2> QED
    BY <1>5, <2>1, <2>2, <2>3 DEF Commit, vars
<1>8. /\ d \in Contents /\ d.attempts = Db.attempts /\ d.claims = Db.claims
      /\ d.fences = Db.fences /\ d.questions = Db.questions /\ d.work = Db.work
      /\ d.reservations = Db.reservations /\ d.entries[i] = row
      /\ \A j \in EntryId \ {i} : d.entries[j] = Db.entries[j]
  BY <1>2, <1>3, <1>6, SetEntryIs
<1> HIDE DEF d
<1>9. /\ Db.reservations[e] = NoRow
      /\ \A j \in EntryId : UnfinishedIn(Db, j) => Db.entries[j].task # e
  BY UnmanagedIsIdle DEF Enroll
<1>10. \A a \in AttemptId : IsAttempt(Db, a) => Db.attempts[a].entry # i
  BY <1>2, <1>6 DEF RowsAgree, AttemptsFit
<1>11. EntryTurned(Db, d, i, e)
  <2>1. Db.work[e] # "absent"
    BY DbFields DEF Enroll, Created
  <2> QED
    BY <1>2, <1>4, <1>8, <1>9, <1>10, <2>1 DEF EntryTurned
<1>12. Keeps(Db, d)
  BY <1>2, <1>6, <1>8, <1>11, PlacesKept, TurnedKeeps
<1> QED
  BY <1>7, <1>12, CommitKeeps

WithdrawnRow(row) == [row EXCEPT !.state = "withdrawn"]

LEMMA WithdrawnRowIs ==
    ASSUME NEW row \in EntryRow
    PROVE  /\ WithdrawnRow(row) \in EntryRow /\ WithdrawnRow(row).task = row.task
           /\ WithdrawnRow(row).state = "withdrawn"
  BY DEF WithdrawnRow, EntryRow

LEMMA WithdrawKeeps ==
    ASSUME QueueInv, NEW p, NEW i \in EntryId, Withdraw(p, i)
    PROVE  QueueInv' /\ Keeps(Db, Db')
<1> DEFINE e == Db.entries[i].task
           row == WithdrawnRow(Db.entries[i])
           x == SetEntry(Db, i, row)
           d == SetPlace(x, e, NoRow)
<1>1. Db \in Contents /\ RowsAgree(Db) /\ ExecutionsHaveClaims(Db)
  BY TablesType DEF QueueInv
<1>2. Db.entries[i] # NoRow /\ Db.entries[i].state = "queued" /\ Db.entries[i] = entries[i]
  BY DbFields DEF Withdraw
<1>3. Db.entries[i] \in EntryRow
  BY <1>1, <1>2, RowTypes
<1>4. row \in EntryRow /\ row.task = e /\ row.state = "withdrawn" /\ e \in Entity
  <2>1. Db.entries[i].task \in Entity
    BY <1>3 DEF EntryRow
  <2> QED
    BY <1>3, <2>1, WithdrawnRowIs
<1>5. Commit(d)
  <2>1. Commit([Db EXCEPT !.entries[i].state = "withdrawn",
                          !.reservations[entries[i].task] = NoRow])
    BY DEF Withdraw
  <2>2. Commit([Db EXCEPT !.entries[i].state = "withdrawn", !.reservations[e] = NoRow])
    BY <1>2, <2>1
  <2> HIDE DEF e
  <2>3. [Db EXCEPT !.entries[i].state = "withdrawn", !.reservations[e] = NoRow] = d
    BY <1>1 DEF SetPlace, SetEntry, WithdrawnRow, Contents
  <2> QED
    BY <2>2, <2>3
<1> HIDE DEF row, e
<1>6. /\ x \in Contents /\ x.attempts = Db.attempts /\ x.claims = Db.claims
      /\ x.fences = Db.fences /\ x.questions = Db.questions /\ x.work = Db.work
      /\ x.reservations = Db.reservations /\ x.entries[i] = row
      /\ \A j \in EntryId \ {i} : x.entries[j] = Db.entries[j]
  BY <1>1, <1>4, SetEntryIs
<1> HIDE DEF x
<1>7. /\ d \in Contents /\ d.attempts = x.attempts /\ d.claims = x.claims
      /\ d.fences = x.fences /\ d.questions = x.questions /\ d.work = x.work
      /\ d.entries = x.entries /\ d.reservations[e] = NoRow
      /\ \A y \in Entity \ {e} : d.reservations[y] = x.reservations[y]
  BY <1>4, <1>6, SetPlaceIs
<1> HIDE DEF d
<1>8. \A j \in EntryId \ {i} : UnfinishedIn(Db, j) => Db.entries[j].task # e
  <2>1. UnfinishedIn(Db, i) /\ Db.entries[i].task = e
    BY <1>2 DEF UnfinishedIn, Unfinished, e
  <2> QED
    BY <1>1, <2>1 DEF RowsAgree, OneAtATime
<1>9. EntryTurned(Db, d, i, e)
  <2>1. /\ d.attempts = Db.attempts /\ d.claims = Db.claims /\ d.fences = Db.fences
        /\ d.questions = Db.questions /\ d.work = Db.work
        /\ \A j \in EntryId \ {i} : d.entries[j] = Db.entries[j]
        /\ \A y \in Entity \ {e} : d.reservations[y] = Db.reservations[y]
        /\ d.entries[i] = row /\ row # NoRow
    BY <1>4, <1>6, <1>7
  <2>2. Db.entries[i].task = e
    BY DEF e
  <2> QED
    BY <1>2, <1>4, <1>7, <1>8, <2>1, <2>2 DEF EntryTurned
<1>10. FitsLimits(Db, d)
  <2>1. NoNewPlaces(Db, d)
    BY <1>6, <1>7 DEF NoNewPlaces
  <2> QED
    BY <2>1, OldPlacesFit
<1>11. Keeps(Db, d)
  BY <1>1, <1>4, <1>9, <1>10, TurnedKeeps
<1> QED
  BY <1>5, <1>11, CommitKeeps

LEMMA RetryKeeps ==
    ASSUME QueueInv, NEW p, NEW a \in AttemptId, IsAttempt(Db, a), Retry(p, a)
    PROVE  QueueInv' /\ Keeps(Db, Db')
<1> DEFINE t == Db.attempts[a]
           i == t.entry
           e == t.task
           d == Rescheduled(Db, a, 0)
<1>1. Db \in Contents /\ RowsAgree(Db) /\ ExecutionsHaveClaims(Db) /\ policy \in PolicyRow
  BY TablesType DEF QueueInv
<1>2. t = attempts[a] /\ Db.entries = entries
  BY DbFields
<1>3. Db.entries[i].state = "finished" /\ ~ManagedTask(e) /\ WipFits /\ Commit(d)
  BY <1>2 DEF Retry
<1>4. /\ Db.entries[i] # NoRow /\ Db.entries[i].task = e
      /\ i \in EntryId /\ e \in Entity
  BY <1>1, AttemptTypes DEF RowsAgree, AttemptsFit
<1>5. OpenIsValid(Db)
  BY <1>1 DEF RowsAgree, QuestionsFit, OpenIsValid
<1>6. Attached(Db, a)
  BY <1>1, <1>4, <1>5 DEF Attached
<1>7. /\ Touches(Db, d, a)
      /\ d.attempts = Db.attempts /\ d.questions = Db.questions
      /\ d.claims = Db.claims /\ d.fences = Db.fences /\ d.work = Db.work
      /\ d.entries[i].state = "queued"
      /\ d.reservations[e] # NoRow /\ d.reservations[e].entry = i /\ ~d.reservations[e].held
  <2>1. 0 \in 0..MaxBackoff
    OBVIOUS
  <2> QED
    BY <1>6, <2>1, RescheduledRows
<1> HIDE DEF d
<1>8. /\ d \in Contents
      /\ \A j \in EntryId \ {i} : d.entries[j] = Db.entries[j]
      /\ \A x \in Entity \ {e} : d.reservations[x] = Db.reservations[x]
      /\ d.entries[i] # NoRow /\ d.entries[i].task = e
  BY <1>7 DEF Touches
<1> HIDE DEF i, e, t
<1>9. /\ Db.reservations[e] = NoRow
      /\ \A j \in EntryId : UnfinishedIn(Db, j) => Db.entries[j].task # e
  BY <1>3, <1>4, UnmanagedIsIdle
<1>10. EntryTurned(Db, d, i, e)
  BY <1>3, <1>4, <1>7, <1>8, <1>9 DEF EntryTurned
<1>11. FitsLimits(Db, d)
  <2>1. e \notin ExecutionsIn(d)
    BY <1>7 DEF ExecutionsIn
  <2>2. policy.wip_limit > 0 => Cardinality(OccupiedIn(Db)) < policy.wip_limit
    BY <1>3, PlacesHere DEF WipFits
  <2>3. RowsAreFew(Db)
    BY <1>1 DEF RowsAgree
  <2> QED
    BY <1>1, <1>4, <1>8, <2>1, <2>2, <2>3, OnePlaceMore
<1>12. Keeps(Db, d)
  BY <1>1, <1>4, <1>10, <1>11, TurnedKeeps
<1> QED
  BY <1>3, <1>12, CommitKeeps

-----------------------------------------------------------------------------
(* A new attempt.                                                          *)

\* Attempt a of entry i and task e begins, under a claim of r that nobody holds.
Begins(s, d, a, i, e, r) ==
    LET u == d.attempts[a] IN
    /\ s \in Contents /\ d \in Contents
    /\ d.questions = s.questions /\ d.work = s.work
    /\ \A b \in AttemptId \ {a} : d.attempts[b] = s.attempts[b]
    /\ \A j \in EntryId \ {i} : d.entries[j] = s.entries[j]
    /\ \A x \in Entity \ {e} : d.reservations[x] = s.reservations[x]
    /\ \A n \in Name \ {r} : d.claims[n] = s.claims[n] /\ d.fences[n] = s.fences[n]
    /\ s.attempts[a] = NoRow /\ u # NoRow
    /\ u.entry = i /\ u.task = e /\ u.state = "reserved" /\ ~u.accepted
    /\ r = TypedName[e]
    /\ d.fences[r] = s.fences[r] + 1 /\ u.fence = d.fences[r]
    /\ d.claims[r] = GrantOf(u)
    /\ s.entries[i] # NoRow /\ s.entries[i].task = e /\ s.entries[i].state = "queued"
    /\ d.entries[i] # NoRow /\ d.entries[i].task = e /\ d.entries[i].state = "admitted"
    /\ \A b \in AttemptId :
          IsAttempt(s, b) /\ s.attempts[b].task = e => s.attempts[b].state = "terminal"
    /\ d.reservations[e] # NoRow /\ d.reservations[e].entry = i /\ d.reservations[e].held
    /\ IF AttemptsOf(s, i) = {} THEN u.pred = NoRow
       ELSE u.pred # NoRow /\ u.pred \in AttemptsOf(s, i)

\* Another attempt: of the same task it is over, else it keeps its rows.
BesideBegun(s, d, b, e, r) ==
    LET t == s.attempts[b] IN
    /\ IsAttempt(s, b) /\ d.attempts[b] = t
    /\ ResourceOf(d, b) = ResourceOf(s, b)
    /\ t.task \in Entity /\ t.entry \in EntryId /\ t.fence \in Nat
    /\ s.entries[t.entry] # NoRow /\ s.entries[t.entry].task = t.task
    /\ t.task = e => /\ t.state = "terminal" /\ t.fence < s.fences[r]
                     /\ ResourceOf(s, b) = r
    /\ t.task # e => /\ d.reservations[t.task] = s.reservations[t.task]
                     /\ d.claims[ResourceOf(s, b)] = s.claims[ResourceOf(s, b)]
                     /\ d.fences[ResourceOf(s, b)] = s.fences[ResourceOf(s, b)]

LEMMA BeginsBeside ==
    ASSUME NEW s, RowsAgree(s), NEW d, NEW a \in AttemptId, NEW i \in EntryId,
           NEW e \in Entity, NEW r \in Name, Begins(s, d, a, i, e, r),
           NEW b \in AttemptId, IsAttempt(d, b), b # a
    PROVE  BesideBegun(s, d, b, e, r)
<1> DEFINE t == s.attempts[b]
<1>1. IsAttempt(s, b) /\ d.attempts[b] = t /\ ResourceOf(d, b) = ResourceOf(s, b)
  BY DEF Begins, IsAttempt, ResourceOf
<1>2. s \in Contents
  BY DEF Begins
<1>3. /\ t.task \in Entity /\ t.entry \in EntryId /\ t.fence \in Nat
      /\ ResourceOf(s, b) = TypedName[t.task] /\ ResourceOf(s, b) \in Name
  BY <1>1, <1>2, AttemptTypes
<1>4. s.entries[t.entry] # NoRow /\ s.entries[t.entry].task = t.task
  BY <1>1 DEF RowsAgree, AttemptsFit
<1>5. ASSUME t.task = e
      PROVE  t.state = "terminal" /\ t.fence < s.fences[r] /\ ResourceOf(s, b) = r
  <2>1. t.state = "terminal" /\ ResourceOf(s, b) = r
    BY <1>1, <1>3, <1>5 DEF Begins
  <2>2. t.state \notin Executing => t.fence < s.fences[ResourceOf(s, b)]
    BY <1>1 DEF RowsAgree, ClaimsFit
  <2> QED
    BY <2>1, <2>2 DEF Executing
<1>6. ASSUME t.task # e
      PROVE  /\ d.reservations[t.task] = s.reservations[t.task]
             /\ d.claims[ResourceOf(s, b)] = s.claims[ResourceOf(s, b)]
             /\ d.fences[ResourceOf(s, b)] = s.fences[ResourceOf(s, b)]
  <2>1. r = TypedName[e]
    BY DEF Begins
  <2>2. ResourceOf(s, b) # r
    BY <1>3, <1>6, <2>1
  <2> QED
    BY <1>3, <1>6, <2>2 DEF Begins
<1> QED
  BY <1>1, <1>3, <1>4, <1>5, <1>6 DEF BesideBegun

LEMMA BeginsAttemptsFit ==
    ASSUME NEW s, RowsAgree(s), NEW d, NEW a \in AttemptId, NEW i \in EntryId,
           NEW e \in Entity, NEW r \in Name, Begins(s, d, a, i, e, r)
    PROVE  AttemptsFit(d) /\ FencesFit(d)
<1> DEFINE u == d.attempts[a]
<1>1. s.fences[r] \in Nat /\ u.fence = s.fences[r] + 1 /\ s.attempts[a] = NoRow
  BY RowTypes DEF Begins
<1>2. ASSUME NEW b \in AttemptId, IsAttempt(d, b), b # a, d.attempts[b].entry = i
      PROVE  /\ d.attempts[b].state = "terminal" /\ d.attempts[b].fence \in Nat
             /\ d.attempts[b].fence < s.fences[r] /\ u.pred # NoRow
  <2>0. BesideBegun(s, d, b, e, r)
    BY <1>2, BeginsBeside
  <2>1. /\ IsAttempt(s, b) /\ d.attempts[b] = s.attempts[b]
        /\ s.entries[s.attempts[b].entry].task = s.attempts[b].task
        /\ s.attempts[b].fence \in Nat
        /\ s.attempts[b].task = e =>
              s.attempts[b].state = "terminal" /\ s.attempts[b].fence < s.fences[r]
    BY <2>0 DEF BesideBegun
  <2>2. s.attempts[b].task = e
    BY <1>2, <2>1 DEF Begins
  <2>3. AttemptsOf(s, i) # {}
    BY <1>2, <2>1 DEF AttemptsOf
  <2> QED
    BY <2>1, <2>2, <2>3 DEF Begins
<1>3. AttemptsFit(d)
  <2> SUFFICES ASSUME NEW b \in AttemptId, IsAttempt(d, b)
               PROVE  LET t == d.attempts[b] IN
                      /\ d.entries[t.entry] # NoRow /\ d.entries[t.entry].task = t.task
                      /\ t.state = "terminal" => t.left = 0
                      /\ t.state # "terminal" => d.entries[t.entry].state = "admitted"
                      /\ t.pred # NoRow => /\ IsAttempt(d, t.pred)
                                           /\ d.attempts[t.pred].entry = t.entry
                                           /\ d.attempts[t.pred].fence < t.fence
    BY DEF AttemptsFit
  <2>1. CASE b = a
    <3>1. /\ d.entries[u.entry] # NoRow /\ d.entries[u.entry].task = u.task
          /\ u.state = "reserved" /\ d.entries[u.entry].state = "admitted" /\ u.entry = i
      BY DEF Begins
    <3>2. ASSUME u.pred # NoRow
          PROVE  /\ IsAttempt(d, u.pred) /\ d.attempts[u.pred].entry = i
                 /\ d.attempts[u.pred].fence < u.fence
      <4>1. u.pred \in AttemptsOf(s, i)
        BY <3>2 DEF Begins
      <4>2. u.pred \in AttemptId /\ IsAttempt(s, u.pred) /\ s.attempts[u.pred].entry = i
        BY <4>1 DEF AttemptsOf
      <4>3. u.pred # a
        BY <1>1, <4>2 DEF IsAttempt
      <4>4. d.attempts[u.pred] = s.attempts[u.pred]
        BY <4>2, <4>3 DEF Begins
      <4>5. IsAttempt(d, u.pred) /\ d.attempts[u.pred].entry = i
        BY <4>2, <4>4 DEF IsAttempt
      <4>6. d.attempts[u.pred].fence \in Nat /\ d.attempts[u.pred].fence < s.fences[r]
        BY <1>2, <4>2, <4>3, <4>5
      <4> HIDE DEF u
      <4> QED
        BY <1>1, <4>5, <4>6
    <3> QED
      BY <2>1, <3>1, <3>2
  <2>2. CASE b # a
    <3> DEFINE t == s.attempts[b]
    <3>0. BesideBegun(s, d, b, e, r)
      BY <2>2, BeginsBeside
    <3>1. /\ IsAttempt(s, b) /\ d.attempts[b] = t /\ t.entry \in EntryId
          /\ s.entries[t.entry] # NoRow /\ s.entries[t.entry].task = t.task
          /\ t.task = e => t.state = "terminal"
      BY <3>0 DEF BesideBegun
    <3>2. /\ t.state = "terminal" => t.left = 0
          /\ t.state # "terminal" => s.entries[t.entry].state = "admitted"
          /\ t.pred # NoRow => /\ IsAttempt(s, t.pred)
                               /\ s.attempts[t.pred].entry = t.entry
                               /\ s.attempts[t.pred].fence < t.fence
      BY <3>1 DEF RowsAgree, AttemptsFit
    <3>3. /\ d.entries[t.entry] # NoRow /\ d.entries[t.entry].task = t.task
          /\ t.state # "terminal" => d.entries[t.entry].state = "admitted"
      <4>1. CASE t.entry = i
        BY <3>1, <4>1 DEF Begins
      <4>2. CASE t.entry # i
        BY <3>1, <3>2, <4>2 DEF Begins
      <4> QED
        BY <4>1, <4>2
    <3>4. t.pred # NoRow => d.attempts[t.pred] = s.attempts[t.pred]
      <4>1. t.pred \in AttemptId \cup {NoRow}
        BY <3>1, AttemptTypes DEF Begins
      <4>2. t.pred # NoRow => t.pred # a
        BY <1>1, <3>2 DEF IsAttempt
      <4> QED
        BY <4>1, <4>2 DEF Begins
    <3> QED
      BY <3>1, <3>2, <3>3, <3>4 DEF IsAttempt
  <2> QED
    BY <2>1, <2>2
<1>4. FencesFit(d)
  <2> SUFFICES ASSUME NEW x \in AttemptId, NEW y \in AttemptId, IsAttempt(d, x),
                      IsAttempt(d, y), x # y, d.attempts[x].entry = d.attempts[y].entry
               PROVE  /\ d.attempts[x].fence # d.attempts[y].fence
                      /\ d.attempts[x].fence > d.attempts[y].fence
                            => /\ d.attempts[y].state = "terminal"
                               /\ d.attempts[x].pred # NoRow
    BY DEF FencesFit
  <2>0. u.entry = i
    BY DEF Begins
  <2>1. CASE x = a
    BY <1>1, <1>2, <2>0, <2>1
  <2>2. CASE y = a
    BY <1>1, <1>2, <2>0, <2>2
  <2>3. CASE x # a /\ y # a
    <3>0. BesideBegun(s, d, x, e, r) /\ BesideBegun(s, d, y, e, r)
      BY <2>3, BeginsBeside
    <3>1. /\ IsAttempt(s, x) /\ d.attempts[x] = s.attempts[x]
          /\ IsAttempt(s, y) /\ d.attempts[y] = s.attempts[y]
      BY <3>0 DEF BesideBegun
    <3> QED
      BY <3>1 DEF RowsAgree, FencesFit
  <2> QED
    BY <2>1, <2>2, <2>3
<1> QED
  BY <1>3, <1>4

\* Every attempt there was is still there, and is not the new one.
LEMMA BeginsOthers ==
    ASSUME NEW s, NEW d, NEW a \in AttemptId, NEW i, NEW e, NEW r,
           Begins(s, d, a, i, e, r), NEW b \in AttemptId, IsAttempt(s, b)
    PROVE  b # a /\ IsAttempt(d, b) /\ d.attempts[b] = s.attempts[b]
  BY DEF Begins, IsAttempt

\* The new attempt.
LEMMA BeginsOwn ==
    ASSUME NEW s, NEW d, NEW a \in AttemptId, NEW i, NEW e, NEW r,
           Begins(s, d, a, i, e, r)
    PROVE  /\ IsAttempt(d, a) /\ ActiveIn(d, a) /\ d.attempts[a].state = "reserved"
           /\ d.attempts[a].entry = i /\ d.attempts[a].task = e
           /\ ~d.attempts[a].accepted /\ ResourceOf(d, a) = r
  BY DEF Begins, IsAttempt, ActiveIn, ResourceOf

LEMMA BeginsOneAtATime ==
    ASSUME NEW s, RowsAgree(s), NEW d, NEW a \in AttemptId, NEW i \in EntryId,
           NEW e \in Entity, NEW r \in Name, Begins(s, d, a, i, e, r)
    PROVE  OneAtATime(d)
<1>0. ActiveIn(d, a) /\ d.attempts[a].entry = i /\ d.attempts[a].task = e
  BY BeginsOwn
<1>1. ASSUME NEW j \in EntryId
      PROVE  /\ UnfinishedIn(d, j) => UnfinishedIn(s, j)
             /\ UnfinishedIn(d, j) => d.entries[j].task = s.entries[j].task
  BY DEF Begins, UnfinishedIn, Unfinished
<1>2. \A j, k \in EntryId :
          UnfinishedIn(d, j) /\ UnfinishedIn(d, k)
          /\ d.entries[j].task = d.entries[k].task => j = k
  BY <1>1 DEF RowsAgree, OneAtATime
<1>3. ASSUME NEW b \in AttemptId, ActiveIn(d, b), b # a
      PROVE  ActiveIn(s, b) /\ d.attempts[b] = s.attempts[b] /\ d.attempts[b].task # e
  <2>1. IsAttempt(d, b)
    BY <1>3 DEF ActiveIn
  <2>2. BesideBegun(s, d, b, e, r)
    BY <1>3, <2>1, BeginsBeside
  <2> QED
    BY <1>3, <2>2 DEF BesideBegun, ActiveIn
<1>4. \A b, c \in AttemptId :
          ActiveIn(d, b) /\ ActiveIn(d, c)
          /\ d.attempts[b].task = d.attempts[c].task => b = c
  <2> SUFFICES ASSUME NEW b \in AttemptId, NEW c \in AttemptId, ActiveIn(d, b),
                      ActiveIn(d, c), d.attempts[b].task = d.attempts[c].task
               PROVE  b = c
    OBVIOUS
  <2>1. CASE b = a \/ c = a
    BY <1>0, <1>3, <2>1
  <2>2. CASE b # a /\ c # a
    <3>1. /\ ActiveIn(s, b) /\ ActiveIn(s, c)
          /\ s.attempts[b].task = s.attempts[c].task
      BY <1>3, <2>2
    <3> QED
      BY <3>1 DEF RowsAgree, OneAtATime
  <2> QED
    BY <2>1, <2>2
<1>5. \A j \in EntryId :
          d.entries[j] # NoRow /\ d.entries[j].state = "admitted"
            => \E b \in AttemptId : ActiveIn(d, b) /\ d.attempts[b].entry = j
  <2> SUFFICES ASSUME NEW j \in EntryId, d.entries[j] # NoRow,
                      d.entries[j].state = "admitted", j # i
               PROVE  \E b \in AttemptId : ActiveIn(d, b) /\ d.attempts[b].entry = j
    BY <1>0
  <2>1. d.entries[j] = s.entries[j]
    BY DEF Begins
  <2>2. PICK b \in AttemptId : ActiveIn(s, b) /\ s.attempts[b].entry = j
    BY <2>1 DEF RowsAgree, OneAtATime
  <2>3. IsAttempt(d, b) /\ d.attempts[b] = s.attempts[b]
    BY <2>2, BeginsOthers DEF ActiveIn
  <2> QED
    BY <2>2, <2>3 DEF ActiveIn
<1> QED
  BY <1>2, <1>4, <1>5 DEF OneAtATime

LEMMA BeginsPlacesFit ==
    ASSUME NEW s, RowsAgree(s), NEW d, NEW a \in AttemptId, NEW i \in EntryId,
           NEW e \in Entity, NEW r \in Name, Begins(s, d, a, i, e, r)
    PROVE  PlacesFit(d)
<1>0. /\ ActiveIn(d, a) /\ d.attempts[a].entry = i /\ d.attempts[a].task = e
      /\ d.attempts[a].state \in Holding /\ ~d.attempts[a].accepted
  BY BeginsOwn DEF Holding, Executing
<1>00. s \in Contents
  BY DEF Begins
<1>1. ASSUME NEW x \in Entity, d.reservations[x] # NoRow
      PROVE  LET j == d.reservations[x].entry IN
             /\ UnfinishedIn(d, j) /\ d.entries[j].task = x
             /\ d.reservations[x].held =>
                   \E b \in AttemptId : /\ ActiveIn(d, b) /\ d.attempts[b].task = x
                                        /\ d.attempts[b].state \in Holding
  <2>1. CASE x = e
    <3>1. d.reservations[x].entry = i /\ UnfinishedIn(d, i) /\ d.entries[i].task = x
      BY <2>1 DEF Begins, UnfinishedIn, Unfinished
    <3> QED
      BY <1>0, <2>1, <3>1
  <2>2. CASE x # e
    <3> DEFINE row == s.reservations[x]
               j == row.entry
    <3>1. d.reservations[x] = row /\ row # NoRow
      BY <1>1, <2>2 DEF Begins
    <3>2. j \in EntryId
      BY <1>00, <3>1, RowTypes DEF ReservationRow
    <3>3. /\ UnfinishedIn(s, j) /\ s.entries[j].task = x
          /\ row.held =>
                \E b \in AttemptId : /\ ActiveIn(s, b) /\ s.attempts[b].task = x
                                     /\ s.attempts[b].state \in Holding
      BY <3>1 DEF RowsAgree, PlacesFit
    <3> HIDE DEF row, j
    <3>4. d.entries[j] = s.entries[j]
      <4>1. j # i
        BY <2>2, <3>3 DEF Begins
      <4> QED
        BY <3>2, <4>1 DEF Begins
    <3>5. ASSUME row.held
          PROVE  \E b \in AttemptId : /\ ActiveIn(d, b) /\ d.attempts[b].task = x
                                      /\ d.attempts[b].state \in Holding
      <4>1. PICK b \in AttemptId : /\ ActiveIn(s, b) /\ s.attempts[b].task = x
                                   /\ s.attempts[b].state \in Holding
        BY <3>3, <3>5
      <4>2. IsAttempt(d, b) /\ d.attempts[b] = s.attempts[b]
        BY <4>1, BeginsOthers DEF ActiveIn
      <4> QED
        BY <4>1, <4>2 DEF ActiveIn
    <3>6. UnfinishedIn(d, j) /\ d.entries[j].task = x
      BY <3>3, <3>4 DEF UnfinishedIn
    <3> QED
      BY <3>1, <3>5, <3>6 DEF j
  <2> QED
    BY <2>1, <2>2
<1>2. ASSUME NEW b \in AttemptId, ActiveIn(d, b)
      PROVE  LET row == d.reservations[d.attempts[b].task] IN
             row # NoRow /\ (row.held <=> d.attempts[b].state \in Holding)
  <2>1. CASE b = a
    BY <1>0, <2>1 DEF Begins
  <2>2. CASE b # a
    <3>1. IsAttempt(d, b)
      BY <1>2 DEF ActiveIn
    <3>2. BesideBegun(s, d, b, e, r)
      BY <2>2, <3>1, BeginsBeside
    <3>3. /\ ActiveIn(s, b) /\ d.attempts[b] = s.attempts[b]
          /\ d.reservations[s.attempts[b].task] = s.reservations[s.attempts[b].task]
      BY <1>2, <3>2 DEF BesideBegun, ActiveIn
    <3> QED
      BY <3>3 DEF RowsAgree, PlacesFit
  <2> QED
    BY <2>1, <2>2
<1>3. ASSUME NEW j \in EntryId, NEW b \in AttemptId, UnfinishedIn(d, j), IsAttempt(d, b),
             d.attempts[b].entry = j, d.attempts[b].accepted
      PROVE  d.reservations[d.entries[j].task] # NoRow
  <2>1. CASE j = i
    BY <2>1 DEF Begins
  <2>2. CASE j # i
    <3>1. b # a
      BY <1>0, <1>3
    <3>2. d.attempts[b] = s.attempts[b] /\ IsAttempt(s, b) /\ d.entries[j] = s.entries[j]
      BY <1>3, <2>2, <3>1 DEF Begins, IsAttempt
    <3>3. UnfinishedIn(s, j)
      BY <1>3, <3>2 DEF UnfinishedIn
    <3>4. s.reservations[s.entries[j].task] # NoRow
      BY <1>3, <3>2, <3>3 DEF RowsAgree, PlacesFit
    <3>5. s.entries[j].task \in Entity
      BY <1>00, <3>3, RowTypes DEF UnfinishedIn, EntryRow
    <3> QED
      BY <3>2, <3>4, <3>5 DEF Begins
  <2> QED
    BY <2>1, <2>2
<1> QED
  BY <1>1, <1>2, <1>3 DEF PlacesFit

LEMMA BeginsClaimsFit ==
    ASSUME NEW s, RowsAgree(s), NEW d, NEW a \in AttemptId, NEW i \in EntryId,
           NEW e \in Entity, NEW r \in Name, Begins(s, d, a, i, e, r)
    PROVE  /\ ClaimsFit(d)
           /\ ExecutionsHaveClaims(s) => ExecutionsHaveClaims(d)
<1>0. /\ IsAttempt(d, a) /\ ResourceOf(d, a) = r /\ d.attempts[a].state \in Executing
      /\ d.attempts[a].fence = d.fences[r] /\ d.claims[r] = GrantOf(d.attempts[a])
  <2>1. IsAttempt(d, a) /\ ResourceOf(d, a) = r /\ d.attempts[a].state = "reserved"
    BY BeginsOwn
  <2>2. d.attempts[a].fence = d.fences[r] /\ d.claims[r] = GrantOf(d.attempts[a])
    BY DEF Begins
  <2> QED
    BY <2>1, <2>2 DEF Executing
<1>1. s.fences[r] \in Nat /\ d.fences[r] = s.fences[r] + 1 /\ s \in Contents
  BY RowTypes DEF Begins
<1>2. ASSUME NEW n \in Name, d.claims[n] # NoClaim
      PROVE  d.claims[n].fence = d.fences[n]
  <2>1. CASE n = r
    BY <1>0, <2>1 DEF GrantOf
  <2>2. CASE n # r
    BY <1>2, <2>2 DEF Begins, RowsAgree, ClaimsFit
  <2> QED
    BY <2>1, <2>2
<1>3. ASSUME NEW b \in AttemptId, IsAttempt(d, b)
      PROVE  LET t == d.attempts[b]
                 c == d.claims[ResourceOf(d, b)]
                 f == d.fences[ResourceOf(d, b)]
             IN IF t.state \in Executing
                THEN t.fence = f /\ (c = GrantOf(t) \/ (c = NoClaim /\ t.left = 0))
                ELSE t.fence < f /\ (t.state # "terminal" => ~Live(c))
  <2>1. CASE b = a
    BY <1>0, <2>1
  <2>2. CASE b # a
    <3>1. BesideBegun(s, d, b, e, r)
      BY <1>3, <2>2, BeginsBeside
    <3>2. CASE s.attempts[b].task = e
      <4>1. /\ d.attempts[b].state = "terminal" /\ d.attempts[b].fence < s.fences[r]
            /\ d.attempts[b].fence \in Nat /\ ResourceOf(d, b) = r
        BY <3>1, <3>2 DEF BesideBegun
      <4> QED
        BY <1>1, <4>1 DEF Executing
    <3>3. CASE s.attempts[b].task # e
      <4>1. /\ IsAttempt(s, b) /\ d.attempts[b] = s.attempts[b]
            /\ ResourceOf(d, b) = ResourceOf(s, b)
            /\ d.claims[ResourceOf(s, b)] = s.claims[ResourceOf(s, b)]
            /\ d.fences[ResourceOf(s, b)] = s.fences[ResourceOf(s, b)]
        BY <3>1, <3>3 DEF BesideBegun
      <4> QED
        BY <4>1 DEF RowsAgree, ClaimsFit
    <3> QED
      BY <3>2, <3>3
  <2> QED
    BY <2>1, <2>2
<1>4. ASSUME ExecutionsHaveClaims(s), NEW b \in AttemptId, IsAttempt(d, b),
             d.attempts[b].state \in Executing
      PROVE  d.claims[ResourceOf(d, b)] # NoClaim
  <2>1. CASE b = a
    <3>1. d.attempts[a] \in AttemptRow
      BY <1>0, RowTypes DEF Begins, IsAttempt
    <3> QED
      BY <1>0, <2>1, <3>1, GrantIsNoGap
  <2>2. CASE b # a
    <3>1. BesideBegun(s, d, b, e, r)
      BY <1>4, <2>2, BeginsBeside
    <3>2. /\ IsAttempt(s, b) /\ s.attempts[b].state \in Executing
          /\ d.claims[ResourceOf(d, b)] = s.claims[ResourceOf(s, b)]
      BY <1>4, <3>1 DEF BesideBegun, Executing
    <3> QED
      BY <1>4, <3>2 DEF ExecutionsHaveClaims
  <2> QED
    BY <2>1, <2>2
<1> QED
  BY <1>2, <1>3, <1>4 DEF ClaimsFit, ExecutionsHaveClaims

LEMMA BeginsQuestionsFit ==
    ASSUME NEW s, RowsAgree(s), NEW d, NEW a \in AttemptId, NEW i \in EntryId,
           NEW e \in Entity, NEW r \in Name, Begins(s, d, a, i, e, r)
    PROVE  QuestionsFit(d) /\ RowsAreFew(d)
<1>1. d.questions = s.questions /\ s \in Contents
  BY DEF Begins
<1>2. QuestionsFit(d)
  <2> SUFFICES ASSUME NEW q \in Question, d.questions[q] # NoRow
               PROVE  LET row == d.questions[q]
                          t == d.attempts[row.attempt]
                      IN
                      /\ IsAttempt(d, row.attempt) /\ t.accepted /\ row.fence <= t.fence
                      /\ row.state = "open" =>
                            /\ row.valid /\ t.state # "terminal" /\ ~t.cancel
                            /\ row.fence = t.fence
    BY DEF QuestionsFit
  <2> DEFINE row == s.questions[q]
             b == row.attempt
  <2>1. d.questions[q] = row /\ row # NoRow
    BY <1>1
  <2>2. b \in AttemptId
    BY <1>1, <2>1, RowTypes DEF QuestionRow
  <2>3. /\ IsAttempt(s, b) /\ s.attempts[b].accepted /\ row.fence <= s.attempts[b].fence
        /\ row.state = "open" =>
              /\ row.valid /\ s.attempts[b].state # "terminal" /\ ~s.attempts[b].cancel
              /\ row.fence = s.attempts[b].fence
    BY <2>1 DEF RowsAgree, QuestionsFit
  <2>4. IsAttempt(d, b) /\ d.attempts[b] = s.attempts[b]
    <3>1. IsAttempt(s, b)
      BY <2>3
    <3> HIDE DEF b, row
    <3> QED
      BY <2>2, <3>1, BeginsOthers
  <2> QED
    BY <2>1, <2>3, <2>4
<1>3. RowsAreFew(d)
  <2> DEFINE A == {b \in AttemptId : IsAttempt(s, b)}
             B == {b \in AttemptId : IsAttempt(d, b)}
             S == {x \in Entity : s.reservations[x] # NoRow}
             D == {x \in Entity : d.reservations[x] # NoRow}
  <2>1. IsFiniteSet(A) /\ IsFiniteSet(S)
    BY DEF RowsAgree, RowsAreFew
  <2>2. B \subseteq A \cup {a} /\ D \subseteq S \cup {e}
    BY DEF Begins, IsAttempt
  <2> HIDE DEF A, B, S, D
  <2>3. IsFiniteSet(B)
    BY <2>1, <2>2, FS_AddElement, FS_Subset
  <2>4. IsFiniteSet(D)
    BY <2>1, <2>2, FS_AddElement, FS_Subset
  <2> QED
    BY <2>3, <2>4 DEF RowsAreFew, B, D
<1> QED
  BY <1>2, <1>3

LEMMA BeginsAnswers ==
    ASSUME NEW s, RowsAgree(s), NEW d, NEW a \in AttemptId, NEW i \in EntryId,
           NEW e \in Entity, NEW r \in Name, Begins(s, d, a, i, e, r)
    PROVE  AnswersStayLost(s, d)
<1> SUFFICES ASSUME NEW q \in Question, LostIn(s, q), ~LostIn(d, q)
             PROVE  FALSE
  BY DEF AnswersStayLost
<1> DEFINE row == s.questions[q]
           b == row.attempt
<1>1. d.questions = s.questions /\ s \in Contents /\ row # NoRow
  BY DEF Begins, LostIn
<1>2. b \in AttemptId
  BY <1>1, RowTypes DEF QuestionRow
<1>3. IsAttempt(s, b)
  BY <1>1 DEF RowsAgree, QuestionsFit
<1>4. b # a /\ IsAttempt(d, b) /\ d.attempts[b] = s.attempts[b]
  <2> HIDE DEF b
  <2> QED
    BY <1>2, <1>3, BeginsOthers
<1>5. ApplicableIn(d, q)
  BY <1>1 DEF LostIn
<1>6. PICK p \in Participant : GrantValid(d, b, p)
  BY <1>1, <1>5 DEF ApplicableIn
<1>7. BesideBegun(s, d, b, e, r)
  BY <1>2, <1>4, BeginsBeside
<1>8. s.attempts[b].state \in Executing
  BY <1>4, <1>6 DEF GrantValid
<1>9. GrantValid(s, b, p)
  BY <1>4, <1>6, <1>7, <1>8 DEF GrantValid, BesideBegun, Executing
<1>10. ApplicableIn(s, q)
  BY <1>1, <1>4, <1>5, <1>9 DEF ApplicableIn
<1> QED
  BY <1>10 DEF LostIn

LEMMA BeginsKeeps ==
    ASSUME NEW s, RowsAgree(s), ExecutionsHaveClaims(s), NEW d, NEW a \in AttemptId,
           NEW i \in EntryId, NEW e \in Entity, NEW r \in Name, Begins(s, d, a, i, e, r),
           FitsLimits(s, d)
    PROVE  Keeps(s, d)
<1>1. AttemptsFit(d) /\ FencesFit(d)
  BY BeginsAttemptsFit
<1>2. OneAtATime(d)
  BY BeginsOneAtATime
<1>3. PlacesFit(d)
  BY BeginsPlacesFit
<1>4. ClaimsFit(d) /\ ExecutionsHaveClaims(d)
  BY BeginsClaimsFit
<1>5. QuestionsFit(d) /\ RowsAreFew(d)
  BY BeginsQuestionsFit
<1>6. AnswersStayLost(s, d)
  BY BeginsAnswers
<1>7. RowsAgree(d)
  <2>1. TasksExist(d)
    BY DEF RowsAgree, TasksExist, Begins
  <2> QED
    BY <1>1, <1>2, <1>3, <1>4, <1>5, <2>1 DEF RowsAgree, Begins
<1>8. \A b \in AttemptId : IsAttempt(s, b) =>
            IsAttempt(d, b) /\ d.attempts[b] = s.attempts[b]
  <2> SUFFICES ASSUME NEW b \in AttemptId, IsAttempt(s, b)
               PROVE  IsAttempt(d, b) /\ d.attempts[b] = s.attempts[b]
    OBVIOUS
  <2> QED
    BY DEF Begins, IsAttempt
<1>9. ManagedEnds(s, d)
  BY DEF Begins, ManagedEnds
<1>10. ResultsKept(s, d) /\ ReservationsAreFirst(s, d)
  BY <1>8 DEF ResultsKept, ReservationsAreFirst
<1> QED
  BY <1>4, <1>6, <1>7, <1>9, <1>10 DEF Keeps

\* Fences are bounded, so some attempt of the entry has the latest.
LEMMA LatestIs ==
    ASSUME NEW i, NEW F \in Nat,
           \A a \in AttemptsOf(Db, i) : attempts[a].fence \in Nat /\ attempts[a].fence <= F
    PROVE  IF AttemptsOf(Db, i) = {} THEN Latest(i) = NoRow
           ELSE Latest(i) \in AttemptsOf(Db, i) /\ Latest(i) # NoRow
<1> DEFINE A == AttemptsOf(Db, i)
<1>1. CASE A = {}
  BY <1>1 DEF Latest
<1>2. CASE A # {}
  <2> DEFINE M == {F - attempts[a].fence : a \in A}
  <2> HIDE DEF A
  <2>1. M # {} /\ M \subseteq Nat
    BY <1>2 DEF A
  <2>2. PICK m \in M : \A y \in M : ~(<<y, m>> \in OpToRel(<, Nat))
    BY <2>1, NatLessThanWellFounded, WFMin, Zenon
  <2>3. PICK a \in A : m = F - attempts[a].fence
    BY <2>2, Zenon
  <2>4. ASSUME NEW b \in A
        PROVE  attempts[b].fence <= attempts[a].fence
    <3> DEFINE y == F - attempts[b].fence
    <3>1. y \in M /\ y \in Nat /\ m \in Nat
      BY <2>1
    <3>2. ~(y < m)
      <4> HIDE DEF y, M
      <4> QED
        BY <2>2, <3>1, Zenon DEF OpToRel
    <3>3. attempts[a].fence \in Nat /\ attempts[b].fence \in Nat
      BY DEF A
    <3> QED
      BY <2>3, <3>2, <3>3
  <2>5. Latest(i) \in A
    BY <1>2, <2>4, Zenon DEF Latest, A
  <2>6. A \subseteq AttemptId
    BY DEF A, AttemptsOf
  <2> QED
    BY <1>2, <2>5, <2>6, NoRowAssumption DEF A
<1> QED
  BY <1>1, <1>2

NewRow(i, e, p, f, pred) ==
    [entry |-> i, task |-> e, owner |-> p, state |-> "reserved",
     fence |-> f, left |-> policy.lease,
     accepted |-> FALSE, cancel |-> FALSE, suspend |-> FALSE,
     session |-> NoRow, pred |-> pred, outcome |-> NoRow]

LEMMA NewRowIs ==
    ASSUME NEW i \in EntryId, NEW e \in Entity, NEW p \in Participant, NEW f \in Nat \ {0},
           NEW pred \in AttemptId \cup {NoRow}, policy.lease \in Ttl,
           NEW u, u = NewRow(i, e, p, f, pred)
    PROVE  /\ u \in AttemptRow /\ u # NoRow
           /\ u.entry = i /\ u.task = e /\ u.owner = p /\ u.state = "reserved"
           /\ u.fence = f /\ u.left = policy.lease /\ ~u.accepted /\ u.pred = pred
<1>1. policy.lease \in 0..MaxTtl /\ FALSE \in BOOLEAN
  BY DEF Ttl
<1>2. u \in AttemptRow
  BY <1>1 DEF NewRow, AttemptRow
<1>3. /\ u.entry = i /\ u.task = e /\ u.owner = p /\ u.state = "reserved"
      /\ u.fence = f /\ u.left = policy.lease /\ u.pred = pred
  BY DEF NewRow
<1>4. ~u.accepted
  BY DEF NewRow
<1>5. u # NoRow
  BY <1>2, NoRowAssumption
<1> QED
  BY <1>2, <1>3, <1>4, <1>5

\* The claim that is taken with a reservation: nobody holds the task.
LEMMA TakenClaim ==
    ASSUME NEW s \in Contents, NEW r \in Name, NEW p \in Participant, NEW ttl \in Ttl,
           ~Live(s.claims[r])
    PROVE  LET x == Acquired(s, r, p, ttl)
               f == s.fences[r] + 1
           IN
           /\ x \in Contents /\ f \in Nat \ {0} /\ x.fences[r] = f
           /\ x.claims[r] = [holder |-> p, mode |-> "exclusive", fence |-> f, left |-> ttl]
           /\ \A n \in Name \ {r} : x.claims[n] = s.claims[n] /\ x.fences[n] = s.fences[n]
           /\ x.entries = s.entries /\ x.attempts = s.attempts
           /\ x.reservations = s.reservations /\ x.questions = s.questions
           /\ x.work = s.work
<1> DEFINE f == s.fences[r] + 1
           c == [holder |-> p, mode |-> "exclusive", fence |-> f, left |-> ttl]
           J == s.journal \cup {[resource |-> r, fence |-> f, holder |-> p]}
           x == Acquired(s, r, p, ttl)
<1>1. f \in Nat \ {0}
  BY RowTypes
<1>2. c \in Claim
  <2>1. ttl \in 0..MaxTtl
    BY DEF Ttl
  <2> HIDE DEF f
  <2> QED
    BY <1>1, <2>1 DEF Claim, Mode
<1>3. J \in SUBSET GrantRow
  <2>1. s.journal \in SUBSET GrantRow
    BY DEF Contents
  <2>2. [resource |-> r, fence |-> f, holder |-> p] \in GrantRow
    BY <1>1 DEF GrantRow
  <2> QED
    BY <2>1, <2>2
<1>4. x = [s EXCEPT !.fences[r] = f, !.claims[r] = c, !.journal = J]
  BY DEF Acquired, Contents
<1> HIDE DEF J, c, f, x
<1>5. /\ x.claims[r] = c /\ x.fences[r] = f /\ x.attempts = s.attempts
      /\ \A n \in Name \ {r} : x.claims[n] = s.claims[n] /\ x.fences[n] = s.fences[n]
      /\ x.entries = s.entries /\ x.reservations = s.reservations /\ x.work = s.work
      /\ x.questions = s.questions
      /\ x \in Contents
  BY <1>1, <1>2, <1>3, <1>4 DEF Contents
<1> QED
  BY <1>1, <1>5 DEF x, f, c

LEMMA ClaimNextKeeps ==
    ASSUME QueueInv, NEW p \in Participant, NEW i \in EntryId, ClaimNext(p, i)
    PROVE  QueueInv' /\ Keeps(Db, Db')
<1> DEFINE e == Db.entries[i].task
           r == TypedName[e]
           f == Db.fences[r] + 1
           x == Acquired(Db, r, p, policy.lease)
<1>1. /\ Db \in Contents /\ RowsAgree(Db) /\ ExecutionsHaveClaims(Db)
      /\ policy \in PolicyRow /\ policy.lease \in Ttl
  BY TablesType, LeaseType DEF QueueInv
<1>2. Db.entries = entries /\ Db.attempts = attempts /\ Db.claims = claims
      /\ Db.reservations = reservations
  BY DbFields
<1>3. /\ Db.entries[i] # NoRow /\ Db.entries[i].state = "queued"
      /\ ~Live(Db.claims[r])
      /\ \A b \in AttemptId :
            IsAttempt(Db, b) /\ Db.attempts[b].task = e => Db.attempts[b].state = "terminal"
      /\ Dispatching
      /\ Db.reservations[e] = NoRow => WipFits
  BY <1>2 DEF ClaimNext, Eligible
<1>4. PICK a \in AttemptId : Db.attempts[a] = NoRow /\ Commit(Reserved(p, i, a))
  BY <1>2 DEF ClaimNext, NextIn
<1>5. Db.entries[i] \in EntryRow /\ e \in Entity /\ r \in Name
  <2>1. Db.entries[i] \in EntryRow
    BY <1>1, <1>3, RowTypes
  <2>2. e \in Entity
    BY <2>1 DEF EntryRow
  <2> HIDE DEF e
  <2> QED
    BY <2>1, <2>2 DEF e
<1>6. \A b \in AttemptsOf(Db, i) :
          Db.attempts[b].fence \in Nat /\ Db.attempts[b].fence <= Db.fences[r]
  <2> SUFFICES ASSUME NEW b \in AttemptId, IsAttempt(Db, b), Db.attempts[b].entry = i
               PROVE  Db.attempts[b].fence \in Nat /\ Db.attempts[b].fence <= Db.fences[r]
    BY DEF AttemptsOf
  <2>1. Db.attempts[b].fence \in Nat /\ ResourceOf(Db, b) = TypedName[Db.attempts[b].task]
    BY <1>1, AttemptTypes
  <2>2. Db.attempts[b].task = e
    BY <1>1 DEF RowsAgree, AttemptsFit
  <2>3. Db.attempts[b].state = "terminal"
    BY <1>3, <2>2
  <2>4. Db.attempts[b].fence < Db.fences[ResourceOf(Db, b)]
    BY <1>1, <2>3 DEF RowsAgree, ClaimsFit, Executing
  <2>5. Db.fences[r] \in Nat
    BY <1>1, <1>5, RowTypes
  <2> QED
    BY <2>1, <2>2, <2>4, <2>5
<1>7. IF AttemptsOf(Db, i) = {} THEN Latest(i) = NoRow
      ELSE Latest(i) \in AttemptsOf(Db, i) /\ Latest(i) # NoRow
  <2>1. Db.fences[r] \in Nat
    BY <1>1, <1>5, RowTypes
  <2> QED
    BY <1>2, <1>6, <2>1, LatestIs
<1>8. Latest(i) \in AttemptId \cup {NoRow}
  BY <1>7 DEF AttemptsOf
<1>9. /\ x \in Contents /\ f \in Nat \ {0} /\ x.fences[r] = f
      /\ x.claims[r] = [holder |-> p, mode |-> "exclusive", fence |-> f,
                        left |-> policy.lease]
      /\ \A n \in Name \ {r} : x.claims[n] = Db.claims[n] /\ x.fences[n] = Db.fences[n]
      /\ x.entries = Db.entries /\ x.attempts = Db.attempts
      /\ x.reservations = Db.reservations /\ x.questions = Db.questions
      /\ x.work = Db.work
  <2> HIDE DEF e, r
  <2> QED
    BY <1>1, <1>3, <1>5, TakenClaim DEF f, x
<1> DEFINE u == NewRow(i, e, p, f, Latest(i))
           place == [entry |-> i, attempt |-> a, held |-> TRUE]
           row == [Db.entries[i] EXCEPT !.state = "admitted"]
           d == Reserved(p, i, a)
           A == [Db.attempts EXCEPT ![a] = u]
           P == [Db.reservations EXCEPT ![e] = place]
           N == [Db.entries EXCEPT ![i] = row]
<1>10. /\ u \in AttemptRow /\ u # NoRow
       /\ u.entry = i /\ u.task = e /\ u.owner = p /\ u.state = "reserved"
       /\ u.fence = f /\ u.left = policy.lease /\ ~u.accepted /\ u.pred = Latest(i)
  <2> DEFINE pred == Latest(i)
  <2>1. /\ e \in Entity /\ f \in Nat \ {0} /\ pred \in AttemptId \cup {NoRow}
        /\ u = NewRow(i, e, p, f, pred) /\ policy.lease \in Ttl
    BY <1>1, <1>5, <1>8, <1>9
  <2> HIDE DEF e, r, f, x, u, pred
  <2>2. /\ u \in AttemptRow /\ u # NoRow
        /\ u.entry = i /\ u.task = e /\ u.owner = p /\ u.state = "reserved"
        /\ u.fence = f /\ u.left = policy.lease /\ ~u.accepted /\ u.pred = pred
    BY <2>1, NewRowIs
  <2> QED
    BY <2>2 DEF pred
<1>11. place \in ReservationRow /\ place # NoRow /\ place.entry = i /\ place.held
  <2>1. TRUE \in BOOLEAN
    OBVIOUS
  <2>2. place \in ReservationRow
    BY <2>1 DEF ReservationRow
  <2>3. place # NoRow
    BY <2>2, NoRowAssumption
  <2> QED
    BY <2>2, <2>3
<1>12. row \in EntryRow /\ row # NoRow /\ row.task = e /\ row.state = "admitted"
  <2>1. row \in EntryRow /\ row.task = e /\ row.state = "admitted"
    BY <1>5 DEF EntryRow
  <2> HIDE DEF row
  <2> QED
    BY <2>1, NoRowAssumption
<1>13. d = [x EXCEPT !.attempts = A, !.reservations = P, !.entries = N]
  <2>1. x.claims[r].fence = f
    <3> HIDE DEF x, f, r
    <3> QED
      BY <1>9
  <2>2. d = [x EXCEPT
                !.attempts[a] = [entry |-> i, task |-> e, owner |-> p, state |-> "reserved",
                    fence |-> x.claims[r].fence, left |-> policy.lease,
                    accepted |-> FALSE, cancel |-> FALSE, suspend |-> FALSE,
                    session |-> NoRow, pred |-> Latest(i), outcome |-> NoRow],
                !.reservations[e] = place,
                !.entries[i].state = "admitted"]
    BY <1>2, Zenon DEF Reserved
  <2>3. d = [x EXCEPT !.attempts[a] = u, !.reservations[e] = place,
                      !.entries[i].state = "admitted"]
    BY <2>1, <2>2, Zenon DEF NewRow
  <2> HIDE DEF d, x, u, place, e, r, f
  <2> QED
    BY <1>9, <2>3 DEF Contents
<1> HIDE DEF u, place, row, x
<1>14. /\ A \in [AttemptId -> AttemptRow \cup {NoRow}] /\ A[a] = u
       /\ \A b \in AttemptId \ {a} : A[b] = Db.attempts[b]
  BY <1>1, <1>10 DEF Contents
<1>15. /\ P \in [Entity -> ReservationRow \cup {NoRow}] /\ P[e] = place
       /\ \A y \in Entity \ {e} : P[y] = Db.reservations[y]
  <2> HIDE DEF e
  <2> QED
    BY <1>1, <1>5, <1>11 DEF Contents
<1>16. /\ N \in [EntryId -> EntryRow \cup {NoRow}] /\ N[i] = row
       /\ \A j \in EntryId \ {i} : N[j] = Db.entries[j]
  BY <1>1, <1>12 DEF Contents
<1> HIDE DEF A, P, N, d
<1>17. /\ d \in Contents /\ d.attempts = A /\ d.reservations = P /\ d.entries = N
       /\ d.claims = x.claims /\ d.fences = x.fences /\ d.questions = x.questions
       /\ d.work = x.work
  BY <1>9, <1>13, <1>14, <1>15, <1>16 DEF Contents
<1>18. Begins(Db, d, a, i, e, r)
  <2> HIDE DEF e, f
  <2>1. /\ d.questions = Db.questions /\ d.work = Db.work
        /\ \A b \in AttemptId \ {a} : d.attempts[b] = Db.attempts[b]
        /\ \A j \in EntryId \ {i} : d.entries[j] = Db.entries[j]
        /\ \A y \in Entity \ {e} : d.reservations[y] = Db.reservations[y]
        /\ \A n \in Name \ {r} : d.claims[n] = Db.claims[n] /\ d.fences[n] = Db.fences[n]
    BY <1>9, <1>14, <1>15, <1>16, <1>17
  <2>2. d.attempts[a] = u /\ d.reservations[e] = place /\ d.entries[i] = row
    BY <1>14, <1>15, <1>16, <1>17
  <2>3. d.fences[r] = f /\ d.claims[r] = GrantOf(u)
    BY <1>9, <1>10, <1>17 DEF GrantOf
  <2>4. /\ u # NoRow /\ u.entry = i /\ u.task = e /\ u.state = "reserved" /\ ~u.accepted
        /\ u.fence = f
    BY <1>10
  <2>5. IF AttemptsOf(Db, i) = {} THEN u.pred = NoRow
        ELSE u.pred # NoRow /\ u.pred \in AttemptsOf(Db, i)
    BY <1>7, <1>10
  <2>6. f = Db.fences[r] + 1 /\ Db.entries[i].task = e
    BY DEF f, e
  <2> QED
    BY <1>1, <1>3, <1>4, <1>11, <1>12, <1>17, <2>1, <2>2, <2>3, <2>4, <2>5, <2>6
    DEF Begins
<1>19. FitsLimits(Db, d)
  <2> HIDE DEF e
  <2>1. \A y \in Entity \ {e} : d.reservations[y] = Db.reservations[y]
    BY <1>15, <1>17
  <2>2. Cardinality(ExecutionsIn(Db)) < policy.execution_limit
    BY <1>3, PlacesHere DEF Dispatching
  <2>3. Db.reservations[e] = NoRow /\ policy.wip_limit > 0
            => Cardinality(OccupiedIn(Db)) < policy.wip_limit
    BY <1>3, PlacesHere DEF WipFits
  <2>4. RowsAreFew(Db)
    BY <1>1 DEF RowsAgree
  <2> QED
    BY <1>1, <1>5, <2>1, <2>2, <2>3, <2>4, OnePlaceMore
<1>20. Keeps(Db, d)
  <2> HIDE DEF e, r
  <2> QED
    BY <1>1, <1>5, <1>18, <1>19, BeginsKeeps
<1>21. Commit(d)
  BY <1>4 DEF d
<1> QED
  BY <1>20, <1>21, CommitKeeps

-----------------------------------------------------------------------------
(* Expiry and the sweep.                                                   *)

\* Contents w hold the executions of the database, and nobody's claim is new.
LEMMA ExpiryKeeps ==
    ASSUME QueueInv, NEW w, RowsAgree(w), Follows(Db, w),
           w.attempts = Db.attempts, w.reservations = Db.reservations
    PROVE  Keeps(Db, AllExpired(w))
<1> DEFINE d == AllExpired(w)
<1>1. AllExpire(w, d, Lapsed)
  <2>1. Lapsed \in SUBSET AttemptId /\ policy.lease \in Ttl
    BY LeaseType DEF Lapsed, QueueInv
  <2>2. \A a \in Lapsed : IsAttempt(w, a) /\ w.attempts[a].state \in Executing
    BY DbFields DEF Lapsed, IsAttempt
  <2>3. AllExpire(w, FoldSet(Expired, w, Lapsed), Lapsed)
    BY <2>1, <2>2, AllExpiredRows
  <2> QED
    BY <2>3 DEF AllExpired
<1> HIDE DEF d
<1>2. RowsAgree(d) /\ Follows(w, d) /\ NoNewPlaces(w, d)
  BY <1>1 DEF AllExpire
<1>3. Follows(Db, d)
  BY <1>2, FollowsAgain
<1>4. ExecutionsHaveClaims(d)
  <2> SUFFICES ASSUME NEW b \in AttemptId, IsAttempt(d, b),
                      d.attempts[b].state \in Executing
               PROVE  d.claims[ResourceOf(d, b)] # NoClaim
    BY DEF ExecutionsHaveClaims
  <2> DEFINE t == d.attempts[b]
  <2>1. b \notin Lapsed /\ t = Db.attempts[b]
    BY <1>1 DEF AllExpire
  <2>2. t.left # 0
    BY <2>1, DbFields DEF Lapsed, IsAttempt
  <2>3. t \in AttemptRow
    BY <1>2, RowTypes DEF RowsAgree, IsAttempt
  <2>4. d.claims[ResourceOf(d, b)] = GrantOf(t)
    BY <1>2, <2>2 DEF RowsAgree, ClaimsFit
  <2> QED
    BY <2>3, <2>4, GrantIsNoGap
<1>5. FitsLimits(Db, d)
  <2>1. NoNewPlaces(Db, d)
    BY <1>2 DEF NoNewPlaces
  <2> QED
    BY <2>1, OldPlacesFit
<1> QED
  BY <1>2, <1>3, <1>4, <1>5 DEF Keeps, Follows, TasksEnd, ManagedEnds, d

LEMMA ExpireKeeps ==
    ASSUME QueueInv, ExpireAttempts
    PROVE  QueueInv' /\ Keeps(Db, Db')
<1>1. RowsAgree(Db)
  BY DEF QueueInv
<1>2. Follows(Db, Db)
  BY <1>1, NothingExpires DEF AllExpire
<1>3. Keeps(Db, AllExpired(Db))
  BY <1>1, <1>2, ExpiryKeeps
<1>4. Commit(AllExpired(Db))
  BY DEF ExpireAttempts
<1> QED
  BY <1>3, <1>4, CommitKeeps

\* The sweep deletes the claims that are over, those of lapsed attempts among them.
LEMMA SweptRows ==
    ASSUME QueueInv
    PROVE  /\ RowsAgree(Swept) /\ Follows(Db, Swept)
           /\ Swept.attempts = Db.attempts /\ Swept.reservations = Db.reservations
<1> DEFINE C == [n \in Name |-> IF Live(Db.claims[n]) THEN Db.claims[n] ELSE NoClaim]
           w == Swept
<1>1. Db \in Contents /\ RowsAgree(Db)
  BY TablesType DEF QueueInv
<1>2. C \in [Name -> Claim \cup {NoClaim}]
      /\ \A n \in Name : C[n] = IF Live(Db.claims[n]) THEN Db.claims[n] ELSE NoClaim
  BY <1>1 DEF Contents
<1>3. w = [Db EXCEPT !.claims = C]
  BY DEF Swept
<1> HIDE DEF C, w
<1>4. /\ w \in Contents /\ w.claims = C
      /\ w.fences = Db.fences /\ w.entries = Db.entries /\ w.attempts = Db.attempts
      /\ w.reservations = Db.reservations /\ w.questions = Db.questions
      /\ w.work = Db.work
  BY <1>1, <1>2, <1>3 DEF Contents
<1>5. ClaimsFit(w)
  <2>1. ASSUME NEW n \in Name, w.claims[n] # NoClaim
        PROVE  w.claims[n].fence = w.fences[n]
    <3>1. w.claims[n] = Db.claims[n]
      BY <1>2, <1>4, <2>1
    <3> QED
      BY <1>1, <1>4, <2>1, <3>1 DEF RowsAgree, ClaimsFit
  <2>2. ASSUME NEW a \in AttemptId, IsAttempt(w, a)
        PROVE  LET t == w.attempts[a]
                   c == w.claims[ResourceOf(w, a)]
                   f == w.fences[ResourceOf(w, a)]
               IN IF t.state \in Executing
                  THEN t.fence = f /\ (c = GrantOf(t) \/ (c = NoClaim /\ t.left = 0))
                  ELSE t.fence < f /\ (t.state # "terminal" => ~Live(c))
    <3> DEFINE t == Db.attempts[a]
               r == ResourceOf(Db, a)
               c == Db.claims[r]
    <3>1. IsAttempt(Db, a) /\ w.attempts[a] = t /\ ResourceOf(w, a) = r
      BY <1>4, <2>2 DEF IsAttempt, ResourceOf
    <3>2. r \in Name /\ t.left \in 0..MaxTtl
      BY <1>1, <3>1, AttemptTypes
    <3>3. IF t.state \in Executing
          THEN t.fence = Db.fences[r] /\ (c = GrantOf(t) \/ (c = NoClaim /\ t.left = 0))
          ELSE t.fence < Db.fences[r] /\ (t.state # "terminal" => ~Live(c))
      BY <1>1, <3>1 DEF RowsAgree, ClaimsFit
    <3>4. w.claims[r] = IF Live(c) THEN c ELSE NoClaim
      BY <1>2, <1>4, <3>2
    <3>5. ASSUME c = GrantOf(t), ~Live(c)
          PROVE  t.left = 0
      <4>1. t \in AttemptRow
        BY <1>1, <3>1, RowTypes DEF IsAttempt
      <4>2. c # NoClaim /\ c.left = t.left
        BY <3>5, <4>1, GrantIsNoGap DEF GrantOf
      <4>3. ~(t.left > 0)
        BY <3>5, <4>2 DEF Live
      <4> HIDE DEF t, c
      <4> QED
        BY <3>2, <4>3
    <3>6. ~Live(NoClaim)
      BY DEF Live
    <3> HIDE DEF t, c, r
    <3> QED
      BY <1>4, <3>1, <3>3, <3>4, <3>5, <3>6
  <2> QED
    BY <2>1, <2>2 DEF ClaimsFit
<1>6. RowsAgree(w)
  <2>1. AttemptsFit(w)
    BY <1>1, <1>4 DEF RowsAgree, AttemptsFit, IsAttempt
  <2>2. OneAtATime(w)
    BY <1>1, <1>4 DEF RowsAgree, OneAtATime, IsAttempt, ActiveIn, UnfinishedIn
  <2>3. PlacesFit(w)
    BY <1>1, <1>4 DEF RowsAgree, PlacesFit, IsAttempt, ActiveIn, UnfinishedIn
  <2>4. FencesFit(w)
    BY <1>1, <1>4 DEF RowsAgree, FencesFit, IsAttempt
  <2>5. QuestionsFit(w)
    BY <1>1, <1>4 DEF RowsAgree, QuestionsFit, IsAttempt
  <2>6. RowsAreFew(w)
    BY <1>1, <1>4 DEF RowsAgree, RowsAreFew, IsAttempt
  <2>7. TasksExist(w)
    BY <1>1, <1>4 DEF RowsAgree, TasksExist
  <2> QED
    BY <1>4, <1>5, <2>1, <2>2, <2>3, <2>4, <2>5, <2>6, <2>7 DEF RowsAgree
<1>7. AnswersStayLost(Db, w)
  <2> SUFFICES ASSUME NEW q \in Question, LostIn(Db, q), ApplicableIn(w, q)
               PROVE  FALSE
    BY <1>4 DEF AnswersStayLost, LostIn
  <2> DEFINE a == Db.questions[q].attempt
  <2>1. PICK p \in Participant : GrantValid(w, a, p)
    BY <1>4 DEF ApplicableIn
  <2>2. Db.questions[q] # NoRow
    BY DEF LostIn
  <2>3. a \in AttemptId /\ IsAttempt(Db, a)
    <3>1. a \in AttemptId
      BY <1>1, <2>2, RowTypes DEF QuestionRow
    <3> QED
      BY <1>1, <2>2, <3>1 DEF RowsAgree, QuestionsFit
  <2>4. ResourceOf(Db, a) \in Name /\ ResourceOf(w, a) = ResourceOf(Db, a)
    <3>1. ResourceOf(Db, a) \in Name
      BY <1>1, <2>3, AttemptTypes
    <3> QED
      BY <1>4, <3>1 DEF ResourceOf
  <2>5. w.claims[ResourceOf(Db, a)] = Db.claims[ResourceOf(Db, a)]
    <3>1. Live(w.claims[ResourceOf(Db, a)])
      BY <2>1, <2>4 DEF GrantValid
    <3> QED
      BY <1>2, <1>4, <2>4, <3>1 DEF Live
  <2>6. GrantValid(Db, a, p)
    BY <1>4, <2>1, <2>4, <2>5 DEF GrantValid
  <2>7. ApplicableIn(Db, q)
    BY <1>4, <2>6 DEF ApplicableIn
  <2> QED
    BY <2>7 DEF LostIn
<1>8. Follows(Db, w)
  <2>1. NothingBegins(Db, w)
    BY <1>4 DEF NothingBegins, IsAttempt, ActiveIn, UnfinishedIn
  <2> QED
    BY <1>4, <1>7, <2>1
    DEF Follows, ReservationsAreFirst, ResultsKept, TasksEnd, IsAttempt
<1> QED
  BY <1>4, <1>6, <1>8 DEF w

LEMMA SweepKeeps ==
    ASSUME QueueInv, QueueSweep
    PROVE  QueueInv' /\ Keeps(Db, Db')
<1>1. Keeps(Db, AllExpired(Swept))
  BY SweptRows, ExpiryKeeps
<1>2. Commit(AllExpired(Swept))
  BY DEF QueueSweep
<1> QED
  BY <1>1, <1>2, CommitKeeps

-----------------------------------------------------------------------------
(* The passing of time.                                                    *)

LEMMA AgedEntry ==
    ASSUME NEW row \in EntryRow
    PROVE  /\ RowAged(row) \in EntryRow /\ RowAged(row) # NoRow
           /\ RowAged(row).task = row.task /\ RowAged(row).state = row.state
<1>1. row # NoRow
  BY NoRowAssumption
<1>2. CASE row.left > 0
  <2>1. row.left - 1 \in 0..MaxBackoff
    BY <1>2, RetryAssumption DEF EntryRow
  <2>2. RowAged(row) = [row EXCEPT !.left = row.left - 1]
    BY <1>1, <1>2 DEF RowAged
  <2>3. /\ RowAged(row) \in EntryRow
        /\ RowAged(row).task = row.task /\ RowAged(row).state = row.state
    BY <2>1, <2>2 DEF EntryRow
  <2> QED
    BY <2>3, NoRowAssumption
<1>3. CASE ~(row.left > 0)
  BY <1>1, <1>3 DEF RowAged
<1> QED
  BY <1>2, <1>3

\* Nothing but what is left of the lease changes, and nothing once it is over.
LEMMA AgedAttempt ==
    ASSUME NEW t \in AttemptRow, NEW u, u = RowAged(t)
    PROVE  /\ u \in AttemptRow /\ u # NoRow
           /\ u.entry = t.entry /\ u.task = t.task /\ u.state = t.state
           /\ u.owner = t.owner /\ u.fence = t.fence /\ u.pred = t.pred
           /\ u.accepted = t.accepted /\ u.cancel = t.cancel
           /\ t.left \in Nat
           /\ u.left = IF t.left > 0 THEN t.left - 1 ELSE 0
           /\ t.left = 0 => u = t
<1>1. t # NoRow
  BY NoRowAssumption
<1>0. t.left \in 0..MaxTtl
  BY DEF AttemptRow
<1>2. CASE t.left > 0
  <2> DEFINE l == t.left - 1
  <2>1. l \in 0..MaxTtl
    BY <1>0, <1>2, MaxTtlAssumption
  <2>2. u = [t EXCEPT !.left = l]
    BY <1>1, <1>2 DEF RowAged
  <2> HIDE DEF l
  <2>3. u \in AttemptRow
    BY <2>1, <2>2 DEF AttemptRow
  <2>4. /\ u.entry = t.entry /\ u.task = t.task /\ u.state = t.state
        /\ u.owner = t.owner /\ u.fence = t.fence /\ u.pred = t.pred
        /\ u.left = l
    BY <2>2 DEF AttemptRow
  <2>5. u.accepted = t.accepted /\ u.cancel = t.cancel
    BY <2>2 DEF AttemptRow
  <2>6. u # NoRow
    BY <2>3, NoRowAssumption
  <2>7. u.left = (IF t.left > 0 THEN t.left - 1 ELSE 0) /\ t.left # 0 /\ t.left \in Nat
    BY <1>0, <1>2, <2>4 DEF l
  <2> QED
    BY <2>3, <2>4, <2>5, <2>6, <2>7
<1>3. CASE ~(t.left > 0)
  <2>1. t.left = 0
    BY <1>0, <1>3
  <2>2. u = t
    BY <1>3 DEF RowAged
  <2> QED
    BY <1>1, <2>1, <2>2
<1> QED
  BY <1>2, <1>3

LEMMA AgedClaim ==
    ASSUME NEW c \in Claim \cup {NoClaim}
    PROVE  /\ Aged(c) = NoClaim <=> c = NoClaim
           /\ c # NoClaim => Aged(c).fence = c.fence
           /\ Live(Aged(c)) => Live(c)
<1>1. CASE c = NoClaim
  BY <1>1 DEF Aged, Live
<1>2. CASE c # NoClaim
  <2>1. c \in Claim /\ c.left \in Nat
    BY <1>2, MaxTtlAssumption DEF Claim
  <2>2. CASE c.left > 0
    <3>1. Aged(c) = [c EXCEPT !.left = c.left - 1]
      BY <1>2, <2>2 DEF Aged
    <3>2. Aged(c) \in Claim
      BY <1>2, AgedType, NoClaimAssumption, <2>1, <2>2, <3>1 DEF Claim
    <3>3. Aged(c).fence = c.fence
      BY <2>1, <3>1 DEF Claim
    <3> QED
      BY <1>2, <2>2, <3>2, <3>3, NoClaimAssumption DEF Live
  <2>3. CASE ~(c.left > 0)
    BY <1>2, <2>3 DEF Aged
  <2> QED
    BY <2>2, <2>3
<1> QED
  BY <1>1, <1>2

\* The lease of an execution and its claim go on being the same.
LEMMA AgedGrant ==
    ASSUME NEW t \in AttemptRow
    PROVE  Aged(GrantOf(t)) = GrantOf(RowAged(t))
<1> DEFINE u == RowAged(t)
           c == GrantOf(t)
<1>1. /\ u.owner = t.owner /\ u.fence = t.fence /\ t.left \in Nat
      /\ u.left = IF t.left > 0 THEN t.left - 1 ELSE 0
  BY AgedAttempt
<1>2. c # NoClaim
  BY GrantIsNoGap
<1>3. c = [holder |-> t.owner, mode |-> "exclusive", fence |-> t.fence, left |-> t.left]
  BY DEF GrantOf
<1> HIDE DEF c, u
<1>4. CASE t.left > 0
  BY <1>1, <1>2, <1>3, <1>4 DEF Aged, GrantOf, c, u
<1>5. CASE ~(t.left > 0)
  BY <1>1, <1>2, <1>3, <1>5 DEF Aged, GrantOf, c, u
<1> QED
  BY <1>4, <1>5 DEF c, u

\* Time passes between contents s and contents d.
TimePasses(s, d) ==
    /\ s \in Contents /\ d \in Contents
    /\ d.fences = s.fences /\ d.work = s.work
    /\ d.reservations = s.reservations /\ d.questions = s.questions
    /\ \A n \in Name : d.claims[n] = Aged(s.claims[n])
    /\ \A i \in EntryId : d.entries[i] = RowAged(s.entries[i])
    /\ \A a \in AttemptId : d.attempts[a] = RowAged(s.attempts[a])

\* The rows of attempt a and of entry i before and after.
SameAttempt(s, d, a) ==
    LET t == s.attempts[a]
        u == d.attempts[a]
    IN
    /\ u.entry = t.entry /\ u.task = t.task /\ u.state = t.state
    /\ u.owner = t.owner /\ u.fence = t.fence /\ u.pred = t.pred
    /\ u.accepted = t.accepted /\ u.cancel = t.cancel
    /\ t.left \in Nat
    /\ u.left = IF t.left > 0 THEN t.left - 1 ELSE 0
    /\ t.left = 0 => u = t

LEMMA TimedAttempt ==
    ASSUME NEW s, NEW d, TimePasses(s, d), NEW a \in AttemptId
    PROVE  /\ IsAttempt(d, a) <=> IsAttempt(s, a)
           /\ IsAttempt(s, a) => SameAttempt(s, d, a) /\ s.attempts[a] \in AttemptRow
                                 /\ ResourceOf(d, a) = ResourceOf(s, a)
<1>1. s \in Contents /\ d.attempts[a] = RowAged(s.attempts[a])
  BY DEF TimePasses
<1>2. CASE s.attempts[a] = NoRow
  BY <1>1, <1>2 DEF RowAged, IsAttempt
<1>3. CASE s.attempts[a] # NoRow
  <2>1. s.attempts[a] \in AttemptRow
    BY <1>1, <1>3, RowTypes
  <2>2. SameAttempt(s, d, a) /\ d.attempts[a] # NoRow
    BY <1>1, <2>1, AgedAttempt DEF SameAttempt
  <2> QED
    BY <1>3, <2>1, <2>2 DEF IsAttempt, ResourceOf, SameAttempt
<1> QED
  BY <1>2, <1>3

LEMMA TimedEntry ==
    ASSUME NEW s, NEW d, TimePasses(s, d), NEW i \in EntryId
    PROVE  /\ d.entries[i] = NoRow <=> s.entries[i] = NoRow
           /\ s.entries[i] # NoRow => /\ d.entries[i].task = s.entries[i].task
                                      /\ d.entries[i].state = s.entries[i].state
           /\ UnfinishedIn(d, i) <=> UnfinishedIn(s, i)
<1>1. s \in Contents /\ d.entries[i] = RowAged(s.entries[i])
  BY DEF TimePasses
<1>2. CASE s.entries[i] = NoRow
  BY <1>1, <1>2 DEF RowAged, UnfinishedIn
<1>3. CASE s.entries[i] # NoRow
  <2>1. s.entries[i] \in EntryRow
    BY <1>1, <1>3, RowTypes
  <2>2. /\ d.entries[i] # NoRow /\ d.entries[i].task = s.entries[i].task
        /\ d.entries[i].state = s.entries[i].state
    BY <1>1, <2>1, AgedEntry
  <2> QED
    BY <1>3, <2>2 DEF UnfinishedIn
<1> QED
  BY <1>2, <1>3

LEMMA TimedRows ==
    ASSUME NEW s, RowsAgree(s), NEW d, TimePasses(s, d)
    PROVE  AttemptsFit(d) /\ OneAtATime(d) /\ PlacesFit(d)
<1>0. s \in Contents /\ d.reservations = s.reservations
  BY DEF TimePasses
<1>1. \A a \in AttemptId :
          /\ IsAttempt(d, a) <=> IsAttempt(s, a)
          /\ IsAttempt(s, a) =>
                /\ d.attempts[a].entry = s.attempts[a].entry
                /\ d.attempts[a].task = s.attempts[a].task
                /\ d.attempts[a].state = s.attempts[a].state
                /\ d.attempts[a].fence = s.attempts[a].fence
                /\ d.attempts[a].pred = s.attempts[a].pred
                /\ d.attempts[a].accepted = s.attempts[a].accepted
                /\ s.attempts[a].left = 0 => d.attempts[a].left = 0
  BY TimedAttempt DEF SameAttempt
<1>2. \A a \in AttemptId : ActiveIn(d, a) <=> ActiveIn(s, a)
  BY <1>1 DEF ActiveIn
<1>3. \A i \in EntryId :
          /\ d.entries[i] = NoRow <=> s.entries[i] = NoRow
          /\ s.entries[i] # NoRow => /\ d.entries[i].task = s.entries[i].task
                                     /\ d.entries[i].state = s.entries[i].state
          /\ UnfinishedIn(d, i) <=> UnfinishedIn(s, i)
  BY TimedEntry
<1>4. AttemptsFit(d)
  <2> SUFFICES ASSUME NEW a \in AttemptId, IsAttempt(d, a)
               PROVE  LET t == d.attempts[a] IN
                      /\ d.entries[t.entry] # NoRow /\ d.entries[t.entry].task = t.task
                      /\ t.state = "terminal" => t.left = 0
                      /\ t.state # "terminal" => d.entries[t.entry].state = "admitted"
                      /\ t.pred # NoRow => /\ IsAttempt(d, t.pred)
                                           /\ d.attempts[t.pred].entry = t.entry
                                           /\ d.attempts[t.pred].fence < t.fence
    BY DEF AttemptsFit
  <2> DEFINE t == s.attempts[a]
  <2>1. IsAttempt(s, a)
    BY <1>1
  <2>2. t.entry \in EntryId /\ t.pred \in AttemptId \cup {NoRow}
    BY <1>0, <2>1, AttemptTypes
  <2>3. /\ s.entries[t.entry] # NoRow /\ s.entries[t.entry].task = t.task
        /\ t.state = "terminal" => t.left = 0
        /\ t.state # "terminal" => s.entries[t.entry].state = "admitted"
        /\ t.pred # NoRow => /\ IsAttempt(s, t.pred)
                             /\ s.attempts[t.pred].entry = t.entry
                             /\ s.attempts[t.pred].fence < t.fence
    BY <2>1 DEF RowsAgree, AttemptsFit
  <2> HIDE DEF t
  <2>4. /\ d.attempts[a].entry = t.entry /\ d.attempts[a].task = t.task
        /\ d.attempts[a].state = t.state /\ d.attempts[a].fence = t.fence
        /\ d.attempts[a].pred = t.pred
        /\ t.left = 0 => d.attempts[a].left = 0
    BY <1>1, <2>1 DEF t
  <2>5. /\ d.entries[t.entry] # NoRow /\ d.entries[t.entry].task = t.task
        /\ t.state # "terminal" => d.entries[t.entry].state = "admitted"
    BY <1>3, <2>2, <2>3
  <2>6. t.pred # NoRow => /\ IsAttempt(d, t.pred)
                          /\ d.attempts[t.pred].entry = t.entry
                          /\ d.attempts[t.pred].fence < t.fence
    BY <1>1, <2>2, <2>3
  <2> QED
    BY <2>3, <2>4, <2>5, <2>6
<1>5. OneAtATime(d)
  <2>1. \A i, j \in EntryId :
            UnfinishedIn(s, i) /\ UnfinishedIn(s, j)
            /\ s.entries[i].task = s.entries[j].task => i = j
    BY DEF RowsAgree, OneAtATime
  <2>2. \A i, j \in EntryId :
            UnfinishedIn(d, i) /\ UnfinishedIn(d, j)
            /\ d.entries[i].task = d.entries[j].task => i = j
    BY <1>3, <2>1 DEF UnfinishedIn
  <2>3. \A a, b \in AttemptId :
            ActiveIn(s, a) /\ ActiveIn(s, b)
            /\ s.attempts[a].task = s.attempts[b].task => a = b
    BY DEF RowsAgree, OneAtATime
  <2>4. \A a, b \in AttemptId :
            ActiveIn(d, a) /\ ActiveIn(d, b)
            /\ d.attempts[a].task = d.attempts[b].task => a = b
    BY <1>1, <1>2, <2>3 DEF ActiveIn
  <2>5. ASSUME NEW i \in EntryId, d.entries[i] # NoRow, d.entries[i].state = "admitted"
        PROVE  \E a \in AttemptId : ActiveIn(d, a) /\ d.attempts[a].entry = i
    <3>1. s.entries[i] # NoRow /\ s.entries[i].state = "admitted"
      BY <1>3, <2>5
    <3>2. PICK a \in AttemptId : ActiveIn(s, a) /\ s.attempts[a].entry = i
      BY <3>1 DEF RowsAgree, OneAtATime
    <3> QED
      BY <1>1, <1>2, <3>2 DEF ActiveIn
  <2> QED
    BY <2>2, <2>4, <2>5 DEF OneAtATime
<1>6. PlacesFit(d)
  <2>1. ASSUME NEW e \in Entity, d.reservations[e] # NoRow
        PROVE  LET i == d.reservations[e].entry IN
               /\ UnfinishedIn(d, i) /\ d.entries[i].task = e
               /\ d.reservations[e].held =>
                     \E a \in AttemptId : /\ ActiveIn(d, a) /\ d.attempts[a].task = e
                                          /\ d.attempts[a].state \in Holding
    <3> DEFINE i == s.reservations[e].entry
    <3>1. s.reservations[e] # NoRow /\ d.reservations[e] = s.reservations[e]
      BY <1>0, <2>1
    <3>2. i \in EntryId
      BY <1>0, <3>1, RowTypes DEF ReservationRow
    <3>3. UnfinishedIn(s, i) /\ s.entries[i].task = e
      BY <3>1 DEF RowsAgree, PlacesFit
    <3>4. UnfinishedIn(d, i) /\ d.entries[i].task = e
      BY <1>3, <3>2, <3>3 DEF UnfinishedIn
    <3>5. ASSUME s.reservations[e].held
          PROVE  \E a \in AttemptId : /\ ActiveIn(d, a) /\ d.attempts[a].task = e
                                      /\ d.attempts[a].state \in Holding
      <4>1. PICK a \in AttemptId : /\ ActiveIn(s, a) /\ s.attempts[a].task = e
                                   /\ s.attempts[a].state \in Holding
        BY <3>1, <3>5 DEF RowsAgree, PlacesFit
      <4>2. IsAttempt(s, a)
        BY <4>1 DEF ActiveIn
      <4> QED
        BY <1>1, <1>2, <4>1, <4>2
    <3> QED
      BY <3>1, <3>4, <3>5
  <2>2. ASSUME NEW a \in AttemptId, ActiveIn(d, a)
        PROVE  LET row == d.reservations[d.attempts[a].task] IN
               row # NoRow /\ (row.held <=> d.attempts[a].state \in Holding)
    <3>1. ActiveIn(s, a) /\ IsAttempt(s, a)
      BY <1>2, <2>2 DEF ActiveIn
    <3>2. d.attempts[a].task = s.attempts[a].task /\ d.attempts[a].state = s.attempts[a].state
      BY <1>1, <3>1
    <3> QED
      BY <1>0, <3>1, <3>2 DEF RowsAgree, PlacesFit
  <2>3. ASSUME NEW i \in EntryId, NEW a \in AttemptId, UnfinishedIn(d, i), IsAttempt(d, a),
               d.attempts[a].entry = i, d.attempts[a].accepted
        PROVE  d.reservations[d.entries[i].task] # NoRow
    <3>1. UnfinishedIn(s, i) /\ d.entries[i].task = s.entries[i].task
      BY <1>3, <2>3 DEF UnfinishedIn
    <3>2. IsAttempt(s, a) /\ s.attempts[a].entry = i /\ s.attempts[a].accepted
      BY <1>1, <2>3
    <3> QED
      BY <1>0, <3>1, <3>2 DEF RowsAgree, PlacesFit
  <2> QED
    BY <2>1, <2>2, <2>3 DEF PlacesFit
<1> QED
  BY <1>4, <1>5, <1>6

LEMMA TimedClaims ==
    ASSUME NEW s, RowsAgree(s), NEW d, TimePasses(s, d)
    PROVE  /\ ClaimsFit(d)
           /\ ExecutionsHaveClaims(s) => ExecutionsHaveClaims(d)
<1>0. s \in Contents /\ d.fences = s.fences
  BY DEF TimePasses
<1>1. ASSUME NEW n \in Name
      PROVE  /\ d.claims[n] = Aged(s.claims[n])
             /\ d.claims[n] = NoClaim <=> s.claims[n] = NoClaim
             /\ d.claims[n] # NoClaim => d.claims[n].fence = s.claims[n].fence
             /\ Live(d.claims[n]) => Live(s.claims[n])
  <2>1. s.claims[n] \in Claim \cup {NoClaim}
    BY <1>0, RowTypes
  <2>2. d.claims[n] = Aged(s.claims[n])
    BY DEF TimePasses
  <2> QED
    BY <2>1, <2>2, AgedClaim
<1>2. \A n \in Name : d.claims[n] # NoClaim => d.claims[n].fence = d.fences[n]
  BY <1>0, <1>1 DEF RowsAgree, ClaimsFit
<1>3. ASSUME NEW a \in AttemptId, IsAttempt(d, a)
      PROVE  LET t == d.attempts[a]
                 c == d.claims[ResourceOf(d, a)]
                 f == d.fences[ResourceOf(d, a)]
             IN IF t.state \in Executing
                THEN t.fence = f /\ (c = GrantOf(t) \/ (c = NoClaim /\ t.left = 0))
                ELSE t.fence < f /\ (t.state # "terminal" => ~Live(c))
  <2> DEFINE t == s.attempts[a]
             u == d.attempts[a]
             r == ResourceOf(s, a)
  <2>1. IsAttempt(s, a) /\ SameAttempt(s, d, a) /\ t \in AttemptRow /\ ResourceOf(d, a) = r
    BY <1>3, TimedAttempt
  <2>2. /\ u.state = t.state /\ u.fence = t.fence
        /\ t.left = 0 => u.left = 0
    BY <2>1 DEF SameAttempt
  <2>3. r \in Name
    BY <1>0, <2>1, AttemptTypes
  <2>4. u = RowAged(t)
    BY DEF TimePasses
  <2>5. IF t.state \in Executing
        THEN /\ t.fence = s.fences[r]
             /\ s.claims[r] = GrantOf(t) \/ (s.claims[r] = NoClaim /\ t.left = 0)
        ELSE t.fence < s.fences[r] /\ (t.state # "terminal" => ~Live(s.claims[r]))
    BY <2>1 DEF RowsAgree, ClaimsFit
  <2>6. s.claims[r] = GrantOf(t) => d.claims[r] = GrantOf(u)
    <3>1. Aged(GrantOf(t)) = GrantOf(u)
      BY <2>1, <2>4, AgedGrant
    <3> QED
      BY <1>1, <2>3, <3>1
  <2>7. s.claims[r] = NoClaim => d.claims[r] = NoClaim
    BY <1>1, <2>3
  <2>8. ~Live(s.claims[r]) => ~Live(d.claims[r])
    BY <1>1, <2>3
  <2> HIDE DEF t, u, r
  <2> QED
    BY <1>0, <2>1, <2>2, <2>5, <2>6, <2>7, <2>8 DEF u
<1>4. ASSUME ExecutionsHaveClaims(s), NEW a \in AttemptId, IsAttempt(d, a),
             d.attempts[a].state \in Executing
      PROVE  d.claims[ResourceOf(d, a)] # NoClaim
  <2>1. /\ IsAttempt(s, a) /\ SameAttempt(s, d, a)
        /\ ResourceOf(d, a) = ResourceOf(s, a)
    BY <1>4, TimedAttempt
  <2>2. s.claims[ResourceOf(s, a)] # NoClaim
    BY <1>4, <2>1 DEF ExecutionsHaveClaims, SameAttempt
  <2>3. ResourceOf(s, a) \in Name
    BY <1>0, <2>1, AttemptTypes
  <2> QED
    BY <1>1, <2>1, <2>2, <2>3
<1> QED
  BY <1>2, <1>3, <1>4 DEF ClaimsFit, ExecutionsHaveClaims

LEMMA TimedQuestions ==
    ASSUME NEW s, RowsAgree(s), NEW d, TimePasses(s, d)
    PROVE  FencesFit(d) /\ QuestionsFit(d) /\ RowsAreFew(d)
<1>0. s \in Contents /\ d.questions = s.questions /\ d.reservations = s.reservations
  BY DEF TimePasses
<1>1. \A a \in AttemptId :
          /\ IsAttempt(d, a) <=> IsAttempt(s, a)
          /\ IsAttempt(s, a) =>
                /\ d.attempts[a].entry = s.attempts[a].entry
                /\ d.attempts[a].state = s.attempts[a].state
                /\ d.attempts[a].fence = s.attempts[a].fence
                /\ d.attempts[a].pred = s.attempts[a].pred
                /\ d.attempts[a].accepted = s.attempts[a].accepted
                /\ d.attempts[a].cancel = s.attempts[a].cancel
  BY TimedAttempt DEF SameAttempt
<1>2. FencesFit(d)
  <2> SUFFICES ASSUME NEW a \in AttemptId, NEW b \in AttemptId, IsAttempt(d, a),
                      IsAttempt(d, b), a # b, d.attempts[a].entry = d.attempts[b].entry
               PROVE  /\ d.attempts[a].fence # d.attempts[b].fence
                      /\ d.attempts[a].fence > d.attempts[b].fence
                            => /\ d.attempts[b].state = "terminal"
                               /\ d.attempts[a].pred # NoRow
    BY DEF FencesFit
  <2>1. IsAttempt(s, a) /\ IsAttempt(s, b) /\ s.attempts[a].entry = s.attempts[b].entry
    BY <1>1
  <2>2. /\ s.attempts[a].fence # s.attempts[b].fence
        /\ s.attempts[a].fence > s.attempts[b].fence
              => s.attempts[b].state = "terminal" /\ s.attempts[a].pred # NoRow
    BY <2>1 DEF RowsAgree, FencesFit
  <2> QED
    BY <1>1, <2>1, <2>2
<1>3. QuestionsFit(d)
  <2> SUFFICES ASSUME NEW q \in Question, d.questions[q] # NoRow
               PROVE  LET row == d.questions[q]
                          t == d.attempts[row.attempt]
                      IN
                      /\ IsAttempt(d, row.attempt) /\ t.accepted /\ row.fence <= t.fence
                      /\ row.state = "open" =>
                            /\ row.valid /\ t.state # "terminal" /\ ~t.cancel
                            /\ row.fence = t.fence
    BY DEF QuestionsFit
  <2> DEFINE row == s.questions[q]
             b == row.attempt
  <2>1. d.questions[q] = row /\ row # NoRow
    BY <1>0
  <2>2. b \in AttemptId
    BY <1>0, <2>1, RowTypes DEF QuestionRow
  <2>3. /\ IsAttempt(s, b) /\ s.attempts[b].accepted /\ row.fence <= s.attempts[b].fence
        /\ row.state = "open" =>
              /\ row.valid /\ s.attempts[b].state # "terminal" /\ ~s.attempts[b].cancel
              /\ row.fence = s.attempts[b].fence
    BY <2>1 DEF RowsAgree, QuestionsFit
  <2>4. /\ IsAttempt(d, b) /\ d.attempts[b].state = s.attempts[b].state
        /\ d.attempts[b].fence = s.attempts[b].fence
        /\ d.attempts[b].accepted = s.attempts[b].accepted
        /\ d.attempts[b].cancel = s.attempts[b].cancel
    <3>1. IsAttempt(s, b)
      BY <2>3
    <3> HIDE DEF b, row
    <3> QED
      BY <1>1, <2>2, <3>1
  <2> QED
    BY <2>1, <2>3, <2>4
<1>4. RowsAreFew(d)
  <2>1. {a \in AttemptId : IsAttempt(d, a)} = {a \in AttemptId : IsAttempt(s, a)}
    BY <1>1
  <2> QED
    BY <1>0, <2>1 DEF RowsAgree, RowsAreFew
<1> QED
  BY <1>2, <1>3, <1>4

LEMMA TimedKeeps ==
    ASSUME NEW s, RowsAgree(s), ExecutionsHaveClaims(s), NEW d, TimePasses(s, d)
    PROVE  Keeps(s, d)
<1>0. /\ s \in Contents /\ d \in Contents /\ d.questions = s.questions
      /\ d.reservations = s.reservations /\ d.work = s.work
  BY DEF TimePasses
<1>1. RowsAgree(d)
  <2>1. TasksExist(s)
    BY DEF RowsAgree
  <2>2. ASSUME NEW i \in EntryId, d.entries[i] # NoRow
        PROVE  d.work[d.entries[i].task] # "absent"
    <3>1. s.entries[i] # NoRow /\ d.entries[i].task = s.entries[i].task
      BY <2>2, TimedEntry
    <3>2. s.work[s.entries[i].task] # "absent"
      BY <2>1, <3>1 DEF TasksExist
    <3> QED
      BY <1>0, <3>1, <3>2
  <2>3. TasksExist(d)
    BY <2>2 DEF TasksExist
  <2> QED
    BY <1>0, <2>3, TimedRows, TimedClaims, TimedQuestions DEF RowsAgree
<1>2. ExecutionsHaveClaims(d)
  BY TimedClaims
<1>3. ResultsKept(s, d)
  <2> SUFFICES ASSUME NEW b \in AttemptId, IsAttempt(s, b),
                      s.attempts[b].state = "terminal"
               PROVE  d.attempts[b] = s.attempts[b]
    BY DEF ResultsKept
  <2>1. s.attempts[b].left = 0
    BY DEF RowsAgree, AttemptsFit
  <2>2. SameAttempt(s, d, b)
    BY TimedAttempt
  <2> QED
    BY <2>1, <2>2 DEF SameAttempt
<1>4. AnswersStayLost(s, d)
  <2> SUFFICES ASSUME NEW q \in Question, LostIn(s, q), ApplicableIn(d, q)
               PROVE  FALSE
    BY <1>0 DEF AnswersStayLost, LostIn
  <2> DEFINE row == s.questions[q]
             a == row.attempt
  <2>1. row # NoRow /\ row.state = "answered"
    BY DEF LostIn
  <2>2. a \in AttemptId
    BY <1>0, <2>1, RowTypes DEF QuestionRow
  <2>3. IsAttempt(s, a)
    BY <2>1 DEF RowsAgree, QuestionsFit
  <2>4. PICK p \in Participant : GrantValid(d, a, p)
    BY <1>0 DEF ApplicableIn
  <2>5. SameAttempt(s, d, a)
    BY <2>2, <2>3, TimedAttempt
  <2>6. d.attempts[a].state \in Executing /\ d.attempts[a].left > 0
    BY <2>4 DEF GrantValid
  <2>7. s.attempts[a].state \in Executing /\ s.attempts[a].left > 0
    <3>1. /\ d.attempts[a].state = s.attempts[a].state /\ s.attempts[a].left \in Nat
          /\ d.attempts[a].left = IF s.attempts[a].left > 0 THEN s.attempts[a].left - 1 ELSE 0
      BY <2>5 DEF SameAttempt
    <3> HIDE DEF a
    <3> QED
      BY <2>6, <3>1
  <2>8. \E x \in Participant : GrantValid(s, a, x)
    BY <2>2, <2>3, <2>7, LiveGrant
  <2>9. /\ row.valid /\ ~s.attempts[a].cancel /\ s.attempts[a].fence = row.fence
    BY <1>0, <2>5 DEF ApplicableIn, SameAttempt
  <2> QED
    BY <2>1, <2>8, <2>9 DEF LostIn, ApplicableIn
<1>5. ManagedEnds(s, d)
  BY <1>0 DEF ManagedEnds
<1>6. FitsLimits(s, d)
  BY <1>0, PlacesKept
<1>7. ReservationsAreFirst(s, d)
  BY TimedAttempt DEF ReservationsAreFirst, SameAttempt
<1> QED
  BY <1>1, <1>2, <1>3, <1>4, <1>5, <1>6, <1>7 DEF Keeps

LEMMA TickKeeps ==
    ASSUME QueueInv, QueueTick
    PROVE  QueueInv' /\ Keeps(Db, Db')
<1>1. /\ Db'.fences = fences' /\ Db'.claims = claims' /\ Db'.journal = journal'
      /\ Db'.work = work' /\ Db'.written = written' /\ Db'.gates = gates'
      /\ Db'.entries = entries' /\ Db'.attempts = attempts'
      /\ Db'.reservations = reservations' /\ Db'.questions = questions'
  BY DEF Db
<1>2. Db \in Contents /\ RowsAgree(Db) /\ ExecutionsHaveClaims(Db) /\ TypeOK
  BY TablesType DEF QueueInv
<1>3. /\ Tick /\ UNCHANGED <<policy, reservations, questions>>
      /\ entries' = [i \in EntryId |-> RowAged(entries[i])]
      /\ attempts' = [a \in AttemptId |-> RowAged(attempts[a])]
  BY DEF QueueTick
<1>4. TypeOK'
  <2>1. Next
    BY <1>3 DEF Next
  <2> QED
    BY <1>2, <2>1, TypeStep
<1>5. /\ entries' \in [EntryId -> EntryRow \cup {NoRow}]
      /\ \A i \in EntryId : entries'[i] = RowAged(entries[i])
  <2>1. \A i \in EntryId : entries[i] \in EntryRow \cup {NoRow}
    BY <1>2, DbFields DEF Contents
  <2>2. RowAged(NoRow) = NoRow
    BY DEF RowAged
  <2>3. \A i \in EntryId : RowAged(entries[i]) \in EntryRow \cup {NoRow}
    BY <2>1, <2>2, AgedEntry
  <2> QED
    BY <1>3, <2>3
<1>6. /\ attempts' \in [AttemptId -> AttemptRow \cup {NoRow}]
      /\ \A a \in AttemptId : attempts'[a] = RowAged(attempts[a])
  <2>1. \A a \in AttemptId : attempts[a] \in AttemptRow \cup {NoRow}
    BY <1>2, DbFields DEF Contents
  <2>2. RowAged(NoRow) = NoRow
    BY DEF RowAged
  <2>3. \A a \in AttemptId : RowAged(attempts[a]) \in AttemptRow \cup {NoRow}
    BY <2>1, <2>2, AgedAttempt
  <2> QED
    BY <1>3, <2>3
<1>7. Db' \in Contents
  <2>1. /\ reservations' \in [Entity -> ReservationRow \cup {NoRow}]
        /\ questions' \in [Question -> QuestionRow \cup {NoRow}]
    BY <1>2, <1>3, DbFields DEF Contents
  <2>2. /\ fences' \in [Name -> Nat] /\ claims' \in [Name -> Claim \cup {NoClaim}]
        /\ journal' \in SUBSET GrantRow /\ work' \in [Entity -> WorkState]
        /\ written' \in [Entity -> Nat] /\ gates' \in [Gate -> GateRow \cup {NoGate}]
    BY <1>4 DEF TypeOK, GrantRow
  <2> QED
    BY <1>5, <1>6, <2>1, <2>2 DEF Db, Contents
<1>8. TimePasses(Db, Db')
  <2>1. \A n \in Name : claims'[n] = Aged(claims[n])
    BY <1>3 DEF Tick
  <2>2. fences' = fences /\ work' = work
    BY <1>3 DEF Tick
  <2> QED
    BY <1>1, <1>2, <1>3, <1>5, <1>6, <1>7, <2>1, <2>2, DbFields DEF TimePasses
<1>9. Keeps(Db, Db')
  BY <1>2, <1>8, TimedKeeps
<1>10. archived' \subseteq Entity /\ running' \subseteq Participant /\ policy' \in PolicyRow
  BY <1>3, <1>4 DEF TypeOK, QueueInv
<1> QED
  BY <1>9, <1>10 DEF QueueInv, Keeps

-----------------------------------------------------------------------------
(* Every step.                                                             *)

LEMMA QueueStarts == QueueInit => QueueInv
<1> SUFFICES ASSUME QueueInit
             PROVE  QueueInv
  OBVIOUS
<1>1. /\ entries = [i \in EntryId |-> NoRow] /\ attempts = [a \in AttemptId |-> NoRow]
      /\ reservations = [e \in Entity |-> NoRow] /\ questions = [q \in Question |-> NoRow]
      /\ claims = [n \in Name |-> NoClaim] /\ Init
  BY DEF QueueInit, Init
<1>2. TypeOK
  BY <1>1, TypeInit
<1>3. policy \in PolicyRow
  <2>1. MaxTtl \in Ttl /\ TRUE \in BOOLEAN /\ FALSE \in BOOLEAN /\ 0 \in Nat
    BY DEF Ttl
  <2>2. policy = [enabled |-> FALSE, paused |-> TRUE, execution_limit |-> 0,
                  wip_limit |-> 0, lease |-> MaxTtl]
    BY DEF QueueInit
  <2> QED
    BY <2>1, <2>2 DEF PolicyRow
<1>4. Db \in Contents
  BY <1>1, <1>2 DEF Db, Contents, TypeOK, GrantRow
<1>5. /\ \A i \in EntryId : Db.entries[i] = NoRow
      /\ \A a \in AttemptId : Db.attempts[a] = NoRow
      /\ \A e \in Entity : Db.reservations[e] = NoRow
      /\ \A q \in Question : Db.questions[q] = NoRow
      /\ \A n \in Name : Db.claims[n] = NoClaim
  BY <1>1, DbFields
<1>6. \A a \in AttemptId : ~IsAttempt(Db, a)
  BY <1>5 DEF IsAttempt
<1>7. \A i \in EntryId : ~UnfinishedIn(Db, i)
  BY <1>5 DEF UnfinishedIn
<1>8. AttemptsFit(Db) /\ FencesFit(Db) /\ ExecutionsHaveClaims(Db)
  BY <1>6 DEF AttemptsFit, FencesFit, ExecutionsHaveClaims
<1>9. OneAtATime(Db)
  BY <1>5, <1>6, <1>7 DEF OneAtATime, ActiveIn
<1>10. PlacesFit(Db)
  BY <1>5, <1>6, <1>7 DEF PlacesFit, ActiveIn
<1>11. ClaimsFit(Db) /\ QuestionsFit(Db)
  BY <1>5, <1>6 DEF ClaimsFit, QuestionsFit
<1>12. RowsAreFew(Db)
  <2>1. /\ {a \in AttemptId : IsAttempt(Db, a)} = {}
        /\ {e \in Entity : Db.reservations[e] # NoRow} = {}
    BY <1>5, <1>6
  <2> QED
    BY <2>1, FS_EmptySet DEF RowsAreFew
<1>13. TasksExist(Db)
  BY <1>5 DEF TasksExist
<1> QED
  BY <1>2, <1>3, <1>4, <1>8, <1>9, <1>10, <1>11, <1>12, <1>13 DEF QueueInv, RowsAgree, TypeOK

LEMMA QueueCommandKeeps ==
    ASSUME QueueInv, NEW p \in running, QueueCommand(p)
    PROVE  QueueInv' /\ Keeps(Db, Db')
<1>1. p \in Participant
  BY DEF QueueInv
<1>2. CASE Configure(p)
  BY <1>2, ConfigureKeeps
<1>3. ASSUME NEW e \in Entity, NEW retry_safe, retry_safe \in BOOLEAN,
             Enroll(p, e, retry_safe)
      PROVE  QueueInv' /\ Keeps(Db, Db')
  BY <1>1, <1>3, EnrollKeeps
<1>4. ASSUME NEW i \in EntryId, Withdraw(p, i)
      PROVE  QueueInv' /\ Keeps(Db, Db')
  BY <1>4, WithdrawKeeps
<1>5. ASSUME NEW i \in EntryId, ClaimNext(p, i)
      PROVE  QueueInv' /\ Keeps(Db, Db')
  BY <1>1, <1>5, ClaimNextKeeps
<1>6. ASSUME NEW a \in AttemptId, IsAttempt(Db, a), AttemptCommand(p, a)
      PROVE  QueueInv' /\ Keeps(Db, Db')
  <2>1. CASE Retry(p, a)
    BY <1>6, <2>1, RetryKeeps
  <2>2. CASE ~Retry(p, a)
    BY <1>1, <1>6, <2>2, CommandKeeps
  <2> QED
    BY <2>1, <2>2
<1> QED
  BY <1>2, <1>3, <1>4, <1>5, <1>6, Zenon DEF QueueCommand

LEMMA QuestionRequestKeeps ==
    ASSUME QueueInv, NEW p, QuestionRequest(p)
    PROVE  QueueInv' /\ Keeps(Db, Db')
<1>1. ASSUME NEW q \in Question, NEW a \in AttemptId, IsAttempt(Db, a), Ask(p, a, q)
      PROVE  QueueInv' /\ Keeps(Db, Db')
  BY <1>1, AskKeeps
<1>2. ASSUME NEW q \in Question, NEW state \in {"answered", "cancelled"},
             CloseQuestion(q, state)
      PROVE  QueueInv' /\ Keeps(Db, Db')
  BY <1>2, CloseQuestionKeeps
<1> QED
  BY <1>1, <1>2, Zenon DEF QuestionRequest

\* The one induction step: the invariant stays, and of the rows before it a step
\* keeps what the action properties ask for.
LEMMA QueueSteps ==
    ASSUME QueueInv, [QueueNext]_mqVars
    PROVE  QueueInv' /\ Keeps(Db, Db')
<1>1. ASSUME NEW p \in running, QueueCommand(p) \/ QuestionRequest(p) \/ Unmanaged(p)
      PROVE  QueueInv' /\ Keeps(Db, Db')
  BY <1>1, QueueCommandKeeps, QuestionRequestKeeps, UnmanagedKeeps
<1>2. CASE ExpireAttempts
  BY <1>2, ExpireKeeps
<1>3. CASE QueueSweep
  BY <1>3, SweepKeeps
<1>4. CASE QueueTick
  BY <1>4, TickKeeps
<1>5. CASE UNCHANGED mqVars
  BY <1>5, StutterKeeps
<1> QED
  BY <1>1, <1>2, <1>3, <1>4, <1>5 DEF QueueNext

-----------------------------------------------------------------------------
(* What the invariant says of the properties.                              *)

LEMMA AtMostOne ==
    ASSUME NEW S, \A x, y \in S : x = y
    PROVE  Cardinality(S) <= 1
<1>1. CASE S = {}
  BY <1>1, FS_EmptySet
<1>2. CASE S # {}
  <2>1. PICK x : x \in S
    BY <1>2
  <2>2. S = {x}
    BY <2>1
  <2>3. Cardinality({x}) = 1
    BY FS_Singleton
  <2> QED
    BY <2>2, <2>3
<1> QED
  BY <1>1, <1>2

LEMMA ActiveHere ==
    ASSUME NEW a
    PROVE  /\ Active(a) <=> ActiveIn(Db, a)
           /\ \A e : a \in ActiveOn(e) <=>
                 a \in AttemptId /\ ActiveIn(Db, a) /\ attempts[a].task = e
  BY DbFields DEF Active, ActiveOn, ActiveIn

LEMMA OneExecution == QueueInv => OneExecutionPerTask
<1> SUFFICES ASSUME QueueInv, NEW e \in Entity
             PROVE  LET U == {i \in EntryId : entries[i] # NoRow /\ entries[i].task = e
                                              /\ entries[i].state \in Unfinished}
                    IN
                    /\ Cardinality(U) <= 1 /\ Cardinality(ActiveOn(e)) <= 1
                    /\ {attempts[a].entry : a \in ActiveOn(e)}
                            = {i \in U : entries[i].state = "admitted"}
  BY DEF OneExecutionPerTask
<1> DEFINE U == {i \in EntryId : entries[i] # NoRow /\ entries[i].task = e
                                 /\ entries[i].state \in Unfinished}
<1>1. /\ OneAtATime(Db) /\ AttemptsFit(Db) /\ Db \in Contents
      /\ Db.entries = entries /\ Db.attempts = attempts
  BY DbFields DEF QueueInv, RowsAgree
<1>2. Cardinality(U) <= 1
  <2>1. \A i, j \in U : i = j
    BY <1>1 DEF OneAtATime, UnfinishedIn
  <2> HIDE DEF U
  <2> QED
    BY <2>1, AtMostOne
<1>3. Cardinality(ActiveOn(e)) <= 1
  <2>1. \A a, b \in ActiveOn(e) : a = b
    <3>1. \A a \in ActiveOn(e) :
              a \in AttemptId /\ ActiveIn(Db, a) /\ Db.attempts[a].task = e
      BY <1>1, ActiveHere
    <3> QED
      BY <1>1, <3>1 DEF OneAtATime
  <2> QED
    BY <2>1, AtMostOne
<1>4. ASSUME NEW a \in ActiveOn(e)
      PROVE  attempts[a].entry \in U /\ entries[attempts[a].entry].state = "admitted"
  <2>1. a \in AttemptId /\ ActiveIn(Db, a) /\ attempts[a].task = e
    BY ActiveHere
  <2>2. IsAttempt(Db, a) /\ attempts[a].state # "terminal"
    BY <1>1, <2>1 DEF ActiveIn
  <2>3. attempts[a].entry \in EntryId
    BY <1>1, <2>1, <2>2, AttemptTypes
  <2>4. /\ entries[attempts[a].entry] # NoRow /\ entries[attempts[a].entry].task = e
        /\ entries[attempts[a].entry].state = "admitted"
    BY <1>1, <2>1, <2>2 DEF AttemptsFit
  <2> QED
    BY <2>3, <2>4 DEF Unfinished
<1>5. ASSUME NEW i \in U, entries[i].state = "admitted"
      PROVE  \E a \in ActiveOn(e) : attempts[a].entry = i
  <2>1. PICK a \in AttemptId : ActiveIn(Db, a) /\ attempts[a].entry = i
    BY <1>1, <1>5 DEF OneAtATime
  <2>2. attempts[a].task = e
    BY <1>1, <2>1 DEF AttemptsFit, ActiveIn
  <2> QED
    BY <2>1, <2>2, ActiveHere
<1>6. {attempts[a].entry : a \in ActiveOn(e)}
          = {i \in U : entries[i].state = "admitted"}
  <2> HIDE DEF U
  <2> QED
    BY <1>4, <1>5
<1> QED
  BY <1>2, <1>3, <1>6

LEMMA SlotsFollow == QueueInv => SlotsFollowExecution
<1> SUFFICES ASSUME QueueInv, NEW e \in Entity
             PROVE  (reservations[e] # NoRow /\ reservations[e].held)
                       <=> \E a \in ActiveOn(e) :
                              attempts[a].state \in Executing \cup {"uncertain"}
  BY DEF SlotsFollowExecution
<1>1. PlacesFit(Db) /\ Db.reservations = reservations /\ Db.attempts = attempts
  BY DbFields DEF QueueInv, RowsAgree
<1>2. ASSUME reservations[e] # NoRow, reservations[e].held
      PROVE  \E a \in ActiveOn(e) : attempts[a].state \in Executing \cup {"uncertain"}
  <2>1. PICK a \in AttemptId : /\ ActiveIn(Db, a) /\ attempts[a].task = e
                               /\ attempts[a].state \in Holding
    BY <1>1, <1>2 DEF PlacesFit
  <2> QED
    BY <2>1, ActiveHere DEF Holding
<1>3. ASSUME NEW a \in ActiveOn(e), attempts[a].state \in Executing \cup {"uncertain"}
      PROVE  reservations[e] # NoRow /\ reservations[e].held
  <2>1. a \in AttemptId /\ ActiveIn(Db, a) /\ attempts[a].task = e
    BY ActiveHere
  <2> QED
    BY <1>1, <1>3, <2>1 DEF PlacesFit, Holding
<1> QED
  BY <1>2, <1>3

LEMMA GrantsFollow == QueueInv => GrantsFollowClaims
<1> SUFFICES ASSUME QueueInv, NEW a \in AttemptId, IsAttempt(Db, a)
             PROVE  LET t == attempts[a]
                        c == claims[ResourceOf(Db, a)]
                    IN IF t.state \in Executing
                       THEN c = [holder |-> t.owner, mode |-> "exclusive",
                                 fence |-> t.fence, left |-> t.left]
                       ELSE t.fence < fences[ResourceOf(Db, a)]
  BY DEF GrantsFollowClaims
<1>1. /\ ClaimsFit(Db) /\ ExecutionsHaveClaims(Db)
      /\ Db.claims = claims /\ Db.fences = fences /\ Db.attempts = attempts
  BY DbFields DEF QueueInv, RowsAgree
<1> QED
  BY <1>1 DEF ClaimsFit, ExecutionsHaveClaims, GrantOf

LEMMA StartedWorkStays == QueueInv => StartedWorkKeepsItsPlace
<1> SUFFICES ASSUME QueueInv, NEW i \in EntryId, entries[i] # NoRow,
                    entries[i].state \in Unfinished,
                    NEW a \in AttemptsOf(Db, i), attempts[a].accepted
             PROVE  /\ reservations[entries[i].task] # NoRow
                    /\ reservations[entries[i].task].entry = i
  BY DEF StartedWorkKeepsItsPlace
<1>1. /\ PlacesFit(Db) /\ OneAtATime(Db) /\ Db \in Contents
      /\ Db.entries = entries /\ Db.attempts = attempts
      /\ Db.reservations = reservations
  BY DbFields DEF QueueInv, RowsAgree
<1>2. UnfinishedIn(Db, i) /\ a \in AttemptId /\ IsAttempt(Db, a) /\ attempts[a].entry = i
  BY <1>1 DEF UnfinishedIn, AttemptsOf
<1> DEFINE e == entries[i].task
           j == reservations[e].entry
<1>3. e \in Entity
  BY <1>1, <1>2, RowTypes DEF UnfinishedIn, EntryRow
<1>4. reservations[e] # NoRow
  BY <1>1, <1>2 DEF PlacesFit
<1>5. j \in EntryId
  BY <1>1, <1>3, <1>4, RowTypes DEF ReservationRow
<1>6. UnfinishedIn(Db, j) /\ entries[j].task = e
  BY <1>1, <1>3, <1>4 DEF PlacesFit
<1>7. j = i
  <2>1. Db.entries[j].task = Db.entries[i].task
    BY <1>1, <1>6
  <2> HIDE DEF j, e
  <2> QED
    BY <1>1, <1>2, <1>5, <1>6, <2>1 DEF OneAtATime
<1> QED
  BY <1>4, <1>7

LEMMA SuccessorsAreLater == QueueInv => SuccessorsComeLater
<1> SUFFICES ASSUME QueueInv, NEW a \in AttemptId, NEW b \in AttemptId,
                    IsAttempt(Db, a), IsAttempt(Db, b),
                    attempts[a].entry = attempts[b].entry,
                    attempts[a].fence > attempts[b].fence
             PROVE  /\ attempts[b].state = "terminal" /\ attempts[a].pred # NoRow
                    /\ attempts[attempts[a].pred].fence < attempts[a].fence
  BY DEF SuccessorsComeLater
<1>1. AttemptsFit(Db) /\ FencesFit(Db) /\ Db \in Contents /\ Db.attempts = attempts
  BY DbFields DEF QueueInv, RowsAgree
<1>2. a # b
  <2>1. Db.attempts[a].fence \in Nat
    BY <1>1, AttemptTypes
  <2> QED
    BY <1>1, <2>1
<1>3. attempts[b].state = "terminal" /\ attempts[a].pred # NoRow
  BY <1>1, <1>2 DEF FencesFit
<1> QED
  BY <1>1, <1>3 DEF AttemptsFit

LEMMA OpenStands == QueueInv => OpenQuestionsStand
  BY DbFields DEF QueueInv, RowsAgree, QuestionsFit, OpenQuestionsStand

LEMMA QueueTypes == QueueInv => TypeOK /\ QueueTypeOK
<1> SUFFICES ASSUME QueueInv
             PROVE  TypeOK /\ QueueTypeOK
  OBVIOUS
<1>1. TypeOK /\ Db \in Contents /\ policy \in PolicyRow
  BY TablesType DEF QueueInv
<1> QED
  BY <1>1, DbFields DEF Contents, QueueTypeOK

-----------------------------------------------------------------------------
(* What holds in every execution.                                          *)

\* The rows of the queue agree with each other and with the claims, whichever
\* commands, requests, expiries, sweeps and ticks are interleaved.
THEOREM TheRowsAgree == QueueSpec => []QueueInv
<1>1. QueueInit => QueueInv
  BY QueueStarts
<1>2. QueueInv /\ [QueueNext]_mqVars => QueueInv'
  BY QueueSteps
<1>3. QED
  BY <1>1, <1>2, PTL DEF QueueSpec

\* Every table keeps its type, of the queue and of the claims beside it.
THEOREM QueueIsTyped == QueueSpec => []QueueTypeOK
<1>1. QueueInv => QueueTypeOK
  BY QueueTypes
<1>2. QED
  BY <1>1, TheRowsAgree, PTL

\* No sequence of expiry, recovery, retry and withdrawal enrolls a task twice,
\* runs it twice or strands an admitted entry (reserveInTransaction,
\* expireInTransaction, enroll).
THEOREM TasksRunOnceAtATime == QueueSpec => []OneExecutionPerTask
<1>1. QueueInv => OneExecutionPerTask
  BY OneExecution
<1>2. QED
  BY <1>1, TheRowsAgree, PTL

\* A slot is held exactly while an attempt is reserved, executing or of unknown
\* fate ("Expiry is an execution state transition, not a deletion of capacity
\* evidence", attempt-ops.ts).
THEOREM SlotsAreEvidence == QueueSpec => []SlotsFollowExecution
<1>1. QueueInv => SlotsFollowExecution
  BY SlotsFollow
<1>2. QED
  BY <1>1, TheRowsAgree, PTL

\* An attempt's lease and the claim of its task agree, and authority that was
\* given up left a fence nobody can write under (revoke, heartbeat, refence, sweep).
THEOREM LeasesAgreeWithClaims == QueueSpec => []GrantsFollowClaims
<1>1. QueueInv => GrantsFollowClaims
  BY GrantsFollow
<1>2. QED
  BY <1>1, TheRowsAgree, PTL

\* Started work keeps its place in the work-in-progress limit until it is
\* finished or withdrawn (scheduleRetryInTransaction, expireInTransaction).
THEOREM StartedWorkIsNotEvicted == QueueSpec => []StartedWorkKeepsItsPlace
<1>1. QueueInv => StartedWorkKeepsItsPlace
  BY StartedWorkStays
<1>2. QED
  BY <1>1, TheRowsAgree, PTL

\* A later attempt of an entry follows one that is over (claimNext).
THEOREM AttemptsSucceedEachOther == QueueSpec => []SuccessorsComeLater
<1>1. QueueInv => SuccessorsComeLater
  BY SuccessorsAreLater
<1>2. QED
  BY <1>1, TheRowsAgree, PTL

\* An open question belongs to an execution that still stands (invalidateQuestions).
THEOREM QuestionsEndWithTheirTenure == QueueSpec => []OpenQuestionsStand
<1>1. QueueInv => OpenQuestionsStand
  BY OpenStands
<1>2. QED
  BY <1>1, TheRowsAgree, PTL

\* "A terminal attempt's result is permanent": nothing rewrites it (finish,
\* reconcile, force recovery, retry).
THEOREM ResultsStand == QueueSpec => ResultsArePermanent
<1>1. QueueInv /\ [QueueNext]_mqVars =>
          [\A a \in AttemptId :
              IsAttempt(Db, a) /\ attempts[a].state = "terminal"
                  => attempts'[a] = attempts[a]]_mqVars
  <2> SUFFICES ASSUME QueueInv, [QueueNext]_mqVars, NEW a \in AttemptId,
                      IsAttempt(Db, a), attempts[a].state = "terminal"
               PROVE  attempts'[a] = attempts[a]
    OBVIOUS
  <2>1. Keeps(Db, Db')
    BY QueueSteps
  <2>2. Db.attempts = attempts /\ Db'.attempts = attempts'
    BY DEF Db
  <2> QED
    BY <2>1, <2>2 DEF Keeps, ResultsKept
<1>2. QED
  BY <1>1, TheRowsAgree, PTL DEF QueueSpec, ResultsArePermanent

\* While a task is managed it becomes terminal only with the result of its
\* attempt (checkManagedWrite, finishInTransaction).
THEOREM TasksEndWithResults == QueueSpec => TerminalOnlyWithResult
<1>1. QueueInv /\ [QueueNext]_mqVars =>
          [\A e \in Entity :
              ManagedTask(e) /\ work[e] # "terminal" /\ work'[e] = "terminal"
                  => \E a \in ActiveOn(e) : attempts'[a].state = "terminal"]_mqVars
  <2> SUFFICES ASSUME QueueInv, [QueueNext]_mqVars, NEW e \in Entity,
                      ManagedTask(e), work[e] # "terminal", work'[e] = "terminal"
               PROVE  \E a \in ActiveOn(e) : attempts'[a].state = "terminal"
    OBVIOUS
  <2>1. Keeps(Db, Db')
    BY QueueSteps
  <2>2. /\ Db.work = work /\ Db'.work = work'
        /\ Db.attempts = attempts /\ Db'.attempts = attempts'
    BY DEF Db
  <2>3. ManagedIn(Db, e)
    BY ManagedHere
  <2>4. PICK a \in AttemptId : /\ ActiveIn(Db, a) /\ attempts[a].task = e
                               /\ attempts'[a].state = "terminal"
    BY <2>1, <2>2, <2>3 DEF Keeps, ManagedEnds
  <2>5. a \in ActiveOn(e)
    BY <2>4, ActiveHere
  <2> QED
    BY <2>4, <2>5
<1>2. QED
  BY <1>1, TheRowsAgree, PTL DEF QueueSpec, TerminalOnlyWithResult

\* A slot or a place is newly taken only within the limits of the policy, by
\* whichever command takes it (claimNext, claimResume, scheduleRetryInTransaction).
THEOREM LimitsHold == QueueSpec => GrantsRespectLimits
<1>1. QueueInv /\ [QueueNext]_mqVars =>
          [/\ ~(Executions' \subseteq Executions)
                => Cardinality(Executions') <= policy.execution_limit
           /\ ~(Occupied' \subseteq Occupied) /\ policy.wip_limit > 0
                => Cardinality(Occupied') <= policy.wip_limit]_mqVars
  <2> SUFFICES ASSUME QueueInv, [QueueNext]_mqVars
               PROVE  /\ ~(Executions' \subseteq Executions)
                            => Cardinality(Executions') <= policy.execution_limit
                      /\ ~(Occupied' \subseteq Occupied) /\ policy.wip_limit > 0
                            => Cardinality(Occupied') <= policy.wip_limit
    OBVIOUS
  <2>1. FitsLimits(Db, Db')
    BY QueueSteps DEF Keeps
  <2>2. Executions = ExecutionsIn(Db) /\ Occupied = OccupiedIn(Db)
    BY PlacesHere
  <2>3. Executions' = ExecutionsIn(Db') /\ Occupied' = OccupiedIn(Db')
    BY DEF Executions, Occupied, ExecutionsIn, OccupiedIn, Db
  <2> QED
    BY <2>1, <2>2, <2>3 DEF FitsLimits
<1>2. QED
  BY <1>1, TheRowsAgree, PTL DEF QueueSpec, GrantsRespectLimits

\* An answer that has lost its authority never regains it, through a rebind, a
\* resume or a reconnection (question-ops.ts applicable).
THEOREM AnswersStaySpent == QueueSpec => AnswersNeverRevive
<1>1. QueueInv /\ [QueueNext]_mqVars =>
          [\A q \in Question :
              questions[q] # NoRow /\ questions[q].state = "answered" /\ ~Applicable(q)
                  => ~Applicable(q)']_mqVars
  <2> SUFFICES ASSUME QueueInv, [QueueNext]_mqVars, NEW q \in Question,
                      questions[q] # NoRow, questions[q].state = "answered", ~Applicable(q)
               PROVE  ~Applicable(q)'
    OBVIOUS
  <2>1. AnswersStayLost(Db, Db')
    BY QueueSteps DEF Keeps
  <2>2. Db.questions = questions /\ Db.attempts = attempts
    BY DbFields
  <2>3. LostIn(Db, q)
    BY <2>2 DEF LostIn, ApplicableIn, Applicable
  <2>4. ~ApplicableIn(Db', q)
    BY <2>1, <2>3 DEF AnswersStayLost, LostIn
  <2>5. Db'.questions = questions' /\ Db'.attempts = attempts'
    BY DEF Db
  <2>6. Applicable(q)' => ApplicableIn(Db', q)
    BY <2>5 DEF ApplicableIn, Applicable
  <2> QED
    BY <2>4, <2>6
<1>2. QED
  BY <1>1, TheRowsAgree, PTL DEF QueueSpec, AnswersNeverRevive

-----------------------------------------------------------------------------
(* The steps of the queue.                                                 *)

\* The claims, fences and writes are in order, and a step leaves them so: no
\* write goes back, and no existing task is finished past an undecided gate.
InOrder == QueueInv /\ Accounts(Db)

Advances ==
    /\ Accounts(Db)' /\ \A e \in Entity : written[e] <= written'[e]
    /\ \A e \in Entity, g \in Gate : Finishes(e) => ~Unresolved(gates'[g], e)

LEMMA BooksHere ==
    ASSUME InOrder
    PROVE  Books(Db) /\ RowsAgree(Db) /\ policy.lease \in Ttl
<1>1. Db \in Contents /\ RowsAgree(Db)
  BY DEF InOrder, QueueInv, RowsAgree
<1>2. Books(Db)
  BY <1>1, ContentsHaveBooks DEF Books, Contents, InOrder
<1> QED
  BY <1>1, <1>2, LeaseType DEF InOrder, QueueInv

\* A step that commits what a carried part of a transaction left of the books.
LEMMA CarriedStep ==
    ASSUME InOrder, NEW w, Carries(Db, w), NEW d, SameBooks(w, d), Commit(d)
    PROVE  Advances
<1>1. /\ fences' = w.fences /\ claims' = w.claims /\ journal' = w.journal
      /\ work' = w.work /\ written' = w.written /\ gates' = w.gates /\ archived' = archived
  BY DEF Commit, SameBooks
<1>2. Accounts(Db)'
  BY <1>1 DEF Carries, Books, Accounts, Db
<1> QED
  BY <1>1, <1>2, DbFields DEF Carries, Advances, Finishes

\* A step that commits what it carried.
LEMMA CommittedStep ==
    ASSUME InOrder, NEW d, Carries(Db, d), Commit(d)
    PROVE  Advances
<1>1. SameBooks(d, d)
  BY DEF SameBooks, Carries, Books
<1> QED
  BY <1>1, CarriedStep

\* A step that grants, writes and finishes nothing.
LEMMA QuietQueueStep ==
    ASSUME InOrder, QueueInv', UNCHANGED <<fences, journal, written, archived>>,
           \A e \in Entity : work'[e] = "terminal" => work[e] \in {"absent", "terminal"}
    PROVE  Advances
<1>1. \A n \in Name : claims'[n] # NoClaim => claims'[n].fence = fences'[n]
  BY DEF QueueInv, RowsAgree, ClaimsFit, Db
<1>2. Accounts(Db)'
  BY <1>1 DEF InOrder, Accounts, Db
<1>3. \A e \in Entity : written[e] \in Nat
  BY TablesType DEF InOrder, TypeOK
<1> QED
  BY <1>2, <1>3 DEF Advances, Finishes

LEMMA MayTransitionIsMayWrite ==
    ASSUME NEW s, NEW a, NEW kind, MayTransition(s, a, kind)
    PROVE  MayWrite(s, a, kind)
  BY DEF MayTransition, MayWrite, GrantValid

\* What a command about an unfinished attempt finds.
LEMMA FoundInOrder ==
    ASSUME InOrder, NEW a \in AttemptId, ActiveIn(Db, a)
    PROVE  /\ Books(Db) /\ Attached(Db, a) /\ policy.lease \in Ttl
           /\ ResourceOf(Db, a) \in Name /\ Db.attempts[a].fence \in Nat
           /\ Db.attempts[a].owner \in Participant
<1>1. Books(Db) /\ RowsAgree(Db) /\ policy.lease \in Ttl
  BY BooksHere
<1>2. Attached(Db, a)
  BY <1>1, ActiveRows
<1>3. /\ ResourceOf(Db, a) \in Name /\ Db.attempts[a].fence \in Nat
      /\ Db.attempts[a].owner \in Participant
  BY <1>2, AttemptTypes DEF Attached
<1> QED
  BY <1>1, <1>2, <1>3

LEMMA AcceptAdvances ==
    ASSUME InOrder, NEW p, NEW a \in AttemptId, IsAttempt(Db, a), Accept(p, a)
    PROVE  Advances
<1> DEFINE w == Transitioned(Db, a, "start")
           d == [w EXCEPT !.attempts[a] = [@ EXCEPT !.state = "starting", !.accepted = TRUE]]
<1>1. ActiveIn(Db, a)
  BY DbFields DEF Accept, ActiveIn
<1>2. MayWrite(Db, a, "start")
  BY MayTransitionIsMayWrite DEF Accept
<1>3. Carries(Db, w)
  <2>1. Books(Db) /\ Attached(Db, a)
    BY <1>1, FoundInOrder
  <2> HIDE DEF w
  <2> QED
    BY <1>2, <2>1, TransitionedCarries DEF w
<1>4. Commit(d)
  BY Zenon DEF Accept
<1> HIDE DEF w
<1>5. SameBooks(w, d)
  BY <1>3 DEF SameBooks, Carries, Books, BookNames
<1> HIDE DEF d
<1> QED
  BY <1>3, <1>4, <1>5, CarriedStep

\* Commands that give the authority of an attempt up.
LEMMA RevokedAdvances ==
    ASSUME InOrder, NEW a \in AttemptId, ActiveIn(Db, a), NEW d,
           SameBooks(Revoked(Db, a), d), Commit(d)
    PROVE  Advances
<1>1. Carries(Db, Revoked(Db, a))
  BY FoundInOrder, RevokedCarries
<1> QED
  BY <1>1, CarriedStep

LEMMA GivesUpAdvances ==
    ASSUME InOrder, NEW p, NEW a \in AttemptId, IsAttempt(Db, a),
           \/ ConfirmSuspension(p, a) \/ ReconcileUnknown(p, a)
           \/ \E session \in Session : ReconcileSuspended(p, a, session)
    PROVE  Advances
<1> DEFINE w == Revoked(Db, a)
<1>1. ActiveIn(Db, a)
  BY DbFields DEF ActiveIn, ConfirmSuspension, ReconcileUnknown, ReconcileSuspended
<1>2. BookNames \subseteq DOMAIN w
  BY <1>1, FoundInOrder, RevokedCarries DEF Carries, Books
<1>3. CASE ConfirmSuspension(p, a)
  <2> DEFINE d == [w EXCEPT
                !.attempts[a] = [@ EXCEPT !.state = "suspended", !.left = 0,
                                          !.suspend = FALSE],
                !.reservations[attempts[a].task].held = FALSE]
  <2>1. Commit(d)
    BY <1>3, Zenon DEF ConfirmSuspension
  <2> HIDE DEF w
  <2>2. SameBooks(w, d)
    BY <1>2 DEF SameBooks, BookNames
  <2> HIDE DEF d
  <2> QED
    BY <1>1, <2>1, <2>2, RevokedAdvances DEF w
<1>4. CASE ReconcileUnknown(p, a)
  <2> DEFINE d == [w EXCEPT
                !.attempts[a] = [@ EXCEPT !.state = "uncertain", !.left = 0]]
  <2>1. Commit(d)
    BY <1>4, Zenon DEF ReconcileUnknown
  <2> HIDE DEF w
  <2>2. SameBooks(w, d)
    BY <1>2 DEF SameBooks, BookNames
  <2> HIDE DEF d
  <2> QED
    BY <1>1, <2>1, <2>2, RevokedAdvances DEF w
<1>5. ASSUME NEW session \in Session, ReconcileSuspended(p, a, session)
      PROVE  Advances
  <2> DEFINE d == [w EXCEPT
                !.attempts[a] = [@ EXCEPT !.state = "suspended", !.left = 0,
                                          !.suspend = FALSE, !.session = session],
                !.reservations[attempts[a].task].held = FALSE]
  <2>1. Commit(d)
    BY <1>5, Zenon DEF ReconcileSuspended
  <2> HIDE DEF w
  <2>2. SameBooks(w, d)
    BY <1>2 DEF SameBooks, BookNames
  <2> HIDE DEF d
  <2> QED
    BY <1>1, <2>1, <2>2, RevokedAdvances DEF w
<1> QED
  BY <1>3, <1>4, <1>5

\* Commands that go on under a fresh grant.
LEMMA RefencedAdvances ==
    ASSUME InOrder, NEW a \in AttemptId, ActiveIn(Db, a), NEW p \in Participant, NEW d,
           SameBooks(Refenced(Db, a, p), d), Commit(d)
    PROVE  Advances
<1>1. Carries(Db, Refenced(Db, a, p))
  BY FoundInOrder, RefencedCarries
<1> QED
  BY <1>1, CarriedStep

LEMMA GoesOnAdvances ==
    ASSUME InOrder, NEW p \in Participant, NEW a \in AttemptId, IsAttempt(Db, a),
           \/ ClaimResume(p, a)
           \/ \E session \in Session :
                 ReplaceSession(p, a, session) \/ ReconcileRunning(p, a, session)
           \/ \E q \in Participant : Rebind(p, a, q)
    PROVE  Advances
<1>1. ActiveIn(Db, a)
  BY DbFields DEF ActiveIn, ClaimResume, ReplaceSession, ReconcileRunning, Rebind
<1>2. attempts[a].owner \in Participant
  BY <1>1, FoundInOrder, DbFields
<1>3. \A q \in Participant : BookNames \subseteq DOMAIN Refenced(Db, a, q)
  BY <1>1, FoundInOrder, RefencedCarries DEF Carries, Books
<1>4. CASE ClaimResume(p, a)
  <2> DEFINE w == Refenced(Db, a, p)
             d == [w EXCEPT !.attempts[a].state = "starting",
                            !.reservations[attempts[a].task].held = TRUE]
  <2>1. Commit(d) /\ BookNames \subseteq DOMAIN w
    <3>1. Commit(d)
      BY <1>4, Zenon DEF ClaimResume
    <3> QED
      BY <1>3, <3>1
  <2> HIDE DEF w
  <2>2. SameBooks(w, d)
    BY <2>1 DEF SameBooks, BookNames
  <2> HIDE DEF d
  <2> QED
    BY <1>1, <2>1, <2>2, RefencedAdvances DEF w
<1>5. ASSUME NEW session \in Session, NEW q \in Participant,
             Commit([Refenced(Db, a, q) EXCEPT !.attempts[a].session = session])
      PROVE  Advances
  <2> DEFINE w == Refenced(Db, a, q)
             d == [w EXCEPT !.attempts[a].session = session]
  <2>1. Commit(d) /\ BookNames \subseteq DOMAIN w
    <3>1. Commit(d)
      BY <1>5, Zenon
    <3> QED
      BY <1>3, <3>1
  <2> HIDE DEF w
  <2>2. SameBooks(w, d)
    BY <2>1 DEF SameBooks, BookNames
  <2> HIDE DEF d
  <2> QED
    BY <1>1, <2>1, <2>2, RefencedAdvances DEF w
<1>6. ASSUME NEW session \in Session, ReplaceSession(p, a, session)
      PROVE  Advances
  <2>1. Commit([Refenced(Db, a, p) EXCEPT !.attempts[a].session = session])
    BY <1>6, Zenon DEF ReplaceSession
  <2> QED
    BY <1>5, <2>1
<1>7. ASSUME NEW session \in Session, ReconcileRunning(p, a, session)
      PROVE  Advances
  <2>1. Commit([Refenced(Db, a, attempts[a].owner) EXCEPT !.attempts[a].session = session])
    BY <1>7, Zenon DEF ReconcileRunning
  <2> QED
    BY <1>2, <1>5, <2>1
<1>8. ASSUME NEW q \in Participant, Rebind(p, a, q)
      PROVE  Advances
  <2>1. Commit(Refenced(Db, a, q))
    BY <1>8, Zenon DEF Rebind
  <2>2. Carries(Db, Refenced(Db, a, q))
    BY <1>1, FoundInOrder, RefencedCarries
  <2> QED
    BY <2>1, <2>2, CommittedStep
<1> QED
  BY <1>4, <1>6, <1>7, <1>8

\* Commands that end the attempt, with the lifecycle write of its outcome.
LEMMA EndsAdvance ==
    ASSUME InOrder, NEW p \in Participant, NEW a \in AttemptId, IsAttempt(Db, a),
           \/ \E outcome \in Outcome : Finish(p, a, outcome) \/ ReconcileStopped(p, a, outcome)
           \/ ForceRecovery(p, a)
    PROVE  Advances
<1>1. ActiveIn(Db, a)
  BY DbFields DEF ActiveIn, Finish, ReconcileStopped, ForceRecovery, GrantValid, Executing
<1>2. /\ RowsAgree(Db) /\ Books(Db) /\ Attached(Db, a) /\ policy.lease \in Ttl
      /\ attempts[a].owner \in Participant
  BY <1>1, FoundInOrder, BooksHere, DbFields
<1>3. ASSUME NEW q \in Participant
      PROVE  Carries(Db, Refenced(Db, a, q)) /\ Attached(Refenced(Db, a, q), a)
  <2>1. Carries(Db, Refenced(Db, a, q))
    BY <1>2, RefencedCarries
  <2>2. Attached(Refenced(Db, a, q), a)
    BY <1>1, <1>2, FreshGrant
  <2> QED
    BY <2>1, <2>2
<1>4. ASSUME NEW q \in Participant, NEW outcome \in Outcome,
             MayTransition(Refenced(Db, a, q), a, outcome)
      PROVE  /\ Carries(Db, Ended(Refenced(Db, a, q), a, outcome))
             /\ Carries(Db, Finished(Refenced(Db, a, q), a, outcome))
  <2> DEFINE w == Refenced(Db, a, q)
  <2>1. Carries(Db, w) /\ Attached(w, a)
    BY <1>3
  <2>2. MayWrite(w, a, outcome)
    BY <1>4, MayTransitionIsMayWrite
  <2>3. Books(w)
    BY <2>1 DEF Carries
  <2> HIDE DEF w
  <2>4. Carries(w, Ended(w, a, outcome))
    BY <2>1, <2>2, <2>3, EndedCarries
  <2>5. Carries(w, Finished(w, a, outcome))
    BY <2>1, <2>2, <2>3, FinishedCarries
  <2>6. Carries(Db, Ended(w, a, outcome))
    BY <1>2, <2>1, <2>4, CarriesAgain
  <2>7. Carries(Db, Finished(w, a, outcome))
    BY <1>2, <2>1, <2>5, CarriesAgain
  <2> QED
    BY <2>6, <2>7 DEF w
<1>5. ASSUME NEW outcome \in Outcome, Finish(p, a, outcome)
      PROVE  Advances
  <2> DEFINE asleep == attempts[a].state \in {"suspended", "resume_pending"}
             s == IF asleep THEN Refenced(Db, a, p) ELSE Db
  <2>1. Commit(Finished(s, a, outcome)) /\ MayTransition(s, a, outcome)
    BY <1>5 DEF Finish
  <2>2. CASE asleep
    <3>1. s = Refenced(Db, a, p)
      BY <2>2
    <3> HIDE DEF s
    <3>2. Carries(Db, Finished(s, a, outcome))
      BY <1>4, <2>1, <3>1
    <3> QED
      BY <2>1, <3>2, CommittedStep
  <2>3. CASE ~asleep
    <3>1. s = Db
      BY <2>3
    <3> HIDE DEF s
    <3>2. MayWrite(Db, a, outcome)
      BY <2>1, <3>1, MayTransitionIsMayWrite
    <3>3. Carries(Db, Finished(Db, a, outcome))
      BY <1>2, <3>2, FinishedCarries
    <3> QED
      BY <2>1, <3>1, <3>3, CommittedStep
  <2> QED
    BY <2>2, <2>3
<1>6. ASSUME NEW outcome \in Outcome, ReconcileStopped(p, a, outcome)
      PROVE  Advances
  <2>1. /\ Commit(Finished(Refenced(Db, a, attempts[a].owner), a, outcome))
        /\ MayTransition(Refenced(Db, a, attempts[a].owner), a, outcome)
    BY <1>6 DEF ReconcileStopped
  <2>2. Carries(Db, Finished(Refenced(Db, a, attempts[a].owner), a, outcome))
    BY <1>2, <1>4, <2>1
  <2> QED
    BY <2>1, <2>2, CommittedStep
<1>7. CASE ForceRecovery(p, a)
  <2> DEFINE v == Ended(Refenced(Db, a, attempts[a].owner), a, "abandoned")
  <2>1. /\ Commit(Rescheduled(v, a, 0))
        /\ MayTransition(Refenced(Db, a, attempts[a].owner), a, "abandoned")
    BY <1>7 DEF ForceRecovery
  <2>2. "abandoned" \in Outcome
    BY DEF Outcome
  <2>3. Carries(Db, v)
    BY <1>2, <1>4, <2>1, <2>2
  <2> HIDE DEF v
  <2>4. Carries(Db, Rescheduled(v, a, 0))
    BY <1>2, <2>3, RescheduledCarries
  <2> QED
    BY <2>1, <2>4, CommittedStep
<1> QED
  BY <1>5, <1>6, <1>7

LEMMA ClaimNextAdvances ==
    ASSUME InOrder, NEW p \in Participant, NEW i \in EntryId, ClaimNext(p, i)
    PROVE  Advances
<1> DEFINE r == TypedName[entries[i].task]
           s == Acquired(Db, r, p, policy.lease)
<1>1. PICK a \in AttemptId : Commit(Reserved(p, i, a))
  BY DEF ClaimNext, NextIn
<1>2. Books(Db) /\ policy.lease \in Ttl /\ RowsAgree(Db)
  BY BooksHere
<1>3. r \in Name
  <2>1. entries[i] # NoRow
    BY DEF ClaimNext, Eligible
  <2>2. entries[i] \in EntryRow
    BY <1>2, <2>1, RowTypes, DbFields DEF RowsAgree
  <2> QED
    BY <2>2 DEF EntryRow
<1> HIDE DEF r
<1>4. Carries(Db, s)
  BY <1>2, <1>3, AcquiredCarries
<1> DEFINE d == Reserved(p, i, a)
           row == [entry |-> i, task |-> entries[i].task, owner |-> p, state |-> "reserved",
                   fence |-> s.claims[r].fence, left |-> policy.lease,
                   accepted |-> FALSE, cancel |-> FALSE, suspend |-> FALSE,
                   session |-> NoRow, pred |-> Latest(i), outcome |-> NoRow]
           place == [entry |-> i, attempt |-> a, held |-> TRUE]
<1>5. d = [s EXCEPT !.attempts[a] = row, !.reservations[entries[i].task] = place,
                    !.entries[i].state = "admitted"]
  BY Zenon DEF Reserved, r
<1> HIDE DEF s, row, place, d
<1>6. SameBooks(s, d)
  BY <1>4, <1>5 DEF SameBooks, Carries, Books, BookNames
<1>7. Commit(d)
  BY <1>1 DEF d
<1> QED
  BY <1>4, <1>6, <1>7, CarriedStep

\* Expiry, from contents that hold the same attempts and gates.
LEMMA ExpiryAdvances ==
    ASSUME InOrder, NEW w, RowsAgree(w), Carries(Db, w), w.attempts = Db.attempts,
           MayExpireAll(w), Commit(AllExpired(w))
    PROVE  Advances
<1> DEFINE d == AllExpired(w)
<1>1. Books(Db) /\ RowsAgree(Db) /\ policy.lease \in Ttl /\ Books(w)
  BY BooksHere DEF Carries
<1>2. Lapsed \in SUBSET AttemptId
  BY DEF Lapsed
<1>3. \A a \in Lapsed : IsAttempt(w, a) /\ w.attempts[a].state \in Executing
  BY DbFields DEF Lapsed, IsAttempt
<1>4. ASSUME NEW a \in Lapsed,
             ~w.attempts[a].accepted /\ w.attempts[a].cancel
             /\ Target("cancelled") = "terminal"
      PROVE  ~GateBlocked(w.gates, UpdateGateNames(w.attempts[a].task))
  <2> DEFINE p == w.attempts[a].owner
             v == Refenced(w, a, p)
  <2>1. a \in AttemptId /\ ActiveIn(w, a) /\ p \in Participant
    BY <1>2, <1>3, AttemptTypes DEF ActiveIn, Executing, RowsAgree
  <2>2. MayTransition(v, a, "cancelled")
    BY <1>4 DEF MayExpireAll, MayExpire
  <2>3. Attached(w, a)
    BY <2>1, ActiveRows
  <2> HIDE DEF p
  <2>4. v.gates = w.gates
    BY <1>1, <2>1, <2>3, RefencedCarries
  <2>5. Touches(w, v, a)
    BY <1>1, <2>1, FreshGrant
  <2> HIDE DEF v
  <2> QED
    BY <1>4, <2>2, <2>4, <2>5 DEF MayTransition, Touches
<1>5. Carries(w, d)
  <2>1. Carries(w, FoldSet(Expired, w, Lapsed))
    BY <1>1, <1>2, <1>3, <1>4, AllExpiredCarries
  <2> QED
    BY <2>1 DEF AllExpired
<1> HIDE DEF d
<1>6. Carries(Db, d)
  BY <1>1, <1>5, CarriesAgain
<1> QED
  BY <1>6, CommittedStep DEF d

LEMMA ExpireAdvances ==
    ASSUME InOrder, ExpireAttempts
    PROVE  Advances
<1>1. Books(Db) /\ RowsAgree(Db)
  BY BooksHere
<1>2. SameBooks(Db, Db)
  BY <1>1 DEF SameBooks, Books
<1>3. Carries(Db, Db)
  BY <1>1, <1>2, SameBooksCarry
<1> QED
  BY <1>1, <1>3, ExpiryAdvances DEF ExpireAttempts

LEMMA SweepAdvances ==
    ASSUME InOrder, QueueSweep
    PROVE  Advances
<1> DEFINE C == [n \in Name |-> IF Live(Db.claims[n]) THEN Db.claims[n] ELSE NoClaim]
           w == Swept
<1>1. Books(Db)
  BY BooksHere
<1>2. RowsAgree(w) /\ w.attempts = Db.attempts
  BY SweptRows DEF InOrder
<1>3. w = [Db EXCEPT !.claims = C]
  BY DbFields DEF Swept
<1>4. /\ C \in [Name -> Claim \cup {NoClaim}]
      /\ \A n \in Name : C[n] # NoClaim => C[n].fence = Db.fences[n]
  BY <1>1 DEF Books, Accounts
<1> HIDE DEF C, w
<1>5. /\ BookNames \subseteq DOMAIN w /\ w.fences = Db.fences /\ w.claims = C
      /\ w.journal = Db.journal /\ w.work = Db.work /\ w.written = Db.written
      /\ w.gates = Db.gates
  BY <1>1, <1>3 DEF Books, BookNames
<1>6. Accounts(w)
  BY <1>1, <1>4, <1>5 DEF Books, Accounts
<1>7. Books(w)
  BY <1>1, <1>4, <1>5, <1>6 DEF Books
<1>8. \A e \in Entity : Db.written[e] <= w.written[e]
  BY <1>1, <1>5 DEF Books
<1>9. Carries(Db, w)
  BY <1>5, <1>7, <1>8 DEF Carries
<1> QED
  BY <1>2, <1>9, ExpiryAdvances DEF QueueSweep, w

\* Requests that touch neither a fence, nor the journal, nor a lifecycle field.
LEMMA QuietCommands ==
    ASSUME InOrder, QueueInv', NEW p,
           \/ Configure(p)
           \/ \E e \in Entity, retry_safe \in BOOLEAN : Enroll(p, e, retry_safe)
           \/ \E i \in EntryId : Withdraw(p, i)
           \/ \E a \in AttemptId :
                 \/ Heartbeat(p, a) \/ RequestCancellation(p, a) \/ RequestSuspension(p, a)
                 \/ RequestResume(p, a) \/ Retry(p, a)
                 \/ \E session \in Session : Started(p, a, session)
           \/ QuestionRequest(p)
    PROVE  Advances
<1>1. ASSUME UNCHANGED <<fences, journal, written, archived, work>>
      PROVE  Advances
  BY <1>1, QuietQueueStep
<1>2. ASSUME NEW d, Commit(d), d.fences = fences, d.journal = journal,
             d.written = written, d.work = work
      PROVE  Advances
  BY <1>1, <1>2 DEF Commit
<1>3. CASE Configure(p)
  BY <1>1, <1>3 DEF Configure, vars
<1>4. ASSUME NEW e \in Entity, NEW retry_safe, Enroll(p, e, retry_safe)
      PROVE  Advances
  BY <1>1, <1>4 DEF Enroll, vars
<1>5. ASSUME NEW i \in EntryId, Withdraw(p, i)
      PROVE  Advances
  <2> DEFINE d == [Db EXCEPT !.entries[i].state = "withdrawn",
                             !.reservations[entries[i].task] = NoRow]
  <2>1. Commit(d)
    BY <1>5, Zenon DEF Withdraw
  <2>2. d.fences = fences /\ d.journal = journal /\ d.written = written /\ d.work = work
    BY DEF Db
  <2> HIDE DEF d
  <2> QED
    BY <1>2, <2>1, <2>2
<1>6. ASSUME NEW a \in AttemptId, Heartbeat(p, a)
      PROVE  Advances
  <2> DEFINE d == [Db EXCEPT !.claims[ResourceOf(Db, a)] = Renewed(@, policy.lease),
                             !.attempts[a].left = policy.lease]
  <2>1. Commit(d)
    BY <1>6, Zenon DEF Heartbeat
  <2>2. d.fences = fences /\ d.journal = journal /\ d.written = written /\ d.work = work
    BY DEF Db
  <2> HIDE DEF d
  <2> QED
    BY <1>2, <2>1, <2>2
<1>7. ASSUME NEW a \in AttemptId, RequestCancellation(p, a)
      PROVE  Advances
  <2> DEFINE d == [Superseded(Db, a) EXCEPT !.attempts[a].cancel = TRUE]
  <2>1. Commit(d)
    BY <1>7, Zenon DEF RequestCancellation
  <2>2. d.fences = fences /\ d.journal = journal /\ d.written = written /\ d.work = work
    BY DEF Db, Superseded
  <2> HIDE DEF d
  <2> QED
    BY <1>2, <2>1, <2>2
<1>8. ASSUME NEW a \in AttemptId, NEW u, Commit([Db EXCEPT !.attempts[a] = u])
      PROVE  Advances
  <2> DEFINE d == [Db EXCEPT !.attempts[a] = u]
  <2>1. d.fences = fences /\ d.journal = journal /\ d.written = written /\ d.work = work
    BY DEF Db
  <2>2. Commit(d)
    BY <1>8
  <2> HIDE DEF d
  <2> QED
    BY <1>2, <2>1, <2>2
<1>9. ASSUME NEW a \in AttemptId,
             \/ RequestSuspension(p, a) \/ RequestResume(p, a)
             \/ \E session \in Session : Started(p, a, session)
      PROVE  Advances
  <2>1. CASE RequestSuspension(p, a)
    <3>1. Commit(SetAttempt(Db, a, ToSuspendRow(Db.attempts[a])))
      BY <2>1, Zenon DEF RequestSuspension, SetAttempt, ToSuspendRow
    <3> QED
      BY <1>8, <3>1, Zenon DEF SetAttempt
  <2>2. CASE RequestResume(p, a)
    <3>1. Commit(SetAttempt(Db, a, ToResumeRow(Db.attempts[a])))
      BY <2>2, Zenon DEF RequestResume, SetAttempt, ToResumeRow
    <3> QED
      BY <1>8, <3>1, Zenon DEF SetAttempt
  <2>3. ASSUME NEW session \in Session, Started(p, a, session)
        PROVE  Advances
    <3>1. Commit(SetAttempt(Db, a, StartedRow(Db.attempts[a], session)))
      BY <2>3, Zenon DEF Started, SetAttempt, StartedRow
    <3> QED
      BY <1>8, <3>1, Zenon DEF SetAttempt
  <2> QED
    BY <1>9, <2>1, <2>2, <2>3
<1>10. ASSUME NEW a \in AttemptId, Retry(p, a)
       PROVE  Advances
  <2> DEFINE d == Rescheduled(Db, a, 0)
  <2>1. Commit(d)
    BY <1>10 DEF Retry
  <2>2. d.fences = fences /\ d.journal = journal /\ d.written = written /\ d.work = work
    BY DEF Db, Rescheduled
  <2> HIDE DEF d
  <2> QED
    BY <1>2, <2>1, <2>2
<1>11. ASSUME NEW q, NEW row, Commit([Db EXCEPT !.questions[q] = row])
       PROVE  Advances
  <2> DEFINE d == [Db EXCEPT !.questions[q] = row]
  <2>1. d.fences = fences /\ d.journal = journal /\ d.written = written /\ d.work = work
    BY DEF Db
  <2>2. Commit(d)
    BY <1>11
  <2> HIDE DEF d
  <2> QED
    BY <1>2, <2>1, <2>2
<1>12. ASSUME NEW q \in Question, NEW a \in AttemptId, Ask(p, a, q)
       PROVE  Advances
  BY <1>11, <1>12, Zenon DEF Ask
<1>13. ASSUME NEW q \in Question, NEW state, CloseQuestion(q, state)
       PROVE  Advances
  <2> DEFINE d == [Db EXCEPT !.questions[q] = [@ EXCEPT !.state = state,
                                                        !.valid = (state = "answered")]]
  <2>1. Commit(d)
    BY <1>13, Zenon DEF CloseQuestion
  <2>2. d.fences = fences /\ d.journal = journal /\ d.written = written /\ d.work = work
    BY DEF Db
  <2> HIDE DEF d
  <2> QED
    BY <1>2, <2>1, <2>2
<1>14. CASE QuestionRequest(p)
  BY <1>12, <1>13, <1>14, Zenon DEF QuestionRequest
<1> QED
  BY <1>3, <1>4, <1>5, <1>6, <1>7, <1>9, <1>10, <1>14

\* A task request beside the queue, under the current fence of the task.
LEMMA TaskRequestAdvances ==
    ASSUME InOrder, QueueInv', NEW p, NEW e \in Entity, NEW f \in Nat,
           (\E patch \in Patch : TaskWrite(p, e, f, patch)) \/ TaskArchive(e, f)
    PROVE  Advances
<1>1. /\ TypeOK /\ Books(Db)
      /\ \A n \in Name : claims'[n] # NoClaim => claims'[n].fence = fences'[n]
  BY TablesType, BooksHere DEF InOrder, QueueInv, RowsAgree, ClaimsFit, Db
<1>2. /\ Created(e) /\ FenceHolds(e, f) /\ UNCHANGED <<fences, journal>>
      /\ written' = [written EXCEPT ![e] = f]
  BY DEF TaskWrite, TaskArchive, UpdateEntity, ArchiveEntity, MayUpdate, MayArchive
<1>3. f = fences[TypedName[e]]
  BY <1>2, CanonicalEntity DEF FenceHolds
<1>4. ASSUME NEW x \in Entity
      PROVE  written[x] <= written'[x] /\ written'[x] <= fences[TypedName[x]]
  <2>1. /\ written[x] \in Nat /\ fences[TypedName[x]] \in Nat
        /\ written[x] <= fences[TypedName[x]]
    BY <1>1, DbFields DEF TypeOK, Books, Accounts
  <2>2. written'[x] = IF x = e THEN f ELSE written[x]
    BY <1>1, <1>2 DEF TypeOK
  <2> QED
    BY <1>3, <2>1, <2>2
<1>5. Accounts(Db)'
  BY <1>1, <1>2, <1>4, DbFields DEF Books, Accounts, Db
<1>6. ASSUME NEW x \in Entity, NEW g \in Gate, Finishes(x)
      PROVE  ~Unresolved(gates'[g], x)
  <2>1. ASSUME NEW patch \in Patch, UpdateEntity(e, f, patch)
        PROVE  ~Unresolved(gates'[g], x)
    <3>1. x = e /\ patch = "terminal"
      BY <1>1, <1>6, <2>1 DEF UpdateEntity, Finishes, Patch, TypeOK
    <3>2. /\ ~GateBlocked(gates, UpdateGateNames(e))
          /\ gates' = GatesSettled(gates, UpdateGateNames(e))
      BY <2>1, <3>1 DEF UpdateEntity, MayUpdate
    <3>3. e \in UpdateGateNames(e)
      BY DEF UpdateGateNames
    <3> QED
      BY <1>1, <3>1, <3>2, <3>3, PassedGatesAreDecided
  <2>2. CASE ArchiveEntity(e, f)
    <3>1. x = e
      BY <1>6, <2>2 DEF ArchiveEntity, Finishes
    <3>2. ~GateBlocked(gates, {e}) /\ gates' = GatesSettled(gates, {e})
      BY <2>2 DEF ArchiveEntity, MayArchive
    <3> QED
      BY <1>1, <3>1, <3>2, PassedGatesAreDecided
  <2> QED
    BY <2>1, <2>2 DEF TaskWrite, TaskArchive
<1> QED
  BY <1>4, <1>5, <1>6 DEF Advances

LEMMA UnmanagedAdvances ==
    ASSUME InOrder, QueueInv', NEW p \in running, Unmanaged(p)
    PROVE  Advances
<1>1. TypeOK /\ Books(Db) /\ p \in Participant /\ 1..MaxGrant \subseteq Nat
  BY TablesType, BooksHere DEF InOrder, QueueInv
<1>2. ASSUME NEW n \in Name, NEW mode \in Mode, NEW ttl \in Ttl, AcquireNew(p, n, mode, ttl)
      PROVE  Advances
  <2> DEFINE r == Canonical(n)
  <2>1. /\ r \in Name /\ fences' = [fences EXCEPT ![r] = fences[r] + 1]
        /\ journal' = journal
              \cup {[resource |-> r, fence |-> fences[r] + 1, holder |-> p]}
        /\ UNCHANGED <<work, written, gates, archived>>
    BY <1>1, <1>2, CanonicalType DEF AcquireNew, table
  <2>2. \A m \in Name : claims'[m] # NoClaim => claims'[m].fence = fences'[m]
    BY DEF QueueInv, RowsAgree, ClaimsFit, Db
  <2> DEFINE d == Db'
  <2>3. /\ d.fences = fences' /\ d.claims = claims' /\ d.journal = journal'
        /\ d.written = written'
    BY DEF Db
  <2> HIDE DEF r, d
  <2>4. d.fences = [Db.fences EXCEPT ![r] = Db.fences[r] + 1]
    BY <2>1, <2>3, DbFields
  <2>5. d.journal = Db.journal
              \cup {[resource |-> r, fence |-> Db.fences[r] + 1, holder |-> p]}
    BY <2>1, <2>3, DbFields
  <2>6. d.written = Db.written /\ \A m \in Name : d.claims[m] # NoClaim => d.claims[m].fence = d.fences[m]
    BY <2>1, <2>2, <2>3, DbFields
  <2>7. Accounts(d)
    <3>1. GrantMade(Db, d, r, p)
      BY <2>4, <2>5, <2>6, Zenon DEF GrantMade
    <3> QED
      BY <1>1, <2>1, <3>1, GrantedAccounts
  <2>8. Accounts(Db)'
    BY <2>7 DEF d, Accounts
  <2>9. \A e \in Entity : written[e] \in Nat
    BY <1>1 DEF TypeOK
  <2> QED
    BY <2>1, <2>8, <2>9 DEF Advances, Finishes
<1>3. CASE UnmanagedClaim(p)
  <2>1. ASSUME NEW n \in Name,
               \/ \E ttl \in Ttl : AcquireHeld(p, n, ttl)
               \/ \E ttl \in Ttl : Renew(p, n, fences[Canonical(n)], ttl)
               \/ Release(p, n, fences[Canonical(n)])
        PROVE  Advances
    <3>1. UNCHANGED <<fences, journal, written, archived, work>>
      BY <2>1 DEF AcquireHeld, Renew, Release, table
    <3> QED
      BY <3>1, QuietQueueStep
  <2> QED
    BY <1>2, <1>3, <2>1 DEF UnmanagedClaim, Acquire
<1>4. ASSUME NEW e \in Entity, NEW state \in WorkState, TaskCreate(e, state)
      PROVE  Advances
  <2>1. /\ work[e] = "absent" /\ work' = [work EXCEPT ![e] = state]
        /\ UNCHANGED <<fences, journal, written, archived>>
    BY <1>4 DEF TaskCreate, CreateEntity, Created
  <2>2. \A x \in Entity : work'[x] = "terminal" => work[x] \in {"absent", "terminal"}
    BY <1>1, <2>1 DEF TypeOK
  <2> QED
    BY <2>1, <2>2, QuietQueueStep
<1>5. CASE QueueGates
  <2>1. UNCHANGED <<fences, journal, written, archived, work>>
    BY <1>5 DEF QueueGates, GateRequest, CreateGate, SettleGate, ListGates
  <2> QED
    BY <2>1, QuietQueueStep
<1>6. CASE Stop(p)
  <2>1. UNCHANGED <<fences, journal, written, archived, work>>
    BY <1>6 DEF Stop, Crash, table
  <2> QED
    BY <2>1, QuietQueueStep
<1> QED
  BY <1>1, <1>3, <1>4, <1>5, <1>6, TaskRequestAdvances DEF Unmanaged

LEMMA CommandAdvances ==
    ASSUME InOrder, QueueInv', NEW p \in Participant, QueueCommand(p)
    PROVE  Advances
<1>1. CASE Configure(p)
  BY <1>1, QuietCommands
<1>2. ASSUME NEW e \in Entity, NEW retry_safe \in BOOLEAN, Enroll(p, e, retry_safe)
      PROVE  Advances
  BY <1>2, QuietCommands
<1>3. ASSUME NEW i \in EntryId, Withdraw(p, i)
      PROVE  Advances
  BY <1>3, QuietCommands
<1>4. ASSUME NEW i \in EntryId, ClaimNext(p, i)
      PROVE  Advances
  BY <1>4, ClaimNextAdvances
<1>5. ASSUME NEW a \in AttemptId, IsAttempt(Db, a), AttemptCommand(p, a)
      PROVE  Advances
  <2>1. CASE Accept(p, a)
    BY <1>5, <2>1, AcceptAdvances
  <2>2. CASE \/ ConfirmSuspension(p, a) \/ ReconcileUnknown(p, a)
             \/ \E session \in Session : ReconcileSuspended(p, a, session)
    BY <1>5, <2>2, GivesUpAdvances
  <2>3. CASE \/ ClaimResume(p, a)
             \/ \E session \in Session :
                   ReplaceSession(p, a, session) \/ ReconcileRunning(p, a, session)
             \/ \E q \in Participant : Rebind(p, a, q)
    BY <1>5, <2>3, GoesOnAdvances
  <2>4. CASE \/ \E outcome \in Outcome :
                   Finish(p, a, outcome) \/ ReconcileStopped(p, a, outcome)
             \/ ForceRecovery(p, a)
    BY <1>5, <2>4, EndsAdvance
  <2>5. CASE \/ Heartbeat(p, a) \/ RequestCancellation(p, a) \/ RequestSuspension(p, a)
             \/ RequestResume(p, a) \/ Retry(p, a)
             \/ \E session \in Session : Started(p, a, session)
    BY <2>5, QuietCommands
  <2> QED
    BY <1>5, <2>1, <2>2, <2>3, <2>4, <2>5, Zenon DEF AttemptCommand
<1> QED
  BY <1>1, <1>2, <1>3, <1>4, <1>5, Zenon DEF QueueCommand

LEMMA InOrderStarts == QueueInit => InOrder
<1> SUFFICES ASSUME QueueInit
             PROVE  InOrder
  OBVIOUS
<1>1. QueueInv
  BY QueueStarts
<1>2. /\ \A n \in Name : Db.fences[n] = 0 /\ Db.claims[n] = NoClaim
      /\ Db.journal = {} /\ \A e \in Entity : Db.written[e] = 0
  BY DbFields DEF QueueInit, Init
<1> QED
  BY <1>1, <1>2 DEF InOrder, Accounts

LEMMA OrderKept ==
    ASSUME InOrder, [QueueNext]_mqVars
    PROVE  InOrder' /\ Advances
<1>1. QueueInv'
  BY QueueSteps DEF InOrder
<1>2. running \subseteq Participant
  BY DEF InOrder, QueueInv
<1>3. Advances
  <2>1. ASSUME NEW p \in running, QueueCommand(p) \/ QuestionRequest(p) \/ Unmanaged(p)
        PROVE  Advances
    BY <1>1, <1>2, <2>1, CommandAdvances, QuietCommands, UnmanagedAdvances
  <2>2. CASE ExpireAttempts
    BY <2>2, ExpireAdvances
  <2>3. CASE QueueSweep
    BY <2>3, SweepAdvances
  <2>4. CASE QueueTick
    BY <1>1, <2>4, QuietQueueStep DEF QueueTick, Tick
  <2>5. CASE UNCHANGED mqVars
    BY <1>1, <2>5, QuietQueueStep DEF mqVars, vars
  <2> QED
    BY <2>1, <2>2, <2>3, <2>4, <2>5 DEF QueueNext
<1> QED
  BY <1>1, <1>3 DEF InOrder, Advances

\* Beside and beneath the queue, the claim table stays in order.
THEOREM QueueKeepsOrder == QueueSpec => []InOrder
<1>1. InOrder /\ [QueueNext]_mqVars => InOrder'
  BY OrderKept
<1> QED
  BY <1>1, InOrderStarts, PTL DEF QueueSpec

\* A claim row always carries the current fence of its resource, with attempts
\* reserved, refenced, revoked, expired and swept as well as claims made by hand
\* (reserveInTransaction, refence, revoke, acquireInTransaction).
THEOREM QueueClaimsHoldTheirFence == QueueSpec => []ClaimHoldsCurrentFence
<1>1. InOrder => ClaimHoldsCurrentFence
  BY DbFields DEF InOrder, Accounts, ClaimHoldsCurrentFence
<1> QED
  BY <1>1, QueueKeepsOrder, PTL

\* No fence is ever granted to two sessions, whichever of claim-next, resume,
\* rebind, recovery, expiry and an acquire by hand asks for it: although a fence
\* that is revoked is skipped and not granted to anybody, the next grant is above it.
THEOREM QueueFencesIdentifyTenures == QueueSpec => []OneHolderPerFence
<1>1. InOrder => OneHolderPerFence
  BY DbFields DEF InOrder, Accounts, OneHolderPerFence
<1> QED
  BY <1>1, QueueKeepsOrder, PTL

\* The lifecycle writes of attempts and the writes by hand of one task follow its
\* fences together: once one is made under a later grant, none is made under an
\* earlier one, also by an attempt that expired, was rebound or recovered
\* (transitionWork, updateInTransaction, archive).
THEOREM QueueWritesNeverGoBack == QueueSpec => WritesFollowFences
<1>1. InOrder /\ [QueueNext]_mqVars => [\A e \in Entity : written'[e] >= written[e]]_vars
  <2> SUFFICES ASSUME InOrder, [QueueNext]_mqVars
               PROVE  \A e \in Entity : written'[e] >= written[e]
    OBVIOUS
  <2>1. Advances /\ InOrder'
    BY OrderKept
  <2>2. \A e \in Entity : written[e] \in Nat /\ written'[e] \in Nat
    BY <2>1 DEF InOrder, QueueInv, RowsAgree, Contents, Db
  <2> QED
    BY <2>1, <2>2 DEF Advances
<1> QED
  BY <1>1, QueueKeepsOrder, PTL DEF QueueSpec, WritesFollowFences

\* The result of an attempt, its cancellation by expiry, a forced recovery, a
\* write by hand and an archive pass the same gate check: none of them finishes an
\* existing task and leaves a gate on its id undecided (finishInTransaction,
\* expireInTransaction, checkPendingGates).
THEOREM QueueFinishesPastNoGate == QueueSpec => FinishedWorkHasNoOpenGate
<1>1. InOrder /\ [QueueNext]_mqVars =>
        [\A e \in Entity, g \in Gate : Finishes(e) => ~Unresolved(gates'[g], e)]_vars
  BY OrderKept DEF Advances
<1> QED
  BY <1>1, QueueKeepsOrder, PTL DEF QueueSpec, FinishedWorkHasNoOpenGate
=============================================================================
