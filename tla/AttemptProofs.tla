---------------------------- MODULE AttemptProofs ----------------------------
(***************************************************************************)
(* Facts about the rows of the managed queue and the helpers of module     *)
(* AttemptRows, for every number of tasks, entries, attempts and sessions. *)
(* They are about one database content at a time, because a transaction is *)
(* a composition of helpers; module QueueProofs uses them for the steps of *)
(* a queue.                                                                *)
(*                                                                         *)
(* The argument: a command on an unfinished attempt touches the rows of    *)
(* that attempt, of its entry, of its task and of its task's claim, and no *)
(* others.  RowsAgree says how these rows belong together, RowsMoved what  *)
(* a command may do to them, and MovedRowsAgree that this is enough.  What *)
(* expires all lapsed attempts of a project is a fold of one such command. *)
(*                                                                         *)
(* The last part is about what lies beneath the queue, the claims, fences, *)
(* grants and writes (Books): each helper on its own leaves them in order  *)
(* and passes the gates of what it finishes (Carries), and so does every   *)
(* composition of them, the fold included.                                 *)
(***************************************************************************)
EXTENDS AttemptRows, FiniteSetTheorems, WellFoundedInduction, TLAPS

GrantRow == [resource: Name, fence: Nat \ {0}, holder: Participant]

\* What the tables of a project may hold.
Contents ==
    [fences: [Name -> Nat], claims: [Name -> Claim \cup {NoClaim}],
     journal: SUBSET GrantRow, work: [Entity -> WorkState],
     written: [Entity -> Nat], gates: [Gate -> GateRow \cup {NoGate}],
     entries: [EntryId -> EntryRow \cup {NoRow}],
     attempts: [AttemptId -> AttemptRow \cup {NoRow}],
     reservations: [Entity -> ReservationRow \cup {NoRow}],
     questions: [Question -> QuestionRow \cup {NoRow}]]

ActiveIn(s, a) == IsAttempt(s, a) /\ s.attempts[a].state # "terminal"
UnfinishedIn(s, i) == s.entries[i] # NoRow /\ s.entries[i].state \in Unfinished

Holding == Executing \cup {"uncertain"}

\* An attempt, the entry it executes and the attempt it follows.
AttemptsFit(s) ==
    \A a \in AttemptId : IsAttempt(s, a) =>
        LET t == s.attempts[a] IN
        /\ s.entries[t.entry] # NoRow /\ s.entries[t.entry].task = t.task
        /\ t.state = "terminal" => t.left = 0
        /\ t.state # "terminal" => s.entries[t.entry].state = "admitted"
        /\ t.pred # NoRow => /\ IsAttempt(s, t.pred)
                             /\ s.attempts[t.pred].entry = t.entry
                             /\ s.attempts[t.pred].fence < t.fence

\* A task is enrolled once and executed once at a time.
OneAtATime(s) ==
    /\ \A i, j \in EntryId :
          UnfinishedIn(s, i) /\ UnfinishedIn(s, j)
          /\ s.entries[i].task = s.entries[j].task => i = j
    /\ \A a, b \in AttemptId :
          ActiveIn(s, a) /\ ActiveIn(s, b)
          /\ s.attempts[a].task = s.attempts[b].task => a = b
    /\ \A i \in EntryId :
          s.entries[i] # NoRow /\ s.entries[i].state = "admitted"
            => \E a \in AttemptId : ActiveIn(s, a) /\ s.attempts[a].entry = i

\* A capacity row is that of the unfinished entry, its slot that of the attempt.
PlacesFit(s) ==
    /\ \A e \in Entity : s.reservations[e] # NoRow =>
          LET i == s.reservations[e].entry IN
          /\ UnfinishedIn(s, i) /\ s.entries[i].task = e
          /\ s.reservations[e].held =>
                \E a \in AttemptId : /\ ActiveIn(s, a) /\ s.attempts[a].task = e
                                     /\ s.attempts[a].state \in Holding
    /\ \A a \in AttemptId : ActiveIn(s, a) =>
          LET row == s.reservations[s.attempts[a].task] IN
          row # NoRow /\ (row.held <=> s.attempts[a].state \in Holding)
    /\ \A i \in EntryId, a \in AttemptId :
          UnfinishedIn(s, i) /\ IsAttempt(s, a) /\ s.attempts[a].entry = i
          /\ s.attempts[a].accepted
            => s.reservations[s.entries[i].task] # NoRow

\* The grant that attempt row t has while its own lease is not over.
GrantOf(t) == [holder |-> t.owner, mode |-> "exclusive", fence |-> t.fence, left |-> t.left]

\* Between a sweep of the claims and the expiry of the attempts, a lapsed attempt
\* may lack its claim.
ClaimsFit(s) ==
    /\ \A n \in Name : s.claims[n] # NoClaim => s.claims[n].fence = s.fences[n]
    /\ \A a \in AttemptId : IsAttempt(s, a) =>
          LET t == s.attempts[a]
              c == s.claims[ResourceOf(s, a)]
              f == s.fences[ResourceOf(s, a)]
          IN IF t.state \in Executing
             THEN t.fence = f /\ (c = GrantOf(t) \/ (c = NoClaim /\ t.left = 0))
             ELSE t.fence < f /\ (t.state # "terminal" => ~Live(c))

\* The attempts of an entry are told apart, and put in order, by their fences.
FencesFit(s) ==
    \A a, b \in AttemptId :
        IsAttempt(s, a) /\ IsAttempt(s, b) /\ a # b
        /\ s.attempts[a].entry = s.attempts[b].entry
            => /\ s.attempts[a].fence # s.attempts[b].fence
               /\ s.attempts[a].fence > s.attempts[b].fence
                    => s.attempts[b].state = "terminal" /\ s.attempts[a].pred # NoRow

QuestionsFit(s) ==
    \A q \in Question : s.questions[q] # NoRow =>
        LET row == s.questions[q]
            t == s.attempts[row.attempt]
        IN
        /\ IsAttempt(s, row.attempt) /\ t.accepted /\ row.fence <= t.fence
        /\ row.state = "open" =>
              /\ row.valid /\ t.state # "terminal" /\ ~t.cancel
              /\ row.fence = t.fence

RowsAreFew(s) ==
    /\ IsFiniteSet({a \in AttemptId : IsAttempt(s, a)})
    /\ IsFiniteSet({e \in Entity : s.reservations[e] # NoRow})

\* Only a task that exists is enrolled.
TasksExist(s) ==
    \A i \in EntryId : s.entries[i] # NoRow => s.work[s.entries[i].task] # "absent"

RowsAgree(s) ==
    /\ s \in Contents /\ TasksExist(s)
    /\ AttemptsFit(s) /\ OneAtATime(s) /\ PlacesFit(s) /\ ClaimsFit(s)
    /\ FencesFit(s) /\ QuestionsFit(s) /\ RowsAreFew(s)

\* Nobody executes without a claim row.
ExecutionsHaveClaims(s) ==
    \A a \in AttemptId :
        IsAttempt(s, a) /\ s.attempts[a].state \in Executing
            => s.claims[ResourceOf(s, a)] # NoClaim

\* What a command may do to the questions: take the standing of some.
QuestionsMoved(s, d) ==
    \A q \in Question :
        IF s.questions[q] = NoRow THEN d.questions[q] = NoRow
        ELSE LET old == s.questions[q]
                 new == d.questions[q]
             IN
             /\ new # NoRow /\ new.attempt = old.attempt /\ new.fence = old.fence
             /\ new.valid => old.valid
             /\ new.state = old.state \/ (old.state = "open" /\ new.state = "superseded")
             /\ new.state = "open" => new.valid

NoneOpen(d, a) ==
    \A q \in Question :
        d.questions[q] # NoRow /\ d.questions[q].attempt = a
            => d.questions[q].state # "open"

\* Only rows of attempt a differ.
Touches(s, d, a) ==
    LET t == s.attempts[a]
        u == d.attempts[a]
    IN
    /\ d \in Contents
    /\ \A b \in AttemptId \ {a} : d.attempts[b] = s.attempts[b]
    /\ \A i \in EntryId \ {t.entry} : d.entries[i] = s.entries[i]
    /\ \A e \in Entity \ {t.task} :
          d.reservations[e] = s.reservations[e] /\ d.work[e] = s.work[e]
    /\ s.work[t.task] # "absent" => d.work[t.task] # "absent"
    /\ \A n \in Name \ {TypedName[t.task]} :
          d.claims[n] = s.claims[n] /\ d.fences[n] = s.fences[n]
    /\ u # NoRow /\ u.entry = t.entry /\ u.task = t.task /\ u.pred = t.pred
    /\ t.accepted => u.accepted
    /\ t.cancel => u.cancel
    /\ u.state = "reserved" => t.state = "reserved"
    /\ d.entries[t.entry] # NoRow /\ d.entries[t.entry].task = t.task
    /\ QuestionsMoved(s, d)

\* The claim of the task and its fence, against the attempt.
ClaimMoved(s, d, a) ==
    LET r == ResourceOf(s, a)
        t == s.attempts[a]
        u == d.attempts[a]
        c == d.claims[r]
    IN
    /\ d.fences[r] >= s.fences[r]
    /\ u.fence = t.fence \/ u.fence > s.fences[r]
    /\ c # NoClaim => c.fence = d.fences[r]
    /\ IF u.state \in Executing
       THEN u.fence = d.fences[r] /\ c = GrantOf(u)
       ELSE u.fence < d.fences[r] /\ (u.state # "terminal" => ~Live(c))
    \* Authority that was lost comes back only under a later fence.
    /\ u.state \in Executing /\ u.left > 0
          => \/ t.state \in Executing /\ t.left > 0
             \/ u.fence > t.fence

\* The attempt, its entry and its place.
PlaceMoved(s, d, a) ==
    LET t == s.attempts[a]
        u == d.attempts[a]
        entry == d.entries[t.entry]
        place == d.reservations[t.task]
    IN
    IF u.state # "terminal"
    THEN /\ entry.state = "admitted"
         /\ place # NoRow /\ place.entry = t.entry
         /\ place.held <=> u.state \in Holding
    ELSE /\ u.left = 0
         /\ entry.state # "admitted"
         /\ place # NoRow => entry.state = "queued" /\ place.entry = t.entry /\ ~place.held
         /\ entry.state = "queued" /\ place = NoRow =>
                \A b \in AttemptsOf(d, t.entry) : ~d.attempts[b].accepted

\* Questions stand only under an execution that does, and the task is over only
\* when the attempt is.
EndsTogether(s, d, a) ==
    LET t == s.attempts[a]
        u == d.attempts[a]
    IN
    /\ u.fence # t.fence \/ u.state = "terminal" \/ (u.cancel /\ ~t.cancel) => NoneOpen(d, a)
    /\ s.work[t.task] # "terminal" /\ d.work[t.task] = "terminal" => u.state = "terminal"

RowsMoved(s, d, a) ==
    Touches(s, d, a) /\ ClaimMoved(s, d, a) /\ PlaceMoved(s, d, a) /\ EndsTogether(s, d, a)

-----------------------------------------------------------------------------
(* Folds.                                                                  *)

\* A set of numbers with 0 and every successor is the set of all numbers.
LEMMA NatSets ==
  ASSUME NEW T \in SUBSET Nat, 0 \in T, \A n \in T : n + 1 \in T
  PROVE  T = Nat
<1>1. SUFFICES ASSUME T # Nat PROVE FALSE
  OBVIOUS
<1> DEFINE U == Nat \ T
<1>2. U # {} /\ U \subseteq Nat
  BY <1>1
<1>3. PICK m \in U : \A y \in U : ~(<<y, m>> \in OpToRel(<, Nat))
  BY <1>2, NatLessThanWellFounded, WFMin, Zenon
<1>4. m # 0 /\ m - 1 \in Nat /\ m - 1 < m
  OBVIOUS
<1>5. <<m - 1, m>> \in OpToRel(<, Nat)
  BY <1>4, m \in Nat, Zenon DEF OpToRel
<1>6. m - 1 \in T
  BY <1>3, <1>4, <1>5, Zenon
<1> QED BY <1>6, <1>4

\* What the fold takes next from a set of attempts, and the function it computes.
Pick(s) == CHOOSE x \in s : TRUE
IsFold(g, base, D) ==
    g = [s \in D |-> IF s = {} THEN base ELSE Expired(Pick(s), g[s \ {Pick(s)}])]

\* The fold of the model is such a function, if there is one.
LEMMA FoldDef ==
  ASSUME NEW S, NEW base
  PROVE  FoldSet(Expired, base, S) = (CHOOSE g : IsFold(g, base, SUBSET S))[S]
  BY DEF FoldSet, MapThenFoldSet, IsFold, Pick

\* There is one over every finite set: by induction on the size of its subsets.
LEMMA FoldsExist ==
  ASSUME NEW S, IsFiniteSet(S), NEW base
  PROVE  \E g : IsFold(g, base, SUBSET S)
<1> DEFINE D(n) == {s \in SUBSET S : Cardinality(s) <= n}
           T == {n \in Nat : \E g : IsFold(g, base, D(n))}
<1>1. \A s \in SUBSET S : IsFiniteSet(s) /\ Cardinality(s) \in Nat
                          /\ Cardinality(s) <= Cardinality(S)
  BY FS_Subset, FS_CardinalityType
<1>2. 0 \in T
  <2>1. \A s \in D(0) : s = {}
    BY <1>1, FS_EmptySet
  <2> DEFINE g == [s \in D(0) |-> base]
  <2>2. IsFold(g, base, D(0))
    BY <2>1 DEF IsFold
  <2> QED BY <2>2
<1>3. ASSUME NEW n \in T PROVE n + 1 \in T
  <2>1. PICK g : IsFold(g, base, D(n))
    BY <1>3
  <2> DEFINE h == [s \in D(n + 1) |-> IF s = {} THEN base
                                      ELSE Expired(Pick(s), g[s \ {Pick(s)}])]
  <2>2. ASSUME NEW s \in D(n + 1), s # {}
        PROVE  s \ {Pick(s)} \in D(n)
    <3>1. Pick(s) \in s
      BY <2>2 DEF Pick
    <3>2. Cardinality(s \ {Pick(s)}) = Cardinality(s) - 1
      BY <3>1, <1>1, FS_RemoveElement
    <3> QED BY <3>2, <1>1
  <2>3. ASSUME NEW s \in D(n) PROVE s \in D(n + 1) /\ h[s] = g[s]
    <3>1. s \in D(n + 1)
      BY <1>1
    <3> QED BY <3>1, <2>1, Zenon DEF IsFold
  <2>4. h = [s \in D(n + 1) |-> IF s = {} THEN base
                                ELSE Expired(Pick(s), h[s \ {Pick(s)}])]
    <3>1. ASSUME NEW s \in D(n + 1)
          PROVE  h[s] = IF s = {} THEN base ELSE Expired(Pick(s), h[s \ {Pick(s)}])
      <4>1. CASE s = {}
        BY <4>1
      <4>2. CASE s # {}
        <5>1. h[s] = Expired(Pick(s), g[s \ {Pick(s)}])
          BY <4>2
        <5>2. h[s \ {Pick(s)}] = g[s \ {Pick(s)}]
          BY <2>2, <2>3, <4>2
        <5> QED BY <5>1, <5>2, <4>2
      <4> QED BY <4>1, <4>2
    <3> HIDE DEF D
    <3>2. h = [s \in D(n + 1) |-> h[s]]
      OBVIOUS
    <3> HIDE DEF h
    <3> QED BY <3>1, <3>2, Zenon
  <2>5. IsFold(h, base, D(n + 1))
    BY <2>4, Zenon DEF IsFold
  <2>6. n + 1 \in Nat
    OBVIOUS
  <2> HIDE DEF D, h
  <2> QED BY <2>5, <2>6, Zenon
<1>4. T = Nat
  <2> HIDE DEF T
  <2>1. T \in SUBSET Nat
    BY DEF T
  <2> QED BY <1>2, <1>3, <2>1, NatSets
<1>5. D(Cardinality(S)) = SUBSET S
  BY <1>1
<1>6. Cardinality(S) \in T
  BY <1>4, FS_CardinalityType
<1> QED BY <1>5, <1>6

\* What holds of the contents before the first expiry, and again after each one,
\* holds of the contents when all attempts in S are expired.
LEMMA ExpiryInduction ==
  ASSUME NEW S, IsFiniteSet(S), NEW base, NEW G,
         base \in G[{}],
         \A s \in SUBSET S : \A a \in S \ s : \A d \in G[s] :
            Expired(a, d) \in G[s \cup {a}]
  PROVE  FoldSet(Expired, base, S) \in G[S]
<1>1. PICK g : IsFold(g, base, SUBSET S) /\ FoldSet(Expired, base, S) = g[S]
  BY FoldsExist, FoldDef, Zenon
<1> DEFINE T == {n \in Nat : \A s \in SUBSET S : Cardinality(s) = n => g[s] \in G[s]}
<1>2. \A s \in SUBSET S : IsFiniteSet(s) /\ Cardinality(s) \in Nat
  BY FS_Subset, FS_CardinalityType
<1>3. 0 \in T
  <2>1. g[{}] = base
    <3>1. {} \in SUBSET S
      OBVIOUS
    <3> QED BY <1>1, <3>1, Zenon DEF IsFold
  <2>2. \A s \in SUBSET S : Cardinality(s) = 0 => s = {}
    BY <1>2, FS_EmptySet
  <2>3. g[{}] \in G[{}]
    BY <2>1
  <2> HIDE DEF T
  <2> QED BY <2>3, <2>2 DEF T
<1>4. ASSUME NEW n \in T PROVE n + 1 \in T
  <2>0. n \in Nat /\ n + 1 \in Nat /\ n + 1 # 0 /\ n + 1 - 1 = n
    OBVIOUS
  <2>9. \A s \in SUBSET S : Cardinality(s) = n => g[s] \in G[s]
    OBVIOUS
  <2> HIDE DEF T
  <2>1. ASSUME NEW s \in SUBSET S, Cardinality(s) = n + 1
        PROVE  g[s] \in G[s]
    <3> DEFINE x == Pick(s)
               r == s \ {x}
    <3>1. s # {}
      BY <2>1, <2>0, FS_EmptySet
    <3>2. x \in s
      BY <3>1 DEF Pick
    <3>3. Cardinality(r) = n
      <4>1. Cardinality(r) = Cardinality(s) - 1
        BY <3>2, <1>2, FS_RemoveElement
      <4> QED BY <4>1, <2>1, <2>0
    <3>4. g[r] \in G[r]
      BY <3>3, <2>9
    <3>5. g[s] = Expired(x, g[r])
      BY <1>1, <3>1, Zenon DEF IsFold
    <3>6. r \cup {x} = s /\ r \in SUBSET S /\ x \in S \ r
      BY <3>2
    <3> HIDE DEF x, r
    <3> QED BY <3>4, <3>5, <3>6, Zenon
  <2> QED BY <2>0, <2>1 DEF T
<1>5. T = Nat
  <2> HIDE DEF T
  <2>1. T \in SUBSET Nat
    BY DEF T
  <2> QED BY <1>3, <1>4, <2>1, NatSets
<1>6. Cardinality(S) \in T
  BY <1>5, FS_CardinalityType
<1> QED BY <1>1, <1>6
-----------------------------------------------------------------------------
(* Rows.                                                                   *)

USE PrincipalOfAssumption, MaxTtlAssumption, NoClaimAssumption, NameAssumption,
    IdAssumption, MaintainerAssumption, MappingAssumption, RetryAssumption,
    MaxGrantAssumption, NoRowAssumption

\* The rows of contents are rows.
LEMMA RowTypes ==
    ASSUME NEW s \in Contents
    PROVE  /\ \A n \in Name : s.fences[n] \in Nat /\ (s.claims[n] # NoClaim => s.claims[n] \in Claim)
           /\ \A i \in EntryId : s.entries[i] # NoRow => s.entries[i] \in EntryRow
           /\ \A a \in AttemptId : s.attempts[a] # NoRow => s.attempts[a] \in AttemptRow
           /\ \A e \in Entity : s.reservations[e] # NoRow => s.reservations[e] \in ReservationRow
           /\ \A q \in Question : s.questions[q] # NoRow => s.questions[q] \in QuestionRow
  BY DEF Contents

LEMMA AttemptTypes ==
    ASSUME NEW s \in Contents, NEW a \in AttemptId, IsAttempt(s, a)
    PROVE  LET t == s.attempts[a] IN
           /\ t \in AttemptRow
           /\ t.entry \in EntryId /\ t.task \in Entity /\ t.owner \in Participant
           /\ t.fence \in Nat /\ t.fence > 0 /\ t.left \in 0..MaxTtl
           /\ t.accepted \in BOOLEAN /\ t.cancel \in BOOLEAN
           /\ t.pred \in AttemptId \cup {NoRow}
           /\ ResourceOf(s, a) = TypedName[t.task] /\ ResourceOf(s, a) \in Name
<1>1. s.attempts[a] \in AttemptRow
  BY RowTypes DEF IsAttempt
<1> QED
  BY <1>1 DEF AttemptRow, ResourceOf

LEMMA RevokedRows ==
    ASSUME NEW s \in Contents, NEW a \in AttemptId, IsAttempt(s, a)
    PROVE  LET u == Revoked(s, a)
               r == ResourceOf(s, a)
               f == s.attempts[a].fence
           IN
           /\ u \in Contents
           /\ u.journal = s.journal /\ u.work = s.work /\ u.written = s.written
           /\ u.gates = s.gates /\ u.entries = s.entries /\ u.attempts = s.attempts
           /\ u.reservations = s.reservations /\ u.questions = s.questions
           /\ \A n \in Name \ {r} : u.claims[n] = s.claims[n] /\ u.fences[n] = s.fences[n]
           /\ u.fences[r] = IF s.fences[r] = f THEN f + 1 ELSE s.fences[r]
           /\ u.claims[r] = IF s.claims[r] # NoClaim /\ s.claims[r].fence = f THEN NoClaim
                            ELSE s.claims[r]
<1> DEFINE r == ResourceOf(s, a)
           f == s.attempts[a].fence
<1>1. r \in Name /\ f \in Nat
  BY AttemptTypes
<1>2. s.claims[r] \in Claim \cup {NoClaim} /\ s.fences[r] \in Nat
  BY <1>1 DEF Contents
<1> DEFINE C == [s.claims EXCEPT ![r] = IF @ # NoClaim /\ @.fence = f THEN NoClaim ELSE @]
           F == [s.fences EXCEPT ![r] = IF @ = f THEN f + 1 ELSE @]
<1>3. Revoked(s, a) = [s EXCEPT !.claims = C, !.fences = F]
  BY DEF Revoked, Contents
<1>4. C \in [Name -> Claim \cup {NoClaim}] /\ F \in [Name -> Nat]
  BY <1>1, <1>2 DEF Contents
<1>5. /\ \A n \in Name \ {r} : C[n] = s.claims[n] /\ F[n] = s.fences[n]
      /\ F[r] = IF s.fences[r] = f THEN f + 1 ELSE s.fences[r]
      /\ C[r] = IF s.claims[r] # NoClaim /\ s.claims[r].fence = f THEN NoClaim
                ELSE s.claims[r]
  BY <1>1 DEF Contents
<1> HIDE DEF C, F
<1>6. Revoked(s, a) \in Contents
  BY <1>3, <1>4 DEF Contents
<1>7. Revoked(s, a).claims = C /\ Revoked(s, a).fences = F
  BY <1>3 DEF Contents
<1>8. /\ Revoked(s, a).journal = s.journal /\ Revoked(s, a).work = s.work
      /\ Revoked(s, a).written = s.written /\ Revoked(s, a).gates = s.gates
      /\ Revoked(s, a).entries = s.entries /\ Revoked(s, a).attempts = s.attempts
      /\ Revoked(s, a).reservations = s.reservations
      /\ Revoked(s, a).questions = s.questions
  BY <1>3 DEF Contents
<1> QED
  BY <1>5, <1>6, <1>7, <1>8

-----------------------------------------------------------------------------
(* Questions.                                                              *)

OpenIsValid(s) ==
    \A q \in Question :
        s.questions[q] # NoRow /\ s.questions[q].state = "open" => s.questions[q].valid

LEMMA QuestionsStay ==
    ASSUME NEW s, NEW d, OpenIsValid(s), d.questions = s.questions
    PROVE  QuestionsMoved(s, d)
  BY DEF OpenIsValid, QuestionsMoved

LEMMA QuestionsMoveOn ==
    ASSUME NEW s, NEW w, NEW d, QuestionsMoved(s, w), QuestionsMoved(w, d)
    PROVE  QuestionsMoved(s, d)
  BY DEF QuestionsMoved

LEMMA MovedIsValid ==
    ASSUME NEW s, NEW d, QuestionsMoved(s, d)
    PROVE  OpenIsValid(d)
  BY DEF OpenIsValid, QuestionsMoved

\* A question that was open no longer is, and none is opened.
LEMMA ClosedStayClosed ==
    ASSUME NEW s, NEW d, NEW a, QuestionsMoved(s, d), NoneOpen(s, a)
    PROVE  NoneOpen(d, a)
  BY DEF NoneOpen, QuestionsMoved

\* One question that loses its standing.
LEMMA InvalidatedRow ==
    ASSUME NEW row \in QuestionRow \cup {NoRow}, NEW a,
           row # NoRow /\ row.state = "open" => row.valid
    PROVE  LET new == Invalidated(row, a) IN
           IF row = NoRow THEN new = NoRow
           ELSE /\ new \in QuestionRow /\ new # NoRow
                /\ new.attempt = row.attempt /\ new.fence = row.fence
                /\ new.valid => row.valid
                /\ new.state = row.state \/ (row.state = "open" /\ new.state = "superseded")
                /\ new.state = "open" => new.valid /\ row.attempt # a
<1>1. CASE row # NoRow /\ row.attempt = a /\ row.valid
  <2> DEFINE state == IF row.state = "open" THEN "superseded" ELSE row.state
             new == [row EXCEPT !.valid = FALSE, !.state = state]
  <2>1. row \in QuestionRow
    BY <1>1
  <2>2. state \in {"open", "answered", "cancelled", "superseded"} /\ state # "open"
    BY <2>1 DEF QuestionRow
  <2>3. Invalidated(row, a) = new
    BY <1>1 DEF Invalidated
  <2>4. state = row.state \/ (row.state = "open" /\ state = "superseded")
    OBVIOUS
  <2> HIDE DEF state
  <2>5. /\ new \in QuestionRow /\ new.state = state /\ ~new.valid
        /\ new.attempt = row.attempt /\ new.fence = row.fence
    BY <2>1, <2>2 DEF QuestionRow
  <2> QED
    BY <1>1, <2>2, <2>3, <2>4, <2>5
<1>2. CASE ~(row # NoRow /\ row.attempt = a /\ row.valid)
  BY <1>2 DEF Invalidated
<1> QED
  BY <1>1, <1>2

LEMMA SupersededRows ==
    ASSUME NEW s \in Contents, NEW a \in AttemptId, OpenIsValid(s)
    PROVE  LET u == Superseded(s, a) IN
           /\ u \in Contents
           /\ u.fences = s.fences /\ u.claims = s.claims /\ u.journal = s.journal
           /\ u.work = s.work /\ u.written = s.written /\ u.gates = s.gates
           /\ u.entries = s.entries /\ u.attempts = s.attempts
           /\ u.reservations = s.reservations
           /\ QuestionsMoved(s, u) /\ NoneOpen(u, a)
<1> DEFINE Q == [q \in Question |-> Invalidated(s.questions[q], a)]
<1>1. Superseded(s, a) = [s EXCEPT !.questions = Q]
  BY DEF Superseded, Contents
<1>2. ASSUME NEW q \in Question
      PROVE  /\ Q[q] \in QuestionRow \cup {NoRow}
             /\ s.questions[q] = NoRow => Q[q] = NoRow
             /\ s.questions[q] # NoRow =>
                    /\ Q[q] # NoRow /\ Q[q].attempt = s.questions[q].attempt
                    /\ Q[q].fence = s.questions[q].fence
                    /\ Q[q].valid => s.questions[q].valid
                    /\ \/ Q[q].state = s.questions[q].state
                       \/ s.questions[q].state = "open" /\ Q[q].state = "superseded"
                    /\ Q[q].state = "open" => Q[q].valid
                    /\ Q[q].attempt = a => Q[q].state # "open"
  <2> DEFINE row == s.questions[q]
  <2>1. row \in QuestionRow \cup {NoRow} /\ (row # NoRow /\ row.state = "open" => row.valid)
    BY DEF Contents, OpenIsValid
  <2>2. Q[q] = Invalidated(row, a)
    OBVIOUS
  <2> HIDE DEF Q
  <2>3. IF row = NoRow THEN Q[q] = NoRow
        ELSE /\ Q[q] \in QuestionRow /\ Q[q] # NoRow
             /\ Q[q].attempt = row.attempt /\ Q[q].fence = row.fence
             /\ Q[q].valid => row.valid
             /\ Q[q].state = row.state \/ (row.state = "open" /\ Q[q].state = "superseded")
             /\ Q[q].state = "open" => Q[q].valid /\ row.attempt # a
    <3> DEFINE new == Invalidated(row, a)
    <3>1. IF row = NoRow THEN new = NoRow
          ELSE /\ new \in QuestionRow /\ new # NoRow
               /\ new.attempt = row.attempt /\ new.fence = row.fence
               /\ new.valid => row.valid
               /\ new.state = row.state \/ (row.state = "open" /\ new.state = "superseded")
               /\ new.state = "open" => new.valid /\ row.attempt # a
      <4> HIDE DEF row
      <4> QED
        BY <2>1, InvalidatedRow
    <3> HIDE DEF row
    <3> QED
      BY <3>1, <2>2
  <2> QED
    BY <2>1, <2>3
<1>4. Q \in [Question -> QuestionRow \cup {NoRow}]
  <2>1. Q = [q \in Question |-> Q[q]]
    OBVIOUS
  <2> HIDE DEF Q
  <2> QED
    BY <2>1, <1>2
<1> HIDE DEF Q
<1>5. /\ Superseded(s, a) \in Contents
      /\ Superseded(s, a).questions = Q
      /\ Superseded(s, a).fences = s.fences /\ Superseded(s, a).claims = s.claims
      /\ Superseded(s, a).journal = s.journal /\ Superseded(s, a).work = s.work
      /\ Superseded(s, a).written = s.written /\ Superseded(s, a).gates = s.gates
      /\ Superseded(s, a).entries = s.entries /\ Superseded(s, a).attempts = s.attempts
      /\ Superseded(s, a).reservations = s.reservations
  BY <1>1, <1>4 DEF Contents
<1>6. QuestionsMoved(s, Superseded(s, a)) /\ NoneOpen(Superseded(s, a), a)
  BY <1>2, <1>5 DEF QuestionsMoved, NoneOpen
<1> QED
  BY <1>5, <1>6

-----------------------------------------------------------------------------
(* The helpers, row by row.                                                *)

\* The rows that belong to attempt a are there, and no open question is invalid.
Attached(s, a) ==
    /\ s \in Contents /\ OpenIsValid(s) /\ IsAttempt(s, a)
    /\ s.entries[s.attempts[a].entry] # NoRow
    /\ s.entries[s.attempts[a].entry].task = s.attempts[a].task

LEMMA TouchesItself ==
    ASSUME NEW s, NEW a \in AttemptId, Attached(s, a)
    PROVE  Touches(s, s, a)
<1>1. QuestionsMoved(s, s)
  BY QuestionsStay DEF Attached
<1> QED
  BY <1>1 DEF Attached, Touches, IsAttempt

LEMMA TouchesAgain ==
    ASSUME NEW s, NEW w, NEW d, NEW a \in AttemptId, Touches(s, w, a), Touches(w, d, a)
    PROVE  Touches(s, d, a)
<1>1. QuestionsMoved(s, d)
  BY QuestionsMoveOn DEF Touches
<1> QED
  BY <1>1 DEF Touches

LEMMA StaysAttached ==
    ASSUME NEW s, NEW d, NEW a \in AttemptId, Touches(s, d, a)
    PROVE  Attached(d, a)
<1>1. OpenIsValid(d)
  BY MovedIsValid DEF Touches
<1> QED
  BY <1>1 DEF Touches, Attached, IsAttempt

\* A grant for an attempt whose task nobody else holds is a fresh one.
LEMMA RefencedRows ==
    ASSUME NEW s, NEW a \in AttemptId, Attached(s, a),
           NEW p \in Participant, policy.lease \in Ttl,
           LET r == ResourceOf(s, a) IN
           /\ s.attempts[a].fence <= s.fences[r]
           /\ s.claims[r] # NoClaim /\ s.claims[r].fence # s.attempts[a].fence
                => ~Live(s.claims[r])
    PROVE  LET d == Refenced(s, a, p)
               t == s.attempts[a]
               u == d.attempts[a]
               r == ResourceOf(s, a)
           IN
           /\ Touches(s, d, a)
           /\ d.entries = s.entries /\ d.reservations = s.reservations
           /\ d.work = s.work
           /\ u.accepted = t.accepted /\ u.cancel = t.cancel
           /\ u.state = "running" /\ u.owner = p /\ u.left = policy.lease
           /\ u.fence = d.fences[r] /\ d.fences[r] > s.fences[r]
           /\ d.claims[r] = GrantOf(u)
           /\ NoneOpen(d, a)
<1> DEFINE r == ResourceOf(s, a)
           t == s.attempts[a]
           v == Superseded(s, a)
           w == Revoked(v, a)
           f == w.fences[r] + 1
           u == [t EXCEPT !.state = "running", !.owner = p, !.left = policy.lease, !.fence = f]
           c == [holder |-> p, mode |-> "exclusive", fence |-> f, left |-> policy.lease]
           d == Refenced(s, a, p)
<1>1. /\ s \in Contents /\ IsAttempt(s, a) /\ OpenIsValid(s)
      /\ t \in AttemptRow /\ r \in Name /\ r = TypedName[t.task]
      /\ t.task \in Entity /\ t.entry \in EntryId
      /\ t.fence \in Nat /\ s.fences[r] \in Nat /\ t.fence <= s.fences[r]
      /\ policy.lease \in Nat /\ policy.lease > 0 /\ policy.lease \in 0..MaxTtl
  <2>1. s \in Contents /\ IsAttempt(s, a) /\ OpenIsValid(s)
    BY DEF Attached
  <2>2. /\ t \in AttemptRow /\ r \in Name /\ r = TypedName[t.task]
        /\ t.task \in Entity /\ t.entry \in EntryId /\ t.fence \in Nat
    BY <2>1, AttemptTypes
  <2>3. s.fences[r] \in Nat
    BY <2>1, <2>2, RowTypes
  <2>4. policy.lease \in Nat /\ policy.lease > 0 /\ policy.lease \in 0..MaxTtl
    BY DEF Ttl
  <2> QED
    BY <2>1, <2>2, <2>3, <2>4
<1>2. /\ v \in Contents /\ IsAttempt(v, a) /\ v.attempts = s.attempts
      /\ v.fences = s.fences /\ v.claims = s.claims /\ v.work = s.work
      /\ v.entries = s.entries /\ v.reservations = s.reservations
      /\ QuestionsMoved(s, v) /\ NoneOpen(v, a) /\ ResourceOf(v, a) = r
  BY <1>1, SupersededRows DEF IsAttempt, ResourceOf
<1> HIDE DEF v
<1>3. /\ w \in Contents /\ w.attempts = s.attempts /\ w.work = s.work
      /\ w.entries = s.entries /\ w.reservations = s.reservations
      /\ w.questions = v.questions
      /\ \A n \in Name \ {r} : w.claims[n] = s.claims[n] /\ w.fences[n] = s.fences[n]
      /\ w.fences[r] = IF s.fences[r] = t.fence THEN t.fence + 1 ELSE s.fences[r]
      /\ w.claims[r] = IF s.claims[r] # NoClaim /\ s.claims[r].fence = t.fence THEN NoClaim
                       ELSE s.claims[r]
  BY <1>2, RevokedRows
<1>4. ~Live(w.claims[r])
  BY <1>3 DEF Live
<1>5. w.fences[r] \in Nat /\ w.fences[r] >= s.fences[r]
  <2>1. /\ s.fences[r] \in Nat /\ t.fence \in Nat
        /\ w.fences[r] = IF s.fences[r] = t.fence THEN t.fence + 1 ELSE s.fences[r]
    BY <1>1, <1>3
  <2> HIDE DEF r, t, w
  <2> QED
    BY <2>1
<1> HIDE DEF w
<1>6. f \in Nat \ {0} /\ f > s.fences[r]
  <2>1. s.fences[r] \in Nat
    BY <1>1
  <2> HIDE DEF r
  <2> QED
    BY <2>1, <1>5
<1>7. c \in Claim
  BY <1>1, <1>6 DEF Claim, Mode
<1>8. /\ u \in AttemptRow
      /\ u.entry = t.entry /\ u.task = t.task /\ u.pred = t.pred
      /\ u.accepted = t.accepted /\ u.cancel = t.cancel
      /\ u.state = "running" /\ u.owner = p /\ u.left = policy.lease /\ u.fence = f
  <2>1. t \in AttemptRow /\ policy.lease \in 0..MaxTtl /\ f \in Nat \ {0}
    BY <1>1, <1>6
  <2> HIDE DEF t, f
  <2>2. u \in AttemptRow
    BY <2>1, ZenonT(60) DEF AttemptRow
  <2>3. /\ u.entry = t.entry /\ u.task = t.task /\ u.pred = t.pred
        /\ u.state = "running" /\ u.owner = p /\ u.left = policy.lease /\ u.fence = f
    BY <2>1 DEF AttemptRow
  <2>4. u.accepted = t.accepted /\ u.cancel = t.cancel
    BY <2>1 DEF AttemptRow
  <2> QED
    BY <2>2, <2>3, <2>4
<1> DEFINE J == w.journal \cup {[resource |-> r, fence |-> f, holder |-> p]}
           x == [w EXCEPT !.fences[r] = f, !.claims[r] = c, !.journal = J]
<1>9. Acquired(w, r, p, policy.lease) = x
  BY <1>3, <1>4 DEF Acquired, Contents
<1>10. J \in SUBSET GrantRow
  <2>1. w.journal \in SUBSET GrantRow
    BY <1>3 DEF Contents
  <2>2. [resource |-> r, fence |-> f, holder |-> p] \in GrantRow
    BY <1>1, <1>6 DEF GrantRow
  <2> QED
    BY <2>1, <2>2
<1> HIDE DEF J, f, c
<1>11. /\ x.claims[r] = c /\ x.fences[r] = f /\ x.attempts = w.attempts
       /\ \A n \in Name \ {r} : x.claims[n] = w.claims[n] /\ x.fences[n] = w.fences[n]
       /\ x.entries = w.entries /\ x.reservations = w.reservations /\ x.work = w.work
       /\ x.questions = w.questions
       /\ x \in Contents
  BY <1>1, <1>3, <1>6, <1>7, <1>10 DEF Contents
<1> DEFINE A == [s.attempts EXCEPT ![a] = u]
<1>12. d = [x EXCEPT !.attempts = A]
  <2>1. x.attempts = s.attempts /\ x.attempts[a] = t /\ x.claims[r].fence = f
    BY <1>3, <1>11 DEF c
  <2>2. d = [x EXCEPT !.attempts[a] = [x.attempts[a] EXCEPT !.state = "running",
                !.owner = p, !.left = policy.lease, !.fence = x.claims[r].fence]]
    BY <1>9, Zenon DEF Refenced, w, v
  <2>3. d = [x EXCEPT !.attempts[a] = u]
    <3> HIDE DEF x, d, t
    <3> QED
      BY <2>1, <2>2, Zenon
  <2> HIDE DEF x, d, u
  <2> QED
    BY <2>1, <2>3, <1>11 DEF Contents
<1> HIDE DEF x, u
<1>20. A \in [AttemptId -> AttemptRow \cup {NoRow}]
       /\ A[a] = u /\ \A b \in AttemptId \ {a} : A[b] = s.attempts[b]
  BY <1>1, <1>8 DEF Contents
<1> HIDE DEF A
<1>21. /\ d \in Contents /\ d.attempts = A
       /\ d.claims = x.claims /\ d.fences = x.fences
       /\ d.entries = x.entries /\ d.reservations = x.reservations /\ d.work = x.work
       /\ d.questions = x.questions
  <2>1. d \in Contents
    BY <1>11, <1>12, <1>20 DEF Contents
  <2>2. /\ d.attempts = A
        /\ d.claims = x.claims /\ d.fences = x.fences
        /\ d.entries = x.entries /\ d.reservations = x.reservations /\ d.work = x.work
        /\ d.questions = x.questions
    BY <1>11, <1>12 DEF Contents
  <2> QED
    BY <2>1, <2>2
<1> HIDE DEF d
<1>13. /\ d \in Contents
       /\ d.attempts[a] = u /\ \A b \in AttemptId \ {a} : d.attempts[b] = s.attempts[b]
       /\ d.claims[r] = c /\ d.fences[r] = f
       /\ \A n \in Name \ {r} : d.claims[n] = s.claims[n] /\ d.fences[n] = s.fences[n]
       /\ d.entries = s.entries /\ d.reservations = s.reservations /\ d.work = s.work
       /\ d.questions = v.questions
  BY <1>3, <1>11, <1>20, <1>21
<1>14. QuestionsMoved(s, d) /\ NoneOpen(d, a)
  BY <1>2, <1>13 DEF QuestionsMoved, NoneOpen
<1>15. Touches(s, d, a)
  BY <1>1, <1>8, <1>13, <1>14 DEF Touches, Attached
<1>16. c = GrantOf(u)
  BY <1>8 DEF c, GrantOf
<1> QED
  BY <1>6, <1>8, <1>13, <1>14, <1>15, <1>16 DEF d

\* Settling timer gates yields gate rows.
LEMMA SettledGates ==
    ASSUME NEW G \in [Gate -> GateRow \cup {NoGate}], NEW N
    PROVE  GatesSettled(G, N) \in [Gate -> GateRow \cup {NoGate}]
<1> SUFFICES ASSUME NEW g \in Gate
             PROVE  GatesSettled(G, N)[g] \in GateRow \cup {NoGate}
  BY DEF GatesSettled
<1>1. G[g] \in GateRow \cup {NoGate}
  OBVIOUS
<1>2. G[g] # NoGate => [G[g] EXCEPT !.status = "timed_out"] \in GateRow
  BY <1>1 DEF GateRow
<1> QED
  BY <1>1, <1>2 DEF GatesSettled, Unresolved

LEMMA TransitionedRows ==
    ASSUME NEW s, NEW a \in AttemptId, Attached(s, a), NEW kind \in Outcome \cup {"start"}
    PROVE  LET d == Transitioned(s, a, kind)
               e == s.attempts[a].task
           IN
           /\ Touches(s, d, a)
           /\ d.attempts = s.attempts /\ d.entries = s.entries
           /\ d.reservations = s.reservations /\ d.questions = s.questions
           /\ d.claims = s.claims /\ d.fences = s.fences
           /\ kind = "start" /\ s.work[e] # "terminal" => d.work[e] # "terminal"
<1> DEFINE t == s.attempts[a]
           e == t.task
           d == Transitioned(s, a, kind)
           W == [s.work EXCEPT ![e] = Target(kind)]
           V == [s.written EXCEPT ![e] = t.fence]
           H == IF Target(kind) = "terminal"
                THEN GatesSettled(s.gates, UpdateGateNames(e)) ELSE s.gates
<1>1. /\ s \in Contents /\ IsAttempt(s, a) /\ OpenIsValid(s)
      /\ e \in Entity /\ t.fence \in Nat
  BY AttemptTypes DEF Attached
<1>2. CASE Target(kind) = "unmapped"
  <2>1. d = s
    BY <1>2 DEF Transitioned
  <2> HIDE DEF d
  <2> QED
    BY <2>1, TouchesItself DEF d
<1>3. CASE Target(kind) # "unmapped"
  <2>1. /\ Target(kind) \in WorkState \ {"absent"}
        /\ kind = "start" => Target(kind) # "terminal"
    BY <1>3 DEF Target, Mapped, Outcome
  <2>2. /\ W \in [Entity -> WorkState] /\ V \in [Entity -> Nat]
        /\ \A x \in Entity \ {e} : W[x] = s.work[x]
        /\ W[e] = Target(kind)
    BY <1>1, <2>1 DEF Contents
  <2>3. H \in [Gate -> GateRow \cup {NoGate}]
    <3>1. s.gates \in [Gate -> GateRow \cup {NoGate}]
      BY <1>1 DEF Contents
    <3> QED
      BY <3>1, SettledGates
  <2>4. d = [s EXCEPT !.work = W, !.written = V, !.gates = H]
    BY <1>1, <1>3 DEF Transitioned, Contents
  <2> HIDE DEF W, V, H
  <2>5. /\ d \in Contents /\ d.work = W
        /\ d.attempts = s.attempts /\ d.entries = s.entries
        /\ d.reservations = s.reservations /\ d.questions = s.questions
        /\ d.claims = s.claims /\ d.fences = s.fences
    <3>1. s \in Contents
      BY <1>1
    <3> HIDE DEF d
    <3>2. d \in Contents
      BY <2>2, <2>3, <2>4, <3>1, ZenonT(30) DEF Contents
    <3>3. /\ d.work = W
          /\ d.attempts = s.attempts /\ d.entries = s.entries
          /\ d.reservations = s.reservations /\ d.questions = s.questions
          /\ d.claims = s.claims /\ d.fences = s.fences
      BY <2>4, <3>1 DEF Contents
    <3> QED
      BY <3>2, <3>3
  <2> HIDE DEF d
  <2>6. QuestionsMoved(s, d)
    BY <1>1, <2>5, QuestionsStay
  <2>7. Touches(s, d, a)
    BY <2>1, <2>2, <2>5, <2>6 DEF Touches, Attached, IsAttempt
  <2> QED
    BY <2>1, <2>2, <2>5, <2>7 DEF d
<1> QED
  BY <1>2, <1>3

\* How an attempt is over, in contents that grant it nothing else.
EndedBy(s, d, a) ==
    LET t == s.attempts[a]
        u == d.attempts[a]
        r == ResourceOf(s, a)
        entry == d.entries[t.entry]
        place == d.reservations[t.task]
    IN
    /\ Touches(s, d, a)
    /\ u.state = "terminal" /\ u.left = 0 /\ u.fence = t.fence
    /\ d.fences[r] = IF s.fences[r] = t.fence THEN t.fence + 1 ELSE s.fences[r]
    /\ d.claims[r] = IF s.claims[r] # NoClaim /\ s.claims[r].fence = t.fence THEN NoClaim
                     ELSE s.claims[r]
    /\ \/ entry.state = "finished" /\ place = NoRow
       \/ /\ entry.state = "queued"
          /\ place # NoRow /\ place.entry = t.entry /\ ~place.held
    /\ NoneOpen(d, a)

\* The row of an attempt that is over.
OverRow(t, outcome) == [t EXCEPT !.state = "terminal", !.left = 0, !.outcome = outcome]

LEMMA OverRowIsRow ==
    ASSUME NEW t \in AttemptRow, NEW outcome \in Outcome \cup {"never_ran", NoRow}
    PROVE  LET u == OverRow(t, outcome) IN
           /\ u \in AttemptRow
           /\ u.entry = t.entry /\ u.task = t.task /\ u.pred = t.pred /\ u.fence = t.fence
           /\ u.accepted = t.accepted /\ u.cancel = t.cancel
           /\ u.state = "terminal" /\ u.left = 0
<1> DEFINE u == [t EXCEPT !.state = "terminal", !.left = 0, !.outcome = outcome]
<1>1. u \in AttemptRow
  <2>1. 0 \in 0..MaxTtl
    OBVIOUS
  <2> QED
    BY <2>1 DEF AttemptRow
<1>2. /\ u.entry = t.entry /\ u.task = t.task /\ u.pred = t.pred /\ u.fence = t.fence
      /\ u.state = "terminal" /\ u.left = 0
  BY DEF AttemptRow
<1>3. u.accepted = t.accepted /\ u.cancel = t.cancel
  BY DEF AttemptRow
<1> QED
  BY <1>1, <1>2, <1>3 DEF OverRow

LEMMA EndedRows ==
    ASSUME NEW s, NEW a \in AttemptId, Attached(s, a), NEW outcome \in Outcome
    PROVE  EndedBy(s, Ended(s, a, outcome), a)
<1> DEFINE t == s.attempts[a]
           r == ResourceOf(s, a)
           i == t.entry
           e == t.task
           v == Transitioned(s, a, outcome)
           w == Superseded(v, a)
           u == OverRow(t, outcome)
           en == [s.entries[i] EXCEPT !.state = "finished"]
           A == [s.attempts EXCEPT ![a] = u]
           N == [s.entries EXCEPT ![i] = en]
           P == [s.reservations EXCEPT ![e] = NoRow]
           x == [w EXCEPT !.attempts = A, !.reservations = P, !.entries = N]
           d == Ended(s, a, outcome)
<1>1. /\ s \in Contents /\ IsAttempt(s, a) /\ OpenIsValid(s)
      /\ t \in AttemptRow /\ e \in Entity /\ i \in EntryId /\ r \in Name
      /\ r = TypedName[e] /\ t.fence \in Nat
      /\ s.entries[i] \in EntryRow /\ s.entries[i].task = e
  <2>1. s \in Contents /\ IsAttempt(s, a) /\ OpenIsValid(s)
        /\ s.entries[i] # NoRow /\ s.entries[i].task = e
    BY DEF Attached
  <2>2. /\ t \in AttemptRow /\ e \in Entity /\ i \in EntryId /\ r \in Name
        /\ r = TypedName[e] /\ t.fence \in Nat
    BY <2>1, AttemptTypes
  <2> QED
    BY <2>1, <2>2, RowTypes
<1>2. /\ Touches(s, v, a)
      /\ v.attempts = s.attempts /\ v.entries = s.entries
      /\ v.reservations = s.reservations /\ v.questions = s.questions
      /\ v.claims = s.claims /\ v.fences = s.fences
  BY TransitionedRows
<1>3. v \in Contents /\ OpenIsValid(v)
  BY <1>2, StaysAttached DEF Attached
<1> HIDE DEF v
<1>4. /\ w \in Contents
      /\ w.attempts = s.attempts /\ w.entries = s.entries
      /\ w.reservations = s.reservations
      /\ w.claims = s.claims /\ w.fences = s.fences /\ w.work = v.work
      /\ QuestionsMoved(v, w) /\ NoneOpen(w, a)
  BY <1>2, <1>3, SupersededRows
<1> HIDE DEF w
<1>5. /\ u \in AttemptRow
      /\ u.entry = i /\ u.task = e /\ u.pred = t.pred /\ u.fence = t.fence
      /\ u.state = "terminal" /\ u.left = 0
      /\ u.accepted = t.accepted /\ u.cancel = t.cancel
  <2>1. t \in AttemptRow /\ outcome \in Outcome \cup {"never_ran", NoRow}
    BY <1>1
  <2> HIDE DEF t
  <2> QED
    BY <2>1, OverRowIsRow
<1>7. en \in EntryRow /\ en.task = e /\ en.state = "finished"
  BY <1>1 DEF EntryRow
<1>8. x = [w EXCEPT !.attempts[a] = [@ EXCEPT !.state = "terminal", !.left = 0,
                                              !.outcome = outcome],
                    !.reservations[t.task] = NoRow,
                    !.entries[t.entry].state = "finished"]
  <2>1. x = [w EXCEPT !.attempts[a] = OverRow(w.attempts[a], outcome),
                      !.reservations[t.task] = NoRow,
                      !.entries[t.entry].state = "finished"]
    BY <1>4 DEF Contents
  <2> HIDE DEF x
  <2> QED
    BY <2>1, Zenon DEF OverRow
<1>9. d = Revoked(x, a)
  BY <1>8, Zenon DEF Ended, w, v
<1> HIDE DEF u, en
<1>10. /\ A \in [AttemptId -> AttemptRow \cup {NoRow}]
       /\ A[a] = u /\ \A b \in AttemptId \ {a} : A[b] = s.attempts[b]
       /\ N \in [EntryId -> EntryRow \cup {NoRow}]
       /\ N[i] = en /\ \A j \in EntryId \ {i} : N[j] = s.entries[j]
       /\ P \in [Entity -> ReservationRow \cup {NoRow}]
       /\ P[e] = NoRow /\ \A y \in Entity \ {e} : P[y] = s.reservations[y]
  BY <1>1, <1>5, <1>7 DEF Contents
<1> HIDE DEF A, N, P
<1>11. /\ x \in Contents /\ x.attempts = A /\ x.reservations = P /\ x.entries = N
       /\ x.claims = s.claims /\ x.fences = s.fences /\ x.work = v.work
       /\ x.questions = w.questions
  BY <1>4, <1>10 DEF Contents
<1> HIDE DEF x
<1>12. IsAttempt(x, a) /\ ResourceOf(x, a) = r /\ x.attempts[a].fence = t.fence
  BY <1>1, <1>5, <1>10, <1>11 DEF IsAttempt, ResourceOf
<1>13. /\ d \in Contents /\ d.work = x.work /\ d.entries = N /\ d.attempts = A
       /\ d.reservations = P /\ d.questions = w.questions
       /\ \A n \in Name \ {r} : d.claims[n] = s.claims[n] /\ d.fences[n] = s.fences[n]
       /\ d.fences[r] = IF s.fences[r] = t.fence THEN t.fence + 1 ELSE s.fences[r]
       /\ d.claims[r] = IF s.claims[r] # NoClaim /\ s.claims[r].fence = t.fence
                        THEN NoClaim ELSE s.claims[r]
  BY <1>9, <1>11, <1>12, RevokedRows
<1> HIDE DEF d
<1>14. QuestionsMoved(s, d) /\ NoneOpen(d, a)
  <2>1. QuestionsMoved(s, v)
    BY <1>2 DEF Touches
  <2>2. QuestionsMoved(s, w)
    BY <2>1, <1>4, QuestionsMoveOn
  <2> QED
    BY <2>2, <1>4, <1>13 DEF QuestionsMoved, NoneOpen
<1>15. /\ \A y \in Entity \ {e} : d.work[y] = s.work[y]
       /\ s.work[e] # "absent" => d.work[e] # "absent"
  BY <1>2, <1>11, <1>13 DEF Touches
<1>16. Touches(s, d, a)
  BY <1>1, <1>5, <1>7, <1>10, <1>13, <1>14, <1>15 DEF Touches
<1> QED
  BY <1>1, <1>5, <1>7, <1>10, <1>13, <1>14, <1>16 DEF EndedBy, d

\* The entry waits again, in its place.
LEMMA RescheduledRows ==
    ASSUME NEW s, NEW a \in AttemptId, Attached(s, a), NEW delay \in 0..MaxBackoff
    PROVE  LET d == Rescheduled(s, a, delay)
               t == s.attempts[a]
               place == d.reservations[t.task]
           IN
           /\ Touches(s, d, a)
           /\ d.attempts = s.attempts /\ d.questions = s.questions
           /\ d.claims = s.claims /\ d.fences = s.fences /\ d.work = s.work
           /\ d.entries[t.entry].state = "queued"
           /\ place # NoRow /\ place.entry = t.entry /\ ~place.held
<1> DEFINE t == s.attempts[a]
           i == t.entry
           e == t.task
           en == [s.entries[i] EXCEPT !.state = "queued", !.left = delay]
           place == [entry |-> i, attempt |-> a, held |-> FALSE]
           N == [s.entries EXCEPT ![i] = en]
           P == [s.reservations EXCEPT ![e] = place]
           d == Rescheduled(s, a, delay)
<1>1. /\ s \in Contents /\ IsAttempt(s, a) /\ OpenIsValid(s)
      /\ t \in AttemptRow /\ e \in Entity /\ i \in EntryId
      /\ s.entries[i] \in EntryRow /\ s.entries[i].task = e
  <2>1. s \in Contents /\ IsAttempt(s, a) /\ OpenIsValid(s)
        /\ s.entries[i] # NoRow /\ s.entries[i].task = e
    BY DEF Attached
  <2>2. t \in AttemptRow /\ e \in Entity /\ i \in EntryId
    BY <2>1, AttemptTypes
  <2> QED
    BY <2>1, <2>2, RowTypes
<1>2. en \in EntryRow /\ en.task = e /\ en.state = "queued"
  <2> DEFINE old == s.entries[i]
  <2>1. old \in EntryRow /\ old.task = e
    BY <1>1
  <2> HIDE DEF old, e
  <2>2. [old EXCEPT !.state = "queued", !.left = delay] \in EntryRow
    BY <2>1 DEF EntryRow
  <2>3. /\ [old EXCEPT !.state = "queued", !.left = delay].task = e
        /\ [old EXCEPT !.state = "queued", !.left = delay].state = "queued"
    BY <2>1 DEF EntryRow
  <2> QED
    BY <2>2, <2>3 DEF old
<1>3. place \in ReservationRow /\ place # NoRow /\ place.entry = i /\ ~place.held
  <2>1. i \in EntryId
    BY <1>1
  <2> HIDE DEF i
  <2>2. place \in ReservationRow
    BY <2>1 DEF ReservationRow
  <2>3. place.entry = i /\ ~place.held
    OBVIOUS
  <2> HIDE DEF place
  <2> QED
    BY <2>2, <2>3
<1>4. d = [s EXCEPT !.entries = N, !.reservations = P]
  BY <1>1 DEF Rescheduled, Contents
<1> HIDE DEF en, place
<1>5. /\ N \in [EntryId -> EntryRow \cup {NoRow}]
      /\ N[i] = en /\ \A j \in EntryId \ {i} : N[j] = s.entries[j]
      /\ P \in [Entity -> ReservationRow \cup {NoRow}]
      /\ P[e] = place /\ \A y \in Entity \ {e} : P[y] = s.reservations[y]
  BY <1>1, <1>2, <1>3 DEF Contents
<1> HIDE DEF N, P
<1>6. /\ d \in Contents /\ d.entries = N /\ d.reservations = P
      /\ d.attempts = s.attempts /\ d.questions = s.questions
      /\ d.claims = s.claims /\ d.fences = s.fences /\ d.work = s.work
  BY <1>1, <1>4, <1>5 DEF Contents
<1> HIDE DEF d
<1>7. QuestionsMoved(s, d)
  BY <1>1, <1>6, QuestionsStay
<1>8. Touches(s, d, a)
  BY <1>1, <1>2, <1>5, <1>6, <1>7 DEF Touches, IsAttempt
<1> QED
  BY <1>2, <1>3, <1>5, <1>6, <1>8 DEF d

LEMMA BackoffType == \A n : Backoff(n) \in 0..MaxBackoff
  BY DEF Backoff

\* A reported result, with the retry it may lead to.
LEMMA RescheduledEnd ==
    ASSUME NEW s, NEW a \in AttemptId, Attached(s, a), NEW outcome \in Outcome,
           NEW delay \in 0..MaxBackoff
    PROVE  EndedBy(s, Rescheduled(Ended(s, a, outcome), a, delay), a)
<1> DEFINE v == Ended(s, a, outcome)
           d == Rescheduled(v, a, delay)
<1>1. EndedBy(s, v, a)
  BY EndedRows
<1>2. Touches(s, v, a)
  BY <1>1 DEF EndedBy
<1>3. Attached(v, a)
  BY <1>2, StaysAttached
<1> HIDE DEF v
<1>4. /\ Touches(v, d, a)
      /\ d.attempts = v.attempts /\ d.questions = v.questions
      /\ d.claims = v.claims /\ d.fences = v.fences /\ d.work = v.work
      /\ d.entries[v.attempts[a].entry].state = "queued"
      /\ LET place == d.reservations[v.attempts[a].task] IN
         place # NoRow /\ place.entry = v.attempts[a].entry /\ ~place.held
  BY <1>3, RescheduledRows
<1> HIDE DEF d
<1>5. Touches(s, d, a)
  BY <1>2, <1>4, TouchesAgain
<1>6. NoneOpen(d, a)
  BY <1>1, <1>4 DEF EndedBy, NoneOpen
<1>7. v.attempts[a].entry = s.attempts[a].entry /\ v.attempts[a].task = s.attempts[a].task
  BY <1>2 DEF Touches
<1>8. EndedBy(s, d, a)
  BY <1>1, <1>4, <1>5, <1>6, <1>7 DEF EndedBy
<1> QED
  BY <1>8 DEF d, v

LEMMA FinishedRows ==
    ASSUME NEW s, NEW a \in AttemptId, Attached(s, a), NEW outcome \in Outcome
    PROVE  EndedBy(s, Finished(s, a, outcome), a)
<1> DEFINE delay == Backoff(Cardinality(AttemptsOf(Ended(s, a, outcome), s.attempts[a].entry)))
<1>1. delay \in 0..MaxBackoff
  BY BackoffType
<1>2. Finished(s, a, outcome) \in {Ended(s, a, outcome),
                                  Rescheduled(Ended(s, a, outcome), a, delay)}
  BY DEF Finished
<1> HIDE DEF delay
<1> QED
  BY <1>1, <1>2, EndedRows, RescheduledEnd

-----------------------------------------------------------------------------
(* A command on an unfinished attempt.                                     *)

\* The rows of an unfinished attempt, and its claim.
LEMMA ActiveRows ==
    ASSUME NEW s, RowsAgree(s), NEW a \in AttemptId, ActiveIn(s, a)
    PROVE  LET t == s.attempts[a]
               r == ResourceOf(s, a)
               place == s.reservations[t.task]
           IN
           /\ Attached(s, a)
           /\ s.entries[t.entry].state = "admitted"
           /\ place # NoRow /\ place.entry = t.entry
           /\ place.held <=> t.state \in Holding
           /\ t.fence <= s.fences[r]
           /\ s.claims[r] # NoClaim => s.claims[r].fence = s.fences[r]
           /\ s.claims[r] # NoClaim /\ s.claims[r].fence # t.fence => ~Live(s.claims[r])
<1> DEFINE t == s.attempts[a]
           i == t.entry
           e == t.task
           r == ResourceOf(s, a)
           place == s.reservations[e]
<1>1. /\ s \in Contents /\ IsAttempt(s, a) /\ t.state # "terminal"
      /\ i \in EntryId /\ e \in Entity /\ r \in Name /\ t.fence \in Nat /\ s.fences[r] \in Nat
  <2>1. s \in Contents /\ IsAttempt(s, a) /\ t.state # "terminal"
    BY DEF RowsAgree, ActiveIn
  <2>2. i \in EntryId /\ e \in Entity /\ r \in Name /\ t.fence \in Nat
    BY <2>1, AttemptTypes
  <2>3. s.fences[r] \in Nat
    BY <2>1, <2>2, RowTypes
  <2> QED
    BY <2>1, <2>2, <2>3
<1>2. /\ s.entries[i] # NoRow /\ s.entries[i].task = e
      /\ s.entries[i].state = "admitted"
  BY <1>1 DEF RowsAgree, AttemptsFit
<1>3. OpenIsValid(s)
  BY DEF RowsAgree, QuestionsFit, OpenIsValid
<1>4. Attached(s, a)
  BY <1>1, <1>2, <1>3 DEF Attached
<1>5. place # NoRow /\ (place.held <=> t.state \in Holding)
  BY <1>1 DEF RowsAgree, PlacesFit, ActiveIn
<1>6. place.entry = i
  <2>1. UnfinishedIn(s, place.entry) /\ s.entries[place.entry].task = e
    BY <1>1, <1>5 DEF RowsAgree, PlacesFit
  <2>2. place.entry \in EntryId
    BY <1>1, <1>5, RowTypes DEF ReservationRow
  <2>3. UnfinishedIn(s, i)
    BY <1>2 DEF UnfinishedIn, Unfinished
  <2>4. \A j, k \in EntryId :
            UnfinishedIn(s, j) /\ UnfinishedIn(s, k)
            /\ s.entries[j].task = s.entries[k].task => j = k
    BY DEF RowsAgree, OneAtATime
  <2> QED
    BY <1>1, <1>2, <2>1, <2>2, <2>3, <2>4
<1>7. /\ t.fence <= s.fences[r]
      /\ s.claims[r] # NoClaim => s.claims[r].fence = s.fences[r]
      /\ s.claims[r] # NoClaim /\ s.claims[r].fence # t.fence => ~Live(s.claims[r])
  <2>1. s.claims[r] # NoClaim => s.claims[r].fence = s.fences[r]
    BY <1>1 DEF RowsAgree, ClaimsFit
  <2>2. IF t.state \in Executing
        THEN t.fence = s.fences[r]
        ELSE t.fence < s.fences[r] /\ ~Live(s.claims[r])
    BY <1>1 DEF RowsAgree, ClaimsFit
  <2> QED
    BY <1>1, <2>1, <2>2
<1> QED
  BY <1>2, <1>4, <1>5, <1>6, <1>7

\* An end, possibly under a grant taken for the occasion, moves the rows.
LEMMA EndMoves ==
    ASSUME NEW s, NEW w, NEW d, NEW a \in AttemptId,
           Attached(s, a), Touches(s, w, a), EndedBy(w, d, a),
           LET r == ResourceOf(s, a)
               u == w.attempts[a]
           IN
           /\ w.fences[r] >= s.fences[r]
           /\ u.fence <= w.fences[r]
           /\ u.fence = s.attempts[a].fence \/ u.fence > s.fences[r]
           /\ w.claims[r] # NoClaim => w.claims[r].fence = w.fences[r]
    PROVE  RowsMoved(s, d, a)
<1> DEFINE r == ResourceOf(s, a)
           t == s.attempts[a]
           f == w.attempts[a].fence
<1>1. Touches(s, d, a)
  BY TouchesAgain DEF EndedBy
<1>2. ResourceOf(w, a) = r /\ w.attempts[a].entry = t.entry /\ w.attempts[a].task = t.task
  BY DEF Touches, ResourceOf
<1>3. /\ Attached(w, a) /\ w \in Contents /\ IsAttempt(w, a) /\ s \in Contents
      /\ r \in Name /\ f \in Nat /\ w.fences[r] \in Nat /\ s.fences[r] \in Nat
  <2>1. Attached(w, a) /\ w \in Contents /\ IsAttempt(w, a) /\ s \in Contents
    BY StaysAttached DEF Attached
  <2>2. r \in Name /\ f \in Nat
    BY <2>1, <1>2, AttemptTypes
  <2> QED
    BY <2>1, <2>2, RowTypes
<1>4. ClaimMoved(s, d, a)
  <2>1. /\ d.attempts[a].state = "terminal" /\ d.attempts[a].fence = f
        /\ d.fences[r] = IF w.fences[r] = f THEN f + 1 ELSE w.fences[r]
        /\ d.claims[r] = IF w.claims[r] # NoClaim /\ w.claims[r].fence = f THEN NoClaim
                         ELSE w.claims[r]
    BY <1>2 DEF EndedBy
  <2> HIDE DEF r, f
  <2>2. d.fences[r] >= s.fences[r] /\ f < d.fences[r]
    BY <1>3, <2>1 DEF r, f
  <2>3. d.claims[r] # NoClaim => d.claims[r].fence = d.fences[r]
    BY <2>1 DEF r, f
  <2>4. f = t.fence \/ f > s.fences[r]
    BY DEF r, f
  <2> QED
    BY <2>1, <2>2, <2>3, <2>4 DEF ClaimMoved, Executing, r
<1>5. PlaceMoved(s, d, a)
  BY <1>2 DEF EndedBy, PlaceMoved
<1>6. EndsTogether(s, d, a)
  BY DEF EndedBy, EndsTogether
<1> QED
  BY <1>1, <1>4, <1>5, <1>6 DEF RowsMoved

\* What a command on attempt a keeps of another attempt, which is over or
\* executes another entry of another task.
OtherRowsKept(s, d, a, b) ==
    LET t == s.attempts[b] IN
    /\ IsAttempt(s, b) /\ d.attempts[b] = t /\ ResourceOf(d, b) = ResourceOf(s, b)
    /\ s.fences[ResourceOf(s, b)] <= d.fences[ResourceOf(s, b)]
    /\ t.state # "terminal" =>
         /\ t.task # s.attempts[a].task /\ t.entry # s.attempts[a].entry
         /\ d.entries[t.entry] = s.entries[t.entry]
         /\ d.reservations[t.task] = s.reservations[t.task]
         /\ d.claims[ResourceOf(s, b)] = s.claims[ResourceOf(s, b)]
         /\ d.fences[ResourceOf(s, b)] = s.fences[ResourceOf(s, b)]

LEMMA OtherRows ==
    ASSUME NEW s, NEW d, RowsAgree(s), NEW a \in AttemptId, ActiveIn(s, a),
           RowsMoved(s, d, a), NEW b \in AttemptId, b # a, IsAttempt(d, b)
    PROVE  OtherRowsKept(s, d, a, b)
<1> DEFINE t == s.attempts[b]
           r == ResourceOf(s, b)
<1>1. /\ IsAttempt(s, b) /\ d.attempts[b] = t /\ ResourceOf(d, b) = r
      /\ s \in Contents /\ IsAttempt(s, a)
  BY DEF RowsMoved, Touches, IsAttempt, ResourceOf, RowsAgree, ActiveIn
<1>2. /\ t.entry \in EntryId /\ t.task \in Entity /\ r \in Name /\ r = TypedName[t.task]
      /\ s.attempts[a].task \in Entity /\ ResourceOf(s, a) = TypedName[s.attempts[a].task]
      /\ ResourceOf(s, a) \in Name
  BY <1>1, AttemptTypes
<1>3. s.fences[r] <= d.fences[r]
  <2>1. s.fences[r] \in Nat
    BY <1>1, <1>2, RowTypes
  <2>2. CASE r = ResourceOf(s, a)
    BY <2>2 DEF RowsMoved, ClaimMoved
  <2>3. CASE r # ResourceOf(s, a)
    <3>1. d.fences[r] = s.fences[r]
      BY <1>2, <2>3 DEF RowsMoved, Touches
    <3> QED
      BY <2>1, <3>1
  <2> QED
    BY <2>2, <2>3
<1>4. ASSUME t.state # "terminal"
      PROVE  /\ t.task # s.attempts[a].task /\ t.entry # s.attempts[a].entry
             /\ r # ResourceOf(s, a)
  <2>1. t.task # s.attempts[a].task
    BY <1>1, <1>4 DEF RowsAgree, OneAtATime, ActiveIn
  <2>2. /\ s.entries[t.entry].task = t.task
        /\ s.entries[s.attempts[a].entry].task = s.attempts[a].task
    BY <1>1 DEF RowsAgree, AttemptsFit
  <2>3. t.entry # s.attempts[a].entry
    <3> HIDE DEF t
    <3> QED
      BY <2>1, <2>2
  <2> QED
    BY <1>2, <2>1, <2>3
<1>5. t.state # "terminal" =>
        /\ d.entries[t.entry] = s.entries[t.entry]
        /\ d.reservations[t.task] = s.reservations[t.task]
        /\ d.claims[r] = s.claims[r] /\ d.fences[r] = s.fences[r]
  BY <1>2, <1>4 DEF RowsMoved, Touches
<1> QED
  BY <1>1, <1>3, <1>4, <1>5 DEF OtherRowsKept

LEMMA MovedAttemptsFit ==
    ASSUME NEW s, NEW d, RowsAgree(s), NEW a \in AttemptId, ActiveIn(s, a),
           RowsMoved(s, d, a)
    PROVE  AttemptsFit(d)
<1> DEFINE t == s.attempts[a]
           i == t.entry
<1>1. /\ d \in Contents /\ s \in Contents /\ IsAttempt(s, a)
      /\ IsAttempt(d, a) /\ d.attempts[a].entry = i /\ d.attempts[a].task = t.task
      /\ d.attempts[a].pred = t.pred
      /\ d.entries[i] # NoRow /\ d.entries[i].task = t.task
      /\ \A j \in EntryId \ {i} : d.entries[j] = s.entries[j]
      /\ s.entries[i].task = t.task
  BY DEF RowsMoved, Touches, RowsAgree, AttemptsFit, ActiveIn, IsAttempt
<1>2. d.attempts[a].fence >= t.fence /\ t.fence \in Nat /\ d.attempts[a].fence \in Nat
  <2>1. t.fence \in Nat /\ d.attempts[a].fence \in Nat
    BY <1>1, AttemptTypes
  <2>2. t.fence <= s.fences[ResourceOf(s, a)] /\ s.fences[ResourceOf(s, a)] \in Nat
    BY <1>1, ActiveRows, AttemptTypes, RowTypes
  <2>3. d.attempts[a].fence = t.fence \/ d.attempts[a].fence > s.fences[ResourceOf(s, a)]
    BY DEF RowsMoved, ClaimMoved
  <2> QED
    BY <2>1, <2>2, <2>3
<1>3. ASSUME NEW b \in AttemptId, IsAttempt(d, b)
      PROVE  LET u == d.attempts[b] IN
             /\ d.entries[u.entry] # NoRow /\ d.entries[u.entry].task = u.task
             /\ u.state = "terminal" => u.left = 0
             /\ u.state # "terminal" => d.entries[u.entry].state = "admitted"
             /\ u.pred # NoRow => /\ IsAttempt(d, u.pred)
                                  /\ d.attempts[u.pred].entry = u.entry
                                  /\ d.attempts[u.pred].fence < u.fence
  <2> DEFINE u == d.attempts[b]
             p == u.pred
  <2>1. CASE b = a
    <3>1. u.state = "terminal" => u.left = 0
      BY <2>1 DEF RowsMoved, PlaceMoved
    <3>2. u.state # "terminal" => d.entries[u.entry].state = "admitted"
      BY <1>1, <2>1 DEF RowsMoved, PlaceMoved
    <3>3. ASSUME p # NoRow
          PROVE  IsAttempt(d, p) /\ d.attempts[p].entry = u.entry /\ d.attempts[p].fence < u.fence
      <4>1. p \in AttemptId /\ p = t.pred
        BY <1>1, <2>1, <3>3, AttemptTypes
      <4>2. IsAttempt(s, p) /\ s.attempts[p].entry = i /\ s.attempts[p].fence < t.fence
        BY <1>1, <3>3, <4>1 DEF RowsAgree, AttemptsFit
      <4>3. p # a
        <5>1. ~(t.fence < t.fence)
          BY <1>2
        <5> QED
          BY <4>2, <5>1
      <4>5. s.attempts[p].fence \in Nat
        BY <1>1, <4>1, <4>2, AttemptTypes
      <4>4. d.attempts[p] = s.attempts[p]
        BY <4>1, <4>3 DEF RowsMoved, Touches
      <4> QED
        BY <1>1, <1>2, <2>1, <4>2, <4>4, <4>5 DEF IsAttempt
    <3> QED
      BY <1>1, <2>1, <3>1, <3>2, <3>3
  <2>2. CASE b # a
    <3> DEFINE old == s.attempts[b]
    <3>8. OtherRowsKept(s, d, a, b)
      BY <1>3, <2>2, OtherRows
    <3>7. /\ IsAttempt(s, b) /\ u = old
          /\ old.state # "terminal" => d.entries[old.entry] = s.entries[old.entry]
      BY <3>8 DEF OtherRowsKept
    <3>1. /\ IsAttempt(s, b) /\ u = old
          /\ u.state # "terminal" => d.entries[u.entry] = s.entries[u.entry]
      BY <3>7
    <3>2. /\ s.entries[u.entry] # NoRow /\ s.entries[u.entry].task = u.task
          /\ u.state = "terminal" => u.left = 0
          /\ u.state # "terminal" => s.entries[u.entry].state = "admitted"
          /\ p # NoRow => /\ IsAttempt(s, p) /\ s.attempts[p].entry = u.entry
                          /\ s.attempts[p].fence < u.fence
      BY <3>1 DEF RowsAgree, AttemptsFit
    <3>3. u.entry \in EntryId /\ p \in AttemptId \cup {NoRow} /\ u.fence \in Nat
      BY <1>1, <1>3, AttemptTypes
    <3>4. d.entries[u.entry] # NoRow /\ d.entries[u.entry].task = u.task
      <4>1. CASE u.entry = i
        BY <1>1, <3>2, <4>1
      <4>2. CASE u.entry # i
        BY <1>1, <3>2, <3>3, <4>2
      <4> QED
        BY <4>1, <4>2
    <3>5. ASSUME p # NoRow
          PROVE  IsAttempt(d, p) /\ d.attempts[p].entry = u.entry /\ d.attempts[p].fence < u.fence
      <4>1. p \in AttemptId
        BY <3>3, <3>5
      <4>2. CASE p # a
        <5>1. d.attempts[p] = s.attempts[p]
          BY <4>1, <4>2 DEF RowsMoved, Touches
        <5> QED
          BY <3>2, <3>5, <5>1 DEF IsAttempt
      <4>3. CASE p = a
        \* A later attempt of the same entry would mean that a is over.
        <5>1. s.attempts[a].entry = u.entry /\ t.fence < u.fence
          BY <3>2, <3>5, <4>3
        <5>2. u.fence > t.fence
          <6> HIDE DEF u, t
          <6> QED
            BY <1>2, <3>3, <5>1
        <5>3. s.attempts[b].entry = s.attempts[a].entry
              /\ s.attempts[b].fence > s.attempts[a].fence
          BY <3>1, <5>1, <5>2
        <5>4. s.attempts[a].state = "terminal"
          BY <1>1, <2>2, <3>1, <5>3 DEF RowsAgree, FencesFit
        <5> QED
          BY <5>4 DEF ActiveIn
      <4> QED
        BY <4>2, <4>3
    <3>6. u.state # "terminal" => d.entries[u.entry].state = "admitted"
      BY <3>1, <3>2
    <3> QED
      BY <3>2, <3>4, <3>5, <3>6
  <2> QED
    BY <2>1, <2>2
<1> QED
  BY <1>3 DEF AttemptsFit

\* The rows of a itself, and those it leaves alone.
OwnRows(s, d, a, i, e, r) ==
    /\ s \in Contents /\ d \in Contents /\ IsAttempt(s, a) /\ IsAttempt(d, a)
    /\ i = s.attempts[a].entry /\ e = s.attempts[a].task /\ r = ResourceOf(s, a)
    /\ i \in EntryId /\ e \in Entity /\ r \in Name /\ r = TypedName[e]
    /\ d.attempts[a].entry = i /\ d.attempts[a].task = e /\ ResourceOf(d, a) = r
    /\ s.entries[i] # NoRow /\ s.entries[i].task = e /\ s.entries[i].state = "admitted"
    /\ d.entries[i] # NoRow /\ d.entries[i].task = e
    /\ \A j \in EntryId \ {i} : d.entries[j] = s.entries[j]
    /\ \A x \in Entity \ {e} : d.reservations[x] = s.reservations[x]
    /\ \A b \in AttemptId \ {a} : d.attempts[b] = s.attempts[b]
    /\ d.attempts[a].state # "terminal" => d.entries[i].state = "admitted"
    /\ d.attempts[a].state = "terminal" => d.entries[i].state # "admitted"

LEMMA OwnRowsMove ==
    ASSUME NEW s, NEW d, RowsAgree(s), NEW a \in AttemptId, ActiveIn(s, a),
           RowsMoved(s, d, a)
    PROVE  OwnRows(s, d, a, s.attempts[a].entry, s.attempts[a].task, ResourceOf(s, a))
<1>1. s \in Contents /\ IsAttempt(s, a)
  BY DEF RowsAgree, ActiveIn
<1>2. /\ s.attempts[a].entry \in EntryId /\ s.attempts[a].task \in Entity
      /\ ResourceOf(s, a) \in Name /\ ResourceOf(s, a) = TypedName[s.attempts[a].task]
  BY <1>1, AttemptTypes
<1>3. /\ s.entries[s.attempts[a].entry] # NoRow
      /\ s.entries[s.attempts[a].entry].task = s.attempts[a].task
      /\ s.entries[s.attempts[a].entry].state = "admitted"
  BY <1>1 DEF RowsAgree, AttemptsFit, ActiveIn
<1> QED
  BY <1>1, <1>2, <1>3 DEF RowsMoved, Touches, PlaceMoved, IsAttempt, ResourceOf, OwnRows

\* An unfinished entry was unfinished, and an unfinished attempt was.
NothingBegins(s, d) ==
    /\ \A j \in EntryId :
          /\ s.entries[j] = NoRow <=> d.entries[j] = NoRow
          /\ d.entries[j] # NoRow => d.entries[j].task = s.entries[j].task
          /\ UnfinishedIn(d, j) =>
                UnfinishedIn(s, j) /\ s.entries[j].task = d.entries[j].task
    /\ \A b \in AttemptId :
          /\ IsAttempt(s, b) <=> IsAttempt(d, b)
          /\ IsAttempt(d, b) => d.attempts[b].task = s.attempts[b].task
                                /\ d.attempts[b].entry = s.attempts[b].entry
          /\ ActiveIn(d, b) => ActiveIn(s, b) /\ s.attempts[b].task = d.attempts[b].task

LEMMA StillUnfinished ==
    ASSUME NEW s, NEW d, RowsAgree(s), NEW a \in AttemptId, ActiveIn(s, a),
           RowsMoved(s, d, a)
    PROVE  NothingBegins(s, d)
<1>0. PICK i, e, r : OwnRows(s, d, a, i, e, r)
  BY OwnRowsMove
<1>1. ASSUME NEW j \in EntryId
      PROVE  /\ s.entries[j] = NoRow <=> d.entries[j] = NoRow
             /\ d.entries[j] # NoRow => d.entries[j].task = s.entries[j].task
             /\ UnfinishedIn(d, j) =>
                  UnfinishedIn(s, j) /\ s.entries[j].task = d.entries[j].task
  <2>1. CASE j = i
    BY <1>0, <2>1 DEF OwnRows, UnfinishedIn, Unfinished
  <2>2. CASE j # i
    <3>1. d.entries[j] = s.entries[j]
      BY <1>0, <2>2 DEF OwnRows
    <3> QED
      BY <3>1 DEF UnfinishedIn
  <2> QED
    BY <2>1, <2>2
<1>2. ASSUME NEW b \in AttemptId
      PROVE  /\ IsAttempt(s, b) <=> IsAttempt(d, b)
             /\ IsAttempt(d, b) => d.attempts[b].task = s.attempts[b].task
                                   /\ d.attempts[b].entry = s.attempts[b].entry
             /\ ActiveIn(d, b) => ActiveIn(s, b) /\ s.attempts[b].task = d.attempts[b].task
  <2>1. CASE b = a
    BY <1>0, <2>1 DEF OwnRows
  <2>2. CASE b # a
    <3>1. d.attempts[b] = s.attempts[b]
      BY <1>0, <2>2 DEF OwnRows
    <3> QED
      BY <3>1 DEF ActiveIn, IsAttempt
  <2> QED
    BY <2>1, <2>2
<1> QED
  BY <1>1, <1>2 DEF NothingBegins

LEMMA MovedOneAtATime ==
    ASSUME NEW s, NEW d, RowsAgree(s), NEW a \in AttemptId, ActiveIn(s, a),
           RowsMoved(s, d, a)
    PROVE  OneAtATime(d)
<1>0. PICK k, e, r : OwnRows(s, d, a, k, e, r)
  BY OwnRowsMove
<1>9. NothingBegins(s, d)
  BY StillUnfinished
<1>1. ASSUME NEW i \in EntryId, NEW j \in EntryId,
             UnfinishedIn(d, i), UnfinishedIn(d, j), d.entries[i].task = d.entries[j].task
      PROVE  i = j
  <2>1. /\ UnfinishedIn(s, i) /\ UnfinishedIn(s, j)
        /\ s.entries[i].task = s.entries[j].task
    BY <1>1, <1>9 DEF NothingBegins
  <2> QED
    BY <2>1 DEF RowsAgree, OneAtATime
<1>2. ASSUME NEW b \in AttemptId, NEW c \in AttemptId, ActiveIn(d, b), ActiveIn(d, c),
             d.attempts[b].task = d.attempts[c].task
      PROVE  b = c
  <2>1. /\ ActiveIn(s, b) /\ ActiveIn(s, c)
        /\ s.attempts[b].task = s.attempts[c].task
    BY <1>2, <1>9 DEF NothingBegins
  <2> QED
    BY <2>1 DEF RowsAgree, OneAtATime
<1>3. ASSUME NEW i \in EntryId, d.entries[i] # NoRow, d.entries[i].state = "admitted"
      PROVE  \E b \in AttemptId : ActiveIn(d, b) /\ d.attempts[b].entry = i
  <2>1. CASE i = k
    BY <1>0, <1>3, <2>1 DEF OwnRows, ActiveIn
  <2>2. CASE i # k
    <3>1. d.entries[i] = s.entries[i]
      BY <1>0, <2>2 DEF OwnRows
    <3>2. PICK b \in AttemptId : ActiveIn(s, b) /\ s.attempts[b].entry = i
      BY <1>3, <3>1 DEF RowsAgree, OneAtATime
    <3>3. d.attempts[b] = s.attempts[b]
      BY <1>0, <2>2, <3>2 DEF OwnRows
    <3> QED
      BY <3>2, <3>3 DEF ActiveIn, IsAttempt
  <2> QED
    BY <2>1, <2>2
<1> QED
  BY <1>1, <1>2, <1>3 DEF OneAtATime

LEMMA MovedPlacesFit ==
    ASSUME NEW s, NEW d, RowsAgree(s), NEW a \in AttemptId, ActiveIn(s, a),
           RowsMoved(s, d, a)
    PROVE  PlacesFit(d)
<1>0. PICK i, e, r : OwnRows(s, d, a, i, e, r)
  BY OwnRowsMove
<1>9. NothingBegins(s, d)
  BY StillUnfinished
<1> DEFINE u == d.attempts[a]
<1>1. ASSUME NEW x \in Entity, d.reservations[x] # NoRow
      PROVE  LET k == d.reservations[x].entry IN
             /\ UnfinishedIn(d, k) /\ d.entries[k].task = x
             /\ d.reservations[x].held =>
                    \E b \in AttemptId : /\ ActiveIn(d, b) /\ d.attempts[b].task = x
                                         /\ d.attempts[b].state \in Holding
  <2> DEFINE k == d.reservations[x].entry
  <2>1. CASE x = e
    <3>1. k = i /\ (d.entries[i].state = "admitted" \/ d.entries[i].state = "queued")
      BY <1>0, <1>1, <2>1 DEF OwnRows, RowsMoved, PlaceMoved
    <3>2. d.reservations[x].held => u.state # "terminal" /\ u.state \in Holding
      BY <1>0, <1>1, <2>1 DEF OwnRows, RowsMoved, PlaceMoved
    <3>3. UnfinishedIn(d, k) /\ d.entries[k].task = x
      BY <1>0, <3>1, <2>1 DEF OwnRows, UnfinishedIn, Unfinished
    <3>4. u.state # "terminal" => ActiveIn(d, a) /\ u.task = x
      BY <1>0, <2>1 DEF OwnRows, ActiveIn
    <3> QED
      BY <3>2, <3>3, <3>4
  <2>2. CASE x # e
    <3>1. d.reservations[x] = s.reservations[x]
      BY <1>0, <2>2 DEF OwnRows
    <3>2. /\ UnfinishedIn(s, k) /\ s.entries[k].task = x
          /\ d.reservations[x].held =>
                \E b \in AttemptId : /\ ActiveIn(s, b) /\ s.attempts[b].task = x
                                     /\ s.attempts[b].state \in Holding
      BY <1>1, <3>1 DEF RowsAgree, PlacesFit
    <3>3. k \in EntryId
      BY <1>1, <1>0, RowTypes DEF OwnRows, ReservationRow
    <3>4. k # i
      BY <1>0, <2>2, <3>2 DEF OwnRows
    <3>5. d.entries[k] = s.entries[k]
      BY <1>0, <3>3, <3>4 DEF OwnRows
    <3>6. ASSUME NEW b \in AttemptId, ActiveIn(s, b), s.attempts[b].task = x
          PROVE  ActiveIn(d, b) /\ d.attempts[b] = s.attempts[b]
      <4>1. b # a
        BY <1>0, <2>2, <3>6 DEF OwnRows
      <4> QED
        BY <1>0, <3>6, <4>1 DEF OwnRows, ActiveIn, IsAttempt
    <3>7. UnfinishedIn(d, k) /\ d.entries[k].task = x
      BY <3>2, <3>5 DEF UnfinishedIn
    <3> QED
      BY <3>2, <3>6, <3>7
  <2> QED
    BY <2>1, <2>2
<1>2. ASSUME NEW b \in AttemptId, ActiveIn(d, b)
      PROVE  LET row == d.reservations[d.attempts[b].task] IN
             row # NoRow /\ (row.held <=> d.attempts[b].state \in Holding)
  <2>1. CASE b = a
    BY <1>0, <1>2, <2>1 DEF OwnRows, RowsMoved, PlaceMoved, ActiveIn
  <2>2. CASE b # a
    <3>0. OtherRowsKept(s, d, a, b)
      BY <1>2, <2>2, OtherRows DEF ActiveIn
    <3>1. /\ ActiveIn(s, b) /\ d.attempts[b] = s.attempts[b]
          /\ d.reservations[s.attempts[b].task] = s.reservations[s.attempts[b].task]
      BY <1>2, <3>0 DEF ActiveIn, OtherRowsKept
    <3> QED
      BY <3>1 DEF RowsAgree, PlacesFit
  <2> QED
    BY <2>1, <2>2
<1>3. ASSUME NEW j \in EntryId, NEW b \in AttemptId, UnfinishedIn(d, j), IsAttempt(d, b),
             d.attempts[b].entry = j, d.attempts[b].accepted
      PROVE  d.reservations[d.entries[j].task] # NoRow
  <2>1. UnfinishedIn(s, j) /\ d.entries[j].task = s.entries[j].task /\ IsAttempt(s, b)
        /\ s.attempts[b].entry = j
    BY <1>3, <1>9 DEF NothingBegins
  <2>2. CASE j = i
    <3>1. d.reservations[e] = NoRow => d.entries[i].state # "queued"
      <4>1. b \in AttemptsOf(d, i)
        BY <1>3, <2>2 DEF AttemptsOf
      <4> QED
        BY <1>0, <4>1, <1>3 DEF OwnRows, RowsMoved, PlaceMoved
    <3>2. d.reservations[e] = NoRow => d.entries[i].state # "admitted"
      BY <1>0 DEF OwnRows, RowsMoved, PlaceMoved
    <3> QED
      BY <1>0, <1>3, <2>2, <3>1, <3>2 DEF OwnRows, UnfinishedIn, Unfinished
  <2>3. CASE j # i
    <3>1. s.entries[j].task # e
      <4>1. UnfinishedIn(s, i) /\ s.entries[i].task = e /\ i \in EntryId
        BY <1>0 DEF OwnRows, UnfinishedIn, Unfinished
      <4> QED
        BY <2>1, <2>3, <4>1 DEF RowsAgree, OneAtATime
    <3>2. s.entries[j].task \in Entity
      BY <2>1, <1>0, RowTypes DEF OwnRows, UnfinishedIn, EntryRow
    <3>3. d.reservations[s.entries[j].task] = s.reservations[s.entries[j].task]
      BY <1>0, <3>1, <3>2 DEF OwnRows
    <3>4. b # a /\ s.attempts[b] = d.attempts[b]
      BY <1>0, <1>3, <2>3 DEF OwnRows
    <3>5. s.reservations[s.entries[j].task] # NoRow
      BY <1>3, <2>1, <3>4 DEF RowsAgree, PlacesFit
    <3> QED
      BY <2>1, <3>3, <3>5
  <2> QED
    BY <2>2, <2>3
<1> QED
  BY <1>1, <1>2, <1>3 DEF PlacesFit

\* The fence of a moved attempt does not go back.
LEMMA MovedFence ==
    ASSUME NEW s, NEW d, RowsAgree(s), NEW a \in AttemptId, ActiveIn(s, a),
           RowsMoved(s, d, a)
    PROVE  /\ s.attempts[a].fence \in Nat /\ d.attempts[a].fence \in Nat
           /\ s.attempts[a].fence <= d.attempts[a].fence
<1>0. PICK i, e, r : OwnRows(s, d, a, i, e, r)
  BY OwnRowsMove
<1>1. s.attempts[a].fence \in Nat /\ d.attempts[a].fence \in Nat /\ s.fences[r] \in Nat
  BY <1>0, AttemptTypes, RowTypes DEF OwnRows
<1>2. s.attempts[a].fence <= s.fences[ResourceOf(s, a)]
  BY ActiveRows
<1>3. d.attempts[a].fence = s.attempts[a].fence \/ d.attempts[a].fence > s.fences[ResourceOf(s, a)]
  BY DEF RowsMoved, ClaimMoved
<1> QED
  BY <1>0, <1>1, <1>2, <1>3 DEF OwnRows

LEMMA MovedClaimsFit ==
    ASSUME NEW s, NEW d, RowsAgree(s), NEW a \in AttemptId, ActiveIn(s, a),
           RowsMoved(s, d, a)
    PROVE  ClaimsFit(d)
<1>0. PICK i, e, r : OwnRows(s, d, a, i, e, r)
  BY OwnRowsMove
<1>1. ASSUME NEW n \in Name, d.claims[n] # NoClaim
      PROVE  d.claims[n].fence = d.fences[n]
  <2>1. CASE n = r
    BY <1>0, <1>1, <2>1 DEF OwnRows, RowsMoved, ClaimMoved
  <2>2. CASE n # r
    <3>1. d.claims[n] = s.claims[n] /\ d.fences[n] = s.fences[n]
      BY <1>0, <2>2 DEF OwnRows, RowsMoved, Touches
    <3> QED
      BY <1>1, <3>1 DEF RowsAgree, ClaimsFit
  <2> QED
    BY <2>1, <2>2
<1>2. ASSUME NEW b \in AttemptId, IsAttempt(d, b)
      PROVE  LET t == d.attempts[b]
                 c == d.claims[ResourceOf(d, b)]
                 f == d.fences[ResourceOf(d, b)]
             IN IF t.state \in Executing
                THEN t.fence = f /\ (c = GrantOf(t) \/ (c = NoClaim /\ t.left = 0))
                ELSE t.fence < f /\ (t.state # "terminal" => ~Live(c))
  <2> DEFINE t == d.attempts[b]
             c == d.claims[ResourceOf(d, b)]
             f == d.fences[ResourceOf(d, b)]
  <2>1. CASE b = a
    BY <1>0, <2>1 DEF OwnRows, RowsMoved, ClaimMoved
  <2>2. CASE b # a
    <3> DEFINE q == ResourceOf(s, b)
    <3>1. /\ IsAttempt(s, b) /\ t = s.attempts[b] /\ ResourceOf(d, b) = q
          /\ s.fences[q] <= d.fences[q]
          /\ t.state # "terminal" => d.claims[q] = s.claims[q] /\ d.fences[q] = s.fences[q]
      <4>1. /\ IsAttempt(s, b) /\ d.attempts[b] = s.attempts[b] /\ ResourceOf(d, b) = q
            /\ s.fences[q] <= d.fences[q]
            /\ s.attempts[b].state # "terminal" =>
                  d.claims[q] = s.claims[q] /\ d.fences[q] = s.fences[q]
        <5>1. OtherRowsKept(s, d, a, b)
          BY <1>2, <2>2, OtherRows
        <5> QED
          BY <5>1 DEF OtherRowsKept
      <4> QED
        BY <4>1
    <3>2. IF t.state \in Executing
          THEN t.fence = s.fences[q]
               /\ (s.claims[q] = GrantOf(t) \/ (s.claims[q] = NoClaim /\ t.left = 0))
          ELSE t.fence < s.fences[q] /\ (t.state # "terminal" => ~Live(s.claims[q]))
      BY <3>1 DEF RowsAgree, ClaimsFit
    <3>3. t.fence \in Nat /\ s.fences[q] \in Nat /\ d.fences[q] \in Nat
      <4>1. s \in Contents /\ d \in Contents
        BY <1>0 DEF OwnRows
      <4>2. t.fence \in Nat /\ q \in Name
        BY <4>1, <3>1, AttemptTypes
      <4> QED
        BY <4>1, <4>2, RowTypes
    <3> HIDE DEF t, q
    <3>4. CASE t.state \in Executing
      <4>1. t.state # "terminal"
        BY <3>4 DEF Executing
      <4> QED
        BY <3>1, <3>2, <3>4, <4>1 DEF t
    <3>5. CASE t.state \notin Executing
      BY <3>1, <3>2, <3>3, <3>5 DEF t
    <3> QED
      BY <3>4, <3>5 DEF t
  <2> QED
    BY <2>1, <2>2
<1> QED
  BY <1>1, <1>2 DEF ClaimsFit

\* Other attempts of the entry of an unfinished one are over and came before it.
LEMMA EarlierAreOver ==
    ASSUME NEW s, RowsAgree(s), NEW a \in AttemptId, ActiveIn(s, a),
           NEW b \in AttemptId, b # a, IsAttempt(s, b),
           s.attempts[b].entry = s.attempts[a].entry
    PROVE  /\ s.attempts[b].state = "terminal"
           /\ s.attempts[b].fence < s.attempts[a].fence
           /\ s.attempts[a].pred # NoRow
<1>1. IsAttempt(s, a) /\ s.attempts[a].state # "terminal" /\ s \in Contents
  BY DEF ActiveIn, RowsAgree
<1>2. s.attempts[a].fence \in Nat /\ s.attempts[b].fence \in Nat
  BY <1>1, AttemptTypes
<1>3. /\ s.attempts[a].fence # s.attempts[b].fence
      /\ s.attempts[a].fence > s.attempts[b].fence
            => s.attempts[b].state = "terminal" /\ s.attempts[a].pred # NoRow
      /\ s.attempts[b].fence > s.attempts[a].fence => s.attempts[a].state = "terminal"
  BY <1>1 DEF RowsAgree, FencesFit
<1> QED
  BY <1>1, <1>2, <1>3

LEMMA MovedFencesFit ==
    ASSUME NEW s, NEW d, RowsAgree(s), NEW a \in AttemptId, ActiveIn(s, a),
           RowsMoved(s, d, a)
    PROVE  FencesFit(d)
<1>0. PICK i, e, r : OwnRows(s, d, a, i, e, r)
  BY OwnRowsMove
<1>1. d.attempts[a].fence \in Nat /\ s.attempts[a].fence \in Nat
      /\ s.attempts[a].fence <= d.attempts[a].fence
      /\ d.attempts[a].pred = s.attempts[a].pred
  BY MovedFence DEF RowsMoved, Touches
<1>2. ASSUME NEW b \in AttemptId, IsAttempt(d, b), b # a, d.attempts[b].entry = i
      PROVE  /\ d.attempts[b].fence # d.attempts[a].fence
             /\ ~(d.attempts[b].fence > d.attempts[a].fence)
             /\ d.attempts[b].state = "terminal" /\ d.attempts[a].pred # NoRow
  <2>1. d.attempts[b] = s.attempts[b] /\ IsAttempt(s, b) /\ s.attempts[b].entry = s.attempts[a].entry
    BY <1>0, <1>2 DEF OwnRows, IsAttempt
  <2>2. /\ s.attempts[b].state = "terminal"
        /\ s.attempts[b].fence < s.attempts[a].fence
        /\ s.attempts[a].pred # NoRow
    BY <1>2, <2>1, EarlierAreOver
  <2>3. s.attempts[b].fence \in Nat
    BY <1>0, <2>1, AttemptTypes DEF OwnRows
  <2> QED
    BY <1>1, <2>1, <2>2, <2>3
<1>3. ASSUME NEW b \in AttemptId, NEW c \in AttemptId, IsAttempt(d, b), IsAttempt(d, c), b # c,
             d.attempts[b].entry = d.attempts[c].entry
      PROVE  /\ d.attempts[b].fence # d.attempts[c].fence
             /\ d.attempts[b].fence > d.attempts[c].fence
                  => d.attempts[c].state = "terminal" /\ d.attempts[b].pred # NoRow
  <2>1. CASE b = a
    BY <1>0, <1>2, <1>3, <2>1 DEF OwnRows
  <2>2. CASE c = a
    BY <1>0, <1>2, <1>3, <2>2 DEF OwnRows
  <2>3. CASE b # a /\ c # a
    <3>1. d.attempts[b] = s.attempts[b] /\ d.attempts[c] = s.attempts[c]
      BY <1>0, <2>3 DEF OwnRows
    <3> QED
      BY <1>3, <3>1 DEF RowsAgree, FencesFit, IsAttempt
  <2> QED
    BY <2>1, <2>2, <2>3
<1> QED
  BY <1>3 DEF FencesFit

LEMMA MovedQuestionsFit ==
    ASSUME NEW s, NEW d, RowsAgree(s), NEW a \in AttemptId, ActiveIn(s, a),
           RowsMoved(s, d, a)
    PROVE  QuestionsFit(d)
<1>0. PICK i, e, r : OwnRows(s, d, a, i, e, r)
  BY OwnRowsMove
<1>1. ASSUME NEW q \in Question, d.questions[q] # NoRow
      PROVE  LET row == d.questions[q]
                 t == d.attempts[row.attempt]
             IN
             /\ IsAttempt(d, row.attempt) /\ t.accepted /\ row.fence <= t.fence
             /\ row.state = "open" =>
                  /\ row.valid /\ t.state # "terminal" /\ ~t.cancel
                  /\ row.fence = t.fence
  <2> DEFINE old == s.questions[q]
             row == d.questions[q]
             b == row.attempt
             t == s.attempts[b]
             u == d.attempts[b]
  <2>1. /\ old # NoRow /\ b = old.attempt /\ row.fence = old.fence
        /\ row.state = "open" => old.state = "open" /\ row.valid
    BY <1>1 DEF RowsMoved, Touches, QuestionsMoved
  <2>2. /\ IsAttempt(s, b) /\ t.accepted /\ row.fence <= t.fence
        /\ old.state = "open" =>
              /\ t.state # "terminal" /\ ~t.cancel /\ row.fence = t.fence
    BY <2>1 DEF RowsAgree, QuestionsFit
  <2>3. b \in AttemptId /\ row.fence \in Nat
    BY <1>0, <1>1, RowTypes DEF OwnRows, QuestionRow
  <2>4. CASE b = a
    <3>1. IsAttempt(d, a) /\ d.attempts[a].accepted
      BY <1>0, <2>2, <2>4 DEF OwnRows, RowsMoved, Touches
    <3>2. row.fence <= d.attempts[a].fence
      <4>1. /\ s.attempts[a].fence \in Nat /\ d.attempts[a].fence \in Nat
            /\ s.attempts[a].fence <= d.attempts[a].fence
        BY MovedFence
      <4>2. row.fence <= s.attempts[a].fence
        BY <2>2, <2>4
      <4> HIDE DEF row
      <4> QED
        BY <2>3, <4>1, <4>2
    <3>3. ASSUME row.state = "open"
          PROVE  /\ row.valid /\ d.attempts[a].state # "terminal" /\ ~d.attempts[a].cancel
                 /\ row.fence = d.attempts[a].fence
      <4>1. ~NoneOpen(d, a)
        BY <1>1, <2>4, <3>3 DEF NoneOpen
      <4>2. /\ d.attempts[a].fence = s.attempts[a].fence /\ d.attempts[a].state # "terminal"
            /\ d.attempts[a].cancel => s.attempts[a].cancel
        BY <4>1 DEF RowsMoved, EndsTogether
      <4> QED
        BY <2>1, <2>2, <2>4, <3>3, <4>2
    <3> QED
      BY <2>4, <3>1, <3>2, <3>3
  <2>5. CASE b # a
    <3>1. u = t
      BY <1>0, <2>3, <2>5 DEF OwnRows
    <3> HIDE DEF b
    <3>2. IsAttempt(d, b)
      BY <2>2, <3>1 DEF IsAttempt
    <3> QED
      BY <2>1, <2>2, <3>1, <3>2 DEF b
  <2> QED
    BY <2>4, <2>5
<1> QED
  BY <1>1 DEF QuestionsFit

LEMMA MovedRowsAreFew ==
    ASSUME NEW s, NEW d, RowsAgree(s), NEW a \in AttemptId, ActiveIn(s, a),
           RowsMoved(s, d, a)
    PROVE  RowsAreFew(d)
<1>0. PICK i, e, r : OwnRows(s, d, a, i, e, r)
  BY OwnRowsMove
<1>9. NothingBegins(s, d)
  BY StillUnfinished
<1> DEFINE old == {x \in Entity : s.reservations[x] # NoRow}
           new == {x \in Entity : d.reservations[x] # NoRow}
<1>1. {b \in AttemptId : IsAttempt(d, b)} = {b \in AttemptId : IsAttempt(s, b)}
  BY <1>9 DEF NothingBegins
<1>2. s.reservations[e] # NoRow
  <2>1. e = s.attempts[a].task
    BY <1>0 DEF OwnRows
  <2>2. s.reservations[s.attempts[a].task] # NoRow
    BY ActiveRows
  <2> QED
    BY <2>1, <2>2
<1>3. new \subseteq old
  BY <1>0, <1>2 DEF OwnRows
<1>4. IsFiniteSet(new)
  <2>1. IsFiniteSet(old)
    BY DEF RowsAgree, RowsAreFew
  <2> HIDE DEF old, new
  <2> QED
    BY <1>3, <2>1, FS_Subset
<1> QED
  BY <1>1, <1>4 DEF RowsAgree, RowsAreFew

\* A command that moves the rows of an unfinished attempt keeps all rows in
\* agreement.
LEMMA MovedRowsAgree ==
    ASSUME NEW s, NEW d, RowsAgree(s), NEW a \in AttemptId, ActiveIn(s, a),
           RowsMoved(s, d, a)
    PROVE  RowsAgree(d)
<1>1. d \in Contents
  BY DEF RowsMoved, Touches
<1>2. TasksExist(d)
  <2> SUFFICES ASSUME NEW i \in EntryId, d.entries[i] # NoRow
               PROVE  d.work[d.entries[i].task] # "absent"
    BY DEF TasksExist
  <2> DEFINE t == s.attempts[a]
  <2>1. OwnRows(s, d, a, t.entry, t.task, ResourceOf(s, a))
    BY OwnRowsMove
  <2>2. s.entries[i] # NoRow /\ d.entries[i].task = s.entries[i].task
    BY <2>1 DEF OwnRows
  <2>3. s.work[s.entries[i].task] # "absent" /\ s.entries[i].task \in Entity
    <3>1. s \in Contents
      BY DEF RowsAgree
    <3>2. s.entries[i].task \in Entity
      BY <2>2, <3>1, RowTypes DEF EntryRow
    <3> QED
      BY <2>2, <3>2 DEF RowsAgree, TasksExist
  <2>4. d.work[s.entries[i].task] # "absent"
    <3> DEFINE x == s.entries[i].task
    <3>1. x = t.task => (s.work[x] # "absent" => d.work[x] # "absent")
      BY DEF RowsMoved, Touches
    <3>2. x # t.task => d.work[x] = s.work[x]
      BY <2>3 DEF RowsMoved, Touches
    <3> QED
      BY <2>3, <3>1, <3>2
  <2> QED
    BY <2>2, <2>4
<1> QED
  BY <1>1, <1>2, MovedAttemptsFit, MovedOneAtATime, MovedPlacesFit, MovedClaimsFit,
     MovedFencesFit, MovedQuestionsFit, MovedRowsAreFew DEF RowsAgree

-----------------------------------------------------------------------------
(* The commands on an unfinished attempt, one by one.                      *)

SetAttempt(w, a, u) == [w EXCEPT !.attempts[a] = u]
SetPlace(w, e, place) == [w EXCEPT !.reservations[e] = place]
SetEntry(w, i, entry) == [w EXCEPT !.entries[i] = entry]

\* Attempt row u is one that t may become.
Becomes(t, u) ==
    /\ u \in AttemptRow
    /\ u.entry = t.entry /\ u.task = t.task /\ u.pred = t.pred
    /\ t.accepted => u.accepted
    /\ t.cancel => u.cancel
    /\ u.state = "reserved" => t.state = "reserved"

\* What each of the three does to contents w, on the way from s.
AttemptSet(s, w, a, u) ==
    LET d == SetAttempt(w, a, u) IN
    /\ Touches(s, d, a) /\ d.attempts[a] = u
    /\ d.entries = w.entries /\ d.reservations = w.reservations
    /\ d.claims = w.claims /\ d.fences = w.fences /\ d.work = w.work
    /\ d.questions = w.questions

PlaceSet(s, w, a, place) ==
    LET d == SetPlace(w, s.attempts[a].task, place) IN
    /\ Touches(s, d, a) /\ d.reservations[s.attempts[a].task] = place
    /\ d.entries = w.entries /\ d.attempts = w.attempts
    /\ d.claims = w.claims /\ d.fences = w.fences /\ d.work = w.work
    /\ d.questions = w.questions

EntrySet(s, w, a, entry) ==
    LET d == SetEntry(w, s.attempts[a].entry, entry) IN
    /\ Touches(s, d, a) /\ d.entries[s.attempts[a].entry] = entry
    /\ d.attempts = w.attempts /\ d.reservations = w.reservations
    /\ d.claims = w.claims /\ d.fences = w.fences /\ d.work = w.work
    /\ d.questions = w.questions

LEMMA SetAttemptRows ==
    ASSUME NEW s, NEW w, NEW a \in AttemptId, Attached(s, a), Touches(s, w, a), NEW u,
           Becomes(s.attempts[a], u)
    PROVE  AttemptSet(s, w, a, u)
<1> DEFINE A == [w.attempts EXCEPT ![a] = u]
           d == SetAttempt(w, a, u)
<1>1. w \in Contents /\ u \in AttemptRow /\ u # NoRow
  BY DEF Touches, Becomes
<1>2. /\ A \in [AttemptId -> AttemptRow \cup {NoRow}]
      /\ A[a] = u /\ \A b \in AttemptId \ {a} : A[b] = w.attempts[b]
  BY <1>1 DEF Contents
<1>3. d = [w EXCEPT !.attempts = A]
  BY <1>1 DEF SetAttempt, Contents
<1> HIDE DEF A
<1>4. /\ d \in Contents /\ d.attempts = A
      /\ d.entries = w.entries /\ d.reservations = w.reservations
      /\ d.claims = w.claims /\ d.fences = w.fences /\ d.work = w.work
      /\ d.questions = w.questions
  BY <1>1, <1>2, <1>3 DEF Contents
<1> HIDE DEF d
<1>5. QuestionsMoved(s, d)
  BY <1>4 DEF Touches, QuestionsMoved
<1>6. Touches(s, d, a)
  BY <1>1, <1>2, <1>4, <1>5 DEF Touches, Becomes
<1> QED
  BY <1>2, <1>4, <1>6 DEF d, AttemptSet

LEMMA SetPlaceRows ==
    ASSUME NEW s, NEW w, NEW a \in AttemptId, Attached(s, a), Touches(s, w, a),
           NEW place, place \in ReservationRow \cup {NoRow}
    PROVE  PlaceSet(s, w, a, place)
<1> DEFINE e == s.attempts[a].task
           P == [w.reservations EXCEPT ![e] = place]
           d == SetPlace(w, e, place)
<1>1. w \in Contents /\ e \in Entity
  BY AttemptTypes DEF Touches, Attached
<1>2. /\ P \in [Entity -> ReservationRow \cup {NoRow}]
      /\ P[e] = place /\ \A x \in Entity \ {e} : P[x] = w.reservations[x]
  BY <1>1 DEF Contents
<1>3. d = [w EXCEPT !.reservations = P]
  BY <1>1 DEF SetPlace, Contents
<1> HIDE DEF P
<1>4. /\ d \in Contents /\ d.reservations = P
      /\ d.entries = w.entries /\ d.attempts = w.attempts
      /\ d.claims = w.claims /\ d.fences = w.fences /\ d.work = w.work
      /\ d.questions = w.questions
  BY <1>1, <1>2, <1>3 DEF Contents
<1> HIDE DEF d
<1>5. QuestionsMoved(s, d)
  BY <1>4 DEF Touches, QuestionsMoved
<1>6. Touches(s, d, a)
  BY <1>1, <1>2, <1>4, <1>5 DEF Touches
<1> QED
  BY <1>2, <1>4, <1>6 DEF d, PlaceSet

LEMMA SetEntryRows ==
    ASSUME NEW s, NEW w, NEW a \in AttemptId, Attached(s, a), Touches(s, w, a),
           NEW entry, entry \in EntryRow, entry.task = s.attempts[a].task
    PROVE  EntrySet(s, w, a, entry)
<1> DEFINE i == s.attempts[a].entry
           N == [w.entries EXCEPT ![i] = entry]
           d == SetEntry(w, i, entry)
<1>1. w \in Contents /\ i \in EntryId /\ entry # NoRow
  BY AttemptTypes DEF Touches, Attached
<1>2. /\ N \in [EntryId -> EntryRow \cup {NoRow}]
      /\ N[i] = entry /\ \A j \in EntryId \ {i} : N[j] = w.entries[j]
  BY <1>1 DEF Contents
<1>3. d = [w EXCEPT !.entries = N]
  BY <1>1 DEF SetEntry, Contents
<1> HIDE DEF N
<1>4. /\ d \in Contents /\ d.entries = N
      /\ d.attempts = w.attempts /\ d.reservations = w.reservations
      /\ d.claims = w.claims /\ d.fences = w.fences /\ d.work = w.work
      /\ d.questions = w.questions
  BY <1>1, <1>2, <1>3 DEF Contents
<1> HIDE DEF d
<1>5. QuestionsMoved(s, d)
  BY <1>4 DEF Touches, QuestionsMoved
<1>6. Touches(s, d, a)
  BY <1>1, <1>2, <1>4, <1>5 DEF Touches
<1> QED
  BY <1>2, <1>4, <1>6 DEF d, EntrySet

\* An accepted execution whose lease is over may still run.
LEMMA RevokedTouches ==
    ASSUME NEW s, NEW a \in AttemptId, Attached(s, a)
    PROVE  Touches(s, Revoked(s, a), a)
<1>1. /\ s \in Contents /\ IsAttempt(s, a) /\ OpenIsValid(s)
      /\ ResourceOf(s, a) = TypedName[s.attempts[a].task]
  BY AttemptTypes DEF Attached
<1> DEFINE u == Revoked(s, a)
<1>2. /\ u \in Contents /\ u.work = s.work /\ u.entries = s.entries
      /\ u.attempts = s.attempts /\ u.reservations = s.reservations
      /\ u.questions = s.questions
      /\ \A n \in Name \ {ResourceOf(s, a)} :
            u.claims[n] = s.claims[n] /\ u.fences[n] = s.fences[n]
  BY <1>1, RevokedRows
<1> HIDE DEF u
<1>3. QuestionsMoved(s, u)
  BY <1>1, <1>2, QuestionsStay
<1> QED
  BY <1>1, <1>2, <1>3 DEF Touches, Attached, IsAttempt, u

\* The grant is given up: its claim goes, its fence is retired.
LEMMA GivenUp ==
    ASSUME NEW s, NEW d, RowsAgree(s), NEW a \in AttemptId, ActiveIn(s, a),
           Touches(s, d, a),
           d.claims = Revoked(s, a).claims, d.fences = Revoked(s, a).fences,
           d.attempts[a].state \notin Executing,
           d.attempts[a].fence = s.attempts[a].fence
    PROVE  ClaimMoved(s, d, a)
<1> DEFINE r == ResourceOf(s, a)
           f == s.attempts[a].fence
<1>1. s \in Contents /\ IsAttempt(s, a)
  BY DEF RowsAgree, ActiveIn
<1>2. r \in Name /\ f \in Nat /\ s.fences[r] \in Nat
  BY <1>1, AttemptTypes, RowTypes
<1>3. /\ d.fences[r] = IF s.fences[r] = f THEN f + 1 ELSE s.fences[r]
      /\ d.claims[r] = IF s.claims[r] # NoClaim /\ s.claims[r].fence = f THEN NoClaim
                       ELSE s.claims[r]
  BY <1>1, RevokedRows
<1>4. /\ f <= s.fences[r]
      /\ s.claims[r] # NoClaim => s.claims[r].fence = s.fences[r]
      /\ s.claims[r] # NoClaim /\ s.claims[r].fence # f => ~Live(s.claims[r])
  BY ActiveRows
<1> HIDE DEF r, f
<1>5. /\ d.fences[r] >= s.fences[r] /\ f < d.fences[r]
      /\ d.claims[r] # NoClaim => d.claims[r].fence = d.fences[r]
  BY <1>2, <1>3, <1>4
<1>6. ~Live(d.claims[r])
  BY <1>3, <1>4 DEF Live
<1> QED
  BY <1>5, <1>6 DEF ClaimMoved, r, f

\* The grant is taken anew.
LEMMA TakenAnew ==
    ASSUME NEW s, NEW d, RowsAgree(s), NEW a \in AttemptId, ActiveIn(s, a),
           NEW p \in Participant, policy.lease \in Ttl,
           d.claims = Refenced(s, a, p).claims, d.fences = Refenced(s, a, p).fences,
           d.attempts[a].state \in Executing,
           d.attempts[a].fence = Refenced(s, a, p).attempts[a].fence,
           d.attempts[a].left = Refenced(s, a, p).attempts[a].left,
           d.attempts[a].owner = Refenced(s, a, p).attempts[a].owner
    PROVE  ClaimMoved(s, d, a)
<1> DEFINE r == ResourceOf(s, a)
           t == s.attempts[a]
           w == Refenced(s, a, p)
           u == d.attempts[a]
<1>1. s \in Contents /\ IsAttempt(s, a)
  BY DEF RowsAgree, ActiveIn
<1>2. r \in Name /\ t.fence \in Nat /\ s.fences[r] \in Nat
  BY <1>1, AttemptTypes, RowTypes
<1>3. /\ Attached(s, a) /\ t.fence <= s.fences[r]
      /\ s.claims[r] # NoClaim /\ s.claims[r].fence # t.fence => ~Live(s.claims[r])
  BY ActiveRows
<1>4. /\ w.attempts[a].fence = w.fences[r] /\ w.fences[r] > s.fences[r]
      /\ w.claims[r] = GrantOf(w.attempts[a]) /\ Touches(s, w, a)
  BY <1>3, RefencedRows
<1>5. w.fences[r] \in Nat
  BY <1>2, <1>4, RowTypes DEF Touches
<1> HIDE DEF w
<1>6. /\ u.fence = d.fences[r] /\ d.fences[r] > s.fences[r] /\ u.fence > t.fence
      /\ d.fences[r] >= s.fences[r]
  <2>1. u.fence = w.fences[r] /\ d.fences[r] = w.fences[r]
    BY <1>4 DEF w
  <2> HIDE DEF u, t, r
  <2> QED
    BY <2>1, <1>2, <1>3, <1>4, <1>5
<1>7. d.claims[r] = GrantOf(u)
  BY <1>4 DEF GrantOf, w
<1>8. d.claims[r] # NoClaim => d.claims[r].fence = d.fences[r]
  BY <1>6, <1>7 DEF GrantOf
<1> QED
  BY <1>6, <1>7, <1>8 DEF ClaimMoved

\* The grant stays as it is.
LEMMA GrantKept ==
    ASSUME NEW s, NEW d, RowsAgree(s), NEW a \in AttemptId, ActiveIn(s, a),
           s.attempts[a].state \in Executing => s.claims[ResourceOf(s, a)] # NoClaim,
           d.claims = s.claims, d.fences = s.fences,
           d.attempts[a].state # "terminal",
           d.attempts[a].state \in Executing <=> s.attempts[a].state \in Executing,
           d.attempts[a].fence = s.attempts[a].fence,
           d.attempts[a].left = s.attempts[a].left,
           d.attempts[a].owner = s.attempts[a].owner
    PROVE  ClaimMoved(s, d, a)
<1> DEFINE r == ResourceOf(s, a)
           t == s.attempts[a]
           u == d.attempts[a]
<1>1. s \in Contents /\ IsAttempt(s, a) /\ t.state # "terminal"
  BY DEF RowsAgree, ActiveIn
<1>2. r \in Name /\ t.fence \in Nat /\ s.fences[r] \in Nat
  BY <1>1, AttemptTypes, RowTypes
<1>3. s.claims[r] # NoClaim => s.claims[r].fence = s.fences[r]
  BY <1>2 DEF RowsAgree, ClaimsFit
<1>4. IF t.state \in Executing
      THEN t.fence = s.fences[r] /\ s.claims[r] = GrantOf(t)
      ELSE t.fence < s.fences[r] /\ ~Live(s.claims[r])
  BY <1>1 DEF RowsAgree, ClaimsFit
<1>5. GrantOf(u) = GrantOf(t)
  BY DEF GrantOf
<1>6. d.fences[r] >= s.fences[r]
  BY <1>2
<1> QED
  BY <1>3, <1>4, <1>5, <1>6 DEF ClaimMoved

LEMMA PlaceKept ==
    ASSUME NEW s, NEW d, RowsAgree(s), NEW a \in AttemptId, ActiveIn(s, a),
           d.entries = s.entries, d.reservations = s.reservations,
           d.attempts[a].state # "terminal",
           d.attempts[a].state \in Holding <=> s.attempts[a].state \in Holding
    PROVE  PlaceMoved(s, d, a)
<1>1. /\ s.entries[s.attempts[a].entry].state = "admitted"
      /\ s.reservations[s.attempts[a].task] # NoRow
      /\ s.reservations[s.attempts[a].task].entry = s.attempts[a].entry
      /\ s.reservations[s.attempts[a].task].held <=> s.attempts[a].state \in Holding
  BY ActiveRows
<1> QED
  BY <1>1 DEF PlaceMoved

\* The slot is given up or taken, in the same place.
Freed(row) == [row EXCEPT !.held = FALSE]
Taken(row) == [row EXCEPT !.held = TRUE]
IsPlace(row, i) == row \in ReservationRow /\ row # NoRow /\ row.entry = i

LEMMA TurnedRow ==
    ASSUME NEW s, RowsAgree(s), NEW a \in AttemptId, ActiveIn(s, a)
    PROVE  /\ IsPlace(Freed(s.reservations[s.attempts[a].task]), s.attempts[a].entry)
           /\ ~Freed(s.reservations[s.attempts[a].task]).held
           /\ IsPlace(Taken(s.reservations[s.attempts[a].task]), s.attempts[a].entry)
           /\ Taken(s.reservations[s.attempts[a].task]).held
<1> DEFINE old == s.reservations[s.attempts[a].task]
<1>1. old # NoRow /\ old.entry = s.attempts[a].entry
  BY ActiveRows
<1>2. s \in Contents /\ IsAttempt(s, a)
  BY DEF RowsAgree, ActiveIn
<1>3. old \in ReservationRow
  BY <1>1, <1>2, AttemptTypes, RowTypes
<1> HIDE DEF old
<1>4. /\ [old EXCEPT !.held = FALSE] \in ReservationRow
      /\ [old EXCEPT !.held = TRUE] \in ReservationRow
  BY <1>3 DEF ReservationRow
<1>5. /\ [old EXCEPT !.held = FALSE].entry = old.entry
      /\ [old EXCEPT !.held = TRUE].entry = old.entry
      /\ ~[old EXCEPT !.held = FALSE].held
      /\ [old EXCEPT !.held = TRUE].held
  BY <1>3 DEF ReservationRow
<1> QED
  BY <1>1, <1>4, <1>5 DEF Freed, Taken, old, IsPlace

LEMMA PlaceTurned ==
    ASSUME NEW s, NEW d, RowsAgree(s), NEW a \in AttemptId, ActiveIn(s, a),
           d.entries = s.entries,
           NEW place, IsPlace(place, s.attempts[a].entry),
           d.reservations[s.attempts[a].task] = place,
           d.attempts[a].state # "terminal",
           place.held <=> d.attempts[a].state \in Holding
    PROVE  PlaceMoved(s, d, a)
<1>1. s.entries[s.attempts[a].entry].state = "admitted"
  BY ActiveRows
<1> QED
  BY <1>1 DEF PlaceMoved, IsPlace

\* An accepted execution whose lease is over may still be running: it keeps its
\* slot, and so does one that is reported unknown.
Uncertain(t) == [t EXCEPT !.state = "uncertain", !.left = 0]

LEMMA UncertainRow ==
    ASSUME NEW t \in AttemptRow
    PROVE  /\ Becomes(t, Uncertain(t))
           /\ Uncertain(t).state = "uncertain" /\ Uncertain(t).fence = t.fence
           /\ Uncertain(t).cancel = t.cancel
<1> DEFINE u == [t EXCEPT !.state = "uncertain", !.left = 0]
<1>1. u \in AttemptRow
  <2>1. 0 \in 0..MaxTtl
    OBVIOUS
  <2> QED
    BY <2>1 DEF AttemptRow
<1>2. /\ u.entry = t.entry /\ u.task = t.task /\ u.pred = t.pred /\ u.fence = t.fence
      /\ u.state = "uncertain"
  BY DEF AttemptRow
<1>3. u.accepted = t.accepted /\ u.cancel = t.cancel
  BY DEF AttemptRow
<1> QED
  BY <1>1, <1>2, <1>3 DEF Becomes, Uncertain

LEMMA UncertainMoves ==
    ASSUME NEW s, RowsAgree(s), NEW a \in AttemptId, ActiveIn(s, a),
           s.attempts[a].state \in Holding
    PROVE  LET d == SetAttempt(Revoked(s, a), a, Uncertain(s.attempts[a])) IN
           RowsMoved(s, d, a) /\ d.attempts[a].state = "uncertain"
<1> DEFINE w == Revoked(s, a)
           u == Uncertain(s.attempts[a])
           d == SetAttempt(w, a, u)
<1>1. s \in Contents /\ IsAttempt(s, a) /\ s.attempts[a] \in AttemptRow /\ Attached(s, a)
  BY ActiveRows, RowTypes DEF RowsAgree, ActiveIn, IsAttempt
<1>2. /\ Becomes(s.attempts[a], u)
      /\ u.state = "uncertain" /\ u.fence = s.attempts[a].fence
      /\ u.cancel = s.attempts[a].cancel
  BY <1>1, UncertainRow
<1>3. /\ Touches(s, w, a) /\ w.entries = s.entries /\ w.reservations = s.reservations
      /\ w.work = s.work
  <2>1. Touches(s, w, a)
    BY <1>1, RevokedTouches
  <2>2. w.entries = s.entries /\ w.reservations = s.reservations /\ w.work = s.work
    BY <1>1, RevokedRows
  <2> QED
    BY <2>1, <2>2
<1> HIDE DEF u
<1>4. /\ Touches(s, d, a) /\ d.attempts[a] = u
      /\ d.entries = w.entries /\ d.reservations = w.reservations
      /\ d.claims = w.claims /\ d.fences = w.fences /\ d.work = w.work
  <2>1. AttemptSet(s, w, a, u)
    BY <1>1, <1>2, <1>3, SetAttemptRows
  <2> QED
    BY <2>1 DEF AttemptSet
<1> HIDE DEF d
<1>5. ClaimMoved(s, d, a)
  BY <1>2, <1>4, GivenUp DEF Executing
<1>6. PlaceMoved(s, d, a)
  BY <1>2, <1>3, <1>4, PlaceKept DEF Holding
<1>7. EndsTogether(s, d, a)
  BY <1>2, <1>3, <1>4 DEF EndsTogether
<1> QED
  BY <1>2, <1>4, <1>5, <1>6, <1>7 DEF RowsMoved, d, u

\* A reservation that was not accepted in time gives its slot back; the place
\* of its entry stays if earlier work was accepted.
Requeued(row) == [row EXCEPT !.state = "queued"]

LEMMA RequeuedRow ==
    ASSUME NEW row \in EntryRow
    PROVE  /\ Requeued(row) \in EntryRow /\ Requeued(row).task = row.task
           /\ Requeued(row).state = "queued"
  BY DEF Requeued, EntryRow

NeverRan(s, a, place) ==
    LET t == s.attempts[a] IN
    SetEntry(SetPlace(SetAttempt(Revoked(s, a), a, OverRow(t, "never_ran")), t.task, place),
             t.entry, Requeued(s.entries[t.entry]))

LEMMA NeverRanMoves ==
    ASSUME NEW s, RowsAgree(s), NEW a \in AttemptId, ActiveIn(s, a),
           ~s.attempts[a].accepted, NEW place,
           \/ place = Freed(s.reservations[s.attempts[a].task])
           \/ /\ place = NoRow
              /\ \/ s.attempts[a].pred = NoRow
                 \/ \A b \in AttemptsOf(s, s.attempts[a].entry) : ~s.attempts[b].accepted
    PROVE  /\ RowsMoved(s, NeverRan(s, a, place), a)
           /\ NeverRan(s, a, place).attempts[a].state = "terminal"
<1> DEFINE t == s.attempts[a]
           i == t.entry
           e == t.task
           w == Revoked(s, a)
           u == OverRow(t, "never_ran")
           x == SetAttempt(w, a, u)
           y == SetPlace(x, e, place)
           en == Requeued(s.entries[i])
           d == SetEntry(y, i, en)
<1>1. /\ s \in Contents /\ IsAttempt(s, a) /\ t \in AttemptRow /\ Attached(s, a)
      /\ i \in EntryId /\ s.entries[i] \in EntryRow /\ s.entries[i].task = e
  <2>1. s \in Contents /\ IsAttempt(s, a) /\ Attached(s, a)
    BY ActiveRows DEF RowsAgree, ActiveIn
  <2>2. t \in AttemptRow /\ i \in EntryId
    BY <2>1, AttemptTypes
  <2>3. s.entries[i] # NoRow /\ s.entries[i].task = e
    BY <2>1 DEF Attached
  <2> QED
    BY <2>1, <2>2, <2>3, RowTypes
<1>2. /\ Becomes(t, u) /\ u.state = "terminal" /\ u.left = 0 /\ u.fence = t.fence
      /\ u.cancel = t.cancel /\ u.accepted = t.accepted
  <2>1. /\ u \in AttemptRow
        /\ u.entry = t.entry /\ u.task = t.task /\ u.pred = t.pred /\ u.fence = t.fence
        /\ u.accepted = t.accepted /\ u.cancel = t.cancel
        /\ u.state = "terminal" /\ u.left = 0
    <3>1. t \in AttemptRow
      BY <1>1
    <3> HIDE DEF t
    <3> QED
      BY <3>1, OverRowIsRow
  <2> QED
    BY <2>1 DEF Becomes
<1> HIDE DEF u
<1>3. place \in ReservationRow \cup {NoRow}
      /\ (place # NoRow => IsPlace(place, i) /\ ~place.held)
  <2>1. IsPlace(Freed(s.reservations[e]), i) /\ ~Freed(s.reservations[e]).held
    BY TurnedRow
  <2> QED
    BY <2>1 DEF IsPlace
<1>4. en \in EntryRow /\ en.task = e /\ en.state = "queued"
  BY <1>1, RequeuedRow
<1> HIDE DEF en
<1>5. Touches(s, w, a)
  BY <1>1, RevokedTouches
<1>6. w.work = s.work /\ w.attempts = s.attempts
  BY <1>1, RevokedRows
<1>7. /\ Touches(s, x, a) /\ x.attempts[a] = u
      /\ x.claims = w.claims /\ x.fences = w.fences /\ x.work = w.work
  <2>1. AttemptSet(s, w, a, u)
    BY <1>1, <1>2, <1>5, SetAttemptRows
  <2> QED
    BY <2>1 DEF AttemptSet
<1> HIDE DEF x
<1>8. /\ Touches(s, y, a) /\ y.reservations[e] = place /\ y.attempts = x.attempts
      /\ y.claims = x.claims /\ y.fences = x.fences /\ y.work = x.work
  <2>1. PlaceSet(s, x, a, place)
    BY <1>1, <1>3, <1>7, SetPlaceRows
  <2> QED
    BY <2>1 DEF PlaceSet
<1> HIDE DEF y
<1>9. /\ Touches(s, d, a) /\ d.entries[i] = en /\ d.attempts = y.attempts
      /\ d.reservations = y.reservations
      /\ d.claims = y.claims /\ d.fences = y.fences /\ d.work = y.work
  <2>1. EntrySet(s, y, a, en)
    BY <1>1, <1>4, <1>8, SetEntryRows
  <2> QED
    BY <2>1 DEF EntrySet
<1>10. d = NeverRan(s, a, place)
  BY DEF NeverRan, en, y, x, u
<1> HIDE DEF d
<1>11. ClaimMoved(s, d, a)
  BY <1>2, <1>7, <1>8, <1>9, GivenUp DEF Executing
<1>12. place = NoRow => \A b \in AttemptsOf(d, i) : ~d.attempts[b].accepted
  <2>1. ASSUME place = NoRow, NEW b \in AttemptsOf(d, i), d.attempts[b].accepted
        PROVE  FALSE
    <3>1. b \in AttemptId /\ IsAttempt(d, b) /\ d.attempts[b].entry = i
      BY <2>1 DEF AttemptsOf
    <3>2. CASE b = a
      BY <1>2, <1>7, <1>8, <1>9, <2>1, <3>2
    <3>3. CASE b # a
      <4>1. d.attempts[b] = s.attempts[b]
        BY <1>9, <3>1, <3>3 DEF Touches
      <4>2. b \in AttemptsOf(s, i)
        BY <3>1, <4>1 DEF AttemptsOf, IsAttempt
      <4>3. t.pred # NoRow
        BY <3>1, <3>3, <4>1, EarlierAreOver DEF IsAttempt
      <4>4. place # Freed(s.reservations[e])
        BY <2>1, TurnedRow DEF IsPlace
      <4> QED
        BY <2>1, <4>1, <4>2, <4>3, <4>4
    <3> QED
      BY <3>2, <3>3
  <2> QED
    BY <2>1
<1>13. PlaceMoved(s, d, a)
  BY <1>2, <1>3, <1>4, <1>7, <1>8, <1>9, <1>12 DEF PlaceMoved, IsPlace
<1>14. NoneOpen(d, a)
  <2>1. ASSUME NEW q \in Question, d.questions[q] # NoRow, d.questions[q].attempt = a,
               d.questions[q].state = "open"
        PROVE  FALSE
    <3>1. s.questions[q] # NoRow /\ s.questions[q].attempt = a
      BY <1>9, <2>1 DEF Touches, QuestionsMoved
    <3> QED
      BY <3>1 DEF RowsAgree, QuestionsFit
  <2> QED
    BY <2>1 DEF NoneOpen
<1>15. EndsTogether(s, d, a)
  BY <1>6, <1>7, <1>8, <1>9, <1>14 DEF EndsTogether
<1> QED
  BY <1>2, <1>7, <1>8, <1>9, <1>10, <1>11, <1>13, <1>15 DEF RowsMoved

\* An end under a grant taken for the occasion.
LEMMA RefencedEnd ==
    ASSUME NEW s, RowsAgree(s), NEW a \in AttemptId, ActiveIn(s, a),
           NEW p \in Participant, policy.lease \in Ttl, NEW d,
           EndedBy(Refenced(s, a, p), d, a)
    PROVE  RowsMoved(s, d, a) /\ d.attempts[a].state = "terminal"
<1> DEFINE w == Refenced(s, a, p)
           r == ResourceOf(s, a)
<1>1. /\ Attached(s, a) /\ s.attempts[a].fence <= s.fences[r]
      /\ s.claims[r] # NoClaim /\ s.claims[r].fence # s.attempts[a].fence
            => ~Live(s.claims[r])
  BY ActiveRows
<1>2. /\ Touches(s, w, a)
      /\ w.attempts[a].fence = w.fences[r] /\ w.fences[r] > s.fences[r]
      /\ w.claims[r] = GrantOf(w.attempts[a])
  BY <1>1, RefencedRows
<1>3. w.fences[r] \in Nat /\ s.fences[r] \in Nat
  <2>1. s \in Contents /\ IsAttempt(s, a) /\ w \in Contents
    BY <1>2 DEF RowsAgree, ActiveIn, Touches
  <2> QED
    BY <2>1, AttemptTypes, RowTypes
<1> HIDE DEF w
<1>4. w.claims[r].fence = w.fences[r]
  BY <1>2 DEF GrantOf
<1>5. EndedBy(w, d, a)
  BY DEF w
<1> HIDE DEF r
<1>6. /\ w.fences[r] >= s.fences[r] /\ w.attempts[a].fence <= w.fences[r]
      /\ w.attempts[a].fence > s.fences[r]
  BY <1>2, <1>3
<1>7. RowsMoved(s, d, a)
  BY <1>1, <1>2, <1>4, <1>5, <1>6, EndMoves DEF r
<1> QED
  BY <1>5, <1>7 DEF EndedBy

\* What has lapsed expires.
LEMMA ExpiredMoves ==
    ASSUME NEW s, RowsAgree(s), NEW a \in AttemptId, IsAttempt(s, a),
           s.attempts[a].state \in Executing, policy.lease \in Ttl
    PROVE  /\ ActiveIn(s, a) /\ RowsMoved(s, Expired(a, s), a)
           /\ Expired(a, s).attempts[a].state \in {"terminal", "uncertain"}
<1> DEFINE t == s.attempts[a]
           d == Expired(a, s)
           i == t.entry
           e == t.task
           w == Revoked(s, a)
<1>1. ActiveIn(s, a) /\ t.state \in Holding /\ s \in Contents
  BY DEF ActiveIn, Executing, Holding, RowsAgree
<1>2. w \in Contents /\ w.attempts = s.attempts /\ w.reservations = s.reservations
      /\ w.entries = s.entries
  BY <1>1, RevokedRows
<1>3. a \in AttemptId /\ i \in EntryId /\ e \in Entity /\ t.owner \in Participant
  BY <1>1, AttemptTypes
<1>4. CASE t.accepted
  <2>1. d = [w EXCEPT !.attempts[a] = [@ EXCEPT !.state = "uncertain", !.left = 0]]
    BY <1>4, Zenon DEF Expired
  <2>2. d = SetAttempt(w, a, Uncertain(w.attempts[a]))
    BY <2>1, Zenon DEF SetAttempt, Uncertain
  <2>3. d = SetAttempt(w, a, Uncertain(t))
    BY <1>2, <2>2
  <2> HIDE DEF d, w
  <2>4. RowsMoved(s, d, a) /\ d.attempts[a].state = "uncertain"
    BY <1>1, <2>3, UncertainMoves DEF w
  <2> QED
    BY <1>1, <2>4 DEF d
<1>5. CASE ~t.accepted /\ t.cancel
  <2>1. d = Ended(Refenced(s, a, t.owner), a, "cancelled")
    BY <1>5 DEF Expired
  <2>2. Attached(Refenced(s, a, t.owner), a)
    <3>1. /\ Attached(s, a) /\ t.fence <= s.fences[ResourceOf(s, a)]
          /\ s.claims[ResourceOf(s, a)] # NoClaim
             /\ s.claims[ResourceOf(s, a)].fence # t.fence
                => ~Live(s.claims[ResourceOf(s, a)])
      BY <1>1, ActiveRows
    <3>2. Touches(s, Refenced(s, a, t.owner), a)
      BY <1>3, <3>1, RefencedRows
    <3> QED
      BY <3>2, StaysAttached
  <2>6. \A x : Attached(x, a) => EndedBy(x, Ended(x, a, "cancelled"), a)
    <3>1. "cancelled" \in Outcome
      BY DEF Outcome
    <3> QED
      BY <3>1, EndedRows
  <2> HIDE DEF d
  <2>3. EndedBy(Refenced(s, a, t.owner), d, a)
    BY <2>1, <2>2, <2>6, Zenon
  <2>4. RowsMoved(s, d, a) /\ d.attempts[a].state = "terminal"
    BY <1>1, <1>3, <2>3, RefencedEnd
  <2> QED
    BY <1>1, <2>4 DEF d
<1>6. CASE ~t.accepted /\ ~t.cancel
  <2> DEFINE ranBefore == t.pred # NoRow
                          /\ \E b \in AttemptsOf(s, i) : s.attempts[b].accepted
             place == IF ranBefore THEN Freed(s.reservations[e]) ELSE NoRow
  <2>1. d = [w EXCEPT !.attempts[a] = [@ EXCEPT !.state = "terminal", !.left = 0,
                                                !.outcome = "never_ran"],
                      !.reservations[e] = IF ranBefore
                                          THEN [@ EXCEPT !.held = FALSE] ELSE NoRow,
                      !.entries[i].state = "queued"]
    BY <1>6, Zenon DEF Expired
  <2>2. d = [w EXCEPT !.attempts[a] = OverRow(w.attempts[a], "never_ran"),
                      !.reservations[e] = IF ranBefore
                                          THEN Freed(w.reservations[e]) ELSE NoRow,
                      !.entries[i] = Requeued(w.entries[i])]
    BY <2>1, ZenonT(30) DEF OverRow, Freed, Requeued
  <2> HIDE DEF ranBefore
  <2>3. d = [w EXCEPT !.attempts[a] = OverRow(t, "never_ran"),
                      !.reservations[e] = place,
                      !.entries[i] = Requeued(s.entries[i])]
    BY <1>2, <2>2
  <2> HIDE DEF place, w, d
  <2>4. d = NeverRan(s, a, place)
    BY <1>2, <2>3 DEF NeverRan, SetAttempt, SetPlace, SetEntry, Contents, w
  <2>5. \/ place = Freed(s.reservations[e])
        \/ /\ place = NoRow
           /\ \/ t.pred = NoRow
              \/ \A b \in AttemptsOf(s, i) : ~s.attempts[b].accepted
    BY DEF place, ranBefore
  <2> QED
    BY <1>1, <1>6, <2>4, <2>5, NeverRanMoves DEF d
<1> QED
  BY <1>4, <1>5, <1>6

-----------------------------------------------------------------------------
(* What later contents keep of earlier ones.                               *)

ApplicableIn(s, q) ==
    /\ s.questions[q] # NoRow
    /\ s.questions[q].state = "answered" /\ s.questions[q].valid
    /\ LET a == s.questions[q].attempt IN
       /\ ~s.attempts[a].cancel /\ s.attempts[a].fence = s.questions[q].fence
       /\ \E p \in Participant : GrantValid(s, a, p)

\* The answer of q is there, and may not be acted upon.
LostIn(s, q) ==
    s.questions[q] # NoRow /\ s.questions[q].state = "answered" /\ ~ApplicableIn(s, q)

AnswersStayLost(s, d) == \A q \in Question : LostIn(s, q) => LostIn(d, q)

ResultsKept(s, d) ==
    \A b \in AttemptId :
        IsAttempt(s, b) /\ s.attempts[b].state = "terminal" => d.attempts[b] = s.attempts[b]

\* A task is over in the contents in which its attempt is.
TasksEnd(s, d) ==
    \A e \in Entity :
        s.work[e] # "terminal" /\ d.work[e] = "terminal"
            => \E b \in AttemptId : /\ ActiveIn(s, b) /\ s.attempts[b].task = e
                                    /\ d.attempts[b].state = "terminal"

\* An attempt stays, and is a mere reservation only at first.
ReservationsAreFirst(s, d) ==
    \A b \in AttemptId : IsAttempt(s, b) =>
        /\ IsAttempt(d, b)
        /\ d.attempts[b].state = "reserved" => s.attempts[b].state = "reserved"

Follows(s, d) ==
    /\ NothingBegins(s, d) /\ ReservationsAreFirst(s, d)
    /\ ResultsKept(s, d) /\ TasksEnd(s, d) /\ AnswersStayLost(s, d)

NoNewPlaces(s, d) ==
    \A e \in Entity :
        d.reservations[e] # NoRow =>
            s.reservations[e] # NoRow /\ (d.reservations[e].held => s.reservations[e].held)

LEMMA FollowsAgain ==
    ASSUME NEW s, NEW w, NEW d, Follows(s, w), Follows(w, d)
    PROVE  Follows(s, d)
<1>1. NothingBegins(s, d)
  <2>1. NothingBegins(s, w) /\ NothingBegins(w, d)
    BY DEF Follows
  <2>2. ASSUME NEW j \in EntryId
        PROVE  /\ s.entries[j] = NoRow <=> d.entries[j] = NoRow
               /\ d.entries[j] # NoRow => d.entries[j].task = s.entries[j].task
               /\ UnfinishedIn(d, j) =>
                    UnfinishedIn(s, j) /\ s.entries[j].task = d.entries[j].task
    BY <2>1 DEF NothingBegins
  <2>3. ASSUME NEW b \in AttemptId
        PROVE  /\ IsAttempt(s, b) <=> IsAttempt(d, b)
               /\ IsAttempt(d, b) => d.attempts[b].task = s.attempts[b].task
                                     /\ d.attempts[b].entry = s.attempts[b].entry
               /\ ActiveIn(d, b) => ActiveIn(s, b) /\ s.attempts[b].task = d.attempts[b].task
    BY <2>1 DEF NothingBegins
  <2> QED
    BY <2>2, <2>3 DEF NothingBegins
<1>2. ResultsKept(s, d)
  BY DEF Follows, ResultsKept, IsAttempt
<1>3. TasksEnd(s, d)
  <2> SUFFICES ASSUME NEW e \in Entity, s.work[e] # "terminal", d.work[e] = "terminal"
               PROVE  \E b \in AttemptId : /\ ActiveIn(s, b) /\ s.attempts[b].task = e
                                           /\ d.attempts[b].state = "terminal"
    BY DEF TasksEnd
  <2>1. CASE w.work[e] = "terminal"
    <3>1. PICK b \in AttemptId : /\ ActiveIn(s, b) /\ s.attempts[b].task = e
                                 /\ w.attempts[b].state = "terminal"
      BY <2>1 DEF Follows, TasksEnd
    <3>2. IsAttempt(w, b)
      BY <3>1 DEF Follows, NothingBegins, ActiveIn
    <3>3. d.attempts[b] = w.attempts[b]
      BY <3>1, <3>2 DEF Follows, ResultsKept
    <3> QED
      BY <3>1, <3>3
  <2>2. CASE w.work[e] # "terminal"
    <3>1. PICK b \in AttemptId : /\ ActiveIn(w, b) /\ w.attempts[b].task = e
                                 /\ d.attempts[b].state = "terminal"
      BY <2>2 DEF Follows, TasksEnd
    <3>2. ActiveIn(s, b) /\ s.attempts[b].task = e
      BY <3>1 DEF Follows, NothingBegins
    <3> QED
      BY <3>1, <3>2
  <2> QED
    BY <2>1, <2>2
<1>4. AnswersStayLost(s, d)
  BY DEF Follows, AnswersStayLost
<1>5. ReservationsAreFirst(s, d)
  BY DEF Follows, ReservationsAreFirst
<1> QED
  BY <1>1, <1>2, <1>3, <1>4, <1>5 DEF Follows

\* An execution whose lease is not over has all of its authority.
LEMMA LiveGrant ==
    ASSUME NEW s, RowsAgree(s), NEW a \in AttemptId, IsAttempt(s, a),
           s.attempts[a].state \in Executing, s.attempts[a].left > 0
    PROVE  \E p \in Participant : GrantValid(s, a, p)
<1> DEFINE t == s.attempts[a]
           r == ResourceOf(s, a)
<1>1. s \in Contents /\ t.owner \in Participant /\ t.left \in Nat /\ t.fence \in Nat
  <2>1. s \in Contents
    BY DEF RowsAgree
  <2>2. t.owner \in Participant /\ t.left \in 0..MaxTtl /\ t.fence \in Nat
    BY <2>1, AttemptTypes
  <2> HIDE DEF t
  <2> QED
    BY <2>1, <2>2
<1>2. t.fence = s.fences[r] /\ s.claims[r] = GrantOf(t)
  BY <1>1 DEF RowsAgree, ClaimsFit
<1>3. GrantOf(t) # NoClaim
  <2>1. GrantOf(t) \in Claim
    <3>1. t \in AttemptRow
      BY <1>1, RowTypes DEF IsAttempt
    <3> HIDE DEF t
    <3>2. GrantOf(t) \in Claim
      BY <3>1 DEF GrantOf, Claim, AttemptRow, Mode
    <3> QED
      BY <3>2
  <2> QED
    BY <2>1
<1>4. Live(s.claims[r]) /\ s.claims[r].holder = t.owner /\ s.claims[r].fence = t.fence
  BY <1>2, <1>3 DEF GrantOf, Live
<1>5. GrantValid(s, a, t.owner)
  BY <1>2, <1>4 DEF GrantValid
<1> QED
  BY <1>1, <1>5

LEMMA MovedAnswers ==
    ASSUME NEW s, NEW d, RowsAgree(s), NEW a \in AttemptId, ActiveIn(s, a),
           RowsMoved(s, d, a)
    PROVE  AnswersStayLost(s, d)
<1>0. PICK i, e, r : OwnRows(s, d, a, i, e, r)
  BY OwnRowsMove
<1> SUFFICES ASSUME NEW q \in Question, LostIn(s, q), ~LostIn(d, q)
             PROVE  FALSE
  BY DEF AnswersStayLost
<1> DEFINE old == s.questions[q]
           row == d.questions[q]
           b == old.attempt
           t == s.attempts[b]
           u == d.attempts[b]
<1>1. /\ old # NoRow /\ old.state = "answered"
      /\ row # NoRow /\ row.attempt = b /\ row.fence = old.fence
      /\ row.valid => old.valid
      /\ row.state = "answered"
  BY DEF LostIn, RowsMoved, Touches, QuestionsMoved
<1>2. ApplicableIn(d, q)
  BY <1>1 DEF LostIn
<1>3. /\ old.valid /\ ~u.cancel /\ u.fence = old.fence
      /\ \E p \in Participant : GrantValid(d, b, p)
  BY <1>1, <1>2 DEF ApplicableIn
<1>4. b \in AttemptId /\ old.fence \in Nat
  BY <1>0, <1>1, RowTypes DEF OwnRows, QuestionRow
<1>5. IsAttempt(s, b) /\ old.fence <= t.fence
  BY <1>1 DEF RowsAgree, QuestionsFit
<1>6. PICK p \in Participant : GrantValid(d, b, p)
  BY <1>3
<1>7. u.state \in Executing /\ u.left > 0
  BY <1>6 DEF GrantValid
<1>8. ASSUME ~t.cancel, t.fence = old.fence, \E x \in Participant : GrantValid(s, b, x)
      PROVE  FALSE
  BY <1>1, <1>3, <1>8 DEF LostIn, ApplicableIn
<1>9. CASE b = a
  <2>1. ~t.cancel
    BY <1>3, <1>9 DEF RowsMoved, Touches
  <2>2. t.fence = old.fence
    <3>1. /\ s.attempts[a].fence \in Nat /\ d.attempts[a].fence \in Nat
          /\ s.attempts[a].fence <= d.attempts[a].fence
      BY MovedFence
    <3>2. old.fence <= s.attempts[a].fence /\ d.attempts[a].fence = old.fence
      BY <1>3, <1>5, <1>9
    <3>3. s.attempts[a].fence = old.fence
      <4> HIDE DEF old
      <4> QED
        BY <1>4, <3>1, <3>2
    <3> QED
      BY <1>9, <3>3
  <2>3. t.state \in Executing /\ t.left > 0
    <3>1. ~(d.attempts[a].fence > s.attempts[a].fence)
      BY <1>3, <1>4, <1>9, <2>2
    <3> QED
      BY <1>7, <1>9, <3>1 DEF RowsMoved, ClaimMoved
  <2>4. \E x \in Participant : GrantValid(s, b, x)
    BY <1>4, <1>5, <2>3, LiveGrant
  <2> QED
    BY <1>8, <2>1, <2>2, <2>4
<1>10. CASE b # a
  <2>1. u = t
    BY <1>0, <1>4, <1>10 DEF OwnRows
  <2>2. \E x \in Participant : GrantValid(s, b, x)
    <3>1. t.state \in Executing /\ t.left > 0
      BY <1>7, <2>1
    <3> QED
      BY <1>4, <1>5, <3>1, LiveGrant
  <2>3. ~t.cancel /\ t.fence = old.fence
    BY <1>3, <2>1
  <2> QED
    BY <1>8, <2>2, <2>3
<1> QED
  BY <1>9, <1>10

LEMMA MovedFollows ==
    ASSUME NEW s, NEW d, RowsAgree(s), NEW a \in AttemptId, ActiveIn(s, a),
           RowsMoved(s, d, a)
    PROVE  Follows(s, d)
<1>0. PICK i, e, r : OwnRows(s, d, a, i, e, r)
  BY OwnRowsMove
<1>1. NothingBegins(s, d)
  BY StillUnfinished
<1>2. ResultsKept(s, d)
  <2>1. s.attempts[a].state # "terminal"
    BY DEF ActiveIn
  <2>2. \A b \in AttemptId \ {a} : d.attempts[b] = s.attempts[b]
    BY <1>0 DEF OwnRows
  <2> QED
    BY <2>1, <2>2 DEF ResultsKept
<1>3. TasksEnd(s, d)
  <2> SUFFICES ASSUME NEW x \in Entity, s.work[x] # "terminal", d.work[x] = "terminal"
               PROVE  /\ s.attempts[a].task = x
                      /\ d.attempts[a].state = "terminal"
    BY DEF TasksEnd
  <2>1. x = e
    BY <1>0 DEF OwnRows, RowsMoved, Touches
  <2> QED
    BY <1>0, <2>1 DEF OwnRows, RowsMoved, EndsTogether
<1>4. AnswersStayLost(s, d)
  BY MovedAnswers
<1>5. ReservationsAreFirst(s, d)
  <2>1. \A b \in AttemptId \ {a} : d.attempts[b] = s.attempts[b]
    BY <1>0 DEF OwnRows
  <2>2. /\ d.attempts[a] # NoRow
        /\ d.attempts[a].state = "reserved" => s.attempts[a].state = "reserved"
    BY DEF RowsMoved, Touches
  <2> QED
    BY <2>1, <2>2 DEF ReservationsAreFirst, IsAttempt
<1> QED
  BY <1>1, <1>2, <1>3, <1>4, <1>5 DEF Follows

LEMMA MovedPlaces ==
    ASSUME NEW s, NEW d, RowsAgree(s), NEW a \in AttemptId, ActiveIn(s, a),
           RowsMoved(s, d, a),
           d.attempts[a].state \in Holding => s.attempts[a].state \in Holding
    PROVE  NoNewPlaces(s, d)
<1>0. PICK i, e, r : OwnRows(s, d, a, i, e, r)
  BY OwnRowsMove
<1>1. s.reservations[e] # NoRow /\ (s.reservations[e].held <=> s.attempts[a].state \in Holding)
  <2>1. e = s.attempts[a].task
    BY <1>0 DEF OwnRows
  <2>2. /\ s.reservations[s.attempts[a].task] # NoRow
        /\ s.reservations[s.attempts[a].task].held <=> s.attempts[a].state \in Holding
    BY ActiveRows
  <2> QED
    BY <2>1, <2>2
<1>2. d.reservations[e] # NoRow /\ d.reservations[e].held => d.attempts[a].state \in Holding
  BY <1>0 DEF OwnRows, RowsMoved, PlaceMoved
<1>3. \A x \in Entity \ {e} : d.reservations[x] = s.reservations[x]
  BY <1>0 DEF OwnRows
<1>4. d.reservations[e] # NoRow /\ d.reservations[e].held => s.reservations[e].held
  BY <1>1, <1>2
<1> QED
  BY <1>1, <1>3, <1>4 DEF NoNewPlaces

\* What all the expiries of one transaction do together.
AllExpire(s, d, S) ==
    /\ RowsAgree(d) /\ Follows(s, d) /\ NoNewPlaces(s, d)
    /\ \A b \in AttemptId :
          IsAttempt(d, b) /\ d.attempts[b].state \in Executing
            => b \notin S /\ d.attempts[b] = s.attempts[b]
    /\ \A b \in AttemptId :
          IsAttempt(s, b) /\ s.attempts[b].state \in Executing /\ b \notin S
            => d.attempts[b] = s.attempts[b]

LEMMA NothingExpires ==
    ASSUME NEW s, RowsAgree(s)
    PROVE  AllExpire(s, s, {})
<1>1. Follows(s, s)
  <2>1. NothingBegins(s, s)
    BY DEF NothingBegins
  <2> QED
    BY <2>1 DEF Follows, ReservationsAreFirst, ResultsKept, TasksEnd, AnswersStayLost
<1> QED
  BY <1>1 DEF AllExpire, NoNewPlaces

LEMMA OneMoreExpires ==
    ASSUME NEW s, NEW S \in SUBSET AttemptId, NEW d, AllExpire(s, d, S),
           policy.lease \in Ttl, NEW a \in AttemptId \ S, IsAttempt(s, a),
           s.attempts[a].state \in Executing
    PROVE  AllExpire(s, Expired(a, d), S \cup {a})
<1> DEFINE x == Expired(a, d)
<1>1. d.attempts[a] = s.attempts[a] /\ IsAttempt(d, a) /\ d.attempts[a].state \in Executing
  BY DEF AllExpire, IsAttempt
<1>2. RowsAgree(d)
  BY DEF AllExpire
<1>3. /\ ActiveIn(d, a) /\ RowsMoved(d, x, a)
      /\ x.attempts[a].state \in {"terminal", "uncertain"}
  BY <1>1, <1>2, ExpiredMoves
<1> HIDE DEF x
<1>4. RowsAgree(x)
  BY <1>2, <1>3, MovedRowsAgree
<1>5. Follows(s, x)
  <2>1. Follows(d, x)
    BY <1>2, <1>3, MovedFollows
  <2> QED
    BY <2>1, FollowsAgain DEF AllExpire
<1>6. NoNewPlaces(s, x)
  <2>1. NoNewPlaces(d, x)
    BY <1>1, <1>2, <1>3, MovedPlaces DEF Holding
  <2> QED
    BY <2>1 DEF AllExpire, NoNewPlaces
<1>7. \A b \in AttemptId \ {a} : x.attempts[b] = d.attempts[b]
  BY <1>3 DEF RowsMoved, Touches
<1>8. x.attempts[a].state \notin Executing
  BY <1>3 DEF Executing
<1>9. \A b \in AttemptId :
          IsAttempt(x, b) /\ x.attempts[b].state \in Executing
            => b \notin S \cup {a} /\ x.attempts[b] = s.attempts[b]
  BY <1>7, <1>8 DEF AllExpire, IsAttempt
<1>10. \A b \in AttemptId :
          IsAttempt(s, b) /\ s.attempts[b].state \in Executing /\ b \notin S \cup {a}
            => x.attempts[b] = s.attempts[b]
  BY <1>7 DEF AllExpire
<1> QED
  BY <1>4, <1>5, <1>6, <1>9, <1>10 DEF AllExpire, x

\* However many expire, in whichever order the fold takes them.
LEMMA AllExpiredRows ==
    ASSUME NEW s, RowsAgree(s), NEW S \in SUBSET AttemptId, policy.lease \in Ttl,
           \A a \in S : IsAttempt(s, a) /\ s.attempts[a].state \in Executing
    PROVE  AllExpire(s, FoldSet(Expired, s, S), S)
<1> DEFINE G == [R \in SUBSET S |-> {d \in Contents : AllExpire(s, d, R)}]
<1>1. IsFiniteSet(S)
  <2>1. S \subseteq {a \in AttemptId : IsAttempt(s, a)}
    OBVIOUS
  <2>2. IsFiniteSet({a \in AttemptId : IsAttempt(s, a)})
    BY DEF RowsAgree, RowsAreFew
  <2> QED
    BY <2>1, <2>2, FS_Subset
<1>2. \A R \in SUBSET S : \A d : d \in G[R] <=> d \in Contents /\ AllExpire(s, d, R)
  OBVIOUS
<1> HIDE DEF G
<1>3. s \in G[{}]
  <2>1. s \in Contents /\ AllExpire(s, s, {}) /\ {} \in SUBSET S
    BY NothingExpires DEF RowsAgree
  <2> QED
    BY <1>2, <2>1
<1>4. ASSUME NEW R \in SUBSET S, NEW a \in S \ R, NEW d \in G[R]
      PROVE  Expired(a, d) \in G[R \cup {a}]
  <2>1. AllExpire(s, d, R)
    BY <1>2
  <2>2. AllExpire(s, Expired(a, d), R \cup {a})
    BY <2>1, OneMoreExpires
  <2>3. Expired(a, d) \in Contents
    BY <2>2 DEF AllExpire, RowsAgree
  <2>4. R \cup {a} \in SUBSET S
    OBVIOUS
  <2> QED
    BY <1>2, <2>2, <2>3, <2>4
<1>5. FoldSet(Expired, s, S) \in G[S]
  BY <1>1, <1>3, <1>4, ExpiryInduction
<1>6. S \in SUBSET S
  OBVIOUS
<1> QED
  BY <1>2, <1>5, <1>6

\* A fresh grant of the attempt, from p: what is known of it.
LEMMA FreshGrant ==
    ASSUME NEW s, RowsAgree(s), NEW a \in AttemptId, ActiveIn(s, a),
           NEW p \in Participant, policy.lease \in Ttl
    PROVE  /\ Touches(s, Refenced(s, a, p), a) /\ Attached(Refenced(s, a, p), a)
           /\ Refenced(s, a, p).entries = s.entries
           /\ Refenced(s, a, p).reservations = s.reservations
           /\ Refenced(s, a, p).work = s.work
           /\ Refenced(s, a, p).attempts[a].state = "running"
           /\ Refenced(s, a, p).attempts[a].accepted = s.attempts[a].accepted
           /\ Refenced(s, a, p).attempts[a].cancel = s.attempts[a].cancel
           /\ Refenced(s, a, p).attempts[a] \in AttemptRow
           /\ NoneOpen(Refenced(s, a, p), a)
<1> DEFINE w == Refenced(s, a, p)
           t == s.attempts[a]
           r == ResourceOf(s, a)
<1>1. /\ Attached(s, a) /\ t.fence <= s.fences[r]
      /\ s.claims[r] # NoClaim /\ s.claims[r].fence # t.fence => ~Live(s.claims[r])
  BY ActiveRows
<1>2. /\ Touches(s, w, a)
      /\ w.entries = s.entries /\ w.reservations = s.reservations
      /\ w.work = s.work
      /\ w.attempts[a].accepted = t.accepted /\ w.attempts[a].cancel = t.cancel
      /\ w.attempts[a].state = "running" /\ NoneOpen(w, a)
  BY <1>1, RefencedRows
<1> HIDE DEF w
<1>3. Attached(w, a)
  BY <1>2, StaysAttached
<1>4. w.attempts[a] \in AttemptRow
  BY <1>3, RowTypes DEF Attached, IsAttempt
<1> QED
  BY <1>2, <1>3, <1>4 DEF w

-----------------------------------------------------------------------------
(* The claims beneath the queue.  A transaction keeps, at each helper it   *)
(* calls, that a fence has one holder and that writes follow the fences;   *)
(* and what it finishes leaves no gate undecided.                          *)

BookNames == {"fences", "claims", "journal", "work", "written", "gates"}

\* No grant and no write is above the fence of its resource.
Accounts(s) ==
    /\ \A n \in Name : s.claims[n] # NoClaim => s.claims[n].fence = s.fences[n]
    /\ \A i \in s.journal : i.fence <= s.fences[i.resource]
    /\ \A i, j \in s.journal :
          i.resource = j.resource /\ i.fence = j.fence => i.holder = j.holder
    /\ \A e \in Entity : s.written[e] <= s.fences[TypedName[e]]

Books(s) ==
    /\ BookNames \subseteq DOMAIN s
    /\ s.fences \in [Name -> Nat] /\ s.claims \in [Name -> Claim \cup {NoClaim}]
    /\ s.journal \subseteq GrantRow /\ s.work \in [Entity -> WorkState]
    /\ s.written \in [Entity -> Nat] /\ s.gates \in [Gate -> GateRow \cup {NoGate}]
    /\ Accounts(s)

\* What a part of a transaction, from s to d, does to them.
Carries(s, d) ==
    /\ Books(d)
    /\ \A e \in Entity : s.written[e] <= d.written[e]
    /\ \A g \in Gate, n \in Name : Unresolved(d.gates[g], n) => d.gates[g] = s.gates[g]
    /\ \A e \in Entity, g \in Gate :
          s.work[e] # "terminal" /\ d.work[e] = "terminal" => ~Unresolved(d.gates[g], e)

SameBooks(s, d) ==
    /\ BookNames \subseteq DOMAIN d
    /\ d.fences = s.fences /\ d.claims = s.claims /\ d.journal = s.journal
    /\ d.work = s.work /\ d.written = s.written /\ d.gates = s.gates

LEMMA ContentsHaveBooks == \A s \in Contents : BookNames \subseteq DOMAIN s
  BY DEF Contents, BookNames

LEMMA SameBooksCarry ==
    ASSUME NEW s, Books(s), NEW d, SameBooks(s, d)
    PROVE  Carries(s, d)
<1>1. Books(d)
  BY DEF Books, SameBooks, Accounts
<1>2. \A e \in Entity : s.written[e] <= d.written[e]
  BY DEF Books, SameBooks
<1> QED
  BY <1>1, <1>2 DEF Carries, SameBooks

LEMMA CarriesAgain ==
    ASSUME NEW s, Books(s), NEW w, Carries(s, w), NEW d, Carries(w, d)
    PROVE  Carries(s, d)
<1>1. \A e \in Entity : s.written[e] <= d.written[e]
  <2> SUFFICES ASSUME NEW e \in Entity PROVE s.written[e] <= d.written[e]
    OBVIOUS
  <2>1. s.written[e] \in Nat /\ w.written[e] \in Nat /\ d.written[e] \in Nat
    BY DEF Carries, Books
  <2>2. s.written[e] <= w.written[e] /\ w.written[e] <= d.written[e]
    BY DEF Carries
  <2> QED
    BY <2>1, <2>2
<1>2. ASSUME NEW e \in Entity, NEW g \in Gate,
             s.work[e] # "terminal", d.work[e] = "terminal", Unresolved(d.gates[g], e)
      PROVE  FALSE
  <2>1. e \in Name
    OBVIOUS
  <2>2. d.gates[g] = w.gates[g]
    BY <1>2, <2>1 DEF Carries
  <2>3. w.work[e] # "terminal"
    BY <1>2, <2>2 DEF Carries
  <2> QED
    BY <1>2, <2>3 DEF Carries
<1>3. \A g \in Gate, n \in Name : Unresolved(d.gates[g], n) => d.gates[g] = s.gates[g]
  BY DEF Carries
<1> QED
  BY <1>1, <1>2, <1>3 DEF Carries

LEMMA RevokedCarries ==
    ASSUME NEW s, Books(s), NEW a, ResourceOf(s, a) \in Name, s.attempts[a].fence \in Nat
    PROVE  Carries(s, Revoked(s, a)) /\ Revoked(s, a).gates = s.gates
<1> DEFINE r == ResourceOf(s, a)
           f == s.attempts[a].fence
           C == [s.claims EXCEPT ![r] = IF @ # NoClaim /\ @.fence = f THEN NoClaim ELSE @]
           F == [s.fences EXCEPT ![r] = IF @ = f THEN f + 1 ELSE @]
           d == Revoked(s, a)
<1>1. d = [s EXCEPT !.claims = C, !.fences = F]
  BY DEF Revoked
<1>2. /\ F \in [Name -> Nat] /\ \A n \in Name : s.fences[n] <= F[n]
      /\ \A n \in Name \ {r} : F[n] = s.fences[n]
      /\ F[r] = IF s.fences[r] = f THEN f + 1 ELSE s.fences[r]
  BY DEF Books
<1>3. /\ C \in [Name -> Claim \cup {NoClaim}]
      /\ \A n \in Name \ {r} : C[n] = s.claims[n]
      /\ C[r] = IF s.claims[r] # NoClaim /\ s.claims[r].fence = f THEN NoClaim ELSE s.claims[r]
  BY DEF Books
<1> HIDE DEF C, F, d
<1>4. /\ BookNames \subseteq DOMAIN d /\ d.fences = F /\ d.claims = C
      /\ d.journal = s.journal /\ d.work = s.work /\ d.written = s.written
      /\ d.gates = s.gates
  BY <1>1 DEF Books, BookNames
<1>5. \A n \in Name : C[n] # NoClaim => C[n].fence = F[n]
  BY <1>2, <1>3 DEF Books, Accounts
<1>6. \A i \in s.journal : i.fence <= F[i.resource]
  <2> SUFFICES ASSUME NEW i \in s.journal PROVE i.fence <= F[i.resource]
    OBVIOUS
  <2>1. i.fence \in Nat /\ i.resource \in Name /\ i.fence <= s.fences[i.resource]
    BY DEF Books, Accounts, GrantRow
  <2>2. s.fences[i.resource] \in Nat /\ F[i.resource] \in Nat
        /\ s.fences[i.resource] <= F[i.resource]
    BY <1>2, <2>1 DEF Books
  <2> QED
    BY <2>1, <2>2
<1>7. \A e \in Entity : s.written[e] <= F[TypedName[e]]
  <2> SUFFICES ASSUME NEW e \in Entity PROVE s.written[e] <= F[TypedName[e]]
    OBVIOUS
  <2>1. TypedName[e] \in Name /\ s.written[e] \in Nat /\ s.written[e] <= s.fences[TypedName[e]]
    BY DEF Books, Accounts
  <2>2. s.fences[TypedName[e]] \in Nat /\ F[TypedName[e]] \in Nat
        /\ s.fences[TypedName[e]] <= F[TypedName[e]]
    BY <1>2, <2>1 DEF Books
  <2> QED
    BY <2>1, <2>2
<1>8. Accounts(d)
  BY <1>4, <1>5, <1>6, <1>7 DEF Accounts, Books
<1>9. Books(d)
  BY <1>2, <1>3, <1>4, <1>8 DEF Books
<1>10. \A e \in Entity : s.written[e] <= d.written[e]
  BY <1>4 DEF Books
<1> QED
  BY <1>4, <1>9, <1>10 DEF Carries, d

\* From s to d, p is granted r under the next fence.
GrantMade(s, d, r, p) ==
    /\ d.fences = [s.fences EXCEPT ![r] = s.fences[r] + 1]
    /\ \A n \in Name : d.claims[n] # NoClaim => d.claims[n].fence = d.fences[n]
    /\ d.journal = s.journal
            \cup {[resource |-> r, fence |-> s.fences[r] + 1, holder |-> p]}
    /\ d.written = s.written

\* Such a grant is one nobody has had.
LEMMA GrantedAccounts ==
    ASSUME NEW s, Books(s), NEW d, NEW r \in Name, NEW p \in Participant,
           GrantMade(s, d, r, p)
    PROVE  Accounts(d) /\ d.journal \subseteq GrantRow
<1>0. /\ d.fences = [s.fences EXCEPT ![r] = s.fences[r] + 1]
      /\ \A n \in Name : d.claims[n] # NoClaim => d.claims[n].fence = d.fences[n]
      /\ d.journal = s.journal
              \cup {[resource |-> r, fence |-> s.fences[r] + 1, holder |-> p]}
      /\ d.written = s.written
  BY DEF GrantMade
<1> DEFINE f == s.fences[r] + 1
           i == [resource |-> r, fence |-> f, holder |-> p]
           F == d.fences
<1>1. f \in Nat \ {0} /\ s.fences[r] < f
  BY DEF Books
<1>2. i \in GrantRow /\ i.resource = r /\ i.fence = f /\ i.holder = p
  BY <1>1 DEF GrantRow
<1>3. d.journal = s.journal \cup {i}
  BY <1>0
<1>4. /\ F \in [Name -> Nat] /\ F[r] = f /\ \A n \in Name \ {r} : F[n] = s.fences[n]
      /\ \A n \in Name : s.fences[n] <= F[n]
  <2>1. F = [s.fences EXCEPT ![r] = f]
    BY <1>0
  <2> HIDE DEF F, f
  <2> QED
    BY <1>1, <2>1 DEF Books
<1> HIDE DEF f, i, F
<1>5. ASSUME NEW j \in s.journal
      PROVE  j.fence <= F[j.resource] /\ ~(j.resource = r /\ j.fence = f)
  <2>1. j.fence \in Nat /\ j.resource \in Name /\ j.fence <= s.fences[j.resource]
    BY DEF Books, Accounts, GrantRow
  <2>2. s.fences[j.resource] \in Nat /\ F[j.resource] \in Nat
        /\ s.fences[j.resource] <= F[j.resource]
    BY <1>4, <2>1 DEF Books
  <2> QED
    BY <1>1, <2>1, <2>2
<1>6. \A j \in d.journal : j.fence <= F[j.resource]
  BY <1>1, <1>2, <1>3, <1>4, <1>5
<1>7. \A j, k \in d.journal :
          j.resource = k.resource /\ j.fence = k.fence => j.holder = k.holder
  <2> SUFFICES ASSUME NEW j \in d.journal, NEW k \in d.journal,
                      j.resource = k.resource, j.fence = k.fence
               PROVE  j.holder = k.holder
    OBVIOUS
  <2>1. CASE j = i
    BY <1>2, <1>3, <1>5, <2>1
  <2>2. CASE k = i
    BY <1>2, <1>3, <1>5, <2>2
  <2>3. CASE j \in s.journal /\ k \in s.journal
    BY <2>3 DEF Books, Accounts
  <2> QED
    BY <1>3, <2>1, <2>2, <2>3
<1>8. \A e \in Entity : d.written[e] <= F[TypedName[e]]
  <2> SUFFICES ASSUME NEW e \in Entity PROVE s.written[e] <= F[TypedName[e]]
    BY <1>0
  <2>1. TypedName[e] \in Name /\ s.written[e] \in Nat
        /\ s.written[e] <= s.fences[TypedName[e]]
    BY DEF Books, Accounts
  <2>2. s.fences[TypedName[e]] \in Nat /\ F[TypedName[e]] \in Nat
        /\ s.fences[TypedName[e]] <= F[TypedName[e]]
    BY <1>4, <2>1 DEF Books
  <2> QED
    BY <2>1, <2>2
<1>9. Accounts(d)
  <2>1. \A n \in Name : d.claims[n] # NoClaim => d.claims[n].fence = d.fences[n]
    BY <1>0
  <2> QED
    BY <1>6, <1>7, <1>8, <2>1 DEF Accounts, F
<1>10. d.journal \subseteq GrantRow
  BY <1>2, <1>3 DEF Books
<1> QED
  BY <1>9, <1>10

LEMMA RenewedType ==
    ASSUME NEW c \in Claim, NEW ttl \in Ttl
    PROVE  Renewed(c, ttl) \in Claim /\ Renewed(c, ttl).fence = c.fence
  BY DEF Claim, Renewed, Ttl

LEMMA AcquiredCarries ==
    ASSUME NEW s, Books(s), NEW r \in Name, NEW p \in Participant, NEW ttl \in Ttl
    PROVE  /\ Carries(s, Acquired(s, r, p, ttl)) /\ Acquired(s, r, p, ttl).gates = s.gates
           /\ Acquired(s, r, p, ttl).claims[r].fence = Acquired(s, r, p, ttl).fences[r]
<1> DEFINE d == Acquired(s, r, p, ttl)
<1>1. CASE Live(s.claims[r]) /\ HeldBy(s.claims[r], p)
  <2> DEFINE c == Renewed(s.claims[r], ttl)
             C == [s.claims EXCEPT ![r] = c]
  <2>1. d = [s EXCEPT !.claims = C]
    BY <1>1 DEF Acquired
  <2>2. s.claims[r] \in Claim /\ s.claims[r] # NoClaim
    BY <1>1 DEF Live, Books
  <2>3. c \in Claim /\ c.fence = s.claims[r].fence
    BY <2>2, RenewedType DEF Renewed, Claim
  <2> HIDE DEF c
  <2>4. /\ C \in [Name -> Claim \cup {NoClaim}] /\ C[r] = c
        /\ \A n \in Name \ {r} : C[n] = s.claims[n]
    BY <2>3 DEF Books
  <2> HIDE DEF C, d
  <2>5. /\ BookNames \subseteq DOMAIN d /\ d.fences = s.fences /\ d.claims = C
        /\ d.journal = s.journal /\ d.work = s.work /\ d.written = s.written
        /\ d.gates = s.gates
    BY <2>1 DEF Books, BookNames
  <2>6. \A n \in Name : C[n] # NoClaim => C[n].fence = s.fences[n]
    BY <2>2, <2>3, <2>4 DEF Books, Accounts
  <2>7. Accounts(d)
    BY <2>5, <2>6 DEF Accounts, Books
  <2>8. Books(d)
    BY <2>4, <2>5, <2>7 DEF Books
  <2>9. \A e \in Entity : s.written[e] <= d.written[e]
    BY <2>5 DEF Books
  <2>10. d.claims[r].fence = d.fences[r]
    BY <2>2, <2>3, <2>4, <2>5 DEF Books, Accounts
  <2> QED
    BY <2>5, <2>8, <2>9, <2>10 DEF Carries, d
<1>2. CASE ~(Live(s.claims[r]) /\ HeldBy(s.claims[r], p))
  <2> DEFINE f == s.fences[r] + 1
             c == [holder |-> p, mode |-> "exclusive", fence |-> f, left |-> ttl]
             i == [resource |-> r, fence |-> f, holder |-> p]
             F == [s.fences EXCEPT ![r] = f]
             C == [s.claims EXCEPT ![r] = c]
  <2>1. d = [s EXCEPT !.fences = F, !.claims = C, !.journal = @ \cup {i}]
    BY <1>2 DEF Acquired
  <2>2. f \in Nat \ {0} /\ s.fences[r] < f
    BY DEF Books
  <2>3. c \in Claim /\ c.fence = f /\ i \in GrantRow
        /\ i.resource = r /\ i.fence = f /\ i.holder = p
    BY <2>2 DEF Claim, Mode, Ttl, GrantRow
  <2> HIDE DEF c, f, i
  <2>4. /\ F \in [Name -> Nat] /\ F[r] = f /\ \A n \in Name \ {r} : F[n] = s.fences[n]
        /\ \A n \in Name : s.fences[n] <= F[n]
    BY <2>2 DEF Books
  <2>5. /\ C \in [Name -> Claim \cup {NoClaim}] /\ C[r] = c
        /\ \A n \in Name \ {r} : C[n] = s.claims[n]
    BY <2>3 DEF Books
  <2> HIDE DEF C, F, d
  <2>6. /\ BookNames \subseteq DOMAIN d /\ d.fences = F /\ d.claims = C
        /\ d.journal = s.journal \cup {i} /\ d.work = s.work /\ d.written = s.written
        /\ d.gates = s.gates
    BY <2>1 DEF Books, BookNames
  <2>7. \A n \in Name : C[n] # NoClaim => C[n].fence = F[n]
    BY <2>3, <2>4, <2>5 DEF Books, Accounts
  <2>8. Accounts(d) /\ d.journal \subseteq GrantRow
    <3>1. d.fences = [s.fences EXCEPT ![r] = s.fences[r] + 1]
      <4>1. d.fences = F
        BY <2>6
      <4> QED
        BY <4>1 DEF F, f
    <3>2. d.journal = s.journal
              \cup {[resource |-> r, fence |-> s.fences[r] + 1, holder |-> p]}
      BY <2>6 DEF i, f
    <3>3. \A n \in Name : d.claims[n] # NoClaim => d.claims[n].fence = d.fences[n]
      BY <2>6, <2>7
    <3>4. d.written = s.written
      BY <2>6
    <3>5. GrantMade(s, d, r, p)
      BY <3>1, <3>2, <3>3, <3>4, Zenon DEF GrantMade
    <3> QED
      BY <3>5, GrantedAccounts
  <2>9. Books(d)
    BY <2>4, <2>5, <2>6, <2>8 DEF Books
  <2>10. \A e \in Entity : s.written[e] <= d.written[e]
    BY <2>6 DEF Books
  <2> QED
    BY <2>3, <2>4, <2>5, <2>6, <2>9, <2>10 DEF Carries, d
<1> QED
  BY <1>1, <1>2

\* A fresh grant is no write, and the attempt has the fence that is current now.
LEMMA RefencedCarries ==
    ASSUME NEW s, Books(s), NEW a \in AttemptId, Attached(s, a),
           NEW p \in Participant, policy.lease \in Ttl
    PROVE  /\ Carries(s, Refenced(s, a, p)) /\ Refenced(s, a, p).gates = s.gates
<1> DEFINE r == ResourceOf(s, a)
           x == Superseded(s, a)
           y == Revoked(x, a)
           z == Acquired(y, r, p, policy.lease)
           d == Refenced(s, a, p)
<1>1. /\ s \in Contents /\ IsAttempt(s, a) /\ OpenIsValid(s)
      /\ r \in Name /\ s.attempts[a].fence \in Nat
  BY AttemptTypes DEF Attached
<1>2. SameBooks(s, x) /\ x.attempts = s.attempts
  <2>1. /\ x \in Contents /\ x.attempts = s.attempts
        /\ x.fences = s.fences /\ x.claims = s.claims /\ x.journal = s.journal
        /\ x.work = s.work /\ x.written = s.written /\ x.gates = s.gates
    BY <1>1, SupersededRows
  <2> HIDE DEF x
  <2> QED
    BY <2>1, ContentsHaveBooks DEF SameBooks
<1>3. ResourceOf(x, a) = r /\ x.attempts[a] = s.attempts[a]
  BY <1>2 DEF ResourceOf
<1>4. d = [z EXCEPT !.attempts[a] =
              [@ EXCEPT !.state = "running", !.owner = p, !.left = policy.lease,
                        !.fence = z.claims[r].fence]]
  BY Zenon DEF Refenced
<1> HIDE DEF x
<1>5. Carries(s, x) /\ Books(x)
  BY <1>2, SameBooksCarry DEF Carries
<1>6. Carries(x, y) /\ y.gates = x.gates
  BY <1>1, <1>3, <1>5, RevokedCarries
<1>7. Books(y)
  BY <1>6 DEF Carries
<1> HIDE DEF y
<1>8. Carries(y, z) /\ z.gates = y.gates
  BY <1>1, <1>7, AcquiredCarries
<1>9. Books(z)
  BY <1>8 DEF Carries
<1> HIDE DEF z
<1>10. SameBooks(z, d)
  <2> HIDE DEF d
  <2> QED
    BY <1>4, <1>9 DEF SameBooks, Books, BookNames
<1> HIDE DEF d
<1>11. Carries(z, d)
  BY <1>9, <1>10, SameBooksCarry
<1>12. Carries(s, y)
  BY <1>5, <1>6, CarriesAgain
<1>13. Carries(s, z)
  BY <1>8, <1>12, CarriesAgain
<1>14. Carries(s, d)
  BY <1>11, <1>13, CarriesAgain
<1>15. d.gates = s.gates
  BY <1>2, <1>6, <1>8, <1>10 DEF SameBooks
<1> QED
  BY <1>14, <1>15 DEF d

\* The gates that let a write pass are decided when it is made.
LEMMA PassedGates ==
    ASSUME NEW G \in [Gate -> GateRow \cup {NoGate}], NEW N, ~GateBlocked(G, N)
    PROVE  /\ \A g \in Gate, n \in N : ~Unresolved(GatesSettled(G, N)[g], n)
           /\ \A g \in Gate : \A n : Unresolved(GatesSettled(G, N)[g], n)
                 => GatesSettled(G, N)[g] = G[g]
<1> SUFFICES ASSUME NEW g \in Gate
             PROVE  /\ \A n \in N : ~Unresolved(GatesSettled(G, N)[g], n)
                    /\ \A n : Unresolved(GatesSettled(G, N)[g], n)
                          => GatesSettled(G, N)[g] = G[g]
  OBVIOUS
<1> DEFINE h == [G[g] EXCEPT !.status = "timed_out"]
<1>1. G[g] # NoGate => h.status = "timed_out"
  BY DEF GateRow
<1>2. CASE \E n \in N : Unresolved(G[g], n) /\ TimedOut(G[g])
  <2>1. GatesSettled(G, N)[g] = h /\ G[g] # NoGate
    BY <1>2 DEF GatesSettled, Unresolved
  <2> QED
    BY <1>1, <2>1 DEF Unresolved
<1>3. CASE ~\E n \in N : Unresolved(G[g], n) /\ TimedOut(G[g])
  <2>1. GatesSettled(G, N)[g] = G[g]
    BY <1>3 DEF GatesSettled
  <2>2. \A n \in N : ~Unresolved(G[g], n)
    BY <1>3 DEF GateBlocked
  <2> QED
    BY <2>1, <2>2
<1> QED
  BY <1>2, <1>3

\* The lifecycle write of an attempt is one of the current fence and passes the gates.
MayWrite(s, a, kind) ==
    LET e == s.attempts[a].task IN
    /\ Target(kind) # "unmapped" => s.attempts[a].fence = s.fences[ResourceOf(s, a)]
    /\ Target(kind) = "terminal" => ~GateBlocked(s.gates, UpdateGateNames(e))

LEMMA TransitionedCarries ==
    ASSUME NEW s, Books(s), NEW a \in AttemptId, Attached(s, a),
           NEW kind \in Outcome \cup {"start"}, MayWrite(s, a, kind)
    PROVE  Carries(s, Transitioned(s, a, kind))
<1> DEFINE t == s.attempts[a]
           e == t.task
           N == UpdateGateNames(e)
           d == Transitioned(s, a, kind)
           W == [s.work EXCEPT ![e] = Target(kind)]
           V == [s.written EXCEPT ![e] = t.fence]
           H == IF Target(kind) = "terminal" THEN GatesSettled(s.gates, N) ELSE s.gates
<1>1. e \in Entity /\ t.fence \in Nat /\ ResourceOf(s, a) = TypedName[e] /\ e \in N
  BY AttemptTypes DEF Attached, UpdateGateNames
<1>2. CASE Target(kind) = "unmapped"
  <2>1. d = s
    BY <1>2 DEF Transitioned
  <2>2. SameBooks(s, s)
    BY DEF SameBooks, Books
  <2> HIDE DEF d
  <2> QED
    BY <2>1, <2>2, SameBooksCarry DEF d
<1>3. CASE Target(kind) # "unmapped"
  <2>1. Target(kind) \in WorkState
    BY <1>3 DEF Target, Mapped, Outcome
  <2>2. t.fence = s.fences[TypedName[e]]
    BY <1>1, <1>3 DEF MayWrite
  <2>3. d = [s EXCEPT !.work = W, !.written = V, !.gates = H]
    BY <1>3 DEF Transitioned
  <2>4. /\ W \in [Entity -> WorkState] /\ V \in [Entity -> Nat]
        /\ \A x \in Entity \ {e} : W[x] = s.work[x] /\ V[x] = s.written[x]
        /\ W[e] = Target(kind) /\ V[e] = t.fence
    BY <1>1, <2>1 DEF Books
  <2>5. H \in [Gate -> GateRow \cup {NoGate}]
    BY SettledGates DEF Books
  <2>6. /\ \A g \in Gate, n \in Name : Unresolved(H[g], n) => H[g] = s.gates[g]
        /\ Target(kind) = "terminal" => \A g \in Gate : ~Unresolved(H[g], e)
    <3>1. CASE Target(kind) = "terminal"
      <4>1. ~GateBlocked(s.gates, N) /\ s.gates \in [Gate -> GateRow \cup {NoGate}]
        BY <3>1 DEF MayWrite, Books
      <4>2. H = GatesSettled(s.gates, N)
        BY <3>1
      <4> HIDE DEF H, N
      <4> QED
        BY <1>1, <4>1, <4>2, PassedGates
    <3>2. CASE Target(kind) # "terminal"
      BY <3>2
    <3> QED
      BY <3>1, <3>2
  <2> HIDE DEF W, V, H, d
  <2>7. /\ BookNames \subseteq DOMAIN d /\ d.fences = s.fences /\ d.claims = s.claims
        /\ d.journal = s.journal /\ d.work = W /\ d.written = V /\ d.gates = H
    BY <2>3 DEF Books, BookNames
  <2>8. \A x \in Entity : V[x] <= s.fences[TypedName[x]] /\ s.written[x] <= V[x]
    <3> SUFFICES ASSUME NEW x \in Entity
                 PROVE  V[x] <= s.fences[TypedName[x]] /\ s.written[x] <= V[x]
      OBVIOUS
    <3>1. /\ TypedName[x] \in Name /\ s.fences[TypedName[x]] \in Nat /\ s.written[x] \in Nat
          /\ s.written[x] <= s.fences[TypedName[x]]
      BY DEF Books, Accounts
    <3> QED
      BY <2>2, <2>4, <3>1
  <2>9. Accounts(d)
    BY <2>7, <2>8 DEF Accounts, Books
  <2>10. Books(d)
    BY <2>4, <2>5, <2>7, <2>9 DEF Books
  <2>11. \A x \in Entity, g \in Gate :
            s.work[x] # "terminal" /\ d.work[x] = "terminal" => ~Unresolved(d.gates[g], x)
    BY <2>4, <2>6, <2>7
  <2> QED
    BY <2>6, <2>7, <2>8, <2>10, <2>11 DEF Carries, d
<1> QED
  BY <1>2, <1>3

LEMMA EndedCarries ==
    ASSUME NEW s, Books(s), NEW a \in AttemptId, Attached(s, a),
           NEW outcome \in Outcome, MayWrite(s, a, outcome)
    PROVE  Carries(s, Ended(s, a, outcome))
<1> DEFINE t == s.attempts[a]
           v == Transitioned(s, a, outcome)
           w == Superseded(v, a)
           u == OverRow(t, outcome)
           A == [w.attempts EXCEPT ![a] = u]
           x == [w EXCEPT !.attempts = A, !.reservations[t.task] = NoRow,
                          !.entries[t.entry].state = "finished"]
           d == Ended(s, a, outcome)
<1>1. /\ s \in Contents /\ IsAttempt(s, a) /\ t \in AttemptRow
      /\ ResourceOf(s, a) \in Name /\ t.fence \in Nat
  BY AttemptTypes DEF Attached
<1>2. Carries(s, v)
  BY TransitionedCarries
<1>3. Touches(s, v, a) /\ v.attempts = s.attempts
  BY TransitionedRows
<1>4. v \in Contents /\ OpenIsValid(v)
  BY <1>3, StaysAttached DEF Attached
<1> HIDE DEF v
<1>5. /\ w \in Contents /\ w.attempts = v.attempts
      /\ w.fences = v.fences /\ w.claims = v.claims /\ w.journal = v.journal
      /\ w.work = v.work /\ w.written = v.written /\ w.gates = v.gates
  BY <1>4, SupersededRows
<1> HIDE DEF w
<1>6. SameBooks(v, w)
  BY <1>5, ContentsHaveBooks DEF SameBooks
<1>7. w.attempts[a] = t /\ w.attempts \in [AttemptId -> AttemptRow \cup {NoRow}]
  BY <1>3, <1>5 DEF Contents
<1>8. u.task = t.task /\ u.fence = t.fence
  BY <1>1, OverRowIsRow
<1> HIDE DEF u
<1>9. A[a] = u
  BY <1>7
<1> HIDE DEF A
<1>10. SameBooks(w, x) /\ x.attempts = A
  BY <1>5, ContentsHaveBooks DEF SameBooks, BookNames, Contents
<1>11. d = Revoked(x, a)
  <2>1. x = [w EXCEPT !.attempts[a] = [@ EXCEPT !.state = "terminal", !.left = 0,
                                                !.outcome = outcome],
                      !.reservations[t.task] = NoRow,
                      !.entries[t.entry].state = "finished"]
    <3>1. A = [w.attempts EXCEPT ![a] = [@ EXCEPT !.state = "terminal", !.left = 0,
                                                  !.outcome = outcome]]
      BY <1>7 DEF A, u, OverRow
    <3>2. x = [w EXCEPT !.attempts = [w.attempts EXCEPT
                            ![a] = [@ EXCEPT !.state = "terminal", !.left = 0,
                                             !.outcome = outcome]],
                        !.reservations[t.task] = NoRow,
                        !.entries[t.entry].state = "finished"]
      BY <3>1
    <3> HIDE DEF x
    <3> QED
      BY <3>2, <1>5 DEF Contents
  <2> HIDE DEF x
  <2> QED
    BY <2>1, Zenon DEF Ended, w, v
<1> HIDE DEF x, d
<1>12. ResourceOf(x, a) = ResourceOf(s, a) /\ x.attempts[a].fence = t.fence
  BY <1>8, <1>9, <1>10 DEF ResourceOf
<1>13. Books(v)
  BY <1>2 DEF Carries
<1>14. Carries(v, w)
  BY <1>6, <1>13, SameBooksCarry
<1>15. Books(w)
  BY <1>14 DEF Carries
<1>16. Carries(w, x)
  BY <1>10, <1>15, SameBooksCarry
<1>17. Books(x)
  BY <1>16 DEF Carries
<1>18. Carries(x, d)
  BY <1>1, <1>11, <1>12, <1>17, RevokedCarries
<1>19. Carries(s, w)
  BY <1>2, <1>14, CarriesAgain
<1>20. Carries(s, x)
  BY <1>16, <1>19, CarriesAgain
<1>21. Carries(s, d)
  BY <1>18, <1>20, CarriesAgain
<1> QED
  BY <1>21 DEF d

LEMMA RescheduledCarries ==
    ASSUME NEW s, Books(s), NEW w, Carries(s, w), NEW a, NEW delay
    PROVE  Carries(s, Rescheduled(w, a, delay))
<1> DEFINE d == Rescheduled(w, a, delay)
<1>1. Books(w)
  BY DEF Carries
<1>2. SameBooks(w, d)
  BY <1>1 DEF Rescheduled, SameBooks, Books, BookNames
<1> HIDE DEF d
<1>3. Carries(w, d)
  BY <1>1, <1>2, SameBooksCarry
<1>4. Carries(s, d)
  BY <1>3, CarriesAgain
<1> QED
  BY <1>4 DEF d

LEMMA FinishedCarries ==
    ASSUME NEW s, Books(s), NEW a \in AttemptId, Attached(s, a),
           NEW outcome \in Outcome, MayWrite(s, a, outcome)
    PROVE  Carries(s, Finished(s, a, outcome))
<1> DEFINE v == Ended(s, a, outcome)
           delay == Backoff(Cardinality(AttemptsOf(v, s.attempts[a].entry)))
<1>1. Finished(s, a, outcome) \in {v, Rescheduled(v, a, delay)}
  BY DEF Finished
<1>2. Carries(s, v)
  BY EndedCarries
<1> HIDE DEF v, delay
<1>3. Carries(s, Rescheduled(v, a, delay))
  BY <1>2, RescheduledCarries
<1> QED
  BY <1>1, <1>2, <1>3

\* Under the grant just taken the attempt may write, gates permitting.
LEMMA RefencedMayWrite ==
    ASSUME NEW s, RowsAgree(s), Books(s), NEW a \in AttemptId, ActiveIn(s, a),
           NEW p \in Participant, policy.lease \in Ttl, NEW kind,
           Target(kind) = "terminal" =>
                ~GateBlocked(s.gates, UpdateGateNames(s.attempts[a].task))
    PROVE  MayWrite(Refenced(s, a, p), a, kind)
<1> DEFINE w == Refenced(s, a, p)
           r == ResourceOf(s, a)
<1>1. /\ Attached(s, a) /\ s.attempts[a].fence <= s.fences[r]
      /\ s.claims[r] # NoClaim /\ s.claims[r].fence # s.attempts[a].fence
            => ~Live(s.claims[r])
  BY ActiveRows
<1>2. Touches(s, w, a) /\ w.attempts[a].fence = w.fences[r]
  BY <1>1, RefencedRows
<1>3. w.gates = s.gates
  BY <1>1, RefencedCarries
<1> HIDE DEF w
<1>4. w.attempts[a].task = s.attempts[a].task /\ ResourceOf(w, a) = r
  BY <1>2 DEF Touches, ResourceOf
<1>5. MayWrite(w, a, kind)
  BY <1>2, <1>3, <1>4 DEF MayWrite
<1> QED
  BY <1>5 DEF w

LEMMA ExpiredCarries ==
    ASSUME NEW s, RowsAgree(s), Books(s), NEW a \in AttemptId, IsAttempt(s, a),
           s.attempts[a].state \in Executing, policy.lease \in Ttl,
           ~s.attempts[a].accepted /\ s.attempts[a].cancel
              /\ Target("cancelled") = "terminal"
                => ~GateBlocked(s.gates, UpdateGateNames(s.attempts[a].task))
    PROVE  Carries(s, Expired(a, s))
<1> DEFINE t == s.attempts[a]
           u == Revoked(s, a)
           w == Refenced(s, a, t.owner)
           d == Expired(a, s)
<1>1. /\ ActiveIn(s, a) /\ s \in Contents /\ t.owner \in Participant
      /\ ResourceOf(s, a) \in Name /\ t.fence \in Nat
  BY AttemptTypes DEF ActiveIn, Executing, RowsAgree
<1>2. Carries(s, u)
  BY <1>1, RevokedCarries
<1>3. Books(u)
  BY <1>2 DEF Carries
<1>4. CASE ~t.accepted /\ t.cancel
  <2>1. d = Ended(w, a, "cancelled")
    BY <1>4 DEF Expired
  <2>2. Attached(s, a) /\ Attached(w, a)
    <3>1. Attached(s, a)
      BY <1>1, ActiveRows
    <3>2. Attached(w, a)
      BY <1>1, FreshGrant
    <3> QED
      BY <3>1, <3>2
  <2>3. MayWrite(w, a, "cancelled")
    BY <1>1, <1>4, RefencedMayWrite
  <2>4. Carries(s, w)
    BY <1>1, <2>2, RefencedCarries
  <2>5. Books(w)
    BY <2>4 DEF Carries
  <2> HIDE DEF w, d
  <2>6. Carries(w, d)
    <3>1. "cancelled" \in Outcome
      BY DEF Outcome
    <3> QED
      BY <2>1, <2>2, <2>3, <2>5, <3>1, EndedCarries
  <2>7. Carries(s, d)
    BY <2>4, <2>6, CarriesAgain
  <2> QED
    BY <2>7 DEF d
<1>5. CASE ~(~t.accepted /\ t.cancel)
  <2> HIDE DEF u
  <2>1. SameBooks(u, d)
    <3>1. CASE t.accepted
      <4>1. d = [u EXCEPT !.attempts[a] = [@ EXCEPT !.state = "uncertain", !.left = 0]]
        BY <3>1, Zenon DEF Expired, u
      <4> HIDE DEF d
      <4> QED
        BY <4>1, <1>3 DEF SameBooks, Books, BookNames
    <3>2. CASE ~t.accepted /\ ~t.cancel
      <4> DEFINE ranBefore == t.pred # NoRow
                              /\ \E b \in AttemptsOf(s, t.entry) : s.attempts[b].accepted
      <4>1. d = [u EXCEPT !.attempts[a] = [@ EXCEPT !.state = "terminal", !.left = 0,
                                                    !.outcome = "never_ran"],
                          !.reservations[t.task] = IF ranBefore
                                              THEN [@ EXCEPT !.held = FALSE] ELSE NoRow,
                          !.entries[t.entry].state = "queued"]
        BY <3>2, Zenon DEF Expired, u
      <4> HIDE DEF d, ranBefore
      <4> QED
        BY <4>1, <1>3 DEF SameBooks, Books, BookNames
    <3> QED
      BY <1>5, <3>1, <3>2
  <2> HIDE DEF d
  <2>2. Carries(u, d)
    BY <1>3, <2>1, SameBooksCarry
  <2>3. Carries(s, d)
    BY <1>2, <2>2, CarriesAgain
  <2> QED
    BY <2>3 DEF d
<1> QED
  BY <1>4, <1>5

\* However many expire, those that end as cancelled past their gates.
LEMMA AllExpiredCarries ==
    ASSUME NEW s, RowsAgree(s), Books(s), NEW S \in SUBSET AttemptId, policy.lease \in Ttl,
           \A a \in S : IsAttempt(s, a) /\ s.attempts[a].state \in Executing,
           \A a \in S :
              ~s.attempts[a].accepted /\ s.attempts[a].cancel
              /\ Target("cancelled") = "terminal"
                => ~GateBlocked(s.gates, UpdateGateNames(s.attempts[a].task))
    PROVE  Carries(s, FoldSet(Expired, s, S))
<1> DEFINE G == [R \in SUBSET S |-> {d \in Contents : AllExpire(s, d, R) /\ Carries(s, d)}]
<1>1. IsFiniteSet(S)
  <2>1. S \subseteq {a \in AttemptId : IsAttempt(s, a)}
    OBVIOUS
  <2>2. IsFiniteSet({a \in AttemptId : IsAttempt(s, a)})
    BY DEF RowsAgree, RowsAreFew
  <2> QED
    BY <2>1, <2>2, FS_Subset
<1>2. \A R \in SUBSET S : \A d :
          d \in G[R] <=> d \in Contents /\ AllExpire(s, d, R) /\ Carries(s, d)
  OBVIOUS
<1> HIDE DEF G
<1>3. s \in G[{}]
  <2>1. s \in Contents /\ AllExpire(s, s, {}) /\ {} \in SUBSET S
    BY NothingExpires DEF RowsAgree
  <2>2. SameBooks(s, s)
    BY DEF SameBooks, Books
  <2>3. Carries(s, s)
    BY <2>2, SameBooksCarry
  <2> QED
    BY <1>2, <2>1, <2>3
<1>4. ASSUME NEW R \in SUBSET S, NEW a \in S \ R, NEW d \in G[R]
      PROVE  Expired(a, d) \in G[R \cup {a}]
  <2>1. AllExpire(s, d, R) /\ Carries(s, d)
    BY <1>2
  <2>2. AllExpire(s, Expired(a, d), R \cup {a})
    BY <2>1, OneMoreExpires
  <2>3. Expired(a, d) \in Contents
    BY <2>2 DEF AllExpire, RowsAgree
  <2>4. /\ d.attempts[a] = s.attempts[a] /\ IsAttempt(d, a)
        /\ d.attempts[a].state \in Executing /\ RowsAgree(d) /\ Books(d)
    BY <2>1 DEF AllExpire, IsAttempt, Carries
  <2>5. ASSUME ~d.attempts[a].accepted /\ d.attempts[a].cancel
               /\ Target("cancelled") = "terminal"
        PROVE  ~GateBlocked(d.gates, UpdateGateNames(d.attempts[a].task))
    <3> DEFINE N == UpdateGateNames(s.attempts[a].task)
    <3>1. ~GateBlocked(s.gates, N)
      BY <2>4, <2>5
    <3>2. N \subseteq Name
      <4>1. s.attempts[a].task \in Entity
        BY AttemptTypes DEF RowsAgree
      <4> QED
        BY <4>1 DEF UpdateGateNames
    <3> HIDE DEF N
    <3>3. ~GateBlocked(d.gates, N)
      BY <2>1, <3>1, <3>2 DEF GateBlocked, Carries
    <3> QED
      BY <2>4, <3>3 DEF N
  <2>6. Carries(d, Expired(a, d))
    BY <2>4, <2>5, ExpiredCarries
  <2>7. Carries(s, Expired(a, d))
    BY <2>1, <2>6, CarriesAgain
  <2>8. R \cup {a} \in SUBSET S
    OBVIOUS
  <2> QED
    BY <1>2, <2>2, <2>3, <2>7, <2>8
<1>5. FoldSet(Expired, s, S) \in G[S]
  BY <1>1, <1>3, <1>4, ExpiryInduction
<1>6. S \in SUBSET S
  OBVIOUS
<1> QED
  BY <1>2, <1>5, <1>6
=============================================================================
