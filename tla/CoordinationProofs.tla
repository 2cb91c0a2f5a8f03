------------------------- MODULE CoordinationProofs -------------------------
(***************************************************************************)
(* Theorems about module Coordination, for every set of names, tasks,      *)
(* sessions and gates and every bound, and about the calls of its clients  *)
(* in module ClientWrites, for every number of participants.               *)
(*                                                                         *)
(* The argument rests on one inductive invariant, Ledger.  It says what    *)
(* the journal of grants knows about the tables: a fence is never above    *)
(* the current one of its resource, the current fence of a resource is one *)
(* that was granted, and a claim row carries the current fence.            *)
(*                                                                         *)
(* A call of a client reads, waits and writes.  CallsInv says what it has  *)
(* in hand at each wait: a fence that was granted under the name it goes   *)
(* by, to itself when it was acquired.                                     *)
(***************************************************************************)
EXTENDS ClientWrites, TLAPS

\* No grant is above the current fence of its resource.
GrantsAreBehind == \A i \in journal : i.fence <= fences[i.resource]

\* The current fence of a resource was granted to somebody.
CurrentFenceIsGranted ==
    \A n \in Name : fences[n] > 0 =>
        \E i \in journal : i.resource = n /\ i.fence = fences[n]

\* No accepted write of a task is above the task's current fence.
WritesAreBehind == \A e \in Entity : written[e] <= fences[TypedName[e]]

Ledger ==
    /\ TypeOK
    /\ ClaimHoldsCurrentFence
    /\ GrantsAreBehind
    /\ CurrentFenceIsGranted
    /\ OneHolderPerFence
    /\ WritesAreAccountable
    /\ WritesAreBehind

USE PrincipalOfAssumption, MaxTtlAssumption, NoClaimAssumption, NameAssumption,
    MortalAssumption, MaxFenceAssumption

-----------------------------------------------------------------------------
(* The operators of the model.                                             *)

\* A name stands for a name.
LEMMA CanonicalType == \A n \in Name : TypeOK => Canonical(n) \in Name
  BY DEF Canonical, TypeOK

\* A created task is reached under its typed name.
LEMMA CanonicalEntity ==
    \A e \in Entity : Created(e) => Canonical(e) = TypedName[e] /\ NamesEntity(e)
  BY DEF Canonical, NamesEntity

\* Settling timer gates yields gate rows.
LEMMA GatesSettledType ==
    ASSUME TypeOK, NEW N
    PROVE  GatesSettled(gates, N) \in [Gate -> GateRow \cup {NoGate}]
<1> SUFFICES ASSUME NEW g \in Gate
             PROVE  GatesSettled(gates, N)[g] \in GateRow \cup {NoGate}
  BY DEF GatesSettled
<1>1. gates[g] \in GateRow \cup {NoGate}
  BY DEF TypeOK
<1>2. CASE \E n \in N : Unresolved(gates[g], n) /\ TimedOut(gates[g])
  <2>1. gates[g] \in GateRow
    BY <1>1, <1>2 DEF Unresolved
  <2>2. [gates[g] EXCEPT !.status = "timed_out"] \in GateRow
    BY <2>1 DEF GateRow
  <2> QED
    BY <1>2, <2>2 DEF GatesSettled
<1>3. CASE ~\E n \in N : Unresolved(gates[g], n) /\ TimedOut(gates[g])
  BY <1>1, <1>3 DEF GatesSettled
<1> QED
  BY <1>2, <1>3

\* A tick leaves a claim row a claim row.
LEMMA AgedType == \A c \in Claim \cup {NoClaim} : Aged(c) \in Claim \cup {NoClaim}
<1> SUFFICES ASSUME NEW c \in Claim, c # NoClaim, c.left > 0
             PROVE  [c EXCEPT !.left = @ - 1] \in Claim
  BY DEF Aged
<1>1. c.left - 1 \in 0..MaxTtl
  BY DEF Claim
<1> QED
  BY <1>1 DEF Claim

\* The operations a step can be, one by one.
LEMMA StepCases ==
    Next =>
        \/ \E p \in running, n \in Name, ttl \in Ttl :
              \/ AcquireHeld(p, n, ttl)
              \/ \E mode \in Mode : AcquireNew(p, n, mode, ttl)
              \/ \E f \in 1..MaxFence : Renew(p, n, f, ttl)
        \/ \E p \in running, n \in Name, f \in 1..MaxFence : Release(p, n, f)
        \/ \E e \in Entity, state \in WorkState : CreateEntity(e, state)
        \/ \E e \in Entity, f \in 1..MaxFence, patch \in Patch :
              UpdateEntity(e, f, patch)
        \/ \E e \in Entity, f \in 1..MaxFence : ArchiveEntity(e, f)
        \/ \E g \in Gate, n \in Name, f \in 1..MaxFence,
              timed \in BOOLEAN, timeout \in 0..MaxTtl :
                CreateGate(g, n, f, timed, timeout)
        \/ \E g \in Gate, status \in {"resolved", "cancelled"} : SettleGate(g, status)
        \/ ListGates
        \/ Sweep
        \/ \E p \in running : Crash(p)
        \/ Tick
<1> SUFFICES ASSUME Next
             PROVE  StepCases!2
  OBVIOUS
<1>1. ASSUME NEW p \in running, ClaimRequest(p)
      PROVE  StepCases!2
  BY <1>1 DEF ClaimRequest, Acquire
<1>2. CASE EntityRequest
  BY <1>2 DEF EntityRequest
<1>3. CASE GateRequest
  <2>1. CASE \E g \in Gate, n \in Name, f \in 1..MaxFence, timeout \in Ttl :
                CreateGate(g, n, f, TRUE, timeout)
    <3>1. TRUE \in BOOLEAN /\ Ttl \subseteq 0..MaxTtl
      BY DEF Ttl
    <3> QED
      BY <2>1, <3>1, Zenon
  <2>2. CASE \E g \in Gate, n \in Name, f \in 1..MaxFence :
                CreateGate(g, n, f, FALSE, 0)
    <3>1. FALSE \in BOOLEAN /\ 0 \in 0..MaxTtl
      OBVIOUS
    <3> QED
      BY <2>2, <3>1, Zenon
  <2> QED
    BY <1>3, <2>1, <2>2 DEF GateRequest
<1> QED
  BY <1>1, <1>2, <1>3 DEF Next

-----------------------------------------------------------------------------
(* Type correctness.                                                       *)

\* Initially every table has its type.
LEMMA TypeInit == Init => TypeOK
  BY DEF Init, TypeOK, WorkState

\* Every operation keeps the types of the tables.
LEMMA TypeStep == TypeOK /\ [Next]_vars => TypeOK'
<1> SUFFICES ASSUME TypeOK, [Next]_vars
             PROVE  TypeOK'
  OBVIOUS
<1>1. ASSUME NEW p \in running, NEW n \in Name, NEW ttl \in Ttl,
             AcquireHeld(p, n, ttl) \/ \E f \in 1..MaxFence : Renew(p, n, f, ttl)
      PROVE  TypeOK'
  <2> DEFINE r == Canonical(n)
  <2>1. r \in Name /\ claims[r] \in Claim
    BY <1>1, CanonicalType DEF TypeOK, AcquireHeld, Renew, Live
  <2>2. Renewed(claims[r], ttl) \in Claim
    BY <2>1 DEF Renewed, Claim, Ttl
  <2>3. claims' = [claims EXCEPT ![r] = Renewed(claims[r], ttl)]
    BY <1>1 DEF AcquireHeld, Renew
  <2>4. claims' \in [Name -> Claim \cup {NoClaim}]
    BY <2>1, <2>2, <2>3 DEF TypeOK
  <2> QED
    BY <1>1, <2>4 DEF AcquireHeld, Renew, TypeOK, table
<1>2. ASSUME NEW p \in running, NEW n \in Name, NEW mode \in Mode, NEW ttl \in Ttl,
             AcquireNew(p, n, mode, ttl)
      PROVE  TypeOK'
  <2> DEFINE r == Canonical(n)
             f == fences[r] + 1
             c == [holder |-> p, mode |-> mode, fence |-> f, left |-> ttl]
             i == [resource |-> r, fence |-> f, holder |-> p]
  <2>1. r \in Name /\ p \in Participant /\ f \in Nat \ {0}
    BY CanonicalType DEF TypeOK
  <2>2. c \in Claim /\ i \in [resource: Name, fence: Nat \ {0}, holder: Participant]
    BY <2>1 DEF Claim, Ttl
  <2>3. /\ fences' = [fences EXCEPT ![r] = f]
        /\ claims' = [claims EXCEPT ![r] = c]
        /\ journal' = journal \cup {i}
        /\ UNCHANGED <<running, table>>
    BY <1>2 DEF AcquireNew
  <2> QED
    BY <2>1, <2>2, <2>3 DEF TypeOK, table
<1>3. ASSUME NEW p \in running, NEW n \in Name, NEW f \in 1..MaxFence,
             Release(p, n, f)
      PROVE  TypeOK'
  BY <1>3, CanonicalType DEF Release, TypeOK, table
<1>4. ASSUME NEW e \in Entity, NEW state \in WorkState, CreateEntity(e, state)
      PROVE  TypeOK'
  BY <1>4 DEF CreateEntity, TypeOK, WorkState
<1>5. ASSUME NEW e \in Entity, NEW f \in 1..MaxFence, NEW patch \in Patch,
             UpdateEntity(e, f, patch)
      PROVE  TypeOK'
  <2>1. gates' \in [Gate -> GateRow \cup {NoGate}]
    BY <1>5, GatesSettledType DEF UpdateEntity, TypeOK
  <2>2. work' \in [Entity -> WorkState] /\ written' \in [Entity -> Nat]
    BY <1>5 DEF UpdateEntity, TypeOK, WorkState, Patch
  <2> QED
    BY <1>5, <2>1, <2>2 DEF UpdateEntity, TypeOK
<1>6. ASSUME NEW e \in Entity, NEW f \in 1..MaxFence, ArchiveEntity(e, f)
      PROVE  TypeOK'
  BY <1>6, GatesSettledType DEF ArchiveEntity, TypeOK
<1>7. ASSUME NEW g \in Gate, NEW n \in Name, NEW f \in 1..MaxFence,
             NEW timed \in BOOLEAN, NEW timeout \in 0..MaxTtl,
             CreateGate(g, n, f, timed, timeout)
      PROVE  TypeOK'
  <2>1. [resource |-> n, left |-> timeout, timed |-> timed, status |-> "pending"]
            \in GateRow
    BY DEF GateRow
  <2> QED
    BY <1>7, <2>1 DEF CreateGate, TypeOK
<1>8. ASSUME NEW g \in Gate, NEW status \in {"resolved", "cancelled"},
             SettleGate(g, status)
      PROVE  TypeOK'
  <2>1. gates[g] \in GateRow
    BY <1>8 DEF SettleGate, TypeOK
  <2>2. [gates[g] EXCEPT !.status = status] \in GateRow
    BY <2>1 DEF GateRow
  <2> QED
    BY <1>8, <2>2 DEF SettleGate, TypeOK
<1>9. CASE ListGates
  BY <1>9, GatesSettledType DEF ListGates, TypeOK
<1>10. CASE Sweep
  BY <1>10 DEF Sweep, TypeOK, table
<1>11. ASSUME NEW p \in running, Crash(p)
       PROVE  TypeOK'
  BY <1>11 DEF Crash, TypeOK, table
<1>12. CASE Tick
  <2>1. claims' \in [Name -> Claim \cup {NoClaim}]
    BY <1>12, AgedType DEF Tick, TypeOK
  <2>2. ASSUME NEW g \in Gate
        PROVE  GateAged(g) \in GateRow \cup {NoGate}
    <3>1. gates[g] \in GateRow \cup {NoGate}
      BY DEF TypeOK
    <3>2. CASE gates[g] # NoGate /\ gates[g].left > 0
      <4>1. gates[g] \in GateRow /\ gates[g].left - 1 \in 0..MaxTtl
        BY <3>1, <3>2 DEF GateRow
      <4>2. [gates[g] EXCEPT !.left = @ - 1] \in GateRow
        BY <4>1 DEF GateRow
      <4> QED
        BY <3>2, <4>2 DEF GateAged
    <3>3. CASE ~(gates[g] # NoGate /\ gates[g].left > 0)
      BY <3>1, <3>3 DEF GateAged
    <3> QED
      BY <3>2, <3>3
  <2>3. gates' \in [Gate -> GateRow \cup {NoGate}]
    BY <1>12, <2>2 DEF Tick
  <2> QED
    BY <1>12, <2>1, <2>3 DEF Tick, TypeOK
<1>13. CASE UNCHANGED vars
  BY <1>13 DEF vars, TypeOK
<1> QED
  BY <1>1, <1>2, <1>3, <1>4, <1>5, <1>6, <1>7, <1>8, <1>9, <1>10, <1>11, <1>12,
     <1>13, StepCases

\* Every table of a project database keeps its type: no operation, in whatever
\* order, leaves a row of another shape (coordination-ops.ts, entity-ops.ts,
\* gate-ops.ts, sweep-ops.ts).
THEOREM TypeCorrect == Spec => []TypeOK
  BY TypeInit, TypeStep, PTL DEF Spec

-----------------------------------------------------------------------------
(* The ledger.                                                             *)

LEMMA LedgerInit == Init => Ledger
<1> SUFFICES ASSUME Init
             PROVE  Ledger
  OBVIOUS
<1>1. TypeOK
  BY TypeInit
<1> QED
  BY <1>1 DEF Init, Ledger, ClaimHoldsCurrentFence, GrantsAreBehind,
              CurrentFenceIsGranted, OneHolderPerFence, WritesAreAccountable,
              WritesAreBehind

\* The step leaves no claim row on n, or one with the fence the row had.
KeepsItsFence(n) ==
    \/ claims'[n] = NoClaim
    \/ claims[n] # NoClaim /\ claims'[n].fence = claims[n].fence

\* A step that grants nothing, writes nothing and gives no claim row another
\* fence leaves the ledger in order.
LEMMA QuietStep ==
    ASSUME Ledger, TypeOK', UNCHANGED <<fences, journal, written>>,
           \A n \in Name : KeepsItsFence(n)
    PROVE  Ledger'
  BY DEF Ledger, ClaimHoldsCurrentFence, GrantsAreBehind, CurrentFenceIsGranted,
         OneHolderPerFence, WritesAreAccountable, WritesAreBehind, KeepsItsFence

\* A write under the current fence of a created task leaves the ledger in order.
LEMMA WriteStep ==
    ASSUME Ledger, TypeOK', NEW e \in Entity, NEW f \in 1..MaxFence,
           Created(e), FenceHolds(e, f),
           UNCHANGED <<fences, journal>>, written' = [written EXCEPT ![e] = f],
           \A n \in Name : claims'[n] \in {NoClaim, claims[n]}
    PROVE  Ledger'
<1>1. f = fences[TypedName[e]] /\ f > 0 /\ TypedName[e] \in Name
  BY CanonicalEntity DEF FenceHolds
<1>2. \E i \in journal : i.resource = TypedName[e] /\ i.fence = f
  BY <1>1 DEF Ledger, CurrentFenceIsGranted
<1>3. WritesAreBehind' /\ WritesAreAccountable'
  BY <1>1, <1>2 DEF Ledger, TypeOK, WritesAreBehind, WritesAreAccountable
<1> QED
  BY <1>3 DEF Ledger, ClaimHoldsCurrentFence, GrantsAreBehind, CurrentFenceIsGranted,
              OneHolderPerFence

\* A grant enters the ledger under a fence nobody was granted before.
LEMMA GrantStep ==
    ASSUME Ledger, TypeOK', NEW p \in Participant, NEW n \in Name,
           NEW mode \in Mode, NEW ttl \in Ttl, AcquireNew(p, n, mode, ttl)
    PROVE  Ledger'
<1> DEFINE r == Canonical(n)
           f == fences[r] + 1
           i == [resource |-> r, fence |-> f, holder |-> p]
<1>1. /\ r \in Name
      /\ fences' = [fences EXCEPT ![r] = f]
      /\ claims'[r].fence = f
      /\ \A m \in Name \ {r} : claims'[m] = claims[m]
      /\ journal' = journal \cup {i}
      /\ written' = written
  BY CanonicalType DEF AcquireNew, Ledger, TypeOK, table
<1>2. fences \in [Name -> Nat] /\ fences'[r] = f /\ f \in Nat \ {0}
      /\ \A m \in Name \ {r} : fences'[m] = fences[m]
  BY <1>1 DEF Ledger, TypeOK
<1>3. ClaimHoldsCurrentFence'
  BY <1>1, <1>2 DEF Ledger, ClaimHoldsCurrentFence
<1>4. \A j \in journal : j.resource \in Name /\ j.fence \in Nat
                          /\ j.fence <= fences[j.resource]
  BY DEF Ledger, TypeOK, GrantsAreBehind
<1>5. GrantsAreBehind'
  BY <1>1, <1>2, <1>4 DEF GrantsAreBehind
<1>6. CurrentFenceIsGranted'
  <2> SUFFICES ASSUME NEW m \in Name, fences'[m] > 0
               PROVE  \E j \in journal' : j.resource = m /\ j.fence = fences'[m]
    BY DEF CurrentFenceIsGranted
  <2>1. CASE m = r
    <3>1. i \in journal' /\ i.resource = r /\ i.fence = f
      BY <1>1
    <3> HIDE DEF i, f
    <3> QED
      BY <1>2, <2>1, <3>1
  <2>2. CASE m # r
    <3>1. \E j \in journal : j.resource = m /\ j.fence = fences[m]
      BY <1>2, <2>2 DEF Ledger, CurrentFenceIsGranted
    <3> QED
      BY <1>1, <1>2, <2>2, <3>1
  <2> QED
    BY <2>1, <2>2
<1>7. OneHolderPerFence'
  <2>1. \A j \in journal : j.resource = r => j.fence # f
    BY <1>2, <1>4
  <2> QED
    BY <1>1, <2>1 DEF Ledger, OneHolderPerFence
<1>8. WritesAreAccountable' /\ WritesAreBehind'
  BY <1>1, <1>2 DEF Ledger, TypeOK, WritesAreAccountable, WritesAreBehind
<1> QED
  BY <1>3, <1>5, <1>6, <1>7, <1>8 DEF Ledger

LEMMA LedgerStep == Ledger /\ [Next]_vars => Ledger'
<1> SUFFICES ASSUME Ledger, [Next]_vars
             PROVE  Ledger'
  OBVIOUS
<1>1. TypeOK /\ TypeOK'
  BY TypeStep DEF Ledger
<1>2. ASSUME NEW p \in running, NEW n \in Name, NEW ttl \in Ttl,
             AcquireHeld(p, n, ttl) \/ \E f \in 1..MaxFence : Renew(p, n, f, ttl)
      PROVE  Ledger'
  <2>1. claims' = [claims EXCEPT ![Canonical(n)] = Renewed(@, ttl)]
        /\ claims[Canonical(n)] \in Claim /\ Canonical(n) \in Name
    BY <1>1, <1>2, CanonicalType DEF AcquireHeld, Renew, Live, TypeOK
  <2>2. Renewed(claims[Canonical(n)], ttl).fence = claims[Canonical(n)].fence
    BY <2>1 DEF Renewed, Claim
  <2>3. \A m \in Name : KeepsItsFence(m)
    BY <1>1, <2>1, <2>2 DEF TypeOK, KeepsItsFence
  <2>4. UNCHANGED <<fences, journal, written>>
    BY <1>2 DEF AcquireHeld, Renew, table
  <2> QED
    BY <1>1, <2>3, <2>4, QuietStep
<1>3. ASSUME NEW p \in running, NEW n \in Name, NEW mode \in Mode, NEW ttl \in Ttl,
             AcquireNew(p, n, mode, ttl)
      PROVE  Ledger'
  BY <1>1, <1>3, GrantStep DEF TypeOK
<1>4. ASSUME NEW p \in running, NEW n \in Name, NEW f \in 1..MaxFence,
             Release(p, n, f)
      PROVE  Ledger'
  <2>1. \A m \in Name : KeepsItsFence(m)
    BY <1>1, <1>4, CanonicalType DEF Release, TypeOK, KeepsItsFence
  <2> QED
    BY <1>1, <1>4, <2>1, QuietStep DEF Release, table
<1>5. ASSUME NEW e \in Entity, NEW state \in WorkState, CreateEntity(e, state)
      PROVE  Ledger'
  BY <1>1, <1>5, QuietStep DEF CreateEntity, KeepsItsFence
<1>6. ASSUME NEW e \in Entity, NEW f \in 1..MaxFence, NEW patch \in Patch,
             UpdateEntity(e, f, patch)
      PROVE  Ledger'
  BY <1>1, <1>6, WriteStep DEF UpdateEntity, MayUpdate
<1>7. ASSUME NEW e \in Entity, NEW f \in 1..MaxFence, ArchiveEntity(e, f)
      PROVE  Ledger'
  BY <1>1, <1>7, WriteStep DEF ArchiveEntity, MayArchive, TypeOK
<1>8. ASSUME NEW g \in Gate, NEW n \in Name, NEW f \in 1..MaxFence,
             NEW timed \in BOOLEAN, NEW timeout \in 0..MaxTtl,
             CreateGate(g, n, f, timed, timeout)
      PROVE  Ledger'
  BY <1>1, <1>8, QuietStep DEF CreateGate, KeepsItsFence
<1>9. ASSUME NEW g \in Gate, NEW status \in {"resolved", "cancelled"},
             SettleGate(g, status)
      PROVE  Ledger'
  BY <1>1, <1>9, QuietStep DEF SettleGate, KeepsItsFence
<1>10. CASE ListGates
  BY <1>1, <1>10, QuietStep DEF ListGates, KeepsItsFence
<1>11. CASE Sweep
  <2>1. \A n \in Name : KeepsItsFence(n)
    BY <1>11 DEF Sweep, Live, KeepsItsFence
  <2> QED
    BY <1>1, <1>11, <2>1, QuietStep DEF Sweep, table
<1>12. ASSUME NEW p \in running, Crash(p)
       PROVE  Ledger'
  BY <1>1, <1>12, QuietStep DEF Crash, table, KeepsItsFence
<1>13. CASE Tick
  <2>1. \A n \in Name : KeepsItsFence(n)
    <3> SUFFICES ASSUME NEW n \in Name
                 PROVE  KeepsItsFence(n)
      OBVIOUS
    <3>1. claims[n] \in Claim \cup {NoClaim} /\ claims'[n] = Aged(claims[n])
      BY <1>1, <1>13 DEF Tick, TypeOK
    <3> QED
      BY <3>1 DEF Aged, Claim, KeepsItsFence
  <2> QED
    BY <1>1, <1>13, <2>1, QuietStep DEF Tick
<1>14. CASE UNCHANGED vars
  BY <1>1, <1>14, QuietStep DEF vars, KeepsItsFence
<1> QED
  BY <1>2, <1>3, <1>4, <1>5, <1>6, <1>7, <1>8, <1>9, <1>10, <1>11, <1>12, <1>13,
     <1>14, StepCases

\* The ledger is in order in every reachable state.
THEOREM LedgerHolds == Spec => []Ledger
  BY LedgerInit, LedgerStep, PTL DEF Spec

\* A claim row never guards a dead fence (acquireInTransaction replaces the row
\* in the transaction that bumps the fence).
THEOREM ClaimsHoldTheirFence == Spec => []ClaimHoldsCurrentFence
<1>1. Ledger => ClaimHoldsCurrentFence
  BY DEF Ledger
<1> QED
  BY <1>1, LedgerHolds, PTL

\* A fence identifies one tenure, for any number of sessions, takeovers,
\* expiries and releases (acquireInTransaction, release, archive).
THEOREM FencesIdentifyTenures == Spec => []OneHolderPerFence
<1>1. Ledger => OneHolderPerFence
  BY DEF Ledger
<1> QED
  BY <1>1, LedgerHolds, PTL

\* No accepted task write carries a fence that was not issued for the task
\* (assertResourceFence in updateInTransaction and archive).
THEOREM WritesCarryIssuedFences == Spec => []WritesAreAccountable
<1>1. Ledger => WritesAreAccountable
  BY DEF Ledger
<1> QED
  BY <1>1, LedgerHolds, PTL

-----------------------------------------------------------------------------
(* What a step never does.                                                 *)

\* A step keeps the last accepted fence of a task or raises it.
LEMMA WrittenNeverFalls ==
    Ledger /\ [Next]_vars => \A e \in Entity : written'[e] >= written[e]
<1> SUFFICES ASSUME Ledger, [Next]_vars, NEW d \in Entity
             PROVE  written'[d] >= written[d]
  OBVIOUS
<1>1. written \in [Entity -> Nat] /\ written[d] <= fences[TypedName[d]]
  BY DEF Ledger, TypeOK, WritesAreBehind
<1>2. ASSUME NEW e \in Entity, NEW f \in 1..MaxFence,
             Created(e), FenceHolds(e, f), written' = [written EXCEPT ![e] = f]
      PROVE  written'[d] >= written[d]
  BY <1>1, <1>2, CanonicalEntity DEF FenceHolds
<1>3. ASSUME UNCHANGED written
      PROVE  written'[d] >= written[d]
  BY <1>1, <1>3
<1>4. ASSUME NEW e \in Entity, NEW f \in 1..MaxFence, NEW patch \in Patch,
             UpdateEntity(e, f, patch)
      PROVE  written'[d] >= written[d]
  BY <1>2, <1>4 DEF UpdateEntity, MayUpdate
<1>5. ASSUME NEW e \in Entity, NEW f \in 1..MaxFence, ArchiveEntity(e, f)
      PROVE  written'[d] >= written[d]
  BY <1>2, <1>5 DEF ArchiveEntity, MayArchive
<1> QED
  BY <1>3, <1>4, <1>5, StepCases
     DEF AcquireHeld, AcquireNew, Renew, Release, CreateEntity, CreateGate,
         SettleGate, ListGates, Sweep, Crash, Tick, table, vars

\* Once a write of a later tenure is accepted, no write of an earlier one is
\* (assertResourceFence in updateInTransaction and archive).
THEOREM WritesNeverGoBack == Spec => WritesFollowFences
<1>1. Ledger /\ [Next]_vars => [\A e \in Entity : written'[e] >= written[e]]_vars
  BY WrittenNeverFalls
<1> QED
  BY <1>1, LedgerHolds, PTL DEF Spec, WritesFollowFences

\* Between two sessions a live claim passes only within one principal's owner
\* claims.
HandedOver(n) ==
    /\ claims[n].mode = "owner" /\ claims'[n].mode = "owner"
    /\ PrincipalOf[claims[n].holder] = PrincipalOf[claims'[n].holder]

\* A step that puts another session into a live claim is a legal handover.
LEMMA LiveClaimKept ==
    TypeOK /\ [Next]_vars =>
        \A n \in Name :
            Live(claims[n]) /\ claims'[n] # NoClaim
            /\ claims'[n].holder # claims[n].holder => HandedOver(n)
<1> SUFFICES ASSUME TypeOK, [Next]_vars, NEW m \in Name,
                    Live(claims[m]), claims'[m] # NoClaim,
                    claims'[m].holder # claims[m].holder
             PROVE  HandedOver(m)
  OBVIOUS
<1>1. claims \in [Name -> Claim \cup {NoClaim}] /\ claims[m] \in Claim
  BY DEF TypeOK, Live
<1>2. ASSUME NEW p \in running, NEW n \in Name, NEW mode \in Mode, NEW ttl \in Ttl,
             AcquireNew(p, n, mode, ttl)
      PROVE  HandedOver(m)
  <2>1. Canonical(n) = m
    BY <1>1, <1>2, CanonicalType DEF AcquireNew
  <2>2. claims'[m] = [holder |-> p, mode |-> mode, fence |-> fences[m] + 1,
                      left |-> ttl]
    BY <1>1, <1>2, <2>1 DEF AcquireNew
  <2>3. ~HeldBy(claims[m], p) /\ ~Refuses(claims[m], p, mode)
    BY <1>2, <2>1 DEF AcquireNew
  <2> QED
    BY <1>1, <2>2, <2>3 DEF Refuses, Mode, Claim, HandedOver, HeldBy
<1>3. ASSUME NEW p \in running, NEW n \in Name, NEW ttl \in Ttl,
             AcquireHeld(p, n, ttl) \/ \E f \in 1..MaxFence : Renew(p, n, f, ttl)
      PROVE  FALSE
  <2>1. claims' = [claims EXCEPT ![Canonical(n)] = Renewed(@, ttl)]
    BY <1>3 DEF AcquireHeld, Renew
  <2>2. Renewed(claims[m], ttl).holder = claims[m].holder
    BY <1>1 DEF Renewed, Claim
  <2> QED
    BY <1>1, <2>1, <2>2
<1>4. CASE Tick
  <2>1. claims'[m] = Aged(claims[m])
    BY <1>4 DEF Tick
  <2> QED
    BY <1>1, <2>1 DEF Aged, Claim
<1>5. CASE claims'[m] \in {NoClaim, claims[m]}
  BY <1>5
<1>6. ASSUME NEW n \in Name, claims' = [claims EXCEPT ![n] = NoClaim]
      PROVE  claims'[m] \in {NoClaim, claims[m]}
  BY <1>1, <1>6
<1>7. ASSUME NEW p \in running, NEW n \in Name, NEW f \in 1..MaxFence,
             Release(p, n, f)
      PROVE  claims'[m] \in {NoClaim, claims[m]}
  BY <1>6, <1>7, CanonicalType DEF Release
<1>8. ASSUME NEW e \in Entity, NEW f \in 1..MaxFence, ArchiveEntity(e, f)
      PROVE  claims'[m] \in {NoClaim, claims[m]}
  BY <1>6, <1>8 DEF ArchiveEntity
<1> QED
  BY <1>2, <1>3, <1>4, <1>5, <1>7, <1>8, StepCases
     DEF CreateEntity, UpdateEntity, CreateGate, SettleGate, ListGates, Sweep,
         Crash, vars

\* A live claim stays with its session unless its own principal takes it over
\* (the conflict rules of acquireInTransaction, sweep, archive).
THEOREM LiveClaimsStay == Spec => LiveClaimStaysPut
<1>1. TypeOK /\ [Next]_vars =>
        [\A n \in Name :
            Live(claims[n]) /\ claims'[n] # NoClaim
            /\ claims'[n].holder # claims[n].holder
                => /\ claims[n].mode = "owner" /\ claims'[n].mode = "owner"
                   /\ PrincipalOf[claims[n].holder]
                        = PrincipalOf[claims'[n].holder]]_vars
  BY LiveClaimKept DEF HandedOver
<1> QED
  BY <1>1, TypeCorrect, PTL DEF Spec, LiveClaimStaysPut

-----------------------------------------------------------------------------
(* Finished work and its gates.                                            *)

\* The check of a terminal write passes only if no gate on the names it looks at
\* is left pending once the expired timers are settled.
LEMMA PassedGatesAreDecided ==
    ASSUME TypeOK, NEW N, NEW n \in N, ~GateBlocked(gates, N), NEW g \in Gate
    PROVE  ~Unresolved(GatesSettled(gates, N)[g], n)
<1> SUFFICES ASSUME Unresolved(GatesSettled(gates, N)[g], n)
             PROVE  FALSE
  OBVIOUS
<1>1. gates[g] \in GateRow \cup {NoGate}
  BY DEF TypeOK
<1>2. CASE \E m \in N : Unresolved(gates[g], m) /\ TimedOut(gates[g])
  <2>1. gates[g] \in GateRow
    BY <1>1, <1>2 DEF Unresolved
  <2>2. [gates[g] EXCEPT !.status = "timed_out"].status = "timed_out"
    BY <2>1 DEF GateRow
  <2>3. GatesSettled(gates, N)[g] = [gates[g] EXCEPT !.status = "timed_out"]
    BY <1>2 DEF GatesSettled
  <2> QED
    BY <2>2, <2>3 DEF Unresolved
<1>3. CASE ~\E m \in N : Unresolved(gates[g], m) /\ TimedOut(gates[g])
  <2>1. GatesSettled(gates, N)[g] = gates[g]
    BY <1>3 DEF GatesSettled
  <2> QED
    BY <1>3, <2>1 DEF GateBlocked
<1> QED
  BY <1>2, <1>3

LEMMA FinishingStep ==
    ASSUME TypeOK, [Next]_vars, NEW e \in Entity, Finishes(e), NEW g \in Gate
    PROVE  ~Unresolved(gates'[g], e)
<1>1. work \in [Entity -> WorkState]
  BY DEF TypeOK
<1>2. ASSUME NEW x \in Entity, NEW f \in 1..MaxFence, NEW patch \in Patch,
             UpdateEntity(x, f, patch)
      PROVE  ~Unresolved(gates'[g], e)
  <2>1. x = e /\ patch = "terminal"
    BY <1>1, <1>2 DEF UpdateEntity, Finishes, Patch
  <2>2. /\ ~GateBlocked(gates, UpdateGateNames(e))
        /\ gates' = GatesSettled(gates, UpdateGateNames(e))
    BY <1>2, <2>1 DEF UpdateEntity, MayUpdate
  <2>3. e \in UpdateGateNames(e)
    BY DEF UpdateGateNames
  <2> QED
    BY <2>2, <2>3, PassedGatesAreDecided
<1>3. ASSUME NEW x \in Entity, NEW f \in 1..MaxFence, ArchiveEntity(x, f)
      PROVE  ~Unresolved(gates'[g], e)
  <2>1. x = e
    BY <1>3 DEF ArchiveEntity, Finishes
  <2>2. ~GateBlocked(gates, {e}) /\ gates' = GatesSettled(gates, {e})
    BY <1>3, <2>1 DEF ArchiveEntity, MayArchive
  <2> QED
    BY <2>2, PassedGatesAreDecided
<1>4. ASSUME NEW x \in Entity, NEW state \in WorkState, CreateEntity(x, state)
      PROVE  FALSE
  <2>1. work[x] = "absent" /\ work' = [work EXCEPT ![x] = state]
    BY <1>4 DEF CreateEntity, Created
  <2>2. e = x \/ work'[e] = work[e]
    BY <1>1, <2>1
  <2> QED
    BY <1>4, <2>1, <2>2 DEF CreateEntity, Finishes
<1>5. ~(work' = work /\ archived' = archived)
  BY DEF Finishes
<1> QED
  BY <1>2, <1>3, <1>4, <1>5, StepCases
     DEF AcquireHeld, AcquireNew, Renew, Release, CreateGate, SettleGate, ListGates,
         Sweep, Crash, Tick, table, vars

\* A hand-made write that finishes an existing task, and its archival, leave no
\* gate on its id undecided (checkPendingGates in updateInTransaction and
\* archive); creation, which looks at no gate, is not one of them (create).
THEOREM FinishedTasksHaveNoGate == Spec => FinishedWorkHasNoOpenGate
<1>1. TypeOK /\ [Next]_vars =>
        [\A e \in Entity, g \in Gate : Finishes(e) => ~Unresolved(gates'[g], e)]_vars
  BY FinishingStep
<1> QED
  BY <1>1, TypeCorrect, PTL DEF Spec, FinishedWorkHasNoOpenGate

-----------------------------------------------------------------------------
(* The tables implement the abstract lease.                                *)

\* Whom the abstract lease sees as the owner of a name, and under which epoch
\* it sees the content of a name last changed: the mapping of Lease.
Owner == [n \in Name |-> IF Live(claims[n]) THEN claims[n].holder ELSE NoClaim]

Applied ==
    [n \in Name |-> IF \E e \in Entity : TypedName[e] = n
                    THEN written[CHOOSE e \in Entity : TypedName[e] = n] ELSE 0]

\* Only the name of the task that is written sees a write.
LEMMA AppliedUnderWrite ==
    ASSUME TypeOK, NEW e \in Entity, NEW f, written' = [written EXCEPT ![e] = f]
    PROVE  Applied' = [Applied EXCEPT ![TypedName[e]] = f]
<1>0. /\ Applied = [n \in Name |-> Applied[n]]
      /\ Applied' = [n \in Name |-> Applied'[n]]
  BY DEF Applied
<1> SUFFICES ASSUME NEW n \in Name
             PROVE  Applied'[n] = IF n = TypedName[e] THEN f ELSE Applied[n]
  BY <1>0, Zenon
<1>1. CASE n = TypedName[e]
  <2>1. (CHOOSE d \in Entity : TypedName[d] = n) = e
    BY <1>1
  <2> QED
    BY <1>1, <2>1 DEF Applied, TypeOK
<1>2. CASE n # TypedName[e] /\ \E d \in Entity : TypedName[d] = n
  <2>1. PICK c \in Entity : c = CHOOSE d \in Entity : TypedName[d] = n
    BY <1>2
  <2>2. TypedName[c] = n /\ c # e
    BY <1>2, <2>1
  <2>3. written'[c] = written[c]
    BY <2>2 DEF TypeOK
  <2> QED
    BY <1>2, <2>1, <2>3 DEF Applied
<1>3. CASE ~\E d \in Entity : TypedName[d] = n
  BY <1>3 DEF Applied
<1> QED
  BY <1>1, <1>2, <1>3

\* The initial tables are an initial lease.
LEMMA LeaseInit == Init => Lease!Init
  BY DEF Init, Lease!Init, Live

\* A step that keeps every owner or leaves nobody, and writes no task, is a lapse.
LEMMA LapseStep ==
    ASSUME UNCHANGED <<fences, written>>,
           \A n \in Name : Owner'[n] \in {NoClaim, Owner[n]}
    PROVE  Lease!Next
<1>0. PICK R \in SUBSET Name : R = {n \in Name : Owner'[n] = NoClaim}
  OBVIOUS
<1>1. Owner' = [n \in Name |-> IF n \in R THEN NoClaim ELSE Owner[n]]
  BY <1>0 DEF Owner
<1>2. Applied' = Applied
  BY DEF Applied
<1>3. Lease!Lapse(R)
  BY <1>1, <1>2 DEF Lease!Lapse, Owner, Applied
<1> QED
  BY <1>3 DEF Lease!Next

\* A write of a task under its current fence is an applied change.
LEMMA ApplyStep ==
    ASSUME Ledger, NEW e \in Entity, NEW f \in 1..MaxFence,
           Created(e), FenceHolds(e, f),
           UNCHANGED fences, written' = [written EXCEPT ![e] = f],
           claims' \in {claims, [claims EXCEPT ![TypedName[e]] = NoClaim]}
    PROVE  Lease!Next
<1> DEFINE r == TypedName[e]
<1>1. r \in Name /\ f = fences[r] /\ Live(claims[r]) /\ claims[r] \in Claim
  BY CanonicalEntity DEF FenceHolds, Ledger, TypeOK, Live
<1>2. Owner[r] # NoClaim
  BY <1>1 DEF Owner, Claim
<1>3. Applied' = [Applied EXCEPT ![r] = fences[r]]
  BY <1>1, AppliedUnderWrite DEF Ledger
<1>4. Owner' \in {Owner, [Owner EXCEPT ![r] = NoClaim]}
  <2>1. CASE claims' = claims
    BY <2>1 DEF Owner
  <2>2. CASE claims' = [claims EXCEPT ![r] = NoClaim]
    BY <1>1, <2>2 DEF Owner, Live, Ledger, TypeOK
  <2> QED
    BY <2>1, <2>2
<1>5. Lease!Apply(r)
  BY <1>1, <1>2, <1>3, <1>4 DEF Lease!Apply, Owner, Applied
<1> QED
  BY <1>1, <1>5 DEF Lease!Next

\* A grant is a grant: from nobody, or within one principal.
LEMMA LeaseGrantStep ==
    ASSUME TypeOK, NEW p \in Participant, NEW n \in Name,
           NEW mode \in Mode, NEW ttl \in Ttl, AcquireNew(p, n, mode, ttl)
    PROVE  Lease!Next
<1> DEFINE r == Canonical(n)
<1>1. /\ r \in Name
      /\ fences' = [fences EXCEPT ![r] = fences[r] + 1]
      /\ claims' = [claims EXCEPT ![r] = [holder |-> p, mode |-> mode,
                                          fence |-> fences[r] + 1, left |-> ttl]]
      /\ written' = written
  BY CanonicalType DEF AcquireNew, table
<1>2. claims'[r] # NoClaim /\ claims'[r].holder = p /\ claims'[r].left > 0
  <2>1. claims'[r] = [holder |-> p, mode |-> mode, fence |-> fences[r] + 1,
                      left |-> ttl]
    BY <1>1 DEF TypeOK
  <2>2. claims'[r] \in Claim
    BY <1>1, <2>1 DEF Claim, TypeOK, Ttl
  <2> QED
    BY <2>1, <2>2 DEF Ttl
<1>3. Owner' = [Owner EXCEPT ![r] = p]
  BY <1>1, <1>2 DEF Owner, Live, TypeOK
<1>4. Applied' = Applied
  BY <1>1 DEF Applied
<1>5. \/ Owner[r] = NoClaim
      \/ Owner[r] # p /\ PrincipalOf[Owner[r]] = PrincipalOf[p]
  <2>1. CASE Live(claims[r])
    <3>1. claims[r].holder # p
      BY <2>1 DEF AcquireNew, HeldBy, Live
    <3>2. mode = "owner" /\ PrincipalOf[claims[r].holder] = PrincipalOf[p]
      BY <2>1, <3>1 DEF AcquireNew, Refuses, HeldBy, Mode
    <3> QED
      BY <1>1, <2>1, <3>1, <3>2 DEF Owner
  <2>2. CASE ~Live(claims[r])
    BY <1>1, <2>2 DEF Owner
  <2> QED
    BY <2>1, <2>2
<1>6. Lease!Grant(r, p)
  BY <1>1, <1>3, <1>4, <1>5 DEF Lease!Grant, Owner, Applied
<1> QED
  BY <1>1, <1>6 DEF Lease!Next

\* Every step of the tables is a step of the lease, or none at all.
LEMMA LeaseStep == Ledger /\ [Next]_vars => [Lease!Next]_(Lease!vars)
<1> SUFFICES ASSUME Ledger, [Next]_vars
             PROVE  Lease!Next \/ UNCHANGED Lease!vars
  OBVIOUS
<1>1. TypeOK
  BY DEF Ledger
<1>2. ASSUME NEW p \in running, NEW n \in Name, NEW ttl \in Ttl,
             AcquireHeld(p, n, ttl) \/ \E f \in 1..MaxFence : Renew(p, n, f, ttl)
      PROVE  Lease!Next
  <2> DEFINE r == Canonical(n)
  <2>1. /\ r \in Name /\ claims[r] \in Claim /\ Live(claims[r])
        /\ claims' = [claims EXCEPT ![r] = Renewed(claims[r], ttl)]
        /\ UNCHANGED <<fences, written>>
    BY <1>1, <1>2, CanonicalType DEF AcquireHeld, Renew, Live, TypeOK, table
  <2>2. /\ Renewed(claims[r], ttl) \in Claim /\ Live(Renewed(claims[r], ttl))
        /\ Renewed(claims[r], ttl).holder = claims[r].holder
    BY <2>1 DEF Renewed, Claim, Ttl, Live
  <2>3. \A m \in Name : Owner'[m] = Owner[m]
    BY <1>1, <2>1, <2>2 DEF Owner, TypeOK
  <2> QED
    BY <2>1, <2>3, LapseStep
<1>3. ASSUME NEW p \in running, NEW n \in Name, NEW mode \in Mode, NEW ttl \in Ttl,
             AcquireNew(p, n, mode, ttl)
      PROVE  Lease!Next
  BY <1>1, <1>3, LeaseGrantStep DEF TypeOK
<1>4. ASSUME NEW p \in running, NEW n \in Name, NEW f \in 1..MaxFence,
             Release(p, n, f)
      PROVE  Lease!Next
  <2>1. \A m \in Name : Owner'[m] \in {NoClaim, Owner[m]}
    BY <1>1, <1>4, CanonicalType DEF Release, TypeOK, Owner, Live
  <2> QED
    BY <1>4, <2>1, LapseStep DEF Release, table
<1>5. ASSUME NEW e \in Entity, NEW f \in 1..MaxFence, NEW patch \in Patch,
             UpdateEntity(e, f, patch)
      PROVE  Lease!Next
  BY <1>5, ApplyStep DEF UpdateEntity, MayUpdate
<1>6. ASSUME NEW e \in Entity, NEW f \in 1..MaxFence, ArchiveEntity(e, f)
      PROVE  Lease!Next
  BY <1>6, ApplyStep DEF ArchiveEntity, MayArchive
<1>7. ASSUME UNCHANGED <<fences, claims, written>>
      PROVE  UNCHANGED Lease!vars
  BY <1>7 DEF Lease!vars
<1>8. CASE Sweep \/ Tick
  <2>1. ASSUME NEW n \in Name
        PROVE  Owner'[n] \in {NoClaim, Owner[n]}
    <3>1. CASE Sweep
      BY <3>1 DEF Sweep, Owner, Live
    <3>2. CASE Tick
      <4>1. claims[n] \in Claim \cup {NoClaim} /\ claims'[n] = Aged(claims[n])
        BY <1>1, <3>2 DEF TypeOK, Tick
      <4> QED
        BY <4>1 DEF Owner, Live, Aged, Claim
    <3> QED
      BY <1>8, <3>1, <3>2
  <2> QED
    BY <1>8, <2>1, LapseStep DEF Sweep, Tick, table
<1> QED
  BY <1>2, <1>3, <1>4, <1>5, <1>6, <1>7, <1>8, StepCases
     DEF CreateEntity, CreateGate, SettleGate, ListGates, Crash, vars, table

\* Claims, fences and fenced writes, with every expiry, takeover, gate, sweep and
\* crash, keep the promise of a fenced lease (acquire, release, updateInTransaction,
\* archive, sweep).
THEOREM TablesImplementLease == Spec => ImplementsFencedLease
  BY LeaseInit, LeaseStep, LedgerHolds, PTL
     DEF Spec, ImplementsFencedLease, Lease!Spec

-----------------------------------------------------------------------------
(* The calls of the backends (module ClientWrites).                        *)

\* There are sessions, none of them crashes, and what a call remembers is a call.
CallsTypeOK ==
    /\ call \in [Participant -> Call \cup {NoCall}]
    /\ running = Participant /\ Participant # {}
    /\ \A n \in Name : fences[n] <= MaxFence

\* The holder a claim row names was granted its fence.
ClaimsAreGranted ==
    \A n \in Name : claims[n] # NoClaim =>
        \E i \in journal : /\ i.resource = n /\ i.fence = claims[n].fence
                           /\ i.holder = claims[n].holder

\* The fence a remote call goes on with was granted to its session.
CallsAreGranted ==
    \A p \in Participant \ Local : call[p] # NoCall =>
        \E i \in journal : /\ i.resource = TypedName[call[p].task]
                           /\ i.fence = call[p].fence /\ i.holder = p

CallsInv ==
    /\ Ledger /\ CallsTypeOK /\ ClaimsAreGranted
    /\ Existing = Entity => (\A e \in Entity : Created(e)) /\ CallsAreGranted

\* Every request of a call is a request of Coordination.
LEMMA CallsAreRequests == Ledger /\ CallsTypeOK /\ [CallsNext]_allVars => [Next]_vars
<1> SUFFICES ASSUME Ledger, CallsTypeOK, [CallsNext]_allVars
             PROVE  Next \/ UNCHANGED vars
  OBVIOUS
<1>1. TypeOK /\ running = Participant /\ \A e \in Entity : e \in Name
  BY DEF Ledger, CallsTypeOK
<1>2. \A n \in Name : fences[Canonical(n)] > 0 => fences[Canonical(n)] \in 1..MaxFence
  BY <1>1, CanonicalType DEF CallsTypeOK, TypeOK
<1>3. "exclusive" \in Mode /\ CallTtl \in Ttl
  BY DEF Mode, CallTtl, Ttl
<1>4. ASSUME NEW p \in Participant, NEW e \in Entity, NEW ttl \in Ttl,
             Acquire(p, e, "exclusive", ttl) \/ Renew(p, e, fences[Canonical(e)], ttl)
             \/ Release(p, e, fences[Canonical(e)])
      PROVE  Next
  <2>1. CASE Acquire(p, e, "exclusive", ttl)
    BY <1>1, <1>3, <2>1 DEF Next, ClaimRequest
  <2>2. CASE Renew(p, e, fences[Canonical(e)], ttl)
    <3>1. fences[Canonical(e)] \in 1..MaxFence
      BY <1>1, <1>2, <2>2 DEF Renew
    <3> QED
      BY <1>1, <2>2, <3>1 DEF Next, ClaimRequest
  <2>3. CASE Release(p, e, fences[Canonical(e)])
    <3>1. fences[Canonical(e)] \in 1..MaxFence
      BY <1>1, <1>2, <2>3 DEF Release, MayRelease
    <3> QED
      BY <1>1, <2>3, <3>1 DEF Next, ClaimRequest
  <2> QED
    BY <1>4, <2>1, <2>2, <2>3
<1>5. ASSUME NEW p \in Participant, NEW e \in Entity, NEW kind \in {"update", "archive"},
             Begin(p, e, kind)
      PROVE  Next \/ UNCHANGED vars
  BY <1>3, <1>4, <1>5 DEF Begin
<1>6. ASSUME NEW p \in Participant, call[p] # NoCall
      PROVE  call[p].task \in Entity
  BY <1>6 DEF CallsTypeOK, Call
<1>7. ASSUME NEW e \in Entity, NEW f, FenceHolds(e, f)
      PROVE  f \in 1..MaxFence
  BY <1>1, <1>2, <1>7 DEF FenceHolds
<1>8. ASSUME NEW p \in Participant, NEW patch \in Patch, Write(p, patch)
      PROVE  Next \/ UNCHANGED vars
  <2>1. call[p].task \in Entity
    BY <1>6, <1>8 DEF Write
  <2>2. ASSUME UpdateEntity(call[p].task, call[p].fence, patch)
        PROVE  Next
    <3>1. call[p].fence \in 1..MaxFence
      BY <1>7, <2>1, <2>2 DEF UpdateEntity, MayUpdate
    <3> QED
      BY <1>1, <2>1, <2>2, <3>1 DEF Next, EntityRequest
  <2> QED
    BY <1>8, <2>2 DEF Write
<1>9. ASSUME NEW p \in Participant, Archive(p)
      PROVE  Next \/ UNCHANGED vars
  <2>1. call[p].task \in Entity
    BY <1>6, <1>9 DEF Archive
  <2>2. ASSUME ArchiveEntity(call[p].task, call[p].fence)
        PROVE  Next
    <3>1. call[p].fence \in 1..MaxFence
      BY <1>7, <2>1, <2>2 DEF ArchiveEntity, MayArchive
    <3> QED
      BY <1>1, <2>1, <2>2, <3>1 DEF Next, EntityRequest
  <2> QED
    BY <1>9, <2>2 DEF Archive
<1>10. ASSUME NEW p \in Participant, EndCall(p)
       PROVE  Next \/ UNCHANGED vars
  <2>1. call[p].task \in Entity
    BY <1>6, <1>10 DEF EndCall
  <2>2. ASSUME Release(p, call[p].task, call[p].fence)
        PROVE  Next
    <3>1. call[p].fence \in 1..MaxFence
      BY <1>1, <1>2, <2>1, <2>2 DEF Release, MayRelease
    <3> QED
      BY <1>1, <2>1, <2>2, <3>1 DEF Next, ClaimRequest
  <2> QED
    BY <1>10, <2>2 DEF EndCall
<1>11. ASSUME NEW p \in Participant, Hold(p)
       PROVE  Next
  BY <1>4, <1>11 DEF Hold
<1>12. CASE Background
  BY <1>1, <1>12 DEF Background, Next, EntityRequest, CallsTypeOK
<1>13. CASE UNCHANGED allVars
  BY <1>13 DEF allVars
<1> QED
  BY <1>5, <1>8, <1>9, <1>10, <1>11, <1>12, <1>13 DEF CallsNext

\* What a step does to a claim row: it goes, or it keeps fence and holder, or it
\* is the row of a new grant.
LEMMA RowsFollowGrants ==
    ASSUME TypeOK, [Next]_vars, NEW m \in Name, claims'[m] # NoClaim
    PROVE  \/ /\ claims[m] # NoClaim /\ claims'[m].fence = claims[m].fence
              /\ claims'[m].holder = claims[m].holder
           \/ \E i \in journal' : /\ i.resource = m /\ i.fence = claims'[m].fence
                                  /\ i.holder = claims'[m].holder
<1>1. claims \in [Name -> Claim \cup {NoClaim}]
  BY DEF TypeOK
<1>2. ASSUME NEW p \in running, NEW n \in Name, NEW mode \in Mode, NEW ttl \in Ttl,
             AcquireNew(p, n, mode, ttl), Canonical(n) = m
      PROVE  \E i \in journal' : /\ i.resource = m /\ i.fence = claims'[m].fence
                                 /\ i.holder = claims'[m].holder
  <2> DEFINE i == [resource |-> m, fence |-> fences[m] + 1, holder |-> p]
  <2>1. claims'[m] = [holder |-> p, mode |-> mode, fence |-> fences[m] + 1, left |-> ttl]
    BY <1>1, <1>2 DEF AcquireNew
  <2>2. i \in journal'
    BY <1>2 DEF AcquireNew
  <2>3. i.resource = m /\ i.fence = claims'[m].fence /\ i.holder = claims'[m].holder
    BY <2>1
  <2> QED
    BY <2>2, <2>3
<1>3. ASSUME NEW p \in running, NEW n \in Name, NEW mode \in Mode, NEW ttl \in Ttl,
             AcquireNew(p, n, mode, ttl), Canonical(n) # m
      PROVE  claims'[m] = claims[m]
  BY <1>1, <1>3 DEF AcquireNew
<1>4. ASSUME NEW p \in running, NEW n \in Name, NEW ttl \in Ttl,
             AcquireHeld(p, n, ttl) \/ \E f \in 1..MaxFence : Renew(p, n, f, ttl)
      PROVE  /\ claims[m] # NoClaim /\ claims'[m].fence = claims[m].fence
             /\ claims'[m].holder = claims[m].holder
  <2>1. claims' = [claims EXCEPT ![Canonical(n)] = Renewed(@, ttl)]
        /\ Live(claims[Canonical(n)])
    BY <1>4 DEF AcquireHeld, Renew
  <2>2. CASE m = Canonical(n)
    <3>1. claims[m] \in Claim /\ claims'[m] = Renewed(claims[m], ttl)
      BY <1>1, <2>1, <2>2 DEF Live
    <3> QED
      BY <3>1 DEF Renewed, Claim
  <2>3. CASE m # Canonical(n)
    BY <1>1, <2>1, <2>3
  <2> QED
    BY <2>2, <2>3
<1>5. CASE Tick
  <2>1. claims'[m] = Aged(claims[m]) /\ claims[m] \in Claim \cup {NoClaim}
    BY <1>1, <1>5 DEF Tick
  <2> QED
    BY <2>1 DEF Aged, Claim
<1>6. ASSUME NEW n \in Name, claims' = [claims EXCEPT ![n] = NoClaim]
      PROVE  claims'[m] = claims[m]
  BY <1>1, <1>6
<1>7. ASSUME NEW p \in running, NEW n \in Name, NEW f \in 1..MaxFence,
             Release(p, n, f)
      PROVE  claims'[m] = claims[m]
  BY <1>6, <1>7, CanonicalType DEF Release
<1>8. ASSUME NEW e \in Entity, NEW f \in 1..MaxFence, ArchiveEntity(e, f)
      PROVE  claims'[m] = claims[m]
  BY <1>6, <1>8 DEF ArchiveEntity
<1>9. CASE Sweep
  BY <1>9 DEF Sweep
<1> QED
  BY <1>2, <1>3, <1>4, <1>5, <1>7, <1>8, <1>9, StepCases
     DEF CreateEntity, UpdateEntity, CreateGate, SettleGate, ListGates, Crash, vars

\* No grant leaves the journal, no task goes back to before its creation, and a
\* fence is raised only up to the bound.
LEMMA JournalGrows ==
    ASSUME TypeOK, [Next]_vars
    PROVE  /\ journal \subseteq journal'
           /\ \A e \in Entity : Created(e) => Created(e)'
           /\ (\A n \in Name : fences[n] <= MaxFence) => \A n \in Name : fences'[n] <= MaxFence
<1>1. journal \subseteq journal'
  BY StepCases DEF AcquireHeld, AcquireNew, Renew, Release, CreateEntity, UpdateEntity,
    ArchiveEntity, CreateGate, SettleGate, ListGates, Sweep, Crash, Tick, vars
<1>2. \A e \in Entity : Created(e) => Created(e)'
  <2>1. ASSUME NEW e \in Entity, NEW f \in 1..MaxFence, NEW patch \in Patch,
               UpdateEntity(e, f, patch), NEW d \in Entity, Created(d)
        PROVE  Created(d)'
    BY <2>1 DEF UpdateEntity, Created, TypeOK, Patch
  <2>2. ASSUME NEW e \in Entity, NEW state \in WorkState, CreateEntity(e, state),
               NEW d \in Entity, Created(d)
        PROVE  Created(d)'
    BY <2>2 DEF CreateEntity, Created, TypeOK
  <2> QED
    BY <2>1, <2>2, StepCases DEF AcquireHeld, AcquireNew, Renew, Release, ArchiveEntity,
      CreateGate, SettleGate, ListGates, Sweep, Crash, Tick, table, vars, Created
<1>3. (\A n \in Name : fences[n] <= MaxFence) => \A n \in Name : fences'[n] <= MaxFence
  <2>1. ASSUME NEW p \in running, NEW n \in Name, NEW mode \in Mode, NEW ttl \in Ttl,
               AcquireNew(p, n, mode, ttl), \A k \in Name : fences[k] <= MaxFence
        PROVE  \A k \in Name : fences'[k] <= MaxFence
    BY <2>1 DEF AcquireNew, TypeOK
  <2> QED
    BY <2>1, StepCases DEF AcquireHeld, Renew, Release, CreateEntity, UpdateEntity,
      ArchiveEntity, CreateGate, SettleGate, ListGates, Sweep, Crash, Tick, vars
<1> QED
  BY <1>1, <1>2, <1>3

\* A remote acquire that succeeds answers with a fence granted to its caller.
LEMMA AcquireIsGranted ==
    ASSUME Ledger, ClaimsAreGranted, NEW p \in Participant, NEW e \in Entity, Created(e),
           Acquire(p, e, "exclusive", CallTtl)
    PROVE  \E i \in journal' : /\ i.resource = TypedName[e]
                               /\ i.fence = fences'[Canonical(e)] /\ i.holder = p
<1> DEFINE r == TypedName[e]
<1>1. r \in Name /\ Canonical(e) = r
  BY CanonicalEntity
<1>2. CASE AcquireHeld(p, e, CallTtl)
  <2>1. /\ claims[r] # NoClaim /\ claims[r].holder = p
        /\ fences' = fences /\ journal' = journal
    BY <1>1, <1>2 DEF AcquireHeld, Live, HeldBy
  <2>2. claims[r].fence = fences[r]
    BY <1>1, <2>1 DEF Ledger, ClaimHoldsCurrentFence
  <2> QED
    BY <1>1, <2>1, <2>2 DEF ClaimsAreGranted
<1>3. CASE AcquireNew(p, e, "exclusive", CallTtl)
  <2> DEFINE i == [resource |-> r, fence |-> fences[r] + 1, holder |-> p]
  <2>1. i \in journal' /\ fences'[r] = fences[r] + 1
    BY <1>1, <1>3 DEF AcquireNew, Ledger, TypeOK
  <2>2. i.resource = r /\ i.fence = fences'[Canonical(e)] /\ i.holder = p
    BY <1>1, <2>1
  <2> QED
    BY <2>1, <2>2
<1> QED
  BY <1>2, <1>3 DEF Acquire

\* What a session remembers after a request is a call again.
LEMMA CallsTypeStep ==
    ASSUME Ledger, CallsTypeOK, [CallsNext]_allVars
    PROVE  CallsTypeOK'
<1>1. TypeOK /\ [Next]_vars
  BY CallsAreRequests DEF Ledger
<1>2. \A n \in Name : fences'[n] <= MaxFence
  BY <1>1, JournalGrows DEF CallsTypeOK
<1>3. running' = running
  <2>1. ASSUME NEW p \in Participant, NEW n, NEW ttl,
               Acquire(p, n, "exclusive", ttl) \/ Renew(p, n, fences[Canonical(n)], ttl)
               \/ Release(p, n, fences[Canonical(n)])
        PROVE  running' = running
    BY <2>1 DEF Acquire, AcquireHeld, AcquireNew, Renew, Release
  <2>2. ASSUME NEW p \in Participant, NEW e \in Entity, NEW kind, Begin(p, e, kind)
        PROVE  running' = running
    BY <2>1, <2>2 DEF Begin, vars
  <2>3. ASSUME NEW p \in Participant, NEW patch, Write(p, patch)
        PROVE  running' = running
    BY <2>3 DEF Write, UpdateEntity, vars
  <2>4. ASSUME NEW p \in Participant, EndCall(p) \/ Archive(p)
        PROVE  running' = running
    BY <2>4 DEF EndCall, Archive, Release, ArchiveEntity, vars
  <2>5. ASSUME NEW p \in Participant, Hold(p)
        PROVE  running' = running
    BY <2>1, <2>5 DEF Hold
  <2>6. CASE Background
    BY <2>6 DEF Background, CreateEntity, Sweep, Tick
  <2>7. CASE UNCHANGED allVars
    BY <2>7 DEF allVars, vars
  <2> QED
    BY <2>2, <2>3, <2>4, <2>5, <2>6, <2>7 DEF CallsNext
<1>4. TypeOK'
  BY <1>1, TypeStep
<1>5. ASSUME NEW p \in Participant, call[p] # NoCall
      PROVE  /\ call[p] \in Call
             /\ [call[p] EXCEPT !.step = "release"] \in Call
  <2>1. call[p] \in Call
    BY <1>5 DEF CallsTypeOK
  <2> QED
    BY <2>1 DEF Call
<1>6. ASSUME NEW p \in Participant, NEW c \in Call \cup {NoCall}, Goto(p, c)
      PROVE  call' \in [Participant -> Call \cup {NoCall}]
  BY <1>6 DEF Goto, CallsTypeOK
<1>7. ASSUME NEW p \in Participant, NEW e \in Entity, NEW kind \in {"update", "archive"},
             Begin(p, e, kind)
      PROVE  call' \in [Participant -> Call \cup {NoCall}]
  <2>1. Canonical(e) \in Name
    BY <1>1, CanonicalType
  <2>2. \A n \in Name : fences'[n] \in 0..MaxFence /\ fences[n] \in 0..MaxFence
    BY <1>1, <1>2, <1>4 DEF TypeOK, CallsTypeOK
  <2>3. CASE Goto(p, [step |-> kind, task |-> e, fence |-> fences'[Canonical(e)]])
    <3>1. [step |-> kind, task |-> e, fence |-> fences'[Canonical(e)]] \in Call
      BY <2>1, <2>2 DEF Call
    <3> QED
      BY <1>6, <2>3, <3>1
  <2>4. CASE /\ Refuses(claims[Canonical(e)], p, "exclusive")
             /\ Goto(p, [step |-> kind, task |-> e, fence |-> claims[Canonical(e)].fence])
    <3>1. claims[Canonical(e)].fence = fences[Canonical(e)]
      BY <2>1, <2>4 DEF Refuses, Live, Ledger, ClaimHoldsCurrentFence
    <3>2. [step |-> kind, task |-> e, fence |-> claims[Canonical(e)].fence] \in Call
      BY <2>1, <2>2, <3>1 DEF Call
    <3> QED
      BY <1>6, <2>4, <3>2
  <2> QED
    BY <1>7, <2>3, <2>4 DEF Begin
<1>8. ASSUME NEW p \in Participant, NEW patch \in Patch, Write(p, patch)
      PROVE  call' \in [Participant -> Call \cup {NoCall}]
  <2>1. call[p] # NoCall
    BY <1>8 DEF Write
  <2>2. Goto(p, NoCall) \/ Goto(p, [call[p] EXCEPT !.step = "release"])
    BY <1>8 DEF Write
  <2> QED
    BY <1>5, <1>6, <2>1, <2>2
<1>9. ASSUME NEW p \in Participant, EndCall(p) \/ Archive(p)
      PROVE  call' \in [Participant -> Call \cup {NoCall}]
  BY <1>6, <1>9 DEF EndCall, Archive
<1>10. ASSUME call' = call
       PROVE  call' \in [Participant -> Call \cup {NoCall}]
  BY <1>10, Zenon DEF CallsTypeOK
<1>11. call' \in [Participant -> Call \cup {NoCall}]
  <2>1. ASSUME NEW p \in Participant, Hold(p)
        PROVE  call' = call
    BY <2>1 DEF Hold
  <2>2. CASE Background
    BY <1>10, <2>2 DEF Background
  <2>3. CASE UNCHANGED allVars
    BY <1>10, <2>3 DEF allVars
  <2>4. ASSUME NEW p \in Participant,
               \/ \E e \in Entity, kind \in {"update", "archive"} : Begin(p, e, kind)
               \/ \E patch \in Patch : Write(p, patch)
               \/ EndCall(p) \/ Archive(p) \/ Hold(p)
        PROVE  call' \in [Participant -> Call \cup {NoCall}]
    <3>1. CASE \E e \in Entity, kind \in {"update", "archive"} : Begin(p, e, kind)
      BY <1>7, <3>1
    <3>2. CASE \E patch \in Patch : Write(p, patch)
      BY <1>8, <3>2
    <3>3. CASE EndCall(p) \/ Archive(p)
      BY <1>9, <3>3
    <3>4. CASE Hold(p)
      BY <1>10, <2>1, <3>4
    <3> QED
      BY <2>4, <3>1, <3>2, <3>3, <3>4
  <2>5. CASE CallsNext
    <3>1. CASE \E p \in Participant :
                  \/ \E e \in Entity, kind \in {"update", "archive"} : Begin(p, e, kind)
                  \/ \E patch \in Patch : Write(p, patch)
                  \/ EndCall(p) \/ Archive(p) \/ Hold(p)
      BY <2>4, <3>1, Zenon
    <3> QED
      BY <2>2, <2>5, <3>1, Zenon DEF CallsNext
  <2>6. CallsNext \/ UNCHANGED allVars
    BY <1>1
  <2> QED
    BY <2>3, <2>5, <2>6
<1> QED
  BY <1>2, <1>3, <1>11 DEF CallsTypeOK

\* A call goes on with the fence it began with.
LEMMA CallsKeepGrants ==
    ASSUME CallsInv, [CallsNext]_allVars, Existing = Entity
    PROVE  (\A e \in Entity : Created(e)') /\ CallsAreGranted'
<1>0. \A e \in Entity : Created(e) /\ Created(e)'
  BY CallsAreRequests, JournalGrows DEF CallsInv, Ledger
<1>1. TypeOK /\ [Next]_vars /\ CallsAreGranted
      /\ call \in [Participant -> Call \cup {NoCall}]
  BY CallsAreRequests DEF CallsInv, Ledger, CallsTypeOK
<1>2. journal \subseteq journal'
  BY <1>1, JournalGrows
<1> SUFFICES ASSUME NEW p \in Participant \ Local, call'[p] # NoCall
             PROVE  \E i \in journal' : /\ i.resource = TypedName[call'[p].task]
                                        /\ i.fence = call'[p].fence /\ i.holder = p
  BY <1>0 DEF CallsAreGranted
<1>3. ASSUME call[p] # NoCall, call'[p].task = call[p].task, call'[p].fence = call[p].fence
      PROVE  \E i \in journal' : /\ i.resource = TypedName[call'[p].task]
                                 /\ i.fence = call'[p].fence /\ i.holder = p
  BY <1>1, <1>2, <1>3 DEF CallsAreGranted
<1>4. ASSUME NEW q \in Participant, NEW c, Goto(q, c), q # p
      PROVE  call'[p] = call[p]
  BY <1>1, <1>4 DEF Goto
<1>5. ASSUME NEW e \in Entity, NEW kind \in {"update", "archive"}, Begin(p, e, kind)
      PROVE  \E i \in journal' : /\ i.resource = TypedName[call'[p].task]
                                 /\ i.fence = call'[p].fence /\ i.holder = p
  <2>1. /\ Acquire(p, e, "exclusive", CallTtl)
        /\ Goto(p, [step |-> kind, task |-> e, fence |-> fences'[Canonical(e)]])
    BY <1>5 DEF Begin
  <2>2. call'[p].task = e /\ call'[p].fence = fences'[Canonical(e)]
    BY <1>1, <2>1 DEF Goto
  <2>3. \E i \in journal' : /\ i.resource = TypedName[e]
                            /\ i.fence = fences'[Canonical(e)] /\ i.holder = p
    BY <1>0, <2>1, AcquireIsGranted DEF CallsInv
  <2> QED
    BY <2>2, <2>3
<1>6. ASSUME NEW patch \in Patch, Write(p, patch)
      PROVE  call[p] # NoCall /\ call'[p].task = call[p].task /\ call'[p].fence = call[p].fence
  <2>1. call[p] \in Call /\ call'[p] = [call[p] EXCEPT !.step = "release"]
    BY <1>1, <1>6 DEF Write, Goto
  <2> QED
    BY <1>6, <2>1 DEF Write, Call
<1>7. ASSUME EndCall(p) \/ Archive(p)
      PROVE  FALSE
  BY <1>1, <1>7 DEF EndCall, Archive, Goto
<1>8. CASE call'[p] = call[p]
  BY <1>3, <1>8
<1>9. ASSUME NEW q \in Participant, q # p,
             \/ \E e \in Entity, kind \in {"update", "archive"} : Begin(q, e, kind)
             \/ \E patch \in Patch : Write(q, patch)
             \/ EndCall(q) \/ Archive(q)
      PROVE  call'[p] = call[p]
  BY <1>4, <1>9 DEF Begin, Write, EndCall, Archive
<1>10. CASE UNCHANGED call
  BY <1>8, <1>10
<1> QED
  BY <1>3, <1>5, <1>6, <1>7, <1>8, <1>9, <1>10 DEF CallsNext, Hold, Background, allVars

LEMMA CallsStart == Participant # {} /\ CallsInit => CallsInv
<1> SUFFICES ASSUME Participant # {}, CallsInit
             PROVE  CallsInv
  OBVIOUS
<1>1. Init /\ Ledger
  BY LedgerInit DEF CallsInit
<1> QED
  BY <1>1 DEF CallsInit, Init, CallsInv, CallsTypeOK, ClaimsAreGranted, CallsAreGranted,
       Created

LEMMA CallsStep == CallsInv /\ [CallsNext]_allVars => CallsInv'
<1> SUFFICES ASSUME CallsInv, [CallsNext]_allVars
             PROVE  CallsInv'
  OBVIOUS
<1>1. [Next]_vars /\ Ledger /\ TypeOK /\ CallsTypeOK
  BY CallsAreRequests DEF CallsInv, Ledger
<1>2. Ledger' /\ CallsTypeOK'
  BY <1>1, LedgerStep, CallsTypeStep
<1>3. ClaimsAreGranted'
  <2> SUFFICES ASSUME NEW m \in Name, claims'[m] # NoClaim
               PROVE  \E i \in journal' : /\ i.resource = m /\ i.fence = claims'[m].fence
                                          /\ i.holder = claims'[m].holder
    BY DEF ClaimsAreGranted
  <2>1. journal \subseteq journal'
    BY <1>1, JournalGrows
  <2>2. \/ /\ claims[m] # NoClaim /\ claims'[m].fence = claims[m].fence
           /\ claims'[m].holder = claims[m].holder
        \/ \E i \in journal' : /\ i.resource = m /\ i.fence = claims'[m].fence
                               /\ i.holder = claims'[m].holder
    BY <1>1, RowsFollowGrants
  <2> QED
    BY <2>1, <2>2 DEF CallsInv, ClaimsAreGranted
<1>4. Existing = Entity => (\A e \in Entity : Created(e)') /\ CallsAreGranted'
  BY CallsKeepGrants
<1> QED
  BY <1>2, <1>3, <1>4 DEF CallsInv

\* What the calls of the backends rest on holds in every reachable state (the
\* answers of acquire, and the journal row it writes).
THEOREM CallsHold == Participant # {} => (CallsSpec => []CallsInv)
<1> SUFFICES ASSUME Participant # {}
             PROVE  CallsSpec => []CallsInv
  OBVIOUS
<1>1. CallsInit => CallsInv
  BY CallsStart
<1>2. CallsInv /\ [CallsNext]_allVars => CallsInv'
  BY CallsStep
<1> QED
  BY <1>1, <1>2, PTL DEF CallsSpec

\* What update() and archive() send, local or remote, in whatever order with
\* other sessions, is a run of the coordination tables: each of their theorems
\* holds of it.
THEOREM CallsObeyCoordination == Participant # {} => (CallsSpec => Spec)
<1> SUFFICES ASSUME Participant # {}
             PROVE  CallsSpec => Spec
  OBVIOUS
<1>1. CallsInit => Init
  BY DEF CallsInit
<1>2. CallsInv /\ [CallsNext]_allVars => [Next]_vars
  BY CallsAreRequests DEF CallsInv
<1> QED
  BY <1>1, <1>2, CallsHold, PTL DEF CallsSpec, Spec

\* A call with a granted fence that is accepted meets its own claim.
LEMMA AcceptedUnderOwnClaim ==
    ASSUME CallsInv, Existing = Entity, NEW p \in Participant \ Local, call[p] # NoCall,
           FenceHolds(call[p].task, call[p].fence)
    PROVE  HeldBy(claims[Canonical(call[p].task)], p)
<1> DEFINE e == call[p].task
           r == TypedName[e]
           c == claims[r]
<1>1. e \in Entity /\ Created(e) /\ CallsAreGranted
  BY DEF CallsInv, CallsTypeOK, Call
<1>2. r \in Name /\ Canonical(e) = r /\ NamesEntity(e)
  BY <1>1, CanonicalEntity
<1>3. fences[r] = call[p].fence /\ c # NoClaim
  BY <1>2 DEF FenceHolds, Live
<1>4. c.fence = fences[r]
  BY <1>2, <1>3 DEF CallsInv, Ledger, ClaimHoldsCurrentFence
<1>5. PICK i \in journal : i.resource = r /\ i.fence = c.fence /\ i.holder = c.holder
  BY <1>2, <1>3 DEF CallsInv, ClaimsAreGranted
<1>6. PICK j \in journal : j.resource = r /\ j.fence = call[p].fence /\ j.holder = p
  BY <1>1 DEF CallsAreGranted
<1>7. i.holder = j.holder
  BY <1>3, <1>4, <1>5, <1>6 DEF CallsInv, Ledger, OneHolderPerFence
<1> QED
  BY <1>2, <1>3, <1>5, <1>6, <1>7 DEF HeldBy

LEMMA RemoteCallsRespect ==
    ASSUME CallsInv, [CallsNext]_allVars, Existing = Entity, NEW p \in Participant \ Local,
           call[p] # NoCall, call'[p] # call[p],
           <<work, archived, written>>' # <<work, archived, written>>
    PROVE  HeldBy(claims[Canonical(call[p].task)], p)
<1>1. call \in [Participant -> Call \cup {NoCall}]
  BY DEF CallsInv, CallsTypeOK
<1>2. ASSUME NEW patch \in Patch, Write(p, patch)
      PROVE  FenceHolds(call[p].task, call[p].fence)
  BY <1>2 DEF Write, UpdateEntity, MayUpdate, vars
<1>3. ASSUME Archive(p)
      PROVE  FenceHolds(call[p].task, call[p].fence)
  BY <1>3 DEF Archive, ArchiveEntity, MayArchive, vars
<1>4. ASSUME EndCall(p)
      PROVE  FALSE
  BY <1>4 DEF EndCall, Release, table, vars
<1>5. ASSUME NEW e \in Entity, NEW kind \in {"update", "archive"}, Begin(p, e, kind)
      PROVE  FALSE
  BY <1>5 DEF Begin
<1>6. ASSUME NEW q \in Participant, NEW c, Goto(q, c), q # p
      PROVE  FALSE
  BY <1>1, <1>6 DEF Goto
<1>7. ASSUME NEW q \in Participant, q # p,
             \/ \E e \in Entity, kind \in {"update", "archive"} : Begin(q, e, kind)
             \/ \E patch \in Patch : Write(q, patch)
             \/ EndCall(q) \/ Archive(q)
      PROVE  FALSE
  BY <1>6, <1>7 DEF Begin, Write, EndCall, Archive
<1>8. FenceHolds(call[p].task, call[p].fence)
  BY <1>2, <1>3, <1>4, <1>5, <1>7 DEF CallsNext, Hold, Background, allVars
<1> QED
  BY <1>8, AcceptedUnderOwnClaim

\* A call never changes a task under another session's live exclusive claim, for
\* any number of sessions, tasks and expiries between the call's own requests
\* (update and archive of the RemoteBackend).
THEOREM RemoteCallsRespectClaims ==
    Participant # {} /\ Local = {} /\ Existing = Entity =>
        (CallsSpec => CallsRespectForeignClaims)
<1> SUFFICES ASSUME Participant # {}, Local = {}, Existing = Entity
             PROVE  CallsSpec => CallsRespectForeignClaims
  OBVIOUS
<1>1. CallsInv /\ [CallsNext]_allVars =>
        [\A p \in Participant :
            (/\ call[p] # NoCall /\ call'[p] # call[p]
             /\ <<work, archived, written>>' # <<work, archived, written>>)
                => LET c == claims[Canonical(call[p].task)] IN
                   ~(Live(c) /\ c.mode = "exclusive" /\ ~HeldBy(c, p))]_allVars
  BY RemoteCallsRespect
<1> QED
  BY <1>1, CallsHold, PTL DEF CallsSpec, CallsRespectForeignClaims
=============================================================================
