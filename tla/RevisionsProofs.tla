--------------------------- MODULE RevisionsProofs ---------------------------
(***************************************************************************)
(* Theorems about module ArtifactRevisions, for every set of operations,   *)
(* contents and lifecycle passes and every bound, with the database lost   *)
(* and rebuilt at any time.                                                *)
(*                                                                         *)
(* The argument: what a row or an accepted operation says of a revision is *)
(* backed by R2, and each store is written in the order that keeps it so:  *)
(* bytes before the accepted commit, the commit record before the row, the *)
(* tombstone before the bytes go.  So the bytes of a commit are missing    *)
(* only when its tombstone is in R2, and a revision is rebuilt with its    *)
(* tombstone or with its bytes.                                            *)
(***************************************************************************)
EXTENDS ArtifactRevisions, WellFoundedInduction, TLAPS

Tombstone(r) == <<"tombstone", r>>

\* The bytes, or the commit record, of operation o.
Bytes(o) == <<ops[o].revision, ops[o].content>>

RevisionsTypeOK ==
    /\ lineageFence \in Nat /\ lineageHeld \in BOOLEAN
    /\ nextRevision \in 1 .. (MaxRevision + 1)
    /\ destroyed \in BOOLEAN
    /\ ops \in [Op -> OperationRow \cup {NoOp}]
    /\ rows \in [Revision -> RevisionRow \cup {NoRevision}]
    /\ work \in [Fact -> {"none", "pending", "published", "done"}]
    /\ blobs \subseteq Revision \X Content
    /\ commits \subseteq Revision \X Content
    /\ facts \subseteq Fact
    /\ writers \in [Op -> {"idle", "putting", "committing"}]
    /\ drains \in [Drain -> [at : {"idle", "records", "deleted", "confirming"},
                             revision : Revision \cup {0}, group : BOOLEAN]]
    /\ recovery \in [todo : SUBSET Revision, facts : SUBSET Revision, lost : BOOLEAN]

\* One operation at a time is on its way, to a revision nothing is known of.
OneWriteAtATime ==
    /\ Pending # {} => Recovered
    /\ \A o, p \in Pending : o = p
    /\ \A o \in Pending : ops[o].revision < nextRevision /\ rows[ops[o].revision] = NoRevision

\* A writer that waits for its commit has put its bytes, and so has an
\* operation that was accepted.
BytesComeFirst ==
    /\ \A o \in Op : writers[o] # "idle" => ops[o] # NoOp
    /\ \A o \in Op : InState(o, {"accepted"}) => Bytes(o) \in blobs
    /\ \A o \in Op : writers[o] = "committing" /\ InState(o, {"reserved"}) => Bytes(o) \in blobs

\* A revision number has one commit record, and it is its operation's.
CommitsAreUnique ==
    /\ \A b, c \in commits : b[1] = c[1] => b = c
    /\ \A b \in commits : b[1] \in recovery.todo \/ b[1] < nextRevision
    /\ \A b \in commits, o \in Pending :
          b[1] = ops[o].revision => ops[o].state = "accepted" /\ b = Bytes(o)

\* The rows are backed by commit records, the commit records by bytes.
RowsAreBacked ==
    /\ \A r \in Revision : rows[r] # NoRevision => <<r, rows[r].content>> \in commits
    /\ \A r \in Revision : Usable(r) => <<r, rows[r].content>> \in blobs
    /\ \A b \in commits : b \in blobs \/ Tombstone(b[1]) \in facts

Retired(r) == rows[r] # NoRevision /\ rows[r].retired # "no"

\* What the lifecycle queue and its passes have come to is in the rows and in R2.
FactsAreRows ==
    /\ \A r \in Revision : work[Tombstone(r)] # "none" => Retired(r)
    /\ \A r \in Revision : work[Tombstone(r)] \in {"published", "done"} => Tombstone(r) \in facts
    /\ \A d \in Drain : drains[d].at # "idle" =>
          drains[d].revision \in Revision /\ work[Tombstone(drains[d].revision)] # "none"
    /\ \A d \in Drain : drains[d].at \in {"deleted", "confirming"} =>
          Tombstone(drains[d].revision) \in facts
    /\ work[Retire] # "none" => destroyed

\* What is still to be rebuilt has a commit record, and no row before its
\* lifecycle records have been read; what R2 says of the rest is known.
RebuildIsOrdered ==
    /\ \A r \in recovery.todo : \E b \in commits : b[1] = r
    /\ \A r \in recovery.todo \ recovery.facts : rows[r] = NoRevision
    /\ \A r \in Revision : Tombstone(r) \in facts =>
          r \in recovery.todo \ recovery.facts \/ Retired(r)
    /\ Retire \in facts => destroyed \/ (recovery.facts = {} /\ recovery.todo # {})

RevisionsInv ==
    /\ RevisionsTypeOK
    /\ OneWriteAtATime
    /\ BytesComeFirst
    /\ CommitsAreUnique
    /\ RowsAreBacked
    /\ FactsAreRows
    /\ RebuildIsOrdered

-----------------------------------------------------------------------------
(* What the parts are made of.                                             *)

\* Lifecycle records have different names.
LEMMA FactsDiffer ==
    /\ Retire \in Fact
    /\ \A r \in Revision : Tombstone(r) \in Fact /\ Tombstone(r) # Retire
    /\ \A r, q \in Revision : Tombstone(r) = Tombstone(q) => r = q
  BY DEF Retire, Fact, Tombstone

\* An operation in some state is a row of the table.
LEMMA OperationIsRow ==
    ASSUME RevisionsTypeOK, NEW o \in Op, ops[o] # NoOp
    PROVE  /\ ops[o] \in OperationRow
           /\ ops[o].revision \in Revision /\ ops[o].content \in Content
           /\ Bytes(o) \in Revision \X Content
  BY DEF RevisionsTypeOK, OperationRow, Bytes

LEMMA PendingIsRow ==
    ASSUME RevisionsTypeOK, NEW o \in Pending
    PROVE  /\ o \in Op /\ ops[o] # NoOp
           /\ ops[o].state \in {"reserved", "accepted"}
           /\ ops[o].revision \in Revision /\ ops[o].content \in Content
  BY OperationIsRow DEF Pending, InState

\* A revision that is known is a row of the table.
LEMMA RevisionIsRow ==
    ASSUME RevisionsTypeOK, NEW r \in Revision, rows[r] # NoRevision
    PROVE  /\ rows[r] \in RevisionRow
           /\ rows[r].content \in Content /\ rows[r].gone \in BOOLEAN
           /\ rows[r].retired \in {"no", "manual", "expired", "destroy"}
<1>1. rows[r] \in RevisionRow
  BY DEF RevisionsTypeOK
<1>2. QED
  BY <1>1, Zenon DEF RevisionRow

-----------------------------------------------------------------------------
(* The first state, the lineage's claim, and a writer's requests.          *)

LEMMA RevisionsStart == RevisionsInit => RevisionsInv
<1> SUFFICES ASSUME RevisionsInit PROVE RevisionsInv
  OBVIOUS
<1>1. RevisionsTypeOK
  <2>1. nextRevision \in 1 .. (MaxRevision + 1)
    BY RevisionsAssumption DEF RevisionsInit
  <2>2. drains \in [Drain -> [at : {"idle", "records", "deleted", "confirming"},
                              revision : Revision \cup {0}, group : BOOLEAN]]
    BY Zenon DEF RevisionsInit, IdleDrain
  <2>3. recovery \in [todo : SUBSET Revision, facts : SUBSET Revision, lost : BOOLEAN]
    BY Zenon DEF RevisionsInit
  <2>4. destroyed \in BOOLEAN /\ lineageHeld \in BOOLEAN
    BY Zenon DEF RevisionsInit
  <2>5. QED
    BY <2>1, <2>2, <2>3, <2>4 DEF RevisionsInit, RevisionsTypeOK
<1>2. Pending = {}
  BY DEF RevisionsInit, Pending, InState
<1>3. OneWriteAtATime
  BY <1>2 DEF OneWriteAtATime
<1>4. BytesComeFirst
  BY DEF RevisionsInit, BytesComeFirst, InState
<1>5. CommitsAreUnique
  BY DEF RevisionsInit, CommitsAreUnique
<1>6. RowsAreBacked
  BY DEF RevisionsInit, RowsAreBacked, Usable
<1>7. FactsAreRows
  BY FactsDiffer DEF RevisionsInit, FactsAreRows, IdleDrain
<1>8. RebuildIsOrdered
  BY DEF RevisionsInit, RebuildIsOrdered
<1>9. QED
  BY <1>1, <1>3, <1>4, <1>5, <1>6, <1>7, <1>8 DEF RevisionsInv

LEMMA LineageKeeps == RevisionsInv /\ (TakeLineage \/ LoseLineage) => RevisionsInv'
<1> SUFFICES ASSUME RevisionsInv, TakeLineage \/ LoseLineage PROVE RevisionsInv'
  OBVIOUS
<1>0. UNCHANGED <<nextRevision, destroyed, ops, rows, work, blobs, commits, facts, writers,
                  drains, recovery>>
  BY DEF TakeLineage, LoseLineage
<1>1. RevisionsTypeOK'
  <2>1. lineageFence' \in Nat
    BY DEF TakeLineage, LoseLineage, RevisionsInv, RevisionsTypeOK
  <2>2. lineageHeld' \in BOOLEAN
    BY Zenon DEF TakeLineage, LoseLineage
  <2>3. QED
    BY <2>1, <2>2, <1>0 DEF RevisionsInv, RevisionsTypeOK
<1>2. QED
  BY <1>0, <1>1 DEF RevisionsInv, OneWriteAtATime, BytesComeFirst, CommitsAreUnique,
    RowsAreBacked, FactsAreRows, RebuildIsOrdered, Pending, InState, Usable, Recovered, Bytes,
    Retired

\* What a change of the writers alone has to establish.
LEMMA WritersKeep ==
    ASSUME RevisionsInv, UNCHANGED <<revisionDb, commits, facts, drains, recovery>>,
           writers' \in [Op -> {"idle", "putting", "committing"}],
           blobs \subseteq blobs', blobs' \subseteq Revision \X Content,
           \A o \in Op : writers'[o] # "idle" => ops[o] # NoOp,
           \A o \in Op : writers'[o] = "committing" /\ InState(o, {"reserved"}) =>
                             Bytes(o) \in blobs'
    PROVE  RevisionsInv'
<1>0. UNCHANGED <<lineageFence, lineageHeld, nextRevision, destroyed, ops, rows, work>>
  BY DEF revisionDb
<1>1. RevisionsTypeOK'
  BY <1>0 DEF RevisionsInv, RevisionsTypeOK
<1>2. BytesComeFirst'
  BY <1>0 DEF RevisionsInv, BytesComeFirst, InState, Bytes
<1>3. RowsAreBacked'
  BY <1>0 DEF RevisionsInv, RowsAreBacked, Usable
<1>4. OneWriteAtATime' /\ CommitsAreUnique' /\ FactsAreRows' /\ RebuildIsOrdered'
  BY <1>0 DEF RevisionsInv, OneWriteAtATime, CommitsAreUnique, FactsAreRows, RebuildIsOrdered,
    Pending, InState, Recovered, Bytes, Retired
<1>5. QED
  BY <1>1, <1>2, <1>3, <1>4 DEF RevisionsInv

LEMMA RetryKeeps == \A o \in Op : RevisionsInv /\ RetryWrite(o) => RevisionsInv'
<1> SUFFICES ASSUME NEW o \in Op, RevisionsInv, RetryWrite(o) PROVE RevisionsInv'
  OBVIOUS
<1>1. ops[o] # NoOp
  BY DEF RetryWrite, InState
<1>2. writers' = [writers EXCEPT ![o] = "putting"]
      /\ UNCHANGED <<revisionDb, blobs, commits, facts, drains, recovery>>
  BY DEF RetryWrite
<1>3. QED
  BY <1>1, <1>2, WritersKeep DEF RevisionsInv, RevisionsTypeOK, BytesComeFirst

LEMMA PutKeeps == \A o \in Op : RevisionsInv /\ PutBytes(o) => RevisionsInv'
<1> SUFFICES ASSUME NEW o \in Op, RevisionsInv, PutBytes(o) PROVE RevisionsInv'
  OBVIOUS
<1>1. ops[o] # NoOp
  BY DEF PutBytes, RevisionsInv, BytesComeFirst
<1>2. writers' = [writers EXCEPT ![o] = "committing"] /\ blobs' = blobs \cup {Bytes(o)}
      /\ UNCHANGED <<revisionDb, commits, facts, drains, recovery>>
  BY DEF PutBytes, Bytes
<1>3. Bytes(o) \in Revision \X Content
  BY <1>1, OperationIsRow DEF RevisionsInv
<1>4. QED
  BY <1>1, <1>2, <1>3, WritersKeep DEF RevisionsInv, RevisionsTypeOK, BytesComeFirst

LEMMA WriterDeathKeeps == \A o \in Op : RevisionsInv /\ WriterDies(o) => RevisionsInv'
<1> SUFFICES ASSUME NEW o \in Op, RevisionsInv, WriterDies(o) PROVE RevisionsInv'
  OBVIOUS
<1>1. writers' = [writers EXCEPT ![o] = "idle"]
      /\ UNCHANGED <<revisionDb, blobs, commits, facts, drains, recovery>>
  BY DEF WriterDies
<1>2. QED
  BY <1>1, WritersKeep DEF RevisionsInv, RevisionsTypeOK, BytesComeFirst

-----------------------------------------------------------------------------
(* The operation of a writer.                                              *)

\* Of some revisions one is the newest.
LEMMA NewestExists ==
    ASSUME NEW T \in SUBSET Revision, T # {}
    PROVE  \E r \in T : \A q \in T : q <= r
<1> DEFINE R == {ss \in Nat \X Nat : ss[1] < ss[2]}
           U == {n \in Nat : n <= MaxRevision /\ MaxRevision - n \in T}
<1>1. IsWellFoundedOn(R, Nat)
  BY NatLessThanWellFounded DEF OpToRel
<1>2. \A q \in T : MaxRevision - q \in U /\ MaxRevision - (MaxRevision - q) = q
  BY RevisionsAssumption DEF Revision
<1>3. U \in SUBSET Nat /\ U # {}
  BY <1>2
<1> HIDE DEF U, R
<1>4. PICK u \in U : \A v \in U : <<v, u>> \notin R
  BY <1>1, <1>3, WFMin
<1>5. \A v \in U : u <= v
  <2> SUFFICES ASSUME NEW v \in U, v < u PROVE FALSE
    BY <1>3
  <2>1. <<v, u>> \in Nat \X Nat /\ <<v, u>>[1] = v /\ <<v, u>>[2] = u
    BY <1>3
  <2>2. QED
    BY <2>1, <1>4 DEF R
<1>6. u \in Nat /\ MaxRevision - u \in T
  BY DEF U
<1>7. \A q \in T : q <= MaxRevision - u
  BY <1>2, <1>5, <1>6, RevisionsAssumption DEF Revision
<1>8. QED
  BY <1>6, <1>7

\* A reservation either repeats what is published or takes the next number,
\* and no earlier operation is then still on its way.
LEMMA ReserveTakesNext ==
    ASSUME RevisionsInv, NEW o \in Op, NEW c \in Content, NEW restore \in BOOLEAN,
           Reserve(o, c, restore)
    PROVE  /\ ops' \in [Op -> OperationRow \cup {NoOp}]
           /\ \A p \in Op : ops[p] # NoOp => ops'[p] # NoOp
           /\ \A p \in Op \ {o} : ~ (ops'[p] # NoOp /\ ops'[p].state \in {"reserved", "accepted"})
           /\ \/ /\ ops'[o].state = "published"
                 /\ UNCHANGED <<nextRevision, writers>>
              \/ /\ nextRevision <= MaxRevision
                 /\ ops'[o].state = "reserved" /\ ops'[o].revision = nextRevision
                 /\ ops'[o] # NoOp
                 /\ nextRevision' = nextRevision + 1
                 /\ writers' = [writers EXCEPT ![o] = "putting"]
<1> DEFINE swept == [p \in Op |-> IF p \in Pending THEN [ops[p] EXCEPT !.state = "aborted"]
                                  ELSE ops[p]]
           fresh(state, r) == [state |-> state, revision |-> r, content |-> c,
                               fence |-> lineageFence]
           newest == CHOOSE r \in Duplicates(c) : \A q \in Duplicates(c) : q <= r
<1>1. ASSUME NEW p \in Op
      PROVE  /\ swept[p] \in OperationRow \cup {NoOp}
             /\ ops[p] # NoOp => swept[p] # NoOp
             /\ ~ (swept[p] # NoOp /\ swept[p].state \in {"reserved", "accepted"})
  <2>1. CASE p \in Pending
    <3>1. ops[p] \in OperationRow
      BY <2>1, OperationIsRow, PendingIsRow DEF RevisionsInv
    <3>2. swept[p] \in OperationRow /\ swept[p].state = "aborted"
      BY <2>1, <3>1 DEF OperationRow
    <3>3. QED
      BY <3>2, NoRowsAssumption
  <2>2. CASE p \notin Pending
    <3>1. swept[p] = ops[p] /\ ops[p] \in OperationRow \cup {NoOp}
      BY <2>2 DEF RevisionsInv, RevisionsTypeOK
    <3>2. QED
      BY <2>2, <3>1 DEF Pending, InState
  <2>3. QED
    BY <2>1, <2>2
<1>2. lineageFence \in Nat /\ nextRevision \in 1 .. (MaxRevision + 1)
  BY DEF RevisionsInv, RevisionsTypeOK
<1>3. CASE /\ ~restore /\ Duplicates(c) # {}
           /\ ops' = [swept EXCEPT ![o] = fresh("published", newest)]
           /\ UNCHANGED <<nextRevision, writers>>
  <2>1. newest \in Revision
    <3>1. \E r \in Duplicates(c) : \A q \in Duplicates(c) : q <= r
      BY <1>3, NewestExists DEF Duplicates
    <3>2. newest \in Duplicates(c)
      BY <3>1
    <3>3. QED
      BY <3>2 DEF Duplicates
  <2>2. fresh("published", newest) \in OperationRow
    BY <1>2, <2>1 DEF OperationRow
  <2>3. QED
    BY <1>1, <1>3, <2>2, NoRowsAssumption
<1>4. CASE /\ nextRevision <= MaxRevision
           /\ ops' = [swept EXCEPT ![o] = fresh("reserved", nextRevision)]
           /\ nextRevision' = nextRevision + 1
           /\ writers' = [writers EXCEPT ![o] = "putting"]
  <2>1. fresh("reserved", nextRevision) \in OperationRow
    BY <1>2, <1>4, RevisionsAssumption DEF OperationRow, Revision
  <2>2. QED
    BY <1>1, <1>4, <2>1, NoRowsAssumption
<1>5. QED
  BY <1>3, <1>4 DEF Reserve

LEMMA ReserveKeeps == \A o \in Op, c \in Content, restore \in BOOLEAN :
    RevisionsInv /\ Reserve(o, c, restore) => RevisionsInv'
<1> SUFFICES ASSUME NEW o \in Op, NEW c \in Content, NEW restore \in BOOLEAN,
                    RevisionsInv, Reserve(o, c, restore)
             PROVE  RevisionsInv'
  OBVIOUS
<1>0. /\ Recovered /\ writers[o] = "idle" /\ ops[o] = NoOp
      /\ UNCHANGED <<lineageFence, lineageHeld, destroyed, rows, work, blobs, commits, facts,
                     drains, recovery>>
  BY DEF Reserve
<1>1. /\ ops' \in [Op -> OperationRow \cup {NoOp}]
      /\ \A p \in Op : ops[p] # NoOp => ops'[p] # NoOp
      /\ \A p \in Op \ {o} : ~ (ops'[p] # NoOp /\ ops'[p].state \in {"reserved", "accepted"})
      /\ \/ /\ ops'[o].state = "published"
            /\ UNCHANGED <<nextRevision, writers>>
         \/ /\ nextRevision <= MaxRevision
            /\ ops'[o].state = "reserved" /\ ops'[o].revision = nextRevision
            /\ ops'[o] # NoOp
            /\ nextRevision' = nextRevision + 1
            /\ writers' = [writers EXCEPT ![o] = "putting"]
  BY ReserveTakesNext, Zenon
<1>2. /\ nextRevision' \in 1 .. (MaxRevision + 1) /\ nextRevision <= nextRevision'
      /\ nextRevision \in 1 .. (MaxRevision + 1)
  BY <1>1, RevisionsAssumption DEF RevisionsInv, RevisionsTypeOK
<1>3. writers' \in [Op -> {"idle", "putting", "committing"}]
  BY <1>1 DEF RevisionsInv, RevisionsTypeOK
<1>4. RevisionsTypeOK'
  BY <1>0, <1>1, <1>2, <1>3 DEF RevisionsInv, RevisionsTypeOK
<1>5. \A p \in Op : InState(p, {"reserved", "accepted"})' =>
          /\ p = o /\ ops'[p].state = "reserved" /\ ops'[p].revision = nextRevision
          /\ nextRevision' = nextRevision + 1 /\ nextRevision <= MaxRevision
  BY <1>1 DEF InState
<1>6. \A p \in Pending' :
          /\ p = o /\ ops'[p].state = "reserved" /\ ops'[p].revision = nextRevision
          /\ nextRevision' = nextRevision + 1 /\ nextRevision <= MaxRevision
  BY <1>5 DEF Pending
<1>7. \A b \in commits : b[1] < nextRevision
  BY <1>0 DEF RevisionsInv, CommitsAreUnique, Recovered
<1>8. OneWriteAtATime'
  <2>1. nextRevision <= MaxRevision => nextRevision \in Revision /\ rows[nextRevision] = NoRevision
    <3>1. nextRevision <= MaxRevision => nextRevision \in Revision
      BY <1>2, RevisionsAssumption DEF Revision
    <3>2. rows[nextRevision] # NoRevision /\ nextRevision \in Revision =>
              <<nextRevision, rows[nextRevision].content>> \in commits
      BY DEF RevisionsInv, RowsAreBacked
    <3>3. <<nextRevision, rows[nextRevision].content>> \notin commits
      BY <1>2, <1>7
    <3>4. QED
      BY <3>1, <3>2, <3>3
  <2>2. Recovered'
    BY <1>0 DEF Recovered
  <2>3. QED
    BY <1>0, <1>2, <1>6, <2>1, <2>2 DEF OneWriteAtATime
<1>9. BytesComeFirst'
  <2>1. \A p \in Op : writers'[p] # "idle" => ops'[p] # NoOp
    BY <1>0, <1>1 DEF RevisionsInv, RevisionsTypeOK, BytesComeFirst
  <2>2. \A p \in Op : ~ InState(p, {"accepted"})'
    BY <1>1 DEF InState
  <2>3. \A p \in Op : InState(p, {"reserved"})' => writers'[p] # "committing"
    <3>1. InState(o, {"reserved"})' => writers'[o] = "putting" \/ writers'[o] = "idle"
      BY <1>0, <1>1 DEF InState, RevisionsInv, RevisionsTypeOK
    <3>2. QED
      BY <1>1, <3>1 DEF InState
  <2>4. QED
    BY <2>1, <2>2, <2>3 DEF BytesComeFirst
<1>10. CommitsAreUnique'
  <2>1. \A b \in commits', p \in Pending' : b[1] # ops'[p].revision
    BY <1>0, <1>2, <1>6, <1>7
  <2>2. \A b \in commits' : b[1] < nextRevision'
    <3>1. \A b \in commits : b[1] \in Nat
      BY RevisionsAssumption DEF RevisionsInv, RevisionsTypeOK, Revision
    <3>2. QED
      BY <1>0, <1>2, <1>7, <3>1
  <2>3. QED
    BY <1>0, <2>1, <2>2 DEF RevisionsInv, CommitsAreUnique
<1>11. RowsAreBacked' /\ FactsAreRows' /\ RebuildIsOrdered'
  BY <1>0 DEF RevisionsInv, RowsAreBacked, FactsAreRows, RebuildIsOrdered, Usable, Retired
<1>12. QED
  BY <1>4, <1>8, <1>9, <1>10, <1>11 DEF RevisionsInv

LEMMA AcceptKeeps == \A o \in Op : RevisionsInv /\ Accept(o) => RevisionsInv'
<1> SUFFICES ASSUME NEW o \in Op, RevisionsInv, Accept(o) PROVE RevisionsInv'
  OBVIOUS
<1>0. /\ writers[o] = "committing" /\ writers' = [writers EXCEPT ![o] = "idle"]
      /\ UNCHANGED <<lineageFence, lineageHeld, nextRevision, destroyed, rows, work, blobs,
                     commits, facts, drains, recovery>>
  BY DEF Accept
<1>1. CASE UNCHANGED ops
  BY <1>0, <1>1, WritersKeep DEF RevisionsInv, RevisionsTypeOK, BytesComeFirst, revisionDb
<1>2. CASE InState(o, {"reserved"}) /\ ops' = [ops EXCEPT ![o].state = "accepted"]
  <2>1. ops[o] # NoOp /\ ops[o] \in OperationRow /\ o \in Pending /\ Bytes(o) \in blobs
    <3>1. ops[o] # NoOp /\ o \in Pending
      BY <1>2 DEF InState, Pending
    <3>2. ops[o] \in OperationRow
      BY <3>1, OperationIsRow DEF RevisionsInv
    <3>3. QED
      BY <1>0, <1>2, <3>1, <3>2 DEF RevisionsInv, BytesComeFirst
  <2>2. /\ ops' \in [Op -> OperationRow \cup {NoOp}]
        /\ ops'[o].state = "accepted" /\ ops'[o].revision = ops[o].revision
        /\ ops'[o].content = ops[o].content /\ ops'[o] # NoOp
        /\ \A p \in Op \ {o} : ops'[p] = ops[p]
    <3>1. [ops[o] EXCEPT !.state = "accepted"] \in OperationRow
      BY <2>1 DEF OperationRow
    <3>2. /\ ops'[o] = [ops[o] EXCEPT !.state = "accepted"]
          /\ \A p \in Op \ {o} : ops'[p] = ops[p]
          /\ ops' \in [Op -> OperationRow \cup {NoOp}]
      BY <1>2, <3>1 DEF RevisionsInv, RevisionsTypeOK
    <3>3. QED
      BY <2>1, <3>1, <3>2, NoRowsAssumption DEF OperationRow
  <2>3. Pending' = Pending /\ Bytes(o)' = Bytes(o)
    BY <2>1, <2>2 DEF Pending, InState, Bytes
  <2>4. RevisionsTypeOK'
    BY <1>0, <2>2 DEF RevisionsInv, RevisionsTypeOK
  <2>5. OneWriteAtATime'
    <3>1. \A p \in Pending : p = o
      BY <2>1 DEF RevisionsInv, OneWriteAtATime
    <3>2. QED
      BY <1>0, <2>2, <2>3, <3>1 DEF RevisionsInv, OneWriteAtATime, Recovered
  <2>6. BytesComeFirst'
    <3>1. \A p \in Op : writers'[p] # "idle" => p # o /\ writers'[p] = writers[p]
      BY <1>0 DEF RevisionsInv, RevisionsTypeOK
    <3>2. \A p \in Op \ {o} : Bytes(p)' = Bytes(p) /\ (ops'[p] = ops[p])
      BY <2>2 DEF Bytes
    <3>3. QED
      BY <1>0, <2>1, <2>2, <2>3, <3>1, <3>2 DEF RevisionsInv, BytesComeFirst, InState
  <2>7. CommitsAreUnique'
    <3>1. \A p \in Pending : p = o
      BY <2>1 DEF RevisionsInv, OneWriteAtATime
    <3>2. \A b \in commits : b[1] # ops[o].revision
      BY <1>2, <2>1 DEF RevisionsInv, CommitsAreUnique, InState
    <3>3. QED
      BY <1>0, <2>2, <2>3, <3>1, <3>2 DEF RevisionsInv, CommitsAreUnique
  <2>8. RowsAreBacked' /\ FactsAreRows' /\ RebuildIsOrdered'
    BY <1>0 DEF RevisionsInv, RowsAreBacked, FactsAreRows, RebuildIsOrdered, Usable, Retired
  <2>9. QED
    BY <2>4, <2>5, <2>6, <2>7, <2>8 DEF RevisionsInv
<1>3. QED
  BY <1>1, <1>2 DEF Accept

LEMMA CommitRecordKeeps == \A o \in Op : RevisionsInv /\ PutCommitRecord(o) => RevisionsInv'
<1> SUFFICES ASSUME NEW o \in Op, RevisionsInv, PutCommitRecord(o) PROVE RevisionsInv'
  OBVIOUS
<1>0. /\ commits' = commits \cup {Bytes(o)}
      /\ UNCHANGED <<lineageFence, lineageHeld, nextRevision, destroyed, ops, rows, work, blobs,
                     facts, writers, drains, recovery>>
  BY DEF PutCommitRecord, revisionDb, Bytes
<1>1. o \in Pending /\ InState(o, {"accepted"}) /\ ops[o].state = "accepted"
  BY DEF PutCommitRecord, Pending, InState
<1>2. Bytes(o) \in Revision \X Content /\ Bytes(o) \in blobs /\ Bytes(o)[1] = ops[o].revision
  BY <1>1, PendingIsRow DEF Bytes, RevisionsInv, BytesComeFirst
<1>3. RevisionsTypeOK'
  BY <1>0, <1>2 DEF RevisionsInv, RevisionsTypeOK
<1>4. OneWriteAtATime' /\ BytesComeFirst'
  BY <1>0 DEF RevisionsInv, OneWriteAtATime, BytesComeFirst, Pending, InState, Bytes, Recovered
<1>5. CommitsAreUnique'
  <2>1. \A p \in Pending : p = o
    BY <1>1 DEF RevisionsInv, OneWriteAtATime
  <2>2. \A b \in commits : b[1] = ops[o].revision => b = Bytes(o)
    BY <1>1 DEF RevisionsInv, CommitsAreUnique
  <2>3. ops[o].revision < nextRevision
    BY <1>1 DEF RevisionsInv, OneWriteAtATime
  <2>4. \A b, d \in commits' : b[1] = d[1] => b = d
    BY <1>0, <1>2, <2>2 DEF RevisionsInv, CommitsAreUnique
  <2>5. \A b \in commits' : b[1] \in recovery.todo \/ b[1] < nextRevision
    BY <1>0, <1>2, <2>3 DEF RevisionsInv, CommitsAreUnique
  <2>6. \A b \in commits', p \in Pending :
            b[1] = ops[p].revision => ops[p].state = "accepted" /\ b = Bytes(p)
    BY <1>0, <1>1, <2>1, <2>2
  <2>7. Pending' = Pending /\ \A p \in Op : Bytes(p)' = Bytes(p)
    BY <1>0 DEF Pending, InState, Bytes
  <2>8. Pending \subseteq Op
    BY DEF Pending
  <2>9. QED
    BY <1>0, <2>4, <2>5, <2>6, <2>7, <2>8 DEF CommitsAreUnique
<1>6. RowsAreBacked'
  BY <1>0, <1>2 DEF RevisionsInv, RowsAreBacked, Usable
<1>7. FactsAreRows' /\ RebuildIsOrdered'
  BY <1>0 DEF RevisionsInv, FactsAreRows, RebuildIsOrdered, Retired
<1>8. QED
  BY <1>3, <1>4, <1>5, <1>6, <1>7 DEF RevisionsInv

LEMMA PublishKeeps == \A o \in Op : RevisionsInv /\ Publish(o) => RevisionsInv'
<1> SUFFICES ASSUME NEW o \in Op, RevisionsInv, Publish(o) PROVE RevisionsInv'
  OBVIOUS
<1> DEFINE r == ops[o].revision
           row == [content |-> ops[o].content, retired |-> "no", gone |-> FALSE]
<1>0. /\ ops' = [ops EXCEPT ![o].state = "published"]
      /\ rows' = [rows EXCEPT ![r] = RowPublished(r, ops[o].content)]
      /\ Bytes(o) \in commits
      /\ UNCHANGED <<lineageFence, lineageHeld, nextRevision, destroyed, work, blobs, commits,
                     facts, writers, drains, recovery>>
  BY DEF Publish, Bytes
<1>1. o \in Pending /\ ops[o].state = "accepted" /\ InState(o, {"accepted"})
  BY DEF Publish, Pending, InState
<1>2. /\ ops[o] \in OperationRow /\ r \in Revision /\ ops[o].content \in Content
      /\ Bytes(o) = <<r, ops[o].content>> /\ Bytes(o) \in blobs
      /\ rows[r] = NoRevision /\ Recovered
  <2>1. ops[o] \in OperationRow /\ r \in Revision /\ ops[o].content \in Content
    BY <1>1, OperationIsRow, PendingIsRow DEF RevisionsInv
  <2>2. Bytes(o) \in blobs /\ rows[r] = NoRevision /\ Recovered
    BY <1>1 DEF RevisionsInv, BytesComeFirst, OneWriteAtATime, Pending
  <2>3. QED
    BY <2>1, <2>2 DEF Bytes
<1>3. row \in RevisionRow
  BY <1>2, Zenon DEF RevisionRow
<1>4. /\ rows' \in [Revision -> RevisionRow \cup {NoRevision}]
      /\ rows'[r] = row /\ row # NoRevision /\ \A q \in Revision \ {r} : rows'[q] = rows[q]
  <2>1. RowPublished(r, ops[o].content) = row
    BY <1>2 DEF RowPublished
  <2> HIDE DEF row
  <2>2. QED
    BY <1>0, <1>2, <1>3, <2>1, NoRowsAssumption DEF RevisionsInv, RevisionsTypeOK
<1>5. /\ ops' \in [Op -> OperationRow \cup {NoOp}]
      /\ ops'[o].state = "published"
      /\ \A p \in Op \ {o} : ops'[p] = ops[p]
      /\ \A p \in Op : ops[p] # NoOp => ops'[p] # NoOp
  <2>1. /\ [ops[o] EXCEPT !.state = "published"] \in OperationRow
        /\ [ops[o] EXCEPT !.state = "published"].state = "published"
    BY <1>2 DEF OperationRow
  <2>2. QED
    BY <1>0, <2>1, NoRowsAssumption DEF RevisionsInv, RevisionsTypeOK
<1>6. RevisionsTypeOK'
  BY <1>0, <1>4, <1>5 DEF RevisionsInv, RevisionsTypeOK
<1>7. Pending' = {}
  <2>1. \A p \in Pending : p = o
    BY <1>1 DEF RevisionsInv, OneWriteAtATime
  <2>2. QED
    BY <1>5, <2>1 DEF Pending, InState
<1>8. OneWriteAtATime'
  BY <1>7 DEF OneWriteAtATime
<1>9. BytesComeFirst'
  <2>1. \A p \in Op : ~ InState(p, {"accepted"})' /\ ~ InState(p, {"reserved"})'
    BY <1>7 DEF Pending, InState
  <2>2. QED
    BY <1>0, <1>5, <2>1 DEF RevisionsInv, BytesComeFirst
<1>10. CommitsAreUnique'
  BY <1>0, <1>7 DEF RevisionsInv, CommitsAreUnique
<1>11. RowsAreBacked'
  BY <1>0, <1>2, <1>4 DEF RevisionsInv, RowsAreBacked, Usable
<1>12. FactsAreRows'
  <2>1. \A q \in Revision : Retired(q) => Retired(q)'
    BY <1>2, <1>4 DEF Retired
  <2>2. QED
    BY <1>0, <2>1 DEF RevisionsInv, FactsAreRows
<1>13. RebuildIsOrdered'
  <2>1. \A q \in Revision : Retired(q) => Retired(q)'
    BY <1>2, <1>4 DEF Retired
  <2>2. recovery.todo = {}
    BY <1>2 DEF Recovered
  <2>3. QED
    BY <1>0, <2>1, <2>2 DEF RevisionsInv, RebuildIsOrdered
<1>14. QED
  BY <1>6, <1>8, <1>9, <1>10, <1>11, <1>12, <1>13 DEF RevisionsInv

-----------------------------------------------------------------------------
(* Deleting, and the lifecycle queue.                                      *)

\* A revision is retired and its tombstone queued, for whatever reason.
LEMMA AcceptedKeeps ==
    ASSUME RevisionsInv, NEW r \in Revision, NEW reason \in {"manual", "expired", "destroy"},
           rows[r] # NoRevision, Idle, work[Tombstone(r)] = "none", Accepted(r, reason)
    PROVE  RevisionsInv'
<1>0. /\ rows' = [rows EXCEPT ![r].retired = reason]
      /\ work' = [work EXCEPT ![Tombstone(r)] = "pending"]
      /\ UNCHANGED <<lineageFence, lineageHeld, nextRevision, destroyed, ops, blobs, commits,
                     facts, writers, drains, recovery>>
  BY DEF Accepted, Tombstone
<1>1. /\ rows' \in [Revision -> RevisionRow \cup {NoRevision}]
      /\ rows'[r] # NoRevision /\ rows'[r].retired = reason
      /\ rows'[r].content = rows[r].content
      /\ \A q \in Revision \ {r} : rows'[q] = rows[q]
  <2>1. rows[r] \in RevisionRow
    BY RevisionIsRow DEF RevisionsInv
  <2>2. /\ [rows[r] EXCEPT !.retired = reason] \in RevisionRow
        /\ [rows[r] EXCEPT !.retired = reason].retired = reason
        /\ [rows[r] EXCEPT !.retired = reason].content = rows[r].content
    BY <2>1 DEF RevisionRow
  <2>3. QED
    BY <1>0, <2>2, NoRowsAssumption DEF RevisionsInv, RevisionsTypeOK
<1>2. /\ work' \in [Fact -> {"none", "pending", "published", "done"}]
      /\ work'[Tombstone(r)] = "pending"
      /\ \A f \in Fact \ {Tombstone(r)} : work'[f] = work[f]
  BY <1>0, FactsDiffer DEF RevisionsInv, RevisionsTypeOK
<1>3. \A q \in Revision : Retired(q) => Retired(q)'
  BY <1>1 DEF Retired
<1>4. Retired(r)'
  BY <1>1 DEF Retired
<1>5. RevisionsTypeOK'
  BY <1>0, <1>1, <1>2 DEF RevisionsInv, RevisionsTypeOK
<1>6. Pending = {} /\ Pending' = {}
  BY <1>0 DEF Idle, Pending, InState
<1>7. OneWriteAtATime' /\ CommitsAreUnique'
  BY <1>0, <1>6 DEF RevisionsInv, OneWriteAtATime, CommitsAreUnique
<1>8. BytesComeFirst'
  BY <1>0 DEF RevisionsInv, BytesComeFirst, InState, Bytes
<1>9. RowsAreBacked'
  BY <1>0, <1>1 DEF RevisionsInv, RowsAreBacked, Usable
<1>10. FactsAreRows'
  <2>1. \A q \in Revision : work'[Tombstone(q)] # "none" => Retired(q)'
    BY <1>2, <1>3, <1>4, FactsDiffer DEF RevisionsInv, FactsAreRows
  <2>2. \A q \in Revision : work'[Tombstone(q)] \in {"published", "done"} =>
            Tombstone(q) \in facts
    BY <1>2, FactsDiffer DEF RevisionsInv, FactsAreRows
  <2>3. \A q \in Revision : work[Tombstone(q)] # "none" => work'[Tombstone(q)] # "none"
    BY <1>2, FactsDiffer
  <2>4. work'[Retire] = work[Retire]
    BY <1>2, FactsDiffer
  <2>5. QED
    BY <1>0, <2>1, <2>2, <2>3, <2>4 DEF RevisionsInv, FactsAreRows
<1>11. RebuildIsOrdered'
  <2>1. r \notin recovery.todo \ recovery.facts
    BY DEF RevisionsInv, RebuildIsOrdered
  <2>2. \A q \in recovery.todo : q \in Revision
    BY DEF RevisionsInv, RevisionsTypeOK
  <2>3. QED
    BY <1>0, <1>1, <1>3, <2>1, <2>2 DEF RevisionsInv, RebuildIsOrdered
<1>12. QED
  BY <1>5, <1>7, <1>8, <1>9, <1>10, <1>11 DEF RevisionsInv

LEMMA RetireKeeps == \A r \in Revision :
    RevisionsInv /\ (DeleteRevision(r) \/ Expire(r) \/ RetireMember(r)) => RevisionsInv'
<1> SUFFICES ASSUME NEW r \in Revision, RevisionsInv,
                    DeleteRevision(r) \/ Expire(r) \/ RetireMember(r)
             PROVE  RevisionsInv'
  OBVIOUS
<1>1. rows[r] # NoRevision /\ Idle /\ work[Tombstone(r)] = "none"
  BY DEF DeleteRevision, Expire, RetireMember, MayExpire, Usable, Tombstone
<1>2. rows[r].retired \in {"no", "manual", "expired", "destroy"}
  BY <1>1, RevisionIsRow DEF RevisionsInv
<1>3. \E reason \in {"manual", "expired", "destroy"} : Accepted(r, reason)
  BY <1>2 DEF DeleteRevision, Expire, RetireMember
<1>4. QED
  BY <1>1, <1>3, AcceptedKeeps

LEMMA DestroyKeeps == RevisionsInv /\ Destroy => RevisionsInv'
<1> SUFFICES ASSUME RevisionsInv, Destroy PROVE RevisionsInv'
  OBVIOUS
<1>0. /\ destroyed' = TRUE /\ work' = [work EXCEPT ![Retire] = "pending"]
      /\ UNCHANGED <<lineageFence, lineageHeld, nextRevision, ops, rows, blobs, commits, facts,
                     writers, drains, recovery>>
  BY DEF Destroy
<1>1. /\ work' \in [Fact -> {"none", "pending", "published", "done"}]
      /\ \A r \in Revision : work'[Tombstone(r)] = work[Tombstone(r)]
  BY <1>0, FactsDiffer DEF RevisionsInv, RevisionsTypeOK
<1>2. RevisionsTypeOK'
  <2>1. destroyed' \in BOOLEAN
    BY <1>0, Zenon
  <2>2. QED
    BY <1>0, <1>1, <2>1 DEF RevisionsInv, RevisionsTypeOK
<1>3. OneWriteAtATime' /\ BytesComeFirst' /\ CommitsAreUnique' /\ RowsAreBacked'
  BY <1>0 DEF RevisionsInv, OneWriteAtATime, BytesComeFirst, CommitsAreUnique, RowsAreBacked,
    Pending, InState, Usable, Recovered, Bytes
<1>4. FactsAreRows'
  BY <1>0, <1>1 DEF RevisionsInv, FactsAreRows, Retired
<1>5. RebuildIsOrdered'
  BY <1>0 DEF RevisionsInv, RebuildIsOrdered, Retired
<1>6. QED
  BY <1>2, <1>3, <1>4, <1>5 DEF RevisionsInv

LEMMA WriteFactKeeps == \A f \in Fact : RevisionsInv /\ WriteFact(f) => RevisionsInv'
<1> SUFFICES ASSUME NEW f \in Fact, RevisionsInv, WriteFact(f) PROVE RevisionsInv'
  OBVIOUS
<1>0. /\ work[f] = "pending" /\ facts' = facts \cup {f}
      /\ UNCHANGED <<lineageFence, lineageHeld, nextRevision, destroyed, ops, rows, work, blobs,
                     commits, writers, drains, recovery>>
  BY DEF WriteFact, revisionDb
<1>1. RevisionsTypeOK'
  BY <1>0 DEF RevisionsInv, RevisionsTypeOK
<1>2. OneWriteAtATime' /\ BytesComeFirst' /\ CommitsAreUnique' /\ RowsAreBacked'
  BY <1>0 DEF RevisionsInv, OneWriteAtATime, BytesComeFirst, CommitsAreUnique, RowsAreBacked,
    Pending, InState, Usable, Recovered, Bytes
<1>3. FactsAreRows'
  BY <1>0 DEF RevisionsInv, FactsAreRows, Retired
<1>4. RebuildIsOrdered'
  <2>1. \A r \in Revision : Tombstone(r) \in facts' =>
            r \in recovery.todo \ recovery.facts \/ Retired(r)
    BY <1>0 DEF RevisionsInv, FactsAreRows, RebuildIsOrdered
  <2>2. Retire \in facts' => destroyed \/ (recovery.facts = {} /\ recovery.todo # {})
    BY <1>0 DEF RevisionsInv, FactsAreRows, RebuildIsOrdered
  <2>3. QED
    BY <1>0, <2>1, <2>2 DEF RevisionsInv, RebuildIsOrdered, Retired
<1>5. QED
  BY <1>1, <1>2, <1>3, <1>4 DEF RevisionsInv

\* What a change of the queue and its passes alone has to establish.
LEMMA QueueKeeps ==
    ASSUME RevisionsInv,
           UNCHANGED <<lineageFence, lineageHeld, nextRevision, destroyed, ops, rows, commits,
                       facts, writers, recovery>>,
           work' \in [Fact -> {"none", "pending", "published", "done"}],
           \A r \in Revision : work'[Tombstone(r)] # work[Tombstone(r)] =>
               work[Tombstone(r)] # "none" /\ work'[Tombstone(r)] # "none",
           \A r \in Revision : work'[Tombstone(r)] \in {"published", "done"} =>
               Tombstone(r) \in facts,
           work[Retire] = "none" => work'[Retire] = "none",
           drains' \in [Drain -> [at : {"idle", "records", "deleted", "confirming"},
                                  revision : Revision \cup {0}, group : BOOLEAN]],
           \A d \in Drain : drains'[d].at # "idle" =>
               /\ drains'[d].revision \in Revision
               /\ work[Tombstone(drains'[d].revision)] # "none",
           \A d \in Drain : drains'[d].at \in {"deleted", "confirming"} =>
               Tombstone(drains'[d].revision) \in facts,
           blobs' \subseteq blobs,
           \A b \in blobs \ blobs' : Tombstone(b[1]) \in facts
    PROVE  RevisionsInv'
<1>1. RevisionsTypeOK'
  BY DEF RevisionsInv, RevisionsTypeOK
<1>2. OneWriteAtATime' /\ CommitsAreUnique' /\ RebuildIsOrdered'
  BY DEF RevisionsInv, OneWriteAtATime, CommitsAreUnique, RebuildIsOrdered, Pending, InState,
    Recovered, Bytes, Retired
<1>3. \A b \in blobs \ blobs' : Retired(b[1]) \/ b[1] \in recovery.todo
  BY DEF RevisionsInv, RevisionsTypeOK, RebuildIsOrdered, Retired
<1>4. BytesComeFirst'
  <2>1. ASSUME NEW o \in Pending, Bytes(o) \in blobs
        PROVE  Bytes(o) \in blobs'
    <3>1. recovery.todo = {} /\ rows[ops[o].revision] = NoRevision
      BY DEF RevisionsInv, OneWriteAtATime, Recovered
    <3>2. Bytes(o)[1] = ops[o].revision
      BY DEF Bytes
    <3>3. QED
      BY <1>3, <2>1, <3>1, <3>2 DEF Retired
  <2>2. \A o \in Op : Bytes(o)' = Bytes(o) /\ InState(o, {"accepted"})' = InState(o, {"accepted"})
                      /\ InState(o, {"reserved"})' = InState(o, {"reserved"})
    BY DEF Bytes, InState
  <2>3. \A o \in Op : InState(o, {"accepted"}) \/ InState(o, {"reserved"}) => o \in Pending
    BY DEF Pending, InState
  <2>4. QED
    BY <2>1, <2>2, <2>3 DEF RevisionsInv, BytesComeFirst
<1>5. RowsAreBacked'
  <2>1. ASSUME NEW r \in Revision, Usable(r) PROVE <<r, rows[r].content>> \in blobs'
    <3>1. <<r, rows[r].content>> \in blobs /\ rows[r] # NoRevision /\ rows[r].retired = "no"
      BY <2>1 DEF RevisionsInv, RowsAreBacked, Usable
    <3>2. Tombstone(r) \notin facts
      BY <3>1 DEF RevisionsInv, RebuildIsOrdered, Retired
    <3>3. QED
      BY <3>1, <3>2
  <2>2. QED
    BY <2>1 DEF RevisionsInv, RowsAreBacked, Usable
<1>6. FactsAreRows'
  <2>1. \A r \in Revision : work'[Tombstone(r)] # "none" => Retired(r)
    BY DEF RevisionsInv, FactsAreRows
  <2>2. \A r \in Revision : work[Tombstone(r)] # "none" => work'[Tombstone(r)] # "none"
    OBVIOUS
  <2>3. work'[Retire] # "none" => destroyed
    BY DEF RevisionsInv, FactsAreRows
  <2>4. QED
    BY <2>1, <2>2, <2>3 DEF FactsAreRows, Retired
<1>7. QED
  BY <1>1, <1>2, <1>4, <1>5, <1>6 DEF RevisionsInv

LEMMA MarkFactKeeps == \A f \in Fact : RevisionsInv /\ MarkFact(f) => RevisionsInv'
<1> SUFFICES ASSUME NEW f \in Fact, RevisionsInv, MarkFact(f) PROVE RevisionsInv'
  OBVIOUS
<1>0. /\ work[f] = "pending" /\ f \in facts /\ work' = [work EXCEPT ![f] = Published(f)]
      /\ UNCHANGED <<lineageFence, lineageHeld, nextRevision, destroyed, ops, rows, blobs,
                     commits, facts, writers, drains, recovery>>
  BY DEF MarkFact
<1>1. /\ work' \in [Fact -> {"none", "pending", "published", "done"}]
      /\ work'[f] # "none" /\ \A g \in Fact \ {f} : work'[g] = work[g]
  BY <1>0 DEF RevisionsInv, RevisionsTypeOK, Published
<1>2. \A r \in Revision : work'[Tombstone(r)] # work[Tombstone(r)] => Tombstone(r) = f
  BY <1>1, FactsDiffer
<1>3. \A r \in Revision : work'[Tombstone(r)] \in {"published", "done"} => Tombstone(r) \in facts
  BY <1>0, <1>2 DEF RevisionsInv, FactsAreRows
<1>4. work[Retire] = "none" => work'[Retire] = "none"
  BY <1>0, <1>1, FactsDiffer
<1>5. \A r \in Revision : work'[Tombstone(r)] # work[Tombstone(r)] =>
          work[Tombstone(r)] # "none" /\ work'[Tombstone(r)] # "none"
  BY <1>0, <1>1, <1>2
<1>6. drains' = drains /\ blobs' = blobs
  BY <1>0
<1>7. /\ drains' \in [Drain -> [at : {"idle", "records", "deleted", "confirming"},
                                revision : Revision \cup {0}, group : BOOLEAN]]
      /\ \A d \in Drain : drains'[d].at # "idle" =>
            /\ drains'[d].revision \in Revision
            /\ work[Tombstone(drains'[d].revision)] # "none"
      /\ \A d \in Drain : drains'[d].at \in {"deleted", "confirming"} =>
            Tombstone(drains'[d].revision) \in facts
  BY <1>6, Zenon DEF RevisionsInv, RevisionsTypeOK, FactsAreRows
<1>8. QED
  BY <1>0, <1>1, <1>3, <1>4, <1>5, <1>6, <1>7, QueueKeeps

\* What is said of one pass holds of all of them when it alone has moved on.
PassOK(p) ==
    /\ p \in [at : {"idle", "records", "deleted", "confirming"},
              revision : Revision \cup {0}, group : BOOLEAN]
    /\ p.at # "idle" => p.revision \in Revision /\ work[Tombstone(p.revision)] # "none"
    /\ p.at \in {"deleted", "confirming"} => Tombstone(p.revision) \in facts

LEMMA PassesAreOK == RevisionsInv => \A d \in Drain : PassOK(drains[d])
<1> SUFFICES ASSUME RevisionsInv, NEW d \in Drain PROVE PassOK(drains[d])
  OBVIOUS
<1>1. drains[d] \in [at : {"idle", "records", "deleted", "confirming"},
                     revision : Revision \cup {0}, group : BOOLEAN]
  BY Zenon DEF RevisionsInv, RevisionsTypeOK
<1>2. QED
  BY <1>1, Zenon DEF RevisionsInv, FactsAreRows, PassOK

LEMMA PassKeeps ==
    ASSUME RevisionsInv, NEW d \in Drain, NEW p, PassOK(p),
           drains' = [drains EXCEPT ![d] = p],
           UNCHANGED <<lineageFence, lineageHeld, nextRevision, destroyed, ops, rows, commits,
                       facts, writers, recovery>>,
           work' \in [Fact -> {"none", "pending", "published", "done"}],
           \A r \in Revision : work'[Tombstone(r)] = work[Tombstone(r)],
           work'[Retire] = work[Retire],
           blobs' \subseteq blobs,
           \A b \in blobs \ blobs' : Tombstone(b[1]) \in facts
    PROVE  RevisionsInv'
<1>1. drains \in [Drain -> [at : {"idle", "records", "deleted", "confirming"},
                            revision : Revision \cup {0}, group : BOOLEAN]]
  BY Zenon DEF RevisionsInv, RevisionsTypeOK
<1>2. \A e \in Drain : PassOK(drains'[e])
  BY <1>1, PassesAreOK, Zenon
<1>3. drains' \in [Drain -> [at : {"idle", "records", "deleted", "confirming"},
                             revision : Revision \cup {0}, group : BOOLEAN]]
  <2>1. p \in [at : {"idle", "records", "deleted", "confirming"},
               revision : Revision \cup {0}, group : BOOLEAN]
    BY DEF PassOK
  <2>2. QED
    BY <1>1, <2>1, Zenon
<1>4. /\ \A e \in Drain : drains'[e].at # "idle" =>
            /\ drains'[e].revision \in Revision
            /\ work[Tombstone(drains'[e].revision)] # "none"
      /\ \A e \in Drain : drains'[e].at \in {"deleted", "confirming"} =>
            Tombstone(drains'[e].revision) \in facts
  BY <1>2 DEF PassOK
<1>5. \A r \in Revision : work'[Tombstone(r)] \in {"published", "done"} => Tombstone(r) \in facts
  BY DEF RevisionsInv, FactsAreRows
<1>6. QED
  BY <1>3, <1>4, <1>5, QueueKeeps

LEMMA StartDrainKeeps == \A d \in Drain, r \in Revision :
    RevisionsInv /\ StartDrain(d, r) => RevisionsInv'
<1> SUFFICES ASSUME NEW d \in Drain, NEW r \in Revision, RevisionsInv, StartDrain(d, r)
             PROVE  RevisionsInv'
  OBVIOUS
<1> DEFINE p == [at |-> "records", revision |-> r, group |-> destroyed]
<1>1. destroyed \in BOOLEAN
  BY DEF RevisionsInv, RevisionsTypeOK
<1>2. work[Tombstone(r)] # "none"
  BY DEF StartDrain, Tombstone
<1>3. PassOK(p)
  BY <1>1, <1>2, Zenon DEF PassOK
<1>4. /\ drains' = [drains EXCEPT ![d] = p]
      /\ UNCHANGED <<lineageFence, lineageHeld, nextRevision, destroyed, ops, rows, work, blobs,
                     commits, facts, writers, recovery>>
  BY DEF StartDrain, revisionDb
<1> HIDE DEF p
<1>5. QED
  BY <1>3, <1>4, PassKeeps DEF RevisionsInv, RevisionsTypeOK

LEMMA DeleteBytesKeeps == \A d \in Drain : RevisionsInv /\ DeleteBytes(d) => RevisionsInv'
<1> SUFFICES ASSUME NEW d \in Drain, RevisionsInv, DeleteBytes(d) PROVE RevisionsInv'
  OBVIOUS
<1> DEFINE p == [drains[d] EXCEPT !.at = "deleted"]
<1>1. PassOK(drains[d]) /\ drains[d].at = "records"
  BY PassesAreOK DEF DeleteBytes
<1>2. Tombstone(drains[d].revision) \in facts
  <2>1. drains[d].revision \in Revision
    BY <1>1 DEF PassOK
  <2>2. work[Tombstone(drains[d].revision)] \in {"published", "done"}
    BY <2>1, FactsDiffer DEF DeleteBytes, RecordsWritten, RevisionsInv, RevisionsTypeOK, Tombstone
  <2>3. QED
    BY <2>1, <2>2 DEF RevisionsInv, FactsAreRows
<1>3. PassOK(p)
  <2>1. p.at = "deleted" /\ p.revision = drains[d].revision /\ p.group = drains[d].group
    BY <1>1 DEF PassOK
  <2>2. p \in [at : {"idle", "records", "deleted", "confirming"},
               revision : Revision \cup {0}, group : BOOLEAN]
    BY <1>1, Zenon DEF PassOK
  <2>3. QED
    BY <1>1, <1>2, <2>1, <2>2 DEF PassOK
<1>4. /\ drains' = [drains EXCEPT ![d] = p]
      /\ blobs' = {b \in blobs : b[1] # drains[d].revision}
      /\ UNCHANGED <<lineageFence, lineageHeld, nextRevision, destroyed, ops, rows, work,
                     commits, facts, writers, recovery>>
  <2>1. drains' = [drains EXCEPT ![d] = p]
    BY DEF DeleteBytes
  <2>2. QED
    BY <2>1 DEF DeleteBytes, revisionDb
<1>5. \A b \in blobs \ blobs' : Tombstone(b[1]) \in facts
  BY <1>2, <1>4
<1> HIDE DEF p
<1>6. QED
  BY <1>3, <1>4, <1>5, PassKeeps DEF RevisionsInv, RevisionsTypeOK

LEMMA ConfirmationKeeps == \A d \in Drain : RevisionsInv /\ QueueConfirmation(d) => RevisionsInv'
<1> SUFFICES ASSUME NEW d \in Drain, RevisionsInv, QueueConfirmation(d) PROVE RevisionsInv'
  OBVIOUS
<1> DEFINE p == [drains[d] EXCEPT !.at = "confirming"]
           f == <<"deleted", drains[d].revision>>
<1>1. PassOK(drains[d]) /\ drains[d].at = "deleted"
  BY PassesAreOK DEF QueueConfirmation
<1>2. PassOK(p)
  <2>1. p.at = "confirming" /\ p.revision = drains[d].revision /\ p.group = drains[d].group
    BY <1>1 DEF PassOK
  <2>2. p \in [at : {"idle", "records", "deleted", "confirming"},
               revision : Revision \cup {0}, group : BOOLEAN]
    BY <1>1, Zenon DEF PassOK
  <2>3. QED
    BY <1>1, <2>1, <2>2 DEF PassOK
<1>3. f \in Fact /\ f # Retire /\ \A r \in Revision : Tombstone(r) # f
  BY <1>1 DEF PassOK, Fact, Retire, Tombstone
<1>4. /\ drains' = [drains EXCEPT ![d] = p]
      /\ work' = [work EXCEPT ![f] = IF @ = "none" THEN "pending" ELSE @]
      /\ UNCHANGED <<lineageFence, lineageHeld, nextRevision, destroyed, ops, rows, blobs,
                     commits, facts, writers, recovery>>
  BY DEF QueueConfirmation
<1> HIDE DEF p, f
<1>5. /\ work' \in [Fact -> {"none", "pending", "published", "done"}]
      /\ \A r \in Revision : work'[Tombstone(r)] = work[Tombstone(r)]
      /\ work'[Retire] = work[Retire]
  BY <1>3, <1>4, FactsDiffer DEF RevisionsInv, RevisionsTypeOK
<1>6. QED
  BY <1>2, <1>4, <1>5, PassKeeps

LEMMA DrainDeathKeeps == \A d \in Drain : RevisionsInv /\ DrainDies(d) => RevisionsInv'
<1> SUFFICES ASSUME NEW d \in Drain, RevisionsInv, DrainDies(d) PROVE RevisionsInv'
  OBVIOUS
<1>1. PassOK(IdleDrain)
  BY Zenon DEF PassOK, IdleDrain
<1>2. /\ drains' = [drains EXCEPT ![d] = IdleDrain]
      /\ UNCHANGED <<lineageFence, lineageHeld, nextRevision, destroyed, ops, rows, work, blobs,
                     commits, facts, writers, recovery>>
  BY DEF DrainDies, revisionDb
<1>3. QED
  BY <1>1, <1>2, PassKeeps DEF RevisionsInv, RevisionsTypeOK

\* The confirmed revision is gone, its pass is over.
LEMMA FinishDrainKeeps == \A d \in Drain : RevisionsInv /\ FinishDrain(d) => RevisionsInv'
<1> SUFFICES ASSUME NEW d \in Drain, RevisionsInv, FinishDrain(d) PROVE RevisionsInv'
  OBVIOUS
<1> DEFINE r == drains[d].revision
<1>0. /\ rows' = [rows EXCEPT ![r].gone = TRUE]
      /\ work' = [work EXCEPT ![Tombstone(r)] = "done"]
      /\ drains' = [drains EXCEPT ![d] = IdleDrain]
      /\ UNCHANGED <<lineageFence, lineageHeld, nextRevision, destroyed, ops, blobs, commits,
                     facts, writers, recovery>>
  BY DEF FinishDrain, Tombstone
<1>1. /\ r \in Revision /\ Tombstone(r) \in facts /\ Retired(r)
      /\ work[Tombstone(r)] # "none"
  <2>1. PassOK(drains[d]) /\ drains[d].at = "confirming"
    BY PassesAreOK DEF FinishDrain
  <2>2. QED
    BY <2>1 DEF PassOK, RevisionsInv, FactsAreRows
<1> HIDE DEF r
<1>2. /\ rows' \in [Revision -> RevisionRow \cup {NoRevision}]
      /\ rows'[r] # NoRevision /\ rows'[r].retired = rows[r].retired
      /\ rows'[r].content = rows[r].content
      /\ \A q \in Revision \ {r} : rows'[q] = rows[q]
  <2>1. rows[r] \in RevisionRow
    BY <1>1, RevisionIsRow DEF RevisionsInv, Retired
  <2>2. /\ [rows[r] EXCEPT !.gone = TRUE] \in RevisionRow
        /\ [rows[r] EXCEPT !.gone = TRUE].retired = rows[r].retired
        /\ [rows[r] EXCEPT !.gone = TRUE].content = rows[r].content
    BY <2>1, Zenon DEF RevisionRow
  <2>3. QED
    BY <1>0, <1>1, <2>2, NoRowsAssumption DEF RevisionsInv, RevisionsTypeOK
<1>3. /\ work' \in [Fact -> {"none", "pending", "published", "done"}]
      /\ work'[Tombstone(r)] = "done"
      /\ \A q \in Revision \ {r} : work'[Tombstone(q)] = work[Tombstone(q)]
      /\ work'[Retire] = work[Retire]
  BY <1>0, <1>1, FactsDiffer DEF RevisionsInv, RevisionsTypeOK
<1>4. \A e \in Drain : PassOK(drains'[e])
  <2>1. PassOK(IdleDrain)
    BY Zenon DEF PassOK, IdleDrain
  <2>2. drains \in [Drain -> [at : {"idle", "records", "deleted", "confirming"},
                              revision : Revision \cup {0}, group : BOOLEAN]]
    BY Zenon DEF RevisionsInv, RevisionsTypeOK
  <2>3. QED
    BY <1>0, <2>1, <2>2, PassesAreOK, Zenon
<1>5. RevisionsTypeOK'
  <2>1. drains' \in [Drain -> [at : {"idle", "records", "deleted", "confirming"},
                               revision : Revision \cup {0}, group : BOOLEAN]]
    <3>1. drains' = [e \in Drain |-> drains'[e]]
      BY <1>0, Zenon DEF RevisionsInv, RevisionsTypeOK
    <3>2. QED
      BY <1>4, <3>1, Zenon DEF PassOK
  <2>2. QED
    BY <1>0, <1>2, <1>3, <2>1 DEF RevisionsInv, RevisionsTypeOK
<1>6. \A q \in Revision : /\ rows'[q] = NoRevision <=> rows[q] = NoRevision
                          /\ Retired(q)' <=> Retired(q)
  BY <1>1, <1>2 DEF Retired
<1>7. OneWriteAtATime' /\ BytesComeFirst' /\ CommitsAreUnique'
  <2>1. Pending' = Pending /\ Pending \subseteq Op
    BY <1>0 DEF Pending, InState
  <2>2. \A o \in Pending : ops[o].revision \in Revision
    BY PendingIsRow DEF RevisionsInv
  <2>3. QED
    BY <1>0, <1>6, <2>1, <2>2 DEF RevisionsInv, OneWriteAtATime, BytesComeFirst,
      CommitsAreUnique, InState, Bytes, Recovered
<1>8. RowsAreBacked'
  <2>1. \A q \in Revision : Usable(q)' => q # r
    BY <1>1, <1>6 DEF Usable, Retired
  <2>2. QED
    BY <1>0, <1>2, <1>6, <2>1 DEF RevisionsInv, RowsAreBacked, Usable
<1>9. FactsAreRows'
  <2>1. \A q \in Revision : work'[Tombstone(q)] # "none" => work[Tombstone(q)] # "none"
    BY <1>1, <1>3
  <2>2. \A q \in Revision : work[Tombstone(q)] # "none" => work'[Tombstone(q)] # "none"
    BY <1>3
  <2>3. \A e \in Drain : drains'[e].at # "idle" =>
            drains'[e].revision \in Revision /\ work'[Tombstone(drains'[e].revision)] # "none"
    BY <1>4, <2>2 DEF PassOK
  <2>4. \A e \in Drain : drains'[e].at \in {"deleted", "confirming"} =>
            Tombstone(drains'[e].revision) \in facts
    BY <1>4 DEF PassOK
  <2>5. \A q \in Revision : work'[Tombstone(q)] # "none" => Retired(q)'
    BY <1>6, <2>1 DEF RevisionsInv, FactsAreRows
  <2>6. \A q \in Revision : work'[Tombstone(q)] \in {"published", "done"} => Tombstone(q) \in facts
    BY <1>1, <1>3 DEF RevisionsInv, FactsAreRows
  <2>7. QED
    BY <1>0, <1>3, <2>3, <2>4, <2>5, <2>6 DEF RevisionsInv, FactsAreRows
<1>10. RebuildIsOrdered'
  BY <1>0, <1>6 DEF RevisionsInv, RevisionsTypeOK, RebuildIsOrdered
<1>11. QED
  BY <1>5, <1>7, <1>8, <1>9, <1>10 DEF RevisionsInv

-----------------------------------------------------------------------------
(* Losing the database and rebuilding it.                                  *)

LEMMA LossKeeps == RevisionsInv /\ LoseDatabase => RevisionsInv'
<1> SUFFICES ASSUME RevisionsInv, LoseDatabase PROVE RevisionsInv'
  OBVIOUS
<1>0. /\ recovery' = [todo |-> {b[1] : b \in commits}, facts |-> {}, lost |-> TRUE]
      /\ lineageFence' = 0 /\ lineageHeld' = FALSE /\ nextRevision' = 1
      /\ destroyed' = FALSE
      /\ ops' = [o \in Op |-> NoOp]
      /\ rows' = [r \in Revision |-> NoRevision]
      /\ work' = [f \in Fact |-> "none"]
      /\ writers' = [o \in Op |-> "idle"]
      /\ drains' = [d \in Drain |-> IdleDrain]
      /\ commits # {}
      /\ UNCHANGED <<blobs, commits, facts>>
  BY DEF LoseDatabase
<1>1. RevisionsTypeOK'
  <2>1. nextRevision' \in 1 .. (MaxRevision + 1)
    BY <1>0, RevisionsAssumption
  <2>2. drains' \in [Drain -> [at : {"idle", "records", "deleted", "confirming"},
                               revision : Revision \cup {0}, group : BOOLEAN]]
    BY <1>0, Zenon DEF IdleDrain
  <2>3. recovery' \in [todo : SUBSET Revision, facts : SUBSET Revision, lost : BOOLEAN]
    <3>1. {b[1] : b \in commits} \in SUBSET Revision
      BY DEF RevisionsInv, RevisionsTypeOK
    <3>2. QED
      BY <1>0, <3>1, Zenon
  <2>4. destroyed' \in BOOLEAN /\ lineageHeld' \in BOOLEAN
    BY <1>0, Zenon
  <2>5. QED
    BY <1>0, <2>1, <2>2, <2>3, <2>4 DEF RevisionsInv, RevisionsTypeOK
<1>2. Pending' = {}
  BY <1>0 DEF Pending, InState
<1>3. OneWriteAtATime'
  BY <1>2 DEF OneWriteAtATime
<1>4. BytesComeFirst'
  BY <1>0 DEF BytesComeFirst, InState
<1>5. /\ recovery'.facts = {}
      /\ \A b \in commits : b[1] \in recovery'.todo
      /\ \A r \in recovery'.todo : \E b \in commits : b[1] = r
  BY <1>0
<1>6. CommitsAreUnique'
  BY <1>0, <1>2, <1>5 DEF RevisionsInv, CommitsAreUnique
<1>7. RowsAreBacked'
  BY <1>0 DEF RevisionsInv, RowsAreBacked, Usable
<1>8. FactsAreRows'
  BY <1>0, FactsDiffer DEF FactsAreRows, IdleDrain
<1>9. \A r \in Revision : Tombstone(r) \in facts => r \in recovery'.todo
  <2> SUFFICES ASSUME NEW r \in Revision, Tombstone(r) \in facts
               PROVE  \E b \in commits : b[1] = r
    BY <1>5
  <2>1. CASE r \in recovery.todo
    BY <2>1 DEF RevisionsInv, RebuildIsOrdered
  <2>2. CASE Retired(r)
    BY <2>2 DEF RevisionsInv, RowsAreBacked, Retired
  <2>3. QED
    BY <2>1, <2>2 DEF RevisionsInv, RebuildIsOrdered
<1>10. RebuildIsOrdered'
  <2>1. recovery'.todo # {}
    BY <1>0, <1>5
  <2>2. recovery'.todo \subseteq Revision
    BY <1>1 DEF RevisionsTypeOK
  <2>3. QED
    BY <1>0, <1>5, <1>9, <2>1, <2>2 DEF RebuildIsOrdered
<1>11. QED
  BY <1>1, <1>3, <1>4, <1>6, <1>7, <1>8, <1>10 DEF RevisionsInv

\* What is rebuilt of a revision is what its one commit record says.
LEMMA ContentIsCommitted ==
    ASSUME RevisionsInv, NEW r \in recovery.todo
    PROVE  /\ r \in Revision /\ ContentOf(r) \in Content
           /\ <<r, ContentOf(r)>> \in commits
<1>1. r \in Revision
  BY DEF RevisionsInv, RevisionsTypeOK
<1>2. \E b \in commits : b[1] = r
  BY DEF RevisionsInv, RebuildIsOrdered
<1> DEFINE it == CHOOSE b \in commits : b[1] = r
<1>3. it \in commits /\ it[1] = r
  BY <1>2
<1>4. it \in Revision \X Content
  BY <1>3 DEF RevisionsInv, RevisionsTypeOK
<1>5. ContentOf(r) = it[2]
  BY DEF ContentOf
<1> HIDE DEF it
<1>6. QED
  BY <1>1, <1>3, <1>4, <1>5

LEMMA RecoverKeeps == \A r \in Revision : RevisionsInv /\ RecoverFacts(r) => RevisionsInv'
<1> SUFFICES ASSUME NEW r \in Revision, RevisionsInv, RecoverFacts(r) PROVE RevisionsInv'
  OBVIOUS
<1> DEFINE dead == <<"tombstone", r>> \in facts \/ <<"deleted", r>> \in facts
           row == [content |-> ContentOf(r), retired |-> "manual",
                   gone |-> <<"deleted", r>> \in facts]
<1>0. /\ r \in recovery.todo \ recovery.facts
      /\ recovery' = [recovery EXCEPT !.facts = @ \cup {r}]
      /\ destroyed' = (destroyed \/ Retire \in facts)
      /\ rows' = IF dead THEN [rows EXCEPT ![r] = row] ELSE rows
      /\ work' = [f \in Fact |->
                     IF f \in facts /\ f[2] \in {0, r} THEN Published(f) ELSE work[f]]
      /\ UNCHANGED <<lineageFence, lineageHeld, nextRevision, ops, blobs, commits, facts,
                     writers, drains>>
  BY DEF RecoverFacts
<1>1. /\ <<r, ContentOf(r)>> \in commits /\ rows[r] = NoRevision
      /\ work[Tombstone(r)] = "none"
  BY <1>0, ContentIsCommitted DEF RevisionsInv, RebuildIsOrdered, FactsAreRows, Retired
<1>2. row \in RevisionRow /\ row.content = ContentOf(r) /\ row.retired = "manual"
  <2>1. (<<"deleted", r>> \in facts) \in BOOLEAN
    OBVIOUS
  <2>2. row \in RevisionRow
    BY <1>0, <2>1, ContentIsCommitted, Zenon DEF RevisionRow
  <2>3. QED
    BY <2>2
<1>3. dead => Retired(r)' /\ rows'[r].content = ContentOf(r)
  <2> HIDE DEF row, dead
  <2>1. dead => rows'[r] = row
    BY <1>0 DEF RevisionsInv, RevisionsTypeOK
  <2>2. QED
    BY <1>2, <2>1, NoRowsAssumption DEF Retired
<1>4. /\ rows' \in [Revision -> RevisionRow \cup {NoRevision}]
      /\ \A q \in Revision \ {r} : rows'[q] = rows[q]
      /\ ~dead => rows'[r] = NoRevision
  <2> HIDE DEF row, dead
  <2>1. QED
    BY <1>0, <1>1, <1>2 DEF RevisionsInv, RevisionsTypeOK
<1>5. Tombstone(r) \in facts => dead
  BY DEF Tombstone
<1> HIDE DEF row, dead
<1>6. \A q \in Revision : Retired(q) => Retired(q)'
  BY <1>1, <1>4 DEF Retired
<1>7. /\ work' \in [Fact -> {"none", "pending", "published", "done"}]
      /\ \A f \in Fact : work'[f] # work[f] => f \in facts /\ f[2] \in {0, r}
      /\ \A f \in Fact : work[f] # "none" => work'[f] # "none"
  BY <1>0 DEF RevisionsInv, RevisionsTypeOK, Published
<1>8. \A q \in Revision : work'[Tombstone(q)] # work[Tombstone(q)] =>
          q = r /\ Tombstone(r) \in facts
  <2> SUFFICES ASSUME NEW q \in Revision, work'[Tombstone(q)] # work[Tombstone(q)]
               PROVE  q = r /\ Tombstone(r) \in facts
    OBVIOUS
  <2>1. Tombstone(q) \in facts /\ Tombstone(q)[2] \in {0, r}
    BY <1>7, FactsDiffer
  <2>2. Tombstone(q)[2] = q /\ q # 0
    BY DEF Tombstone, Revision
  <2>3. QED
    BY <2>1, <2>2
<1>9. /\ recovery'.todo = recovery.todo /\ recovery'.facts = recovery.facts \cup {r}
      /\ recovery' \in [todo : SUBSET Revision, facts : SUBSET Revision, lost : BOOLEAN]
  <2>1. recovery \in [todo : SUBSET Revision, facts : SUBSET Revision, lost : BOOLEAN]
    BY Zenon DEF RevisionsInv, RevisionsTypeOK
  <2>2. recovery'.todo = recovery.todo /\ recovery'.facts = recovery.facts \cup {r}
    BY <1>0, <2>1
  <2>3. recovery.facts \cup {r} \in SUBSET Revision
    BY <2>1
  <2>4. recovery' \in [todo : SUBSET Revision, facts : SUBSET Revision, lost : BOOLEAN]
    BY <1>0, <2>1, <2>3, Zenon
  <2>5. QED
    BY <2>2, <2>4
<1>10. RevisionsTypeOK'
  <2>1. destroyed' \in BOOLEAN
    BY <1>0, Zenon
  <2>2. QED
    BY <1>0, <1>4, <1>7, <1>9, <2>1 DEF RevisionsInv, RevisionsTypeOK
<1>11. Pending = {} /\ Pending' = {}
  <2>1. Pending = {}
    BY <1>0 DEF RevisionsInv, OneWriteAtATime, Recovered
  <2>2. QED
    BY <1>0, <2>1 DEF Pending, InState
<1>12. OneWriteAtATime' /\ BytesComeFirst' /\ CommitsAreUnique'
  BY <1>0, <1>9, <1>11 DEF RevisionsInv, OneWriteAtATime, BytesComeFirst, CommitsAreUnique,
    InState, Bytes
<1>13. RowsAreBacked'
  <2>1. \A q \in Revision : rows'[q] # NoRevision => <<q, rows'[q].content>> \in commits
    BY <1>1, <1>3, <1>4 DEF RevisionsInv, RowsAreBacked
  <2>2. \A q \in Revision : Usable(q)' => q # r /\ Usable(q)
    BY <1>3, <1>4 DEF Usable, Retired
  <2>3. QED
    BY <1>0, <1>4, <2>1, <2>2 DEF RevisionsInv, RowsAreBacked
<1>14. FactsAreRows'
  <2>1. \A q \in Revision : work'[Tombstone(q)] # "none" => Retired(q)'
    BY <1>3, <1>5, <1>6, <1>8 DEF RevisionsInv, FactsAreRows
  <2>2. \A q \in Revision : work'[Tombstone(q)] \in {"published", "done"} => Tombstone(q) \in facts
    BY <1>8 DEF RevisionsInv, FactsAreRows
  <2>3. \A q \in Revision : work[Tombstone(q)] # "none" => work'[Tombstone(q)] # "none"
    BY <1>7, FactsDiffer
  <2>4. work'[Retire] # "none" => destroyed'
    BY <1>0, <1>7, FactsDiffer DEF RevisionsInv, FactsAreRows
  <2>5. QED
    BY <1>0, <2>1, <2>2, <2>3, <2>4 DEF RevisionsInv, FactsAreRows
<1>15. RebuildIsOrdered'
  <2>1. \A q \in recovery'.todo : \E b \in commits' : b[1] = q
    BY <1>0, <1>9 DEF RevisionsInv, RebuildIsOrdered
  <2>2. \A q \in recovery'.todo \ recovery'.facts : rows'[q] = NoRevision
    BY <1>4, <1>9 DEF RevisionsInv, RevisionsTypeOK, RebuildIsOrdered
  <2>3. \A q \in Revision : Tombstone(q) \in facts =>
            q \in recovery'.todo \ recovery'.facts \/ Retired(q)'
    BY <1>3, <1>5, <1>6, <1>9 DEF RevisionsInv, RebuildIsOrdered
  <2>4. Retire \in facts => destroyed'
    BY <1>0, Zenon
  <2>5. QED
    BY <1>0, <2>1, <2>2, <2>3, <2>4 DEF RebuildIsOrdered
<1>16. QED
  BY <1>10, <1>12, <1>13, <1>14, <1>15 DEF RevisionsInv

LEMMA ReconcileKeeps == \A r \in Revision : RevisionsInv /\ ReconcileCommit(r) => RevisionsInv'
<1> SUFFICES ASSUME NEW r \in Revision, RevisionsInv, ReconcileCommit(r) PROVE RevisionsInv'
  OBVIOUS
<1> DEFINE row == [content |-> ContentOf(r), retired |-> "no", gone |-> FALSE]
<1>0. /\ r \in recovery.todo /\ r \in recovery.facts
      /\ rows' = [rows EXCEPT ![r] = RowPublished(r, ContentOf(r))]
      /\ nextRevision' = IF nextRevision > r THEN nextRevision ELSE r + 1
      /\ recovery' = [recovery EXCEPT !.todo = @ \ {r}]
      /\ UNCHANGED <<lineageFence, lineageHeld, destroyed, ops, work, blobs, commits, facts,
                     writers, drains>>
  BY DEF ReconcileCommit
<1>1. <<r, ContentOf(r)>> \in commits /\ ContentOf(r) \in Content
  BY <1>0, ContentIsCommitted
<1>2. row \in RevisionRow /\ row.content = ContentOf(r) /\ row.retired = "no"
  <2>1. row \in RevisionRow
    BY <1>1, Zenon DEF RevisionRow
  <2>2. QED
    BY <2>1
<1>3. RowPublished(r, ContentOf(r)) = IF rows[r] # NoRevision THEN rows[r] ELSE row
  BY DEF RowPublished
<1> HIDE DEF row
<1>4. /\ rows' \in [Revision -> RevisionRow \cup {NoRevision}]
      /\ \A q \in Revision \ {r} : rows'[q] = rows[q]
      /\ rows[r] # NoRevision => rows'[r] = rows[r]
      /\ rows[r] = NoRevision => rows'[r] = row
  BY <1>0, <1>2, <1>3 DEF RevisionsInv, RevisionsTypeOK
<1>5. \A q \in Revision : Retired(q) => Retired(q)'
  BY <1>4 DEF Retired
<1>6. /\ nextRevision' \in 1 .. (MaxRevision + 1)
      /\ nextRevision <= nextRevision' /\ r < nextRevision'
      /\ nextRevision \in Nat
  BY <1>0, RevisionsAssumption DEF RevisionsInv, RevisionsTypeOK, Revision
<1>7. /\ recovery'.todo = recovery.todo \ {r} /\ recovery'.facts = recovery.facts
      /\ recovery' \in [todo : SUBSET Revision, facts : SUBSET Revision, lost : BOOLEAN]
  <2>1. recovery \in [todo : SUBSET Revision, facts : SUBSET Revision, lost : BOOLEAN]
    BY Zenon DEF RevisionsInv, RevisionsTypeOK
  <2>2. recovery'.todo = recovery.todo \ {r} /\ recovery'.facts = recovery.facts
    BY <1>0, <2>1
  <2>3. recovery.todo \ {r} \in SUBSET Revision
    BY <2>1
  <2>4. recovery' \in [todo : SUBSET Revision, facts : SUBSET Revision, lost : BOOLEAN]
    BY <1>0, <2>1, <2>3, Zenon
  <2>5. QED
    BY <2>2, <2>4
<1>8. RevisionsTypeOK'
  BY <1>0, <1>4, <1>6, <1>7 DEF RevisionsInv, RevisionsTypeOK
<1>9. Pending = {} /\ Pending' = {}
  <2>1. Pending = {}
    BY <1>0 DEF RevisionsInv, OneWriteAtATime, Recovered
  <2>2. QED
    BY <1>0, <2>1 DEF Pending, InState
<1>10. OneWriteAtATime' /\ BytesComeFirst'
  BY <1>0, <1>9 DEF RevisionsInv, OneWriteAtATime, BytesComeFirst, InState, Bytes
<1>11. CommitsAreUnique'
  <2>1. \A b \in commits : b[1] \in Nat
    BY RevisionsAssumption DEF RevisionsInv, RevisionsTypeOK, Revision
  <2>2. \A b \in commits : b[1] \in recovery'.todo \/ b[1] < nextRevision'
    BY <1>6, <1>7, <2>1 DEF RevisionsInv, CommitsAreUnique
  <2>3. QED
    BY <1>0, <1>9, <2>2 DEF RevisionsInv, CommitsAreUnique
<1>12. RowsAreBacked'
  <2>1. rows[r] = NoRevision => Tombstone(r) \notin facts
    BY <1>0 DEF RevisionsInv, RebuildIsOrdered, Retired
  <2>2. rows[r] = NoRevision => <<r, ContentOf(r)>> \in blobs
    <3>1. <<r, ContentOf(r)>>[1] = r
      OBVIOUS
    <3>2. QED
      BY <1>1, <2>1, <3>1 DEF RevisionsInv, RowsAreBacked
  <2>3. \A q \in Revision : rows'[q] # NoRevision => <<q, rows'[q].content>> \in commits
    BY <1>1, <1>2, <1>4 DEF RevisionsInv, RowsAreBacked
  <2>4. \A q \in Revision : Usable(q)' => <<q, rows'[q].content>> \in blobs
    BY <1>2, <1>4, <2>2 DEF RevisionsInv, RowsAreBacked, Usable
  <2>5. QED
    BY <1>0, <2>3, <2>4 DEF RevisionsInv, RowsAreBacked
<1>13. FactsAreRows'
  BY <1>0, <1>5 DEF RevisionsInv, FactsAreRows
<1>14. RebuildIsOrdered'
  <2>1. \A q \in recovery'.todo : q \in Revision /\ q # r
    BY <1>7, <1>8 DEF RevisionsTypeOK
  <2>2. Retire \in facts => destroyed
    BY <1>0 DEF RevisionsInv, RebuildIsOrdered
  <2>3. \A q \in recovery'.todo : \E b \in commits' : b[1] = q
    BY <1>0, <1>7 DEF RevisionsInv, RebuildIsOrdered
  <2>4. \A q \in recovery'.todo \ recovery'.facts : rows'[q] = NoRevision
    BY <1>4, <1>7, <2>1 DEF RevisionsInv, RebuildIsOrdered
  <2>5. \A q \in Revision : Tombstone(q) \in facts =>
            q \in recovery'.todo \ recovery'.facts \/ Retired(q)'
    BY <1>0, <1>5, <1>7 DEF RevisionsInv, RebuildIsOrdered
  <2>6. QED
    BY <1>0, <2>2, <2>3, <2>4, <2>5 DEF RebuildIsOrdered
<1>15. QED
  BY <1>8, <1>10, <1>11, <1>12, <1>13, <1>14 DEF RevisionsInv

-----------------------------------------------------------------------------
(* The theorems.                                                           *)

\* The part of every operation, revision, record and pass in the next state.
LEMMA RevisionsStep == RevisionsInv /\ [RevisionsNext]_revisionVars => RevisionsInv'
<1> SUFFICES ASSUME RevisionsInv, [RevisionsNext]_revisionVars PROVE RevisionsInv'
  OBVIOUS
<1>1. CASE TakeLineage \/ LoseLineage
  BY <1>1, LineageKeeps
<1>2. CASE Destroy
  BY <1>2, DestroyKeeps
<1>3. CASE LoseDatabase
  BY <1>3, LossKeeps
<1>4. ASSUME NEW o \in Op, NEW c \in Content, NEW restore \in BOOLEAN, Reserve(o, c, restore)
      PROVE  RevisionsInv'
  BY <1>4, ReserveKeeps
<1>5. ASSUME NEW o \in Op,
             RetryWrite(o) \/ PutBytes(o) \/ Accept(o) \/ WriterDies(o)
             \/ PutCommitRecord(o) \/ Publish(o)
      PROVE  RevisionsInv'
  BY <1>5, RetryKeeps, PutKeeps, AcceptKeeps, WriterDeathKeeps, CommitRecordKeeps, PublishKeeps
<1>6. ASSUME NEW r \in Revision, DeleteRevision(r) \/ Expire(r) \/ RetireMember(r)
      PROVE  RevisionsInv'
  BY <1>6, RetireKeeps
<1>7. ASSUME NEW r \in Revision, RecoverFacts(r) \/ ReconcileCommit(r)
      PROVE  RevisionsInv'
  BY <1>7, RecoverKeeps, ReconcileKeeps
<1>8. ASSUME NEW f \in Fact, WriteFact(f) \/ MarkFact(f)
      PROVE  RevisionsInv'
  BY <1>8, WriteFactKeeps, MarkFactKeeps
<1>9. ASSUME NEW r \in Revision, NEW d \in Drain, StartDrain(d, r)
      PROVE  RevisionsInv'
  BY <1>9, StartDrainKeeps
<1>10. ASSUME NEW d \in Drain,
              DeleteBytes(d) \/ QueueConfirmation(d) \/ FinishDrain(d) \/ DrainDies(d)
       PROVE  RevisionsInv'
  BY <1>10, DeleteBytesKeeps, ConfirmationKeeps, FinishDrainKeeps, DrainDeathKeeps
<1>11. CASE UNCHANGED revisionVars
  <2>1. UNCHANGED <<revisionDb, commits, facts, drains, recovery>> /\ UNCHANGED <<blobs, writers>>
    BY <1>11 DEF revisionVars
  <2>2. QED
    BY <2>1, WritersKeep DEF RevisionsInv, RevisionsTypeOK, BytesComeFirst
<1>12. QED
  BY <1>1, <1>2, <1>3, <1>4, <1>5, <1>6, <1>7, <1>8, <1>9, <1>10, <1>11 DEF RevisionsNext

\* What the argument carries along (publish, accept, drainLifecycle,
\* recoverArtifactLifecycle).
THEOREM RevisionsHold == RevisionsSpec => []RevisionsInv
<1>1. RevisionsInit => RevisionsInv
  BY RevisionsStart
<1>2. RevisionsInv /\ [RevisionsNext]_revisionVars => RevisionsInv'
  BY RevisionsStep
<1>3. QED
  BY <1>1, <1>2, PTL DEF RevisionsSpec

\* A revision a reader can open has its bytes in R2, for any number of
\* revisions, writers and passes that die, and after the database was rebuilt
\* (publish, drainLifecycle).
THEOREM ContentIsKept == RevisionsSpec => []AvailableRevisionsHaveContent
<1>1. RevisionsInv => AvailableRevisionsHaveContent
  BY DEF RevisionsInv, RowsAreBacked, AvailableRevisionsHaveContent, Available
<1>2. QED
  BY <1>1, RevisionsHold, PTL

\* What R2 records as retired is never available again (recoverArtifactLifecycle).
THEOREM RetirementIsKept == RevisionsSpec => []RetiredStaysRetired
<1>1. RevisionsInv => RetiredStaysRetired
  <2> SUFFICES ASSUME RevisionsInv, Recovered PROVE RetiredStaysRetired
    BY DEF RetiredStaysRetired
  <2>1. recovery.todo = {}
    BY DEF Recovered
  <2>2. \A r \in Revision : Tombstone(r) \in facts => ~Available(r)
    BY <2>1 DEF RevisionsInv, RebuildIsOrdered, Retired, Available, Usable
  <2>3. Retire \in facts => destroyed
    BY <2>1 DEF RevisionsInv, RebuildIsOrdered
  <2>4. QED
    BY <2>2, <2>3 DEF RetiredStaysRetired, Tombstone
<1>2. QED
  BY <1>1, RevisionsHold, PTL

\* Every published revision has a commit record in R2 (publish, reconcile).
THEOREM RecordsAreKept == RevisionsSpec => []RevisionsAreRecoverable
<1>1. RevisionsInv => RevisionsAreRecoverable
  <2> SUFFICES ASSUME RevisionsInv, NEW r \in Revision, rows[r] # NoRevision
               PROVE  \E b \in commits : b[1] = r /\ b[2] = rows[r].content
    BY DEF RevisionsAreRecoverable
  <2>1. <<r, rows[r].content>> \in commits
    BY DEF RevisionsInv, RowsAreBacked
  <2>2. QED
    BY <2>1
<1>2. QED
  BY <1>1, RevisionsHold, PTL
=============================================================================
