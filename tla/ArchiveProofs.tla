---------------------------- MODULE ArchiveProofs ----------------------------
(***************************************************************************)
(* Theorems about what is copied out of a project and comes back: module   *)
(* JournalArchive, for every number of cycles, every assignment of months  *)
(* and every limit of the table; module Restore, for every set of tasks    *)
(* and clients and every bound, with any number of interrupted, resumed    *)
(* and rolled back imports.                                                *)
(*                                                                         *)
(* The journal: what a cycle has read is an interval of the history that   *)
(* begins no later than the first event the table still holds, and what an *)
(* object holds is determined by its name.  So an object can be written    *)
(* again, by whichever cycle, only with the same rows, and a confirmation  *)
(* leaves no gap below the watermark.                                      *)
(*                                                                         *)
(* The restore: while the tables are replaced, what tenures may still hold *)
(* is below the larger of the fences in the tables and the fences the lock *)
(* has saved; once the tables are cleared it is below the saved ones       *)
(* alone, and each preparation saves the larger of the two again.  While   *)
(* nobody rolls an import back, what one client verified stays the archive *)
(* until it is opened: a section without a receipt is empty, so no chunk   *)
(* that is still inserted adds a row to verified tables.                   *)
(***************************************************************************)
EXTENDS JournalArchive, Restore, FiniteSetTheorems, WellFoundedInduction, TLAPS

-----------------------------------------------------------------------------
(* The journal and its archive.                                            *)

InObject(s) == \E o \in objects : s \in o.rows

\* The rows of one month in an interval, under the name of their object.
Segment(month, last, first) ==
    [key |-> <<month, last, first>>,
     rows |-> {s \in first .. last : MonthOf[s] = month}]

CountersOK ==
    /\ lastSeq \in Nat /\ lastSeq <= MaxSeq
    /\ oldSeq \in Nat /\ oldSeq <= lastSeq
    /\ watermark \in Nat /\ watermark <= lastSeq

CyclesReadIntervals ==
    /\ cycles \in [Cycle -> [running : BOOLEAN, batch : SUBSET Nat, todo : SUBSET Nat]]
    /\ \A c \in Cycle :
          /\ cycles[c].todo \subseteq cycles[c].batch
          /\ IF cycles[c].running
             THEN \E first, last \in 1 .. lastSeq :
                     /\ first <= last /\ first <= watermark + 1
                     /\ cycles[c].batch = first .. last
             ELSE cycles[c].batch = {}

ObjectsAreSegments ==
    \A o \in objects : \E month, last, first \in Nat : o = Segment(month, last, first)

\* What a cycle has written and what lies below the watermark is in R2.
WrittenIsStored ==
    /\ \A c \in Cycle : \A s \in cycles[c].batch \ cycles[c].todo : InObject(s)
    /\ \A s \in 1 .. watermark : InObject(s)

ArchiveInv ==
    /\ CountersOK
    /\ WatermarkSplitsHistory
    /\ CyclesReadIntervals
    /\ ObjectsAreSegments
    /\ WrittenIsStored

-----------------------------------------------------------------------------
(* First and Last.                                                         *)

\* A set of numbers that is not empty has a smallest one.
LEMMA SmallestExists ==
    ASSUME NEW T \in SUBSET Nat, T # {}
    PROVE  \E x \in T : \A y \in T : x <= y
<1> DEFINE R == {ss \in Nat \X Nat : ss[1] < ss[2]}
<1>1. IsWellFoundedOn(R, Nat)
  BY NatLessThanWellFounded DEF OpToRel
<1> HIDE DEF R
<1>2. PICK x \in T : \A y \in T : ~(<<y, x>> \in R)
  BY <1>1, WFMin
<1>3. \A y \in T : ~(y < x)
  <2> SUFFICES ASSUME NEW y \in T, y < x PROVE FALSE
    OBVIOUS
  <2>1. <<y, x>> \in Nat \X Nat /\ <<y, x>>[1] = y /\ <<y, x>>[2] = x
    OBVIOUS
  <2>2. <<y, x>> \in R
    BY <2>1 DEF R
  <2>3. QED
    BY <1>2, <2>2
<1>4. QED
  BY <1>3

\* A bounded one has a largest one.
LEMMA LargestExists ==
    ASSUME NEW n \in Nat, NEW T \in SUBSET (1 .. n), T # {}
    PROVE  \E x \in T : \A y \in T : y <= x
<1> DEFINE U == {m \in Nat : m <= n /\ n - m \in T}
<1>1. \A y \in T : n - y \in Nat /\ n - y <= n /\ n - (n - y) = y
  OBVIOUS
<1>2. \A y \in T : n - y \in U
  BY <1>1
<1>3. U \in SUBSET Nat /\ U # {}
  BY <1>2
<1> HIDE DEF U
<1>4. PICK u \in U : \A v \in U : u <= v
  BY <1>3, SmallestExists
<1>5. u \in Nat /\ n - u \in T
  BY DEF U
<1>6. \A y \in T : y <= n - u
  BY <1>2, <1>4, <1>5
<1>7. QED
  BY <1>5, <1>6

LEMMA FirstOf ==
    ASSUME NEW T \in SUBSET Nat, T # {}
    PROVE  First(T) \in T /\ \A y \in T : First(T) <= y
  BY SmallestExists DEF First

LEMMA LastOf ==
    ASSUME NEW n \in Nat, NEW T \in SUBSET (1 .. n), T # {}
    PROVE  Last(T) \in T /\ \A y \in T : y <= Last(T)
  BY LargestExists DEF Last

\* The last element of an interval is its upper end.
LEMMA LastOfInterval ==
    ASSUME NEW n \in Nat, NEW first \in 1 .. n, NEW last \in 1 .. n, first <= last
    PROVE  Last(first .. last) = last
<1>1. first .. last \in SUBSET (1 .. n) /\ last \in first .. last
  OBVIOUS
<1>2. Last(first .. last) \in first .. last /\ last <= Last(first .. last)
  BY <1>1, LastOf
<1>3. QED
  BY <1>2

-----------------------------------------------------------------------------
(* The invariant.                                                          *)

LEMMA ArchiveInit == JournalInit => ArchiveInv
<1> SUFFICES ASSUME JournalInit PROVE ArchiveInv
  OBVIOUS
<1> USE JournalAssumption DEF JournalInit
<1>1. CountersOK
  BY DEF CountersOK
<1>2. WatermarkSplitsHistory
  BY DEF WatermarkSplitsHistory
<1>3. CyclesReadIntervals
  BY DEF CyclesReadIntervals, IdleCycle
<1>4. ObjectsAreSegments
  BY DEF ObjectsAreSegments
<1>5. WrittenIsStored
  BY DEF WrittenIsStored, IdleCycle
<1>6. QED
  BY <1>1, <1>2, <1>3, <1>4, <1>5 DEF ArchiveInv

\* What a cycle reads is the beginning of the table.
LEMMA ArchivableIsInterval ==
    ASSUME ArchiveInv, Archivable # {}
    PROVE  \E last \in 1 .. lastSeq :
               watermark + 1 <= last /\ Archivable = (watermark + 1) .. last
<1>1. /\ lastSeq \in Nat /\ watermark \in Nat /\ watermark <= lastSeq
      /\ journal = (watermark + 1) .. lastSeq
  BY DEF ArchiveInv, CountersOK, WatermarkSplitsHistory
<1>2. Archivable \in SUBSET (1 .. lastSeq)
  BY <1>1 DEF Archivable
<1> DEFINE last == Last(Archivable)
<1>3. last \in Archivable /\ \A s \in Archivable : s <= last
  BY <1>1, <1>2, LastOf
<1> HIDE DEF last
<1>4. IsFiniteSet(journal) /\ Cardinality(journal) \in Nat
  BY <1>1, FS_Interval, FS_CardinalityType
<1>5. ASSUME NEW s \in journal, s <= last
      PROVE  s \in Archivable
  <2> DEFINE upTo(n) == {r \in journal : r <= n}
  <2>1. /\ last \in journal /\ last <= oldSeq
        /\ Cardinality(journal) > MaxRows =>
               Cardinality(upTo(last)) <= Cardinality(journal) - MaxRows
    BY <1>3 DEF Archivable
  <2>2. s <= oldSeq
    BY <1>1, <1>5, <2>1 DEF ArchiveInv, CountersOK
  <2>3. upTo(s) \subseteq upTo(last) /\ upTo(last) \subseteq journal
    BY <1>1, <1>5, <2>1
  <2>4. IsFiniteSet(upTo(last))
    BY <1>4, <2>3, FS_Subset
  <2>5. Cardinality(upTo(s)) <= Cardinality(upTo(last))
    BY <2>3, <2>4, FS_Subset
  <2>6. Cardinality(upTo(s)) \in Nat /\ Cardinality(upTo(last)) \in Nat
    BY <2>3, <2>4, FS_Subset, FS_CardinalityType
  <2> HIDE DEF upTo
  <2>7. Cardinality(journal) > MaxRows =>
            Cardinality(upTo(s)) <= Cardinality(journal) - MaxRows
    BY <1>4, <2>1, <2>5, <2>6, JournalAssumption
  <2>8. QED
    BY <1>5, <2>2, <2>7 DEF Archivable, upTo
<1>6. last \in 1 .. lastSeq /\ watermark + 1 <= last
  BY <1>1, <1>2, <1>3 DEF Archivable
<1>7. Archivable = (watermark + 1) .. last
  <2>1. ASSUME NEW s \in Archivable PROVE s \in (watermark + 1) .. last
    <3>1. s \in (watermark + 1) .. lastSeq
      BY <1>1 DEF Archivable
    <3>2. QED
      BY <1>1, <1>3, <1>6, <3>1
  <2>2. ASSUME NEW s \in (watermark + 1) .. last PROVE s \in Archivable
    BY <1>1, <1>5, <1>6, <2>2
  <2>3. QED
    BY <2>1, <2>2
<1>8. QED
  BY <1>6, <1>7

\* Writing an object, over an old one or not, leaves every stored event stored.
LEMMA ObjectsGrow ==
    ASSUME ArchiveInv, NEW c \in Cycle, WriteObject(c)
    PROVE  /\ \A s : InObject(s) => InObject(s)'
           /\ \A s \in cycles[c].batch \ cycles'[c].todo : InObject(s)'
           /\ ObjectsAreSegments'
<1> DEFINE month == MonthOf[First(cycles[c].todo)]
           rows == {s \in cycles[c].batch : MonthOf[s] = month}
<1>1. /\ cycles[c].todo # {} /\ cycles[c].todo \subseteq cycles[c].batch
      /\ cycles[c].todo \in SUBSET Nat
      /\ cycles \in [Cycle -> [running : BOOLEAN, batch : SUBSET Nat, todo : SUBSET Nat]]
  BY DEF WriteObject, ArchiveInv, CyclesReadIntervals
<1>2. PICK first, last \in 1 .. lastSeq :
          first <= last /\ cycles[c].batch = first .. last
  BY <1>1 DEF ArchiveInv, CyclesReadIntervals
<1>3. lastSeq \in Nat /\ lastSeq <= MaxSeq /\ MaxSeq \in Nat
  BY JournalAssumption DEF ArchiveInv, CountersOK
<1>4. First(cycles[c].todo) \in cycles[c].todo
  BY <1>1, FirstOf
<1>5. month \in Nat /\ First(cycles[c].todo) \in rows
  BY <1>1, <1>2, <1>3, <1>4, JournalAssumption
<1>6. rows \in SUBSET Nat /\ rows # {}
  BY <1>2, <1>3, <1>5
<1> DEFINE start == First(rows)
<1>7. start \in rows /\ \A s \in rows : start <= s
  BY <1>6, FirstOf
<1>8. Last(cycles[c].batch) = last
  BY <1>2, <1>3, LastOfInterval
<1> DEFINE new == [key |-> <<month, last, start>>, rows |-> rows]
<1>9. objects' = {o \in objects : o.key # new.key} \cup {new}
  BY <1>8 DEF WriteObject, ObjectKey
<1>10. cycles'[c].todo = cycles[c].todo \ rows
  BY <1>1 DEF WriteObject
<1> HIDE DEF month, start
<1>11. start \in Nat /\ last \in Nat /\ month \in Nat
  BY <1>2, <1>3, <1>5, <1>6, <1>7
<1>12. rows = {s \in start .. last : MonthOf[s] = month}
  BY <1>2, <1>3, <1>7, <1>11
<1>13. new = Segment(month, last, start)
  BY <1>12 DEF Segment
<1> HIDE DEF rows
<1>14. ASSUME NEW o \in objects, o.key = new.key
       PROVE  o.rows = rows
  <2>1. PICK m, l, f \in Nat : o = Segment(m, l, f)
    BY DEF ArchiveInv, ObjectsAreSegments
  <2>2. <<m, l, f>> = <<month, last, start>>
    BY <1>14, <2>1 DEF Segment
  <2>3. m = month /\ l = last /\ f = start
    BY <2>2
  <2>4. QED
    BY <1>12, <2>1, <2>3 DEF Segment
<1>15. ASSUME NEW s, InObject(s) PROVE InObject(s)'
  <2>1. PICK o \in objects : s \in o.rows
    BY <1>15 DEF InObject
  <2>2. CASE o.key = new.key
    BY <1>9, <1>14, <2>1, <2>2 DEF InObject
  <2>3. CASE o.key # new.key
    BY <1>9, <2>1, <2>3 DEF InObject
  <2>4. QED
    BY <2>2, <2>3
<1>16. ASSUME NEW s \in cycles[c].batch \ cycles'[c].todo PROVE InObject(s)'
  <2>1. CASE s \in rows
    <3>1. new \in objects' /\ new.rows = rows
      BY <1>9
    <3> HIDE DEF new
    <3>2. QED
      BY <2>1, <3>1 DEF InObject
  <2>2. CASE s \notin rows
    <3>1. s \in cycles[c].batch \ cycles[c].todo
      BY <1>10, <1>16, <2>2
    <3>2. QED
      BY <1>15, <3>1 DEF ArchiveInv, WrittenIsStored
  <2>3. QED
    BY <2>1, <2>2
<1>17. ObjectsAreSegments'
  BY <1>9, <1>11, <1>13 DEF ArchiveInv, ObjectsAreSegments, Segment
<1>18. QED
  BY <1>15, <1>16, <1>17

-----------------------------------------------------------------------------
(* Each step keeps the invariant.                                          *)

LEMMA AppendKeeps == ArchiveInv /\ AppendEvent => ArchiveInv'
<1> SUFFICES ASSUME ArchiveInv, AppendEvent PROVE ArchiveInv'
  OBVIOUS
<1>1. /\ lastSeq' = lastSeq + 1 /\ lastSeq < MaxSeq
      /\ UNCHANGED <<oldSeq, watermark, objects, cycles>>
  BY DEF AppendEvent
<1>2. CountersOK'
  BY <1>1, JournalAssumption DEF ArchiveInv, CountersOK
<1>3. WatermarkSplitsHistory'
  BY <1>1 DEF AppendEvent, ArchiveInv, CountersOK, WatermarkSplitsHistory
<1>4. CyclesReadIntervals'
  <2>1. 1 .. lastSeq \subseteq 1 .. lastSeq'
    BY <1>1 DEF ArchiveInv, CountersOK
  <2>2. QED
    BY <1>1, <2>1 DEF ArchiveInv, CyclesReadIntervals
<1>5. ObjectsAreSegments' /\ WrittenIsStored'
  BY <1>1 DEF ArchiveInv, ObjectsAreSegments, WrittenIsStored, InObject
<1>6. QED
  BY <1>2, <1>3, <1>4, <1>5 DEF ArchiveInv

LEMMA AgeKeeps == ArchiveInv /\ EventsAge => ArchiveInv'
  BY DEF EventsAge, ArchiveInv, CountersOK, WatermarkSplitsHistory,
         CyclesReadIntervals, ObjectsAreSegments, WrittenIsStored, InObject

LEMMA ReadKeeps == \A c \in Cycle : ArchiveInv /\ ReadBatch(c) => ArchiveInv'
<1> SUFFICES ASSUME NEW c \in Cycle, ArchiveInv, ReadBatch(c) PROVE ArchiveInv'
  OBVIOUS
<1>1. /\ UNCHANGED <<journal, lastSeq, oldSeq, watermark, objects>>
      /\ cycles' = [cycles EXCEPT ![c] =
                       [running |-> TRUE, batch |-> Archivable, todo |-> Archivable]]
  BY DEF ReadBatch
<1>2. PICK last \in 1 .. lastSeq :
          watermark + 1 <= last /\ Archivable = (watermark + 1) .. last
  BY ArchivableIsInterval DEF ReadBatch
<1>3. CountersOK' /\ WatermarkSplitsHistory' /\ ObjectsAreSegments'
  BY <1>1 DEF ArchiveInv, CountersOK, WatermarkSplitsHistory, ObjectsAreSegments
<1>4. CyclesReadIntervals'
  <2>1. watermark \in Nat /\ lastSeq \in Nat /\ watermark + 1 \in 1 .. lastSeq
    BY <1>2 DEF ArchiveInv, CountersOK
  <2>2. Archivable \in SUBSET Nat
    BY <1>2, <2>1
  <2>3. QED
    BY <1>1, <1>2, <2>1, <2>2 DEF ArchiveInv, CyclesReadIntervals
<1>5. WrittenIsStored'
  BY <1>1 DEF ArchiveInv, CyclesReadIntervals, WrittenIsStored, InObject
<1>6. QED
  BY <1>3, <1>4, <1>5 DEF ArchiveInv

LEMMA WriteKeeps == \A c \in Cycle : ArchiveInv /\ WriteObject(c) => ArchiveInv'
<1> SUFFICES ASSUME NEW c \in Cycle, ArchiveInv, WriteObject(c) PROVE ArchiveInv'
  OBVIOUS
<1>1. UNCHANGED <<journal, lastSeq, oldSeq, watermark>>
  BY DEF WriteObject
<1>2. PICK rows : cycles' = [cycles EXCEPT ![c].todo = @ \ rows]
  BY DEF WriteObject
<1>3. cycles \in [Cycle -> [running : BOOLEAN, batch : SUBSET Nat, todo : SUBSET Nat]]
  BY DEF ArchiveInv, CyclesReadIntervals
<1>4. /\ \A d \in Cycle : /\ cycles'[d].running = cycles[d].running
                          /\ cycles'[d].batch = cycles[d].batch
                          /\ cycles'[d].todo \subseteq cycles[d].todo
                          /\ d # c => cycles'[d] = cycles[d]
      /\ cycles' \in [Cycle -> [running : BOOLEAN, batch : SUBSET Nat, todo : SUBSET Nat]]
  BY <1>2, <1>3
<1>5. CountersOK' /\ WatermarkSplitsHistory'
  BY <1>1 DEF ArchiveInv, CountersOK, WatermarkSplitsHistory
<1>6. CyclesReadIntervals'
  BY <1>1, <1>4 DEF ArchiveInv, CyclesReadIntervals
<1>7. WrittenIsStored'
  <2>1. \A d \in Cycle : \A s \in cycles'[d].batch \ cycles'[d].todo : InObject(s)'
    <3> SUFFICES ASSUME NEW d \in Cycle, NEW s \in cycles'[d].batch \ cycles'[d].todo
                 PROVE  InObject(s)'
      OBVIOUS
    <3>1. CASE d = c
      BY <1>4, <3>1, ObjectsGrow
    <3>2. CASE d # c
      BY <1>4, <3>2, ObjectsGrow DEF ArchiveInv, WrittenIsStored
    <3>3. QED
      BY <3>1, <3>2
  <2>2. \A s \in 1 .. watermark' : InObject(s)'
    BY <1>1, ObjectsGrow DEF ArchiveInv, WrittenIsStored
  <2>3. QED
    BY <2>1, <2>2 DEF WrittenIsStored
<1>8. QED
  BY <1>5, <1>6, <1>7, ObjectsGrow DEF ArchiveInv

LEMMA ConfirmKeeps == \A c \in Cycle : ArchiveInv /\ ConfirmBatch(c) => ArchiveInv'
<1> SUFFICES ASSUME NEW c \in Cycle, ArchiveInv, ConfirmBatch(c) PROVE ArchiveInv'
  OBVIOUS
<1>1. PICK first, last \in 1 .. lastSeq :
          first <= last /\ first <= watermark + 1 /\ cycles[c].batch = first .. last
  BY DEF ConfirmBatch, ArchiveInv, CyclesReadIntervals
<1>2. lastSeq \in Nat /\ watermark \in Nat /\ watermark <= lastSeq
  BY DEF ArchiveInv, CountersOK
<1>3. Last(cycles[c].batch) = last
  BY <1>1, <1>2, LastOfInterval
<1>4. /\ watermark' = IF watermark > last THEN watermark ELSE last
      /\ journal' = {s \in journal : s > last}
      /\ cycles' = [cycles EXCEPT ![c] = IdleCycle]
      /\ UNCHANGED <<lastSeq, oldSeq, objects>>
  BY <1>3 DEF ConfirmBatch, Advanced
<1>5. watermark' \in Nat /\ watermark' <= lastSeq /\ watermark <= watermark'
  BY <1>1, <1>2, <1>4
<1>6. CountersOK' /\ ObjectsAreSegments'
  BY <1>4, <1>5 DEF ArchiveInv, CountersOK, ObjectsAreSegments
<1>7. WatermarkSplitsHistory'
  BY <1>1, <1>2, <1>4 DEF ArchiveInv, WatermarkSplitsHistory
<1>8. CyclesReadIntervals'
  <2>1. IdleCycle \in [running : BOOLEAN, batch : SUBSET Nat, todo : SUBSET Nat]
    BY DEF IdleCycle
  <2>2. cycles' \in [Cycle -> [running : BOOLEAN, batch : SUBSET Nat, todo : SUBSET Nat]]
    BY <1>4, <2>1 DEF ArchiveInv, CyclesReadIntervals
  <2>3. ASSUME NEW d \in Cycle
        PROVE  /\ cycles'[d].todo \subseteq cycles'[d].batch
               /\ IF cycles'[d].running
                  THEN \E f, l \in 1 .. lastSeq : /\ f <= l /\ f <= watermark' + 1
                                                  /\ cycles'[d].batch = f .. l
                  ELSE cycles'[d].batch = {}
    <3>1. CASE d = c
      BY <1>4, <3>1 DEF IdleCycle, ArchiveInv, CyclesReadIntervals
    <3>2. CASE d # c
      <4>1. cycles'[d] = cycles[d]
        BY <1>4, <3>2 DEF ArchiveInv, CyclesReadIntervals
      <4>2. \A f \in 1 .. lastSeq : f <= watermark + 1 => f <= watermark' + 1
        <5>1. \A w, v \in Nat : w <= v => \A f \in Int : f <= w + 1 => f <= v + 1
          OBVIOUS
        <5>2. \A f \in 1 .. lastSeq : f \in Int
          BY <1>2
        <5>3. QED
          BY <1>2, <1>5, <5>1, <5>2
      <4>3. QED
        BY <4>1, <4>2 DEF ArchiveInv, CyclesReadIntervals
    <3>3. QED
      BY <3>1, <3>2
  <2>4. QED
    BY <1>4, <2>2, <2>3 DEF CyclesReadIntervals
<1>9. WrittenIsStored'
  <2>1. \A s : InObject(s)' <=> InObject(s)
    BY <1>4 DEF InObject
  <2>2. \A d \in Cycle : \A s \in cycles'[d].batch \ cycles'[d].todo : InObject(s)
    BY <1>4 DEF IdleCycle, ArchiveInv, CyclesReadIntervals, WrittenIsStored
  <2>3. \A s \in first .. last : InObject(s)
    BY <1>1 DEF ConfirmBatch, ArchiveInv, WrittenIsStored
  <2>4. \A s \in 1 .. watermark : InObject(s)
    BY DEF ArchiveInv, WrittenIsStored
  <2>5. \A s \in 1 .. watermark' : s \in 1 .. watermark \/ s \in first .. last
    BY <1>1, <1>2, <1>4
  <2>6. \A s \in 1 .. watermark' : InObject(s)
    BY <2>3, <2>4, <2>5
  <2>7. QED
    BY <2>1, <2>2, <2>6 DEF WrittenIsStored
<1>10. QED
  BY <1>6, <1>7, <1>8, <1>9 DEF ArchiveInv

LEMMA AbandonKeeps == \A c \in Cycle : ArchiveInv /\ AbandonBatch(c) => ArchiveInv'
<1> SUFFICES ASSUME NEW c \in Cycle, ArchiveInv, AbandonBatch(c) PROVE ArchiveInv'
  OBVIOUS
<1>1. /\ cycles' = [cycles EXCEPT ![c] = IdleCycle]
      /\ UNCHANGED <<journal, lastSeq, oldSeq, watermark, objects>>
  BY DEF AbandonBatch
<1>2. CountersOK' /\ WatermarkSplitsHistory' /\ ObjectsAreSegments'
  BY <1>1 DEF ArchiveInv, CountersOK, WatermarkSplitsHistory, ObjectsAreSegments
<1>3. CyclesReadIntervals'
  BY <1>1 DEF ArchiveInv, CyclesReadIntervals, IdleCycle
<1>4. WrittenIsStored'
  BY <1>1 DEF ArchiveInv, CyclesReadIntervals, WrittenIsStored, InObject, IdleCycle
<1>5. QED
  BY <1>2, <1>3, <1>4 DEF ArchiveInv

-----------------------------------------------------------------------------
(* The theorems.                                                           *)

\* Reading, writing, confirming and dying, in any order and by any number of
\* cycles, keep the invariant.
THEOREM ArchiveHolds == JournalSpec => []ArchiveInv
<1>1. ArchiveInv /\ [JournalNext]_journalVars => ArchiveInv'
  <2>1. ArchiveInv /\ UNCHANGED journalVars => ArchiveInv'
    BY DEF journalVars, ArchiveInv, CountersOK, WatermarkSplitsHistory,
           CyclesReadIntervals, ObjectsAreSegments, WrittenIsStored, InObject
  <2>2. ArchiveInv /\ JournalNext => ArchiveInv'
    BY AppendKeeps, AgeKeeps, ReadKeeps, WriteKeeps, ConfirmKeeps, AbandonKeeps
       DEF JournalNext
  <2>3. QED
    BY <2>1, <2>2
<1>2. QED
  BY ArchiveInit, <1>1, PTL DEF JournalSpec

\* The table holds exactly the events above the watermark (markArchived).
THEOREM TableFollowsWatermark == JournalSpec => []WatermarkSplitsHistory
<1>1. ArchiveInv => WatermarkSplitsHistory
  BY DEF ArchiveInv
<1>2. QED
  BY ArchiveHolds, <1>1, PTL

\* Every event ever journalled is in the table or in an object in R2
\* (archiveJournal, journalArchiveObjects, markArchived).
THEOREM EventsAreKept == JournalSpec => []NoEventIsLost
<1>1. ArchiveInv => NoEventIsLost
  <2> SUFFICES ASSUME ArchiveInv, NEW s \in 1 .. lastSeq
               PROVE  s \in journal \/ InObject(s)
    BY DEF NoEventIsLost, InObject
  <2>1. s \in 1 .. watermark \/ s \in (watermark + 1) .. lastSeq
    BY DEF ArchiveInv, CountersOK
  <2>2. QED
    BY <2>1 DEF ArchiveInv, WatermarkSplitsHistory, WrittenIsStored
<1>2. QED
  BY ArchiveHolds, <1>1, PTL

-----------------------------------------------------------------------------
(* Project restore.                                                        *)

Tables == [fences : [Task -> Nat], claims : [Task -> Nat], unfinished : SUBSET Task]

Target == {"given", "safety"}

AtWork == {"preparing", "fences", "work", "verifying", "opening"}

RestoreTypeOK ==
    /\ project \in Tables
    /\ archives \in [Target -> Tables]
    /\ lock \in [mode : {"none", "export", "import", "rollback"},
                 session : Client \cup {NoArchive}, archive : Target \cup {NoArchive},
                 applying : BOOLEAN, saved : [Task -> Nat]]
    /\ clients \in [Client -> [at : AtWork \cup {"idle", "exporting", "saved", "dead"},
                               archive : Target \cup {NoArchive}]]
    /\ spent \in [Task -> Nat]

\* The tables are at the clients' mercy only while an import holds the lock.
ClientsImport ==
    /\ lock.applying => Importing
    /\ Importing => lock.archive \in Target
    /\ \A k \in Client : clients[k].at \in AtWork => Importing /\ clients[k].archive \in Target

\* What tenures may hold, before, during and after the replacement.
FencesAreKept ==
    \A t \in Task :
        IF Importing
        THEN /\ spent[t] <= Larger(lock.saved[t], project.fences[t])
             /\ lock.applying => spent[t] <= lock.saved[t]
        ELSE /\ spent[t] <= project.fences[t]
             /\ project.claims[t] \in {0, spent[t]}

RestoreInv == RestoreTypeOK /\ ClientsImport /\ FencesAreKept

USE RestoreAssumption

-----------------------------------------------------------------------------
(* The operators of the model.                                             *)

LEMMA LargerIsAbove ==
    \A m, n \in Nat : Larger(m, n) \in Nat /\ m <= Larger(m, n) /\ n <= Larger(m, n)
  BY DEF Larger

LEMMA BlankIsTables == Blank \in Tables /\ \A t \in Task : Blank.fences[t] = 0 /\ Blank.claims[t] = 0
  BY DEF Blank, Tables

LEMMA LoadedIsTables ==
    ASSUME RestoreTypeOK, NEW a \in Target, NEW s \in Section
    PROVE  Loaded(a, s) \in Tables
<1>1. archives[a] \in Tables /\ project \in Tables
  BY DEF RestoreTypeOK
<1>2. CASE s = "fences"
  BY <1>1, <1>2 DEF Loaded, Tables
<1>3. CASE s # "fences"
  BY <1>1, <1>3 DEF Loaded, Tables
<1>4. QED
  BY <1>2, <1>3

\* The fences a finished restore opens with are above the ones it found.
LEMMA RaisedIsAbove ==
    ASSUME RestoreTypeOK, NEW t \in Task
    PROVE  Raised(t) \in Nat /\ Larger(lock.saved[t], project.fences[t]) <= Raised(t)
                             /\ project.fences[t] <= Raised(t)
<1>1. project.fences[t] \in Nat /\ lock.saved[t] \in Nat
  BY DEF RestoreTypeOK, Tables
<1>2. QED
  BY <1>1 DEF Raised, Larger

-----------------------------------------------------------------------------
(* The invariant.                                                          *)

LEMMA RestoreStart == RestoreInit => RestoreInv
<1> SUFFICES ASSUME RestoreInit PROVE RestoreInv
  OBVIOUS
<1>1. RestoreTypeOK
  <2>1. Blank \in Tables
    BY BlankIsTables
  <2>2. PICK given \in Snapshot : archives = [given |-> given, safety |-> Blank]
    BY DEF RestoreInit
  <2>3. given \in Tables
    BY DEF Snapshot, Tables
  <2>4. archives \in [Target -> Tables]
    BY <2>1, <2>2, <2>3 DEF Target
  <2>5. QED
    BY <2>1, <2>4 DEF RestoreInit, RestoreTypeOK, Unlocked, AtRest
<1>2. ClientsImport
  BY DEF RestoreInit, ClientsImport, Importing, Unlocked, AtRest, AtWork
<1>3. FencesAreKept
  BY BlankIsTables DEF RestoreInit, FencesAreKept, Importing, Unlocked
<1>4. QED
  BY <1>1, <1>2, <1>3 DEF RestoreInv

-----------------------------------------------------------------------------
(* Each step keeps the invariant.                                          *)

LEMMA GrantKeeps == \A t \in Task, managed \in BOOLEAN :
                        RestoreInv /\ GrantTask(t, managed) => RestoreInv'
<1> SUFFICES ASSUME NEW t \in Task, NEW managed \in BOOLEAN, RestoreInv, GrantTask(t, managed)
             PROVE  RestoreInv'
  OBVIOUS
<1>1. /\ lock.mode = "none" /\ ~Importing /\ ~Importing'
      /\ UNCHANGED <<archives, lock, chunks, clients>>
  BY DEF GrantTask, Importing
<1>2. project \in Tables /\ spent \in [Task -> Nat] /\ project.fences[t] + 1 \in Nat
  BY DEF RestoreInv, RestoreTypeOK, Tables
<1>3. /\ project' \in Tables
      /\ project'.fences = [project.fences EXCEPT ![t] = @ + 1]
      /\ project'.claims = [project.claims EXCEPT ![t] = project.fences[t] + 1]
  BY <1>2 DEF GrantTask, Tables
<1>4. spent' = [spent EXCEPT ![t] = project.fences[t] + 1]
  <2>1. spent[t] <= project.fences[t]
    BY <1>1 DEF RestoreInv, FencesAreKept
  <2>2. Larger(spent[t], project.fences[t] + 1) = project.fences[t] + 1
    <3>1. spent[t] \in Nat /\ project.fences[t] \in Nat
      BY <1>2 DEF Tables
    <3>2. \A m, n \in Nat : m <= n => Larger(m, n + 1) = n + 1
      BY DEF Larger
    <3>3. QED
      BY <2>1, <3>1, <3>2
  <2>3. QED
    BY <2>2, <1>2 DEF GrantTask
<1>5. RestoreTypeOK'
  BY <1>1, <1>2, <1>3, <1>4 DEF RestoreInv, RestoreTypeOK
<1>6. ClientsImport'
  BY <1>1 DEF RestoreInv, ClientsImport, Importing
<1>7. FencesAreKept'
  BY <1>1, <1>2, <1>3, <1>4 DEF RestoreInv, FencesAreKept, Tables
<1>8. QED
  BY <1>5, <1>6, <1>7 DEF RestoreInv

LEMMA EndKeeps == \A t \in Task, finished \in BOOLEAN :
                      RestoreInv /\ EndGrant(t, finished) => RestoreInv'
<1> SUFFICES ASSUME NEW t \in Task, NEW finished \in BOOLEAN, RestoreInv, EndGrant(t, finished)
             PROVE  RestoreInv'
  OBVIOUS
<1>1. ~Importing /\ ~Importing' /\ UNCHANGED <<archives, lock, chunks, clients, spent>>
  BY DEF EndGrant, Importing
<1>2. project \in Tables
  BY DEF RestoreInv, RestoreTypeOK
<1>3. /\ project' \in Tables
      /\ project'.fences = project.fences
      /\ project'.claims = [project.claims EXCEPT ![t] = 0]
  BY <1>2 DEF EndGrant, Tables
<1>4. RestoreTypeOK' /\ ClientsImport'
  BY <1>1, <1>3 DEF RestoreInv, RestoreTypeOK, ClientsImport, Importing
<1>5. FencesAreKept'
  BY <1>1, <1>2, <1>3 DEF RestoreInv, FencesAreKept, Tables
<1>6. QED
  BY <1>4, <1>5 DEF RestoreInv

LEMMA BeginKeeps == \A k \in Client : RestoreInv /\ BeginExport(k) => RestoreInv'
<1> SUFFICES ASSUME NEW k \in Client, RestoreInv, BeginExport(k) PROVE RestoreInv'
  OBVIOUS
<1>1. /\ lock = Unlocked /\ lock' = [Unlocked EXCEPT !.mode = "export", !.session = k]
      /\ clients' = [clients EXCEPT ![k] = [AtRest EXCEPT !.at = "exporting"]]
      /\ UNCHANGED <<project, archives, chunks, spent>>
  BY DEF BeginExport
<1>2. ~Importing /\ ~Importing' /\ ~lock'.applying
  BY <1>1 DEF Importing, Unlocked
<1>3. RestoreTypeOK'
  BY <1>1 DEF RestoreInv, RestoreTypeOK, Unlocked, AtRest
<1>4. ClientsImport'
  BY <1>1, <1>2 DEF RestoreInv, RestoreTypeOK, ClientsImport, AtRest, AtWork
<1>5. FencesAreKept'
  BY <1>1, <1>2 DEF RestoreInv, FencesAreKept
<1>6. QED
  BY <1>3, <1>4, <1>5 DEF RestoreInv

LEMMA ExportEndsKeeps == RestoreInv /\ ExportEnds => RestoreInv'
<1> SUFFICES ASSUME RestoreInv, ExportEnds PROVE RestoreInv'
  OBVIOUS
<1>1. /\ ~Importing /\ lock' = Unlocked
      /\ UNCHANGED <<project, archives, chunks, clients, spent>>
  BY DEF ExportEnds, Importing
<1>2. ~Importing' /\ ~lock'.applying
  BY <1>1 DEF Importing, Unlocked
<1>3. RestoreTypeOK'
  BY <1>1 DEF RestoreInv, RestoreTypeOK, Unlocked
<1>4. ClientsImport' /\ FencesAreKept'
  BY <1>1, <1>2 DEF RestoreInv, ClientsImport, FencesAreKept
<1>5. QED
  BY <1>3, <1>4 DEF RestoreInv

LEMMA SafetyKeeps == \A k \in Client : RestoreInv /\ TakeSafety(k) => RestoreInv'
<1> SUFFICES ASSUME NEW k \in Client, RestoreInv, TakeSafety(k) PROVE RestoreInv'
  OBVIOUS
<1>1. UNCHANGED <<project, lock, chunks, spent>> /\ (Importing' <=> Importing)
  BY DEF TakeSafety, Importing
<1>2. archives' \in [Target -> Tables]
  BY DEF TakeSafety, RestoreInv, RestoreTypeOK, Target
<1>3. /\ \A c \in Client : c # k => clients'[c] = clients[c]
      /\ clients'[k].at \notin AtWork
      /\ clients' \in [Client -> [at : AtWork \cup {"idle", "exporting", "saved", "dead"},
                                  archive : Target \cup {NoArchive}]]
  BY DEF TakeSafety, Leaves, AtRest, AtWork, RestoreInv, RestoreTypeOK
<1>4. RestoreTypeOK'
  BY <1>1, <1>2, <1>3 DEF RestoreInv, RestoreTypeOK
<1>5. ClientsImport' /\ FencesAreKept'
  BY <1>1, <1>3 DEF RestoreInv, ClientsImport, FencesAreKept
<1>6. QED
  BY <1>4, <1>5 DEF RestoreInv

LEMMA PromoteKeeps == \A k \in Client : RestoreInv /\ Promote(k) => RestoreInv'
<1> SUFFICES ASSUME NEW k \in Client, RestoreInv, Promote(k) PROVE RestoreInv'
  OBVIOUS
<1>1. UNCHANGED <<project, archives, chunks, spent>>
  BY DEF Promote
<1>2. CASE Owns(k) /\ Quiescent
  <2>1. /\ lock' = [lock EXCEPT !.mode = "import", !.archive = "given"]
        /\ clients' = [clients EXCEPT ![k] = [at |-> "preparing", archive |-> "given"]]
        /\ lock.mode = "export"
    BY <1>2 DEF Promote, Owns
  <2>2. ~Importing /\ Importing' /\ ~lock'.applying /\ lock'.archive = "given"
    BY <2>1 DEF Importing, RestoreInv, RestoreTypeOK, ClientsImport
  <2>3. RestoreTypeOK'
    BY <1>1, <2>1 DEF RestoreInv, RestoreTypeOK, AtWork, Target
  <2>4. ClientsImport'
    BY <2>1, <2>2 DEF RestoreInv, RestoreTypeOK, ClientsImport, Target
  <2>5. FencesAreKept'
    <3> SUFFICES ASSUME NEW t \in Task
                 PROVE  spent[t] <= Larger(lock'.saved[t], project.fences[t])
      BY <1>1, <2>2 DEF FencesAreKept
    <3>1. spent[t] <= project.fences[t] /\ lock'.saved = lock.saved
      BY <2>1, <2>2 DEF RestoreInv, RestoreTypeOK, FencesAreKept
    <3>2. spent[t] \in Nat /\ project.fences[t] \in Nat /\ lock.saved[t] \in Nat
      BY DEF RestoreInv, RestoreTypeOK, Tables
    <3>3. QED
      BY <3>1, <3>2 DEF Larger
  <2>6. QED
    BY <2>3, <2>4, <2>5 DEF RestoreInv
<1>3. CASE ~(Owns(k) /\ Quiescent)
  <2>1. /\ lock' = IF Owns(k) THEN Unlocked ELSE lock
        /\ clients' = [clients EXCEPT ![k] = AtRest]
    BY <1>3 DEF Promote, Leaves
  <2>2. (Importing' <=> Importing) /\ (lock'.applying => lock.applying /\ lock' = lock)
    BY <2>1 DEF Owns, Importing, Unlocked
  <2>3. RestoreTypeOK'
    BY <1>1, <2>1 DEF RestoreInv, RestoreTypeOK, Unlocked, AtRest
  <2>4. ClientsImport'
    BY <2>1, <2>2 DEF RestoreInv, RestoreTypeOK, ClientsImport, AtRest, AtWork, Owns, Importing
  <2>5. FencesAreKept'
    BY <1>1, <2>1, <2>2 DEF RestoreInv, FencesAreKept, Owns, Importing
  <2>6. QED
    BY <2>3, <2>4, <2>5 DEF RestoreInv
<1>4. QED
  BY <1>2, <1>3

LEMMA ResumeKeeps == \A k \in Client : RestoreInv /\ ResumeImport(k) => RestoreInv'
<1> SUFFICES ASSUME NEW k \in Client, RestoreInv, ResumeImport(k) PROVE RestoreInv'
  OBVIOUS
<1>1. /\ Importing /\ Importing'
      /\ UNCHANGED <<project, archives, lock, chunks, spent>>
      /\ clients' = [clients EXCEPT ![k] = [at |-> "preparing", archive |-> lock.archive]]
  BY DEF ResumeImport, Importing
<1>2. RestoreTypeOK'
  BY <1>1 DEF RestoreInv, RestoreTypeOK, AtWork
<1>3. ClientsImport' /\ FencesAreKept'
  BY <1>1 DEF RestoreInv, RestoreTypeOK, ClientsImport, FencesAreKept
<1>4. QED
  BY <1>2, <1>3 DEF RestoreInv

LEMMA RollBackKeeps == \A k \in Client : RestoreInv /\ RollBack(k) => RestoreInv'
<1> SUFFICES ASSUME NEW k \in Client, RestoreInv, RollBack(k) PROVE RestoreInv'
  OBVIOUS
<1>1. /\ Importing /\ UNCHANGED <<project, archives, spent>>
      /\ clients' = [clients EXCEPT ![k] = [at |-> "preparing", archive |-> "safety"]]
      /\ \/ lock' = lock
         \/ lock' = [lock EXCEPT !.mode = "rollback", !.archive = "safety", !.applying = FALSE]
  BY DEF RollBack
<1>2. /\ Importing' /\ lock'.archive \in Target
      /\ lock'.saved = lock.saved /\ (lock'.applying => lock.applying)
  BY <1>1 DEF Importing, RestoreInv, RestoreTypeOK, ClientsImport, Target
<1>3. RestoreTypeOK'
  BY <1>1 DEF RestoreInv, RestoreTypeOK, AtWork, Target
<1>4. ClientsImport'
  BY <1>1, <1>2 DEF RestoreInv, RestoreTypeOK, ClientsImport, Target
<1>5. FencesAreKept'
  BY <1>1, <1>2 DEF RestoreInv, FencesAreKept
<1>6. QED
  BY <1>3, <1>4, <1>5 DEF RestoreInv

LEMMA PrepareKeeps == \A k \in Client : RestoreInv /\ PrepareTables(k) => RestoreInv'
<1> SUFFICES ASSUME NEW k \in Client, RestoreInv, PrepareTables(k) PROVE RestoreInv'
  OBVIOUS
<1>1. /\ UNCHANGED <<archives, chunks, spent>>
      /\ Importing /\ clients[k].archive \in Target
  BY DEF PrepareTables, RestoreInv, ClientsImport, AtWork
<1>2. /\ \A c \in Client : c # k => clients'[c] = clients[c]
      /\ clients'[k].at \in AtWork => clients'[k].archive = clients[k].archive
      /\ clients' \in [Client -> [at : AtWork \cup {"idle", "exporting", "saved", "dead"},
                                  archive : Target \cup {NoArchive}]]
  BY DEF PrepareTables, Leaves, AtRest, AtWork, RestoreInv, RestoreTypeOK
<1>3. CASE Unprepared /\ Quiescent
  <2>1. /\ lock' = [lock EXCEPT !.applying = TRUE, !.saved = Preserved]
        /\ project' = Blank
    BY <1>3 DEF PrepareTables
  <2>2. /\ Preserved \in [Task -> Nat]
        /\ \A t \in Task : Preserved[t] = Larger(lock.saved[t], project.fences[t])
    BY LargerIsAbove DEF Preserved, RestoreInv, RestoreTypeOK, Tables
  <2>3. RestoreTypeOK'
    BY <1>1, <1>2, <2>1, <2>2, BlankIsTables DEF RestoreInv, RestoreTypeOK
  <2>4. Importing' /\ lock'.archive = lock.archive /\ lock'.saved = Preserved
    BY <1>1, <2>1 DEF Importing, RestoreInv, RestoreTypeOK
  <2>5. ClientsImport'
    BY <1>1, <1>2, <2>4 DEF RestoreInv, ClientsImport
  <2>6. FencesAreKept'
    <3> SUFFICES ASSUME NEW t \in Task
                 PROVE  /\ spent[t] <= Larger(Preserved[t], Blank.fences[t])
                        /\ spent[t] <= Preserved[t]
      BY <1>1, <2>1, <2>4 DEF FencesAreKept
    <3>1. spent[t] <= Preserved[t]
      BY <1>1, <2>2 DEF RestoreInv, FencesAreKept
    <3>2. spent[t] \in Nat /\ Preserved[t] \in Nat /\ Blank.fences[t] = 0
      BY <2>2, BlankIsTables DEF RestoreInv, RestoreTypeOK
    <3>3. QED
      BY <3>1, <3>2 DEF Larger
  <2>7. QED
    BY <2>3, <2>5, <2>6 DEF RestoreInv
<1>4. CASE ~(Unprepared /\ Quiescent)
  <2>1. UNCHANGED <<lock, project>> /\ (Importing' <=> Importing)
    BY <1>4 DEF PrepareTables, Importing
  <2>2. QED
    BY <1>1, <1>2, <2>1 DEF RestoreInv, RestoreTypeOK, ClientsImport, FencesAreKept
<1>5. QED
  BY <1>3, <1>4

LEMMA LoadKeeps == \A k \in Client, s \in Section : RestoreInv /\ LoadRows(k, s) => RestoreInv'
<1> SUFFICES ASSUME NEW k \in Client, NEW s \in Section, RestoreInv, LoadRows(k, s)
             PROVE  RestoreInv'
  OBVIOUS
<1>1. /\ UNCHANGED <<archives, lock, spent>>
      /\ Importing /\ Importing' /\ clients[k].archive \in Target
  BY DEF LoadRows, Section, AtWork, RestoreInv, ClientsImport, Importing
<1>2. /\ \A c \in Client : c # k => clients'[c] = clients[c]
      /\ clients'[k].at \in AtWork => clients'[k].archive = clients[k].archive
      /\ clients' \in [Client -> [at : AtWork \cup {"idle", "exporting", "saved", "dead"},
                                  archive : Target \cup {NoArchive}]]
  BY DEF LoadRows, Leaves, AtRest, AtWork, RestoreInv, RestoreTypeOK
<1>3. \/ project' = project
      \/ lock.applying /\ project' = Loaded(clients[k].archive, s)
  BY DEF LoadRows
<1>4. project' \in Tables
  BY <1>1, <1>3, LoadedIsTables DEF RestoreInv, RestoreTypeOK
<1>5. RestoreTypeOK' /\ ClientsImport'
  BY <1>1, <1>2, <1>4 DEF RestoreInv, RestoreTypeOK, ClientsImport
<1>6. FencesAreKept'
  <2> SUFFICES ASSUME NEW t \in Task
               PROVE  /\ spent[t] <= Larger(lock.saved[t], project'.fences[t])
                      /\ lock.applying => spent[t] <= lock.saved[t]
    BY <1>1 DEF FencesAreKept
  <2>1. lock.applying => spent[t] <= lock.saved[t]
    BY <1>1 DEF RestoreInv, FencesAreKept
  <2>2. CASE project' = project
    BY <1>1, <2>1, <2>2 DEF RestoreInv, FencesAreKept
  <2>3. CASE lock.applying
    <3>1. spent[t] \in Nat /\ lock.saved[t] \in Nat /\ project'.fences[t] \in Nat
      BY <1>4 DEF RestoreInv, RestoreTypeOK, Tables
    <3>2. QED
      BY <2>1, <2>3, <3>1 DEF Larger
  <2>4. QED
    BY <1>3, <2>2, <2>3
<1>7. QED
  BY <1>5, <1>6 DEF RestoreInv

LEMMA CheckKeeps == \A k \in Client : RestoreInv /\ CheckDigest(k) => RestoreInv'
<1> SUFFICES ASSUME NEW k \in Client, RestoreInv, CheckDigest(k) PROVE RestoreInv'
  OBVIOUS
<1>1. /\ UNCHANGED <<project, archives, lock, chunks, spent>>
      /\ Importing /\ Importing' /\ clients[k].archive \in Target
  BY DEF CheckDigest, AtWork, RestoreInv, ClientsImport, Importing
<1>2. /\ \A c \in Client : c # k => clients'[c] = clients[c]
      /\ clients'[k].at \in AtWork => clients'[k].archive = clients[k].archive
      /\ clients' \in [Client -> [at : AtWork \cup {"idle", "exporting", "saved", "dead"},
                                  archive : Target \cup {NoArchive}]]
  BY DEF CheckDigest, Leaves, AtRest, AtWork, RestoreInv, RestoreTypeOK
<1>3. RestoreTypeOK' /\ ClientsImport' /\ FencesAreKept'
  BY <1>1, <1>2 DEF RestoreInv, RestoreTypeOK, ClientsImport, FencesAreKept
<1>4. QED
  BY <1>3 DEF RestoreInv

LEMMA OpenKeeps == \A k \in Client : RestoreInv /\ OpenRestored(k) => RestoreInv'
<1> SUFFICES ASSUME NEW k \in Client, RestoreInv, OpenRestored(k) PROVE RestoreInv'
  OBVIOUS
<1>1. Importing /\ UNCHANGED archives
  BY DEF OpenRestored, AtWork, RestoreInv, ClientsImport
<1>2. CASE lock' = Unlocked
  <2>1. /\ project' = [project EXCEPT !.fences = [t \in Task |-> Raised(t)],
                                      !.claims = Blank.claims]
        /\ spent' = [t \in Task |-> Larger(spent[t], project.fences[t])]
        /\ lock' = Unlocked
        /\ clients' = [c \in Client |-> IF clients[c] = Dead THEN Dead ELSE AtRest]
    BY <1>2, <1>1 DEF OpenRestored, Importing, Unlocked
  <2>2. \A t \in Task : /\ project.fences[t] \in Nat /\ spent[t] \in Nat
                        /\ lock.saved[t] \in Nat
    BY DEF RestoreInv, RestoreTypeOK, Tables
  <2>3. \A t \in Task : Raised(t) \in Nat
    BY RaisedIsAbove DEF RestoreInv
  <2>4. /\ project' \in Tables
        /\ project'.fences = [t \in Task |-> Raised(t)]
        /\ project'.claims = Blank.claims
    BY <2>1, <2>3, BlankIsTables DEF RestoreInv, RestoreTypeOK, Tables
  <2>5. spent' \in [Task -> Nat]
    BY <2>1, <2>2, LargerIsAbove
  <2>6. RestoreTypeOK'
    BY <1>1, <2>1, <2>4, <2>5 DEF RestoreInv, RestoreTypeOK, Unlocked, AtRest, Dead
  <2>7. ~Importing' /\ ~lock'.applying
    BY <2>1 DEF Importing, Unlocked
  <2>8. ClientsImport'
    BY <2>1, <2>7 DEF ClientsImport, AtRest, Dead, AtWork
  <2>9. FencesAreKept'
    <3> SUFFICES ASSUME NEW t \in Task
                 PROVE  spent'[t] <= Raised(t) /\ Blank.claims[t] = 0
      BY <2>4, <2>7 DEF FencesAreKept
    <3>1. spent[t] <= Larger(lock.saved[t], project.fences[t])
      BY <1>1 DEF RestoreInv, FencesAreKept
    <3>2. /\ Raised(t) \in Nat /\ project.fences[t] <= Raised(t)
          /\ Larger(lock.saved[t], project.fences[t]) <= Raised(t)
      BY RaisedIsAbove DEF RestoreInv
    <3>3. Larger(lock.saved[t], project.fences[t]) \in Nat
      BY <2>2, LargerIsAbove
    <3>4. spent[t] <= Raised(t)
      BY <2>2, <3>1, <3>2, <3>3
    <3>5. spent'[t] = Larger(spent[t], project.fences[t])
      BY <2>1
    <3>6. spent'[t] <= Raised(t)
      BY <3>2, <3>4, <3>5 DEF Larger
    <3>7. QED
      BY <3>6, BlankIsTables
  <2>10. QED
    BY <2>6, <2>8, <2>9 DEF RestoreInv
<1>3. CASE lock' # Unlocked
  <2>1. /\ UNCHANGED <<project, lock, chunks, spent>>
        /\ clients' = [clients EXCEPT ![k] = AtRest]
        /\ (Importing' <=> Importing)
    BY <1>3 DEF OpenRestored, Leaves, Importing
  <2>2. RestoreTypeOK'
    BY <1>1, <2>1 DEF RestoreInv, RestoreTypeOK, AtRest
  <2>3. ClientsImport' /\ FencesAreKept'
    BY <1>1, <2>1 DEF RestoreInv, RestoreTypeOK, ClientsImport, FencesAreKept, AtRest, AtWork
  <2>4. QED
    BY <2>2, <2>3 DEF RestoreInv
<1>4. QED
  BY <1>2, <1>3

LEMMA DeathKeeps == \A k \in Client : RestoreInv /\ ClientDies(k) => RestoreInv'
<1> SUFFICES ASSUME NEW k \in Client, RestoreInv, ClientDies(k) PROVE RestoreInv'
  OBVIOUS
<1>1. /\ clients' = [clients EXCEPT ![k] = Dead]
      /\ UNCHANGED <<project, archives, lock, chunks, spent>>
      /\ (Importing' <=> Importing)
  BY DEF ClientDies, Importing
<1>2. RestoreTypeOK'
  BY <1>1 DEF RestoreInv, RestoreTypeOK, Dead
<1>3. ClientsImport' /\ FencesAreKept'
  BY <1>1 DEF RestoreInv, RestoreTypeOK, ClientsImport, FencesAreKept, Dead, AtWork
<1>4. QED
  BY <1>2, <1>3 DEF RestoreInv

-----------------------------------------------------------------------------
(* The theorems.                                                           *)

\* Whatever clients do and wherever they die, what earlier tenures may hold
\* stays below what the restore goes on with.
THEOREM RestoreHolds == RestoreSpec => []RestoreInv
<1>1. RestoreInv /\ [RestoreNext]_restoreVars => RestoreInv'
  <2>1. RestoreInv /\ UNCHANGED restoreVars => RestoreInv'
    BY DEF restoreVars, RestoreInv, RestoreTypeOK, ClientsImport, FencesAreKept, Importing
  <2>2. RestoreInv /\ RestoreNext => RestoreInv'
    BY GrantKeeps, EndKeeps, BeginKeeps, ExportEndsKeeps, SafetyKeeps, PromoteKeeps,
       ResumeKeeps, RollBackKeeps, PrepareKeeps, LoadKeeps, CheckKeeps, OpenKeeps, DeathKeeps
       DEF RestoreNext, ClientStep, Recover
  <2>3. QED
    BY <2>1, <2>2
<1>2. QED
  BY RestoreStart, <1>1, PTL DEF RestoreSpec

\* No grant of the destination's past or of the archive's is valid after a
\* restore (preserveRestoreFences, invalidateRestoredExecutions).
THEOREM RestoreKillsOldGrants == RestoreSpec => []OldGrantsStayDead
<1>1. RestoreInv => OldGrantsStayDead
  BY DEF RestoreInv, RestoreTypeOK, Tables, FencesAreKept, Importing, OldGrantsStayDead
<1>2. QED
  BY RestoreHolds, <1>1, PTL

-----------------------------------------------------------------------------
(* Imports nobody rolled back.                                             *)

\* Where an import's client may be: past the preparation only on prepared
\* tables, and with a digest it verified only on the archive itself.
Fits(c) ==
    c.at \in AtWork =>
        /\ c.archive = "given"
        /\ c.at # "preparing" => lock.applying
        /\ c.at = "opening" => project = archives["given"]

ClientsFit ==
    lock.mode = "import" => lock.archive = "given" /\ \A k \in Client : Fits(clients[k])

\* A section without a receipt is still as empty as the preparation left it, so
\* that a chunk which can still be inserted does not change a verified project.
OnlyChunksAreLoaded ==
    lock.mode = "import" /\ lock.applying =>
        /\ chunks["fences"] = NoArchive => /\ project.fences = Blank.fences
                                           /\ project.claims = Blank.claims
        /\ chunks["work"] = NoArchive => project.unfinished = Blank.unfinished

ChunksFit ==
    /\ chunks \in [Section -> Target \cup {NoArchive}]
    /\ ~Importing => chunks = NoChunks

ImportInv == ChunksFit /\ ClientsFit /\ OnlyChunksAreLoaded

LEMMA ImportStart == RestoreInit => ImportInv
  BY DEF RestoreInit, ImportInv, ChunksFit, ClientsFit, OnlyChunksAreLoaded, NoChunks,
         Unlocked, Section, Target

\* A step that leaves tables, lock and chunks alone moves clients where they fit.
LEMMA ClientMoves ==
    ASSUME ImportInv, UNCHANGED <<project, lock, chunks>>,
           lock.mode = "import" => /\ UNCHANGED archives
                                   /\ \A c \in Client : clients'[c] = clients[c] \/ Fits(clients'[c])
    PROVE  ImportInv'
<1>1. ChunksFit' /\ OnlyChunksAreLoaded'
  BY DEF ImportInv, ChunksFit, OnlyChunksAreLoaded, Importing
<1>2. ClientsFit'
  BY DEF ImportInv, ClientsFit, Fits
<1> QED
  BY <1>1, <1>2 DEF ImportInv

\* A step after which no import is under way.
LEMMA NotImported ==
    ASSUME chunks' \in [Section -> Target \cup {NoArchive}], lock'.mode # "import",
           ~Importing' => chunks' = NoChunks
    PROVE  ImportInv'
  BY DEF ImportInv, ChunksFit, ClientsFit, OnlyChunksAreLoaded

LEMMA ProjectStepsFit ==
    ASSUME RestoreInv, ImportInv,
           \/ \E t \in Task, flag \in BOOLEAN : GrantTask(t, flag) \/ EndGrant(t, flag)
           \/ \E k \in Client : BeginExport(k)
           \/ ExportEnds
    PROVE  ImportInv'
<1>1. lock.mode \in {"none", "export"} /\ lock'.mode \in {"none", "export"} /\ UNCHANGED chunks
  <2>1. ASSUME NEW t \in Task, NEW flag \in BOOLEAN, GrantTask(t, flag) \/ EndGrant(t, flag)
        PROVE  <1>1!:
    BY <2>1 DEF GrantTask, EndGrant
  <2>2. ASSUME NEW k \in Client, BeginExport(k) PROVE <1>1!:
    BY <2>2 DEF BeginExport, Unlocked
  <2>3. ASSUME ExportEnds PROVE <1>1!:
    BY <2>3 DEF ExportEnds, Unlocked
  <2> QED
    BY <2>1, <2>2, <2>3
<1>2. ~Importing /\ lock'.mode # "import" /\ UNCHANGED chunks
  BY <1>1 DEF Importing
<1> QED
  BY <1>2, NotImported DEF ImportInv, ChunksFit

LEMMA SafetyFits ==
    ASSUME RestoreInv, ImportInv, NEW k \in Client, TakeSafety(k)
    PROVE  ImportInv'
<1>1. /\ UNCHANGED <<project, lock, chunks>>
      /\ lock.mode = "import" => UNCHANGED archives
      /\ \A c \in Client : c # k => clients'[c] = clients[c]
      /\ clients'[k].at \notin AtWork
  BY DEF TakeSafety, Owns, Leaves, AtRest, AtWork, RestoreInv, RestoreTypeOK
<1>2. \A c \in Client : clients'[c] = clients[c] \/ Fits(clients'[c])
  BY <1>1 DEF Fits
<1> QED
  BY <1>1, <1>2, ClientMoves

LEMMA PromoteFits ==
    ASSUME RestoreInv, ImportInv, NEW k \in Client, Promote(k)
    PROVE  ImportInv'
<1>1. CASE Owns(k) /\ Quiescent
  <2>1. /\ lock' = [lock EXCEPT !.mode = "import", !.archive = "given"]
        /\ clients' = [clients EXCEPT ![k] = [at |-> "preparing", archive |-> "given"]]
        /\ UNCHANGED <<project, archives, chunks>> /\ lock.mode = "export"
    BY <1>1 DEF Promote, Owns
  <2>2. /\ lock'.mode = "import" /\ lock'.archive = "given" /\ ~lock'.applying
        /\ ~Importing /\ Importing'
    BY <2>1 DEF Importing, RestoreInv, RestoreTypeOK, ClientsImport
  <2>3. \A c \in Client : clients'[c].at \in AtWork =>
            clients'[c].at = "preparing" /\ clients'[c].archive = "given"
    BY <2>1, <2>2 DEF RestoreInv, RestoreTypeOK, ClientsImport
  <2>4. ClientsFit'
    BY <2>2, <2>3 DEF ClientsFit, Fits
  <2> QED
    BY <2>1, <2>2, <2>4 DEF ImportInv, ChunksFit, OnlyChunksAreLoaded
<1>2. CASE ~(Owns(k) /\ Quiescent) /\ Owns(k)
  <2>1. lock' = Unlocked /\ UNCHANGED chunks /\ ~Importing
    BY <1>2 DEF Promote, Owns, Importing
  <2>2. lock'.mode # "import"
    BY <2>1 DEF Unlocked
  <2> QED
    BY <2>1, <2>2, NotImported DEF ImportInv, ChunksFit
<1>3. CASE ~Owns(k)
  <2>1. UNCHANGED <<project, lock, chunks, archives>>
    BY <1>3 DEF Promote
  <2>2. clients' = [clients EXCEPT ![k] = AtRest]
    BY <1>3 DEF Promote, Leaves
  <2>3. \A c \in Client : clients'[c] = clients[c] \/ Fits(clients'[c])
    BY <2>2 DEF Fits, AtRest, AtWork, RestoreInv, RestoreTypeOK
  <2> QED
    BY <2>1, <2>3, ClientMoves
<1> QED
  BY <1>1, <1>2, <1>3

\* A client begins again with the target of the lock, or is gone.
LEMMA ComingsFit ==
    ASSUME RestoreInv, ImportInv, NEW k \in Client, ResumeImport(k) \/ ClientDies(k)
    PROVE  ImportInv'
<1>1. /\ UNCHANGED <<project, lock, chunks, archives>>
      /\ \/ clients' = [clients EXCEPT ![k] = [at |-> "preparing", archive |-> lock.archive]]
         \/ clients' = [clients EXCEPT ![k] = Dead]
  BY DEF ResumeImport, ClientDies
<1>2. lock.mode = "import" => lock.archive = "given"
  BY DEF ImportInv, ClientsFit
<1>3. lock.mode = "import" =>
          \A c \in Client : clients'[c] = clients[c] \/ Fits(clients'[c])
  BY <1>1, <1>2 DEF Fits, Dead, AtWork, RestoreInv, RestoreTypeOK
<1> QED
  BY <1>1, <1>3, ClientMoves

LEMMA RollBackFits ==
    ASSUME RestoreInv, ImportInv, NEW k \in Client, RollBack(k)
    PROVE  ImportInv'
<1>1. /\ lock'.mode = "rollback"
      /\ chunks' = chunks \/ chunks' = NoChunks
  BY DEF RollBack, ForgottenChunks, RestoreInv, RestoreTypeOK
<1>2. chunks' \in [Section -> Target \cup {NoArchive}]
  BY <1>1 DEF NoChunks, ImportInv, ChunksFit
<1> QED
  BY <1>1, <1>2, NotImported DEF Importing

LEMMA PrepareFits ==
    ASSUME RestoreInv, ImportInv, NEW k \in Client, PrepareTables(k)
    PROVE  ImportInv'
<1>1. /\ UNCHANGED <<archives, chunks>> /\ clients[k].at = "preparing"
      /\ \A c \in Client : c # k => clients'[c] = clients[c]
      /\ clients[k].at \in AtWork /\ lock.mode \in {"import", "rollback"}
  BY DEF PrepareTables, Leaves, AtWork, RestoreInv, RestoreTypeOK, ClientsImport, Importing
<1>2. lock.mode = "import" => clients[k].archive = "given"
  BY <1>1 DEF ImportInv, ClientsFit, Fits
<1>3. CASE Unprepared /\ Quiescent
  <2>1. /\ lock' = [lock EXCEPT !.applying = TRUE, !.saved = Preserved]
        /\ project' = Blank /\ clients' = [clients EXCEPT ![k].at = "fences"]
    BY <1>3 DEF PrepareTables
  <2>2. /\ lock'.mode = lock.mode /\ lock'.archive = lock.archive /\ lock'.applying
        /\ ~lock.applying
    BY <1>3, <2>1 DEF Unprepared, RestoreInv, RestoreTypeOK
  <2>3. ChunksFit'
    BY <1>1, <2>2 DEF ImportInv, ChunksFit, Importing
  <2>4. ClientsFit'
    <3> SUFFICES ASSUME lock.mode = "import"
                 PROVE  lock'.archive = "given" /\ \A c \in Client : Fits(clients[c])'
      BY <2>2 DEF ClientsFit
    <3>1. \A c \in Client : clients[c].at \in AtWork =>
              clients[c].archive = "given" /\ clients[c].at = "preparing"
      BY <2>2 DEF ImportInv, ClientsFit, Fits
    <3>2. \A c \in Client : clients'[c].at \in AtWork =>
              clients'[c].archive = "given" /\ clients'[c].at \in {"preparing", "fences"}
      BY <1>1, <1>2, <2>1, <3>1 DEF RestoreInv, RestoreTypeOK
    <3> QED
      BY <2>2, <3>2 DEF ImportInv, ClientsFit, Fits
  <2>5. OnlyChunksAreLoaded'
    BY <2>1 DEF OnlyChunksAreLoaded, Blank
  <2> QED
    BY <2>3, <2>4, <2>5 DEF ImportInv
<1>4. CASE ~(Unprepared /\ Quiescent)
  <2>1. UNCHANGED <<project, lock>>
    BY <1>4 DEF PrepareTables
  <2>2. /\ clients'[k].at \in AtWork => /\ clients'[k].at = "fences" /\ lock.applying
                                        /\ clients'[k].archive = clients[k].archive
    BY <1>4 DEF PrepareTables, Unprepared, Leaves, AtRest, AtWork, RestoreInv, RestoreTypeOK
  <2>3. lock.mode = "import" =>
            \A c \in Client : clients'[c] = clients[c] \/ Fits(clients'[c])
    BY <1>1, <1>2, <2>2 DEF Fits
  <2> QED
    BY <1>1, <2>1, <2>3, ClientMoves
<1> QED
  BY <1>3, <1>4

\* What a chunk would insert into a verified project is already there.
LEMMA LoadFits ==
    ASSUME RestoreInv, ImportInv, NEW k \in Client, NEW s \in Section, LoadRows(k, s)
    PROVE  ImportInv'
<1> DEFINE a == clients[k].archive
<1>1. /\ UNCHANGED <<archives, lock>> /\ clients[k].at = s /\ clients[k].at \in AtWork
      /\ Importing /\ a \in Target /\ s \in {"fences", "work"}
      /\ \A c \in Client : c # k => clients'[c] = clients[c]
  BY DEF LoadRows, Leaves, AtWork, Section, RestoreInv, RestoreTypeOK, ClientsImport
<1>2. /\ clients'[k].at \in AtWork => /\ clients'[k].at \in {"work", "verifying"}
                                      /\ clients'[k].archive = a
  BY DEF LoadRows, Leaves, AtRest, AtWork, RestoreInv, RestoreTypeOK
<1>3. lock.mode = "import" => lock.applying /\ a = "given"
  BY <1>1 DEF ImportInv, ClientsFit, Fits
<1>4. CASE UNCHANGED <<project, chunks>>
  <2>1. lock.mode = "import" =>
            \A c \in Client : clients'[c] = clients[c] \/ Fits(clients'[c])
    BY <1>1, <1>2, <1>3 DEF Fits
  <2> QED
    BY <1>1, <1>4, <2>1, ClientMoves
<1>5. CASE ~UNCHANGED <<project, chunks>>
  <2>1. /\ chunks[s] = NoArchive /\ HasRows(a, s)
        /\ project' = Loaded(a, s) /\ chunks' = [chunks EXCEPT ![s] = a]
    BY <1>5 DEF LoadRows
  <2>2. ChunksFit'
    BY <1>1, <2>1 DEF ImportInv, ChunksFit, Importing
  <2>3. chunks'[s] # NoArchive /\ \A x \in Section : x # s => chunks'[x] = chunks[x]
    BY <1>1, <2>1, RestoreAssumption DEF ImportInv, ChunksFit, Target
  <2>4. OnlyChunksAreLoaded'
    <3>1. project \in Tables
      BY DEF RestoreInv, RestoreTypeOK
    <3>2. CASE s = "fences"
      <4>1. project'.unfinished = project.unfinished
        BY <2>1, <3>1, <3>2 DEF Loaded, Tables
      <4> QED
        BY <1>1, <2>3, <3>2, <4>1 DEF ImportInv, OnlyChunksAreLoaded, Section
    <3>3. CASE s = "work"
      <4>1. project'.fences = project.fences /\ project'.claims = project.claims
        BY <2>1, <3>1, <3>3 DEF Loaded, Tables
      <4> QED
        BY <1>1, <2>3, <3>3, <4>1 DEF ImportInv, OnlyChunksAreLoaded, Section
    <3> QED
      BY <1>1, <3>2, <3>3
  <2>5. lock.mode = "import" => project # archives["given"]
    <3> SUFFICES ASSUME lock.mode = "import", project = archives["given"] PROVE FALSE
      OBVIOUS
    <3>1. CASE s = "fences"
      <4>1. project.fences = Blank.fences
        BY <1>3, <2>1, <3>1 DEF ImportInv, OnlyChunksAreLoaded
      <4> QED
        BY <1>3, <2>1, <3>1, <4>1 DEF HasRows
    <3>2. CASE s = "work"
      <4>1. project.unfinished = {}
        BY <1>3, <2>1, <3>2 DEF ImportInv, OnlyChunksAreLoaded, Blank
      <4> QED
        BY <1>3, <2>1, <3>2, <4>1 DEF HasRows
    <3> QED
      BY <1>1, <3>1, <3>2
  <2>6. ClientsFit'
    <3> SUFFICES ASSUME lock.mode = "import"
                 PROVE  lock.archive = "given" /\ \A c \in Client : Fits(clients[c])'
      BY <1>1 DEF ClientsFit
    <3>1. lock.archive = "given" /\ \A c \in Client : Fits(clients[c])
      BY DEF ImportInv, ClientsFit
    <3>2. \A c \in Client : clients[c].at \in AtWork => clients[c].at # "opening"
      BY <2>5, <3>1 DEF Fits
    <3>3. \A c \in Client : clients'[c].at \in AtWork =>
              clients'[c].archive = "given" /\ clients'[c].at # "opening"
      BY <1>1, <1>2, <1>3, <3>1, <3>2 DEF Fits
    <3> QED
      BY <1>1, <1>3, <3>1, <3>3 DEF Fits
  <2> QED
    BY <2>2, <2>4, <2>6 DEF ImportInv
<1> QED
  BY <1>4, <1>5

LEMMA CheckFits ==
    ASSUME RestoreInv, ImportInv, NEW k \in Client, CheckDigest(k)
    PROVE  ImportInv'
<1>1. /\ UNCHANGED <<project, lock, chunks, archives>>
      /\ clients[k].at \in AtWork /\ clients[k].at # "preparing"
      /\ \A c \in Client : c # k => clients'[c] = clients[c]
  BY DEF CheckDigest, Leaves, AtWork, RestoreInv, RestoreTypeOK
<1>2. lock.mode = "import" => clients[k].archive = "given" /\ lock.applying
  BY <1>1 DEF ImportInv, ClientsFit, Fits
<1>3. clients'[k].at \in AtWork => /\ clients'[k].archive = clients[k].archive
                                   /\ project = archives[clients[k].archive]
  BY DEF CheckDigest, Verified, Leaves, AtRest, AtWork, RestoreInv, RestoreTypeOK
<1>4. lock.mode = "import" =>
          \A c \in Client : clients'[c] = clients[c] \/ Fits(clients'[c])
  BY <1>1, <1>2, <1>3 DEF Fits
<1> QED
  BY <1>1, <1>4, ClientMoves

LEMMA OpenFits ==
    ASSUME RestoreInv, ImportInv, NEW k \in Client, OpenRestored(k)
    PROVE  ImportInv'
<1>1. CASE lock' = Unlocked /\ chunks' = NoChunks
  <2>1. lock'.mode # "import" /\ chunks' \in [Section -> Target \cup {NoArchive}]
    BY <1>1 DEF Unlocked, NoChunks
  <2> QED
    BY <1>1, <2>1, NotImported
<1>2. CASE ~(lock' = Unlocked /\ chunks' = NoChunks)
  <2>1. UNCHANGED <<project, lock, chunks, archives>> /\ clients' = [clients EXCEPT ![k] = AtRest]
    BY <1>2 DEF OpenRestored, Leaves
  <2>2. \A c \in Client : clients'[c] = clients[c] \/ Fits(clients'[c])
    BY <2>1 DEF Fits, AtRest, AtWork, RestoreInv, RestoreTypeOK
  <2> QED
    BY <2>1, <2>2, ClientMoves
<1> QED
  BY <1>1, <1>2

LEMMA ImportStep == RestoreInv /\ ImportInv /\ [RestoreNext]_restoreVars => ImportInv'
<1> SUFFICES ASSUME RestoreInv, ImportInv, [RestoreNext]_restoreVars PROVE ImportInv'
  OBVIOUS
<1>1. CASE UNCHANGED restoreVars
  BY <1>1, ClientMoves DEF restoreVars
<1>2. CASE RestoreNext
  BY <1>2, ProjectStepsFit, SafetyFits, PromoteFits, ComingsFit, RollBackFits, PrepareFits,
     LoadFits, CheckFits, OpenFits DEF RestoreNext, ClientStep, Recover
<1> QED
  BY <1>1, <1>2

\* An import that nobody rolled back opens on its whole archive: whoever prepared
\* the tables did it once, no chunk is inserted twice, and what one client verified
\* no other client can change before it is opened (prepareSnapshotRestore,
\* acceptChunk).
THEOREM ImportIsWhole == RestoreSpec => ResumedImportsAreWhole
<1> DEFINE Whole == lock.mode = "import" /\ lock'.mode = "none" =>
                        project = archives[lock.archive]
<1>1. RestoreInv /\ ImportInv /\ [RestoreNext]_restoreVars => ImportInv'
  BY ImportStep
<1>2. ASSUME RestoreInv, ImportInv, [RestoreNext]_restoreVars,
             lock.mode = "import", lock'.mode = "none"
      PROVE  project = archives[lock.archive]
  <2>1. PICK k \in Client : OpenRestored(k)
    BY <1>2 DEF RestoreNext, restoreVars, ClientStep, Recover, GrantTask, EndGrant,
          BeginExport, ExportEnds, TakeSafety, Promote, Owns, ResumeImport, RollBack,
          PrepareTables, LoadRows, CheckDigest, ClientDies, RestoreInv, RestoreTypeOK
  <2>2. clients[k].at = "opening" /\ clients[k].at \in AtWork
    BY <2>1 DEF OpenRestored, AtWork
  <2> QED
    BY <1>2, <2>2 DEF ImportInv, ClientsFit, Fits
<1>3. RestoreInv /\ ImportInv /\ [RestoreNext]_restoreVars => [Whole]_restoreVars
  BY <1>2
<1> QED
  BY RestoreHolds, ImportStart, <1>1, <1>3, PTL DEF RestoreSpec, ResumedImportsAreWhole
=============================================================================
