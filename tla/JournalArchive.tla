--------------------------- MODULE JournalArchive ---------------------------
(***************************************************************************)
(* Moving old journal events from the project's database to R2.  An        *)
(* archive cycle reads the oldest events, writes one object for each month *)
(* of them and then confirms, which advances the watermark and deletes the *)
(* events.  The daily sweep and the administrator's request run the same   *)
(* cycle and can run at the same time; a cycle can die between any two     *)
(* steps.                                                                  *)
(***************************************************************************)
EXTENDS Integers, FiniteSets

CONSTANTS
    Cycle,        \* archive cycles that can be under way
    MonthOf,      \* [1 .. MaxSeq -> the month an event was written in]
    MaxRows,      \* MAX_ROWS of the archive route
    MaxSeq        \* bounds the journal

ASSUME JournalAssumption ==
    /\ MaxRows \in Nat /\ MaxSeq \in Nat
    /\ MonthOf \in [1 .. MaxSeq -> Nat]

VARIABLES
    journal,      \* sequence numbers of the rows in the journal table
    lastSeq,      \* the highest number given out (AUTOINCREMENT)
    oldSeq,       \* events up to this one are older than MAX_AGE_MS
    watermark,    \* last_archived_seq, 0 when there is no row
    objects,      \* the objects in R2
    cycles        \* what each cycle read and still has to write

journalVars == <<journal, lastSeq, oldSeq, watermark, objects, cycles>>

IdleCycle == [running |-> FALSE, batch |-> {}, todo |-> {}]

JournalInit ==
    /\ journal = {} /\ lastSeq = 0 /\ oldSeq = 0 /\ watermark = 0
    /\ objects = {}
    /\ cycles = [c \in Cycle |-> IdleCycle]

First(rows) == CHOOSE s \in rows : \A r \in rows : s <= r
Last(rows) == CHOOSE s \in rows : \A r \in rows : r <= s

AppendEvent ==
    /\ lastSeq < MaxSeq
    /\ lastSeq' = lastSeq + 1
    /\ journal' = journal \cup {lastSeq'}
    /\ UNCHANGED <<oldSeq, watermark, objects, cycles>>

EventsAge ==
    /\ oldSeq < lastSeq
    /\ oldSeq' = oldSeq + 1
    /\ UNCHANGED <<journal, lastSeq, watermark, objects, cycles>>

\* getArchivableEvents: the old events; when the table is over MAX_ROWS, no
\* more of them than bring it back to the limit.
Archivable ==
    {s \in journal :
        /\ s <= oldSeq
        /\ Cardinality(journal) > MaxRows =>
               Cardinality({r \in journal : r <= s}) <= Cardinality(journal) - MaxRows}

ReadBatch(c) ==
    /\ ~cycles[c].running
    /\ Archivable # {}
    /\ cycles' = [cycles EXCEPT ![c] =
                     [running |-> TRUE, batch |-> Archivable, todo |-> Archivable]]
    /\ UNCHANGED <<journal, lastSeq, oldSeq, watermark, objects>>

\* Mutant of ObjectKey: one object for each month, as in the first version.
ObjectKey_Month(month, batch, rows) == <<month>>

\* The name of the object for one month of a batch.
ObjectKey(month, batch, rows) == <<month, Last(batch), First(rows)>>

WriteObject(c) ==
    LET month == MonthOf[First(cycles[c].todo)]
        rows == {s \in cycles[c].batch : MonthOf[s] = month}
        key == ObjectKey(month, cycles[c].batch, rows)
    IN  /\ cycles[c].todo # {}
        /\ objects' = {o \in objects : o.key # key} \cup {[key |-> key, rows |-> rows]}
        /\ cycles' = [cycles EXCEPT ![c].todo = @ \ rows]
        /\ UNCHANGED <<journal, lastSeq, oldSeq, watermark>>

\* Mutant of Advanced: the watermark follows the last confirmation.
Advanced_Overwrite(through) == through

Advanced(through) == IF watermark > through THEN watermark ELSE through

\* markArchived, after every object of the batch was written.
ConfirmBatch(c) ==
    LET through == Last(cycles[c].batch) IN
    /\ cycles[c].running /\ cycles[c].todo = {}
    /\ watermark' = Advanced(through)
    /\ journal' = {s \in journal : s > through}
    /\ cycles' = [cycles EXCEPT ![c] = IdleCycle]
    /\ UNCHANGED <<lastSeq, oldSeq, objects>>

\* The sweep's request budget defers the batch, an R2 write or the
\* confirmation fails, or the worker dies.
AbandonBatch(c) ==
    /\ cycles[c].running
    /\ cycles' = [cycles EXCEPT ![c] = IdleCycle]
    /\ UNCHANGED <<journal, lastSeq, oldSeq, watermark, objects>>

JournalNext ==
    \/ AppendEvent \/ EventsAge
    \/ \E c \in Cycle : ReadBatch(c) \/ WriteObject(c) \/ ConfirmBatch(c) \/ AbandonBatch(c)

JournalSpec == JournalInit /\ [][JournalNext]_journalVars

-----------------------------------------------------------------------------

\* Every event ever journalled is in the table or in an object in R2, however
\* cycles overlap and wherever they die (archiveJournal, journalArchiveObjects).
NoEventIsLost ==
    \A s \in 1 .. lastSeq : s \in journal \/ \E o \in objects : s \in o.rows

\* The table holds exactly the events above the watermark, so a reader that
\* joins archive and table sees no gap (markArchived).
WatermarkSplitsHistory == journal = (watermark + 1) .. lastSeq
=============================================================================
