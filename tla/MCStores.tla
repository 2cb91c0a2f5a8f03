------------------------------ MODULE MCStores ------------------------------
(* What is kept or decided in two places, one subject at a time: the one   *)
(* chosen at the start runs, the others keep their first state.            *)
EXTENDS Receipts, JournalArchive, ArtifactRevisions, Restore, Dispatch, Records, Readiness

CONSTANT r1

VARIABLE subject

storeVars == <<subject, receiptVars, journalVars, revisionVars, restoreVars, dispatchVars,
               recordVars, readinessVars>>

\* Calls, operations, bodies and contents are alike: of the alike orders in
\* which they can be used, one is taken.
CallsInOrder ==
    /\ \A c \in Call \ {1} : calls'[c].phase # "idle" => calls[c - 1].phase # "idle"
    /\ calls[1].phase = "idle" /\ calls'[1].phase # "idle" => calls'[1].body = 1
OpsInOrder ==
    /\ \A o \in Op \ {1} : ops'[o] # NoOp => ops[o - 1] # NoOp
    /\ ops[1] = NoOp /\ ops'[1] # NoOp => ops'[1].content = 1

\* Two events a month.
MCMonthOf == [s \in 1 .. MaxSeq |-> (s + 1) \div 2]

\* A lineage whose database was lost is rebuilt and not written again.
RebuiltOnce == recovery.lost => lineageFence = 0

\* Either two runs compete for the agent, with one delivery that no budget and
\* no unanswered wake has stopped,
OneDelivery == \A d \in Delivery : mail[d].state # "none" =>
                                       d = 1 /\ ~mail[d].stopped /\ mail[d].rewakes = 0
\* or one run stays attached and two messages come in to the agent.
OneSession ==
    /\ epoch <= 1 /\ ~retired
    /\ \A r \in Run : bindings[r].state \in IF r = r1 THEN {"none", "active"} ELSE {"none"}
    /\ \A d \in Delivery : mail[d].target = NoRun

\* Two authors: one creates, sets and patches, the other puts, archives and
\* unarchives; each writes a field of its own.
EditorAndOwner ==
    /\ edits[1].op \in {"none", "create", "set", "patch"}
    /\ edits[2].op \in {"none", "put", "archive", "unarchive"}
    /\ \A a \in Author : edits[a].op \in Replacing =>
           edits[a].input = [f \in Field |-> IF f = a THEN 1 ELSE 0]
    /\ edits[1].op = "patch" => edits[1].input = [f \in {1} |-> 1]

\* Every graph over tasks of every kind, with at most one edge from a task to
\* itself and one task that is missing or has no status; the listed are walked.
GraphsInit ==
    /\ ReadinessInit
    /\ \/ /\ subject = "readiness"
          /\ \A u, v \in Unit : u # v =>
                ~(u \in predecessors[u] /\ v \in predecessors[v])
          /\ \A u, v \in Unit : u # v => ~({kindOf[u], kindOf[v]} \subseteq {"missing", "vacant"})
       \/ /\ subject # "readiness"
          /\ kindOf = [u \in Unit |-> "open"]
          /\ predecessors = [u \in Unit |-> {}]

StoresInit ==
    /\ subject \in {"receipts", "journal", "revisions", "restore", "dispatch", "records",
                    "readiness"}
    /\ ReceiptsInit /\ JournalInit /\ RevisionsInit /\ RestoreInit /\ DispatchInit
    /\ RecordsInit
    /\ subject # "receipts" => route = [k \in Key |-> "front"]
    /\ subject # "restore" => archives = [given |-> Blank, safety |-> Blank]
    /\ subject # "records" => backend = "hosted"
    /\ GraphsInit

StoresNext ==
    /\ UNCHANGED subject
    /\ IF subject = "receipts" THEN ReceiptsNext /\ CallsInOrder
       ELSE UNCHANGED receiptVars
    /\ IF subject = "journal" THEN JournalNext ELSE UNCHANGED journalVars
    /\ IF subject = "revisions" THEN RevisionsNext /\ RebuiltOnce' /\ OpsInOrder
       ELSE UNCHANGED revisionVars
    /\ IF subject = "restore" THEN RestoreNext ELSE UNCHANGED restoreVars
    /\ IF subject = "dispatch" THEN DispatchNext /\ (OneDelivery \/ OneSession)'
       ELSE UNCHANGED dispatchVars
    /\ IF subject = "records" THEN RecordsNext /\ EditorAndOwner' ELSE UNCHANGED recordVars
    /\ IF subject = "readiness"
       THEN ReadinessNext /\ walk'.id \in {0} \union {u \in Unit : Listed(u)}
       ELSE UNCHANGED readinessVars

StoresSpec == StoresInit /\ [][StoresNext]_storeVars
=============================================================================
