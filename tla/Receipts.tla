------------------------------ MODULE Receipts ------------------------------
(***************************************************************************)
(* One write sent more than once under one idempotency key.  The worker    *)
(* keeps answers in D1, written after the Durable Object committed; the    *)
(* Durable Object keeps a receipt in the transaction of the write itself.  *)
(* A request can be duplicated, its worker can die at any point, either    *)
(* store can fail, and the sweep prunes old receipts.                      *)
(*                                                                         *)
(* A key belongs to one route: "fast" has both stores (tasks, records),    *)
(* "direct" only the receipt (claims, agents, rooms), "durable" a command  *)
(* receipt that is never pruned (queue, attempts, questions), and "front"  *)
(* only D1 (gates and the other routes that forward no key).  A body       *)
(* stands for its hash; rows from before hashes were stored are left out.  *)
(***************************************************************************)
EXTENDS Integers, Sequences

CONSTANTS
    Call,         \* requests on the wire, retries included
    Key,
    Body,
    NoReceipt,
    ReceiptTtl,   \* DO_IDEMPOTENCY_TTL_MS
    RetryHorizon, \* how long after the first request a client still retries it
    Flight,       \* how long a request can be under way
    MaxAge        \* bounds time

ASSUME ReceiptsAssumption ==
    /\ ReceiptTtl \in Nat /\ RetryHorizon \in Nat /\ Flight \in Nat /\ MaxAge \in Nat
    /\ RetryHorizon + Flight <= ReceiptTtl
ASSUME NoReceiptAssumption ==
    NoReceipt \notin [body : Body, result : Nat]
                     \union [body : Body, result : Nat, at : Nat]

VARIABLES
    route,        \* [Key -> the kind of route the key is used on]
    age,          \* time
    firstSent,    \* [Key -> when it was first used, -1 before]
    calls,
    answers,      \* _idempotency in D1
    receipts,     \* _do_idempotency, or queue_operation_receipts
    effects       \* the writes that committed, in order

receiptVars == <<route, age, firstSent, calls, answers, receipts, effects>>

Phase == {"idle", "sent", "missed", "written", "answered", "failed"}
UnderWay(c) == calls[c].phase \in {"sent", "missed", "written"}

UsesAnswers(k) == route[k] \in {"fast", "front"}
UsesReceipts(k) == route[k] # "front"

\* The request got past the middleware.
AtHandler(c) ==
    \/ calls[c].phase = "missed"
    \/ calls[c].phase = "sent" /\ ~UsesAnswers(calls[c].key)

ReceiptsInit ==
    /\ route \in [Key -> {"fast", "direct", "durable", "front"}]
    /\ age = 0
    /\ firstSent = [k \in Key |-> -1]
    /\ calls = [c \in Call |-> [phase |-> "idle"]]
    /\ answers = [k \in Key |-> NoReceipt]
    /\ receipts = [k \in Key |-> NoReceipt]
    /\ effects = << >>

MovesTo(c, phase) == calls' = [calls EXCEPT ![c].phase = phase]

\* A client sends a request, or sends one again, with the same or another body.
Send(c, k, b) ==
    /\ calls[c].phase = "idle"
    /\ \/ firstSent[k] < 0
       \/ age - firstSent[k] <= RetryHorizon
       \/ route[k] = "durable"
    /\ firstSent' = [firstSent EXCEPT ![k] = IF @ < 0 THEN age ELSE @]
    /\ calls' = [calls EXCEPT ![c] = [phase |-> "sent", key |-> k, body |-> b,
                                      at |-> age, result |-> 0]]
    /\ UNCHANGED <<route, age, answers, receipts, effects>>

\* Mutant of AnswerFor: a stored answer is replayed whatever the body.
AnswerFor_AnyBody(c, row) == row.result

\* What a stored row answers: its result, or 0 for the conflict a different
\* body gets.
AnswerFor(c, row) == IF row.body = calls[c].body THEN row.result ELSE 0

Replay(c, row) ==
    calls' = [calls EXCEPT ![c].phase = IF AnswerFor(c, row) # 0 THEN "answered" ELSE "failed",
                           ![c].result = AnswerFor(c, row)]

\* The middleware looks into D1 before the handler runs.
CheckAnswers(c) ==
    /\ calls[c].phase = "sent"
    /\ UsesAnswers(calls[c].key)
    /\ IF answers[calls[c].key] = NoReceipt
       THEN MovesTo(c, "missed")
       ELSE Replay(c, answers[calls[c].key])
    /\ UNCHANGED <<route, age, firstSent, answers, receipts, effects>>

\* The transaction in the Durable Object: replay, conflict, or the write and
\* its receipt together.
Execute(c) ==
    LET k == calls[c].key IN
    /\ AtHandler(c)
    /\ IF UsesReceipts(k) /\ receipts[k] # NoReceipt
       THEN /\ calls' = [calls EXCEPT
                  ![c].phase = IF AnswerFor(c, receipts[k]) # 0 THEN "written" ELSE "failed",
                  ![c].result = AnswerFor(c, receipts[k])]
            /\ UNCHANGED <<receipts, effects>>
       ELSE /\ effects' = Append(effects, [key |-> k, body |-> calls[c].body])
            /\ calls' = [calls EXCEPT ![c].phase = "written", ![c].result = Len(effects')]
            /\ receipts' = IF UsesReceipts(k)
                           THEN [receipts EXCEPT ![k] = [body |-> calls[c].body,
                                                         result |-> Len(effects'), at |-> age]]
                           ELSE receipts
    /\ UNCHANGED <<route, age, firstSent, answers>>

\* The write is refused (a stale fence, a claim held by another): the
\* transaction leaves nothing behind, so the next attempt looks again.
Refuse(c) ==
    LET k == calls[c].key IN
    /\ AtHandler(c)
    /\ UsesReceipts(k) => receipts[k] = NoReceipt
    /\ MovesTo(c, "failed")
    /\ UNCHANGED <<route, age, firstSent, answers, receipts, effects>>

StoreAnswer(c) ==
    answers' = [answers EXCEPT ![calls[c].key] =
                    IF @ # NoReceipt THEN @
                    ELSE [body |-> calls[c].body, result |-> calls[c].result]]

\* The write is answered; on the routes with D1 the answer is stored first, or
\* the store fails and the failure is swallowed.
Reply(c) ==
    /\ calls[c].phase = "written"
    /\ MovesTo(c, "answered")
    /\ \/ UsesAnswers(calls[c].key) /\ StoreAnswer(c)
       \/ UNCHANGED answers
    /\ UNCHANGED <<route, age, firstSent, receipts, effects>>

\* The worker dies, D1 cannot be read (503), or the answer is lost.
Fail(c) ==
    /\ UnderWay(c)
    /\ calls' = [calls EXCEPT ![c] = [phase |-> "failed"]]
    /\ UNCHANGED <<route, age, firstSent, answers, receipts, effects>>

\* Mutant of Prunable: receipts of this moment are pruned as well.
Prunable_Young(row) == TRUE

Prunable(row) == row.at < age - ReceiptTtl

\* Every sweep prunes; the receipts of queue commands are in another table.
PruneReceipts ==
    /\ receipts' = [k \in Key |->
           IF receipts[k] # NoReceipt /\ route[k] # "durable" /\ Prunable(receipts[k])
           THEN NoReceipt ELSE receipts[k]]
    /\ receipts' # receipts
    /\ UNCHANGED <<route, age, firstSent, calls, answers, effects>>

\* Time passes; no request is under way for longer than Flight.
AgeReceipts ==
    /\ age < MaxAge
    /\ \A c \in Call : UnderWay(c) /\ route[calls[c].key] # "durable" =>
                           age - calls[c].at < Flight
    /\ age' = age + 1
    /\ UNCHANGED <<route, firstSent, calls, answers, receipts, effects>>

ReceiptsNext ==
    \/ \E c \in Call, k \in Key, b \in Body : Send(c, k, b)
    \/ \E c \in Call : CheckAnswers(c) \/ Execute(c) \/ Refuse(c) \/ Reply(c) \/ Fail(c)
    \/ PruneReceipts
    \/ AgeReceipts

ReceiptsSpec == ReceiptsInit /\ [][ReceiptsNext]_receiptVars

-----------------------------------------------------------------------------

\* A write with an idempotency key commits at most once, whatever is retried,
\* lost or pruned, on every route that keeps a receipt with the write
\* (withDoIdempotency, command).
WritesCommitOnce ==
    \A i, j \in 1 .. Len(effects) :
        i # j /\ effects[i].key = effects[j].key => ~UsesReceipts(effects[i].key)

\* An answer is the result of a write that committed with the caller's own key
\* and body, on every route.
AnswersMatchRequests ==
    \A c \in Call : calls[c].phase = "answered" =>
        /\ calls[c].result \in 1 .. Len(effects)
        /\ effects[calls[c].result] = [key |-> calls[c].key, body |-> calls[c].body]
=============================================================================
