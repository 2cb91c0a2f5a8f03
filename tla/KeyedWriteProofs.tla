-------------------------- MODULE KeyedWriteProofs --------------------------
(***************************************************************************)
(* Theorems about writes that are sent twice or beside one another: module *)
(* Receipts, for every number of requests, keys and bodies and for all     *)
(* retention times; module Records, for every set of authors, fields and   *)
(* data, with calls that overlap, are lost or die at any step.             *)
(*                                                                         *)
(* WritesCommitOnce: a key that has committed keeps its receipt, or the    *)
(* receipt was pruned and the key's time is over.  Pruning happens more    *)
(* than ReceiptTtl after the commit and so more than RetryHorizon + Flight *)
(* after the key's first request, when nobody sends it again and no        *)
(* request of it can still be under way.                                   *)
(*                                                                         *)
(* NoUpdateIsLost: every transaction leaves the fence above every fence    *)
(* that was learned before it.  A call can only commit with the fence of   *)
(* its name's row, so none has committed since that fence was learned, and *)
(* what was read after it was learned is still what the row holds.         *)
(***************************************************************************)
EXTENDS Receipts, Records, SequenceTheorems, TLAPS

-----------------------------------------------------------------------------
(* Requests under idempotency keys.                                        *)

Effect == [key : Key, body : Body]
AnswerRow == [body : Body, result : Nat]
ReceiptRow == [body : Body, result : Nat, at : Nat]

\* A request whose worker died is forgotten; any other one is kept as it is.
CallRow == [phase : {"idle", "failed"}]
           \union [phase : Phase \ {"idle"}, key : Key, body : Body, at : Nat, result : Nat]

ReceiptsTypeOK ==
    /\ route \in [Key -> {"fast", "direct", "durable", "front"}]
    /\ age \in Nat
    /\ firstSent \in [Key -> Nat \union {-1}]
    /\ calls \in [Call -> CallRow]
    /\ answers \in [Key -> AnswerRow \union {NoReceipt}]
    /\ receipts \in [Key -> ReceiptRow \union {NoReceipt}]
    /\ effects \in Seq(Effect)

\* Nothing of the key is under way, and its client has given it up.
KeyIsOver(k) ==
    /\ route[k] # "durable"
    /\ firstSent[k] >= 0 /\ age - firstSent[k] > RetryHorizon
    /\ \A c \in Call : UnderWay(c) => calls[c].key # k

\* A request under way was sent within its key's retries, and not long ago.
RequestsAreTimely ==
    \A c \in Call : UnderWay(c) =>
        LET k == calls[c].key IN
        /\ 0 <= firstSent[k] /\ firstSent[k] <= calls[c].at /\ calls[c].at <= age
        /\ route[k] # "durable" => /\ calls[c].at - firstSent[k] <= RetryHorizon
                                   /\ age - calls[c].at <= Flight

ReceiptsAreDated ==
    \A k \in Key :
        /\ firstSent[k] <= age
        /\ receipts[k] # NoReceipt =>
               0 <= firstSent[k] /\ firstSent[k] <= receipts[k].at /\ receipts[k].at <= age

\* The write of a key leaves its receipt for as long as a request can ask for it.
CommittedKeysAreKnown ==
    \A i \in 1 .. Len(effects) :
        LET k == effects[i].key IN
        UsesReceipts(k) => receipts[k] # NoReceipt \/ KeyIsOver(k)

\* The result is that of a write with this key and this body.
ResultOf(result, k, b) ==
    result \in 1 .. Len(effects) /\ effects[result] = [key |-> k, body |-> b]

\* Every store, and every request that has a result, holds one of its own key.
ResultsMatch ==
    /\ \A k \in Key : receipts[k] # NoReceipt => ResultOf(receipts[k].result, k, receipts[k].body)
    /\ \A k \in Key : answers[k] # NoReceipt => ResultOf(answers[k].result, k, answers[k].body)
    /\ \A c \in Call : calls[c].phase \in {"written", "answered"} =>
           ResultOf(calls[c].result, calls[c].key, calls[c].body)

ReceiptsInv ==
    /\ ReceiptsTypeOK /\ RequestsAreTimely /\ ReceiptsAreDated /\ CommittedKeysAreKnown
    /\ WritesCommitOnce /\ ResultsMatch

USE ReceiptsAssumption, NoReceiptAssumption

-----------------------------------------------------------------------------
(* The types of one step.                                                  *)

LEMMA RequestsUnderWayAreWhole ==
    ASSUME ReceiptsTypeOK, NEW c \in Call, calls[c].phase \notin {"idle", "failed"}
    PROVE  /\ calls[c] \in [phase : Phase \ {"idle"}, key : Key, body : Body, at : Nat, result : Nat]
           /\ calls[c].key \in Key /\ calls[c].body \in Body
           /\ calls[c].at \in Nat /\ calls[c].result \in Nat
  BY DEF ReceiptsTypeOK, CallRow

\* What changes a request changes only its phase and its result.
LEMMA MovedCall ==
    ASSUME ReceiptsTypeOK, NEW c \in Call, calls[c].phase \notin {"idle", "failed"},
           NEW phase \in Phase \ {"idle"}, NEW result \in Nat,
           calls' = [calls EXCEPT ![c].phase = phase, ![c].result = result]
    PROVE  /\ calls' \in [Call -> CallRow]
           /\ calls'[c].phase = phase /\ calls'[c].result = result
           /\ calls'[c].key = calls[c].key /\ calls'[c].body = calls[c].body
           /\ calls'[c].at = calls[c].at
           /\ \A d \in Call \ {c} : calls'[d] = calls[d]
<1>1. calls[c] \in [phase : Phase \ {"idle"}, key : Key, body : Body, at : Nat, result : Nat]
  BY RequestsUnderWayAreWhole
<1>2. calls'[c] = [phase |-> phase, key |-> calls[c].key, body |-> calls[c].body,
                   at |-> calls[c].at, result |-> result]
  BY <1>1 DEF ReceiptsTypeOK
<1>3. \A d \in Call \ {c} : calls'[d] = calls[d]
  BY DEF ReceiptsTypeOK
<1>4. /\ calls'[c].phase = phase /\ calls'[c].result = result
      /\ calls'[c].key = calls[c].key /\ calls'[c].body = calls[c].body
      /\ calls'[c].at = calls[c].at
      /\ calls'[c] \in CallRow
  BY <1>1, <1>2 DEF CallRow
<1>5. calls' \in [Call -> CallRow]
  BY <1>3, <1>4 DEF ReceiptsTypeOK
<1>6. QED
  BY <1>3, <1>4, <1>5

LEMMA MovesToCall ==
    ASSUME ReceiptsTypeOK, NEW c \in Call, calls[c].phase \notin {"idle", "failed"},
           NEW phase \in Phase \ {"idle"}, MovesTo(c, phase)
    PROVE  /\ calls' \in [Call -> CallRow]
           /\ calls'[c].phase = phase /\ calls'[c].result = calls[c].result
           /\ calls'[c].key = calls[c].key /\ calls'[c].body = calls[c].body
           /\ calls'[c].at = calls[c].at
           /\ \A d \in Call \ {c} : calls'[d] = calls[d]
<1>1. calls[c] \in [phase : Phase \ {"idle"}, key : Key, body : Body, at : Nat, result : Nat]
  BY RequestsUnderWayAreWhole
<1>2. calls'[c] = [phase |-> phase, key |-> calls[c].key, body |-> calls[c].body,
                   at |-> calls[c].at, result |-> calls[c].result]
  BY <1>1 DEF ReceiptsTypeOK, MovesTo
<1>3. \A d \in Call \ {c} : calls'[d] = calls[d]
  BY DEF ReceiptsTypeOK, MovesTo
<1>4. /\ calls'[c].phase = phase /\ calls'[c].result = calls[c].result
      /\ calls'[c].key = calls[c].key /\ calls'[c].body = calls[c].body
      /\ calls'[c].at = calls[c].at
      /\ calls'[c] \in CallRow
  BY <1>1, <1>2 DEF CallRow
<1>5. calls' \in [Call -> CallRow]
  BY <1>3, <1>4 DEF ReceiptsTypeOK, MovesTo
<1>6. QED
  BY <1>3, <1>4, <1>5

\* A step of the model, by what it does to the requests: at most one of them
\* changes, a request keeps its key and body for as long as it is under way, and
\* only Send starts one.
LEMMA SentCall ==
    ASSUME ReceiptsTypeOK, NEW c \in Call, NEW k \in Key, NEW b \in Body, Send(c, k, b)
    PROVE  /\ calls' \in [Call -> CallRow]
           /\ calls'[c] = [phase |-> "sent", key |-> k, body |-> b, at |-> age, result |-> 0]
           /\ \A d \in Call \ {c} : calls'[d] = calls[d]
           /\ firstSent' \in [Key -> Nat \union {-1}]
           /\ firstSent'[k] >= 0
           /\ firstSent'[k] = IF firstSent[k] < 0 THEN age ELSE firstSent[k]
           /\ \A l \in Key \ {k} : firstSent'[l] = firstSent[l]
<1>1. [phase |-> "sent", key |-> k, body |-> b, at |-> age, result |-> 0] \in CallRow
  BY DEF ReceiptsTypeOK, CallRow, Phase
<1>2. QED
  BY <1>1 DEF ReceiptsTypeOK, Send

LEMMA AnswerForIsNat ==
    ASSUME ReceiptsTypeOK, NEW c \in Call, NEW row \in AnswerRow \union ReceiptRow
    PROVE  AnswerFor(c, row) \in Nat
  BY DEF AnswerFor, AnswerRow, ReceiptRow

LEMMA EffectsAreWhole ==
    ASSUME ReceiptsTypeOK
    PROVE  \A i \in 1 .. Len(effects) : effects[i] \in Effect /\ effects[i].key \in Key
<1>1. effects \in Seq(Effect)
  BY DEF ReceiptsTypeOK
<1>2. \A i \in 1 .. Len(effects) : effects[i] \in Effect
  BY <1>1
<1>3. QED
  BY <1>2 DEF Effect

LEMMA Appended ==
    ASSUME ReceiptsTypeOK, NEW e \in Effect
    PROVE  /\ Append(effects, e) \in Seq(Effect)
           /\ Len(effects) \in Nat /\ Len(Append(effects, e)) = Len(effects) + 1
           /\ \A i \in 1 .. Len(effects) : Append(effects, e)[i] = effects[i]
           /\ Append(effects, e)[Len(effects) + 1] = e
  BY DEF ReceiptsTypeOK

-----------------------------------------------------------------------------
(* The invariant holds at the start and is kept by every step.             *)

LEMMA ReceiptsStart == ReceiptsInit => ReceiptsInv
<1> SUFFICES ASSUME ReceiptsInit PROVE ReceiptsInv
  OBVIOUS
<1>1. ReceiptsTypeOK
  BY DEF ReceiptsInit, ReceiptsTypeOK, CallRow
<1>2. \A c \in Call : calls[c].phase = "idle"
  BY DEF ReceiptsInit
<1>3. Len(effects) = 0 /\ 1 .. Len(effects) = {}
  BY DEF ReceiptsInit
<1>4. QED
  BY <1>1, <1>2, <1>3
     DEF ReceiptsInit, ReceiptsInv, RequestsAreTimely, UnderWay, ReceiptsAreDated,
         CommittedKeysAreKnown, WritesCommitOnce, ResultsMatch

LEMMA SendKeeps ==
    ASSUME ReceiptsInv, NEW c \in Call, NEW k \in Key, NEW b \in Body, Send(c, k, b)
    PROVE  ReceiptsInv'
<1>. USE DEF ReceiptsInv
<1>1. /\ calls' \in [Call -> CallRow]
      /\ calls'[c] = [phase |-> "sent", key |-> k, body |-> b, at |-> age, result |-> 0]
      /\ \A d \in Call \ {c} : calls'[d] = calls[d]
      /\ firstSent' \in [Key -> Nat \union {-1}]
      /\ firstSent'[k] >= 0
      /\ firstSent'[k] = IF firstSent[k] < 0 THEN age ELSE firstSent[k]
      /\ \A l \in Key \ {k} : firstSent'[l] = firstSent[l]
  BY SentCall
<1>2. /\ route' = route /\ age' = age /\ answers' = answers /\ receipts' = receipts
      /\ effects' = effects
      /\ firstSent[k] < 0 \/ age - firstSent[k] <= RetryHorizon \/ route[k] = "durable"
  BY DEF Send
<1>3. ReceiptsTypeOK'
  BY <1>1, <1>2 DEF ReceiptsTypeOK
<1>4. \A l \in Key : firstSent[l] >= 0 => firstSent'[l] = firstSent[l]
  BY <1>1 DEF ReceiptsTypeOK
<1>5. RequestsAreTimely'
  <2> SUFFICES ASSUME NEW d \in Call, UnderWay(d)'
               PROVE  LET l == calls'[d].key IN
                      /\ 0 <= firstSent'[l] /\ firstSent'[l] <= calls'[d].at
                      /\ calls'[d].at <= age'
                      /\ route'[l] # "durable" =>
                             /\ calls'[d].at - firstSent'[l] <= RetryHorizon
                             /\ age' - calls'[d].at <= Flight
    BY DEF RequestsAreTimely
  <2>1. CASE d = c
    <3>1. calls'[d].key = k /\ calls'[d].at = age
      BY <2>1, <1>1
    <3>2. firstSent[k] \in Nat \union {-1} /\ age \in Nat
      BY DEF ReceiptsTypeOK
    <3>3. firstSent[k] <= age
      BY DEF ReceiptsAreDated
    <3>4. QED
      BY <3>1, <3>2, <3>3, <1>1, <1>2
  <2>2. CASE d # c
    BY <2>2, <1>1, <1>2, <1>4, RequestsUnderWayAreWhole DEF RequestsAreTimely, UnderWay
  <2>3. QED
    BY <2>1, <2>2
<1>6. ReceiptsAreDated'
  BY <1>1, <1>2, <1>4 DEF ReceiptsTypeOK, ReceiptsAreDated
<1>7. CommittedKeysAreKnown'
  <2>1. ~KeyIsOver(k)
    BY <1>2 DEF KeyIsOver, ReceiptsTypeOK
  <2>2. ASSUME NEW l \in Key, KeyIsOver(l) PROVE KeyIsOver(l)'
    <3>1. l # k
      BY <2>1, <2>2
    <3>2. firstSent'[l] = firstSent[l]
      BY <3>1, <1>1
    <3>3. \A d \in Call : UnderWay(d)' => calls'[d].key # l
      BY <2>2, <3>1, <1>1 DEF KeyIsOver, UnderWay
    <3>4. QED
      BY <2>2, <3>2, <3>3, <1>2 DEF KeyIsOver
  <2>3. \A i \in 1 .. Len(effects) : effects[i].key \in Key
    BY EffectsAreWhole
  <2>4. QED
    BY <2>2, <2>3, <1>2 DEF CommittedKeysAreKnown, UsesReceipts
<1>8. WritesCommitOnce'
  BY <1>2 DEF WritesCommitOnce, UsesReceipts
<1>9. ResultsMatch'
  <2>1. \A d \in Call : calls'[d].phase \in {"written", "answered"} => calls'[d] = calls[d]
    BY <1>1
  <2>2. QED
    BY <2>1, <1>2 DEF ResultsMatch, ResultOf
<1>10. QED
  BY <1>3, <1>5, <1>6, <1>7, <1>8, <1>9

\* A step of one request that starts none keeps what the requests under way and
\* the keys that are over promise.
LEMMA OneRequestMoves ==
    ASSUME ReceiptsInv,
           UNCHANGED <<route, age, firstSent>>,
           \A d \in Call : UnderWay(d)' => /\ UnderWay(d)
                                           /\ calls'[d].key = calls[d].key
                                           /\ calls'[d].at = calls[d].at
    PROVE  /\ RequestsAreTimely'
           /\ \A k \in Key : KeyIsOver(k) => KeyIsOver(k)'
<1>1. RequestsAreTimely'
  BY DEF ReceiptsInv, RequestsAreTimely
<1>2. ASSUME NEW k \in Key, KeyIsOver(k) PROVE KeyIsOver(k)'
  BY <1>2 DEF KeyIsOver
<1>3. QED
  BY <1>1, <1>2

\* ... and the whole invariant, when it leaves the stores and the writes alone
\* and its result, if it has one now, matches.
LEMMA RequestMoves ==
    ASSUME ReceiptsInv, NEW c \in Call,
           UNCHANGED <<route, age, firstSent, answers, receipts, effects>>,
           calls' \in [Call -> CallRow],
           \A d \in Call \ {c} : calls'[d] = calls[d],
           UnderWay(c)' => /\ UnderWay(c)
                           /\ calls'[c].key = calls[c].key
                           /\ calls'[c].at = calls[c].at,
           calls'[c].phase \in {"written", "answered"} =>
               ResultOf(calls'[c].result, calls'[c].key, calls'[c].body)
    PROVE  ReceiptsInv'
<1>1. /\ RequestsAreTimely'
      /\ \A k \in Key : KeyIsOver(k) => KeyIsOver(k)'
  BY OneRequestMoves DEF UnderWay
<1>2. ReceiptsTypeOK'
  BY DEF ReceiptsInv, ReceiptsTypeOK
<1>3. ReceiptsAreDated' /\ WritesCommitOnce'
  BY DEF ReceiptsInv, ReceiptsAreDated, WritesCommitOnce, UsesReceipts
<1>4. CommittedKeysAreKnown'
  BY <1>1, EffectsAreWhole DEF ReceiptsInv, CommittedKeysAreKnown, UsesReceipts
<1>5. ResultsMatch'
  <2>1. \A d \in Call : calls'[d].phase \in {"written", "answered"} =>
            ResultOf(calls'[d].result, calls'[d].key, calls'[d].body)
    BY DEF ReceiptsInv, ResultsMatch
  <2>2. QED
    BY <2>1 DEF ReceiptsInv, ResultsMatch, ResultOf
<1>6. QED
  BY <1>1, <1>2, <1>3, <1>4, <1>5 DEF ReceiptsInv

LEMMA CheckAnswersKeeps ==
    ASSUME ReceiptsInv, NEW c \in Call, CheckAnswers(c)
    PROVE  ReceiptsInv'
<1>. DEFINE k == calls[c].key
<1>1. /\ calls[c].phase = "sent" /\ k \in Key /\ calls[c].body \in Body
      /\ ReceiptsTypeOK
  BY RequestsUnderWayAreWhole DEF ReceiptsInv, CheckAnswers
<1>2. CASE answers[k] = NoReceipt
  <2>1. MovesTo(c, "missed")
    BY <1>2 DEF CheckAnswers
  <2>2. QED
    BY <1>1, <2>1, MovesToCall, RequestMoves DEF CheckAnswers, UnderWay, Phase
<1>3. CASE answers[k] # NoReceipt
  <2>. DEFINE result == AnswerFor(c, answers[k])
              phase == IF result # 0 THEN "answered" ELSE "failed"
  <2>1. answers[k] \in AnswerRow
    BY <1>1, <1>3 DEF ReceiptsTypeOK
  <2>2. result \in Nat
    BY <1>1, <2>1, AnswerForIsNat
  <2>3. phase \in Phase \ {"idle"}
    BY DEF Phase
  <2>4. calls' = [calls EXCEPT ![c].phase = phase, ![c].result = result]
    BY <1>3 DEF CheckAnswers, Replay
  <2>5. /\ calls' \in [Call -> CallRow]
        /\ calls'[c].phase = phase /\ calls'[c].result = result
        /\ calls'[c].key = calls[c].key /\ calls'[c].body = calls[c].body
        /\ calls'[c].at = calls[c].at
        /\ \A d \in Call \ {c} : calls'[d] = calls[d]
    <3>. HIDE DEF phase, result
    <3>1. QED
      BY <1>1, <2>2, <2>3, <2>4, MovedCall
  <2>6. phase = "answered" => ResultOf(result, k, calls[c].body)
    BY <1>1, <1>3 DEF AnswerFor, ReceiptsInv, ResultsMatch
  <2>7. QED
    BY <1>1, <2>5, <2>6, RequestMoves DEF CheckAnswers, UnderWay
<1>4. QED
  BY <1>2, <1>3

LEMMA RefuseKeeps ==
    ASSUME ReceiptsInv, NEW c \in Call, Refuse(c)
    PROVE  ReceiptsInv'
<1>1. calls[c].phase \in {"sent", "missed"} /\ ReceiptsTypeOK
  BY DEF ReceiptsInv, Refuse, AtHandler
<1>2. MovesTo(c, "failed")
  BY DEF Refuse
<1>3. QED
  BY <1>1, <1>2, MovesToCall, RequestMoves DEF Refuse, UnderWay, Phase

LEMMA FailKeeps ==
    ASSUME ReceiptsInv, NEW c \in Call, Fail(c)
    PROVE  ReceiptsInv'
<1>1. calls' \in [Call -> CallRow] /\ calls'[c].phase = "failed"
  BY DEF ReceiptsInv, ReceiptsTypeOK, Fail, CallRow
<1>2. \A d \in Call \ {c} : calls'[d] = calls[d]
  BY DEF ReceiptsInv, ReceiptsTypeOK, Fail
<1>3. QED
  BY <1>1, <1>2, RequestMoves DEF Fail, UnderWay

\* A transaction that finds the receipt of its key answers from it.  One that
\* finds none is the first of its key on a route that keeps receipts: what
\* committed earlier would be known, or the key would be over.
LEMMA ExecuteKeeps ==
    ASSUME ReceiptsInv, NEW c \in Call, Execute(c)
    PROVE  ReceiptsInv'
<1>. DEFINE k == calls[c].key
            b == calls[c].body
<1>1. /\ calls[c].phase \in {"sent", "missed"} /\ k \in Key /\ b \in Body
      /\ ReceiptsTypeOK /\ UnderWay(c)
  BY RequestsUnderWayAreWhole DEF ReceiptsInv, Execute, AtHandler, UnderWay
<1>2. CASE UsesReceipts(k) /\ receipts[k] # NoReceipt
  <2>. DEFINE result == AnswerFor(c, receipts[k])
              phase == IF result # 0 THEN "written" ELSE "failed"
  <2>1. receipts[k] \in ReceiptRow
    BY <1>1, <1>2 DEF ReceiptsTypeOK
  <2>2. result \in Nat
    BY <1>1, <2>1, AnswerForIsNat
  <2>3. phase \in Phase \ {"idle"}
    BY DEF Phase
  <2>4. /\ calls' = [calls EXCEPT ![c].phase = phase, ![c].result = result]
        /\ UNCHANGED <<route, age, firstSent, answers, receipts, effects>>
    BY <1>2 DEF Execute
  <2>5. /\ calls' \in [Call -> CallRow]
        /\ calls'[c].phase = phase /\ calls'[c].result = result
        /\ calls'[c].key = calls[c].key /\ calls'[c].body = calls[c].body
        /\ calls'[c].at = calls[c].at
        /\ \A d \in Call \ {c} : calls'[d] = calls[d]
    <3>. HIDE DEF phase, result
    <3>1. QED
      BY <1>1, <2>2, <2>3, <2>4, MovedCall
  <2>6. phase = "written" => ResultOf(result, k, b)
    BY <1>1, <1>2 DEF AnswerFor, ReceiptsInv, ResultsMatch
  <2>7. QED
    BY <1>1, <2>4, <2>5, <2>6, RequestMoves DEF UnderWay
<1>3. CASE ~(UsesReceipts(k) /\ receipts[k] # NoReceipt)
  <2>. DEFINE e == [key |-> k, body |-> b]
              n == Len(effects) + 1
              row == [body |-> b, result |-> n, at |-> age]
  <2>1. /\ effects' = Append(effects, e)
        /\ UNCHANGED <<route, age, firstSent, answers>>
        /\ calls' = [calls EXCEPT ![c].phase = "written", ![c].result = Len(effects')]
        /\ receipts' = IF UsesReceipts(k)
                       THEN [receipts EXCEPT ![k] = [body |-> b, result |-> Len(effects'),
                                                     at |-> age]]
                       ELSE receipts
    BY <1>3 DEF Execute
  <2>2. /\ effects' \in Seq(Effect) /\ Len(effects) \in Nat /\ Len(effects') = n
        /\ \A i \in 1 .. Len(effects) : effects'[i] = effects[i]
        /\ effects'[n] = e
    <3>1. e \in Effect
      BY <1>1 DEF Effect
    <3>. HIDE DEF e
    <3>2. QED
      BY <1>1, <2>1, <3>1, Appended
  <2>3. \A i \in 1 .. Len(effects') : i = n \/ i \in 1 .. Len(effects)
    BY <2>2
  <2>4. /\ calls' \in [Call -> CallRow]
        /\ calls'[c].phase = "written" /\ calls'[c].result = n
        /\ calls'[c].key = k /\ calls'[c].body = b /\ calls'[c].at = calls[c].at
        /\ \A d \in Call \ {c} : calls'[d] = calls[d]
    <3>1. "written" \in Phase \ {"idle"} /\ Len(effects') \in Nat
      BY <2>2 DEF Phase
    <3>2. calls' = [calls EXCEPT ![c].phase = "written", ![c].result = n] /\ n \in Nat
      BY <2>1, <2>2
    <3>3. calls[c].phase \notin {"idle", "failed"}
      BY <1>1
    <3>. HIDE DEF n
    <3>4. QED
      BY <1>1, <3>1, <3>2, <3>3, MovedCall
  <2>5. /\ RequestsAreTimely'
        /\ \A l \in Key : KeyIsOver(l) => KeyIsOver(l)'
    BY <1>1, <2>1, <2>4, OneRequestMoves DEF UnderWay
  <2>6. /\ \A l \in Key \ {k} : receipts'[l] = receipts[l]
        /\ UsesReceipts(k) => receipts'[k] = row
        /\ ~UsesReceipts(k) => receipts' = receipts
        /\ row \in ReceiptRow /\ row # NoReceipt
        /\ receipts' \in [Key -> ReceiptRow \union {NoReceipt}]
    <3>1. row \in ReceiptRow /\ row # NoReceipt
      BY <1>1, <2>2 DEF ReceiptRow, ReceiptsTypeOK
    <3>2. receipts' = IF UsesReceipts(k) THEN [receipts EXCEPT ![k] = row] ELSE receipts
      BY <2>1, <2>2
    <3>3. QED
      BY <1>1, <3>1, <3>2 DEF ReceiptsTypeOK
  <2>7. UsesReceipts(k) => \A i \in 1 .. Len(effects) : effects[i].key # k
    BY <1>1, <1>3 DEF ReceiptsInv, CommittedKeysAreKnown, KeyIsOver
  <2>8. ReceiptsTypeOK'
    BY <1>1, <2>1, <2>2, <2>4, <2>6 DEF ReceiptsTypeOK
  <2>9. ReceiptsAreDated'
    <3>1. UsesReceipts(k) => receipts'[k].at = age
      BY <2>6
    <3>2. 0 <= firstSent[k] /\ firstSent[k] <= age
      BY <1>1 DEF ReceiptsInv, RequestsAreTimely, ReceiptsAreDated
    <3>3. age <= age
      BY <1>1 DEF ReceiptsTypeOK
    <3>4. QED
      BY <2>1, <2>6, <3>1, <3>2, <3>3 DEF ReceiptsInv, ReceiptsAreDated
  <2>10. CommittedKeysAreKnown'
    <3> SUFFICES ASSUME NEW i \in 1 .. Len(effects'), UsesReceipts(effects[i].key)'
                 PROVE  receipts'[effects'[i].key] # NoReceipt \/ KeyIsOver(effects[i].key)'
      BY DEF CommittedKeysAreKnown
    <3>1. CASE i = n
      BY <3>1, <2>1, <2>2, <2>6 DEF UsesReceipts
    <3>2. CASE i \in 1 .. Len(effects)
      <4>1. effects'[i] = effects[i] /\ effects[i].key \in Key
        BY <3>2, <1>1, <2>2, EffectsAreWhole
      <4>2. receipts[effects[i].key] # NoReceipt \/ KeyIsOver(effects[i].key)
        BY <3>2, <4>1, <2>1 DEF ReceiptsInv, CommittedKeysAreKnown, UsesReceipts
      <4>3. KeyIsOver(effects[i].key) => KeyIsOver(effects[i].key)'
        BY <4>1, <2>5
      <4>4. QED
        BY <4>1, <4>2, <2>5, <2>6
    <3>3. QED
      BY <3>1, <3>2, <2>3
  <2>11. WritesCommitOnce'
    <3> SUFFICES ASSUME NEW i \in 1 .. Len(effects'), NEW j \in 1 .. Len(effects'), i # j,
                        effects'[i].key = effects'[j].key, UsesReceipts(effects'[i].key)
                 PROVE  FALSE
      BY <2>1 DEF WritesCommitOnce, UsesReceipts
    <3>1. CASE i \in 1 .. Len(effects) /\ j \in 1 .. Len(effects)
      BY <3>1, <2>2 DEF ReceiptsInv, WritesCommitOnce
    <3>2. CASE i = n /\ j \in 1 .. Len(effects)
      BY <3>2, <2>2, <2>7
    <3>3. CASE j = n /\ i \in 1 .. Len(effects)
      BY <3>3, <2>2, <2>7
    <3>4. QED
      BY <3>1, <3>2, <3>3, <2>3
  <2>12. ResultsMatch'
    <3>1. ASSUME NEW r, NEW l, NEW d, ResultOf(r, l, d)
          PROVE  r \in 1 .. Len(effects') /\ effects'[r] = [key |-> l, body |-> d]
      BY <3>1, <2>2 DEF ResultOf
    <3>2. n \in 1 .. Len(effects') /\ effects'[n] = [key |-> k, body |-> b]
      BY <2>2
    <3>. HIDE DEF n
    <3>3. \A l \in Key : receipts'[l] # NoReceipt => ResultOf(receipts[l].result, l, receipts[l].body)'
      BY <2>6, <3>1, <3>2 DEF ReceiptsInv, ResultsMatch, ResultOf
    <3>4. \A l \in Key : answers'[l] # NoReceipt => ResultOf(answers[l].result, l, answers[l].body)'
      BY <2>1, <3>1 DEF ReceiptsInv, ResultsMatch, ResultOf
    <3>5. \A d \in Call : calls'[d].phase \in {"written", "answered"} =>
              ResultOf(calls[d].result, calls[d].key, calls[d].body)'
      <4> SUFFICES ASSUME NEW d \in Call, calls'[d].phase \in {"written", "answered"}
                   PROVE  ResultOf(calls[d].result, calls[d].key, calls[d].body)'
        OBVIOUS
      <4>1. CASE d = c
        BY <4>1, <2>4, <3>2 DEF ResultOf
      <4>2. CASE d # c
        BY <4>2, <2>4, <3>1 DEF ReceiptsInv, ResultsMatch, ResultOf
      <4>3. QED
        BY <4>1, <4>2
    <3>6. QED
      BY <3>3, <3>4, <3>5 DEF ResultsMatch
  <2>13. QED
    BY <2>5, <2>8, <2>9, <2>10, <2>11, <2>12 DEF ReceiptsInv
<1>4. QED
  BY <1>2, <1>3

LEMMA ReplyKeeps ==
    ASSUME ReceiptsInv, NEW c \in Call, Reply(c)
    PROVE  ReceiptsInv'
<1>. DEFINE k == calls[c].key
            row == [body |-> calls[c].body, result |-> calls[c].result]
<1>1. /\ calls[c].phase = "written" /\ ReceiptsTypeOK /\ k \in Key
      /\ calls[c].body \in Body /\ calls[c].result \in Nat
  BY RequestsUnderWayAreWhole DEF ReceiptsInv, Reply
<1>2. /\ calls' \in [Call -> CallRow]
      /\ calls'[c].phase = "answered" /\ calls'[c].result = calls[c].result
      /\ calls'[c].key = k /\ calls'[c].body = calls[c].body
      /\ \A d \in Call \ {c} : calls'[d] = calls[d]
  <2>1. MovesTo(c, "answered") /\ "answered" \in Phase \ {"idle"}
    BY DEF Reply, Phase
  <2>2. QED
    BY <1>1, <2>1, MovesToCall
<1>3. UNCHANGED <<route, age, firstSent, receipts, effects>>
  BY DEF Reply
<1>4. ResultOf(calls[c].result, k, calls[c].body)
  BY <1>1 DEF ReceiptsInv, ResultsMatch
<1>5. answers' = answers \/ answers' = [answers EXCEPT ![k] = IF @ # NoReceipt THEN @ ELSE row]
  BY DEF Reply, StoreAnswer
<1>6. /\ answers' \in [Key -> AnswerRow \union {NoReceipt}]
      /\ \A l \in Key : answers'[l] = answers[l] \/ (l = k /\ answers'[l] = row)
  <2>1. row \in AnswerRow /\ answers \in [Key -> AnswerRow \union {NoReceipt}]
    BY <1>1 DEF ReceiptsTypeOK, AnswerRow
  <2>. HIDE DEF row
  <2>2. CASE answers' = answers
    BY <2>1, <2>2
  <2>3. CASE answers' = [answers EXCEPT ![k] = IF @ # NoReceipt THEN @ ELSE row]
    BY <1>1, <2>1, <2>3
  <2>4. QED
    BY <1>5, <2>2, <2>3
<1>7. ReceiptsTypeOK'
  BY <1>1, <1>2, <1>3, <1>6 DEF ReceiptsTypeOK
<1>8. /\ RequestsAreTimely'
      /\ \A l \in Key : KeyIsOver(l) => KeyIsOver(l)'
  BY <1>2, <1>3, OneRequestMoves DEF UnderWay
<1>9. ReceiptsAreDated' /\ WritesCommitOnce'
  BY <1>3 DEF ReceiptsInv, ReceiptsAreDated, WritesCommitOnce, UsesReceipts
<1>10. CommittedKeysAreKnown'
  BY <1>1, <1>3, <1>8, EffectsAreWhole DEF ReceiptsInv, CommittedKeysAreKnown, UsesReceipts
<1>11. ResultsMatch'
  <2>1. \A l \in Key : receipts'[l] # NoReceipt => ResultOf(receipts[l].result, l, receipts[l].body)'
    BY <1>3 DEF ReceiptsInv, ResultsMatch, ResultOf
  <2>2. \A l \in Key : answers'[l] # NoReceipt => ResultOf(answers[l].result, l, answers[l].body)'
    BY <1>3, <1>4, <1>6 DEF ReceiptsInv, ResultsMatch, ResultOf
  <2>3. \A d \in Call : calls'[d].phase \in {"written", "answered"} =>
            ResultOf(calls[d].result, calls[d].key, calls[d].body)'
    BY <1>2, <1>3, <1>4 DEF ReceiptsInv, ResultsMatch, ResultOf
  <2>4. QED
    BY <2>1, <2>2, <2>3 DEF ResultsMatch
<1>12. QED
  BY <1>7, <1>8, <1>9, <1>10, <1>11 DEF ReceiptsInv

\* A receipt is pruned more than ReceiptTtl after its commit, a request of its
\* key is never that old: the key is over.
LEMMA PruneKeeps ==
    ASSUME ReceiptsInv, PruneReceipts
    PROVE  ReceiptsInv'
<1>1. /\ UNCHANGED <<route, age, firstSent, calls, answers, effects>>
      /\ ReceiptsTypeOK /\ RequestsAreTimely /\ ReceiptsAreDated
  BY DEF ReceiptsInv, PruneReceipts
<1>2. /\ receipts' \in [Key -> ReceiptRow \union {NoReceipt}]
      /\ \A k \in Key : \/ receipts'[k] = receipts[k]
                        \/ /\ receipts[k] # NoReceipt /\ route[k] # "durable"
                           /\ receipts[k].at < age - ReceiptTtl
                           /\ receipts'[k] = NoReceipt
  BY <1>1 DEF ReceiptsTypeOK, PruneReceipts, Prunable
<1>3. ReceiptsTypeOK'
  BY <1>1, <1>2 DEF ReceiptsTypeOK
<1>4. \A k \in Key : KeyIsOver(k) => KeyIsOver(k)'
  BY <1>1 DEF KeyIsOver, UnderWay
<1>5. ASSUME NEW k \in Key, receipts'[k] = NoReceipt, receipts[k] # NoReceipt
      PROVE  KeyIsOver(k)
  <2>1. /\ route[k] # "durable" /\ receipts[k].at < age - ReceiptTtl
        /\ receipts[k].at \in Nat /\ age \in Nat /\ firstSent[k] \in Int
    BY <1>1, <1>2, <1>5 DEF ReceiptsTypeOK, ReceiptRow
  <2>2. 0 <= firstSent[k] /\ firstSent[k] <= receipts[k].at
    BY <1>1, <1>5 DEF ReceiptsAreDated
  <2>3. age - firstSent[k] > RetryHorizon + Flight
    BY <2>1, <2>2
  <2>4. ASSUME NEW c \in Call, UnderWay(c), calls[c].key = k PROVE FALSE
    <3>1. calls[c].at - firstSent[k] <= RetryHorizon /\ age - calls[c].at <= Flight
      BY <1>1, <2>1, <2>4 DEF RequestsAreTimely
    <3>2. calls[c].at \in Nat
      BY <1>1, <2>4, RequestsUnderWayAreWhole DEF UnderWay
    <3>3. QED
      BY <2>1, <2>3, <3>1, <3>2
  <2>5. QED
    BY <2>1, <2>2, <2>3, <2>4 DEF KeyIsOver
<1>6. RequestsAreTimely' /\ WritesCommitOnce'
  BY <1>1 DEF ReceiptsInv, RequestsAreTimely, UnderWay, WritesCommitOnce, UsesReceipts
<1>7. ReceiptsAreDated'
  BY <1>1, <1>2 DEF ReceiptsAreDated
<1>8. CommittedKeysAreKnown'
  BY <1>1, <1>2, <1>4, <1>5, EffectsAreWhole DEF ReceiptsInv, CommittedKeysAreKnown, UsesReceipts
<1>9. ResultsMatch'
  BY <1>1, <1>2 DEF ReceiptsInv, ResultsMatch, ResultOf
<1>10. QED
  BY <1>3, <1>6, <1>7, <1>8, <1>9 DEF ReceiptsInv

LEMMA AgeKeeps ==
    ASSUME ReceiptsInv, AgeReceipts
    PROVE  ReceiptsInv'
<1>1. /\ age' = age + 1 /\ age \in Nat /\ ReceiptsTypeOK
      /\ UNCHANGED <<route, firstSent, calls, answers, receipts, effects>>
  BY DEF ReceiptsInv, ReceiptsTypeOK, AgeReceipts
<1>2. ReceiptsTypeOK'
  BY <1>1 DEF ReceiptsTypeOK
<1>3. \A c \in Call : UnderWay(c)' <=> UnderWay(c)
  BY <1>1 DEF UnderWay
<1>4. \A k \in Key : firstSent[k] \in Int
  BY <1>1 DEF ReceiptsTypeOK
<1>5. RequestsAreTimely'
  <2> SUFFICES ASSUME NEW c \in Call, UnderWay(c)'
               PROVE  (LET k == calls[c].key IN
                       /\ 0 <= firstSent[k] /\ firstSent[k] <= calls[c].at
                       /\ calls[c].at <= age
                       /\ route[k] # "durable" => /\ calls[c].at - firstSent[k] <= RetryHorizon
                                                  /\ age - calls[c].at <= Flight)'
    BY DEF RequestsAreTimely
  <2>. UnderWay(c)
    BY <1>3
  <2>1. calls[c].at \in Nat /\ calls[c].key \in Key
    BY <1>1, RequestsUnderWayAreWhole DEF UnderWay
  <2>2. route[calls[c].key] # "durable" => age - calls[c].at < Flight
    BY DEF AgeReceipts
  <2>3. QED
    BY <1>1, <1>4, <2>1, <2>2 DEF ReceiptsInv, RequestsAreTimely
<1>6. ReceiptsAreDated'
  <2>1. \A k \in Key : receipts[k] # NoReceipt => receipts[k].at \in Nat
    BY <1>1 DEF ReceiptsTypeOK, ReceiptRow
  <2>2. QED
    BY <1>1, <1>4, <2>1 DEF ReceiptsInv, ReceiptsAreDated
<1>7. \A k \in Key : KeyIsOver(k) => KeyIsOver(k)'
  BY <1>1, <1>3, <1>4 DEF KeyIsOver
<1>8. CommittedKeysAreKnown'
  BY <1>1, <1>7, EffectsAreWhole DEF ReceiptsInv, CommittedKeysAreKnown, UsesReceipts
<1>9. WritesCommitOnce' /\ ResultsMatch'
  BY <1>1 DEF ReceiptsInv, WritesCommitOnce, UsesReceipts, ResultsMatch, ResultOf
<1>10. QED
  BY <1>2, <1>5, <1>6, <1>8, <1>9 DEF ReceiptsInv

LEMMA ReceiptStepsKeep == ReceiptsInv /\ [ReceiptsNext]_receiptVars => ReceiptsInv'
<1> SUFFICES ASSUME ReceiptsInv, [ReceiptsNext]_receiptVars PROVE ReceiptsInv'
  OBVIOUS
<1>1. ASSUME NEW c \in Call, NEW k \in Key, NEW b \in Body, Send(c, k, b) PROVE ReceiptsInv'
  BY <1>1, SendKeeps
<1>2. ASSUME NEW c \in Call,
             CheckAnswers(c) \/ Execute(c) \/ Refuse(c) \/ Reply(c) \/ Fail(c)
      PROVE  ReceiptsInv'
  BY <1>2, CheckAnswersKeeps, ExecuteKeeps, RefuseKeeps, ReplyKeeps, FailKeeps
<1>3. CASE PruneReceipts \/ AgeReceipts
  BY <1>3, PruneKeeps, AgeKeeps
<1>4. CASE UNCHANGED receiptVars
  BY <1>4
     DEF receiptVars, ReceiptsInv, ReceiptsTypeOK, RequestsAreTimely, ReceiptsAreDated, UnderWay,
         CommittedKeysAreKnown, KeyIsOver, WritesCommitOnce, UsesReceipts, ResultsMatch, ResultOf
<1>5. QED
  BY <1>1, <1>2, <1>3, <1>4 DEF ReceiptsNext

-----------------------------------------------------------------------------
(* What holds in every execution.                                          *)

\* Every step of the two stores, the worker and the clients keeps the relation
\* between receipts, keys and times above.
THEOREM ReceiptsAreKept == ReceiptsSpec => []ReceiptsInv
<1>1. ReceiptsInit => ReceiptsInv
  BY ReceiptsStart
<1>2. ReceiptsInv /\ [ReceiptsNext]_receiptVars => ReceiptsInv'
  BY ReceiptStepsKeep
<1>3. QED
  BY <1>1, <1>2, PTL DEF ReceiptsSpec

\* A key on a route that keeps its receipt with the write commits one write at
\* most (withDoIdempotency, the command receipts), however the sweeps, the
\* retries and the failures fall.
THEOREM KeysCommitOnce == ReceiptsSpec => []WritesCommitOnce
<1>1. ReceiptsInv => WritesCommitOnce
  BY DEF ReceiptsInv
<1>2. QED
  BY <1>1, ReceiptsAreKept, PTL

\* What a caller is answered is the result of a write that committed with its
\* own key and its own body, on every route (the replays of both stores).
THEOREM AnswersAreOnesOwn == ReceiptsSpec => []AnswersMatchRequests
<1>1. ReceiptsInv => AnswersMatchRequests
  BY DEF ReceiptsInv, ResultsMatch, ResultOf, AnswersMatchRequests
<1>2. QED
  BY <1>1, ReceiptsAreKept, PTL

-----------------------------------------------------------------------------
(* One keyed record.                                                       *)

Row == [value : Value, snapshot : Value \union {NoValue}]

Edit == [at : {"idle", "reading", "sent", "stored", "merged", "patched", "stamping"},
         op : Replacing \union Fenced \union {"none"}, fence : Nat,
         input : Patch \union {NoValue}, value : Patch \union {NoValue}, version : Nat]

Learned == [version : Nat, fence : Nat]

RecordsTypeOK ==
    /\ record \in RecordRow \union {NoRecord}
    /\ recordFence \in Nat
    /\ history \in Seq(Row)
    /\ searchDoc \in DocRow \union {NoRecord}
    /\ snapshots \subseteq Value
    /\ seen \in [Author -> Learned]
    /\ edits \in [Author -> Edit]

\* What a call holds at each of its waits.
Whole(e) ==
    /\ e.at \in {"idle", "reading"} => e.op = "none"
    /\ e.at = "reading" => backend = "embedded"
    /\ e.op \in Replacing => e.value \in Value
    /\ e.op = "patch" => e.input \in Patch
    /\ e.at \in {"merged", "patched", "stamping"} => e.op = "patch" /\ e.value \in Value
    /\ e.at \in {"stored", "stamping"} => e.value \in snapshots
    /\ e.at \in {"patched", "stamping"} =>
           e.version \in DOMAIN history /\ history[e.version].value = e.value

\* No fence was learned before it was issued, and what was learned or read with
\* the current one is current.
Current(e, s) ==
    /\ s.fence <= recordFence
    /\ e.fence <= recordFence
    /\ e.at \in {"sent", "stored", "merged"} /\ e.op \in Fenced => e.fence = s.fence
    /\ e.at = "merged" /\ e.fence = recordFence => e.value = Merged(e.input, record.value)
    /\ backend # "embedded" /\ s.version # 0 /\ s.fence = recordFence =>
           s.version = record.revision

EditsAreWhole == \A a \in Author : Whole(edits[a])
BasesAreCurrent == \A a \in Author : Current(edits[a], seen[a])

Indexed == (Exists <=> searchDoc # NoRecord) /\ (~Exists => history = << >>)

RecordsInv == RecordsTypeOK /\ EditsAreWhole /\ BasesAreCurrent /\ Indexed /\ TablesAgree

USE RecordsAssumption

-----------------------------------------------------------------------------
(* The operators of the model.                                             *)

LEMMA MergedIsValue ==
    ASSUME NEW patch \in Patch, NEW value \in Value PROVE Merged(patch, value) \in Value
<1>1. PICK fields \in SUBSET Field : patch \in [fields -> Datum]
  BY DEF Patch
<1>2. QED
  BY <1>1 DEF Merged, Value

LEMMA ValuesArePatches == Value \subseteq Patch
  BY DEF Value, Patch

LEMMA IdlingIsEdit == Idling \in Edit /\ Idling.at = "idle" /\ Idling.op = "none" /\ Idling.fence = 0
  BY DEF Idling, Edit

LEMMA MovedIsEdit ==
    ASSUME NEW e \in Edit, NEW value \in Patch \union {NoValue}, NEW n \in Nat,
           NEW at \in {"idle", "reading", "sent", "stored", "merged", "patched", "stamping"}
    PROVE  /\ Moved(e, at, value, n) \in Edit
           /\ Moved(e, at, value, n).at = at /\ Moved(e, at, value, n).op = e.op
           /\ Moved(e, at, value, n).fence = e.fence /\ Moved(e, at, value, n).input = e.input
           /\ Moved(e, at, value, n).value = value /\ Moved(e, at, value, n).version = n
  BY DEF Moved, Edit

\* Every transaction writes a value, and leaves a document that tells it.
LEMMA CommitsAreWrites ==
    ASSUME RecordsInv, NEW a \in Author, CommitEdit(a)
    PROVE  /\ Answer(a)
           /\ edits[a].at \in {"sent", "stored", "merged"}
           /\ edits[a].op # "patch" => edits[a].at # "merged"
           /\ edits[a].op \in Fenced => FenceMatches(a)
           /\ edits[a].op = "patch" => Exists /\ edits[a].at = "merged"
           /\ backend = "snapshots" /\ edits[a].op \in Replacing => edits[a].at = "stored"
           /\ \E value \in Value, archived \in BOOLEAN :
                  /\ WriteRows(a, value, archived)
                  /\ edits[a].op \in Replacing \union {"patch"} => value = edits[a].value
                  /\ searchDoc' \in DocRow
                  /\ searchDoc'.value = value
                  /\ archived \/ ~searchDoc'.tombstoned
<1>e. edits[a] \in Edit /\ (Exists => record \in RecordRow) /\ (searchDoc # NoRecord => searchDoc \in DocRow)
  BY DEF RecordsInv, RecordsTypeOK, Exists
<1>d. ASSUME NEW value \in Value, NEW hidden \in BOOLEAN, IndexDoc(value, hidden)
      PROVE  /\ searchDoc' \in DocRow
             /\ searchDoc'.value = value
             /\ searchDoc'.tombstoned \in {hidden, searchDoc.tombstoned}
             /\ searchDoc = NoRecord => searchDoc'.tombstoned = hidden
             /\ searchDoc # NoRecord => searchDoc \in DocRow
  <2>1. CASE searchDoc # NoRecord /\ searchDoc.value = value
    BY <1>d, <2>1, <1>e DEF IndexDoc
  <2>2. CASE ~(searchDoc # NoRecord /\ searchDoc.value = value)
    BY <1>d, <2>2, <1>e DEF IndexDoc, DocRow
  <2>3. QED
    BY <2>1, <2>2
<1>v. /\ edits[a].op \in Replacing => edits[a].value \in Value
      /\ edits[a].at = "merged" => edits[a].value \in Value
  BY DEF RecordsInv, EditsAreWhole, Whole
<1>t. /\ Exists => record.archived \in BOOLEAN /\ (record.archived \/ ~searchDoc.tombstoned)
      /\ Exists <=> searchDoc # NoRecord
      /\ Exists => record.value \in Value /\ searchDoc.value = record.value
  BY <1>e DEF RecordsInv, TablesAgree, Indexed, RecordRow
<1>1. CASE CreateRecord(a)
  <2>1. edits[a].op = "create" /\ edits[a].value \in Value /\ edits[a].at \in {"sent", "stored"}
        /\ (backend = "snapshots" => edits[a].at = "stored")
    BY <1>1, <1>v DEF CreateRecord, MayCommit, Replacing
  <2>2. WriteRows(a, edits[a].value, FALSE) /\ IndexDoc(edits[a].value, FALSE) /\ Answer(a) /\ ~Exists
    BY <1>1 DEF CreateRecord
  <2>3. searchDoc' \in DocRow /\ searchDoc'.value = edits[a].value /\ ~searchDoc'.tombstoned
    BY <2>1, <2>2, <1>d, <1>t
  <2>4. QED
    BY <2>1, <2>2, <2>3 DEF Fenced
<1>2. CASE PutRecord(a)
  <2> DEFINE archived == Exists /\ record.archived
  <2>1. edits[a].op = "put" /\ edits[a].value \in Value /\ edits[a].at \in {"sent", "stored"}
        /\ (backend = "snapshots" => edits[a].at = "stored")
    BY <1>2, <1>v DEF PutRecord, MayCommit, Replacing
  <2>2. WriteRows(a, edits[a].value, archived) /\ IndexDoc(edits[a].value, archived) /\ Answer(a)
    BY <1>2 DEF PutRecord
  <2>3. archived \in BOOLEAN
    BY <1>t
  <2>4. /\ searchDoc' \in DocRow /\ searchDoc'.value = edits[a].value
        /\ searchDoc'.tombstoned \in {archived, searchDoc.tombstoned}
        /\ searchDoc = NoRecord => searchDoc'.tombstoned = archived
    BY <2>1, <2>2, <2>3, <1>d
  <2>5. archived \/ ~searchDoc'.tombstoned
    <3>1. CASE Exists
      BY <2>4, <1>t, <3>1
    <3>2. CASE ~Exists
      BY <2>4, <1>t, <3>2
    <3>3. QED
      BY <3>1, <3>2
  <2> HIDE DEF archived
  <2>6. QED
    BY <2>1, <2>2, <2>3, <2>4, <2>5 DEF Fenced
<1>3. CASE SetRecord(a)
  <2>1. edits[a].op = "set" /\ edits[a].value \in Value /\ edits[a].at \in {"sent", "stored"}
        /\ (backend = "snapshots" => edits[a].at = "stored")
    BY <1>3, <1>v DEF SetRecord, MayCommit, Replacing
  <2>2. /\ WriteRows(a, edits[a].value, record.archived) /\ IndexDoc(edits[a].value, FALSE)
        /\ Answer(a) /\ Exists /\ FenceMatches(a)
    BY <1>3 DEF SetRecord
  <2>3. /\ searchDoc' \in DocRow /\ searchDoc'.value = edits[a].value
        /\ record.archived \/ ~searchDoc'.tombstoned
    BY <2>1, <2>2, <1>d, <1>t
  <2>4. QED
    BY <2>1, <2>2, <2>3, <1>t
<1>4. CASE PatchRecord(a)
  <2>1. edits[a].op = "patch" /\ edits[a].at = "merged" /\ edits[a].value \in Value
    BY <1>4, <1>v DEF PatchRecord, MayCommit
  <2>2. /\ WriteRows(a, edits[a].value, FALSE) /\ IndexDoc(edits[a].value, FALSE)
        /\ Answer(a) /\ Exists /\ FenceMatches(a) /\ ~record.archived
    BY <1>4 DEF PatchRecord
  <2>3. searchDoc' \in DocRow /\ searchDoc'.value = edits[a].value /\ ~searchDoc'.tombstoned
    BY <2>1, <2>2, <1>d, <1>t
  <2>4. QED
    BY <2>1, <2>2, <2>3 DEF Replacing
<1>5. ASSUME NEW archived \in BOOLEAN, ArchiveRecord(a, archived)
      PROVE  /\ Answer(a) /\ Exists /\ FenceMatches(a)
             /\ edits[a].op \in {"archive", "unarchive"} /\ edits[a].at = "sent"
             /\ WriteRows(a, record.value, archived)
             /\ searchDoc' \in DocRow /\ searchDoc'.value = record.value
             /\ archived \/ ~searchDoc'.tombstoned
  <2>1. /\ edits[a].op \in {"archive", "unarchive"} /\ edits[a].at = "sent"
        /\ Answer(a) /\ Exists /\ FenceMatches(a) /\ WriteRows(a, record.value, archived)
        /\ searchDoc' = [searchDoc EXCEPT !.tombstoned = archived]
    BY <1>5 DEF ArchiveRecord, MayCommit, Replacing
  <2>2. searchDoc \in DocRow /\ searchDoc.value = record.value
    BY <2>1, <1>e, <1>t
  <2>3. QED
    BY <2>1, <2>2 DEF DocRow
<1>6. CASE \E archived \in BOOLEAN : ArchiveRecord(a, archived)
  <2>1. PICK archived \in BOOLEAN : ArchiveRecord(a, archived)
    BY <1>6
  <2>2. record.value \in Value
    BY <2>1, <1>5, <1>t
  <2>3. QED
    BY <2>1, <2>2, <1>5 DEF Replacing
<1>7. QED
  BY <1>1, <1>2, <1>3, <1>4, <1>6 DEF CommitEdit

-----------------------------------------------------------------------------
(* The first state, and the steps that write no row.                       *)

LEMMA RecordsStart == RecordsInit => RecordsInv
<1> SUFFICES ASSUME RecordsInit PROVE RecordsInv
  OBVIOUS
<1>1. RecordsTypeOK
  BY IdlingIsEdit DEF RecordsInit, RecordsTypeOK, Unseen, Learned
<1>2. EditsAreWhole
  BY DEF RecordsInit, EditsAreWhole, Whole, Idling, Replacing
<1>3. BasesAreCurrent
  <2>1. /\ recordFence = 0
        /\ \A a \in Author : edits[a] = Idling /\ seen[a] = Unseen
    BY DEF RecordsInit
  <2>2. Unseen.version = 0 /\ Unseen.fence = 0
    BY DEF Unseen
  <2>3. ASSUME NEW a \in Author
        PROVE  /\ seen[a].fence <= recordFence /\ edits[a].fence <= recordFence
               /\ seen[a].version = 0 /\ edits[a].at = "idle"
    BY <2>1, <2>2, IdlingIsEdit
  <2>4. QED
    BY <2>3 DEF BasesAreCurrent, Current
<1>4. Indexed /\ TablesAgree
  <2>1. ~Exists /\ searchDoc = NoRecord /\ history = << >>
    BY DEF RecordsInit, Exists
  <2>2. DOMAIN history = {}
    BY <2>1
  <2>3. QED
    BY <2>1, <2>2 DEF Indexed, TablesAgree
<1>5. QED
  BY <1>1, <1>2, <1>3, <1>4 DEF RecordsInv

\* A step that leaves the tables alone has only its author to answer for.
LEMMA AuthorKeeps ==
    ASSUME RecordsInv, NEW a \in Author, NEW e \in Edit, NEW s \in Learned,
           StoreKeeps, snapshots \subseteq snapshots', snapshots' \subseteq Value,
           edits' = [edits EXCEPT ![a] = e], seen' = [seen EXCEPT ![a] = s],
           Whole(e)', Current(e, s)
    PROVE  RecordsInv'
<1>1. UNCHANGED <<backend, record, recordFence, history, searchDoc>>
  BY DEF StoreKeeps
<1>2. RecordsTypeOK /\ edits \in [Author -> Edit] /\ seen \in [Author -> Learned]
  BY DEF RecordsInv, RecordsTypeOK
<1>3. /\ edits'[a] = e /\ seen'[a] = s
      /\ \A b \in Author \ {a} : edits'[b] = edits[b] /\ seen'[b] = seen[b]
  BY <1>2
<1>4. RecordsTypeOK'
  BY <1>1, <1>2 DEF RecordsTypeOK
<1>5. EditsAreWhole'
  <2>1. ASSUME NEW b \in Author \ {a} PROVE Whole(edits[b])'
    <3>1. Whole(edits[b])
      BY DEF RecordsInv, EditsAreWhole
    <3>2. QED
      BY <3>1, <1>1, <1>3 DEF Whole
  <2>2. QED
    BY <2>1, <1>3 DEF EditsAreWhole
<1>6. BasesAreCurrent'
  <2>1. ASSUME NEW b \in Author \ {a} PROVE Current(edits[b], seen[b])
    BY DEF RecordsInv, BasesAreCurrent
  <2>2. QED
    BY <2>1, <1>1, <1>3 DEF BasesAreCurrent, Current
<1>7. Indexed' /\ TablesAgree'
  BY <1>1 DEF RecordsInv, Indexed, TablesAgree, Exists
<1>8. QED
  BY <1>4, <1>5, <1>6, <1>7 DEF RecordsInv

LEMMA LearningKeeps ==
    ASSUME RecordsInv, NEW a \in Author, ReadRecord(a) \/ ReadRow(a) \/ ReadFence(a)
    PROVE  RecordsInv'
<1>1. /\ StoreKeeps /\ UNCHANGED <<record, recordFence, history, backend>>
      /\ snapshots \subseteq snapshots' /\ snapshots' \subseteq Value
  BY DEF ReadRecord, ReadRow, ReadFence, StoreKeeps, RecordsInv, RecordsTypeOK
<1>2. /\ edits[a] \in Edit /\ seen[a] \in Learned /\ recordFence \in Nat
      /\ Whole(edits[a]) /\ Current(edits[a], seen[a])
      /\ edits \in [Author -> Edit] /\ seen \in [Author -> Learned]
  BY DEF RecordsInv, RecordsTypeOK, EditsAreWhole, BasesAreCurrent
<1>3. Exists => record.revision \in Nat
  BY DEF RecordsInv, RecordsTypeOK, Exists, RecordRow
<1>4. CASE ReadRecord(a)
  <2>1. PICK s \in Learned : s = [version |-> record.revision, fence |-> recordFence]
    BY <1>2, <1>3, <1>4 DEF ReadRecord, Learned
  <2>2. PICK e \in Edit : e = Idling
    BY IdlingIsEdit
  <2>3. edits' = [edits EXCEPT ![a] = e] /\ seen' = [seen EXCEPT ![a] = s]
    BY <2>1, <2>2, <1>2, <1>4 DEF ReadRecord
  <2>4. Whole(e)' /\ Current(e, s)
    BY <2>1, <2>2, <1>2, IdlingIsEdit DEF Whole, Current, Replacing
  <2>5. QED
    BY <1>1, <2>3, <2>4, AuthorKeeps
<1>5. CASE ReadRow(a)
  <2> DEFINE moved == Moved(Idling, "reading", NoValue, record.revision)
  <2>1. record.revision \in Nat /\ Idling \in Edit
    BY <1>3, <1>5, IdlingIsEdit DEF ReadRow
  <2>2. /\ moved \in Edit /\ moved.at = "reading"
        /\ moved.op = Idling.op /\ moved.fence = Idling.fence
    BY <2>1, MovedIsEdit
  <2>3. PICK e \in Edit : /\ e = moved
                          /\ e.at = "reading" /\ e.op = "none" /\ e.fence = 0
    BY <2>2, IdlingIsEdit
  <2>4. PICK s \in Learned : s = seen[a]
    BY <1>2
  <2>5. edits' = [edits EXCEPT ![a] = e] /\ seen' = [seen EXCEPT ![a] = s] /\ backend = "embedded"
    BY <2>3, <2>4, <1>2, <1>5 DEF ReadRow
  <2>6. Whole(e)' /\ Current(e, s)
    BY <2>3, <2>4, <2>5, <1>1, <1>2 DEF Whole, Current, Replacing
  <2>7. QED
    BY <1>1, <2>5, <2>6, AuthorKeeps
<1>6. CASE ReadFence(a)
  <2>1. PICK s \in Learned : s = [version |-> edits[a].version, fence |-> recordFence]
    BY <1>2 DEF Edit, Learned
  <2>2. PICK e \in Edit : e = Idling
    BY IdlingIsEdit
  <2>3. edits' = [edits EXCEPT ![a] = e] /\ seen' = [seen EXCEPT ![a] = s] /\ backend = "embedded"
    BY <2>1, <2>2, <1>2, <1>6 DEF ReadFence, Whole
  <2>4. Whole(e)' /\ Current(e, s)
    BY <2>1, <2>2, <2>3, <1>2, IdlingIsEdit DEF Whole, Current, Replacing
  <2>5. QED
    BY <1>1, <2>3, <2>4, AuthorKeeps
<1>7. QED
  BY <1>4, <1>5, <1>6

LEMMA SendingKeeps ==
    ASSUME RecordsInv, NEW a \in Author, NEW op \in Replacing \union Fenced,
           NEW input \in Patch \union {NoValue}, SendWrite(a, op, input),
           op \in Replacing => input \in Value, op = "patch" => input \in Patch
    PROVE  RecordsInv'
<1>1. /\ StoreKeeps /\ UNCHANGED <<record, recordFence, history, backend>>
      /\ snapshots \subseteq snapshots' /\ snapshots' \subseteq Value
  BY DEF SendWrite, StoreKeeps, RecordsInv, RecordsTypeOK
<1>2. /\ seen[a] \in Learned /\ recordFence \in Nat /\ Current(edits[a], seen[a])
      /\ seen \in [Author -> Learned]
  BY DEF RecordsInv, RecordsTypeOK, BasesAreCurrent
<1>3. PICK e \in Edit :
          /\ e.at = "sent" /\ e.op = op /\ e.input = input /\ e.value = input
          /\ e.fence \in {0, seen[a].fence} /\ (op \in Fenced => e.fence = seen[a].fence)
          /\ edits' = [edits EXCEPT ![a] = e]
  <2> DEFINE e == [at |-> "sent", op |-> op, fence |-> IF op \in Fenced THEN seen[a].fence ELSE 0,
                   input |-> input, value |-> input, version |-> 0]
  <2>1. e.fence \in Nat
    BY <1>2 DEF Learned
  <2>2. e \in Edit
    BY <2>1 DEF Edit
  <2>3. QED
    BY <2>2 DEF SendWrite
<1>4. PICK s \in Learned : s = seen[a]
  BY <1>2
<1>5. seen' = [seen EXCEPT ![a] = s]
  BY <1>2, <1>4 DEF SendWrite
<1>6. Whole(e)' /\ Current(e, s)
  BY <1>1, <1>2, <1>3, <1>4 DEF Whole, Current, Learned, Fenced, Replacing
<1>7. QED
  BY <1>1, <1>3, <1>5, <1>6, AuthorKeeps

LEMMA WaitingKeeps ==
    ASSUME RecordsInv, NEW a \in Author,
           PutSnapshot(a) \/ MergePatch(a) \/ PutPatchedSnapshot(a) \/ EditEnds(a)
    PROVE  RecordsInv'
<1>1. /\ edits[a] \in Edit /\ seen[a] \in Learned /\ recordFence \in Nat
      /\ Whole(edits[a]) /\ Current(edits[a], seen[a])
      /\ edits \in [Author -> Edit] /\ seen \in [Author -> Learned] /\ snapshots \subseteq Value
  BY DEF RecordsInv, RecordsTypeOK, EditsAreWhole, BasesAreCurrent
<1>2. edits[a].value \in Patch \union {NoValue} /\ edits[a].version \in Nat /\ 0 \in Nat
  BY <1>1 DEF Edit
<1>3. StoreKeeps /\ UNCHANGED <<record, recordFence, history, backend>> /\ seen' = seen
  BY DEF PutSnapshot, MergePatch, PutPatchedSnapshot, EditEnds, StoreKeeps
<1>4. PICK s \in Learned : s = seen[a] /\ seen' = [seen EXCEPT ![a] = s]
  BY <1>1, <1>3
<1>5. CASE PutSnapshot(a)
  <2> DEFINE m == Moved(edits[a], "stored", edits[a].value, 0)
  <2>m. /\ m \in Edit /\ m.at = "stored" /\ m.op = edits[a].op /\ m.fence = edits[a].fence
        /\ m.input = edits[a].input /\ m.value = edits[a].value /\ m.version = 0
    BY <1>1, <1>2 DEF Moved, Edit
  <2>1. PICK e \in Edit :
            /\ e.at = "stored" /\ e.op = edits[a].op /\ e.fence = edits[a].fence
            /\ e.input = edits[a].input /\ e.value = edits[a].value
            /\ edits' = [edits EXCEPT ![a] = e]
    <3>1. edits' = [edits EXCEPT ![a] = m]
      BY <1>5 DEF PutSnapshot
    <3> HIDE DEF m
    <3>2. QED
      BY <3>1, <2>m
  <2>2. snapshots' = snapshots \union {edits[a].value} /\ edits[a].at = "sent"
        /\ edits[a].op \in Replacing /\ edits[a].value \in Value
    BY <1>1, <1>5 DEF PutSnapshot, Whole
  <2>3. Whole(e)' /\ Current(e, s)
    BY <1>1, <1>3, <1>4, <2>1, <2>2 DEF Whole, Current, Replacing
  <2>4. QED
    BY <1>1, <1>3, <1>4, <2>1, <2>2, <2>3, AuthorKeeps
<1>6. CASE MergePatch(a)
  <2>1. edits[a].at = "sent" /\ edits[a].op = "patch" /\ snapshots' = snapshots
        /\ Merged(edits[a].input, record.value) \in Value
    <3>1. edits[a].at = "sent" /\ edits[a].op = "patch" /\ snapshots' = snapshots /\ Exists
      BY <1>6 DEF MergePatch
    <3>2. edits[a].input \in Patch /\ record.value \in Value
      BY <3>1, <1>1 DEF Whole, RecordsInv, RecordsTypeOK, Exists, RecordRow
    <3>3. QED
      BY <3>1, <3>2, MergedIsValue
  <2> DEFINE m == Moved(edits[a], "merged", Merged(edits[a].input, record.value), 0)
  <2>m. /\ m \in Edit /\ m.at = "merged" /\ m.op = edits[a].op /\ m.fence = edits[a].fence
        /\ m.input = edits[a].input /\ m.value = Merged(edits[a].input, record.value) /\ m.version = 0
    BY <1>1, <1>2, <2>1, ValuesArePatches DEF Moved, Edit
  <2>2. PICK e \in Edit :
            /\ e.at = "merged" /\ e.op = edits[a].op /\ e.fence = edits[a].fence
            /\ e.input = edits[a].input /\ e.value = Merged(edits[a].input, record.value)
            /\ edits' = [edits EXCEPT ![a] = e]
    <3>1. edits' = [edits EXCEPT ![a] = m]
      BY <1>6 DEF MergePatch
    <3> HIDE DEF m
    <3>2. QED
      BY <3>1, <2>m
  <2>3. Whole(e)' /\ Current(e, s)
    BY <1>1, <1>3, <1>4, <2>1, <2>2 DEF Whole, Current, Replacing
  <2>4. QED
    BY <1>1, <1>3, <1>4, <2>1, <2>2, <2>3, AuthorKeeps
<1>7. CASE PutPatchedSnapshot(a)
  <2> DEFINE m == Moved(edits[a], "stamping", edits[a].value, edits[a].version)
  <2>m. /\ m \in Edit /\ m.at = "stamping" /\ m.op = edits[a].op /\ m.fence = edits[a].fence
        /\ m.input = edits[a].input /\ m.value = edits[a].value /\ m.version = edits[a].version
    BY <1>1, <1>2 DEF Moved, Edit
  <2>1. PICK e \in Edit :
            /\ e.at = "stamping" /\ e.op = edits[a].op /\ e.fence = edits[a].fence
            /\ e.input = edits[a].input /\ e.value = edits[a].value
            /\ e.version = edits[a].version
            /\ edits' = [edits EXCEPT ![a] = e]
    <3>1. edits' = [edits EXCEPT ![a] = m]
      BY <1>7 DEF PutPatchedSnapshot
    <3> HIDE DEF m
    <3>2. QED
      BY <3>1, <2>m
  <2>2. snapshots' = snapshots \union {edits[a].value} /\ edits[a].at = "patched"
        /\ edits[a].value \in Value
    BY <1>1, <1>7 DEF PutPatchedSnapshot, Whole
  <2>3. Whole(e)' /\ Current(e, s)
    BY <1>1, <1>3, <1>4, <2>1, <2>2 DEF Whole, Current, Replacing
  <2>4. QED
    BY <1>1, <1>3, <1>4, <2>1, <2>2, <2>3, AuthorKeeps
<1>8. CASE EditEnds(a)
  <2>1. PICK e \in Edit : e = Idling
    BY IdlingIsEdit
  <2>2. edits' = [edits EXCEPT ![a] = e] /\ snapshots' = snapshots
    BY <2>1, <1>8 DEF EditEnds
  <2>3. Whole(e)' /\ Current(e, s)
    BY <1>1, <1>3, <1>4, <2>1, IdlingIsEdit DEF Whole, Current, Replacing, Learned
  <2>4. QED
    BY <1>1, <1>3, <1>4, <2>2, <2>3, AuthorKeeps
<1>9. QED
  BY <1>5, <1>6, <1>7, <1>8

-----------------------------------------------------------------------------
(* The steps that write rows.                                              *)

\* A claim puts every fence that was learned behind.
LEMMA ClaimKeeps ==
    ASSUME RecordsInv, NEW a \in Author, ClaimName(a) PROVE RecordsInv'
<1>1. /\ UNCHANGED <<backend, record, history, searchDoc, snapshots, edits>>
      /\ recordFence \in Nat /\ recordFence' = recordFence + 1
      /\ seen' = [seen EXCEPT ![a] = [version |-> 0, fence |-> recordFence + 1]]
      /\ edits[a] = Idling
  BY DEF ClaimName, RecordsInv, RecordsTypeOK
<1>2. RecordsTypeOK'
  BY <1>1 DEF RecordsInv, RecordsTypeOK, Learned
<1>3. EditsAreWhole'
  BY <1>1 DEF RecordsInv, EditsAreWhole, Whole
<1>4. BasesAreCurrent'
  <2> SUFFICES ASSUME NEW b \in Author PROVE Current(edits[b], seen[b])'
    BY DEF BasesAreCurrent
  <2>1. /\ edits[b].fence <= recordFence /\ seen[b].fence <= recordFence
        /\ edits[b].fence \in Nat /\ seen[b].fence \in Nat
        /\ edits[b].at \in {"sent", "stored", "merged"} /\ edits[b].op \in Fenced =>
               edits[b].fence = seen[b].fence
    BY DEF RecordsInv, RecordsTypeOK, BasesAreCurrent, Current, Edit, Learned
  <2>2. CASE b = a
    <3>1. seen'[b].version = 0 /\ seen'[b].fence = recordFence + 1
      BY <1>1, <2>2 DEF RecordsInv, RecordsTypeOK
    <3>2. edits'[b].at = "idle" /\ edits'[b].fence = 0
      BY <1>1, <2>2, IdlingIsEdit
    <3>3. QED
      BY <1>1, <3>1, <3>2 DEF Current
  <2>3. CASE b # a
    <3>1. seen'[b] = seen[b] /\ edits'[b] = edits[b]
      BY <1>1, <2>3 DEF RecordsInv, RecordsTypeOK
    <3>2. QED
      BY <1>1, <2>1, <3>1 DEF Current
  <2>4. QED
    BY <2>2, <2>3
<1>5. Indexed' /\ TablesAgree'
  BY <1>1 DEF RecordsInv, Indexed, TablesAgree, Exists
<1>6. QED
  BY <1>2, <1>3, <1>4, <1>5 DEF RecordsInv

\* stampArtifacts names, on the revision its patch wrote, that revision's value.
LEMMA StampingKeeps ==
    ASSUME RecordsInv, NEW a \in Author, StampArtifacts(a) PROVE RecordsInv'
<1> DEFINE at == edits[a].version
           value == edits[a].value
<1>1. /\ value \in Value /\ value \in snapshots
      /\ at \in DOMAIN history /\ history[at].value = value
  BY DEF StampArtifacts, RecordsInv, EditsAreWhole, Whole
<1>2. /\ history \in Seq(Row) /\ edits \in [Author -> Edit]
      /\ history' = [history EXCEPT ![at].snapshot = value]
      /\ edits' = [edits EXCEPT ![a] = Idling]
      /\ UNCHANGED <<backend, record, recordFence, searchDoc, snapshots, seen>>
  BY DEF StampArtifacts, RecordsInv, RecordsTypeOK
<1> HIDE DEF at, value
<1>3. PICK row \in Row : /\ row.value = value /\ row.snapshot = value
                         /\ history' = [history EXCEPT ![at] = row]
  <2> DEFINE row == [history[at] EXCEPT !.snapshot = value]
  <2>1. history[at] \in Row
    BY <1>1, <1>2
  <2>2. row \in Row /\ row.value = value /\ row.snapshot = value
    BY <2>1, <1>1 DEF Row
  <2>3. QED
    BY <2>2, <1>2
<1>4. /\ history' \in Seq(Row) /\ Len(history') = Len(history)
      /\ DOMAIN history' = DOMAIN history
      /\ \A i \in DOMAIN history : history'[i] = IF i = at THEN row ELSE history[i]
  <2>1. history \in Seq(Row) /\ at \in DOMAIN history /\ history' = [history EXCEPT ![at] = row]
    BY <1>1, <1>2, <1>3
  <2>2. QED
    BY <2>1, ExceptSeq
<1>5. \A i \in DOMAIN history : history'[i].value = history[i].value
  BY <1>1, <1>3, <1>4
<1>6. RecordsTypeOK'
  BY <1>2, <1>4, IdlingIsEdit DEF RecordsInv, RecordsTypeOK
<1>7. EditsAreWhole'
  <2> SUFFICES ASSUME NEW b \in Author PROVE Whole(edits[b])'
    BY DEF EditsAreWhole
  <2>1. CASE b = a
    <3>1. PICK e \in Edit : e = Idling /\ edits'[b] = e
      BY <2>1, <1>2, IdlingIsEdit
    <3>2. QED
      BY <3>1, IdlingIsEdit DEF Whole, Replacing
  <2>2. CASE b # a
    <3>1. Whole(edits[b]) /\ edits'[b] = edits[b]
      BY <2>2, <1>2 DEF RecordsInv, EditsAreWhole
    <3>2. QED
      BY <3>1, <1>2, <1>4, <1>5 DEF Whole
  <2>3. QED
    BY <2>1, <2>2
<1>8. BasesAreCurrent'
  <2> SUFFICES ASSUME NEW b \in Author PROVE Current(edits[b], seen[b])'
    BY DEF BasesAreCurrent
  <2>1. Current(edits[b], seen[b]) /\ recordFence \in Nat
    BY DEF RecordsInv, RecordsTypeOK, BasesAreCurrent
  <2>2. edits'[b] = edits[b] \/ edits'[b] = Idling
    BY <1>2
  <2>3. QED
    BY <2>1, <2>2, <1>2, IdlingIsEdit DEF Current
<1>9. Indexed' /\ TablesAgree'
  <2>1. history # << >>
    BY <1>1
  <2>2. Indexed'
    BY <2>1, <1>2 DEF RecordsInv, Indexed, Exists
  <2>3. ASSUME Exists'
        PROVE  /\ Len(history') = record.revision
               /\ history'[record.revision].value = record.value
               /\ searchDoc'.value = record.value
               /\ record.archived \/ ~searchDoc'.tombstoned
    <3>1. /\ Exists /\ Len(history) = record.revision
          /\ history[record.revision].value = record.value
          /\ searchDoc.value = record.value
          /\ record.archived \/ ~searchDoc.tombstoned
      BY <2>3, <1>2 DEF RecordsInv, TablesAgree, Exists
    <3>2. record.revision \in DOMAIN history
      BY <3>1, <2>1, <1>2
    <3>3. QED
      BY <3>1, <3>2, <1>2, <1>4, <1>5
  <2>4. ASSUME NEW i \in DOMAIN history', history'[i].snapshot # NoValue
        PROVE  history'[i].snapshot = history'[i].value /\ history'[i].value \in snapshots
    <3>1. CASE i = at
      BY <3>1, <1>1, <1>3, <1>4
    <3>2. CASE i # at
      BY <3>2, <2>4, <1>4 DEF RecordsInv, TablesAgree
    <3>3. QED
      BY <3>1, <3>2
  <2>5. QED
    BY <2>2, <2>3, <2>4, <1>2 DEF TablesAgree
<1>10. QED
  BY <1>6, <1>7, <1>8, <1>9 DEF RecordsInv

\* A transaction puts every fence that was learned behind its own.
LEMMA CommitKeeps ==
    ASSUME RecordsInv, NEW a \in Author, CommitEdit(a) PROVE RecordsInv'
<1>1. /\ record \in RecordRow \union {NoRecord} /\ recordFence \in Nat
      /\ history \in Seq(Row) /\ snapshots \subseteq Value
      /\ seen \in [Author -> Learned] /\ edits \in [Author -> Edit]
      /\ Exists => record.revision \in Nat /\ Len(history) = record.revision
      /\ ~Exists => Len(history) = 0
  BY DEF RecordsInv, RecordsTypeOK, TablesAgree, Indexed, Exists, RecordRow
<1>2. NextRevision = Len(history) + 1 /\ NextRevision \in Nat /\ Bumped = recordFence + 1
  BY <1>1 DEF NextRevision, Bumped
<1>3. PICK value \in Value, archived \in BOOLEAN :
          /\ WriteRows(a, value, archived)
          /\ edits[a].op \in Replacing \union {"patch"} => value = edits[a].value
          /\ searchDoc' \in DocRow
          /\ searchDoc'.value = value
          /\ archived \/ ~searchDoc'.tombstoned
  BY CommitsAreWrites
<1>4. PICK row \in Row :
          /\ row.value = value
          /\ row.snapshot # NoValue =>
                 row.snapshot = value /\ backend = "snapshots" /\ edits[a].op \in Replacing
          /\ history' = Append(history, row)
  <2> DEFINE row == [value |-> value,
                     snapshot |-> IF backend = "snapshots" /\ edits[a].op \in Replacing
                                  THEN value ELSE NoValue]
  <2>1. row \in Row
    BY DEF Row
  <2>2. QED
    BY <1>3, <2>1 DEF WriteRows
<1>5. /\ UNCHANGED <<backend, snapshots>> /\ recordFence' = recordFence + 1
      /\ record' \in RecordRow /\ record'.value = value
      /\ record'.revision = Len(history) + 1 /\ record'.archived = archived
  BY <1>2, <1>3 DEF WriteRows, RecordRow
<1>6. /\ history' \in Seq(Row) /\ Len(history') = Len(history) + 1
      /\ \A i \in 1..Len(history) : history'[i] = history[i]
      /\ history'[Len(history) + 1] = row /\ Len(history) \in Nat
  BY <1>1, <1>4, AppendProperties
<1>7. PICK e \in Edit, s \in Learned :
          /\ edits' = [edits EXCEPT ![a] = e] /\ seen' = [seen EXCEPT ![a] = s]
          /\ e.fence \in {0, edits[a].fence}
          /\ \/ e.at = "idle" /\ e.op = "none"
             \/ /\ e.at = "patched" /\ e.op = "patch" /\ edits[a].op = "patch"
                /\ e.input = edits[a].input
                /\ e.value = edits[a].value /\ e.version = Len(history) + 1
          /\ \/ s = seen[a]
             \/ s.version = Len(history) + 1 /\ s.fence = recordFence + 1
  <2>1. edits[a] \in Edit /\ seen[a] \in Learned
    BY <1>1
  <2>2. PICK s \in Learned :
            /\ seen' = [seen EXCEPT ![a] = s]
            /\ s = seen[a] \/ (s.version = Len(history) + 1 /\ s.fence = recordFence + 1)
    <3> DEFINE t == [version |-> NextRevision, fence |-> Bumped]
    <3>1. /\ seen = [seen EXCEPT ![a] = seen[a]]
          /\ t \in Learned /\ t.version = Len(history) + 1 /\ t.fence = recordFence + 1
      BY <1>1, <1>2 DEF Learned
    <3>a. Answer(a)
      BY CommitsAreWrites
    <3>2. seen' = seen \/ seen' = [seen EXCEPT ![a] = t]
      BY <3>a DEF Answer
    <3> HIDE DEF t
    <3>3. QED
      BY <2>1, <3>1, <3>2
  <2>3. CASE edits[a].op = "patch" /\ backend = "snapshots"
    <3> DEFINE m == Moved(edits[a], "patched", edits[a].value, NextRevision)
    <3>1. /\ m \in Edit /\ m.at = "patched" /\ m.op = edits[a].op /\ m.fence = edits[a].fence
          /\ m.input = edits[a].input /\ m.value = edits[a].value
          /\ m.version = Len(history) + 1
      BY <1>2, <2>1 DEF Moved, Edit
    <3>2. edits' = [edits EXCEPT ![a] = m]
      BY <1>1, <2>3, CommitsAreWrites DEF Answer
    <3> HIDE DEF m
    <3>3. QED
      BY <2>2, <2>3, <3>1, <3>2
  <2>4. CASE ~(edits[a].op = "patch" /\ backend = "snapshots")
    <3>1. edits' = [edits EXCEPT ![a] = Idling]
      BY <1>1, <2>4, CommitsAreWrites DEF Answer
    <3>2. QED
      BY <2>2, <3>1, IdlingIsEdit
  <2>5. QED
    BY <2>3, <2>4
<1>8. RecordsTypeOK'
  BY <1>1, <1>3, <1>5, <1>6, <1>7 DEF RecordsTypeOK
<1>9. EditsAreWhole'
  <2> SUFFICES ASSUME NEW b \in Author PROVE Whole(edits[b])'
    BY DEF EditsAreWhole
  <2>1. Whole(edits[b])
    BY DEF RecordsInv, EditsAreWhole
  <2>2. CASE b = a
    <3>1. edits'[b] = e
      BY <2>2, <1>1, <1>7
    <3>2. CASE e.at = "idle" /\ e.op = "none"
      BY <3>1, <3>2 DEF Whole, Replacing
    <3>3. CASE /\ e.at = "patched" /\ e.op = "patch" /\ edits[a].op = "patch"
               /\ e.input = edits[a].input
               /\ e.value = edits[a].value /\ e.version = Len(history) + 1
      <4>1. e.input \in Patch /\ e.value = value
        BY <3>3, <2>1, <2>2, <1>3 DEF Whole
      <4>2. Len(history) + 1 \in DOMAIN history' /\ history'[Len(history) + 1].value = value
        BY <1>4, <1>6
      <4>3. QED
        BY <3>1, <3>3, <4>1, <4>2 DEF Whole, Replacing
    <3>4. QED
      BY <1>7, <3>2, <3>3
  <2>3. CASE b # a
    <3>1. edits'[b] = edits[b]
      BY <2>3, <1>1, <1>7
    <3>2. \A i \in DOMAIN history : i \in DOMAIN history' /\ history'[i] = history[i]
      BY <1>1, <1>6
    <3>3. QED
      BY <2>1, <3>1, <3>2, <1>5 DEF Whole
  <2>4. QED
    BY <2>2, <2>3
<1>10. BasesAreCurrent'
  <2> SUFFICES ASSUME NEW b \in Author PROVE Current(edits[b], seen[b])'
    BY DEF BasesAreCurrent
  <2>1. /\ edits[b].fence <= recordFence /\ seen[b].fence <= recordFence
        /\ edits[b].fence \in Nat /\ seen[b].fence \in Nat
        /\ edits[b].at \in {"sent", "stored", "merged"} /\ edits[b].op \in Fenced =>
               edits[b].fence = seen[b].fence
    BY <1>1 DEF RecordsInv, BasesAreCurrent, Current, Edit, Learned
  <2>2. CASE b = a
    <3>1. edits'[b] = e /\ seen'[b] = s /\ e.at \notin {"sent", "stored", "merged"}
      BY <2>2, <1>1, <1>7
    <3>2. e.fence <= recordFence + 1 /\ s.fence <= recordFence + 1
      BY <2>1, <2>2, <1>1, <1>7
    <3>3. s.fence = recordFence + 1 => s.version = Len(history) + 1
      BY <2>1, <2>2, <1>1, <1>7
    <3>4. QED
      BY <3>1, <3>2, <3>3, <1>5 DEF Current
  <2>3. CASE b # a
    <3>1. edits'[b] = edits[b] /\ seen'[b] = seen[b]
      BY <2>3, <1>1, <1>7
    <3>2. edits[b].fence < recordFence + 1 /\ seen[b].fence < recordFence + 1
      BY <2>1, <1>1
    <3>3. QED
      BY <2>1, <3>1, <3>2, <1>1, <1>5 DEF Current
  <2>4. QED
    BY <2>2, <2>3
<1>11. Indexed'
  BY <1>3, <1>5 DEF Indexed, Exists
<1>12. TablesAgree'
  <2>1. /\ Len(history') = record'.revision
        /\ history'[record'.revision].value = record'.value
        /\ searchDoc'.value = record'.value
        /\ record'.archived \/ ~searchDoc'.tombstoned
    BY <1>3, <1>4, <1>5, <1>6
  <2>2. ASSUME NEW i \in DOMAIN history', history'[i].snapshot # NoValue
        PROVE  history'[i].snapshot = history'[i].value /\ history'[i].value \in snapshots
    <3>1. CASE i \in 1..Len(history)
      BY <3>1, <2>2, <1>1, <1>6 DEF RecordsInv, TablesAgree
    <3>2. CASE i = Len(history) + 1
      <4>1. /\ row.snapshot = value /\ row.value = value
            /\ backend = "snapshots" /\ edits[a].op \in Replacing
        BY <3>2, <2>2, <1>4, <1>6
      <4>2. edits[a].at = "stored" /\ value = edits[a].value
        BY <4>1, <1>3, CommitsAreWrites
      <4>3. value \in snapshots
        BY <4>2 DEF RecordsInv, EditsAreWhole, Whole
      <4>4. QED
        BY <3>2, <4>1, <4>3, <1>6
    <3>3. QED
      BY <3>1, <3>2, <1>6
  <2>3. QED
    BY <2>1, <2>2, <1>5 DEF TablesAgree
<1>13. QED
  BY <1>8, <1>9, <1>10, <1>11, <1>12 DEF RecordsInv

-----------------------------------------------------------------------------
(* The theorems.                                                           *)

LEMMA StepsKeep == RecordsInv /\ [RecordsNext]_recordVars => RecordsInv'
<1> SUFFICES ASSUME RecordsInv, [RecordsNext]_recordVars PROVE RecordsInv'
  OBVIOUS
<1>1. ASSUME NEW a \in Author, ReadRecord(a) \/ ReadRow(a) \/ ReadFence(a)
      PROVE  RecordsInv'
  BY <1>1, LearningKeeps
<1>2. ASSUME NEW a \in Author, ClaimName(a) PROVE RecordsInv'
  BY <1>2, ClaimKeeps
<1>3. ASSUME NEW a \in Author, NEW op \in Replacing, NEW value \in Value,
             SendWrite(a, op, value)
      PROVE  RecordsInv'
  <2>1. op # "patch" /\ value \in Patch
    BY ValuesArePatches DEF Replacing
  <2>2. QED
    BY <1>3, <2>1, SendingKeeps
<1>4. ASSUME NEW a \in Author, NEW patch \in Patch, SendWrite(a, "patch", patch)
      PROVE  RecordsInv'
  <2>1. "patch" \in Fenced /\ "patch" \notin Replacing
    BY DEF Replacing, Fenced
  <2>2. QED
    BY <1>4, <2>1, SendingKeeps
<1>5. ASSUME NEW a \in Author, NEW op \in {"archive", "unarchive"}, SendWrite(a, op, NoValue)
      PROVE  RecordsInv'
  <2>1. op \in Fenced /\ op \notin Replacing /\ op # "patch"
    BY DEF Replacing, Fenced
  <2>2. QED
    BY <1>5, <2>1, SendingKeeps
<1>6. ASSUME NEW a \in Author,
             PutSnapshot(a) \/ MergePatch(a) \/ PutPatchedSnapshot(a) \/ EditEnds(a)
      PROVE  RecordsInv'
  BY <1>6, WaitingKeeps
<1>7. ASSUME NEW a \in Author, CommitEdit(a) PROVE RecordsInv'
  BY <1>7, CommitKeeps
<1>8. ASSUME NEW a \in Author, StampArtifacts(a) PROVE RecordsInv'
  BY <1>8, StampingKeeps
<1>9. CASE UNCHANGED recordVars
  BY <1>9 DEF RecordsInv, RecordsTypeOK, EditsAreWhole, Whole, BasesAreCurrent, Current,
              Indexed, TablesAgree, Exists, recordVars
<1>10. QED
  BY <1>1, <1>2, <1>3, <1>4, <1>5, <1>6, <1>7, <1>8, <1>9 DEF RecordsNext

\* The inductive invariant: types, what each call holds, and bases that are
\* current as long as their fence is (record-ops.ts, assertResourceFence).
THEOREM RecordsInvariant == RecordsSpec => []RecordsInv
  BY RecordsStart, StepsKeep, PTL DEF RecordsSpec

\* Record, revisions, search document and snapshots tell one story after every
\* step of every call (insertRevisionRow, writeSearchDoc, stampArtifacts).
THEOREM RecordTablesAgree == RecordsSpec => []TablesAgree
<1>1. RecordsInv => TablesAgree
  BY DEF RecordsInv
<1>2. QED
  BY <1>1, RecordsInvariant, PTL

\* No write that presents a fence loses an update (patchRecord over its await,
\* setRecord): the row a patch was merged into and the revision an author read
\* are still there when the fence it presents is current.
THEOREM UpdatesAreKept == RecordsSpec => NoUpdateIsLost
<1> DEFINE Kept(a) ==
        /\ edits[a].op = "patch" => record'.value = Merged(edits[a].input, record.value)
        /\ edits[a].op \in Fenced /\ seen[a].version # 0 /\ backend # "embedded" =>
               seen[a].version = record.revision
<1>1. ASSUME RecordsInv, NEW a \in Author, CommitEdit(a) PROVE Kept(a)
  <2>1. Current(edits[a], seen[a])
    BY <1>1 DEF RecordsInv, BasesAreCurrent
  <2>2. PICK value \in Value, archived \in BOOLEAN :
            /\ WriteRows(a, value, archived)
            /\ edits[a].op \in Replacing \union {"patch"} => value = edits[a].value
    BY <1>1, CommitsAreWrites
  <2>3. record'.value = value
    BY <2>2 DEF WriteRows
  <2>4. /\ edits[a].op \in Fenced => edits[a].fence = recordFence
        /\ edits[a].op = "patch" => edits[a].at = "merged"
        /\ edits[a].at \in {"sent", "stored", "merged"}
    BY <1>1, CommitsAreWrites DEF FenceMatches
  <2>5. QED
    BY <2>1, <2>2, <2>3, <2>4 DEF Current, Fenced
<1>2. ASSUME RecordsInv, RecordsNext, NEW a \in Author, Commits(a) PROVE CommitEdit(a)
  <2>1. record' # record /\ edits'[a] # edits[a] /\ edits \in [Author -> Edit]
    BY <1>2 DEF Commits, RecordsInv, RecordsTypeOK
  <2>2. PICK b \in Author : CommitEdit(b)
    <3>1. ASSUME NEW b \in Author,
                 \/ ReadRecord(b) \/ ReadRow(b) \/ ReadFence(b) \/ ClaimName(b)
                 \/ PutSnapshot(b) \/ MergePatch(b) \/ PutPatchedSnapshot(b)
                 \/ StampArtifacts(b) \/ EditEnds(b)
          PROVE  record' = record
      BY <3>1 DEF ReadRecord, ReadRow, ReadFence, ClaimName, PutSnapshot, MergePatch,
                  PutPatchedSnapshot, StampArtifacts, EditEnds, StoreKeeps
    <3>2. ASSUME NEW b \in Author, NEW op, NEW input, SendWrite(b, op, input)
          PROVE  record' = record
      BY <3>2 DEF SendWrite, StoreKeeps
    <3>3. QED
      BY <1>2, <2>1, <3>1, <3>2 DEF RecordsNext
  <2>3. \E e : edits' = [edits EXCEPT ![b] = e]
    BY <1>2, <2>2, CommitsAreWrites DEF Answer
  <2>4. QED
    BY <2>1, <2>2, <2>3
<1> HIDE DEF Kept
<1>3. ASSUME RecordsInv, [RecordsNext]_recordVars
      PROVE  [\A a \in Author : Commits(a) => Kept(a)]_recordVars
  BY <1>1, <1>2, <1>3
<1>4. QED
  BY <1>3, RecordsInvariant, PTL DEF RecordsSpec, NoUpdateIsLost, Kept
=============================================================================
