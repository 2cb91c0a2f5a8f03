--------------------------- MODULE DispatchProofs ---------------------------
(***************************************************************************)
(* Theorems about module Dispatch, for every number of runs, messages and  *)
(* attachments, with a connector that can die at any step.                 *)
(*                                                                         *)
(* The argument for WakesAreNotRepeated: while a delivery may have woken   *)
(* the session and was not fetched since, the connector's ledger names the *)
(* wake, the server still counts the delivery among the unfetched ones of  *)
(* that wake, and nothing the connector can learn says that the wake did   *)
(* not arrive.  So the ledger is not cleared, and without that no lease is *)
(* asked for.                                                              *)
(***************************************************************************)
EXTENDS Dispatch, TLAPS

Outcome == {"none", "accepted", "deferred", "unknown"}

Binding == [state : {"none", "active", "replaced", "released"}, epoch : Nat]
Mail == [state : {"none", "pending", "closed"}, target : Run \union {NoRun}, gen : Nat,
         stopped : BOOLEAN, fetched : BOOLEAN, rewakes : Nat]
Outbox == [state : {"quiet", "pending"}, gen : Nat, lease : Token \union {NoToken}, due : BOOLEAN]
Attempt == [run : Run \union {NoRun}, gen : Nat, unfetched : SUBSET Delivery,
            outcome : Outcome \union {"leased"}, live : BOOLEAN]
Pending == [token : Token \union {NoToken}, outcome : Outcome, reported : BOOLEAN]
Doing == [at : {"resting", "leased", "recorded", "woken", "status", "down"},
          token : Token \union {NoToken}, outcome : Outcome, fetched : BOOLEAN,
          reportable : BOOLEAN, live : BOOLEAN]

DispatchTypeOK ==
    /\ retired \in BOOLEAN /\ epoch \in Nat
    /\ bindings \in [Run -> Binding]
    /\ mail \in [Delivery -> Mail]
    /\ outbox \in Outbox
    /\ wakes \in [Token -> Attempt]
    /\ entry \in [run : Run \union {NoRun}, pending : Pending]
    /\ connector \in Doing
    /\ nudges \in [Delivery -> Nat]

\* No delivery is of a publication that the outbox does not count.
DeliveriesAreCounted == \A d \in Delivery : mail[d].gen <= outbox.gen

Unwoken == \A d \in Delivery : nudges[d] = 0

\* The ledger tells that d may be behind a wake, and so do the server's rows.
Behind(d) ==
    LET t == entry.pending.token IN
    t \in Token /\ d \in wakes[t].unfetched /\ entry.pending.outcome # "deferred"

WokenMailIsKnown ==
    /\ \A d \in Delivery : nudges[d] <= 1
    /\ entry.run # NoRun => \A d \in Delivery : nudges[d] > 0 => Behind(d)

\* What the connector does, and what its ledger says meanwhile.
LedgerLeads ==
    LET t == connector.token
        p == entry.pending
    IN  /\ p = NoPending \/ p.token \in Token
        /\ p.token \in Token /\ wakes[p.token].outcome = "deferred" => p.outcome = "deferred"
        /\ entry.run = NoRun => connector = Resting /\ p = NoPending
        /\ connector.at \in {"leased", "recorded", "woken"} =>
               t \in Token /\ wakes[t].outcome = "leased"
        /\ connector.at = "leased" => p = NoPending /\ Unwoken
        /\ connector.at \in {"recorded", "woken"} => p = [NoPending EXCEPT !.token = t]
        /\ connector.at = "recorded" => Unwoken
        /\ connector.at = "woken" /\ connector.outcome = "deferred" => Unwoken
        /\ connector.at = "status" =>
               t \in Token /\ t = p.token /\ (connector.fetched => wakes[t].unfetched = {})

DispatchInv ==
    /\ DispatchTypeOK /\ TheMailboxHasOneConsumer /\ DeliveriesAreCounted
    /\ WokenMailIsKnown /\ LedgerLeads

USE DispatchAssumption

-----------------------------------------------------------------------------
(* The rows the operators of the model build.                              *)

LEMMA InitialRows ==
    /\ NoPending \in Pending /\ NoPending.token = NoToken /\ NoPending.outcome = "none"
    /\ Resting \in Doing /\ Resting.at = "resting" /\ Resting.token = NoToken
    /\ Down \in Doing /\ Down.at = "down" /\ Down.token = NoToken
    /\ NoAttempt \in Attempt /\ NoAttempt.outcome = "none" /\ NoAttempt.unfetched = {}
    /\ NoMail \in Mail /\ NoMail.gen = 0
<1>1. NoPending \in Pending /\ NoPending.token = NoToken /\ NoPending.outcome = "none"
  BY DEF NoPending, Pending, Outcome
<1>2. /\ Resting \in Doing /\ Resting.at = "resting" /\ Resting.token = NoToken
      /\ Down \in Doing /\ Down.at = "down" /\ Down.token = NoToken
  BY DEF Resting, Down, Doing, Outcome
<1>3. NoAttempt \in Attempt /\ NoAttempt.outcome = "none" /\ NoAttempt.unfetched = {}
  BY DEF NoAttempt, Attempt, Outcome
<1>4. NoMail \in Mail /\ NoMail.gen = 0
  BY DEF NoMail, Mail
<1>5. QED
  BY <1>1, <1>2, <1>3, <1>4

LEMMA OutboxRows ==
    ASSUME outbox \in Outbox
    PROVE  /\ Rearmed \in Outbox /\ Rearmed.gen >= outbox.gen
           /\ Quieted \in Outbox /\ Quieted.gen = outbox.gen
<1>1. outbox.gen \in Nat /\ outbox.due \in BOOLEAN
  BY DEF Outbox
<1>2. Rearmed \in Outbox /\ Rearmed.gen >= outbox.gen
  BY <1>1 DEF Outbox, Rearmed, NoToken
<1>3. Quieted \in Outbox /\ Quieted.gen = outbox.gen
  BY <1>1 DEF Outbox, Quieted, NoToken
<1>4. QED
  BY <1>2, <1>3

LEMMA UnfetchedRows ==
    ASSUME NEW w \in Attempt, NEW S
    PROVE  /\ [w EXCEPT !.unfetched = @ \ S] \in Attempt
           /\ [w EXCEPT !.unfetched = @ \ S].unfetched = w.unfetched \ S
           /\ [w EXCEPT !.unfetched = @ \ S].outcome = w.outcome
  BY DEF Attempt

LEMMA EndedBindings ==
    ASSUME bindings \in [Run -> Binding], NEW state \in {"replaced", "released"}
    PROVE  /\ BindingsEnded(state) \in [Run -> Binding]
           /\ \A r \in Run : BindingsEnded(state)[r].state # "active"
  BY DEF BindingsEnded, Binding

\* While no wake is in hand, the outbox refers to one attempt at most.
LEMMA FreeTokenIsFree ==
    ASSUME connector.token = NoToken, entry.pending.token = NoToken
    PROVE  FreeToken \in Token /\ FreeToken \notin InUse
<1>1. \E t \in Token : t \notin InUse
  BY DEF InUse, Token, NoToken
<1>2. \E t \in Token \ InUse : \A u \in Token \ InUse : t <= u
  BY <1>1 DEF Token
<1>3. QED
  BY <1>2 DEF FreeToken

LEMMA PublishedRow ==
    ASSUME NEW target \in Run \union {NoRun}, NEW gen \in Nat, NEW stopped \in BOOLEAN
    PROVE  LET m == [NoMail EXCEPT !.state = "pending", !.target = target, !.gen = gen,
                                   !.stopped = stopped]
           IN  m \in Mail /\ m.gen = gen
  BY DEF NoMail, Mail

\* What becomes of a delivery in a bulk step keeps its row whole.
LEMMA ClosedRows ==
    ASSUME DispatchTypeOK, NEW d \in Delivery, Closed(d)
    PROVE  /\ mail' \in [Delivery -> Mail]
           /\ \A e \in Delivery : mail'[e].gen <= mail[e].gen
           /\ wakes' \in [Token -> Attempt]
           /\ \A t \in Token : /\ wakes'[t].unfetched = wakes[t].unfetched \ {d}
                               /\ wakes'[t].outcome = wakes[t].outcome
           /\ nudges' \in [Delivery -> Nat]
           /\ \A e \in Delivery : nudges'[e] = IF e = d THEN 0 ELSE nudges[e]
<1>1. [NoMail EXCEPT !.state = "closed"] \in Mail /\ [NoMail EXCEPT !.state = "closed"].gen = 0
  BY DEF NoMail, Mail
<1>2. \A e \in Delivery : mail[e].gen \in Nat
  BY DEF DispatchTypeOK, Mail
<1>3. /\ mail' \in [Delivery -> Mail]
      /\ \A e \in Delivery : mail'[e].gen <= mail[e].gen
  BY <1>1, <1>2 DEF DispatchTypeOK, Closed
<1>4. \A t \in Token : wakes'[t] = [wakes[t] EXCEPT !.unfetched = @ \ {d}]
  BY DEF Closed
<1>5. \A t \in Token : wakes[t] \in Attempt
  BY DEF DispatchTypeOK
<1>6. /\ wakes' \in [Token -> Attempt]
      /\ \A t \in Token : /\ wakes'[t].unfetched = wakes[t].unfetched \ {d}
                          /\ wakes'[t].outcome = wakes[t].outcome
  BY <1>4, <1>5, UnfetchedRows DEF Closed
<1>7. /\ nudges' \in [Delivery -> Nat]
      /\ \A e \in Delivery : nudges'[e] = IF e = d THEN 0 ELSE nudges[e]
  BY DEF DispatchTypeOK, Closed
<1>8. QED
  BY <1>3, <1>6, <1>7

-----------------------------------------------------------------------------
(* Steps that leave the connector and its ledger alone.                    *)

\* The server's rows of a wake only lose deliveries, and none the session may
\* have been woken for.
WakesOnlyShrink ==
    /\ \A t \in Token : /\ wakes'[t].outcome = wakes[t].outcome
                        /\ wakes'[t].unfetched \subseteq wakes[t].unfetched
    /\ \A d \in Delivery :
           \/ nudges'[d] = 0
           \/ /\ nudges'[d] = nudges[d]
              /\ \A t \in Token : d \in wakes[t].unfetched => d \in wakes'[t].unfetched

LEMMA ServerStepsKeepLedger ==
    ASSUME DispatchInv, UNCHANGED <<entry, connector>>, WakesOnlyShrink
    PROVE  WokenMailIsKnown' /\ LedgerLeads'
<1>1. Unwoken => Unwoken'
  BY DEF Unwoken, WakesOnlyShrink
<1>2. \A d \in Delivery : nudges'[d] > 0 => nudges[d] > 0 /\ (Behind(d) => Behind(d)')
  BY DEF WakesOnlyShrink, Behind
<1>3. \A d \in Delivery : nudges'[d] <= 1
  BY DEF DispatchInv, WokenMailIsKnown, WakesOnlyShrink
<1>4. WokenMailIsKnown'
  BY <1>2, <1>3 DEF DispatchInv, WokenMailIsKnown
<1>5. LedgerLeads'
  BY <1>1 DEF DispatchInv, LedgerLeads, WakesOnlyShrink
<1>6. QED
  BY <1>4, <1>5

LEMMA EndBindingKeeps ==
    ASSUME DispatchInv, EndBinding \/ ArchiveAgent PROVE DispatchInv'
<1>. USE DEF DispatchInv
<1>1. /\ bindings' = BindingsEnded("released")
      /\ UNCHANGED <<mail, wakes, entry, connector, nudges>>
  BY DEF EndBinding, ArchiveAgent
<1>2. /\ bindings' \in [Run -> Binding]
      /\ \A r \in Run : bindings'[r].state # "active"
  BY <1>1, EndedBindings DEF DispatchTypeOK
<1>3. outbox' \in Outbox /\ outbox'.gen = outbox.gen
  <2>1. outbox' = outbox \/ outbox' = Quieted
    BY DEF EndBinding, ArchiveAgent
  <2>2. QED
    BY <2>1, OutboxRows DEF DispatchTypeOK
<1>4. epoch' \in Nat /\ retired' \in BOOLEAN
  <2>1. epoch' = epoch \/ epoch' = epoch + 1
    BY DEF EndBinding, ArchiveAgent
  <2>2. retired' = retired \/ retired' = TRUE
    BY DEF EndBinding, ArchiveAgent
  <2>3. epoch' \in Nat
    BY <2>1 DEF DispatchTypeOK
  <2>4. retired' \in BOOLEAN
    BY <2>2, Zenon DEF DispatchTypeOK
  <2>5. QED
    BY <2>3, <2>4
<1>5. DispatchTypeOK'
  BY <1>1, <1>2, <1>3, <1>4 DEF DispatchTypeOK
<1>6. TheMailboxHasOneConsumer'
  BY <1>2 DEF TheMailboxHasOneConsumer
<1>7. DeliveriesAreCounted'
  BY <1>1, <1>3 DEF DeliveriesAreCounted
<1>8. WokenMailIsKnown' /\ LedgerLeads'
  BY <1>1, ServerStepsKeepLedger DEF WakesOnlyShrink
<1>9. QED
  BY <1>5, <1>6, <1>7, <1>8

LEMMA AttachKeeps ==
    ASSUME DispatchInv, NEW r \in Run, Attach(r) PROVE DispatchInv'
<1>. USE DEF DispatchInv
<1>1. /\ bindings' = [BindingsEnded("replaced") EXCEPT
                          ![r] = [state |-> "active", epoch |-> epoch + 1]]
      /\ epoch' = epoch + 1 /\ epoch \in Nat
      /\ outbox' = Rearmed
      /\ nudges' = [d \in Delivery |-> 0]
      /\ UNCHANGED <<retired, mail, wakes, entry, connector>>
  BY DEF DispatchTypeOK, Attach
<1>2. /\ BindingsEnded("replaced") \in [Run -> Binding]
      /\ \A s \in Run : BindingsEnded("replaced")[s].state # "active"
  BY EndedBindings DEF DispatchTypeOK
<1>3. /\ bindings' \in [Run -> Binding]
      /\ bindings'[r].epoch = epoch'
      /\ \A s \in Run : bindings'[s].state = "active" => s = r
  BY <1>1, <1>2 DEF Binding
<1>4. outbox' \in Outbox /\ outbox'.gen >= outbox.gen
  BY <1>1, OutboxRows DEF DispatchTypeOK
<1>5. DispatchTypeOK'
  BY <1>1, <1>3, <1>4 DEF DispatchTypeOK
<1>6. TheMailboxHasOneConsumer'
  BY <1>3 DEF TheMailboxHasOneConsumer
<1>7. DeliveriesAreCounted'
  <2>1. \A d \in Delivery : mail[d].gen \in Nat
    BY DEF DispatchTypeOK, Mail
  <2>2. outbox.gen \in Nat /\ outbox'.gen \in Nat
    BY <1>4 DEF DispatchTypeOK, Outbox
  <2>3. QED
    BY <1>1, <1>4, <2>1, <2>2 DEF DeliveriesAreCounted
<1>8. WokenMailIsKnown' /\ LedgerLeads'
  BY <1>1, ServerStepsKeepLedger DEF WakesOnlyShrink
<1>9. QED
  BY <1>5, <1>6, <1>7, <1>8

\* Steps that touch only times and flags of the server.
LEMMA ClockKeeps ==
    ASSUME DispatchInv, NEW t \in Token, UnarchiveAgent \/ BackoffEnds \/ LeaseRunsOut(t)
    PROVE  DispatchInv'
<1>. USE DEF DispatchInv
<1>1. UNCHANGED <<epoch, bindings, mail, entry, connector, nudges>> /\ retired' \in BOOLEAN
  BY DEF DispatchTypeOK, UnarchiveAgent, BackoffEnds, LeaseRunsOut
<1>2. outbox' \in Outbox /\ outbox'.gen = outbox.gen
  BY DEF DispatchTypeOK, Outbox, UnarchiveAgent, BackoffEnds, LeaseRunsOut
<1>3. /\ wakes' \in [Token -> Attempt]
      /\ \A u \in Token : /\ wakes'[u].unfetched = wakes[u].unfetched
                          /\ wakes'[u].outcome = wakes[u].outcome
  <2>1. [wakes[t] EXCEPT !.live = FALSE] \in Attempt
    BY DEF DispatchTypeOK, Attempt
  <2>2. wakes' = wakes \/ wakes' = [wakes EXCEPT ![t] = [wakes[t] EXCEPT !.live = FALSE]]
    BY DEF UnarchiveAgent, BackoffEnds, LeaseRunsOut
  <2>3. /\ [wakes[t] EXCEPT !.live = FALSE].unfetched = wakes[t].unfetched
        /\ [wakes[t] EXCEPT !.live = FALSE].outcome = wakes[t].outcome
    BY DEF DispatchTypeOK, Attempt
  <2>4. wakes \in [Token -> Attempt]
    BY DEF DispatchTypeOK
  <2>5. CASE wakes' = wakes
    BY <2>4, <2>5
  <2>6. CASE wakes' = [wakes EXCEPT ![t] = [wakes[t] EXCEPT !.live = FALSE]]
    BY <2>1, <2>3, <2>4, <2>6
  <2>7. QED
    BY <2>2, <2>5, <2>6
<1>4. DispatchTypeOK'
  BY <1>1, <1>2, <1>3 DEF DispatchTypeOK
<1>5. TheMailboxHasOneConsumer' /\ DeliveriesAreCounted'
  BY <1>1, <1>2 DEF TheMailboxHasOneConsumer, DeliveriesAreCounted
<1>6. WokenMailIsKnown' /\ LedgerLeads'
  BY <1>1, <1>3, ServerStepsKeepLedger DEF WakesOnlyShrink
<1>7. QED
  BY <1>4, <1>5, <1>6

LEMMA PublishKeeps ==
    ASSUME DispatchInv, NEW d \in Delivery, NEW exact \in BOOLEAN, NEW stopped \in BOOLEAN,
           PublishMessage(d, exact, stopped)
    PROVE  DispatchInv'
<1>. USE DEF DispatchInv
<1>1. UNCHANGED <<retired, epoch, bindings, wakes, entry, connector, nudges>>
  BY DEF PublishMessage
<1>2. /\ outbox.gen \in Nat
      /\ outbox' \in Outbox /\ outbox'.gen = outbox.gen + 1
  <2>1. outbox \in Outbox /\ outbox.gen \in Nat
    BY DEF DispatchTypeOK, Outbox
  <2>2. outbox' = [state |-> "pending", gen |-> outbox.gen + 1, lease |-> outbox.lease, due |-> TRUE]
    BY <2>1 DEF PublishMessage, Outbox
  <2>3. outbox.gen + 1 \in Nat /\ outbox.lease \in Token \union {NoToken}
    BY <2>1 DEF Outbox
  <2>4. QED
    BY <2>1, <2>2, <2>3 DEF Outbox
<1>3. PICK target \in Run \union {NoRun} :
          mail' = [mail EXCEPT ![d] = [NoMail EXCEPT !.state = "pending", !.target = target,
                                           !.gen = outbox.gen + 1, !.stopped = stopped]]
  BY DEF PublishMessage
<1>4. \A e \in Delivery : mail[e] \in Mail /\ mail[e].gen \in Nat
  BY DEF DispatchTypeOK, Mail
<1>. DEFINE m == [NoMail EXCEPT !.state = "pending", !.target = target,
                                !.gen = outbox.gen + 1, !.stopped = stopped]
<1>5. m \in Mail /\ m.gen = outbox.gen + 1 /\ mail' = [mail EXCEPT ![d] = m]
  <2>1. outbox.gen + 1 \in Nat
    BY <1>2
  <2>2. m \in Mail /\ m.gen = outbox.gen + 1
    BY <2>1, PublishedRow, Zenon
  <2>3. QED
    BY <1>3, <2>2
<1>. HIDE DEF m
<1>6. mail' \in [Delivery -> Mail] /\ DeliveriesAreCounted'
  <2>1. mail' \in [Delivery -> Mail]
    BY <1>5 DEF DispatchTypeOK
  <2>2. \A e \in Delivery : mail'[e] = IF e = d THEN m ELSE mail[e]
    BY <1>5 DEF DispatchTypeOK
  <2>3. QED
    BY <1>2, <1>4, <1>5, <2>1, <2>2 DEF DeliveriesAreCounted
<1>7. DispatchTypeOK'
  BY <1>1, <1>2, <1>6 DEF DispatchTypeOK
<1>8. TheMailboxHasOneConsumer'
  BY <1>1 DEF TheMailboxHasOneConsumer
<1>9. WokenMailIsKnown' /\ LedgerLeads'
  BY <1>1, ServerStepsKeepLedger DEF WakesOnlyShrink
<1>10. QED
  BY <1>6, <1>7, <1>8, <1>9

LEMMA FetchKeeps ==
    ASSUME DispatchInv, NEW r \in Run, Fetch(r) PROVE DispatchInv'
<1>. USE DEF DispatchInv
<1>1. UNCHANGED <<retired, epoch, bindings, outbox, entry, connector>>
  BY DEF Fetch
<1>2. \A e \in Delivery : /\ mail[e] \in Mail
                          /\ [mail[e] EXCEPT !.fetched = TRUE] \in Mail
                          /\ [mail[e] EXCEPT !.fetched = TRUE].gen = mail[e].gen
  <2>1. \A e \in Delivery : mail[e] \in Mail
    BY DEF DispatchTypeOK
  <2>2. ASSUME NEW m \in Mail
        PROVE  /\ [m EXCEPT !.fetched = TRUE] \in Mail
               /\ [m EXCEPT !.fetched = TRUE].gen = m.gen
    BY DEF Mail
  <2>3. QED
    BY <2>1, <2>2
<1>3. /\ mail' \in [Delivery -> Mail]
      /\ \A e \in Delivery : mail'[e].gen = mail[e].gen
  BY <1>2 DEF Fetch
<1>4. \A t \in Token : wakes[t] \in Attempt
  BY DEF DispatchTypeOK
<1>5. \A t \in Token : \/ wakes'[t] = wakes[t]
                       \/ wakes'[t] = [wakes[t] EXCEPT !.unfetched = @ \ PendingFor(r)]
  BY DEF Fetch
<1>6. /\ wakes' \in [Token -> Attempt]
      /\ \A t \in Token :
             /\ wakes'[t].outcome = wakes[t].outcome
             /\ wakes'[t].unfetched \in {wakes[t].unfetched, wakes[t].unfetched \ PendingFor(r)}
  <2>1. \A t \in Token :
             /\ wakes'[t] \in Attempt
             /\ wakes'[t].outcome = wakes[t].outcome
             /\ wakes'[t].unfetched \in {wakes[t].unfetched, wakes[t].unfetched \ PendingFor(r)}
    <3> SUFFICES ASSUME NEW t \in Token
                 PROVE  /\ wakes'[t] \in Attempt
                        /\ wakes'[t].outcome = wakes[t].outcome
                        /\ wakes'[t].unfetched \in {wakes[t].unfetched,
                                                   wakes[t].unfetched \ PendingFor(r)}
      OBVIOUS
    <3>1. CASE wakes'[t] = wakes[t]
      BY <3>1, <1>4
    <3>2. CASE wakes'[t] = [wakes[t] EXCEPT !.unfetched = @ \ PendingFor(r)]
      BY <3>2, <1>4, UnfetchedRows
    <3>3. QED
      BY <3>1, <3>2, <1>5
  <2>2. DOMAIN wakes' = Token /\ wakes' = [t \in Token |-> wakes'[t]]
    BY DEF Fetch
  <2>3. QED
    BY <2>1, <2>2
<1>7. /\ nudges' \in [Delivery -> Nat]
      /\ \A d \in Delivery : nudges'[d] = IF d \in PendingFor(r) THEN 0 ELSE nudges[d]
  BY DEF DispatchTypeOK, Fetch
<1>8. DispatchTypeOK'
  BY <1>1, <1>3, <1>6, <1>7 DEF DispatchTypeOK
<1>9. TheMailboxHasOneConsumer' /\ DeliveriesAreCounted'
  BY <1>1, <1>3 DEF TheMailboxHasOneConsumer, DeliveriesAreCounted
<1>10. WakesOnlyShrink
  BY <1>6, <1>7 DEF WakesOnlyShrink
<1>11. QED
  BY <1>1, <1>8, <1>9, <1>10, ServerStepsKeepLedger

LEMMA CloseKeeps ==
    ASSUME DispatchInv, NEW d \in Delivery,
           DeliveryExpires(d) \/ \E r \in Run : Acknowledge(r, d)
    PROVE  DispatchInv'
<1>. USE DEF DispatchInv
<1>1. Closed(d) /\ UNCHANGED <<retired, epoch, bindings, entry, connector>>
  BY DEF Acknowledge, DeliveryExpires
<1>2. outbox' \in Outbox /\ outbox'.gen = outbox.gen
  <2>1. outbox' = outbox \/ outbox' = Quieted
    BY DEF Acknowledge, DeliveryExpires
  <2>2. QED
    BY <2>1, OutboxRows DEF DispatchTypeOK
<1>3. /\ mail' \in [Delivery -> Mail]
      /\ \A e \in Delivery : mail'[e].gen <= mail[e].gen
      /\ wakes' \in [Token -> Attempt]
      /\ \A t \in Token : /\ wakes'[t].unfetched = wakes[t].unfetched \ {d}
                          /\ wakes'[t].outcome = wakes[t].outcome
      /\ nudges' \in [Delivery -> Nat]
      /\ \A e \in Delivery : nudges'[e] = IF e = d THEN 0 ELSE nudges[e]
  BY <1>1, ClosedRows
<1>4. DispatchTypeOK'
  BY <1>1, <1>2, <1>3 DEF DispatchTypeOK
<1>5. TheMailboxHasOneConsumer'
  BY <1>1 DEF TheMailboxHasOneConsumer
<1>6. DeliveriesAreCounted'
  <2>1. \A e \in Delivery : mail[e].gen \in Nat /\ mail'[e].gen \in Nat
    BY <1>3 DEF DispatchTypeOK, Mail
  <2>2. outbox.gen \in Nat
    BY DEF DispatchTypeOK, Outbox
  <2>3. QED
    BY <1>2, <1>3, <2>1, <2>2 DEF DeliveriesAreCounted
<1>7. WokenMailIsKnown' /\ LedgerLeads'
  BY <1>1, <1>3, ServerStepsKeepLedger DEF WakesOnlyShrink
<1>8. QED
  BY <1>4, <1>5, <1>6, <1>7

LEMMA ResumeKeeps ==
    ASSUME DispatchInv, NEW d \in Delivery, Resume(d) PROVE DispatchInv'
<1>. USE DEF DispatchInv
<1>1. /\ mail' = [mail EXCEPT ![d].stopped = FALSE, ![d].rewakes = 0]
      /\ outbox' = Rearmed
      /\ UNCHANGED <<retired, epoch, bindings, wakes, entry, connector, nudges>>
  BY DEF Resume
<1>2. \A e \in Delivery : mail[e] \in Mail /\ mail[e].gen \in Nat
  BY DEF DispatchTypeOK, Mail
<1>3. LET m == [mail[d] EXCEPT !.stopped = FALSE, !.rewakes = 0]
      IN  m \in Mail /\ m.gen = mail[d].gen /\ mail' = [mail EXCEPT ![d] = m]
  BY <1>1, <1>2 DEF Mail
<1>4. /\ mail' \in [Delivery -> Mail]
      /\ \A e \in Delivery : mail'[e].gen = mail[e].gen
  BY <1>3 DEF DispatchTypeOK
<1>5. outbox' \in Outbox /\ outbox'.gen >= outbox.gen
  BY <1>1, OutboxRows DEF DispatchTypeOK
<1>6. DispatchTypeOK'
  BY <1>1, <1>4, <1>5 DEF DispatchTypeOK
<1>7. TheMailboxHasOneConsumer'
  BY <1>1 DEF TheMailboxHasOneConsumer
<1>8. DeliveriesAreCounted'
  <2>1. outbox.gen \in Nat /\ outbox'.gen \in Nat
    BY <1>5 DEF DispatchTypeOK, Outbox
  <2>2. QED
    BY <1>2, <1>4, <1>5, <2>1 DEF DeliveriesAreCounted
<1>9. WokenMailIsKnown' /\ LedgerLeads'
  BY <1>1, ServerStepsKeepLedger DEF WakesOnlyShrink
<1>10. QED
  BY <1>6, <1>7, <1>8, <1>9

-----------------------------------------------------------------------------
(* Steps of the connector.                                                 *)

\* Without a pending wake there is none the session could have been left with.
LEMMA NothingPendingNothingWoken ==
    ASSUME DispatchInv, entry.run # NoRun, entry.pending = NoPending
    PROVE  Unwoken
<1>1. entry.pending.token \notin Token
  BY DEF NoPending, NoToken, Token
<1>2. \A d \in Delivery : ~(nudges[d] > 0) /\ nudges[d] \in Nat
  BY <1>1 DEF DispatchInv, DispatchTypeOK, WokenMailIsKnown, Behind
<1>3. QED
  BY <1>2 DEF Unwoken

\* Steps that leave the server's rows and the nudges alone.
LEMMA LedgerStepsKeep ==
    ASSUME DispatchInv, ConnectorKeeps, LedgerLeads',
           entry' \in [run : Run \union {NoRun}, pending : Pending], connector' \in Doing,
           entry'.run # NoRun => entry.run # NoRun,
           \/ Unwoken
           \/ /\ entry'.pending.token = entry.pending.token
              /\ entry'.pending.outcome = "deferred" => entry.pending.outcome = "deferred"
           \/ entry'.run = NoRun
    PROVE  DispatchInv'
<1>1. UNCHANGED <<retired, epoch, bindings, mail, outbox, wakes, nudges>>
  BY DEF ConnectorKeeps, serverVars
<1>2. DispatchTypeOK'
  BY <1>1 DEF DispatchInv, DispatchTypeOK
<1>3. TheMailboxHasOneConsumer' /\ DeliveriesAreCounted'
  BY <1>1 DEF DispatchInv, TheMailboxHasOneConsumer, DeliveriesAreCounted
<1>4. WokenMailIsKnown'
  BY <1>1 DEF DispatchInv, WokenMailIsKnown, Behind, Unwoken
<1>5. QED
  BY <1>2, <1>3, <1>4 DEF DispatchInv

LEMMA RegisterKeeps ==
    ASSUME DispatchInv, NEW r \in Run, RegisterSession(r) PROVE DispatchInv'
<1>1. /\ entry' = [run |-> r, pending |-> NoPending] /\ entry.run = NoRun
      /\ nudges' = [d \in Delivery |-> 0]
      /\ UNCHANGED <<serverVars, connector>>
  BY DEF RegisterSession
<1>2. connector' = Resting
  BY <1>1 DEF DispatchInv, LedgerLeads
<1>3. DispatchTypeOK'
  BY <1>1, InitialRows DEF DispatchInv, DispatchTypeOK, serverVars
<1>4. TheMailboxHasOneConsumer' /\ DeliveriesAreCounted'
  BY <1>1 DEF DispatchInv, TheMailboxHasOneConsumer, DeliveriesAreCounted, serverVars
<1>5. WokenMailIsKnown'
  BY <1>1 DEF WokenMailIsKnown
<1>6. LedgerLeads'
  BY <1>1, <1>2, InitialRows DEF LedgerLeads, Token, NoToken
<1>7. QED
  BY <1>3, <1>4, <1>5, <1>6 DEF DispatchInv

LEMMA UnregisterKeeps ==
    ASSUME DispatchInv, Unregister PROVE DispatchInv'
<1>1. /\ entry' = [run |-> NoRun, pending |-> NoPending]
      /\ connector = Resting /\ connector' = connector /\ ConnectorKeeps
  BY DEF Unregister, ConnectorKeeps
<1>2. entry' \in [run : Run \union {NoRun}, pending : Pending] /\ connector' \in Doing
  BY <1>1, InitialRows
<1>3. LedgerLeads'
  BY <1>1, InitialRows DEF LedgerLeads, Token, NoToken
<1>4. entry'.run = NoRun
  BY <1>1
<1>5. QED
  BY <1>1, <1>2, <1>3, <1>4, LedgerStepsKeep

LEMMA StartAndStopKeep ==
    ASSUME DispatchInv, ConnectorDies \/ ConnectorStarts \/ ReportFails PROVE DispatchInv'
<1>1. ConnectorKeeps /\ entry' = entry /\ connector' \in {Resting, Down} /\ connector # Resting
  BY InitialRows DEF ConnectorDies, ConnectorStarts, ReportFails, Resting, Down
<1>2. connector' \in Doing /\ connector'.at \in {"resting", "down"}
  BY <1>1, InitialRows
<1>3. entry.run # NoRun
  BY <1>1 DEF DispatchInv, LedgerLeads
<1>4. LedgerLeads'
  BY <1>1, <1>2, <1>3 DEF DispatchInv, LedgerLeads, ConnectorKeeps, serverVars
<1>5. entry' \in [run : Run \union {NoRun}, pending : Pending]
  BY <1>1 DEF DispatchInv, DispatchTypeOK
<1>6. QED
  BY <1>1, <1>2, <1>4, <1>5, LedgerStepsKeep

LEMMA RecordLeaseKeeps ==
    ASSUME DispatchInv, RecordLease PROVE DispatchInv'
<1>. DEFINE t == connector.token
            p == [NoPending EXCEPT !.token = t]
<1>1. /\ connector.at = "leased" /\ ConnectorKeeps
      /\ entry' = [entry EXCEPT !.pending = p]
      /\ connector' = [connector EXCEPT !.at = "recorded"]
  BY DEF RecordLease
<1>2. /\ entry \in [run : Run \union {NoRun}, pending : Pending] /\ connector \in Doing
      /\ t \in Token /\ wakes[t].outcome = "leased" /\ Unwoken /\ entry.run # NoRun
  BY <1>1, InitialRows DEF DispatchInv, DispatchTypeOK, LedgerLeads
<1>3. /\ connector' \in Doing /\ connector'.at = "recorded" /\ connector'.token = t
  BY <1>1, <1>2 DEF Doing
<1>4. p \in Pending /\ p.token = t
  BY <1>2 DEF NoPending, Pending, Outcome
<1>5. /\ entry' \in [run : Run \union {NoRun}, pending : Pending]
      /\ entry'.run = entry.run /\ entry'.pending = p
  BY <1>1, <1>2, <1>4
<1>6. wakes' = wakes /\ Unwoken'
  BY <1>1, <1>2 DEF ConnectorKeeps, serverVars, Unwoken
<1>7. LedgerLeads'
  BY <1>2, <1>3, <1>4, <1>5, <1>6 DEF LedgerLeads
<1>8. QED
  BY <1>1, <1>2, <1>3, <1>5, <1>7, LedgerStepsKeep

LEMMA WakeSessionKeeps ==
    ASSUME DispatchInv, NEW outcome \in {"accepted", "deferred", "unknown"},
           NEW arrived \in BOOLEAN, WakeSession(outcome, arrived)
    PROVE  DispatchInv'
<1>. DEFINE t == connector.token
<1>1. /\ connector.at = "recorded" /\ UNCHANGED <<serverVars, entry>>
      /\ connector' = [connector EXCEPT !.at = "woken", !.outcome = outcome]
      /\ outcome = "deferred" => ~arrived
      /\ nudges' = [d \in Delivery |-> IF arrived /\ d \in wakes[t].unfetched
                                       THEN nudges[d] + 1 ELSE nudges[d]]
  BY DEF WakeSession
<1>2. /\ connector \in Doing /\ t \in Token /\ wakes[t].outcome = "leased" /\ Unwoken
      /\ entry.pending = [NoPending EXCEPT !.token = t] /\ entry.run # NoRun
  BY <1>1, InitialRows DEF DispatchInv, DispatchTypeOK, LedgerLeads
<1>3. /\ connector' \in Doing /\ connector'.at = "woken" /\ connector'.token = t
      /\ connector'.outcome = outcome
  BY <1>1, <1>2 DEF Doing, Outcome
<1>4. /\ nudges' \in [Delivery -> Nat]
      /\ \A d \in Delivery : /\ nudges'[d] <= 1
                             /\ nudges'[d] > 0 => arrived /\ d \in wakes[t].unfetched
  BY <1>1, <1>2 DEF Unwoken
<1>5. DispatchTypeOK'
  BY <1>1, <1>3, <1>4 DEF DispatchInv, DispatchTypeOK, serverVars
<1>6. TheMailboxHasOneConsumer' /\ DeliveriesAreCounted'
  BY <1>1 DEF DispatchInv, TheMailboxHasOneConsumer, DeliveriesAreCounted, serverVars
<1>7. entry'.pending.token = t /\ entry'.pending.outcome = "none" /\ entry'.pending.token \in Token
  BY <1>1, <1>2 DEF NoPending
<1>8. WokenMailIsKnown'
  BY <1>1, <1>2, <1>4, <1>7 DEF WokenMailIsKnown, Behind, serverVars
<1>9. LedgerLeads'
  <2>1. outcome = "deferred" => Unwoken'
    BY <1>1, <1>2 DEF Unwoken
  <2>2. QED
    BY <1>1, <1>2, <1>3, <1>7, <2>1 DEF LedgerLeads, serverVars
<1>10. QED
  BY <1>5, <1>6, <1>8, <1>9 DEF DispatchInv

LEMMA RecordOutcomeKeeps ==
    ASSUME DispatchInv, RecordOutcome PROVE DispatchInv'
<1>. DEFINE t == connector.token
<1>1. /\ connector.at = "woken" /\ ConnectorKeeps /\ connector' = Resting
      /\ entry' = [entry EXCEPT !.pending.token = t, !.pending.outcome = connector.outcome]
  BY DEF RecordOutcome
<1>2. /\ entry \in [run : Run \union {NoRun}, pending : Pending]
      /\ connector.outcome \in Outcome
      /\ t \in Token /\ wakes[t].outcome = "leased" /\ entry.run # NoRun
      /\ entry.pending = [NoPending EXCEPT !.token = t]
      /\ connector.outcome = "deferred" => Unwoken
  BY <1>1, InitialRows DEF DispatchInv, DispatchTypeOK, Doing, LedgerLeads
<1>3. entry.pending.token = t
  BY <1>2 DEF NoPending
<1>4. /\ entry' \in [run : Run \union {NoRun}, pending : Pending]
      /\ entry'.run = entry.run
      /\ entry'.pending.token = t /\ entry'.pending.outcome = connector.outcome
  BY <1>1, <1>2 DEF Pending
<1>5. LedgerLeads'
  BY <1>1, <1>2, <1>4, InitialRows DEF LedgerLeads, ConnectorKeeps, serverVars
<1>6. connector' \in Doing
  BY <1>1, InitialRows
<1>7. QED
  BY <1>1, <1>2, <1>3, <1>4, <1>5, <1>6, LedgerStepsKeep

LEMMA ReadStatusKeeps ==
    ASSUME DispatchInv, ReadStatus PROVE DispatchInv'
<1>. DEFINE t == entry.pending.token
            known == wakes[t].outcome # "leased"
<1>1. /\ connector = Resting /\ entry.pending # NoPending /\ Holds(entry.run) /\ ConnectorKeeps
      /\ entry' = IF known THEN [entry EXCEPT !.pending.outcome = wakes[t].outcome,
                                              !.pending.reported = TRUE]
                  ELSE entry
      /\ connector' = [at |-> "status", token |-> t, outcome |-> "none",
                       fetched |-> wakes[t].unfetched = {},
                       reportable |-> outbox.lease = t /\ wakes[t].live,
                       live |-> wakes[t].live]
  BY DEF ReadStatus
<1>2. /\ entry \in [run : Run \union {NoRun}, pending : Pending]
      /\ t \in Token /\ wakes[t] \in Attempt /\ entry.run # NoRun
      /\ wakes[t].outcome = "deferred" => entry.pending.outcome = "deferred"
  BY <1>1 DEF DispatchInv, DispatchTypeOK, LedgerLeads, Holds
<1>3. /\ connector'.at = "status" /\ connector'.token = t
      /\ connector'.fetched => wakes[t].unfetched = {}
  BY <1>1
<1>4. connector' \in Doing
  <2>1. wakes[t].live \in BOOLEAN
    BY <1>2 DEF Attempt
  <2>2. QED
    BY <1>1, <1>2, <2>1 DEF Doing, Outcome
<1>5. /\ entry' \in [run : Run \union {NoRun}, pending : Pending]
      /\ entry'.run = entry.run /\ entry'.pending.token = t
      /\ entry'.pending.outcome = IF known THEN wakes[t].outcome ELSE entry.pending.outcome
  BY <1>1, <1>2 DEF Pending, Attempt
<1>6. LedgerLeads'
  <2>1. wakes' = wakes
    BY <1>1 DEF ConnectorKeeps, serverVars
  <2>2. QED
    BY <1>2, <1>3, <1>5, <2>1 DEF DispatchInv, LedgerLeads
<1>7. QED
  BY <1>1, <1>2, <1>4, <1>5, <1>6, LedgerStepsKeep

\* A delivery behind a wake keeps the ledger's pending wake from being cleared.
LEMMA SettledKeepsWoken ==
    ASSUME DispatchInv, connector.at = "status", NEW reported \in BOOLEAN, NEW p \in Pending,
           p.token = entry.pending.token, p.outcome = entry.pending.outcome
    PROVE  /\ Settled(p) \in {p, NoPending}
           /\ Settled(p) = NoPending => Unwoken
<1>1. Settled(p) \in {p, NoPending}
  BY DEF Settled
<1>2. ASSUME NEW d \in Delivery, nudges[d] > 0 PROVE Settled(p) = p
  <2>1. entry.run # NoRun
    BY DEF DispatchInv, LedgerLeads, Resting
  <2>2. Behind(d)
    BY <1>2, <2>1 DEF DispatchInv, WokenMailIsKnown
  <2>3. ~connector.fetched
    BY <2>2 DEF Behind, DispatchInv, LedgerLeads
  <2>4. entry.pending.outcome \in {"none", "unknown", "accepted"}
    BY <2>2 DEF Behind, DispatchInv, DispatchTypeOK, Pending, Outcome
  <2>5. AwaitsFetch
    BY <2>3, <2>4 DEF AwaitsFetch
  <2>6. QED
    BY <2>5 DEF Settled
<1>3. p # NoPending
  <2>1. p.token \in Token
    BY DEF DispatchInv, LedgerLeads
  <2>2. QED
    BY <2>1, InitialRows DEF Token, NoToken
<1>4. Settled(p) = NoPending => \A d \in Delivery : ~(nudges[d] > 0)
  BY <1>2, <1>3
<1>5. QED
  BY <1>1, <1>4 DEF Unwoken, DispatchInv, DispatchTypeOK

LEMMA FinishReconcileKeeps ==
    ASSUME DispatchInv, FinishReconcile PROVE DispatchInv'
<1>. DEFINE t == entry.pending.token
            p == entry.pending
            reporting == ~p.reported /\ connector.reportable
            said == [p EXCEPT !.reported = TRUE]
<1>1. /\ connector.at = "status" /\ connector' = Resting /\ nudges' = nudges
      /\ connector.at # Resting.at /\ entry.run # NoRun
      /\ t \in Token /\ t = connector.token
      /\ entry \in [run : Run \union {NoRun}, pending : Pending]
      /\ connector' \in Doing /\ connector'.at = "resting" /\ connector'.token = NoToken
  BY InitialRows DEF FinishReconcile, DispatchInv, DispatchTypeOK, LedgerLeads
<1>2. said \in Pending /\ said.token = t /\ said.outcome = p.outcome /\ p \in Pending
  BY <1>1 DEF Pending
<1>3. /\ entry' = entry \/ entry' = [entry EXCEPT !.pending = Settled(said)]
                        \/ entry' = [entry EXCEPT !.pending = Settled(p)]
  BY DEF FinishReconcile
<1>4. /\ entry' \in [run : Run \union {NoRun}, pending : Pending] /\ entry'.run = entry.run
      /\ \/ entry'.pending = NoPending /\ Unwoken
         \/ entry'.pending.token = t /\ entry'.pending.outcome = p.outcome
  <2>1. \A q \in {said, p} : /\ Settled(q) \in {q, NoPending} /\ q \in Pending
                             /\ q.token = t /\ q.outcome = p.outcome
                             /\ Settled(q) = NoPending => Unwoken
    BY <1>1, <1>2, SettledKeepsWoken
  <2>2. ASSUME NEW q \in {said, p}, entry' = [entry EXCEPT !.pending = Settled(q)]
        PROVE  /\ entry' \in [run : Run \union {NoRun}, pending : Pending]
               /\ entry'.run = entry.run
               /\ \/ entry'.pending = NoPending /\ Unwoken
                  \/ entry'.pending.token = t /\ entry'.pending.outcome = p.outcome
    <3>1. Settled(q) \in Pending
      BY <2>1, <2>2, InitialRows
    <3>2. /\ entry' \in [run : Run \union {NoRun}, pending : Pending]
          /\ entry'.run = entry.run /\ entry'.pending = Settled(q)
      BY <1>1, <2>2, <3>1
    <3>3. QED
      BY <2>1, <2>2, <3>2
  <2>3. QED
    BY <1>1, <1>3, <2>2
<1>5. /\ UNCHANGED <<retired, epoch, bindings, mail>>
      /\ outbox' \in Outbox /\ outbox'.gen = outbox.gen
      /\ wakes' \in [Token -> Attempt]
      /\ \A u \in Token : wakes'[u].unfetched = wakes[u].unfetched
      /\ \A u \in Token : \/ wakes'[u].outcome = wakes[u].outcome
                          \/ u = t /\ (wakes'[u].outcome = "deferred" => p.outcome = "deferred")
  <2>1. CASE UNCHANGED serverVars
    BY <2>1 DEF serverVars, DispatchInv, DispatchTypeOK
  <2>2. CASE ReportDispatch(t, ReportedOutcome)
    <3>1. /\ ReportedOutcome \in Outcome
          /\ ReportedOutcome = "deferred" => p.outcome = "deferred"
      BY <1>2 DEF ReportedOutcome, Pending, Outcome
    <3>2. \A u \in Token : wakes[u] \in Attempt
      BY DEF DispatchInv, DispatchTypeOK
    <3>3. wakes' = [wakes EXCEPT ![t].outcome = ReportedOutcome, ![t].live = FALSE]
      BY <2>2 DEF ReportDispatch
    <3>4. LET w == [wakes[t] EXCEPT !.outcome = ReportedOutcome, !.live = FALSE]
          IN  /\ w \in Attempt /\ w.unfetched = wakes[t].unfetched
              /\ w.outcome = ReportedOutcome /\ wakes' = [wakes EXCEPT ![t] = w]
      BY <1>1, <3>1, <3>2, <3>3 DEF Attempt
    <3>5. /\ wakes' \in [Token -> Attempt]
          /\ \A u \in Token : wakes'[u].unfetched = wakes[u].unfetched
          /\ \A u \in Token : u = t \/ wakes'[u].outcome = wakes[u].outcome
          /\ wakes'[t].outcome = ReportedOutcome
      BY <1>1, <3>4 DEF DispatchInv, DispatchTypeOK
    <3>6. outbox' \in Outbox /\ outbox'.gen = outbox.gen
      <4>1. /\ outbox \in Outbox
            /\ outbox' = [outbox EXCEPT !.lease = NoToken,
                             !.state = IF Unchanged(t) /\ ReportedOutcome = "accepted"
                                       THEN "quiet" ELSE "pending",
                             !.due = ~Unchanged(t)]
        BY <2>2 DEF ReportDispatch, DispatchInv, DispatchTypeOK
      <4>2. QED
        BY <4>1 DEF Outbox
    <3>7. QED
      BY <2>2, <3>1, <3>5, <3>6 DEF ReportDispatch
  <2>3. QED
    BY <2>1, <2>2 DEF FinishReconcile
<1>6. DispatchTypeOK'
  BY <1>1, <1>4, <1>5 DEF DispatchInv, DispatchTypeOK
<1>7. TheMailboxHasOneConsumer' /\ DeliveriesAreCounted'
  BY <1>5 DEF DispatchInv, TheMailboxHasOneConsumer, DeliveriesAreCounted
<1>8. WokenMailIsKnown'
  BY <1>1, <1>4, <1>5 DEF DispatchInv, WokenMailIsKnown, Behind, Unwoken
<1>9. LedgerLeads'
  <2>1. entry'.pending = NoPending \/ entry'.pending.token = t
    BY <1>4
  <2>2. entry'.pending.token \in Token /\ wakes'[entry'.pending.token].outcome = "deferred" =>
            entry'.pending.outcome = "deferred"
    BY <1>1, <1>4, <1>5, InitialRows DEF DispatchInv, LedgerLeads, Token, NoToken
  <2>3. QED
    BY <1>1, <1>4, <2>1, <2>2 DEF LedgerLeads
<1>10. QED
  BY <1>6, <1>7, <1>8, <1>9 DEF DispatchInv

LEMMA RequestLeaseKeeps ==
    ASSUME DispatchInv, RequestLease PROVE DispatchInv'
<1>. DEFINE r == entry.run
            t == FreeToken
            eligible == {d \in Wakeable(r) : ~Stalled(d)}
<1>1. /\ connector = Resting /\ r # NoRun /\ entry.pending = NoPending /\ r \in Run
      /\ UNCHANGED <<entry, nudges>> /\ Unwoken /\ Unwoken'
  <2>1. /\ connector = Resting /\ r # NoRun /\ entry.pending = NoPending
        /\ UNCHANGED <<entry, nudges>>
    BY DEF RequestLease
  <2>2. Unwoken
    BY <2>1, NothingPendingNothingWoken
  <2>3. QED
    BY <2>1, <2>2 DEF Unwoken, DispatchInv, DispatchTypeOK
<1>2. t \in Token
  BY <1>1, InitialRows, FreeTokenIsFree
<1>3. \A d \in Delivery : mail[d] \in Mail
  BY DEF DispatchInv, DispatchTypeOK
<1>4. CASE LeaseDispatch(r, t) /\ connector' = [Resting EXCEPT !.at = "leased", !.token = t]
  <2>1. ASSUME NEW d \in Delivery
        PROVE  mail'[d] \in Mail /\ mail'[d].gen = mail[d].gen
    <3>1. /\ mail[d] \in Mail /\ mail[d].rewakes + 1 \in Nat
      BY <1>3 DEF Mail
    <3>2. CASE mail'[d] = mail[d]
      BY <3>1, <3>2
    <3>3. CASE mail'[d] = [mail[d] EXCEPT !.rewakes = @ + 1]
      BY <3>1, <3>3 DEF Mail
    <3>4. CASE mail'[d] = [mail[d] EXCEPT !.stopped = TRUE]
      BY <3>1, <3>4 DEF Mail
    <3>5. QED
      BY <1>4, <3>2, <3>3, <3>4 DEF LeaseDispatch
  <2>2. mail' = [d \in Delivery |-> mail'[d]]
    BY <1>4 DEF LeaseDispatch
  <2>3. mail' \in [Delivery -> Mail] /\ \A d \in Delivery : mail'[d].gen = mail[d].gen
    BY <2>1, <2>2
  <2>4. LET w == [run |-> r, gen |-> outbox.gen, unfetched |-> eligible,
                  outcome |-> "leased", live |-> TRUE]
        IN  w \in Attempt /\ w.outcome = "leased"
    <3>1. eligible \subseteq Delivery /\ outbox.gen \in Nat
      BY DEF Wakeable, PendingFor, DispatchInv, DispatchTypeOK, Outbox
    <3>. HIDE DEF eligible
    <3>2. QED
      BY <1>1, <3>1 DEF Attempt
  <2>5. wakes' \in [Token -> Attempt] /\ wakes'[t].outcome = "leased"
    BY <1>2, <1>4, <2>4, InitialRows DEF LeaseDispatch, DispatchInv, DispatchTypeOK
  <2>6. /\ outbox' \in Outbox /\ outbox'.gen = outbox.gen
        /\ UNCHANGED <<retired, epoch, bindings>>
    <3>1. /\ outbox' = [outbox EXCEPT !.lease = t] /\ outbox \in Outbox
          /\ UNCHANGED <<retired, epoch, bindings>>
      BY <1>4 DEF LeaseDispatch, DispatchInv, DispatchTypeOK
    <3>. HIDE DEF t
    <3>2. QED
      BY <1>2, <3>1 DEF Outbox
  <2>7. connector' \in Doing /\ connector'.at = "leased" /\ connector'.token = t
    <3>1. connector' = [Resting EXCEPT !.at = "leased", !.token = t]
      BY <1>4
    <3>. HIDE DEF t
    <3>2. QED
      BY <1>2, <3>1, InitialRows DEF Doing
  <2>8. DispatchTypeOK'
    BY <1>1, <2>3, <2>5, <2>6, <2>7 DEF DispatchInv, DispatchTypeOK
  <2>9. TheMailboxHasOneConsumer' /\ DeliveriesAreCounted'
    BY <2>3, <2>6 DEF DispatchInv, TheMailboxHasOneConsumer, DeliveriesAreCounted
  <2>10. WokenMailIsKnown'
    BY <1>1 DEF WokenMailIsKnown, Unwoken
  <2>11. LedgerLeads'
    <3>. HIDE DEF t
    <3>1. entry'.pending = NoPending /\ entry'.pending.token \notin Token /\ entry'.run # NoRun
      BY <1>1, InitialRows DEF Token, NoToken
    <3>2. QED
      BY <1>1, <1>2, <2>5, <2>7, <3>1 DEF LedgerLeads
  <2>12. QED
    BY <2>8, <2>9, <2>10, <2>11 DEF DispatchInv
<1>5. CASE LeaseNothing(r) /\ UNCHANGED connector
  <2>1. \A d \in Delivery :
            LET n == [mail[d] EXCEPT !.stopped = TRUE] IN n \in Mail /\ n.gen = mail[d].gen
    BY <1>3 DEF Mail
  <2>2. mail' \in [Delivery -> Mail] /\ \A d \in Delivery : mail'[d].gen = mail[d].gen
    BY <1>3, <1>5, <2>1 DEF LeaseNothing
  <2>3. outbox' \in Outbox /\ outbox'.gen = outbox.gen
    BY <1>5, OutboxRows DEF LeaseNothing, DispatchInv, DispatchTypeOK
  <2>4. DispatchTypeOK'
    BY <1>1, <1>5, <2>2, <2>3 DEF LeaseNothing, DispatchInv, DispatchTypeOK
  <2>5. TheMailboxHasOneConsumer' /\ DeliveriesAreCounted'
    BY <1>5, <2>2, <2>3 DEF LeaseNothing, DispatchInv, TheMailboxHasOneConsumer, DeliveriesAreCounted
  <2>6. WokenMailIsKnown' /\ LedgerLeads'
    BY <1>1, <1>5, ServerStepsKeepLedger DEF WakesOnlyShrink, LeaseNothing
  <2>7. QED
    BY <2>4, <2>5, <2>6 DEF DispatchInv
<1>6. QED
  BY <1>4, <1>5 DEF RequestLease

-----------------------------------------------------------------------------
(* The invariant.                                                          *)

LEMMA DispatchStarts == DispatchInit => DispatchInv
<1> SUFFICES ASSUME DispatchInit PROVE DispatchInv
  OBVIOUS
<1>. USE InitialRows DEF DispatchInit
<1>1. DispatchTypeOK
  <2>1. bindings \in [Run -> Binding]
    BY DEF Binding
  <2>2. outbox \in Outbox
    BY DEF Outbox, NoToken
  <2>3. QED
    BY <2>1, <2>2 DEF DispatchTypeOK
<1>2. TheMailboxHasOneConsumer /\ DeliveriesAreCounted
  BY DEF TheMailboxHasOneConsumer, DeliveriesAreCounted
<1>3. WokenMailIsKnown /\ LedgerLeads
  BY DEF WokenMailIsKnown, LedgerLeads, Token, NoToken
<1>4. QED
  BY <1>1, <1>2, <1>3 DEF DispatchInv

LEMMA DispatchStepsKeep == DispatchInv /\ [DispatchNext]_dispatchVars => DispatchInv'
<1> SUFFICES ASSUME DispatchInv, [DispatchNext]_dispatchVars PROVE DispatchInv'
  OBVIOUS
<1>1. CASE EndBinding \/ ArchiveAgent
  BY <1>1, EndBindingKeeps
<1>2. CASE UnarchiveAgent \/ BackoffEnds
  <2>1. 1 \in Token
    BY DEF Token
  <2>2. QED
    BY <1>2, <2>1, ClockKeeps
<1>3. ASSUME NEW t \in Token, LeaseRunsOut(t) PROVE DispatchInv'
  BY <1>3, ClockKeeps
<1>4. ASSUME NEW r \in Run, Attach(r) \/ Fetch(r) \/ RegisterSession(r) PROVE DispatchInv'
  BY <1>4, AttachKeeps, FetchKeeps, RegisterKeeps
<1>5. ASSUME NEW r \in Run, NEW d \in Delivery, Acknowledge(r, d) PROVE DispatchInv'
  BY <1>5, CloseKeeps
<1>6. ASSUME NEW d \in Delivery, DeliveryExpires(d) \/ Resume(d) PROVE DispatchInv'
  BY <1>6, CloseKeeps, ResumeKeeps
<1>7. ASSUME NEW d \in Delivery, NEW exact \in BOOLEAN, NEW stopped \in BOOLEAN,
             PublishMessage(d, exact, stopped)
      PROVE  DispatchInv'
  BY <1>7, PublishKeeps
<1>8. CASE ConnectorStep
  <2>1. ASSUME NEW outcome \in {"accepted", "deferred", "unknown"}, NEW arrived \in BOOLEAN,
               WakeSession(outcome, arrived)
        PROVE  DispatchInv'
    BY <2>1, WakeSessionKeeps
  <2>2. QED
    BY <1>8, <2>1, StartAndStopKeep, RequestLeaseKeeps, RecordLeaseKeeps, RecordOutcomeKeeps,
       ReadStatusKeeps, FinishReconcileKeeps
       DEF ConnectorStep
<1>9. CASE Unregister \/ ConnectorDies
  BY <1>9, UnregisterKeeps, StartAndStopKeep
<1>10. CASE UNCHANGED dispatchVars
  <2>1. UNCHANGED <<serverVars, entry, connector, nudges>>
    BY <1>10 DEF dispatchVars
  <2>2. DispatchTypeOK' /\ TheMailboxHasOneConsumer' /\ DeliveriesAreCounted'
    BY <2>1 DEF serverVars, DispatchInv, DispatchTypeOK, TheMailboxHasOneConsumer,
                DeliveriesAreCounted
  <2>3. WokenMailIsKnown' /\ LedgerLeads'
    BY <2>1, ServerStepsKeepLedger DEF serverVars, WakesOnlyShrink
  <2>4. QED
    BY <2>2, <2>3 DEF DispatchInv
<1>11. QED
  BY <1>1, <1>2, <1>3, <1>4, <1>5, <1>6, <1>7, <1>8, <1>9, <1>10 DEF DispatchNext

-----------------------------------------------------------------------------
(* What a report may quiet.                                                *)

\* Only a report makes a wake accepted.
LEMMA OnlyReportsAccept ==
    ASSUME DispatchInv, DispatchNext, NEW t \in Token,
           wakes[t].outcome # wakes'[t].outcome, wakes'[t].outcome = "accepted"
    PROVE  FinishReconcile /\ ReportDispatch(entry.pending.token, ReportedOutcome)
<1>0. \A u \in Token : wakes[u] \in Attempt
  BY DEF DispatchInv, DispatchTypeOK
<1>1. ~UNCHANGED wakes
  OBVIOUS
<1>2. ASSUME NEW r \in Run, Fetch(r) PROVE FALSE
  <2>1. CASE wakes'[t] = wakes[t]
    BY <2>1
  <2>2. CASE wakes'[t] = [wakes[t] EXCEPT !.unfetched = @ \ PendingFor(r)]
    BY <2>2, <1>0, UnfetchedRows
  <2>3. QED
    BY <1>2, <2>1, <2>2 DEF Fetch
<1>3. ASSUME NEW d \in Delivery, Closed(d) PROVE FALSE
  BY <1>3, ClosedRows DEF DispatchInv
<1>4. ASSUME NEW u \in Token, LeaseRunsOut(u) PROVE FALSE
  <2>1. [wakes[u] EXCEPT !.live = FALSE].outcome = wakes[u].outcome
    BY <1>0 DEF Attempt
  <2>2. wakes' = [wakes EXCEPT ![u] = [wakes[u] EXCEPT !.live = FALSE]]
    BY <1>4 DEF LeaseRunsOut
  <2>3. QED
    BY <2>1, <2>2 DEF DispatchInv, DispatchTypeOK
<1>5. ASSUME RequestLease PROVE FALSE
  <2>1. CASE LeaseDispatch(entry.run, FreeToken)
    BY <2>1, InitialRows DEF LeaseDispatch
  <2>2. CASE LeaseNothing(entry.run)
    BY <2>2, <1>1 DEF LeaseNothing
  <2>3. QED
    BY <1>5, <2>1, <2>2 DEF RequestLease
<1>6. ASSUME NEW r \in Run, NEW d \in Delivery,
             Attach(r) \/ RegisterSession(r) \/ Resume(d)
      PROVE  FALSE
  BY <1>1, <1>6 DEF Attach, RegisterSession, serverVars, Resume
<1>7. ASSUME EndBinding \/ ArchiveAgent \/ UnarchiveAgent \/ BackoffEnds \/ Unregister PROVE FALSE
  BY <1>1, <1>7 DEF EndBinding, ArchiveAgent, UnarchiveAgent, BackoffEnds, Unregister, serverVars
<1>8. ASSUME \/ ConnectorDies \/ ConnectorStarts \/ RecordLease \/ RecordOutcome \/ ReadStatus
             \/ ReportFails
      PROVE  FALSE
  BY <1>1, <1>8 DEF ConnectorDies, ConnectorStarts, RecordLease, RecordOutcome, ReadStatus,
                    ReportFails, ConnectorKeeps, serverVars
<1>9. ASSUME NEW outcome, NEW arrived, WakeSession(outcome, arrived) PROVE FALSE
  BY <1>1, <1>9 DEF WakeSession, serverVars
<1>10. ASSUME NEW d \in Delivery, NEW exact, NEW stopped, PublishMessage(d, exact, stopped)
       PROVE  FALSE
  BY <1>1, <1>10 DEF PublishMessage
<1>11. ASSUME NEW d \in Delivery, NEW r \in Run, Acknowledge(r, d) PROVE FALSE
  BY <1>3, <1>11 DEF Acknowledge
<1>12. ASSUME NEW d \in Delivery, DeliveryExpires(d) PROVE FALSE
  BY <1>3, <1>12 DEF DeliveryExpires
<1>13. ASSUME NEW d \in Delivery, Resume(d) PROVE FALSE
  BY <1>1, <1>13 DEF Resume
<1>14. FinishReconcile
  <2>1. CASE ConnectorStep
    BY <2>1, <1>5, <1>8, <1>9 DEF ConnectorStep
  <2>2. ASSUME NEW r \in Run, Attach(r) \/ Fetch(r) \/ RegisterSession(r) PROVE FALSE
    BY <2>2, <1>1, <1>2 DEF Attach, RegisterSession, serverVars
  <2>3. QED
    BY <2>1, <2>2, <1>4, <1>7, <1>8, <1>10, <1>11, <1>12, <1>13 DEF DispatchNext
<1>15. QED
  BY <1>1, <1>14 DEF FinishReconcile, serverVars

LEMMA AReportQuietsOldNews ==
    ASSUME DispatchInv, DispatchNext, NEW t \in Token,
           wakes[t].outcome = "leased", wakes'[t].outcome = "accepted", outbox'.state = "quiet",
           NEW d \in Delivery, mail[d].state = "pending"
    PROVE  mail[d].gen <= wakes[t].gen
<1>. DEFINE u == entry.pending.token
<1>1. FinishReconcile /\ ReportDispatch(u, ReportedOutcome)
  BY OnlyReportsAccept
<1>2. u = t
  BY <1>1 DEF ReportDispatch, DispatchInv, DispatchTypeOK
<1>3. Unchanged(u)
  <2>1. /\ outbox' = [outbox EXCEPT !.lease = NoToken,
                          !.state = IF Unchanged(u) /\ ReportedOutcome = "accepted"
                                    THEN "quiet" ELSE "pending",
                          !.due = ~Unchanged(u)]
        /\ outbox \in Outbox
    BY <1>1 DEF ReportDispatch, DispatchInv, DispatchTypeOK
  <2>2. outbox'.state = IF Unchanged(u) /\ ReportedOutcome = "accepted" THEN "quiet" ELSE "pending"
    BY <2>1 DEF Outbox
  <2>3. QED
    BY <2>2
<1>4. QED
  BY <1>2, <1>3 DEF Unchanged, DispatchInv, DeliveriesAreCounted

-----------------------------------------------------------------------------
(* What holds in every execution.                                          *)

\* The bindings, the outbox, the wakes and the connector's ledger fit together
\* in every execution, wherever the connector dies.
THEOREM TheLedgerLeads == DispatchSpec => []DispatchInv
<1>1. DispatchInit => DispatchInv
  BY DispatchStarts
<1>2. DispatchInv /\ [DispatchNext]_dispatchVars => DispatchInv'
  BY DispatchStepsKeep
<1>3. QED
  BY <1>1, <1>2, PTL DEF DispatchSpec

\* One run at a time consumes the mailbox, whoever attaches, is released or is
\* archived (attach, activeBinding).
THEOREM OneRunConsumes == DispatchSpec => []TheMailboxHasOneConsumer
<1>1. DispatchInv => TheMailboxHasOneConsumer
  BY DEF DispatchInv
<1>2. QED
  BY <1>1, TheLedgerLeads, PTL

\* Recovery never repeats a native wake that may have arrived
\* (HostConnector.reconcile), at whatever step the connector died.
THEOREM RecoveryRepeatsNoWake == DispatchSpec => []WakesAreNotRepeated
<1>1. DispatchInv => WakesAreNotRepeated
  BY DEF DispatchInv, WokenMailIsKnown, WakesAreNotRepeated
<1>2. QED
  BY <1>1, TheLedgerLeads, PTL

\* A report quiets the outbox only when every delivery that still waits was
\* published before its lease (reportDispatch).
THEOREM ReportsRespectNews == DispatchSpec => ReportsQuietNothingNewer
<1>1. DispatchInv /\ [DispatchNext]_dispatchVars =>
          [\A t \in Token :
              wakes[t].outcome = "leased" /\ wakes'[t].outcome = "accepted"
              /\ outbox'.state = "quiet" =>
                  \A d \in Delivery : mail[d].state = "pending" => mail[d].gen <= wakes[t].gen]_dispatchVars
  BY AReportQuietsOldNews
<1>2. QED
  BY <1>1, TheLedgerLeads, PTL DEF DispatchSpec, ReportsQuietNothingNewer
=============================================================================
