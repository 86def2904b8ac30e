----------------------- MODULE DeliveryPipelineProofs -----------------------
(***************************************************************************)
(* Idempotent consumption behind at-least-once delivery, for any number of *)
(* events, consumer names and racing calls.                                *)
(***************************************************************************)
EXTENDS DeliveryPipeline, TLAPS

\* Only a committed receipt lets a call return.
AckedHasReceipt == acked \subseteq receipts

\* Uncommitted receipts are of different keys, none of which has one already.
InsertsExclusive ==
    \A t \in Thread : cpc[t] = "inserted" =>
        /\ key[t] \notin receipts
        /\ \A u \in Thread \ {t} : cpc[u] = "inserted" => key[u] # key[t]

\* A call under way knows its consumer and its event.
Busy == \A t \in Thread : cpc[t] # "idle" => key[t] \in C!Key

IInv ==
    /\ C!ConsumerTypeOK
    /\ Busy
    /\ InsertsExclusive
    /\ AckedHasReceipt
    /\ C!ExactlyOnceEffect

----------------------------------------------------------------------------
LEMMA InitIInv == Init => IInv
BY DEF Init, IInv, Busy, InsertsExclusive, AckedHasReceipt, C!ConsumerInit,
       C!ConsumerTypeOK, C!ExactlyOnceEffect

\* A call that ends without a commit leaves only its own entries behind.
LEMMA RollBackStep ==
  ASSUME IInv, NEW t \in Thread, C!RollBack(t)
  PROVE  IInv'
BY DEF IInv, Busy, InsertsExclusive, AckedHasReceipt, C!RollBack, C!Return,
       C!ConsumerTypeOK, C!ExactlyOnceEffect, C!Key, C!NoKey

LEMMA CommitStep ==
  ASSUME IInv, NEW t \in Thread, C!CommitReceipt(t)
  PROVE  IInv'
<1> USE DEF IInv, C!CommitReceipt, C!Return
<1>1. key[t] \in C!Key /\ key[t] \notin receipts
  BY DEF Busy, InsertsExclusive
<1>2. effects[key[t]] = 0
  BY <1>1 DEF C!ExactlyOnceEffect
<1>3. C!ConsumerTypeOK'
  BY <1>1, <1>2 DEF C!ConsumerTypeOK
<1>4. Busy' /\ InsertsExclusive' /\ AckedHasReceipt'
  BY DEF Busy, InsertsExclusive, AckedHasReceipt, C!ConsumerTypeOK
<1>5. C!ExactlyOnceEffect'
  BY <1>1, <1>2 DEF C!ExactlyOnceEffect, C!ConsumerTypeOK
<1> QED
  BY <1>3, <1>4, <1>5

LEMMA InvStep == IInv /\ [Next]_vars => IInv'
<1> SUFFICES ASSUME IInv, [Next]_vars PROVE IInv'
  OBVIOUS
<1> USE DEF IInv, Busy, InsertsExclusive, AckedHasReceipt, C!ConsumerTypeOK,
            C!ExactlyOnceEffect
<1>1. ASSUME UNCHANGED consumerVars PROVE IInv'
  BY <1>1 DEF consumerVars
<1>2. ASSUME NEW t \in Thread, NEW k \in C!Key, C!Receive(t, k) PROVE IInv'
  BY <1>2 DEF C!Receive
<1>3. ASSUME NEW t \in Thread, C!Skip(t) PROVE IInv'
  BY <1>3 DEF C!Skip, C!Return
<1>4. ASSUME NEW t \in Thread, C!Handle(t) PROVE IInv'
  BY <1>4 DEF C!Handle
<1>5. ASSUME NEW t \in Thread, C!InsertReceipt(t) PROVE IInv'
  BY <1>5 DEF C!InsertReceipt, C!KeyFree, C!Uncontended
<1>6. ASSUME NEW t \in Thread, C!InsertFails(t) \/ C!Abort(t) PROVE IInv'
  BY <1>6, RollBackStep DEF C!InsertFails, C!Abort
<1>7. ASSUME NEW t \in Thread, C!CommitReceipt(t) PROVE IInv'
  BY <1>7, CommitStep
<1>8. CASE C!ConsumerNext
  BY <1>2, <1>3, <1>4, <1>5, <1>6, <1>7, <1>8 DEF C!ConsumerNext
<1> QED
  BY <1>1, <1>8 DEF Next, vars

----------------------------------------------------------------------------
(* However often the outbox repeats an event, and however the calls of     *)
(* process race and fail, a consumer's effect and its receipt commit       *)
(* together and once.                                                      *)
THEOREM ExactlyOnceAlways == Spec => []ExactlyOnceEffect
<1>1. IInv => ExactlyOnceEffect
  BY DEF IInv, ExactlyOnceEffect
<1> QED
  BY InitIInv, InvStep, <1>1, PTL DEF Spec

(* A call of process that returned vouches for a committed effect.         *)
THEOREM AckedAlwaysHandled == Spec => []AckedWasHandled
<1>1. IInv => AckedWasHandled
  BY DEF IInv, AckedWasHandled, AckedHasReceipt, C!ExactlyOnceEffect,
         C!AckedWasHandled, C!ConsumerTypeOK
<1> QED
  BY InitIInv, InvStep, <1>1, PTL DEF Spec

(* The composed state keeps its types: whatever the calls of process do,   *)
(* receipts and acknowledgements are of a consumer and an event, effects   *)
(* are counted by such keys (IdempotentConsumer.process).  How many        *)
(* effects a key has is ExactlyOnceAlways.                                 *)
THEOREM PipelineTypeCorrect == Spec => []TypeOK
<1>1. IInv /\ DeliveryTypeOK => TypeOK
  BY DEF IInv, TypeOK
<1>2. Init => DeliveryTypeOK
  BY DEF Init, DeliveryInit, DeliveryTypeOK
<1>3. DeliveryTypeOK /\ [Next]_vars => DeliveryTypeOK'
  <2> SUFFICES ASSUME DeliveryTypeOK, [Next]_vars PROVE DeliveryTypeOK'
    OBVIOUS
  <2>1. CASE DeliveryNext
    BY <2>1 DEF DeliveryNext, Store, Deliver, Settle, PutBack, Pending, DeliveryTypeOK
  <2>2. CASE UNCHANGED deliveryVars
    BY <2>2 DEF deliveryVars, DeliveryTypeOK
  <2> QED
    BY <2>1, <2>2 DEF Next, vars
<1> QED
  BY InitIInv, InvStep, <1>1, <1>2, <1>3, PTL DEF Spec

----------------------------------------------------------------------------
(* What the promise itself guarantees, and with it every outbox that       *)
(* implements it.                                                          *)

\* A published event went through the broker and is not parked; a parked one
\* and a delivered one were stored.
PromiseInv ==
    /\ published \subseteq delivered
    /\ delivered \subseteq stored
    /\ dead \cap published = {}

LEMMA PromiseInvInit == DeliveryInit => PromiseInv
BY DEF DeliveryInit, PromiseInv

LEMMA PromiseInvStep == PromiseInv /\ [DeliveryNext]_deliveryVars => PromiseInv'
<1> SUFFICES ASSUME PromiseInv, [DeliveryNext]_deliveryVars PROVE PromiseInv'
  OBVIOUS
<1> USE DEF PromiseInv
<1>1. ASSUME NEW e \in Event, Store(e) \/ Deliver(e) \/ PutBack(e) PROVE PromiseInv'
  BY <1>1 DEF Store, Deliver, PutBack, Pending
<1>2. ASSUME NEW done, NEW given_up, Settle(done, given_up) PROVE PromiseInv'
  BY <1>2 DEF Settle, Pending
<1>3. CASE UNCHANGED deliveryVars
  BY <1>3 DEF deliveryVars
<1> QED
  BY <1>1, <1>2, <1>3 DEF DeliveryNext

(* An event counts as published only if the broker has it: publish_batch   *)
(* sets published_at after the publisher's call, not before.               *)
THEOREM PublishedAlwaysDelivered == DeliverySpec => []PublishedWasDelivered
<1>1. PromiseInv => PublishedWasDelivered
  BY DEF PromiseInv, PublishedWasDelivered
<1> QED
  BY PromiseInvInit, PromiseInvStep, <1>1, PTL DEF DeliverySpec

(* Publishing is final: a later batch, a dead letter or a replay neither   *)
(* clears published_at nor parks the row.                                  *)
THEOREM PublishingIsFinal == DeliverySpec => PublishedIsFinal
<1> DEFINE Final == published \subseteq published' /\ published' \cap dead' = {}
<1>1. PromiseInv /\ [DeliveryNext]_deliveryVars => [Final]_deliveryVars
  <2> SUFFICES ASSUME PromiseInv, DeliveryNext PROVE Final
    OBVIOUS
  <2>1. PromiseInv'
    BY PromiseInvStep
  <2>2. published \subseteq published'
    BY DEF DeliveryNext, Store, Deliver, PutBack, Settle
  <2> QED
    BY <2>1, <2>2 DEF PromiseInv
<1> QED
  BY PromiseInvInit, PromiseInvStep, <1>1, PTL DEF DeliverySpec, PublishedIsFinal

----------------------------------------------------------------------------
(* A consumer acts only on what some business transaction committed: a     *)
(* receipt is of an event the broker holds, and the broker only holds what *)
(* append_outbox_event stored.                                             *)
HeardOf(k) == k[2] \in delivered

OnlyHeard ==
    /\ \A k \in receipts : HeardOf(k)
    /\ \A t \in Thread : cpc[t] # "idle" => HeardOf(key[t])

LEMMA OnlyHeardInit == Init => OnlyHeard
BY DEF Init, C!ConsumerInit, OnlyHeard

LEMMA OnlyHeardStep == IInv /\ OnlyHeard /\ [Next]_vars => OnlyHeard'
<1> SUFFICES ASSUME IInv, OnlyHeard, [Next]_vars PROVE OnlyHeard'
  OBVIOUS
<1> USE DEF IInv, C!ConsumerTypeOK, OnlyHeard, HeardOf
<1>1. ASSUME UNCHANGED consumerVars, delivered \subseteq delivered' PROVE OnlyHeard'
  BY <1>1 DEF consumerVars
<1>2. CASE DeliveryNext /\ UNCHANGED consumerVars
  BY <1>1, <1>2 DEF DeliveryNext, Store, Deliver, PutBack, Settle
<1>3. CASE UNCHANGED vars
  BY <1>1, <1>3 DEF vars, deliveryVars
<1>4. ASSUME NEW t \in Thread, NEW k \in C!Key, C!Receive(t, k) PROVE OnlyHeard'
  BY <1>4 DEF C!Receive
<1>5. ASSUME NEW t \in Thread, C!Handle(t) \/ C!InsertReceipt(t) PROVE OnlyHeard'
  BY <1>5 DEF C!Handle, C!InsertReceipt
<1>6. ASSUME NEW t \in Thread, C!Return(t), UNCHANGED delivered,
             receipts' = receipts \/ (cpc[t] # "idle" /\ receipts' = receipts \cup {key[t]})
      PROVE  OnlyHeard'
  BY <1>6 DEF C!Return
<1>7. ASSUME NEW t \in Thread,
             C!Skip(t) \/ C!InsertFails(t) \/ C!Abort(t) \/ C!CommitReceipt(t)
      PROVE  OnlyHeard'
  BY <1>6, <1>7 DEF C!Skip, C!InsertFails, C!Abort, C!RollBack, C!CommitReceipt
<1> QED
  BY <1>2, <1>3, <1>4, <1>5, <1>7 DEF Next, C!ConsumerNext

(* No effect out of nothing: whoever a consumer's committed effect names,  *)
(* its business transaction committed (append_outbox_event, process).      *)
THEOREM EffectsAreOfStoredEvents == Spec => []EffectOnlyOfStored
<1>1. IInv /\ OnlyHeard /\ PromiseInv => EffectOnlyOfStored
  <2> SUFFICES ASSUME IInv, OnlyHeard, PromiseInv, NEW k \in C!Key, effects[k] > 0
               PROVE  k[2] \in stored
    BY DEF EffectOnlyOfStored, C!Key
  <2>1. k \in receipts
    BY DEF IInv, C!ExactlyOnceEffect
  <2> QED
    BY <2>1 DEF OnlyHeard, HeardOf, PromiseInv
<1>2. Init => PromiseInv
  BY PromiseInvInit DEF Init
<1>3. PromiseInv /\ [Next]_vars => PromiseInv'
  BY PromiseInvStep DEF Next, vars
<1> QED
  BY InitIInv, InvStep, OnlyHeardInit, OnlyHeardStep, <1>1, <1>2, <1>3, PTL DEF Spec

=============================================================================
