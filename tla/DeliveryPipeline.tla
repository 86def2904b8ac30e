------------------------- MODULE DeliveryPipeline -------------------------
(***************************************************************************)
(* The outbox (by its promise, EventDelivery, which Outbox refines) feeding *)
(* the deduplicating consumers: at-least-once delivery and idempotent      *)
(* processing together.                                                    *)
(***************************************************************************)
EXTENDS EventDelivery, Naturals

CONSTANTS Consumer, Thread

VARIABLES receipts, effects, acked, cpc, key

C == INSTANCE IdempotentConsumer

consumerVars == <<receipts, effects, acked, cpc, key>>
vars == <<deliveryVars, consumerVars>>

(* Types of the composed state. *)
TypeOK == DeliveryTypeOK /\ C!ConsumerTypeOK

Init == DeliveryInit /\ C!ConsumerInit

Next ==
    \/ DeliveryNext /\ UNCHANGED consumerVars
    \/ C!ConsumerNext /\ UNCHANGED deliveryVars

Spec == Init /\ [][Next]_vars

----------------------------------------------------------------------------
(* End to end: a business event has one effect in a consumer that received *)
(* it, however often the outbox repeats it (IdempotentConsumer.process).   *)
ExactlyOnceEffect == C!ExactlyOnceEffect

(* A call that returned vouches for a committed effect. *)
AckedWasHandled == C!AckedWasHandled

(* A consumer acts only on events whose business transaction committed:    *)
(* append_outbox_event writes the row in that transaction, and process     *)
(* runs on what the broker hands out.                                      *)
EffectOnlyOfStored ==
    \A k \in Consumer \X Event : effects[k] > 0 => k[2] \in stored

============================================================================
