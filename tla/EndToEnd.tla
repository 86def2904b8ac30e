------------------------------ MODULE EndToEnd ------------------------------
(***************************************************************************)
(* The outbox itself, with its workers, batches and dead letters, feeding  *)
(* the deduplicating consumers through the broker: Outbox.tla in the place *)
(* that DeliveryPipeline.tla gives to its promise.  The two share nothing  *)
(* but what the broker holds, which the consumers only read.               *)
(***************************************************************************)
EXTENDS Outbox

CONSTANTS Consumer, Thread

VARIABLES receipts, effects, acked, cpc, key

C == INSTANCE IdempotentConsumer WITH delivered <- broker

consumerVars == <<receipts, effects, acked, cpc, key>>
allVars == <<vars, consumerVars>>

EndToEndInit == Init /\ C!ConsumerInit

EndToEndNext ==
    \/ Next /\ UNCHANGED consumerVars
    \/ C!ConsumerNext /\ UNCHANGED vars

EndToEndSpec == EndToEndInit /\ [][EndToEndNext]_allVars

----------------------------------------------------------------------------
(* What a consumer sees of the outbox is its promise and no more: with     *)
(* crashes between publish and commit, retries, dead letters and replays   *)
(* this is the delivery pipeline, the broker's log being what is           *)
(* delivered (OutboxPublisher and IdempotentConsumer together).            *)
Pipeline == INSTANCE DeliveryPipeline WITH delivered <- broker
ImplementsPipeline == Pipeline!Spec

(* What the business sees: two calls that both found no receipt commit one *)
(* effect between them and a rolled-back call none; a consumer that has    *)
(* answered for an event has had its effect, exactly once; and there is    *)
(* none unless the event's transaction committed.                          *)
OneEffectPerEvent ==
    /\ C!ExactlyOnceEffect
    /\ C!AckedWasHandled
    /\ \A k \in C!Key : effects[k] > 0 => k[2] \in stored
=============================================================================
