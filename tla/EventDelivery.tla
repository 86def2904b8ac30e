--------------------------- MODULE EventDelivery ---------------------------
(***************************************************************************)
(* What the transactional outbox promises to the rest of the platform: an  *)
(* event that a business transaction stored is handed to the broker at     *)
(* least once before it counts as published, is never handed over again    *)
(* once it does, and leaves the flow otherwise only as a dead letter that  *)
(* an operator can put back.  Outbox.tla refines this specification,       *)
(* DeliveryPipeline.tla puts the deduplicating consumer behind it.         *)
(***************************************************************************)
CONSTANT Event

VARIABLES
    stored,     \* events whose business transaction committed
    delivered,  \* events the broker holds at least one copy of
    published,  \* events the outbox will not hand over again
    dead        \* events parked as dead letters

deliveryVars == <<stored, delivered, published, dead>>

DeliveryTypeOK ==
    /\ stored \subseteq Event
    /\ delivered \subseteq Event
    /\ published \subseteq Event
    /\ dead \subseteq Event

Pending == stored \ (published \cup dead)

DeliveryInit ==
    /\ stored = {}
    /\ delivered = {}
    /\ published = {}
    /\ dead = {}

Store(e) ==
    /\ e \notin stored
    /\ stored' = stored \cup {e}
    /\ UNCHANGED <<delivered, published, dead>>

\* Repeatable: a crash between this step and Settle makes the event due again.
Deliver(e) ==
    /\ e \in Pending
    /\ delivered' = delivered \cup {e}
    /\ UNCHANGED <<stored, published, dead>>

\* One transaction records the outcome of a whole batch.
Settle(done, given_up) ==
    /\ done \subseteq Pending \cap delivered
    /\ given_up \subseteq Pending \ done
    /\ published' = published \cup done
    /\ dead' = dead \cup given_up
    /\ UNCHANGED <<stored, delivered>>

PutBack(e) ==
    /\ e \in dead
    /\ dead' = dead \ {e}
    /\ UNCHANGED <<stored, delivered, published>>

DeliveryNext ==
    \/ \E e \in Event : Store(e) \/ Deliver(e) \/ PutBack(e)
    \/ \E done, given_up \in SUBSET Event : Settle(done, given_up)

DeliverySpec == DeliveryInit /\ [][DeliveryNext]_deliveryVars

----------------------------------------------------------------------------
(* An event counts as published only if the broker has it. *)
PublishedWasDelivered == published \subseteq delivered

(* Publishing is final: no step unpublishes an event or parks it afterwards. *)
PublishedIsFinal ==
    [][published \subseteq published' /\ published' \cap dead' = {}]_deliveryVars
============================================================================
