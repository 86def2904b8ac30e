------------------------ MODULE IdempotentConsumer ------------------------
(***************************************************************************)
(* IdempotentConsumer.process of outbox.py: the handler's effect and the   *)
(* receipt (consumer_name, event_id) commit in one transaction.  Threads   *)
(* run it concurrently on whatever copies the broker hands them; the       *)
(* broker is outside the repository and may hand out any delivered event   *)
(* again at any time.                                                      *)
(***************************************************************************)
EXTENDS Naturals

CONSTANTS
    Event,
    Consumer,   \* consumer_name values
    Thread      \* concurrent calls of process

VARIABLES
    delivered,  \* events the broker holds (owned by the delivery side)
    receipts,   \* committed ConsumerReceipt rows
    effects,    \* committed runs of the handler, per receipt key
    acked,      \* keys for which some call returned without an exception
    cpc,        \* where each call stands
    key         \* the consumer and event each call works on

consumerVars == <<receipts, effects, acked, cpc, key>>

Key == Consumer \X Event
NoKey == <<>>

ConsumerTypeOK ==
    /\ receipts \subseteq Key
    /\ effects \in [Key -> Nat]
    /\ acked \subseteq Key
    /\ cpc \in [Thread -> {"idle", "select", "handled", "inserted"}]
    /\ key \in [Thread -> Key \cup {NoKey}]

ConsumerInit ==
    /\ receipts = {}
    /\ effects = [k \in Key |-> 0]
    /\ acked = {}
    /\ cpc = [t \in Thread |-> "idle"]
    /\ key = [t \in Thread |-> NoKey]

Receive(t, k) ==
    /\ cpc[t] = "idle"
    /\ k[2] \in delivered
    /\ cpc' = [cpc EXCEPT ![t] = "select"]
    /\ key' = [key EXCEPT ![t] = k]
    /\ UNCHANGED <<delivered, receipts, effects, acked>>

\* The call ends and forgets its event.
Return(t) ==
    /\ cpc' = [cpc EXCEPT ![t] = "idle"]
    /\ key' = [key EXCEPT ![t] = NoKey]

\* Mutant: the lookup also sees a receipt another call has not committed.
SkipOnDirtyRead(t) ==
    /\ cpc[t] = "select"
    /\ \/ key[t] \in receipts
       \/ \E u \in Thread \ {t} : cpc[u] = "inserted" /\ key[u] = key[t]
    /\ acked' = acked \cup {key[t]}
    /\ Return(t)
    /\ UNCHANGED <<delivered, receipts, effects>>

\* A receipt is there: return False.
Skip(t) ==
    /\ cpc[t] = "select"
    /\ key[t] \in receipts
    /\ acked' = acked \cup {key[t]}
    /\ Return(t)
    /\ UNCHANGED <<delivered, receipts, effects>>

\* No receipt: handler(event, conn) writes inside the open transaction.
Handle(t) ==
    /\ cpc[t] = "select"
    /\ key[t] \notin receipts
    /\ cpc' = [cpc EXCEPT ![t] = "handled"]
    /\ UNCHANGED <<delivered, receipts, effects, acked, key>>

\* Mutant: the receipts table has no primary key.
KeyFreeAlways(t) == TRUE

\* The primary key: an uncommitted row of another transaction makes the
\* INSERT wait, a committed one makes it fail.
KeyFree(t) == key[t] \notin receipts

Uncontended(t) ==
    \A u \in Thread \ {t} : cpc[u] = "inserted" => key[u] # key[t]

InsertReceipt(t) ==
    /\ cpc[t] = "handled"
    /\ KeyFree(t)
    /\ Uncontended(t)
    /\ cpc' = [cpc EXCEPT ![t] = "inserted"]
    /\ UNCHANGED <<delivered, receipts, effects, acked, key>>

\* The transaction rolls back and the exception reaches the caller.
RollBack(t) ==
    /\ Return(t)
    /\ UNCHANGED <<delivered, receipts, effects, acked>>

\* IntegrityError from the primary key.
InsertFails(t) ==
    /\ cpc[t] = "handled"
    /\ key[t] \in receipts
    /\ RollBack(t)

\* The handler raises, the connection drops or the process dies.
Abort(t) ==
    /\ cpc[t] \in {"select", "handled", "inserted"}
    /\ RollBack(t)

CommitReceipt(t) ==
    /\ cpc[t] = "inserted"
    /\ receipts' = receipts \cup {key[t]}
    /\ effects' = [effects EXCEPT ![key[t]] = @ + 1]
    /\ acked' = acked \cup {key[t]}
    /\ Return(t)
    /\ UNCHANGED delivered

ConsumerNext ==
    \E t \in Thread :
        \/ \E k \in Key : Receive(t, k)
        \/ Skip(t) \/ Handle(t) \/ InsertReceipt(t) \/ InsertFails(t)
        \/ Abort(t) \/ CommitReceipt(t)

----------------------------------------------------------------------------
(* Two calls that both found no receipt commit one effect between them, a  *)
(* rolled-back call none: effect and receipt stand or fall together.       *)
ExactlyOnceEffect ==
    \A k \in Key : effects[k] = IF k \in receipts THEN 1 ELSE 0

(* A call that returns, True or False, vouches that the effect committed:  *)
(* the caller may then drop the message without losing it.                 *)
AckedWasHandled == \A k \in acked : effects[k] > 0
============================================================================
