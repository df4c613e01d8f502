------------------------------ MODULE Delivery ------------------------------
(***************************************************************************)
(* What the email outbox promises for each message: once queued it is      *)
(* settled, as sent or as failed; a message settled as sent reached the    *)
(* mail server and is final; a failed one goes back in the queue when the  *)
(* organizer asks.  Delivery is at least once: copies may reach the        *)
(* server as long as the message is queued, and only then.                 *)
(***************************************************************************)
EXTENDS Integers

CONSTANTS Ids

VARIABLES mail, copies

deliveryVars == <<mail, copies>>

DeliveryInit ==
    /\ mail = [m \in Ids |-> "none"]
    /\ copies = [m \in Ids |-> 0]

Queue(S) ==
    /\ \A m \in S : mail[m] = "none"
    /\ mail' = [m \in Ids |-> IF m \in S THEN "queued" ELSE mail[m]]
    /\ UNCHANGED copies

Reach(m) ==
    /\ mail[m] = "queued"
    /\ copies' = [copies EXCEPT ![m] = @ + 1]
    /\ UNCHANGED mail

SettleSent(m) ==
    /\ mail[m] = "queued" /\ copies[m] > 0
    /\ mail' = [mail EXCEPT ![m] = "sent"]
    /\ UNCHANGED copies

SettleFailed(m) ==
    /\ mail[m] = "queued"
    /\ mail' = [mail EXCEPT ![m] = "failed"]
    /\ UNCHANGED copies

Settle(m) == SettleSent(m) \/ SettleFailed(m)

Requeue(m) ==
    /\ mail[m] = "failed"
    /\ mail' = [mail EXCEPT ![m] = "queued"]
    /\ UNCHANGED copies

DeliveryNext ==
    \/ \E S \in SUBSET Ids : Queue(S)
    \/ \E m \in Ids : Reach(m) \/ Settle(m) \/ Requeue(m)

DeliverySafety == DeliveryInit /\ [][DeliveryNext]_deliveryVars

DeliverySpec == DeliverySafety /\ \A m \in Ids : WF_deliveryVars(Settle(m))
=============================================================================
