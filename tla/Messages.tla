------------------------------ MODULE Messages ------------------------------
(***************************************************************************)
(* The messages that reach the bots: the deliveries of a message of        *)
(* WhatsApp, which share a mark and a lock in the cache (MetaMessageTask), *)
(* and the turns of a user's messages with the assistant (UserTurns).      *)
(* They share no state, and interleave freely.                             *)
(***************************************************************************)
EXTENDS UserTurns

CONSTANTS
    Tasks, NoTask, MaxRetries, RunLimit, LockLife, MaxCrashes, BrokerMayFail

VARIABLES task, done, messageLock, left, handled, crashes

deliveryVars == <<task, done, messageLock, left, handled, crashes>>

Delivery == INSTANCE MetaMessageTask WITH lock <- messageLock

ASSUME DeliveryAssumption ==
    Delivery!TaskAssumption /\ Delivery!BoundAssumption /\ Delivery!LockAssumption

MessagesInit == Init /\ Delivery!Init
ATurn == Next /\ UNCHANGED deliveryVars
ADelivery == Delivery!Next /\ UNCHANGED vars

MessagesSpec ==
    /\ MessagesInit /\ [][ATurn \/ ADelivery]_<<vars, deliveryVars>>
    /\ Fairness
    /\ \A t \in Tasks : WF_deliveryVars(Delivery!TaskStep(t))

-----------------------------------------------------------------------------
(* The properties of the deliveries; those of the turns have their own     *)
(* names.                                                                  *)

\* As long as no worker is lost, two deliveries are not processed in parallel,
\* whatever raises and whatever runs into the time limit.
DeliveriesAreSerial == Delivery!DeliveriesAreSerial
\* Every delivery comes to an end, whatever fails.
EveryDeliverySettles == Delivery!EveryDeliverySettles
=============================================================================
