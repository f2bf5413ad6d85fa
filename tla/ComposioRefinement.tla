------------------------- MODULE ComposioRefinement -------------------------
(***************************************************************************)
(* ComposioConnection implements GmailConnection as long as its handlers   *)
(* do not overlap.                                                         *)
(***************************************************************************)
EXTENDS ComposioConnection

HasItsTrigger == row.trigger = row.account /\ row.account \in triggers

Phase ==
    IF ~Unlocked THEN "closing"
    ELSE IF ~row.there THEN "none"
    ELSE IF row.status = "pending" THEN "connecting"
    ELSE IF row.status = "active" THEN IF HasItsTrigger THEN "ready" ELSE "waiting"
    ELSE IF row.status = "disconnected" THEN "off"
    ELSE IF row.error = "provisioning" THEN "failing" ELSE "refused"

Abstract == INSTANCE GmailConnection WITH
                Flows <- Accounts, phase <- Phase, landings <- landed

\* Every step that begins over no other handler, whoever takes it, makes a move
\* of the diagram or none: what the services write in the row, the account and
\* the triggers of Composio together never loses a trigger unnoticed, and a
\* worker or the sweep never does what is the user's to do.
ImplementsConnection ==
    Abstract!Init /\ [][~raced' => Abstract!Next]_<<Phase, landed>>

\* A connection keeps to its diagram, and the one the user ended, or refused,
\* stays down until the user does something.
ConnectionIsKept == DownStaysDown /\ ImplementsConnection
=============================================================================
