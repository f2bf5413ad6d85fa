-------------------------- MODULE GmailConnection --------------------------
(***************************************************************************)
(* What a user may rely on of the Gmail connection, and nothing else: mail *)
(* arrives, is about to, or the user can see that it does not and why.     *)
(* These are the states of ComposioConnection.status, with its error and   *)
(* its trigger, and the moves the services make between them.              *)
(***************************************************************************)
EXTENDS Naturals

CONSTANT Flows  \* connect flows the user may begin

VARIABLES
    phase,    \* where the connection is
    landings  \* landings[f]: callbacks of flow f that counted

Up == {"waiting", "ready"}            \* active, without and with its trigger
Broken == {"refused", "failing"}      \* by the user's consent, by its trigger
Phases == {"none", "connecting"} \cup Up \cup Broken \cup {"closing", "off"}

Init ==
    /\ phase = "none"
    /\ landings = [f \in Flows |-> 0]

Move(from, to) == phase \in from /\ phase' \in to

\* The user begins anew, from wherever the connection is.
Connect == Move(Phases \ {"closing"}, {"connecting"}) /\ UNCHANGED landings

\* Google had the user's consent already.
Recover == Move({"connecting"}, Up) /\ UNCHANGED landings

\* The user comes back from Google, once per flow.
Lands(f) ==
    /\ Move(Phases \ {"none", "closing"}, {"waiting", "refused"})
    /\ landings[f] = 0
    /\ landings' = [landings EXCEPT ![f] = 1]

\* What is ready stays so until the user acts or provisioning it again fails.
Provision == Move({"waiting"}, {"ready"}) /\ UNCHANGED landings
Fail == Move(Up, {"failing"}) /\ UNCHANGED landings

\* Only a failed provisioning is tried again without the user.
Retry == Move({"failing"}, Up) /\ UNCHANGED landings

Disconnect == Move(Phases \ {"none", "closing", "off"}, {"closing"}) /\ UNCHANGED landings
Close == Move({"closing"}, {"off"}) /\ UNCHANGED landings

Next ==
    \/ Connect \/ Recover \/ \E f \in Flows : Lands(f)
    \/ Provision \/ Fail \/ Retry \/ Disconnect \/ Close

Spec == Init /\ [][Next]_<<phase, landings>>
=============================================================================
