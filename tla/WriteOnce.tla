----------------------------- MODULE WriteOnce -----------------------------
(***************************************************************************)
(* What a confirmable decision promises its user, and nothing else: it is  *)
(* open until it is either closed without effect or taken once; a taken    *)
(* decision is sent to Wallbit exactly once or dropped; nothing is ever    *)
(* sent twice and nothing comes back to life.  The promise is that of the  *)
(* docstring of claim_pending_decision and of the client's write policy.   *)
(***************************************************************************)
EXTENDS Naturals

CONSTANT Decisions

VARIABLES
    phase,  \* phase[d]: where decision d is
    writes  \* writes[d]: write requests Wallbit received for d

Phases == {"open", "taken", "sent", "closed"}

Init ==
    /\ phase = [d \in Decisions |-> "open"]
    /\ writes = [d \in Decisions |-> 0]

Move(d, from, to) ==
    /\ phase[d] = from
    /\ phase' = [phase EXCEPT ![d] = to]

\* The user confirms.
Take(d) == Move(d, "open", "taken") /\ UNCHANGED writes

\* The user cancels.
Close(d) == Move(d, "open", "closed") /\ UNCHANGED writes

\* A pre-flight check refuses, the tool is local, or the worker dies.
Drop(d) == Move(d, "taken", "closed") /\ UNCHANGED writes

Send(d) ==
    /\ Move(d, "taken", "sent")
    /\ writes[d] = 0
    /\ writes' = [writes EXCEPT ![d] = 1]

Next == \E d \in Decisions : Take(d) \/ Close(d) \/ Drop(d) \/ Send(d)

Spec == Init /\ [][Next]_<<phase, writes>>
=============================================================================
