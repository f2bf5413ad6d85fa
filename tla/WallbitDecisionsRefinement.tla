--------------------- MODULE WallbitDecisionsRefinement ---------------------
(***************************************************************************)
(* The decision lifecycle implements WriteOnce.  A decision is taken while *)
(* a worker holds it between the claim and the request, and it counts as   *)
(* sent from the request on, whatever its status column says afterwards.   *)
(***************************************************************************)
EXTENDS WallbitDecisions

Held(d) == \E w \in Workers : proc[w].pc \in Unsent /\ proc[w].d = d

Phase(d) ==
    IF posts[d] > 0 THEN "sent"
    ELSE IF row[d].confirmed_at = NotConfirmed THEN "open"
    ELSE IF Held(d) THEN "taken"
    ELSE "closed"

AbstractPhase == [d \in Decisions |-> Phase(d)]

Abstract == INSTANCE WriteOnce WITH phase <- AbstractPhase, writes <- posts

\* Every behaviour of the lifecycle, with its crashes, cancellations and late
\* answers, is a behaviour of the one-shot write.
ImplementsWriteOnce == Abstract!Spec
=============================================================================
