---------------------------- MODULE MCInbound ----------------------------
(* A small instance of Inbound for TLC. *)
EXTENDS Inbound, TLC

CONSTANTS a2

\* One of the app's transactions, a trade, looks like no other; the other one
\* looks like the deposit.
OneOther == [t \in Tx |-> IF t = a2 THEN "other" ELSE "same"]

\* Two people, and the syncs: no property names one.
Symmetric == Permutations(People) \cup Permutations(Syncs)
=============================================================================
