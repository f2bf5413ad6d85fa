------------------------- MODULE MCWallbitTraffic -------------------------
(* A small instance of WallbitTraffic for TLC. *)
EXTENDS WallbitTraffic

\* All transactions look alike.
Alike == [t \in Tx |-> "same"]
=============================================================================
