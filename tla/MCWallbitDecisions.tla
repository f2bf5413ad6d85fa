------------------------ MODULE MCWallbitDecisions ------------------------
(* Small instances of WallbitDecisions for TLC. *)
EXTENDS WallbitDecisionsRefinement, TLC

CONSTANTS d1, d2, t1

\* Symmetric workers: no property names one.
WorkerSymmetry == Permutations(Workers)

TradeAndResume == d1 :> "place_trade" @@ d2 :> "resume"
ChestAndCard == d1 :> "chest" @@ d2 :> "set_card_status"
TwoTrades == d1 :> "place_trade" @@ d2 :> "place_trade"
OneTrade == d1 :> "place_trade"
OneMove == d1 :> "move_funds"

\* Every transaction has its own symbol and amount.
AllDistinct == [t \in Tx |-> t]
\* All transactions are for the same symbol and amount.
AllAlike == [t \in Tx |-> "same"]
=============================================================================
