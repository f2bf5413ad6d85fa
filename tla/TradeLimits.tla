----------------------------- MODULE TradeLimits -----------------------------
(***************************************************************************)
(* The limits a user sets to the agent's trades and moves: a preview tool  *)
(* checks them when it proposes an operation, looks the asset up at        *)
(* Wallbit, asks the risk gate and saves the pending decision.  The daily  *)
(* cap is compared with the Investment rows of the last WINDOW hours,      *)
(* which come from the executor of a confirmed decision and from the sync. *)
(* How a decision is confirmed and sent is the matter of WallbitDecisions. *)
(***************************************************************************)
EXTENDS Integers, FiniteSetsExt, Functions

CONSTANTS
    Proposals,      \* decisions of the user
    AppTrades,      \* transactions made in Wallbit's own app
    Symbols,
    Amounts,
    Settings,       \* AgentLimits the user may choose; it starts with one of them
    WINDOW,         \* 24 hours
    Horizon         \* hours (bound)

Tools == {"buy", "sell", "chest", "move"}
Setting == [max_trade : Nat, cap : Nat, two_step_above : Nat,
            allowed : SUBSET Symbols, blocked : SUBSET Symbols]

LimitsAssumption ==
    /\ Amounts \subseteq Nat \ {0} /\ Settings \subseteq Setting
    /\ WINDOW \in Nat /\ Horizon \in Nat /\ Proposals \cap AppTrades = {}

VARIABLES
    hour,
    limits,         \* AgentLimits
    proposal,       \* the decisions, with what their preview read
    investments     \* Investment rows, by the transaction they are about

vars == <<hour, limits, proposal, investments>>

Closed == {"none", "cancelled", "failed", "recorded"}
Open == {"checked", "pending", "sent", "executed", "unrecorded", "uncertain"}

NoProposal == [pc |-> "none", tool |-> "buy", amount |-> 0, two_step |-> FALSE,
               cap |-> 0, alone |-> FALSE, at |-> 0]

TypeOK ==
    /\ hour \in 0..Horizon
    /\ limits \in Settings
    /\ \A p \in Proposals :
         /\ proposal[p].pc \in Closed \cup Open
         /\ proposal[p].tool \in Tools
         /\ proposal[p].two_step \in BOOLEAN /\ proposal[p].alone \in BOOLEAN
         /\ proposal[p].at \in 0..hour
    /\ \A i \in investments : i.tx \in Proposals \cup AppTrades /\ i.created_at \in 0..hour

Init ==
    /\ hour = 0
    /\ limits \in Settings
    /\ proposal = [p \in Proposals |-> NoProposal]
    /\ investments = {}

Amount(S) == SumFunction([i \in S |-> i.amount])

-----------------------------------------------------------------------------
(* The limits.                                                             *)

\* Mutant of DailyMoveTotal: the rows of the present hour.
TotalOfTheHour == Amount({i \in investments : i.created_at = hour})

\* _daily_move_total_usd
DailyMoveTotal == Amount({i \in investments : i.created_at >= hour - WINDOW})

Tradable(symbol) ==
    /\ symbol \notin limits.blocked
    /\ limits.allowed = {} \/ symbol \in limits.allowed

\* evaluate_trade_limits, evaluate_move_limits
WithinLimits(amount) ==
    /\ amount <= limits.max_trade
    /\ DailyMoveTotal + amount <= limits.cap

IsOpen(p) == proposal[p].pc \in Open
Overlapped == [p \in Proposals |->
                 IF IsOpen(p) THEN [proposal[p] EXCEPT !.alone = FALSE] ELSE proposal[p]]

\* alone: no other operation is between its check and its Investment row.
CheckLimits(p, tool, amount) ==
    /\ proposal[p].pc = "none"
    /\ tool \in {"buy", "sell"} => \E symbol \in Symbols : Tradable(symbol)
    /\ WithinLimits(amount)
    /\ proposal' = [Overlapped EXCEPT ![p] =
          [pc |-> "checked", tool |-> tool, amount |-> amount,
           two_step |-> amount > limits.two_step_above, cap |-> limits.cap,
           alone |-> \A q \in Proposals : ~IsOpen(q), at |-> 0]]
    /\ UNCHANGED <<hour, limits, investments>>

\* evaluate_risk_profile_gate, which reads the limits again.
GateAsks(p, tolerance) ==
    /\ proposal[p].tool = "buy"
    /\ \/ tolerance = "conservative"
       \/ tolerance = "moderate" /\ 2 * proposal[p].amount >= limits.max_trade

\* "unread": the profile could not be read.
CreatePending(p, tolerance) ==
    /\ proposal[p].pc = "checked"
    /\ proposal' = [proposal EXCEPT ![p].pc = "pending",
                                    ![p].two_step = @ \/ GateAsks(p, tolerance)]
    /\ UNCHANGED <<hour, limits, investments>>

\* A quote is needed for a limit order and there is none.
PreviewFails(p) ==
    /\ proposal[p].pc = "checked" /\ proposal[p].tool \in {"buy", "sell"}
    /\ proposal' = [proposal EXCEPT ![p] = NoProposal]
    /\ UNCHANGED <<hour, limits, investments>>

SetLimits(setting) ==
    /\ limits' = setting
    /\ UNCHANGED <<hour, proposal, investments>>

-----------------------------------------------------------------------------
(* The decision, from its confirmation to its row: no limit is read again. *)

Goto(p, from, to, forgotten) ==
    /\ proposal[p].pc = from
    /\ proposal' = [proposal EXCEPT ![p] = [forgotten EXCEPT !.pc = to]]
    /\ UNCHANGED <<hour, limits, investments>>

Confirm(p) == Goto(p, "pending", "sent", [proposal[p] EXCEPT !.two_step = FALSE])
Cancel(p) == Goto(p, "pending", "cancelled", NoProposal)
\* A rejection, or no answer and nothing found later.
Rejected(p) == Goto(p, "sent", "failed", NoProposal)

\* Wallbit applies the operation, and says so or not.
Apply(p, answered) ==
    /\ proposal[p].pc = "sent"
    /\ proposal' = [proposal EXCEPT ![p] =
          [NoProposal EXCEPT !.pc = IF answered THEN "executed" ELSE "uncertain",
                             !.tool = proposal[p].tool,
                             !.amount = proposal[p].amount, !.at = hour]]
    /\ UNCHANGED <<hour, limits, investments>>

Row(tx, amount) == [tx |-> tx, amount |-> amount, created_at |-> hour]

\* A move of funds leaves no row.
RecordInvestment(p) ==
    /\ proposal[p].pc = "executed"
    /\ proposal' = [proposal EXCEPT ![p].pc = "recorded"]
    /\ investments' = IF proposal[p].tool = "move" THEN investments
                      ELSE investments \cup {Row(p, proposal[p].amount)}
    /\ UNCHANGED <<hour, limits>>

RecordFails(p) == proposal[p].tool # "move" /\ Goto(p, "executed", "unrecorded", proposal[p])

\* _backfill_investment: the row is made when the sync runs.  What a sale that
\* is not settled yet will bring is not known, and 0 is put down.
Backfill(p, settled) ==
    /\ proposal[p].pc \in {"unrecorded", "uncertain"}
    /\ proposal' = [proposal EXCEPT ![p].pc = "recorded"]
    /\ investments' =
          IF proposal[p].tool = "move" THEN investments
          ELSE investments \cup
                 {Row(p, IF proposal[p].tool = "sell" /\ ~settled THEN 0
                         ELSE proposal[p].amount)}
    /\ UNCHANGED <<hour, limits>>

BackfillApp(t, amount) ==
    /\ \A i \in investments : i.tx # t
    /\ investments' = investments \cup {Row(t, amount)}
    /\ UNCHANGED <<hour, limits, proposal>>

Tick ==
    /\ hour < Horizon
    /\ hour' = hour + 1
    /\ UNCHANGED <<limits, proposal, investments>>

-----------------------------------------------------------------------------
Preview(p) ==
    \/ \E tool \in Tools, amount \in Amounts : CheckLimits(p, tool, amount)
    \/ \E tolerance \in {"conservative", "moderate", "aggressive", "unread"} :
         CreatePending(p, tolerance)
    \/ PreviewFails(p)

Execution(p) ==
    \/ Confirm(p) \/ Cancel(p) \/ Rejected(p)
    \/ \E answered \in BOOLEAN : Apply(p, answered)
    \/ RecordInvestment(p) \/ RecordFails(p)
    \/ \E settled \in BOOLEAN : Backfill(p, settled)

Next ==
    \/ \E p \in Proposals : Preview(p) \/ Execution(p)
    \/ \E t \in AppTrades, amount \in Amounts : BackfillApp(t, amount)
    \/ \E setting \in Settings : SetLimits(setting)
    \/ Tick

Spec == Init /\ [][Next]_vars

-----------------------------------------------------------------------------
(* Properties.                                                             *)

Applied(p) == proposal[p].pc \in {"executed", "unrecorded", "uncertain", "recorded"}
AppliedTotal(tools) ==
    LET recent == {p \in Proposals : /\ Applied(p) /\ proposal[p].tool \in tools
                                     /\ proposal[p].at >= hour - WINDOW}
    IN  SumFunction([p \in recent |-> proposal[p].amount])

\* An operation that is applied stays, with the purchases and deposits of the
\* window before it, within the daily cap its preview read, however long the user
\* took to confirm it and however late the rows were made, as long as operations
\* came one at a time.
CapHeld ==
    \A p \in Proposals :
        ~Applied(p) /\ Applied(p)' /\ proposal[p].alone
            => AppliedTotal({"buy", "chest"}) + proposal[p].amount <= proposal[p].cap
CapHoldsOneByOne == [][CapHeld]_vars

-----------------------------------------------------------------------------
(* What is not kept (see the README): no run checks these.                 *)

HighestCap == Max({s.cap : s \in Settings})

\* "tope diario": a preview does not count what is proposed and not recorded.
DailyCapHolds == AppliedTotal({"buy", "chest"}) <= HighestCap

\* max_daily_move_usd limits moves, and sales that come one at a time.
MovesAreCapped == AppliedTotal({"move"}) <= HighestCap
SalesAreCapped ==
    [][\A p \in Proposals :
         ~Applied(p) /\ Applied(p)' /\ proposal[p].alone
             => AppliedTotal({"sell"}) + proposal[p].amount <= proposal[p].cap]_vars

\* What is sent is within the limits of that moment.
SentWithinLimits ==
    [][\A p \in Proposals : proposal[p].pc = "pending" /\ proposal'[p].pc = "sent"
         => proposal[p].amount <= limits.max_trade]_vars
=============================================================================
