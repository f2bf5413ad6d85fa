------------------------------ MODULE Accounts ------------------------------
(***************************************************************************)
(* The rows that requests about an account read in one statement and save  *)
(* in another: the kill switch, the monthly counters, the organizations,   *)
(* the risk profile and the limits to what the agent trades.  A behaviour  *)
(* is about one of them (focus); the others have no state in it.           *)
(***************************************************************************)
EXTENDS MonthlyUsage

CONSTANTS
    Workers,                                            \* requests, but those that pause
    PauseWorkers, Durations, RevokedHours, Horizon,     \* of the kill switch
    Users, Orgs, Admin, OnTrial, Invitations, MaxMembers, NoOne,     \* of organizations
    Signals, MaxAssessments, BUFFER_MIN_DAYS, NoValue,              \* of the risk profile
    Proposals, AppTrades, Symbols, Amounts, Settings, WINDOW, LastHour  \* of the limits

VARIABLES
    focus,
    now, status, until, offer, proc,
    orgs, members, plan, invitation, orgJob,
    signals, row, assessments, riskJob,
    hour, limits, proposal, investments

pauseVars == <<now, status, until, offer, proc>>
orgVars == <<orgs, members, plan, invitation, orgJob>>
riskVars == <<signals, row, assessments, riskJob>>
limitVars == <<hour, limits, proposal, investments>>
allVars == <<focus, vars, pauseVars, orgVars, riskVars, limitVars>>

Pause == INSTANCE KillSwitch WITH Workers <- PauseWorkers
Org == INSTANCE Organizations WITH job <- orgJob, None <- NoOne
Risk == INSTANCE RiskProfile WITH job <- riskJob
Limit == INSTANCE TradeLimits WITH Horizon <- LastHour

ASSUME PauseAssumed ==
    Pause!DurationAssumption /\ Pause!HorizonAssumption /\ Pause!RevokedAssumption
ASSUME OrganizationsAssumed == Org!OrganizationsAssumption
ASSUME RiskAssumed == Risk!RiskAssumption
ASSUME LimitsAssumed == Limit!LimitsAssumption

Unused == "no state"
NoPause == /\ now = Unused /\ status = Unused /\ until = Unused
           /\ offer = Unused /\ proc = Unused
NoOrganizations == /\ orgs = Unused /\ members = Unused /\ plan = Unused
                   /\ invitation = Unused /\ orgJob = Unused
NoRisk == /\ signals = Unused /\ row = Unused /\ assessments = Unused
          /\ riskJob = Unused
NoLimits == /\ hour = Unused /\ limits = Unused /\ proposal = Unused
            /\ investments = Unused

AccountsInit ==
    /\ focus \in {"usage", "pause", "organization", "risk", "limit"}
    /\ Init /\ (focus # "usage" => user.plan = "NONE")
    /\ IF focus = "pause" THEN Pause!Init ELSE NoPause
    /\ IF focus = "organization" THEN Org!Init ELSE NoOrganizations
    /\ IF focus = "risk" THEN Risk!Init ELSE NoRisk
    /\ IF focus = "limit" THEN Limit!Init ELSE NoLimits

UsageStep ==
    /\ focus = "usage" /\ Next
    /\ UNCHANGED <<focus, pauseVars, orgVars, riskVars, limitVars>>
PauseStep ==
    /\ focus = "pause" /\ Pause!Next
    /\ UNCHANGED <<focus, vars, orgVars, riskVars, limitVars>>
OrganizationStep ==
    /\ focus = "organization" /\ Org!Next
    /\ UNCHANGED <<focus, vars, pauseVars, riskVars, limitVars>>
RiskStep ==
    /\ focus = "risk" /\ Risk!Next
    /\ UNCHANGED <<focus, vars, pauseVars, orgVars, limitVars>>
LimitStep ==
    /\ focus = "limit" /\ Limit!Next
    /\ UNCHANGED <<focus, vars, pauseVars, orgVars, riskVars>>

AccountsNext ==
    \/ UsageStep \/ PauseStep \/ OrganizationStep \/ RiskStep \/ LimitStep

AccountsSpec == AccountsInit /\ [][AccountsNext]_allVars

-----------------------------------------------------------------------------
(* The properties of each part, where the behaviour is about it; those of   *)
(* the monthly counters have their own names.                               *)

\* The types of every part.
AccountsTypeOK ==
    /\ TypeOK
    /\ focus = "pause" => Pause!TypeOK
    /\ focus = "organization" => Org!TypeOK
    /\ focus = "risk" => Risk!TypeOK
    /\ focus = "limit" => Limit!TypeOK

\* No pause request brings the end of the kill switch nearer, and a disconnected
\* account stays under it.
PausesHold ==
    [][focus = "pause" => Pause!NotWeakened /\ Pause!RevokedStaysPaused']_pauseVars

\* Racing requests exceed the members' limit by fewer than they are.
OvershootIsBounded == focus = "organization" => Org!OvershootIsBounded
\* The administrator stays, and a settled invitation is never pending again.
MembershipsHold ==
    [][focus = "organization" => Org!AdministratorKept /\ Org!NotReopened]_orgVars

\* An inference caps what is declared, even after it grew old.
CapIsKept == [][focus = "risk" => Risk!CapKept]_riskVars
\* More capacity never lowers the score.
CapacityCounts == [][focus = "risk" => Risk!ScoreKept]_riskVars

\* Operations that come one at a time keep within the daily cap their preview
\* read, however late they are confirmed and their rows made.
CapHoldsOneByOne == [][focus = "limit" => Limit!CapHeld]_limitVars
=============================================================================
