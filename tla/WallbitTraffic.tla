--------------------------- MODULE WallbitTraffic ---------------------------
(***************************************************************************)
(* The traffic with Wallbit: the HTTP calls it is made of, reads and       *)
(* writes (WallbitClient); the transactions, which the syncs of the ledger *)
(* read (InvestmentLedger); and the portfolio, read by requests for a      *)
(* snapshot (PortfolioSnapshot).  A behaviour is about one of them         *)
(* (focus).                                                                *)
(***************************************************************************)
EXTENDS InvestmentLedger

CONSTANTS
    Calls, Writes, FailFast, MAX_ATTEMPTS,  \* of the client
    Requests, MaxKey, CanCrash              \* of the snapshot

VARIABLES
    focus,
    pc, attempt, sent, upstream, applied, blocked,
    key, clean, live, lastgood, cooldown, lock, proc, chilled

clientVars == <<pc, attempt, sent, upstream, applied, blocked>>
snapshotVars == <<key, clean, live, lastgood, cooldown, lock, proc, chilled>>
allVars == <<focus, vars, clientVars, snapshotVars>>

Client == INSTANCE WallbitClient
\* No fetch outlasts the lock.
Snapshot == INSTANCE PortfolioSnapshot WITH LockMayExpire <- FALSE

ASSUME ClientAssumption == Client!WritesAssumption /\ Client!AttemptsAssumption
ASSUME SnapshotAssumption == Snapshot!KeyAssumption /\ Snapshot!FlagAssumption

TrafficInit ==
    /\ focus \in {"client", "ledger", "snapshot"}
    /\ Init /\ Client!Init /\ Snapshot!Init

ClientStep == focus = "client" /\ Client!Next /\ UNCHANGED <<focus, vars, snapshotVars>>
LedgerStep == focus = "ledger" /\ Next /\ UNCHANGED <<focus, clientVars, snapshotVars>>
SnapshotStep == focus = "snapshot" /\ Snapshot!Next /\ UNCHANGED <<focus, vars, clientVars>>

\* The fairness of each part, in the behaviours about it.
TrafficSpec ==
    /\ TrafficInit /\ [][ClientStep \/ LedgerStep \/ SnapshotStep]_allVars
    /\ \A c \in Calls : WF_clientVars(focus = "client" /\ Client!CallStep(c))
    /\ \A s \in Syncs : WF_vars(focus = "ledger" /\ SyncStep(s))
    /\ \A r \in Requests :
         /\ WF_snapshotVars(focus = "snapshot" /\ Snapshot!RequestStep(r))
         /\ SF_snapshotVars(focus = "snapshot" /\ Snapshot!WaitTimesOut(r))

-----------------------------------------------------------------------------
(* The properties of the client and of the snapshot; that of the ledger    *)
(* has its own name.                                                       *)

\* A write is never applied twice, whatever is lost, late or broken.
WriteAppliedOnce == Client!WriteAppliedOnce
\* A write the caller is told has failed was not applied and never will be.
FailuresAreDefinitive == Client!FailuresAreDefinitive
\* A call told to wait longer than RETRY_AFTER_MAX_SLEEP sends nothing more.
BlockIsRespected == Client!BlockIsRespected
\* Every call returns or raises.
EveryCallReturns == focus = "client" => Client!EveryCallReturns

\* One request at a time calls Wallbit, and none under a cool-down that stood
\* when it began.
SnapshotIsSound == Snapshot!SnapshotIsSound
\* Every request is answered.
EveryRequestAnswered == Snapshot!EveryRequestAnswered
=============================================================================
