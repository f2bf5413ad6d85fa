-------------------------- MODULE WallbitDecisions --------------------------
(***************************************************************************)
(* The life of one user's AgentDecision rows: a write to Wallbit (real     *)
(* money) is proposed by a preview tool, confirmed or cancelled from a     *)
(* button or the dashboard, sent to Wallbit, and, when Wallbit gives no    *)
(* answer, settled later by a reconciliation task that reads Wallbit's     *)
(* transaction history.                                                    *)
(*                                                                         *)
(* A worker is a gunicorn thread or a Celery process.  One action is one   *)
(* committed database statement or transaction, or one half of an HTTP     *)
(* exchange: everything between two of them is local to the worker.        *)
(***************************************************************************)
EXTENDS Integers, Sequences, FiniteSets

CONSTANTS
    Decisions,              \* AgentDecision ids of the user
    Workers,                \* gunicorn threads and Celery processes
    AppTrades,              \* transactions the user makes in Wallbit's own app
    Tool,                   \* Tool[d]: the tool recorded in tools_called[0]
    Order,                  \* Order[t]: symbol, side and amount up to tolerance
    NoDecision, NoTx,       \* "none" values
    RECONCILE_MAX_ATTEMPTS, \* attempts of reconcile_uncertain_decision
    PageLimit,              \* transactions a sync reads (page 1, limit 50)
    CanCrash,               \* may a worker process die mid-handler?
    BrokerMayFail           \* may apply_async fail?

Tools == {"place_trade", "move_funds", "chest", "set_card_status", "resume"}

\* A transaction is named by the decision whose write caused it.
Tx == Decisions \cup AppTrades

ASSUME ToolAssumption == Tool \in [Decisions -> Tools]
ASSUME OrderAssumption == DOMAIN Order = Tx
ASSUME NoneAssumption == NoTx \notin Tx /\ NoDecision \notin Decisions
ASSUME AppTradesAssumption == Decisions \cap AppTrades = {}
ASSUME AttemptsAssumption == RECONCILE_MAX_ATTEMPTS \in Nat \ {0}
ASSUME PageAssumption == PageLimit \in Nat \ {0}
ASSUME FlagAssumption == CanCrash \in BOOLEAN /\ BrokerMayFail \in BOOLEAN

VARIABLES
    row,        \* the AgentDecision table
    executed,   \* the decisions whose executed flag is set
    account,    \* the user's WallbitAccount row
    proc,       \* what each worker is doing
    tasks,      \* reconcile_uncertain_decision messages in the broker
    mirror,     \* WallbitTxMirror: transactions we have copied
    request,    \* Wallbit's side of the write of each decision
    history,    \* Wallbit's transactions, oldest first
    posts,      \* how many write requests were sent for each decision
    standing    \* decisions claimed under a pause that has not ended since

vars == <<row, executed, account, proc, tasks, mirror, request, history, posts,
          standing>>
upstream == <<request, history>>
table == <<row, executed>>

\* confirmed_at: NotConfirmed, or how many of Wallbit's transactions were
\* already older than RECONCILE_LOOKBACK when the decision was confirmed.
NotConfirmed == -1

Statuses == {"absent", "pending", "executing", "executed", "failed",
             "cancelled", "uncertain"}

Row == [status : Statuses, confirmed_at : Nat \cup {NotConfirmed},
        wallbit_tx_uuid : Tx \cup {NoTx}]

Absent == [status |-> "absent", confirmed_at |-> NotConfirmed,
           wallbit_tx_uuid |-> NoTx]

\* Steps of execute_confirmed_decision that hold a claimed decision.
Unsent == {"claimed", "cleared"}
Confirming == Unsent \cup {"resumed", "waiting", "scheduling", "recording"}
Reconciling == {"syncing", "matching", "settling", "giving_up"}
PCs == {"idle", "cancelling"} \cup Confirming \cup Reconciling

Proc == [pc : PCs, d : Decisions \cup {NoDecision},
         retries : 0..RECONCILE_MAX_ATTEMPTS - 1,
         since : Nat \cup {NotConfirmed}, match : Tx \cup {NoTx}]

Idle == [pc |-> "idle", d |-> NoDecision, retries |-> 0, since |-> 0,
         match |-> NoTx]

Task == [d : Decisions, retries : 0..RECONCILE_MAX_ATTEMPTS - 1]

TypeOK ==
    /\ row \in [Decisions -> Row]
    /\ executed \subseteq Decisions
    /\ account \in [status : {"absent", "connected", "revoked"},
                    kill_switch : {"off", "on"}]
    /\ proc \in [Workers -> Proc]
    /\ \A w \in Workers : proc[w].pc # "idle" => proc[w].d \in Decisions
    /\ tasks \subseteq Task
    /\ mirror \subseteq Tx
    /\ request \in [Decisions -> {"none", "inflight", "applied", "refused"}]
    /\ history \in Seq(Tx)
    /\ posts \in [Decisions -> Nat]
    /\ standing \subseteq Decisions

Init ==
    /\ row = [d \in Decisions |-> Absent]
    /\ executed = {}
    /\ account = [status |-> "absent", kill_switch |-> "off"]
    /\ proc = [w \in Workers |-> Idle]
    /\ tasks = {}
    /\ mirror = {}
    /\ request = [d \in Decisions |-> "none"]
    /\ history = <<>>
    /\ posts = [d \in Decisions |-> 0]
    /\ standing = {}

-----------------------------------------------------------------------------
(* The account: connect, disconnect, pause, resume.                        *)

Paused == account.kill_switch = "on"

SetAccount(status, kill_switch) ==
    /\ account' = [status |-> status, kill_switch |-> kill_switch]
    /\ standing' = IF kill_switch = "on" THEN standing ELSE {}
    /\ UNCHANGED <<table, proc, tasks, mirror, upstream, posts>>

Connect == SetAccount("connected", "off")

Disconnect == account.status # "absent" /\ SetAccount("revoked", "on")

Pause == account.status # "absent" /\ SetAccount(account.status, "on")

\* WallbitResumeView refuses a revoked account.
Resume == account.status = "connected" /\ SetAccount("connected", "off")

\* kill_switch_until passes.
PauseExpires == Paused /\ SetAccount(account.status, "off")

-----------------------------------------------------------------------------
(* The rows and the writes agent_safety makes to them.                     *)

\* Mutant of Claimable: the filter tests the executed flag alone.
ClaimableIfNotExecuted(d) == row[d].status # "absent" /\ d \notin executed

\* _pending_qs: requires_confirmation holds of every row of this table.
Claimable(d) ==
    /\ row[d].status = "pending"
    /\ d \notin executed
    /\ row[d].confirmed_at = NotConfirmed

MarkExecuted(d, uuid) ==
    /\ executed' = executed \cup {d}
    /\ row' = [row EXCEPT ![d] = [row[d] EXCEPT
                 !.status = "executed",
                 !.wallbit_tx_uuid = IF uuid = NoTx THEN row[d].wallbit_tx_uuid ELSE uuid]]

\* No other save touches the executed flag.
SetStatus(d, status) ==
    row' = [row EXCEPT ![d].status = status] /\ UNCHANGED executed

\* Mutant of MarkFailed: a failed decision is offered again.
MarkFailedReopens(d) == SetStatus(d, "pending")

MarkFailed(d) == SetStatus(d, "failed")

MarkUncertain(d) == SetStatus(d, "uncertain")

Become(w, pc) == proc' = [proc EXCEPT ![w].pc = pc]
Finish(w) == proc' = [proc EXCEPT ![w] = Idle]
Start(w, pc, d) == proc' = [proc EXCEPT ![w] = [Idle EXCEPT !.pc = pc, !.d = d]]

\* A preview tool stores a PENDING row.  The limits it checks are the subject
\* of AgentLimits; here a preview may or may not pass them.
Propose(d) ==
    /\ row[d].status = "absent"
    /\ IF Tool[d] = "resume"
       THEN account.status # "absent" /\ Paused
       ELSE account.status = "connected" /\ ~Paused
    /\ SetStatus(d, "pending")
    /\ UNCHANGED <<account, proc, tasks, mirror, upstream, posts, standing>>

-----------------------------------------------------------------------------
(* Confirming: claim, pre-flight, one request, its outcome.                *)

\* SELECT ... FOR UPDATE and the save are one transaction.
Claim(w, d) ==
    /\ proc[w].pc = "idle"
    /\ Claimable(d)
    /\ \E since \in 0..Len(history) :
          row' = [row EXCEPT ![d] = [row[d] EXCEPT
                    !.status = "executing", !.confirmed_at = since]]
    /\ Start(w, "claimed", d)
    /\ standing' = IF Paused THEN standing \cup {d} ELSE standing
    /\ UNCHANGED <<executed, account, tasks, mirror, upstream, posts>>

\* Mutant of Blocked: the pre-flight forgets the kill switch.
BlockedIfDisconnected(d) == account.status # "connected"

\* LOCAL_ONLY_TOOLS bypass the kill switch.
Blocked(d) ==
    \/ account.status # "connected"
    \/ Paused /\ Tool[d] # "resume"

PreflightRefuses(w) ==
    /\ proc[w].pc = "claimed"
    /\ Blocked(proc[w].d)
    /\ MarkFailed(proc[w].d)
    /\ Finish(w)
    /\ UNCHANGED <<account, tasks, mirror, upstream, posts, standing>>

PreflightPasses(w) ==
    /\ proc[w].pc = "claimed"
    /\ ~Blocked(proc[w].d)
    /\ Become(w, "cleared")
    /\ UNCHANGED <<table, account, tasks, mirror, upstream, posts, standing>>

\* execute_resume_bot: two saves, the kill switch and then the decision.
ResumeBot(w) ==
    /\ proc[w].pc = "cleared"
    /\ Tool[proc[w].d] = "resume"
    /\ account' = [account EXCEPT !.kill_switch = "off"]
    /\ standing' = {}
    /\ Become(w, "resumed")
    /\ UNCHANGED <<table, tasks, mirror, upstream, posts>>

ResumeBotDone(w) ==
    /\ proc[w].pc = "resumed"
    /\ MarkExecuted(proc[w].d, NoTx)
    /\ Finish(w)
    /\ UNCHANGED <<account, tasks, mirror, upstream, posts, standing>>

\* A LIMIT order too small for 0.0001 shares raises before the request.
OrderTooSmall(w) ==
    /\ proc[w].pc = "cleared"
    /\ Tool[proc[w].d] = "place_trade"
    /\ MarkFailed(proc[w].d)
    /\ Finish(w)
    /\ UNCHANGED <<account, tasks, mirror, upstream, posts, standing>>

\* WallbitClient gives a write exactly one attempt.
Post(w) ==
    LET d == proc[w].d IN
    /\ proc[w].pc = "cleared"
    /\ Tool[d] # "resume"
    /\ posts' = [posts EXCEPT ![d] = @ + 1]
    /\ request' = [request EXCEPT ![d] = "inflight"]
    /\ Become(w, "waiting")
    /\ UNCHANGED <<table, account, tasks, mirror, history, standing>>

\* 2xx; the body may or may not carry the transaction's uuid.
AnsweredOk(w) ==
    LET d == proc[w].d IN
    /\ proc[w].pc = "waiting"
    /\ request[d] = "applied"
    /\ \E uuid \in IF Tool[d] = "set_card_status" THEN {NoTx} ELSE {d, NoTx} :
          MarkExecuted(d, uuid)
    /\ IF Tool[d] = "chest" THEN Become(w, "recording") ELSE Finish(w)
    /\ UNCHANGED <<account, tasks, mirror, upstream, posts, standing>>

\* 4xx.
AnsweredRejected(w) ==
    /\ proc[w].pc = "waiting"
    /\ request[proc[w].d] = "refused"
    /\ MarkFailed(proc[w].d)
    /\ Finish(w)
    /\ UNCHANGED <<account, tasks, mirror, upstream, posts, standing>>

\* Mutant of NoAnswer: silence is taken for a rejection.
NoAnswerFails(w) ==
    /\ proc[w].pc = "waiting"
    /\ MarkFailed(proc[w].d)
    /\ Finish(w)
    /\ UNCHANGED <<account, tasks, mirror, upstream, posts, standing>>

\* Mutant of NoAnswer: the client retries a write as it retries a read.
NoAnswerResends(w) ==
    /\ proc[w].pc = "waiting"
    /\ Become(w, "cleared")
    /\ UNCHANGED <<table, account, tasks, mirror, upstream, posts, standing>>

\* A transport error, a timeout or a 5xx says nothing of what Wallbit did.
NoAnswer(w) ==
    /\ proc[w].pc = "waiting"
    /\ MarkUncertain(proc[w].d)
    /\ Become(w, "scheduling")
    /\ UNCHANGED <<account, tasks, mirror, upstream, posts, standing>>

ScheduleReconciliation(w) ==
    /\ proc[w].pc = "scheduling"
    /\ tasks' = tasks \cup {[d |-> proc[w].d, retries |-> 0]}
    /\ Finish(w)
    /\ UNCHANGED <<table, account, mirror, upstream, posts, standing>>

\* The exception of apply_async is logged and swallowed.
ScheduleFails(w) ==
    /\ BrokerMayFail
    /\ proc[w].pc = "scheduling"
    /\ Finish(w)
    /\ UNCHANGED <<table, account, tasks, mirror, upstream, posts, standing>>

\* A chest operation also inserts its Investment, after mark_executed.
RecordInvestment(w) ==
    /\ proc[w].pc = "recording"
    /\ Finish(w)
    /\ UNCHANGED <<table, account, tasks, mirror, upstream, posts, standing>>

\* The insert can fail (InvestmentLedger shows when): the catch-all handler
\* of execute_decision marks the executed decision failed.
RecordInvestmentFails(w) ==
    /\ proc[w].pc = "recording"
    /\ MarkFailed(proc[w].d)
    /\ Finish(w)
    /\ UNCHANGED <<account, tasks, mirror, upstream, posts, standing>>

-----------------------------------------------------------------------------
(* Cancelling: an unlocked read, then an unconditional save.               *)

ReadForCancel(w, d) ==
    /\ proc[w].pc = "idle"
    /\ Claimable(d)
    /\ Start(w, "cancelling", d)
    /\ UNCHANGED <<table, account, tasks, mirror, upstream, posts, standing>>

\* The copy was read unconfirmed, so mark_cancelled stamps confirmed_at.
MarkCancelled(w) ==
    LET d == proc[w].d IN
    /\ proc[w].pc = "cancelling"
    /\ \E since \in 0..Len(history) :
          row' = [row EXCEPT ![d] = [row[d] EXCEPT
                    !.status = "cancelled", !.confirmed_at = since]]
    /\ Finish(w)
    /\ UNCHANGED <<executed, account, tasks, mirror, upstream, posts, standing>>

-----------------------------------------------------------------------------
(* Reconciling an UNCERTAIN decision.                                      *)

\* Messages are acknowledged when they are taken.
StartReconcile(w, m) ==
    /\ proc[w].pc = "idle"
    /\ m \in tasks
    /\ tasks' = tasks \ {m}
    /\ IF row[m.d].status # "uncertain"
       THEN UNCHANGED proc
       ELSE proc' = [proc EXCEPT ![w] =
                [pc |-> "syncing", d |-> m.d, retries |-> m.retries,
                 since |-> row[m.d].confirmed_at, match |-> NoTx]]
    /\ UNCHANGED <<table, account, mirror, upstream, posts, standing>>

\* The newest PageLimit transactions.
Page == {history[i] : i \in {j \in 1..Len(history) : j > Len(history) - PageLimit}}

SyncForReconcile(w) ==
    /\ proc[w].pc = "syncing"
    /\ account.status = "connected"
    /\ mirror' = mirror \cup Page
    /\ Become(w, "matching")
    /\ UNCHANGED <<table, account, tasks, upstream, posts, standing>>

\* Account revoked or Wallbit unreachable: logged, and the match goes on.
SyncFails(w) ==
    /\ proc[w].pc = "syncing"
    /\ Become(w, "matching")
    /\ UNCHANGED <<table, account, tasks, mirror, upstream, posts, standing>>

ClaimedByOthers(d) == {row[e].wallbit_tx_uuid : e \in Decisions \ {d}}

\* Mutant of Candidates: symbol, side and amount are not compared.
CandidatesOfAnyOrder(d, since) ==
    {i \in 1..Len(history) :
        /\ i > since
        /\ Tool[d] # "set_card_status"
        /\ history[i] \in mirror \ ClaimedByOthers(d)}

\* Positions in history of the transactions that could be the decision's.
Candidates(d, since) ==
    {i \in 1..Len(history) :
        /\ i > since
        /\ Tool[d] # "set_card_status"
        /\ history[i] \in mirror \ ClaimedByOthers(d)
        /\ Order[history[i]] = Order[d]}

\* find_transaction_for_decision: the earliest candidate.
FindTransaction(w) ==
    /\ proc[w].pc = "matching"
    /\ \E i \in Candidates(proc[w].d, proc[w].since) :
          /\ \A j \in Candidates(proc[w].d, proc[w].since) : i <= j
          /\ proc' = [proc EXCEPT ![w].pc = "settling", ![w].match = history[i]]
    /\ UNCHANGED <<table, account, tasks, mirror, upstream, posts, standing>>

NothingFound(w) ==
    /\ proc[w].pc = "matching"
    /\ Candidates(proc[w].d, proc[w].since) = {}

RetryReconcile(w) ==
    /\ NothingFound(w)
    /\ proc[w].retries < RECONCILE_MAX_ATTEMPTS - 1
    /\ tasks' = tasks \cup {[d |-> proc[w].d, retries |-> proc[w].retries + 1]}
    /\ Finish(w)
    /\ UNCHANGED <<table, account, mirror, upstream, posts, standing>>

\* Mutant of LastAttempt: the ladder ends and nobody tells the row.
LastAttemptGivesNoVerdict(w) ==
    /\ NothingFound(w)
    /\ proc[w].retries = RECONCILE_MAX_ATTEMPTS - 1
    /\ Finish(w)
    /\ UNCHANGED <<table, account, tasks, mirror, upstream, posts, standing>>

LastAttempt(w) ==
    /\ NothingFound(w)
    /\ proc[w].retries = RECONCILE_MAX_ATTEMPTS - 1
    /\ Become(w, "giving_up")
    /\ UNCHANGED <<table, account, tasks, mirror, upstream, posts, standing>>

SettleExecuted(w) ==
    /\ proc[w].pc = "settling"
    /\ MarkExecuted(proc[w].d, proc[w].match)
    /\ Finish(w)
    /\ UNCHANGED <<account, tasks, mirror, upstream, posts, standing>>

\* "NO se ejecutó", or "no puedo verificarlo" for a card.
SettleFailed(w) ==
    /\ proc[w].pc = "giving_up"
    /\ MarkFailed(proc[w].d)
    /\ Finish(w)
    /\ UNCHANGED <<account, tasks, mirror, upstream, posts, standing>>

\* The beat sync, the sync after each attempt and the dashboard's sync.
BackgroundSync ==
    /\ account.status = "connected"
    /\ mirror' = mirror \cup Page
    /\ UNCHANGED <<table, account, proc, tasks, upstream, posts, standing>>

-----------------------------------------------------------------------------
(* Wallbit, and failures.                                                  *)

\* Wallbit fills the order, maybe long after our timeout.  A card change
\* leaves no transaction.
WallbitApplies(d) ==
    /\ request[d] = "inflight"
    /\ request' = [request EXCEPT ![d] = "applied"]
    /\ history' = IF Tool[d] = "set_card_status" THEN history ELSE Append(history, d)
    /\ UNCHANGED <<table, account, proc, tasks, mirror, posts, standing>>

WallbitRefuses(d) ==
    /\ request[d] = "inflight"
    /\ request' = [request EXCEPT ![d] = "refused"]
    /\ UNCHANGED <<table, account, proc, tasks, mirror, history, posts, standing>>

TradeInApp(t) ==
    /\ t \notin {history[i] : i \in 1..Len(history)}
    /\ history' = Append(history, t)
    /\ UNCHANGED <<table, account, proc, tasks, mirror, request, posts, standing>>

\* A deploy, the hard time limit or the OOM killer ends the worker's handler.
Crash(w) ==
    /\ CanCrash
    /\ proc[w].pc # "idle"
    /\ Finish(w)
    /\ UNCHANGED <<table, account, tasks, mirror, upstream, posts, standing>>

-----------------------------------------------------------------------------

AccountStep == Connect \/ Disconnect \/ Pause \/ Resume \/ PauseExpires

ConfirmStep(w) ==
    \/ PreflightRefuses(w) \/ PreflightPasses(w)
    \/ ResumeBot(w) \/ ResumeBotDone(w)
    \/ OrderTooSmall(w) \/ Post(w)
    \/ AnsweredOk(w) \/ AnsweredRejected(w) \/ NoAnswer(w)
    \/ ScheduleReconciliation(w) \/ ScheduleFails(w)
    \/ RecordInvestment(w) \/ RecordInvestmentFails(w)

ReconcileStep(w) ==
    \/ \E m \in tasks : StartReconcile(w, m)
    \/ SyncForReconcile(w) \/ SyncFails(w)
    \/ FindTransaction(w) \/ RetryReconcile(w) \/ LastAttempt(w)
    \/ SettleExecuted(w) \/ SettleFailed(w)

WallbitStep ==
    \/ \E d \in Decisions : WallbitApplies(d) \/ WallbitRefuses(d)
    \/ \E t \in AppTrades : TradeInApp(t)

Next ==
    \/ AccountStep
    \/ \E d \in Decisions : Propose(d)
    \/ \E w \in Workers, d \in Decisions : Claim(w, d) \/ ReadForCancel(w, d)
    \/ \E w \in Workers : ConfirmStep(w) \/ MarkCancelled(w) \/ ReconcileStep(w)
    \/ \E w \in Workers : Crash(w)
    \/ BackgroundSync
    \/ WallbitStep

Spec == Init /\ [][Next]_vars

\* A running handler keeps running (the HTTP client's timeouts bound every
\* wait) and a Celery worker keeps taking messages.  Nothing is assumed of the
\* user or of Wallbit.
Fairness ==
    \A w \in Workers : WF_vars(ConfirmStep(w) \/ MarkCancelled(w) \/ ReconcileStep(w))

FairSpec == Spec /\ Fairness

-----------------------------------------------------------------------------
(* What the protocol must guarantee.                                       *)

\* However confirmations, redeliveries, cancellations, reconciliations and
\* crashes interleave, Wallbit receives at most one write request for a
\* decision (claim_pending_decision's row lock, one attempt per write, and a
\* reconciliation that never resends).
OnePostPerDecision == \A d \in Decisions : posts[d] <= 1

\* Everyone who may still pronounce on an unanswered write of d: the worker
\* about to schedule the reconciliation, the queued message, the reconciler.
Judges(d) ==
    {w \in Workers : proc[w].pc \in Reconciling \cup {"scheduling"} /\ proc[w].d = d}
        \cup {m \in tasks : m.d = d}

\* The retry ladder of a decision never forks, so the user gets one verdict.
OneJudgePerDecision == \A d \in Decisions : Cardinality(Judges(d)) <= 1

\* When no two orders look alike, a decision recorded as executed was applied
\* by Wallbit, whether its answer or the reconciliation said so.
ExecutedMeansApplied ==
    \A d \in Decisions :
        d \in executed /\ Tool[d] # "resume" => request[d] = "applied"

\* What is said of an unanswered write is said once and, when no two orders
\* look alike, truly; and no message asks for more than RECONCILE_MAX_ATTEMPTS.
VerdictsAreSound == TypeOK /\ OneJudgePerDecision /\ ExecutedMeansApplied

\* An unanswered write is never reported as rejected: a decision goes from
\* executing to failed only if no request was sent or Wallbit refused it.
NoAnswerIsNotRejection ==
    [][\A d \in Decisions :
          row[d].status = "executing" /\ row'[d].status = "failed"
              => request[d] \in {"none", "refused"}]_vars

\* A decision confirmed while the kill switch is on is not sent unless the
\* pause ended in between (the pre-flight comes after the claim).
NoPostUnderStandingPause ==
    [][\A d \in Decisions : posts'[d] > posts[d] => d \notin standing]_vars

\* A resolved decision never goes back to a state a button can act on.
NeverActionableAgain ==
    [][\A d \in Decisions : row[d].confirmed_at # NotConfirmed
          => row'[d].confirmed_at # NotConfirmed /\ row'[d].status # "pending"]_vars

Settled(d) == row[d].status \in {"executed", "failed", "cancelled"}

\* With no crash and a broker that accepts messages, every decision that was
\* claimed, answered by Wallbit or not, gets a final status.
EveryClaimSettles ==
    \A d \in Decisions :
        row[d].status \in {"executing", "uncertain"} ~> Settled(d)

-----------------------------------------------------------------------------
(* Why the safety properties hold: the inductive invariant of the proofs.  *)

Confirmed(d) == row[d].confirmed_at # NotConfirmed

\* Nothing has happened to a decision nobody has claimed or cancelled...
OpenIsUntouched ==
    \A d \in Decisions : ~Confirmed(d) =>
        /\ row[d].status \in {"absent", "pending"}
        /\ d \notin executed
        /\ posts[d] = 0

\* ... and confirmed_at is never set without the status leaving "pending".
ConfirmedIsNotPending ==
    \A d \in Decisions : Confirmed(d) => row[d].status \notin {"absent", "pending"}

\* Only claimed decisions are worked on, each by one confirming worker.
HoldersAreConfirmed ==
    \A w \in Workers :
        proc[w].pc \in Confirming \cup Reconciling => Confirmed(proc[w].d)

OneHolder ==
    \A v, w \in Workers :
        v # w /\ proc[v].pc \in Confirming /\ proc[w].pc \in Confirming
            => proc[v].d # proc[w].d

UnsentIsUnsent ==
    \A w \in Workers : proc[w].pc \in Unsent => posts[proc[w].d] = 0

NoRequestWithoutPost ==
    \A d \in Decisions : posts[d] = 0 => request[d] = "none"

\* Once the answer is in, or given up, nobody leaves the row "executing".
AnsweredIsNotExecuting ==
    \A w \in Workers :
        proc[w].pc \in Reconciling \cup {"scheduling", "recording"}
            => row[proc[w].d].status # "executing"

\* A worker past the pre-flight saw the pause end, if its claim met one.
ClearedIsNotStanding ==
    /\ standing # {} => Paused
    /\ \A w \in Workers :
          proc[w].pc = "cleared" /\ Tool[proc[w].d] # "resume"
              => proc[w].d \notin standing

IInv ==
    /\ TypeOK
    /\ OpenIsUntouched
    /\ ConfirmedIsNotPending
    /\ HoldersAreConfirmed
    /\ OneHolder
    /\ UnsentIsUnsent
    /\ NoRequestWithoutPost
    /\ AnsweredIsNotExecuting
    /\ ClearedIsNotStanding
    /\ OnePostPerDecision

-----------------------------------------------------------------------------
(* What the documentation promises and the code does not always do.        *)

\* "cancela decisión pendiente": once cancelled a decision stays cancelled.
CancelledStaysCancelled ==
    [][\A d \in Decisions :
          row[d].status = "cancelled" => row'[d].status = "cancelled"]_vars

\* mark_failed is a "definitive failure": Wallbit did not apply the write.
FailedMeansNotApplied ==
    \A d \in Decisions :
        row[d].status = "failed" /\ d \notin executed => request[d] # "applied"

\* A transaction is linked to one decision ("isn't claimed by another").
NoTxLinkedTwice ==
    \A d, e \in Decisions :
        d # e /\ row[d].wallbit_tx_uuid # NoTx
            => row[d].wallbit_tx_uuid # row[e].wallbit_tx_uuid

\* The kill switch "desactiva toda escritura globalmente".
NoPostWhilePaused == [][Paused => posts' = posts]_vars

\* UNCERTAIN: "a reconciliation task settles it to EXECUTED or FAILED".
UncertainIsSettled ==
    \A d \in Decisions : row[d].status = "uncertain" ~> Settled(d)
=============================================================================
