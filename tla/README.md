# Formal models of tresqu-api

TLA+ models of the parts of this repository where ordering, failure,
concurrency or arithmetic on dates decide whether the system is correct, the TLC
configurations that check them on small instances, and TLAPS proofs of what
matters most.

The most important behaviour is the one that moves real money: the assistant
proposes a write to a Wallbit account, the user confirms it from a button, and
one worker sends it, once. That is where the models begin. Around it stand the
records of the user (expenses, incomes, categories, balance), the ways they come
in (chats, mails, Wallbit's transactions) and the rows they are counted against.

## The system

tresqu-api is a Django/DRF backend for a personal-finance assistant. Web
requests run in gunicorn (two processes of four threads), background work in
Celery workers over Redis, state in Postgres (READ COMMITTED, one transaction per
statement unless a handler opens one) and a database-backed cache. Users talk to
it over WhatsApp (Meta webhooks), Telegram and a web chat; language-model graphs
turn messages into tool calls; external services are Wallbit (brokerage),
Composio (Gmail), Meta and market data.

| Component | State | Operations | Hard behaviour |
|---|---|---|---|
| `wallbit` decisions (`agent_safety`, `confirmation_actions`, `executors`) | `AgentDecision` rows | preview, confirm, cancel, execute | concurrent confirmations, redelivery, crashes, writes without an answer |
| `wallbit` reconciliation (`tasks`) | the same rows, Celery messages, `WallbitTxMirror` | `reconcile_uncertain_decision` and its retry ladder | late fills, lost messages, two reconciliations at once |
| `wallbit` sync and ledger (`tasks`, `executors`, dedupe command) | `WallbitTxMirror`, `Investment` | sync a page, adopt or create an investment, record a chest operation, dedupe | executor, several syncs and the command interleave |
| `wallbit` kill switch (`views`, `write_tools`) | `WallbitAccount.status`, `kill_switch_until` | connect, disconnect, pause, resume | read-then-write views, pauses that must never get shorter |
| `wallbit` limits and risk gate (`agent_safety`, `write_tools`) | `AgentLimits`, `Investment` of the day | preview checks, risk gate | limits checked at preview, spent at confirmation |
| `wallbit` HTTP client (`client`) | the attempt counter of a request | GET with retries, one-shot writes | timeouts, 429 with `Retry-After`, 5xx on writes |
| `wallbit` portfolio (`portfolio`) | live, last-good, cooldown and lock keys of the cache | `get_live_snapshot`, `invalidate_snapshot`, P&L arithmetic | single flight, lock expiry, reconnection during a fetch |
| `whatsappbot` message task (`tasks`, `views`) | done and lock keys of the cache | webhook, `process_meta_message_async` | late acknowledgement, lost workers, Meta redelivery |
| `whatsappbot`, `telegrambot` registration (`bot`, `users/phone`, `users/views`) | `User`, chat rows, `TrackingLink`, codes in the cache, `whatsapp_user_states` of a process | shared contact, questions, widget login, login by code | two bots and one person, restarts, numbers with and without prefix |
| `agents` turns (`turn_history`, `duplicate_guard`) | a Redis sorted set, heartbeats and a lock per user; messages and replies | queue, wait, act, reply | dead turns in the queue, lapses of Redis, a retry inside a turn |
| `agents` risk profile (`risk_inference`, `effective_profile`) | `RiskProfile`, `RiskAssessment` | questionnaire, inference, combination, daily refresh | inferences that age, the row written by every read |
| `composio_integration` | `ComposioConnection`, trigger rows | OAuth start/complete/disconnect, trigger provisioning, retries | callbacks and webhooks out of order, half-failed provisioning |
| `gmailbot` | `ProcessedEmail`, the expenses made from mails | webhook, task, dedupe, replies, sweep | duplicate webhooks, two mails of one purchase, workers killed |
| `users` plans and counters | plans, `MonthlyUsage` | counters, billing periods, recount | lost increments, days a month lacks |
| `users` organizations | memberships, invitations, plans | create, invite, accept, reject, remove, end of a trial | places counted before they are taken, invitations settled twice |
| `expenses`, `income` | their rows, initial balances | CRUD, charts, summaries, insights, balance | each report computes its windows apart, over stamps or over dates, in two time zones |
| `categories` | user categories of two tables | CRUD, import, get-or-create, maintenance commands | two requests create one name, commands over lists read earlier |
| `savings`, `marketdata` | goals; cached quotes | CRUD; read-through cache | see *Not modelled* |

What makes each correct: a decision is sent at most once, is never executed
after a resolution or under a standing pause, and gets a truthful final status;
every transaction of Wallbit ends in exactly one investment; a pause is never
weakened; a limit once checked still holds when the money moves; a read retry
never becomes a write retry; one fetch of a snapshot at a time and never one of
another key; a message is processed at least once and, as far as the cache
allows, at most once; one turn of a user at a time, and one record per movement;
one expense per purchase however many mails tell of it; one account per person
and no chat in another's; one category of a name; and one number wherever the
same number is promised.

## Modules

| Module | Models | Source |
|---|---|---|
| `WallbitDecisions` | life of `AgentDecision` rows: propose, claim, pre-flight, request, answer, cancel, reconcile, crash | `wallbit/agent_safety.py`, `confirmation_actions.py`, `executors.py`, `tasks.py`, `views.py` |
| `WriteOnce` | what a decision promises: taken once, sent once or dropped | docstring of `claim_pending_decision`, write policy of the client |
| `WallbitDecisionsRefinement` | the mapping from the first to the second | |
| `WallbitDecisionsProofs` | proofs: types, the inductive invariant, one request per decision, what a step may do, the refinement, the verdicts | |
| `TradeLimits` | limits of trades and moves, daily cap, risk gate, and the rows the cap is counted from | `wallbit/agent_safety.py`, `write_tools.py`, `executors.py`, `tasks.py` |
| `InvestmentLedger` | transactions copied by syncs, rows inserted by executors, adoption, the dedupe command | `wallbit/tasks.py`, `executors.py`, `management/commands/wallbit_dedupe_investments.py` |
| `KillSwitch` | connect, disconnect, pause and resume on the account row, read by read and save by save | `wallbit/views.py`, `write_tools.py`, `executors.py` |
| `WallbitClient` | one HTTP call: attempts, backoff, `Retry-After`, classification | `wallbit/client.py` |
| `PortfolioSnapshot` | `get_live_snapshot` over the cache: copies, cool-down, single-flight lock | `wallbit/portfolio.py` |
| `MetaMessageTask` | the task of a WhatsApp message: done mark, lock, retries, redelivery | `whatsappbot/tasks.py`, `views.py` |
| `UserTurns` | the turns of a user with the assistant: queue, heartbeats, lock, history, guard against duplicates | `agents/turn_history.py`, `duplicate_guard.py`, `telegrambot/utils.py`, both bots |
| `Onboarding` | accounts, chats linked to them, codes, tracking links | `telegrambot/bot.py`, `whatsappbot/bot.py`, `users/phone.py`, `views.py`, `models.py` |
| `RiskProfile` | declared, inferred and effective risk profile | `agents/risk_inference.py`, `effective_profile.py`, `views.py` |
| `MonthlyUsage` | the monthly counters and limits of a user, billing periods, plan changes, the recount command | `users/models.py`, `signals.py`, `plan_limits.py`, `management/commands/initialize_monthly_usage.py` |
| `Organizations` | memberships and their limit, invitations, the plan gained and lost, the end of a trial | `users/models.py`, `views.py`, commands |
| `ComposioConnection` | the Gmail connection of a user: connect flow, callback, disconnection, provisioning, hourly sweep | `composio_integration/services.py`, `tasks.py`, `views.py`, `client.py`, `state_token.py` |
| `GmailConnection` | what a user may rely on of the connection: up, or visibly not, and the moves between | the states of the row in `gmailbot/models.py`, as the services leave them |
| `ComposioRefinement` | the mapping from the former to the latter | |
| `GmailPipeline` | from a Gmail webhook to one expense: webhook, task, dedupe, replies, sweep | `gmailbot/composio_handler.py`, `composio_pipeline.py`, `composio_tasks.py`, `whatsappbot/views.py` |
| `FinanceCalendar` | days, weeks, months and the windows and time axes made of them | `expenses/views.py`, `income/views.py` |
| `FinanceReports` | every chart, summary, insight and total, as functions of the rows | `expenses/views.py`, `income/views.py`, `telegrambot/tools.py`, insights |
| `FinanceRecords` | the expenses and incomes of a user, written by clients and by the agent | the same, serializers and models |
| `InitialBalance` | the balance of a user who declares how much there is | `expenses/balance.py` |
| `Categories` | the categories of a user: endpoints, get-or-create, maintenance commands | `categories/views.py`, `serializers.py`, `utils.py`, commands |

`MCWallbitDecisions` and `MCGmailPipeline` give these modules small instances. Small
components that belong together are put together in one module each, which one run
checks and one module proves about:

| Module | Parts (`focus`) | Instance | Proofs |
|---|---|---|---|
| `WallbitTraffic` | `WallbitClient` (client), `PortfolioSnapshot` (snapshot), `InvestmentLedger` (ledger) | `MCWallbitTraffic` | `WallbitTrafficProofs` |
| `Accounts` | `MonthlyUsage` (usage), `KillSwitch` (pause), `Organizations` (organization), `RiskProfile` (risk), `TradeLimits` (limit) | `MCAccounts` | `AccountsProofs` |
| `Records` | `FinanceRecords` (report), `InitialBalance` (balance), `GmailPipeline` (mail), `Categories` (category) | `MCRecords` | `RecordsProofs` |
| `Inbound` | `Onboarding` (person), `InvestmentLedger` (ledger) | `MCInbound` | `InboundProofs` |
| `Messages` | `UserTurns`, `MetaMessageTask` (no focus) | itself | `MessageProofs` |

`FiniteSums` holds the lemmas about sums of amounts over finite sets that
`AccountsProofs` and `RecordsProofs` cite; `ComposioProofs` is about a module that is
checked alone.

The constant part of a behaviour of the first four is `focus`: it says which
component the behaviour is about; the variables of the others never change in it.
The parts are not composed: one run explores each of them exhaustively, one after
the other. In `Messages` the steps of both parts interleave freely; they share no
state, and each of its two configurations gives the other part nothing to do. The
constants of a part are constants of the module that puts it together, and its
assumption (`...Assumption`) is an `ASSUME` there. A property that gathers several
promises of a component names its conjuncts, and they are listed under *Runs*.

The modules meet where the components do. `WallbitDecisions` composes the
executors, the reconciliation and the kill switch around one table; it takes
from `WallbitClient` that a write is one request that is answered, refused or
left without an answer, which `WallbitTrafficProofs` proves of the retry loop.
`InvestmentLedger` continues where `AnsweredOk` ends, `KillSwitch` opens up the
four actions that change `account` into the statements they consist of, and
`TradeLimits` says what was checked before `Propose` and counts the rows
`InvestmentLedger` makes. What `MetaMessageTask` does in its one step `Returns`
is a registration (`Onboarding`) or a turn (`UserTurns`); what a turn registers
becomes a row of `FinanceRecords` under a name that `Categories` finds or makes.
`GmailPipeline` begins where `ComposioConnection` has a working trigger.

### WallbitDecisions

A worker (`proc[w]`) is a gunicorn thread or a Celery process. One action is
one committed statement or transaction, or one half of an HTTP exchange; what a
handler does between two of them is local. The variables are:

- `row`, `executed`: the `AgentDecision` table. `confirmed_at` is abstracted to
  how many of Wallbit's transactions were already out of the reconciliation's
  look-back window when it was stamped, which is all `find_transaction_for_decision`
  uses it for. `executed` is a column kept apart because only `mark_executed`
  writes it.
- `account`: `WallbitAccount.status` and whether `kill_switch_until` is in the
  future.
- `tasks`: `reconcile_uncertain_decision` messages; `mirror`: `WallbitTxMirror`.
- `request`, `history`: Wallbit's side (external).
- `posts`: how many requests were sent for a decision, and `standing`: decisions
  claimed under a pause that has not ended since. These two only observe.

`Claim` is `claim_pending_decision` (row lock and save in one transaction);
`PreflightRefuses`/`PreflightPasses` the checks of `execute_confirmed_decision`;
`Post`, `AnsweredOk`, `AnsweredRejected`, `NoAnswer` the executors and the
exception handlers of `execute_decision`; `ReadForCancel`/`MarkCancelled` the
unlocked read and the unconditional save of `cancel_pending_decision`;
`StartReconcile` to `SettleFailed` the reconciliation task. `WallbitApplies` may
come long after `NoAnswer`.

### InvestmentLedger

`history` and `settled` are Wallbit's; `mirror` is `WallbitTxMirror`; `ledger`
the `Investment` table. `exec[d]` walks through `execute_deposit_chest`
(request, `mark_executed`, look-up of the mirror, insert); `sync[s]` through one
run of `run_wallbit_sync` (fetch a page, and for each transaction upsert,
already-linked test, search of an unlinked row, adopt or create); `doomed` is
what the dedupe command has listed and not yet deleted. Kind, action and amount
of a row are one value, `Order`. The one-to-one constraint of `wallbit_tx`
decides the inserts and saves that lose a race. Withdrawals follow the deposits'
path; categories of legacy rows and the status of a mirrored row are left out.

### KillSwitch

Time is counted in hours. A worker reads the account row (`ReadForPause`, ...),
computes, and saves (`SavePause`, ...) in another step, as the views do;
`SaveConfirmed` is the chat's resume, executed after a confirmation. The year of
a revoked account is `RevokedHours`, longer than any pause a request may ask for
and than the horizon.

### WallbitClient

`pc[c]` is where a call stands in `_request`, `attempt[c]` its loop variable.
Wallbit's decision (`Applies`, `Refuses`, `Breaks`, `AppliesLate`) and what the
caller hears of it (`Returned`, `RateLimited`, `ServerError`, `TransportError`)
are separate steps, so an answer can be lost after its effect. 3xx answers,
which the client returns as successes, are left out.

### PortfolioSnapshot

One action per cache call. A copy is the version of the API key it was fetched
with, which is all the properties tell apart. Entries expire at any time, except
that a live holder's lock expires only if `LockMayExpire`; a thread may die
anywhere. A broken cache backend and the arithmetic on the copy are left out.

### MetaMessageTask

`task[t]` is one delivery of the message: queued, running with an age in
minutes, or settled. `Tick` ages running tasks and the lock together, so that
the hard limit of five minutes and the lock's six are compared as they are in
the code. `Returns` stands for every way `_process_single_meta_message` comes
back without raising, failures included. The webhook that cannot reach the
broker processes the message in line, with neither lock nor mark.

### UserTurns

A turn is the handler of one message. `SaveMessage` gives it its id; `Enqueue` to
`Recheck` are the steps of `user_turn`: the sorted set (`queue`), the heartbeat
(`alive`), the lock, the second look at the queue under the lock; `GoesOnAnyway`
is the deadline or a Redis error, after which the code prefers an unlocked turn
to none. `LoadHistory` reads what is unanswered and earlier, `Register` is a tool
of the agent behind `TurnCreations`, and `Leave` releases. What the language
model does is a choice: it may register anything it sees unanswered, once for
each wording. `missed` only observes which messages were saved but not yet queued
when a later turn entered.

### Onboarding

An account is its set of external ids, its number in the form it was saved, and
whether a tracking link referred it. A handler looks up in one step and writes in
the next ones (`CreateUser`, `IncrementRegistrations`, `CompleteUser`,
`LinkChat`). `state[q]` is the dictionary `whatsapp_user_states` of process `q`,
which a `Restart` empties. `PhoneVariants` and `Normalize` are the two forms of a
Mexican number. `disturbed` observes overlaps, deaths and the two situations of
the table of unkept properties.

### RiskProfile

The scores are translated bracket by bracket, in integers (squares instead of
roots, so no rounding but the last one). `ReadProfile`/`RefreshProfile`,
`CombineProfile` and `SyncProfileRow` are the statements of
`get_effective_profile`; `StartPost`/`SavePost`/`AddAssessment` the dashboard's
endpoint, `Persist` the questionnaire, `RefreshStale` the daily task.

### TradeLimits

`CheckLimits` is a preview's reading of `AgentLimits` and of the `Investment` rows
of the last `WINDOW` hours; `CreatePending` the risk gate and the saved decision;
then a decision is confirmed, applied, and recorded by the executor
(`RecordInvestment`) or by the sync (`Backfill`), which does not know yet what an
unsettled sale brings. `alone` observes that no other operation was between its
preview and its row.

### MonthlyUsage

Dates are pairs of a month and a day of a calendar given as a constant, so that
short months are a matter of the instance. `AnniversaryPeriod` and
`CalendarMonthPeriod` are the arithmetic of `calculate_anniversary_period` and
`calculate_calendar_month_period`, clamping included. A writer is a request
thread between the check (`CanAddExpense`), the insert, and the two halves of the
signal that increments (`ReadForIncrement`, `SaveIncrement`) or decrements the
counter; `CountRecords`/`SaveRecount` are the two halves of the recount
command. `WithRow` creates the row of the current period where the code calls
`get_or_create_current`; the command's dry run creates it too, although it
announces that nothing is changed. `disturbed` records which of the things
a request does not expect have happened (another request at work, a death,
midnight, a paid plan); the properties of quiet histories are stated with it. Expenses stand for incomes as well,
which have their own counter and the same code.

### Organizations

A request is a record of where it stands and of the rows it read: the place is
counted (`AddChecks`), the membership inserted (`CreateMembership`), the plan
saved with the end date read at the start (`GivePlan`), the invitation saved
(`SaveAccepted`), each in a statement of its own, and a worker may die between
any two. `CheckExpiredTrials` and `DowngradeUsers` are the commands.

### ComposioConnection

One row, one user. `account` and `triggers` are Composio's; accounts are numbered
in the order they are created, which is what "the newest active account" needs.
`connect`, `callback`, `disconnect`, `sweep` and `worker[w]` say where each
handler stands between its transactions and its calls. `start_connect_flow` is
`ResetRow`, one of `LinkNew`, `LinkAlreadyConnected` and `LinkFails`, and
`PersistAccount` or the recovery (`FindActive`, `RecoverRow`);
`complete_connect_flow` is `CallbackSucceeds` (which spends the nonce),
`VerifyAccount`, `ActivateRow`. Only `disconnect` holds the row lock across
calls, so the saves of the others wait while it does (`Unlocked`); the tasks
read the row without asking for it. `landed` counts callbacks that changed the
row and `raced` records that one handler began while another was at work; both
only observe. `ComposioRefinement` reads the row, the lock and Composio's triggers
together as the phase of `GmailConnection`, whose moves are those of the services:
more than the diagram of `docs/COMPOSIO_ARCHITECTURE.md` (section 7) lists, since a
user may begin anew, disconnect, or come back from an older flow wherever the
connection is. What the diagram forbids is what matters: an active connection that
has its trigger keeps it until the user acts or provisioning fails visibly, a flow
lands once, and only a failed provisioning is retried without the user. The life of
a state token (ten minutes, the same as its nonce's) and the deletion of users are
left out.

### GmailPipeline

One `ProcessedEmail` row per mail. A webhook creates it, overwrites `ai_response`
with the raw mail (`SaveRaw`) and enqueues; the task takes the row's lock
(`LockRow`), reads the mail, takes the user's lock (`Detect`) and either marks
the mail a duplicate of another one or registers the expense (`Commit`), after
the notification was sent. `Raises`, `Killed` and `MarkError` are its failures,
`ReprocessStale` the sweep every five minutes. `Reference` says which mails name
one transaction. What the model reads in a mail is a constant of the mail.
`made`, `told` and `failed` only observe.

### FinanceCalendar, FinanceReports, FinanceRecords

`FinanceCalendar` translates `_get_date_range`, the conversion to UTC and the
time axes; lengths of days, weeks, months and years are constants, so that the
boundaries lie close together. `FinanceReports` holds one operator per endpoint
or tool: what it selects (by date, by stamp, or by the date with the stamp as a
substitute), how it groups, which label each group gets, and what it adds up.
`FinanceRecords` has the writers: the serializers accept any stamp and date, the
agent's tools stamp with the present and always date, a deleted category leaves
its rows without one. The properties compare the reports with each other at
every reachable set of rows.

### InitialBalance

`Declare` is `set_initial_balance`, `Record` and `Delete` the movements;
`ComputeBalance` is `compute_balance` with the anchor it finds, the days it
carries over and the order of creation within a day. `wallet` is the money the
user has, kept by addition and subtraction: the reference the code's answer is
compared with.

### Categories

A name is a key (what `iexact` compares) and a spelling (what the unique
constraint compares). Endpoints validate in one step and write in another;
`Get`/`Insert`/`Fallback`/`LookAgain`/`SaveMovement` are the agent's or a client's
get-or-create with its exceptions; the commands work on lists read earlier. The
tables of expenses and of incomes have code of their own, so that every endpoint
appears twice and a behaviour is about one of the tables.

## Runs

Every instance is small because the races involve two actors and one or two
records.

| Run | Instance | Properties and what they gather |
|---|---|---|
| `decisions` | 2 workers, a trade and a chat resume, one foreign transaction, 4 attempts, crashes, broker failures | `OnePostPerDecision`; `VerdictsAreSound` (`TypeOK`, `ExecutedMeansApplied`, `OneJudgePerDecision`); `NoAnswerIsNotRejection`; `NoPostUnderStandingPause`; `NeverActionableAgain`; `ImplementsWriteOnce` |
| `decisions_liveness` | 2 workers, a chest deposit and a card change, no crash, working broker | `EveryClaimSettles` |
| `cancel_race` | 2 workers, 1 decision | expected violation, see Findings |
| `wallbit_traffic` | client: a write, a read and a fail-fast read, 2 attempts; snapshot: 2 requests, crashes, one reconnection; ledger: 1 deposit and 1 alike transaction, 2 recurring syncs, dedupe | `WriteAppliedOnce`, `FailuresAreDefinitive`, `BlockIsRespected`, `EveryCallReturns`; `SnapshotIsSound` (`SingleFlight`, `NoFetchUnderStandingCooldown`), `EveryRequestAnswered`; `EveryTransactionRecorded` |
| `meta_message` | `Messages`: 2 deliveries, 1 retry, 1 lost worker, broker that may fail | `DeliveriesAreSerial` (`OneAtATime`: no parallel processing unless a worker was lost), `EveryDeliverySettles` |
| `composio` | 2 connect flows, 1 worker, 1 retry | `ConnectionIsTruthful` (one callback lands per flow; without overlaps an active row has a consented account and its own trigger); `ConnectionIsKept` (`DownStaysDown`; `ImplementsConnection`: without overlaps every step is a move of `GmailConnection` or none); `ActivationSettles` |
| `accounts` | see Bounds | `UsageIsCounted`, `PeriodsTile`; `PausesHold` (`NotWeakened`, `RevokedStaysPaused`); `OvershootIsBounded`, `MembershipsHold` (`AdministratorKept`, `NotReopened`); `CapIsKept` (`CapKept`), `CapacityCounts` (`ScoreKept`); `CapHoldsOneByOne`; `AccountsTypeOK` |
| `records` | see Bounds | `ReportedChartsAgree` (`WindowsTile`, `SameTotalEverywhere`, `IncomeChartsAddUp`, `PunctualExpensesAddUp`), `ReportedSummariesAgree` (`ComparisonMeetsTheSummary`, `IncomeSummaryAddsUp`, `InsightsMatchTotals`, `UsageMeetsTotals`); `BalanceIsSound` (`BalanceIsTheWallet`, `ExplicitMonthIsTheDefault`); `PurchasesRecordedOnce` (`OncePerEmail`, `OneExpensePerReference`); `CategoriesHold` (`NameIsNew`, `FiledAsAsked`, `NamesKept`) |
| `inbound` | see Bounds | `LedgerIsSound` (`LinkedRowsMatch`), `DedupeKeepsTheRecord` (`RecordKept`); `PeopleKeepOneAccount` (`ChatsStayPersonal`, `OneAccount`, `RegistrationsCounted`) |
| `gmail_liveness` | 2 mails, 1 task, 1 webhook at a time, 2 deliveries, 1 retry, 1 kill | `NoMailStaysPending` |
| `user_turns` | `Messages`: 3 turns, 1 wording, 1 fault | `TurnsAreSerial` (`OneTurnAtATime`), `RecordedOnce`, `EveryTurnAnswers` |

Each module's `TypeOK` is a conjunct of one of its properties.

Bounds, Wallbit. `RECONCILE_MAX_ATTEMPTS` is 4 as in the code (2 in
`decisions_liveness`), `PageLimit` 1 to 3 (50 in the code; the smaller page makes
transactions fall off it), `MAX_ATTEMPTS` 2 (4 in the code: one retry reaches every
branch of the loop, and the proofs hold for all). `MaxKey` 2 is one reconnection. The ledger of `inbound` has one deposit, two
transactions of the app, one of them a trade of another order, and two syncs with
a page of two: a transaction can be off the page, alike another, or adopted twice.
`TradeLimits` has two decisions and one trade of the app, amounts 1 and 2, two
settings, a window of one hour and a horizon of two, so that a row can leave the
window; `KillSwitch` one worker, pauses of 1 and 3 hours, `RevokedHours` 6 and a
horizon of 4.

Bounds, messages. `MaxRetries` 1 (3 in the code: one retry reaches every branch),
`RunLimit` and `LockLife` 5 and 6 minutes as in the code. `GmailPipeline` has two
mails with one reference, two tasks (two locks can be contended), one webhook at a
time, three deliveries, one retry and one kill: a mail delivered again while the
other is at work, after it, or after a failure. `UserTurns` has three turns,
because a turn that dies must have one behind it and one ahead. `Onboarding` has
two people, who may answer for each other; one thread of the Telegram webhook and
one WhatsApp process are two handlers, enough for every overlap of the two bots;
two accounts let one too many appear.

Bounds, accounts. `MonthlyUsage` runs through months of 2, 2, 3 and 2 days with
two writers and one disturbance; `MaxExpenses` is the basic plan's limit, 2 here,
and `MaxCount` one more, so that a record or a counter beyond the limit is seen.
`Organizations` has four users, one organization with two places, one invitation
and two requests at once. `RiskProfile` has four records to move between (the
same with other holdings, with more accumulated, with a month that stands out)
and two assessments. `Categories` begins with three tables older versions may
have left, holds three categories and one movement, and two requests overlap.

Bounds, dates. A day has two hours, a week three days, a month four to six days,
the user lives one hour west of UTC. The clock shows hours 30 and 31, the
user's days 14 and 15, over a midnight: 14 is the first day of a month and the last
of a week, 15 the first of a week, and at hour 30 UTC is in day 15 already. Rows are
stamped at hours 20 (day 9, the last of a year; day 10 and the next year in UTC), 28
(day 13, the last of the month before; day 14 and the month itself in UTC) and 31. Two rows are enough for a sum, a tie and two
categories of one name. `ReportedChartsAgree` compares all windows and time axes
at each of these moments. `InitialBalance` has three movements in two currencies
and a carry-over of two days (the code's is longer than a day, shorter than a
month, as here).

In `ComposioConnection` `MaxAccounts` 2 lets a second flow replace the first
account, `MaxQueued` 1 lets two messages of different age wait, and `MaxRetries`
is 1 (5 in the code); `MaxTransients` 1 keeps every message below its last retry,
as `ActivationSettles` needs.

`decisions`, `decisions_liveness`, `cancel_race` and `composio` run with deadlock
checking. The other runs stop when their bounds are used up: calls, deliveries,
turns or rows end, and then nothing is left to do.

Symmetry is used only where no liveness is checked.

Fairness (`FairSpec`, `TrafficSpec`): a running handler keeps running, because the
HTTP client's timeouts bound every wait, and an idle Celery worker takes a waiting
message. Nothing is assumed of the user or of Wallbit. In `InvestmentLedger` the
beat starts syncs again and again and each one ends; in `WallbitClient` the
timeout given to every request and the bounded sleeps let each call go on; in
`PortfolioSnapshot` threads run and, because the waiting loop compares a
monotonic clock with a deadline, `WaitTimesOut` is taken if it is possible again
and again; in `MetaMessageTask` workers take and run what is queued; in
`ComposioConnection` too, and a disconnection goes on to the end of its
transaction. In `GmailPipeline` workers take what is queued whenever the row's
lock is free again and again, web requests end, and the beat's sweep comes round;
a kill is never fair, only bounded. In `UserTurns` handlers run, a waiting turn
polls twice a second and so meets a free lock (strong fairness of `TakeLock`), and
Redis lets expire what nobody renews.

## Proofs

Every theorem holds for all values of the constants that satisfy the named
assumptions of the modules (TLC evaluates those on each run) and the hypotheses it
states. The argument is always the same: an invariant that says what each process
remembers and why it is still true, preserved by every action (one lemma for each or
for each family), and the property as its consequence; an action property is shown of
every step from a state with the invariant. TLC checked each invariant on the runs'
instances before it was proved. Where a component is part of a module with a `focus`,
the invariant is proved of the component's own specification, and a lemma
(`PauseSteps`, `RiskSteps`, `MailSteps`, `BalanceSteps` and others) says that a
behaviour about a part is a behaviour of that part.

### `WallbitDecisionsProofs`

One request per decision is not inductive by itself; `IInv` adds what makes it so: a
decision nobody confirmed is untouched (`OpenIsUntouched`), a confirmed one is not
pending (`ConfirmedIsNotPending`), every worker in a confirmation holds a confirmed
decision (`HoldersAreConfirmed`) that no other confirming worker holds
(`OneHolder`), and a worker before its request holds a decision never sent
(`UnsentIsUnsent`). The claim establishes the last three because it finds
`confirmed_at` null. `AnsweredIsNotExecuting`, `NoRequestWithoutPost` and
`ClearedIsNotStanding` carry the action properties. The refinement maps a decision to
*sent* once a request was posted, *open* while `confirmed_at` is null, *taken* while a
worker holds it unsent, *closed* otherwise; every action is shown to be a step of
`WriteOnce` or a stutter.

`VerdictsSound` rests on two more invariants. `OneVerdict`: whoever judges an
unanswered write, or may come to, is alone with it, because a confirmation leaves at
most one message, and each attempt takes its message away before it leaves the next.
`FoundIsApplied`: what a reconciliation has found, or a row says was executed, is a
transaction of Wallbit's. Its hypothesis is `DistinctOrders`, that no two orders look
alike: `find_transaction_for_decision` matches by kind, symbol and amount, and takes
one of two alike orders for the other. `OneJudge` needs no such hypothesis.

### `WallbitTrafficProofs`

The client, for any number of calls and attempts: a write is applied at most once
(`AppliedOnce`), a write reported as failed was refused and will not be applied later
(`FailureIsDefinitive`), and a long block is respected (`BlocksRespected`). The
counters carry it: requests sent equal the loop variable (`Counted`), an application
needs a request not answered before (`AppliedIsSent`), and a write never gets past its
first attempt (`WriteHasOneAttempt`), because only a call with attempts left sleeps
(`SleeperHasAttempts`).

The ledger: a row and its transaction are of one order (`LedgerSound`), because an
executor links only its own transaction and inserts its row once
(`ExecutorsLinkTheirOwn`) and a sync about to adopt a row compared the orders
(`SyncsHaveWork`; order and row never change afterwards, whatever else happens to the
row). `RecordIsKept` needs `DoomedHaveKeepers`: for each row that the dedupe command
has listed there is a linked row of the same order that it has not listed, and it
stays, since rows are never unlinked.

The snapshot: whoever is between taking the lock and giving it back has it, alone
(`HoldersHaveTheLock`), and a request that found a cool-down that still stands is at
none of the steps that lead to a call (`ChilledStayAway`). The hypothesis is in the
instance (`LockMayExpire <- FALSE`): no fetch outlasts the 30 seconds of the lock.
Requests may die anywhere.

### `MessageProofs`

Turns: as long as Redis lets nothing lapse, whoever is inside has the lock and its
keep-alive task runs (`HoldersAreRenewed`), so `TurnsSerial`. That a movement is
recorded once (`MovementRecordedOnce`) needs the queue as well: without faults,
whoever waits is in the queue with a heartbeat (`PlaceIsKept`), so whoever is inside
has only ended turns before it, but for messages queued too late (`EarlierAreDone`),
and sees none of theirs unanswered (`SeesOnlyMissed`). Its hypothesis is `OneWording`:
the guard against duplicates compares what the model worded.

Deliveries: an execution past `cache.add` owns the lock, and the minutes the lock has
left, with those the execution has run, are no fewer than the lock's life
(`OwnersHaveTime`). As the hard limit is below it (`LockAssumption`, which is
`process_meta_message_async`'s own arithmetic), the limit ends the execution before
the lock expires.

### `ComposioProofs`

A callback spends its nonce before it changes the row, so a flow lands once
(`NonceSpentOnce`). Without overlaps one handler is at work (`Alone`) and the row is
what that handler made or found (`WorkFitsTheRow`); with it, an active row or one
whose provisioning failed has an account its user consented to
(`ProvisionedWasConsented`), and an active row with nothing queued has its trigger
(`ActiveIsProvisioned`). The last one needs `FewTransients`, that transient errors do
not use up the retries: otherwise the row stays active without a trigger, see
*Findings*. `DownUntilTheUserActs` follows from the same invariant, without it.

`DiagramIsImplemented` is the second refinement: for any number of flows, workers,
messages and retries, each step that begins over no other handler makes a move of
`GmailConnection` or none. It needs one more invariant, `RowIsMade`: whoever is at work
on the row, or may come back to it from Google, has found it made. `DiagramStep` goes
through the handlers: `WorkFitsTheRow` says from which phase each of them moves,
`Alone` that the lock is free for a worker, `NonceSpentOnce` that a flow has not landed
before. `ConnectionKept` gathers both.

### `AccountsProofs`

Counters, for every calendar whose months have days: `UsageCounted` from an invariant
that says what a request between two statements has read, and by how much the counter
may be off meanwhile (`MonthsAreBounded`, `MonthsAreCounted`: a record inserted and
not counted yet, or deleted and not discounted yet). Lemmas about
`AnniversaryPeriod` show that a period contains the day it is computed for and that
the next one begins the day after it ends, if the billing day is in every month.

Pauses: `PausesKept` for one request at a time (`PauseAssumption`) and a horizon
within a revocation's year. A request that pauses read an end no earlier than the
present one, because only a connection clears it meanwhile (`RequestsKnowTheRow`).

Organizations, for any number of users, organizations, invitations and workers, one
at least: `OvershootBounded` counts seats. Members and the requests that have
counted the members and not yet added one are together at most one fewer than the
limit and the workers (`SeatsCounted`): a request that counts finds a free place, and
the others hold at most one each. That a membership has an organization with an
administrator (`EveryoneIsLed`), and that nobody works on an organization before it
has (`FoundersAreAlone`), give `MembershipsKept`.

The risk profile, for any profiles to move between. `InferenceCaps` needs of a
request that combines only that one who has an inference, fresh or old, carries it
(`JobIsSound`). `CapacityNeverCostsScore` is arithmetic: each bracket is a chain of
conditions, the place of a share in it only rises with the share (`PlaceRises`), so
the appetite of the holdings (`AppetiteRises`), the buffer (`BufferRises`), the
weighted sum and its rounding to even (`RoundingKeepsOrder`) do too. The savings and
the stabilities, which depend on incomes and expenses alone, only have to be points.

The daily cap. `CapKeptOneByOne` rests on two parts of `CapInv`: an operation that is
recorded has a row of its amount, no older than its application (`RowsAreMade`), and
an operation under way that met no other is alone, and fits under its cap with what
was applied in the window (`AloneWithinCap`). What the preview adds up over rows is
then no less than what was applied (`RowsCoverTheApplied`), because each applied
operation has a row of its own; and that sum only falls as hours pass (`TotalFalls`).

`AccountTypesKept` puts the types of the five parts together, with any number of
requests in each. Its hypotheses are that there is a worker and an hour to live.

### `InboundProofs`

`ChatInv` has three layers: whatever happens, an account is one person's and what a
handler is about to write concerns its own person (`AccountsFit`, `ChatsFit`,
`WritersFit`); unless handlers overlapped or died in a way `disturbed` records, a
process asks its questions only of people without an account, who then get one
(`EachHasOne`); and the counter of a link lags at most by the account just made
(`AllCounted`). Looking up by number finds every account of a person, with and
without the prefix (`ByPhoneFinds`).

### `RecordsProofs`

Mails. The row's lock is held from its reading to the commit, and the user's lock
while duplicates are looked for (`OneAtATime`), so what a task remembers is still so
(`FitsTheRow`) and no other mail of the reference has an expense when it commits
(`IsNew`). `MadeAreDone`: a mail with an expense is settled until an attempt raises,
and then nobody takes it up again. `WebhooksPay` bounds the number of expenses by that
of webhooks, which is what the type of the counter needs.

Categories. `CategoriesKept` rests on what a request knows when it writes. Every
name the endpoints and the agent write is normalised, so of the name a request is
about to insert there are only rows spelled alike (`Unrivalled`), and those the unique
constraint refuses. Until a category is deleted or renamed, what the agent found is
still there (`StillFound`), and each row the cleaning command will delete has a row
of its name that stays, a predefined one if one was (`StillDouble`, with the lemma
`KeepIsBest` about the row the command keeps). The hypothesis is `OneOtros`: no table
to begin with spells "Otros" another way, since the fallback looks it up by its exact
name (`categories/utils.py:222-225`) and would make a second one.

The balance. `BalanceInv` says what the wallet holds: nothing, or the amount of the
newest declaration of its currency with what came in less what went out since
(`IsCounted`). A movement counts when it was recorded after the declaration and is
not dated before it; movements are numbered as time passes and none is dated later
than it was recorded (`RowsFit`), so the code's comparison of dates, instants and
numbers (`_after_anchor`) selects exactly these (`AfterTheAnchor`), and of the
declarations in the period or in the carried days it takes that newest one
(`AnchorsOfThePeriod`). Both ways of asking for the month come to the same interval
(`BalanceAsked`). Only `BalanceAssumption` is needed: a month has begun before the
first hour, and nothing is dated ahead.

Reports. `ReportInv` is small: the rows have their types, are finitely many, and none
is stamped ahead of the clock. Everything else is a lemma about the operators of
`FinanceReports`, for any such rows and any hour; `ReportInv` implies `ChartsAgree`
(`ChartsDoAgree`) and `SummariesAgree` (`SummariesDoAgree`).

- Instants and days. An instant is in a day's bounds exactly if its local day is that
  day (`DayBounds`), so a row is in a window exactly if its effective date is one of
  the window's days (`InTheWindow`), in any time zone. `WindowsDoTile` then only needs
  that the earlier window ends the day before the later one begins: weeks by
  arithmetic (`WeekBefore`), months and years because their starts are found
  (`LivedMonth`, `LivedYear`).
- Axes. The period of an instant is one of the axis of its window (`OnTheAxis`). It is
  shown once if no two periods have one label. Labels leave the year out ("31/12"), so
  this has to be shown for lines (`LineLabels`): days of one label are a whole number of
  years apart (`YearsApart`), no line by day is that long, and no line by week has two
  week starts that far apart, as no year is a whole number of weeks. Stacked charts
  may be asked for a group and a range of their own; they are under the condition
  `LabelsAreDistinct`, which gives the same by counting (`DistinctLabels`).
- Sums. Totals by any key add up to the total (`TotalsByKey`, `GroupsAddUp`), two parts
  to the whole (`TotalOfBoth`), and a part comes to no more (`TotalOfPart`). Every
  report is brought to that form: slices by category (`AllSlices`), the agent's totals
  by currency (`AgentAddsUp`), points by period (`LineAddsUp`), bars by name and period
  (`StackOfWindow`), names of groups of one name (`IncomesSummed`, a sum of sums).
  What is left is that the reports choose the same rows, which is where "punctual" and
  "all rows have a date" are used, and that nothing is stamped in the future, which
  `ComparisonMeets` needs of the summary without an end.

The assumptions are about the calendar. `YearsAssumption`: a year is longer than a week
and than the 60 days a line draws by day, and no years short enough to be drawn by week
are a whole number of weeks (365 and 366 are not multiples of 7, and two years exceed
365 days and a week). `HorizonAssumption`: the calendar reaches back to the first week a
report of the days lived looks at, and on to a next year. The calendar of the code has no
beginning that matters and no end; the instance is what is finite, and TLC evaluates
both assumptions on it.

### `FiniteSums`

The sums of the models are `SumFunction` of the community modules, a fold in an order
that `CHOOSE` picks. The lemmas say what does not depend on that order: any element
may be taken out first (`SumTakesOut`), an element may be added (`SumWith`), a part
of natural amounts comes to no more than all (`SumOfLess`), amounts matched one to one
come to the same (`SumOfMatches`), two sets with nothing in common add up
(`SumOfUnion`), and a set may be summed key by key (`SumOfSums`). The induction is on
the least subset that would be a counterexample (`SmallestSet`), so it needs no induction over data.

### What stays with TLC

- Liveness under fairness, and everything that needs `ENABLED`, is out of the
  prover's reach: `EveryClaimSettles`, `EveryCallReturns`, `EveryDeliverySettles`,
  `EveryRequestAnswered`, `EveryTransactionRecorded`, `ActivationSettles`,
  `NoMailStaysPending`, `EveryTurnAnswers`.
- `CancelledStaysCancelled` is violated.

## Findings

`cancel_race` is a run that TLC ends with a counterexample: a cancellation reads
without the lock and saves over a claim; the user is told "cancelled" and the
order goes out.

The modules state further properties that the documentation suggests and the
code does not keep; no run checks them, and each falls to TLC when it is added
to the configuration named here. For an instanced part (in brackets, and
`MetaMessageTask` in `Messages`) the property is taken from the instance, as
`focus = "person" => Chats!OneAccountAlways` or `Delivery!NeverInParallel`.

Wallbit and messages:

| Property | Configuration | Why it fails |
|---|---|---|
| `FailedMeansNotApplied` | `Decisions.cfg` | Wallbit may apply an order after the fourth attempt declared it not executed |
| `UncertainIsSettled` | `DecisionsLiveness.cfg` with `BrokerMayFail = TRUE` | the broker refuses the one reconciliation message, though a comment counts on the periodic sync |
| `NoTxLinkedTwice` | `Decisions.cfg` with `Tool <- TwoTrades`, `Order <- AllAlike` | two reconciliations of alike orders read the claimed uuids before either writes |
| `NoPostWhilePaused` | `Decisions.cfg` | a pause between the pre-flight and the request does not stop it |
| `DailyCapHolds` | `Accounts.cfg` (limit) | a preview does not count what is proposed and not recorded, and the confirmation checks nothing again |
| `MovesAreCapped` | `Accounts.cfg` (limit) | `move_funds` leaves no `Investment`, so moves are never counted |
| `SalesAreCapped` | `Accounts.cfg` (limit) | the sync puts 0 down for a sale that is not settled |
| `SentWithinLimits` | `Accounts.cfg` (limit) | limits lowered between preview and confirmation do not stop the operation |
| `FailedMeansRefused` | `Inbound.cfg` (ledger) | a sync links the transaction first, the executor's insert violates the one-to-one link, and a deposit Wallbit applied is marked failed, "rejected by Wallbit" |
| `NoDuplicateInvestment` | `Inbound.cfg` (ledger) | the sync creates a row for a deposit whose executor is about to insert one |
| `SettledTradesHaveShares` | `Inbound.cfg` (ledger) | a trade mirrored while pending never gets its shares |
| `DedupeRemovesOnlyUnlinked` | `Inbound.cfg` (ledger) | a listed row is adopted before it is deleted |
| `PausesHold` | `Accounts.cfg` (pause) with two workers | two pauses compare with one old value and the shorter is saved last |
| `SnapshotIsSound` | `WallbitTraffic.cfg` with `LockMayExpire <- TRUE` | a fetch may outlast the lock's 30 seconds |
| `NoFetchAfterRateLimit` | `WallbitTraffic.cfg` (snapshot) | the cool-down is not read again under the lock |
| `FreshCopyIsOfTheConnectedKey` | `WallbitTraffic.cfg` (snapshot) | a fetch begun with the old key is stored after the invalidation |
| `NeverInParallel` | `MetaMessage.cfg` | a redelivered task resumes its lock with the minutes it has left |
| `NotSwallowed` | `MetaMessage.cfg` | the lock expires between the add and the get, and a task gives way to itself |
| `NoEffectAfterDone` | `MetaMessage.cfg` | the done mark is read before the lock is taken |
| `DoneMeansHandled` | `MetaMessage.cfg` | an exception in the handler comes back as a value the task ignores: the message is marked done and never processed |
| `RecordedOnceAlways` | `UserTurns.cfg` | a message is saved before it is queued; a later turn that enters in between sees it unanswered and registers it too |
| `RecordedOnce` | `UserTurns.cfg` with `Wordings = {n1, n2}` | a retry of the agent that words the movement otherwise passes the guard |

Accounts:

| Property | Configuration | Why it fails |
|---|---|---|
| `LimitAlwaysHolds` | `Accounts.cfg` (usage) | requests checked together all pass, and an increment may be lost |
| `EveryPeriodContainsToday` | `Accounts.cfg` (usage) | a billing day that a month lacks is clamped before a month is added or subtracted, so the last days of a period fall out of it |
| `LimitHolds` | `Accounts.cfg` (organization) | two requests count the last place before either takes it |
| `MembersAreBusiness` | `Accounts.cfg` (organization) | a worker dies between membership and plan; the end of a trial takes the plan of a member |
| `LeaversAreBasic` | `Accounts.cfg` (organization) | deleting an organization leaves its members their plan |
| `SettledBringsNobody` | `Accounts.cfg` (organization) | an invitation rejected while it is being accepted still brings the member in |
| `BonusMonthIsHarmless` | `Accounts.cfg` (risk) | a bonus raises the mean, and ordinary months then count as bad ones (`agents/risk_inference.py:13-15` says otherwise) |
| `DeclaredIsChosen` | `Accounts.cfg` (risk) | a partial update declares the tolerance that the last read wrote into the row (`agents/views.py:56-85`) |
| `RowIsBacked` | `Accounts.cfg` (risk) | a read that began before a declaration writes the row after it |
| `OneAccountAlways` | `Inbound.cfg` (person) | the questions of one process outlive the account another handler created |
| `RegisteredIsServed` | `Inbound.cfg` (person) | `whatsapp_user_states` is kept per process (`whatsappbot/bot.py:205`): the others go on asking |
| `CountedAlways` | `Inbound.cfg` (person) | the counter of a tracking link is read, incremented and saved |
| `DisconnectedStaysDisconnected` | `Composio.cfg` | provisioning read the row active; the user disconnects; the refused trigger is saved as a failure over the disconnected row (`composio_integration/tasks.py:62`), which the hourly sweep makes active again (`tasks.py:116`; `docs/COMPOSIO_ARCHITECTURE.md:207`) |
| `ActivationSettles` | `Composio.cfg` with `MaxTransients = 2` | when the retries are used up nothing is saved: active, no trigger |

Records:

| Property | Configuration | Why it fails |
|---|---|---|
| `SummaryAddsUp` | `Records.cfg` (report) | `by_category` goes by name: of two groups of one name the last one stays |
| `CustomBarsAreFiltered` | `Records.cfg` (report) | the bar chart reads a custom range and never applies it |
| `ExpenseLinesAddUp` | `Records.cfg` (report) | expenses are chosen by date and drawn by stamp |
| `StackedBarsAddUp` | `Records.cfg` (report) | labels leave the year out, and two points of one label show the same rows |
| `WeeklyIsServed` | `Records.cfg` (report) | an expense whose stamp, in UTC, lies in no week of the month ends in an error |
| `IncomeBarsMatchDonut` | `Records.cfg` (report) | the bars and the donut choose incomes differently |
| `IncomeTotalsAgree` | `Records.cfg` (report) | the agent goes by `received_at`, the dashboard by the stamp (`telegrambot/tools.py:877-881` promises one criterion) |
| `AverageCountsPreviousMonth` | `Records.cfg` (report) | the average leaves out the month it is compared with |
| `ChartsNameAlike` | `Records.cfg` (report) | the donut does not look at `category_str`, the stacked chart does |
| `ClientFilesAsAsked` | `Records.cfg` (category) | a client's get-or-create that loses a race files under "Otros" |
| `DeletedStaysDeleted` | `Records.cfg` (category) | renaming saves the row it read, and so inserts a deleted one again |
| `CleaningKeepsCategories` | `Records.cfg` (category) | a movement filed after the references were moved loses its category |
| `CommandCanAssign` | `Records.cfg` (category) | a category of the user has the name of a predefined one: the command rolls back |
| `OncePerEmailEver` | `Records.cfg` (mail) | an attempt that raises after the commit is retried and registers again |
| `ResultsAreKept` | `Records.cfg` (mail) | a repeated webhook overwrites `ai_response` of a mail processed meanwhile |
| `ToldOfWhatExists` | `Records.cfg` (mail) | the notification is sent before the commit, which may not come |
| `DeletedStaysDeleted` | `Records.cfg` (mail) | a mail whose expense was deleted is processed again |
| `UsersCategoryIsKept` | `Records.cfg` (mail) | a duplicate that is recognised later replaces the category the user gave |

Met while reading, and not modelled: the category get-or-create endpoint passes
the tuple it gets to the serializer, and answers 500 after creating the category
(`categories/views.py:464-476`); the broadcast conversation of the Telegram bot
never reaches its second step (`telegrambot/views.py:39`, `bot.py:1505-1515`); a
mail whose answer the model words badly is marked with an error, its raw text is
overwritten, and no sweep takes it up again.

## Not modelled

- `savings`: the goals point at `django.contrib.auth`'s `User` while requests
  carry `users.User` (`cashbotapp/auth.py`), so every query of the views raises
  before it touches a row.
- `marketdata`: a read-through cache without coordination. A request reads one
  entry, asks the provider with retries, and overwrites two entries with what it
  got; no two pieces of state must agree. Quotes are parsed, not decided about.
- The language-model graphs and their prompts, streaming, relevance guard and
  retrieval (`agents`, `wallbit` RAG): what a model answers is a free choice of
  `UserTurns` and `WallbitDecisions`; the rest is text.
- Edits of movements by the agent save every column after a call for an embedding
  (`telegrambot/tools.py:831`), and so undo an edit made meanwhile:
  `FinanceRecords` has the edit as one step.
- Pure I/O and presentation: media, templates, broadcasts, rendering, CSV upload,
  receipts, search, encryption of keys, webhook signatures, profile editing,
  tokens and password reset, configuration.
- Portfolio arithmetic (`wallbit/portfolio.py` beyond `get_live_snapshot`).

## Plan

Done: the decision lifecycle with its refinement, the ledger, the kill switch,
limits, the client, the snapshot, the message task, turns, registration, risk
profile, counters, organizations, the Gmail connection with its refinement, the mail
pipeline, categories, movements, reports and balance; the proofs listed above.

Next: the portfolio summaries as functions checked against reference definitions.
