------------------------- MODULE ComposioConnection -------------------------
(***************************************************************************)
(* The Gmail connection of one user: the ComposioConnection row, the       *)
(* connect flow with its callback, disconnection, and the tasks that       *)
(* provision the trigger, against Composio's accounts and triggers.        *)
(*                                                                         *)
(* One action is one transaction on the row, one call to Composio, or one  *)
(* message.  The services lock the row (select_for_update), but only       *)
(* disconnect holds the lock across calls; the tasks read and save without *)
(* asking for it and wait only if it is held.                              *)
(***************************************************************************)
EXTENDS Naturals, FiniteSets

CONSTANTS
    Workers,        \* Celery processes
    MaxAccounts,    \* bound: connect flows that reach Composio
    MaxQueued,      \* bound: provisioning messages in the queue
    MaxRetries,     \* max_retries of provision_triggers_async
    MaxTransients   \* bound: transient errors of trigger creation for one message

ASSUME BoundsAssumption ==
    /\ MaxAccounts \in Nat /\ MaxQueued \in Nat
    /\ MaxRetries \in Nat /\ MaxTransients \in Nat

\* Accounts are numbered as Composio creates them; 0 is the empty string.
Accounts == 1..MaxAccounts
Blank == 0
Attempts == 0..MaxRetries

VARIABLES
    row,         \* ComposioConnection
    account,     \* Composio: the state of each connected account
    triggers,    \* Composio: accounts that have a trigger
    connect,     \* the request to connect-url
    issued,      \* flows whose redirect URL the user has
    used,        \* nonces in the cache
    callback,    \* the request to callback
    landed,      \* how often a flow's callback changed the row (observed)
    disconnect,  \* the request to disconnect, which locks the row
    queue,       \* provisioning messages, by attempts already made
    worker,      \* what each Celery process does
    sweep,       \* retry_failed_connections has listed the row
    raced        \* whether two of these ever overlapped (observed)

flows == <<connect, issued, used, callback, landed>>
tasks == <<queue, worker, sweep>>
vars == <<row, account, triggers, flows, disconnect, tasks, raced>>

Row == [there : BOOLEAN,
        status : {"pending", "active", "failed", "disconnected"},
        account : Accounts \cup {Blank},
        trigger : Accounts \cup {Blank},
        error : {"none", "callback", "provisioning"}]

Idle == [pc |-> "idle", account |-> Blank]
IdleWorker == [pc |-> "idle", account |-> Blank, attempt |-> 0]

TypeOK ==
    /\ row \in Row
    /\ account \in [Accounts -> {"none", "initiated", "active", "deleted"}]
    /\ triggers \subseteq Accounts
    /\ connect \in [pc : {"idle", "linking", "persisting", "recovering", "recovered"},
                    account : Accounts \cup {Blank}]
    /\ issued \subseteq Accounts /\ used \subseteq issued
    /\ callback \in [pc : {"idle", "consumed", "verified"}, account : Accounts \cup {Blank}]
    /\ landed \in [Accounts -> Nat]
    /\ disconnect \in {"idle", "deleting", "deleted"}
    /\ queue \in [Attempts -> Nat]
    /\ worker \in [Workers -> [pc : {"idle", "creating", "saving", "failing"},
                               account : Accounts \cup {Blank}, attempt : Attempts]]
    /\ sweep \in BOOLEAN
    /\ raced \in BOOLEAN

Init ==
    /\ row = [there |-> FALSE, status |-> "pending", account |-> Blank,
              trigger |-> Blank, error |-> "none"]
    /\ account = [a \in Accounts |-> "none"]
    /\ triggers = {}
    /\ connect = Idle /\ issued = {} /\ used = {}
    /\ callback = Idle /\ landed = [a \in Accounts |-> 0]
    /\ disconnect = "idle"
    /\ queue = [n \in Attempts |-> 0]
    /\ worker = [w \in Workers |-> IdleWorker]
    /\ sweep = FALSE /\ raced = FALSE

Unlocked == disconnect = "idle"

\* Something else is at work on the row while a handler begins.
Quiet == /\ connect.pc = "idle" /\ callback.pc = "idle" /\ Unlocked /\ ~sweep
         /\ \A w \in Workers : worker[w].pc = "idle"
Begins == raced' = (raced \/ ~Quiet)

Queued == {n \in Attempts : queue[n] > 0}
Enqueue(n) == /\ queue[n] < MaxQueued
              /\ queue' = [queue EXCEPT ![n] = @ + 1]

-----------------------------------------------------------------------------
(* start_connect_flow.                                                     *)

ResetRow ==
    /\ connect.pc = "idle" /\ Unlocked
    /\ row' = [row EXCEPT !.there = TRUE, !.status = "pending", !.error = "none"]
    /\ connect' = [Idle EXCEPT !.pc = "linking"]
    /\ Begins
    /\ UNCHANGED <<account, triggers, issued, used, callback, landed, disconnect, tasks>>

ActiveAccounts == {a \in Accounts : account[a] = "active"}

\* link() with allow_multiple=False makes a new account ...
LinkNew ==
    /\ connect.pc = "linking" /\ ActiveAccounts = {}
    /\ \E a \in Accounts :
         /\ account[a] = "none" /\ \A b \in Accounts : b < a => account[b] # "none"
         /\ account' = [account EXCEPT ![a] = "initiated"]
         /\ connect' = [pc |-> "persisting", account |-> a]
    /\ UNCHANGED <<row, triggers, issued, used, callback, landed, disconnect, tasks, raced>>

\* ... unless one is active already.
LinkAlreadyConnected ==
    /\ connect.pc = "linking" /\ ActiveAccounts # {}
    /\ connect' = [Idle EXCEPT !.pc = "recovering"]
    /\ UNCHANGED <<row, account, triggers, issued, used, callback, landed, disconnect,
                   tasks, raced>>

\* After its own retries the client raises; the row stays pending.
LinkFails ==
    /\ connect.pc = "linking"
    /\ connect' = Idle
    /\ UNCHANGED <<row, account, triggers, issued, used, callback, landed, disconnect,
                   tasks, raced>>

PersistAccount ==
    /\ connect.pc = "persisting" /\ Unlocked
    /\ row' = [row EXCEPT !.account = connect.account]
    /\ issued' = issued \cup {connect.account}
    /\ connect' = Idle
    /\ UNCHANGED <<account, triggers, used, callback, landed, disconnect, tasks, raced>>

\* _recover_already_connected: the newest active account, if any is left.
FindActive ==
    /\ connect.pc = "recovering"
    /\ IF ActiveAccounts = {} THEN connect' = Idle
       ELSE \E a \in ActiveAccounts :
              /\ \A b \in ActiveAccounts : b <= a
              /\ connect' = [pc |-> "recovered", account |-> a]
    /\ UNCHANGED <<row, account, triggers, issued, used, callback, landed, disconnect,
                   tasks, raced>>

\* The trigger id on the row is left as it is.
RecoverRow ==
    /\ connect.pc = "recovered" /\ Unlocked
    /\ row' = IF row.account = connect.account /\ row.status = "active" THEN row
              ELSE [row EXCEPT !.account = connect.account, !.status = "active",
                               !.error = "none"]
    /\ Enqueue(0)
    /\ connect' = Idle
    /\ UNCHANGED <<account, triggers, issued, used, callback, landed, disconnect,
                   worker, sweep, raced>>

-----------------------------------------------------------------------------
(* The user at Google's page, and complete_connect_flow.                   *)

Consent(a) ==
    /\ a \in issued /\ account[a] = "initiated"
    /\ account' = [account EXCEPT ![a] = "active"]
    /\ UNCHANGED <<row, triggers, flows, disconnect, tasks, raced>>

\* consume_nonce: cache.add succeeds once per token.
Fresh(a) == a \in issued \ used

CallbackSucceeds(a) ==
    /\ callback.pc = "idle" /\ Fresh(a)
    /\ account[a] \in {"active", "deleted"}
    /\ used' = used \cup {a}
    /\ callback' = [pc |-> "consumed", account |-> a]
    /\ Begins
    /\ UNCHANGED <<row, account, triggers, connect, issued, landed, disconnect, tasks>>

\* The user refused, or consented to nothing in time.
CallbackReportsFailure(a) ==
    /\ callback.pc = "idle" /\ Fresh(a) /\ Unlocked
    /\ account[a] = "initiated"
    /\ used' = used \cup {a}
    /\ row' = [row EXCEPT !.status = "failed", !.error = "callback"]
    /\ landed' = [landed EXCEPT ![a] = @ + 1]
    /\ Begins
    /\ UNCHANGED <<account, triggers, connect, issued, callback, disconnect, tasks>>

VerifyAccount ==
    /\ callback.pc = "consumed" /\ account[callback.account] = "active"
    /\ callback' = [callback EXCEPT !.pc = "verified"]
    /\ UNCHANGED <<row, account, triggers, connect, issued, used, landed, disconnect,
                   tasks, raced>>

\* Composio does not answer or does not know the account; the nonce is spent.
VerifyFails ==
    /\ callback.pc = "consumed"
    /\ callback' = Idle
    /\ UNCHANGED <<row, account, triggers, connect, issued, used, landed, disconnect,
                   tasks, raced>>

\* Mutant of ActivateRow: the old trigger id stays on the row, and no
\* provisioning is requested because there is one.
ActivateRowKeepingTrigger ==
    /\ callback.pc = "verified" /\ Unlocked
    /\ row' = [row EXCEPT !.status = "active", !.account = callback.account,
                          !.error = "none"]
    /\ landed' = [landed EXCEPT ![callback.account] = @ + 1]
    /\ IF row.trigger = Blank THEN Enqueue(0) ELSE UNCHANGED queue
    /\ callback' = Idle
    /\ UNCHANGED <<account, triggers, connect, issued, used, disconnect, worker, sweep, raced>>

ActivateRow ==
    /\ callback.pc = "verified" /\ Unlocked
    /\ row' = [row EXCEPT !.status = "active", !.account = callback.account,
                          !.trigger = Blank, !.error = "none"]
    /\ landed' = [landed EXCEPT ![callback.account] = @ + 1]
    /\ Enqueue(0)
    /\ callback' = Idle
    /\ UNCHANGED <<account, triggers, connect, issued, used, disconnect, worker, sweep, raced>>

-----------------------------------------------------------------------------
(* disconnect, one transaction around two calls that may fail unnoticed.   *)

LockForDisconnect ==
    /\ Unlocked /\ row.there /\ row.status # "disconnected"
    /\ disconnect' = "deleting"
    /\ Begins
    /\ UNCHANGED <<row, account, triggers, flows, tasks>>

\* An account takes its triggers with it.
DeleteUpstream ==
    /\ disconnect = "deleting"
    /\ \E gone \in SUBSET {row.trigger}, closed \in SUBSET {row.account} :
         /\ triggers' = triggers \ (gone \cup closed)
         /\ account' = [a \in Accounts |-> IF a \in closed THEN "deleted" ELSE account[a]]
    /\ disconnect' = "deleted"
    /\ UNCHANGED <<row, flows, tasks, raced>>

SaveDisconnected ==
    /\ disconnect = "deleted"
    /\ row' = [row EXCEPT !.status = "disconnected", !.error = "none"]
    /\ disconnect' = "idle"
    /\ UNCHANGED <<account, triggers, flows, tasks, raced>>

-----------------------------------------------------------------------------
(* provision_triggers_async.                                               *)

Provisionable == row.status = "active"

TakeMessage(w, n) ==
    /\ worker[w].pc = "idle" /\ queue[n] > 0
    /\ queue' = [queue EXCEPT ![n] = @ - 1]
    /\ worker' = [worker EXCEPT ![w] =
                    IF Provisionable
                      THEN [pc |-> "creating", account |-> row.account, attempt |-> n]
                      ELSE IdleWorker]
    /\ Begins
    /\ UNCHANGED <<row, account, triggers, flows, disconnect, sweep>>

CreateTrigger(w) ==
    /\ worker[w].pc = "creating" /\ worker[w].account \in ActiveAccounts
    /\ triggers' = triggers \cup {worker[w].account}
    /\ worker' = [worker EXCEPT ![w].pc = "saving"]
    /\ UNCHANGED <<row, account, flows, disconnect, queue, sweep, raced>>

\* A 4xx: the account is gone or was never connected, or Composio refuses.
TriggerRefused(w) ==
    /\ worker[w].pc = "creating"
    /\ worker' = [worker EXCEPT ![w].pc = "failing"]
    /\ UNCHANGED <<row, account, triggers, flows, disconnect, queue, sweep, raced>>

\* autoretry_for: the task runs again from the start until its retries end.
TransientError(w) ==
    /\ worker[w].pc = "creating" /\ worker[w].attempt < MaxTransients
    /\ IF worker[w].attempt < MaxRetries THEN Enqueue(worker[w].attempt + 1)
                                         ELSE UNCHANGED queue
    /\ worker' = [worker EXCEPT ![w] = IdleWorker]
    /\ UNCHANGED <<row, account, triggers, flows, disconnect, sweep, raced>>

SaveTrigger(w) ==
    /\ worker[w].pc = "saving" /\ Unlocked
    /\ row' = [row EXCEPT !.trigger = worker[w].account]
    /\ worker' = [worker EXCEPT ![w] = IdleWorker]
    /\ UNCHANGED <<account, triggers, flows, disconnect, queue, sweep, raced>>

\* Mutant of SaveFailed: the failure is only logged.
SaveFailedNowhere(w) ==
    /\ worker[w].pc = "failing" /\ Unlocked
    /\ worker' = [worker EXCEPT ![w] = IdleWorker]
    /\ UNCHANGED <<row, account, triggers, flows, disconnect, queue, sweep, raced>>

\* Whatever the row's status is by now.
SaveFailed(w) ==
    /\ worker[w].pc = "failing" /\ Unlocked
    /\ row' = [row EXCEPT !.status = "failed", !.error = "provisioning"]
    /\ worker' = [worker EXCEPT ![w] = IdleWorker]
    /\ UNCHANGED <<account, triggers, flows, disconnect, queue, sweep, raced>>

-----------------------------------------------------------------------------
(* retry_failed_connections, every hour, and the retry-trigger view.       *)

\* Mutant of Sweepable: every failed connection is retried.
SweepableAll == row.there /\ row.status = "failed"

Sweepable == row.there /\ row.status = "failed" /\ row.error = "provisioning"

SweepLists ==
    /\ ~sweep /\ Sweepable
    /\ sweep' = TRUE
    /\ Begins
    /\ UNCHANGED <<row, account, triggers, flows, disconnect, queue, worker>>

SweepReactivates ==
    /\ sweep /\ Unlocked
    /\ row' = [row EXCEPT !.status = "active", !.error = "none"]
    /\ Enqueue(0)
    /\ sweep' = FALSE
    /\ UNCHANGED <<account, triggers, flows, disconnect, worker, raced>>

RetryTrigger ==
    /\ row.there /\ row.status = "active"
    /\ Enqueue(0)
    /\ UNCHANGED <<row, account, triggers, flows, disconnect, worker, sweep, raced>>

ConnectStep ==
    \/ ResetRow \/ LinkNew \/ LinkAlreadyConnected \/ LinkFails \/ PersistAccount
    \/ FindActive \/ RecoverRow

CallbackStep ==
    \/ \E a \in Accounts : CallbackSucceeds(a) \/ CallbackReportsFailure(a)
    \/ VerifyAccount \/ VerifyFails \/ ActivateRow

DisconnectStep == LockForDisconnect \/ DeleteUpstream \/ SaveDisconnected

WorkerStep(w) ==
    \/ \E n \in Attempts : TakeMessage(w, n)
    \/ CreateTrigger(w) \/ TriggerRefused(w) \/ TransientError(w)
    \/ SaveTrigger(w) \/ SaveFailed(w)

Next ==
    \/ ConnectStep \/ CallbackStep \/ DisconnectStep
    \/ \E a \in Accounts : Consent(a)
    \/ \E w \in Workers : WorkerStep(w)
    \/ SweepLists \/ SweepReactivates \/ RetryTrigger

Spec == Init /\ [][Next]_vars

\* Workers run and take messages; a request that holds the lock goes on.
FairSpec == /\ Spec
            /\ \A w \in Workers : WF_vars(WorkerStep(w))
            /\ WF_vars(DeleteUpstream \/ SaveDisconnected)

-----------------------------------------------------------------------------
(* Properties.                                                             *)

\* An active connection has an account its user consented to, as long as
\* handlers do not overlap.
ActiveMeansConsented ==
    row.there /\ row.status = "active" /\ ~raced =>
        row.account # Blank /\ account[row.account] \in {"active", "deleted"}

\* "trigger_active" of the dashboard: once nothing is queued or running, an
\* active connection has the trigger of its own account, and Composio has it.
SettledActiveHasItsTrigger ==
    row.there /\ row.status = "active" /\ ~raced /\ Quiet /\ Queued = {} =>
        row.trigger = row.account /\ row.account \in triggers

\* The state diagram: a connection that failed in the callback, or that the
\* user disconnected, is not active again before the user does something.
DownStaysDown ==
    [][~raced' /\ (row.status = "disconnected" \/ row.error = "callback")
         /\ row'.status # row.status
       => connect' # connect \/ used' # used \/ callback' # callback
            \/ disconnect' # disconnect]_vars

\* "single-use nonce": reloading the landing page changes nothing.
OneLandingPerFlow == \A a \in Accounts : landed[a] <= 1

\* The row tells the user what Composio would.
ConnectionIsTruthful ==
    TypeOK /\ ActiveMeansConsented /\ SettledActiveHasItsTrigger /\ OneLandingPerFlow

\* Every activation ends in a trigger or in a visible failure, whatever
\* overlaps, if transient errors do not use the retries up.
ActivationSettles ==
    row.there /\ row.status = "active"
      ~> row.status # "active" \/ row.trigger # Blank

\* COMPOSIO_ARCHITECTURE.md: a disconnected connection becomes pending by a new
\* connect-url.  Fails when a task that began before saves its failure.
DisconnectedStaysDisconnected ==
    [][row.status = "disconnected" /\ row'.status # "disconnected"
       => connect' # connect \/ used' # used \/ callback' # callback]_vars
=============================================================================
