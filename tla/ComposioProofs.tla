---------------------------- MODULE ComposioProofs ----------------------------
(***************************************************************************)
(* Proofs about the Gmail connection (ComposioConnection) and what it      *)
(* implements (ComposioRefinement), for any number of connect flows,       *)
(* Celery processes, queued messages and retries.                          *)
(***************************************************************************)
EXTENDS ComposioRefinement, TLAPS

-----------------------------------------------------------------------------
(* The inductive invariant.                                                *)

\* The callback of a flow spends its nonce before it changes the row, and the
\* nonce is spent once.
NonceSpentOnce ==
    /\ \A a \in Accounts : landed[a] <= 1 /\ (landed[a] = 1 => a \in used)
    /\ callback.pc # "idle" =>
         callback.account \in used /\ landed[callback.account] = 0

Consented(a) == a # Blank /\ account[a] \in {"active", "deleted"}

FlowsKnowTheirAccount ==
    /\ connect.pc = "persisting" => connect.account # Blank
    /\ connect.pc = "recovered" => Consented(connect.account)
    /\ callback.pc = "verified" => Consented(callback.account)

ActiveHasNoError == row.status = "active" => row.error = "none"

Working == {w \in Workers : worker[w].pc # "idle"}

\* As long as nothing overlapped, one handler at most is at work.
Alone ==
    ~raced =>
      /\ connect.pc # "idle" => callback.pc = "idle" /\ Unlocked /\ ~sweep /\ Working = {}
      /\ callback.pc # "idle" => Unlocked /\ ~sweep /\ Working = {}
      /\ ~Unlocked => ~sweep /\ Working = {}
      /\ sweep => Working = {}
      /\ \A v, w \in Working : v = w

\* ... and the row is still what that handler made or found of it.
WorkFitsTheRow ==
    ~raced =>
      /\ connect.pc # "idle" => row.status = "pending" /\ row.error = "none"
      /\ sweep => row.status = "failed" /\ row.error = "provisioning"
      /\ \A w \in Working :
            /\ row.status = "active" /\ worker[w].account = row.account
            /\ worker[w].pc = "saving" => row.account \in triggers

\* A connection that is provisioned, or failed to be, had the user's consent.
ProvisionedWasConsented ==
    ~raced /\ (row.status = "active" \/ row.error = "provisioning") => Consented(row.account)

ConnectionInv ==
    /\ TypeOK /\ NonceSpentOnce /\ FlowsKnowTheirAccount /\ ActiveHasNoError
    /\ Alone /\ WorkFitsTheRow /\ ProvisionedWasConsented

\* An active connection has its trigger, or work is left to be done for it.
ActiveIsProvisioned ==
    ~raced /\ row.status = "active" /\ Unlocked /\ Queued = {} /\ Working = {}
      => row.trigger = row.account /\ row.account \in triggers

-----------------------------------------------------------------------------
(* Type correctness.                                                       *)

LEMMA InitType == Init => TypeOK
<1> SUFFICES ASSUME Init PROVE TypeOK
  OBVIOUS
<1>1. row \in Row
  BY DEF Init, Row
<1>2. /\ account \in [Accounts -> {"none", "initiated", "active", "deleted"}]
      /\ landed \in [Accounts -> Nat] /\ queue \in [Attempts -> Nat]
  BY DEF Init
<1>3. 0 \in Attempts
  BY BoundsAssumption DEF Attempts
<1>4. worker \in [Workers -> [pc : {"idle", "creating", "saving", "failing"},
                               account : Accounts \cup {Blank}, attempt : Attempts]]
  BY <1>3 DEF Init, IdleWorker
<1>5. /\ connect \in [pc : {"idle", "linking", "persisting", "recovering", "recovered"},
                     account : Accounts \cup {Blank}]
      /\ callback \in [pc : {"idle", "consumed", "verified"}, account : Accounts \cup {Blank}]
  BY DEF Init, Idle
<1>6. QED
  BY <1>1, <1>2, <1>4, <1>5 DEF Init, TypeOK

LEMMA EnqueueType ==
    ASSUME TypeOK, NEW n \in Attempts, Enqueue(n)
    PROVE  queue' \in [Attempts -> Nat]
BY DEF TypeOK, Enqueue

LEMMA ConnectType ==
    ASSUME TypeOK, FlowsKnowTheirAccount, ConnectStep PROVE TypeOK'
<1> DEFINE Connects == [pc : {"idle", "linking", "persisting", "recovering", "recovered"},
                        account : Accounts \cup {Blank}]
<1>0. Idle \in Connects
  BY DEF Idle
<1>1. CASE ResetRow
  <2>1. row' \in Row
    BY <1>1 DEF ResetRow, TypeOK, Row
  <2>2. connect' \in Connects
    BY <1>1 DEF ResetRow, Idle
  <2>3. raced' \in BOOLEAN
    <3>1. CASE Quiet
      BY <1>1, <3>1 DEF ResetRow, Begins, TypeOK
    <3>2. CASE ~Quiet
      BY <1>1, <3>2 DEF ResetRow, Begins
    <3>3. QED
      BY <3>1, <3>2
  <2>4. QED
    BY <1>1, <2>1, <2>2, <2>3 DEF ResetRow, TypeOK, tasks
<1>2. CASE LinkNew
  BY <1>2 DEF LinkNew, TypeOK, tasks
<1>3. CASE LinkAlreadyConnected \/ LinkFails
  <2>1. connect' \in Connects
    BY <1>0, <1>3 DEF LinkAlreadyConnected, LinkFails, Idle
  <2>2. UNCHANGED <<row, account, triggers, issued, used, callback, landed, disconnect,
                    queue, worker, sweep, raced>>
    BY <1>3 DEF LinkAlreadyConnected, LinkFails, tasks
  <2>3. QED
    BY <2>1, <2>2 DEF TypeOK
<1>4. CASE PersistAccount
  <2>1. row' \in Row
    BY <1>4 DEF PersistAccount, TypeOK, Row
  <2>2. issued' \subseteq Accounts /\ used' \subseteq issued'
    BY <1>4 DEF PersistAccount, TypeOK, FlowsKnowTheirAccount
  <2>3. QED
    BY <1>0, <1>4, <2>1, <2>2 DEF PersistAccount, TypeOK, tasks
<1>5. CASE FindActive
  <2>1. connect' \in Connects
    BY <1>0, <1>5 DEF FindActive, ActiveAccounts
  <2>2. QED
    BY <1>5, <2>1 DEF FindActive, TypeOK, tasks
<1>6. CASE RecoverRow
  <2>1. row' \in Row
    BY <1>6 DEF RecoverRow, TypeOK, Row
  <2>2. queue' \in [Attempts -> Nat]
    BY <1>6, EnqueueType, BoundsAssumption DEF RecoverRow, Attempts
  <2>3. QED
    BY <1>6, <2>1, <2>2 DEF RecoverRow, TypeOK, Idle
<1>7. QED
  BY <1>1, <1>2, <1>3, <1>4, <1>5, <1>6 DEF ConnectStep

LEMMA CallbackType ==
    ASSUME TypeOK, NonceSpentOnce, CallbackStep PROVE TypeOK'
<1>0. \A b \in BOOLEAN : (b \/ ~Quiet) \in BOOLEAN
  OBVIOUS
<1>1. ASSUME NEW a \in Accounts, CallbackSucceeds(a) PROVE TypeOK'
  BY <1>0, <1>1 DEF CallbackSucceeds, Begins, Fresh, TypeOK, tasks
<1>2. ASSUME NEW a \in Accounts, CallbackReportsFailure(a) PROVE TypeOK'
  <2>1. row' \in Row
    BY <1>2 DEF CallbackReportsFailure, TypeOK, Row
  <2>2. landed' \in [Accounts -> Nat]
    BY <1>2 DEF CallbackReportsFailure, TypeOK
  <2>3. QED
    BY <1>0, <1>2, <2>1, <2>2 DEF CallbackReportsFailure, Begins, Fresh, TypeOK, tasks
<1>3. CASE VerifyAccount
  BY <1>3 DEF VerifyAccount, TypeOK, tasks
<1>4. CASE VerifyFails
  BY <1>4 DEF VerifyFails, Idle, TypeOK, tasks
<1>5. CASE ActivateRow
  <2>1. row' \in Row
    BY <1>5 DEF ActivateRow, TypeOK, Row
  <2>2. landed' \in [Accounts -> Nat]
    BY <1>5 DEF ActivateRow, TypeOK, NonceSpentOnce
  <2>3. queue' \in [Attempts -> Nat]
    BY <1>5, EnqueueType, BoundsAssumption DEF ActivateRow, Attempts
  <2>4. QED
    BY <1>5, <2>1, <2>2, <2>3 DEF ActivateRow, Idle, TypeOK
<1>6. QED
  BY <1>1, <1>2, <1>3, <1>4, <1>5 DEF CallbackStep

LEMMA DisconnectType ==
    ASSUME TypeOK, DisconnectStep \/ \E a \in Accounts : Consent(a) PROVE TypeOK'
<1>1. CASE LockForDisconnect
  <2>1. raced' \in BOOLEAN
    BY <1>1 DEF LockForDisconnect, Begins, TypeOK
  <2>2. QED
    BY <1>1, <2>1 DEF LockForDisconnect, TypeOK, flows, tasks
<1>2. CASE DeleteUpstream
  <2>1. account' \in [Accounts -> {"none", "initiated", "active", "deleted"}]
    BY <1>2 DEF DeleteUpstream, TypeOK
  <2>2. QED
    BY <1>2, <2>1 DEF DeleteUpstream, TypeOK, flows, tasks
<1>3. CASE SaveDisconnected
  <2>1. row' \in Row
    BY <1>3 DEF SaveDisconnected, TypeOK, Row
  <2>2. QED
    BY <1>3, <2>1 DEF SaveDisconnected, TypeOK, flows, tasks
<1>4. ASSUME NEW a \in Accounts, Consent(a) PROVE TypeOK'
  BY <1>4 DEF Consent, TypeOK, flows, tasks
<1>5. QED
  BY <1>1, <1>2, <1>3, <1>4 DEF DisconnectStep

\* A worker writes nothing of the others.
LEMMA WorkerWrites ==
    ASSUME TypeOK, NEW w \in Workers, WorkerStep(w)
    PROVE  /\ worker' \in [Workers ->
                 [pc : {"idle", "creating", "saving", "failing"},
                  account : Accounts \cup {Blank}, attempt : Attempts]]
           /\ \A v \in Workers : v # w => worker'[v] = worker[v]
<1> DEFINE Jobs == [pc : {"idle", "creating", "saving", "failing"},
                    account : Accounts \cup {Blank}, attempt : Attempts]
<1>0. worker \in [Workers -> Jobs] /\ worker[w] \in Jobs /\ row.account \in Accounts \cup {Blank}
  BY DEF TypeOK, Row
<1>1. IdleWorker \in Jobs
  BY BoundsAssumption DEF IdleWorker, Attempts
<1>2. PICK new \in Jobs : worker' = [worker EXCEPT ![w] = new]
  <2>1. ASSUME NEW n \in Attempts, TakeMessage(w, n)
        PROVE  \E new \in Jobs : worker' = [worker EXCEPT ![w] = new]
    <3>1. [pc |-> "creating", account |-> row.account, attempt |-> n] \in Jobs
      BY <1>0
    <3> HIDE DEF Jobs
    <3>2. QED
      BY <1>1, <2>1, <3>1 DEF TakeMessage
  <2>2. CASE CreateTrigger(w) \/ TriggerRefused(w)
    <3>1. PICK pc \in {"saving", "failing"} : worker' = [worker EXCEPT ![w].pc = pc]
      BY <2>2 DEF CreateTrigger, TriggerRefused
    <3>2. [worker[w] EXCEPT !.pc = pc] \in Jobs
      BY <1>0
    <3>3. QED
      BY <3>1, <3>2
  <2>3. CASE TransientError(w) \/ SaveTrigger(w) \/ SaveFailed(w)
    BY <1>1, <2>3 DEF TransientError, SaveTrigger, SaveFailed
  <2>4. QED
    BY <2>1, <2>2, <2>3 DEF WorkerStep
<1> HIDE DEF Jobs
<1>3. QED
  BY <1>0, <1>2 DEF Jobs

LEMMA WorkerType ==
    ASSUME TypeOK, NEW w \in Workers, WorkerStep(w) PROVE TypeOK'
<1>1. ASSUME NEW n \in Attempts, TakeMessage(w, n) PROVE TypeOK'
  <2>1. queue' \in [Attempts -> Nat]
    BY <1>1 DEF TakeMessage, TypeOK
  <2>2. raced' \in BOOLEAN
    BY <1>1 DEF TakeMessage, Begins, TypeOK
  <2>3. QED
    BY <1>1, <2>1, <2>2, WorkerWrites DEF TakeMessage, TypeOK, flows
<1>2. CASE CreateTrigger(w)
  BY <1>2, WorkerWrites DEF CreateTrigger, ActiveAccounts, TypeOK, flows
<1>3. CASE TriggerRefused(w)
  BY <1>3, WorkerWrites DEF TriggerRefused, TypeOK, flows
<1>4. CASE TransientError(w)
  <2>1. queue' \in [Attempts -> Nat]
    <3>1. worker[w].attempt \in Attempts
      BY DEF TypeOK
    <3>2. CASE worker[w].attempt < MaxRetries
      <4>1. worker[w].attempt + 1 \in Attempts
        BY <3>1, <3>2, BoundsAssumption DEF Attempts
      <4>2. QED
        BY <1>4, <3>2, <4>1, EnqueueType DEF TransientError
    <3>3. CASE ~(worker[w].attempt < MaxRetries)
      BY <1>4, <3>3 DEF TransientError, TypeOK
    <3>4. QED
      BY <3>2, <3>3
  <2>2. QED
    BY <1>4, <2>1, WorkerWrites DEF TransientError, TypeOK, flows
<1>5. CASE SaveTrigger(w) \/ SaveFailed(w)
  <2>1. row' \in Row
    BY <1>5 DEF SaveTrigger, SaveFailed, TypeOK, Row
  <2>2. QED
    BY <1>5, <2>1, WorkerWrites DEF SaveTrigger, SaveFailed, TypeOK, flows
<1>6. QED
  BY <1>1, <1>2, <1>3, <1>4, <1>5 DEF WorkerStep

LEMMA SweepType ==
    ASSUME TypeOK, SweepLists \/ SweepReactivates \/ RetryTrigger PROVE TypeOK'
<1>1. CASE SweepLists
  <2>1. raced' \in BOOLEAN
    BY <1>1 DEF SweepLists, Begins, TypeOK
  <2>2. QED
    BY <1>1, <2>1 DEF SweepLists, TypeOK, flows
<1>2. CASE SweepReactivates \/ RetryTrigger
  <2>1. row' \in Row
    BY <1>2 DEF SweepReactivates, RetryTrigger, TypeOK, Row
  <2>2. queue' \in [Attempts -> Nat]
    BY <1>2, EnqueueType, BoundsAssumption DEF SweepReactivates, RetryTrigger, Attempts
  <2>3. QED
    BY <1>2, <2>1, <2>2 DEF SweepReactivates, RetryTrigger, TypeOK, flows
<1>3. QED
  BY <1>1, <1>2

LEMMA StepType == ConnectionInv /\ Next => TypeOK'
BY ConnectType, CallbackType, DisconnectType, WorkerType, SweepType DEF ConnectionInv, Next

-----------------------------------------------------------------------------
(* The nonce, and what the flows know.                                     *)

LEMMA NonceStep == ASSUME ConnectionInv, Next PROVE NonceSpentOnce'
<1>0. TypeOK /\ NonceSpentOnce /\ landed \in [Accounts -> Nat]
  BY DEF ConnectionInv, TypeOK
<1>1. ASSUME NEW a \in Accounts, CallbackSucceeds(a) PROVE NonceSpentOnce'
  <2>1. landed[a] = 0
    BY <1>0, <1>1 DEF CallbackSucceeds, Fresh, NonceSpentOnce
  <2>2. QED
    BY <1>0, <1>1, <2>1 DEF CallbackSucceeds, NonceSpentOnce
<1>2. ASSUME NEW a \in Accounts, CallbackReportsFailure(a) PROVE NonceSpentOnce'
  <2>1. landed[a] = 0
    BY <1>0, <1>2 DEF CallbackReportsFailure, Fresh, NonceSpentOnce
  <2>2. QED
    BY <1>0, <1>2, <2>1 DEF CallbackReportsFailure, NonceSpentOnce
<1>3. CASE VerifyAccount \/ VerifyFails
  BY <1>0, <1>3 DEF VerifyAccount, VerifyFails, Idle, TypeOK, NonceSpentOnce
<1>4. CASE ActivateRow
  BY <1>0, <1>4 DEF ActivateRow, Idle, TypeOK, NonceSpentOnce
<1>5. CASE UNCHANGED <<landed, used, callback>>
  BY <1>0, <1>5 DEF NonceSpentOnce
<1>6. QED
  BY <1>1, <1>2, <1>3, <1>4, <1>5
     DEF Next, ConnectStep, CallbackStep, DisconnectStep, WorkerStep, ResetRow, LinkNew,
         LinkAlreadyConnected, LinkFails, PersistAccount, FindActive, RecoverRow,
         LockForDisconnect, DeleteUpstream, SaveDisconnected, Consent, TakeMessage,
         CreateTrigger, TriggerRefused, TransientError, SaveTrigger, SaveFailed,
         SweepLists, SweepReactivates, RetryTrigger, flows

\* No step takes a consent back; deleting the account is not taking it back.
LEMMA ConsentStays ==
    ASSUME TypeOK, Next, NEW a \in Accounts, Consented(a)
    PROVE  Consented(a)'
<1>1. CASE LinkNew
  BY <1>1 DEF LinkNew, Consented, TypeOK
<1>2. CASE DeleteUpstream
  BY <1>2 DEF DeleteUpstream, Consented, TypeOK
<1>3. ASSUME NEW b \in Accounts, Consent(b) PROVE Consented(a)'
  BY <1>3 DEF Consent, Consented, TypeOK
<1>4. CASE UNCHANGED account
  BY <1>4 DEF Consented
<1>5. QED
  BY <1>1, <1>2, <1>3, <1>4
     DEF Next, ConnectStep, CallbackStep, DisconnectStep, WorkerStep, ResetRow,
         LinkAlreadyConnected, LinkFails, PersistAccount, FindActive, RecoverRow,
         CallbackSucceeds, CallbackReportsFailure, VerifyAccount, VerifyFails, ActivateRow,
         LockForDisconnect, SaveDisconnected, TakeMessage, CreateTrigger, TriggerRefused,
         TransientError, SaveTrigger, SaveFailed, SweepLists, SweepReactivates,
         RetryTrigger

LEMMA BlankIsNoAccount == Blank \notin Accounts
BY DEF Blank, Accounts

LEMMA FlowsStep == ASSUME ConnectionInv, Next PROVE FlowsKnowTheirAccount'
<1>0. TypeOK /\ FlowsKnowTheirAccount
  BY DEF ConnectionInv
<1>1. /\ connect'.pc = "persisting" => connect'.account # Blank
      /\ connect'.pc = "recovered" => Consented(connect.account)'
  <2>1. CASE LinkNew
    BY <2>1, BlankIsNoAccount DEF LinkNew
  <2>2. CASE FindActive
    <3>1. connect' = Idle \/ \E a \in ActiveAccounts : connect' = [pc |-> "recovered", account |-> a]
      BY <2>2 DEF FindActive
    <3>2. \A a \in ActiveAccounts : Consented(a)'
      BY <2>2, BlankIsNoAccount DEF FindActive, ActiveAccounts, Consented
    <3>3. QED
      BY <3>1, <3>2 DEF Idle
  <2>3. CASE ResetRow \/ LinkAlreadyConnected \/ LinkFails \/ PersistAccount \/ RecoverRow
    BY <2>3 DEF ResetRow, LinkAlreadyConnected, LinkFails, PersistAccount, RecoverRow, Idle
  <2>4. CASE UNCHANGED connect
    <3>1. ASSUME connect.pc = "recovered" PROVE Consented(connect.account)'
      <4>1. Consented(connect.account) /\ connect.account \in Accounts
        BY <1>0, <3>1 DEF FlowsKnowTheirAccount, Consented, TypeOK
      <4>2. \A b \in Accounts : Consented(b) => Consented(b)'
        BY <1>0, ConsentStays
      <4>3. QED
        BY <2>4, <4>1, <4>2 DEF Consented
    <3>2. QED
      BY <1>0, <2>4, <3>1 DEF FlowsKnowTheirAccount, Consented
  <2>5. QED
    BY <2>1, <2>2, <2>3, <2>4
       DEF Next, ConnectStep, CallbackStep, DisconnectStep, WorkerStep,
           CallbackSucceeds, CallbackReportsFailure, VerifyAccount, VerifyFails, ActivateRow,
           LockForDisconnect, DeleteUpstream, SaveDisconnected, Consent, TakeMessage,
           CreateTrigger, TriggerRefused, TransientError, SaveTrigger, SaveFailed,
           SweepLists, SweepReactivates, RetryTrigger, flows
<1>2. callback'.pc = "verified" => Consented(callback.account)'
  <2>1. ASSUME NEW a \in Accounts, CallbackSucceeds(a)
        PROVE  callback'.pc # "verified"
    BY <2>1 DEF CallbackSucceeds
  <2>2. CASE VerifyAccount
    <3>1. callback'.account = callback.account /\ callback.account \in Accounts
      BY <2>2 DEF VerifyAccount, ConnectionInv, NonceSpentOnce, TypeOK
    <3>2. account'[callback.account] = "active"
      BY <2>2 DEF VerifyAccount
    <3>3. QED
      BY <3>1, <3>2, BlankIsNoAccount DEF Consented
  <2>3. CASE VerifyFails \/ ActivateRow
    BY <2>3 DEF VerifyFails, ActivateRow, Idle
  <2>4. CASE UNCHANGED callback
    <3>1. ASSUME callback.pc = "verified" PROVE Consented(callback.account)'
      <4>1. Consented(callback.account) /\ callback.account \in Accounts
        BY <1>0, <3>1 DEF FlowsKnowTheirAccount, Consented, TypeOK
      <4>2. \A b \in Accounts : Consented(b) => Consented(b)'
        BY <1>0, ConsentStays
      <4>3. QED
        BY <2>4, <4>1, <4>2 DEF Consented
    <3>2. QED
      BY <2>4, <3>1
  <2>5. QED
    BY <2>1, <2>2, <2>3, <2>4
       DEF Next, ConnectStep, CallbackStep, DisconnectStep, WorkerStep, ResetRow, LinkNew,
           LinkAlreadyConnected, LinkFails, PersistAccount, FindActive, RecoverRow,
           CallbackReportsFailure,
           LockForDisconnect, DeleteUpstream, SaveDisconnected, Consent, TakeMessage,
           CreateTrigger, TriggerRefused, TransientError, SaveTrigger, SaveFailed,
           SweepLists, SweepReactivates, RetryTrigger, flows
<1>3. QED
  BY <1>1, <1>2 DEF FlowsKnowTheirAccount

LEMMA NoErrorStep == ASSUME ConnectionInv, Next PROVE ActiveHasNoError'
<1>0. row \in Row /\ ActiveHasNoError
  BY DEF ConnectionInv, TypeOK
<1>1. CASE ResetRow \/ PersistAccount \/ RecoverRow
  BY <1>0, <1>1 DEF ResetRow, PersistAccount, RecoverRow, Row, ActiveHasNoError
<1>2. CASE ActivateRow \/ \E a \in Accounts : CallbackReportsFailure(a)
  BY <1>0, <1>2 DEF ActivateRow, CallbackReportsFailure, Row, ActiveHasNoError
<1>3. CASE SaveDisconnected \/ SweepReactivates
  BY <1>0, <1>3 DEF SaveDisconnected, SweepReactivates, Row, ActiveHasNoError
<1>4. ASSUME NEW w \in Workers, SaveTrigger(w) \/ SaveFailed(w) PROVE ActiveHasNoError'
  BY <1>0, <1>4 DEF SaveTrigger, SaveFailed, Row, ActiveHasNoError
<1>5. CASE UNCHANGED row
  BY <1>0, <1>5 DEF ActiveHasNoError
<1>6. QED
  BY <1>1, <1>2, <1>3, <1>4, <1>5
     DEF Next, ConnectStep, CallbackStep, DisconnectStep, WorkerStep, LinkNew,
         LinkAlreadyConnected, LinkFails, FindActive, CallbackSucceeds, VerifyAccount,
         VerifyFails, LockForDisconnect, DeleteUpstream, Consent, TakeMessage,
         CreateTrigger, TriggerRefused, TransientError, SweepLists, RetryTrigger

-----------------------------------------------------------------------------
(* Handlers that do not overlap.                                           *)

\* What starts something.
Starts ==
    \/ ResetRow \/ LockForDisconnect \/ SweepLists
    \/ \E a \in Accounts : CallbackSucceeds(a)
    \/ \E w \in Workers, n \in Attempts : TakeMessage(w, n)

LEMMA RacedStays == ASSUME Next, ~raced' PROVE ~raced
BY DEF Next, ConnectStep, CallbackStep, DisconnectStep, WorkerStep, ResetRow, LinkNew,
       LinkAlreadyConnected, LinkFails, PersistAccount, FindActive, RecoverRow,
       CallbackSucceeds, CallbackReportsFailure, VerifyAccount, VerifyFails, ActivateRow,
       LockForDisconnect, DeleteUpstream, SaveDisconnected, Consent, TakeMessage,
       CreateTrigger, TriggerRefused, TransientError, SaveTrigger, SaveFailed,
       SweepLists, SweepReactivates, RetryTrigger, Begins

LEMMA StartsQuietly ==
    ASSUME ~raced', Starts \/ \E a \in Accounts : CallbackReportsFailure(a)
    PROVE  Quiet
BY DEF Starts, ResetRow, LockForDisconnect, SweepLists, CallbackSucceeds, TakeMessage,
       CallbackReportsFailure, Begins

\* A step of a worker that starts nothing is one of a worker that works.
LEMMA WorkersWork ==
    ASSUME TypeOK, NEW w \in Workers, WorkerStep(w), ~Starts
    PROVE  w \in Working /\ Working' \subseteq Working
<1>1. worker[w].pc # "idle"
  BY DEF WorkerStep, Starts, CreateTrigger, TriggerRefused, TransientError, SaveTrigger,
         SaveFailed
<1>2. \A v \in Workers : v # w => worker'[v] = worker[v]
  BY WorkerWrites
<1>3. QED
  BY <1>1, <1>2 DEF Working

\* Nothing else becomes busy.
LEMMA BusyStay ==
    ASSUME TypeOK, Next, ~Starts
    PROVE  /\ connect'.pc # "idle" => connect.pc # "idle"
           /\ callback'.pc # "idle" => callback.pc # "idle"
           /\ Unlocked => Unlocked'
           /\ sweep' => sweep
           /\ Working' \subseteq Working
<1>1. ASSUME NEW w \in Workers, WorkerStep(w)
      PROVE  UNCHANGED <<connect, callback, disconnect, sweep>> /\ Working' \subseteq Working
  <2>1. UNCHANGED <<connect, callback, disconnect, sweep>>
    BY <1>1 DEF WorkerStep, TakeMessage, CreateTrigger, TriggerRefused, TransientError,
                SaveTrigger, SaveFailed, flows
  <2>2. QED
    BY <1>1, <2>1, WorkersWork
<1>2. CASE ConnectStep
  <2>1. connect.pc # "idle" /\ UNCHANGED <<callback, disconnect, sweep, worker>>
    BY <1>2 DEF Starts, ConnectStep, LinkNew, LinkAlreadyConnected, LinkFails,
                PersistAccount, FindActive, RecoverRow, tasks
  <2>2. QED
    BY <2>1 DEF Unlocked, Working
<1>3. CASE CallbackStep
  <2>1. UNCHANGED <<connect, disconnect, sweep, worker>>
    BY <1>3 DEF Starts, CallbackStep, CallbackReportsFailure, VerifyAccount, VerifyFails,
                ActivateRow, tasks
  <2>2. callback'.pc # "idle" => callback.pc # "idle"
    BY <1>3 DEF Starts, CallbackStep, CallbackReportsFailure, VerifyAccount, VerifyFails,
                ActivateRow
  <2>3. QED
    BY <2>1, <2>2 DEF Unlocked, Working
<1>4. CASE DisconnectStep \/ \E a \in Accounts : Consent(a)
  <2>1. UNCHANGED <<connect, callback, sweep, worker>> /\ (Unlocked => Unlocked')
    BY <1>4 DEF Starts, DisconnectStep, DeleteUpstream, SaveDisconnected, Consent, flows,
                tasks, Unlocked
  <2>2. QED
    BY <2>1 DEF Working
<1>5. CASE SweepReactivates \/ RetryTrigger
  <2>1. UNCHANGED <<connect, callback, disconnect, worker>> /\ (sweep' => sweep)
    BY <1>5 DEF SweepReactivates, RetryTrigger, flows
  <2>2. QED
    BY <2>1 DEF Unlocked, Working
<1>6. QED
  BY <1>1, <1>2, <1>3, <1>4, <1>5 DEF Next, Starts, Unlocked

LEMMA AloneStep == ASSUME ConnectionInv, Next PROVE Alone'
<1>0. TypeOK /\ Alone
  BY DEF ConnectionInv
<1> SUFFICES ASSUME ~raced'
             PROVE  (/\ connect.pc # "idle" =>
                          callback.pc = "idle" /\ Unlocked /\ ~sweep /\ Working = {}
                     /\ callback.pc # "idle" => Unlocked /\ ~sweep /\ Working = {}
                     /\ ~Unlocked => ~sweep /\ Working = {}
                     /\ sweep => Working = {}
                     /\ \A v, w \in Working : v = w)'
  BY DEF Alone
<1>1. CASE Starts
  <2>1. Quiet /\ Working = {}
    BY <1>1, StartsQuietly DEF Quiet, Working
  <2>2. CASE ResetRow
    BY <2>1, <2>2 DEF ResetRow, Quiet, Unlocked, tasks, Working
  <2>3. CASE LockForDisconnect
    BY <2>1, <2>3 DEF LockForDisconnect, Quiet, Unlocked, flows, tasks, Working
  <2>4. CASE SweepLists
    BY <2>1, <2>4 DEF SweepLists, Quiet, Unlocked, flows, Working
  <2>5. ASSUME NEW a \in Accounts, CallbackSucceeds(a)
        PROVE  /\ UNCHANGED <<connect, disconnect, tasks>> /\ Working' = {}
    BY <2>1, <2>5 DEF CallbackSucceeds, tasks, Working
  <2>6. ASSUME NEW w \in Workers, NEW n \in Attempts, TakeMessage(w, n)
        PROVE  UNCHANGED <<flows, disconnect, sweep>> /\ Working' \subseteq {w}
    <3>1. \A v \in Workers : v # w => worker'[v] = worker[v]
      BY <1>0, <2>6, WorkerWrites DEF WorkerStep
    <3>2. QED
      BY <2>1, <2>6, <3>1 DEF TakeMessage, Working
  <2>7. QED
    BY <1>1, <2>1, <2>2, <2>3, <2>4, <2>5, <2>6 DEF Starts, Quiet, Unlocked, flows, tasks
<1>2. CASE ~Starts
  BY <1>0, <1>2, BusyStay, RacedStays DEF Alone
<1>3. QED
  BY <1>1, <1>2

LEMMA WorkFitsStep == ASSUME ConnectionInv, Next PROVE WorkFitsTheRow'
<1>0. TypeOK /\ Alone /\ WorkFitsTheRow /\ row \in Row
  BY DEF ConnectionInv, TypeOK
<1> DEFINE Fits ==
             /\ connect.pc # "idle" => row.status = "pending" /\ row.error = "none"
             /\ sweep => row.status = "failed" /\ row.error = "provisioning"
             /\ \A w \in Working :
                   /\ row.status = "active" /\ worker[w].account = row.account
                   /\ worker[w].pc = "saving" => row.account \in triggers
<1> SUFFICES ASSUME ~raced' PROVE Fits'
  BY DEF WorkFitsTheRow
<1>a. ~raced /\ Fits
  BY <1>0, RacedStays DEF WorkFitsTheRow
<1>1. CASE Starts
  <2>1. Quiet /\ Working = {}
    BY <1>1, StartsQuietly DEF Quiet, Working
  <2>2. CASE ResetRow
    BY <1>0, <2>1, <2>2 DEF ResetRow, Quiet, tasks, Working, Row
  <2>3. CASE LockForDisconnect
    BY <2>1, <2>3 DEF LockForDisconnect, Quiet, flows, tasks, Working
  <2>4. CASE SweepLists
    BY <2>1, <2>4 DEF SweepLists, Sweepable, Quiet, flows, Working
  <2>5. ASSUME NEW a \in Accounts, CallbackSucceeds(a) PROVE Fits'
    BY <2>1, <2>5 DEF CallbackSucceeds, Quiet, tasks, Working
  <2>6. ASSUME NEW w \in Workers, NEW n \in Attempts, TakeMessage(w, n) PROVE Fits'
    <3>1. \A v \in Workers : v # w => worker'[v] = worker[v]
      BY <1>0, <2>6, WorkerWrites DEF WorkerStep
    <3>2. Working' \subseteq {w}
      BY <2>1, <3>1 DEF Working
    <3>3. UNCHANGED <<row, triggers, connect, sweep>>
      BY <2>6 DEF TakeMessage, flows
    <3>4. worker'[w].pc # "idle" =>
             /\ row.status = "active" /\ worker'[w].account = row.account
             /\ worker'[w].pc # "saving"
      BY <1>0, <2>6 DEF TakeMessage, Provisionable, IdleWorker, TypeOK
    <3>5. QED
      BY <2>1, <3>2, <3>3, <3>4 DEF Quiet, Working
  <2>7. QED
    BY <1>1, <2>2, <2>3, <2>4, <2>5, <2>6 DEF Starts
<1>2. CASE ~Starts
  <2>0. /\ connect'.pc # "idle" => connect.pc # "idle"
        /\ sweep' => sweep
        /\ Working' \subseteq Working
    BY <1>0, <1>2, BusyStay
  <2>1. CASE ConnectStep
    <3>1. connect.pc # "idle"
      BY <1>2, <2>1 DEF Starts, ConnectStep, LinkNew, LinkAlreadyConnected, LinkFails,
                        PersistAccount, FindActive, RecoverRow
    <3>2. Working = {} /\ ~sweep
      BY <1>0, <1>a, <3>1 DEF Alone
    <3>3. connect'.pc # "idle" => UNCHANGED row
      BY <1>2, <2>1 DEF Starts, ConnectStep, LinkNew, LinkAlreadyConnected, LinkFails,
                        PersistAccount, FindActive, RecoverRow, Idle
    <3>4. QED
      BY <1>a, <2>0, <3>1, <3>2, <3>3
  <2>2. CASE CallbackStep
    <3>1. CASE UNCHANGED row
      <4>1. UNCHANGED <<triggers, worker>>
        BY <2>2 DEF CallbackStep, CallbackSucceeds, CallbackReportsFailure, VerifyAccount,
                    VerifyFails, ActivateRow, tasks
      <4>2. QED
        BY <1>a, <2>0, <3>1, <4>1
    <3>2. CASE ActivateRow \/ \E a \in Accounts : CallbackReportsFailure(a)
      <4>1. connect.pc = "idle" /\ ~sweep /\ Working = {}
        <5>1. CASE ActivateRow
          BY <1>0, <1>a, <5>1 DEF ActivateRow, Alone
        <5>2. CASE \E a \in Accounts : CallbackReportsFailure(a)
          BY <5>2, StartsQuietly DEF Quiet, Working
        <5>3. QED
          BY <3>2, <5>1, <5>2
      <4>2. QED
        BY <2>0, <4>1
    <3>3. QED
      BY <1>2, <2>2, <3>1, <3>2 DEF CallbackStep, Starts, VerifyAccount, VerifyFails
  <2>3. CASE DisconnectStep
    <3>1. ~Unlocked
      BY <1>2, <2>3 DEF Starts, DisconnectStep, DeleteUpstream, SaveDisconnected, Unlocked
    <3>2. connect.pc = "idle" /\ ~sweep /\ Working = {}
      BY <1>0, <1>a, <3>1 DEF Alone
    <3>3. QED
      BY <2>0, <3>2
  <2>4. ASSUME NEW a \in Accounts, Consent(a) PROVE Fits'
    BY <1>a, <2>4 DEF Consent, flows, tasks, Working
  <2>5. ASSUME NEW w \in Workers, WorkerStep(w) PROVE Fits'
    <3>1. w \in Working
      BY <1>0, <1>2, <2>5, WorkersWork
    <3>2. /\ connect.pc = "idle" /\ ~sweep /\ Working = {w}
      BY <1>0, <1>a, <3>1 DEF Alone
    <3>3. CASE CreateTrigger(w) \/ TriggerRefused(w) \/ TransientError(w)
      <4>1. UNCHANGED row /\ triggers \subseteq triggers'
        BY <3>3 DEF CreateTrigger, TriggerRefused, TransientError
      <4>2. /\ worker'[w].pc # "idle" => worker'[w].account = worker[w].account
            /\ worker'[w].pc = "saving" => worker[w].account \in triggers'
        BY <1>0, <3>1, <3>3
           DEF CreateTrigger, TriggerRefused, TransientError, IdleWorker, TypeOK, Working
      <4>3. QED
        BY <1>a, <2>0, <3>2, <4>1, <4>2 DEF Working
    <3>4. CASE SaveTrigger(w) \/ SaveFailed(w)
      <4>1. Working' = {}
        BY <1>0, <2>0, <3>2, <3>4
           DEF SaveTrigger, SaveFailed, IdleWorker, TypeOK, Working
      <4>2. QED
        BY <2>0, <3>2, <4>1
    <3>5. QED
      BY <1>2, <2>5, <3>3, <3>4 DEF WorkerStep, Starts
  <2>6. CASE SweepReactivates
    <3>1. connect.pc = "idle" /\ Working = {} /\ ~sweep'
      BY <1>0, <1>a, <2>6 DEF SweepReactivates, Alone
    <3>2. QED
      BY <2>0, <3>1
  <2>7. CASE RetryTrigger
    BY <1>a, <2>7 DEF RetryTrigger, flows, Working
  <2>8. QED
    BY <1>2, <2>1, <2>2, <2>3, <2>4, <2>5, <2>6, <2>7 DEF Next, Starts
<1>3. QED
  BY <1>1, <1>2

LEMMA ProvisionedStep == ASSUME ConnectionInv, Next PROVE ProvisionedWasConsented'
<1>0. /\ TypeOK /\ row \in Row /\ Alone /\ WorkFitsTheRow /\ ProvisionedWasConsented
      /\ FlowsKnowTheirAccount
  BY DEF ConnectionInv, TypeOK
<1> SUFFICES ASSUME ~raced', row'.status = "active" \/ row'.error = "provisioning"
             PROVE  Consented(row.account)'
  BY DEF ProvisionedWasConsented
<1>a. ~raced
  BY RacedStays
\* The account of the row is left alone, and had been consented to ...
<1>b. ASSUME row'.account = row.account, Consented(row.account) PROVE Consented(row.account)'
  <2>1. row.account \in Accounts
    BY <1>0, <1>b DEF Row, Consented
  <2>2. \A a \in Accounts : Consented(a) => Consented(a)'
    BY <1>0, ConsentStays
  <2>3. QED
    BY <1>b, <2>1, <2>2 DEF Consented
\* ... or it is taken from a flow that had the user's consent.
<1>c. ASSUME NEW a \in Accounts, row'.account = a, Consented(a) PROVE Consented(row.account)'
  <2>1. Consented(a)'
    BY <1>0, <1>c, ConsentStays
  <2>2. QED
    BY <1>c, <2>1 DEF Consented
<1>1. CASE UNCHANGED row
  BY <1>0, <1>1, <1>a, <1>b DEF ProvisionedWasConsented
<1>2. CASE ResetRow
  BY <1>0, <1>2 DEF ResetRow, Row
<1>3. CASE PersistAccount
  BY <1>0, <1>3, <1>a DEF PersistAccount, WorkFitsTheRow, Row
<1>4. CASE RecoverRow
  <2>1. row'.account = connect.account /\ Consented(connect.account)
    BY <1>0, <1>4 DEF RecoverRow, Row, FlowsKnowTheirAccount
  <2>2. connect.account \in Accounts
    BY <1>0, <2>1 DEF TypeOK, Consented
  <2>3. QED
    BY <2>1, <2>2, <1>c
<1>5. CASE ActivateRow
  <2>1. row'.account = callback.account /\ Consented(callback.account)
    BY <1>0, <1>5 DEF ActivateRow, Row, FlowsKnowTheirAccount
  <2>2. callback.account \in Accounts
    BY <1>0, <2>1 DEF TypeOK, Consented
  <2>3. QED
    BY <2>1, <2>2, <1>c
<1>6. CASE SaveDisconnected \/ \E a \in Accounts : CallbackReportsFailure(a)
  BY <1>0, <1>6 DEF SaveDisconnected, CallbackReportsFailure, Row
<1>7. ASSUME NEW w \in Workers, SaveTrigger(w) \/ SaveFailed(w)
      PROVE  Consented(row.account)'
  <2>1. w \in Working
    BY <1>7 DEF SaveTrigger, SaveFailed, Working
  <2>2. row.status = "active"
    BY <1>0, <1>a, <2>1 DEF WorkFitsTheRow
  <2>3. row'.account = row.account
    BY <1>0, <1>7 DEF SaveTrigger, SaveFailed, Row
  <2>4. QED
    BY <1>0, <1>a, <1>b, <2>2, <2>3 DEF ProvisionedWasConsented
<1>8. CASE SweepReactivates
  <2>1. row.error = "provisioning"
    BY <1>0, <1>8, <1>a DEF SweepReactivates, WorkFitsTheRow
  <2>2. row'.account = row.account
    BY <1>0, <1>8 DEF SweepReactivates, Row
  <2>3. QED
    BY <1>0, <1>a, <1>b, <2>1, <2>2 DEF ProvisionedWasConsented
<1>9. QED
  BY <1>1, <1>2, <1>3, <1>4, <1>5, <1>6, <1>7, <1>8
     DEF Next, ConnectStep, CallbackStep, DisconnectStep, WorkerStep, LinkNew,
         LinkAlreadyConnected, LinkFails, FindActive, CallbackSucceeds, VerifyAccount,
         VerifyFails, LockForDisconnect, DeleteUpstream, Consent, TakeMessage,
         CreateTrigger, TriggerRefused, TransientError, SweepLists, RetryTrigger

-----------------------------------------------------------------------------
(* An active connection is provisioned.                                    *)

\* Transient errors do not use the retries of a message up.
FewTransients == MaxTransients <= MaxRetries

LEMMA QueuedStays ==
    ASSUME TypeOK, NEW n \in Attempts, Enqueue(n) PROVE Queued' # {}
BY DEF TypeOK, Enqueue, Queued

LEMMA ActiveStep ==
    ASSUME FewTransients, ConnectionInv, ActiveIsProvisioned, Next
    PROVE  ActiveIsProvisioned'
<1>0. /\ TypeOK /\ row \in Row /\ Alone /\ WorkFitsTheRow /\ 0 \in Attempts
  BY BoundsAssumption DEF ConnectionInv, TypeOK, Attempts
<1> SUFFICES ASSUME ~raced', row'.status = "active", Unlocked', Queued' = {}, Working' = {}
             PROVE  row'.trigger = row'.account /\ row'.account \in triggers'
  BY DEF ActiveIsProvisioned
<1>a. ~raced
  BY RacedStays
\* Whoever has just ended or begun something left a message, a worker at work or
\* a row that is not active; what is left is the end of a worker's job ...
<1>1. ASSUME NEW w \in Workers, SaveTrigger(w)
      PROVE  row'.trigger = row'.account /\ row'.account \in triggers'
  <2>1. w \in Working
    BY <1>1 DEF SaveTrigger, Working
  <2>2. worker[w].account = row.account /\ row.account \in triggers
    BY <1>0, <1>1, <1>a, <2>1 DEF WorkFitsTheRow, SaveTrigger
  <2>3. QED
    BY <1>0, <1>1, <2>2 DEF SaveTrigger, Row
<1>2. ASSUME NEW w \in Workers, WorkerStep(w), ~SaveTrigger(w) PROVE FALSE
  <2>1. ASSUME NEW n \in Attempts, TakeMessage(w, n) PROVE FALSE
    <3>1. row.status = "active"
      BY <2>1 DEF TakeMessage
    <3>2. worker'[w].pc = "creating"
      BY <1>0, <2>1, <3>1 DEF TakeMessage, Provisionable, TypeOK
    <3>3. QED
      BY <3>2 DEF Working
  <2>2. CASE CreateTrigger(w) \/ TriggerRefused(w)
    <3>1. worker'[w].pc # "idle"
      BY <1>0, <2>2 DEF CreateTrigger, TriggerRefused, TypeOK
    <3>2. QED
      BY <3>1 DEF Working
  <2>3. CASE TransientError(w)
    <3>1. worker[w].attempt \in Attempts
      BY <1>0 DEF TypeOK
    <3>2. worker[w].attempt < MaxRetries /\ worker[w].attempt + 1 \in Attempts
      BY <2>3, <3>1, BoundsAssumption DEF TransientError, FewTransients, Attempts
    <3>3. Enqueue(worker[w].attempt + 1)
      BY <2>3, <3>2 DEF TransientError
    <3>4. QED
      BY <1>0, <3>2, <3>3, QueuedStays
  <2>4. CASE SaveFailed(w)
    BY <1>0, <2>4 DEF SaveFailed, Row
  <2>5. QED
    BY <1>2, <2>1, <2>2, <2>3, <2>4 DEF WorkerStep
<1>3. ASSUME RecoverRow \/ ActivateRow \/ SweepReactivates \/ RetryTrigger PROVE FALSE
  <2>1. Enqueue(0)
    BY <1>3 DEF RecoverRow, ActivateRow, SweepReactivates, RetryTrigger
  <2>2. QED
    BY <1>0, <2>1, QueuedStays
<1>4. ASSUME DisconnectStep PROVE FALSE
  BY <1>0, <1>4
     DEF DisconnectStep, LockForDisconnect, DeleteUpstream, SaveDisconnected, Unlocked, Row
<1>5. ASSUME ResetRow \/ PersistAccount \/ \E a \in Accounts : CallbackReportsFailure(a)
      PROVE  FALSE
  <2>1. CASE PersistAccount
    BY <1>0, <1>a, <2>1 DEF PersistAccount, WorkFitsTheRow, Row
  <2>2. QED
    BY <1>0, <1>5, <2>1 DEF ResetRow, CallbackReportsFailure, Row
\* ... or nothing of this at all.
<1>6. CASE UNCHANGED <<row, triggers, disconnect, queue, worker>>
  BY <1>6, <1>a DEF ActiveIsProvisioned, Unlocked, Queued, Working
<1>7. QED
  BY <1>1, <1>2, <1>3, <1>4, <1>5, <1>6
     DEF Next, ConnectStep, CallbackStep, LinkNew, LinkAlreadyConnected, LinkFails,
         FindActive, CallbackSucceeds, VerifyAccount, VerifyFails, Consent, SweepLists,
         flows, tasks

-----------------------------------------------------------------------------
(* The diagram of the connection.                                          *)

\* Who is at work on the row, or may come back to it, has found it made.
RowIsMade ==
    ~row.there => /\ connect.pc = "idle" /\ callback.pc = "idle" /\ Unlocked
                  /\ issued = {}

LEMMA RowIsMadeStep == ASSUME TypeOK, RowIsMade, Next PROVE RowIsMade'
<1>0. row \in Row
  BY DEF TypeOK
<1>1. row'.there = row.there \/ ResetRow
  BY <1>0
     DEF Row, Next, ConnectStep, CallbackStep, DisconnectStep, WorkerStep, LinkNew,
         LinkAlreadyConnected, LinkFails, PersistAccount, FindActive, RecoverRow,
         CallbackSucceeds, CallbackReportsFailure, VerifyAccount, VerifyFails, ActivateRow,
         LockForDisconnect, DeleteUpstream, SaveDisconnected, Consent, TakeMessage,
         CreateTrigger, TriggerRefused, TransientError, SaveTrigger, SaveFailed,
         SweepLists, SweepReactivates, RetryTrigger
<1>2. CASE ResetRow
  BY <1>0, <1>2 DEF ResetRow, Row, RowIsMade
<1>3. ASSUME row'.there = row.there, ~row.there, ~ResetRow
      PROVE  UNCHANGED <<connect, callback, disconnect, issued>>
  BY <1>3
     DEF RowIsMade, Unlocked, Fresh, Next, ConnectStep, CallbackStep, DisconnectStep,
         WorkerStep, LinkNew, LinkAlreadyConnected, LinkFails, PersistAccount, FindActive,
         RecoverRow, CallbackSucceeds, CallbackReportsFailure, VerifyAccount, VerifyFails,
         ActivateRow, LockForDisconnect, DeleteUpstream, SaveDisconnected, Consent,
         TakeMessage, CreateTrigger, TriggerRefused, TransientError, SaveTrigger,
         SaveFailed, SweepLists, SweepReactivates, RetryTrigger, flows, tasks
<1>4. QED
  BY <1>1, <1>2, <1>3 DEF RowIsMade, Unlocked

\* What the phase says of the row, and the row of the phase.
LEMMA PhaseOfTheRow ==
    ASSUME row \in Row, Unlocked, row.there
    PROVE  /\ row.status = "pending" => Phase = "connecting"
           /\ row.status = "active" => Phase = IF HasItsTrigger THEN "ready" ELSE "waiting"
           /\ row.status = "failed" =>
                Phase = IF row.error = "provisioning" THEN "failing" ELSE "refused"
           /\ row.status = "disconnected" => Phase = "off"
BY DEF Phase, Row

LEMMA PhaseOfNone == Unlocked /\ ~row.there => Phase = "none"
BY DEF Phase

LEMMA PhaseOfTheLock == ~Unlocked => Phase = "closing"
BY DEF Phase

LEMMA PhaseType == ASSUME row \in Row PROVE Phase \in Abstract!Phases
BY PhaseOfTheRow, PhaseOfNone, PhaseOfTheLock
   DEF Row, Abstract!Phases, Abstract!Up, Abstract!Broken

\* A step of handlers that do not overlap makes a move of the diagram or none.
LEMMA DiagramStep ==
    ASSUME ConnectionInv, RowIsMade, Next, ~raced'
    PROVE  Abstract!Next \/ UNCHANGED <<Phase, landed>>
<1>0. /\ TypeOK /\ row \in Row /\ Alone /\ WorkFitsTheRow /\ NonceSpentOnce /\ ~raced
      /\ landed \in [Accounts -> Nat]
  BY RacedStays DEF ConnectionInv, TypeOK
<1>1. row' \in Row
  BY StepType DEF TypeOK
<1> DEFINE Starting == Phase \in Abstract!Phases \ {"none", "closing"}
<1>s. Unlocked /\ row.there => Starting
  BY <1>0, PhaseOfTheRow DEF Row, Abstract!Phases, Abstract!Up, Abstract!Broken
\* The user.
<1>2. ASSUME ResetRow PROVE Abstract!Connect
  <2>1. Unlocked /\ Unlocked' /\ row'.there /\ row'.status = "pending" /\ landed' = landed
    BY <1>0, <1>2 DEF ResetRow, Row, Unlocked
  <2>2. Phase \in Abstract!Phases \ {"closing"}
    BY <1>0, <2>1, PhaseOfNone, <1>s DEF Abstract!Phases
  <2>3. Phase' = "connecting"
    BY <2>1 DEF Phase, Unlocked
  <2>4. QED
    BY <2>1, <2>2, <2>3 DEF Abstract!Connect, Abstract!Move
<1>3. ASSUME NEW a \in Accounts, CallbackReportsFailure(a) PROVE Abstract!Lands(a)
  <2>1. row.there
    BY <1>3 DEF CallbackReportsFailure, Fresh, RowIsMade
  <2>2. /\ Unlocked /\ Unlocked' /\ row'.there
        /\ row'.status = "failed" /\ row'.error = "callback"
    BY <1>0, <1>3, <2>1 DEF CallbackReportsFailure, Row, Unlocked
  <2>3. landed[a] = 0 /\ landed' = [landed EXCEPT ![a] = 1]
    <3>1. landed[a] = 0
      BY <1>0, <1>3 DEF CallbackReportsFailure, Fresh, NonceSpentOnce
    <3>2. landed[a] + 1 = 1
      BY <3>1
    <3>3. QED
      BY <1>3, <3>1, <3>2 DEF CallbackReportsFailure
  <2>4. Phase' = "refused"
    BY <2>2 DEF Phase, Unlocked
  <2>5. QED
    BY <1>s, <2>1, <2>2, <2>3, <2>4 DEF Abstract!Lands, Abstract!Move
<1>4. ASSUME ActivateRow PROVE Abstract!Lands(callback.account)
  <2>1. row.there
    BY <1>4 DEF ActivateRow, RowIsMade
  <2>2. callback.account \in used /\ landed[callback.account] = 0
    BY <1>0, <1>4 DEF ActivateRow, NonceSpentOnce
  <2>3. callback.account \in Accounts
    BY <1>0, <2>2 DEF TypeOK
  <2>4. /\ Unlocked /\ Unlocked' /\ row'.there /\ row'.status = "active"
        /\ row'.trigger = Blank /\ row'.account \in Accounts
    BY <1>0, <1>4, <2>1, <2>3 DEF ActivateRow, Row, Unlocked
  <2>5. landed' = [landed EXCEPT ![callback.account] = 1]
    BY <1>0, <1>4, <2>2, <2>3 DEF ActivateRow
  <2>6. Phase' = "waiting"
    BY <2>4, BlankIsNoAccount DEF Phase, Unlocked, HasItsTrigger
  <2>7. QED
    BY <1>s, <2>1, <2>2, <2>4, <2>5, <2>6 DEF Abstract!Lands, Abstract!Move
<1>5. ASSUME LockForDisconnect PROVE Abstract!Disconnect
  <2>1. Unlocked /\ row.there /\ row.status # "disconnected" /\ landed' = landed
    BY <1>5 DEF LockForDisconnect, flows
  <2>2. Phase' = "closing"
    BY <1>5 DEF LockForDisconnect, Phase, Unlocked
  <2>3. Phase # "off"
    BY <1>0, <2>1, PhaseOfTheRow DEF Row
  <2>4. QED
    BY <1>s, <2>1, <2>2, <2>3 DEF Abstract!Disconnect, Abstract!Move
<1>6. ASSUME SaveDisconnected PROVE Abstract!Close
  <2>1. ~Unlocked /\ landed' = landed /\ Unlocked'
    BY <1>6 DEF SaveDisconnected, Unlocked, flows
  <2>2. row'.there /\ row'.status = "disconnected"
    BY <1>0, <1>6, <2>1 DEF SaveDisconnected, RowIsMade, Row
  <2>3. Phase' = "off"
    BY <2>1, <2>2 DEF Phase, Unlocked
  <2>4. QED
    BY <2>1, <2>3, PhaseOfTheLock DEF Abstract!Close, Abstract!Move
\* The services.
<1>7. ASSUME RecoverRow PROVE Abstract!Recover
  <2>1. connect.pc # "idle" /\ Unlocked /\ Unlocked' /\ landed' = landed
    BY <1>7 DEF RecoverRow, Unlocked
  <2>2. row.there /\ row.status = "pending"
    BY <1>0, <2>1 DEF RowIsMade, WorkFitsTheRow
  <2>3. row'.there /\ row'.status = "active"
    BY <1>0, <1>7, <2>2 DEF RecoverRow, Row
  <2>4. Phase = "connecting"
    BY <1>0, <2>1, <2>2, PhaseOfTheRow
  <2>5. Phase' \in Abstract!Up
    BY <2>1, <2>3 DEF Phase, Unlocked, Abstract!Up
  <2>6. QED
    BY <2>1, <2>4, <2>5 DEF Abstract!Recover, Abstract!Move
<1>8. ASSUME SweepReactivates PROVE Abstract!Retry \/ UNCHANGED <<Phase, landed>>
  <2>1. /\ Unlocked /\ Unlocked' /\ landed' = landed
        /\ row.status = "failed" /\ row.error = "provisioning"
        /\ row'.there = row.there /\ row'.status = "active"
    BY <1>0, <1>8 DEF SweepReactivates, WorkFitsTheRow, Row, Unlocked, flows
  <2>2. CASE row.there
    <3>1. Phase = "failing"
      BY <1>0, <2>1, <2>2, PhaseOfTheRow
    <3>2. Phase' \in Abstract!Up
      BY <2>1, <2>2 DEF Phase, Unlocked, Abstract!Up
    <3>3. QED
      BY <2>1, <3>1, <3>2 DEF Abstract!Retry, Abstract!Move
  <2>3. CASE ~row.there
    BY <2>1, <2>3 DEF Phase, Unlocked
  <2>4. QED
    BY <2>2, <2>3
\* A worker at work has the lock free and the row active, with the worker's account.
<1>9. ASSUME NEW w \in Workers, WorkerStep(w), worker[w].pc # "idle"
      PROVE  Abstract!Next \/ UNCHANGED <<Phase, landed>>
  <2>1. /\ Unlocked /\ Unlocked' /\ landed' = landed
        /\ row.status = "active" /\ worker[w].account = row.account
        /\ worker[w].pc = "saving" => row.account \in triggers
    <3>1. w \in Working
      BY <1>9 DEF Working
    <3>2. /\ Unlocked /\ row.status = "active" /\ worker[w].account = row.account
          /\ worker[w].pc = "saving" => row.account \in triggers
      BY <1>0, <3>1 DEF Alone, WorkFitsTheRow
    <3>3. landed' = landed /\ disconnect' = disconnect
      BY <1>9 DEF WorkerStep, TakeMessage, CreateTrigger, TriggerRefused, TransientError,
                  SaveTrigger, SaveFailed, flows
    <3>4. QED
      BY <3>2, <3>3 DEF Unlocked
  <2>2. CASE SaveFailed(w)
    <3>1. row'.there = row.there /\ row'.status = "failed" /\ row'.error = "provisioning"
      BY <1>0, <2>2 DEF SaveFailed, Row
    <3>2. CASE row.there
      <4>1. Phase \in Abstract!Up
        BY <1>0, <2>1, <3>2, PhaseOfTheRow DEF Abstract!Up
      <4>2. Phase' = "failing"
        BY <2>1, <3>1, <3>2 DEF Phase, Unlocked
      <4>3. QED
        BY <2>1, <4>1, <4>2 DEF Abstract!Next, Abstract!Fail, Abstract!Move
    <3>3. CASE ~row.there
      BY <2>1, <3>1, <3>3 DEF Phase, Unlocked
    <3>4. QED
      BY <3>2, <3>3
  <2>3. ASSUME row'.there = row.there, row'.status = "active", HasItsTrigger => HasItsTrigger'
        PROVE  Abstract!Next \/ UNCHANGED <<Phase, landed>>
    <3>1. CASE row.there
      <4>1. /\ Phase = IF HasItsTrigger THEN "ready" ELSE "waiting"
            /\ Phase' = IF HasItsTrigger' THEN "ready" ELSE "waiting"
        BY <2>1, <2>3, <3>1 DEF Phase, Unlocked
      <4>2. CASE HasItsTrigger' /\ ~HasItsTrigger
        BY <2>1, <4>1, <4>2 DEF Abstract!Next, Abstract!Provision, Abstract!Move
      <4>3. CASE HasItsTrigger' <=> HasItsTrigger
        BY <2>1, <4>1, <4>3
      <4>4. QED
        BY <2>3, <4>2, <4>3
    <3>2. CASE ~row.there
      BY <2>1, <2>3, <3>2 DEF Phase, Unlocked
    <3>3. QED
      BY <3>1, <3>2
  <2>4. CASE CreateTrigger(w)
    BY <2>1, <2>3, <2>4 DEF CreateTrigger, HasItsTrigger
  <2>5. CASE SaveTrigger(w)
    <3>1. row'.there = row.there /\ row'.status = "active" /\ HasItsTrigger'
      BY <1>0, <2>1, <2>5 DEF SaveTrigger, HasItsTrigger, Row
    <3>2. QED
      BY <2>3, <3>1
  <2>6. CASE (\E n \in Attempts : TakeMessage(w, n)) \/ TriggerRefused(w) \/ TransientError(w)
    BY <2>1, <2>3, <2>6 DEF TakeMessage, TriggerRefused, TransientError, HasItsTrigger
  <2>7. QED
    BY <1>9, <2>2, <2>4, <2>5, <2>6 DEF WorkerStep
\* Nothing else shows.
<1>10. CASE PersistAccount
  <2>1. /\ Unlocked /\ Unlocked' /\ landed' = landed
        /\ row.status = "pending" /\ row'.status = "pending" /\ row'.there = row.there
    BY <1>0, <1>10 DEF PersistAccount, WorkFitsTheRow, Row, Unlocked
  <2>2. QED
    BY <2>1 DEF Phase, Unlocked
<1>11. CASE DeleteUpstream
  BY <1>11 DEF DeleteUpstream, Phase, Unlocked, flows
<1>12. CASE UNCHANGED <<row, triggers, landed, disconnect>>
  BY <1>12 DEF Phase, HasItsTrigger, Unlocked
<1>13. ASSUME NEW w \in Workers, WorkerStep(w), worker[w].pc = "idle"
       PROVE  UNCHANGED <<row, triggers, landed, disconnect>>
  BY <1>13 DEF WorkerStep, TakeMessage, CreateTrigger, TriggerRefused, TransientError,
               SaveTrigger, SaveFailed, flows
<1>14. callback.pc = "verified" => callback.account \in Accounts
  BY <1>0 DEF TypeOK, NonceSpentOnce
<1>15. CASE ResetRow \/ ActivateRow \/ LockForDisconnect \/ SaveDisconnected \/ RecoverRow
            \/ SweepReactivates \/ \E a \in Accounts : CallbackReportsFailure(a)
  <2>1. ActivateRow => callback.account \in Accounts
    BY <1>14 DEF ActivateRow
  <2>2. QED
    BY <1>2, <1>3, <1>4, <1>5, <1>6, <1>7, <1>8, <1>15, <2>1 DEF Abstract!Next
<1>16. QED
  BY <1>9, <1>10, <1>11, <1>12, <1>13, <1>15
     DEF Next, ConnectStep, CallbackStep, DisconnectStep, LinkNew, LinkAlreadyConnected,
         LinkFails, FindActive, CallbackSucceeds, VerifyAccount, VerifyFails, Consent,
         SweepLists, RetryTrigger, flows

-----------------------------------------------------------------------------
(* Theorems.                                                               *)

\* What handlers that overlap, and those that do not, keep of the row, the
\* flows and the workers.
THEOREM ConnectionInvariantHolds == Spec => []ConnectionInv
<1>1. Init => ConnectionInv
  <2> SUFFICES ASSUME Init PROVE ConnectionInv
    OBVIOUS
  <2>1. NonceSpentOnce /\ FlowsKnowTheirAccount /\ ActiveHasNoError
    BY DEF Init, NonceSpentOnce, FlowsKnowTheirAccount, ActiveHasNoError, Idle
  <2>2. Working = {}
    BY DEF Init, Working, IdleWorker
  <2>3. Alone /\ WorkFitsTheRow /\ ProvisionedWasConsented
    BY <2>2 DEF Init, Alone, WorkFitsTheRow, ProvisionedWasConsented, Unlocked, Idle
  <2>4. QED
    BY <2>1, <2>3, InitType DEF ConnectionInv
<1>2. ConnectionInv /\ [Next]_vars => ConnectionInv'
  <2> SUFFICES ASSUME ConnectionInv, [Next]_vars PROVE ConnectionInv'
    OBVIOUS
  <2>1. CASE Next
    BY <2>1, StepType, NonceStep, FlowsStep, NoErrorStep, AloneStep, WorkFitsStep,
       ProvisionedStep DEF ConnectionInv
  <2>2. CASE UNCHANGED vars
    <3>1. UNCHANGED <<row, account, triggers, connect, issued, used, callback, landed,
                      disconnect, queue, worker, sweep, raced>>
      BY <2>2 DEF vars, flows, tasks
    <3>2. TypeOK' /\ NonceSpentOnce' /\ FlowsKnowTheirAccount' /\ ActiveHasNoError'
      BY <3>1 DEF ConnectionInv, TypeOK, NonceSpentOnce, FlowsKnowTheirAccount,
                  ActiveHasNoError, Consented
    <3>3. Alone' /\ WorkFitsTheRow' /\ ProvisionedWasConsented'
      BY <3>1 DEF ConnectionInv, Alone, WorkFitsTheRow, ProvisionedWasConsented, Consented,
                  Working, Unlocked
    <3>4. QED
      BY <3>2, <3>3 DEF ConnectionInv
  <2>3. QED
    BY <2>1, <2>2
<1>3. QED
  BY <1>1, <1>2, PTL DEF Spec

\* The row tells the user what Composio would, if transient errors do not use
\* the retries up: an active connection has its user's consent and, once
\* nothing is left to be done, its trigger; and a flow lands once.
THEOREM ConnectionTruthful ==
    ASSUME FewTransients PROVE Spec => []ConnectionIsTruthful
<1>1. Init => ActiveIsProvisioned
  BY DEF Init, ActiveIsProvisioned
<1>2. ConnectionInv /\ ActiveIsProvisioned /\ [Next]_vars => ActiveIsProvisioned'
  <2> SUFFICES ASSUME ConnectionInv, ActiveIsProvisioned, [Next]_vars
               PROVE  ActiveIsProvisioned'
    OBVIOUS
  <2>1. CASE UNCHANGED vars
    BY <2>1 DEF vars, flows, tasks, ActiveIsProvisioned, Unlocked, Queued, Working
  <2>2. QED
    BY <2>1, ActiveStep
<1>3. ConnectionInv /\ ActiveIsProvisioned => ConnectionIsTruthful
  <2> SUFFICES ASSUME ConnectionInv, ActiveIsProvisioned PROVE ConnectionIsTruthful
    OBVIOUS
  <2>1. TypeOK /\ OneLandingPerFlow
    BY DEF ConnectionInv, NonceSpentOnce, OneLandingPerFlow
  <2>2. ActiveMeansConsented
    BY DEF ConnectionInv, ProvisionedWasConsented, Consented, ActiveMeansConsented
  <2>3. SettledActiveHasItsTrigger
    BY DEF ActiveIsProvisioned, SettledActiveHasItsTrigger, Quiet, Working
  <2>4. QED
    BY <2>1, <2>2, <2>3 DEF ConnectionIsTruthful
<1>4. QED
  BY <1>1, <1>2, <1>3, ConnectionInvariantHolds, PTL DEF Spec

\* No worker and no sweep brings a connection back that the user disconnected
\* or that failed in the callback, as long as handlers do not overlap.
THEOREM DownUntilTheUserActs == Spec => DownStaysDown
<1> DEFINE Acts == \/ connect' # connect \/ used' # used \/ callback' # callback
                   \/ disconnect' # disconnect
           Kept == ~raced' /\ (row.status = "disconnected" \/ row.error = "callback")
                     /\ row'.status # row.status => Acts
<1>1. ConnectionInv /\ [Next]_vars => [Kept]_vars
  <2> SUFFICES ASSUME ConnectionInv, Next, ~raced', ~Acts, row'.status # row.status,
                      row.status = "disconnected" \/ row.error = "callback"
               PROVE  FALSE
    OBVIOUS
  <2>0. ~raced /\ row \in Row /\ TypeOK
    BY RacedStays DEF ConnectionInv, TypeOK
  <2>1. ASSUME NEW w \in Workers, SaveFailed(w) PROVE FALSE
    <3>1. w \in Working
      BY <2>1 DEF SaveFailed, Working
    <3>2. row.status = "active" /\ row.error = "none"
      BY <2>0, <3>1 DEF ConnectionInv, WorkFitsTheRow, ActiveHasNoError
    <3>3. QED
      BY <3>2
  <2>2. ASSUME NEW w \in Workers, SaveTrigger(w) PROVE FALSE
    BY <2>0, <2>2 DEF SaveTrigger, Row
  <2>3. ASSUME SweepReactivates PROVE FALSE
    BY <2>0, <2>3 DEF SweepReactivates, ConnectionInv, WorkFitsTheRow
  <2>4. ASSUME ConnectStep PROVE FALSE
    BY <2>0, <2>4
       DEF ConnectStep, ResetRow, LinkNew, LinkAlreadyConnected, LinkFails, PersistAccount,
           FindActive, RecoverRow, Idle
  <2>5. ASSUME CallbackStep PROVE FALSE
    BY <2>0, <2>5
       DEF CallbackStep, CallbackSucceeds, CallbackReportsFailure, VerifyAccount,
           VerifyFails, ActivateRow, Fresh, Idle
  <2>6. ASSUME DisconnectStep PROVE FALSE
    BY <2>6 DEF DisconnectStep, LockForDisconnect, DeleteUpstream, SaveDisconnected
  <2>7. QED
    BY <2>1, <2>2, <2>3, <2>4, <2>5, <2>6
       DEF Next, WorkerStep, Consent, TakeMessage, CreateTrigger, TriggerRefused,
           TransientError, SweepLists, RetryTrigger
<1>2. QED
  BY <1>1, ConnectionInvariantHolds, PTL DEF Spec, DownStaysDown

\* What the services, the tasks and Composio do, as long as handlers do not
\* overlap, is the diagram of GmailConnection: a connection is up, or visibly
\* not, and moves between the two only as the diagram says.
THEOREM DiagramIsImplemented == Spec => ImplementsConnection
<1>1. Init => Abstract!Init
  BY DEF Init, Abstract!Init, Phase, Unlocked
<1>2. Init => RowIsMade
  BY DEF Init, RowIsMade, Unlocked, Idle
<1>3. ConnectionInv /\ RowIsMade /\ [Next]_vars => RowIsMade'
  <2>1. TypeOK /\ RowIsMade /\ Next => RowIsMade'
    BY RowIsMadeStep
  <2>2. RowIsMade /\ UNCHANGED vars => RowIsMade'
    BY DEF vars, flows, RowIsMade, Unlocked
  <2>3. QED
    BY <2>1, <2>2 DEF ConnectionInv
<1>4. ConnectionInv /\ RowIsMade /\ [Next]_vars =>
        [~raced' => Abstract!Next]_<<Phase, landed>>
  <2>1. UNCHANGED vars => UNCHANGED <<Phase, landed>>
    BY DEF vars, flows, Phase, HasItsTrigger, Unlocked
  <2>2. QED
    BY <2>1, DiagramStep
<1>5. QED
  BY <1>1, <1>2, <1>3, <1>4, ConnectionInvariantHolds, PTL DEF Spec, ImplementsConnection

\* A connection keeps to its diagram, and stays down until the user acts.
THEOREM ConnectionKept == Spec => ConnectionIsKept
BY DownUntilTheUserActs, DiagramIsImplemented, PTL DEF ConnectionIsKept

=============================================================================
