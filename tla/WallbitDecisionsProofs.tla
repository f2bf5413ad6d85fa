----------------------- MODULE WallbitDecisionsProofs -----------------------
(***************************************************************************)
(* Proofs about WallbitDecisions for any number of decisions and workers,  *)
(* any retry bound, and any pattern of crashes and broker failures: its    *)
(* types, the inductive invariant, what a single step may do, the          *)
(* refinement of WriteOnce and the verdicts on unanswered writes.          *)
(***************************************************************************)
EXTENDS WallbitDecisionsRefinement, FiniteSetTheorems, TLAPS

USE ToolAssumption, NoneAssumption, AppTradesAssumption, AttemptsAssumption,
    PageAssumption, FlagAssumption

-----------------------------------------------------------------------------
(* Type correctness.                                                       *)

\* The helpers that write the table and the workers' state keep their types.
LEMMA RowTypes ==
    ASSUME TypeOK, NEW d \in Decisions
    PROVE  /\ \A uuid \in Tx \cup {NoTx} :
                 MarkExecuted(d, uuid) =>
                     row' \in [Decisions -> Row] /\ executed' \subseteq Decisions
           /\ \A s \in Statuses :
                 SetStatus(d, s) =>
                     row' \in [Decisions -> Row] /\ executed' \subseteq Decisions
<1>0. /\ row \in [Decisions -> Row]
      /\ executed \subseteq Decisions
      /\ row[d] \in Row
  BY DEF TypeOK
<1>1. ASSUME NEW uuid \in Tx \cup {NoTx}, MarkExecuted(d, uuid)
      PROVE  row' \in [Decisions -> Row] /\ executed' \subseteq Decisions
  <2> DEFINE u == IF uuid = NoTx THEN row[d].wallbit_tx_uuid ELSE uuid
             r == [row[d] EXCEPT !.status = "executed", !.wallbit_tx_uuid = u]
  <2>1. u \in Tx \cup {NoTx}
    BY <1>0 DEF Row
  <2>2. r \in Row
    <3> HIDE DEF u
    <3> QED
      BY <1>0, <2>1 DEF Row, Statuses
  <2>3. row' = [row EXCEPT ![d] = r] /\ executed' = executed \cup {d}
    BY <1>1 DEF MarkExecuted
  <2>4. QED
    <3> HIDE DEF r
    <3> QED
      BY <1>0, <2>2, <2>3
<1>2. ASSUME NEW s \in Statuses, SetStatus(d, s)
      PROVE  row' \in [Decisions -> Row] /\ executed' \subseteq Decisions
  <2>1. [row[d] EXCEPT !.status = s] \in Row
    BY <1>0, <1>2 DEF Row
  <2>2. row' = [row EXCEPT ![d] = [row[d] EXCEPT !.status = s]]
    BY <1>0, <1>2 DEF SetStatus
  <2>3. QED
    BY <1>0, <1>2, <2>1, <2>2 DEF SetStatus
<1>3. QED
  BY <1>1, <1>2

\* The helpers that write a worker's state keep its type.
LEMMA ProcTypes ==
    ASSUME TypeOK, NEW w \in Workers
    PROVE  /\ Finish(w) => /\ proc' \in [Workers -> Proc]
                           /\ \A v \in Workers : proc'[v].pc # "idle" => proc'[v].d \in Decisions
           /\ \A pc \in PCs : proc[w].pc # "idle" /\ Become(w, pc) =>
                 /\ proc' \in [Workers -> Proc]
                 /\ \A v \in Workers : proc'[v].pc # "idle" => proc'[v].d \in Decisions
           /\ \A pc \in PCs, d \in Decisions : Start(w, pc, d) =>
                 /\ proc' \in [Workers -> Proc]
                 /\ \A v \in Workers : proc'[v].pc # "idle" => proc'[v].d \in Decisions
<1> Idle \in Proc
  BY DEF Idle, Proc, PCs
<1>1. Finish(w) => /\ proc' \in [Workers -> Proc]
                   /\ \A v \in Workers : proc'[v].pc # "idle" => proc'[v].d \in Decisions
  BY DEF TypeOK, Finish, Idle
<1>2. ASSUME NEW pc \in PCs, proc[w].pc # "idle", Become(w, pc)
      PROVE  /\ proc' \in [Workers -> Proc]
             /\ \A v \in Workers : proc'[v].pc # "idle" => proc'[v].d \in Decisions
  BY <1>2 DEF TypeOK, Become, Proc
<1>3. ASSUME NEW pc \in PCs, NEW d \in Decisions, Start(w, pc, d)
      PROVE  /\ proc' \in [Workers -> Proc]
             /\ \A v \in Workers : proc'[v].pc # "idle" => proc'[v].d \in Decisions
  BY <1>3 DEF TypeOK, Start, Idle, Proc
<1>4. QED
  BY <1>1, <1>2, <1>3

\* What a sync copies are transactions of Wallbit.
LEMMA PageType == TypeOK => Page \subseteq Tx
BY DEF TypeOK, Page

\* The empty tables and idle workers have the right types.
LEMMA InitType == Init => TypeOK
BY DEF Init, TypeOK, Row, Statuses, Absent, Proc, PCs, Idle

\* Connecting, disconnecting, pausing and resuming keep the types.
LEMMA AccountType == TypeOK /\ AccountStep => TypeOK'
BY DEF TypeOK, AccountStep, SetAccount, Connect, Disconnect, Pause, Resume,
       PauseExpires, upstream, table

\* A preview stores a well-typed row.
LEMMA ProposeType == ASSUME TypeOK, NEW d \in Decisions, Propose(d) PROVE TypeOK'
BY RowTypes DEF TypeOK, Propose, Statuses, upstream, table

\* The steps that begin a handler.
LEMMA StartType ==
    ASSUME TypeOK, NEW w \in Workers, NEW d \in Decisions
    PROVE  /\ Claim(w, d) => TypeOK'
           /\ ReadForCancel(w, d) => TypeOK'
<1>1. ASSUME Claim(w, d) PROVE TypeOK'
  <2>1. row' \in [Decisions -> Row]
    <3>1. PICK since \in 0..Len(history) :
            row' = [row EXCEPT ![d] = [row[d] EXCEPT
                      !.status = "executing", !.confirmed_at = since]]
      BY <1>1 DEF Claim
    <3>2. since \in Nat
      BY DEF TypeOK
    <3>3. row[d] \in Row
      BY DEF TypeOK
    <3>4. [row[d] EXCEPT !.status = "executing", !.confirmed_at = since] \in Row
      BY <3>2, <3>3 DEF Row, Statuses
    <3>5. QED
      BY <3>1, <3>4 DEF TypeOK
  <2>2. "claimed" \in PCs
    BY DEF PCs, Confirming, Unsent
  <2>3. QED
    BY <1>1, <2>1, <2>2, ProcTypes DEF TypeOK, Claim, upstream, table
<1>2. ASSUME ReadForCancel(w, d) PROVE TypeOK'
  BY <1>2, ProcTypes DEF TypeOK, ReadForCancel, PCs, upstream, table
<1>3. QED
  BY <1>1, <1>2

\* Every step of execute_confirmed_decision keeps the types.
LEMMA ConfirmType ==
    ASSUME TypeOK, NEW w \in Workers, ConfirmStep(w)
    PROVE  TypeOK'
<1> DEFINE d == proc[w].d
<1>a. proc[w].pc # "idle" /\ d \in Decisions
  BY DEF TypeOK, ConfirmStep, PreflightRefuses, PreflightPasses, ResumeBot,
         ResumeBotDone, OrderTooSmall, Post, AnsweredOk, AnsweredRejected,
         NoAnswer, ScheduleReconciliation, ScheduleFails, RecordInvestment,
         RecordInvestmentFails
<1>b. {"cleared", "resumed", "waiting", "scheduling", "recording"} \subseteq PCs
  BY DEF PCs, Confirming, Unsent
<1>1. CASE PreflightRefuses(w)
  BY <1>a, <1>1, RowTypes, ProcTypes DEF TypeOK, PreflightRefuses, MarkFailed, Statuses,
         upstream, table
<1>2. CASE PreflightPasses(w)
  BY <1>a, <1>b, <1>2, ProcTypes DEF TypeOK, PreflightPasses, upstream, table
<1>3. CASE ResumeBot(w)
  BY <1>a, <1>b, <1>3, ProcTypes DEF TypeOK, ResumeBot, upstream, table
<1>4. CASE ResumeBotDone(w)
  BY <1>a, <1>4, RowTypes, ProcTypes DEF TypeOK, ResumeBotDone, upstream, table
<1>5. CASE OrderTooSmall(w)
  BY <1>a, <1>5, RowTypes, ProcTypes DEF TypeOK, OrderTooSmall, MarkFailed, Statuses,
         upstream, table
<1>6. CASE Post(w)
  BY <1>a, <1>b, <1>6, ProcTypes DEF TypeOK, Post, table
<1>7. CASE AnsweredOk(w)
  <2>1. row' \in [Decisions -> Row] /\ executed' \subseteq Decisions
    BY <1>a, <1>7, RowTypes DEF AnsweredOk, Tx
  <2>2. QED
    BY <1>a, <1>b, <1>7, <2>1, ProcTypes DEF TypeOK, AnsweredOk, upstream, table
<1>8. CASE AnsweredRejected(w)
  BY <1>a, <1>8, RowTypes, ProcTypes DEF TypeOK, AnsweredRejected, MarkFailed, Statuses,
         upstream, table
<1>9. CASE NoAnswer(w)
  BY <1>a, <1>b, <1>9, RowTypes, ProcTypes DEF TypeOK, NoAnswer, MarkUncertain, Statuses,
         upstream, table
<1>10. CASE ScheduleReconciliation(w)
  <2>1. tasks' \subseteq Task
    BY <1>a, <1>10 DEF TypeOK, ScheduleReconciliation, Task
  <2>2. QED
    BY <1>a, <1>10, <2>1, ProcTypes DEF TypeOK, ScheduleReconciliation, upstream, table
<1>11. CASE ScheduleFails(w)
  BY <1>a, <1>11, ProcTypes DEF TypeOK, ScheduleFails, upstream, table
<1>12. CASE RecordInvestment(w)
  BY <1>a, <1>12, ProcTypes DEF TypeOK, RecordInvestment, upstream, table
<1>13. CASE RecordInvestmentFails(w)
  BY <1>a, <1>13, RowTypes, ProcTypes DEF TypeOK, RecordInvestmentFails, MarkFailed, Statuses,
         upstream, table
<1>14. QED
  BY <1>1, <1>2, <1>3, <1>4, <1>5, <1>6, <1>7, <1>8, <1>9, <1>10, <1>11,
     <1>12, <1>13 DEF ConfirmStep

\* The two halves of a cancellation keep the types.
LEMMA CancelType ==
    ASSUME TypeOK, NEW w \in Workers, MarkCancelled(w)
    PROVE  TypeOK'
<1>1. proc[w].d \in Decisions
  BY DEF TypeOK, MarkCancelled
<1>2. PICK since \in 0..Len(history) :
        row' = [row EXCEPT ![proc[w].d] = [row[proc[w].d] EXCEPT
                  !.status = "cancelled", !.confirmed_at = since]]
  BY DEF MarkCancelled
<1>3. since \in Nat
  BY DEF TypeOK
<1>4. [row[proc[w].d] EXCEPT !.status = "cancelled", !.confirmed_at = since] \in Row
  <2>1. row[proc[w].d] \in Row
    BY <1>1 DEF TypeOK
  <2>2. QED
    BY <1>3, <2>1 DEF Row, Statuses
<1>5. row' \in [Decisions -> Row]
  BY <1>1, <1>2, <1>4 DEF TypeOK
<1>6. QED
  BY <1>5, ProcTypes DEF TypeOK, MarkCancelled, upstream, table

\* Every step of the reconciliation task keeps the types; a retry stays
\* below RECONCILE_MAX_ATTEMPTS.
LEMMA ReconcileType ==
    ASSUME TypeOK, NEW w \in Workers, ReconcileStep(w)
    PROVE  TypeOK'
<1>b. {"syncing", "matching", "settling", "giving_up"} \subseteq PCs
  BY DEF PCs, Reconciling
<1>1. ASSUME NEW m \in tasks, StartReconcile(w, m) PROVE TypeOK'
  <2>1. m.d \in Decisions /\ m.retries \in 0..RECONCILE_MAX_ATTEMPTS - 1
    BY DEF TypeOK, Task
  <2>2. [pc |-> "syncing", d |-> m.d, retries |-> m.retries,
         since |-> row[m.d].confirmed_at, match |-> NoTx] \in Proc
    BY <2>1, <1>b DEF TypeOK, Idle, Proc, Row
  <2>3. /\ proc' \in [Workers -> Proc]
        /\ \A v \in Workers : proc'[v].pc # "idle" => proc'[v].d \in Decisions
    <3> DEFINE p == [pc |-> "syncing", d |-> m.d, retries |-> m.retries,
                     since |-> row[m.d].confirmed_at, match |-> NoTx]
    <3>1. p \in Proc
      BY <2>2
    <3>2. p.d \in Decisions
      BY <2>1
    <3>3. proc' = proc \/ proc' = [proc EXCEPT ![w] = p]
      BY <1>1 DEF StartReconcile
    <3> HIDE DEF p
    <3>4. CASE proc' = proc
      BY <3>4 DEF TypeOK
    <3>5. CASE proc' = [proc EXCEPT ![w] = p]
      BY <3>1, <3>2, <3>5 DEF TypeOK
    <3>6. QED
      BY <3>3, <3>4, <3>5
  <2>4. QED
    BY <1>1, <2>3 DEF TypeOK, StartReconcile, upstream, table
<1>2. CASE SyncForReconcile(w)
  BY <1>b, <1>2, ProcTypes, PageType DEF TypeOK, SyncForReconcile, upstream, table
<1>3. CASE SyncFails(w)
  BY <1>b, <1>3, ProcTypes DEF TypeOK, SyncFails, upstream, table
<1>4. CASE FindTransaction(w)
  <2>1. PICK i \in 1..Len(history) :
          proc' = [proc EXCEPT ![w].pc = "settling", ![w].match = history[i]]
    BY <1>4 DEF FindTransaction, Candidates
  <2>2. history[i] \in Tx
    BY DEF TypeOK
  <2>3. /\ proc' \in [Workers -> Proc]
        /\ \A v \in Workers : proc'[v].pc # "idle" => proc'[v].d \in Decisions
    <3> DEFINE p == [proc[w] EXCEPT !.pc = "settling", !.match = history[i]]
    <3>1. proc[w] \in Proc /\ proc[w].d \in Decisions
      BY <1>4 DEF TypeOK, FindTransaction
    <3>2. p \in Proc /\ p.d \in Decisions
      BY <1>b, <2>2, <3>1 DEF Proc
    <3>3. proc' = [proc EXCEPT ![w] = p]
      BY <2>1 DEF TypeOK
    <3>4. QED
      <4> HIDE DEF p
      <4> QED
        BY <3>2, <3>3 DEF TypeOK
  <2>4. QED
    BY <1>4, <2>3 DEF TypeOK, FindTransaction, upstream, table
<1>5. CASE RetryReconcile(w)
  <2>1. proc[w].d \in Decisions /\ proc[w].retries + 1 \in 0..RECONCILE_MAX_ATTEMPTS - 1
    BY <1>5 DEF TypeOK, RetryReconcile, NothingFound, Proc
  <2>2. tasks' \subseteq Task
    BY <1>5, <2>1 DEF TypeOK, RetryReconcile, Task
  <2>3. QED
    BY <1>5, <2>2, ProcTypes DEF TypeOK, RetryReconcile, upstream, table
<1>6. CASE LastAttempt(w)
  BY <1>b, <1>6, ProcTypes DEF TypeOK, LastAttempt, NothingFound, upstream, table
<1>7. CASE SettleExecuted(w)
  <2>1. proc[w].d \in Decisions /\ proc[w].match \in Tx \cup {NoTx}
    BY <1>7 DEF TypeOK, SettleExecuted, Proc
  <2>2. row' \in [Decisions -> Row] /\ executed' \subseteq Decisions
    BY <1>7, <2>1, RowTypes DEF SettleExecuted
  <2>3. QED
    BY <1>7, <2>2, ProcTypes DEF TypeOK, SettleExecuted, upstream, table
<1>8. CASE SettleFailed(w)
  <2>1. proc[w].d \in Decisions
    BY <1>8 DEF TypeOK, SettleFailed
  <2>2. QED
    BY <1>8, <2>1, RowTypes, ProcTypes DEF TypeOK, SettleFailed, MarkFailed, Statuses,
         upstream, table
<1>9. QED
  BY <1>1, <1>2, <1>3, <1>4, <1>5, <1>6, <1>7, <1>8 DEF ReconcileStep

\* What Wallbit and the user's own app do keeps the types.
LEMMA WallbitType == TypeOK /\ WallbitStep => TypeOK'
<1>1. ASSUME TypeOK, NEW d \in Decisions, WallbitApplies(d) PROVE TypeOK'
  <2>1. history' \in Seq(Tx)
    BY <1>1 DEF TypeOK, WallbitApplies, Tx
  <2>2. QED
    BY <1>1, <2>1 DEF TypeOK, WallbitApplies, table
<1>2. ASSUME TypeOK, NEW d \in Decisions, WallbitRefuses(d) PROVE TypeOK'
  BY <1>2 DEF TypeOK, WallbitRefuses, table
<1>3. ASSUME TypeOK, NEW t \in AppTrades, TradeInApp(t) PROVE TypeOK'
  BY <1>3 DEF TypeOK, TradeInApp, Tx, table
<1>4. QED
  BY <1>1, <1>2, <1>3 DEF WallbitStep

\* Every step of the system keeps the types.
LEMMA NextType == TypeOK /\ [Next]_vars => TypeOK'
<1> SUFFICES ASSUME TypeOK, [Next]_vars PROVE TypeOK'
  OBVIOUS
<1>1. CASE AccountStep
  BY <1>1, AccountType
<1>2. CASE \E d \in Decisions : Propose(d)
  BY <1>2, ProposeType
<1>3. CASE \E w \in Workers, d \in Decisions : Claim(w, d) \/ ReadForCancel(w, d)
  BY <1>3, StartType
<1>4. CASE \E w \in Workers : ConfirmStep(w) \/ MarkCancelled(w) \/ ReconcileStep(w)
  BY <1>4, ConfirmType, CancelType, ReconcileType
<1>5. CASE \E w \in Workers : Crash(w)
  BY <1>5, ProcTypes DEF TypeOK, Crash, upstream, table
<1>6. CASE BackgroundSync
  BY <1>6, PageType DEF TypeOK, BackgroundSync, upstream, table
<1>7. CASE WallbitStep
  BY <1>7, WallbitType
<1>8. CASE UNCHANGED vars
  BY <1>8 DEF TypeOK, vars, upstream, table
<1>9. QED
  BY <1>1, <1>2, <1>3, <1>4, <1>5, <1>6, <1>7, <1>8 DEF Next

\* Every row, worker, message and copied transaction keeps its type, whatever
\* the numbers of decisions, workers and attempts.
THEOREM TypeCorrect == Spec => []TypeOK
BY InitType, NextType, PTL DEF Spec

-----------------------------------------------------------------------------
(* The inductive invariant.  Most steps are of two kinds: a worker that    *)
(* holds a claimed decision gives it a new status, or only the worker's    *)
(* own state changes.  One lemma for each kind, one for each other step.   *)

\* What the helpers change, and what they leave alone.
LEMMA RowEffects ==
    ASSUME TypeOK, NEW d \in Decisions
    PROVE  /\ \A s \in Statuses : SetStatus(d, s) =>
                 /\ executed' = executed
                 /\ row'[d].status = s
                 /\ row'[d].confirmed_at = row[d].confirmed_at
                 /\ \A e \in Decisions : e # d => row'[e] = row[e]
           /\ \A uuid : MarkExecuted(d, uuid) =>
                 /\ executed' = executed \cup {d}
                 /\ row'[d].status = "executed"
                 /\ row'[d].confirmed_at = row[d].confirmed_at
                 /\ \A e \in Decisions : e # d => row'[e] = row[e]
<1>1. row \in [Decisions -> Row] /\ row[d] \in Row
  BY DEF TypeOK
<1>2. ASSUME NEW s \in Statuses, SetStatus(d, s)
      PROVE  /\ executed' = executed
             /\ row'[d].status = s
             /\ row'[d].confirmed_at = row[d].confirmed_at
             /\ \A e \in Decisions : e # d => row'[e] = row[e]
  BY <1>1, <1>2 DEF SetStatus, Row
<1>3. ASSUME NEW uuid, MarkExecuted(d, uuid)
      PROVE  /\ executed' = executed \cup {d}
             /\ row'[d].status = "executed"
             /\ row'[d].confirmed_at = row[d].confirmed_at
             /\ \A e \in Decisions : e # d => row'[e] = row[e]
  <2> DEFINE u == IF uuid = NoTx THEN row[d].wallbit_tx_uuid ELSE uuid
  <2>1. row' = [row EXCEPT ![d] = [row[d] EXCEPT !.status = "executed",
                                                 !.wallbit_tx_uuid = u]]
    BY <1>3 DEF MarkExecuted
  <2>2. QED
    <3> HIDE DEF u
    <3>1. row'[d] = [row[d] EXCEPT !.status = "executed", !.wallbit_tx_uuid = u]
      BY <1>1, <2>1
    <3>2. QED
      BY <1>1, <1>3, <2>1, <3>1 DEF MarkExecuted, Row
<1>4. QED
  BY <1>2, <1>3

\* A write to one worker changes that worker only.
LEMMA ProcEffects ==
    ASSUME TypeOK, NEW w \in Workers
    PROVE  /\ Finish(w) =>
                 /\ proc'[w].pc = "idle"
                 /\ \A v \in Workers : v # w => proc'[v] = proc[v]
           /\ \A pc : Become(w, pc) =>
                 /\ proc'[w].pc = pc
                 /\ proc'[w].d = proc[w].d
                 /\ \A v \in Workers : v # w => proc'[v] = proc[v]
           /\ \A pc, d : Start(w, pc, d) =>
                 /\ proc'[w].pc = pc
                 /\ proc'[w].d = d
                 /\ \A v \in Workers : v # w => proc'[v] = proc[v]
<1>1. proc \in [Workers -> Proc] /\ proc[w] \in Proc
  BY DEF TypeOK
<1>2. Finish(w) => /\ proc'[w].pc = "idle"
                   /\ \A v \in Workers : v # w => proc'[v] = proc[v]
  BY <1>1 DEF Finish, Idle
<1>3. ASSUME NEW pc, Become(w, pc)
      PROVE  /\ proc'[w].pc = pc
             /\ proc'[w].d = proc[w].d
             /\ \A v \in Workers : v # w => proc'[v] = proc[v]
  BY <1>1, <1>3 DEF Become, Proc
<1>4. ASSUME NEW pc, NEW d, Start(w, pc, d)
      PROVE  /\ proc'[w].pc = pc
             /\ proc'[w].d = d
             /\ \A v \in Workers : v # w => proc'[v] = proc[v]
  BY <1>1, <1>4 DEF Start, Idle
<1>5. QED
  BY <1>2, <1>3, <1>4

\* A worker gives the decision it holds a status it can no longer leave open.
LEMMA ResolveInv ==
    ASSUME IInv, TypeOK', NEW w \in Workers,
           proc[w].pc \in Confirming \cup Reconciling,
           row'[proc[w].d].status \in {"executed", "failed", "uncertain"},
           row'[proc[w].d].confirmed_at = row[proc[w].d].confirmed_at,
           \A e \in Decisions : e # proc[w].d => row'[e] = row[e],
           executed' \subseteq executed \cup {proc[w].d},
           \A v \in Workers : v # w => proc'[v] = proc[v],
           \/ proc'[w].pc = "idle"
           \/ /\ proc[w].pc \in Confirming
              /\ proc'[w].pc \in {"scheduling", "recording"}
              /\ proc'[w].d = proc[w].d,
           UNCHANGED <<account, request, posts, standing>>
    PROVE  IInv'
<1>1. PICK d \in Decisions : d = proc[w].d
  BY DEF IInv, TypeOK, Confirming, Unsent, Reconciling
<1>2. Confirmed(d) /\ Confirmed(d)'
  BY <1>1 DEF IInv, HoldersAreConfirmed, Confirmed
<1>3. \A e \in Decisions : Confirmed(e)' <=> Confirmed(e)
  BY <1>1, <1>2 DEF Confirmed
<1>4. \A v \in Workers :
        /\ proc'[v].pc \in Confirming \cup Reconciling
              => /\ proc[v].pc \in Confirming \cup Reconciling
                 /\ proc'[v].d = proc[v].d
                 /\ proc[v].d \in Decisions
        /\ proc'[v].pc \in Confirming => proc[v].pc \in Confirming
        /\ proc'[v].pc \in Unsent => proc'[v] = proc[v]
  <2> SUFFICES ASSUME NEW v \in Workers
               PROVE  /\ proc'[v].pc \in Confirming \cup Reconciling
                            => /\ proc[v].pc \in Confirming \cup Reconciling
                               /\ proc'[v].d = proc[v].d
                               /\ proc[v].d \in Decisions
                      /\ proc'[v].pc \in Confirming => proc[v].pc \in Confirming
                      /\ proc'[v].pc \in Unsent => proc'[v] = proc[v]
    OBVIOUS
  <2>1. proc[v].pc \in Confirming \cup Reconciling => proc[v].d \in Decisions
    BY DEF IInv, TypeOK, Confirming, Unsent, Reconciling
  <2>2. QED
    BY <1>1, <2>1 DEF Confirming, Unsent, Reconciling
<1>5. OpenIsUntouched' /\ ConfirmedIsNotPending'
  BY <1>1, <1>2, <1>3 DEF IInv, OpenIsUntouched, ConfirmedIsNotPending
<1>6. HoldersAreConfirmed'
  <2> SUFFICES ASSUME NEW v \in Workers, proc'[v].pc \in Confirming \cup Reconciling
               PROVE  Confirmed(proc[v].d)'
    BY DEF HoldersAreConfirmed
  <2>1. proc'[v].d = proc[v].d /\ proc[v].d \in Decisions /\ Confirmed(proc[v].d)
    BY <1>4 DEF IInv, HoldersAreConfirmed
  <2>2. QED
    BY <1>3, <2>1 DEF Confirmed
<1>7. OneHolder'
  <2> SUFFICES ASSUME NEW u \in Workers, NEW v \in Workers, u # v,
                      proc'[u].pc \in Confirming, proc'[v].pc \in Confirming
               PROVE  proc'[u].d # proc'[v].d
    BY DEF OneHolder
  <2>1. /\ proc[u].pc \in Confirming /\ proc'[u].d = proc[u].d
        /\ proc[v].pc \in Confirming /\ proc'[v].d = proc[v].d
    BY <1>4
  <2>2. QED
    BY <2>1 DEF IInv, OneHolder
<1>8. UnsentIsUnsent'
  <2> SUFFICES ASSUME NEW v \in Workers, proc'[v].pc \in Unsent
               PROVE  posts'[proc'[v].d] = 0
    BY DEF UnsentIsUnsent
  <2>1. proc'[v] = proc[v]
    BY <1>4
  <2>2. QED
    BY <2>1 DEF IInv, UnsentIsUnsent
<1>9. NoRequestWithoutPost' /\ OnePostPerDecision'
  BY DEF IInv, NoRequestWithoutPost, OnePostPerDecision
<1>10. AnsweredIsNotExecuting'
  <2> SUFFICES ASSUME NEW v \in Workers,
                      proc'[v].pc \in Reconciling \cup {"scheduling", "recording"}
               PROVE  row'[proc'[v].d].status # "executing"
    BY DEF AnsweredIsNotExecuting
  <2>1. CASE v = w
    BY <2>1 DEF Reconciling
  <2>2. CASE v # w
    <3>1. proc[v].d \in Decisions /\ proc'[v] = proc[v]
      BY <2>2 DEF IInv, TypeOK, Reconciling
    <3>2. QED
      BY <2>2, <3>1 DEF IInv, AnsweredIsNotExecuting
  <2>3. QED
    BY <2>1, <2>2
<1>11. ClearedIsNotStanding'
  BY <1>4 DEF IInv, ClearedIsNotStanding, Unsent, Paused
<1>12. QED
  BY <1>5, <1>6, <1>7, <1>8, <1>9, <1>10, <1>11 DEF IInv

\* Only the state of worker w changes, to a step that promises no more.
LEMMA WorkerInv ==
    ASSUME IInv, TypeOK', NEW w \in Workers,
           \A v \in Workers : v # w => proc'[v] = proc[v],
           \/ proc'[w].pc \in {"idle", "cancelling"}
           \/ /\ proc[w].pc \in Reconciling
              /\ proc'[w].pc \in Reconciling
              /\ proc'[w].d = proc[w].d,
           UNCHANGED <<row, executed, account, request, posts, standing>>
    PROVE  IInv'
<1>1. \A v \in Workers :
        \/ proc'[v] = proc[v]
        \/ proc'[v].pc \notin Confirming \cup Reconciling
        \/ /\ proc'[v].pc \in Reconciling \ Confirming
           /\ proc[v].pc \in Reconciling
           /\ proc'[v].d = proc[v].d
  BY DEF Confirming, Unsent, Reconciling
<1>2. OpenIsUntouched' /\ ConfirmedIsNotPending'
  BY DEF IInv, OpenIsUntouched, ConfirmedIsNotPending, Confirmed
<1>3. HoldersAreConfirmed'
  BY <1>1 DEF IInv, HoldersAreConfirmed, Confirmed
<1>4. OneHolder'
  BY <1>1 DEF IInv, OneHolder
<1>5. UnsentIsUnsent'
  BY <1>1 DEF IInv, UnsentIsUnsent, Confirming
<1>6. NoRequestWithoutPost' /\ OnePostPerDecision'
  BY DEF IInv, NoRequestWithoutPost, OnePostPerDecision
<1>7. AnsweredIsNotExecuting'
  BY <1>1 DEF IInv, AnsweredIsNotExecuting, Confirming
<1>8. ClearedIsNotStanding'
  BY <1>1 DEF IInv, ClearedIsNotStanding, Paused, Confirming, Unsent
<1>9. QED
  BY <1>2, <1>3, <1>4, <1>5, <1>6, <1>7, <1>8 DEF IInv

\* The account changes: a pause that ends clears standing.
LEMMA AccountInv == ASSUME IInv, TypeOK', AccountStep PROVE IInv'
<1>1. /\ UNCHANGED <<row, executed, proc, request, posts>>
      /\ standing' # {} => account'.kill_switch = "on"
      /\ standing' \subseteq standing
  BY DEF AccountStep, SetAccount, Connect, Disconnect, Pause, Resume,
         PauseExpires, upstream, table
<1>2. OpenIsUntouched' /\ ConfirmedIsNotPending' /\ HoldersAreConfirmed'
  BY <1>1 DEF IInv, OpenIsUntouched, ConfirmedIsNotPending, HoldersAreConfirmed,
              Confirmed
<1>3. OneHolder' /\ UnsentIsUnsent' /\ NoRequestWithoutPost' /\ OnePostPerDecision'
  BY <1>1 DEF IInv, OneHolder, UnsentIsUnsent, NoRequestWithoutPost,
              OnePostPerDecision
<1>4. AnsweredIsNotExecuting' /\ ClearedIsNotStanding'
  BY <1>1 DEF IInv, AnsweredIsNotExecuting, ClearedIsNotStanding, Paused
<1>5. QED
  BY <1>2, <1>3, <1>4 DEF IInv

\* A preview writes only a row nobody has touched.
LEMMA ProposeInv ==
    ASSUME IInv, TypeOK', NEW d \in Decisions, Propose(d)
    PROVE  IInv'
<1>1. /\ row[d].status = "absent"
      /\ row'[d].status = "pending"
      /\ row'[d].confirmed_at = row[d].confirmed_at
      /\ \A e \in Decisions : e # d => row'[e] = row[e]
      /\ UNCHANGED <<executed, account, proc, request, posts, standing>>
  BY RowEffects DEF IInv, Propose, Statuses, upstream
<1>2. ~Confirmed(d)
  BY <1>1 DEF IInv, ConfirmedIsNotPending
<1>3. \A e \in Decisions : Confirmed(e)' <=> Confirmed(e)
  BY <1>1 DEF Confirmed
<1>4. \A w \in Workers : proc[w].pc \in Confirming \cup Reconciling
                           => proc[w].d \in Decisions /\ proc[w].d # d
  BY <1>2 DEF IInv, TypeOK, HoldersAreConfirmed, Confirming, Unsent, Reconciling
<1>5. OpenIsUntouched' /\ ConfirmedIsNotPending'
  BY <1>1, <1>2, <1>3 DEF IInv, OpenIsUntouched, ConfirmedIsNotPending
<1>6. HoldersAreConfirmed'
  BY <1>1, <1>4 DEF IInv, HoldersAreConfirmed, Confirmed
<1>7. OneHolder' /\ UnsentIsUnsent' /\ NoRequestWithoutPost' /\ OnePostPerDecision'
  BY <1>1 DEF IInv, OneHolder, UnsentIsUnsent, NoRequestWithoutPost,
              OnePostPerDecision
<1>8. AnsweredIsNotExecuting'
  BY <1>1, <1>4 DEF IInv, AnsweredIsNotExecuting, Confirming
<1>9. ClearedIsNotStanding'
  BY <1>1 DEF IInv, ClearedIsNotStanding, Paused
<1>10. QED
  BY <1>5, <1>6, <1>7, <1>8, <1>9 DEF IInv

\* The claim: nobody can hold the decision already, it was not confirmed.
LEMMA ClaimInv ==
    ASSUME IInv, TypeOK', NEW w \in Workers, NEW d \in Decisions, Claim(w, d)
    PROVE  IInv'
<1>1. PICK since \in 0..Len(history) :
        row' = [row EXCEPT ![d] = [row[d] EXCEPT
                  !.status = "executing", !.confirmed_at = since]]
  BY DEF Claim
<1>2. /\ row'[d].status = "executing"
      /\ row'[d].confirmed_at # NotConfirmed
      /\ \A e \in Decisions : e # d => row'[e] = row[e]
  <2>1. row \in [Decisions -> Row] /\ row[d] \in Row /\ since \in Nat
    BY DEF IInv, TypeOK
  <2>2. QED
    BY <1>1, <2>1 DEF Row, NotConfirmed
<1>3. /\ ~Confirmed(d)
      /\ proc[w].pc = "idle"
      /\ proc'[w].pc = "claimed" /\ proc'[w].d = d
      /\ \A v \in Workers : v # w => proc'[v] = proc[v]
      /\ standing' = IF Paused THEN standing \cup {d} ELSE standing
      /\ UNCHANGED <<executed, account, request, posts>>
  BY ProcEffects DEF IInv, Claim, Claimable, Confirmed, upstream
<1>4. posts[d] = 0 /\ Confirmed(d)'
  BY <1>2, <1>3 DEF IInv, OpenIsUntouched, Confirmed
<1>5. \A v \in Workers :
        v # w /\ proc[v].pc \in Confirming \cup Reconciling
            => proc[v].d \in Decisions /\ proc[v].d # d
  BY <1>3 DEF IInv, TypeOK, HoldersAreConfirmed, Confirming, Unsent, Reconciling
<1>6. OpenIsUntouched' /\ ConfirmedIsNotPending'
  BY <1>2, <1>3, <1>4 DEF IInv, OpenIsUntouched, ConfirmedIsNotPending, Confirmed
<1>7. HoldersAreConfirmed'
  BY <1>2, <1>3, <1>4, <1>5 DEF IInv, HoldersAreConfirmed, Confirmed
<1>8. OneHolder'
  BY <1>3, <1>5 DEF IInv, OneHolder
<1>9. UnsentIsUnsent'
  BY <1>3, <1>4 DEF IInv, UnsentIsUnsent
<1>10. NoRequestWithoutPost' /\ OnePostPerDecision'
  BY <1>3 DEF IInv, NoRequestWithoutPost, OnePostPerDecision
<1>11. AnsweredIsNotExecuting'
  BY <1>2, <1>3, <1>5 DEF IInv, AnsweredIsNotExecuting, Reconciling, Confirming
<1>12. ClearedIsNotStanding'
  BY <1>3, <1>5 DEF IInv, ClearedIsNotStanding, Paused, Confirming, Unsent
<1>13. QED
  BY <1>6, <1>7, <1>8, <1>9, <1>10, <1>11, <1>12 DEF IInv

\* The pre-flight passes: no pause, so no decision is standing.
LEMMA PreflightInv ==
    ASSUME IInv, TypeOK', NEW w \in Workers, PreflightPasses(w)
    PROVE  IInv'
<1>1. /\ proc[w].pc = "claimed" /\ ~Blocked(proc[w].d)
      /\ proc'[w].pc = "cleared" /\ proc'[w].d = proc[w].d
      /\ \A v \in Workers : v # w => proc'[v] = proc[v]
      /\ UNCHANGED <<row, executed, account, request, posts, standing>>
  BY ProcEffects DEF IInv, PreflightPasses, upstream, table
<1>2. \A v \in Workers :
        \/ proc'[v] = proc[v]
        \/ v = w /\ proc[v].pc \in Unsent
           /\ proc'[v].pc \in Unsent \ Reconciling /\ proc'[v].d = proc[v].d
  BY <1>1 DEF Unsent, Reconciling
<1>3. OpenIsUntouched' /\ ConfirmedIsNotPending'
  BY <1>1 DEF IInv, OpenIsUntouched, ConfirmedIsNotPending, Confirmed
<1>4. HoldersAreConfirmed'
  BY <1>1, <1>2 DEF IInv, HoldersAreConfirmed, Confirmed, Confirming
<1>5. OneHolder'
  BY <1>2 DEF IInv, OneHolder, Confirming
<1>6. UnsentIsUnsent'
  BY <1>1, <1>2 DEF IInv, UnsentIsUnsent
<1>7. NoRequestWithoutPost' /\ OnePostPerDecision'
  BY <1>1 DEF IInv, NoRequestWithoutPost, OnePostPerDecision
<1>8. AnsweredIsNotExecuting'
  BY <1>1, <1>2 DEF IInv, AnsweredIsNotExecuting, Unsent
<1>9. ClearedIsNotStanding'
  BY <1>1 DEF IInv, ClearedIsNotStanding, Paused, Blocked
<1>10. QED
  BY <1>3, <1>4, <1>5, <1>6, <1>7, <1>8, <1>9 DEF IInv

\* The resume tool ends the pause, and sends nothing.
LEMMA ResumeBotInv ==
    ASSUME IInv, TypeOK', NEW w \in Workers, ResumeBot(w)
    PROVE  IInv'
<1>1. /\ proc[w].pc = "cleared"
      /\ proc'[w].pc = "resumed" /\ proc'[w].d = proc[w].d
      /\ \A v \in Workers : v # w => proc'[v] = proc[v]
      /\ standing' = {}
      /\ UNCHANGED <<row, executed, request, posts>>
  BY ProcEffects DEF IInv, ResumeBot, upstream, table
<1>2. \A v \in Workers :
        \/ proc'[v] = proc[v]
        \/ v = w /\ proc[v].pc \in Confirming
           /\ proc'[v].pc \in Confirming \ (Unsent \cup Reconciling)
           /\ proc'[v].pc \notin {"scheduling", "recording"}
           /\ proc'[v].d = proc[v].d
  BY <1>1 DEF Confirming, Unsent, Reconciling
<1>3. OpenIsUntouched' /\ ConfirmedIsNotPending'
  BY <1>1 DEF IInv, OpenIsUntouched, ConfirmedIsNotPending, Confirmed
<1>4. HoldersAreConfirmed'
  BY <1>1, <1>2 DEF IInv, HoldersAreConfirmed, Confirmed
<1>5. OneHolder'
  BY <1>2 DEF IInv, OneHolder
<1>6. UnsentIsUnsent'
  BY <1>1, <1>2 DEF IInv, UnsentIsUnsent
<1>7. NoRequestWithoutPost' /\ OnePostPerDecision'
  BY <1>1 DEF IInv, NoRequestWithoutPost, OnePostPerDecision
<1>8. AnsweredIsNotExecuting'
  BY <1>1, <1>2 DEF IInv, AnsweredIsNotExecuting
<1>9. ClearedIsNotStanding'
  BY <1>1 DEF ClearedIsNotStanding
<1>10. QED
  BY <1>3, <1>4, <1>5, <1>6, <1>7, <1>8, <1>9 DEF IInv

\* The request: the only worker that holds the decision leaves Unsent.
LEMMA PostInv ==
    ASSUME IInv, TypeOK', NEW w \in Workers, Post(w)
    PROVE  IInv'
<1>1. PICK d \in Decisions : d = proc[w].d
  BY DEF IInv, TypeOK, Post
<1>2. /\ proc[w].pc = "cleared"
      /\ proc'[w].pc = "waiting" /\ proc'[w].d = d
      /\ \A v \in Workers : v # w => proc'[v] = proc[v]
      /\ UNCHANGED <<row, executed, account, standing>>
  BY <1>1, ProcEffects DEF IInv, Post, table
<1>3. posts[d] = 0 /\ Confirmed(d)
  BY <1>1, <1>2 DEF IInv, UnsentIsUnsent, HoldersAreConfirmed, Confirming, Unsent
<1>4. /\ posts'[d] = 1
      /\ \A e \in Decisions : e # d => posts'[e] = posts[e] /\ request'[e] = request[e]
  BY <1>1, <1>3 DEF IInv, TypeOK, Post
<1>5. \A v \in Workers :
        v # w /\ proc[v].pc \in Confirming => proc[v].d \in Decisions /\ proc[v].d # d
  BY <1>1, <1>2 DEF IInv, TypeOK, OneHolder, Confirming, Unsent
<1>6. OpenIsUntouched' /\ ConfirmedIsNotPending'
  BY <1>2, <1>3, <1>4 DEF IInv, OpenIsUntouched, ConfirmedIsNotPending, Confirmed
<1>7. HoldersAreConfirmed'
  BY <1>2, <1>3 DEF IInv, HoldersAreConfirmed, Confirmed
<1>8. OneHolder'
  BY <1>2, <1>5 DEF IInv, OneHolder
<1>9. UnsentIsUnsent'
  BY <1>2, <1>4, <1>5 DEF IInv, UnsentIsUnsent, Confirming, Unsent
<1>10. NoRequestWithoutPost' /\ OnePostPerDecision'
  BY <1>4 DEF IInv, NoRequestWithoutPost, OnePostPerDecision
<1>11. AnsweredIsNotExecuting'
  BY <1>2 DEF IInv, AnsweredIsNotExecuting, Reconciling
<1>12. ClearedIsNotStanding'
  BY <1>2 DEF IInv, ClearedIsNotStanding, Paused
<1>13. QED
  BY <1>6, <1>7, <1>8, <1>9, <1>10, <1>11, <1>12 DEF IInv

\* The cancellation writes over whatever the row says, and confirms it.
LEMMA CancelInv ==
    ASSUME IInv, TypeOK', NEW w \in Workers, MarkCancelled(w)
    PROVE  IInv'
<1>1. PICK d \in Decisions : d = proc[w].d
  BY DEF IInv, TypeOK, MarkCancelled
<1>2. PICK since \in 0..Len(history) :
        row' = [row EXCEPT ![d] = [row[d] EXCEPT
                  !.status = "cancelled", !.confirmed_at = since]]
  BY <1>1 DEF MarkCancelled
<1>3. /\ row'[d].status = "cancelled"
      /\ row'[d].confirmed_at # NotConfirmed
      /\ \A e \in Decisions : e # d => row'[e] = row[e]
  <2>1. row \in [Decisions -> Row] /\ row[d] \in Row /\ since \in Nat
    BY DEF IInv, TypeOK
  <2>2. QED
    BY <1>2, <2>1 DEF Row, NotConfirmed
<1>4. /\ proc'[w].pc = "idle"
      /\ \A v \in Workers : v # w => proc'[v] = proc[v]
      /\ UNCHANGED <<executed, account, request, posts, standing>>
  BY ProcEffects DEF IInv, MarkCancelled, upstream
<1>5. \A v \in Workers :
        proc'[v].pc \in Confirming \cup Reconciling
            => proc'[v] = proc[v] /\ proc[v].d \in Decisions
  BY <1>4 DEF IInv, TypeOK, Confirming, Unsent, Reconciling
<1>6. OpenIsUntouched' /\ ConfirmedIsNotPending'
  BY <1>3, <1>4 DEF IInv, OpenIsUntouched, ConfirmedIsNotPending, Confirmed
<1>7. HoldersAreConfirmed'
  BY <1>3, <1>5 DEF IInv, HoldersAreConfirmed, Confirmed
<1>8. OneHolder' /\ UnsentIsUnsent'
  BY <1>4, <1>5 DEF IInv, OneHolder, UnsentIsUnsent, Confirming
<1>9. NoRequestWithoutPost' /\ OnePostPerDecision'
  BY <1>4 DEF IInv, NoRequestWithoutPost, OnePostPerDecision
<1>10. AnsweredIsNotExecuting'
  BY <1>3, <1>5 DEF IInv, AnsweredIsNotExecuting, Confirming
<1>11. ClearedIsNotStanding'
  BY <1>4, <1>5 DEF IInv, ClearedIsNotStanding, Paused, Confirming, Unsent
<1>12. QED
  BY <1>6, <1>7, <1>8, <1>9, <1>10, <1>11 DEF IInv

\* Reconciliation starts only on a row that is "uncertain", hence confirmed.
LEMMA StartReconcileInv ==
    ASSUME IInv, TypeOK', NEW w \in Workers, NEW m \in tasks, StartReconcile(w, m)
    PROVE  IInv'
<1>1. m.d \in Decisions
  BY DEF IInv, TypeOK, Task
<1>2. /\ proc[w].pc = "idle"
      /\ UNCHANGED <<row, executed, account, request, posts, standing>>
  BY DEF StartReconcile, upstream, table
<1>3. \A v \in Workers :
        \/ proc'[v] = proc[v]
        \/ /\ proc'[v].pc = "syncing" /\ proc'[v].d = m.d
           /\ row[m.d].status = "uncertain"
  BY DEF IInv, TypeOK, StartReconcile
<1>4. row[m.d].status = "uncertain" => Confirmed(m.d)
  BY <1>1 DEF IInv, OpenIsUntouched
<1>5. OpenIsUntouched' /\ ConfirmedIsNotPending'
  BY <1>2 DEF IInv, OpenIsUntouched, ConfirmedIsNotPending, Confirmed
<1>6. HoldersAreConfirmed'
  BY <1>2, <1>3, <1>4 DEF IInv, HoldersAreConfirmed, Confirmed
<1>7. OneHolder'
  BY <1>3 DEF IInv, OneHolder, Confirming, Unsent
<1>8. UnsentIsUnsent' /\ NoRequestWithoutPost' /\ OnePostPerDecision'
  BY <1>2, <1>3 DEF IInv, UnsentIsUnsent, NoRequestWithoutPost,
                    OnePostPerDecision, Unsent
<1>9. AnsweredIsNotExecuting'
  BY <1>2, <1>3 DEF IInv, AnsweredIsNotExecuting
<1>10. ClearedIsNotStanding'
  BY <1>2, <1>3 DEF IInv, ClearedIsNotStanding, Paused
<1>11. QED
  BY <1>5, <1>6, <1>7, <1>8, <1>9, <1>10 DEF IInv

\* Every step of execute_confirmed_decision preserves the invariant.
LEMMA ConfirmInv ==
    ASSUME IInv, TypeOK', NEW w \in Workers, ConfirmStep(w)
    PROVE  IInv'
<1> TypeOK
  BY DEF IInv
<1> "failed" \in Statuses /\ "uncertain" \in Statuses
  BY DEF Statuses
<1>1. proc[w].pc # "idle" /\ proc[w].pc \in Confirming
  BY DEF ConfirmStep, PreflightRefuses, PreflightPasses, ResumeBot,
         ResumeBotDone, OrderTooSmall, Post, AnsweredOk, AnsweredRejected,
         NoAnswer, ScheduleReconciliation, ScheduleFails, RecordInvestment,
         RecordInvestmentFails, Confirming, Unsent
<1>2. PICK d \in Decisions : d = proc[w].d
  BY <1>1 DEF TypeOK
<1>3. CASE PreflightRefuses(w)
  BY <1>1, <1>2, <1>3, RowEffects, ProcEffects, ResolveInv
     DEF PreflightRefuses, MarkFailed, upstream
<1>4. CASE PreflightPasses(w)
  BY <1>4, PreflightInv
<1>5. CASE ResumeBot(w)
  BY <1>5, ResumeBotInv
<1>6. CASE ResumeBotDone(w)
  BY <1>1, <1>2, <1>6, RowEffects, ProcEffects, ResolveInv
     DEF ResumeBotDone, upstream
<1>7. CASE OrderTooSmall(w)
  BY <1>1, <1>2, <1>7, RowEffects, ProcEffects, ResolveInv
     DEF OrderTooSmall, MarkFailed, upstream
<1>8. CASE Post(w)
  BY <1>8, PostInv
<1>9. CASE AnsweredOk(w)
  BY <1>1, <1>2, <1>9, RowEffects, ProcEffects, ResolveInv
     DEF AnsweredOk, upstream
<1>10. CASE AnsweredRejected(w)
  BY <1>1, <1>2, <1>10, RowEffects, ProcEffects, ResolveInv
     DEF AnsweredRejected, MarkFailed, upstream
<1>11. CASE NoAnswer(w)
  BY <1>1, <1>2, <1>11, RowEffects, ProcEffects, ResolveInv
     DEF NoAnswer, MarkUncertain, upstream
<1>12. CASE ScheduleReconciliation(w)
  BY <1>12, ProcEffects, WorkerInv DEF ScheduleReconciliation, upstream, table
<1>13. CASE ScheduleFails(w)
  BY <1>13, ProcEffects, WorkerInv DEF ScheduleFails, upstream, table
<1>14. CASE RecordInvestment(w)
  BY <1>14, ProcEffects, WorkerInv DEF RecordInvestment, upstream, table
<1>15. CASE RecordInvestmentFails(w)
  BY <1>1, <1>2, <1>15, RowEffects, ProcEffects, ResolveInv
     DEF RecordInvestmentFails, MarkFailed, upstream
<1>16. QED
  BY <1>3, <1>4, <1>5, <1>6, <1>7, <1>8, <1>9, <1>10, <1>11, <1>12, <1>13,
     <1>14, <1>15 DEF ConfirmStep

\* Every step of the reconciliation task preserves the invariant.
LEMMA ReconcileInv ==
    ASSUME IInv, TypeOK', NEW w \in Workers, ReconcileStep(w)
    PROVE  IInv'
<1> TypeOK
  BY DEF IInv
<1>1. ASSUME NEW m \in tasks, StartReconcile(w, m) PROVE IInv'
  BY <1>1, StartReconcileInv
<1>2. CASE SyncForReconcile(w)
  BY <1>2, ProcEffects, WorkerInv DEF SyncForReconcile, Reconciling, upstream, table
<1>3. CASE SyncFails(w)
  BY <1>3, ProcEffects, WorkerInv DEF SyncFails, Reconciling, upstream, table
<1>4. CASE FindTransaction(w)
  <2>1. /\ proc[w].pc = "matching"
        /\ proc'[w].pc = "settling" /\ proc'[w].d = proc[w].d
        /\ \A v \in Workers : v # w => proc'[v] = proc[v]
    BY <1>4 DEF TypeOK, FindTransaction, Proc
  <2>2. QED
    BY <1>4, <2>1, WorkerInv DEF FindTransaction, Reconciling, upstream, table
<1>5. CASE RetryReconcile(w)
  BY <1>5, ProcEffects, WorkerInv DEF RetryReconcile, upstream, table
<1>6. CASE LastAttempt(w)
  BY <1>6, ProcEffects, WorkerInv
     DEF LastAttempt, NothingFound, Reconciling, upstream, table
<1>7. ASSUME SettleExecuted(w) \/ SettleFailed(w) PROVE IInv'
  <2>1. proc[w].pc \in Reconciling /\ proc[w].d \in Decisions
    BY <1>7 DEF TypeOK, SettleExecuted, SettleFailed, Reconciling
  <2>2. CASE SettleExecuted(w)
    BY <2>1, <2>2, RowEffects, ProcEffects, ResolveInv DEF SettleExecuted, upstream
  <2>3. CASE SettleFailed(w)
    BY <2>1, <2>3, RowEffects, ProcEffects, ResolveInv
       DEF SettleFailed, MarkFailed, Statuses, upstream
  <2>4. QED
    BY <1>7, <2>2, <2>3
<1>8. QED
  BY <1>1, <1>2, <1>3, <1>4, <1>5, <1>6, <1>7 DEF ReconcileStep

\* Wallbit answers only a request that was posted.
LEMMA WallbitInv == ASSUME IInv, TypeOK', WallbitStep PROVE IInv'
<1>1. /\ UNCHANGED <<row, executed, account, proc, posts, standing>>
      /\ \A d \in Decisions : request'[d] # request[d] => request[d] = "inflight"
  BY DEF IInv, TypeOK, WallbitStep, WallbitApplies, WallbitRefuses, TradeInApp, table
<1>2. NoRequestWithoutPost'
  BY <1>1 DEF IInv, NoRequestWithoutPost
<1>3. OpenIsUntouched' /\ ConfirmedIsNotPending' /\ HoldersAreConfirmed'
  BY <1>1 DEF IInv, OpenIsUntouched, ConfirmedIsNotPending, HoldersAreConfirmed,
              Confirmed
<1>4. OneHolder' /\ UnsentIsUnsent' /\ OnePostPerDecision'
  BY <1>1 DEF IInv, OneHolder, UnsentIsUnsent, OnePostPerDecision
<1>5. AnsweredIsNotExecuting' /\ ClearedIsNotStanding'
  BY <1>1 DEF IInv, AnsweredIsNotExecuting, ClearedIsNotStanding, Paused
<1>6. QED
  BY <1>2, <1>3, <1>4, <1>5 DEF IInv

\* Nothing the invariant speaks of changes.
LEMMA StutterInv ==
    ASSUME IInv, TypeOK',
           UNCHANGED <<row, executed, account, proc, request, posts, standing>>
    PROVE  IInv'
<1>1. OpenIsUntouched' /\ ConfirmedIsNotPending' /\ HoldersAreConfirmed'
  BY DEF IInv, OpenIsUntouched, ConfirmedIsNotPending, HoldersAreConfirmed, Confirmed
<1>2. OneHolder' /\ UnsentIsUnsent' /\ NoRequestWithoutPost' /\ OnePostPerDecision'
  BY DEF IInv, OneHolder, UnsentIsUnsent, NoRequestWithoutPost, OnePostPerDecision
<1>3. AnsweredIsNotExecuting' /\ ClearedIsNotStanding'
  BY DEF IInv, AnsweredIsNotExecuting, ClearedIsNotStanding, Paused
<1>4. QED
  BY <1>1, <1>2, <1>3 DEF IInv

\* The invariant holds before anything is proposed.
LEMMA InitInv == Init => IInv
<1> SUFFICES ASSUME Init PROVE IInv
  OBVIOUS
<1>1. TypeOK
  BY InitType
<1>2. QED
  BY <1>1 DEF Init, IInv, OpenIsUntouched, ConfirmedIsNotPending,
     HoldersAreConfirmed, OneHolder, UnsentIsUnsent, NoRequestWithoutPost,
     AnsweredIsNotExecuting, ClearedIsNotStanding, OnePostPerDecision,
     Confirmed, Absent, Idle, Confirming, Unsent, Reconciling

\* Every step of the system preserves the invariant.
LEMMA NextInv == IInv /\ [Next]_vars => IInv'
<1> SUFFICES ASSUME IInv, [Next]_vars PROVE IInv'
  OBVIOUS
<1>t. TypeOK /\ TypeOK'
  BY NextType DEF IInv
<1>1. CASE AccountStep
  BY <1>1, <1>t, AccountInv
<1>2. CASE \E d \in Decisions : Propose(d)
  BY <1>2, <1>t, ProposeInv
<1>3. CASE \E w \in Workers, d \in Decisions : Claim(w, d) \/ ReadForCancel(w, d)
  <2>1. ASSUME NEW w \in Workers, NEW d \in Decisions, ReadForCancel(w, d) PROVE IInv'
    BY <1>t, <2>1, ProcEffects, WorkerInv DEF ReadForCancel, upstream, table
  <2>2. QED
    BY <1>3, <1>t, <2>1, ClaimInv
<1>4. CASE \E w \in Workers : ConfirmStep(w) \/ MarkCancelled(w) \/ ReconcileStep(w)
  BY <1>4, <1>t, ConfirmInv, CancelInv, ReconcileInv
<1>5. CASE \E w \in Workers : Crash(w)
  BY <1>5, <1>t, ProcEffects, WorkerInv DEF Crash, upstream, table
<1>6. CASE BackgroundSync
  BY <1>6, <1>t, StutterInv DEF BackgroundSync, upstream, table
<1>7. CASE WallbitStep
  BY <1>7, <1>t, WallbitInv
<1>8. CASE UNCHANGED vars
  BY <1>8, <1>t, StutterInv DEF vars
<1>9. QED
  BY <1>1, <1>2, <1>3, <1>4, <1>5, <1>6, <1>7, <1>8 DEF Next

\* The inductive invariant holds in every reachable state: a decision nobody
\* confirmed is untouched, a confirmed one is held by at most one confirming
\* worker, and a worker that has not sent holds a decision never sent.
THEOREM InvariantHolds == Spec => []IInv
BY InitInv, NextInv, PTL DEF Spec

\* However confirmations, redeliveries, cancellations, reconciliations and
\* crashes interleave, Wallbit receives at most one write per decision.
THEOREM OnePost == Spec => []OnePostPerDecision
<1>1. IInv => OnePostPerDecision
  BY DEF IInv
<1>2. QED
  BY InvariantHolds, <1>1, PTL
-----------------------------------------------------------------------------
(* What a single step may do: the action properties.                       *)

\* No step takes a confirmation back: the saves that follow the claim leave
\* confirmed_at alone, and a cancellation stamps it again.
LEMMA ConfirmedStays ==
    ASSUME IInv, [Next]_vars, NEW d \in Decisions, Confirmed(d)
    PROVE  Confirmed(d)'
<1> TypeOK
  BY DEF IInv
<1> USE DEF Confirmed
<1>1. CASE AccountStep
  BY <1>1 DEF AccountStep, SetAccount, Connect, Disconnect, Pause, Resume,
              PauseExpires, table
<1>2. ASSUME NEW e \in Decisions, Propose(e) PROVE Confirmed(d)'
  BY <1>2, RowEffects DEF Propose, Statuses
<1>3. ASSUME NEW w \in Workers, NEW e \in Decisions, Claim(w, e) \/ ReadForCancel(w, e)
      PROVE  Confirmed(d)'
  BY <1>3 DEF TypeOK, Claim, Claimable, ReadForCancel, table
<1>4. ASSUME NEW w \in Workers, ConfirmStep(w) PROVE Confirmed(d)'
  <2>1. proc[w].d \in Decisions
    BY <1>4 DEF TypeOK, ConfirmStep, PreflightRefuses, PreflightPasses, ResumeBot,
         ResumeBotDone, OrderTooSmall, Post, AnsweredOk, AnsweredRejected,
         NoAnswer, ScheduleReconciliation, ScheduleFails, RecordInvestment,
         RecordInvestmentFails
  <2>2. \/ SetStatus(proc[w].d, "failed") \/ SetStatus(proc[w].d, "uncertain")
        \/ \E uuid : MarkExecuted(proc[w].d, uuid)
        \/ UNCHANGED row
    BY <1>4 DEF ConfirmStep, PreflightRefuses, PreflightPasses, ResumeBot,
         ResumeBotDone, OrderTooSmall, Post, AnsweredOk, AnsweredRejected,
         NoAnswer, ScheduleReconciliation, ScheduleFails, RecordInvestment,
         RecordInvestmentFails, MarkFailed, MarkUncertain, table
  <2>3. QED
    BY <2>1, <2>2, RowEffects DEF Statuses
<1>5. ASSUME NEW w \in Workers, MarkCancelled(w) PROVE Confirmed(d)'
  <2>1. proc[w].d \in Decisions
    BY <1>5 DEF TypeOK, MarkCancelled
  <2>2. PICK since \in 0..Len(history) :
          row' = [row EXCEPT ![proc[w].d] = [row[proc[w].d] EXCEPT
                    !.status = "cancelled", !.confirmed_at = since]]
    BY <1>5 DEF MarkCancelled
  <2>3. row \in [Decisions -> Row] /\ since \in Nat
    BY DEF TypeOK
  <2>4. QED
    BY <2>1, <2>2, <2>3 DEF Row, NotConfirmed
<1>6. ASSUME NEW w \in Workers, ReconcileStep(w) PROVE Confirmed(d)'
  <2>1. \/ proc[w].d \in Decisions /\ SetStatus(proc[w].d, "failed")
        \/ proc[w].d \in Decisions /\ \E uuid : MarkExecuted(proc[w].d, uuid)
        \/ UNCHANGED row
    BY <1>6 DEF TypeOK, ReconcileStep, StartReconcile, SyncForReconcile, SyncFails,
         FindTransaction, RetryReconcile, LastAttempt, SettleExecuted,
         SettleFailed, MarkFailed, table
  <2>2. QED
    BY <2>1, RowEffects DEF Statuses
<1>7. ASSUME NEW w \in Workers, Crash(w) PROVE Confirmed(d)'
  BY <1>7 DEF Crash, table
<1>8. CASE BackgroundSync \/ WallbitStep \/ UNCHANGED vars
  BY <1>8 DEF BackgroundSync, WallbitStep, WallbitApplies, WallbitRefuses,
              TradeInApp, vars, table
<1>9. QED
  BY <1>1, <1>2, <1>3, <1>4, <1>5, <1>6, <1>7, <1>8 DEF Next

\* A decision that was confirmed or cancelled never becomes actionable again,
\* whichever handlers, retries and cancellations follow.
THEOREM NeverActionable == Spec => NeverActionableAgain
<1>1. ASSUME IInv, IInv', [Next]_vars
      PROVE  [\A d \in Decisions : row[d].confirmed_at # NotConfirmed
                => row'[d].confirmed_at # NotConfirmed /\ row'[d].status # "pending"]_vars
  BY <1>1, ConfirmedStays DEF IInv, ConfirmedIsNotPending, Confirmed
<1>2. QED
  BY InvariantHolds, <1>1, PTL DEF Spec, NeverActionableAgain

\* Only Post sends a request.
LEMMA OnlyPostPosts ==
    ASSUME [Next]_vars
    PROVE  UNCHANGED posts \/ \E w \in Workers : Post(w)
BY DEF Next, AccountStep, SetAccount, Connect, Disconnect, Pause, Resume,
       PauseExpires, Propose, Claim, ReadForCancel, ConfirmStep,
       PreflightRefuses, PreflightPasses, ResumeBot, ResumeBotDone,
       OrderTooSmall, AnsweredOk, AnsweredRejected, NoAnswer,
       ScheduleReconciliation, ScheduleFails, RecordInvestment,
       RecordInvestmentFails, MarkCancelled, ReconcileStep, StartReconcile,
       SyncForReconcile, SyncFails, FindTransaction, RetryReconcile,
       LastAttempt, SettleExecuted, SettleFailed, BackgroundSync, WallbitStep,
       WallbitApplies, WallbitRefuses, TradeInApp, Crash, vars

\* A decision confirmed under a pause is sent only if that pause ended first.
THEOREM NoPostUnderPause == Spec => NoPostUnderStandingPause
<1>1. ASSUME IInv, [Next]_vars
      PROVE  [\A d \in Decisions : posts'[d] > posts[d] => d \notin standing]_vars
  <2>1. CASE UNCHANGED posts
    BY <1>1, <2>1 DEF IInv, TypeOK
  <2>2. ASSUME NEW w \in Workers, Post(w)
        PROVE  \A d \in Decisions : posts'[d] > posts[d] => d \notin standing
    <3> SUFFICES ASSUME NEW d \in Decisions, posts'[d] > posts[d]
                 PROVE  d \notin standing
      OBVIOUS
    <3>1. d = proc[w].d
      BY <1>1, <2>2 DEF IInv, TypeOK, Post
    <3>2. QED
      BY <1>1, <2>2, <3>1 DEF IInv, ClearedIsNotStanding, Post
  <2>3. QED
    BY <1>1, <2>1, <2>2, OnlyPostPosts
<1>2. QED
  BY InvariantHolds, <1>1, PTL DEF Spec, NoPostUnderStandingPause

\* The only statements that turn an executing row into a failed one are the
\* pre-flight's, the order check's and the handler of Wallbit's rejection.
LEMMA WhoFails ==
    ASSUME IInv, [Next]_vars, NEW d \in Decisions,
           row[d].status = "executing", row'[d].status = "failed"
    PROVE  \E w \in Workers :
              /\ proc[w].d = d
              /\ PreflightRefuses(w) \/ OrderTooSmall(w) \/ AnsweredRejected(w)
<1> TypeOK
  BY DEF IInv
<1>1. ~AccountStep /\ ~BackgroundSync /\ ~WallbitStep /\ ~UNCHANGED vars
  BY DEF AccountStep, SetAccount, Connect, Disconnect, Pause, Resume,
         PauseExpires, BackgroundSync, WallbitStep, WallbitApplies,
         WallbitRefuses, TradeInApp, vars, table
<1>2. ASSUME NEW e \in Decisions PROVE ~Propose(e)
  BY RowEffects DEF Propose, Statuses
<1>3. ASSUME NEW w \in Workers, NEW e \in Decisions
      PROVE  ~Claim(w, e) /\ ~ReadForCancel(w, e)
  BY DEF TypeOK, Claim, ReadForCancel, Claimable, table, Row
<1>4. ASSUME NEW w \in Workers PROVE ~MarkCancelled(w) /\ ~Crash(w)
  <2>1. ASSUME MarkCancelled(w) PROVE FALSE
    <3>1. PICK since : row' = [row EXCEPT ![proc[w].d] =
                         [row[proc[w].d] EXCEPT !.status = "cancelled", !.confirmed_at = since]]
      BY <2>1 DEF MarkCancelled
    <3>2. row \in [Decisions -> Row] /\ row[d] \in Row
      BY DEF TypeOK
    <3>3. row'[d].status = "cancelled" \/ row'[d] = row[d]
      BY <3>1, <3>2 DEF Row
    <3>4. QED
      BY <3>3
  <2>2. ~Crash(w)
    BY DEF Crash, table
  <2>3. QED
    BY <2>1, <2>2
<1>5. ASSUME NEW w \in Workers, ReconcileStep(w) PROVE FALSE
  <2>1. \/ /\ proc[w].pc \in Reconciling /\ proc[w].d \in Decisions
           /\ SetStatus(proc[w].d, "failed") \/ \E uuid : MarkExecuted(proc[w].d, uuid)
        \/ UNCHANGED row
    BY <1>5 DEF TypeOK, ReconcileStep, StartReconcile, SyncForReconcile, SyncFails,
         FindTransaction, RetryReconcile, LastAttempt, SettleExecuted,
         SettleFailed, MarkFailed, Reconciling, table
  <2>2. QED
    BY <2>1, RowEffects DEF IInv, AnsweredIsNotExecuting, Statuses
<1>6. ASSUME NEW w \in Workers, ConfirmStep(w),
             ~(PreflightRefuses(w) \/ OrderTooSmall(w) \/ AnsweredRejected(w))
      PROVE  FALSE
  <2>1. \/ /\ proc[w].pc = "recording" /\ proc[w].d \in Decisions
           /\ SetStatus(proc[w].d, "failed")
        \/ /\ proc[w].d \in Decisions
           /\ SetStatus(proc[w].d, "uncertain") \/ \E uuid : MarkExecuted(proc[w].d, uuid)
        \/ UNCHANGED row
    BY <1>6 DEF TypeOK, ConfirmStep, PreflightPasses, ResumeBot, ResumeBotDone,
         Post, AnsweredOk, NoAnswer, ScheduleReconciliation, ScheduleFails,
         RecordInvestment, RecordInvestmentFails, MarkFailed, MarkUncertain, table
  <2>2. QED
    BY <2>1, RowEffects DEF IInv, AnsweredIsNotExecuting, Statuses
<1>7. ASSUME NEW w \in Workers,
             PreflightRefuses(w) \/ OrderTooSmall(w) \/ AnsweredRejected(w)
      PROVE  proc[w].d = d
  <2>1. proc[w].d \in Decisions /\ SetStatus(proc[w].d, "failed")
    BY <1>7 DEF TypeOK, PreflightRefuses, OrderTooSmall, AnsweredRejected, MarkFailed
  <2>2. QED
    BY <2>1, RowEffects DEF Statuses
<1>8. QED
  BY <1>1, <1>2, <1>3, <1>4, <1>5, <1>6, <1>7 DEF Next

\* An unanswered write is never reported as rejected.
THEOREM NoAnswerNotRejected == Spec => NoAnswerIsNotRejection
<1>1. ASSUME IInv, [Next]_vars
      PROVE  [\A d \in Decisions :
                row[d].status = "executing" /\ row'[d].status = "failed"
                    => request[d] \in {"none", "refused"}]_vars
  <2> SUFFICES ASSUME NEW d \in Decisions,
                      row[d].status = "executing", row'[d].status = "failed"
               PROVE  request[d] \in {"none", "refused"}
    OBVIOUS
  <2>1. PICK w \in Workers :
          /\ proc[w].d = d
          /\ PreflightRefuses(w) \/ OrderTooSmall(w) \/ AnsweredRejected(w)
    BY <1>1, WhoFails
  <2>2. CASE proc[w].pc \in Unsent
    BY <1>1, <2>1, <2>2 DEF IInv, UnsentIsUnsent, NoRequestWithoutPost
  <2>3. CASE AnsweredRejected(w)
    BY <2>1, <2>3 DEF AnsweredRejected
  <2>4. QED
    BY <2>1, <2>2, <2>3 DEF PreflightRefuses, OrderTooSmall, Unsent
<1>2. QED
  BY InvariantHolds, <1>1, PTL DEF Spec, NoAnswerIsNotRejection

-----------------------------------------------------------------------------
(* The refinement.                                                         *)

\* The phase of a decision depends on these three facts only.
LEMMA PhaseDepends ==
    ASSUME NEW d, posts'[d] = posts[d], Confirmed(d)' <=> Confirmed(d),
           Held(d)' <=> Held(d)
    PROVE  Phase(d)' = Phase(d)
BY DEF Phase, Confirmed

\* A step in which no worker starts or stops holding an unsent decision.
LEMMA QuietStep ==
    ASSUME UNCHANGED posts,
           \A d \in Decisions : Confirmed(d)' <=> Confirmed(d),
           \A v \in Workers :
              \/ proc'[v] = proc[v]
              \/ proc[v].pc \notin Unsent /\ proc'[v].pc \notin Unsent
              \/ proc[v].pc \in Unsent /\ proc'[v].pc \in Unsent /\ proc'[v].d = proc[v].d
    PROVE  UNCHANGED <<AbstractPhase, posts>>
<1>1. ASSUME NEW d \in Decisions PROVE Phase(d)' = Phase(d)
  <2>1. Held(d)' <=> Held(d)
    BY DEF Held
  <2>2. QED
    BY <2>1, PhaseDepends
<1>2. QED
  BY <1>1 DEF AbstractPhase

\* A step in which one decision alone changes phase.
LEMMA MoveStep ==
    ASSUME NEW d \in Decisions, NEW from, NEW to, Phase(d) = from, Phase(d)' = to,
           \A e \in Decisions : e # d => Phase(e)' = Phase(e)
    PROVE  Abstract!Move(d, from, to)
BY DEF Abstract!Move, AbstractPhase

\* The worker that holds a claimed, unsent decision gives it up.
LEMMA DropStep ==
    ASSUME IInv, NEW w \in Workers, proc[w].pc \in Unsent, proc'[w].pc \notin Unsent,
           UNCHANGED posts,
           \A d \in Decisions : Confirmed(d)' <=> Confirmed(d),
           \A v \in Workers : v # w => proc'[v] = proc[v]
    PROVE  Abstract!Next
<1>1. PICK d \in Decisions : d = proc[w].d
  BY DEF IInv, TypeOK, Unsent
<1>2. posts[d] = 0 /\ Confirmed(d) /\ Held(d)
  BY <1>1 DEF IInv, UnsentIsUnsent, HoldersAreConfirmed, Confirming, Held
<1>3. ~Held(d)'
  <2> SUFFICES ASSUME NEW v \in Workers, proc'[v].pc \in Unsent PROVE proc'[v].d # d
    BY DEF Held
  <2>1. v # w /\ proc'[v] = proc[v]
    OBVIOUS
  <2>2. QED
    BY <1>1, <2>1 DEF IInv, OneHolder, Confirming
<1>4. Phase(d) = "taken" /\ Phase(d)' = "closed"
  BY <1>2, <1>3 DEF Phase, Confirmed
<1>5. ASSUME NEW e \in Decisions, e # d PROVE Phase(e)' = Phase(e)
  <2>1. Held(e)' <=> Held(e)
    BY <1>1, <1>5 DEF Held
  <2>2. QED
    BY <2>1, PhaseDepends
<1>6. Abstract!Drop(d)
  BY <1>4, <1>5, MoveStep DEF Abstract!Drop
<1>7. QED
  BY <1>6 DEF Abstract!Next

\* A claim is the abstract Take.
LEMMA ClaimRefines ==
    ASSUME IInv, NEW w \in Workers, NEW d \in Decisions, Claim(w, d)
    PROVE  Abstract!Next
<1> TypeOK
  BY DEF IInv
<1>1. PICK since \in 0..Len(history) :
        row' = [row EXCEPT ![d] = [row[d] EXCEPT
                  !.status = "executing", !.confirmed_at = since]]
  BY DEF Claim
<1>2. row'[d].confirmed_at # NotConfirmed /\ \A e \in Decisions : e # d => row'[e] = row[e]
  <2>1. row \in [Decisions -> Row] /\ row[d] \in Row /\ since \in Nat
    BY DEF TypeOK
  <2>2. QED
    BY <1>1, <2>1 DEF Row, NotConfirmed
<1>3. /\ ~Confirmed(d) /\ UNCHANGED posts
      /\ proc[w].pc = "idle"
      /\ proc'[w].pc = "claimed" /\ proc'[w].d = d
      /\ \A v \in Workers : v # w => proc'[v] = proc[v]
  BY ProcEffects DEF Claim, Claimable, Confirmed
<1>4. posts[d] = 0
  BY <1>3 DEF IInv, OpenIsUntouched
<1>5. Phase(d) = "open" /\ Phase(d)' = "taken"
  BY <1>2, <1>3, <1>4 DEF Phase, Held, Confirmed, Unsent
<1>6. ASSUME NEW e \in Decisions, e # d PROVE Phase(e)' = Phase(e)
  <2>1. Held(e)' <=> Held(e)
    BY <1>3, <1>6 DEF Held, Unsent
  <2>2. QED
    BY <1>2, <1>3, <1>6, <2>1, PhaseDepends DEF Confirmed
<1>7. Abstract!Take(d)
  BY <1>3, <1>5, <1>6, MoveStep DEF Abstract!Take
<1>8. QED
  BY <1>7 DEF Abstract!Next

\* A request is the abstract Send.
LEMMA PostRefines ==
    ASSUME IInv, NEW w \in Workers, Post(w)
    PROVE  Abstract!Next
<1> TypeOK
  BY DEF IInv
<1>1. PICK d \in Decisions : d = proc[w].d
  BY DEF TypeOK, Post
<1>2. /\ proc[w].pc = "cleared"
      /\ proc'[w].pc = "waiting" /\ proc'[w].d = d
      /\ \A v \in Workers : v # w => proc'[v] = proc[v]
      /\ UNCHANGED row
  BY <1>1, ProcEffects DEF Post, table
<1>3. posts[d] = 0 /\ Confirmed(d) /\ Held(d)
  BY <1>1, <1>2 DEF IInv, UnsentIsUnsent, HoldersAreConfirmed, Confirming, Unsent, Held
<1>4. posts' = [posts EXCEPT ![d] = 1] /\ posts \in [Decisions -> Nat]
  BY <1>1, <1>3 DEF TypeOK, Post
<1>5. Phase(d) = "taken" /\ Phase(d)' = "sent"
  BY <1>3, <1>4 DEF Phase, Confirmed
<1>6. ASSUME NEW e \in Decisions, e # d PROVE Phase(e)' = Phase(e)
  <2>1. Held(e)' <=> Held(e)
    BY <1>1, <1>2, <1>6 DEF Held, Unsent
  <2>2. QED
    BY <1>2, <1>4, <1>6, <2>1, PhaseDepends DEF Confirmed
<1>7. Abstract!Send(d)
  BY <1>3, <1>4, <1>5, <1>6, MoveStep DEF Abstract!Send
<1>8. QED
  BY <1>7 DEF Abstract!Next

\* A cancellation closes an open decision, or comes too late and stutters.
LEMMA CancelRefines ==
    ASSUME IInv, NEW w \in Workers, MarkCancelled(w)
    PROVE  Abstract!Next \/ UNCHANGED <<AbstractPhase, posts>>
<1> TypeOK
  BY DEF IInv
<1>1. PICK d \in Decisions : d = proc[w].d
  BY DEF TypeOK, MarkCancelled
<1>2. PICK since \in 0..Len(history) :
        row' = [row EXCEPT ![d] = [row[d] EXCEPT
                  !.status = "cancelled", !.confirmed_at = since]]
  BY <1>1 DEF MarkCancelled
<1>3. row'[d].confirmed_at # NotConfirmed /\ \A e \in Decisions : e # d => row'[e] = row[e]
  <2>1. row \in [Decisions -> Row] /\ row[d] \in Row /\ since \in Nat
    BY DEF TypeOK
  <2>2. QED
    BY <1>2, <2>1 DEF Row, NotConfirmed
<1>4. /\ UNCHANGED posts
      /\ proc[w].pc \notin Unsent /\ proc'[w].pc \notin Unsent
      /\ \A v \in Workers : v # w => proc'[v] = proc[v]
  BY ProcEffects DEF MarkCancelled, Unsent
<1>5. ASSUME NEW e \in Decisions PROVE Held(e)' <=> Held(e)
  BY <1>4 DEF Held
<1>6. ASSUME NEW e \in Decisions, e # d PROVE Phase(e)' = Phase(e)
  BY <1>3, <1>4, <1>5, <1>6, PhaseDepends DEF Confirmed
<1>7. CASE Confirmed(d)
  <2>1. Phase(d)' = Phase(d)
    BY <1>3, <1>4, <1>5, <1>7, PhaseDepends DEF Confirmed
  <2>2. QED
    BY <1>4, <1>6, <2>1 DEF AbstractPhase
<1>8. CASE ~Confirmed(d)
  <2>1. posts[d] = 0
    BY <1>8 DEF IInv, OpenIsUntouched
  <2>2. ~Held(d)
    BY <1>8 DEF IInv, HoldersAreConfirmed, Held, Confirming
  <2>3. Phase(d) = "open" /\ Phase(d)' = "closed"
    BY <1>3, <1>4, <1>5, <1>8, <2>1, <2>2 DEF Phase, Confirmed
  <2>4. Abstract!Close(d)
    BY <1>4, <1>6, <2>3, MoveStep DEF Abstract!Close
  <2>5. QED
    BY <2>4 DEF Abstract!Next
<1>9. QED
  BY <1>7, <1>8

\* Each step of a confirmation is a Drop, a Send or a stutter.
LEMMA ConfirmRefines ==
    ASSUME IInv, NEW w \in Workers, ConfirmStep(w)
    PROVE  Abstract!Next \/ UNCHANGED <<AbstractPhase, posts>>
<1> TypeOK
  BY DEF IInv
<1>1. CASE Post(w)
  BY <1>1, PostRefines
<1>2. CASE ~Post(w)
  <2>1. proc[w].d \in Decisions
    BY DEF TypeOK, ConfirmStep, PreflightRefuses, PreflightPasses, ResumeBot,
         ResumeBotDone, OrderTooSmall, Post, AnsweredOk, AnsweredRejected,
         NoAnswer, ScheduleReconciliation, ScheduleFails, RecordInvestment,
         RecordInvestmentFails
  <2>2. \/ SetStatus(proc[w].d, "failed") \/ SetStatus(proc[w].d, "uncertain")
        \/ \E uuid : MarkExecuted(proc[w].d, uuid)
        \/ UNCHANGED row
    BY <1>2 DEF ConfirmStep, PreflightRefuses, PreflightPasses, ResumeBot,
         ResumeBotDone, OrderTooSmall, AnsweredOk, AnsweredRejected,
         NoAnswer, ScheduleReconciliation, ScheduleFails, RecordInvestment,
         RecordInvestmentFails, MarkFailed, MarkUncertain, table
  <2>3. \A d \in Decisions : Confirmed(d)' <=> Confirmed(d)
    BY <2>1, <2>2, RowEffects DEF Statuses, Confirmed
  <2>4. UNCHANGED posts
    BY <1>2 DEF ConfirmStep, PreflightRefuses, PreflightPasses, ResumeBot,
         ResumeBotDone, OrderTooSmall, AnsweredOk, AnsweredRejected,
         NoAnswer, ScheduleReconciliation, ScheduleFails, RecordInvestment,
         RecordInvestmentFails
  <2>5. \/ Finish(w)
        \/ \E pc \in {"resumed", "scheduling", "recording"} : Become(w, pc)
        \/ proc[w].pc = "claimed" /\ Become(w, "cleared")
    BY <1>2 DEF ConfirmStep, PreflightRefuses, PreflightPasses, ResumeBot,
         ResumeBotDone, OrderTooSmall, AnsweredOk, AnsweredRejected,
         NoAnswer, ScheduleReconciliation, ScheduleFails, RecordInvestment,
         RecordInvestmentFails
  <2>6. /\ \A v \in Workers : v # w => proc'[v] = proc[v]
        /\ \/ proc'[w].pc \notin Unsent
           \/ proc[w].pc \in Unsent /\ proc'[w].pc \in Unsent /\ proc'[w].d = proc[w].d
    BY <2>5, ProcEffects DEF Unsent
  <2>7. CASE proc[w].pc \in Unsent /\ proc'[w].pc \notin Unsent
    BY <2>3, <2>4, <2>6, <2>7, DropStep
  <2>8. CASE ~(proc[w].pc \in Unsent /\ proc'[w].pc \notin Unsent)
    BY <2>3, <2>4, <2>6, <2>8, QuietStep
  <2>9. QED
    BY <2>7, <2>8
<1>3. QED
  BY <1>1, <1>2

\* A reconciliation never touches the phase of a decision.
LEMMA ReconcileRefines ==
    ASSUME IInv, NEW w \in Workers, ReconcileStep(w)
    PROVE  UNCHANGED <<AbstractPhase, posts>>
<1> TypeOK
  BY DEF IInv
<1>1. \/ proc[w].d \in Decisions /\ SetStatus(proc[w].d, "failed")
      \/ proc[w].d \in Decisions /\ \E uuid : MarkExecuted(proc[w].d, uuid)
      \/ UNCHANGED row
  BY DEF TypeOK, ReconcileStep, StartReconcile, SyncForReconcile, SyncFails,
       FindTransaction, RetryReconcile, LastAttempt, SettleExecuted,
       SettleFailed, MarkFailed, table
<1>2. \A d \in Decisions : Confirmed(d)' <=> Confirmed(d)
  BY <1>1, RowEffects DEF Statuses, Confirmed
<1>3. /\ UNCHANGED posts
      /\ \A v \in Workers : v # w => proc'[v] = proc[v]
      /\ \/ proc' = proc
         \/ proc[w].pc \notin Unsent /\ proc'[w].pc \notin Unsent
  BY ProcEffects DEF TypeOK, Proc, ReconcileStep, StartReconcile, SyncForReconcile, SyncFails,
       FindTransaction, NothingFound, RetryReconcile, LastAttempt,
       SettleExecuted, SettleFailed, Unsent
<1>4. QED
  BY <1>2, <1>3, QuietStep

\* Every behaviour of the lifecycle, with any number of workers, decisions,
\* crashes and late answers, is a behaviour of the one-shot write.
THEOREM Refinement == Spec => ImplementsWriteOnce
<1>1. Init => Abstract!Init
  <2> SUFFICES ASSUME Init PROVE Abstract!Init
    OBVIOUS
  <2>1. ASSUME NEW d \in Decisions PROVE Phase(d) = "open"
    BY DEF Init, Phase, Absent
  <2>2. QED
    BY <2>1 DEF Init, Abstract!Init, AbstractPhase
<1>2. ASSUME IInv, [Next]_vars
      PROVE  Abstract!Next \/ UNCHANGED <<AbstractPhase, posts>>
  <2> TypeOK
    BY <1>2 DEF IInv
  <2>1. CASE AccountStep \/ BackgroundSync \/ WallbitStep \/ UNCHANGED vars
    <3>1. UNCHANGED <<row, proc, posts>>
      BY <2>1 DEF AccountStep, SetAccount, Connect, Disconnect, Pause, Resume,
           PauseExpires, BackgroundSync, WallbitStep, WallbitApplies,
           WallbitRefuses, TradeInApp, vars, table
    <3>2. QED
      BY <3>1, QuietStep DEF Confirmed
  <2>2. ASSUME NEW d \in Decisions, Propose(d)
        PROVE  UNCHANGED <<AbstractPhase, posts>>
    BY <2>2, RowEffects, QuietStep DEF Propose, Statuses, Confirmed
  <2>3. ASSUME NEW w \in Workers, NEW d \in Decisions, ReadForCancel(w, d)
        PROVE  UNCHANGED <<AbstractPhase, posts>>
    BY <2>3, ProcEffects, QuietStep DEF ReadForCancel, Unsent, Confirmed, table
  <2>4. ASSUME NEW w \in Workers, Crash(w)
        PROVE  Abstract!Next \/ UNCHANGED <<AbstractPhase, posts>>
    <3>1. /\ UNCHANGED posts
          /\ \A d \in Decisions : Confirmed(d)' <=> Confirmed(d)
          /\ \A v \in Workers : v # w => proc'[v] = proc[v]
          /\ proc'[w].pc \notin Unsent
      BY <2>4, ProcEffects DEF Crash, table, Confirmed, Unsent
    <3>2. CASE proc[w].pc \in Unsent
      BY <1>2, <3>1, <3>2, DropStep
    <3>3. CASE proc[w].pc \notin Unsent
      BY <3>1, <3>3, QuietStep
    <3>4. QED
      BY <3>2, <3>3
  <2>5. QED
    BY <1>2, <2>1, <2>2, <2>3, <2>4, ClaimRefines, ConfirmRefines,
       CancelRefines, ReconcileRefines DEF Next
<1>3. QED
  BY InvariantHolds, <1>1, <1>2, PTL DEF Spec, ImplementsWriteOnce, Abstract!Spec
-----------------------------------------------------------------------------
(* The verdicts on unanswered writes.                                      *)

Judging == Reconciling \cup {"scheduling"}
Undecided == Unsent \cup {"resumed", "waiting"}

\* A worker that judges an unanswered write, or may come to, is the only one who
\* does: no other worker judges that decision and no message waits for it.
OneVerdict ==
    /\ \A m \in tasks : Confirmed(m.d)
    /\ \A m, n \in tasks : m.d = n.d => m = n
    /\ \A w \in Workers : proc[w].pc \in Judging \cup Undecided =>
         /\ \A m \in tasks : m.d # proc[w].d
         /\ \A v \in Workers : v # w /\ proc[v].pc \in Judging => proc[v].d # proc[w].d

LEMMA AtWork ==
    ASSUME TypeOK, NEW w \in Workers, proc[w].pc \in Judging \cup Undecided
    PROVE  proc[w].d \in Decisions
BY DEF TypeOK, Judging, Undecided, Unsent, Reconciling

\* No worker takes a decision up, and messages are only lost.
LEMMA NobodyTakesUp ==
    ASSUME IInv, OneVerdict, [Next]_vars, tasks' \subseteq tasks,
           \A v \in Workers :
               proc'[v].pc \in Judging \cup Undecided =>
                   /\ proc[v].pc \in Judging \cup Undecided
                   /\ proc'[v].d = proc[v].d
                   /\ proc'[v].pc \in Undecided => proc[v].pc \in Undecided
    PROVE  OneVerdict'
<1>1. \A m \in tasks : m.d \in Decisions
  BY DEF IInv, TypeOK, Task
<1>2. \A m \in tasks' : Confirmed(m.d)'
  BY <1>1, ConfirmedStays DEF OneVerdict
<1>3. \A m, n \in tasks' : m.d = n.d => m = n
  BY DEF OneVerdict
<1>4. ASSUME NEW w \in Workers, proc'[w].pc \in Judging \cup Undecided
      PROVE  /\ \A m \in tasks' : m.d # proc'[w].d
             /\ \A v \in Workers :
                  v # w /\ proc'[v].pc \in Judging => proc'[v].d # proc'[w].d
  <2>1. \A m \in tasks' : m.d # proc'[w].d
    BY <1>4 DEF OneVerdict
  <2>2. ASSUME NEW v \in Workers, v # w, proc'[v].pc \in Judging
        PROVE  proc'[v].d # proc'[w].d
    <3>1. /\ proc'[v].d = proc[v].d /\ proc'[w].d = proc[w].d
          /\ proc[v].pc \in Judging \cup Undecided /\ proc[w].pc \in Judging \cup Undecided
      BY <1>4, <2>2
    <3>2. CASE proc[v].pc \in Judging \/ proc[w].pc \in Judging
      BY <2>2, <3>1, <3>2 DEF OneVerdict
    <3>3. CASE proc[v].pc \in Undecided /\ proc[w].pc \in Undecided
      BY <2>2, <3>1, <3>3 DEF IInv, OneHolder, Undecided, Confirming
    <3>4. QED
      BY <3>1, <3>2, <3>3
  <2>3. QED
    BY <2>1, <2>2
<1>5. QED
  BY <1>2, <1>3, <1>4 DEF OneVerdict

\* A claim takes a decision up that nobody had: it was not confirmed.
LEMMA ClaimedOnce ==
    ASSUME IInv, OneVerdict, NEW w \in Workers, NEW d \in Decisions, Claim(w, d)
    PROVE  OneVerdict'
<1>1. /\ ~Confirmed(d) /\ tasks' = tasks
      /\ proc'[w].pc = "claimed" /\ proc'[w].d = d
      /\ \A v \in Workers : v # w => proc'[v] = proc[v]
  BY ProcEffects DEF IInv, Claim, Claimable, Confirmed
<1>2. [Next]_vars
  BY DEF Next
<1>3. \A m \in tasks : m.d \in Decisions /\ m.d # d
  BY <1>1 DEF IInv, TypeOK, Task, OneVerdict
<1>4. \A v \in Workers : v # w /\ proc'[v].pc \in Judging \cup Undecided =>
        proc[v].d \in Decisions /\ proc[v].d # d
  BY <1>1, AtWork DEF IInv, HoldersAreConfirmed, Judging, Undecided, Confirming
<1>5. \A m \in tasks' : Confirmed(m.d)'
  BY <1>1, <1>2, <1>3, ConfirmedStays DEF OneVerdict
<1>6. "claimed" \notin Judging
  BY DEF Judging, Reconciling
<1>7. QED
  BY <1>1, <1>3, <1>4, <1>5, <1>6 DEF OneVerdict

\* A message is queued by the worker that judged its decision, which is then free.
LEMMA QueuedByItsJudge ==
    ASSUME IInv, OneVerdict, [Next]_vars, NEW w \in Workers, proc[w].pc \in Judging,
           NEW m \in Task, m.d = proc[w].d, tasks' = tasks \cup {m}, Finish(w)
    PROVE  OneVerdict'
<1>1. proc'[w].pc = "idle" /\ \A v \in Workers : v # w => proc'[v] = proc[v]
  BY ProcEffects DEF IInv
<1>2. "idle" \notin Judging \cup Undecided
  BY DEF Judging, Undecided, Unsent, Reconciling
<1>3. \A n \in tasks' : n.d \in Decisions /\ Confirmed(n.d)
  BY DEF IInv, TypeOK, Task, OneVerdict, HoldersAreConfirmed, Judging, Confirming
<1>4. \A n \in tasks' : Confirmed(n.d)'
  BY <1>3, ConfirmedStays
<1>5. \A n, o \in tasks' : n.d = o.d => n = o
  BY DEF OneVerdict
<1>6. ASSUME NEW v \in Workers, proc'[v].pc \in Judging \cup Undecided
      PROVE  \A n \in tasks' : n.d # proc'[v].d
  <2>1. v # w /\ proc'[v] = proc[v]
    BY <1>1, <1>2, <1>6
  <2>2. QED
    BY <1>6, <2>1 DEF OneVerdict
<1>7. \A v, u \in Workers :
        proc'[v].pc \in Judging \cup Undecided /\ u # v /\ proc'[u].pc \in Judging
          => proc'[u].d # proc'[v].d
  BY <1>1, <1>2 DEF OneVerdict
<1>8. QED
  BY <1>4, <1>5, <1>6, <1>7 DEF OneVerdict

\* A worker takes a message, which was the only one of its decision.
LEMMA TakenUpByOne ==
    ASSUME IInv, OneVerdict, NEW w \in Workers, NEW m \in tasks, StartReconcile(w, m)
    PROVE  OneVerdict'
<1>1. [Next]_vars
  BY DEF Next, ReconcileStep
<1>2. tasks' = tasks \ {m} /\ proc[w].pc = "idle"
  BY DEF StartReconcile
<1>3. CASE proc' = proc
  BY <1>1, <1>2, <1>3, NobodyTakesUp
<1>4. CASE proc' # proc
  <2>1. /\ proc'[w].d = m.d /\ proc'[w].pc = "syncing"
        /\ \A v \in Workers : v # w => proc'[v] = proc[v]
    BY <1>4 DEF StartReconcile, IInv, TypeOK
  <2>2. "syncing" \in Judging
    BY DEF Judging, Reconciling
  <2>3. \A n \in tasks' : n.d \in Decisions /\ n.d # m.d /\ Confirmed(n.d)'
    BY <1>1, <1>2, ConfirmedStays DEF IInv, TypeOK, Task, OneVerdict
  <2>4. \A v \in Workers : v # w /\ proc'[v].pc \in Judging \cup Undecided => proc'[v].d # m.d
    BY <2>1 DEF OneVerdict
  <2>5. QED
    BY <1>2, <2>1, <2>2, <2>3, <2>4 DEF OneVerdict
<1>5. QED
  BY <1>3, <1>4

LEMMA VerdictInit == Init => OneVerdict
BY DEF Init, OneVerdict, Idle, Judging, Undecided, Unsent, Reconciling

\* Whoever confirms goes from undecided to judging, or is done.
LEMMA VerdictConfirm ==
    ASSUME IInv, OneVerdict, [Next]_vars, NEW w \in Workers, ConfirmStep(w)
    PROVE  OneVerdict'
<1> USE DEF Judging, Undecided, Unsent, Reconciling
<1> TypeOK
  BY DEF IInv
<1>1. CASE ScheduleReconciliation(w)
  <2>1. [d |-> proc[w].d, retries |-> 0] \in Task
    BY <1>1, AtWork, AttemptsAssumption DEF ScheduleReconciliation, Task
  <2>2. QED
    BY <1>1, <2>1, QueuedByItsJudge DEF ScheduleReconciliation
<1>2. CASE PreflightPasses(w) \/ ResumeBot(w) \/ Post(w) \/ NoAnswer(w)
  BY <1>2, ProcEffects, NobodyTakesUp DEF PreflightPasses, ResumeBot, Post, NoAnswer
<1>3. CASE AnsweredOk(w)
  BY <1>3, ProcEffects, NobodyTakesUp DEF AnsweredOk
<1>4. CASE \/ PreflightRefuses(w) \/ ResumeBotDone(w) \/ OrderTooSmall(w)
           \/ AnsweredRejected(w) \/ ScheduleFails(w)
           \/ RecordInvestment(w) \/ RecordInvestmentFails(w)
  BY <1>4, ProcEffects, NobodyTakesUp
     DEF PreflightRefuses, ResumeBotDone, OrderTooSmall, AnsweredRejected, ScheduleFails,
         RecordInvestment, RecordInvestmentFails
<1>5. QED
  BY <1>1, <1>2, <1>3, <1>4 DEF ConfirmStep

\* The reconciliation hands its decision from message to worker and back.
LEMMA VerdictReconcile ==
    ASSUME IInv, OneVerdict, [Next]_vars, NEW w \in Workers, ReconcileStep(w)
    PROVE  OneVerdict'
<1> USE DEF Judging, Undecided, Unsent, Reconciling
<1> TypeOK
  BY DEF IInv
<1>1. CASE \E m \in tasks : StartReconcile(w, m)
  BY <1>1, TakenUpByOne
<1>2. CASE RetryReconcile(w)
  <2>1. proc[w].pc \in Judging /\ proc[w].retries \in 0..RECONCILE_MAX_ATTEMPTS - 1
    BY <1>2 DEF RetryReconcile, NothingFound, TypeOK, Proc
  <2>2. [d |-> proc[w].d, retries |-> proc[w].retries + 1] \in Task
    BY <1>2, <2>1, AtWork, AttemptsAssumption DEF RetryReconcile, Task
  <2>3. QED
    BY <1>2, <2>1, <2>2, QueuedByItsJudge DEF RetryReconcile
<1>3. CASE SyncForReconcile(w) \/ SyncFails(w) \/ LastAttempt(w)
  BY <1>3, ProcEffects, NobodyTakesUp DEF SyncForReconcile, SyncFails, LastAttempt, NothingFound
<1>4. CASE FindTransaction(w)
  <2>1. PICK i \in Candidates(proc[w].d, proc[w].since) :
          proc' = [proc EXCEPT ![w].pc = "settling", ![w].match = history[i]]
    BY <1>4 DEF FindTransaction
  <2>2. /\ proc'[w].pc = "settling" /\ proc'[w].d = proc[w].d
        /\ \A v \in Workers : v # w => proc'[v] = proc[v]
    BY <2>1 DEF TypeOK, Proc
  <2>3. QED
    BY <1>4, <2>2, NobodyTakesUp DEF FindTransaction
<1>5. CASE SettleExecuted(w) \/ SettleFailed(w)
  BY <1>5, ProcEffects, NobodyTakesUp DEF SettleExecuted, SettleFailed
<1>6. QED
  BY <1>1, <1>2, <1>3, <1>4, <1>5 DEF ReconcileStep

LEMMA VerdictNext == ASSUME IInv, OneVerdict, [Next]_vars PROVE OneVerdict'
<1> TypeOK
  BY DEF IInv
<1>1. CASE AccountStep \/ BackgroundSync \/ WallbitStep \/ UNCHANGED vars
  <2>1. UNCHANGED <<proc, tasks>>
    BY <1>1 DEF AccountStep, SetAccount, Connect, Disconnect, Pause, Resume, PauseExpires,
         BackgroundSync, WallbitStep, WallbitApplies, WallbitRefuses, TradeInApp, vars
  <2>2. QED
    BY <2>1, NobodyTakesUp
<1>2. CASE \E d \in Decisions : Propose(d)
  BY <1>2, NobodyTakesUp DEF Propose
<1>3. CASE \E w \in Workers, d \in Decisions : Claim(w, d)
  BY <1>3, ClaimedOnce
<1>4. ASSUME NEW w \in Workers, NEW d \in Decisions, ReadForCancel(w, d) PROVE OneVerdict'
  BY <1>4, ProcEffects, NobodyTakesUp
     DEF ReadForCancel, Judging, Undecided, Unsent, Reconciling
<1>5. ASSUME NEW w \in Workers, MarkCancelled(w) \/ Crash(w) PROVE OneVerdict'
  BY <1>5, ProcEffects, NobodyTakesUp
     DEF MarkCancelled, Crash, Judging, Undecided, Unsent, Reconciling
<1>6. QED
  BY <1>1, <1>2, <1>3, <1>4, <1>5, VerdictConfirm, VerdictReconcile DEF Next

\* Every transaction has a symbol, a side and an amount of its own.
DistinctOrders == \A t, u \in Tx : Order[t] = Order[u] => t = u

\* Wallbit's transactions are of what it applied; a reconciliation about to
\* settle found its own decision's; only the chat's resume is executed locally.
FoundIsApplied ==
    /\ \A i \in 1..Len(history) : history[i] \in Decisions => request[history[i]] = "applied"
    /\ \A w \in Workers :
         /\ proc[w].pc = "settling" => request[proc[w].d] = "applied"
         /\ proc[w].pc = "resumed" => Tool[proc[w].d] = "resume"
    /\ ExecutedMeansApplied

LEMMA FoundInit == Init => FoundIsApplied
BY DEF Init, FoundIsApplied, ExecutedMeansApplied, Idle

\* What was applied stays so, and no worker comes to hold the proof of another.
LEMMA FoundFrame ==
    ASSUME IInv, FoundIsApplied, history' = history,
           \A d \in Decisions : request[d] = "applied" => request'[d] = "applied",
           \A d \in executed' : d \in executed \/ Tool[d] = "resume" \/ request'[d] = "applied",
           \A v \in Workers :
             /\ proc'[v].pc = "settling" =>
                  \/ (proc[v].pc = "settling" /\ proc'[v].d = proc[v].d)
                  \/ request'[proc'[v].d] = "applied"
             /\ proc'[v].pc = "resumed" =>
                  \/ (proc[v].pc = "resumed" /\ proc'[v].d = proc[v].d)
                  \/ Tool[proc'[v].d] = "resume"
    PROVE  FoundIsApplied'
<1>1. \A i \in 1..Len(history') : history'[i] \in Decisions => request'[history'[i]] = "applied"
  BY DEF FoundIsApplied
<1>2. \A v \in Workers : proc[v].pc = "settling" => proc[v].d \in Decisions
  BY DEF IInv, TypeOK
<1>3. \A v \in Workers :
        /\ proc'[v].pc = "settling" => request'[proc'[v].d] = "applied"
        /\ proc'[v].pc = "resumed" => Tool[proc'[v].d] = "resume"
  BY <1>2 DEF FoundIsApplied
<1>4. ExecutedMeansApplied'
  BY DEF FoundIsApplied, ExecutedMeansApplied
<1>5. QED
  BY <1>1, <1>3, <1>4 DEF FoundIsApplied

LEMMA FoundConfirm ==
    ASSUME IInv, FoundIsApplied, NEW w \in Workers, ConfirmStep(w)
    PROVE  FoundIsApplied'
<1> TypeOK
  BY DEF IInv
<1> DEFINE d == proc[w].d
<1>1. CASE Post(w)
  <2>1. d \in Decisions /\ request[d] = "none"
    BY <1>1 DEF Post, IInv, TypeOK, UnsentIsUnsent, Unsent, NoRequestWithoutPost
  <2>2. \A e \in Decisions : request[e] = "applied" => request'[e] = "applied"
    BY <1>1, <2>1 DEF Post, TypeOK
  <2>3. QED
    BY <1>1, <2>2, ProcEffects, FoundFrame DEF Post, table
<1>2. CASE PreflightPasses(w) \/ ResumeBot(w) \/ ScheduleReconciliation(w) \/ ScheduleFails(w)
           \/ RecordInvestment(w)
  BY <1>2, ProcEffects, FoundFrame
     DEF PreflightPasses, ResumeBot, ScheduleReconciliation, ScheduleFails, RecordInvestment,
         table, upstream
<1>3. CASE PreflightRefuses(w) \/ OrderTooSmall(w) \/ AnsweredRejected(w)
           \/ RecordInvestmentFails(w) \/ NoAnswer(w)
  BY <1>3, ProcEffects, FoundFrame
     DEF PreflightRefuses, OrderTooSmall, AnsweredRejected, RecordInvestmentFails, NoAnswer,
         MarkFailed, MarkUncertain, SetStatus, upstream
<1>4. CASE ResumeBotDone(w)
  <2>1. executed' = executed \cup {d} /\ Tool[d] = "resume"
    BY <1>4 DEF ResumeBotDone, MarkExecuted, FoundIsApplied
  <2>2. QED
    BY <1>4, <2>1, ProcEffects, FoundFrame DEF ResumeBotDone, upstream
<1>5. CASE AnsweredOk(w)
  <2>1. executed' = executed \cup {d} /\ request[d] = "applied" /\ UNCHANGED upstream
    BY <1>5 DEF AnsweredOk, MarkExecuted
  <2>2. Finish(w) \/ Become(w, "recording")
    BY <1>5 DEF AnsweredOk
  <2>3. QED
    BY <2>1, <2>2, ProcEffects, FoundFrame DEF upstream
<1>6. QED
  BY <1>1, <1>2, <1>3, <1>4, <1>5 DEF ConfirmStep

LEMMA FoundReconcile ==
    ASSUME DistinctOrders, IInv, FoundIsApplied, NEW w \in Workers, ReconcileStep(w)
    PROVE  FoundIsApplied'
<1> TypeOK
  BY DEF IInv
<1> DEFINE d == proc[w].d
<1>1. CASE \E m \in tasks : StartReconcile(w, m)
  <2>1. PICK m \in tasks : StartReconcile(w, m)
    BY <1>1
  <2>2. \A v \in Workers : proc'[v] = proc[v] \/ proc'[v].pc = "syncing"
    BY <2>1 DEF StartReconcile, TypeOK
  <2>3. QED
    BY <2>1, <2>2, FoundFrame DEF StartReconcile, table, upstream
<1>2. CASE FindTransaction(w)
  <2>1. PICK i \in Candidates(d, proc[w].since) :
          proc' = [proc EXCEPT ![w].pc = "settling", ![w].match = history[i]]
    BY <1>2 DEF FindTransaction
  <2>2. d \in Decisions
    BY <1>2 DEF FindTransaction, TypeOK
  <2>3. i \in 1..Len(history) /\ history[i] \in Tx /\ Order[history[i]] = Order[d]
    BY DEF Candidates, TypeOK
  <2>4. history[i] = d
    BY <2>2, <2>3 DEF DistinctOrders, Tx
  <2>5. request[d] = "applied"
    BY <2>2, <2>3, <2>4 DEF FoundIsApplied
  <2>6. /\ proc'[w].pc = "settling" /\ proc'[w].d = d
        /\ \A v \in Workers : v # w => proc'[v] = proc[v]
    BY <2>1 DEF TypeOK, Proc
  <2>7. QED
    BY <1>2, <2>5, <2>6, FoundFrame DEF FindTransaction, table, upstream
<1>3. CASE SettleExecuted(w)
  <2>1. executed' = executed \cup {d} /\ request[d] = "applied" /\ UNCHANGED upstream
    BY <1>3 DEF SettleExecuted, MarkExecuted, FoundIsApplied
  <2>2. QED
    BY <1>3, <2>1, ProcEffects, FoundFrame DEF SettleExecuted, upstream
<1>4. CASE SettleFailed(w)
  BY <1>4, ProcEffects, FoundFrame DEF SettleFailed, MarkFailed, SetStatus, upstream
<1>5. CASE SyncForReconcile(w) \/ SyncFails(w) \/ RetryReconcile(w) \/ LastAttempt(w)
  BY <1>5, ProcEffects, FoundFrame
     DEF SyncForReconcile, SyncFails, RetryReconcile, LastAttempt, table, upstream
<1>6. QED
  BY <1>1, <1>2, <1>3, <1>4, <1>5 DEF ReconcileStep

LEMMA LastOrEarlier ==
    ASSUME NEW h \in Seq(Tx), NEW t \in Tx, NEW i \in 1..Len(Append(h, t))
    PROVE  Append(h, t)[i] = t \/ (i \in 1..Len(h) /\ Append(h, t)[i] = h[i])
<1>1. Len(h) \in Nat /\ Len(Append(h, t)) = Len(h) + 1
  OBVIOUS
<1>2. CASE i = Len(h) + 1
  BY <1>2
<1>3. CASE i \in 1..Len(h)
  BY <1>3
<1>4. QED
  BY <1>1, <1>2, <1>3

LEMMA FoundWallbit ==
    ASSUME IInv, FoundIsApplied, WallbitStep
    PROVE  FoundIsApplied'
<1> TypeOK
  BY DEF IInv
<1>1. ASSUME NEW d \in Decisions, WallbitApplies(d) PROVE FoundIsApplied'
  <2>1. /\ request' = [request EXCEPT ![d] = "applied"] /\ UNCHANGED <<executed, proc>>
        /\ history' = history \/ history' = Append(history, d)
    BY <1>1 DEF WallbitApplies, table
  <2>2. CASE history' = history
    BY <2>1, <2>2, FoundFrame DEF TypeOK
  <2>3. CASE history' = Append(history, d)
    <3>1. \A e \in Decisions : request[e] = "applied" => request'[e] = "applied"
      BY <2>1 DEF TypeOK
    <3>2. request'[d] = "applied"
      BY <2>1 DEF TypeOK
    <3>3. \A i \in 1..Len(history') :
            history'[i] = d \/ (i \in 1..Len(history) /\ history'[i] = history[i])
      BY <2>3, LastOrEarlier DEF TypeOK, Tx
    <3>4. \A w \in Workers : proc[w].pc = "settling" => proc[w].d \in Decisions
      BY DEF TypeOK
    <3>5. QED
      BY <2>1, <3>1, <3>2, <3>3, <3>4 DEF FoundIsApplied, ExecutedMeansApplied
  <2>4. QED
    BY <2>1, <2>2, <2>3
<1>2. ASSUME NEW d \in Decisions, WallbitRefuses(d) PROVE FoundIsApplied'
  BY <1>2, FoundFrame DEF WallbitRefuses, TypeOK, table
<1>3. ASSUME NEW t \in AppTrades, TradeInApp(t) PROVE FoundIsApplied'
  <2>1. history' = Append(history, t) /\ UNCHANGED <<executed, proc, request>>
    BY <1>3 DEF TradeInApp, table
  <2>2. t \notin Decisions /\ t \in Tx
    BY AppTradesAssumption DEF Tx
  <2>3. \A i \in 1..Len(history') :
          history'[i] = t \/ (i \in 1..Len(history) /\ history'[i] = history[i])
    BY <2>1, <2>2, LastOrEarlier DEF TypeOK
  <2>4. QED
    BY <2>1, <2>2, <2>3 DEF FoundIsApplied, ExecutedMeansApplied
<1>4. QED
  BY <1>1, <1>2, <1>3 DEF WallbitStep

LEMMA FoundNext ==
    ASSUME DistinctOrders, IInv, FoundIsApplied, [Next]_vars
    PROVE  FoundIsApplied'
<1> TypeOK
  BY DEF IInv
<1>1. CASE AccountStep \/ BackgroundSync \/ UNCHANGED vars
  <2>1. UNCHANGED <<proc, executed, upstream>>
    BY <1>1 DEF AccountStep, SetAccount, Connect, Disconnect, Pause, Resume, PauseExpires,
         BackgroundSync, vars, table, upstream
  <2>2. QED
    BY <2>1, FoundFrame DEF upstream
<1>2. CASE \E d \in Decisions : Propose(d)
  BY <1>2, FoundFrame DEF Propose, SetStatus, upstream
<1>3. ASSUME NEW w \in Workers, NEW d \in Decisions, Claim(w, d) \/ ReadForCancel(w, d)
      PROVE  FoundIsApplied'
  <2>1. /\ Start(w, "claimed", d) \/ Start(w, "cancelling", d)
        /\ UNCHANGED <<executed, upstream>>
    BY <1>3 DEF Claim, ReadForCancel, table
  <2>2. \A v \in Workers : proc'[v] = proc[v] \/ proc'[v].pc \in {"claimed", "cancelling"}
    BY <2>1, ProcEffects
  <2>3. QED
    BY <2>1, <2>2, FoundFrame DEF upstream
<1>4. ASSUME NEW w \in Workers, MarkCancelled(w) \/ Crash(w) PROVE FoundIsApplied'
  <2>1. CASE MarkCancelled(w)
    <3>1. Finish(w) /\ UNCHANGED <<executed, upstream>>
      BY <2>1 DEF MarkCancelled
    <3>2. \A v \in Workers : proc'[v] = proc[v] \/ proc'[v].pc = "idle"
      BY <3>1, ProcEffects
    <3>3. QED
      BY <3>1, <3>2, FoundFrame DEF upstream
  <2>2. CASE Crash(w)
    <3>1. Finish(w) /\ UNCHANGED <<executed, upstream>>
      BY <2>2 DEF Crash, table
    <3>2. \A v \in Workers : proc'[v] = proc[v] \/ proc'[v].pc = "idle"
      BY <3>1, ProcEffects
    <3>3. QED
      BY <3>1, <3>2, FoundFrame DEF upstream
  <2>3. QED
    BY <1>4, <2>1, <2>2
<1>5. QED
  BY <1>1, <1>2, <1>3, <1>4, FoundConfirm, FoundReconcile, FoundWallbit DEF Next

\* The retry ladder of a decision never forks: of the workers that reconcile it or
\* are about to queue its reconciliation, and of the messages waiting, there is one
\* at most, for any number of workers and attempts and whatever Order is.
THEOREM OneJudge == Spec => []OneJudgePerDecision
<1>1. OneVerdict => OneJudgePerDecision
  <2> SUFFICES ASSUME OneVerdict, NEW d \in Decisions PROVE Cardinality(Judges(d)) <= 1
    BY DEF OneJudgePerDecision
  <2> DEFINE J == Judges(d)
  <2>1. \A x, y \in J : x = y
    BY DEF OneVerdict, Judges, Judging
  <2>2. CASE J = {}
    <3>1. Cardinality({}) = 0
      BY FS_EmptySet
    <3>2. QED
      BY <2>2, <3>1
  <2>3. CASE J # {}
    <3>1. PICK x \in J : J = {x}
      BY <2>1, <2>3
    <3>2. Cardinality({x}) = 1
      BY FS_Singleton
    <3>3. QED
      BY <3>1, <3>2
  <2>4. QED
    BY <2>2, <2>3
<1>2. IInv /\ OneVerdict /\ [Next]_vars => OneVerdict'
  BY VerdictNext
<1>3. QED
  BY <1>1, <1>2, VerdictInit, InvariantHolds, PTL DEF Spec

\* An unanswered write gets one verdict and, when no two orders look alike, a true
\* one: what a reconciliation records as executed is what Wallbit applied, however
\* late it applied it and whoever else reconciles, cancels or syncs meanwhile.
THEOREM VerdictsSound == ASSUME DistinctOrders PROVE Spec => []VerdictsAreSound
<1>1. IInv /\ FoundIsApplied /\ [Next]_vars => FoundIsApplied'
  BY FoundNext
<1>2. TypeOK /\ FoundIsApplied /\ OneJudgePerDecision => VerdictsAreSound
  BY DEF FoundIsApplied, VerdictsAreSound
<1>3. QED
  BY <1>1, <1>2, FoundInit, OneJudge, TypeCorrect, InvariantHolds, PTL DEF Spec
=============================================================================
