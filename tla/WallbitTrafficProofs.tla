------------------------- MODULE WallbitTrafficProofs -------------------------
(***************************************************************************)
(* Proofs about the traffic with Wallbit: the rows of the ledger           *)
(* (InvestmentLedger), for any deposits, transactions and syncs; the       *)
(* snapshot (PortfolioSnapshot), for any number of requests; and the HTTP  *)
(* calls (WallbitClient), whose retries never repeat a write or hide one   *)
(* behind a failure, for any number of calls and attempts.                 *)
(***************************************************************************)
EXTENDS WallbitTraffic, FiniteSetTheorems, TLAPS

USE TxAssumption, TradesAssumption, OrderAssumption, LabelledAssumption, PageAssumption

-----------------------------------------------------------------------------
(* The ledger: the inductive invariant.                                    *)

\* An executor only ever links its own transaction, and inserts its row once.
ExecutorsLinkTheirOwn ==
    \A d \in Deposits :
        /\ exec[d].uuid \in {d, NoTx} /\ exec[d].link \in {d, NoTx}
        /\ exec[d].pc # "done" => ~ledger[<<"exec", d>>].there

\* A sync about to save a row took it for the transaction it is working on.
SyncsHaveWork ==
    \A s \in Syncs :
        /\ sync[s].pc \notin {"idle", "syncing"} => sync[s].copy \in Copy
        /\ sync[s].pc = "adopting" =>
              /\ sync[s].row \in {"exec"} \X Deposits
              /\ Order[sync[s].row[2]] = Order[sync[s].copy.tx]

\* What the dedupe command is about to delete has a linked row like it that it
\* is not about to delete.
Keeps(id, other) ==
    /\ other \notin doomed
    /\ ledger[other].there /\ ledger[other].tx # NoTx
    /\ Order[other[2]] = Order[id[2]]
DoomedHaveKeepers == \A id \in doomed : \E other \in Id : Keeps(id, other)

LedgerInv ==
    TypeOK /\ ExecutorsLinkTheirOwn /\ SyncsHaveWork /\ LinkedRowsMatch /\ DoomedHaveKeepers

-----------------------------------------------------------------------------
(* The ledger: type correctness.                                           *)

LEMMA LedgerInitType == Init => TypeOK
<1> SUFFICES ASSUME Init PROVE TypeOK
  OBVIOUS
<1>1. \A d \in Deposits : exec[d] \in Exec
  BY DEF Init, Exec, ExecPCs
<1>2. IdleSync \in Sync
  BY DEF IdleSync, Sync, SyncPCs
<1>3. exec \in [Deposits -> Exec] /\ sync \in [Syncs -> Sync]
  BY <1>1, <1>2 DEF Init
<1>4. QED
  BY <1>3 DEF Init, TypeOK, Absent

LEMMA WallbitType ==
    ASSUME TypeOK, NEW t \in AppTxs, TradeInApp(t) \/ TradeSettles(t)
    PROVE  TypeOK'
<1>1. history' \in Seq(Tx) /\ settled' \subseteq Trades
  <2>1. t \in Tx /\ history \in Seq(Tx) /\ settled \subseteq Trades
    BY DEF TypeOK, Tx
  <2>2. QED
    BY <2>1 DEF TradeInApp, TradeSettles
<1>2. UNCHANGED <<exec, recorded, mirror, ledger, sync, doomed>>
  BY DEF TradeInApp, TradeSettles
<1>3. QED
  BY <1>1, <1>2 DEF TypeOK

\* What an executor writes of itself.
LEMMA ExecType ==
    ASSUME TypeOK, NEW d \in Deposits, ExecutorStep(d)
    PROVE  /\ exec' \in [Deposits -> Exec]
           /\ \A e \in Deposits : e # d => exec'[e] = exec[e]
<1>0. exec[d] \in Exec
  BY DEF TypeOK
<1>1. PICK e \in Exec : exec' = [exec EXCEPT ![d] = e]
  <2>1. CASE SendDeposit(d) \/ RecordDeposit(d) \/ RecordDepositFails(d)
    <3>1. PICK to \in {"sent", "done", "failed"} : exec' = [exec EXCEPT ![d].pc = to]
      BY <2>1 DEF SendDeposit, RecordDeposit, RecordDepositFails
    <3>2. [exec[d] EXCEPT !.pc = to] \in Exec
      BY <1>0 DEF Exec, ExecPCs
    <3>3. QED
      BY <3>1, <3>2
  <2>2. CASE DepositExecuted(d)
    <3>1. PICK uuid \in {d, NoTx} :
            exec' = [exec EXCEPT ![d].pc = "executed", ![d].uuid = uuid]
      BY <2>2 DEF DepositExecuted
    <3>2. [exec[d] EXCEPT !.pc = "executed", !.uuid = uuid] \in Exec
      BY <1>0 DEF Exec, ExecPCs, Tx
    <3>3. exec' = [exec EXCEPT ![d] = [exec[d] EXCEPT !.pc = "executed", !.uuid = uuid]]
      BY <3>1 DEF TypeOK
    <3>4. QED
      BY <3>2, <3>3
  <2>3. CASE LookUpMirror(d)
    <3> DEFINE link == IF exec[d].uuid # NoTx /\ mirror[exec[d].uuid] # "absent"
                         THEN exec[d].uuid ELSE NoTx
    <3>1. link \in Tx \cup {NoTx}
      BY <1>0 DEF Exec
    <3>2. exec' = [exec EXCEPT ![d].pc = "looked", ![d].link = link]
      BY <2>3 DEF LookUpMirror
    <3> HIDE DEF link
    <3>3. [exec[d] EXCEPT !.pc = "looked", !.link = link] \in Exec
      BY <1>0, <3>1 DEF Exec, ExecPCs
    <3>4. exec' = [exec EXCEPT ![d] = [exec[d] EXCEPT !.pc = "looked", !.link = link]]
      BY <3>2 DEF TypeOK
    <3>5. QED
      BY <3>3, <3>4
  <2>4. QED
    BY <2>1, <2>2, <2>3 DEF ExecutorStep
<1>2. QED
  BY <1>1 DEF TypeOK

LEMMA ExecutorType ==
    ASSUME TypeOK, NEW d \in Deposits, ExecutorStep(d)
    PROVE  TypeOK'
<1>1. CASE SendDeposit(d)
  <2>1. history' \in Seq(Tx)
    <3>1. d \in Tx /\ history \in Seq(Tx)
      BY DEF TypeOK, Tx
    <3>2. QED
      BY <1>1, <3>1 DEF SendDeposit
  <2>2. QED
    BY <1>1, <2>1, ExecType DEF TypeOK, SendDeposit
<1>2. CASE DepositExecuted(d) \/ LookUpMirror(d) \/ RecordDepositFails(d)
  BY <1>2, ExecType DEF TypeOK, DepositExecuted, LookUpMirror, RecordDepositFails, wallbit
<1>3. CASE RecordDeposit(d)
  <2>1. exec[d].link \in Tx \cup {NoTx}
    BY DEF TypeOK, Exec
  <2>2. /\ Row(exec[d].link, FALSE) \in [tx : Tx \cup {NoTx}, shares : BOOLEAN, there : BOOLEAN]
        /\ Row(exec[d].link, FALSE).there
    BY <2>1 DEF Row
  <2>3. <<"exec", d>> \in Id
    BY DEF Id
  <2>4. recorded' \in Seq(Deposits)
    BY <1>3 DEF TypeOK, RecordDeposit
  <2>5. /\ ledger' \in [Id -> [tx : Tx \cup {NoTx}, shares : BOOLEAN, there : BOOLEAN]]
        /\ \A id \in Id : ~ledger'[id].there => ledger'[id] = Absent
    BY <1>3, <2>2, <2>3 DEF TypeOK, RecordDeposit
  <2>6. QED
    BY <1>3, <2>4, <2>5, ExecType DEF TypeOK, RecordDeposit, wallbit
<1>4. QED
  BY <1>1, <1>2, <1>3 DEF ExecutorStep

LEMMA PageType == TypeOK => Page \subseteq Tx
BY DEF TypeOK, Page

\* A sync that has ended its work on a transaction goes on well typed.
LEMMA NextItemType ==
    ASSUME TypeOK, NEW s \in Syncs
    PROVE  NextItem(s) \in Sync
<1>1. sync[s] \in Sync
  BY DEF TypeOK
<1>2. "syncing" \in SyncPCs /\ NoCopy \in Copy \cup {NoCopy} /\ NoTx \in Id \cup {NoTx}
  BY DEF SyncPCs
<1>3. QED
  BY <1>1, <1>2 DEF NextItem, Sync

\* What a sync writes of itself.
LEMMA SyncsType ==
    ASSUME TypeOK, SyncsHaveWork, NEW s \in Syncs, SyncStep(s)
    PROVE  /\ sync' \in [Syncs -> Sync]
           /\ \A r \in Syncs : r # s => sync'[r] = sync[r]
<1>0. sync[s] \in Sync
  BY DEF TypeOK
<1>1. PICK new \in Sync : sync' = [sync EXCEPT ![s] = new]
  <2>1. CASE Fetch(s)
    <3> DEFINE todo == {[tx |-> t, settled |-> t \in settled \/ t \notin Trades] : t \in Page}
    <3>1. todo \subseteq Copy
      <4>1. ASSUME NEW t \in Page
            PROVE  [tx |-> t, settled |-> t \in settled \/ t \notin Trades] \in Copy
        <5>1. t \in Tx
          BY PageType
        <5>2. (t \in settled \/ t \notin Trades) \in BOOLEAN
          BY Zenon
        <5>3. QED
          BY <5>1, <5>2 DEF Copy
      <4>2. QED
        BY <4>1
    <3>2. sync' = [sync EXCEPT ![s] = [IdleSync EXCEPT !.pc = "syncing", !.todo = todo]]
      BY <2>1 DEF Fetch
    <3> HIDE DEF todo
    <3>3. [IdleSync EXCEPT !.pc = "syncing", !.todo = todo] \in Sync
      BY <3>1 DEF IdleSync, Sync, SyncPCs
    <3>4. QED
      BY <3>2, <3>3
  <2>2. ASSUME NEW c \in sync[s].todo, UpsertMirror(s, c)
        PROVE  \E new \in Sync : sync' = [sync EXCEPT ![s] = new]
    <3> DEFINE new == [sync[s] EXCEPT !.pc = "mirrored", !.copy = c, !.todo = sync[s].todo \ {c}]
    <3>1. sync[s].todo \ {c} \subseteq Copy /\ c \in Copy
      BY <1>0 DEF Sync
    <3>2. new \in Sync
      BY <1>0, <3>1 DEF Sync, SyncPCs
    <3>3. sync' = [sync EXCEPT ![s] = new]
      BY <2>2 DEF TypeOK, UpsertMirror
    <3> HIDE DEF new
    <3>4. QED
      BY <3>2, <3>3
  <2>3. CASE AlreadyLinked(s)
    <3>1. [sync[s] EXCEPT !.pc = "unlinked"] \in Sync
      BY <1>0 DEF Sync, SyncPCs
    <3>2. QED
      BY <2>3, <3>1, NextItemType DEF AlreadyLinked
  <2>4. CASE FindOptimistic(s)
    <3>1. [sync[s] EXCEPT !.pc = "creating"] \in Sync
      BY <1>0 DEF Sync, SyncPCs
    <3>2. ASSUME NEW d \in Deposits
          PROVE  [sync[s] EXCEPT !.pc = "adopting", !.row = <<"exec", d>>] \in Sync
      <4>1. <<"exec", d>> \in Id
        BY DEF Id
      <4>2. QED
        BY <1>0, <4>1 DEF Sync, SyncPCs
    <3>3. CASE sync' = [sync EXCEPT ![s].pc = "creating"]
      BY <3>1, <3>3
    <3>4. ASSUME NEW d \in Deposits,
                 sync' = [sync EXCEPT ![s].pc = "adopting", ![s].row = <<"exec", d>>]
          PROVE  sync' = [sync EXCEPT ![s] =
                            [sync[s] EXCEPT !.pc = "adopting", !.row = <<"exec", d>>]]
      BY <3>4 DEF TypeOK
    <3>5. QED
      BY <2>4, <3>2, <3>3, <3>4 DEF FindOptimistic, Adoptable
  <2>5. CASE Adopt(s) \/ Create(s)
    BY <2>5, NextItemType DEF Adopt, Create
  <2>6. CASE SyncDone(s)
    <3>1. IdleSync \in Sync
      BY DEF IdleSync, Sync, SyncPCs
    <3>2. QED
      BY <2>6, <3>1 DEF SyncDone
  <2>7. QED
    BY <2>1, <2>2, <2>3, <2>4, <2>5, <2>6 DEF SyncStep
<1>2. QED
  BY <1>1 DEF TypeOK

LEMMA SyncType ==
    ASSUME TypeOK, SyncsHaveWork, NEW s \in Syncs, SyncStep(s)
    PROVE  TypeOK'
<1> DEFINE Table == [Id -> [tx : Tx \cup {NoTx}, shares : BOOLEAN, there : BOOLEAN]]
<1>1. ASSUME NEW c \in sync[s].todo, UpsertMirror(s, c) PROVE TypeOK'
  <2>1. c \in Copy
    BY DEF TypeOK, Sync
  <2>2. mirror' \in [Tx -> {"absent", "pending", "settled"}]
    BY <1>1, <2>1 DEF TypeOK, UpsertMirror, Copy
  <2>3. QED
    BY <1>1, <2>2, SyncsType DEF TypeOK, UpsertMirror, SyncStep, wallbit
<1>2. CASE Adopt(s)
  <2> DEFINE id == sync[s].row
             t == sync[s].copy.tx
  <2>1. id \in Id /\ t \in Tx
    BY <1>2 DEF SyncsHaveWork, Adopt, Copy, Id
  <2>2. ledger' \in Table /\ \A i \in Id : ~ledger'[i].there => ledger'[i] = Absent
    <3>1. CASE ledger' = ledger
      BY <3>1 DEF TypeOK
    <3>2. CASE ledger[id].there /\ ledger' = [ledger EXCEPT ![id].tx = t]
      <4> HIDE DEF id, t
      <4> QED
        BY <2>1, <3>2 DEF TypeOK
    <3>3. QED
      BY <1>2, <3>1, <3>2 DEF Adopt
  <2>3. QED
    BY <1>2, <2>2, SyncsType DEF TypeOK, Adopt, SyncStep, wallbit
<1>3. CASE Create(s)
  <2> DEFINE c == sync[s].copy
  <2>1. c \in Copy /\ c.tx \in Tx
    BY <1>3 DEF SyncsHaveWork, Create, Copy
  <2>2. ledger' \in Table /\ \A i \in Id : ~ledger'[i].there => ledger'[i] = Absent
    <3>1. CASE ledger' = ledger
      BY <3>1 DEF TypeOK
    <3>2. ASSUME NEW shares \in BOOLEAN,
                 ledger' = [ledger EXCEPT ![<<"sync", c.tx>>] = Row(c.tx, shares)]
          PROVE  ledger' \in Table /\ \A i \in Id : ~ledger'[i].there => ledger'[i] = Absent
      <4>1. <<"sync", c.tx>> \in Id
        BY <2>1 DEF Id
      <4> HIDE DEF c
      <4>2. QED
        BY <2>1, <3>2, <4>1 DEF TypeOK, Row
    <3>3. (c.tx \in Trades /\ c.settled) \in BOOLEAN
      BY <2>1 DEF Copy
    <3>4. QED
      BY <1>3, <3>1, <3>2, <3>3 DEF Create
  <2>3. QED
    BY <1>3, <2>2, SyncsType DEF TypeOK, Create, SyncStep, wallbit
<1>4. CASE Fetch(s) \/ AlreadyLinked(s) \/ FindOptimistic(s) \/ SyncDone(s)
  BY <1>4, SyncsType
     DEF TypeOK, Fetch, AlreadyLinked, FindOptimistic, SyncDone, SyncStep, wallbit
<1>5. QED
  BY <1>1, <1>2, <1>3, <1>4 DEF SyncStep

LEMMA DedupeType ==
    ASSUME TypeOK, ListDuplicates \/ DeleteDuplicates
    PROVE  TypeOK'
<1>1. CASE ListDuplicates
  BY <1>1 DEF TypeOK, ListDuplicates, Superseded, wallbit
<1>2. CASE DeleteDuplicates
  <2>1. Absent \in [tx : Tx \cup {NoTx}, shares : BOOLEAN, there : BOOLEAN]
    BY DEF Absent
  <2>2. QED
    BY <1>2, <2>1 DEF TypeOK, DeleteDuplicates, wallbit
<1>3. QED
  BY <1>1, <1>2

LEMMA LedgerStepType == TypeOK /\ SyncsHaveWork /\ [Next]_vars => TypeOK'
<1> SUFFICES ASSUME TypeOK, SyncsHaveWork, [Next]_vars PROVE TypeOK'
  OBVIOUS
<1>1. CASE Next
  BY <1>1, WallbitType, ExecutorType, SyncType, DedupeType DEF Next
<1>2. CASE UNCHANGED vars
  BY <1>2 DEF vars, TypeOK
<1>3. QED
  BY <1>1, <1>2

-----------------------------------------------------------------------------
(* The ledger: what the executors and the syncs know of themselves.        *)

\* The executors' rows are written by them alone: others only link or delete.
LEMMA ExecutorRows ==
    ASSUME TypeOK, SyncsHaveWork, Next, NEW d \in Deposits, ~RecordDeposit(d),
           ~ledger[<<"exec", d>>].there
    PROVE  ~ledger'[<<"exec", d>>].there
<1>0. <<"exec", d>> \in Id
  BY DEF Id
<1>1. CASE UNCHANGED ledger
  BY <1>1
<1>2. ASSUME NEW e \in Deposits, RecordDeposit(e) PROVE ~ledger'[<<"exec", d>>].there
  <2>1. <<"exec", e>> \in Id /\ <<"exec", e>> # <<"exec", d>>
    BY <1>2 DEF Id
  <2>2. ledger'[<<"exec", d>>] = ledger[<<"exec", d>>]
    BY <1>0, <1>2, <2>1 DEF RecordDeposit, TypeOK
  <2>3. QED
    BY <2>2
<1>3. ASSUME NEW s \in Syncs, Adopt(s) PROVE ~ledger'[<<"exec", d>>].there
  BY <1>0, <1>3 DEF Adopt, TypeOK
<1>4. ASSUME NEW s \in Syncs, Create(s) PROVE ~ledger'[<<"exec", d>>].there
  <2>1. <<"sync", sync[s].copy.tx>> # <<"exec", d>>
    OBVIOUS
  <2>2. QED
    BY <1>0, <1>4, <2>1 DEF Create, TypeOK
<1>5. CASE DeleteDuplicates
  BY <1>0, <1>5 DEF DeleteDuplicates, Absent
<1>6. QED
  BY <1>1, <1>2, <1>3, <1>4, <1>5
     DEF Next, ExecutorStep, SyncStep, TradeInApp, TradeSettles, SendDeposit,
         DepositExecuted, LookUpMirror, RecordDepositFails, Fetch, UpsertMirror,
         AlreadyLinked, FindOptimistic, SyncDone, ListDuplicates

LEMMA ExecutorsStep ==
    ASSUME TypeOK, SyncsHaveWork, ExecutorsLinkTheirOwn, Next
    PROVE  ExecutorsLinkTheirOwn'
<1> SUFFICES ASSUME NEW d \in Deposits
             PROVE  /\ exec'[d].uuid \in {d, NoTx} /\ exec'[d].link \in {d, NoTx}
                    /\ exec'[d].pc # "done" => ~ledger'[<<"exec", d>>].there
  BY DEF ExecutorsLinkTheirOwn
<1>0. /\ exec[d].uuid \in {d, NoTx} /\ exec[d].link \in {d, NoTx}
      /\ exec[d].pc # "done" => ~ledger[<<"exec", d>>].there
      /\ exec \in [Deposits -> Exec] /\ exec[d] \in Exec
  BY DEF ExecutorsLinkTheirOwn, TypeOK
<1>1. CASE RecordDeposit(d)
  BY <1>0, <1>1 DEF RecordDeposit, Exec
<1>2. CASE ~RecordDeposit(d)
  <2>1. \/ exec'[d] = exec[d]
        \/ /\ exec'[d].uuid \in {d, NoTx} /\ exec'[d].link \in {d, NoTx}
           /\ exec[d].pc # "done" /\ exec'[d].pc # "done"
    <3>1. CASE ExecutorStep(d)
      <4>1. CASE SendDeposit(d) \/ RecordDepositFails(d)
        BY <1>0, <4>1 DEF SendDeposit, RecordDepositFails, Exec
      <4>2. CASE DepositExecuted(d)
        BY <1>0, <4>2 DEF DepositExecuted, Exec
      <4>3. CASE LookUpMirror(d)
        BY <1>0, <4>3 DEF LookUpMirror, Exec
      <4>4. QED
        BY <1>2, <3>1, <4>1, <4>2, <4>3 DEF ExecutorStep
    <3>2. ASSUME NEW e \in Deposits, e # d, ExecutorStep(e) PROVE exec'[d] = exec[d]
      BY <3>2, ExecType
    <3>3. CASE UNCHANGED exec
      BY <3>3
    <3>4. QED
      BY <3>1, <3>2, <3>3
         DEF Next, SyncStep, TradeInApp, TradeSettles, Fetch, UpsertMirror, AlreadyLinked,
             FindOptimistic, Adopt, Create, SyncDone, ListDuplicates, DeleteDuplicates
  <2>2. QED
    BY <1>0, <1>2, <2>1, ExecutorRows
<1>3. QED
  BY <1>1, <1>2

LEMMA SyncsStep ==
    ASSUME TypeOK, SyncsHaveWork, Next
    PROVE  SyncsHaveWork'
<1> DEFINE Works(r) ==
             /\ r.pc \notin {"idle", "syncing"} => r.copy \in Copy
             /\ r.pc = "adopting" =>
                   r.row \in {"exec"} \X Deposits /\ Order[r.row[2]] = Order[r.copy.tx]
<1>1. ASSUME NEW s \in Syncs, SyncStep(s) PROVE Works(sync'[s])
  <2>0. sync[s] \in Sync /\ Works(sync[s]) /\ sync \in [Syncs -> Sync]
    BY DEF TypeOK, SyncsHaveWork
  <2>1. CASE Fetch(s)
    BY <2>0, <2>1 DEF Fetch, IdleSync
  <2>2. ASSUME NEW c \in sync[s].todo, UpsertMirror(s, c) PROVE Works(sync'[s])
    <3>1. c \in Copy
      BY <2>0 DEF Sync
    <3>2. QED
      BY <2>0, <2>2, <3>1 DEF UpsertMirror, Sync
  <2>3. CASE AlreadyLinked(s)
    <3>1. sync'[s] = NextItem(s) \/ sync'[s] = [sync[s] EXCEPT !.pc = "unlinked"]
      BY <2>0, <2>3 DEF AlreadyLinked
    <3>2. CASE sync'[s] = NextItem(s)
      BY <2>0, <3>2 DEF NextItem, Sync
    <3>3. CASE sync'[s] = [sync[s] EXCEPT !.pc = "unlinked"]
      BY <2>0, <2>3, <3>3 DEF AlreadyLinked, Sync
    <3>4. QED
      BY <3>1, <3>2, <3>3
  <2>4. CASE FindOptimistic(s)
    <3>1. CASE sync' = [sync EXCEPT ![s].pc = "creating"]
      BY <2>0, <2>4, <3>1 DEF FindOptimistic, Sync
    <3>2. ASSUME NEW d \in Adoptable(sync[s].copy.tx),
                 sync' = [sync EXCEPT ![s].pc = "adopting", ![s].row = <<"exec", d>>]
          PROVE  Works(sync'[s])
      <4>1. /\ sync[s].copy \in Copy /\ d \in Deposits
            /\ Order[d] = Order[sync[s].copy.tx]
        BY <2>0, <2>4 DEF FindOptimistic, Adoptable
      <4>2. /\ sync'[s].copy = sync[s].copy
            /\ sync'[s].row = <<"exec", d>>
        BY <2>0, <3>2 DEF Sync
      <4>3. QED
        BY <4>1, <4>2
    <3>3. QED
      BY <2>4, <3>1, <3>2 DEF FindOptimistic
  <2>5. CASE Adopt(s) \/ Create(s)
    <3>1. sync'[s] = NextItem(s)
      BY <2>0, <2>5 DEF Adopt, Create
    <3>2. QED
      BY <2>0, <3>1 DEF NextItem, Sync
  <2>6. CASE SyncDone(s)
    BY <2>0, <2>6 DEF SyncDone, IdleSync
  <2>7. QED
    BY <1>1, <2>1, <2>2, <2>3, <2>4, <2>5, <2>6 DEF SyncStep
<1>2. ASSUME NEW s \in Syncs PROVE Works(sync'[s])
  <2>1. Works(sync[s])
    BY DEF SyncsHaveWork
  <2>2. ASSUME NEW r \in Syncs, SyncStep(r) PROVE Works(sync'[s])
    <3>1. CASE r = s
      BY <1>1, <2>2, <3>1
    <3>2. CASE r # s
      <4>1. sync'[s] = sync[s]
        BY <2>2, <3>2, SyncsType
      <4>2. QED
        BY <2>1, <4>1
    <3>3. QED
      BY <3>1, <3>2
  <2>3. CASE UNCHANGED sync
    BY <2>1, <2>3
  <2>4. QED
    BY <2>2, <2>3
       DEF Next, ExecutorStep, TradeInApp, TradeSettles, SendDeposit, DepositExecuted,
           LookUpMirror, RecordDeposit, RecordDepositFails, ListDuplicates, DeleteDuplicates
<1>3. QED
  BY <1>2 DEF SyncsHaveWork

-----------------------------------------------------------------------------
(* The ledger: rows are linked to their like, and stay linked.             *)

\* What a step may make of a row: an executor inserts its own, linked to its
\* own transaction or to none; a sync links one to a transaction like it; the
\* dedupe command deletes.
Written(id) ==
    \/ ledger'[id] = ledger[id]
    \/ /\ ~ledger[id].there
       /\ ledger'[id].there /\ ledger'[id].tx \in {id[2], NoTx}
    \/ /\ ledger[id].there /\ ledger'[id].there
       /\ ledger'[id].tx \in Tx /\ Order[ledger'[id].tx] = Order[id[2]]
    \/ id[1] = "sync" /\ ledger'[id].there /\ ledger'[id].tx = id[2]
    \/ id \in doomed /\ ledger'[id] = Absent

LEMMA RowsAreWritten ==
    ASSUME TypeOK, SyncsHaveWork, ExecutorsLinkTheirOwn, Next, NEW id \in Id
    PROVE  Written(id)
<1>0. ledger \in [Id -> [tx : Tx \cup {NoTx}, shares : BOOLEAN, there : BOOLEAN]]
  BY DEF TypeOK
<1>1. CASE UNCHANGED ledger
  BY <1>1 DEF Written
<1>2. ASSUME NEW d \in Deposits, RecordDeposit(d) PROVE Written(id)
  <2>1. exec[d].link \in {d, NoTx} /\ ~ledger[<<"exec", d>>].there
    BY <1>2 DEF RecordDeposit, ExecutorsLinkTheirOwn
  <2>2. ledger' = [ledger EXCEPT ![<<"exec", d>>] = Row(exec[d].link, FALSE)]
    BY <1>2 DEF RecordDeposit
  <2>3. CASE id = <<"exec", d>>
    <3>1. ledger'[id] = Row(exec[d].link, FALSE)
      BY <1>0, <2>2, <2>3
    <3>2. ledger'[id].there /\ ledger'[id].tx \in {id[2], NoTx}
      BY <2>1, <2>3, <3>1 DEF Row
    <3>3. QED
      BY <2>1, <2>3, <3>2 DEF Written
  <2>4. CASE id # <<"exec", d>>
    BY <1>0, <2>2, <2>4 DEF Written
  <2>5. QED
    BY <2>3, <2>4
<1>3. ASSUME NEW s \in Syncs, Adopt(s) PROVE Written(id)
  <2> DEFINE row == sync[s].row
             t == sync[s].copy.tx
  <2>1. t \in Tx /\ Order[t] = Order[row[2]]
    BY <1>3 DEF Adopt, SyncsHaveWork, Copy
  <2>2. CASE ledger[row].there /\ ledger' = [ledger EXCEPT ![row].tx = t]
    <3> HIDE DEF row, t
    <3>1. CASE id = row
      <4>1. ledger[id].there /\ ledger'[id].there /\ ledger'[id].tx = t
        BY <1>0, <2>2, <3>1
      <4>2. QED
        BY <2>1, <3>1, <4>1 DEF Written
    <3>2. CASE id # row
      BY <1>0, <2>2, <3>2 DEF Written
    <3>3. QED
      BY <3>1, <3>2
  <2>3. QED
    BY <1>1, <1>3, <2>2 DEF Adopt
<1>4. ASSUME NEW s \in Syncs, Create(s) PROVE Written(id)
  <2> DEFINE c == sync[s].copy
  <2>1. ASSUME NEW shares,
               ledger' = [ledger EXCEPT ![<<"sync", c.tx>>] = Row(c.tx, shares)]
        PROVE  Written(id)
    <3> HIDE DEF c
    <3>1. CASE id = <<"sync", c.tx>>
      BY <1>0, <2>1, <3>1 DEF Written, Row
    <3>2. CASE id # <<"sync", c.tx>>
      BY <1>0, <2>1, <3>2 DEF Written
    <3>3. QED
      BY <3>1, <3>2
  <2>2. QED
    BY <1>1, <1>4, <2>1 DEF Create
<1>5. CASE DeleteDuplicates
  BY <1>0, <1>5 DEF DeleteDuplicates, Written
<1>6. QED
  BY <1>1, <1>2, <1>3, <1>4, <1>5
     DEF Next, ExecutorStep, SyncStep, TradeInApp, TradeSettles, SendDeposit,
         DepositExecuted, LookUpMirror, RecordDepositFails, Fetch, UpsertMirror,
         AlreadyLinked, FindOptimistic, SyncDone, ListDuplicates

LEMMA LinkedRowsStep ==
    ASSUME TypeOK, SyncsHaveWork, ExecutorsLinkTheirOwn, LinkedRowsMatch, Next
    PROVE  LinkedRowsMatch'
<1> SUFFICES ASSUME NEW id \in Id, ledger'[id].tx # NoTx
             PROVE  Order[id[2]] = Order[ledger'[id].tx]
  BY DEF LinkedRowsMatch
<1>1. Written(id)
  BY RowsAreWritten
<1>2. QED
  BY <1>1 DEF Written, LinkedRowsMatch, Absent

\* A row once linked stays linked, unless it is deleted.
LEMMA LinkedRowsStay ==
    ASSUME TypeOK, SyncsHaveWork, ExecutorsLinkTheirOwn, Next,
           NEW id \in Id \ doomed, ledger[id].there, ledger[id].tx # NoTx
    PROVE  ledger'[id].there /\ ledger'[id].tx # NoTx
<1>1. Written(id)
  BY RowsAreWritten
<1>2. id[2] \in Tx
  BY DEF Id, Tx
<1>3. QED
  BY <1>1, <1>2 DEF Written

LEMMA DoomedStep ==
    ASSUME TypeOK, SyncsHaveWork, ExecutorsLinkTheirOwn, DoomedHaveKeepers, Next
    PROVE  DoomedHaveKeepers'
<1>1. CASE ListDuplicates
  <2> SUFFICES ASSUME NEW id \in Superseded
               PROVE  \E other \in Id : Keeps(id, other)'
    BY <1>1 DEF ListDuplicates, DoomedHaveKeepers
  <2>1. PICK other \in Id : Sibling(id, other)
    BY DEF Superseded
  <2>2. other \notin Superseded
    BY <2>1 DEF Sibling, Superseded, Unlinked
  <2>3. Keeps(id, other)'
    BY <1>1, <2>1, <2>2 DEF ListDuplicates, Sibling, Keeps
  <2>4. QED
    BY <2>3
<1>2. CASE DeleteDuplicates
  BY <1>2 DEF DeleteDuplicates, DoomedHaveKeepers
<1>3. CASE UNCHANGED doomed
  <2> SUFFICES ASSUME NEW id \in doomed
               PROVE  \E other \in Id : Keeps(id, other)'
    BY <1>3 DEF DoomedHaveKeepers
  <2>1. PICK other \in Id : Keeps(id, other)
    BY DEF DoomedHaveKeepers
  <2>2. Keeps(id, other)'
    BY <1>3, <2>1, LinkedRowsStay DEF Keeps
  <2>3. QED
    BY <2>2
<1>4. QED
  BY <1>1, <1>2, <1>3
     DEF Next, ExecutorStep, SyncStep, TradeInApp, TradeSettles, SendDeposit,
         DepositExecuted, LookUpMirror, RecordDeposit, RecordDepositFails, Fetch,
         UpsertMirror, AlreadyLinked, FindOptimistic, Adopt, Create, SyncDone

-----------------------------------------------------------------------------
(* The ledger: theorems.                                                   *)

\* LedgerInv is an invariant of the executors, the syncs and the dedupe
\* command, whatever they interleave.
THEOREM LedgerInvariantHolds == Spec => []LedgerInv
<1>1. Init => LedgerInv
  <2> SUFFICES ASSUME Init PROVE LedgerInv
    OBVIOUS
  <2>1. \A d \in Deposits : <<"exec", d>> \in Id
    BY DEF Id
  <2>2. ExecutorsLinkTheirOwn
    BY <2>1 DEF Init, ExecutorsLinkTheirOwn, Absent
  <2>3. SyncsHaveWork
    BY DEF Init, SyncsHaveWork, IdleSync
  <2>4. LinkedRowsMatch /\ DoomedHaveKeepers
    BY DEF Init, LinkedRowsMatch, DoomedHaveKeepers, Absent
  <2>5. QED
    BY <2>2, <2>3, <2>4, LedgerInitType DEF LedgerInv
<1>2. LedgerInv /\ [Next]_vars => LedgerInv'
  <2> SUFFICES ASSUME LedgerInv, [Next]_vars PROVE LedgerInv'
    OBVIOUS
  <2>1. CASE Next
    BY <2>1, LedgerStepType, ExecutorsStep, SyncsStep, LinkedRowsStep, DoomedStep
       DEF LedgerInv
  <2>2. CASE UNCHANGED vars
    <3>1. TypeOK'
      BY <2>2, LedgerStepType DEF LedgerInv
    <3>2. ExecutorsLinkTheirOwn' /\ SyncsHaveWork' /\ LinkedRowsMatch' /\ DoomedHaveKeepers'
      BY <2>2 DEF vars, LedgerInv, ExecutorsLinkTheirOwn, SyncsHaveWork, LinkedRowsMatch,
                  DoomedHaveKeepers, Keeps
    <3>3. QED
      BY <3>1, <3>2 DEF LedgerInv
  <2>3. QED
    BY <2>1, <2>2
<1>3. QED
  BY <1>1, <1>2, PTL DEF Spec

\* However two syncs race for a row, it is linked only to a transaction of its
\* own kind, action and amount.
THEOREM LedgerSound == Spec => []LedgerIsSound
<1>1. LedgerInv => LedgerIsSound
  BY DEF LedgerInv, LedgerIsSound
<1>2. QED
  BY <1>1, LedgerInvariantHolds, PTL

\* The row the dedupe command deletes leaves a linked row of its order behind,
\* whatever the syncs did between its listing and its delete.
THEOREM RecordIsKept == Spec => DedupeKeepsTheRecord
<1>1. LedgerInv /\ [Next]_vars => [RecordKept]_vars
  <2> SUFFICES ASSUME LedgerInv, Next,
                      NEW id \in Id, ledger[id].there, ~ledger'[id].there
               PROVE  \E other \in Id :
                         /\ ledger'[other].there /\ ledger'[other].tx # NoTx
                         /\ Order[other[2]] = Order[id[2]]
    BY DEF RecordKept
  <2>1. id \in doomed
    <3>1. Written(id)
      BY RowsAreWritten DEF LedgerInv
    <3>2. QED
      BY <3>1 DEF Written
  <2>2. PICK other \in Id : Keeps(id, other)
    BY <2>1 DEF LedgerInv, DoomedHaveKeepers
  <2>3. ledger'[other].there /\ ledger'[other].tx # NoTx
    BY <2>2, LinkedRowsStay DEF LedgerInv, Keeps
  <2>4. QED
    BY <2>2, <2>3 DEF Keeps
<1>2. QED
  BY <1>1, LedgerInvariantHolds, PTL DEF Spec, DedupeKeepsTheRecord

-----------------------------------------------------------------------------
(* The snapshot: the inductive invariant.                                  *)

USE SnapshotAssumption

Holds(r) == proc[r].pc \in Snapshot!Fetching

\* Who fetches has the lock, alone.
HoldersHaveTheLock ==
    \A r \in Requests : Holds(r) => lock /\ \A s \in Requests : Holds(s) => s = r

\* Who has stored what was fetched returns it.
KeptHaveACopy ==
    \A r \in Requests : proc[r].pc = "kept" => proc[r].got # Snapshot!None

\* A request that began under a cool-down that stands is past neither.
ChilledStayAway ==
    \A r \in chilled :
        /\ cooldown
        /\ proc[r].pc \notin {"cool"} \cup Snapshot!Fetching \cup Snapshot!Waiting

SnapshotInv ==
    Snapshot!TypeOK /\ HoldersHaveTheLock /\ KeptHaveACopy /\ ChilledStayAway

-----------------------------------------------------------------------------
(* The snapshot: every step.                                               *)

\* A request writes nothing of the others.
LEMMA RequestWrites ==
    ASSUME SnapshotInv, NEW r \in Requests,
           Snapshot!Begin(r) \/ Snapshot!RequestStep(r) \/ Snapshot!Crash(r)
    PROVE  /\ proc' \in [Requests -> Snapshot!Proc]
           /\ \A s \in Requests : s # r => proc'[s] = proc[s]
           /\ proc'[r].pc = "fresh" => proc'[r].got # Snapshot!None
           /\ proc'[r].pc = "kept" => proc'[r].got # Snapshot!None
<1>0. /\ proc \in [Requests -> Snapshot!Proc] /\ proc[r] \in Snapshot!Proc
      /\ live \in Snapshot!Keys \cup {Snapshot!None}
      /\ lastgood \in Snapshot!Keys \cup {Snapshot!None}
      /\ key \in Snapshot!Keys /\ clean \in Snapshot!Keys
      /\ 1 \in Snapshot!Keys /\ Snapshot!None \notin Snapshot!Keys
  BY DEF SnapshotInv, Snapshot!TypeOK, Snapshot!KeyAssumption,
         Snapshot!Keys, Snapshot!None
<1>1. PICK new \in Snapshot!Proc :
         /\ proc' = [proc EXCEPT ![r] = new]
         /\ new.pc \in {"fresh", "kept"} => new.got # Snapshot!None
  <2>1. CASE Snapshot!Begin(r)
    <3>1. [pc |-> "started", key |-> key, since |-> clean, got |-> Snapshot!None]
             \in Snapshot!Proc
      BY <1>0 DEF Snapshot!Proc, Snapshot!PCs
    <3>2. QED
      BY <2>1, <3>1 DEF Snapshot!Begin
  <2>2. CASE Snapshot!Crash(r)
    <3>1. Snapshot!Idle \in Snapshot!Proc
      BY <1>0 DEF Snapshot!Idle, Snapshot!Proc, Snapshot!PCs
    <3>2. QED
      BY <2>2, <3>1 DEF Snapshot!Crash, Snapshot!Idle
  <2>3. ASSUME NEW to \in Snapshot!PCs \ {"fresh", "kept"}, Snapshot!Goto(r, to)
        PROVE  \E new \in Snapshot!Proc :
                  /\ proc' = [proc EXCEPT ![r] = new]
                  /\ new.pc \in {"fresh", "kept"} => new.got # Snapshot!None
    <3>1. [proc[r] EXCEPT !.pc = to] \in Snapshot!Proc
      BY <1>0 DEF Snapshot!Proc
    <3>2. [proc[r] EXCEPT !.pc = to].pc = to
      BY <1>0 DEF Snapshot!Proc
    <3>3. QED
      BY <2>3, <3>1, <3>2 DEF Snapshot!Goto
  <2>4. ASSUME NEW to \in Snapshot!PCs, NEW got \in Snapshot!Keys \cup {Snapshot!None},
               to \in {"fresh", "kept"} => got # Snapshot!None, Snapshot!Return(r, to, got)
        PROVE  \E new \in Snapshot!Proc :
                  /\ proc' = [proc EXCEPT ![r] = new]
                  /\ new.pc \in {"fresh", "kept"} => new.got # Snapshot!None
    <3> DEFINE new == [proc[r] EXCEPT !.pc = to, !.got = got]
    <3>1. new \in Snapshot!Proc /\ new.pc = to /\ new.got = got
      BY <1>0 DEF Snapshot!Proc
    <3>2. proc' = [proc EXCEPT ![r] = new]
      BY <1>0, <2>4 DEF Snapshot!Return
    <3> HIDE DEF new
    <3>3. QED
      BY <2>4, <3>1, <3>2
  <2>5. CASE Snapshot!ReadLive(r) \/ Snapshot!PollLive(r)
    <3>1. \/ live # Snapshot!None /\ Snapshot!Return(r, "fresh", live)
          \/ Snapshot!Goto(r, "missed")
          \/ Snapshot!Goto(r, "poll_cooldown")
      BY <2>5 DEF Snapshot!ReadLive, Snapshot!PollLive
    <3>2. {"fresh", "missed", "poll_cooldown"} \subseteq Snapshot!PCs
      BY DEF Snapshot!PCs, Snapshot!Waiting, Snapshot!Answers
    <3>3. QED
      BY <1>0, <2>3, <2>4, <3>1, <3>2
  <2>6. CASE Snapshot!Fallback(r) \/ Snapshot!HolderFallback(r)
    <3>1. \E to \in {"stale", "unavailable", "unlocking"} : Snapshot!Return(r, to, lastgood)
      BY <2>6 DEF Snapshot!Fallback, Snapshot!HolderFallback
    <3>2. {"stale", "unavailable", "unlocking"} \subseteq Snapshot!PCs
      BY DEF Snapshot!PCs, Snapshot!Fetching, Snapshot!Answers
    <3>3. QED
      BY <1>0, <2>4, <3>1, <3>2
  <2>7. CASE Snapshot!StoreLastGood(r)
    <3>1. Snapshot!Return(r, "kept", proc[r].key)
      BY <2>7 DEF Snapshot!StoreLastGood
    <3>2. "kept" \in Snapshot!PCs /\ proc[r].key \in Snapshot!Keys
      BY <1>0 DEF Snapshot!PCs, Snapshot!Fetching, Snapshot!Proc
    <3>3. QED
      BY <1>0, <2>4, <3>1, <3>2
  <2>8. CASE Snapshot!Unlock(r)
    <3>0. Snapshot!Goto(r, "fresh") \/ Snapshot!Goto(r, "stale") \/ Snapshot!Goto(r, "unavailable")
      BY <2>8 DEF Snapshot!Unlock
    <3>1. CASE Snapshot!At(r, "kept")
      <4>1. proc[r].got # Snapshot!None /\ Snapshot!Goto(r, "fresh")
        BY <2>8, <3>1 DEF Snapshot!Unlock, Snapshot!At, SnapshotInv, KeptHaveACopy
      <4>2. [proc[r] EXCEPT !.pc = "fresh"] \in Snapshot!Proc
        BY <1>0 DEF Snapshot!Proc, Snapshot!PCs, Snapshot!Answers
      <4>3. [proc[r] EXCEPT !.pc = "fresh"].got = proc[r].got
        BY <1>0 DEF Snapshot!Proc
      <4>4. QED
        BY <4>1, <4>2, <4>3 DEF Snapshot!Goto
    <3>2. CASE ~Snapshot!At(r, "kept")
      <4>1. Snapshot!Goto(r, "stale") \/ Snapshot!Goto(r, "unavailable")
        BY <2>8, <3>2 DEF Snapshot!Unlock
      <4>2. {"stale", "unavailable"} \subseteq Snapshot!PCs
        BY DEF Snapshot!PCs, Snapshot!Answers
      <4>3. QED
        BY <2>3, <4>1, <4>2
    <3>3. QED
      BY <3>1, <3>2
  <2>9. CASE \/ Snapshot!CheckCooldown(r) \/ Snapshot!TryLock(r) \/ Snapshot!StoreLive(r)
             \/ Snapshot!FetchRateLimited(r) \/ Snapshot!FetchFails(r)
             \/ Snapshot!PollCooldown(r) \/ Snapshot!PollLock(r) \/ Snapshot!WaitTimesOut(r)
    <3> DEFINE next == {"fallback", "cool", "poll_live", "fetching", "fetched", "limited",
                        "failed", "poll_lock"}
    <3>1. \E to \in next : Snapshot!Goto(r, to)
      BY <2>9
         DEF Snapshot!CheckCooldown, Snapshot!TryLock, Snapshot!StoreLive,
             Snapshot!FetchRateLimited, Snapshot!FetchFails, Snapshot!PollCooldown,
             Snapshot!PollLock, Snapshot!WaitTimesOut
    <3>2. next \subseteq Snapshot!PCs \ {"fresh", "kept"}
      BY DEF Snapshot!PCs, Snapshot!Fetching, Snapshot!Waiting
    <3>3. QED
      BY <2>3, <3>1, <3>2
  <2>10. QED
    BY <2>1, <2>2, <2>5, <2>6, <2>7, <2>8, <2>9 DEF Snapshot!RequestStep
<1>2. proc'[r] = new
  BY <1>0, <1>1
<1>3. QED
  BY <1>0, <1>1, <1>2

LEMMA SnapshotType ==
    ASSUME SnapshotInv, Snapshot!Next
    PROVE  Snapshot!TypeOK'
<1>0. /\ Snapshot!TypeOK /\ 1 \in Snapshot!Keys
      /\ \A r \in Requests : proc[r].key \in Snapshot!Keys
  BY DEF SnapshotInv, Snapshot!KeyAssumption, Snapshot!Keys,
         Snapshot!TypeOK, Snapshot!Proc
<1>1. CASE Snapshot!Reconnect
  <2>1. key' \in Snapshot!Keys
    BY <1>0, <1>1 DEF Snapshot!Reconnect, Snapshot!TypeOK, Snapshot!Keys,
                      Snapshot!KeyAssumption
  <2>2. QED
    BY <1>0, <1>1, <2>1 DEF Snapshot!Reconnect, Snapshot!TypeOK, Snapshot!cache
<1>2. CASE \/ Snapshot!InvalidateSnapshot \/ Snapshot!LiveExpires
           \/ Snapshot!CooldownExpires \/ Snapshot!LockExpires
  BY <1>0, <1>2
     DEF Snapshot!InvalidateSnapshot, Snapshot!LiveExpires, Snapshot!CooldownExpires,
         Snapshot!LockExpires, Snapshot!TypeOK, Snapshot!account
<1>3. ASSUME NEW r \in Requests,
             Snapshot!Begin(r) \/ Snapshot!RequestStep(r) \/ Snapshot!Crash(r)
      PROVE  Snapshot!TypeOK'
  <2>1. /\ key' \in Snapshot!Keys /\ clean' \in Snapshot!Keys
        /\ live' \in Snapshot!Keys \cup {Snapshot!None}
        /\ lastgood' \in Snapshot!Keys \cup {Snapshot!None}
        /\ cooldown' \in BOOLEAN /\ lock' \in BOOLEAN
        /\ chilled' \subseteq Requests
    BY <1>0, <1>3
       DEF Snapshot!TypeOK, Snapshot!RequestStep, Snapshot!Begin, Snapshot!Crash,
           Snapshot!ReadLive, Snapshot!CheckCooldown, Snapshot!Fallback, Snapshot!TryLock,
           Snapshot!StoreLive, Snapshot!StoreLastGood, Snapshot!FetchRateLimited,
           Snapshot!FetchFails, Snapshot!HolderFallback, Snapshot!Unlock,
           Snapshot!PollLive, Snapshot!PollCooldown, Snapshot!PollLock,
           Snapshot!WaitTimesOut, Snapshot!cache, Snapshot!account
  <2>2. /\ proc' \in [Requests -> Snapshot!Proc]
        /\ \A s \in Requests : proc'[s].pc = "fresh" => proc'[s].got # Snapshot!None
    BY <1>0, <1>3, RequestWrites DEF Snapshot!TypeOK
  <2>3. QED
    BY <2>1, <2>2 DEF Snapshot!TypeOK
<1>4. QED
  BY <1>1, <1>2, <1>3 DEF Snapshot!Next

\* What a request may come to hold: the lock, free before, when it had met no
\* cool-down; holding, it keeps the lock until it stops holding.
LEMMA HoldersStep ==
    ASSUME SnapshotInv, Snapshot!Next
    PROVE  HoldersHaveTheLock'
<1>1. ASSUME NEW r \in Requests,
             Snapshot!Begin(r) \/ Snapshot!RequestStep(r) \/ Snapshot!Crash(r)
      PROVE  HoldersHaveTheLock'
  <2>0. /\ proc[r] \in Snapshot!Proc /\ proc \in [Requests -> Snapshot!Proc]
        /\ \A s \in Requests : s # r => (Holds(s)' <=> Holds(s))
        /\ Holds(r) => lock
        /\ \A s, u \in Requests : Holds(s) /\ Holds(u) => s = u
    BY <1>1, RequestWrites DEF SnapshotInv, Snapshot!TypeOK, Holds, HoldersHaveTheLock
  <2>1. CASE Snapshot!TryLock(r)
    <3>1. CASE lock
      <4>1. ~Holds(r)' /\ lock'
        BY <2>0, <2>1, <3>1
           DEF Snapshot!TryLock, Snapshot!Goto, Snapshot!Proc, Holds, Snapshot!Fetching
      <4>2. QED
        BY <2>0, <4>1 DEF HoldersHaveTheLock
    <3>2. CASE ~lock
      <4>1. lock' /\ \A s \in Requests : ~Holds(s)
        BY <2>1, <3>2 DEF Snapshot!TryLock, SnapshotInv, HoldersHaveTheLock
      <4>2. QED
        BY <2>0, <4>1 DEF HoldersHaveTheLock
    <3>3. QED
      BY <3>1, <3>2
  <2>2. CASE Snapshot!Unlock(r)
    <3>1. Holds(r) /\ ~Holds(r)'
      BY <2>0, <2>2
         DEF Snapshot!Unlock, Snapshot!Goto, Snapshot!Proc, Holds, Snapshot!Fetching
    <3>2. \A s \in Requests : ~Holds(s)'
      BY <2>0, <3>1
    <3>3. QED
      BY <3>2 DEF HoldersHaveTheLock
  <2>3. CASE ~Snapshot!TryLock(r) /\ ~Snapshot!Unlock(r)
    <3>1. UNCHANGED lock
      BY <1>1, <2>3
         DEF Snapshot!RequestStep, Snapshot!Begin, Snapshot!Crash,
             Snapshot!ReadLive, Snapshot!CheckCooldown, Snapshot!Fallback,
             Snapshot!StoreLive, Snapshot!StoreLastGood, Snapshot!FetchRateLimited,
             Snapshot!FetchFails, Snapshot!HolderFallback, Snapshot!PollLive,
             Snapshot!PollCooldown, Snapshot!PollLock, Snapshot!WaitTimesOut, Snapshot!cache
    <3>2. Holds(r)' => Holds(r)
      <4>1. CASE Snapshot!Begin(r) \/ Snapshot!Crash(r)
        BY <2>0, <4>1 DEF Snapshot!Begin, Snapshot!Crash, Snapshot!Idle, Holds,
                          Snapshot!Fetching
      <4>2. CASE \/ Snapshot!ReadLive(r) \/ Snapshot!CheckCooldown(r) \/ Snapshot!Fallback(r)
                 \/ Snapshot!PollLive(r) \/ Snapshot!PollCooldown(r)
                 \/ Snapshot!PollLock(r) \/ Snapshot!WaitTimesOut(r)
        BY <2>0, <4>2
           DEF Snapshot!ReadLive, Snapshot!CheckCooldown, Snapshot!Fallback,
               Snapshot!PollLive, Snapshot!PollCooldown, Snapshot!PollLock,
               Snapshot!WaitTimesOut, Snapshot!Goto, Snapshot!Return, Snapshot!Proc,
               Holds, Snapshot!Fetching
      <4>3. CASE \/ Snapshot!StoreLive(r) \/ Snapshot!StoreLastGood(r)
                 \/ Snapshot!FetchRateLimited(r) \/ Snapshot!FetchFails(r)
                 \/ Snapshot!HolderFallback(r)
        BY <4>3
           DEF Snapshot!StoreLive, Snapshot!StoreLastGood, Snapshot!FetchRateLimited,
               Snapshot!FetchFails, Snapshot!HolderFallback, Snapshot!At, Holds,
               Snapshot!Fetching
      <4>4. QED
        BY <1>1, <2>3, <4>1, <4>2, <4>3 DEF Snapshot!RequestStep
    <3>3. QED
      BY <2>0, <3>1, <3>2 DEF HoldersHaveTheLock, SnapshotInv
  <2>4. QED
    BY <2>1, <2>2, <2>3
<1>2. CASE Snapshot!LockExpires
  BY <1>2 DEF Snapshot!LockExpires, HoldersHaveTheLock, Holds
<1>3. CASE \/ Snapshot!Reconnect \/ Snapshot!InvalidateSnapshot
           \/ Snapshot!LiveExpires \/ Snapshot!CooldownExpires
  BY <1>3
     DEF Snapshot!Reconnect, Snapshot!InvalidateSnapshot, Snapshot!LiveExpires,
         Snapshot!CooldownExpires, Snapshot!cache, SnapshotInv, HoldersHaveTheLock, Holds
<1>4. QED
  BY <1>1, <1>2, <1>3 DEF Snapshot!Next

LEMMA KeptStep ==
    ASSUME SnapshotInv, Snapshot!Next
    PROVE  KeptHaveACopy'
<1>1. ASSUME NEW r \in Requests,
             Snapshot!Begin(r) \/ Snapshot!RequestStep(r) \/ Snapshot!Crash(r)
      PROVE  KeptHaveACopy'
  BY <1>1, RequestWrites DEF SnapshotInv, KeptHaveACopy, Snapshot!None
<1>2. CASE UNCHANGED proc
  BY <1>2 DEF SnapshotInv, KeptHaveACopy, Snapshot!None
<1>3. QED
  BY <1>1, <1>2
     DEF Snapshot!Next, Snapshot!Reconnect, Snapshot!InvalidateSnapshot,
         Snapshot!LiveExpires, Snapshot!CooldownExpires, Snapshot!LockExpires

LEMMA ChilledStep ==
    ASSUME SnapshotInv, Snapshot!Next
    PROVE  ChilledStayAway'
<1> DEFINE Away(to) == to \notin {"cool"} \cup Snapshot!Fetching \cup Snapshot!Waiting
<1>1. ASSUME NEW r \in Requests,
             Snapshot!Begin(r) \/ Snapshot!RequestStep(r) \/ Snapshot!Crash(r)
      PROVE  ChilledStayAway'
  <2>0. /\ proc[r] \in Snapshot!Proc /\ proc \in [Requests -> Snapshot!Proc]
        /\ \A s \in Requests : s # r => proc'[s] = proc[s]
        /\ chilled \subseteq Requests
        /\ \A s \in chilled : cooldown /\ Away(proc[s].pc)
    BY <1>1, RequestWrites DEF SnapshotInv, Snapshot!TypeOK, ChilledStayAway
  <2>1. CASE Snapshot!Begin(r)
    <3>1. Away(proc'[r].pc) /\ UNCHANGED cooldown
      BY <2>0, <2>1
         DEF Snapshot!Begin, Snapshot!Fetching, Snapshot!Waiting, Snapshot!cache
    <3>2. \A s \in chilled' : cooldown /\ (s \in chilled \/ s = r)
      BY <2>0, <2>1 DEF Snapshot!Begin
    <3>3. \A s \in chilled' : Away(proc'[s].pc)
      BY <2>0, <3>1, <3>2
    <3>4. QED
      BY <3>1, <3>2, <3>3 DEF ChilledStayAway
  <2>2. CASE Snapshot!RequestStep(r) \/ Snapshot!Crash(r)
    <3>1. UNCHANGED chilled /\ (cooldown => cooldown')
      BY <2>2
         DEF Snapshot!RequestStep, Snapshot!Crash,
             Snapshot!ReadLive, Snapshot!CheckCooldown, Snapshot!Fallback, Snapshot!TryLock,
             Snapshot!StoreLive, Snapshot!StoreLastGood, Snapshot!FetchRateLimited,
             Snapshot!FetchFails, Snapshot!HolderFallback, Snapshot!Unlock,
             Snapshot!PollLive, Snapshot!PollCooldown, Snapshot!PollLock,
             Snapshot!WaitTimesOut, Snapshot!cache
    <3>2. r \in chilled => Away(proc'[r].pc)
      <4> SUFFICES ASSUME cooldown, Away(proc[r].pc) PROVE Away(proc'[r].pc)
        BY <2>0
      <4>1. CASE Snapshot!Crash(r)
        BY <2>0, <4>1 DEF Snapshot!Crash, Snapshot!Idle, Snapshot!Fetching, Snapshot!Waiting
      <4>2. CASE Snapshot!ReadLive(r) \/ Snapshot!CheckCooldown(r) \/ Snapshot!Fallback(r)
        BY <2>0, <4>2
           DEF Snapshot!ReadLive, Snapshot!CheckCooldown, Snapshot!Fallback, Snapshot!Goto,
               Snapshot!Return, Snapshot!Proc, Snapshot!Fetching, Snapshot!Waiting
      <4>3. CASE \/ Snapshot!TryLock(r) \/ Snapshot!StoreLive(r) \/ Snapshot!StoreLastGood(r)
                 \/ Snapshot!FetchRateLimited(r) \/ Snapshot!FetchFails(r)
                 \/ Snapshot!HolderFallback(r) \/ Snapshot!Unlock(r)
                 \/ Snapshot!PollLive(r) \/ Snapshot!PollCooldown(r)
                 \/ Snapshot!PollLock(r) \/ Snapshot!WaitTimesOut(r)
        BY <4>3
           DEF Snapshot!TryLock, Snapshot!StoreLive, Snapshot!StoreLastGood,
               Snapshot!FetchRateLimited, Snapshot!FetchFails, Snapshot!HolderFallback,
               Snapshot!Unlock, Snapshot!PollLive, Snapshot!PollCooldown,
               Snapshot!PollLock, Snapshot!WaitTimesOut, Snapshot!At, Snapshot!Fetching,
               Snapshot!Waiting
      <4>4. QED
        BY <2>2, <4>1, <4>2, <4>3 DEF Snapshot!RequestStep
    <3>3. QED
      BY <2>0, <3>1, <3>2 DEF ChilledStayAway
  <2>3. QED
    BY <1>1, <2>1, <2>2
<1>2. CASE Snapshot!CooldownExpires
  BY <1>2 DEF Snapshot!CooldownExpires, ChilledStayAway
<1>3. CASE \/ Snapshot!Reconnect \/ Snapshot!InvalidateSnapshot
           \/ Snapshot!LiveExpires \/ Snapshot!LockExpires
  BY <1>3
     DEF Snapshot!Reconnect, Snapshot!InvalidateSnapshot, Snapshot!LiveExpires,
         Snapshot!LockExpires, Snapshot!cache, SnapshotInv, ChilledStayAway,
         Snapshot!Fetching, Snapshot!Waiting
<1>4. QED
  BY <1>1, <1>2, <1>3 DEF Snapshot!Next

-----------------------------------------------------------------------------
(* The snapshot: theorems.                                                 *)

\* The cardinality the snapshot counts with is that of the library.
LEMMA SameCardinality ==
    ASSUME NEW S PROVE Snapshot!Cardinality(S) = Cardinality(S)
BY Zenon DEF Snapshot!Cardinality, Cardinality

\* SnapshotInv is an invariant of any number of requests, some of which die,
\* while keys are connected and every entry of the cache may expire.
THEOREM SnapshotInvariantHolds ==
    Snapshot!Spec => []SnapshotInv
<1>1. Snapshot!Init => SnapshotInv
  <2> SUFFICES ASSUME Snapshot!Init PROVE SnapshotInv
    OBVIOUS
  <2>1. 1 \in Snapshot!Keys
    BY DEF Snapshot!KeyAssumption, Snapshot!Keys
  <2>2. Snapshot!Idle \in Snapshot!Proc
    BY <2>1 DEF Snapshot!Idle, Snapshot!Proc, Snapshot!PCs
  <2>3. \A r \in Requests : proc[r].pc = "idle"
    BY DEF Snapshot!Init, Snapshot!Idle
  <2>4. Snapshot!TypeOK
    BY <2>1, <2>2, <2>3 DEF Snapshot!Init, Snapshot!TypeOK
  <2>5. QED
    BY <2>3, <2>4
       DEF Snapshot!Init, SnapshotInv, HoldersHaveTheLock, KeptHaveACopy, ChilledStayAway,
           Holds, Snapshot!Fetching
<1>2. SnapshotInv /\ [Snapshot!Next]_(Snapshot!vars) => SnapshotInv'
  <2> SUFFICES ASSUME SnapshotInv, [Snapshot!Next]_(Snapshot!vars) PROVE SnapshotInv'
    OBVIOUS
  <2>1. CASE Snapshot!Next
    BY <2>1, SnapshotType, HoldersStep, KeptStep, ChilledStep DEF SnapshotInv
  <2>2. CASE UNCHANGED Snapshot!vars
    BY <2>2
       DEF Snapshot!vars, SnapshotInv, Snapshot!TypeOK, HoldersHaveTheLock, KeptHaveACopy,
           ChilledStayAway, Holds
  <2>3. QED
    BY <2>1, <2>2
<1>3. QED
  BY <1>1, <1>2, PTL DEF Snapshot!Spec

\* Calls on Wallbit are made by one request at a time, and by none that began
\* under a cool-down that stands, as long as no fetch outlasts the lock.
THEOREM SnapshotSound == TrafficSpec => []SnapshotIsSound
<1>1. SnapshotInv => SnapshotIsSound
  <2> SUFFICES ASSUME SnapshotInv PROVE SnapshotIsSound
    OBVIOUS
  <2> DEFINE Callers == {r \in Requests : Snapshot!At(r, "fetching")}
  <2>1. Snapshot!SingleFlight
    <3>1. \A r, s \in Callers : r = s
      BY DEF SnapshotInv, HoldersHaveTheLock, Holds, Snapshot!Fetching, Snapshot!At
    <3> HIDE DEF Callers
    <3>2. Callers = {} \/ \E r \in Callers : Callers = {r}
      BY <3>1
    <3>3. Cardinality({}) = 0 /\ \A r : Cardinality({r}) = 1
      BY FS_EmptySet, FS_Singleton
    <3>4. Cardinality(Callers) <= 1
      <4>1. CASE Callers = {}
        BY <3>3, <4>1
      <4>2. ASSUME NEW r \in Callers, Callers = {r} PROVE Cardinality(Callers) <= 1
        <5>1. Cardinality({r}) = 1
          BY <3>3
        <5>2. QED
          BY <4>2, <5>1
      <4>3. QED
        BY <3>2, <4>1, <4>2
    <3>5. Snapshot!Cardinality(Callers) <= 1
      BY <3>4, SameCardinality
    <3>6. QED
      BY <3>5 DEF Snapshot!SingleFlight, Callers
  <2>2. Snapshot!NoFetchUnderStandingCooldown
    BY DEF SnapshotInv, ChilledStayAway, Snapshot!NoFetchUnderStandingCooldown, Snapshot!At,
           Snapshot!Fetching
  <2>3. QED
    BY <2>1, <2>2 DEF SnapshotInv, SnapshotIsSound, Snapshot!SnapshotIsSound
<1>2. TrafficInit => Snapshot!Init
  BY DEF TrafficInit
<1>3. [ClientStep \/ LedgerStep \/ SnapshotStep]_allVars => [Snapshot!Next]_(Snapshot!vars)
  BY DEF ClientStep, LedgerStep, SnapshotStep, allVars, snapshotVars, Snapshot!vars
<1>4. QED
  BY <1>1, <1>2, <1>3, SnapshotInvariantHolds, PTL DEF TrafficSpec, Snapshot!Spec

-----------------------------------------------------------------------------
(* The client: the inductive invariant.                                    *)

USE ClientAssumption DEF Client!WritesAssumption, Client!AttemptsAssumption

\* The loop variable counts the requests sent.
Counted(c) == sent[c] = IF pc[c] = "ready" THEN attempt[c] - 1 ELSE attempt[c]

\* Wallbit applies a request at most once, and only between its sending and
\* its answer.
AppliedIsSent(c) ==
    applied[c] <= IF pc[c] # "ready" /\ upstream[c] = "none" THEN sent[c] - 1
                  ELSE sent[c]

SleeperHasAttempts(c) == pc[c] = "sleeping" => attempt[c] < Client!MaxAttempts(c)

\* A read may be applied again; a write is sent once.
WriteHasOneAttempt(c) == c \in Writes => attempt[c] = 1

RefusedWriteIsNotApplied(c) ==
    c \in Writes /\ upstream[c] \in Client!Limits \cup {"4xx"} => applied[c] = 0

\* A write ends in a failure only after an answer that refuses it.
FailedWriteWasRefused(c) ==
    /\ c \in Writes /\ pc[c] \in {"rejected", "rate_limited"}
         => upstream[c] \in Client!Limits \cup {"4xx"}
    /\ c \in Writes => pc[c] \notin {"server_error", "unreachable"}

BlockedHasEnded(c) == c \in blocked => pc[c] = "rate_limited"

CallInv(c) ==
    /\ Counted(c)
    /\ AppliedIsSent(c)
    /\ SleeperHasAttempts(c)
    /\ WriteHasOneAttempt(c)
    /\ RefusedWriteIsNotApplied(c)
    /\ FailedWriteWasRefused(c)
    /\ BlockedHasEnded(c)

ClientInv == Client!TypeOK /\ \A c \in Calls : CallInv(c)

-----------------------------------------------------------------------------

\* Nothing was sent, so nothing was applied or refused.
LEMMA ClientInit == Client!Init => ClientInv
<1> USE DEF Client!Init, Client!Limits, Client!Answers, Client!Running, Client!Outcomes
<1>1. Client!Init => Client!TypeOK
  BY DEF Client!TypeOK
<1>2. ASSUME Client!Init, NEW c \in Calls
      PROVE  CallInv(c)
  BY <1>2
     DEF CallInv, Counted, AppliedIsSent, SleeperHasAttempts, WriteHasOneAttempt,
         RefusedWriteIsNotApplied, FailedWriteWasRefused, BlockedHasEnded
<1> QED  BY <1>1, <1>2 DEF ClientInv

\* A write is sent from its first attempt.
LEMMA SendKeeps ==
    ASSUME ClientInv, NEW c \in Calls, Client!Send(c)
    PROVE  ClientInv'
<1> USE DEF Client!TypeOK, Client!MaxAttempts, Client!Idempotent,
      Client!Limits, Client!Answers, Client!Running, Client!Outcomes
<1>1. Client!TypeOK'
  BY DEF ClientInv, CallInv, Client!Send, Client!Go, SleeperHasAttempts, Counted,
         AppliedIsSent
<1>2. ASSUME NEW d \in Calls
      PROVE  CallInv(d)'
  <2>1. CASE d = c
    BY <2>1, <1>1
       DEF ClientInv, CallInv, Counted, AppliedIsSent, SleeperHasAttempts,
           WriteHasOneAttempt, RefusedWriteIsNotApplied, FailedWriteWasRefused,
           BlockedHasEnded, Client!Send, Client!Go
  <2>2. CASE d # c
    BY <2>2
       DEF ClientInv, CallInv, Counted, AppliedIsSent, SleeperHasAttempts,
           WriteHasOneAttempt, RefusedWriteIsNotApplied, FailedWriteWasRefused,
           BlockedHasEnded, Client!Send, Client!Go
  <2> QED  BY <2>1, <2>2
<1> QED  BY <1>1, <1>2 DEF ClientInv

\* Only a call with attempts left wakes, so never a write.
LEMMA WakeKeeps ==
    ASSUME ClientInv, NEW c \in Calls, Client!Wake(c)
    PROVE  ClientInv'
<1> USE DEF Client!TypeOK, Client!MaxAttempts, Client!Idempotent,
      Client!Limits, Client!Answers, Client!Running, Client!Outcomes
<1>1. Client!TypeOK'
  BY DEF ClientInv, CallInv, Client!Wake, Client!Go, SleeperHasAttempts, Counted,
         AppliedIsSent
<1>2. ASSUME NEW d \in Calls
      PROVE  CallInv(d)'
  <2>1. CASE d = c
    BY <2>1, <1>1
       DEF ClientInv, CallInv, Counted, AppliedIsSent, SleeperHasAttempts,
           WriteHasOneAttempt, RefusedWriteIsNotApplied, FailedWriteWasRefused,
           BlockedHasEnded, Client!Wake, Client!Go
  <2>2. CASE d # c
    BY <2>2
       DEF ClientInv, CallInv, Counted, AppliedIsSent, SleeperHasAttempts,
           WriteHasOneAttempt, RefusedWriteIsNotApplied, FailedWriteWasRefused,
           BlockedHasEnded, Client!Wake, Client!Go
  <2> QED  BY <2>1, <2>2
<1> QED  BY <1>1, <1>2 DEF ClientInv

\* A write without an answer is uncertain and not tried again.
LEMMA TransportErrorKeeps ==
    ASSUME ClientInv, NEW c \in Calls, Client!TransportError(c)
    PROVE  ClientInv'
<1> USE DEF Client!TypeOK, Client!MaxAttempts, Client!Idempotent,
      Client!Limits, Client!Answers, Client!Running, Client!Outcomes
<1>1. Client!TypeOK'
  BY DEF ClientInv, CallInv, Client!TransportError, Client!Go, SleeperHasAttempts,
         Counted, AppliedIsSent
<1>2. ASSUME NEW d \in Calls
      PROVE  CallInv(d)'
  <2>1. CASE d = c
    BY <2>1, <1>1
       DEF ClientInv, CallInv, Counted, AppliedIsSent, SleeperHasAttempts,
           WriteHasOneAttempt, RefusedWriteIsNotApplied, FailedWriteWasRefused,
           BlockedHasEnded, Client!TransportError, Client!Go
  <2>2. CASE d # c
    BY <2>2
       DEF ClientInv, CallInv, Counted, AppliedIsSent, SleeperHasAttempts,
           WriteHasOneAttempt, RefusedWriteIsNotApplied, FailedWriteWasRefused,
           BlockedHasEnded, Client!TransportError, Client!Go
  <2> QED  BY <2>1, <2>2
<1> QED  BY <1>1, <1>2 DEF ClientInv

\* A call that is told to wait longer than the limit has ended.
LEMMA RateLimitedKeeps ==
    ASSUME ClientInv, NEW c \in Calls, Client!RateLimited(c)
    PROVE  ClientInv'
<1> USE DEF Client!TypeOK, Client!MaxAttempts, Client!Idempotent,
      Client!Limits, Client!Answers, Client!Running, Client!Outcomes
<1>1. Client!TypeOK'
  BY DEF ClientInv, CallInv, Client!RateLimited, Client!RetriesLimit, Client!Receive,
         Client!Go, SleeperHasAttempts, Counted, AppliedIsSent
<1>2. ASSUME NEW d \in Calls
      PROVE  CallInv(d)'
  <2>1. CASE d = c
    BY <2>1, <1>1
       DEF ClientInv, CallInv, Counted, AppliedIsSent, SleeperHasAttempts,
           WriteHasOneAttempt, RefusedWriteIsNotApplied, FailedWriteWasRefused,
           BlockedHasEnded, Client!RateLimited, Client!RetriesLimit, Client!Receive,
           Client!Go
  <2>2. CASE d # c
    BY <2>2
       DEF ClientInv, CallInv, Counted, AppliedIsSent, SleeperHasAttempts,
           WriteHasOneAttempt, RefusedWriteIsNotApplied, FailedWriteWasRefused,
           BlockedHasEnded, Client!RateLimited, Client!RetriesLimit, Client!Receive,
           Client!Go
  <2> QED  BY <2>1, <2>2
<1> QED  BY <1>1, <1>2 DEF ClientInv

\* A write answered by a 5xx is uncertain.
LEMMA ServerErrorKeeps ==
    ASSUME ClientInv, NEW c \in Calls, Client!ServerError(c)
    PROVE  ClientInv'
<1> USE DEF Client!TypeOK, Client!MaxAttempts, Client!Idempotent,
      Client!Limits, Client!Answers, Client!Running, Client!Outcomes
<1>1. Client!TypeOK'
  BY DEF ClientInv, CallInv, Client!ServerError, Client!Receive, Client!Go,
         SleeperHasAttempts, Counted, AppliedIsSent
<1>2. ASSUME NEW d \in Calls
      PROVE  CallInv(d)'
  <2>1. CASE d = c
    BY <2>1, <1>1
       DEF ClientInv, CallInv, Counted, AppliedIsSent, SleeperHasAttempts,
           WriteHasOneAttempt, RefusedWriteIsNotApplied, FailedWriteWasRefused,
           BlockedHasEnded, Client!ServerError, Client!Receive, Client!Go
  <2>2. CASE d # c
    BY <2>2
       DEF ClientInv, CallInv, Counted, AppliedIsSent, SleeperHasAttempts,
           WriteHasOneAttempt, RefusedWriteIsNotApplied, FailedWriteWasRefused,
           BlockedHasEnded, Client!ServerError, Client!Receive, Client!Go
  <2> QED  BY <2>1, <2>2
<1> QED  BY <1>1, <1>2 DEF ClientInv

\* A 4xx refuses.
LEMMA RejectedKeeps ==
    ASSUME ClientInv, NEW c \in Calls, Client!Rejected(c)
    PROVE  ClientInv'
<1> USE DEF Client!TypeOK, Client!MaxAttempts, Client!Idempotent,
      Client!Limits, Client!Answers, Client!Running, Client!Outcomes
<1>1. Client!TypeOK'
  BY DEF ClientInv, CallInv, Client!Rejected, Client!Receive, Client!Go,
         SleeperHasAttempts, Counted, AppliedIsSent
<1>2. ASSUME NEW d \in Calls
      PROVE  CallInv(d)'
  <2>1. CASE d = c
    BY <2>1, <1>1
       DEF ClientInv, CallInv, Counted, AppliedIsSent, SleeperHasAttempts,
           WriteHasOneAttempt, RefusedWriteIsNotApplied, FailedWriteWasRefused,
           BlockedHasEnded, Client!Rejected, Client!Receive, Client!Go
  <2>2. CASE d # c
    BY <2>2
       DEF ClientInv, CallInv, Counted, AppliedIsSent, SleeperHasAttempts,
           WriteHasOneAttempt, RefusedWriteIsNotApplied, FailedWriteWasRefused,
           BlockedHasEnded, Client!Rejected, Client!Receive, Client!Go
  <2> QED  BY <2>1, <2>2
<1> QED  BY <1>1, <1>2 DEF ClientInv

\* A success is returned.
LEMMA ReturnedKeeps ==
    ASSUME ClientInv, NEW c \in Calls, Client!Returned(c)
    PROVE  ClientInv'
<1> USE DEF Client!TypeOK, Client!MaxAttempts, Client!Idempotent,
      Client!Limits, Client!Answers, Client!Running, Client!Outcomes
<1>1. Client!TypeOK'
  BY DEF ClientInv, CallInv, Client!Returned, Client!Receive, Client!Go,
         SleeperHasAttempts, Counted, AppliedIsSent
<1>2. ASSUME NEW d \in Calls
      PROVE  CallInv(d)'
  <2>1. CASE d = c
    BY <2>1, <1>1
       DEF ClientInv, CallInv, Counted, AppliedIsSent, SleeperHasAttempts,
           WriteHasOneAttempt, RefusedWriteIsNotApplied, FailedWriteWasRefused,
           BlockedHasEnded, Client!Returned, Client!Receive, Client!Go
  <2>2. CASE d # c
    BY <2>2
       DEF ClientInv, CallInv, Counted, AppliedIsSent, SleeperHasAttempts,
           WriteHasOneAttempt, RefusedWriteIsNotApplied, FailedWriteWasRefused,
           BlockedHasEnded, Client!Returned, Client!Receive, Client!Go
  <2> QED  BY <2>1, <2>2
<1> QED  BY <1>1, <1>2 DEF ClientInv

\* Wallbit answers a request it has not answered, and applies it then or not.
LEMMA DecideKeeps ==
    ASSUME ClientInv, NEW c \in Calls, NEW answer \in Client!Answers, NEW effect \in 0..1,
           answer \in Client!Limits \cup {"4xx"} => effect = 0, Client!Decide(c, answer, effect)
    PROVE  ClientInv'
<1> USE DEF Client!TypeOK, Client!MaxAttempts, Client!Idempotent,
      Client!Limits, Client!Answers, Client!Running, Client!Outcomes
<1>1. Client!TypeOK'
  BY DEF ClientInv, CallInv, Client!Decide, SleeperHasAttempts, Counted, AppliedIsSent
<1>2. ASSUME NEW d \in Calls
      PROVE  CallInv(d)'
  <2>1. CASE d = c
    BY <2>1, <1>1
       DEF ClientInv, CallInv, Counted, AppliedIsSent, SleeperHasAttempts,
           WriteHasOneAttempt, RefusedWriteIsNotApplied, FailedWriteWasRefused,
           BlockedHasEnded, Client!Decide
  <2>2. CASE d # c
    BY <2>2
       DEF ClientInv, CallInv, Counted, AppliedIsSent, SleeperHasAttempts,
           WriteHasOneAttempt, RefusedWriteIsNotApplied, FailedWriteWasRefused,
           BlockedHasEnded, Client!Decide
  <2> QED  BY <2>1, <2>2
<1> QED  BY <1>1, <1>2 DEF ClientInv

\* Only a request nobody has answered is applied late.
LEMMA AppliesLateKeeps ==
    ASSUME ClientInv, NEW c \in Calls, Client!AppliesLate(c)
    PROVE  ClientInv'
<1> USE DEF Client!TypeOK, Client!MaxAttempts, Client!Idempotent,
      Client!Limits, Client!Answers, Client!Running, Client!Outcomes
<1>1. Client!TypeOK'
  BY DEF ClientInv, CallInv, Client!AppliesLate, SleeperHasAttempts, Counted,
         AppliedIsSent
<1>2. ASSUME NEW d \in Calls
      PROVE  CallInv(d)'
  <2>1. CASE d = c
    BY <2>1, <1>1
       DEF ClientInv, CallInv, Counted, AppliedIsSent, SleeperHasAttempts,
           WriteHasOneAttempt, RefusedWriteIsNotApplied, FailedWriteWasRefused,
           BlockedHasEnded, Client!AppliesLate
  <2>2. CASE d # c
    BY <2>2
       DEF ClientInv, CallInv, Counted, AppliedIsSent, SleeperHasAttempts,
           WriteHasOneAttempt, RefusedWriteIsNotApplied, FailedWriteWasRefused,
           BlockedHasEnded, Client!AppliesLate
  <2> QED  BY <2>1, <2>2
<1> QED  BY <1>1, <1>2 DEF ClientInv

-----------------------------------------------------------------------------

\* ClientInv is inductive.
LEMMA ClientNext == ClientInv /\ [Client!Next]_(Client!vars) => ClientInv'
<1> SUFFICES ASSUME ClientInv, [Client!Next]_(Client!vars) PROVE ClientInv'
  OBVIOUS
<1>1. CASE UNCHANGED Client!vars
  BY <1>1
     DEF Client!vars, ClientInv, Client!TypeOK, CallInv, Counted, AppliedIsSent,
         SleeperHasAttempts, WriteHasOneAttempt, RefusedWriteIsNotApplied,
         FailedWriteWasRefused, BlockedHasEnded, Client!MaxAttempts, Client!Idempotent
<1>2. ASSUME NEW c \in Calls, Client!CallStep(c) PROVE ClientInv'
  BY <1>2, SendKeeps, WakeKeeps, TransportErrorKeeps, RateLimitedKeeps,
     ServerErrorKeeps, RejectedKeeps, ReturnedKeeps DEF Client!CallStep
<1>3. ASSUME NEW c \in Calls, Client!WallbitStep(c) PROVE ClientInv'
  <2>1. CASE Client!Applies(c)
    BY <2>1, DecideKeeps DEF Client!Applies, Client!Answers, Client!Limits
  <2>2. CASE Client!Refuses(c)
    <3>1. PICK answer \in Client!Limits \cup {"4xx"} : Client!Decide(c, answer, 0)
      BY <2>2 DEF Client!Refuses
    <3>2. answer \in Client!Answers /\ 0 \in 0..1
      BY DEF Client!Answers
    <3> QED  BY <3>1, <3>2, DecideKeeps
  <2>3. CASE Client!Breaks(c)
    <3>1. PICK effect \in 0..1 : Client!Decide(c, "5xx", effect)
      BY <2>3 DEF Client!Breaks
    <3> QED  BY <3>1, DecideKeeps DEF Client!Answers, Client!Limits
  <2>4. CASE Client!AppliesLate(c)
    BY <2>4, AppliesLateKeeps
  <2> QED  BY <1>3, <2>1, <2>2, <2>3, <2>4 DEF Client!WallbitStep
<1> QED  BY <1>1, <1>2, <1>3 DEF Client!Next

\* The client keeps the inductive invariant, for any calls and attempts.
THEOREM ClientInvariantHolds == Client!Spec => []ClientInv
<1> QED  BY ClientInit, ClientNext, PTL DEF Client!Spec

\* The part of the client in a behaviour is one of the client.
LEMMA ClientBehaves == TrafficSpec => Client!Spec
<1>1. TrafficInit => Client!Init
  BY DEF TrafficInit
<1>2. [ClientStep \/ LedgerStep \/ SnapshotStep]_allVars => [Client!Next]_(Client!vars)
  BY DEF ClientStep, LedgerStep, SnapshotStep, allVars, clientVars, Client!vars
<1> QED  BY <1>1, <1>2, PTL DEF TrafficSpec, Client!Spec

\* Every call's counters stay within the attempts it has.
THEOREM ClientTypes == TrafficSpec => []Client!TypeOK
<1>1. ClientInv => Client!TypeOK
  BY DEF ClientInv
<1> QED  BY <1>1, ClientBehaves, ClientInvariantHolds, PTL

\* A write is applied at most once, however many attempts reads get.
THEOREM AppliedOnce == TrafficSpec => []WriteAppliedOnce
<1>1. ClientInv => WriteAppliedOnce
  <2> SUFFICES ASSUME ClientInv, NEW c \in Writes PROVE applied[c] <= 1
    BY DEF WriteAppliedOnce, Client!WriteAppliedOnce
  <2>1. c \in Calls
    OBVIOUS
  <2>2. /\ applied[c] \in Nat /\ sent[c] \in Nat /\ attempt[c] = 1
        /\ Counted(c) /\ AppliedIsSent(c)
    BY <2>1 DEF ClientInv, Client!TypeOK, CallInv, WriteHasOneAttempt
  <2> QED  BY <2>2 DEF Counted, AppliedIsSent
<1> QED  BY <1>1, ClientBehaves, ClientInvariantHolds, PTL

\* A write reported as failed was not applied.
THEOREM FailureIsDefinitive == TrafficSpec => []FailuresAreDefinitive
<1>1. ClientInv => Client!DefinitiveFailureMeansNotApplied
  BY DEF ClientInv, CallInv, RefusedWriteIsNotApplied, FailedWriteWasRefused,
         Client!DefinitiveFailureMeansNotApplied
<1>2. ClientInv => FailuresAreDefinitive
  BY <1>1 DEF ClientInv, FailuresAreDefinitive, Client!FailuresAreDefinitive
<1> QED  BY <1>2, ClientBehaves, ClientInvariantHolds, PTL

\* A call told to wait longer than the limit sends nothing more.
THEOREM BlocksRespected == TrafficSpec => BlockIsRespected
<1>1. ClientInv /\ [Client!Next]_(Client!vars) => [\A c \in blocked : sent'[c] = sent[c]]_(Client!vars)
  <2> SUFFICES ASSUME ClientInv, Client!Next PROVE \A c \in blocked : sent'[c] = sent[c]
    BY DEF Client!vars
  <2> USE DEF ClientInv, Client!TypeOK, CallInv, BlockedHasEnded
  <2>1. ASSUME NEW d \in Calls, Client!Send(d) PROVE \A c \in blocked : sent'[c] = sent[c]
    BY <2>1 DEF Client!Send
  <2>2. ASSUME NEW d \in Calls, Client!WallbitStep(d) PROVE sent' = sent
    BY <2>2
       DEF Client!WallbitStep, Client!Applies, Client!Refuses, Client!Breaks,
           Client!Decide, Client!AppliesLate
  <2>3. ASSUME NEW d \in Calls, Client!CallStep(d), ~Client!Send(d) PROVE sent' = sent
    BY <2>3
       DEF Client!CallStep, Client!TransportError, Client!RateLimited,
           Client!ServerError, Client!Rejected, Client!Returned, Client!Receive,
           Client!Wake
  <2> QED  BY <2>1, <2>2, <2>3 DEF Client!Next
<1> QED  BY <1>1, ClientBehaves, ClientInvariantHolds, PTL
         DEF Client!Spec, BlockIsRespected, Client!BlockIsRespected
=============================================================================
