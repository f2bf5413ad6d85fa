-------------------------- MODULE InvestmentLedger --------------------------
(***************************************************************************)
(* The Investment rows of one user and the three writers that share them   *)
(* without a lock: the chest executor, which inserts the row of a deposit  *)
(* it has just sent; the syncs, which copy Wallbit's transactions and      *)
(* adopt or create a row for each; and the dedupe command, which lists     *)
(* superseded rows and then deletes them.                                  *)
(*                                                                         *)
(* A row is named by who creates it: <<"exec", d>> by the executor of      *)
(* deposit d, <<"sync", t>> by a sync that met transaction t.  Kind,       *)
(* action and amount never change after the insert, so Order gives them.   *)
(***************************************************************************)
EXTENDS Integers, Sequences, FiniteSets

CONSTANTS
    Deposits,   \* confirmed chest decisions, each the Wallbit tx it causes
    AppTxs,     \* transactions made in Wallbit's own app
    Trades,     \* the stock trades among them: PENDING before they settle
    Syncs,      \* runs of run_wallbit_sync that may overlap
    Order,      \* Order[t]: kind, action and amount
    Labelled,   \* deposits with a chest_category
    NoTx,
    PageLimit   \* transactions a sync reads

Tx == Deposits \cup AppTxs

ASSUME TxAssumption == Deposits \cap AppTxs = {} /\ NoTx \notin Tx
ASSUME TradesAssumption == Trades \subseteq AppTxs
ASSUME OrderAssumption == DOMAIN Order = Tx
ASSUME LabelledAssumption == Labelled \subseteq Deposits
ASSUME PageAssumption == PageLimit \in Nat \ {0}

VARIABLES
    history,    \* Wallbit's transactions, oldest first
    settled,    \* the trades that have settled at Wallbit
    exec,       \* exec[d]: the executor of deposit d and its decision
    recorded,   \* the deposits whose rows were inserted, oldest first
    mirror,     \* WallbitTxMirror: the status we copied of each transaction
    ledger,     \* the Investment table
    sync,       \* what each run of run_wallbit_sync is doing
    doomed      \* ids the dedupe command is about to delete

vars == <<history, settled, exec, recorded, mirror, ledger, sync, doomed>>
wallbit == <<history, settled>>

Id == ({"exec"} \X Deposits) \cup ({"sync"} \X Tx)

Absent == [tx |-> NoTx, shares |-> FALSE, there |-> FALSE]
Row(tx, shares) == [tx |-> tx, shares |-> shares, there |-> TRUE]

\* The executor: the request, mark_executed, the look-up of the mirror and the
\* insert are four statements.
ExecPCs == {"confirmed", "sent", "executed", "looked", "done", "failed"}
Exec == [pc : ExecPCs, uuid : Tx \cup {NoTx}, link : Tx \cup {NoTx}]

SyncPCs == {"idle", "syncing", "mirrored", "unlinked", "adopting", "creating"}
Copy == [tx : Tx, settled : BOOLEAN]
NoCopy == [tx |-> NoTx, settled |-> FALSE]
Sync == [pc : SyncPCs, todo : SUBSET Copy, copy : Copy \cup {NoCopy},
         row : Id \cup {NoTx}]
IdleSync == [pc |-> "idle", todo |-> {}, copy |-> NoCopy, row |-> NoTx]

TypeOK ==
    /\ history \in Seq(Tx)
    /\ settled \subseteq Trades
    /\ exec \in [Deposits -> Exec]
    /\ recorded \in Seq(Deposits)
    /\ mirror \in [Tx -> {"absent", "pending", "settled"}]
    /\ ledger \in [Id -> [tx : Tx \cup {NoTx}, shares : BOOLEAN, there : BOOLEAN]]
    /\ \A id \in Id : ~ledger[id].there => ledger[id] = Absent
    /\ sync \in [Syncs -> Sync]
    /\ doomed \subseteq Id

Init ==
    /\ history = <<>>
    /\ settled = {}
    /\ exec = [d \in Deposits |-> [pc |-> "confirmed", uuid |-> NoTx, link |-> NoTx]]
    /\ recorded = <<>>
    /\ mirror = [t \in Tx |-> "absent"]
    /\ ledger = [id \in Id |-> Absent]
    /\ sync = [s \in Syncs |-> IdleSync]
    /\ doomed = {}

InHistory(t) == \E i \in 1..Len(history) : history[i] = t
Linked(t) == \E id \in Id : ledger[id].there /\ ledger[id].tx = t
Unlinked(id) == ledger[id].there /\ ledger[id].tx = NoTx

-----------------------------------------------------------------------------
(* Wallbit.                                                                *)

TradeInApp(t) ==
    /\ t \in AppTxs /\ ~InHistory(t)
    /\ history' = Append(history, t)
    /\ UNCHANGED <<settled, exec, recorded, mirror, ledger, sync, doomed>>

TradeSettles(t) ==
    /\ t \in Trades \ settled /\ InHistory(t)
    /\ settled' = settled \cup {t}
    /\ UNCHANGED <<history, exec, recorded, mirror, ledger, sync, doomed>>

-----------------------------------------------------------------------------
(* The chest executor.                                                     *)

\* POST /roboadvisor/deposit: Wallbit has applied it when it answers.
SendDeposit(d) ==
    /\ exec[d].pc = "confirmed"
    /\ history' = Append(history, d)
    /\ exec' = [exec EXCEPT ![d].pc = "sent"]
    /\ UNCHANGED <<settled, recorded, mirror, ledger, sync, doomed>>

\* mark_executed, with the uuid of the answer when it carries one.
DepositExecuted(d) ==
    /\ exec[d].pc = "sent"
    /\ \E uuid \in {d, NoTx} :
          exec' = [exec EXCEPT ![d].pc = "executed", ![d].uuid = uuid]
    /\ UNCHANGED <<wallbit, recorded, mirror, ledger, sync, doomed>>

\* _record_investment looks for the mirror row of the uuid.
LookUpMirror(d) ==
    /\ exec[d].pc = "executed"
    /\ exec' = [exec EXCEPT ![d].pc = "looked", ![d].link =
          IF exec[d].uuid # NoTx /\ mirror[exec[d].uuid] # "absent"
          THEN exec[d].uuid ELSE NoTx]
    /\ UNCHANGED <<wallbit, recorded, mirror, ledger, sync, doomed>>

\* Investment.objects.create; wallbit_tx is one-to-one.
RecordDeposit(d) ==
    /\ exec[d].pc = "looked"
    /\ exec[d].link = NoTx \/ ~Linked(exec[d].link)
    /\ ledger' = [ledger EXCEPT ![<<"exec", d>>] = Row(exec[d].link, FALSE)]
    /\ recorded' = Append(recorded, d)
    /\ exec' = [exec EXCEPT ![d].pc = "done"]
    /\ UNCHANGED <<wallbit, mirror, sync, doomed>>

\* The IntegrityError reaches the catch-all of execute_decision.
RecordDepositFails(d) ==
    /\ exec[d].pc = "looked"
    /\ exec[d].link # NoTx /\ Linked(exec[d].link)
    /\ exec' = [exec EXCEPT ![d].pc = "failed"]
    /\ UNCHANGED <<wallbit, recorded, mirror, ledger, sync, doomed>>

-----------------------------------------------------------------------------
(* run_wallbit_sync and _backfill_investment.                              *)

Page == {history[i] : i \in {j \in 1..Len(history) : j > Len(history) - PageLimit}}

Fetch(s) ==
    /\ sync[s].pc = "idle"
    /\ sync' = [sync EXCEPT ![s] = [IdleSync EXCEPT !.pc = "syncing",
          !.todo = {[tx |-> t, settled |-> t \in settled \/ t \notin Trades] : t \in Page}]]
    /\ UNCHANGED <<wallbit, exec, recorded, mirror, ledger, doomed>>

\* Mutant of UpsertMirror: only transactions not mirrored before are backfilled.
UpsertMirrorBackfillsNewOnly(s, c) ==
    /\ sync[s].pc = "syncing" /\ c \in sync[s].todo
    /\ mirror' = [mirror EXCEPT ![c.tx] = IF c.settled THEN "settled" ELSE "pending"]
    /\ sync' = [sync EXCEPT
          ![s].pc = IF mirror[c.tx] = "absent" THEN "mirrored" ELSE "syncing",
          ![s].copy = IF mirror[c.tx] = "absent" THEN c ELSE NoCopy,
          ![s].todo = sync[s].todo \ {c}]
    /\ UNCHANGED <<wallbit, exec, recorded, ledger, doomed>>

\* update_or_create of the next transaction of the page.
UpsertMirror(s, c) ==
    /\ sync[s].pc = "syncing" /\ c \in sync[s].todo
    /\ mirror' = [mirror EXCEPT ![c.tx] = IF c.settled THEN "settled" ELSE "pending"]
    /\ sync' = [sync EXCEPT ![s].pc = "mirrored", ![s].copy = c,
                            ![s].todo = sync[s].todo \ {c}]
    /\ UNCHANGED <<wallbit, exec, recorded, ledger, doomed>>

NextItem(s) == [sync[s] EXCEPT !.pc = "syncing", !.copy = NoCopy, !.row = NoTx]

\* "if Investment.objects.filter(wallbit_tx=mirror).exists(): return False"
AlreadyLinked(s) ==
    /\ sync[s].pc = "mirrored"
    /\ sync' = [sync EXCEPT ![s] =
          IF Linked(sync[s].copy.tx) THEN NextItem(s)
          ELSE [sync[s] EXCEPT !.pc = "unlinked"]]
    /\ UNCHANGED <<wallbit, exec, recorded, mirror, ledger, doomed>>

\* Mutant of Adoptable: any unlinked row will do.
AnyUnlinked(t) == {d \in Deposits : Unlinked(<<"exec", d>>)}

\* Unlinked rows of the same kind, action and amount.  Only executors leave
\* rows unlinked; neither the category nor the decision's uuid is compared.
Adoptable(t) ==
    {d \in Deposits : Unlinked(<<"exec", d>>) /\ Order[d] = Order[t]}

EarlierRow(d, e) ==
    \E i, j \in 1..Len(recorded) : i < j /\ recorded[i] = d /\ recorded[j] = e

FindOptimistic(s) ==
    /\ sync[s].pc = "unlinked"
    /\ \/ /\ Adoptable(sync[s].copy.tx) = {}
          /\ sync' = [sync EXCEPT ![s].pc = "creating"]
       \/ \E d \in Adoptable(sync[s].copy.tx) :
             /\ \A e \in Adoptable(sync[s].copy.tx) : ~EarlierRow(e, d)
             /\ sync' = [sync EXCEPT ![s].pc = "adopting", ![s].row = <<"exec", d>>]
    /\ UNCHANGED <<wallbit, exec, recorded, mirror, ledger, doomed>>

\* The save writes the row's id as it was read.  It raises, and the sync moves
\* on, when another row has taken the transaction or the row is gone.
Adopt(s) ==
    LET id == sync[s].row
        t == sync[s].copy.tx
    IN
    /\ sync[s].pc = "adopting"
    /\ ledger' =
         IF ledger[id].there /\ (~Linked(t) \/ ledger[id].tx = t)
         THEN [ledger EXCEPT ![id].tx = t] ELSE ledger
    /\ sync' = [sync EXCEPT ![s] = NextItem(s)]
    /\ UNCHANGED <<wallbit, exec, recorded, mirror, doomed>>

\* The new row takes the shares the page gave; unknown while a trade is
\* PENDING.  An IntegrityError is caught and the sync moves on.
Create(s) ==
    LET c == sync[s].copy IN
    /\ sync[s].pc = "creating"
    /\ ledger' = IF Linked(c.tx) THEN ledger
                 ELSE [ledger EXCEPT ![<<"sync", c.tx>>] =
                          Row(c.tx, c.tx \in Trades /\ c.settled)]
    /\ sync' = [sync EXCEPT ![s] = NextItem(s)]
    /\ UNCHANGED <<wallbit, exec, recorded, mirror, doomed>>

SyncDone(s) ==
    /\ sync[s].pc = "syncing" /\ sync[s].todo = {}
    /\ sync' = [sync EXCEPT ![s] = IdleSync]
    /\ UNCHANGED <<wallbit, exec, recorded, mirror, ledger, doomed>>

-----------------------------------------------------------------------------
(* wallbit_dedupe_investments --apply.                                     *)

Label(id) == IF id[1] = "exec" /\ id[2] \in Labelled THEN "label" ELSE ""

Sibling(id, other) ==
    /\ ledger[other].there /\ ledger[other].tx # NoTx
    /\ Order[other[2]] = Order[id[2]]
    /\ Label(other) = Label(id)

\* Mutant of Superseded: every unlinked row is listed.
EveryUnlinked == {id \in Id : Unlinked(id)}

Superseded == {id \in Id : Unlinked(id) /\ \E other \in Id : Sibling(id, other)}

ListDuplicates ==
    /\ doomed = {} /\ Superseded # {}
    /\ doomed' = Superseded
    /\ UNCHANGED <<wallbit, exec, recorded, mirror, ledger, sync>>

\* The ids were listed before; what they hold now is not looked at.
DeleteDuplicates ==
    /\ doomed # {}
    /\ ledger' = [id \in Id |-> IF id \in doomed THEN Absent ELSE ledger[id]]
    /\ doomed' = {}
    /\ UNCHANGED <<wallbit, exec, recorded, mirror, sync>>

-----------------------------------------------------------------------------

ExecutorStep(d) ==
    \/ SendDeposit(d) \/ DepositExecuted(d) \/ LookUpMirror(d)
    \/ RecordDeposit(d) \/ RecordDepositFails(d)

SyncStep(s) ==
    \/ Fetch(s) \/ \E c \in sync[s].todo : UpsertMirror(s, c)
    \/ AlreadyLinked(s) \/ FindOptimistic(s) \/ Adopt(s) \/ Create(s) \/ SyncDone(s)

Next ==
    \/ \E t \in AppTxs : TradeInApp(t) \/ TradeSettles(t)
    \/ \E d \in Deposits : ExecutorStep(d)
    \/ \E s \in Syncs : SyncStep(s)
    \/ ListDuplicates
    \/ DeleteDuplicates

Spec == Init /\ [][Next]_vars

\* The beat starts a sync every fifteen minutes and a started one ends.
FairSpec == Spec /\ \A s \in Syncs : WF_vars(SyncStep(s))

-----------------------------------------------------------------------------
(* Properties.                                                             *)

\* Whichever row a sync adopts, and however two syncs race for it, a row is
\* linked only to a transaction of its own kind, action and amount.
LinkedRowsMatch ==
    \A id \in Id : ledger[id].tx # NoTx => Order[id[2]] = Order[ledger[id].tx]
LedgerIsSound == TypeOK /\ LinkedRowsMatch

\* A deleted row leaves a linked row of the same order behind, even if syncs
\* ran between the list and the delete.
RecordKept ==
    \A id \in Id : ledger[id].there /\ ~ledger'[id].there =>
       \E other \in Id : /\ ledger'[other].there /\ ledger'[other].tx # NoTx
                         /\ Order[other[2]] = Order[id[2]]
DedupeKeepsTheRecord == [][RecordKept]_vars

\* A transaction that stays on the page is in the ledger for good after some
\* sync, whatever adoptions were overwritten and rows deleted meanwhile.
EveryTransactionRecorded ==
    \A t \in Tx : InHistory(t) ~> [](Linked(t))

\* "This is what prevents the agent path and this sync path from duplicating
\* one real Wallbit transaction": never more rows than transactions.
NoDuplicateInvestment ==
    \A t \in Tx :
        Cardinality({id \in Id : ledger[id].there /\ Order[id[2]] = Order[t]})
          <= Cardinality({u \in Tx : InHistory(u) /\ Order[u] = Order[t]})

\* mark_failed is a "definitive failure: Wallbit rejected it".
FailedMeansRefused == \A d \in Deposits : exec[d].pc = "failed" => ~InHistory(d)

\* "The sync ... is the single source of truth for shares + status": once the
\* sync has copied a settled trade, and is done with it, its row has shares.
SettledTradesHaveShares ==
    \A id \in Id :
        /\ ledger[id].tx \in Trades
        /\ mirror[ledger[id].tx] = "settled"
        /\ \A s \in Syncs : sync[s].pc = "idle"
        => ledger[id].shares

\* "A row is a removable duplicate when it is unlinked".
DedupeRemovesOnlyUnlinked ==
    [][\A id \in Id : ledger[id].there /\ ~ledger'[id].there => Unlinked(id)]_vars
=============================================================================
