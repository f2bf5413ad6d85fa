---------------------------- MODULE GmailPipeline ----------------------------
(***************************************************************************)
(* From a Gmail webhook to an expense: the webhook handler stores the mail *)
(* and enqueues a task; the task locks the ProcessedEmail row, asks the    *)
(* model what the mail says, locks the user, looks for another mail about  *)
(* the same purchase, and registers the expense in one transaction, with   *)
(* the WhatsApp notification sent before its commit.  The user answers the *)
(* notification with a category or a deletion.  All mails are one user's,  *)
(* about purchases of one amount and currency within                       *)
(* DUPLICATE_WINDOW_MINUTES.                                               *)
(***************************************************************************)
EXTENDS Integers, FiniteSets

CONSTANTS
    Emails,
    Reference,      \* transaction_reference of each mail, None if it has none
    Tasks,          \* deliveries of process_gmail_message_async at one time
    Handlers,       \* webhooks handled at one time
    MaxDeliveries,  \* webhooks Composio sends (bound)
    MaxRetries,     \* max_retries
    MaxKills,       \* workers killed (bound)
    None

ASSUME GmailAssumption ==
    /\ IsFiniteSet(Emails) /\ DOMAIN Reference = Emails
    /\ MaxDeliveries \in Nat /\ MaxRetries \in Nat /\ MaxKills \in Nat
    /\ None \notin Emails

VARIABLES
    pe,             \* ProcessedEmail rows
    expenses,       \* Expense rows, by the number they were made with
    job,            \* the tasks
    handler,        \* the webhooks being handled
    reply,          \* the answer being worked on
    sent,           \* webhooks sent
    told,           \* mails a notification was sent for
    made,           \* expenses ever registered from each mail (observed)
    failed,         \* mails some attempt of which raised (observed)
    kills

vars == <<pe, expenses, job, handler, reply, sent, told, made, failed, kills>>

Terminal == {"processed", "skipped", "duplicate"}
Statuses == Terminal \cup {"pending", "error"}
Free == [pc |-> "free", mail |-> None, raw |-> FALSE, retries |-> 0,
         same |-> None, copy |-> None]
NoReply == [pc |-> "none", mail |-> None, txn |-> None]
Known == DOMAIN pe
Numbers == {e \in Emails \X (1..MaxDeliveries) : e[2] <= made[e[1]]}

TypeOK ==
    /\ Known \subseteq Emails
    /\ \A m \in Known :
         /\ pe[m].status \in Statuses
         /\ pe[m].raw \in BOOLEAN
         /\ pe[m].txn \in DOMAIN expenses \cup {None}
    /\ DOMAIN expenses \subseteq Numbers
    /\ \A e \in DOMAIN expenses : expenses[e] \in {"given", "by user"}
    /\ \A t \in Tasks : job[t].retries \in 0..MaxRetries
    /\ kills \in 0..MaxKills

Init ==
    /\ pe = [m \in {} |-> None] /\ expenses = [e \in {} |-> None]
    /\ job = [t \in Tasks |-> Free]
    /\ handler = [h \in Handlers |-> [pc |-> "none", mail |-> None]]
    /\ reply = NoReply
    /\ sent = 0
    /\ told = {} /\ made = [m \in Emails |-> 0] /\ failed = {} /\ kills = 0

Set(f, x, value) == [y \in DOMAIN f \cup {x} |-> IF y = x THEN value ELSE f[y]]
Drop(f, x) == [y \in DOMAIN f \ {x} |-> f[y]]

\* Who holds the lock of a row, and of the user.
Working == {"reading", "duplicate", "committing"}
Holds(t, m) == job[t].mail = m /\ job[t].pc \in Working
RowIsFree(m) == \A t \in Tasks : ~Holds(t, m)
UserIsFree ==
    \A t \in Tasks : job[t].pc \notin {"duplicate", "committing"}

Goto(t, pc) == job' = [job EXCEPT ![t].pc = pc]
Done(t) == job' = [job EXCEPT ![t] = Free]
Enqueue(m) ==
    \E t \in Tasks :
        /\ job[t] = Free
        /\ job' = [job EXCEPT ![t] = [Free EXCEPT !.pc = "queued", !.mail = m]]

-----------------------------------------------------------------------------
(* GmailComposioHandler.handle_webhook                                     *)

GetOrCreate(h, m) ==
    /\ handler[h].pc = "none" /\ sent < MaxDeliveries
    /\ sent' = sent + 1
    /\ pe' = IF m \in Known THEN pe
             ELSE Set(pe, m, [status |-> "pending", raw |-> FALSE, txn |-> None])
    /\ handler' = IF m \in Known /\ pe[m].status \in Terminal THEN handler
                  ELSE [handler EXCEPT ![h] = [pc |-> "saving", mail |-> m]]
    /\ UNCHANGED <<expenses, job, reply, told, made, failed, kills>>

\* ai_response is overwritten, whatever it holds by now.
SaveRaw(h) ==
    LET m == handler[h].mail
    IN  /\ handler[h].pc = "saving" /\ RowIsFree(m)
        /\ pe' = [pe EXCEPT ![m].raw = TRUE]
        /\ handler' = [handler EXCEPT ![h].pc = "enqueuing"]
        /\ UNCHANGED <<expenses, job, reply, sent, told, made, failed, kills>>

Delay(h) ==
    /\ handler[h].pc = "enqueuing"
    /\ Enqueue(handler[h].mail)
    /\ handler' = [handler EXCEPT ![h] = [pc |-> "none", mail |-> None]]
    /\ UNCHANGED <<pe, expenses, reply, sent, told, made, failed, kills>>

Pending(m) == m \in Known /\ pe[m].status = "pending"

\* reprocess_stale_pending
ReprocessStale(m) ==
    /\ Pending(m)
    /\ \A t \in Tasks : job[t].mail # m
    /\ Enqueue(m)
    /\ UNCHANGED <<pe, expenses, handler, reply, sent, told, made, failed, kills>>

-----------------------------------------------------------------------------
(* process_gmail_message_async                                             *)

LockRow(t) ==
    LET m == job[t].mail
    IN  /\ job[t].pc = "queued" /\ RowIsFree(m)
        /\ IF pe[m].status \in Terminal THEN Done(t)
           ELSE job' = [job EXCEPT ![t].pc = "reading", ![t].raw = pe[m].raw]
        /\ UNCHANGED <<pe, expenses, handler, reply, sent, told, made, failed, kills>>

\* The end of a transaction that registers nothing.
Settle(t, status) ==
    /\ pe' = [pe EXCEPT ![job[t].mail].status = status, ![job[t].mail].raw = FALSE]
    /\ Done(t)
    /\ UNCHANGED <<expenses, handler, reply, sent, told, made, failed, kills>>

\* No mail stored, or an answer that cannot be parsed: the mail is lost with it.
GiveUp(t) == job[t].pc = "reading" /\ Settle(t, "error")

\* Not a purchase, too little confidence, or the user's limit reached.
Skip(t) ==
    /\ job[t].pc = "reading" /\ job[t].raw
    /\ Settle(t, "skipped")

\* _find_duplicate_candidates
Candidates(m) ==
    {c \in Known \ {m} : pe[c].status = "processed" /\ pe[c].txn # None}

\* Two references decide; without them the judge may say anything.  A result
\* that was overwritten has no reference.
ReferenceOf(c) == IF pe[c].raw THEN None ELSE Reference[c]
SameReference(m, c) == Reference[m] # None /\ Reference[m] = ReferenceOf(c)
NeedsJudge(m, c) == Reference[m] = None \/ ReferenceOf(c) = None

\* Mutant of Detect: the user is not locked.
DetectUnlocked(t) ==
    LET m == job[t].mail
        Decided == {c \in Candidates(m) : SameReference(m, c)}
        Judged == {c \in Candidates(m) : NeedsJudge(m, c)}
    IN  /\ job[t].pc = "reading" /\ job[t].raw
        /\ \/ \E c \in Decided \cup Judged :
                /\ job' = [job EXCEPT ![t].pc = "duplicate", ![t].same = pe[c].txn,
                                      ![t].copy = expenses[pe[c].txn]]
                /\ UNCHANGED told
           \/ Decided = {} /\ Goto(t, "committing") /\ told' = told \cup {m}
        /\ UNCHANGED <<pe, expenses, handler, reply, sent, made, failed, kills>>

\* The user is locked from here to the commit; the expense is read here.  The
\* notification of a new expense is sent before the commit.
Detect(t) ==
    LET m == job[t].mail
        Decided == {c \in Candidates(m) : SameReference(m, c)}
        Judged == {c \in Candidates(m) : NeedsJudge(m, c)}
    IN  /\ job[t].pc = "reading" /\ job[t].raw /\ UserIsFree
        /\ \/ \E c \in Decided \cup Judged :
                /\ job' = [job EXCEPT ![t].pc = "duplicate", ![t].same = pe[c].txn,
                                      ![t].copy = expenses[pe[c].txn]]
                /\ UNCHANGED told
           \/ Decided = {} /\ Goto(t, "committing") /\ told' = told \cup {m}
        /\ UNCHANGED <<pe, expenses, handler, reply, sent, made, failed, kills>>

\* _apply_duplicate: a better merchant name saves the whole expense as read,
\* which inserts it again if it is gone.
ApplyDuplicate(t, renamed) ==
    /\ job[t].pc = "duplicate"
    /\ expenses' = IF renamed THEN Set(expenses, job[t].same, job[t].copy) ELSE expenses
    /\ pe' = [pe EXCEPT ![job[t].mail].status = "duplicate", ![job[t].mail].raw = FALSE]
    /\ Done(t)
    /\ UNCHANGED <<handler, reply, sent, told, made, failed, kills>>

Commit(t) ==
    LET m == job[t].mail
        number == <<m, made[m] + 1>>
    IN  /\ job[t].pc = "committing"
        /\ made' = [made EXCEPT ![m] = @ + 1]
        /\ expenses' = Set(expenses, number, "given")
        /\ pe' = [pe EXCEPT ![m] = [status |-> "processed", raw |-> FALSE,
                                    txn |-> number]]
        /\ Done(t)
        /\ UNCHANGED <<handler, reply, sent, told, failed, kills>>

\* An exception rolls the transaction back.
Raises(t) ==
    /\ job[t].pc \in Working
    /\ Goto(t, "failing")
    /\ failed' = failed \cup {job[t].mail}
    /\ UNCHANGED <<pe, expenses, handler, reply, sent, told, made, kills>>

\* Mutant of MarkError: a retry without end.
MarkAndRetry(t) ==
    LET m == job[t].mail
    IN  /\ job[t].pc = "failing" /\ RowIsFree(m)
        /\ pe' = [pe EXCEPT ![m].status = "pending"]
        /\ Done(t)
        /\ UNCHANGED <<expenses, handler, reply, sent, told, made, failed, kills>>

\* The row is marked as it is now, and the task delivered again later.
MarkError(t) ==
    LET m == job[t].mail
    IN  /\ job[t].pc = "failing" /\ RowIsFree(m)
        /\ pe' = [pe EXCEPT ![m].status = "error"]
        /\ IF job[t].retries < MaxRetries
           THEN job' = [job EXCEPT ![t] = [Free EXCEPT !.pc = "queued", !.mail = m,
                                             !.retries = job[t].retries + 1]]
           ELSE Done(t)
        /\ UNCHANGED <<expenses, handler, reply, sent, told, made, failed, kills>>

\* The hard time limit or the loss of a worker: the task was acked early.
Killed(t) ==
    /\ job[t].pc \in Working \cup {"failing"} /\ kills < MaxKills
    /\ Done(t)
    /\ kills' = kills + 1
    /\ UNCHANGED <<pe, expenses, handler, reply, sent, told, made, failed>>

HandlerKilled(h) ==
    /\ handler[h].pc # "none" /\ kills < MaxKills
    /\ handler' = [handler EXCEPT ![h] = [pc |-> "none", mail |-> None]]
    /\ kills' = kills + 1
    /\ UNCHANGED <<pe, expenses, job, reply, sent, told, made, failed>>

-----------------------------------------------------------------------------
(* categorize_gmail_transaction: read, ask the model, write.               *)

StartReply(m) ==
    /\ reply = NoReply
    /\ m \in Known /\ m \in told /\ pe[m].status = "processed"
    /\ reply' = [pc |-> "asking", mail |-> m, txn |-> pe[m].txn]
    /\ UNCHANGED <<pe, expenses, job, handler, sent, told, made, failed, kills>>

Unlink(e) == [m \in Known |-> IF pe[m].txn = e THEN [pe[m] EXCEPT !.txn = None] ELSE pe[m]]

EndReply ==
    /\ RowIsFree(reply.mail)
    /\ reply' = NoReply
    /\ UNCHANGED <<job, handler, sent, told, made, failed, kills>>

DeleteByReply ==
    /\ reply.pc = "asking" /\ reply.txn # None
    /\ expenses' = Drop(expenses, reply.txn)
    /\ pe' = Unlink(reply.txn)
    /\ EndReply

\* Only the columns it sets are saved; a row that is gone raises.
CategorizeByReply ==
    /\ reply.pc = "asking" /\ reply.txn # None
    /\ IF reply.txn \in DOMAIN expenses
       THEN expenses' = [expenses EXCEPT ![reply.txn] = "by user"]
       ELSE UNCHANGED expenses
    /\ UNCHANGED pe
    /\ EndReply

AskAgain ==
    /\ reply.pc = "asking"
    /\ UNCHANGED <<pe, expenses>>
    /\ EndReply

\* The user deletes the expense elsewhere.
Destroy(e) ==
    /\ e \in DOMAIN expenses
    /\ expenses' = Drop(expenses, e)
    /\ pe' = Unlink(e)
    /\ \A m \in Known : pe[m].txn = e => RowIsFree(m)
    /\ UNCHANGED <<job, handler, reply, sent, told, made, failed, kills>>

-----------------------------------------------------------------------------
Transaction(t) ==
    \/ GiveUp(t) \/ Skip(t) \/ Detect(t)
    \/ \E renamed \in BOOLEAN : ApplyDuplicate(t, renamed)
    \/ Commit(t)

TaskStep(t) == LockRow(t) \/ Transaction(t) \/ MarkError(t)
HandlerStep(h) == SaveRaw(h) \/ Delay(h)

Next ==
    \/ \E h \in Handlers : \/ \E m \in Emails : GetOrCreate(h, m)
                           \/ HandlerStep(h) \/ HandlerKilled(h)
    \/ \E m \in Emails : ReprocessStale(m) \/ StartReply(m)
    \/ \E t \in Tasks : TaskStep(t) \/ Raises(t) \/ Killed(t)
    \/ DeleteByReply \/ CategorizeByReply \/ AskAgain
    \/ \E e \in DOMAIN expenses : Destroy(e)

Replying == DeleteByReply \/ CategorizeByReply \/ AskAgain

\* Workers take what is queued and end what they began, web requests end, and
\* the beat comes round.
Fairness ==
    /\ \A t \in Tasks : SF_vars(LockRow(t)) /\ WF_vars(Transaction(t) \/ Raises(t))
                          /\ SF_vars(MarkError(t))
    /\ \A h \in Handlers : SF_vars(SaveRaw(h)) /\ SF_vars(Delay(h))
    /\ \A m \in Emails : SF_vars(ReprocessStale(m))
    /\ SF_vars(Replying)

Spec == Init /\ [][Next]_vars
FairSpec == Spec /\ Fairness

-----------------------------------------------------------------------------
\* Two mails with one reference register one expense: the receipt of the shop
\* and the notice of the bank are told apart from two purchases under the lock
\* of the user, unless a repeated webhook overwrote the result of one of them.
OneExpensePerReference ==
    \A a, b \in Known :
        (/\ a # b /\ Reference[a] = Reference[b] /\ Reference[a] # None
         /\ pe[a].status = "processed" /\ pe[b].status = "processed"
         /\ pe[a].txn # None /\ pe[b].txn # None)
            => pe[a].raw \/ pe[b].raw

\* Repeated webhooks, stale rows enqueued again and killed workers register a
\* mail once; only an attempt that raised can lead to a second expense.
OncePerEmail == \A m \in Emails \ failed : made[m] <= 1

\* A purchase is registered once, however often and by whomever it is told.
PurchasesRecordedOnce == TypeOK /\ OncePerEmail /\ OneExpensePerReference

\* Whatever is killed, no mail stays pending: it is registered, put aside or
\* marked with the error.
NoMailStaysPending ==
    \A m \in Emails : Pending(m) ~> ~Pending(m)

-----------------------------------------------------------------------------
(* What is not kept (see the README): no run checks these.                 *)

OncePerEmailEver == \A m \in Emails : made[m] <= 1

\* A result stays readable for the mails that come after it.
ResultsAreKept == \A m \in Known : pe[m].status = "processed" => ~pe[m].raw

\* The user is told of what was registered.
ToldOfWhatExists ==
    \A m \in told : made[m] > 0 \/ \E t \in Tasks : job[t].mail = m

\* What the user deleted stays deleted.
DeletedStaysDeleted ==
    [][\A n \in Numbers : n \in DOMAIN expenses' => n \in DOMAIN expenses]_vars

\* The category the user gave is kept.
UsersCategoryIsKept ==
    [][\A e \in DOMAIN expenses \cap DOMAIN expenses' :
         expenses[e] = "by user" => expenses'[e] = "by user"]_vars
=============================================================================
