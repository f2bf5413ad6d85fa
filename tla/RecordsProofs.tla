---------------------------- MODULE RecordsProofs ----------------------------
(***************************************************************************)
(* Proofs about what a user records: the mails that become expenses        *)
(* (GmailPipeline), for any mails, tasks, webhooks, retries and losses;    *)
(* the categories (Categories), for any names, requests and commands; the  *)
(* balance (InitialBalance), for any amounts, dates and calendars; and the *)
(* reports (FinanceReports), for any rows, calendars and time zones.       *)
(***************************************************************************)
EXTENDS Records, Sequences, FiniteSetTheorems, WellFoundedInduction, FiniteSums, TLAPS

-----------------------------------------------------------------------------
(* The invariant of the mails.                                             *)

LEMMA MailConstants ==
    /\ DOMAIN Reference = Emails
    /\ MaxDeliveries \in Nat /\ MaxRetries \in Nat /\ MaxKills \in Nat
    /\ None \notin Emails
BY MailAssumed DEF Mail!GmailAssumption

\* What is written of an expense, and who holds the lock of the user.
Written == {"given", "by user"}
RowLocked == {"duplicate", "committing"}

MailRow == [status : Mail!Statuses, raw : BOOLEAN, txn : (Emails \X Nat) \cup {None}]
MailJob == [pc : {"free", "queued", "failing"} \cup Mail!Working, mail : Emails \cup {None},
            raw : BOOLEAN, retries : 0..MaxRetries, same : (Emails \X Nat) \cup {None},
            copy : Written \cup {None}]
Handling == [pc : {"none", "saving", "enqueuing"}, mail : Emails \cup {None}]

MailTypes ==
    /\ Mail!TypeOK
    /\ pe \in [Mail!Known -> MailRow]
    /\ job \in [Tasks -> MailJob] /\ handler \in [Handlers -> Handling]
    /\ sent \in 0..MaxDeliveries /\ made \in [Emails -> Nat] /\ failed \subseteq Emails

\* What a task remembers fits the row it has, and what it read of the row and of
\* the expense is still so: the row is locked from its reading to the commit.
FitsTheRow(j) ==
    /\ j.pc # "free" => j.mail \in Mail!Known
    /\ j.pc \in Mail!Working => /\ pe[j.mail].status \notin Mail!Terminal
                                /\ j.raw => pe[j.mail].raw
    /\ j.pc \in RowLocked => j.raw
    /\ j.pc = "failing" => j.mail \in failed
    /\ j.pc = "duplicate" => j.same \in Mail!Numbers /\ j.copy \in Written
\* Under the lock of the user no other mail with the reference has an expense
\* that can be told from it.
IsNew(j) ==
    j.pc = "committing" =>
        \A c \in Mail!Known :
            (/\ c # j.mail /\ Reference[c] = Reference[j.mail] /\ Reference[c] # None
             /\ pe[c].status = "processed" /\ pe[c].txn # None) => pe[c].raw

JobsFit == \A t \in Tasks : FitsTheRow(job[t]) /\ IsNew(job[t])
HandlersFit == \A h \in Handlers : handler[h].pc # "none" => handler[h].mail \in Mail!Known

OneAtATime ==
    \A t, u \in Tasks :
        /\ job[t].pc \in Mail!Working /\ Mail!Holds(u, job[t].mail) => t = u
        /\ job[t].pc \in RowLocked /\ job[u].pc \in RowLocked => t = u

\* What was registered stays settled until an attempt raises.
MadeAreDone ==
    \A m \in Emails \ failed : made[m] # 0 => m \in Mail!Known /\ pe[m].status \in Mail!Terminal

\* Every expense was paid for by a webhook that stored the mail: what is stored is
\* used up by the commit, and only another webhook stores it again.
Saving(m) == {h \in Handlers : handler[h].pc = "saving" /\ handler[h].mail = m}
Stored(m) == IF m \in Mail!Known /\ pe[m].raw THEN 1 ELSE 0
WebhooksPay ==
    \A m \in Emails : /\ IsFiniteSet(Saving(m))
                      /\ made[m] + Stored(m) + Cardinality(Saving(m)) <= sent

MailInv ==
    /\ MailTypes /\ JobsFit /\ HandlersFit /\ OneAtATime /\ MadeAreDone /\ WebhooksPay
    /\ Mail!OncePerEmail /\ Mail!OneExpensePerReference

-----------------------------------------------------------------------------
LEMMA MailInit == Mail!Init => MailInv
<1> SUFFICES ASSUME Mail!Init PROVE MailInv
  OBVIOUS
<1> USE MailConstants
<1>1. Mail!Known = {} /\ DOMAIN expenses = {}
  BY DEF Mail!Init, Mail!Known
<1>2. Mail!Free \in MailJob /\ Mail!Free.pc = "free" /\ Mail!Free.retries = 0
  BY DEF Mail!Free, MailJob, Mail!Working
<1>3. job \in [Tasks -> MailJob] /\ \A t \in Tasks : job[t].pc = "free" /\ job[t].retries = 0
  BY <1>2 DEF Mail!Init
<1>4. handler \in [Handlers -> Handling] /\ \A h \in Handlers : handler[h].pc = "none"
  BY DEF Mail!Init, Handling
<1>5. pe \in [Mail!Known -> MailRow]
  BY <1>1 DEF Mail!Init, Mail!Known
<1>6. MailTypes
  BY <1>1, <1>3, <1>4, <1>5 DEF Mail!Init, MailTypes, Mail!TypeOK
<1>7. JobsFit /\ HandlersFit /\ OneAtATime
  BY <1>3, <1>4 DEF JobsFit, FitsTheRow, IsNew, HandlersFit, OneAtATime, Mail!Working, RowLocked
<1>8. MadeAreDone /\ Mail!OncePerEmail /\ Mail!OneExpensePerReference
  BY <1>1 DEF Mail!Init, MadeAreDone, Mail!OncePerEmail, Mail!OneExpensePerReference
<1>9. \A m \in Emails : Saving(m) = {} /\ Stored(m) = 0 /\ made[m] = 0
  BY <1>1, <1>4 DEF Saving, Stored, Mail!Init
<1>10. WebhooksPay
  <2>1. IsFiniteSet({}) /\ Cardinality({}) = 0 /\ sent = 0
    BY FS_EmptySet DEF Mail!Init
  <2>2. ASSUME NEW m \in Emails
        PROVE  IsFiniteSet(Saving(m)) /\ made[m] + Stored(m) + Cardinality(Saving(m)) <= sent
    BY <1>9, <2>1
  <2>3. QED
    BY <2>2 DEF WebhooksPay
<1>11. QED
  BY <1>6, <1>7, <1>8, <1>10 DEF MailInv

-----------------------------------------------------------------------------
(* Steps by what they change.                                              *)

\* A task moves and nothing it works on changes: what it is about to do must fit
\* the row, and it may take the locks only if nobody has them.
TaskMoves(t, j) ==
    /\ j \in MailJob
    /\ job' = [job EXCEPT ![t] = j]
    /\ FitsTheRow(j)' /\ IsNew(j)
    /\ j.pc \in Mail!Working => \A u \in Tasks \ {t} : ~Mail!Holds(u, j.mail)
    /\ j.pc \in RowLocked => \A u \in Tasks \ {t} : job[u].pc \notin RowLocked

LEMMA JobsAfterAMove ==
    ASSUME MailInv, NEW t \in Tasks, NEW j, TaskMoves(t, j),
           UNCHANGED <<pe, expenses, made>>, failed \subseteq failed'
    PROVE  /\ job' \in [Tasks -> MailJob]
           /\ \A u \in Tasks : job'[u] = IF u = t THEN j ELSE job[u]
           /\ JobsFit' /\ OneAtATime'
<1> USE DEF MailInv, MailTypes
<1>1. job' \in [Tasks -> MailJob] /\ \A u \in Tasks : job'[u] = IF u = t THEN j ELSE job[u]
  BY DEF TaskMoves
<1>2. \A u \in Tasks : u # t => FitsTheRow(job[u])'
  BY <1>1 DEF JobsFit, FitsTheRow, Mail!Known, Mail!Numbers
<1>3. \A u \in Tasks : u # t => IsNew(job[u])'
  BY <1>1 DEF JobsFit, IsNew, Mail!Known
<1>4. IsNew(j)' /\ FitsTheRow(j)'
  BY DEF TaskMoves, IsNew, Mail!Known
<1>5. JobsFit'
  BY <1>1, <1>2, <1>3, <1>4 DEF JobsFit
<1>6. OneAtATime'
  <2> SUFFICES ASSUME NEW v \in Tasks, NEW u \in Tasks
               PROVE  (/\ job[v].pc \in Mail!Working /\ Mail!Holds(u, job[v].mail) => v = u
                       /\ job[v].pc \in RowLocked /\ job[u].pc \in RowLocked => v = u)'
    BY DEF OneAtATime
  <2> QED
    BY <1>1 DEF TaskMoves, OneAtATime, Mail!Holds
<1>7. QED
  BY <1>1, <1>5, <1>6

LEMMA TaskStepKeeps ==
    ASSUME MailInv, NEW t \in Tasks, NEW j, TaskMoves(t, j),
           UNCHANGED <<pe, expenses, made, sent, handler>>,
           failed \subseteq failed', failed' \subseteq Emails, kills' \in 0..MaxKills
    PROVE  MailInv'
<1>1. /\ job' \in [Tasks -> MailJob] /\ JobsFit' /\ OneAtATime'
      /\ \A u \in Tasks : job'[u] \in MailJob
  BY JobsAfterAMove
<1>2. MailTypes'
  BY <1>1 DEF MailInv, MailTypes, Mail!TypeOK, Mail!Known, Mail!Numbers, MailJob
<1>3. HandlersFit' /\ Mail!OneExpensePerReference' /\ Mail!OncePerEmail' /\ MadeAreDone'
  BY DEF MailInv, HandlersFit, Mail!OneExpensePerReference, Mail!OncePerEmail, MadeAreDone, Mail!Known
<1>4. WebhooksPay'
  BY DEF MailInv, WebhooksPay, Saving, Stored, Mail!Known
<1>5. QED
  BY <1>1, <1>2, <1>3, <1>4 DEF MailInv

LEMMA FreeFits == Mail!Free \in MailJob /\ Mail!Free.pc = "free" /\ FitsTheRow(Mail!Free)' /\ IsNew(Mail!Free)
BY MailConstants DEF Mail!Free, MailJob, FitsTheRow, IsNew, Mail!Working, RowLocked

LEMMA DoneMoves ==
    ASSUME NEW t \in Tasks, Mail!Done(t)
    PROVE  TaskMoves(t, Mail!Free)
BY FreeFits DEF Mail!Done, TaskMoves, Mail!Working, RowLocked

LEMMA LockRowKeeps ==
    ASSUME MailInv, NEW t \in Tasks, Mail!LockRow(t)
    PROVE  MailInv'
<1>1. kills' \in 0..MaxKills /\ failed' \subseteq Emails
  BY DEF Mail!LockRow, MailInv, MailTypes, Mail!TypeOK
<1>2. CASE Mail!Done(t)
  BY <1>1, <1>2, DoneMoves, TaskStepKeeps DEF Mail!LockRow
<1>3. CASE ~Mail!Done(t)
  <2>1. PICK j : j = [job[t] EXCEPT !.pc = "reading", !.raw = pe[job[t].mail].raw]
    OBVIOUS
  <2>2. /\ job[t].pc = "queued" /\ Mail!RowIsFree(job[t].mail)
        /\ job' = [job EXCEPT ![t] = j] /\ pe[job[t].mail].status \notin Mail!Terminal
        /\ UNCHANGED <<pe, expenses, made, sent, handler, failed>>
    BY <1>3, <2>1 DEF Mail!LockRow
  <2>3. job[t] \in MailJob /\ job[t].mail \in Mail!Known /\ pe[job[t].mail].raw \in BOOLEAN
    BY <2>2 DEF MailInv, MailTypes, JobsFit, FitsTheRow, MailRow
  <2>4. /\ j \in MailJob /\ j.pc = "reading" /\ j.mail = job[t].mail
        /\ j.raw = pe[job[t].mail].raw
    BY <2>1, <2>3 DEF MailJob, Mail!Working
  <2>5. FitsTheRow(j)' /\ IsNew(j)
    BY <2>2, <2>3, <2>4 DEF FitsTheRow, IsNew, RowLocked, Mail!Known
  <2>6. TaskMoves(t, j)
    BY <2>2, <2>4, <2>5 DEF TaskMoves, Mail!RowIsFree, RowLocked
  <2>7. QED
    BY <1>1, <2>2, <2>6, TaskStepKeeps
<1>4. QED
  BY <1>2, <1>3

LEMMA EnqueueMoves ==
    ASSUME NEW m \in Mail!Known \cap Emails, Mail!Enqueue(m), UNCHANGED <<pe, expenses, made, failed>>
    PROVE  \E t \in Tasks, j \in MailJob : TaskMoves(t, j)
<1>1. PICK t \in Tasks : /\ job[t] = Mail!Free
                         /\ job' = [job EXCEPT ![t] = [Mail!Free EXCEPT !.pc = "queued", !.mail = m]]
  BY DEF Mail!Enqueue
<1>2. PICK j : j = [Mail!Free EXCEPT !.pc = "queued", !.mail = m]
  OBVIOUS
<1>3. j \in MailJob /\ j.pc = "queued" /\ j.mail = m
  BY <1>2, FreeFits DEF MailJob
<1>4. FitsTheRow(j)' /\ IsNew(j)
  BY <1>3 DEF FitsTheRow, IsNew, Mail!Working, RowLocked, Mail!Known
<1>5. TaskMoves(t, j)
  BY <1>1, <1>2, <1>3, <1>4 DEF TaskMoves, Mail!Working, RowLocked
<1>6. QED
  BY <1>3, <1>5

LEMMA ReprocessKeeps ==
    ASSUME MailInv, NEW m \in Emails, Mail!ReprocessStale(m)
    PROVE  MailInv'
<1>1. /\ m \in Mail!Known \cap Emails /\ Mail!Enqueue(m)
      /\ UNCHANGED <<pe, expenses, made, failed, sent, handler, kills>>
  BY DEF Mail!ReprocessStale, Mail!Pending
<1>2. PICK t \in Tasks, j \in MailJob : TaskMoves(t, j)
  BY <1>1, EnqueueMoves
<1>3. failed \subseteq Emails /\ kills \in 0..MaxKills
  BY DEF MailInv, MailTypes, Mail!TypeOK
<1>4. QED
  BY <1>1, <1>2, <1>3, TaskStepKeeps

\* A webhook moves on after it stored the mail, or is lost.
LEMMA HandlerStepKeeps ==
    ASSUME MailInv,
           handler' \in [Handlers -> Handling],
           \A g \in Handlers : handler'[g] # handler[g] => handler'[g].pc = "none",
           UNCHANGED <<pe, made, sent>>
    PROVE  HandlersFit' /\ WebhooksPay'
<1>1. HandlersFit'
  BY DEF MailInv, MailTypes, HandlersFit, Mail!Known
<1>2. ASSUME NEW m \in Emails
      PROVE  /\ IsFiniteSet(Saving(m))'
             /\ (made[m] + Stored(m) + Cardinality(Saving(m)) <= sent)'
  <2>1. Saving(m)' \subseteq Saving(m)
    BY DEF Saving
  <2>2. IsFiniteSet(Saving(m)) /\ made[m] + Stored(m) + Cardinality(Saving(m)) <= sent
    BY DEF MailInv, WebhooksPay
  <2>3. /\ IsFiniteSet(Saving(m)') /\ Cardinality(Saving(m)') <= Cardinality(Saving(m))
        /\ Cardinality(Saving(m)') \in Nat /\ Cardinality(Saving(m)) \in Nat
    BY <2>1, <2>2, FS_Subset, FS_CardinalityType
  <2>4. Stored(m)' = Stored(m) /\ Stored(m) \in Nat /\ made[m] \in Nat /\ sent \in Nat
    BY DEF Stored, Mail!Known, MailInv, MailTypes
  <2>5. QED
    BY <2>2, <2>3, <2>4
<1>3. QED
  BY <1>1, <1>2 DEF WebhooksPay

LEMMA DelayKeeps ==
    ASSUME MailInv, NEW h \in Handlers, Mail!Delay(h)
    PROVE  MailInv'
<1>1. /\ handler[h].pc = "enqueuing" /\ Mail!Enqueue(handler[h].mail)
      /\ handler' = [handler EXCEPT ![h] = [pc |-> "none", mail |-> None]]
      /\ UNCHANGED <<pe, expenses, made, failed, sent, kills>>
  BY DEF Mail!Delay
<1>2. handler[h].mail \in Mail!Known \cap Emails
  BY <1>1 DEF MailInv, MailTypes, Mail!TypeOK, HandlersFit
<1>3. PICK t \in Tasks, j \in MailJob : TaskMoves(t, j)
  BY <1>1, <1>2, EnqueueMoves
<1>4. /\ job' \in [Tasks -> MailJob] /\ JobsFit' /\ OneAtATime'
      /\ \A u \in Tasks : job'[u] \in MailJob
  BY <1>1, <1>3, JobsAfterAMove
<1>5. handler' \in [Handlers -> Handling]
  BY <1>1 DEF MailInv, MailTypes, Handling
<1>6. HandlersFit' /\ WebhooksPay'
  BY <1>1, <1>5, HandlerStepKeeps DEF MailInv, MailTypes
<1>7. MailTypes'
  BY <1>1, <1>4, <1>5 DEF MailInv, MailTypes, Mail!TypeOK, Mail!Known, Mail!Numbers, MailJob
<1>8. Mail!OneExpensePerReference' /\ Mail!OncePerEmail' /\ MadeAreDone'
  BY <1>1 DEF MailInv, Mail!OneExpensePerReference, Mail!OncePerEmail, MadeAreDone, Mail!Known
<1>9. QED
  BY <1>4, <1>6, <1>7, <1>8 DEF MailInv

LEMMA HandlerKilledKeeps ==
    ASSUME MailInv, NEW h \in Handlers, Mail!HandlerKilled(h)
    PROVE  MailInv'
<1>1. /\ kills < MaxKills /\ kills' = kills + 1
      /\ handler' = [handler EXCEPT ![h] = [pc |-> "none", mail |-> None]]
      /\ UNCHANGED <<pe, expenses, job, made, failed, sent>>
  BY DEF Mail!HandlerKilled
<1>2. handler' \in [Handlers -> Handling]
  BY <1>1 DEF MailInv, MailTypes, Handling
<1>3. HandlersFit' /\ WebhooksPay'
  BY <1>1, <1>2, HandlerStepKeeps DEF MailInv, MailTypes
<1>4. MailTypes'
  <2>1. MailTypes /\ kills' \in 0..MaxKills
    <3>1. MailTypes /\ kills \in 0..MaxKills
      BY DEF MailInv, MailTypes, Mail!TypeOK
    <3>2. QED
      BY <1>1, <3>1, MailConstants
  <2>2. Mail!TypeOK'
    BY <1>1, <2>1 DEF MailTypes, Mail!TypeOK, Mail!Known, Mail!Numbers
  <2>3. QED
    BY <1>1, <1>2, <2>1, <2>2 DEF MailTypes, Mail!Known
<1>5. /\ Mail!OneExpensePerReference' /\ Mail!OncePerEmail' /\ MadeAreDone'
      /\ JobsFit' /\ OneAtATime'
  BY <1>1 DEF MailInv, Mail!OneExpensePerReference, Mail!OncePerEmail, MadeAreDone, Mail!Known,
              JobsFit, FitsTheRow, IsNew, OneAtATime, Mail!Holds, Mail!Numbers
<1>6. QED
  BY <1>3, <1>4, <1>5 DEF MailInv

\* Detecting takes the lock of the user; what is found is there.
LEMMA DetectKeeps ==
    ASSUME MailInv, NEW t \in Tasks, Mail!Detect(t)
    PROVE  MailInv'
<1> DEFINE m == job[t].mail
           Decided == {c \in Mail!Candidates(m) : Mail!SameReference(m, c)}
           Judged == {c \in Mail!Candidates(m) : Mail!NeedsJudge(m, c)}
<1>1. /\ job[t].pc = "reading" /\ job[t].raw /\ Mail!UserIsFree
      /\ UNCHANGED <<pe, expenses, handler, reply, sent, made, failed, kills>>
      /\ \/ \E c \in Decided \cup Judged :
               job' = [job EXCEPT ![t].pc = "duplicate", ![t].same = pe[c].txn,
                                  ![t].copy = expenses[pe[c].txn]]
         \/ Decided = {} /\ job' = [job EXCEPT ![t].pc = "committing"]
  BY DEF Mail!Detect, Mail!Goto
<1>2. /\ job \in [Tasks -> MailJob] /\ job[t] \in MailJob /\ FitsTheRow(job[t])
      /\ failed \subseteq Emails /\ kills \in 0..MaxKills
  BY DEF MailInv, MailTypes, Mail!TypeOK, JobsFit
<1>3. \A u \in Tasks \ {t} : ~Mail!Holds(u, m) /\ job[u].pc \notin RowLocked
  BY <1>1 DEF Mail!UserIsFree, RowLocked, MailInv, OneAtATime, Mail!Working
<1>4. CASE \E c \in Decided \cup Judged :
             job' = [job EXCEPT ![t].pc = "duplicate", ![t].same = pe[c].txn,
                                ![t].copy = expenses[pe[c].txn]]
  <2>1. PICK c \in Mail!Known : /\ pe[c].txn # None
                                /\ job' = [job EXCEPT ![t].pc = "duplicate", ![t].same = pe[c].txn,
                                                      ![t].copy = expenses[pe[c].txn]]
    BY <1>4 DEF Mail!Candidates
  <2>2. pe[c].txn \in DOMAIN expenses /\ pe[c].txn \in Mail!Numbers /\ expenses[pe[c].txn] \in Written
    BY <2>1 DEF MailInv, MailTypes, Mail!TypeOK, Written
  <2>3. PICK j : j = [job[t] EXCEPT !.pc = "duplicate", !.same = pe[c].txn,
                                    !.copy = expenses[pe[c].txn]]
    OBVIOUS
  <2>4. pe[c].txn \in Emails \X Nat
    BY <2>2 DEF Mail!Numbers
  <2>5. /\ j \in MailJob /\ j.pc = "duplicate" /\ j.mail = m /\ j.raw
        /\ j.same = pe[c].txn /\ j.copy = expenses[pe[c].txn]
    BY <1>1, <1>2, <2>2, <2>3, <2>4 DEF MailJob, Mail!Working
  <2>6. job' = [job EXCEPT ![t] = j]
    BY <2>1, <2>3
  <2>7. FitsTheRow(j)' /\ IsNew(j)
    BY <1>1, <1>2, <2>2, <2>5 DEF FitsTheRow, IsNew, Mail!Known, Mail!Working, Mail!Numbers
  <2>8. TaskMoves(t, j)
    BY <1>3, <2>5, <2>6, <2>7 DEF TaskMoves
  <2>9. QED
    BY <1>1, <1>2, <2>8, TaskStepKeeps
<1>5. CASE Decided = {} /\ job' = [job EXCEPT ![t].pc = "committing"]
  <2>1. PICK j : j = [job[t] EXCEPT !.pc = "committing"]
    OBVIOUS
  <2>2. j \in MailJob /\ j.pc = "committing" /\ j.mail = m /\ j.raw
    BY <1>1, <1>2, <2>1 DEF MailJob, Mail!Working
  <2>3. job' = [job EXCEPT ![t] = j]
    BY <1>5, <2>1
  <2>4. \A c \in Mail!Known : (/\ c # m /\ Reference[c] = Reference[m] /\ Reference[c] # None
                               /\ pe[c].status = "processed" /\ pe[c].txn # None) => pe[c].raw
    BY <1>5 DEF Mail!Candidates, Mail!SameReference, Mail!ReferenceOf
  <2>5. FitsTheRow(j)' /\ IsNew(j)
    BY <1>1, <1>2, <2>2, <2>4 DEF FitsTheRow, IsNew, Mail!Known, Mail!Working
  <2>6. TaskMoves(t, j)
    BY <1>3, <2>2, <2>3, <2>5 DEF TaskMoves
  <2>7. QED
    BY <1>1, <1>2, <2>6, TaskStepKeeps
<1>6. QED
  BY <1>1, <1>4, <1>5

LEMMA RaisesKeeps ==
    ASSUME MailInv, NEW t \in Tasks, Mail!Raises(t)
    PROVE  MailInv'
<1>1. /\ job[t].pc \in Mail!Working /\ job' = [job EXCEPT ![t].pc = "failing"]
      /\ failed' = failed \cup {job[t].mail}
      /\ UNCHANGED <<pe, expenses, handler, sent, made, kills>>
  BY DEF Mail!Raises, Mail!Goto
<1>2. /\ job[t] \in MailJob /\ job[t].mail \in Mail!Known /\ job[t].mail \in Emails
      /\ failed \subseteq Emails /\ kills \in 0..MaxKills
  BY <1>1 DEF MailInv, MailTypes, Mail!TypeOK, JobsFit, FitsTheRow, Mail!Working
<1>3. PICK j : j = [job[t] EXCEPT !.pc = "failing"]
  OBVIOUS
<1>4. j \in MailJob /\ j.pc = "failing" /\ j.mail = job[t].mail
  BY <1>2, <1>3 DEF MailJob
<1>5. job' = [job EXCEPT ![t] = j]
  BY <1>1, <1>3
<1>6. FitsTheRow(j)' /\ IsNew(j)
  BY <1>1, <1>2, <1>4 DEF FitsTheRow, IsNew, Mail!Known, Mail!Working, RowLocked
<1>7. TaskMoves(t, j)
  BY <1>4, <1>5, <1>6 DEF TaskMoves, Mail!Working, RowLocked
<1>8. QED
  BY <1>1, <1>2, <1>7, TaskStepKeeps

LEMMA KilledKeeps ==
    ASSUME MailInv, NEW t \in Tasks, Mail!Killed(t)
    PROVE  MailInv'
<1>1. /\ kills < MaxKills /\ kills' = kills + 1 /\ Mail!Done(t)
      /\ UNCHANGED <<pe, expenses, handler, sent, made, failed>>
  BY DEF Mail!Killed
<1>2. failed \subseteq Emails /\ kills \in 0..MaxKills
  BY DEF MailInv, MailTypes, Mail!TypeOK
<1>3. kills' \in 0..MaxKills
  BY <1>1, <1>2, MailConstants
<1>4. QED
  BY <1>1, <1>2, <1>3, DoneMoves, TaskStepKeeps

-----------------------------------------------------------------------------
(* A task ends with its row.                                               *)

Bit(b) == IF b THEN 1 ELSE 0

\* Nobody else has the row; it stops being worked on, and an expense it is left
\* with is one a webhook paid for.
Settles(t, m, r, j) ==
    /\ job[t].mail = m /\ m \in Mail!Known /\ \A u \in Tasks \ {t} : ~Mail!Holds(u, m)
    /\ r \in MailRow /\ pe' = [pe EXCEPT ![m] = r]
    /\ j \in MailJob /\ job' = [job EXCEPT ![t] = j]
    /\ j.pc \in {"free", "queued"} /\ (j.pc = "queued" => j.mail = m)
    /\ DOMAIN expenses \subseteq DOMAIN expenses' /\ DOMAIN expenses' \subseteq Mail!Numbers'
    /\ \A e \in DOMAIN expenses' : expenses'[e] \in Written
    /\ r.txn \in DOMAIN expenses' \cup {None}
    /\ made' \in [Emails -> Nat] /\ made[m] <= made'[m]
    /\ \A x \in Emails \ {m} : made'[x] = made[x]
    /\ made'[m] + Bit(r.raw) <= made[m] + Bit(pe[m].raw)
    /\ r.status = "processed" => job[t].pc = "committing"
    /\ m \notin failed => made'[m] <= 1 /\ (made'[m] # 0 => r.status \in Mail!Terminal)
    /\ UNCHANGED <<handler, sent, failed, kills>>

LEMMA SettlesKeeps ==
    ASSUME MailInv, NEW t \in Tasks, NEW m, NEW r, NEW j, Settles(t, m, r, j)
    PROVE  MailInv'
<1>1. /\ job' \in [Tasks -> MailJob]
      /\ \A u \in Tasks : job'[u] = IF u = t THEN j ELSE job[u]
  BY DEF MailInv, MailTypes, Settles
<1>2. /\ Mail!Known' = Mail!Known /\ pe' \in [Mail!Known -> MailRow] /\ m \in Mail!Known /\ m \in Emails
      /\ \A c \in Mail!Known : pe'[c] = IF c = m THEN r ELSE pe[c]
  BY DEF MailInv, MailTypes, Mail!TypeOK, Settles, Mail!Known
<1>3. Mail!Numbers \subseteq Mail!Numbers'
  BY DEF Mail!Numbers, Settles, MailInv, MailTypes
<1>4. Mail!TypeOK'
  <2>1. \A c \in Mail!Known : /\ pe'[c].status \in Mail!Statuses /\ pe'[c].raw \in BOOLEAN
                              /\ pe'[c].txn \in DOMAIN expenses' \cup {None}
    BY <1>2 DEF Settles, MailRow, MailInv, MailTypes, Mail!TypeOK
  <2>2. \A u \in Tasks : job'[u].retries \in 0..MaxRetries
    BY <1>1 DEF MailJob
  <2>3. QED
    BY <1>2, <2>1, <2>2 DEF Mail!TypeOK, Settles, Written, MailInv, MailTypes
<1>5. MailTypes'
  BY <1>1, <1>2, <1>4 DEF MailTypes, MailInv, Settles
<1>6. \A u \in Tasks \ {t} : FitsTheRow(job[u])'
  <2> SUFFICES ASSUME NEW u \in Tasks \ {t} PROVE FitsTheRow(job[u])'
    OBVIOUS
  <2>1. /\ job'[u] = job[u] /\ FitsTheRow(job[u]) /\ failed' = failed
        /\ (job[u].pc \in Mail!Working => job[u].mail # m)
    BY <1>1 DEF MailInv, JobsFit, Settles, Mail!Holds
  <2>2. QED
    BY <1>2, <1>3, <2>1 DEF FitsTheRow, Mail!Working
<1>7. \A u \in Tasks \ {t} : IsNew(job[u])'
  <2> SUFFICES ASSUME NEW u \in Tasks \ {t}, job[u].pc = "committing" PROVE IsNew(job[u])'
    BY <1>1 DEF IsNew
  <2>1. job'[u] = job[u] /\ IsNew(job[u]) /\ job[t].pc # "committing"
    BY <1>1 DEF MailInv, JobsFit, OneAtATime, RowLocked
  <2>2. r.status # "processed"
    BY <2>1 DEF Settles
  <2>3. QED
    BY <1>2, <2>1, <2>2 DEF IsNew
<1>8. JobsFit'
  <2>1. FitsTheRow(j)' /\ IsNew(j)'
    BY <1>2 DEF FitsTheRow, IsNew, Settles, Mail!Working, RowLocked
  <2>2. QED
    BY <1>1, <1>6, <1>7, <2>1 DEF JobsFit
<1>9. OneAtATime'
  <2>1. j.pc \notin Mail!Working /\ j.pc \notin RowLocked
    BY DEF Settles, Mail!Working, RowLocked
  <2>2. QED
    BY <1>1, <2>1 DEF OneAtATime, Mail!Holds, MailInv
<1>10. HandlersFit'
  BY <1>2 DEF HandlersFit, MailInv, Settles
<1>11. MadeAreDone' /\ Mail!OncePerEmail'
  BY <1>2 DEF MadeAreDone, Mail!OncePerEmail, MailInv, Settles
<1>12. WebhooksPay'
  <2> SUFFICES ASSUME NEW x \in Emails
               PROVE  /\ IsFiniteSet(Saving(x))'
                      /\ (made[x] + Stored(x) + Cardinality(Saving(x)) <= sent)'
    BY DEF WebhooksPay
  <2>1. /\ Saving(x)' = Saving(x) /\ sent' = sent
        /\ IsFiniteSet(Saving(x)) /\ made[x] + Stored(x) + Cardinality(Saving(x)) <= sent
    BY DEF Settles, Saving, MailInv, WebhooksPay
  <2>2. made'[x] + Stored(x)' <= made[x] + Stored(x)
    BY <1>2 DEF Stored, Settles, Bit, MailInv, MailTypes
  <2>3. /\ made'[x] \in Nat /\ made[x] \in Nat /\ Stored(x)' \in Nat /\ Stored(x) \in Nat
        /\ Cardinality(Saving(x)) \in Nat /\ sent \in Nat
    BY <2>1, FS_CardinalityType DEF Stored, Settles, MailInv, MailTypes
  <2>4. QED
    BY <2>1, <2>2, <2>3
<1>13. Mail!OneExpensePerReference'
  <2> SUFFICES ASSUME NEW a \in Mail!Known, NEW b \in Mail!Known, a # b, Reference[a] = Reference[b],
                      Reference[a] # None, pe'[a].status = "processed",
                      pe'[b].status = "processed", pe'[a].txn # None, pe'[b].txn # None
               PROVE  pe'[a].raw \/ pe'[b].raw
    BY <1>2 DEF Mail!OneExpensePerReference
  <2>1. CASE a # m /\ b # m
    BY <1>2, <2>1 DEF Mail!OneExpensePerReference, MailInv
  <2>2. CASE a = m \/ b = m
    <3>1. IsNew(job[t]) /\ job[t].pc = "committing" /\ job[t].mail = m
      BY <1>2, <2>2 DEF Settles, MailInv, JobsFit
    <3>2. QED
      BY <1>2, <2>2, <3>1 DEF IsNew
  <2>3. QED
    BY <2>1, <2>2
<1>14. QED
  BY <1>5, <1>8, <1>9, <1>10, <1>11, <1>12, <1>13 DEF MailInv

\* What a working task knows of its row.
LEMMA WorkersKnowTheRow ==
    ASSUME MailInv, NEW t \in Tasks, job[t].pc \in Mail!Working
    PROVE  LET m == job[t].mail
           IN  /\ m \in Mail!Known /\ m \in Emails /\ pe[m] \in MailRow /\ job[t] \in MailJob
               /\ pe[m].txn \in DOMAIN expenses \cup {None}
               /\ pe[m].status \notin Mail!Terminal /\ pe[m].raw \in BOOLEAN
               /\ \A u \in Tasks \ {t} : ~Mail!Holds(u, m)
               /\ FitsTheRow(job[t])
               /\ (m \notin failed => made[m] = 0)
<1>1. FitsTheRow(job[t]) /\ job[t] \in MailJob /\ job[t].pc # "free"
  BY DEF MailInv, MailTypes, JobsFit, Mail!Working
<1>2. job[t].mail \in Mail!Known /\ job[t].mail \in Emails /\ pe[job[t].mail].status \notin Mail!Terminal
  BY <1>1 DEF FitsTheRow, MailInv, MailTypes, Mail!TypeOK
<1>3. /\ pe[job[t].mail] \in MailRow /\ pe[job[t].mail].raw \in BOOLEAN
      /\ pe[job[t].mail].txn \in DOMAIN expenses \cup {None}
  BY <1>2 DEF MailInv, MailTypes, Mail!TypeOK
<1>4. \A u \in Tasks \ {t} : ~Mail!Holds(u, job[t].mail)
  BY DEF MailInv, OneAtATime
<1>5. job[t].mail \notin failed => made[job[t].mail] = 0
  BY <1>2 DEF MailInv, MadeAreDone
<1>6. QED
  BY <1>1, <1>2, <1>3, <1>4, <1>5

LEMMA SettleKeeps ==
    ASSUME MailInv, NEW t \in Tasks, job[t].pc = "reading",
           NEW status \in {"error", "skipped"}, Mail!Settle(t, status)
    PROVE  MailInv'
<1> DEFINE m == job[t].mail
<1>1. /\ pe' = [pe EXCEPT ![m].status = status, ![m].raw = FALSE]
      /\ job' = [job EXCEPT ![t] = Mail!Free]
      /\ UNCHANGED <<expenses, handler, sent, made, failed, kills>>
  BY DEF Mail!Settle, Mail!Done
<1>2. /\ m \in Mail!Known /\ m \in Emails /\ pe[m] \in MailRow /\ \A u \in Tasks \ {t} : ~Mail!Holds(u, m)
      /\ pe[m].txn \in DOMAIN expenses \cup {None}
      /\ (m \notin failed => made[m] = 0)
  BY WorkersKnowTheRow DEF Mail!Working
<1>3. PICK n : n = m
  OBVIOUS
<1>4. PICK r : r = [pe[n] EXCEPT !.status = status, !.raw = FALSE]
  OBVIOUS
<1>5. /\ r \in MailRow /\ r.status = status /\ r.raw = FALSE /\ r.txn = pe[n].txn
  BY <1>2, <1>3, <1>4 DEF MailRow, Mail!Statuses, Mail!Terminal
<1>6. pe' = [pe EXCEPT ![n] = r]
  BY <1>1, <1>3, <1>4
<1>7. /\ made \in [Emails -> Nat] /\ Mail!Numbers' = Mail!Numbers /\ DOMAIN expenses \subseteq Mail!Numbers
      /\ \A e \in DOMAIN expenses : expenses[e] \in Written
  BY <1>1 DEF MailInv, MailTypes, Mail!TypeOK, Mail!Numbers, Written
<1>8. Settles(t, n, r, Mail!Free)
  <2>1. made'[n] + Bit(r.raw) <= made[n] + Bit(pe[n].raw) /\ made[n] <= made'[n]
    BY <1>1, <1>2, <1>3, <1>5, <1>7 DEF Bit
  <2>2. n \notin failed => made'[n] <= 1 /\ (made'[n] # 0 => r.status \in Mail!Terminal)
    BY <1>1, <1>2, <1>3
  <2>3. QED
    BY <1>1, <1>2, <1>3, <1>5, <1>6, <1>7, <2>1, <2>2, FreeFits DEF Settles
<1>9. QED
  BY <1>8, SettlesKeeps

LEMMA ApplyDuplicateKeeps ==
    ASSUME MailInv, NEW t \in Tasks, NEW renamed \in BOOLEAN, Mail!ApplyDuplicate(t, renamed)
    PROVE  MailInv'
<1> DEFINE m == job[t].mail
<1>1. /\ job[t].pc = "duplicate"
      /\ expenses' = IF renamed THEN Mail!Set(expenses, job[t].same, job[t].copy) ELSE expenses
      /\ pe' = [pe EXCEPT ![m].status = "duplicate", ![m].raw = FALSE]
      /\ job' = [job EXCEPT ![t] = Mail!Free]
      /\ UNCHANGED <<handler, sent, made, failed, kills>>
  BY DEF Mail!ApplyDuplicate, Mail!Done
<1>2. /\ m \in Mail!Known /\ m \in Emails /\ pe[m] \in MailRow /\ \A u \in Tasks \ {t} : ~Mail!Holds(u, m)
      /\ pe[m].txn \in DOMAIN expenses \cup {None}
      /\ (m \notin failed => made[m] = 0)
      /\ job[t].same \in Mail!Numbers /\ job[t].copy \in Written
  BY <1>1, WorkersKnowTheRow DEF Mail!Working, FitsTheRow
<1>3. PICK n : n = m
  OBVIOUS
<1>4. PICK r : r = [pe[n] EXCEPT !.status = "duplicate", !.raw = FALSE]
  OBVIOUS
<1>5. /\ r \in MailRow /\ r.status = "duplicate" /\ r.raw = FALSE /\ r.txn = pe[n].txn
  BY <1>2, <1>3, <1>4 DEF MailRow, Mail!Statuses, Mail!Terminal
<1>6. pe' = [pe EXCEPT ![n] = r]
  BY <1>1, <1>3, <1>4
<1>7. /\ made \in [Emails -> Nat] /\ Mail!Numbers' = Mail!Numbers /\ DOMAIN expenses \subseteq Mail!Numbers
      /\ \A e \in DOMAIN expenses : expenses[e] \in Written
  BY <1>1 DEF MailInv, MailTypes, Mail!TypeOK, Mail!Numbers, Written
<1>8. /\ DOMAIN expenses \subseteq DOMAIN expenses' /\ DOMAIN expenses' \subseteq Mail!Numbers'
      /\ \A e \in DOMAIN expenses' : expenses'[e] \in Written
  BY <1>1, <1>2, <1>7 DEF Mail!Set
<1>9. Settles(t, n, r, Mail!Free)
  <2>1. made'[n] + Bit(r.raw) <= made[n] + Bit(pe[n].raw) /\ made[n] <= made'[n]
    BY <1>1, <1>2, <1>3, <1>5, <1>7 DEF Bit
  <2>2. n \notin failed => made'[n] <= 1 /\ (made'[n] # 0 => r.status \in Mail!Terminal)
    BY <1>1, <1>2, <1>3
  <2>3. made' = made /\ r.txn \in DOMAIN expenses' \cup {None}
    BY <1>1, <1>2, <1>3, <1>5, <1>8
  <2>4. QED
    BY <1>1, <1>2, <1>3, <1>5, <1>6, <1>7, <1>8, <2>1, <2>2, <2>3, FreeFits DEF Settles
<1>10. QED
  BY <1>9, SettlesKeeps

\* The expense a task commits is new, and a webhook paid for it.
LEMMA CommitKeeps ==
    ASSUME MailInv, NEW t \in Tasks, Mail!Commit(t)
    PROVE  MailInv'
<1>1. PICK m : m = job[t].mail
  OBVIOUS
<1>2. PICK number : number = <<m, made[m] + 1>>
  OBVIOUS
<1>3. /\ job[t].pc = "committing"
      /\ made' = [made EXCEPT ![m] = made[m] + 1]
      /\ expenses' = Mail!Set(expenses, number, "given")
      /\ pe' = [pe EXCEPT ![m] = [status |-> "processed", raw |-> FALSE, txn |-> number]]
      /\ job' = [job EXCEPT ![t] = Mail!Free]
      /\ UNCHANGED <<handler, sent, failed, kills>>
  BY <1>1, <1>2 DEF Mail!Commit, Mail!Done
<1>4. /\ m \in Mail!Known /\ m \in Emails /\ pe[m].raw /\ \A u \in Tasks \ {t} : ~Mail!Holds(u, m)
      /\ (m \notin failed => made[m] = 0)
  BY <1>1, <1>3, WorkersKnowTheRow DEF Mail!Working, FitsTheRow, RowLocked
<1>5. made \in [Emails -> Nat] /\ made[m] \in Nat /\ made[m] + 1 <= MaxDeliveries
  <2>1. IsFiniteSet(Saving(m)) /\ made[m] + Stored(m) + Cardinality(Saving(m)) <= sent
    BY <1>4 DEF MailInv, WebhooksPay
  <2>2. Stored(m) = 1 /\ Cardinality(Saving(m)) \in Nat
    BY <1>4, <2>1, FS_CardinalityType DEF Stored
  <2>3. made \in [Emails -> Nat] /\ made[m] \in Nat /\ sent \in 0..MaxDeliveries
    BY <1>4 DEF MailInv, MailTypes
  <2>4. QED
    BY <2>1, <2>2, <2>3, MailConstants
<1>6. /\ made' \in [Emails -> Nat] /\ made'[m] = made[m] + 1
      /\ \A x \in Emails \ {m} : made'[x] = made[x]
  BY <1>3, <1>4, <1>5
<1>7. number \in Emails \X (1..MaxDeliveries) /\ number[1] = m /\ number[2] = made[m] + 1
  BY <1>2, <1>4, <1>5, MailConstants
<1>8. number \in Mail!Numbers' /\ Mail!Numbers \subseteq Mail!Numbers'
  <2>1. number \in Mail!Numbers'
    BY <1>6, <1>7 DEF Mail!Numbers
  <2>2. \A e \in Emails \X (1..MaxDeliveries) : made[e[1]] <= made'[e[1]]
    BY <1>4, <1>5, <1>6
  <2>3. \A e \in Emails \X (1..MaxDeliveries) : e[2] <= made[e[1]] => e[2] <= made'[e[1]]
    BY <1>5, <1>6, <2>2
  <2>4. QED
    BY <2>1, <2>3 DEF Mail!Numbers
<1>9. /\ DOMAIN expenses \subseteq DOMAIN expenses' /\ DOMAIN expenses' \subseteq Mail!Numbers'
      /\ number \in DOMAIN expenses'
      /\ \A e \in DOMAIN expenses' : expenses'[e] \in Written
  <2>1. /\ DOMAIN expenses \subseteq Mail!Numbers
        /\ \A e \in DOMAIN expenses : expenses[e] \in Written
    BY DEF MailInv, MailTypes, Mail!TypeOK, Written
  <2>2. QED
    BY <1>3, <1>8, <2>1 DEF Mail!Set, Written
<1>10. PICK r : r = [status |-> "processed", raw |-> FALSE, txn |-> number]
  OBVIOUS
<1>11. r \in MailRow /\ r.status = "processed" /\ r.raw = FALSE /\ r.txn = number
  BY <1>7, <1>10, MailConstants DEF MailRow, Mail!Statuses, Mail!Terminal
<1>12. Settles(t, m, r, Mail!Free)
  <2>1. made'[m] + Bit(r.raw) <= made[m] + Bit(pe[m].raw) /\ made[m] <= made'[m]
    BY <1>4, <1>5, <1>6, <1>11 DEF Bit
  <2>2. m \notin failed => made'[m] <= 1 /\ (made'[m] # 0 => r.status \in Mail!Terminal)
    BY <1>4, <1>6, <1>11 DEF Mail!Terminal
  <2>3. pe' = [pe EXCEPT ![m] = r]
    BY <1>3, <1>10
  <2>4. QED
    BY <1>1, <1>3, <1>4, <1>6, <1>9, <1>11, <2>1, <2>2, <2>3, FreeFits DEF Settles
<1>13. QED
  BY <1>12, SettlesKeeps

\* The mail of a failing task failed.
LEMMA MarkErrorKeeps ==
    ASSUME MailInv, NEW t \in Tasks, Mail!MarkError(t)
    PROVE  MailInv'
<1>1. PICK m : m = job[t].mail
  OBVIOUS
<1>2. PICK again : again = [Mail!Free EXCEPT !.pc = "queued", !.mail = m,
                                              !.retries = job[t].retries + 1]
  OBVIOUS
<1>3. /\ job[t].pc = "failing" /\ Mail!RowIsFree(m) /\ pe' = [pe EXCEPT ![m].status = "error"]
      /\ \/ job[t].retries < MaxRetries /\ job' = [job EXCEPT ![t] = again]
         \/ job' = [job EXCEPT ![t] = Mail!Free]
      /\ UNCHANGED <<expenses, handler, sent, made, failed, kills>>
  BY <1>1, <1>2 DEF Mail!MarkError, Mail!Done
<1>4. /\ m \in Mail!Known /\ m \in Emails /\ m \in failed /\ pe[m] \in MailRow
      /\ job[t].retries \in 0..MaxRetries /\ pe[m].txn \in DOMAIN expenses \cup {None}
  <2>1. FitsTheRow(job[t]) /\ job[t] \in MailJob
    BY DEF MailInv, MailTypes, JobsFit
  <2>2. QED
    BY <1>1, <1>3, <2>1 DEF FitsTheRow, MailInv, MailTypes, Mail!TypeOK, MailJob
<1>5. PICK r : r = [pe[m] EXCEPT !.status = "error"]
  OBVIOUS
<1>6. r \in MailRow /\ r.status = "error" /\ r.raw = pe[m].raw /\ r.txn = pe[m].txn
  BY <1>4, <1>5 DEF MailRow, Mail!Statuses
<1>7. pe' = [pe EXCEPT ![m] = r]
  BY <1>3, <1>5
<1>8. /\ made \in [Emails -> Nat] /\ Mail!Numbers' = Mail!Numbers /\ DOMAIN expenses \subseteq Mail!Numbers
      /\ \A e \in DOMAIN expenses : expenses[e] \in Written
  BY <1>3 DEF MailInv, MailTypes, Mail!TypeOK, Mail!Numbers, Written
<1>9. \E j \in MailJob : /\ job' = [job EXCEPT ![t] = j]
                         /\ j.pc \in {"free", "queued"} /\ (j.pc = "queued" => j.mail = m)
  <2>1. CASE job[t].retries < MaxRetries /\ job' = [job EXCEPT ![t] = again]
    <3>1. job[t].retries + 1 \in 0..MaxRetries
      BY <1>4, <2>1, MailConstants
    <3>2. again \in MailJob /\ again.pc = "queued" /\ again.mail = m
      BY <1>2, <1>4, <3>1, FreeFits DEF MailJob
    <3>3. QED
      BY <2>1, <3>2
  <2>2. CASE job' = [job EXCEPT ![t] = Mail!Free]
    BY <2>2, FreeFits
  <2>3. QED
    BY <1>3, <2>1, <2>2
<1>10. PICK j \in MailJob : /\ job' = [job EXCEPT ![t] = j]
                            /\ j.pc \in {"free", "queued"} /\ (j.pc = "queued" => j.mail = m)
  BY <1>9
<1>11. Settles(t, m, r, j)
  <2>1. made'[m] + Bit(r.raw) <= made[m] + Bit(pe[m].raw) /\ made[m] <= made'[m]
    BY <1>3, <1>4, <1>6, <1>8 DEF Bit
  <2>2. made' = made /\ r.txn \in DOMAIN expenses' \cup {None}
    BY <1>3, <1>4, <1>6
  <2>3. \A u \in Tasks \ {t} : ~Mail!Holds(u, m)
    BY <1>3 DEF Mail!RowIsFree
  <2>4. QED
    BY <1>1, <1>3, <1>4, <1>6, <1>7, <1>8, <1>10, <2>1, <2>2, <2>3 DEF Settles
<1>12. QED
  BY <1>11, SettlesKeeps

-----------------------------------------------------------------------------
(* What the webhook and the user change.                                   *)

\* A webhook stores the mail while no task has its row.
LEMMA SaveRawKeeps ==
    ASSUME MailInv, NEW h \in Handlers, Mail!SaveRaw(h)
    PROVE  MailInv'
<1>1. PICK m : m = handler[h].mail
  OBVIOUS
<1>2. /\ handler[h].pc = "saving" /\ Mail!RowIsFree(m) /\ pe' = [pe EXCEPT ![m].raw = TRUE]
      /\ handler' = [handler EXCEPT ![h].pc = "enqueuing"]
      /\ UNCHANGED <<expenses, job, sent, made, failed, kills>>
  BY <1>1 DEF Mail!SaveRaw
<1>3. /\ m \in Mail!Known /\ m \in Emails /\ pe[m] \in MailRow /\ handler[h] \in Handling
      /\ pe[m].txn \in DOMAIN expenses \cup {None}
  BY <1>1, <1>2 DEF MailInv, MailTypes, Mail!TypeOK, HandlersFit
<1>4. PICK r : r = [pe[m] EXCEPT !.raw = TRUE]
  OBVIOUS
<1>5. r \in MailRow /\ r.status = pe[m].status /\ r.raw = TRUE /\ r.txn = pe[m].txn
  BY <1>3, <1>4 DEF MailRow
<1>6. /\ Mail!Known' = Mail!Known /\ pe' \in [Mail!Known -> MailRow]
      /\ \A c \in Mail!Known : pe'[c] = IF c = m THEN r ELSE pe[c]
  BY <1>2, <1>3, <1>4, <1>5 DEF Mail!Known, MailInv, MailTypes
<1>7. PICK saved : saved = [handler[h] EXCEPT !.pc = "enqueuing"]
  OBVIOUS
<1>8. saved \in Handling /\ saved.pc = "enqueuing" /\ saved.mail = m
  BY <1>1, <1>3, <1>7 DEF Handling
<1>9. /\ handler' \in [Handlers -> Handling]
      /\ \A g \in Handlers : handler'[g] = IF g = h THEN saved ELSE handler[g]
  BY <1>2, <1>7, <1>8 DEF MailInv, MailTypes
<1>10. MailTypes'
  <2>1. MailTypes /\ Mail!Numbers' = Mail!Numbers
    BY <1>2 DEF MailInv, Mail!Numbers
  <2>2. \A c \in Mail!Known : /\ pe'[c].status \in Mail!Statuses /\ pe'[c].raw \in BOOLEAN
                              /\ pe'[c].txn \in DOMAIN expenses \cup {None}
    BY <1>3, <1>5, <1>6, <2>1 DEF MailTypes, Mail!TypeOK, MailRow
  <2>3. Mail!TypeOK'
    BY <1>2, <1>6, <2>1, <2>2 DEF MailTypes, Mail!TypeOK
  <2>4. QED
    BY <1>2, <1>6, <1>9, <2>1, <2>3 DEF MailTypes
<1>11. JobsFit' /\ OneAtATime'
  <2>1. ASSUME NEW u \in Tasks PROVE FitsTheRow(job[u])' /\ IsNew(job[u])'
    <3>1. FitsTheRow(job[u]) /\ IsNew(job[u])
      BY DEF MailInv, JobsFit
    <3>2. \A c \in Mail!Known : pe'[c].status = pe[c].status /\ pe'[c].txn = pe[c].txn
                                /\ (pe[c].raw => pe'[c].raw)
      BY <1>3, <1>5, <1>6
    <3>3. FitsTheRow(job[u])'
      BY <1>2, <1>6, <3>1, <3>2 DEF FitsTheRow, Mail!Numbers, Mail!Working
    <3>4. IsNew(job[u])'
      BY <1>2, <1>6, <3>1, <3>2 DEF IsNew
    <3>5. QED
      BY <3>3, <3>4
  <2>2. OneAtATime'
    BY <1>2 DEF MailInv, OneAtATime, Mail!Holds
  <2>3. QED
    BY <2>1, <2>2 DEF JobsFit
<1>12. HandlersFit'
  BY <1>3, <1>6, <1>8, <1>9 DEF MailInv, HandlersFit
<1>13. MadeAreDone' /\ Mail!OncePerEmail' /\ Mail!OneExpensePerReference'
  <2>1. \A c \in Mail!Known : pe'[c].status = pe[c].status /\ pe'[c].txn = pe[c].txn
                              /\ (pe[c].raw => pe'[c].raw)
    BY <1>3, <1>5, <1>6
  <2>2. MadeAreDone' /\ Mail!OncePerEmail'
    BY <1>2, <1>6, <2>1 DEF MailInv, MadeAreDone, Mail!OncePerEmail
  <2>3. Mail!OneExpensePerReference'
    BY <1>6, <2>1 DEF MailInv, Mail!OneExpensePerReference
  <2>4. QED
    BY <2>2, <2>3
<1>14. WebhooksPay'
  <2> SUFFICES ASSUME NEW x \in Emails
               PROVE  /\ IsFiniteSet(Saving(x))'
                      /\ (made[x] + Stored(x) + Cardinality(Saving(x)) <= sent)'
    BY DEF WebhooksPay
  <2>1. IsFiniteSet(Saving(x)) /\ made[x] + Stored(x) + Cardinality(Saving(x)) <= sent
    BY DEF MailInv, WebhooksPay
  <2>2. made[x] \in Nat /\ sent \in Nat /\ Stored(x) \in {0, 1} /\ Stored(x)' \in {0, 1}
    BY DEF MailInv, MailTypes, Stored
  <2>3. CASE x # m
    <3>1. Saving(x)' = Saving(x)
      BY <1>1, <1>8, <1>9, <2>3 DEF Saving
    <3>2. Stored(x)' = Stored(x)
      BY <1>6, <2>3 DEF Stored
    <3>3. QED
      BY <1>2, <2>1, <3>1, <3>2
  <2>4. CASE x = m
    <3>1. h \in Saving(x) /\ Saving(x)' = Saving(x) \ {h}
      BY <1>1, <1>2, <1>8, <1>9, <2>4 DEF Saving
    <3>2. /\ IsFiniteSet(Saving(x)') /\ Cardinality(Saving(x)') = Cardinality(Saving(x)) - 1
          /\ Cardinality(Saving(x)) \in Nat
      BY <2>1, <3>1, FS_RemoveElement, FS_CardinalityType
    <3>3. QED
      BY <1>2, <2>1, <2>2, <3>2
  <2>5. QED
    BY <2>3, <2>4
<1>15. QED
  BY <1>10, <1>11, <1>12, <1>13, <1>14 DEF MailInv

\* A webhook pays before it begins to store the mail.
LEMMA GetOrCreateKeeps ==
    ASSUME MailInv, NEW h \in Handlers, NEW m \in Emails, Mail!GetOrCreate(h, m)
    PROVE  MailInv'
<1>1. PICK fresh : fresh = [status |-> "pending", raw |-> FALSE, txn |-> None]
  OBVIOUS
<1>2. /\ handler[h].pc = "none" /\ sent < MaxDeliveries /\ sent' = sent + 1
      /\ pe' = IF m \in Mail!Known THEN pe ELSE Mail!Set(pe, m, fresh)
      /\ \/ UNCHANGED handler
         \/ handler' = [handler EXCEPT ![h] = [pc |-> "saving", mail |-> m]]
      /\ UNCHANGED <<expenses, job, made, failed, kills>>
  BY <1>1 DEF Mail!GetOrCreate
<1>3. fresh \in MailRow /\ fresh.status = "pending" /\ fresh.raw = FALSE /\ fresh.txn = None
  BY <1>1 DEF MailRow, Mail!Statuses
<1>4. /\ Mail!Known' = Mail!Known \cup {m} /\ pe' \in [Mail!Known' -> MailRow]
      /\ \A c \in Mail!Known : pe'[c] = pe[c]
      /\ m \notin Mail!Known => pe'[m] = fresh
  <2>1. CASE m \in Mail!Known
    BY <1>2, <2>1 DEF Mail!Known, MailInv, MailTypes
  <2>2. CASE m \notin Mail!Known
    BY <1>2, <1>3, <2>2 DEF Mail!Known, Mail!Set, MailInv, MailTypes
  <2>3. QED
    BY <2>1, <2>2
<1>5. /\ handler' \in [Handlers -> Handling]
      /\ \A g \in Handlers \ {h} : handler'[g] = handler[g]
      /\ handler'[h] = handler[h] \/ (handler'[h].pc = "saving" /\ handler'[h].mail = m)
  BY <1>2 DEF MailInv, MailTypes, Handling
<1>6. MailTypes'
  <2>1. MailTypes /\ Mail!Numbers' = Mail!Numbers /\ Mail!Known \subseteq Emails
    BY <1>2 DEF MailInv, MailTypes, Mail!TypeOK, Mail!Numbers
  <2>2. \A c \in Mail!Known' : /\ pe'[c].status \in Mail!Statuses /\ pe'[c].raw \in BOOLEAN
                               /\ pe'[c].txn \in DOMAIN expenses \cup {None}
    <3>1. pe'[m].txn = None \/ m \in Mail!Known
      BY <1>3, <1>4
    <3>2. \A c \in Mail!Known : pe'[c].txn \in DOMAIN expenses \cup {None}
      BY <1>4, <2>1 DEF MailTypes, Mail!TypeOK
    <3>3. \A c \in Mail!Known' : pe'[c] \in MailRow
      BY <1>4
    <3>4. QED
      BY <1>4, <3>1, <3>2, <3>3 DEF MailRow
  <2>3. Mail!TypeOK'
    BY <1>2, <1>4, <2>1, <2>2 DEF MailTypes, Mail!TypeOK
  <2>4. sent' \in 0..MaxDeliveries
    BY <1>2, <2>1, MailConstants DEF MailTypes
  <2>5. QED
    BY <1>2, <1>4, <1>5, <2>1, <2>3, <2>4 DEF MailTypes
<1>7. JobsFit' /\ OneAtATime'
  <2>1. ASSUME NEW u \in Tasks PROVE FitsTheRow(job[u])' /\ IsNew(job[u])'
    <3>1. FitsTheRow(job[u]) /\ IsNew(job[u])
      BY DEF MailInv, JobsFit
    <3>2. FitsTheRow(job[u])'
      BY <1>2, <1>4, <3>1 DEF FitsTheRow, Mail!Numbers, Mail!Working
    <3>3. IsNew(job[u])'
      BY <1>2, <1>3, <1>4, <3>1 DEF IsNew
    <3>4. QED
      BY <3>2, <3>3
  <2>2. OneAtATime'
    BY <1>2 DEF MailInv, OneAtATime, Mail!Holds
  <2>3. QED
    BY <2>1, <2>2 DEF JobsFit
<1>8. HandlersFit'
  BY <1>4, <1>5 DEF MailInv, HandlersFit
<1>9. MadeAreDone' /\ Mail!OncePerEmail' /\ Mail!OneExpensePerReference'
  <2>1. MadeAreDone' /\ Mail!OncePerEmail'
    BY <1>2, <1>4 DEF MailInv, MadeAreDone, Mail!OncePerEmail
  <2>2. Mail!OneExpensePerReference'
    BY <1>3, <1>4 DEF MailInv, Mail!OneExpensePerReference
  <2>3. QED
    BY <2>1, <2>2
<1>10. WebhooksPay'
  <2> SUFFICES ASSUME NEW x \in Emails
               PROVE  /\ IsFiniteSet(Saving(x))'
                      /\ (made[x] + Stored(x) + Cardinality(Saving(x)) <= sent)'
    BY DEF WebhooksPay
  <2>1. IsFiniteSet(Saving(x)) /\ made[x] + Stored(x) + Cardinality(Saving(x)) <= sent
    BY DEF MailInv, WebhooksPay
  <2>2. made[x] \in Nat /\ sent \in Nat /\ Stored(x) \in {0, 1}
    BY DEF MailInv, MailTypes, Stored
  <2>3. Stored(x)' = Stored(x)
    BY <1>3, <1>4 DEF Stored
  <2>4. Saving(x)' = Saving(x) \/ (h \notin Saving(x) /\ Saving(x)' = Saving(x) \cup {h})
    BY <1>2, <1>5 DEF Saving
  <2>5. /\ IsFiniteSet(Saving(x)') /\ Cardinality(Saving(x)') <= Cardinality(Saving(x)) + 1
        /\ Cardinality(Saving(x)) \in Nat /\ Cardinality(Saving(x)') \in Nat
    <3>1. Cardinality(Saving(x)) \in Nat
      BY <2>1, FS_CardinalityType
    <3>2. CASE Saving(x)' = Saving(x)
      BY <2>1, <3>1, <3>2
    <3>3. CASE h \notin Saving(x) /\ Saving(x)' = Saving(x) \cup {h}
      BY <2>1, <3>1, <3>3, FS_AddElement
    <3>4. QED
      BY <2>4, <3>2, <3>3
  <2>6. QED
    BY <1>2, <2>1, <2>2, <2>3, <2>5
<1>11. QED
  BY <1>6, <1>7, <1>8, <1>9, <1>10 DEF MailInv

\* Expenses go or are edited, and no row keeps one that is gone.
LEMMA UserStepKeeps ==
    ASSUME MailInv, UNCHANGED <<job, handler, sent, made, failed, kills>>,
           DOMAIN pe' = DOMAIN pe, pe' \in [Mail!Known -> MailRow],
           \A m \in Mail!Known : /\ pe'[m].status = pe[m].status /\ pe'[m].raw = pe[m].raw
                                 /\ pe'[m].txn \in {pe[m].txn, None}
                                 /\ pe'[m].txn \in DOMAIN expenses' \cup {None},
           DOMAIN expenses' \subseteq DOMAIN expenses,
           \A e \in DOMAIN expenses' : expenses'[e] \in Written
    PROVE  MailInv'
<1>1. Mail!Known' = Mail!Known
  BY DEF Mail!Known
<1>2. MailTypes'
  BY <1>1 DEF MailInv, MailTypes, Mail!TypeOK, Mail!Numbers, MailRow, Written
<1>3. JobsFit' /\ OneAtATime'
  <2>1. ASSUME NEW u \in Tasks PROVE FitsTheRow(job[u])' /\ IsNew(job[u])'
    <3>1. FitsTheRow(job[u]) /\ IsNew(job[u])
      BY DEF MailInv, JobsFit
    <3>2. FitsTheRow(job[u])'
      BY <1>1, <3>1 DEF FitsTheRow, Mail!Numbers, Mail!Working
    <3>3. IsNew(job[u])'
      BY <1>1, <3>1 DEF IsNew
    <3>4. QED
      BY <3>2, <3>3
  <2>2. OneAtATime'
    BY DEF MailInv, OneAtATime, Mail!Holds
  <2>3. QED
    BY <2>1, <2>2 DEF JobsFit
<1>4. HandlersFit' /\ MadeAreDone' /\ Mail!OncePerEmail'
  BY <1>1 DEF MailInv, HandlersFit, MadeAreDone, Mail!OncePerEmail
<1>5. Mail!OneExpensePerReference'
  BY <1>1 DEF MailInv, Mail!OneExpensePerReference
<1>6. WebhooksPay'
  <2>1. \A x \in Emails : Saving(x)' = Saving(x) /\ Stored(x)' = Stored(x)
    BY <1>1 DEF Saving, Stored
  <2>2. QED
    BY <2>1 DEF MailInv, WebhooksPay
<1>7. QED
  BY <1>2, <1>3, <1>4, <1>5, <1>6 DEF MailInv

LEMMA DropKeeps ==
    ASSUME MailInv, NEW e, expenses' = Mail!Drop(expenses, e), pe' = Mail!Unlink(e),
           UNCHANGED <<job, handler, sent, made, failed, kills>>
    PROVE  MailInv'
<1>1. /\ DOMAIN pe' = Mail!Known /\ DOMAIN expenses' = DOMAIN expenses \ {e}
      /\ \A m \in Mail!Known : pe'[m] = IF pe[m].txn = e THEN [pe[m] EXCEPT !.txn = None] ELSE pe[m]
      /\ \A x \in DOMAIN expenses' : expenses'[x] = expenses[x]
  BY DEF Mail!Drop, Mail!Unlink
<1>2. /\ \A m \in Mail!Known : pe[m] \in MailRow /\ pe[m].txn \in DOMAIN expenses \cup {None}
      /\ \A x \in DOMAIN expenses : expenses[x] \in Written
  BY DEF MailInv, MailTypes, Mail!TypeOK, Written
<1>3. \A m \in Mail!Known : /\ pe'[m] \in MailRow
                            /\ pe'[m].status = pe[m].status /\ pe'[m].raw = pe[m].raw
                            /\ pe'[m].txn = IF pe[m].txn = e THEN None ELSE pe[m].txn
  BY <1>1, <1>2 DEF MailRow
<1>4. pe' \in [Mail!Known -> MailRow]
  BY <1>3 DEF Mail!Unlink
<1>5. \A m \in Mail!Known : /\ pe'[m].status = pe[m].status /\ pe'[m].raw = pe[m].raw
                            /\ pe'[m].txn \in {pe[m].txn, None}
                            /\ pe'[m].txn \in DOMAIN expenses' \cup {None}
  BY <1>1, <1>2, <1>3
<1>6. DOMAIN pe' = DOMAIN pe /\ DOMAIN expenses' \subseteq DOMAIN expenses
  BY <1>1 DEF Mail!Known
<1>7. \A x \in DOMAIN expenses' : expenses'[x] \in Written
  BY <1>1, <1>2
<1>8. QED
  BY <1>4, <1>5, <1>6, <1>7, UserStepKeeps

LEMMA UserKeeps ==
    ASSUME MailInv, Mail!Replying \/ \E e \in DOMAIN expenses : Mail!Destroy(e)
    PROVE  MailInv'
<1>1. CASE Mail!DeleteByReply
  BY <1>1, DropKeeps DEF Mail!DeleteByReply, Mail!EndReply
<1>2. CASE \E e \in DOMAIN expenses : Mail!Destroy(e)
  BY <1>2, DropKeeps DEF Mail!Destroy
<1>3. CASE Mail!CategorizeByReply \/ Mail!AskAgain
  <2>1. /\ \/ UNCHANGED expenses
           \/ expenses' = [expenses EXCEPT ![reply.txn] = "by user"]
        /\ UNCHANGED <<pe, job, handler, sent, made, failed, kills>>
    BY <1>3 DEF Mail!CategorizeByReply, Mail!AskAgain, Mail!EndReply
  <2>2. /\ DOMAIN expenses' = DOMAIN expenses
        /\ \A x \in DOMAIN expenses' : expenses'[x] \in Written
    BY <2>1 DEF MailInv, MailTypes, Mail!TypeOK, Written
  <2>3. pe \in [Mail!Known -> MailRow] /\ \A m \in Mail!Known : pe[m].txn \in DOMAIN expenses \cup {None}
    BY DEF MailInv, MailTypes, Mail!TypeOK
  <2>4. QED
    BY <2>1, <2>2, <2>3, UserStepKeeps
<1>4. QED
  BY <1>1, <1>2, <1>3 DEF Mail!Replying

LEMMA MailFrame ==
    ASSUME MailInv, UNCHANGED <<pe, expenses, job, handler, sent, made, failed, kills>>
    PROVE  MailInv'
<1>1. /\ pe \in [Mail!Known -> MailRow] /\ \A m \in Mail!Known : pe[m].txn \in DOMAIN expenses \cup {None}
      /\ \A e \in DOMAIN expenses : expenses[e] \in Written
  BY DEF MailInv, MailTypes, Mail!TypeOK, Written
<1>2. QED
  BY <1>1, UserStepKeeps

-----------------------------------------------------------------------------
LEMMA MailNext ==
    ASSUME MailInv, [Mail!Next]_(Mail!vars)
    PROVE  MailInv'
<1>1. CASE UNCHANGED Mail!vars
  BY <1>1, MailFrame DEF Mail!vars
<1>2. CASE \E h \in Handlers : \/ \E m \in Emails : Mail!GetOrCreate(h, m)
                               \/ Mail!HandlerStep(h) \/ Mail!HandlerKilled(h)
  BY <1>2, GetOrCreateKeeps, SaveRawKeeps, DelayKeeps, HandlerKilledKeeps DEF Mail!HandlerStep
<1>3. CASE \E m \in Emails : Mail!ReprocessStale(m) \/ Mail!StartReply(m)
  BY <1>3, ReprocessKeeps, MailFrame DEF Mail!StartReply
<1>4. ASSUME NEW t \in Tasks, Mail!TaskStep(t) \/ Mail!Raises(t) \/ Mail!Killed(t)
      PROVE  MailInv'
  <2>1. CASE Mail!GiveUp(t) \/ Mail!Skip(t)
    BY <2>1, SettleKeeps DEF Mail!GiveUp, Mail!Skip
  <2>2. CASE Mail!Detect(t) \/ Mail!Commit(t) \/ \E renamed \in BOOLEAN : Mail!ApplyDuplicate(t, renamed)
    BY <2>2, DetectKeeps, CommitKeeps, ApplyDuplicateKeeps
  <2>3. CASE Mail!LockRow(t) \/ Mail!MarkError(t) \/ Mail!Raises(t) \/ Mail!Killed(t)
    BY <2>3, LockRowKeeps, MarkErrorKeeps, RaisesKeeps, KilledKeeps
  <2>4. QED
    BY <1>4, <2>1, <2>2, <2>3 DEF Mail!TaskStep, Mail!Transaction
<1>5. CASE Mail!Replying \/ \E e \in DOMAIN expenses : Mail!Destroy(e)
  BY <1>5, UserKeeps
<1>6. QED
  BY <1>1, <1>2, <1>3, <1>4, <1>5 DEF Mail!Next, Mail!Replying

\* Where a mail is: the row, the task and the webhook that have it, and what each
\* was paid for with.
THEOREM MailInvariantHolds == Mail!Spec => []MailInv
<1>1. Mail!Init => MailInv
  BY MailInit
<1>2. MailInv /\ [Mail!Next]_(Mail!vars) => MailInv'
  BY MailNext
<1>3. QED
  BY <1>1, <1>2, PTL DEF Mail!Spec

\* A behaviour of Records about mails is one of GmailPipeline.
AboutMails == focus = "mail"

LEMMA MailSteps ==
    [ReportStep \/ BalanceStep \/ MailStep \/ CategoryStep]_allVars =>
      /\ AboutMails => AboutMails' /\ [Mail!Next]_(Mail!vars)
      /\ ~AboutMails => ~AboutMails'
BY DEF AboutMails, ReportStep, BalanceStep, MailStep, CategoryStep, allVars, mailVars, Mail!vars

\* A purchase is registered once, for any number of mails about it, webhooks, tasks,
\* stale rows enqueued again and losses: two mails with one reference register one
\* expense unless a repeated webhook overwrote a result, and a mail registers two
\* only after an attempt of it raised.
THEOREM PurchasesOnce == RecordsSpec => []PurchasesRecordedOnce
<1>1. MailInv => Mail!PurchasesRecordedOnce
  BY DEF MailInv, MailTypes, Mail!PurchasesRecordedOnce
<1>2. RecordsInit /\ AboutMails => Mail!Init
  BY DEF RecordsInit, AboutMails
<1>3. QED
  BY <1>1, <1>2, MailSteps, MailInvariantHolds, PTL
     DEF RecordsSpec, PurchasesRecordedOnce, Mail!Spec, AboutMails

-----------------------------------------------------------------------------
(* The categories: the inductive invariant.                                *)

\* No table of an older version spells the fallback's name otherwise.
OneOtros ==
    \A start \in Starts : \A i \in DOMAIN start.names :
        start.names[i].key = Otros => start.names[i].spelling = Title

RequestOps == {"create", "rename", "insert", "fallback", "found", "otros", "save"}
Asking ==
    [op : RequestOps, by : {"agent", "client"}, asked : Category!Names,
     cat : Category!CategoryIds \cup Category!CategoryRows \cup {None}, disturbed : BOOLEAN]
Kept == UNION {[keys -> Category!CategoryRows] : keys \in SUBSET Keys}
Deduping ==
    [op : {"dedupe"}, disturbed : BOOLEAN, keep : Kept, remove : SUBSET Category!CategoryRows]
Moving ==
    [op : {"moved"}, disturbed : BOOLEAN, keep : Kept, remove : SUBSET Category!CategoryRows,
     moved : SUBSET Movements]
CategoryJob == {Category!Idle} \cup Asking \cup Deduping \cup Moving

RowTypes ==
    /\ cats \subseteq Category!CategoryRows
    /\ lastId \in 0..MaxCategory
    /\ \A c \in cats : c.id <= lastId
    /\ \A c, d \in cats : c.id = d.id => c = d
    /\ \A c \in cats : c.name.key = Otros => c.name.spelling = Title
    /\ DOMAIN filed \subseteq Movements

\* Of a name about to be written there are only rows spelled alike, which the
\* database refuses.
Unrivalled(j) ==
    /\ j.asked.spelling = Title
    /\ j.op \in {"create", "insert"} =>
         \A c \in cats : c.name.key = j.asked.key => c.name = j.asked
    /\ j.op = "rename" =>
         /\ j.cat \in Category!CategoryRows /\ j.cat.id <= lastId
         /\ \A c \in cats : c.id # j.cat.id /\ c.name.key = j.asked.key => c.name = j.asked

\* What the agent found under the name it asked for is still there.
StillFound(j) ==
    j.by = "agent" /\ ~j.disturbed =>
      /\ j.op \in {"found", "fallback"} => \E c \in cats : c.name.key = j.asked.key
      /\ j.op # "otros"
      /\ j.op = "save" => \E c \in cats : c.id = j.cat /\ c.name.key = j.asked.key

\* What the command is about to remove has a row that is kept for it.
StillDouble(j) ==
    ~j.disturbed =>
      /\ j.remove \subseteq cats
      /\ \A c \in j.remove :
           /\ c.name.key \in DOMAIN j.keep /\ j.keep[c.name.key] \in cats \ j.remove
           /\ j.keep[c.name.key].name.key = c.name.key
           /\ c.default => j.keep[c.name.key].default
      /\ j.op = "moved" =>
           \A m \in j.moved : m \in DOMAIN filed /\ \E c \in j.remove : filed[m] = c.id

CategoryFits(j) ==
    /\ j \in Asking => Unrivalled(j) /\ StillFound(j)
    /\ j \in Deduping \cup Moving => StillDouble(j)

CategoryInv ==
    /\ RowTypes /\ categoryJob \in [Workers -> CategoryJob]
    /\ \A w \in Workers : CategoryFits(categoryJob[w])

-----------------------------------------------------------------------------
LEMMA CategoryConstants ==
    /\ Otros \in Keys /\ Title \in Spellings /\ MaxCategory \in Nat /\ DefaultKeys \subseteq Keys
    /\ Asked \subseteq Category!Names
    /\ None \notin Keys /\ None \notin Movements
BY CategoriesAssumed DEF Category!CategoriesAssumption, Category!Names

\* Rows of the three kinds of job are told apart by what they do.
LEMMA JobKinds ==
    /\ \A j \in Asking : j.op \in RequestOps
    /\ \A j \in Deduping : j.op = "dedupe"
    /\ \A j \in Moving : j.op = "moved"
    /\ Category!Idle.op = "idle"
BY DEF Asking, Deduping, Moving, Category!Idle

LEMMA IdleFits ==
    /\ Category!Idle \in CategoryJob
    /\ CategoryFits(Category!Idle) /\ CategoryFits(Category!Idle)'
<1>1. Category!Idle \notin Asking \cup Deduping \cup Moving
  BY JobKinds DEF RequestOps
<1>2. QED
  BY <1>1 DEF CategoryFits, CategoryJob

LEMMA CategoryInit == OneOtros /\ Category!Init => CategoryInv
<1> SUFFICES ASSUME OneOtros, Category!Init PROVE CategoryInv
  OBVIOUS
<1>1. PICK start \in Starts :
        /\ cats = {Category!Category(i, start.names[i], Category!IsPredefined(start.names[i]))
                     : i \in DOMAIN start.names}
        /\ lastId = Len(start.names)
  BY DEF Category!Init
<1> DEFINE names == start.names
<1>2. names \in Seq(Category!Names)
  BY CategoriesAssumed DEF Category!CategoriesAssumption, Category!Names
<1>3. /\ DOMAIN names = 1..Len(names) /\ Len(names) \in Nat
      /\ \A i \in 1..Len(names) : names[i] \in Category!Names
  BY <1>2
<1>4. ASSUME NEW c \in cats
      PROVE  \E i \in 1..Len(names) : c = [id |-> i, name |-> names[i], default |-> c.default]
                                      /\ c.default \in BOOLEAN
  <2>1. PICK i \in 1..Len(names) :
          c = [id |-> i, name |-> names[i], default |-> Category!IsPredefined(names[i])]
    BY <1>1, <1>3 DEF Category!Category
  <2>2. Category!IsPredefined(names[i]) \in BOOLEAN
    BY DEF Category!IsPredefined
  <2>3. QED
    BY <2>1, <2>2
<1>5. /\ cats \subseteq Category!CategoryRows /\ lastId \in 0..MaxCategory
      /\ \A c \in cats : c.id <= lastId
  BY <1>1, <1>3, <1>4, CategoriesAssumed
     DEF Category!CategoryRows, Category!CategoryIds, Category!Names,
         Category!CategoriesAssumption
<1>6. \A c, d \in cats : c.id = d.id => c = d
  <2> SUFFICES ASSUME NEW c \in cats, NEW d \in cats, c.id = d.id PROVE c = d
    OBVIOUS
  <2> DEFINE first(i) ==
               [id |-> i, name |-> names[i], default |-> Category!IsPredefined(names[i])]
  <2>1. c = first(c.id) /\ d = first(d.id)
    BY <1>1 DEF Category!Category
  <2>2. QED
    BY <2>1
<1>7. \A c \in cats : c.name.key = Otros => c.name.spelling = Title
  BY <1>3, <1>4 DEF OneOtros
<1>8. DOMAIN filed = {}
  BY DEF Category!Init
<1>9. QED
  BY <1>5, <1>6, <1>7, <1>8, IdleFits DEF Category!Init, CategoryInv, RowTypes

-----------------------------------------------------------------------------
(* What a step leaves of another job.                                      *)

\* The rows a step adds are spelled as they should be; what it takes away or renames
\* it tells those at work.
RowsAdded ==
    /\ lastId' \in 0..MaxCategory /\ lastId <= lastId'
    /\ \A c \in cats' \ cats : c.name.spelling = Title
RowsStay ==
    /\ cats \subseteq cats'
    /\ \A m \in DOMAIN filed : m \in DOMAIN filed' /\ filed'[m] = filed[m]

LEMMA TheJobFits ==
    ASSUME CategoryInv, RowsAdded, RowTypes', NEW j \in CategoryJob, CategoryFits(j), RowsStay
    PROVE  CategoryFits(j)'
<1>1. ASSUME j \in Asking PROVE Unrivalled(j)'
  <2> j.asked \in Category!Names /\ Unrivalled(j)
    BY <1>1 DEF Asking, CategoryFits
  <2>1. ASSUME NEW c \in cats', c.name.key = j.asked.key, c \notin cats PROVE c.name = j.asked
    BY <2>1 DEF RowsAdded, RowTypes, Unrivalled, Category!Names, Category!CategoryRows
  <2>2. j.op = "rename" => j.cat.id <= lastId'
    BY DEF RowsAdded, Unrivalled, CategoryInv, RowTypes,
           Category!CategoryRows, Category!CategoryIds
  <2>3. QED
    BY <2>1, <2>2 DEF Unrivalled
<1>2. ASSUME j \in Asking PROVE StillFound(j)'
  BY <1>2 DEF StillFound, CategoryFits, RowsStay
<1>3. ASSUME j \in Deduping \cup Moving PROVE StillDouble(j)'
  BY <1>3 DEF StillDouble, CategoryFits, RowsStay
<1>4. QED
  BY <1>1, <1>2, <1>3 DEF CategoryFits

Told(j) == IF "disturbed" \in DOMAIN j THEN [j EXCEPT !.disturbed = TRUE] ELSE j

LEMMA ToldTypes ==
    ASSUME NEW j \in CategoryJob
    PROVE  /\ Told(j) \in CategoryJob
           /\ Told(j) = Category!Idle \/ Told(j).disturbed
           /\ j \in Asking =>
                /\ Told(j) \in Asking /\ Told(j).op = j.op /\ Told(j).asked = j.asked
                /\ Told(j).cat = j.cat /\ Told(j).by = j.by
           /\ Told(j) \in Asking => j \in Asking
<1>1. CASE j = Category!Idle
  <2>1. Told(j) = j
    BY <1>1 DEF Told, Category!Idle
  <2>2. Category!Idle \notin Asking
    BY JobKinds DEF RequestOps
  <2>3. QED
    BY <1>1, <2>1, <2>2
<1>2. CASE j \in Asking
  BY <1>2 DEF Told, Asking, CategoryJob
<1>3. CASE j \in Deduping
  BY <1>3, JobKinds DEF Told, Deduping, CategoryJob, RequestOps
<1>4. CASE j \in Moving
  BY <1>4, JobKinds DEF Told, Moving, CategoryJob, RequestOps
<1>5. QED
  BY <1>1, <1>2, <1>3, <1>4 DEF CategoryJob

LEMMA TheToldFits ==
    ASSUME CategoryInv, RowsAdded, RowTypes', NEW j \in CategoryJob, CategoryFits(j)
    PROVE  CategoryFits(Told(j))'
<1>1. ASSUME j \in Asking PROVE Unrivalled(Told(j))'
  <2> j.asked \in Category!Names /\ Unrivalled(j)
    BY <1>1 DEF Asking, CategoryFits
  <2>1. ASSUME NEW c \in cats', c.name.key = j.asked.key, c \notin cats PROVE c.name = j.asked
    BY <2>1 DEF RowsAdded, RowTypes, Unrivalled, Category!Names, Category!CategoryRows
  <2>2. j.op = "rename" => j.cat.id <= lastId'
    BY DEF RowsAdded, Unrivalled, CategoryInv, RowTypes,
           Category!CategoryRows, Category!CategoryIds
  <2>3. QED
    BY <1>1, <2>1, <2>2, ToldTypes DEF Unrivalled
<1>2. Category!Idle \notin Asking \cup Deduping \cup Moving
  BY JobKinds DEF RequestOps
<1>3. QED
  BY <1>1, <1>2, ToldTypes DEF CategoryFits, StillFound, StillDouble

LEMMA RequestMoves ==
    ASSUME CategoryInv, RowTypes', RowsAdded, RowsStay,
           NEW w \in Workers, NEW k \in CategoryJob,
           categoryJob' = [categoryJob EXCEPT ![w] = k], CategoryFits(k)'
    PROVE  CategoryInv'
<1>1. \A v \in Workers : categoryJob[v] \in CategoryJob /\ CategoryFits(categoryJob[v])
  BY DEF CategoryInv
<1>2. ASSUME NEW v \in Workers PROVE CategoryFits(categoryJob[v])'
  <2>1. CASE v = w
    BY <2>1 DEF CategoryInv
  <2>2. CASE v # w
    BY <1>1, <2>2, TheJobFits DEF CategoryInv
  <2>3. QED
    BY <2>1, <2>2
<1>3. QED
  BY <1>2 DEF CategoryInv

LEMMA RowsMove ==
    ASSUME CategoryInv, RowTypes', RowsAdded, NEW J \in [Workers -> CategoryJob],
           \A v \in Workers : CategoryFits(J[v]), categoryJob' = Category!Disturb(J)
    PROVE  CategoryInv'
<1>1. categoryJob' = [v \in Workers |-> Told(J[v])]
  BY DEF Category!Disturb, Told
<1>2. \A v \in Workers : Told(J[v]) \in CategoryJob /\ CategoryFits(Told(J[v]))'
  BY ToldTypes, TheToldFits
<1>3. QED
  BY <1>1, <1>2 DEF CategoryInv

\* The rows stay as they are.
LEMMA RowsSame ==
    ASSUME CategoryInv, UNCHANGED <<cats, lastId, filed>>
    PROVE  RowTypes' /\ RowsAdded /\ RowsStay
BY DEF CategoryInv, RowTypes, RowsAdded, RowsStay

LEMMA OnlyTheJob ==
    ASSUME CategoryInv, UNCHANGED <<cats, lastId, filed>>, NEW w \in Workers,
           NEW k \in CategoryJob, Category!Continue(w, k), CategoryFits(k)
    PROVE  CategoryInv'
<1>1. CategoryFits(k)'
  BY RowsSame, TheJobFits
<1>2. QED
  BY <1>1, RowsSame, RequestMoves DEF Category!Continue

\* A new row.
LEMMA RowIsNew ==
    ASSUME CategoryInv, lastId < MaxCategory, lastId' = lastId + 1, UNCHANGED filed,
           NEW name \in Category!Names, name.spelling = Title, NEW default \in BOOLEAN,
           cats' = Category!NewCategory(name, default)
    PROVE  /\ RowTypes' /\ RowsAdded /\ RowsStay
           /\ \E c \in cats' : c.id = lastId + 1 /\ c.name = name /\ c \notin cats
           /\ \A c \in cats' \ cats : c.name = name /\ \A d \in cats : d.id # c.id
           /\ lastId + 1 \in Category!CategoryIds
<1> DEFINE new == [id |-> lastId + 1, name |-> name, default |-> default]
<1>1. cats' = cats \cup {new}
  BY DEF Category!NewCategory, Category!Category
<1>2. lastId \in 0..MaxCategory /\ \A c \in cats : c.id <= lastId /\ c.id \in Nat
  BY DEF CategoryInv, RowTypes, Category!CategoryRows, Category!CategoryIds
<1>3. lastId + 1 \in 1..MaxCategory
  BY <1>2, CategoryConstants
<1>4. new \in Category!CategoryRows /\ new.id = lastId + 1 /\ new.name = name
  BY <1>3 DEF Category!CategoryRows, Category!CategoryIds
<1>5. \A c \in cats : c.id < lastId + 1
  BY <1>2
<1> HIDE DEF new
<1>6. RowTypes'
  BY <1>1, <1>2, <1>3, <1>4, <1>5 DEF CategoryInv, RowTypes
<1>7. QED
  BY <1>1, <1>2, <1>3, <1>4, <1>5, <1>6 DEF RowsAdded, RowsStay, Category!CategoryIds

LEMMA AskedIsAsked ==
    ASSUME CategoryInv, NEW w \in Workers, categoryJob[w].op \in RequestOps
    PROVE  /\ categoryJob[w] \in Asking
           /\ Unrivalled(categoryJob[w]) /\ StillFound(categoryJob[w])
BY JobKinds DEF CategoryInv, CategoryFits, CategoryJob, RequestOps

LEMMA NormalName ==
    ASSUME NEW name \in Asked
    PROVE  LET n == Category!Normalize(name) IN
           n \in Category!Names /\ n.spelling = Title /\ n.key = name.key
BY CategoryConstants DEF Category!Normalize, Category!Name, Category!Names

LEMMA AnyAsking ==
    ASSUME NEW op \in RequestOps, NEW by \in {"agent", "client"}, NEW asked \in Category!Names,
           NEW cat \in Category!CategoryIds \cup Category!CategoryRows \cup {None},
           NEW disturbed \in BOOLEAN,
           NEW k, k = [op |-> op, by |-> by, asked |-> asked, cat |-> cat,
                       disturbed |-> disturbed]
    PROVE  k \in CategoryJob /\ k \in Asking /\ k \notin Deduping \cup Moving
BY JobKinds DEF Asking, CategoryJob, RequestOps

-----------------------------------------------------------------------------
(* The endpoints.                                                          *)

LEMMA ValidateKeeps ==
    ASSUME CategoryInv, NEW w \in Workers, NEW name \in Asked, Category!Validate(w, name)
    PROVE  CategoryInv'
<1> DEFINE n == Category!Normalize(name)
           k == Category!Pending("create", "client", n)
<1>1. n \in Category!Names /\ n.spelling = Title
  BY NormalName
<1> HIDE DEF n
<1>2. k = [op |-> "create", by |-> "client", asked |-> n, cat |-> None, disturbed |-> FALSE]
  BY DEF Category!Pending
<1> HIDE DEF k
<1>3. k \in CategoryJob /\ k \in Asking /\ k \notin Deduping \cup Moving
  BY <1>1, <1>2, AnyAsking DEF RequestOps
<1>4. Unrivalled(k)
  BY <1>1, <1>2 DEF Unrivalled, Category!Validate, Category!Alike, n
<1>5. StillFound(k)
  BY <1>2 DEF StillFound
<1>6. QED
  BY <1>4, <1>5, <1>3, OnlyTheJob DEF CategoryFits, Category!Validate, n, k

LEMMA ValidateRenameKeeps ==
    ASSUME CategoryInv, NEW w \in Workers, NEW name \in Asked, NEW c \in cats,
           Category!ValidateRename(w, c, name)
    PROVE  CategoryInv'
<1> DEFINE n == Category!Normalize(name)
           k == [Category!Pending("rename", "client", n) EXCEPT !.cat = c]
<1>1. n \in Category!Names /\ n.spelling = Title
  BY NormalName
<1> HIDE DEF n
<1>2. c \in Category!CategoryRows /\ c.id <= lastId
  BY DEF CategoryInv, RowTypes
<1> DEFINE p == Category!Pending("rename", "client", n)
<1>3. /\ p = [op |-> "rename", by |-> "client", asked |-> n, cat |-> None, disturbed |-> FALSE]
      /\ p \in Asking
  BY <1>1, AnyAsking DEF Category!Pending, RequestOps
<1> HIDE DEF p
<1>4. /\ k \in Asking /\ k.op = "rename" /\ k.by = "client" /\ k.asked = n /\ k.cat = c
  BY <1>2, <1>3 DEF Asking, p
<1> HIDE DEF k
<1>5. k \in CategoryJob /\ k \notin Deduping \cup Moving
  BY <1>4, JobKinds DEF CategoryJob
<1>6. Unrivalled(k)
  BY <1>1, <1>2, <1>4 DEF Unrivalled, Category!ValidateRename, Category!Alike, n
<1>7. StillFound(k)
  BY <1>4 DEF StillFound
<1>8. QED
  BY <1>4, <1>5, <1>6, <1>7, OnlyTheJob DEF CategoryFits, Category!ValidateRename, n, k

LEMMA SaveNewKeeps ==
    ASSUME CategoryInv, NEW w \in Workers, Category!SaveNew(w)
    PROVE  CategoryInv' /\ Category!NameIsNew
<1>1. categoryJob[w] \in Asking /\ Unrivalled(categoryJob[w])
  BY AskedIsAsked DEF Category!SaveNew, RequestOps
<1> DEFINE n == categoryJob[w].asked
<1>2. /\ n \in Category!Names /\ n.spelling = Title
      /\ \A c \in cats : c.name.key = n.key => c.name = n
  BY <1>1 DEF Asking, Unrivalled, Category!SaveNew
<1>3. CASE Category!Taken(n)
  <2>1. UNCHANGED <<cats, lastId, filed>>
    BY <1>3 DEF Category!SaveNew
  <2>2. QED
    BY <2>1, OnlyTheJob, IdleFits DEF Category!SaveNew, Category!End, Category!NameIsNew
<1>4. CASE ~Category!Taken(n)
  <2>1. /\ RowTypes' /\ RowsAdded /\ RowsStay
        /\ \A c \in cats' \ cats : c.name = n
    BY <1>2, <1>4, RowIsNew DEF Category!SaveNew
  <2>2. CategoryInv'
    BY <2>1, RequestMoves, IdleFits DEF Category!SaveNew, Category!End, Category!Continue
  <2>3. \A d \in cats : d.name.key # n.key
    BY <1>2, <1>4 DEF Category!Taken
  <2>4. Category!NameIsNew
    BY <2>1, <2>3 DEF Category!NameIsNew, Category!KeysOf
  <2>5. QED
    BY <2>2, <2>4
<1>5. QED
  BY <1>3, <1>4

LEMMA SaveRenamedKeeps ==
    ASSUME CategoryInv, NEW w \in Workers, Category!SaveRenamed(w)
    PROVE  CategoryInv' /\ Category!NameIsNew
<1>1. categoryJob[w] \in Asking /\ Unrivalled(categoryJob[w])
  BY AskedIsAsked DEF Category!SaveRenamed, RequestOps
<1> DEFINE n == categoryJob[w].asked
           old == categoryJob[w].cat
           new == [old EXCEPT !.name = n]
           others == {c \in cats : c.id # old.id}
           J == [categoryJob EXCEPT ![w] = Category!Idle]
<1>2. /\ n \in Category!Names /\ n.spelling = Title
      /\ old \in Category!CategoryRows /\ old.id <= lastId
      /\ \A c \in others : c.name.key = n.key => c.name = n
  BY <1>1 DEF Asking, Unrivalled, Category!SaveRenamed
<1>3. new \in Category!CategoryRows /\ new.id = old.id /\ new.name = n
  BY <1>2 DEF Category!CategoryRows
<1>4. ASSUME UNCHANGED cats PROVE RowTypes' /\ RowsAdded /\ Category!NameIsNew
  <2>1. RowTypes' /\ RowsAdded
    BY <1>4, RowsSame DEF Category!SaveRenamed
  <2>2. QED
    BY <1>4, <2>1 DEF Category!NameIsNew
<1>5. ASSUME \A c \in others : c.name # n, cats' = others \cup {new}
      PROVE  RowTypes' /\ RowsAdded /\ Category!NameIsNew
  <2> HIDE DEF new
  <2>1. RowTypes' /\ RowsAdded
    BY <1>2, <1>3, <1>5 DEF CategoryInv, RowTypes, RowsAdded, Category!SaveRenamed
  <2>2. Category!NameIsNew
    BY <1>2, <1>3, <1>5 DEF Category!NameIsNew, Category!KeysOf
  <2>3. QED
    BY <2>1, <2>2
<1>6. J \in [Workers -> CategoryJob] /\ \A v \in Workers : CategoryFits(J[v])
  BY IdleFits DEF CategoryInv
<1>7. RowTypes' /\ RowsAdded /\ Category!NameIsNew
  BY <1>4, <1>5 DEF Category!SaveRenamed
<1> HIDE DEF J
<1>8. categoryJob' = Category!Disturb(J)
  BY DEF Category!SaveRenamed, J
<1>9. QED
  BY <1>6, <1>7, <1>8, RowsMove

LEMMA RemoveKeeps ==
    ASSUME CategoryInv, NEW removed, Category!Remove(removed)
    PROVE  CategoryInv' /\ cats' \subseteq cats
<1>1. RowTypes' /\ RowsAdded /\ cats' \subseteq cats
  BY DEF Category!Remove, Category!Forget, CategoryInv, RowTypes, RowsAdded
<1>2. QED
  BY <1>1, RowsMove DEF Category!Remove, CategoryInv

-----------------------------------------------------------------------------
(* A movement and its category.                                            *)

AnyRequest ==
    [op : RequestOps \cup {"get"}, by : {"agent", "client"}, asked : Category!Names,
     cat : Category!CategoryIds \cup Category!CategoryRows \cup {None}, disturbed : BOOLEAN]

LEMMA AskingIsJob ==
    ASSUME NEW k \in Asking PROVE k \in CategoryJob /\ k \notin Deduping \cup Moving
BY JobKinds DEF CategoryJob, RequestOps

LEMMA RowsHaveIds == ASSUME CategoryInv, NEW c \in cats PROVE c.id \in Category!CategoryIds
BY DEF CategoryInv, RowTypes, Category!CategoryRows

LEMMA GetKeeps ==
    ASSUME CategoryInv, NEW w \in Workers, NEW by \in {"agent", "client"}, NEW name \in Asked,
           Category!Get(w, by, name)
    PROVE  CategoryInv'
<1> DEFINE n == Category!Normalize(name)
           found == {c \in cats : c.name.key = n.key}
           r == Category!Pending("get", by, n)
<1>1. n \in Category!Names /\ n.spelling = Title
  BY NormalName
<1> HIDE DEF n
<1>2. r \in AnyRequest /\ r.by = by /\ r.asked = n /\ r.disturbed = FALSE
  BY <1>1 DEF AnyRequest, Category!Pending
<1> HIDE DEF r
<1>3. PICK k : /\ Category!Continue(w, k)
               /\ \/ found = {} /\ k = [r EXCEPT !.op = "insert"]
                  \/ found # {} /\ k = [r EXCEPT !.op = "fallback"]
                  \/ /\ found # {}
                     /\ k = [r EXCEPT !.op = "found", !.cat = (CHOOSE c \in found : TRUE).id]
  BY DEF Category!Get, Category!Alike, n, r
<1>4. found # {} => (CHOOSE c \in found : TRUE) \in found
  OBVIOUS
<1>5. found # {} => (CHOOSE c \in found : TRUE).id \in Category!CategoryIds
  BY <1>4, RowsHaveIds
<1>6. /\ k \in Asking /\ k.asked = n
      /\ \/ found = {} /\ k.op = "insert"
         \/ found # {} /\ k.op \in {"fallback", "found"}
  BY <1>2, <1>3, <1>5 DEF RequestOps, AnyRequest, Asking
<1>7. Unrivalled(k) /\ StillFound(k)
  BY <1>1, <1>6 DEF Unrivalled, StillFound
<1>8. QED
  BY <1>3, <1>6, <1>7, AskingIsJob, OnlyTheJob DEF CategoryFits, Category!Get

LEMMA InsertKeeps ==
    ASSUME CategoryInv, NEW w \in Workers, Category!Insert(w)
    PROVE  CategoryInv' /\ Category!NameIsNew
<1> DEFINE j == categoryJob[w]
<1>1. j \in Asking /\ Unrivalled(j) /\ j.op = "insert"
  BY AskedIsAsked DEF Category!Insert, RequestOps
<1> DEFINE n == j.asked
<1>2. /\ n \in Category!Names /\ n.spelling = Title
      /\ \A c \in cats : c.name.key = n.key => c.name = n
  BY <1>1 DEF Asking, Unrivalled
<1>3. CASE Category!Taken(n)
  <2> DEFINE k == [j EXCEPT !.op = "fallback"]
  <2>1. UNCHANGED <<cats, lastId, filed>> /\ Category!Continue(w, k)
    BY <1>3 DEF Category!Insert
  <2>2. k \in Asking /\ k.op = "fallback" /\ k.asked = n
    BY <1>1 DEF Asking, RequestOps
  <2> HIDE DEF k
  <2>3. Unrivalled(k) /\ StillFound(k)
    BY <1>2, <1>3, <2>2 DEF Unrivalled, StillFound, Category!Taken
  <2>4. QED
    BY <2>1, <2>2, <2>3, AskingIsJob, OnlyTheJob DEF CategoryFits, Category!NameIsNew
<1>4. CASE ~Category!Taken(n)
  <2>1. /\ RowTypes' /\ RowsAdded /\ RowsStay
        /\ \A c \in cats' \ cats : c.name = n
        /\ \E c \in cats' : c.name = n
        /\ lastId + 1 \in Category!CategoryIds
        /\ Category!Continue(w, [j EXCEPT !.op = "found", !.cat = lastId + 1])
    BY <1>2, <1>4, RowIsNew DEF Category!Insert
  <2> DEFINE after == [j EXCEPT !.op = "found", !.cat = lastId + 1]
  <2>2. after \in Asking /\ after.op = "found" /\ after.asked = n
    BY <1>1, <2>1 DEF Asking, RequestOps
  <2> HIDE DEF after
  <2>3. PICK k \in Asking : Category!Continue(w, k) /\ k.op = "found" /\ k.asked = n
    BY <2>1, <2>2 DEF after
  <2>4. Unrivalled(k)' /\ StillFound(k)'
    BY <1>2, <2>1, <2>3 DEF Unrivalled, StillFound
  <2>5. CategoryInv'
    BY <2>1, <2>3, <2>4, AskingIsJob, RequestMoves DEF CategoryFits, Category!Continue
  <2>6. \A d \in cats : d.name.key # n.key
    BY <1>2, <1>4 DEF Category!Taken
  <2>7. QED
    BY <2>1, <2>5, <2>6 DEF Category!NameIsNew, Category!KeysOf
<1>5. QED
  BY <1>3, <1>4

LEMMA FallbackKeeps ==
    ASSUME CategoryInv, NEW w \in Workers, Category!Fallback(w)
    PROVE  CategoryInv' /\ Category!NameIsNew
<1> DEFINE j == categoryJob[w]
           otros == Category!Name(Otros, Title)
           next == IF j.op = "fallback" THEN "found" ELSE "save"
<1>1. j \in Asking /\ Unrivalled(j) /\ StillFound(j) /\ j.op \in {"fallback", "otros"}
  BY AskedIsAsked DEF Category!Fallback, RequestOps
<1>2. otros \in Category!Names /\ otros.spelling = Title /\ otros.key = Otros
  BY CategoryConstants DEF Category!Name, Category!Names
<1>3. \A c \in cats : c.name.key = Otros => c.name = otros
  BY CategoryConstants
     DEF CategoryInv, RowTypes, Category!CategoryRows, Category!Names, Category!Name
<1> HIDE DEF otros
<1>4. PICK id : /\ Category!Continue(w, [j EXCEPT !.op = next, !.cat = id])
                /\ id \in Category!CategoryIds
                /\ RowTypes' /\ RowsAdded /\ RowsStay
                /\ Category!NameIsNew
  <2>1. CASE Category!Taken(otros)
    <3>1. (CHOOSE c \in cats : c.name = otros) \in cats
      BY <2>1 DEF Category!Taken
    <3>2. UNCHANGED <<cats, lastId, filed>>
      BY <2>1 DEF Category!Fallback, otros
    <3>3. QED
      BY <2>1, <3>1, <3>2, RowsSame, RowsHaveIds DEF Category!Fallback, Category!NameIsNew, otros
  <2>2. CASE ~Category!Taken(otros)
    <3>1. /\ RowTypes' /\ RowsAdded /\ RowsStay /\ \A c \in cats' \ cats : c.name = otros
          /\ lastId + 1 \in Category!CategoryIds
      BY <1>2, <2>2, RowIsNew DEF Category!Fallback, otros
    <3>2. \A d \in cats : d.name.key # otros.key
      BY <1>2, <1>3, <2>2 DEF Category!Taken
    <3>3. Category!NameIsNew
      BY <3>1, <3>2 DEF Category!NameIsNew, Category!KeysOf
    <3>4. QED
      BY <2>2, <3>1, <3>3 DEF Category!Fallback, otros
  <2>3. QED
    BY <2>1, <2>2
<1>5. next \in RequestOps
  BY DEF RequestOps
<1> DEFINE after == [j EXCEPT !.op = next, !.cat = id]
<1>6. /\ after \in Asking /\ after.op = next
      /\ after.asked = j.asked /\ after.by = j.by /\ after.disturbed = j.disturbed
  BY <1>1, <1>4, <1>5 DEF Asking
<1> HIDE DEF after
<1>7. PICK k \in Asking :
        /\ Category!Continue(w, k) /\ k.op = next
        /\ k.asked = j.asked /\ k.by = j.by /\ k.disturbed = j.disturbed
  BY <1>4, <1>6 DEF after
<1>8. Unrivalled(k)'
  BY <1>1, <1>7 DEF Unrivalled
<1>9. StillFound(k)'
  BY <1>1, <1>4, <1>7 DEF StillFound, RowsStay
<1>10. QED
  BY <1>4, <1>7, <1>8, <1>9, AskingIsJob, RequestMoves DEF CategoryFits, Category!Continue

LEMMA LookAgainKeeps ==
    ASSUME CategoryInv, NEW w \in Workers, Category!LookAgain(w)
    PROVE  CategoryInv'
<1> DEFINE j == categoryJob[w]
<1>1. j \in Asking /\ Unrivalled(j) /\ StillFound(j) /\ j.op = "found" /\ j.by = "agent"
  BY AskedIsAsked DEF Category!LookAgain, RequestOps
<1>2. UNCHANGED <<cats, lastId, filed>>
  BY DEF Category!LookAgain
<1>3. ASSUME NEW c \in cats, c.name.key = j.asked.key,
             Category!Continue(w, [j EXCEPT !.op = "save", !.cat = c.id])
      PROVE  CategoryInv'
  <2> DEFINE k == [j EXCEPT !.op = "save", !.cat = c.id]
  <2>1. k \in Asking /\ k.op = "save" /\ k.asked = j.asked /\ k.cat = c.id
    BY <1>1, RowsHaveIds DEF Asking, RequestOps
  <2> HIDE DEF k
  <2>2. Unrivalled(k) /\ StillFound(k)
    BY <1>1, <1>3, <2>1 DEF Unrivalled, StillFound
  <2>3. QED
    BY <1>2, <1>3, <2>1, <2>2, AskingIsJob, OnlyTheJob DEF CategoryFits, k
<1>4. ASSUME {c \in cats : c.name.key = j.asked.key} = {},
             Category!Continue(w, [j EXCEPT !.op = "otros"])
      PROVE  CategoryInv'
  <2> DEFINE k == [j EXCEPT !.op = "otros"]
  <2>1. /\ k \in Asking /\ k.op = "otros"
        /\ k.asked = j.asked /\ k.disturbed = j.disturbed
    BY <1>1 DEF Asking, RequestOps
  <2> HIDE DEF k
  <2>2. Unrivalled(k) /\ StillFound(k)
    BY <1>1, <1>4, <2>1 DEF Unrivalled, StillFound
  <2>3. QED
    BY <1>2, <1>4, <2>1, <2>2, AskingIsJob, OnlyTheJob DEF CategoryFits, k
<1>5. QED
  BY <1>3, <1>4 DEF Category!LookAgain, Category!Alike

LEMMA SaveMovementKeeps ==
    ASSUME CategoryInv, NEW w \in Workers, Category!SaveMovement(w)
    PROVE  CategoryInv' /\ cats' = cats
<1>1. RowTypes' /\ RowsAdded /\ RowsStay
  <2>1. CASE UNCHANGED filed
    BY <2>1, RowsSame DEF Category!SaveMovement
  <2>2. ASSUME NEW m \in Movements \ DOMAIN filed,
               filed' = [n \in DOMAIN filed \cup {m} |->
                           IF n = m THEN categoryJob[w].cat ELSE filed[n]]
        PROVE  RowTypes' /\ RowsAdded /\ RowsStay
    <3>1. DOMAIN filed' = DOMAIN filed \cup {m} /\ \A n \in DOMAIN filed : filed'[n] = filed[n]
      BY <2>2
    <3>2. UNCHANGED <<cats, lastId>> /\ RowTypes
      BY DEF Category!SaveMovement, CategoryInv
    <3>3. QED
      BY <3>1, <3>2 DEF RowTypes, RowsAdded, RowsStay
  <2>3. QED
    BY <2>1, <2>2 DEF Category!SaveMovement
<1>2. QED
  BY <1>1, IdleFits, RequestMoves DEF Category!SaveMovement, Category!End, Category!Continue

\* What is filed for the agent is filed under the name it asked for.
LEMMA IsFiledAsAsked == CategoryInv => Category!FiledAsAsked
<1> SUFFICES ASSUME CategoryInv, NEW w \in Workers, Category!SaveMovement(w),
                    categoryJob[w].by = "agent", ~categoryJob[w].disturbed
             PROVE  Category!KeyOf(categoryJob[w].cat) = categoryJob[w].asked.key
  BY DEF Category!FiledAsAsked
<1>1. categoryJob[w].op = "save"
  BY DEF Category!SaveMovement
<1>2. PICK c \in cats : c.id = categoryJob[w].cat /\ c.name.key = categoryJob[w].asked.key
  BY <1>1, AskedIsAsked DEF StillFound, RequestOps
<1>3. \A d \in cats : d.id = categoryJob[w].cat => d = c
  BY <1>2 DEF CategoryInv, RowTypes
<1>4. QED
  BY <1>2, <1>3 DEF Category!KeyOf

-----------------------------------------------------------------------------
(* The maintenance commands.                                               *)

LEMMA FiniteCategories ==
    \A S : /\ Category!Cardinality(S) = Cardinality(S)
           /\ Category!IsFiniteSet(S) <=> IsFiniteSet(S)
BY Zenon DEF Category!Cardinality, Cardinality, Category!IsFiniteSet, IsFiniteSet

LEMMA AssignDefaultsKeeps ==
    ASSUME CategoryInv, Category!AssignDefaults
    PROVE  CategoryInv'
<1> DEFINE missing == Category!Missing
<1>1. missing \subseteq DefaultKeys
  BY DEF Category!Missing
<1>2. Cardinality(missing) \in Nat /\ Category!Cardinality(missing) = Cardinality(missing)
  <2>1. IsFiniteSet(DefaultKeys)
    BY CategoriesAssumed, FiniteCategories DEF Category!CategoriesAssumption
  <2> HIDE DEF missing
  <2>2. QED
    BY <1>1, <2>1, FiniteCategories, FS_Subset, FS_CardinalityType
<1> HIDE DEF missing
<1>3. CASE UNCHANGED <<cats, lastId>>
  <2>1. UNCHANGED <<cats, lastId, filed, categoryJob>>
    BY <1>3 DEF Category!AssignDefaults
  <2>2. QED
    BY <2>1, RowsSame, TheJobFits DEF CategoryInv
<1>4. CASE ~UNCHANGED <<cats, lastId>>
  <2>1. PICK number \in [missing -> lastId + 1..lastId + Cardinality(missing)] :
          /\ \A j, k \in missing : number[j] = number[k] => j = k
          /\ cats' = cats \cup {[id |-> number[k], name |-> [key |-> k, spelling |-> Title],
                                 default |-> TRUE] : k \in missing}
          /\ lastId' = lastId + Cardinality(missing) /\ lastId' <= MaxCategory
          /\ UNCHANGED <<filed, categoryJob>>
    BY <1>2, <1>4 DEF Category!AssignDefaults, Category!Category, Category!Name, missing
  <2>2. lastId \in 0..MaxCategory /\ \A c \in cats : c.id <= lastId /\ c.id \in Nat
    BY DEF CategoryInv, RowTypes, Category!CategoryRows, Category!CategoryIds
  <2>3. lastId' \in 0..MaxCategory /\ lastId <= lastId'
    BY <1>2, <2>1, <2>2, CategoryConstants
  <2>4. \A k \in missing : number[k] \in 1..MaxCategory /\ number[k] > lastId /\ number[k] <= lastId'
    BY <1>2, <2>1, <2>2, <2>3, CategoryConstants
  <2>5. ASSUME NEW c \in cats'
        PROVE  \/ c \in cats
               \/ \E k \in missing :
                    /\ c.id = number[k] /\ c.name.key = k /\ c.name.spelling = Title
                    /\ c = [id |-> number[k], name |-> [key |-> k, spelling |-> Title],
                            default |-> TRUE]
    BY <2>1
  <2>6. cats' \subseteq Category!CategoryRows
    <3>1. cats \subseteq Category!CategoryRows
      BY DEF CategoryInv, RowTypes
    <3>2. \A k \in missing : [id |-> number[k], name |-> [key |-> k, spelling |-> Title],
                              default |-> TRUE] \in Category!CategoryRows
      BY <1>1, <2>4, CategoryConstants
         DEF Category!CategoryRows, Category!CategoryIds, Category!Names
    <3>3. QED
      BY <2>1, <3>1, <3>2
  <2>7. \A c \in cats' : c.id <= lastId'
    BY <2>2, <2>3, <2>4, <2>5, CategoryConstants
  <2>8. \A c, d \in cats' : c.id = d.id => c = d
    <3> SUFFICES ASSUME NEW c \in cats', NEW d \in cats', c.id = d.id PROVE c = d
      OBVIOUS
    <3>1. CASE c \in cats /\ d \in cats
      BY <3>1 DEF CategoryInv, RowTypes
    <3>2. CASE c \notin cats /\ d \notin cats
      <4>1. PICK k \in missing :
                c = [id |-> number[k], name |-> [key |-> k, spelling |-> Title],
                     default |-> TRUE]
        BY <2>5, <3>2
      <4>2. PICK l \in missing :
                d = [id |-> number[l], name |-> [key |-> l, spelling |-> Title],
                     default |-> TRUE]
        BY <2>5, <3>2
      <4>3. k = l
        BY <2>1, <4>1, <4>2
      <4>4. QED
        BY <4>1, <4>2, <4>3
    <3>3. ASSUME NEW x \in cats, NEW k \in missing, number[k] = x.id PROVE FALSE
      BY <2>2, <2>4, <3>3
    <3>4. QED
      BY <2>5, <3>1, <3>2, <3>3
  <2>9. RowTypes' /\ RowsAdded /\ RowsStay
    BY <2>1, <2>3, <2>5, <2>6, <2>7, <2>8 DEF CategoryInv, RowTypes, RowsAdded, RowsStay
  <2>10. QED
    BY <2>1, <2>9, TheJobFits DEF CategoryInv
<1>5. QED
  BY <1>3, <1>4

\* Of the rows of a name the command keeps a predefined one, if there is one.
LEMMA KeepIsBest ==
    ASSUME CategoryInv, NEW key, \E c \in cats : c.name.key = key
    PROVE  /\ Category!Keep(key) \in cats /\ Category!Keep(key).name.key = key
           /\ \A d \in cats : d.name.key = key /\ d.default => Category!Keep(key).default
<1> DEFINE group == {c \in cats : c.name.key = key}
           standard == {c \in group : c.default}
           pool == IF standard # {} THEN standard ELSE group
           ids == {c.id : c \in pool}
<1>1. pool # {} /\ pool \subseteq group
  OBVIOUS
<1>2. \A c \in group : c.id \in Nat /\ c.default \in BOOLEAN
  BY DEF CategoryInv, RowTypes, Category!CategoryRows, Category!CategoryIds
<1>3. \A c, d \in group : c.id = d.id => c = d
  BY DEF CategoryInv, RowTypes
<1>4. \A c \in group : c \in pool \/ (standard # {} /\ ~c.default)
  BY <1>2
<1>5. \A c, d \in pool : c.default = d.default
  BY <1>2
<1>6. standard # {} => \A c \in pool : c.default
  OBVIOUS
<1> HIDE DEF pool, group, standard
<1>7. PICK i \in ids : \A n \in ids : i <= n
  <2>1. ids \subseteq Nat /\ ids # {}
    BY <1>1, <1>2
  <2> HIDE DEF ids
  <2>2. PICK i \in ids : \A n \in ids : ~ (<<n, i>> \in OpToRel(<, Nat))
    BY Zenon, <2>1, NatLessThanWellFounded, WFMin
  <2>3. \A n \in ids : ~ (n < i)
    BY Zenon, <2>1, <2>2 DEF OpToRel
  <2>4. QED
    BY <2>1, <2>3
<1>8. PICK c \in pool : c.id = i
  BY <1>7
<1>9. ASSUME NEW d \in group \ {c} PROVE Category!Better(c, d)
  <2>1. CASE d \in pool
    <3>1. c.id <= d.id /\ c.id # d.id
      BY <1>1, <1>3, <1>7, <1>8, <2>1
    <3>2. c.id \in Nat /\ d.id \in Nat /\ c.default = d.default
      BY <1>1, <1>2, <1>5, <2>1
    <3>3. QED
      BY <3>1, <3>2 DEF Category!Better
  <2>2. CASE d \notin pool
    BY <1>4, <1>6, <2>2 DEF Category!Better
  <2>3. QED
    BY <2>1, <2>2
<1>10. Category!Keep(key) = CHOOSE x \in group : \A d \in group \ {x} : Category!Better(x, d)
  BY DEF Category!Keep, group
<1>11. /\ Category!Keep(key) \in group
       /\ \A d \in group \ {Category!Keep(key)} : Category!Better(Category!Keep(key), d)
  BY <1>1, <1>9, <1>10
<1>12. QED
  BY <1>2, <1>11 DEF Category!Better, group

LEMMA FindDuplicatesKeeps ==
    ASSUME CategoryInv, NEW w \in Workers, Category!FindDuplicates(w)
    PROVE  CategoryInv'
<1> DEFINE keys == {k \in Keys : Category!Cardinality({c \in cats : c.name.key = k}) > 1}
           keep == [k \in keys |-> Category!Keep(k)]
           remove == {c \in cats : c.name.key \in keys /\ c # Category!Keep(c.name.key)}
           k == [op |-> "dedupe", disturbed |-> FALSE, keep |-> keep, remove |-> remove]
<1>1. \A x \in keys : \E c \in cats : c.name.key = x
  <2> SUFFICES ASSUME NEW x \in keys, {c \in cats : c.name.key = x} = {} PROVE FALSE
    OBVIOUS
  <2>1. Category!Cardinality({}) = 0
    BY FiniteCategories, FS_EmptySet
  <2>2. QED
    BY <2>1
<1>2. UNCHANGED <<cats, lastId, filed>> /\ Category!Continue(w, k)
  BY DEF Category!FindDuplicates
<1>3. keys \subseteq Keys
  OBVIOUS
<1> HIDE DEF keys
<1>4. cats \subseteq Category!CategoryRows
  BY DEF CategoryInv, RowTypes
<1>5. \A x \in keys : /\ keep[x] \in cats /\ keep[x].name.key = x /\ keep[x] \notin remove
                     /\ \A d \in cats : d.name.key = x /\ d.default => keep[x].default
  BY <1>1, KeepIsBest
<1>6. keep \in [keys -> Category!CategoryRows] /\ DOMAIN keep = keys
  BY <1>4, <1>5
<1>7. keep \in Kept
  BY <1>3, <1>6 DEF Kept
<1>8. /\ remove \subseteq cats
      /\ \A c \in remove : c.name.key \in keys
  OBVIOUS
<1> HIDE DEF keep, remove
<1>9. k \in Deduping
  BY <1>4, <1>7, <1>8 DEF Deduping
<1>10. StillDouble(k)
  BY <1>5, <1>6, <1>8 DEF StillDouble
<1> HIDE DEF k
<1>11. k \in CategoryJob /\ k \notin Asking
  BY <1>9, JobKinds DEF CategoryJob, RequestOps
<1>12. QED
  BY <1>2, <1>10, <1>11, OnlyTheJob DEF CategoryFits

LEMMA CleaningCleans ==
    ASSUME CategoryInv, NEW w \in Workers, categoryJob[w].op \in {"dedupe", "moved"}
    PROVE  /\ categoryJob[w].op = "dedupe" => categoryJob[w] \in Deduping
           /\ categoryJob[w].op = "moved" => categoryJob[w] \in Moving
           /\ StillDouble(categoryJob[w])
BY JobKinds DEF CategoryInv, CategoryFits, CategoryJob, RequestOps

LEMMA MoveReferencesKeeps ==
    ASSUME CategoryInv, NEW w \in Workers, Category!MoveReferences(w)
    PROVE  CategoryInv'
<1> DEFINE j == categoryJob[w]
           moved == {m \in DOMAIN filed : filed[m] \in {c.id : c \in j.remove}}
           k == [op |-> "moved", disturbed |-> j.disturbed, keep |-> j.keep,
                 remove |-> j.remove, moved |-> moved]
<1>1. j \in Deduping /\ StillDouble(j)
  BY CleaningCleans DEF Category!MoveReferences
<1>2. UNCHANGED <<cats, lastId, filed>> /\ Category!Continue(w, k)
  BY DEF Category!MoveReferences
<1>3. moved \subseteq Movements
  BY DEF CategoryInv, RowTypes
<1>4. k \in Moving
  BY <1>1, <1>3 DEF Moving, Deduping
<1>5. StillDouble(k)
  BY <1>1 DEF StillDouble
<1> HIDE DEF k
<1>6. k \in CategoryJob /\ k \notin Asking
  BY <1>4, JobKinds DEF CategoryJob, RequestOps
<1>7. QED
  BY <1>2, <1>5, <1>6, OnlyTheJob DEF CategoryFits

LEMMA RemoveDuplicatesKeeps ==
    ASSUME CategoryInv, NEW w \in Workers, Category!RemoveDuplicates(w)
    PROVE  CategoryInv' /\ cats' \subseteq cats
<1> DEFINE J == [categoryJob EXCEPT ![w] = Category!Idle]
<1>1. cats' \subseteq cats /\ lastId' = lastId /\ DOMAIN filed' = DOMAIN filed
  BY DEF Category!RemoveDuplicates
<1>2. RowTypes' /\ RowsAdded
  BY <1>1 DEF CategoryInv, RowTypes, RowsAdded
<1>3. J \in [Workers -> CategoryJob] /\ \A v \in Workers : CategoryFits(J[v])
  BY IdleFits DEF CategoryInv
<1> HIDE DEF J
<1>4. categoryJob' = Category!Disturb(J)
  BY DEF Category!RemoveDuplicates, J
<1>5. QED
  BY <1>1, <1>2, <1>3, <1>4, RowsMove

\* Cleaning takes no name away.
LEMMA NamesAreKept == CategoryInv => Category!NamesKept
<1> SUFFICES ASSUME CategoryInv, NEW w \in Workers,
                    Category!RemoveDuplicates(w), ~categoryJob[w].disturbed
             PROVE  /\ Category!KeysOf(cats') = Category!KeysOf(cats)
                    /\ Category!KeysOf({c \in cats' : c.default})
                         = Category!KeysOf({c \in cats : c.default})
                    /\ \A m \in categoryJob[w].moved :
                         Category!KeyOf(filed[m])' = Category!KeyOf(filed[m])
  BY DEF Category!NamesKept
<1> DEFINE j == categoryJob[w]
           ids == {c.id : c \in j.remove}
           left == {c \in cats : c.id \notin ids}
           oldKey(id) == (CHOOSE c \in j.remove : c.id = id).name.key
           new(m) == IF filed[m] \notin ids THEN filed[m]
                     ELSE IF m \in j.moved THEN j.keep[oldKey(filed[m])].id ELSE None
<1>1. /\ j.remove \subseteq cats
      /\ \A c \in j.remove :
           /\ c.name.key \in DOMAIN j.keep /\ j.keep[c.name.key] \in cats \ j.remove
           /\ j.keep[c.name.key].name.key = c.name.key
           /\ c.default => j.keep[c.name.key].default
      /\ \A m \in j.moved : m \in DOMAIN filed /\ \E c \in j.remove : filed[m] = c.id
  BY CleaningCleans DEF StillDouble, Category!RemoveDuplicates
<1>2. \A c, d \in cats : c.id = d.id => c = d
  BY DEF CategoryInv, RowTypes
<1>3. \/ cats' = left /\ filed' = [m \in DOMAIN filed |-> new(m)]
      \/ UNCHANGED <<cats, filed>>
  BY DEF Category!RemoveDuplicates
<1>4. \A c \in cats : c \in j.remove \/ c \in left
  BY <1>1, <1>2
<1>5. \A c \in j.remove : j.keep[c.name.key] \in left
  BY <1>1, <1>2
<1>6. \A c \in cats : Category!KeyOf(c.id) = c.name.key
  <2> SUFFICES ASSUME NEW c \in cats PROVE Category!KeyOf(c.id) = c.name.key
    OBVIOUS
  <2>1. (CHOOSE d \in cats : d.id = c.id) = c
    BY <1>2
  <2>2. QED
    BY <2>1 DEF Category!KeyOf
<1>7. ASSUME NEW id, UNCHANGED cats PROVE Category!KeyOf(id)' = Category!KeyOf(id)
  BY <1>7 DEF Category!KeyOf
<1>8. CASE UNCHANGED <<cats, filed>>
  <2>1. \A m : Category!KeyOf(filed[m])' = Category!KeyOf(filed[m])
    BY <1>8 DEF Category!KeyOf
  <2>2. QED
    BY <1>8, <2>1
<1>9. CASE cats' = left /\ filed' = [m \in DOMAIN filed |-> new(m)]
  <2>1. Category!KeysOf(cats') = Category!KeysOf(cats)
    BY <1>1, <1>4, <1>5, <1>9 DEF Category!KeysOf
  <2>2. Category!KeysOf({c \in cats' : c.default}) = Category!KeysOf({c \in cats : c.default})
    BY <1>1, <1>4, <1>5, <1>9 DEF Category!KeysOf
  <2>3. ASSUME NEW m \in j.moved
        PROVE  Category!KeyOf(filed[m])' = Category!KeyOf(filed[m])
    <3>1. PICK c \in j.remove : filed[m] = c.id
      BY <1>1
    <3>2. (CHOOSE d \in j.remove : d.id = c.id) = c
      BY <1>1, <1>2
    <3>3. oldKey(filed[m]) = c.name.key
      BY <3>1, <3>2
    <3>4. m \in DOMAIN filed /\ filed[m] \in ids
      BY <1>1, <3>1
    <3> DEFINE kept == j.keep[c.name.key]
    <3> HIDE DEF oldKey, left, ids
    <3>5. filed'[m] = kept.id
      BY <1>9, <3>3, <3>4
    <3>6. kept \in cats' /\ kept.name.key = c.name.key
      BY <1>1, <1>5, <1>9
    <3>7. \A d \in cats' : d.id = kept.id => d = kept
      BY <1>2, <1>9, <3>6 DEF left
    <3>8. (CHOOSE d \in cats' : d.id = filed'[m]) = kept
      BY <3>5, <3>6, <3>7
    <3>9. Category!KeyOf(filed[m])' = kept.name.key
      BY <3>8 DEF Category!KeyOf
    <3>10. QED
      BY <1>1, <1>6, <3>1, <3>6, <3>9
  <2>4. QED
    BY <2>1, <2>2, <2>3
<1>10. QED
  BY <1>3, <1>8, <1>9

-----------------------------------------------------------------------------
LEMMA RequestKeeps ==
    ASSUME CategoryInv, NEW w \in Workers, Category!Request(w)
    PROVE  CategoryInv' /\ Category!NameIsNew
<1>1. ASSUME NEW name \in Asked,
             \/ Category!CreateExpenseCategory(w, name) \/ Category!CreateIncomeCategory(w, name)
             \/ Category!ImportExpenseCategory(w, name) \/ Category!ImportIncomeCategory(w, name)
      PROVE  CategoryInv' /\ cats' = cats
  <2>1. Category!Validate(w, name)
    BY <1>1 DEF Category!CreateExpenseCategory, Category!CreateIncomeCategory,
                Category!ImportExpenseCategory, Category!ImportIncomeCategory
  <2>2. QED
    BY <2>1, ValidateKeeps DEF Category!Validate
<1>2. ASSUME NEW name \in Asked, NEW c \in cats,
             \/ Category!RenameExpenseCategory(w, c, name)
             \/ Category!RenameIncomeCategory(w, c, name)
      PROVE  CategoryInv' /\ cats' = cats
  <2>1. Category!ValidateRename(w, c, name)
    BY <1>2 DEF Category!RenameExpenseCategory, Category!RenameIncomeCategory
  <2>2. QED
    BY <2>1, ValidateRenameKeeps DEF Category!ValidateRename
<1>3. ASSUME NEW name \in Asked, NEW by \in {"agent", "client"},
             \/ Category!GetExpenseCategory(w, by, name)
             \/ Category!GetIncomeCategory(w, by, name)
      PROVE  CategoryInv' /\ cats' = cats
  <2>1. Category!Get(w, by, name)
    BY <1>3 DEF Category!GetExpenseCategory, Category!GetIncomeCategory
  <2>2. QED
    BY <2>1, GetKeeps DEF Category!Get
<1>4. ASSUME cats' = cats PROVE Category!NameIsNew
  BY <1>4 DEF Category!NameIsNew
<1>5. CASE Category!SaveNew(w) \/ Category!SaveRenamed(w) \/ Category!Insert(w)
  BY <1>5, SaveNewKeeps, SaveRenamedKeeps, InsertKeeps
<1>6. CASE Category!ExpenseFallback(w) \/ Category!IncomeFallback(w)
  BY <1>6, FallbackKeeps DEF Category!ExpenseFallback, Category!IncomeFallback
<1>7. CASE Category!LookAgain(w) \/ Category!SaveMovement(w)
  BY <1>4, <1>7, LookAgainKeeps, SaveMovementKeeps DEF Category!LookAgain
<1>8. QED
  BY <1>1, <1>2, <1>3, <1>4, <1>5, <1>6, <1>7 DEF Category!Request

LEMMA CategoryNext ==
    ASSUME CategoryInv, [Category!Next]_(Category!vars)
    PROVE  CategoryInv' /\ Category!NameIsNew
<1>1. ASSUME cats' \subseteq cats PROVE Category!NameIsNew
  BY <1>1 DEF Category!NameIsNew
<1>2. CASE UNCHANGED Category!vars
  <2>1. UNCHANGED <<cats, lastId, filed, categoryJob>>
    BY <1>2 DEF Category!vars
  <2>2. QED
    BY <1>1, <2>1, RowsSame, TheJobFits DEF CategoryInv
<1>3. CASE \E w \in Workers : Category!Request(w)
  BY <1>3, RequestKeeps
<1>4. ASSUME NEW w \in Workers, Category!Clean(w) PROVE CategoryInv' /\ cats' \subseteq cats
  BY <1>4, FindDuplicatesKeeps, MoveReferencesKeeps, RemoveDuplicatesKeeps
     DEF Category!Clean, Category!FindDuplicates, Category!MoveReferences
<1>5. CASE \/ \E c \in cats : \/ Category!Destroy(c) \/ Category!DeleteExpenseCategories(c)
                              \/ Category!DeleteIncomeCategories(c)
           \/ Category!ResetExpenseCategories \/ Category!ResetIncomeCategories
  <2>1. \E removed : Category!Remove(removed)
    BY <1>5 DEF Category!Destroy, Category!BulkDelete, Category!DeleteExpenseCategories,
         Category!DeleteIncomeCategories, Category!ResetToDefaults,
         Category!ResetExpenseCategories, Category!ResetIncomeCategories
  <2>2. QED
    BY <1>1, <2>1, RemoveKeeps
<1>6. CASE Category!AssignDefaults
  BY <1>6, AssignDefaultsKeeps DEF Category!NameIsNew
<1>7. QED
  BY <1>1, <1>2, <1>3, <1>4, <1>5, <1>6 DEF Category!Next

\* What overlapping requests know of the categories is still so when they write.
THEOREM CategoryInvariantHolds == ASSUME OneOtros PROVE Category!Spec => []CategoryInv
<1>1. Category!Init => CategoryInv
  BY CategoryInit
<1>2. CategoryInv /\ [Category!Next]_(Category!vars) => CategoryInv'
  BY CategoryNext
<1>3. QED
  BY <1>1, <1>2, PTL DEF Category!Spec

\* A behaviour of Records about categories is one of Categories.
AboutCategories == focus = "category"

LEMMA CategorySteps ==
    [ReportStep \/ BalanceStep \/ MailStep \/ CategoryStep]_allVars =>
      /\ AboutCategories => AboutCategories' /\ [Category!Next]_(Category!vars)
      /\ ~AboutCategories => ~AboutCategories'
BY DEF AboutCategories, ReportStep, BalanceStep, MailStep, CategoryStep, allVars, categoryVars,
       Category!vars

\* However requests overlap, for any tables in which "Otros" is spelled one way: no
\* second category of a name comes about but by the command that assigns the predefined
\* ones, what the agent records goes under the name it asked for unless a category went
\* meanwhile, and cleaning duplicates takes no name from the user or from a movement.
THEOREM CategoriesKept == ASSUME OneOtros PROVE RecordsSpec => CategoriesHold
<1> DEFINE Held == Category!NameIsNew /\ Category!FiledAsAsked /\ Category!NamesKept
<1>1. CategoryInv /\ [Category!Next]_(Category!vars) => [AboutCategories => Held]_categoryVars
  BY CategoryNext, IsFiledAsAsked, NamesAreKept
<1>2. ~AboutCategories => [AboutCategories => Held]_categoryVars
  OBVIOUS
<1>3. RecordsInit /\ AboutCategories => Category!Init
  BY DEF RecordsInit, AboutCategories
<1>4. QED
  BY <1>1, <1>2, <1>3, CategorySteps, CategoryInvariantHolds, PTL
     DEF RecordsSpec, CategoriesHold, Category!Spec, AboutCategories

-----------------------------------------------------------------------------
(* The balance: days and sums.                                             *)

LEMMA BalanceConstants ==
    /\ HoursPerDay \in Nat \ {0} /\ Offset \in Int /\ MonthStarts \subseteq Int /\ NoDate \notin Int
    /\ DOMAIN BalanceAmount \subseteq Nat
    /\ \A i \in DOMAIN BalanceAmount : BalanceAmount[i] \in Nat
    /\ CARRY_OVER_DAYS \in Nat /\ Backdates \subseteq Nat
    /\ BalanceFirst \in Int /\ BalanceLast \in Int /\ BalanceFirst <= BalanceLast
    /\ \E first \in MonthStarts : first <= Balance!LocalDay(BalanceFirst)
BY CalendarAssumption, BalanceAssumed DEF Balance!BalanceAssumption

\* A day is reached with its first instant.
LEMMA Quotients ==
    ASSUME NEW h \in Nat \ {0}, NEW x \in Int, NEW d \in Int
    PROVE  x \div h \in Int /\ (x \div h >= d <=> x >= d * h)
<1> DEFINE q == x \div h
           r == x % h
<1>1. q \in Int /\ r \in 0..(h - 1) /\ x = h * q + r
  OBVIOUS
<1> HIDE DEF q, r
<1>2. CASE q >= d
  <2>1. PICK n \in Nat : q = d + n
    <3>1. q - d \in Nat /\ q = d + (q - d)
      BY <1>1, <1>2
    <3>2. QED
      BY <3>1
  <2>2. h * q = d * h + h * n /\ h * n >= 0
    BY <2>1
  <2>3. h * q \in Int /\ d * h \in Int /\ h * n \in Int
    BY <1>1, <2>1
  <2>4. x >= d * h
    BY <1>1, <2>2, <2>3
  <2>5. QED
    BY <1>1, <1>2, <2>4 DEF q
<1>3. CASE q < d
  <2>1. PICK n \in Nat : d = q + 1 + n
    <3>1. d - q - 1 \in Nat /\ d = q + 1 + (d - q - 1)
      BY <1>1, <1>3
    <3>2. QED
      BY <3>1
  <2>2. d * h = h * q + h + h * n /\ h * n >= 0
    BY <1>1, <2>1
  <2>3. h * q \in Int /\ d * h \in Int /\ h * n \in Int
    BY <1>1, <2>1
  <2>4. ~(x >= d * h)
    BY <1>1, <2>2, <2>3
  <2>5. QED
    BY <1>1, <1>3, <2>4 DEF q
<1>4. QED
  BY <1>1, <1>2, <1>3

LEMMA DayReached ==
    ASSUME NEW ts \in Int, NEW d \in Int
    PROVE  /\ Balance!LocalDay(ts) \in Int
           /\ Balance!LocalDay(ts) >= d <=> ts >= Balance!DayStart(d)
<1>1. ts + Offset \in Int
  BY BalanceConstants
<1>2. /\ (ts + Offset) \div HoursPerDay \in Int
      /\ (ts + Offset) \div HoursPerDay >= d <=> ts + Offset >= d * HoursPerDay
  BY <1>1, BalanceConstants, Quotients
<1>3. d * HoursPerDay \in Int
  BY BalanceConstants
<1>4. QED
  BY <1>2, <1>3, BalanceConstants DEF Balance!LocalDay, Balance!DayStart

\* Later instants are on the same day or on a later one.
LEMMA DaysFollow ==
    ASSUME NEW s \in Int, NEW t \in Int, s <= t
    PROVE  Balance!LocalDay(s) <= Balance!LocalDay(t)
<1> DEFINE d == Balance!LocalDay(s)
<1>1. d \in Int /\ Balance!LocalDay(t) \in Int
  BY DayReached
<1>2. Balance!DayStart(d) \in Int
  BY <1>1, BalanceConstants DEF Balance!DayStart
<1> HIDE DEF d
<1>3. s >= Balance!DayStart(d)
  <2>1. Balance!LocalDay(s) >= d
    BY <1>1 DEF d
  <2>2. QED
    BY <1>1, <2>1, DayReached
<1>4. t >= Balance!DayStart(d)
  BY <1>2, <1>3
<1>5. Balance!LocalDay(t) >= d
  BY <1>1, <1>4, DayReached
<1>6. QED
  BY <1>1, <1>5 DEF d

\* The month that a day is in has begun.
LEMMA MonthHasBegun ==
    ASSUME NEW day \in Int, NEW first \in MonthStarts, first <= day
    PROVE  Balance!MonthStart(day) \in MonthStarts /\ Balance!MonthStart(day) <= day
<1> DEFINE begun == {s \in MonthStarts : s <= day}
           ago == {day - s : s \in begun}
<1>1. begun \subseteq Int /\ ago \subseteq Nat /\ ago # {}
  <2>1. begun \subseteq Int /\ \A s \in begun : day - s \in Nat
    <3>1. begun \subseteq Int /\ \A s \in begun : s <= day
      BY BalanceConstants
    <3> HIDE DEF begun
    <3>2. \A s \in Int : s <= day => day - s \in Nat
      OBVIOUS
    <3>3. QED
      BY <3>1, <3>2
  <2>2. day - first \in ago
    OBVIOUS
  <2> HIDE DEF begun
  <2>3. QED
    BY <2>1, <2>2
<1> HIDE DEF ago
<1>2. PICK n \in ago : \A m \in ago : ~ (<<m, n>> \in OpToRel(<, Nat))
  BY Zenon, <1>1, NatLessThanWellFounded, WFMin
<1>3. \A m \in ago : ~ (m < n)
  BY Zenon, <1>1, <1>2 DEF OpToRel
<1>4. PICK s \in begun : n = day - s
  BY DEF ago
<1>5. \A t \in begun : day - t \in ago
  BY DEF ago
<1> HIDE DEF begun
<1>6. \A t \in begun : s >= t
  <2> TAKE t \in begun
  <2>1. ~ (day - t < day - s) /\ t \in Int /\ s \in Int
    BY <1>1, <1>3, <1>4, <1>5
  <2>2. QED
    BY <2>1
<1>7. Balance!Max(begun) \in begun
  BY <1>6, Zenon DEF Balance!Max
<1>8. QED
  BY <1>7 DEF Balance!MonthStart, Balance!Begun, begun

\* The sums of the balance are those of the library.
LEMMA BalanceTotal ==
    ASSUME NEW S PROVE Balance!Total(S) = SumFunctionOnSet([r \in S |-> r.amount], S)
<1>1. DOMAIN [r \in S |-> r.amount] = S
  OBVIOUS
<1> DEFINE f == [r \in S |-> r.amount]
<1> HIDE DEF f
<1>2. Balance!SumFunction(f) = SumFunctionOnSet(f, DOMAIN f)
  BY DEF Balance!SumFunction, Balance!SumFunctionOnSet, Balance!FoldFunctionOnSet,
         Balance!MapThenFoldSet, SumFunctionOnSet, FoldFunctionOnSet, MapThenFoldSet
<1>3. QED
  BY <1>1, <1>2 DEF Balance!Total, f

LEMMA TotalIsInt ==
    ASSUME NEW S, IsFiniteSet(S), \A r \in S : r.amount \in Nat
    PROVE  Balance!Total(S) \in Int
<1> DEFINE f == [r \in S |-> r.amount]
<1>1. \A r \in S : f[r] \in Int
  OBVIOUS
<1> HIDE DEF f
<1>2. SumFunctionOnSet(f, S) \in Int
  BY <1>1, SumTakesOut
<1>3. QED
  BY <1>2, BalanceTotal DEF f

LEMMA TotalOfNone == Balance!Total({}) = 0
<1> DEFINE f == [r \in {} |-> r.amount]
<1>1. IsFiniteSet({}) /\ \A r \in {} : f[r] \in Int
  BY FS_EmptySet
<1> HIDE DEF f
<1>2. SumFunctionOnSet(f, {}) = 0
  BY <1>1, SumTakesOut
<1>3. QED
  BY <1>2, BalanceTotal DEF f

LEMMA TotalWith ==
    ASSUME NEW S, IsFiniteSet(S), NEW x, x \notin S, \A r \in S \cup {x} : r.amount \in Nat
    PROVE  Balance!Total(S \cup {x}) = x.amount + Balance!Total(S)
<1> DEFINE f == [r \in S |-> r.amount]
           g == [r \in S \cup {x} |-> r.amount]
<1>1. \A r \in S : f[r] \in Int /\ f[r] = g[r]
  OBVIOUS
<1>2. \A r \in S \cup {x} : g[r] \in Int
  OBVIOUS
<1>3. g[x] = x.amount
  OBVIOUS
<1>4. Balance!Total(S) = SumFunctionOnSet(f, S)
  BY BalanceTotal
<1>5. Balance!Total(S \cup {x}) = SumFunctionOnSet(g, S \cup {x})
  BY BalanceTotal
<1> HIDE DEF f, g
<1>6. SumFunctionOnSet(f, S) = SumFunctionOnSet(g, S)
  BY <1>1, SumOfSame
<1>7. SumFunctionOnSet(g, S \cup {x}) = g[x] + SumFunctionOnSet(g, S)
  BY <1>2, SumWith
<1>8. QED
  BY <1>3, <1>4, <1>5, <1>6, <1>7

LEMMA TotalWithout ==
    ASSUME NEW S, IsFiniteSet(S), NEW x \in S, \A r \in S : r.amount \in Nat
    PROVE  Balance!Total(S) = x.amount + Balance!Total(S \ {x})
<1>1. IsFiniteSet(S \ {x}) /\ (S \ {x}) \cup {x} = S
  BY FS_Subset
<1>2. QED
  BY <1>1, TotalWith

-----------------------------------------------------------------------------
(* The balance: the inductive invariant.                                   *)

BalanceRow ==
    [id : DOMAIN BalanceAmount, kind : Balance!Kinds, amount : Nat,
     currency : BalanceCurrencies, date : Int \cup {NoDate}, ts : Int]
Purse == [known : BOOLEAN, anchor : Nat, since : Int, money : Int]

\* What came into the wallet and went out of it after the last declaration.
CountsIn(r, w, c) ==
    r.currency = c /\ r.id > w.anchor /\ Balance!EffectiveDate(r) >= w.since
EarnedSince(moves, w, c) == {r \in moves : CountsIn(r, w, c) /\ r.kind # "expense"}
SpentSince(moves, w, c) == {r \in moves : CountsIn(r, w, c) /\ r.kind = "expense"}

\* The declaration the wallet starts from is the last one of its currency.
IsTheAnchor(a, moves, w, c) ==
    /\ a.kind = "initial" /\ a.currency = c /\ a.id = w.anchor /\ a.date = w.since
    /\ \A r \in moves : (r.kind = "initial" /\ r.currency = c) => r.id <= a.id
IsCounted(moves, w, c) ==
    w.known =>
      \E a \in moves :
        /\ IsTheAnchor(a, moves, w, c)
        /\ w.money = a.amount + Balance!Total(EarnedSince(moves, w, c))
                        - Balance!Total(SpentSince(moves, w, c))

\* Movements are numbered as time passes, and none is dated later than recorded.
RowsFit(moves, time) ==
    /\ \A r, s \in moves :
         /\ (r.id = s.id) => (r = s)
         /\ (r.id < s.id) => (r.ts <= s.ts)
    /\ \A r \in moves :
         /\ r.ts <= time
         /\ (r.date # NoDate) => (r.date <= Balance!LocalDay(r.ts))
         /\ (r.kind = "initial") => (r.date = Balance!LocalDay(r.ts))

BalanceHolds(moves, latest, time, purses) ==
    /\ moves \in SUBSET BalanceRow /\ IsFiniteSet(moves)
    /\ \A r \in moves : r.id <= latest
    /\ latest \in DOMAIN BalanceAmount \cup {0} /\ time \in BalanceFirst..BalanceLast
    /\ purses \in [BalanceCurrencies -> Purse]
    /\ RowsFit(moves, time)
    /\ \A c \in BalanceCurrencies : IsCounted(moves, purses[c], c)
BalanceInv == BalanceHolds(movements, last, hour, wallet)

LEMMA BalanceTypes == BalanceInv => Balance!TypeOK
BY DEF BalanceInv, BalanceHolds, Balance!TypeOK, BalanceRow, Purse

LEMMA RowFields ==
    ASSUME NEW r \in BalanceRow
    PROVE  /\ r.id \in Nat /\ r.amount \in Nat /\ r.ts \in Int /\ r.currency \in BalanceCurrencies
           /\ r.kind \in Balance!Kinds /\ r.date \in Int \cup {NoDate}
           /\ Balance!EffectiveDate(r) \in Int
           /\ (r.date # NoDate) => (Balance!EffectiveDate(r) = r.date)
           /\ (r.date = NoDate) => (Balance!EffectiveDate(r) = Balance!LocalDay(r.ts))
<1>1. /\ r.id \in DOMAIN BalanceAmount /\ r.amount \in Nat /\ r.ts \in Int
      /\ r.currency \in BalanceCurrencies /\ r.kind \in Balance!Kinds
      /\ r.date \in Int \cup {NoDate}
  BY DEF BalanceRow
<1>2. r.id \in Nat /\ Balance!LocalDay(r.ts) \in Int
  BY <1>1, BalanceConstants, DayReached
<1>3. QED
  BY <1>1, <1>2 DEF Balance!EffectiveDate

LEMMA CountedSets ==
    ASSUME NEW moves \in SUBSET BalanceRow, IsFiniteSet(moves), NEW w, NEW c
    PROVE  /\ IsFiniteSet(EarnedSince(moves, w, c)) /\ IsFiniteSet(SpentSince(moves, w, c))
           /\ \A r \in moves : r.amount \in Nat
           /\ Balance!Total(EarnedSince(moves, w, c)) \in Int
           /\ Balance!Total(SpentSince(moves, w, c)) \in Int
<1>1. EarnedSince(moves, w, c) \in SUBSET moves /\ SpentSince(moves, w, c) \in SUBSET moves
  BY DEF EarnedSince, SpentSince
<1>2. IsFiniteSet(EarnedSince(moves, w, c)) /\ IsFiniteSet(SpentSince(moves, w, c))
  BY <1>1, FS_Subset
<1>3. \A r \in moves : r.amount \in Nat
  BY RowFields
<1>4. QED
  BY <1>1, <1>2, <1>3, TotalIsInt

\* A declaration starts the wallet anew.
LEMMA DeclaringCounts ==
    ASSUME NEW moves \in SUBSET BalanceRow, NEW x \in BalanceRow, x.kind = "initial",
           x.date \in Int, \A r \in moves : r.id < x.id, NEW w \in Purse,
           w.anchor = x.id, w.since = x.date, w.money = x.amount
    PROVE  IsCounted(moves \cup {x}, w, x.currency)
<1> DEFINE all == moves \cup {x}
<1>1. \A r \in all : r.id \in Nat /\ x.id \in Nat /\ r.id <= x.id
  BY RowFields
<1>2. EarnedSince(all, w, x.currency) = {} /\ SpentSince(all, w, x.currency) = {}
  BY <1>1 DEF EarnedSince, SpentSince, CountsIn
<1>3. IsTheAnchor(x, all, w, x.currency)
  BY <1>1 DEF IsTheAnchor
<1>4. w.money = x.amount + 0 - 0
  BY RowFields
<1>5. QED
  BY <1>2, <1>3, <1>4, TotalOfNone DEF IsCounted

\* What happens in another currency does not count.
LEMMA OtherCurrencies ==
    ASSUME NEW moves \in SUBSET BalanceRow, NEW x, NEW w, NEW c, x.currency # c,
           IsCounted(moves, w, c)
    PROVE  IsCounted(moves \cup {x}, w, c) /\ IsCounted(moves \ {x}, w, c)
<1>1. CASE ~w.known
  BY <1>1 DEF IsCounted
<1>2. CASE w.known
  <2>1. PICK a \in moves :
          /\ IsTheAnchor(a, moves, w, c)
          /\ w.money = a.amount + Balance!Total(EarnedSince(moves, w, c))
                          - Balance!Total(SpentSince(moves, w, c))
    BY <1>2 DEF IsCounted
  <2>2. /\ EarnedSince(moves \cup {x}, w, c) = EarnedSince(moves, w, c)
        /\ SpentSince(moves \cup {x}, w, c) = SpentSince(moves, w, c)
        /\ EarnedSince(moves \ {x}, w, c) = EarnedSince(moves, w, c)
        /\ SpentSince(moves \ {x}, w, c) = SpentSince(moves, w, c)
    BY DEF EarnedSince, SpentSince, CountsIn
  <2>3. IsTheAnchor(a, moves \cup {x}, w, c) /\ IsTheAnchor(a, moves \ {x}, w, c)
    BY <2>1 DEF IsTheAnchor
  <2>4. a \in moves \ {x}
    BY <2>1 DEF IsTheAnchor
  <2>5. QED
    BY <2>1, <2>2, <2>3, <2>4 DEF IsCounted
<1>3. QED
  BY <1>1, <1>2 DEF IsCounted

LEMMA SignedAmount ==
    ASSUME NEW r \in BalanceRow
    PROVE  /\ (r.kind = "expense") => (Balance!Signed(r) = 0 - r.amount)
           /\ (r.kind # "expense") => (Balance!Signed(r) = r.amount)
           /\ Balance!Signed(r) \in Int
BY RowFields DEF Balance!Signed

\* A movement that is recorded counts when it is not dated before the declaration.
LEMMA RecordingCounts ==
    ASSUME NEW moves \in SUBSET BalanceRow, IsFiniteSet(moves), NEW x \in BalanceRow,
           x.kind # "initial", \A r \in moves : r.id < x.id,
           NEW w \in Purse, IsCounted(moves, w, x.currency), NEW v \in Purse,
           v.known = w.known, v.anchor = w.anchor, v.since = w.since,
           w.known => (v.money = IF Balance!EffectiveDate(x) < w.since THEN w.money
                                 ELSE w.money + Balance!Signed(x))
    PROVE  IsCounted(moves \cup {x}, v, x.currency)
<1> DEFINE all == moves \cup {x}
           c == x.currency
<1>1. CASE ~w.known
  BY <1>1 DEF IsCounted
<1>2. CASE w.known
  <2>1. PICK a \in moves :
          /\ IsTheAnchor(a, moves, w, c)
          /\ w.money = a.amount + Balance!Total(EarnedSince(moves, w, c))
                          - Balance!Total(SpentSince(moves, w, c))
    BY <1>2 DEF IsCounted
  <2>2. IsTheAnchor(a, all, v, c)
    BY <2>1 DEF IsTheAnchor
  <2>3. /\ x.id > w.anchor /\ x \notin moves /\ x.amount \in Nat /\ a.amount \in Nat
        /\ Balance!EffectiveDate(x) \in Int /\ w.since \in Int /\ w.money \in Int
    BY <2>1, RowFields DEF IsTheAnchor, Purse
  <2> DEFINE in == Balance!Total(EarnedSince(moves, w, c))
             out == Balance!Total(SpentSince(moves, w, c))
  <2>4. /\ in \in Int /\ out \in Int
        /\ IsFiniteSet(EarnedSince(moves, w, c)) /\ IsFiniteSet(SpentSince(moves, w, c))
        /\ \A r \in moves : r.amount \in Nat
    BY CountedSets
  <2>5. /\ EarnedSince(moves, w, c) \in SUBSET moves /\ SpentSince(moves, w, c) \in SUBSET moves
    BY DEF EarnedSince, SpentSince
  <2>6. CASE Balance!EffectiveDate(x) < w.since
    <3>1. /\ EarnedSince(all, v, c) = EarnedSince(moves, w, c)
          /\ SpentSince(all, v, c) = SpentSince(moves, w, c)
      BY <2>3, <2>6 DEF EarnedSince, SpentSince, CountsIn
    <3>2. v.money = w.money
      BY <1>2, <2>6
    <3>3. QED
      BY <2>1, <2>2, <3>1, <3>2 DEF IsCounted
  <2>7. CASE ~(Balance!EffectiveDate(x) < w.since) /\ x.kind = "expense"
    <3>1. /\ EarnedSince(all, v, c) = EarnedSince(moves, w, c)
          /\ SpentSince(all, v, c) = SpentSince(moves, w, c) \cup {x}
      BY <2>3, <2>7 DEF EarnedSince, SpentSince, CountsIn
    <3>2. Balance!Total(SpentSince(all, v, c)) = x.amount + out
      BY <2>3, <2>4, <2>5, <3>1, TotalWith
    <3>3. v.money = w.money + (0 - x.amount)
      BY <1>2, <2>7, SignedAmount
    <3> HIDE DEF in, out
    <3>4. v.money = a.amount + in - (x.amount + out)
      <4>1. w.money = a.amount + in - out
        BY <2>1 DEF in, out
      <4>2. QED
        BY <2>3, <2>4, <3>3, <4>1
    <3>5. QED
      BY <2>1, <2>2, <3>1, <3>2, <3>4 DEF IsCounted, in
  <2>8. CASE ~(Balance!EffectiveDate(x) < w.since) /\ x.kind # "expense"
    <3>1. /\ EarnedSince(all, v, c) = EarnedSince(moves, w, c) \cup {x}
          /\ SpentSince(all, v, c) = SpentSince(moves, w, c)
      BY <2>3, <2>8 DEF EarnedSince, SpentSince, CountsIn
    <3>2. Balance!Total(EarnedSince(all, v, c)) = x.amount + in
      BY <2>3, <2>4, <2>5, <3>1, TotalWith
    <3>3. v.money = w.money + x.amount
      BY <1>2, <2>8, SignedAmount
    <3> HIDE DEF in, out
    <3>4. v.money = a.amount + (x.amount + in) - out
      <4>1. w.money = a.amount + in - out
        BY <2>1 DEF in, out
      <4>2. QED
        BY <2>3, <2>4, <3>3, <4>1
    <3>5. QED
      BY <2>1, <2>2, <3>1, <3>2, <3>4 DEF IsCounted, out
  <2>9. QED
    BY <2>6, <2>7, <2>8
<1>3. QED
  BY <1>1, <1>2

\* A movement that is deleted is taken back when it had counted.
LEMMA DeletingCounts ==
    ASSUME NEW moves \in SUBSET BalanceRow, IsFiniteSet(moves), NEW x \in moves,
           NEW w \in Purse, IsCounted(moves, w, x.currency), x.id # w.anchor, NEW v \in Purse,
           v.known = w.known, v.anchor = w.anchor, v.since = w.since,
           w.known => (v.money = IF x.id > w.anchor /\ Balance!EffectiveDate(x) >= w.since
                                 THEN w.money - Balance!Signed(x) ELSE w.money)
    PROVE  IsCounted(moves \ {x}, v, x.currency)
<1> DEFINE all == moves \ {x}
           c == x.currency
<1>1. CASE ~w.known
  BY <1>1 DEF IsCounted
<1>2. CASE w.known
  <2>1. PICK a \in moves :
          /\ IsTheAnchor(a, moves, w, c)
          /\ w.money = a.amount + Balance!Total(EarnedSince(moves, w, c))
                          - Balance!Total(SpentSince(moves, w, c))
    BY <1>2 DEF IsCounted
  <2>2. a \in all /\ IsTheAnchor(a, all, v, c)
    BY <2>1 DEF IsTheAnchor
  <2>3. /\ x.amount \in Nat /\ a.amount \in Nat /\ w.money \in Int
        /\ Balance!EffectiveDate(x) \in Int /\ w.since \in Int
    BY <2>1, RowFields DEF Purse
  <2> DEFINE in == Balance!Total(EarnedSince(moves, w, c))
             out == Balance!Total(SpentSince(moves, w, c))
             inLeft == Balance!Total(EarnedSince(all, v, c))
             outLeft == Balance!Total(SpentSince(all, v, c))
  <2>4. IsFiniteSet(all) /\ all \in SUBSET BalanceRow
    BY FS_Subset
  <2>5. /\ in \in Int /\ out \in Int /\ inLeft \in Int /\ outLeft \in Int
        /\ IsFiniteSet(EarnedSince(moves, w, c)) /\ IsFiniteSet(SpentSince(moves, w, c))
        /\ \A r \in moves : r.amount \in Nat
    BY <2>4, CountedSets
  <2>6. EarnedSince(moves, w, c) \in SUBSET moves /\ SpentSince(moves, w, c) \in SUBSET moves
    BY DEF EarnedSince, SpentSince
  <2>7. CASE ~(x.id > w.anchor /\ Balance!EffectiveDate(x) >= w.since)
    <3>1. /\ EarnedSince(all, v, c) = EarnedSince(moves, w, c)
          /\ SpentSince(all, v, c) = SpentSince(moves, w, c)
      BY <2>7 DEF EarnedSince, SpentSince, CountsIn
    <3>2. v.money = w.money
      BY <1>2, <2>7
    <3>3. QED
      BY <2>1, <2>2, <3>1, <3>2 DEF IsCounted
  <2>8. CASE (x.id > w.anchor /\ Balance!EffectiveDate(x) >= w.since) /\ x.kind = "expense"
    <3>1. /\ EarnedSince(all, v, c) = EarnedSince(moves, w, c)
          /\ x \in SpentSince(moves, w, c)
          /\ SpentSince(all, v, c) = SpentSince(moves, w, c) \ {x}
      BY <2>8 DEF EarnedSince, SpentSince, CountsIn
    <3>2. out = x.amount + outLeft
      BY <2>5, <2>6, <3>1, TotalWithout
    <3>3. v.money = w.money - (0 - x.amount)
      BY <1>2, <2>8, SignedAmount
    <3> HIDE DEF in, out, inLeft, outLeft
    <3>4. v.money = a.amount + in - outLeft
      <4>1. w.money = a.amount + in - out
        BY <2>1 DEF in, out
      <4>2. QED
        BY <2>3, <2>5, <3>2, <3>3, <4>1
    <3>5. QED
      BY <2>2, <3>1, <3>4 DEF IsCounted, in, outLeft
  <2>9. CASE (x.id > w.anchor /\ Balance!EffectiveDate(x) >= w.since) /\ x.kind # "expense"
    <3>1. /\ SpentSince(all, v, c) = SpentSince(moves, w, c)
          /\ x \in EarnedSince(moves, w, c)
          /\ EarnedSince(all, v, c) = EarnedSince(moves, w, c) \ {x}
      BY <2>9 DEF EarnedSince, SpentSince, CountsIn
    <3>2. in = x.amount + inLeft
      BY <2>5, <2>6, <3>1, TotalWithout
    <3>3. v.money = w.money - x.amount
      BY <1>2, <2>9, SignedAmount
    <3> HIDE DEF in, out, inLeft, outLeft
    <3>4. v.money = a.amount + inLeft - out
      <4>1. w.money = a.amount + in - out
        BY <2>1 DEF in, out
      <4>2. QED
        BY <2>3, <2>5, <3>2, <3>3, <4>1
    <3>5. QED
      BY <2>2, <3>1, <3>4 DEF IsCounted, out, inLeft
  <2>10. QED
    BY <2>7, <2>8, <2>9
<1>3. QED
  BY <1>1, <1>2

-----------------------------------------------------------------------------
(* The balance: what the steps preserve.                                   *)

LEMMA RowsFitWith ==
    ASSUME NEW moves \in SUBSET BalanceRow, NEW time \in Int, RowsFit(moves, time),
           NEW x \in BalanceRow, \A r \in moves : r.id < x.id, x.ts = time,
           x.date # NoDate => x.date <= Balance!LocalDay(time),
           x.kind = "initial" => x.date = Balance!LocalDay(time)
    PROVE  RowsFit(moves \cup {x}, time)
<1> DEFINE all == moves \cup {x}
<1>1. \A r \in all : r.id \in Nat /\ r.ts \in Int
  BY RowFields
<1>2. \A r \in moves : r.ts <= x.ts
  BY DEF RowsFit
<1>3. ASSUME NEW r \in all, NEW s \in all
      PROVE  ((r.id = s.id) => (r = s)) /\ ((r.id < s.id) => (r.ts <= s.ts))
  <2>1. CASE r \in moves /\ s \in moves
    BY <2>1 DEF RowsFit
  <2>2. CASE r \in moves /\ s = x
    BY <1>1, <1>2, <2>2
  <2>3. CASE r = x /\ s \in moves
    BY <1>1, <2>3
  <2>4. CASE r = x /\ s = x
    BY <1>1, <2>4
  <2>5. QED
    BY <2>1, <2>2, <2>3, <2>4
<1>4. ASSUME NEW r \in all
      PROVE  /\ r.ts <= time
             /\ (r.date # NoDate) => (r.date <= Balance!LocalDay(r.ts))
             /\ (r.kind = "initial") => (r.date = Balance!LocalDay(r.ts))
  BY <1>1 DEF RowsFit
<1>5. QED
  BY <1>3, <1>4 DEF RowsFit

LEMMA RowsFitWithout ==
    ASSUME NEW moves, NEW time, RowsFit(moves, time), NEW x
    PROVE  RowsFit(moves \ {x}, time)
BY DEF RowsFit

\* What the movement that is recorded next looks like.
LEMMA NextRow ==
    ASSUME NEW moves, NEW latest, NEW time, NEW purses,
           BalanceHolds(moves, latest, time, purses), latest + 1 \in DOMAIN BalanceAmount,
           NEW kind \in Balance!Kinds, NEW c \in BalanceCurrencies, NEW day \in Int \cup {NoDate},
           day # NoDate => day <= Balance!LocalDay(time),
           kind = "initial" => day = Balance!LocalDay(time),
           NEW x, x = [id |-> latest + 1, kind |-> kind, amount |-> BalanceAmount[latest + 1],
                       currency |-> c, date |-> day, ts |-> time]
    PROVE  /\ x \in BalanceRow /\ \A r \in moves : r.id < x.id
           /\ moves \cup {x} \in SUBSET BalanceRow /\ IsFiniteSet(moves \cup {x})
           /\ \A r \in moves \cup {x} : r.id <= latest + 1
           /\ RowsFit(moves \cup {x}, time)
<1>1. latest \in Nat /\ time \in Int
  BY BalanceConstants DEF BalanceHolds
<1>2. x \in BalanceRow
  BY <1>1, BalanceConstants DEF BalanceRow
<1>3. moves \in SUBSET BalanceRow /\ IsFiniteSet(moves) /\ RowsFit(moves, time)
  BY DEF BalanceHolds
<1>4. \A r \in moves : r.id \in Nat /\ r.id <= latest
  BY <1>3, RowFields DEF BalanceHolds
<1>5. x.id = latest + 1 /\ x.ts = time /\ x.kind = kind /\ x.date = day
  OBVIOUS
<1>6. \A r \in moves : r.id < x.id
  BY <1>1, <1>4, <1>5
<1>7. RowsFit(moves \cup {x}, time)
  BY <1>1, <1>2, <1>3, <1>5, <1>6, RowsFitWith
<1>8. IsFiniteSet(moves \cup {x})
  BY <1>3, FS_AddElement
<1>9. QED
  BY <1>1, <1>2, <1>3, <1>4, <1>5, <1>6, <1>7, <1>8

LEMMA DeclareKeeps ==
    ASSUME NEW moves, NEW latest, NEW time, NEW purses,
           BalanceHolds(moves, latest, time, purses), latest + 1 \in DOMAIN BalanceAmount,
           NEW c \in BalanceCurrencies, NEW x,
           x = [id |-> latest + 1, kind |-> "initial", amount |-> BalanceAmount[latest + 1],
                currency |-> c, date |-> Balance!LocalDay(time), ts |-> time]
    PROVE  BalanceHolds(moves \cup {x}, latest + 1, time,
             [purses EXCEPT ![c] = [known |-> TRUE, anchor |-> latest + 1,
                since |-> Balance!LocalDay(time), money |-> BalanceAmount[latest + 1]]])
<1> DEFINE all == moves \cup {x}
           v == [known |-> TRUE, anchor |-> latest + 1,
                 since |-> Balance!LocalDay(time), money |-> BalanceAmount[latest + 1]]
           after == [purses EXCEPT ![c] = v]
           day == Balance!LocalDay(time)
<1>1. latest \in Nat /\ time \in Int /\ day \in Int
  BY BalanceConstants, DayReached DEF BalanceHolds
<1>2. /\ x \in BalanceRow /\ \A r \in moves : r.id < x.id
      /\ all \in SUBSET BalanceRow /\ IsFiniteSet(all)
      /\ \A r \in all : r.id <= latest + 1
      /\ RowsFit(all, time)
  <2>1. "initial" \in Balance!Kinds /\ day \in Int \cup {NoDate} /\ day <= day
    BY <1>1 DEF Balance!Kinds
  <2> HIDE DEF all
  <2>2. QED
    BY <1>1, <2>1, NextRow DEF all
<1>3. v \in Purse
  BY <1>1, BalanceConstants DEF Purse
<1>4. v.anchor = x.id /\ v.since = x.date /\ v.money = x.amount /\ x.kind = "initial"
      /\ x.date \in Int /\ x.currency = c
  BY <1>1
<1>5. moves \in SUBSET BalanceRow /\ purses \in [BalanceCurrencies -> Purse]
  BY DEF BalanceHolds
<1>6. after \in [BalanceCurrencies -> Purse] /\ after[c] = v
      /\ \A k \in BalanceCurrencies \ {c} : after[k] = purses[k]
  BY <1>3, <1>5
<1> HIDE DEF v, after
<1>7. IsCounted(all, v, c)
  BY <1>2, <1>3, <1>4, <1>5, DeclaringCounts
<1>8. ASSUME NEW k \in BalanceCurrencies \ {c} PROVE IsCounted(all, after[k], k)
  BY <1>4, <1>5, <1>6, OtherCurrencies DEF BalanceHolds
<1>9. \A k \in BalanceCurrencies : IsCounted(all, after[k], k)
  BY <1>6, <1>7, <1>8
<1> HIDE DEF all
<1>10. BalanceHolds(all, latest + 1, time, after)
  BY <1>1, <1>2, <1>6, <1>9 DEF BalanceHolds
<1>11. QED
  BY <1>10 DEF all, after, v

LEMMA RecordKeeps ==
    ASSUME NEW moves, NEW latest, NEW time, NEW purses,
           BalanceHolds(moves, latest, time, purses), latest + 1 \in DOMAIN BalanceAmount,
           NEW kind \in {"expense", "income"}, NEW c \in BalanceCurrencies,
           NEW day \in Int \cup {NoDate}, day # NoDate => day <= Balance!LocalDay(time),
           NEW x, x = [id |-> latest + 1, kind |-> kind, amount |-> BalanceAmount[latest + 1],
                       currency |-> c, date |-> day, ts |-> time]
    PROVE  BalanceHolds(moves \cup {x}, latest + 1, time,
             IF ~purses[c].known \/ Balance!EffectiveDate(x) < purses[c].since
             THEN purses ELSE [purses EXCEPT ![c].money = @ + Balance!Signed(x)])
<1> DEFINE all == moves \cup {x}
           w == purses[c]
           after == IF ~purses[c].known \/ Balance!EffectiveDate(x) < purses[c].since
                    THEN purses ELSE [purses EXCEPT ![c].money = @ + Balance!Signed(x)]
           v == after[c]
<1>1. latest \in Nat /\ time \in Int
  BY BalanceConstants DEF BalanceHolds
<1>2. /\ x \in BalanceRow /\ \A r \in moves : r.id < x.id
      /\ all \in SUBSET BalanceRow /\ IsFiniteSet(all)
      /\ \A r \in all : r.id <= latest + 1
      /\ RowsFit(all, time)
  <2>1. kind \in Balance!Kinds /\ kind # "initial"
    BY DEF Balance!Kinds
  <2> HIDE DEF all
  <2>2. QED
    BY <2>1, NextRow DEF all
<1>3. x.kind # "initial" /\ x.currency = c /\ Balance!Signed(x) \in Int
  BY <1>2, SignedAmount
<1>4. moves \in SUBSET BalanceRow /\ IsFiniteSet(moves) /\ purses \in [BalanceCurrencies -> Purse]
  BY DEF BalanceHolds
<1>5. w \in Purse /\ w.known \in BOOLEAN /\ w.anchor \in Nat /\ w.since \in Int /\ w.money \in Int
  BY <1>4 DEF Purse
<1>6. /\ after \in [BalanceCurrencies -> Purse]
      /\ \A k \in BalanceCurrencies \ {c} : after[k] = purses[k]
      /\ v.known = w.known /\ v.anchor = w.anchor /\ v.since = w.since
      /\ w.known => (v.money = IF Balance!EffectiveDate(x) < w.since THEN w.money
                               ELSE w.money + Balance!Signed(x))
  <2>1. CASE ~w.known \/ Balance!EffectiveDate(x) < w.since
    <3>1. after = purses
      BY <2>1
    <3>2. QED
      BY <1>4, <2>1, <3>1
  <2>2. CASE w.known /\ ~(Balance!EffectiveDate(x) < w.since)
    <3>1. after = [purses EXCEPT ![c].money = @ + Balance!Signed(x)]
      BY <2>2
    <3>2. [w EXCEPT !.money = w.money + Balance!Signed(x)] \in Purse
      BY <1>3, <1>5 DEF Purse
    <3>3. v = [w EXCEPT !.money = w.money + Balance!Signed(x)]
      BY <1>4, <3>1
    <3>4. \A k \in BalanceCurrencies \ {c} : after[k] = purses[k]
      BY <1>4, <3>1
    <3>5. after \in [BalanceCurrencies -> Purse]
      BY <1>4, <3>1, <3>2
    <3>6. /\ v.known = w.known /\ v.anchor = w.anchor /\ v.since = w.since
          /\ v.money = w.money + Balance!Signed(x)
      BY <1>5, <3>3 DEF Purse
    <3>7. QED
      BY <2>2, <3>4, <3>5, <3>6
  <2>3. QED
    BY <1>5, <2>1, <2>2
<1>7. v \in Purse
  BY <1>6
<1>8. IsCounted(moves, w, c)
  BY DEF BalanceHolds
<1> HIDE DEF v, w, after
<1>9. IsCounted(all, v, c)
  BY <1>2, <1>3, <1>4, <1>5, <1>6, <1>7, <1>8, RecordingCounts
<1>10. ASSUME NEW k \in BalanceCurrencies \ {c} PROVE IsCounted(all, after[k], k)
  BY <1>3, <1>4, <1>6, OtherCurrencies DEF BalanceHolds
<1>11. \A k \in BalanceCurrencies : IsCounted(all, after[k], k)
  BY <1>9, <1>10 DEF v
<1> HIDE DEF all
<1>12. BalanceHolds(all, latest + 1, time, after)
  BY <1>1, <1>2, <1>6, <1>11 DEF BalanceHolds
<1>13. QED
  BY <1>12 DEF all, after

LEMMA DeleteKeeps ==
    ASSUME NEW moves, NEW latest, NEW time, NEW purses,
           BalanceHolds(moves, latest, time, purses), NEW x \in moves, NEW after,
           after = IF x.id = purses[x.currency].anchor
                   THEN [purses EXCEPT ![x.currency] = Balance!Nothing]
                   ELSE IF /\ purses[x.currency].known /\ x.id > purses[x.currency].anchor
                           /\ Balance!EffectiveDate(x) >= purses[x.currency].since
                   THEN [purses EXCEPT ![x.currency].money = @ - Balance!Signed(x)]
                   ELSE purses
    PROVE  BalanceHolds(moves \ {x}, latest, time, after)
<1> DEFINE all == moves \ {x}
           c == x.currency
           w == purses[c]
           v == after[c]
<1>1. moves \in SUBSET BalanceRow /\ IsFiniteSet(moves) /\ purses \in [BalanceCurrencies -> Purse]
  BY DEF BalanceHolds
<1>2. /\ x \in BalanceRow /\ c \in BalanceCurrencies /\ x.id \in Nat
      /\ Balance!Signed(x) \in Int /\ Balance!EffectiveDate(x) \in Int
  BY <1>1, RowFields, SignedAmount
<1>3. w \in Purse /\ w.known \in BOOLEAN /\ w.anchor \in Nat /\ w.since \in Int /\ w.money \in Int
  BY <1>1, <1>2 DEF Purse
<1>4. IsCounted(moves, w, c)
  BY <1>2 DEF BalanceHolds
<1>5. /\ after \in [BalanceCurrencies -> Purse]
      /\ \A k \in BalanceCurrencies \ {c} : after[k] = purses[k]
      /\ IsCounted(all, v, c)
  <2>1. CASE x.id = w.anchor
    <3>1. after = [purses EXCEPT ![c] = Balance!Nothing]
      BY <2>1
    <3>2. Balance!Nothing \in Purse /\ ~Balance!Nothing.known
      BY DEF Balance!Nothing, Purse
    <3>3. v = Balance!Nothing
      BY <1>1, <1>2, <3>1
    <3>4. QED
      BY <1>1, <1>2, <3>1, <3>2, <3>3 DEF IsCounted
  <2>2. CASE x.id # w.anchor /\ w.known /\ x.id > w.anchor /\ Balance!EffectiveDate(x) >= w.since
    <3>1. after = [purses EXCEPT ![c].money = @ - Balance!Signed(x)]
      BY <2>2
    <3>2. [w EXCEPT !.money = w.money - Balance!Signed(x)] \in Purse
      BY <1>2, <1>3 DEF Purse
    <3>3. v = [w EXCEPT !.money = w.money - Balance!Signed(x)]
      BY <1>1, <1>2, <3>1
    <3>4. \A k \in BalanceCurrencies \ {c} : after[k] = purses[k]
      BY <1>1, <1>2, <3>1
    <3>5. after \in [BalanceCurrencies -> Purse]
      BY <1>1, <1>2, <3>1, <3>2
    <3>6. /\ v.known = w.known /\ v.anchor = w.anchor /\ v.since = w.since
          /\ v.money = w.money - Balance!Signed(x)
      BY <1>3, <3>3 DEF Purse
    <3>7. v \in Purse
      BY <1>2, <3>5
    <3> HIDE DEF v, w, all
    <3>8. IsCounted(all, v, c)
      BY <1>1, <1>3, <1>4, <2>2, <3>6, <3>7, DeletingCounts DEF all
    <3>9. QED
      BY <3>4, <3>5, <3>8
  <2>3. CASE x.id # w.anchor /\ ~(w.known /\ x.id > w.anchor /\ Balance!EffectiveDate(x) >= w.since)
    <3>1. after = purses
      BY <2>3
    <3>2. v = w
      BY <3>1
    <3> HIDE DEF v, w, all
    <3>3. IsCounted(all, v, c)
      BY <1>1, <1>3, <1>4, <2>3, <3>2, DeletingCounts DEF all
    <3>4. QED
      BY <1>1, <3>1, <3>3
  <2>4. QED
    BY <1>3, <2>1, <2>2, <2>3
<1>6. all \in SUBSET BalanceRow /\ IsFiniteSet(all) /\ \A r \in all : r.id <= latest
  BY <1>1, FS_RemoveElement DEF BalanceHolds
<1>7. RowsFit(all, time)
  BY RowsFitWithout DEF BalanceHolds
<1>8. ASSUME NEW k \in BalanceCurrencies \ {c} PROVE IsCounted(all, after[k], k)
  BY <1>1, <1>5, OtherCurrencies DEF BalanceHolds
<1>9. \A k \in BalanceCurrencies : IsCounted(all, after[k], k)
  BY <1>5, <1>8
<1> HIDE DEF all
<1>10. BalanceHolds(all, latest, time, after)
  BY <1>5, <1>6, <1>7, <1>9 DEF BalanceHolds
<1>11. QED
  BY <1>10 DEF all

LEMMA TickKeeps ==
    ASSUME NEW moves, NEW latest, NEW time, NEW purses,
           BalanceHolds(moves, latest, time, purses), time < BalanceLast
    PROVE  BalanceHolds(moves, latest, time + 1, purses)
<1>1. time \in Int /\ time + 1 \in BalanceFirst..BalanceLast
  BY BalanceConstants DEF BalanceHolds
<1>2. moves \in SUBSET BalanceRow /\ RowsFit(moves, time)
  BY DEF BalanceHolds
<1>3. \A r \in moves : r.ts \in Int /\ r.ts <= time
  BY <1>2, RowFields DEF RowsFit
<1>4. \A r \in moves : r.ts <= time + 1
  BY <1>1, <1>3
<1>5. RowsFit(moves, time + 1)
  BY <1>2, <1>4 DEF RowsFit
<1>6. QED
  BY <1>1, <1>5 DEF BalanceHolds

LEMMA BalanceStarts == Balance!Init => BalanceInv
<1> SUFFICES ASSUME Balance!Init PROVE BalanceInv
  OBVIOUS
<1>1. Balance!Nothing \in Purse /\ ~Balance!Nothing.known
  BY DEF Balance!Nothing, Purse
<1>2. movements = {} /\ last = 0 /\ hour = BalanceFirst
      /\ wallet = [c \in BalanceCurrencies |-> Balance!Nothing]
  BY DEF Balance!Init
<1>3. IsFiniteSet(movements) /\ RowsFit(movements, hour)
  BY <1>2, FS_EmptySet DEF RowsFit
<1>4. hour \in BalanceFirst..BalanceLast
  BY <1>2, BalanceConstants
<1>5. QED
  BY <1>1, <1>2, <1>3, <1>4 DEF BalanceInv, BalanceHolds, IsCounted

LEMMA BalanceKept == BalanceInv /\ [Balance!Next]_(Balance!vars) => BalanceInv'
<1> SUFFICES ASSUME BalanceInv, [Balance!Next]_(Balance!vars) PROVE BalanceInv'
  OBVIOUS
<1>1. BalanceHolds(movements, last, hour, wallet)
  BY DEF BalanceInv
<1>2. hour \in Int /\ Balance!LocalDay(hour) \in Int
  BY <1>1, BalanceConstants, DayReached DEF BalanceHolds
<1>3. ASSUME NEW c \in BalanceCurrencies, Balance!Declare(c) PROVE BalanceInv'
  <2> DEFINE x == Balance!Row("initial", c, Balance!Today)
             purses == [wallet EXCEPT ![c] = [known |-> TRUE, anchor |-> last + 1,
                          since |-> Balance!LocalDay(hour), money |-> BalanceAmount[last + 1]]]
  <2>1. x = [id |-> last + 1, kind |-> "initial", amount |-> BalanceAmount[last + 1],
             currency |-> c, date |-> Balance!LocalDay(hour), ts |-> hour]
    BY DEF Balance!Row, Balance!Today
  <2>2. /\ last + 1 \in DOMAIN BalanceAmount /\ movements' = movements \cup {x}
        /\ last' = last + 1 /\ hour' = hour /\ wallet' = purses
    BY <1>3 DEF Balance!Declare, Balance!Today
  <2> HIDE DEF x
  <2>3. BalanceHolds(movements \cup {x}, last + 1, hour, purses)
    BY <1>1, <1>3, <2>1, <2>2, DeclareKeeps
  <2> HIDE DEF purses
  <2>4. QED
    BY <2>2, <2>3 DEF BalanceInv
<1>4. ASSUME NEW c \in BalanceCurrencies, NEW k \in {"expense", "income"},
             NEW d \in {NoDate} \cup {Balance!Today - b : b \in Backdates},
             Balance!Record(k, c, d)
      PROVE  BalanceInv'
  <2> DEFINE x == Balance!Row(k, c, d)
             purses == IF ~wallet[c].known \/ Balance!EffectiveDate(x) < wallet[c].since
                       THEN wallet ELSE [wallet EXCEPT ![c].money = @ + Balance!Signed(x)]
  <2>1. x = [id |-> last + 1, kind |-> k, amount |-> BalanceAmount[last + 1],
             currency |-> c, date |-> d, ts |-> hour]
    BY DEF Balance!Row
  <2>2. /\ last + 1 \in DOMAIN BalanceAmount /\ movements' = movements \cup {x}
        /\ last' = last + 1 /\ hour' = hour /\ wallet' = purses
    BY <1>4 DEF Balance!Record
  <2>3. d \in Int \cup {NoDate} /\ (d # NoDate => d <= Balance!LocalDay(hour))
    BY <1>2, BalanceConstants DEF Balance!Today
  <2> HIDE DEF x
  <2>4. BalanceHolds(movements \cup {x}, last + 1, hour, purses)
    BY <1>1, <1>4, <2>1, <2>2, <2>3, RecordKeeps
  <2> HIDE DEF purses
  <2>5. QED
    BY <2>2, <2>4 DEF BalanceInv
<1>5. ASSUME NEW r \in movements, Balance!Delete(r) PROVE BalanceInv'
  <2>1. /\ movements' = movements \ {r} /\ last' = last /\ hour' = hour
        /\ wallet' = IF r.id = wallet[r.currency].anchor
                     THEN [wallet EXCEPT ![r.currency] = Balance!Nothing]
                     ELSE IF /\ wallet[r.currency].known /\ r.id > wallet[r.currency].anchor
                             /\ Balance!EffectiveDate(r) >= wallet[r.currency].since
                     THEN [wallet EXCEPT ![r.currency].money = @ - Balance!Signed(r)]
                     ELSE wallet
    BY <1>5 DEF Balance!Delete
  <2>2. BalanceHolds(movements \ {r}, last, hour, wallet')
    BY <1>1, <2>1, DeleteKeeps
  <2>3. QED
    BY <2>1, <2>2 DEF BalanceInv
<1>6. CASE Balance!Tick
  <2>1. /\ hour < BalanceLast /\ hour' = hour + 1
        /\ UNCHANGED <<movements, last, wallet>>
    BY <1>6 DEF Balance!Tick
  <2>2. BalanceHolds(movements, last, hour + 1, wallet)
    BY <1>1, <2>1, TickKeeps
  <2>3. QED
    BY <2>1, <2>2 DEF BalanceInv
<1>7. CASE UNCHANGED Balance!vars
  BY <1>1, <1>7 DEF BalanceInv, Balance!vars
<1>8. QED
  BY <1>3, <1>4, <1>5, <1>6, <1>7 DEF Balance!Next

-----------------------------------------------------------------------------
(* The balance: what is computed is what the wallet holds.                 *)

\* The only one of a set of one.
LEMMA TheOne == ASSUME NEW a PROVE (CHOOSE x \in {a} : TRUE) = a
<1>1. \E x : x \in {a} /\ TRUE
  OBVIOUS
<1>2. (CHOOSE x \in {a} : TRUE) \in {a}
  BY Zenon, <1>1
<1>3. QED
  BY Zenon, <1>2

\* Asked without dates or from the first of the month, it is the month so far.
LEMMA BalanceAsked ==
    ASSUME NEW c, Balance!MonthStart(Balance!Today) \in Int
    PROVE  LET month == Balance!BalanceFrom(c, Balance!MonthStart(Balance!Today), Balance!Today, FALSE)
           IN  /\ Balance!ComputeBalance(c, NoDate, NoDate, FALSE) = month
               /\ Balance!ComputeBalance(c, Balance!MonthStart(Balance!Today), NoDate, FALSE) = month
<1> DEFINE m == Balance!MonthStart(Balance!Today)
<1>1. m # NoDate
  BY BalanceConstants
<1> HIDE DEF m
<1>2. Balance!ComputeBalance(c, NoDate, NoDate, FALSE) = Balance!BalanceFrom(c, m, Balance!Today, FALSE)
  BY DEF Balance!ComputeBalance, m
<1>3. Balance!ComputeBalance(c, m, NoDate, FALSE) = Balance!BalanceFrom(c, m, Balance!Today, FALSE)
  BY <1>1 DEF Balance!ComputeBalance
<1>4. QED
  BY <1>2, <1>3 DEF m

\* What counts from a declaration, of the movements from one day to another.
CountedIncomes(c, a, first, to) ==
    {r \in Balance!Between({r \in Balance!Incomes : r.currency = c}, first, to) :
       r = a \/ (Balance!AfterAnchor(r, a) /\ ~Balance!IsInitial(r))}
CountedExpenses(c, a, first, to) ==
    {r \in Balance!Between({r \in Balance!Expenses : r.currency = c}, first, to) :
       Balance!AfterAnchor(r, a)}
BalanceBetween(c, from, to) == Balance!BalanceFrom(c, from, to, FALSE)
CountedFrom(c, a, first, to) ==
    Balance!Total(CountedIncomes(c, a, first, to)) - Balance!Total(CountedExpenses(c, a, first, to))

\* The balance from the one declaration that counts.
LEMMA BalanceFromOne ==
    ASSUME NEW c, NEW from \in Int, NEW to \in Int, NEW a, NEW first,
           \/ Balance!Anchors(c, from, to) = {a} /\ first = from
           \/ /\ Balance!Anchors(c, from, to) = {} /\ from \in MonthStarts
              /\ Balance!Anchors(c, from - CARRY_OVER_DAYS, from - 1) = {a}
              /\ first = Balance!EffectiveDate(a)
    PROVE  BalanceBetween(c, from, to) = CountedFrom(c, a, first, to)
<1> DEFINE own == Balance!Anchors(c, from, to)
           carried == IF from # NoDate /\ from \in MonthStarts /\ own = {}
                      THEN Balance!Anchors(c, from - CARRY_OVER_DAYS, from - 1) ELSE {}
           start == IF carried = {} THEN from
                    ELSE Balance!EffectiveDate(CHOOSE x \in carried : TRUE)
           spent == Balance!Between({r \in Balance!Expenses : r.currency = c}, start, to)
           earned == Balance!Between({r \in Balance!Incomes : r.currency = c}, start, to)
           chosen == CHOOSE x \in own \cup carried : TRUE
<1>1. from # NoDate
  BY BalanceConstants
<1>2. Balance!BalanceFrom(c, from, to, FALSE) =
        IF own \cup carried = {} THEN Balance!Total(earned) - Balance!Total(spent)
        ELSE Balance!Total({r \in earned : \/ r = chosen
                                           \/ Balance!AfterAnchor(r, chosen) /\ ~Balance!IsInitial(r)})
               - Balance!Total({r \in spent : Balance!AfterAnchor(r, chosen)})
  BY DEF Balance!BalanceFrom
<1>3. own \cup carried = {a} /\ start = first
  <2>1. CASE Balance!Anchors(c, from, to) = {a} /\ first = from
    BY <2>1
  <2>2. CASE /\ Balance!Anchors(c, from, to) = {} /\ from \in MonthStarts
             /\ Balance!Anchors(c, from - CARRY_OVER_DAYS, from - 1) = {a}
             /\ first = Balance!EffectiveDate(a)
    <3>1. own = {} /\ carried = {a}
      BY <1>1, <2>2
    <3> HIDE DEF own, carried
    <3>2. (CHOOSE x \in carried : TRUE) = a
      BY <3>1, TheOne
    <3>3. QED
      BY <2>2, <3>1, <3>2
  <2>3. QED
    BY <2>1, <2>2
<1> HIDE DEF own, carried, start
<1>4. chosen = a
  BY <1>3, TheOne
<1> HIDE DEF chosen
<1>5. QED
  BY <1>2, <1>3, <1>4 DEF BalanceBetween, CountedFrom, CountedIncomes, CountedExpenses

\* No declaration of the currency is dated after the anchor, nor recorded after it.
LEMMA AnchorIsNewest ==
    ASSUME BalanceInv, NEW c, NEW w, NEW a \in movements, IsTheAnchor(a, movements, w, c),
           NEW b \in movements, b.kind = "initial", b.currency = c
    PROVE  /\ Balance!EffectiveDate(b) \in Int /\ Balance!EffectiveDate(b) <= w.since
           /\ w.since \in Int /\ Balance!EffectiveDate(a) = w.since
           /\ b # a => (Balance!Newer(a, b) /\ ~Balance!Newer(b, a))
<1>1. movements \in SUBSET BalanceRow /\ RowsFit(movements, hour)
  BY DEF BalanceInv, BalanceHolds
<1>2. /\ a.id \in Nat /\ b.id \in Nat /\ a.ts \in Int /\ b.ts \in Int
      /\ Balance!LocalDay(a.ts) \in Int /\ Balance!LocalDay(b.ts) \in Int
  BY <1>1, RowFields, DayReached
<1>3. a.date = Balance!LocalDay(a.ts) /\ b.date = Balance!LocalDay(b.ts) /\ a.date = w.since
  BY <1>1 DEF RowsFit, IsTheAnchor
<1>4. /\ Balance!EffectiveDate(a) = Balance!LocalDay(a.ts)
      /\ Balance!EffectiveDate(b) = Balance!LocalDay(b.ts)
  BY <1>3 DEF Balance!EffectiveDate
<1>5. CASE b = a
  BY <1>2, <1>3, <1>4, <1>5
<1>6. CASE b # a
  <2>1. b.id < a.id
    BY <1>1, <1>2, <1>6 DEF RowsFit, IsTheAnchor
  <2>2. b.ts <= a.ts
    BY <1>1, <2>1 DEF RowsFit
  <2>3. Balance!LocalDay(b.ts) <= Balance!LocalDay(a.ts)
    BY <1>2, <2>2, DaysFollow
  <2>4. /\ Balance!EffectiveDate(b) \in Int /\ Balance!EffectiveDate(a) \in Int
        /\ Balance!EffectiveDate(b) <= Balance!EffectiveDate(a)
        /\ Balance!EffectiveDate(a) = w.since
    BY <1>2, <1>3, <1>4, <2>3
  <2>5. Balance!Newer(a, b) /\ ~Balance!Newer(b, a)
    BY <1>2, <2>1, <2>4 DEF Balance!Newer
  <2>6. QED
    BY <2>4, <2>5
<1>7. QED
  BY <1>5, <1>6

LEMMA AnchorsOfThePeriod ==
    ASSUME BalanceInv, NEW c, NEW w, NEW a \in movements, IsTheAnchor(a, movements, w, c),
           NEW from \in Int, NEW to \in Int
    PROVE  /\ w.since < from => Balance!Anchors(c, from, to) = {}
           /\ (from <= w.since /\ w.since <= to) => Balance!Anchors(c, from, to) = {a}
<1> DEFINE declared == {r \in movements : /\ Balance!IsInitial(r) /\ r.currency = c
                                          /\ from = NoDate \/ Balance!EffectiveDate(r) >= from
                                          /\ to = NoDate \/ Balance!EffectiveDate(r) <= to}
<1>1. from # NoDate /\ to # NoDate
  BY BalanceConstants
<1>2. Balance!Anchors(c, from, to) = {x \in declared : \A b \in declared \ {x} : Balance!Newer(x, b)}
  BY DEF Balance!Anchors
<1>3. \A r \in declared : /\ r \in movements /\ r.kind = "initial" /\ r.currency = c
                          /\ Balance!EffectiveDate(r) >= from
  BY <1>1 DEF Balance!IsInitial
<1>4. a.kind = "initial" /\ a.currency = c
  BY DEF IsTheAnchor
<1>5. w.since \in Int /\ Balance!EffectiveDate(a) = w.since
  BY <1>4, AnchorIsNewest
<1>6. ASSUME from <= w.since, w.since <= to PROVE a \in declared
  BY <1>4, <1>5, <1>6 DEF Balance!IsInitial
<1> HIDE DEF declared
<1>7. \A r \in declared : /\ Balance!EffectiveDate(r) \in Int /\ Balance!EffectiveDate(r) <= w.since
                          /\ r # a => (Balance!Newer(a, r) /\ ~Balance!Newer(r, a))
  BY <1>3, AnchorIsNewest
<1>8. ASSUME w.since < from PROVE Balance!Anchors(c, from, to) = {}
  <2>1. declared = {}
    BY <1>3, <1>5, <1>7, <1>8
  <2>2. QED
    BY <1>2, <2>1
<1>9. ASSUME from <= w.since, w.since <= to PROVE Balance!Anchors(c, from, to) = {a}
  BY <1>2, <1>6, <1>7, <1>9
<1>10. QED
  BY <1>8, <1>9

\* After the anchor is what was recorded after it and not dated before it.
LEMMA AfterTheAnchor ==
    ASSUME BalanceInv, NEW c, NEW w, NEW a \in movements, IsTheAnchor(a, movements, w, c),
           NEW r \in movements
    PROVE  /\ Balance!AfterAnchor(r, a)
                <=> (r.id > w.anchor /\ Balance!EffectiveDate(r) >= w.since)
           /\ Balance!EffectiveDate(r) \in Int /\ Balance!EffectiveDate(r) <= Balance!Today
<1>1. movements \in SUBSET BalanceRow /\ RowsFit(movements, hour) /\ hour \in Int
  BY BalanceConstants DEF BalanceInv, BalanceHolds
<1>2. /\ a.id \in Nat /\ r.id \in Nat /\ a.ts \in Int /\ r.ts \in Int
      /\ r.date \in Int \cup {NoDate} /\ Balance!LocalDay(a.ts) \in Int
      /\ Balance!LocalDay(r.ts) \in Int /\ Balance!LocalDay(hour) \in Int
  BY <1>1, RowFields, DayReached
<1> DEFINE day == Balance!LocalDay(a.ts)
<1>3. a.date = day /\ w.since = day /\ w.anchor = a.id /\ NoDate \notin Int
  BY <1>1, BalanceConstants DEF RowsFit, IsTheAnchor
<1>4. Balance!EffectiveDate(a) = day
  BY <1>2, <1>3 DEF Balance!EffectiveDate
<1>5. Balance!LocalDay(r.ts) > day => r.id > a.id
  <2>1. CASE r = a
    BY <1>2, <2>1
  <2>2. CASE r # a /\ ~(r.id > a.id)
    <3>1. r.id < a.id
      BY <1>1, <1>2, <2>2 DEF RowsFit
    <3>2. r.ts <= a.ts
      BY <1>1, <3>1 DEF RowsFit
    <3>3. Balance!LocalDay(r.ts) <= day
      BY <1>2, <3>2, DaysFollow
    <3>4. QED
      BY <1>2, <3>3
  <2>3. QED
    BY <2>1, <2>2
<1>6. /\ r.date # NoDate => r.date <= Balance!LocalDay(r.ts)
      /\ Balance!LocalDay(r.ts) <= Balance!LocalDay(hour)
  <2>1. r.ts <= hour
    BY <1>1 DEF RowsFit
  <2>2. QED
    BY <1>1, <1>2, <2>1, DaysFollow DEF RowsFit
<1>7. /\ r.ts >= Balance!DayStart(day) <=> Balance!LocalDay(r.ts) >= day
      /\ r.ts >= Balance!DayStart(day + 1) <=> Balance!LocalDay(r.ts) >= day + 1
  BY <1>2, DayReached
<1>8. CASE r.date = NoDate
  <2>1. Balance!EffectiveDate(r) = Balance!LocalDay(r.ts)
    BY <1>8 DEF Balance!EffectiveDate
  <2>2. Balance!AfterAnchor(r, a) <=>
          (r.ts >= Balance!DayStart(day + 1) \/ (r.ts >= Balance!DayStart(day) /\ r.id > a.id))
    BY <1>4, <1>8 DEF Balance!AfterAnchor
  <2> HIDE DEF day
  <2>3. day \in Int
    BY <1>2 DEF day
  <2>4. QED
    BY <1>2, <1>3, <1>5, <1>6, <1>7, <2>1, <2>2, <2>3 DEF Balance!Today
<1>9. CASE r.date # NoDate
  <2>1. Balance!EffectiveDate(r) = r.date /\ r.date \in Int
    BY <1>2, <1>9 DEF Balance!EffectiveDate
  <2>2. Balance!AfterAnchor(r, a) <=> (r.date > day \/ (r.date = day /\ r.id > a.id))
    BY <1>4, <1>9 DEF Balance!AfterAnchor
  <2> HIDE DEF day
  <2>3. day \in Int
    BY <1>2 DEF day
  <2>4. QED
    BY <1>2, <1>3, <1>5, <1>6, <1>9, <2>1, <2>2, <2>3 DEF Balance!Today
<1>10. QED
  BY <1>8, <1>9

LEMMA MonthIsReached ==
    ASSUME BalanceInv
    PROVE  /\ Balance!MonthStart(Balance!Today) \in MonthStarts
           /\ Balance!MonthStart(Balance!Today) \in Int /\ Balance!Today \in Int
           /\ Balance!MonthStart(Balance!Today) <= Balance!Today
<1>1. hour \in Int /\ BalanceFirst \in Int /\ BalanceFirst <= hour
  BY BalanceConstants DEF BalanceInv, BalanceHolds
<1>2. /\ Balance!LocalDay(BalanceFirst) \in Int /\ Balance!LocalDay(hour) \in Int
      /\ Balance!LocalDay(BalanceFirst) <= Balance!LocalDay(hour)
  BY <1>1, DaysFollow, DayReached
<1>3. PICK first \in MonthStarts : first <= Balance!LocalDay(BalanceFirst)
  BY BalanceConstants
<1>4. first \in Int /\ first <= Balance!LocalDay(hour)
  BY <1>2, <1>3, BalanceConstants
<1>5. /\ Balance!MonthStart(Balance!LocalDay(hour)) \in MonthStarts
      /\ Balance!MonthStart(Balance!LocalDay(hour)) <= Balance!LocalDay(hour)
  BY <1>2, <1>4, MonthHasBegun
<1>6. QED
  BY <1>2, <1>5, BalanceConstants DEF Balance!Today

LEMMA WalletIsTold ==
    ASSUME BalanceInv, NEW c \in BalanceCurrencies, wallet[c].known,
           wallet[c].since >= Balance!MonthStart(Balance!Today) - CARRY_OVER_DAYS
    PROVE  Balance!BalanceFrom(c, Balance!MonthStart(Balance!Today), Balance!Today, FALSE)
             = wallet[c].money
<1> DEFINE w == wallet[c]
           m == Balance!MonthStart(Balance!Today)
           today == Balance!Today
<1>1. /\ movements \in SUBSET BalanceRow /\ IsFiniteSet(movements)
      /\ w \in Purse /\ w.since \in Int /\ IsCounted(movements, w, c)
  BY DEF BalanceInv, BalanceHolds, Purse
<1>2. PICK a \in movements :
        /\ IsTheAnchor(a, movements, w, c)
        /\ w.money = a.amount + Balance!Total(EarnedSince(movements, w, c))
                        - Balance!Total(SpentSince(movements, w, c))
  BY <1>1 DEF IsCounted
<1>3. m \in MonthStarts /\ m \in Int /\ today \in Int /\ m <= today /\ CARRY_OVER_DAYS \in Nat
  BY MonthIsReached, BalanceConstants
<1>4. w.since >= m - CARRY_OVER_DAYS
  OBVIOUS
<1>5. /\ a.kind = "initial" /\ a.currency = c /\ Balance!EffectiveDate(a) = w.since
      /\ w.since <= today
  <2>1. a.kind = "initial" /\ a.currency = c
    BY <1>2 DEF IsTheAnchor
  <2> HIDE DEF w
  <2>2. Balance!EffectiveDate(a) = w.since
    BY <1>2, <2>1, AnchorIsNewest
  <2>3. Balance!EffectiveDate(a) <= today
    BY <1>2, AfterTheAnchor
  <2>4. QED
    BY <2>1, <2>2, <2>3
<1> HIDE DEF w, m, today
<1> DEFINE first == IF m <= w.since THEN m ELSE w.since
<1>6. \/ Balance!Anchors(c, m, today) = {a} /\ first = m
      \/ /\ Balance!Anchors(c, m, today) = {} /\ m \in MonthStarts
         /\ Balance!Anchors(c, m - CARRY_OVER_DAYS, m - 1) = {a}
         /\ first = Balance!EffectiveDate(a)
  <2>1. CASE m <= w.since
    BY <1>2, <1>3, <1>5, <2>1, AnchorsOfThePeriod
  <2>2. CASE ~(m <= w.since)
    <3>1. w.since < m /\ w.since <= m - 1 /\ m - CARRY_OVER_DAYS \in Int /\ m - 1 \in Int
      BY <1>1, <1>3, <2>2
    <3>2. Balance!Anchors(c, m, today) = {}
      BY <1>2, <1>3, <3>1, AnchorsOfThePeriod
    <3>3. Balance!Anchors(c, m - CARRY_OVER_DAYS, m - 1) = {a}
      BY <1>2, <1>4, <3>1, AnchorsOfThePeriod
    <3>4. QED
      BY <1>3, <1>5, <2>2, <3>2, <3>3
  <2>3. QED
    BY <2>1, <2>2
<1>7. first \in Int /\ first <= w.since
  BY <1>1, <1>3
<1> HIDE DEF first
<1>8. BalanceBetween(c, m, today) = CountedFrom(c, a, first, today)
  BY <1>3, <1>6, BalanceFromOne
<1>9. \A r \in movements :
        /\ Balance!AfterAnchor(r, a) <=> (r.id > w.anchor /\ Balance!EffectiveDate(r) >= w.since)
        /\ Balance!EffectiveDate(r) \in Int /\ Balance!EffectiveDate(r) <= today
        /\ r.id \in Nat
  BY <1>1, <1>2, AfterTheAnchor, RowFields DEF today
<1>10. first # NoDate /\ today # NoDate
  BY <1>3, <1>7, BalanceConstants
<1>11. CountedExpenses(c, a, first, today) = SpentSince(movements, w, c)
  <2>1. ASSUME NEW r
        PROVE  r \in CountedExpenses(c, a, first, today) <=> r \in SpentSince(movements, w, c)
    <3>1. r \in movements => (r.id > w.anchor /\ Balance!EffectiveDate(r) >= w.since
                                => Balance!EffectiveDate(r) >= first)
      BY <1>1, <1>7, <1>9
    <3>2. QED
      BY <1>9, <1>10, <3>1
         DEF CountedExpenses, Balance!Between, Balance!Expenses, SpentSince, CountsIn
  <2>2. QED
    BY <2>1
<1>12. CountedIncomes(c, a, first, today) = EarnedSince(movements, w, c) \cup {a}
  <2>1. ASSUME NEW r
        PROVE  r \in CountedIncomes(c, a, first, today)
                 <=> r \in EarnedSince(movements, w, c) \cup {a}
    <3>1. r \in movements => (r.id > w.anchor /\ Balance!EffectiveDate(r) >= w.since
                                => Balance!EffectiveDate(r) >= first)
      BY <1>1, <1>7, <1>9
    <3>2. Balance!EffectiveDate(a) >= first
      BY <1>1, <1>5, <1>7
    <3>3. ASSUME r \in movements, r.kind = "initial", r.currency = c PROVE ~(r.id > w.anchor)
      BY <1>2, <1>9, <3>3 DEF IsTheAnchor
    <3>4. CASE r = a
      BY <1>5, <1>9, <1>10, <3>2, <3>4 DEF CountedIncomes, Balance!Between, Balance!Incomes
    <3>5. CASE r # a
      BY <1>9, <1>10, <3>1, <3>3, <3>5
         DEF CountedIncomes, Balance!Between, Balance!Incomes, Balance!IsInitial, EarnedSince,
             CountsIn
    <3>6. QED
      BY <3>4, <3>5
  <2>2. QED
    BY <2>1
<1>13. Balance!Total(EarnedSince(movements, w, c) \cup {a})
         = a.amount + Balance!Total(EarnedSince(movements, w, c))
  <2>1. /\ IsFiniteSet(EarnedSince(movements, w, c)) /\ \A r \in movements : r.amount \in Nat
        /\ EarnedSince(movements, w, c) \in SUBSET movements
    BY <1>1, CountedSets DEF EarnedSince
  <2>2. a \notin EarnedSince(movements, w, c)
    BY <1>2, <1>9 DEF EarnedSince, CountsIn, IsTheAnchor
  <2>3. QED
    BY <2>1, <2>2, TotalWith
<1>14. BalanceBetween(c, m, today) = w.money
  <2>1. CountedFrom(c, a, first, today)
          = Balance!Total(EarnedSince(movements, w, c) \cup {a})
              - Balance!Total(SpentSince(movements, w, c))
    BY <1>11, <1>12 DEF CountedFrom
  <2>2. /\ a.amount \in Int /\ Balance!Total(EarnedSince(movements, w, c)) \in Int
        /\ Balance!Total(SpentSince(movements, w, c)) \in Int
    BY <1>1, CountedSets
  <2>3. QED
    BY <1>2, <1>8, <1>13, <2>1, <2>2
<1>15. QED
  BY <1>14 DEF BalanceBetween, m, today, w

LEMMA BalanceTold == BalanceInv => Balance!BalanceIsSound
<1> SUFFICES ASSUME BalanceInv PROVE Balance!BalanceIsSound
  OBVIOUS
<1> DEFINE m == Balance!MonthStart(Balance!Today)
<1>1. m \in Int
  BY MonthIsReached
<1>2. \A c \in BalanceCurrencies :
        /\ Balance!ComputeBalance(c, NoDate, NoDate, FALSE)
             = Balance!BalanceFrom(c, m, Balance!Today, FALSE)
        /\ Balance!ComputeBalance(c, m, NoDate, FALSE)
             = Balance!BalanceFrom(c, m, Balance!Today, FALSE)
  BY <1>1, BalanceAsked
<1>3. \A c \in BalanceCurrencies :
        (wallet[c].known /\ wallet[c].since >= m - CARRY_OVER_DAYS)
          => Balance!BalanceFrom(c, m, Balance!Today, FALSE) = wallet[c].money
  BY WalletIsTold
<1>4. Balance!BalanceIsTheWallet
  BY <1>2, <1>3 DEF Balance!BalanceIsTheWallet
<1>5. Balance!ExplicitMonthIsTheDefault
  BY <1>2 DEF Balance!ExplicitMonthIsTheDefault
<1>6. QED
  BY <1>4, <1>5, BalanceTypes DEF Balance!BalanceIsSound

THEOREM BalanceInvariantHolds == Balance!Spec => []BalanceInv
BY BalanceStarts, BalanceKept, PTL DEF Balance!Spec

\* A behaviour about the balance is one of its specification.
AboutBalance == focus = "balance"

LEMMA BalanceSteps ==
    [ReportStep \/ BalanceStep \/ MailStep \/ CategoryStep]_allVars =>
      /\ AboutBalance => AboutBalance' /\ [Balance!Next]_(Balance!vars)
      /\ ~AboutBalance => ~AboutBalance'
BY DEF AboutBalance, ReportStep, BalanceStep, MailStep, CategoryStep, allVars, balanceVars,
       Balance!vars

\* For any amounts, currencies, calendar and time zone, and any order in which money is
\* declared, movements are recorded (also with a past date) and deleted and days pass:
\* the balance that the user is told, while the last declaration is of this month or of
\* the carried days before it, is the declared amount with each later movement once, and
\* naming the current month asks for the same as naming none.
THEOREM BalanceSound == RecordsSpec => []BalanceIsSound
<1>1. RecordsInit /\ AboutBalance => Balance!Init
  BY DEF RecordsInit, AboutBalance
<1>2. BalanceInv => Balance!BalanceIsSound
  BY BalanceTold
<1>3. QED
  BY <1>1, <1>2, BalanceSteps, BalanceInvariantHolds, PTL
     DEF RecordsSpec, BalanceIsSound, Balance!Spec, AboutBalance

-----------------------------------------------------------------------------
(* The reports: sums.                                                      *)

\* The total of a part of some rows is a sum of the amounts of all of them.
LEMMA ReportTotal ==
    ASSUME NEW S PROVE Total(S) = SumFunctionOnSet([r \in S |-> r.amount], S)
BY Zenon DEF Total, SumFunction

LEMMA PartTotal ==
    ASSUME NEW S, IsFiniteSet(S), \A r \in S : r.amount \in Nat, NEW T \in SUBSET S
    PROVE  Total(T) = SumFunctionOnSet([r \in S |-> r.amount], T)
<1> DEFINE f == [r \in T |-> r.amount]
           g == [r \in S |-> r.amount]
<1>1. IsFiniteSet(T)
  BY FS_Subset
<1>2. \A r \in T : f[r] \in Int /\ f[r] = g[r]
  OBVIOUS
<1>3. Total(T) = SumFunctionOnSet(f, T)
  BY ReportTotal
<1> HIDE DEF f, g
<1>4. SumFunctionOnSet(f, T) = SumFunctionOnSet(g, T)
  BY <1>1, <1>2, SumOfSame
<1>5. QED
  BY <1>3, <1>4 DEF g

LEMMA TotalType ==
    ASSUME NEW S, IsFiniteSet(S), \A r \in S : r.amount \in Nat
    PROVE  Total(S) \in Int
<1> DEFINE g == [r \in S |-> r.amount]
<1>1. \A r \in S : g[r] \in Int
  OBVIOUS
<1>2. Total(S) = SumFunctionOnSet(g, S)
  BY ReportTotal
<1> HIDE DEF g
<1>3. QED
  BY <1>1, <1>2, SumTakesOut

LEMMA NoTotal == Total({}) = 0
BY ReportTotal, SumOfNone

\* Of rows parted in two the totals add up, and a part comes to no more than all.
LEMMA TotalOfBoth ==
    ASSUME NEW S, IsFiniteSet(S), \A r \in S : r.amount \in Nat,
           NEW T \in SUBSET S, NEW U \in SUBSET S, T \cap U = {}
    PROVE  Total(T \cup U) = Total(T) + Total(U)
<1> DEFINE g == [r \in S |-> r.amount]
<1>1. \A r \in S : g[r] \in Int
  OBVIOUS
<1>2. \A V \in SUBSET S : Total(V) = SumFunctionOnSet(g, V)
  BY PartTotal
<1> HIDE DEF g
<1>3. SumFunctionOnSet(g, T \cup U) = SumFunctionOnSet(g, T) + SumFunctionOnSet(g, U)
  BY <1>1, SumOfUnion
<1>4. QED
  BY <1>2, <1>3

LEMMA TotalOfPart ==
    ASSUME NEW S, IsFiniteSet(S), \A r \in S : r.amount \in Nat, NEW T \in SUBSET S
    PROVE  Total(T) <= Total(S)
<1> DEFINE g == [r \in S |-> r.amount]
<1>1. \A r \in S : g[r] \in Nat
  OBVIOUS
<1>2. \A V \in SUBSET S : Total(V) = SumFunctionOnSet(g, V)
  BY PartTotal
<1> HIDE DEF g
<1>3. SumFunctionOnSet(g, T) <= SumFunctionOnSet(g, S)
  BY <1>1, SumOfLess
<1>4. QED
  BY <1>2, <1>3

\* Totals by some key add up to the total, whatever further keys are listed.
LEMMA TotalsByKey ==
    ASSUME NEW S, IsFiniteSet(S), \A r \in S : r.amount \in Nat,
           NEW K, IsFiniteSet(K), NEW key, \A r \in S : key[r] \in K
    PROVE  SumFunction([k \in K |-> Total({r \in S : key[r] = k})]) = Total(S)
<1> DEFINE g == [r \in S |-> r.amount]
           part == [k \in K |-> Total({r \in S : key[r] = k})]
<1>1. \A r \in S : g[r] \in Int
  OBVIOUS
<1>2. \A V \in SUBSET S : Total(V) = SumFunctionOnSet(g, V)
  BY PartTotal
<1> HIDE DEF g
<1> DEFINE of == [k \in K |-> {r \in S : key[r] = k}]
<1>3. /\ \A k \in K : of[k] = {r \in S : key[r] = k}
      /\ \A k \in K : part[k] = SumFunctionOnSet(g, of[k])
  BY <1>2
<1>4. DOMAIN part = K
  OBVIOUS
<1> HIDE DEF part, of
<1>5. SumFunctionOnSet(part, K) = SumFunctionOnSet(g, S)
  BY <1>1, <1>3, SumOfSums
<1>6. SumFunction(part) = SumFunctionOnSet(part, K)
  BY <1>4, Zenon DEF SumFunction
<1>7. QED
  BY <1>2, <1>5, <1>6 DEF part

\* SQL's GROUP BY: sums by a key, however the key is written.
LEMMA GroupsAddUp ==
    ASSUME NEW S, IsFiniteSet(S), \A r \in S : r.amount \in Nat, NEW key
    PROVE  SumFunction([k \in {key[r] : r \in S} |-> Total({r \in S : key[r] = k})]) = Total(S)
<1> DEFINE K == {key[r] : r \in S}
<1>1. IsFiniteSet(K) /\ \A r \in S : key[r] \in K
  BY ImagesAreFinite
<1> HIDE DEF K
<1>2. QED
  BY <1>1, TotalsByKey DEF K

LEMMA ByCategoryAddsUp ==
    ASSUME NEW S, IsFiniteSet(S), \A r \in S : r.amount \in Nat
    PROVE  SumFunction(ByCategory(S)) = Total(S)
<1> DEFINE key == [r \in S |-> Group(r)]
<1>1. ByCategory(S) = [k \in {key[r] : r \in S} |-> Total({r \in S : key[r] = k})]
  <2>1. {key[r] : r \in S} = {Group(r) : r \in S}
    OBVIOUS
  <2>2. \A k : {r \in S : key[r] = k} = {r \in S : Group(r) = k}
    OBVIOUS
  <2> HIDE DEF key
  <2>3. QED
    BY <2>1, <2>2 DEF ByCategory, SumBy
<1> HIDE DEF key
<1>2. QED
  BY <1>1, GroupsAddUp

-----------------------------------------------------------------------------
(* The reports: the calendar.                                              *)

LEMMA ReportConstants ==
    /\ HoursPerDay \in Nat \ {0} /\ WeekDays \in Nat \ {0} /\ YearSpan \in Nat
    /\ Offset \in Int /\ YearStarts \subseteq Int /\ MonthStarts \subseteq Int
    /\ YearStarts \subseteq MonthStarts /\ NoDate \notin Int
    /\ LineDayMax \in Nat /\ StackedDayMax \in Nat /\ WeekMax \in Nat
    /\ Stamps \subseteq Int /\ FirstHour \in Int /\ LastHour \in Int
    /\ FirstHour <= LastHour /\ Customs \subseteq Int \X Int
    /\ NoName \notin UserNames \cup GlobalNames
    /\ Amount \in [Ids -> Nat \ {0}]
BY CalendarAssumption, YearsAssumption, RecordsAssumption

\* An instant lies in a day from the day's first instant to its last.
LEMMA DayBounds ==
    ASSUME NEW ts \in Int, NEW d \in Int
    PROVE  /\ LocalDay(ts) \in Int
           /\ LocalDay(ts) >= d <=> DayStart(d) <= ts
           /\ LocalDay(ts) <= d <=> ts <= DayEnd(d)
<1>1. ts + Offset \in Int
  BY ReportConstants
<1>2. \A e \in Int : /\ (ts + Offset) \div HoursPerDay \in Int
                     /\ (ts + Offset) \div HoursPerDay >= e <=> ts + Offset >= e * HoursPerDay
  BY <1>1, ReportConstants, Quotients
<1>3. d * HoursPerDay \in Int /\ (d + 1) * HoursPerDay = d * HoursPerDay + HoursPerDay
  BY ReportConstants
<1>4. /\ LocalDay(ts) \in Int
      /\ LocalDay(ts) >= d <=> ts + Offset >= d * HoursPerDay
      /\ LocalDay(ts) >= d + 1 <=> ts + Offset >= (d + 1) * HoursPerDay
  BY <1>2 DEF LocalDay
<1>5. DayStart(d) = d * HoursPerDay - Offset /\ DayEnd(d) = d * HoursPerDay - Offset + HoursPerDay - 1
  BY Zenon DEF DayStart, DayEnd
<1>6. LocalDay(ts) <= d <=> ~(LocalDay(ts) >= d + 1)
  BY <1>4
<1> DEFINE D == d * HoursPerDay
           E == (d + 1) * HoursPerDay
<1> HIDE DEF D, E
<1>7. D \in Int /\ E = D + HoursPerDay /\ HoursPerDay \in Int /\ Offset \in Int
  BY <1>3, ReportConstants DEF D, E
<1>8. /\ LocalDay(ts) >= d <=> ts + Offset >= D
      /\ LocalDay(ts) >= d + 1 <=> ts + Offset >= E
      /\ DayStart(d) = D - Offset /\ DayEnd(d) = D - Offset + HoursPerDay - 1
  BY <1>4, <1>5 DEF D, E
<1>9. QED
  BY <1>4, <1>6, <1>7, <1>8

Days == Int \X Int

LEMMA WindowDays == \A w \in Days : w[1] \in Int /\ w[2] \in Int
BY DEF Days

\* Instants and dates of a window are those of its days.
LEMMA InTheWindow ==
    ASSUME NEW r, r.ts \in Int, r.date \in Int \cup {NoDate}, NEW w \in Days
    PROVE  /\ EffectiveDate(r) \in Int
           /\ Stamped(r, w) <=> LocalDay(r.ts) \in w[1]..w[2]
           /\ InPeriod(r, w) <=> EffectiveDate(r) \in w[1]..w[2]
<1>1. w[1] \in Int /\ w[2] \in Int
  BY WindowDays
<1>2. /\ LocalDay(r.ts) \in Int
      /\ LocalDay(r.ts) >= w[1] <=> DayStart(w[1]) <= r.ts
      /\ LocalDay(r.ts) <= w[2] <=> r.ts <= DayEnd(w[2])
  BY <1>1, DayBounds
<1>3. Stamped(r, w) <=> LocalDay(r.ts) \in w[1]..w[2]
  BY <1>1, <1>2 DEF Stamped
<1>4. CASE r.date = NoDate
  BY <1>2, <1>3, <1>4 DEF InPeriod, EffectiveDate
<1>5. CASE r.date # NoDate
  BY <1>1, <1>3, <1>5 DEF InPeriod, EffectiveDate
<1>6. QED
  BY <1>4, <1>5

LEMMA LaterDay ==
    ASSUME NEW s \in Int, NEW t \in Int, s <= t
    PROVE  LocalDay(s) <= LocalDay(t)
<1>1. LocalDay(s) \in Int /\ LocalDay(t) \in Int
  BY DayBounds
<1>2. DayStart(LocalDay(s)) <= s
  BY <1>1, DayBounds
<1>3. DayStart(LocalDay(s)) \in Int
  BY <1>1, ReportConstants DEF DayStart
<1>4. DayStart(LocalDay(s)) <= t
  BY <1>2, <1>3
<1>5. QED
  BY <1>1, <1>4, DayBounds

\* Weeks begin every WeekDays days.
LEMMA Weeks ==
    ASSUME NEW d \in Int
    PROVE  /\ WeekStart(d) \in Int /\ WeekStart(d) <= d /\ d < WeekStart(d) + WeekDays
           /\ \E n \in Int : WeekStart(d) = WeekDays * n
<1> DEFINE q == d \div WeekDays
           r == d % WeekDays
<1>1. WeekDays \in Nat \ {0}
  BY ReportConstants
<1>2. q \in Int /\ r \in 0..(WeekDays - 1) /\ d = WeekDays * q + r
  BY <1>1
<1>3. WeekStart(d) = d - r
  BY DEF WeekStart
<1>4. WeekDays * q \in Int
  BY <1>1, <1>2
<1> HIDE DEF q, r
<1>5. WeekStart(d) = WeekDays * q
  BY <1>2, <1>3, <1>4
<1>6. QED
  BY <1>1, <1>2, <1>3, <1>5

\* Multiples of a number less than it apart are equal.
LEMMA Multiples ==
    ASSUME NEW h \in Nat \ {0}, NEW m \in Int, NEW n \in Int, h * m < h * n + h
    PROVE  m <= n
<1>1. SUFFICES ASSUME m > n PROVE FALSE
  OBVIOUS
<1>2. PICK k \in Nat : m = n + 1 + k
  <2>1. m - n - 1 \in Nat /\ m = n + 1 + (m - n - 1)
    BY <1>1
  <2>2. QED
    BY <2>1
<1>3. h * m = h * n + h + h * k /\ h * k >= 0
  BY <1>2
<1>4. h * n \in Int /\ h * k \in Int
  BY <1>2
<1>5. QED
  BY <1>3, <1>4

LEMMA MultiplesGrow ==
    ASSUME NEW h \in Nat \ {0}, NEW m \in Int, NEW n \in Int, m <= n
    PROVE  h * m <= h * n
<1>1. PICK k \in Nat : n = m + k
  <2>1. n - m \in Nat /\ n = m + (n - m)
    OBVIOUS
  <2>2. QED
    BY <2>1
<1>2. h * n = h * m + h * k /\ h * k >= 0 /\ h * m \in Int /\ h * k \in Int
  BY <1>1
<1>3. QED
  BY <1>2

LEMMA WeeksFollow ==
    ASSUME NEW d \in Int, NEW e \in Int, d <= e
    PROVE  WeekStart(d) <= WeekStart(e)
<1>1. WeekDays \in Nat \ {0}
  BY ReportConstants
<1>2. PICK m \in Int : WeekStart(d) = WeekDays * m
  BY Weeks
<1>3. PICK n \in Int : WeekStart(e) = WeekDays * n
  BY Weeks
<1>4. WeekDays * m < WeekDays * n + WeekDays
  <2>1. /\ WeekStart(d) \in Int /\ WeekStart(d) <= d
        /\ WeekStart(e) \in Int /\ e < WeekStart(e) + WeekDays
    BY Weeks
  <2>2. WeekStart(d) < WeekStart(e) + WeekDays
    BY <1>1, <2>1
  <2>3. QED
    BY <1>2, <1>3, <2>2
<1>5. m <= n
  BY <1>1, <1>4, Multiples
<1>6. QED
  BY <1>1, <1>2, <1>3, <1>5, MultiplesGrow

\* The week of a multiple begins with it.
LEMMA WeekOfMultiple ==
    ASSUME NEW d \in Int, NEW n \in Int, d = WeekDays * n
    PROVE  WeekStart(d) = d
<1>1. WeekDays \in Nat \ {0}
  BY ReportConstants
<1>2. PICK m \in Int : WeekStart(d) = WeekDays * m
  BY Weeks
<1>3. WeekStart(d) \in Int /\ WeekStart(d) <= d /\ d < WeekStart(d) + WeekDays
  BY Weeks
<1>4. WeekDays * n < WeekDays * m + WeekDays /\ WeekDays * m \in Int
  BY <1>2, <1>3
<1>5. n <= m
  BY <1>1, <1>4, Multiples
<1>6. WeekDays * n <= WeekDays * m
  BY <1>1, <1>5, MultiplesGrow
<1>7. QED
  BY <1>2, <1>3, <1>6

LEMMA WeekOfWeek ==
    ASSUME NEW d \in Int PROVE WeekStart(WeekStart(d)) = WeekStart(d)
BY Weeks, WeekOfMultiple

LEMMA WeekBefore ==
    ASSUME NEW d \in Int PROVE WeekStart(d - WeekDays) = WeekStart(d) - WeekDays
<1>1. WeekDays \in Nat \ {0}
  BY ReportConstants
<1>2. PICK n \in Int : WeekStart(d) = WeekDays * n
  BY Weeks
<1>3. PICK m \in Int : WeekStart(d - WeekDays) = WeekDays * m
  <2>1. d - WeekDays \in Int
    BY <1>1
  <2>2. QED
    BY <2>1, Weeks
<1>4. /\ WeekStart(d) \in Int /\ WeekStart(d) <= d /\ d < WeekStart(d) + WeekDays
      /\ WeekStart(d - WeekDays) \in Int /\ WeekStart(d - WeekDays) <= d - WeekDays
      /\ d - WeekDays < WeekStart(d - WeekDays) + WeekDays
  BY <1>1, Weeks
<1>5. WeekDays * (m + 1) = WeekDays * m + WeekDays /\ WeekDays * m \in Int /\ WeekDays * n \in Int
  BY <1>1
<1>6. WeekDays * n < WeekDays * (m + 1) + WeekDays /\ WeekDays * (m + 1) < WeekDays * n + WeekDays
  BY <1>1, <1>2, <1>3, <1>4, <1>5
<1>7. n <= m + 1 /\ m + 1 <= n /\ m + 1 \in Int
  BY <1>1, <1>6, Multiples
<1>8. n = m + 1
  BY <1>7
<1>9. WeekDays * n = WeekDays * m + WeekDays
  BY <1>5, <1>8
<1>10. QED
  BY <1>1, <1>2, <1>3, <1>5, <1>9

LEMMA WeeksApart ==
    ASSUME NEW d \in Int, NEW e \in Int, WeekStart(d) = d, WeekStart(e) = e
    PROVE  (e - d) % WeekDays = 0
<1>1. WeekDays \in Nat \ {0}
  BY ReportConstants
<1>2. PICK m \in Int : d = WeekDays * m
  BY Weeks
<1>3. PICK n \in Int : e = WeekDays * n
  BY Weeks
<1> DEFINE x == e - d
           q == x \div WeekDays
           r == x % WeekDays
<1>4. q \in Int /\ r \in 0..(WeekDays - 1) /\ x = WeekDays * q + r
  BY <1>1
<1> HIDE DEF q, r
<1>5. x = WeekDays * (n - m) /\ n - m \in Int /\ WeekDays * q \in Int
  BY <1>1, <1>2, <1>3, <1>4
<1>6. WeekDays * (n - m) < WeekDays * q + WeekDays
  BY <1>1, <1>4, <1>5
<1>7. n - m <= q
  BY <1>1, <1>4, <1>5, <1>6, Multiples
<1>8. WeekDays * (n - m) <= WeekDays * q
  BY <1>1, <1>4, <1>5, <1>7, MultiplesGrow
<1>9. r = 0
  BY <1>1, <1>4, <1>5, <1>8
<1>10. QED
  BY <1>9 DEF r

-----------------------------------------------------------------------------
(* Months and years.                                                       *)

\* Of numbers that stay below a bound one is greatest.
LEMMA Latest ==
    ASSUME NEW D \in SUBSET Int, NEW b \in Int, \A s \in D : s <= b, D # {}
    PROVE  Max(D) \in D /\ \A s \in D : s <= Max(D)
<1> DEFINE ago == {b - s : s \in D}
<1>1. ago \subseteq Nat /\ ago # {}
  <2>1. \A s \in D : b - s \in Nat
    OBVIOUS
  <2>2. QED
    BY <2>1
<1> HIDE DEF ago
<1>2. PICK n \in ago : \A m \in ago : ~ (<<m, n>> \in OpToRel(<, Nat))
  BY Zenon, <1>1, NatLessThanWellFounded, WFMin
<1>3. \A m \in ago : ~ (m < n)
  BY Zenon, <1>1, <1>2 DEF OpToRel
<1>4. PICK s \in D : n = b - s
  BY DEF ago
<1>5. \A t \in D : b - t \in ago
  BY DEF ago
<1>6. \A t \in D : s >= t
  <2> TAKE t \in D
  <2>1. ~ (b - t < b - s) /\ t \in Int /\ s \in Int
    BY <1>3, <1>4, <1>5
  <2>2. QED
    BY <2>1
<1>7. Max(D) \in D /\ \A t \in D : Max(D) >= t
  BY <1>6, Zenon DEF Max
<1>8. QED
  BY <1>7

LEMMA Earliest ==
    ASSUME NEW D \in SUBSET Int, NEW b \in Int, \A s \in D : b <= s, D # {}
    PROVE  Min(D) \in D /\ \A s \in D : Min(D) <= s
<1> DEFINE ahead == {s - b : s \in D}
<1>1. ahead \subseteq Nat /\ ahead # {}
  <2>1. \A s \in D : s - b \in Nat
    OBVIOUS
  <2>2. QED
    BY <2>1
<1> HIDE DEF ahead
<1>2. PICK n \in ahead : \A m \in ahead : ~ (<<m, n>> \in OpToRel(<, Nat))
  BY Zenon, <1>1, NatLessThanWellFounded, WFMin
<1>3. \A m \in ahead : ~ (m < n)
  BY Zenon, <1>1, <1>2 DEF OpToRel
<1>4. PICK s \in D : n = s - b
  BY DEF ahead
<1>5. \A t \in D : t - b \in ahead
  BY DEF ahead
<1>6. \A t \in D : s <= t
  <2> TAKE t \in D
  <2>1. ~ (t - b < s - b) /\ t \in Int /\ s \in Int
    BY <1>3, <1>4, <1>5
  <2>2. QED
    BY <2>1
<1>7. Min(D) \in D /\ \A t \in D : Min(D) <= t
  BY <1>6, Zenon DEF Min
<1>8. QED
  BY <1>7

\* The month or year of a day has begun by then, and no other began since.
LEMMA HasBegun ==
    ASSUME NEW starts \in SUBSET Int, NEW day \in Int, NEW s \in starts, s <= day
    PROVE  /\ Begun(starts, day) \in starts /\ Begun(starts, day) \in Int
           /\ Begun(starts, day) <= day
           /\ \A t \in starts : t <= day => t <= Begun(starts, day)
<1> DEFINE D == {t \in starts : t <= day}
<1>1. D \in SUBSET Int /\ D # {} /\ \A t \in D : t <= day
  OBVIOUS
<1>2. Max(D) \in D /\ \A t \in D : t <= Max(D)
  <2> HIDE DEF D
  <2>1. QED
    BY <1>1, Latest
<1>3. QED
  BY <1>2 DEF Begun

LEMMA IsComing ==
    ASSUME NEW starts \in SUBSET Int, NEW day \in Int, NEW s \in starts, day < s
    PROVE  /\ Coming(starts, day) \in starts /\ Coming(starts, day) \in Int
           /\ day < Coming(starts, day)
           /\ \A t \in starts : day < t => Coming(starts, day) <= t
<1> DEFINE D == {t \in starts : t > day}
<1>1. D \in SUBSET Int /\ D # {} /\ \A t \in D : day <= t
  <2>1. s \in Int /\ s > day /\ D \in SUBSET Int /\ \A t \in D : t > day
    OBVIOUS
  <2>2. \A t \in Int : t > day => day <= t
    OBVIOUS
  <2>3. QED
    BY <2>1, <2>2
<1>2. Min(D) \in D /\ \A t \in D : Min(D) <= t
  <2> HIDE DEF D
  <2>1. QED
    BY <1>1, Earliest
<1>3. QED
  BY <1>2 DEF Coming

LEMMA MonthsBegin ==
    ASSUME NEW day \in Int, NEW s \in MonthStarts, s <= day
    PROVE  /\ MonthStart(day) \in MonthStarts /\ MonthStart(day) \in Int
           /\ MonthStart(day) <= day
           /\ \A t \in MonthStarts : t <= day => t <= MonthStart(day)
BY ReportConstants, HasBegun DEF MonthStart

LEMMA YearsBegin ==
    ASSUME NEW day \in Int, NEW s \in YearStarts, s <= day
    PROVE  /\ YearStart(day) \in YearStarts /\ YearStart(day) \in Int
           /\ YearStart(day) <= day
           /\ \A t \in YearStarts : t <= day => t <= YearStart(day)
BY ReportConstants, HasBegun DEF YearStart

LEMMA MonthsEnd ==
    ASSUME NEW day \in Int, NEW s \in MonthStarts, day < s
    PROVE  /\ MonthEnd(day) \in Int /\ day <= MonthEnd(day)
           /\ \A t \in MonthStarts : day < t => MonthEnd(day) < t
<1> DEFINE c == Coming(MonthStarts, day)
<1>1. c \in Int /\ day < c /\ \A t \in MonthStarts : day < t => c <= t
  BY ReportConstants, IsComing
<1>2. MonthEnd(day) = c - 1 /\ MonthStarts \subseteq Int
  BY ReportConstants DEF MonthEnd
<1> HIDE DEF c
<1>3. QED
  BY <1>1, <1>2

LEMMA YearsEnd ==
    ASSUME NEW day \in Int, NEW s \in YearStarts, day < s
    PROVE  /\ YearEnd(day) \in Int /\ day <= YearEnd(day)
           /\ \A t \in YearStarts : day < t => YearEnd(day) < t
<1> DEFINE c == Coming(YearStarts, day)
<1>1. c \in Int /\ day < c /\ \A t \in YearStarts : day < t => c <= t
  BY ReportConstants, IsComing
<1>2. YearEnd(day) = c - 1 /\ YearStarts \subseteq Int
  BY ReportConstants DEF YearEnd
<1> HIDE DEF c
<1>3. QED
  BY <1>1, <1>2

\* A month of days between its start and the next has no other start.
LEMMA SameMonth ==
    ASSUME NEW day \in Int, NEW s \in MonthStarts, s <= day, NEW t \in MonthStarts, day < t,
           NEW d \in MonthStart(day)..MonthEnd(day)
    PROVE  MonthStart(d) = MonthStart(day)
<1>1. /\ MonthStart(day) \in MonthStarts /\ MonthStart(day) \in Int
      /\ MonthStart(day) <= day
      /\ \A u \in MonthStarts : u <= day => u <= MonthStart(day)
  BY MonthsBegin
<1>2. /\ MonthEnd(day) \in Int
      /\ \A u \in MonthStarts : day < u => MonthEnd(day) < u
  BY MonthsEnd
<1>3. d \in Int /\ MonthStart(day) <= d /\ d <= MonthEnd(day)
  BY <1>1, <1>2
<1>4. /\ MonthStart(d) \in MonthStarts /\ MonthStart(d) \in Int
      /\ MonthStart(d) <= d
      /\ \A u \in MonthStarts : u <= d => u <= MonthStart(d)
  BY <1>1, <1>3, MonthsBegin
<1>5. QED
  BY <1>1, <1>2, <1>3, <1>4

\* The first day of no month before is the first day of the month.
LEMMA NoMonthsBack ==
    ASSUME NEW day \in Int, NEW s \in MonthStarts, s <= day
    PROVE  MonthsBack(0, day) = MonthStart(day)
<1> DEFINE Since(u) == {t \in MonthStarts : u < t /\ t <= day}
<1>1. /\ MonthStart(day) \in MonthStarts /\ MonthStart(day) \in Int
      /\ MonthStart(day) <= day
      /\ \A u \in MonthStarts : u <= day => u <= MonthStart(day)
  BY MonthsBegin
<1>2. \A u \in MonthStarts : u \in Int
  BY ReportConstants
<1>3. \A u \in MonthStarts : Cardinality(Since(u)) = 0 <=> Since(u) = {}
  <2> TAKE u \in MonthStarts
  <2>1. IsFiniteSet(u..day)
    BY <1>2, FS_Interval
  <2>2. Since(u) \in SUBSET (u..day)
    BY <1>2
  <2> HIDE DEF Since
  <2>3. IsFiniteSet(Since(u))
    BY <2>1, <2>2, FS_Subset
  <2>4. QED
    BY <2>3, FS_EmptySet
<1>4. \A u \in MonthStarts : u <= day => (Since(u) = {} <=> u = MonthStart(day))
  BY <1>1, <1>2
<1>5. MonthsBack(0, day) = CHOOSE u \in MonthStarts : u <= day /\ Cardinality(Since(u)) = 0
  BY DEF MonthsBack
<1> HIDE DEF Since
<1>6. \A u \in MonthStarts : (u <= day /\ Cardinality(Since(u)) = 0) <=> u = MonthStart(day)
  BY <1>1, <1>3, <1>4
<1>7. QED
  BY <1>1, <1>5, <1>6, Zenon

-----------------------------------------------------------------------------
(* The reports: the windows of the days lived.                             *)

\* A day from which the reports look at no day before the calendar.
Horizon(first, day) ==
    /\ first \in YearStarts /\ day \in Int
    /\ \A range \in Customs : first <= WeekStart(range[1])
    /\ first <= WeekStart(day - YearSpan)
    /\ \E y, z \in YearStarts : first <= WeekStart(y) /\ y < z /\ z <= day
    /\ \E next \in YearStarts : day < next

LEMMA WithinHorizon ==
    ASSUME now \in FirstHour..LastHour PROVE \E first : Horizon(first, Today)
<1>1. now \in Int
  BY ReportConstants
<1>2. Today \in Int
  BY <1>1, DayBounds DEF Today
<1>3. QED
  BY <1>2, HorizonAssumption DEF Horizon, Today

\* The month and the year of such a day and those before have begun and end.
LEMMA LivedMonth ==
    ASSUME NEW first, NEW day, Horizon(first, day)
    PROVE  /\ first \in Int /\ first \in MonthStarts /\ day \in Int
           /\ MonthStart(day) \in Int /\ MonthStart(day) \in MonthStarts
           /\ MonthStart(day) <= day
           /\ MonthEnd(day) \in Int /\ day <= MonthEnd(day)
           /\ \A t \in MonthStarts : t <= MonthEnd(day) => t <= MonthStart(day)
           /\ MonthStart(MonthStart(day) - 1) \in Int
           /\ MonthStart(MonthStart(day) - 1) <= MonthStart(day) - 1
           /\ \A t \in MonthStarts :
                t <= MonthStart(day) - 1 => t <= MonthStart(MonthStart(day) - 1)
           /\ first <= WeekStart(MonthStart(MonthStart(day) - 1))
<1>1. /\ day \in Int /\ first \in YearStarts /\ YearStarts \subseteq MonthStarts
      /\ MonthStarts \subseteq Int
  BY ReportConstants DEF Horizon
<1>2. PICK y, z \in YearStarts : first <= WeekStart(y) /\ y < z /\ z <= day
  BY DEF Horizon
<1>3. PICK next \in YearStarts : day < next
  BY DEF Horizon
<1>4. y \in MonthStarts /\ z \in MonthStarts /\ next \in MonthStarts /\ y \in Int /\ z \in Int
      /\ next \in Int /\ first \in Int
  BY <1>1
<1>5. /\ MonthStart(day) \in MonthStarts /\ MonthStart(day) \in Int
      /\ MonthStart(day) <= day
      /\ \A t \in MonthStarts : t <= day => t <= MonthStart(day)
  BY <1>1, <1>2, <1>4, MonthsBegin
<1>6. /\ MonthEnd(day) \in Int /\ day <= MonthEnd(day)
      /\ \A t \in MonthStarts : day < t => MonthEnd(day) < t
  BY <1>1, <1>3, <1>4, MonthsEnd
<1>7. \A t \in MonthStarts : t <= MonthEnd(day) => t <= MonthStart(day)
  BY <1>1, <1>5, <1>6
<1> DEFINE before == MonthStart(day) - 1
<1>8. before \in Int /\ y <= before
  BY <1>2, <1>4, <1>5
<1> HIDE DEF before
<1>9. /\ MonthStart(before) \in Int /\ MonthStart(before) <= before
      /\ \A t \in MonthStarts : t <= before => t <= MonthStart(before)
  BY <1>4, <1>8, MonthsBegin
<1>10. WeekStart(y) <= WeekStart(MonthStart(before))
  BY <1>4, <1>8, <1>9, WeeksFollow
<1>11. first <= WeekStart(MonthStart(before))
  <2>1. WeekStart(y) \in Int /\ WeekStart(MonthStart(before)) \in Int
    BY <1>4, <1>9, Weeks
  <2>2. QED
    BY <1>2, <1>4, <1>10, <2>1
<1>12. QED
  BY <1>1, <1>4, <1>5, <1>6, <1>7, <1>9, <1>11 DEF before

LEMMA LivedYear ==
    ASSUME NEW first, NEW day, Horizon(first, day)
    PROVE  /\ YearStart(day) \in Int /\ YearStart(day) <= day
           /\ YearEnd(day) \in Int /\ day <= YearEnd(day)
           /\ YearStart(YearStart(day) - 1) \in Int
           /\ YearStart(YearStart(day) - 1) <= YearStart(day) - 1
           /\ first <= WeekStart(YearStart(YearStart(day) - 1))
<1>1. /\ day \in Int /\ first \in YearStarts /\ YearStarts \subseteq Int
  BY ReportConstants DEF Horizon
<1>2. PICK y, z \in YearStarts : first <= WeekStart(y) /\ y < z /\ z <= day
  BY DEF Horizon
<1>3. PICK next \in YearStarts : day < next
  BY DEF Horizon
<1>4. y \in Int /\ z \in Int /\ next \in Int /\ first \in Int
  BY <1>1
<1>5. /\ YearStart(day) \in Int /\ YearStart(day) <= day
      /\ \A t \in YearStarts : t <= day => t <= YearStart(day)
  BY <1>1, <1>2, YearsBegin
<1>6. YearEnd(day) \in Int /\ day <= YearEnd(day)
  BY <1>1, <1>3, YearsEnd
<1> DEFINE before == YearStart(day) - 1
<1>7. before \in Int /\ y <= before
  BY <1>2, <1>4, <1>5
<1> HIDE DEF before
<1>8. /\ YearStart(before) \in Int /\ YearStart(before) <= before
      /\ \A t \in YearStarts : t <= before => t <= YearStart(before)
  BY <1>7, YearsBegin
<1>9. WeekStart(y) <= WeekStart(YearStart(before))
  BY <1>4, <1>7, <1>8, WeeksFollow
<1>10. first <= WeekStart(YearStart(before))
  <2>1. WeekStart(y) \in Int /\ WeekStart(YearStart(before)) \in Int
    BY <1>4, <1>8, Weeks
  <2>2. QED
    BY <1>2, <1>4, <1>9, <2>1
<1>11. QED
  BY <1>5, <1>6, <1>8, <1>10 DEF before

\* A day that is no earlier than one the calendar reaches is reached as well.
LEMMA ReachedSince ==
    ASSUME NEW first \in Int, NEW d \in Int, NEW e \in Int, d <= e, first <= WeekStart(d)
    PROVE  first <= WeekStart(e) /\ first <= e
<1>1. WeekStart(d) \in Int /\ WeekStart(e) \in Int /\ WeekStart(d) <= WeekStart(e)
      /\ WeekStart(e) <= e
  BY Weeks, WeeksFollow
<1>2. QED
  BY <1>1

LEMMA LivedWeek ==
    ASSUME NEW first, NEW day, Horizon(first, day)
    PROVE  /\ WeekDays \in Nat \ {0}
           /\ WeekStart(day) \in Int /\ WeekStart(day) <= day
           /\ day <= WeekStart(day) + WeekDays - 1
           /\ first <= WeekStart(WeekStart(day) - WeekDays)
           /\ first <= WeekStart(day - 1)
<1>1. day \in Int /\ first \in YearStarts /\ YearStarts \subseteq Int /\ WeekDays \in Nat \ {0}
  BY ReportConstants DEF Horizon
<1>2. PICK y, z \in YearStarts : first <= WeekStart(y) /\ y < z /\ z <= day
  BY DEF Horizon
<1>3. y \in Int /\ z \in Int /\ first \in Int
  BY <1>1
<1>4. z - y >= WeekDays
  BY <1>2, YearsAssumption
<1>5. WeekStart(day) \in Int /\ WeekStart(day) <= day /\ day < WeekStart(day) + WeekDays
  BY <1>1, Weeks
<1>6. WeekStart(day - WeekDays) = WeekStart(day) - WeekDays /\ day - WeekDays \in Int
      /\ WeekStart(WeekStart(day - WeekDays)) = WeekStart(day - WeekDays)
  <2>1. day - WeekDays \in Int
    BY <1>1
  <2>2. QED
    BY <1>1, <2>1, WeekBefore, WeekOfWeek
<1>7. first <= WeekStart(day - WeekDays)
  <2>1. y <= day - WeekDays
    BY <1>1, <1>2, <1>3, <1>4
  <2>2. QED
    BY <1>2, <1>3, <1>6, <2>1, ReachedSince
<1>8. first <= WeekStart(day - 1)
  <2>1. y <= day - 1 /\ day - 1 \in Int
    BY <1>1, <1>2, <1>3
  <2>2. QED
    BY <1>2, <1>3, <2>1, ReachedSince
<1>9. QED
  BY <1>1, <1>5, <1>6, <1>7, <1>8

\* Every window a report asks for is one of days the calendar reaches.
WindowFits(first, filter, w) ==
    /\ w \in Days /\ first <= WeekStart(w[1])
    /\ filter \in {"today", "yesterday"} => DaysBetween(w) = 0
    /\ filter \in {"current_week", "previous_week"} => DaysBetween(w) = WeekDays - 1
    /\ filter \in {"current_month", "previous_month"} =>
         \A t \in MonthStarts : t <= w[2] => t <= w[1]

LEMMA PairFits ==
    ASSUME NEW first, NEW filter, NEW a \in Int, NEW b \in Int, first <= WeekStart(a),
           filter \in {"today", "yesterday"} => b - a = 0,
           filter \in {"current_week", "previous_week"} => b - a = WeekDays - 1,
           filter \in {"current_month", "previous_month"} =>
             \A t \in MonthStarts : t <= b => t <= a
    PROVE  WindowFits(first, filter, <<a, b>>)
<1>1. <<a, b>>[1] = a /\ <<a, b>>[2] = b /\ <<a, b>> \in Days
  BY DEF Days
<1> DEFINE w == <<a, b>>
<1>2. w[1] = a /\ w[2] = b /\ w \in Days
  BY <1>1
<1> HIDE DEF w
<1>3. WindowFits(first, filter, w)
  BY <1>2 DEF WindowFits, DaysBetween
<1>4. QED
  BY <1>3 DEF w

LEMMA WindowReached ==
    ASSUME NEW first, NEW day, Horizon(first, day), NEW filter \in Filters, NEW custom,
           filter = "custom" => custom \in Customs
    PROVE  WindowFits(first, filter, Window(filter, custom, day))
<1>1. day \in Int /\ first \in Int /\ WeekDays \in Nat \ {0} /\ YearSpan \in Nat
  BY LivedMonth, ReportConstants
<1>2. first <= WeekStart(day - 1) /\ day - 1 \in Int
  BY <1>1, LivedWeek
<1>3. first <= WeekStart(day)
  <2>1. day - 1 <= day
    BY <1>1
  <2>2. QED
    BY <1>1, <1>2, <2>1, ReachedSince
<1>4. CASE filter = "today"
  <2>1. Window(filter, custom, day) = <<day, day>> /\ day - day = 0
    BY <1>1, <1>4 DEF Window
  <2>2. QED
    BY <1>1, <1>3, <1>4, <2>1, PairFits
<1>5. CASE filter = "yesterday"
  <2>1. Window(filter, custom, day) = <<day - 1, day - 1>> /\ day - 1 - (day - 1) = 0
    BY <1>1, <1>5 DEF Window
  <2>2. QED
    BY <1>1, <1>2, <1>5, <2>1, PairFits
<1>6. CASE filter = "current_week"
  <2> DEFINE a == WeekStart(day)
             b == WeekStart(day) + WeekDays - 1
  <2>1. Window(filter, custom, day) = <<a, b>>
    BY <1>6 DEF Window
  <2>2. a \in Int /\ b \in Int /\ b - a = WeekDays - 1
    BY <1>1, LivedWeek
  <2>3. first <= WeekStart(a)
    BY <1>1, <1>3, WeekOfWeek
  <2> HIDE DEF a, b
  <2>4. QED
    BY <1>6, <2>1, <2>2, <2>3, PairFits
<1>7. CASE filter = "previous_week"
  <2> DEFINE a == WeekStart(day) - WeekDays
             b == WeekStart(day) - 1
  <2>1. Window(filter, custom, day) = <<a, b>>
    BY <1>7 DEF Window
  <2>2. a \in Int /\ b \in Int /\ b - a = WeekDays - 1 /\ first <= WeekStart(a)
    BY <1>1, LivedWeek
  <2> HIDE DEF a, b
  <2>3. QED
    BY <1>7, <2>1, <2>2, PairFits
<1>8. CASE filter = "current_month"
  <2> DEFINE a == MonthStart(day)
             b == MonthEnd(day)
             p == MonthStart(MonthStart(day) - 1)
  <2>1. Window(filter, custom, day) = <<a, b>>
    BY <1>8 DEF Window
  <2>2. a \in Int /\ b \in Int /\ \A t \in MonthStarts : t <= b => t <= a
    BY LivedMonth
  <2>3. p \in Int /\ p <= a - 1 /\ first <= WeekStart(p)
    BY LivedMonth
  <2> HIDE DEF a, b, p
  <2>4. first <= WeekStart(a)
    <3>1. p <= a
      BY <2>2, <2>3
    <3>2. QED
      BY <1>1, <2>2, <2>3, <3>1, ReachedSince
  <2>5. QED
    BY <1>8, <2>1, <2>2, <2>4, PairFits
<1>9. CASE filter = "previous_month"
  <2> DEFINE a == MonthStart(MonthStart(day) - 1)
             b == MonthStart(day) - 1
  <2>1. Window(filter, custom, day) = <<a, b>>
    BY <1>9 DEF Window
  <2>2. a \in Int /\ b \in Int /\ first <= WeekStart(a) /\ \A t \in MonthStarts : t <= b => t <= a
    BY LivedMonth
  <2> HIDE DEF a, b
  <2>3. QED
    BY <1>9, <2>1, <2>2, PairFits
<1>10. CASE filter = "current_year"
  <2> DEFINE a == YearStart(day)
             b == YearEnd(day)
             p == YearStart(YearStart(day) - 1)
  <2>1. Window(filter, custom, day) = <<a, b>>
    BY <1>10 DEF Window
  <2>2. a \in Int /\ b \in Int /\ p \in Int /\ p <= a - 1 /\ first <= WeekStart(p)
    BY LivedYear
  <2> HIDE DEF a, b, p
  <2>3. first <= WeekStart(a)
    <3>1. p <= a
      BY <2>2
    <3>2. QED
      BY <1>1, <2>2, <3>1, ReachedSince
  <2>4. QED
    BY <1>10, <2>1, <2>2, <2>3, PairFits
<1>11. CASE filter = "previous_year"
  <2> DEFINE a == YearStart(YearStart(day) - 1)
             b == YearStart(day) - 1
  <2>1. Window(filter, custom, day) = <<a, b>>
    BY <1>11 DEF Window
  <2>2. a \in Int /\ b \in Int /\ first <= WeekStart(a)
    BY LivedYear
  <2> HIDE DEF a, b
  <2>3. QED
    BY <1>11, <2>1, <2>2, PairFits
<1>12. CASE filter = "custom"
  <2>1. Window(filter, custom, day) = custom
    BY <1>12 DEF Window
  <2>2. custom \in Int \X Int /\ first <= WeekStart(custom[1])
    BY <1>12, ReportConstants DEF Horizon
  <2>3. custom = <<custom[1], custom[2]>> /\ custom[1] \in Int /\ custom[2] \in Int
    BY <2>2
  <2>4. QED
    BY <1>12, <2>1, <2>2, <2>3, PairFits
<1>13. CASE filter = "all"
  <2>1. Window(filter, custom, day) = <<day - YearSpan, day>> /\ day - YearSpan \in Int
    BY <1>1, <1>13 DEF Window
  <2>2. first <= WeekStart(day - YearSpan)
    BY DEF Horizon
  <2>3. QED
    BY <1>1, <1>13, <2>1, <2>2, PairFits
<1>14. QED
  BY <1>4, <1>5, <1>6, <1>7, <1>8, <1>9, <1>10, <1>11, <1>12, <1>13 DEF Filters

-----------------------------------------------------------------------------
(* The reports: labels.                                                    *)

\* Days of one label are years apart.
LEMMA YearsApart ==
    ASSUME NEW first \in YearStarts, NEW d \in Int, NEW e \in Int, first <= d, d < e,
           d - YearStart(d) = e - YearStart(e)
    PROVE  /\ e - d > LineDayMax /\ e - d >= WeekDays
           /\ e - d >= WeekMax + WeekDays \/ (e - d) % WeekDays # 0
           /\ \E t \in MonthStarts : d < t /\ t <= e
<1>1. first \in Int /\ first <= e
  BY ReportConstants
<1> DEFINE y == YearStart(d)
           z == YearStart(e)
<1>2. /\ y \in YearStarts /\ y \in Int /\ y <= d
      /\ \A t \in YearStarts : t <= d => t <= y
  BY YearsBegin
<1>3. z \in YearStarts /\ z \in Int /\ z <= e
  BY <1>1, YearsBegin
<1>4. d - y = e - z
  OBVIOUS
<1> HIDE DEF y, z
<1>5. y < z /\ z - y = e - d
  BY <1>2, <1>3, <1>4
<1>6. /\ z - y > LineDayMax /\ z - y >= WeekDays
      /\ z - y >= WeekMax + WeekDays \/ (z - y) % WeekDays # 0
  BY <1>2, <1>3, <1>5, YearsAssumption
<1>7. z \in MonthStarts
  BY <1>3, ReportConstants
<1>8. d < z
  BY <1>2, <1>3, <1>5
<1>9. QED
  BY <1>3, <1>5, <1>6, <1>7, <1>8

Axes == {"hour", "day", "week", "month"}

\* The days at which the points of an axis by day, week or month begin.
AxisDays(group, w) ==
    IF group = "day" THEN w[1]..w[2]
    ELSE IF group = "week" THEN {d \in WeekStart(w[1])..w[2] : WeekStart(d) = d}
    ELSE {d \in MonthStart(w[1])..w[2] : MonthStart(d) = d}

LEMMA AxisPeriods ==
    ASSUME NEW group, NEW w
    PROVE  /\ (group = "hour" /\ DaysBetween(w) <= 1) =>
                Periods(group, w) = (w[1]..w[2]) \X (0..HoursPerDay - 1)
           /\ group # "hour" => Periods(group, w) = AxisDays(group, w) \X {0}
BY DEF Periods, AxisDays

LEMMA LineLabels ==
    ASSUME NEW first \in YearStarts, NEW q, q.group = NoName, NEW w, WindowFits(first, q.filter, w),
           NEW p \in Periods(LineGroup(q, w), w), NEW o \in Periods(LineGroup(q, w), w),
           Label(p, LineGroup(q, w)) = Label(o, LineGroup(q, w))
    PROVE  p = o
<1> DEFINE group == LineGroup(q, w)
<1>1. /\ w[1] \in Int /\ w[2] \in Int /\ first \in Int /\ first <= WeekStart(w[1])
      /\ WeekStart(w[1]) \in Int /\ WeekStart(w[1]) <= w[1] /\ w[1] < WeekStart(w[1]) + WeekDays
      /\ WeekDays \in Nat \ {0} /\ LineDayMax \in Nat /\ WeekMax \in Nat
  BY WindowDays, Weeks, ReportConstants DEF WindowFits
<1>2. group \in Axes
  BY DEF LineGroup, Axes
<1>3. /\ group = "hour" => DaysBetween(w) = 0
      /\ group = "day" => \/ DaysBetween(w) = WeekDays - 1
                          \/ \A t \in MonthStarts : t <= w[2] => t <= w[1]
                          \/ DaysBetween(w) <= LineDayMax
      /\ group = "week" => DaysBetween(w) <= WeekMax
  BY DEF LineGroup, WindowFits
<1>4. DaysBetween(w) = w[2] - w[1]
  BY DEF DaysBetween
<1> HIDE DEF group
<1>5. CASE group = "hour"
  <2>1. DaysBetween(w) <= 1 /\ w[1] = w[2]
    BY <1>1, <1>3, <1>4, <1>5
  <2>2. p \in (w[1]..w[2]) \X (0..HoursPerDay - 1) /\ o \in (w[1]..w[2]) \X (0..HoursPerDay - 1)
    BY <1>5, <2>1, AxisPeriods DEF group
  <2>3. p[2] = o[2]
    BY <1>5 DEF Label, group
  <2>4. p[1] = w[1] /\ o[1] = w[1]
    BY <1>1, <2>1, <2>2
  <2>5. p = <<p[1], p[2]>> /\ o = <<o[1], o[2]>>
    BY <2>2
  <2>6. QED
    BY <2>3, <2>4, <2>5
<1>6. ASSUME group # "hour" PROVE p[1] \in AxisDays(group, w) /\ p = <<p[1], 0>>
                                  /\ o[1] \in AxisDays(group, w) /\ o = <<o[1], 0>>
  <2>1. p \in AxisDays(group, w) \X {0} /\ o \in AxisDays(group, w) \X {0}
    BY <1>6, AxisPeriods DEF group
  <2>2. QED
    BY <2>1
\* Two days of one label that the axis has are no years apart.
<1>7. ASSUME NEW d \in Int, NEW e \in Int, WeekStart(w[1]) <= d, e <= w[2], d < e,
             group = "day" => w[1] <= d,
             group = "week" => WeekStart(d) = d /\ WeekStart(e) = e,
             group \in {"day", "week"}
      PROVE  d - YearStart(d) # e - YearStart(e)
  <2>1. SUFFICES ASSUME d - YearStart(d) = e - YearStart(e) PROVE FALSE
    OBVIOUS
  <2>2. first <= d
    BY <1>1, <1>7
  <2>3. /\ e - d > LineDayMax /\ e - d >= WeekDays
        /\ e - d >= WeekMax + WeekDays \/ (e - d) % WeekDays # 0
        /\ \E t \in MonthStarts : d < t /\ t <= e
    BY <1>7, <2>1, <2>2, YearsApart
  <2>4. CASE group = "day"
    <3>1. DaysBetween(w) # WeekDays - 1 /\ ~(DaysBetween(w) <= LineDayMax)
      BY <1>1, <1>4, <1>7, <2>3, <2>4
    <3>2. \A t \in MonthStarts : t <= w[2] => t <= w[1]
      BY <1>3, <2>4, <3>1
    <3>3. PICK t \in MonthStarts : d < t /\ t <= e
      BY <2>3
    <3>4. t \in Int
      BY ReportConstants
    <3>5. t <= w[2] /\ ~(t <= w[1])
      BY <1>1, <1>7, <2>4, <3>3, <3>4
    <3>6. QED
      BY <3>2, <3>5
  <2>5. CASE group = "week"
    <3>1. (e - d) % WeekDays = 0
      BY <1>7, <2>5, WeeksApart
    <3>2. e - d >= WeekMax + WeekDays
      BY <2>3, <3>1
    <3>3. w[2] - w[1] <= WeekMax
      BY <1>3, <1>4, <2>5
    <3>4. QED
      BY <1>1, <1>7, <3>2, <3>3
  <2>6. QED
    BY <1>7, <2>4, <2>5
<1>8. CASE group = "day"
  <2>1. p[1] \in w[1]..w[2] /\ o[1] \in w[1]..w[2]
    BY <1>6, <1>8 DEF AxisDays
  <2>2. p[1] - YearStart(p[1]) = o[1] - YearStart(o[1])
    BY <1>8 DEF Label, group
  <2>3. ~(p[1] < o[1]) /\ ~(o[1] < p[1])
    BY <1>1, <1>7, <1>8, <2>1, <2>2
  <2>4. QED
    BY <1>1, <1>6, <1>8, <2>1, <2>3
<1>9. CASE group = "week"
  <2>1. /\ p[1] \in WeekStart(w[1])..w[2] /\ o[1] \in WeekStart(w[1])..w[2]
        /\ WeekStart(p[1]) = p[1] /\ WeekStart(o[1]) = o[1]
    BY <1>6, <1>9 DEF AxisDays
  <2>2. p[1] - YearStart(p[1]) = o[1] - YearStart(o[1])
    BY <1>9, <2>1 DEF Label, group
  <2>3. ~(p[1] < o[1]) /\ ~(o[1] < p[1])
    BY <1>1, <1>7, <1>9, <2>1, <2>2
  <2>4. QED
    BY <1>1, <1>6, <1>9, <2>1, <2>3
<1>10. CASE group = "month"
  <2>1. p[1] = o[1]
    BY <1>10 DEF Label, group
  <2>2. QED
    BY <1>6, <1>10, <2>1
<1>11. QED
  BY <1>2, <1>5, <1>8, <1>9, <1>10 DEF Axes

-----------------------------------------------------------------------------
(* The reports: charts.                                                    *)

\* A period of days that the calendar reaches has points for a finite number of
\* days, and an instant of one of its days falls on one of them.
LEMMA FiniteAxis ==
    ASSUME NEW group \in Axes, NEW w \in Days, group = "hour" => DaysBetween(w) <= 1,
           NEW s \in MonthStarts, s <= w[1]
    PROVE  IsFiniteSet(Periods(group, w))
<1>1. /\ w[1] \in Int /\ w[2] \in Int /\ HoursPerDay \in Nat \ {0}
      /\ WeekStart(w[1]) \in Int
  BY WindowDays, Weeks, ReportConstants
<1>2. MonthStart(w[1]) \in Int
  BY <1>1, MonthsBegin
<1>3. CASE group = "hour"
  <2>1. IsFiniteSet(w[1]..w[2])
    BY <1>1, FS_Interval
  <2>2. IsFiniteSet(0..(HoursPerDay - 1))
    BY <1>1, FS_Interval
  <2>3. IsFiniteSet((w[1]..w[2]) \X (0..(HoursPerDay - 1)))
    BY <2>1, <2>2, FS_Product
  <2>4. QED
    BY <1>3, <2>3, AxisPeriods
<1>4. CASE group # "hour"
  <2>1. IsFiniteSet(w[1]..w[2]) /\ IsFiniteSet(WeekStart(w[1])..w[2])
        /\ IsFiniteSet(MonthStart(w[1])..w[2])
    BY <1>1, <1>2, FS_Interval
  <2>2. \/ AxisDays(group, w) \in SUBSET (w[1]..w[2])
        \/ AxisDays(group, w) \in SUBSET (WeekStart(w[1])..w[2])
        \/ AxisDays(group, w) \in SUBSET (MonthStart(w[1])..w[2])
    BY DEF AxisDays
  <2>3. IsFiniteSet(AxisDays(group, w))
    BY <2>1, <2>2, FS_Subset
  <2>4. IsFiniteSet({0})
    BY FS_Singleton
  <2>5. IsFiniteSet(AxisDays(group, w) \X {0})
    BY <2>3, <2>4, FS_Product
  <2>6. QED
    BY <1>4, <2>5, AxisPeriods
<1>5. QED
  BY <1>3, <1>4

LEMMA OnTheAxis ==
    ASSUME NEW group \in Axes, NEW w \in Days, group = "hour" => DaysBetween(w) <= 1,
           NEW s \in MonthStarts, s <= w[1],
           NEW ts \in Int, LocalDay(ts) \in w[1]..w[2]
    PROVE  TimeKey(ts, group) \in Periods(group, w)
<1> DEFINE day == LocalDay(ts)
<1>1. w[1] \in Int /\ w[2] \in Int /\ day \in Int /\ w[1] <= day /\ day <= w[2]
  BY WindowDays, DayBounds
<1>2. CASE group = "hour"
  <2>1. LocalHour(ts) \in 0..(HoursPerDay - 1)
    BY ReportConstants DEF LocalHour
  <2>2. TimeKey(ts, group) = <<day, LocalHour(ts)>>
    BY <1>2 DEF TimeKey
  <2> HIDE DEF day
  <2>3. <<day, LocalHour(ts)>> \in (w[1]..w[2]) \X (0..(HoursPerDay - 1))
    BY <1>1, <2>1
  <2>4. QED
    BY <1>2, <2>2, <2>3, AxisPeriods
<1>3. CASE group = "day"
  <2>1. TimeKey(ts, group) = <<day, 0>>
    BY <1>3 DEF TimeKey
  <2> HIDE DEF day
  <2>2. day \in AxisDays(group, w)
    BY <1>1, <1>3 DEF AxisDays
  <2>3. QED
    BY <1>3, <2>1, <2>2, AxisPeriods
<1>4. CASE group = "week"
  <2>1. TimeKey(ts, group) = <<WeekStart(day), 0>>
    BY <1>4 DEF TimeKey
  <2> HIDE DEF day
  <2>2. /\ WeekStart(day) \in Int /\ WeekStart(day) <= day
        /\ WeekStart(w[1]) \in Int /\ WeekStart(w[1]) <= WeekStart(day)
        /\ WeekStart(WeekStart(day)) = WeekStart(day)
    BY <1>1, Weeks, WeeksFollow, WeekOfWeek
  <2>3. WeekStart(day) \in AxisDays(group, w)
    BY <1>1, <1>4, <2>2 DEF AxisDays
  <2>4. QED
    BY <1>4, <2>1, <2>3, AxisPeriods
<1>5. CASE group = "month"
  <2>1. TimeKey(ts, group) = <<MonthStart(day), 0>>
    BY <1>5 DEF TimeKey
  <2> HIDE DEF day
  <2>2. s \in Int /\ s <= day
    BY <1>1, ReportConstants
  <2>3. /\ MonthStart(day) \in MonthStarts /\ MonthStart(day) \in Int /\ MonthStart(day) <= day
        /\ \A t \in MonthStarts : t <= day => t <= MonthStart(day)
    BY <1>1, <2>2, MonthsBegin
  <2>4. /\ MonthStart(w[1]) \in MonthStarts /\ MonthStart(w[1]) \in Int
        /\ MonthStart(w[1]) <= w[1]
    BY <1>1, MonthsBegin
  <2>5. MonthStart(w[1]) <= MonthStart(day)
    BY <1>1, <2>3, <2>4
  <2>6. /\ MonthStart(MonthStart(day)) \in Int /\ MonthStart(MonthStart(day)) <= MonthStart(day)
        /\ MonthStart(day) <= MonthStart(MonthStart(day))
    BY <2>3, MonthsBegin
  <2>7. MonthStart(day) \in AxisDays(group, w)
    BY <1>1, <1>5, <2>3, <2>4, <2>5, <2>6 DEF AxisDays
  <2>8. QED
    BY <1>5, <2>1, <2>7, AxisPeriods
<1>6. QED
  BY <1>2, <1>3, <1>4, <1>5 DEF Axes

\* The points of a line add up to the rows in its window, when no two points have
\* one label.
LEMMA LineAddsUp ==
    ASSUME NEW T, IsFiniteSet(T), \A r \in T : r.amount \in Nat /\ r.ts \in Int,
           NEW group \in Axes, NEW w \in Days, group = "hour" => DaysBetween(w) <= 1,
           NEW s \in MonthStarts, s <= w[1],
           \A r \in T : LocalDay(r.ts) \in w[1]..w[2],
           \A p, o \in Periods(group, w) : Label(p, group) = Label(o, group) => p = o
    PROVE  SumFunction(LineTotals(T, group, w)) = Total(T)
<1> DEFINE axis == Periods(group, w)
           key == [r \in T |-> TimeKey(r.ts, group)]
           LabelOf(r) == Label(TimeKey(r.ts, group), group)
           sums == SumBy(T, LabelOf)
<1>1. \A r \in T : TimeKey(r.ts, group) \in axis
  BY OnTheAxis
<1>2. IsFiniteSet(axis)
  BY FiniteAxis
<1>3. sums = [k \in {LabelOf(r) : r \in T} |-> Total({r \in T : LabelOf(r) = k})]
  BY DEF SumBy
<1>4. LineTotals(T, group, w) =
        [p \in axis |-> IF Label(p, group) \in DOMAIN sums THEN sums[Label(p, group)] ELSE 0]
  BY Zenon DEF LineTotals
<1>5. \A p \in axis : {r \in T : LabelOf(r) = Label(p, group)} = {r \in T : key[r] = p}
  BY <1>1
<1>6. ASSUME NEW p \in axis
      PROVE  (IF Label(p, group) \in DOMAIN sums THEN sums[Label(p, group)] ELSE 0)
               = Total({r \in T : key[r] = p})
  <2>1. CASE Label(p, group) \in {LabelOf(r) : r \in T}
    <3>1. sums[Label(p, group)] = Total({r \in T : LabelOf(r) = Label(p, group)})
      BY <1>3, <2>1
    <3>2. DOMAIN sums = {LabelOf(r) : r \in T}
      BY <1>3
    <3> HIDE DEF sums, key, axis
    <3>3. QED
      BY <1>5, <1>6, <2>1, <3>1, <3>2
  <2>2. CASE Label(p, group) \notin {LabelOf(r) : r \in T}
    <3>1. {r \in T : key[r] = p} = {}
      BY <2>2
    <3>2. DOMAIN sums = {LabelOf(r) : r \in T}
      BY <1>3
    <3> HIDE DEF sums, key, axis
    <3>3. QED
      BY <2>2, <3>1, <3>2, NoTotal
  <2>3. QED
    BY <2>1, <2>2
<1>7. \A r \in T : key[r] \in axis
  BY <1>1
<1> HIDE DEF sums, key, axis
<1>8. LineTotals(T, group, w) = [p \in axis |-> Total({r \in T : key[r] = p})]
  BY <1>4, <1>6
<1>9. QED
  BY <1>2, <1>7, <1>8, TotalsByKey

\* Labels that are as many as the points are of one point each.
LEMMA DistinctLabels ==
    ASSUME NEW group \in Axes, NEW w \in Days, group = "hour" => DaysBetween(w) <= 1,
           NEW s \in MonthStarts, s <= w[1], LabelsAreDistinct(group, w)
    PROVE  \A p, o \in Periods(group, w) : Label(p, group) = Label(o, group) => p = o
<1> DEFINE axis == Periods(group, w)
           labels == {Label(p, group) : p \in axis}
           label == [p \in axis |-> Label(p, group)]
<1>1. IsFiniteSet(axis)
  BY FiniteAxis
<1>2. labels = {label[p] : p \in axis}
  OBVIOUS
<1>3. Cardinality(labels) = Cardinality(axis)
  BY DEF LabelsAreDistinct
<1>4. label \in Surjection(axis, labels)
  BY DEF Surjection
<1>5. \A p \in axis : label[p] = Label(p, group)
  OBVIOUS
<1> HIDE DEF axis, label, labels
<1>6. IsFiniteSet(labels)
  BY <1>1, <1>2, ImagesAreFinite
<1>7. label \in Injection(axis, labels)
  BY <1>1, <1>3, <1>4, <1>6, FS_SurjSameCardinalityImpliesInj
<1>8. QED
  BY <1>5, <1>7 DEF Injection, IsInjective, axis

\* What the reports are computed from.
ReportRow(r) ==
    /\ r.amount \in Nat /\ r.ts \in Int /\ r.date \in Int \cup {NoDate}
    /\ EffectiveDate(r) \in Int /\ LocalDay(r.ts) \in Int
    /\ r.ts <= now /\ LocalDay(r.ts) <= Today
ReportInv ==
    /\ TypeOK
    /\ IsFiniteSet(rows)
    /\ \A r \in rows : r.ts <= now

LEMMA ReportRows ==
    ASSUME ReportInv
    PROVE  /\ \A S \in SUBSET rows : IsFiniteSet(S) /\ \A r \in S : ReportRow(r)
           /\ now \in Int /\ Today \in Int
<1>1. now \in Int /\ Today \in Int
  BY ReportConstants, DayBounds DEF ReportInv, TypeOK, Today
<1>2. \A S \in SUBSET rows : IsFiniteSet(S)
  BY FS_Subset DEF ReportInv
<1>3. ASSUME NEW r \in rows PROVE ReportRow(r)
  <2>1. r.amount \in Nat /\ r.ts \in Int /\ r.date \in Int \cup {NoDate} /\ r.ts <= now
    BY ReportConstants DEF ReportInv, TypeOK
  <2>2. LocalDay(r.ts) \in Int
    BY <2>1, DayBounds
  <2>3. LocalDay(r.ts) <= Today
    BY <1>1, <2>1, LaterDay DEF Today
  <2>4. EffectiveDate(r) \in Int
    BY <2>1, <2>2 DEF EffectiveDate
  <2>5. QED
    BY <2>1, <2>2, <2>3, <2>4 DEF ReportRow
<1>4. QED
  BY <1>1, <1>2, <1>3

LEMMA ReportHorizon == ReportInv => \E first : Horizon(first, Today)
BY WithinHorizon DEF ReportInv, TypeOK

\* The questions asked: a filter with its range, every category and no limit.
LEMMA AskedQueries ==
    ASSUME NEW q \in Queries
    PROVE  /\ q.filter \in Filters /\ (q.filter = "custom" => q.custom \in Customs)
           /\ q.group = NoName /\ q.category = NoName /\ q.limit = NoLimit
BY DEF Queries, Query, Filters

LEMMA AskedWindow ==
    ASSUME ReportInv, NEW q \in Queries, NEW w, w = Window(q.filter, q.custom, Today)
    PROVE  /\ w \in Days /\ w[1] \in Int /\ w[2] \in Int
           /\ \E first \in YearStarts : WindowFits(first, q.filter, w)
           /\ \E s \in MonthStarts : s <= w[1]
<1>1. PICK first : Horizon(first, Today)
  BY ReportHorizon
<1>2. WindowFits(first, q.filter, w) /\ first \in YearStarts
  BY <1>1, AskedQueries, WindowReached DEF Horizon
<1>3. w \in Days /\ w[1] \in Int /\ w[2] \in Int
  BY <1>2, WindowDays DEF WindowFits
<1>4. WeekStart(w[1]) \in Int /\ WeekStart(w[1]) <= w[1]
  BY <1>3, Weeks
<1>5. first \in MonthStarts /\ first \in Int
  BY <1>2, ReportConstants
<1>6. first <= w[1]
  BY <1>2, <1>3, <1>4, <1>5 DEF WindowFits
<1>7. QED
  BY <1>2, <1>3, <1>5, <1>6

-----------------------------------------------------------------------------
LEMMA TwoTile ==
    ASSUME ReportInv, NEW a \in Int, NEW m \in Int, NEW e \in Int, a <= m, m <= e + 1,
           NEW before, before = <<a, m - 1>>, NEW after, after = <<m, e>>
    PROVE  /\ FilterByDateRange(rows, before) \cap FilterByDateRange(rows, after) = {}
           /\ {r \in rows : EffectiveDate(r) \in before[1]..after[2]}
                = FilterByDateRange(rows, before) \cup FilterByDateRange(rows, after)
<1>1. before \in Days /\ after \in Days /\ before[1] = a /\ before[2] = m - 1
      /\ after[1] = m /\ after[2] = e
  BY DEF Days
<1>2. ASSUME NEW r \in rows
      PROVE  /\ EffectiveDate(r) \in Int
             /\ InPeriod(r, before) <=> EffectiveDate(r) \in a..(m - 1)
             /\ InPeriod(r, after) <=> EffectiveDate(r) \in m..e
  <2>1. r.ts \in Int /\ r.date \in Int \cup {NoDate}
    BY ReportRows DEF ReportRow
  <2>2. QED
    BY <1>1, <2>1, InTheWindow
<1>3. ASSUME NEW d \in Int
      PROVE  /\ ~(d \in a..(m - 1) /\ d \in m..e)
             /\ d \in a..e <=> (d \in a..(m - 1) \/ d \in m..e)
  OBVIOUS
<1>4. QED
  BY <1>1, <1>2, <1>3 DEF FilterByDateRange

LEMMA WindowsDoTile == ReportInv => WindowsTile
<1> SUFFICES ASSUME ReportInv PROVE WindowsTile
  OBVIOUS
<1>1. PICK first : Horizon(first, Today)
  BY ReportHorizon
<1> DEFINE Fits(pair) ==
             \E a, m, e \in Int : /\ a <= m /\ m <= e + 1
                                  /\ Window(pair[1], <<>>, Today) = <<a, m - 1>>
                                  /\ Window(pair[2], <<>>, Today) = <<m, e>>
<1>2. Today \in Int
  BY ReportRows
<1>3. Fits(<<"previous_week", "current_week">>)
  <2> DEFINE m == WeekStart(Today)
  <2>1. m \in Int /\ WeekDays \in Nat \ {0}
    BY <1>1, LivedWeek
  <2>2. Window("previous_week", <<>>, Today) = <<m - WeekDays, m - 1>>
    BY DEF Window
  <2>3. Window("current_week", <<>>, Today) = <<m, m + WeekDays - 1>>
    BY DEF Window
  <2> HIDE DEF m
  <2>4. m - WeekDays \in Int /\ m + WeekDays - 1 \in Int /\ m - WeekDays <= m
        /\ m <= m + WeekDays - 1 + 1
    BY <2>1
  <2>5. QED
    BY <2>1, <2>2, <2>3, <2>4
<1>4. Fits(<<"previous_month", "current_month">>)
  <2> DEFINE m == MonthStart(Today)
             a == MonthStart(m - 1)
             e == MonthEnd(Today)
  <2>1. m \in Int /\ a \in Int /\ e \in Int /\ m <= Today /\ Today <= e /\ a <= m - 1
    BY <1>1, LivedMonth
  <2>2. Window("previous_month", <<>>, Today) = <<a, m - 1>>
    BY DEF Window
  <2>3. Window("current_month", <<>>, Today) = <<m, e>>
    BY DEF Window
  <2> HIDE DEF m, a, e
  <2>4. a <= m /\ m <= e + 1
    BY <1>2, <2>1
  <2>5. QED
    BY <2>1, <2>2, <2>3, <2>4
<1>5. Fits(<<"previous_year", "current_year">>)
  <2> DEFINE m == YearStart(Today)
             a == YearStart(m - 1)
             e == YearEnd(Today)
  <2>1. m \in Int /\ a \in Int /\ e \in Int /\ m <= Today /\ Today <= e /\ a <= m - 1
    BY <1>1, LivedYear
  <2>2. Window("previous_year", <<>>, Today) = <<a, m - 1>>
    BY DEF Window
  <2>3. Window("current_year", <<>>, Today) = <<m, e>>
    BY DEF Window
  <2> HIDE DEF m, a, e
  <2>4. a <= m /\ m <= e + 1
    BY <1>2, <2>1
  <2>5. QED
    BY <2>1, <2>2, <2>3, <2>4
<1>6. Fits(<<"yesterday", "today">>)
  <2>1. Window("yesterday", <<>>, Today) = <<Today - 1, Today - 1>>
    BY DEF Window
  <2>2. Window("today", <<>>, Today) = <<Today, Today>>
    BY DEF Window
  <2>3. Today - 1 \in Int /\ Today - 1 <= Today /\ Today <= Today + 1
    BY <1>2
  <2>4. QED
    BY <1>2, <2>1, <2>2, <2>3
<1>7. ASSUME NEW pair, Fits(pair)
      PROVE  LET before == Window(pair[1], <<>>, Today)
                 after == Window(pair[2], <<>>, Today)
                 Dated(r) == EffectiveDate(r) \in before[1]..after[2]
                 InBefore == FilterByDateRange(rows, before)
                 InAfter == FilterByDateRange(rows, after)
             IN  /\ InBefore \cap InAfter = {}
                 /\ {r \in rows : Dated(r)} = InBefore \cup InAfter
  <2>1. PICK a, m, e \in Int : /\ a <= m /\ m <= e + 1
                               /\ Window(pair[1], <<>>, Today) = <<a, m - 1>>
                               /\ Window(pair[2], <<>>, Today) = <<m, e>>
    BY <1>7
  <2> DEFINE before == Window(pair[1], <<>>, Today)
             after == Window(pair[2], <<>>, Today)
  <2>2. before = <<a, m - 1>> /\ after = <<m, e>>
    BY <2>1
  <2> HIDE DEF before, after
  <2>3. /\ FilterByDateRange(rows, before) \cap FilterByDateRange(rows, after) = {}
        /\ {r \in rows : EffectiveDate(r) \in before[1]..after[2]}
             = FilterByDateRange(rows, before) \cup FilterByDateRange(rows, after)
    BY <2>1, <2>2, TwoTile
  <2>4. QED
    BY Zenon, <2>3 DEF before, after
<1> HIDE DEF Fits
<1>8. \A pair \in {<<"previous_week", "current_week">>,
                   <<"previous_month", "current_month">>,
                   <<"previous_year", "current_year">>,
                   <<"yesterday", "today">>} : Fits(pair)
  BY <1>3, <1>4, <1>5, <1>6
<1>9. QED
  BY Zenon, <1>7, <1>8 DEF WindowsTile

-----------------------------------------------------------------------------
LEMMA ReportTotals ==
    ASSUME ReportInv, NEW S \in SUBSET rows
    PROVE  IsFiniteSet(S) /\ \A r \in S : r.amount \in Nat
BY ReportRows DEF ReportRow

\* Every slice of a donut or bar that is given no limit is drawn.
LEMMA AllSlices ==
    ASSUME ReportInv, NEW S \in SUBSET rows
    PROVE  Slices(S, NoLimit).total_amount = Total(S)
<1> DEFINE sums == ByCategory(S)
           slices == [g \in DOMAIN sums |-> sums[g]]
<1>1. sums = slices
  BY DEF ByCategory, SumBy
<1>2. Largest(sums, NoLimit) = DOMAIN sums
  BY DEF Largest
<1>3. SumFunction(sums) = Total(S)
  BY ReportTotals, ByCategoryAddsUp
<1> HIDE DEF sums
<1>4. Slices(S, NoLimit).total_amount = SumFunction(slices)
  BY <1>2 DEF Slices, sums
<1>5. QED
  BY <1>1, <1>3, <1>4

\* Every category is stacked.
LEMMA AllStacked ==
    ASSUME NEW S
    PROVE  /\ StackedCategories(S, NoLimit) = {CategoryName(r) : r \in S}
           /\ {r \in S : CategoryName(r) \in StackedCategories(S, NoLimit)} = S
<1>1. DOMAIN SumBy(S, CategoryName) = {CategoryName(r) : r \in S}
  BY DEF SumBy
<1>2. StackedCategories(S, NoLimit) = {CategoryName(r) : r \in S}
  BY <1>1 DEF StackedCategories, Largest
<1>3. QED
  BY <1>2

\* The agent's totals are of the rows dated in a period, whatever their currency.
LEMMA AgentAddsUp ==
    ASSUME ReportInv, NEW kind, NEW from, NEW to
    PROVE  SumFunction(AgentTotals(rows, kind, from, to))
             = Total(FilterByPeriod(OfKind(rows, kind), from, to))
<1> DEFINE S == FilterByPeriod(OfKind(rows, kind), from, to)
           key == [r \in S |-> r.currency]
<1>1. S \in SUBSET rows
  BY DEF FilterByPeriod, OfKind
<1>2. AgentTotals(rows, kind, from, to)
        = [k \in {r.currency : r \in S} |-> Total({r \in S : r.currency = k})]
  BY DEF AgentTotals, SumBy
<1>3. {key[r] : r \in S} = {r.currency : r \in S}
  OBVIOUS
<1>4. \A k : {r \in S : key[r] = k} = {r \in S : r.currency = k}
  OBVIOUS
<1> HIDE DEF key, S
<1>5. AgentTotals(rows, kind, from, to)
        = [k \in {key[r] : r \in S} |-> Total({r \in S : key[r] = k})]
  BY <1>2, <1>3, <1>4
<1>6. IsFiniteSet(S) /\ \A r \in S : r.amount \in Nat
  BY <1>1, ReportTotals
<1>7. SumFunction(AgentTotals(rows, kind, from, to)) = Total(S)
  BY <1>5, <1>6, GroupsAddUp
<1>8. QED
  BY <1>7 DEF S

LEMMA EveryCategory == \A S : OfCategory(S, NoName) = S
BY DEF OfCategory

LEMMA SameTotals == ReportInv => SameTotalEverywhere
<1> SUFFICES ASSUME ReportInv PROVE SameTotalEverywhere
  OBVIOUS
<1>1. ASSUME NEW q \in Queries, q.filter \notin {"all", "custom"}, NEW w, w = Window(q.filter, q.custom, Today)
      PROVE  /\ DonutOfExpenses(rows, q, Today).total_amount = Total(FilterByDateRange(Spent, w))
             /\ BarOfExpenses(rows, q, Today).total_amount = Total(FilterByDateRange(Spent, w))
             /\ StackedOfExpenses(rows, q, Today).total_amount = Total(FilterByDateRange(Spent, w))
             /\ SumFunction(AgentTotals(rows, "expense", w[1], w[2])) = Total(FilterByDateRange(Spent, w))
  <2> DEFINE S == FilterByDateRange(Spent, w)
  <2>1. S \in SUBSET rows
    BY DEF FilterByDateRange, Spent, OfKind
  <2>2. q.category = NoName /\ q.limit = NoLimit
    BY AskedQueries
  <2>3. /\ DonutExpenses(rows, q, Today) = S
        /\ BarExpenses(rows, q, Today) = S
        /\ StackedExpenses(rows, q, Today) = S
    BY <1>1, <2>2, EveryCategory DEF DonutExpenses, BarExpenses, StackedExpenses, Spent
  <2>4. FilterByPeriod(OfKind(rows, "expense"), w[1], w[2]) = S
    <3>1. w \in Days /\ w[1] \in Int /\ w[2] \in Int
      BY <1>1, AskedWindow
    <3>2. w[1] # NoDate /\ w[2] # NoDate
      BY <3>1, ReportConstants
    <3>3. \A r \in rows : /\ EffectiveDate(r) \in Int
                          /\ InPeriod(r, w) <=> EffectiveDate(r) \in w[1]..w[2]
      <4> TAKE r \in rows
      <4>1. r.ts \in Int /\ r.date \in Int \cup {NoDate}
        BY ReportRows DEF ReportRow
      <4>2. QED
        BY <3>1, <4>1, InTheWindow
    <3>4. QED
      BY <3>1, <3>2, <3>3 DEF FilterByPeriod, FilterByDateRange, Spent, OfKind
  <2> HIDE DEF S
  <2>5. Slices(S, NoLimit).total_amount = Total(S)
    BY <2>1, AllSlices
  <2>6. DonutOfExpenses(rows, q, Today).total_amount = Total(S)
        /\ BarOfExpenses(rows, q, Today).total_amount = Total(S)
    BY <2>2, <2>3, <2>5 DEF DonutOfExpenses, BarOfExpenses
  <2>7. StackedOfExpenses(rows, q, Today).total_amount = Total(S)
    BY <2>2, <2>3, AllStacked DEF StackedOfExpenses
  <2>8. SumFunction(AgentTotals(rows, "expense", w[1], w[2])) = Total(S)
    BY <2>4, AgentAddsUp
  <2>9. QED
    BY <2>6, <2>7, <2>8 DEF S
<1>2. QED
  BY <1>1 DEF SameTotalEverywhere

\* The line of the rows whose stamps a window holds adds up to them.
LEMMA LineOfWindow ==
    ASSUME ReportInv, NEW q \in Queries, NEW w, w = Window(q.filter, q.custom, Today),
           NEW S \in SUBSET rows, \A r \in S : LocalDay(r.ts) \in w[1]..w[2]
    PROVE  SumFunction(LineTotals(S, LineGroup(q, w), w)) = Total(S)
<1> DEFINE group == LineGroup(q, w)
<1>1. /\ w \in Days /\ w[1] \in Int /\ w[2] \in Int
      /\ \E first \in YearStarts : WindowFits(first, q.filter, w)
      /\ \E s \in MonthStarts : s <= w[1]
  BY AskedWindow
<1>2. PICK first \in YearStarts : WindowFits(first, q.filter, w)
  BY <1>1
<1>3. PICK s \in MonthStarts : s <= w[1]
  BY <1>1
<1>4. q.group = NoName
  BY AskedQueries
<1>5. group \in Axes
  BY <1>4 DEF LineGroup, Axes
<1>6. group = "hour" => DaysBetween(w) <= 1
  <2>1. group = "hour" => q.filter \in {"today", "yesterday"}
    BY <1>4 DEF LineGroup
  <2>2. QED
    BY <1>2, <2>1 DEF WindowFits
<1>7. \A p, o \in Periods(group, w) : Label(p, group) = Label(o, group) => p = o
  BY <1>2, <1>4, LineLabels
<1>8. IsFiniteSet(S) /\ \A r \in S : r.amount \in Nat /\ r.ts \in Int
  BY ReportRows DEF ReportRow
<1> HIDE DEF group
<1>9. SumFunction(LineTotals(S, group, w)) = Total(S)
  BY <1>1, <1>3, <1>5, <1>6, <1>7, <1>8, LineAddsUp
<1>10. QED
  BY <1>9 DEF group

\* So do the stacked lines of the rows of each category, when labels are distinct.
LEMMA StackOfWindow ==
    ASSUME ReportInv, NEW q \in Queries, NEW w, w = Window(q.filter, q.custom, Today),
           NEW S \in SUBSET rows, \A r \in S : LocalDay(r.ts) \in w[1]..w[2],
           LabelsAreDistinct(StackedGroup(q, w), w), NEW bars,
           bars = StackedBars(S, StackedCategories(S, q.limit), StackedGroup(q, w), w)
    PROVE  SumFunction([n \in DOMAIN bars |-> SumFunction(bars[n])]) = Total(S)
<1> DEFINE group == StackedGroup(q, w)
           names == {CategoryName(r) : r \in S}
           key == [r \in S |-> CategoryName(r)]
           Of(n) == {r \in S : CategoryName(r) = n}
<1>1. /\ w \in Days /\ w[1] \in Int /\ w[2] \in Int
      /\ \E s \in MonthStarts : s <= w[1]
  BY AskedWindow
<1>2. PICK s \in MonthStarts : s <= w[1]
  BY <1>1
<1>3. q.group = NoName /\ q.limit = NoLimit
  BY AskedQueries
<1>4. group \in Axes /\ (group = "hour" => DaysBetween(w) <= 1)
  BY <1>3 DEF StackedGroup, Axes
<1>5. IsFiniteSet(S) /\ \A r \in S : r.amount \in Nat /\ r.ts \in Int
  BY ReportRows DEF ReportRow
<1>6. bars = [n \in names |-> LineTotals(Of(n), group, w)]
  BY <1>3, AllStacked DEF StackedBars
<1>7. \A n : Of(n) = {r \in S : key[r] = n}
  OBVIOUS
<1>8. {key[r] : r \in S} = names
  OBVIOUS
<1>9. LabelsAreDistinct(group, w)
  OBVIOUS
<1> HIDE DEF group, names, key
<1>10. \A p, o \in Periods(group, w) : Label(p, group) = Label(o, group) => p = o
  BY <1>1, <1>2, <1>4, <1>9, DistinctLabels
<1>11. ASSUME NEW n PROVE SumFunction(LineTotals(Of(n), group, w)) = Total(Of(n))
  <2>1. Of(n) \in SUBSET S
    OBVIOUS
  <2>2. IsFiniteSet(Of(n))
    BY <1>5, <2>1, FS_Subset
  <2>3. /\ \A r \in Of(n) : r.amount \in Nat /\ r.ts \in Int
        /\ \A r \in Of(n) : LocalDay(r.ts) \in w[1]..w[2]
    BY <1>5
  <2> HIDE DEF Of
  <2>4. QED
    BY <1>1, <1>2, <1>4, <1>10, <2>2, <2>3, LineAddsUp
<1>12. [n \in DOMAIN bars |-> SumFunction(bars[n])]
         = [n \in {key[r] : r \in S} |-> Total({r \in S : key[r] = n})]
  <2>1. DOMAIN bars = {key[r] : r \in S}
    BY <1>6, <1>8
  <2>2. \A n \in DOMAIN bars : SumFunction(bars[n]) = Total({r \in S : key[r] = n})
    <3> TAKE n \in DOMAIN bars
    <3>1. bars[n] = LineTotals(Of(n), group, w)
      BY <1>6
    <3> HIDE DEF Of
    <3>2. QED
      BY <1>7, <1>11, <3>1
  <2>3. QED
    BY <2>1, <2>2
<1>13. SumFunction([n \in {key[r] : r \in S} |-> Total({r \in S : key[r] = n})]) = Total(S)
  BY <1>5, GroupsAddUp
<1>14. QED
  BY <1>12, <1>13

LEMMA IncomeCharts == ReportInv => IncomeChartsAddUp
<1> SUFFICES ASSUME ReportInv PROVE IncomeChartsAddUp
  OBVIOUS
<1>1. ASSUME NEW q \in Queries, NEW w, w = Window(q.filter, q.custom, Today),
             NEW S, S = StampedIncomes(rows, q, Today),
             NEW stacked, stacked = StackedOfIncomes(rows, q, Today).data
      PROVE  /\ LineOfIncomes(rows, q, Today).total_amount = Total(S)
             /\ \/ SumFunction([n \in DOMAIN stacked |-> SumFunction(stacked[n])]) = Total(S)
                \/ ~LabelsAreDistinct(StackedGroup(q, w), w)
  <2>1. S \in SUBSET rows /\ \A r \in S : Stamped(r, w)
    BY <1>1, AskedQueries, EveryCategory DEF StampedIncomes, OfKind
  <2>2. \A r \in S : LocalDay(r.ts) \in w[1]..w[2]
    <3> TAKE r \in S
    <3>1. w \in Days
      BY <1>1, AskedWindow
    <3>2. r.ts \in Int /\ r.date \in Int \cup {NoDate}
      BY <2>1, ReportRows DEF ReportRow
    <3>3. QED
      BY <2>1, <3>1, <3>2, InTheWindow
  <2>3. LineOfIncomes(rows, q, Today).total_amount = SumFunction(LineTotals(S, LineGroup(q, w), w))
    BY <1>1 DEF LineOfIncomes, LineIncomes
  <2>4. stacked = StackedBars(S, StackedCategories(S, q.limit), StackedGroup(q, w), w)
    BY <1>1 DEF StackedOfIncomes, StackedIncomes
  <2>5. SumFunction(LineTotals(S, LineGroup(q, w), w)) = Total(S)
    BY <1>1, <2>1, <2>2, LineOfWindow
  <2>6. LabelsAreDistinct(StackedGroup(q, w), w) =>
          SumFunction([n \in DOMAIN stacked |-> SumFunction(stacked[n])]) = Total(S)
    BY <1>1, <2>1, <2>2, <2>4, StackOfWindow
  <2>7. QED
    BY <2>3, <2>5, <2>6
<1>2. QED
  BY <1>1, Zenon DEF IncomeChartsAddUp

LEMMA PunctualExpenses == ReportInv => PunctualExpensesAddUp
<1> SUFFICES ASSUME ReportInv, \A r \in Spent : Punctual(r), NEW q \in Queries
             PROVE  LineOfExpenses(rows, q, Today).total_amount
                      = Total(LineExpenses(rows, q, Today))
  BY DEF PunctualExpensesAddUp
<1> DEFINE w == Window(q.filter, q.custom, Today)
           S == LineExpenses(rows, q, Today)
<1>1. S \in SUBSET rows /\ \A r \in S : InPeriod(r, w) /\ r \in Spent
  BY AskedQueries, EveryCategory DEF LineExpenses, FilterByDateRange, OfKind, Spent
<1>2. \A r \in S : LocalDay(r.ts) \in w[1]..w[2]
  <2> TAKE r \in S
  <2>1. w \in Days
    BY AskedWindow
  <2>2. r.ts \in Int /\ r.date \in Int \cup {NoDate}
    BY <1>1, ReportRows DEF ReportRow
  <2>3. EffectiveDate(r) \in w[1]..w[2]
    BY <1>1, <2>1, <2>2, InTheWindow
  <2>4. EffectiveDate(r) = LocalDay(r.ts)
    BY <1>1 DEF EffectiveDate, Punctual
  <2>5. QED
    BY <2>3, <2>4
<1>3. SumFunction(LineTotals(S, LineGroup(q, w), w)) = Total(S)
  <2> HIDE DEF S
  <2>1. QED
    BY <1>1, <1>2, LineOfWindow
<1>4. LineOfExpenses(rows, q, Today).total_amount = SumFunction(LineTotals(S, LineGroup(q, w), w))
  BY DEF LineOfExpenses
<1>5. QED
  BY <1>3, <1>4

LEMMA ChartsDoAgree == ReportInv => ChartsAgree
BY WindowsDoTile, SameTotals, IncomeCharts, PunctualExpenses DEF ChartsAgree, ReportInv

-----------------------------------------------------------------------------
(* The reports: summaries, insights and usage.                             *)

\* Rows that all have a stamp on their own day are compared and summed up alike.
LEMMA ComparisonMeets == ReportInv => ComparisonMeetsTheSummary
<1> SUFFICES ASSUME ReportInv, \A r \in Spent : Punctual(r)
             PROVE  LET comparison == MonthlyComparison(rows, Today)
                        line == comparison.cumulative
                    IN  /\ \A month \in {NoDate, Today} :
                             Summary(Spent, SummaryWindow(month, 1, Today)).total
                               = comparison.total_expenses_to_date
                        /\ \A d \in DOMAIN line : d + 1 \in DOMAIN line => line[d] <= line[d + 1]
  BY Zenon DEF ComparisonMeetsTheSummary
<1> DEFINE a == MonthStart(Today)
           b == MonthEnd(Today)
           w == <<a, b>>
           S == FilterByDateRange(Spent, w)
           Upto(d) == {r \in S : LocalDay(r.ts) <= d}
           DayOfMonth(d) == d - MonthStart(d)
           comparison == MonthlyComparison(rows, Today)
<1>1. PICK first : Horizon(first, Today)
  BY ReportHorizon
<1>2. /\ Today \in Int /\ a \in Int /\ a \in MonthStarts /\ b \in Int /\ a <= Today /\ Today <= b
  BY <1>1, LivedMonth
<1>3. ASSUME NEW d \in a..b PROVE MonthStart(d) = a
  <2>1. PICK next \in YearStarts : Today < next
    BY <1>1 DEF Horizon
  <2>2. next \in MonthStarts
    BY <2>1, ReportConstants
  <2>3. QED
    BY <1>2, <2>1, <2>2, SameMonth
<1>4. w \in Days /\ w[1] = a /\ w[2] = b
  BY <1>2 DEF Days
<1>5. S \in SUBSET rows /\ S \in SUBSET Spent /\ Spent \in SUBSET rows
  BY DEF FilterByDateRange, Spent, OfKind
<1>6. ASSUME NEW r \in Spent
      PROVE  /\ r.ts \in Int /\ LocalDay(r.ts) \in Int /\ LocalDay(r.ts) <= Today
             /\ EffectiveDate(r) = LocalDay(r.ts)
             /\ InPeriod(r, w) <=> LocalDay(r.ts) \in a..b
  <2>1. ReportRow(r) /\ Punctual(r)
    BY <1>5, ReportRows
  <2>2. EffectiveDate(r) = LocalDay(r.ts)
    BY <2>1 DEF Punctual, EffectiveDate
  <2>3. InPeriod(r, w) <=> EffectiveDate(r) \in a..b
    BY <1>4, <2>1, InTheWindow DEF ReportRow
  <2>4. QED
    BY <2>1, <2>2, <2>3 DEF ReportRow
<1>7. \A r \in S : LocalDay(r.ts) \in a..b
  BY <1>5, <1>6 DEF FilterByDateRange
<1>8. ASSUME NEW d \in a..b
      PROVE  {r \in S : DayOfMonth(LocalDay(r.ts)) <= DayOfMonth(d)} = Upto(d)
  <2>1. MonthStart(d) = a /\ \A r \in S : MonthStart(LocalDay(r.ts)) = a
    BY <1>3, <1>7
  <2>2. \A r \in S : DayOfMonth(LocalDay(r.ts)) <= DayOfMonth(d) <=> LocalDay(r.ts) <= d
    BY <1>2, <1>7, <2>1
  <2>3. QED
    BY <2>2
<1>9. comparison.cumulative = [d \in a..b |->
          Total({r \in S : DayOfMonth(LocalDay(r.ts)) <= DayOfMonth(d)})]
      /\ comparison.total_expenses_to_date
           = Total({r \in S : DayOfMonth(LocalDay(r.ts)) <= DayOfMonth(b)})
  BY DEF MonthlyComparison, Spent
<1>10. b \in a..b
  BY <1>2
<1>11. Upto(b) = S
  BY <1>2, <1>7
<1> HIDE DEF DayOfMonth
<1>12. comparison.total_expenses_to_date = Total(S)
  BY <1>8, <1>9, <1>10, <1>11
<1>13. comparison.cumulative = [d \in a..b |-> Total(Upto(d))]
  BY <1>8, <1>9
<1>14. Summary(Spent, SummaryWindow(Today, 1, Today)).total = Total(S)
  <2>1. Today # NoDate /\ b # NoDate
    BY <1>2, ReportConstants
  <2>2. SummaryWindow(Today, 1, Today) = w
    BY <2>1 DEF SummaryWindow
  <2> HIDE DEF w
  <2>3. Summary(Spent, w).total = Total(FilterByDateRange(Spent, w))
    BY <1>4, <2>1 DEF Summary
  <2>4. QED
    BY <2>2, <2>3
<1>15. Summary(Spent, SummaryWindow(NoDate, 1, Today)).total = Total(S)
  <2> DEFINE o == <<a, NoDate>>
             T == {r \in Spent : IF r.date = NoDate THEN r.ts >= DayStart(o[1])
                                 ELSE r.date >= o[1]}
  <2>1. MonthsBack(0, Today) = a
    BY <1>2, NoMonthsBack
  <2>2. SummaryWindow(NoDate, 1, Today) = o
    BY <2>1 DEF SummaryWindow
  <2>3. o[1] = a /\ o[2] = NoDate
    OBVIOUS
  <2>4. T = S
    <3>1. ASSUME NEW r \in Spent
          PROVE  (IF r.date = NoDate THEN r.ts >= DayStart(a) ELSE r.date >= a)
                   <=> LocalDay(r.ts) \in a..b
      <4>1. LocalDay(r.ts) >= a <=> DayStart(a) <= r.ts
        BY <1>2, <1>6, DayBounds
      <4>2. DayStart(a) \in Int
        BY <1>2, ReportConstants DEF DayStart
      <4>3. r.date # NoDate => r.date = LocalDay(r.ts)
        BY DEF Punctual
      <4>4. QED
        BY <1>2, <1>6, <4>1, <4>2, <4>3
    <3>2. QED
      BY <1>6, <2>3, <3>1 DEF FilterByDateRange
  <2>5. Summary(Spent, o).total = Total(T)
    <3> HIDE DEF o
    <3>1. QED
      BY <2>3 DEF Summary
  <2>6. QED
    BY <2>2, <2>4, <2>5
<1>16. ASSUME NEW d \in a..b, d + 1 \in a..b
       PROVE  Total(Upto(d)) <= Total(Upto(d + 1))
  <2>1. Upto(d + 1) \in SUBSET rows /\ Upto(d) \in SUBSET Upto(d + 1)
    BY <1>2, <1>5, <1>7
  <2> DEFINE big == Upto(d + 1)
             small == Upto(d)
  <2>2. big \in SUBSET rows /\ small \in SUBSET big
    BY <2>1
  <2> HIDE DEF big, small, Upto
  <2>3. Total(small) <= Total(big)
    BY <2>2, ReportTotals, TotalOfPart
  <2>4. QED
    BY <2>3 DEF big, small
<1> HIDE DEF comparison, Upto, S
<1>17. \A d \in DOMAIN comparison.cumulative : d + 1 \in DOMAIN comparison.cumulative =>
          comparison.cumulative[d] <= comparison.cumulative[d + 1]
  BY <1>13, <1>16
<1>18. QED
  BY <1>12, <1>14, <1>15, <1>17 DEF comparison

\* Groups of one name are added up: the names add up to the rows.
LEMMA IncomesSummed == ReportInv => IncomeSummaryAddsUp
<1> SUFFICES ASSUME ReportInv PROVE IncomeSummaryAddsUp
  OBVIOUS
<1> DEFINE S == FilterByDateRange(OfKind(rows, "income"), <<MonthStart(Today), MonthEnd(Today)>>)
           sums == ByCategory(S)
           groups == DOMAIN sums
           named == [g \in groups |-> GroupName(g)]
           names == {named[g] : g \in groups}
           of == [n \in names |-> {g \in groups : named[g] = n}]
           part == [n \in names |-> SumFunction([g \in of[n] |-> sums[g]])]
<1>1. S \in SUBSET rows
  BY DEF FilterByDateRange, OfKind
<1>2. IncomeMonthSummary(rows, Today).total = Total(S)
  BY DEF IncomeMonthSummary
<1>3. IncomeMonthSummary(rows, Today).by_category = part
  <2>1. names = {GroupName(g) : g \in groups}
    OBVIOUS
  <2>2. \A n \in names : of[n] = {g \in groups : GroupName(g) = n}
    OBVIOUS
  <2>3. IncomeMonthSummary(rows, Today).by_category
          = [n \in {GroupName(g) : g \in groups} |->
               SumFunction([g \in {h \in groups : GroupName(h) = n} |-> sums[g]])]
    BY DEF IncomeMonthSummary
  <2> HIDE DEF S, sums, groups, named, names, of
  <2>4. QED
    BY <2>1, <2>2, <2>3
<1>4. IsFiniteSet(S) /\ \A r \in S : r.amount \in Nat
  BY <1>1, ReportTotals
<1>5. sums = [k \in {Group(r) : r \in S} |-> Total({r \in S : Group(r) = k})]
  BY DEF ByCategory, SumBy
<1>6. IsFiniteSet(groups)
  <2> DEFINE key == [r \in S |-> Group(r)]
  <2>1. groups = {key[r] : r \in S}
    BY <1>5
  <2> HIDE DEF key, groups
  <2>2. QED
    BY <1>4, <2>1, ImagesAreFinite
<1>7. \A g \in groups : sums[g] \in Int
  <2> TAKE g \in groups
  <2> DEFINE T == {r \in S : Group(r) = g}
  <2>1. sums[g] = Total(T) /\ T \in SUBSET S
    BY <1>5
  <2> HIDE DEF S, T
  <2>2. IsFiniteSet(T) /\ \A r \in T : r.amount \in Nat
    BY <1>4, <2>1, FS_Subset
  <2>3. QED
    BY <2>1, <2>2, TotalType
<1>8. /\ \A n \in names : of[n] = {g \in groups : named[g] = n}
      /\ \A g \in groups : named[g] \in names
      /\ DOMAIN part = names
      /\ \A n \in names : part[n] = SumFunction([g \in of[n] |-> sums[g]])
  OBVIOUS
<1>9. SumFunction(sums) = Total(S)
  BY <1>4, ByCategoryAddsUp
<1>10. sums \in [groups -> Int]
  BY <1>5, <1>7
<1> HIDE DEF S, sums, groups, named, of, part
<1>11. IsFiniteSet(names)
  BY <1>6, ImagesAreFinite
<1> HIDE DEF names
<1>12. \A n \in names : part[n] = SumFunctionOnSet(sums, of[n])
  <2> TAKE n \in names
  <2> DEFINE G == of[n]
             f == [g \in G |-> sums[g]]
  <2>1. G \in SUBSET groups
    BY <1>8
  <2>2. \A g \in G : f[g] \in Int /\ f[g] = sums[g]
    BY <1>7, <2>1
  <2>3. part[n] = SumFunction(f) /\ DOMAIN f = G
    BY <1>8
  <2> HIDE DEF G, f
  <2>4. IsFiniteSet(G)
    BY <1>6, <2>1, FS_Subset
  <2>5. SumFunctionOnSet(f, G) = SumFunctionOnSet(sums, G)
    BY <2>2, <2>4, SumOfSame
  <2>6. QED
    BY <2>3, <2>5, Zenon DEF SumFunction, G
<1>13. SumFunctionOnSet(part, names) = SumFunctionOnSet(sums, groups)
  BY <1>6, <1>7, <1>8, <1>11, <1>12, SumOfSums
<1>14. SumFunction(part) = SumFunctionOnSet(part, names)
  BY <1>8, Zenon DEF SumFunction
<1>15. SumFunction(sums) = SumFunctionOnSet(sums, groups)
  BY Zenon DEF SumFunction, groups
<1>16. SumFunction(part) = Total(S)
  BY <1>9, <1>13, <1>14, <1>15
<1>17. QED
  BY <1>2, <1>3, <1>16 DEF IncomeSummaryAddsUp

\* Totals by user category: those of the rows that have one.
LEMMA ByUserAddsUp ==
    ASSUME NEW S, IsFiniteSet(S), \A r \in S : r.amount \in Nat, NEW sums,
           sums = [n \in {r.user : r \in S} |-> Total({r \in S : r.user = n})]
    PROVE  SumFunction(sums) = Total(S)
<1> DEFINE key == [r \in S |-> r.user]
<1>1. {key[r] : r \in S} = {r.user : r \in S}
  OBVIOUS
<1>2. \A n : {r \in S : key[r] = n} = {r \in S : r.user = n}
  OBVIOUS
<1> HIDE DEF key
<1>3. sums = [n \in {key[r] : r \in S} |-> Total({r \in S : key[r] = n})]
  BY <1>1, <1>2
<1>4. SumFunction([n \in {key[r] : r \in S} |-> Total({r \in S : key[r] = n})]) = Total(S)
  BY GroupsAddUp
<1>5. QED
  BY Zenon, <1>3, <1>4

\* With those that have none they are all of a kind and a period.
LEMMA UserAndOthers ==
    ASSUME ReportInv, \A r \in rows : r.date # NoDate, NEW kind, NEW from \in Int, NEW to \in Int
    PROVE  SumFunction(ByUserCategory(rows, kind, from, to))
             + Total({r \in InCategories(rows, kind, from, to) : r.user = NoName})
             = SumFunction(AgentTotals(rows, kind, from, to))
<1> DEFINE S == InCategories(rows, kind, from, to)
           T == {r \in S : r.user # NoName}
           U == {r \in S : r.user = NoName}
<1>1. S \in SUBSET rows
  BY DEF InCategories, OfKind
<1>2. S = FilterByPeriod(OfKind(rows, kind), from, to)
  <2>1. from # NoDate /\ to # NoDate
    BY ReportConstants
  <2>2. \A r \in rows : EffectiveDate(r) = r.date /\ r.date \in Int
    BY ReportRows DEF ReportRow, EffectiveDate
  <2>3. QED
    BY <2>1, <2>2 DEF InCategories, FilterByPeriod, OfKind
<1>3. ByUserCategory(rows, kind, from, to)
        = [n \in {r.user : r \in T} |-> Total({r \in T : r.user = n})]
  BY DEF ByUserCategory, SumBy
<1>4. T \in SUBSET S /\ U \in SUBSET S /\ T \cap U = {} /\ T \cup U = S
  OBVIOUS
<1> HIDE DEF S, T, U
<1>5. IsFiniteSet(S) /\ (\A r \in S : r.amount \in Nat)
      /\ IsFiniteSet(T) /\ (\A r \in T : r.amount \in Nat)
  BY <1>1, <1>4, ReportTotals
<1>6. SumFunction(ByUserCategory(rows, kind, from, to)) = Total(T)
  BY <1>3, <1>5, ByUserAddsUp
<1>7. Total(S) = Total(T) + Total(U)
  BY <1>4, <1>5, TotalOfBoth
<1>8. SumFunction(AgentTotals(rows, kind, from, to)) = Total(S)
  BY <1>2, AgentAddsUp
<1>9. QED
  BY <1>6, <1>7, <1>8 DEF S, T, U

\* Of two numbers the least is the first if it is no greater.
LEMMA LeastOfTwo ==
    ASSUME NEW a \in Int, NEW b \in Int, b <= a PROVE Min({a, b}) = b
<1>1. {a, b} \in SUBSET Int /\ {a, b} # {} /\ \A s \in {a, b} : b <= s
  OBVIOUS
<1>2. Min({a, b}) \in {a, b} /\ \A s \in {a, b} : Min({a, b}) <= s
  BY <1>1, Earliest
<1>3. QED
  BY <1>2

LEMMA InsightsMatch == ReportInv => InsightsMatchTotals
<1> SUFFICES ASSUME ReportInv, \A r \in rows : r.date # NoDate, NEW c \in Currencies
             PROVE  LET spent == AgentTotals(rows, "expense", MonthStart(Today), Today)
                        earned == AgentTotals(rows, "income", MonthStart(Today), Today)
                        insights == MonthlyInsights(rows, Today, c, Today)
                    IN  /\ insights.expenses = IF c \in DOMAIN spent THEN spent[c] ELSE 0
                        /\ SumFunction(insights.top_categories) = insights.expenses
                        /\ SumFunction(TopCategories(rows, MonthStart(Today), Today))
                             + ExpensesByCategory(rows, NoName, MonthStart(Today), Today)
                             = SumFunction(spent)
                        /\ SumFunction(TopIncomeCategories(rows, MonthStart(Today), Today))
                             + IncomesByCategory(rows, NoName, MonthStart(Today), Today)
                             = SumFunction(earned)
  BY Zenon DEF InsightsMatchTotals
<1> DEFINE a == MonthStart(Today)
           spent == AgentTotals(rows, "expense", a, Today)
           insights == MonthlyInsights(rows, Today, c, Today)
           P == FilterByPeriod(OfKind(rows, "expense"), a, Today)
           S == {r \in P : r.currency = c}
           Name(r) == FirstName(<<r.user, r.legacy, r.str>>, "Sin categoria")
           names == [r \in S |-> Name(r)]
           until == IF a = MonthStart(Today) THEN Min({MonthEnd(Today), Today}) ELSE MonthEnd(Today)
<1>1. PICK first : Horizon(first, Today)
  BY ReportHorizon
<1>2. /\ Today \in Int /\ a \in Int /\ MonthEnd(Today) \in Int /\ Today <= MonthEnd(Today)
      /\ a # NoDate /\ Today # NoDate
  BY <1>1, LivedMonth, ReportConstants
<1>3. until = Today
  BY <1>2, LeastOfTwo
<1>4. {r \in OfKind(rows, "expense") : r.date # NoDate /\ a <= r.date /\ r.date <= Today
                                          /\ r.currency = c} = S
  <2>1. \A r \in rows : EffectiveDate(r) = r.date /\ r.date \in Int
    BY ReportRows DEF ReportRow, EffectiveDate
  <2>2. QED
    BY <1>2, <2>1 DEF FilterByPeriod, OfKind
<1>5. insights.expenses = Total({r \in OfKind(rows, "expense") :
          r.date # NoDate /\ a <= r.date /\ r.date <= until /\ r.currency = c})
      /\ insights.top_categories = SumBy({r \in OfKind(rows, "expense") :
          r.date # NoDate /\ a <= r.date /\ r.date <= until /\ r.currency = c}, Name)
  BY Zenon DEF MonthlyInsights
<1>6. insights.expenses = Total(S) /\ insights.top_categories = SumBy(S, Name)
  <2> HIDE DEF insights, until, S, a
  <2>1. QED
    BY <1>3, <1>4, <1>5
<1>7. SumFunction(SumBy(S, Name)) = Total(S)
  <2>1. SumBy(S, Name) = [k \in {Name(r) : r \in S} |-> Total({r \in S : Name(r) = k})]
    BY DEF SumBy
  <2>2. {names[r] : r \in S} = {Name(r) : r \in S}
    OBVIOUS
  <2>3. \A k : {r \in S : names[r] = k} = {r \in S : Name(r) = k}
    OBVIOUS
  <2>4. S \in SUBSET rows
    BY DEF FilterByPeriod, OfKind
  <2> HIDE DEF S, names
  <2>5. SumBy(S, Name) = [k \in {names[r] : r \in S} |-> Total({r \in S : names[r] = k})]
    BY <2>1, <2>2, <2>3
  <2>6. IsFiniteSet(S) /\ \A r \in S : r.amount \in Nat
    BY <2>4, ReportTotals
  <2>7. SumFunction([k \in {names[r] : r \in S} |-> Total({r \in S : names[r] = k})]) = Total(S)
    BY <2>6, GroupsAddUp
  <2>8. QED
    BY Zenon, <2>5, <2>7
<1>8. Total(S) = IF c \in DOMAIN spent THEN spent[c] ELSE 0
  <2>1. spent = [k \in {r.currency : r \in P} |-> Total({r \in P : r.currency = k})]
    BY DEF AgentTotals, SumBy
  <2>2. CASE c \in {r.currency : r \in P}
    BY <2>1, <2>2
  <2>3. CASE c \notin {r.currency : r \in P}
    <3>1. S = {}
      BY <2>3
    <3>2. c \notin DOMAIN spent
      BY <2>1, <2>3
    <3> HIDE DEF S, spent
    <3>3. QED
      BY <3>1, <3>2, NoTotal
  <2>4. QED
    BY <2>2, <2>3
<1>9. SumFunction(TopCategories(rows, a, Today)) + ExpensesByCategory(rows, NoName, a, Today)
        = SumFunction(spent)
  BY <1>2, UserAndOthers DEF TopCategories, ExpensesByCategory
<1>10. SumFunction(TopIncomeCategories(rows, a, Today)) + IncomesByCategory(rows, NoName, a, Today)
        = SumFunction(AgentTotals(rows, "income", a, Today))
  BY <1>2, UserAndOthers DEF TopIncomeCategories, IncomesByCategory
<1> HIDE DEF insights, S, spent
<1>11. /\ insights.expenses = IF c \in DOMAIN spent THEN spent[c] ELSE 0
       /\ SumFunction(insights.top_categories) = insights.expenses
  BY <1>6, <1>7, <1>8
<1>12. QED
  BY Zenon, <1>9, <1>10, <1>11 DEF insights, spent

-----------------------------------------------------------------------------
\* What most use exceeds what any other category is used.
LEMMA MostUsedOne ==
    ASSUME ReportInv, NEW U, IsFiniteSet(U), NEW times \in [U -> Nat],
           NEW bound \in Nat, \A n \in U : times[n] <= bound, NEW n \in U
    PROVE  Largest(times, 1) # {}
           /\ \A p \in Largest(times, 1) : p \in U /\ times[n] <= times[p]
<1>1. DOMAIN times = U /\ Cardinality(U) \in Nat /\ 1 # NoLimit
  BY FS_CardinalityType DEF NoLimit
<1>2. CASE 1 >= Cardinality(U)
  <2>1. Largest(times, 1) = U
    BY <1>1, <1>2 DEF Largest
  <2>2. Cardinality(U) = 1
    BY <1>1, <1>2, FS_EmptySet
  <2>3. PICK x : U = {x}
    BY <2>2, FS_Singleton
  <2>4. QED
    BY <2>1, <2>3
<1>3. CASE ~(1 >= Cardinality(U))
  <2> DEFINE Leads(s) == /\ Cardinality(s) = 1
                         /\ \A in \in s, out \in U \ s : times[in] >= times[out]
  <2>1. Largest(times, 1) = CHOOSE s \in SUBSET U : Leads(s)
    BY <1>1, <1>3 DEF Largest
  <2>2. \E s \in SUBSET U : Leads(s)
    <3> DEFINE D == {times[m] : m \in U}
    <3>1. D \in SUBSET Int /\ D # {} /\ \A m \in D : m <= bound
      OBVIOUS
    <3> HIDE DEF D
    <3>2. Max(D) \in D /\ \A m \in D : m <= Max(D)
      BY <3>1, Latest
    <3>3. PICK x \in U : Max(D) = times[x]
      BY <3>2 DEF D
    <3>4. \A m \in U : times[m] <= times[x]
      BY <3>2, <3>3 DEF D
    <3>5. Leads({x})
      BY <3>4, FS_Singleton
    <3>6. QED
      BY <3>5
  <2>3. Largest(times, 1) \in SUBSET U /\ Leads(Largest(times, 1))
    <3> HIDE DEF Leads
    <3>1. QED
      BY <2>1, <2>2, Zenon
  <2>4. IsFiniteSet(Largest(times, 1))
    BY <2>3, FS_Subset
  <2>5. PICK x : Largest(times, 1) = {x}
    BY <2>3, <2>4, FS_Singleton
  <2>6. x \in U /\ \A out \in U \ {x} : times[x] >= times[out]
    BY <2>3, <2>5
  <2>7. QED
    BY <2>5, <2>6
<1>4. QED
  BY <1>2, <1>3

\* Usage of user categories since a day: with the rows that have none it makes up
\* the agent's totals, and no category was used more than the most popular one.
LEMMA UsageOfKind ==
    ASSUME ReportInv, \A r \in rows : r.date # NoDate, NEW kind, NEW since \in Int,
           NEW usage, usage = UsageSince(rows, kind, since),
           NEW popular, popular = MostUsed(rows, kind, 1)
    PROVE  /\ SumFunction([n \in DOMAIN usage |-> usage[n].total])
                + Total({r \in FilterByPeriod(OfKind(rows, kind), since, NoDate) :
                           r.user = NoName})
                = SumFunction(AgentTotals(rows, kind, since, NoDate))
           /\ \A n \in DOMAIN usage : popular # <<>> /\
                \A p \in DOMAIN popular : usage[n].count <= popular[p]
<1> DEFINE P == FilterByPeriod(OfKind(rows, kind), since, NoDate)
           T == {r \in OfKind(rows, kind) : r.user # NoName /\ r.date # NoDate
                                              /\ r.date >= since}
           U == {r \in P : r.user = NoName}
           E == {r \in OfKind(rows, kind) : r.user # NoName}
           users == {r.user : r \in E}
           times == [n \in users |-> Cardinality({r \in E : r.user = n})]
<1>1. P \in SUBSET rows /\ E \in SUBSET rows /\ T \in SUBSET E
  BY DEF FilterByPeriod, OfKind
<1>2. T \in SUBSET P /\ U \in SUBSET P /\ T \cap U = {} /\ T \cup U = P
  <2>1. since # NoDate
    BY ReportConstants
  <2>2. \A r \in rows : EffectiveDate(r) = r.date /\ r.date \in Int
    BY ReportRows DEF ReportRow, EffectiveDate
  <2>3. QED
    BY <2>1, <2>2 DEF FilterByPeriod, OfKind
<1>3. usage = [n \in {r.user : r \in T} |->
                 [count |-> Cardinality({r \in T : r.user = n}),
                  total |-> Total({r \in T : r.user = n})]]
  BY DEF UsageSince
<1>4. popular = [n \in Largest(times, 1) |-> times[n]]
  BY DEF MostUsed
<1>5. \A n : {r \in T : r.user = n} \in SUBSET {r \in E : r.user = n}
  BY <1>1
<1>6. {r.user : r \in T} \in SUBSET users
  BY <1>1
<1>7. \A n : {r \in E : r.user = n} \in SUBSET E
  OBVIOUS
<1>8. IsFiniteSet(users)
  <2> DEFINE key == [r \in E |-> r.user]
  <2>1. users = {key[r] : r \in E}
    OBVIOUS
  <2>2. IsFiniteSet(E)
    BY <1>1, ReportTotals
  <2> HIDE DEF key, users, E
  <2>3. QED
    BY <2>1, <2>2, ImagesAreFinite
<1>9. times = [n \in users |-> Cardinality({r \in E : r.user = n})]
  OBVIOUS
<1> HIDE DEF P, T, U, E, users, times
<1>10. IsFiniteSet(P) /\ (\A r \in P : r.amount \in Nat)
       /\ IsFiniteSet(T) /\ (\A r \in T : r.amount \in Nat) /\ IsFiniteSet(E)
  <2>1. T \in SUBSET rows
    BY <1>1
  <2>2. QED
    BY <1>1, <2>1, ReportTotals
<1>11. SumFunction([n \in DOMAIN usage |-> usage[n].total]) = Total(T)
  <2> DEFINE sums == [n \in DOMAIN usage |-> usage[n].total]
  <2>1. sums = [n \in {r.user : r \in T} |-> Total({r \in T : r.user = n})]
    BY <1>3
  <2> HIDE DEF sums
  <2>2. SumFunction(sums) = Total(T)
    BY <1>10, <2>1, ByUserAddsUp
  <2>3. QED
    BY <2>2 DEF sums
<1>12. Total(P) = Total(T) + Total(U)
  BY <1>2, <1>10, TotalOfBoth
<1>13. SumFunction(AgentTotals(rows, kind, since, NoDate)) = Total(P)
  BY AgentAddsUp DEF P
<1>14. \A n \in users : times[n] \in Nat /\ times[n] <= Cardinality(E)
  <2> TAKE n \in users
  <2> DEFINE V == {r \in E : r.user = n}
  <2>1. V \in SUBSET E /\ times[n] = Cardinality(V)
    BY <1>9
  <2> HIDE DEF V
  <2>2. IsFiniteSet(V) /\ Cardinality(V) <= Cardinality(E)
    BY <1>10, <2>1, FS_Subset
  <2>3. QED
    BY <2>1, <2>2, FS_CardinalityType
<1>15. ASSUME NEW n \in DOMAIN usage
       PROVE  popular # <<>> /\ \A p \in DOMAIN popular : usage[n].count <= popular[p]
  <2>1. n \in users
    BY <1>3, <1>6, <1>15
  <2>2. Cardinality(E) \in Nat /\ times \in [users -> Nat]
    BY <1>9, <1>10, <1>14, FS_CardinalityType
  <2>3. Largest(times, 1) # {}
        /\ \A p \in Largest(times, 1) : p \in users /\ times[n] <= times[p]
    BY <1>8, <1>14, <2>1, <2>2, MostUsedOne
  <2>4. usage[n].count <= times[n] /\ usage[n].count \in Int
    <3> DEFINE V == {r \in T : r.user = n}
               W == {r \in E : r.user = n}
    <3>1. V \in SUBSET W /\ W \in SUBSET E
      BY <1>5, <1>7
    <3>2. usage[n].count = Cardinality(V) /\ times[n] = Cardinality(W)
      BY <1>3, <1>9, <1>15, <2>1
    <3> HIDE DEF V, W
    <3>3. IsFiniteSet(W)
      BY <1>10, <3>1, FS_Subset
    <3>4. IsFiniteSet(V) /\ Cardinality(V) <= Cardinality(W)
      BY <3>1, <3>3, FS_Subset
    <3>5. QED
      BY <3>2, <3>4, FS_CardinalityType
  <2>5. DOMAIN popular = Largest(times, 1) /\ \A p \in DOMAIN popular : popular[p] = times[p]
    BY <1>4
  <2>6. popular # <<>>
    BY <2>3, <2>5
  <2>7. \A p \in DOMAIN popular : usage[n].count <= popular[p]
    <3> TAKE p \in DOMAIN popular
    <3>1. p \in users /\ times[n] <= times[p] /\ popular[p] = times[p]
      BY <2>3, <2>5
    <3>2. times[n] \in Nat /\ times[p] \in Nat
      BY <1>14, <2>1, <3>1
    <3>3. QED
      BY <2>4, <3>1, <3>2
  <2>8. QED
    BY <2>6, <2>7
<1>16. QED
  BY <1>11, <1>12, <1>13, <1>15 DEF P, U

LEMMA UsageMeets == ReportInv => UsageMeetsTotals
<1> SUFFICES ASSUME ReportInv, \A r \in rows : r.date # NoDate,
                    NEW kind \in Kinds, NEW since \in {MonthStart(Today), Today}
             PROVE  LET usage == IF kind = "expense" THEN UsageOfExpenseCategories(rows, since)
                                 ELSE UsageOfIncomeCategories(rows, since)
                        popular == IF kind = "expense" THEN PopularExpenseCategories(rows, 1)
                                   ELSE PopularIncomeCategories(rows, 1)
                        unnamed == {r \in FilterByPeriod(OfKind(rows, kind), since, NoDate) :
                                      r.user = NoName}
                    IN  /\ SumFunction([n \in DOMAIN usage |-> usage[n].total]) + Total(unnamed)
                             = SumFunction(AgentTotals(rows, kind, since, NoDate))
                        /\ \A n \in DOMAIN usage : popular # <<>> /\
                             \A p \in DOMAIN popular : usage[n].count <= popular[p]
  BY Zenon DEF UsageMeetsTotals
<1> DEFINE usage == IF kind = "expense" THEN UsageOfExpenseCategories(rows, since)
                    ELSE UsageOfIncomeCategories(rows, since)
           popular == IF kind = "expense" THEN PopularExpenseCategories(rows, 1)
                      ELSE PopularIncomeCategories(rows, 1)
<1>1. PICK first : Horizon(first, Today)
  BY ReportHorizon
<1>2. since \in Int
  BY <1>1, LivedMonth
<1>3. usage = UsageSince(rows, kind, since)
  BY DEF Kinds, UsageOfExpenseCategories, UsageOfIncomeCategories
<1>4. popular = MostUsed(rows, kind, 1)
  BY DEF Kinds, PopularExpenseCategories, PopularIncomeCategories
<1> HIDE DEF usage, popular
<1>5. /\ SumFunction([n \in DOMAIN usage |-> usage[n].total])
           + Total({r \in FilterByPeriod(OfKind(rows, kind), since, NoDate) : r.user = NoName})
           = SumFunction(AgentTotals(rows, kind, since, NoDate))
      /\ \A n \in DOMAIN usage : popular # <<>> /\
           \A p \in DOMAIN popular : usage[n].count <= popular[p]
  BY <1>2, <1>3, <1>4, UsageOfKind
<1>6. QED
  BY Zenon, <1>5 DEF usage, popular

LEMMA SummariesDoAgree == ReportInv => SummariesAgree
BY ComparisonMeets, IncomesSummed, InsightsMatch, UsageMeets DEF SummariesAgree

-----------------------------------------------------------------------------
(* The reports: the inductive invariant.                                   *)

Movement ==
    [id : Ids, kind : Kinds, amount : Nat, currency : Currencies,
     ts : Stamps, date : Int \cup {NoDate},
     user : UserNames \cup GlobalNames \cup {NoName},
     legacy : GlobalNames \cup {NoName},
     str : UserNames \cup {NoName}]

LEMMA ReportTypes ==
    ReportInv <=> /\ rows \subseteq Movement
                  /\ \A r, s \in rows : r.id = s.id => r = s
                  /\ now \in FirstHour..LastHour
                  /\ IsFiniteSet(rows)
                  /\ \A r \in rows : r.ts <= now
BY DEF ReportInv, TypeOK, Movement

LEMMA ReportStarts == Init => ReportInv
<1> SUFFICES ASSUME Init PROVE ReportInv
  OBVIOUS
<1>1. rows = {} /\ now = FirstHour /\ IsFiniteSet(rows)
  BY FS_EmptySet DEF Init
<1>2. now \in FirstHour..LastHour
  BY <1>1, ReportConstants
<1>3. QED
  BY <1>1, <1>2, ReportTypes

\* Rows that stay, with some row of a new number or of one that was there.
LEMMA RowSaved ==
    ASSUME ReportInv, NEW kept \in SUBSET rows, NEW row \in Movement, row.ts <= now,
           \A r \in kept : r.id # row.id, rows' = kept \cup {row}, now' = now
    PROVE  ReportInv'
<1>1. IsFiniteSet(rows')
  <2>1. IsFiniteSet(kept)
    BY FS_Subset DEF ReportInv
  <2>2. QED
    BY <2>1, FS_AddElement
<1>2. rows' \subseteq Movement /\ \A r \in rows' : r.ts <= now'
  BY ReportTypes
<1>3. \A r, s \in rows' : r.id = s.id => r = s
  BY ReportTypes
<1>4. now' \in FirstHour..LastHour
  BY ReportTypes
<1>5. QED
  BY <1>1, <1>2, <1>3, <1>4 DEF ReportInv, TypeOK, Movement

\* What a serializer or a tool makes of a row, or of none.
LEMMA NewRowFits ==
    ASSUME NEW id \in Ids, NEW kind \in Kinds, NEW ts \in Stamps,
           NEW date \in Int \cup {NoDate}, NEW currency \in Currencies
    PROVE  /\ NewRow(id, kind, ts, date, currency) \in Movement
           /\ NewRow(id, kind, ts, date, currency).id = id
           /\ NewRow(id, kind, ts, date, currency).ts = ts
BY ReportConstants DEF NewRow, Movement

LEMMA NamedFits ==
    ASSUME NEW row \in Movement, NEW global \in BOOLEAN, NEW name \in Names(global)
    PROVE  /\ Named(row, name, global) \in Movement
           /\ Named(row, name, global).id = row.id
           /\ Named(row, name, global).ts = row.ts
<1>1. name = NoName => Named(row, name, global) = row
  BY DEF Named
<1>2. CASE name = NoName
  BY <1>1, <1>2
<1>3. CASE name # NoName /\ global
  BY <1>3 DEF Named, Names, Movement
<1>4. CASE name # NoName /\ ~global
  BY <1>4 DEF Named, Names, Movement
<1>5. QED
  BY <1>2, <1>3, <1>4

LEMMA DatesFit ==
    ASSUME ReportInv, NEW ts \in Stamps
    PROVE  Dates(ts) \subseteq Int \cup {NoDate} /\ AgentDates \subseteq Int
<1>1. Today \in Int /\ \A t \in Stamps : LocalDay(t) \in Int
  BY ReportRows, ReportConstants, DayBounds
<1>2. QED
  BY <1>1 DEF Dates, AgentDates

LEMMA CreatedKeeps ==
    ASSUME ReportInv, NEW id \in Ids, NEW c \in Currencies, NEW ts \in Stamps, NEW g \in BOOLEAN,
           NEW date \in Dates(ts), NEW n \in Names(g),
           CreateExpense(id, ts, date, c, n, g) \/ CreateIncome(id, ts, date, c, n, g)
    PROVE  ReportInv'
<1>1. PICK kind \in Kinds : /\ \A r \in rows : r.id # id
                            /\ ts <= now
                            /\ rows' = rows \cup {Named(NewRow(id, kind, ts, date, c), n, g)}
                            /\ now' = now
  BY DEF CreateExpense, CreateIncome, Kinds
<1> DEFINE new == NewRow(id, kind, ts, date, c)
           row == Named(new, n, g)
<1>2. new \in Movement /\ new.id = id /\ new.ts = ts
  <2>1. date \in Int \cup {NoDate}
    BY DatesFit
  <2>2. QED
    BY <2>1, NewRowFits
<1> HIDE DEF new
<1>3. row \in Movement /\ row.id = id /\ row.ts = ts
  BY <1>2, NamedFits
<1>4. rows' = rows \cup {row}
  BY <1>1 DEF new
<1> HIDE DEF row
<1>5. QED
  BY <1>1, <1>3, <1>4, RowSaved

LEMMA CreatedByAgentKeeps ==
    ASSUME ReportInv, NEW id \in Ids, NEW c \in Currencies, NEW date \in AgentDates,
           NEW n \in UserNames,
           CreateExpenseByAgent(id, date, c, n) \/ CreateIncomeByAgent(id, date, c, n)
    PROVE  ReportInv'
<1>1. PICK kind \in Kinds : CreateByAgent(id, kind, date, c, n)
  BY DEF CreateExpenseByAgent, CreateIncomeByAgent, Kinds
<1> DEFINE new == NewRow(id, kind, now, date, c)
           row == [new EXCEPT !.user = n, !.str = n]
<1>2. /\ \A r \in rows : r.id # id
      /\ now \in Stamps /\ now' = now /\ rows' = rows \cup {row}
  BY <1>1 DEF CreateByAgent
<1>3. new \in Movement /\ new.id = id /\ new.ts = now
  BY <1>2, DatesFit, NewRowFits
<1> HIDE DEF new
<1>4. row \in Movement /\ row.id = id /\ row.ts = now
  BY <1>3 DEF Movement
<1>5. now <= now
  BY ReportRows
<1> HIDE DEF row
<1>6. QED
  BY <1>2, <1>4, <1>5, RowSaved

\* A row is replaced by one of its number and its stamp.
LEMMA RowReplaced ==
    ASSUME ReportInv, NEW old \in rows, NEW row \in Movement, row.id = old.id, row.ts = old.ts,
           rows' = (rows \ {old}) \cup {row}, now' = now
    PROVE  ReportInv'
<1>1. row.ts <= now /\ \A r \in rows \ {old} : r.id # row.id
  BY ReportTypes
<1>2. QED
  BY <1>1, RowSaved

LEMMA UpdatedKeeps ==
    ASSUME ReportInv, NEW r \in rows, NEW g \in BOOLEAN, NEW n \in Names(g),
           UpdateExpense(r, n, g) \/ UpdateIncome(r, n, g)
    PROVE  ReportInv'
<1> DEFINE row == Named(r, n, g)
<1>1. rows' = (rows \ {r}) \cup {row} /\ now' = now
  BY DEF UpdateExpense, UpdateIncome, UpdateCategory
<1>2. r \in Movement
  BY ReportTypes
<1>3. row \in Movement /\ row.id = r.id /\ row.ts = r.ts
  BY <1>2, NamedFits
<1> HIDE DEF row
<1>4. QED
  BY <1>1, <1>3, RowReplaced

LEMMA UpdatedByAgentKeeps ==
    ASSUME ReportInv, NEW r \in rows, NEW date \in AgentDates \cup {r.date}, NEW n \in UserNames,
           UpdateExpenseByAgent(r, date, n) \/ UpdateIncomeByAgent(r, date, n)
    PROVE  ReportInv'
<1> DEFINE row == [r EXCEPT !.user = n, !.str = n, !.date = date]
<1>1. rows' = (rows \ {r}) \cup {row} /\ now' = now
  BY DEF UpdateExpenseByAgent, UpdateIncomeByAgent, UpdateByAgent
<1>2. r \in Movement
  BY ReportTypes
<1>3. date \in Int \cup {NoDate}
  <2>1. r.ts \in Stamps /\ r.date \in Int \cup {NoDate}
    BY <1>2 DEF Movement
  <2>2. QED
    BY <2>1, DatesFit
<1>4. row \in Movement /\ row.id = r.id /\ row.ts = r.ts
  BY <1>2, <1>3 DEF Movement
<1> HIDE DEF row
<1>5. QED
  BY <1>1, <1>4, RowReplaced

LEMMA DestroyedKeeps ==
    ASSUME ReportInv, NEW r \in rows, DestroyExpense(r) \/ DestroyIncome(r)
    PROVE  ReportInv'
<1>1. rows' = rows \ {r} /\ now' = now
  BY DEF DestroyExpense, DestroyIncome, Destroy
<1>2. IsFiniteSet(rows')
  BY <1>1, FS_Subset DEF ReportInv
<1>3. QED
  BY <1>1, <1>2 DEF ReportInv, TypeOK

\* A deleted category leaves the rows it had without one.
LEMMA CategoryDeletedKeeps ==
    ASSUME ReportInv, NEW n \in UserNames, DeleteCategory(n)
    PROVE  ReportInv'
<1> DEFINE freed == [r \in rows |-> IF r.user = n THEN [r EXCEPT !.user = NoName] ELSE r]
<1>1. rows' = {freed[r] : r \in rows} /\ now' = now
  BY DEF DeleteCategory
<1>2. ASSUME NEW r \in rows
      PROVE  freed[r] \in Movement /\ freed[r].id = r.id /\ freed[r].ts = r.ts
  <2>1. r \in Movement
    BY ReportTypes
  <2>2. QED
    BY <2>1 DEF Movement
<1> HIDE DEF freed
<1>3. IsFiniteSet(rows')
  BY <1>1, ImagesAreFinite DEF ReportInv
<1>4. rows' \subseteq Movement /\ \A r \in rows' : r.ts <= now'
  BY <1>1, <1>2, ReportTypes
<1>5. \A r, s \in rows' : r.id = s.id => r = s
  BY <1>1, <1>2, ReportTypes
<1>6. now' \in FirstHour..LastHour
  BY <1>1, ReportTypes
<1>7. QED
  BY <1>3, <1>4, <1>5, <1>6 DEF ReportInv, TypeOK, Movement

LEMMA HourKeeps == ReportInv /\ Tick => ReportInv'
<1> SUFFICES ASSUME ReportInv, Tick PROVE ReportInv'
  OBVIOUS
<1>1. now' = now + 1 /\ now < LastHour /\ rows' = rows
  BY DEF Tick
<1>2. now \in Int /\ now' \in FirstHour..LastHour
  BY <1>1, ReportConstants, ReportTypes
<1>3. \A r \in rows : r.ts <= now'
  <2> TAKE r \in rows
  <2>1. r.ts \in Int /\ r.ts <= now
    BY ReportRows DEF ReportRow
  <2>2. QED
    BY <1>1, <1>2, <2>1
<1>4. QED
  BY <1>1, <1>2, <1>3 DEF ReportInv, TypeOK

LEMMA ReportsKept == ReportInv /\ [Next]_vars => ReportInv'
<1> SUFFICES ASSUME ReportInv, [Next]_vars PROVE ReportInv'
  OBVIOUS
<1>1. CASE UNCHANGED vars
  BY <1>1 DEF vars, ReportInv, TypeOK
<1>2. CASE Tick
  BY <1>2, HourKeeps
<1>3. CASE Write
  <2>1. CASE \E id \in Ids, c \in Currencies, ts \in Stamps, g \in BOOLEAN :
               \E date \in Dates(ts), n \in Names(g) :
                 CreateExpense(id, ts, date, c, n, g) \/ CreateIncome(id, ts, date, c, n, g)
    BY <2>1, CreatedKeeps
  <2>2. CASE \E id \in Ids, c \in Currencies, date \in AgentDates, n \in UserNames :
               CreateExpenseByAgent(id, date, c, n) \/ CreateIncomeByAgent(id, date, c, n)
    BY <2>2, CreatedByAgentKeeps
  <2>3. CASE \E r \in rows : DestroyExpense(r) \/ DestroyIncome(r)
    BY <2>3, DestroyedKeeps
  <2>4. CASE \E r \in rows, g \in BOOLEAN : \E n \in Names(g) :
               UpdateExpense(r, n, g) \/ UpdateIncome(r, n, g)
    BY <2>4, UpdatedKeeps
  <2>5. CASE \E r \in rows : \E date \in AgentDates \cup {r.date}, n \in UserNames :
               UpdateExpenseByAgent(r, date, n) \/ UpdateIncomeByAgent(r, date, n)
    BY <2>5, UpdatedByAgentKeeps
  <2>6. CASE \E n \in UserNames : DeleteCategory(n)
    BY <2>6, CategoryDeletedKeeps
  <2>7. QED
    BY <1>3, <2>1, <2>2, <2>3, <2>4, <2>5, <2>6, Zenon DEF Write
<1>4. QED
  BY <1>1, <1>2, <1>3 DEF Next

\* What the reports are computed from: rows of their types, finitely many, none of
\* them stamped ahead of the clock (CreateExpense, CreateIncome and the agent's tools).
THEOREM ReportInvariantHolds == Spec => []ReportInv
BY ReportStarts, ReportsKept, PTL DEF Spec

\* A behaviour about the reports is one of FinanceRecords.
AboutReports == focus = "report"

LEMMA ReportSteps ==
    [ReportStep \/ BalanceStep \/ MailStep \/ CategoryStep]_allVars =>
      /\ AboutReports => AboutReports' /\ [Next]_vars
      /\ ~AboutReports => ~AboutReports'
BY DEF AboutReports, ReportStep, BalanceStep, MailStep, CategoryStep, allVars, vars

\* For any calendar in which years are long enough for the labels of a line, any time
\* zone, rows, amounts, currencies and categories, and at any hour: the dashboard's
\* windows part time without gap or overlap, the donut, the bars, the stacked bars and
\* the agent's totals give one sum for one window, and the points of a chart add up to
\* what its window holds.
THEOREM ChartsAgreeAlways == RecordsSpec => []ReportedChartsAgree
<1>1. ReportInv => ChartsAgree
  BY ChartsDoAgree
<1>2. RecordsInit /\ AboutReports => Init
  BY DEF RecordsInit
<1>3. QED
  BY <1>1, <1>2, ReportSteps, ReportInvariantHolds, PTL
     DEF RecordsSpec, ReportedChartsAgree, Spec, AboutReports

\* Under the same assumptions the summary, the comparison, the insights, the agent's
\* totals and the use of categories, each computed by code of its own, add up to one
\* total where their rows are the same.
THEOREM SummariesAgreeAlways == RecordsSpec => []ReportedSummariesAgree
<1>1. ReportInv => SummariesAgree
  BY SummariesDoAgree
<1>2. RecordsInit /\ AboutReports => Init
  BY DEF RecordsInit
<1>3. QED
  BY <1>1, <1>2, ReportSteps, ReportInvariantHolds, PTL
     DEF RecordsSpec, ReportedSummariesAgree, Spec, AboutReports
=============================================================================
