--------------------------- MODULE MetaMessageTask ---------------------------
(***************************************************************************)
(* process_meta_message_async: the tasks that several deliveries of one    *)
(* WhatsApp message start, and the done mark and the lock they share in    *)
(* the cache.  Each cache call is one action.  Time is counted in minutes. *)
(* The done mark outlives the horizon (24 h) and does not expire here.     *)
(***************************************************************************)
EXTENDS Naturals, FiniteSets

CONSTANTS
    Tasks,          \* task ids, one for each delivery of the message
    NoTask,
    MaxRetries,     \* max_retries of the task
    RunLimit,       \* CELERY_TASK_TIME_LIMIT
    LockLife,       \* MESSAGE_LOCK_TIMEOUT
    MaxCrashes,     \* how many workers are lost (bound)
    BrokerMayFail   \* may the webhook fail to enqueue?

\* Assumed by the modules that give the constants their values.
TaskAssumption == NoTask \notin Tasks
BoundAssumption ==
    /\ MaxRetries \in Nat /\ RunLimit \in Nat /\ MaxCrashes \in Nat
    /\ BrokerMayFail \in BOOLEAN
LockAssumption == LockLife \in Nat /\ RunLimit < LockLife

VARIABLES
    task,           \* where each task is, its retries, the age of its execution
    done,           \* whatsapp_message_done_<id>
    lock,           \* whatsapp_message_processing_<id>: the owner, or NoTask
    left,           \* minutes left to the lock
    handled,        \* did some execution do what the message asks?
    crashes

vars == <<task, done, lock, left, handled, crashes>>
cache == <<done, lock, left>>

Handling == {"processing", "acted"}
Running == {"started", "unmarked", "contended", "succeeded", "marked", "raised"}
             \cup Handling
Settled == {"collapsed", "gave_way", "completed", "failed", "timed_out",
            "inline_completed", "inline_failed"}
PCs == {"none", "queued", "inline"} \cup Running \cup Settled

TypeOK ==
    /\ task \in [Tasks -> [pc : PCs, tries : 0..MaxRetries, age : 0..RunLimit]]
    /\ done \in BOOLEAN /\ handled \in BOOLEAN
    /\ lock \in Tasks \cup {NoTask}
    /\ left \in 0..LockLife
    /\ lock = NoTask <=> left = 0
    /\ crashes \in 0..MaxCrashes

Init ==
    /\ task = [t \in Tasks |-> [pc |-> "none", tries |-> 0, age |-> 0]]
    /\ done = FALSE
    /\ lock = NoTask /\ left = 0
    /\ handled = FALSE
    /\ crashes = 0

At(t, pc) == task[t].pc = pc
Goto(t, pc) == task' = [task EXCEPT ![t].pc = pc]

-----------------------------------------------------------------------------
(* The webhook.                                                            *)

\* Meta delivers the message, for the first time or again.
Enqueue(t) ==
    /\ At(t, "none")
    /\ Goto(t, "queued")
    /\ UNCHANGED <<cache, handled, crashes>>

\* The broker is down: the web thread processes the message itself.
EnqueueFails(t) ==
    /\ BrokerMayFail /\ At(t, "none")
    /\ Goto(t, "inline")
    /\ UNCHANGED <<cache, handled, crashes>>

\* Neither mark nor lock is written, and an exception is only logged.
InlineEnds(t) ==
    /\ At(t, "inline")
    /\ \/ Goto(t, "inline_completed") /\ handled' = TRUE
       \/ Goto(t, "inline_failed") /\ UNCHANGED handled
    /\ UNCHANGED <<cache, crashes>>

-----------------------------------------------------------------------------
(* An execution of the task, up to the lock.                               *)

Start(t) ==
    /\ At(t, "queued")
    /\ task' = [task EXCEPT ![t].pc = "started", ![t].age = 0]
    /\ UNCHANGED <<cache, handled, crashes>>

ReadDone(t) ==
    /\ At(t, "started")
    /\ Goto(t, IF done THEN "collapsed" ELSE "unmarked")
    /\ UNCHANGED <<cache, handled, crashes>>

\* Mutant of AddLock: the key is set, whoever holds it.
SetLock(t) ==
    /\ At(t, "unmarked")
    /\ lock' = t /\ left' = LockLife
    /\ Goto(t, "processing")
    /\ UNCHANGED <<done, handled, crashes>>

AddLock(t) ==
    /\ At(t, "unmarked")
    /\ IF lock = NoTask
         THEN lock' = t /\ left' = LockLife /\ Goto(t, "processing")
         ELSE UNCHANGED <<lock, left>> /\ Goto(t, "contended")
    /\ UNCHANGED <<done, handled, crashes>>

\* A lock of this very task is taken over with the time it has left.
ReadOwner(t) ==
    /\ At(t, "contended")
    /\ Goto(t, IF lock = t THEN "processing" ELSE "gave_way")
    /\ UNCHANGED <<cache, handled, crashes>>

-----------------------------------------------------------------------------
(* Processing and what follows it.                                         *)

\* The message takes effect: an expense is saved, an answer sent.
Act(t) ==
    /\ At(t, "processing")
    /\ handled' = TRUE
    /\ Goto(t, "acted")
    /\ UNCHANGED <<cache, crashes>>

\* _process_single_meta_message returns: handle_meta_whatsapp_message turns
\* exceptions into (False, text), and the task ignores what is returned.
Returns(t) ==
    /\ task[t].pc \in Handling
    /\ Goto(t, "succeeded")
    /\ UNCHANGED <<cache, handled, crashes>>

Raises(t) ==
    /\ task[t].pc \in Handling
    /\ Goto(t, "raised")
    /\ UNCHANGED <<cache, handled, crashes>>

MarkDone(t) ==
    /\ At(t, "succeeded")
    /\ done' = TRUE
    /\ Goto(t, "marked")
    /\ UNCHANGED <<lock, left, handled, crashes>>

\* cache.delete does not ask whose lock it is.
DeleteLock == lock' = NoTask /\ left' = 0

Complete(t) ==
    /\ At(t, "marked")
    /\ DeleteLock
    /\ Goto(t, "completed")
    /\ UNCHANGED <<done, handled, crashes>>

\* Mutant of Retry: the task is queued again however often it was retried.
RetryForever(t) ==
    /\ At(t, "raised")
    /\ DeleteLock
    /\ Goto(t, "queued")
    /\ UNCHANGED <<done, handled, crashes>>

\* autoretry_for
Retry(t) ==
    /\ At(t, "raised")
    /\ DeleteLock
    /\ IF task[t].tries < MaxRetries
         THEN task' = [task EXCEPT ![t].pc = "queued", ![t].tries = @ + 1]
         ELSE Goto(t, "failed")
    /\ UNCHANGED <<done, handled, crashes>>

-----------------------------------------------------------------------------
(* Time and failure.                                                       *)

\* Nothing runs longer than the hard limit.
Tick ==
    /\ left > 0 \/ \E t \in Tasks : task[t].pc \in Running
    /\ \A t \in Tasks : task[t].pc \in Running => task[t].age < RunLimit
    /\ task' = [t \in Tasks |->
          IF task[t].pc \in Running THEN [task[t] EXCEPT !.age = @ + 1] ELSE task[t]]
    /\ left' = IF left > 0 THEN left - 1 ELSE 0
    /\ lock' = IF left' = 0 THEN NoTask ELSE lock
    /\ UNCHANGED <<done, handled, crashes>>

\* The worker process is killed and the task acknowledged as failed; its lock
\* stays.
TimeLimit(t) ==
    /\ task[t].pc \in Running /\ task[t].age = RunLimit
    /\ Goto(t, "timed_out")
    /\ UNCHANGED <<cache, handled, crashes>>

\* acks_late and reject_on_worker_lost: the broker delivers the task again.
WorkerLost(t) ==
    /\ crashes < MaxCrashes /\ task[t].pc \in Running
    /\ Goto(t, "queued")
    /\ crashes' = crashes + 1
    /\ UNCHANGED <<cache, handled>>

-----------------------------------------------------------------------------

TaskStep(t) ==
    \/ InlineEnds(t)
    \/ Start(t) \/ ReadDone(t) \/ AddLock(t) \/ ReadOwner(t)
    \/ Act(t) \/ Returns(t) \/ Raises(t)
    \/ MarkDone(t) \/ Complete(t) \/ Retry(t) \/ TimeLimit(t)

Next ==
    \/ Tick
    \/ \E t \in Tasks : Enqueue(t) \/ EnqueueFails(t) \/ TaskStep(t) \/ WorkerLost(t)

Spec == Init /\ [][Next]_vars

\* Workers take and run what is queued.
FairSpec == Spec /\ \A t \in Tasks : WF_vars(TaskStep(t))

-----------------------------------------------------------------------------
(* Properties.                                                             *)

\* As long as no worker is lost, two deliveries are not processed in parallel,
\* whatever raises and whatever runs into the time limit.
OneAtATime ==
    crashes = 0 => Cardinality({t \in Tasks : task[t].pc \in Handling}) <= 1
DeliveriesAreSerial == TypeOK /\ OneAtATime

\* Every delivery comes to an end, whatever fails.
EveryDeliverySettles ==
    \A t \in Tasks : task[t].pc \in {"queued", "inline"} ~> task[t].pc \in Settled

\* "colapsa reentregas reales del webhook": once marked, the message takes no
\* further effect.
NoEffectAfterDone ==
    [][\A t \in Tasks : At(t, "processing") /\ task'[t].pc = "acted" => ~done]_vars

\* "un reintento de la misma tarea puede retomar su propio candado en vez de
\* auto-descartarse": if every delivery was collapsed into another, the message
\* was marked.
NotSwallowed == (\A t \in Tasks : task[t].pc \in {"collapsed", "gave_way"}) => done

\* "para que dos entregas distintas no procesen en paralelo"
NeverInParallel == Cardinality({t \in Tasks : task[t].pc \in Handling}) <= 1

\* "el marcador done solo se escribe al terminar con exito".
DoneMeansHandled == done => handled
=============================================================================
