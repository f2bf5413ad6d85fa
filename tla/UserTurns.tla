----------------------------- MODULE UserTurns -----------------------------
(***************************************************************************)
(* The turns of one user with the assistant.  Every message of a bot is    *)
(* saved, then takes its turn: a queue in Redis sorted by message, a       *)
(* heartbeat per turn and a lock.  Inside the turn the agent reads the     *)
(* history, registers movements and its reply is saved.                    *)
(***************************************************************************)
EXTENDS Integers, FiniteSets

CONSTANTS
    Turns,          \* messages, 1..n in the order they are saved
    Wordings,       \* notes the model may give one movement
    MaxFaults,      \* deaths, and lapses of Redis or of a wait (bound)
    NoTurn

ASSUME TurnsAssumption ==
    /\ Turns \subseteq Nat
    /\ MaxFaults \in Nat /\ NoTurn \notin Turns

VARIABLES
    turn,           \* where the handler of each message stands
    queue,          \* the sorted set of the user
    alive,          \* heartbeats
    lock,
    renewing,       \* turns whose keep-alive task runs
    answered,       \* messages with a saved reply
    history,        \* what a turn saw unanswered
    made,           \* TurnCreations of a turn
    registered,     \* records that exist of each message's movement
    faults,
    missed          \* messages saved but not queued when a later turn entered

redis == <<queue, alive, lock, renewing>>
records == <<answered, history, made, registered>>
vars == <<turn, redis, records, faults, missed>>

Waiting == {"waiting", "head", "taken"}
Inside == {"entered", "acting", "replied"}
Faults == {"death", "lapse"}

TypeOK ==
    /\ turn \in [Turns -> {"new", "saved", "done", "dead"} \cup Waiting \cup Inside]
    /\ queue \subseteq Turns /\ alive \subseteq Turns /\ renewing \subseteq Turns
    /\ lock \in Turns \cup {NoTurn}
    /\ answered \subseteq Turns /\ missed \subseteq Turns
    /\ history \in [Turns -> SUBSET Turns]
    /\ made \in [Turns -> SUBSET (Turns \X Wordings)]
    /\ registered \in [Turns -> Nat] /\ faults \in [Faults -> 0..MaxFaults]
    /\ \A t \in Turns : turn[t] = "done" => t \notin queue \cup renewing /\ lock # t

Init ==
    /\ turn = [t \in Turns |-> "new"]
    /\ queue = {} /\ alive = {} /\ lock = NoTurn /\ renewing = {}
    /\ answered = {} /\ missed = {} /\ faults = [f \in Faults |-> 0]
    /\ history = [t \in Turns |-> {}]
    /\ made = [t \in Turns |-> {}]
    /\ registered = [t \in Turns |-> 0]

Step(t, from, to) == turn[t] = from /\ turn' = [turn EXCEPT ![t] = to]
Fault(f) ==
    /\ faults["death"] + faults["lapse"] < MaxFaults
    /\ faults' = [faults EXCEPT ![f] = @ + 1]

-----------------------------------------------------------------------------
(* user_turn.                                                              *)

\* create_message: ids follow the order of the inserts.
SaveMessage(t) ==
    /\ \A u \in Turns : u < t => turn[u] # "new"
    /\ Step(t, "new", "saved")
    /\ UNCHANGED <<redis, records, faults, missed>>

Enqueue(t) ==
    /\ Step(t, "saved", "waiting")
    /\ queue' = queue \cup {t} /\ alive' = alive \cup {t}
    /\ UNCHANGED <<lock, renewing, records, faults, missed>>

\* _is_head takes the dead out of the queue; a turn no longer queued passes too.
Ahead(t) == {u \in queue : u < t}
\* Mutant of Gone: the heartbeat is not asked.
GoneNever(t) == {}
Gone(t) == Ahead(t) \ alive
IsHead(t) == t \notin queue \/ Ahead(t) \subseteq Gone(t)
Swept(t) == IF t \in queue THEN queue \ Gone(t) ELSE queue

\* One round of _acquire_in_order: renew, look, take the lock, look again.
Poll(t) ==
    /\ Step(t, "waiting", IF IsHead(t) THEN "head" ELSE "waiting")
    /\ alive' = alive \cup {t} /\ queue' = Swept(t)
    /\ UNCHANGED <<lock, renewing, records, faults, missed>>

\* Mutant of TakeLock: the queue alone decides.
TakeAnyway(t) ==
    /\ Step(t, "head", "taken")
    /\ lock' = t
    /\ UNCHANGED <<queue, alive, renewing, records, faults, missed>>

TakeLock(t) ==
    /\ Step(t, "head", IF lock = NoTurn THEN "taken" ELSE "waiting")
    /\ lock' = IF lock = NoTurn THEN t ELSE lock
    /\ UNCHANGED <<queue, alive, renewing, records, faults, missed>>

Unqueued(t) == {m \in Turns : m < t /\ turn[m] = "saved"}

\* What is taken is kept.
RecheckNot(t) ==
    /\ Step(t, "taken", "entered")
    /\ renewing' = renewing \cup {t}
    /\ missed' = missed \cup Unqueued(t)
    /\ UNCHANGED <<queue, alive, lock, records, faults>>

Recheck(t) ==
    /\ Step(t, "taken", IF IsHead(t) THEN "entered" ELSE "waiting")
    /\ queue' = Swept(t)
    /\ renewing' = IF IsHead(t) THEN renewing \cup {t} ELSE renewing
    /\ lock' = IF IsHead(t) THEN lock ELSE NoTurn
    /\ missed' = IF IsHead(t) THEN missed \cup Unqueued(t) ELSE missed
    /\ UNCHANGED <<alive, records, faults>>

\* The deadline, or a Redis error, while waiting: the turn goes on unlocked.
GoesOnAnyway(t) ==
    /\ turn[t] \in {"saved", "waiting"} /\ Fault("lapse")
    /\ turn' = [turn EXCEPT ![t] = "entered"]
    /\ UNCHANGED <<redis, records, missed>>

\* A renewal fails and the keep-alive task ends.
RenewalFails(t) ==
    /\ t \in renewing /\ Fault("lapse")
    /\ renewing' = renewing \ {t}
    /\ UNCHANGED <<turn, queue, alive, lock, records, missed>>

\* The release is refused when the lock is another's; that error is ignored.
Leave(t) ==
    /\ Step(t, "replied", "done")
    /\ lock' = IF lock = t THEN NoTurn ELSE lock
    /\ queue' = queue \ {t} /\ alive' = alive \ {t} /\ renewing' = renewing \ {t}
    /\ UNCHANGED <<records, faults, missed>>

-----------------------------------------------------------------------------
(* Redis lets keys expire that nobody renews.                              *)

Renewed(t) == t \in renewing \/ turn[t] \in Waiting
AliveExpires(t) ==
    /\ t \in alive /\ ~Renewed(t)
    /\ alive' = alive \ {t}
    /\ UNCHANGED <<turn, queue, lock, renewing, records, faults, missed>>

LockExpires ==
    /\ lock # NoTurn /\ ~Renewed(lock)
    /\ lock' = NoTurn
    /\ UNCHANGED <<turn, queue, alive, renewing, records, faults, missed>>

Dies(t) ==
    /\ turn[t] \in {"saved"} \cup Waiting \cup Inside /\ Fault("death")
    /\ turn' = [turn EXCEPT ![t] = "dead"]
    /\ renewing' = renewing \ {t}
    /\ UNCHANGED <<queue, alive, lock, records, missed>>

-----------------------------------------------------------------------------
(* The turn itself.                                                        *)

Saved == {t \in Turns : turn[t] # "new"}

\* Mutant of Visible: the messages that wait for their turn included.
VisibleAll(t) == Saved \ (answered \cup {t})

\* fetch_last_messages: neither the present message nor later ones.
Visible(t) == {m \in Saved : m < t} \ answered

LoadHistory(t) ==
    /\ Step(t, "entered", "acting")
    /\ history' = [history EXCEPT ![t] = Visible(t)]
    /\ UNCHANGED <<redis, answered, made, registered, faults, missed>>

\* TurnCreations.create: one movement once in a turn, by its wording.
Refused(t, m, wording) == <<m, wording>> \in made[t]

\* The model registers what it finds unanswered, its own message above all;
\* retry_with_backoff lets it start again.
Register(t, m, wording) ==
    /\ turn[t] = "acting" /\ m \in history[t] \cup {t}
    /\ ~Refused(t, m, wording)
    /\ made' = [made EXCEPT ![t] = @ \cup {<<m, wording>>}]
    /\ registered' = [registered EXCEPT ![m] = @ + 1]
    /\ UNCHANGED <<turn, redis, answered, history, faults, missed>>

SaveReply(t) ==
    /\ Step(t, "acting", "replied")
    /\ answered' = answered \cup {t}
    /\ UNCHANGED <<redis, history, made, registered, faults, missed>>

-----------------------------------------------------------------------------

TurnStep(t) ==
    \/ Enqueue(t) \/ Poll(t) \/ TakeLock(t) \/ Recheck(t)
    \/ LoadHistory(t) \/ SaveReply(t) \/ Leave(t)
Agent(t) == \E m \in Turns : \E wording \in Wordings : Register(t, m, wording)
Expiry == LockExpires \/ \E t \in Turns : AliveExpires(t)
Faulty(t) == GoesOnAnyway(t) \/ RenewalFails(t) \/ Dies(t)

Next ==
    \/ \E t \in Turns : SaveMessage(t) \/ TurnStep(t) \/ Agent(t) \/ Faulty(t)
    \/ Expiry

\* Handlers run, a waiting turn polls twice a second and so meets a free lock,
\* and Redis drops what is not renewed.
Fairness ==
    /\ \A t \in Turns : WF_vars(TurnStep(t)) /\ SF_vars(TakeLock(t) /\ lock = NoTurn)
    /\ WF_vars(Expiry)

Spec == Init /\ [][Next]_vars
FairSpec == Spec /\ Fairness

-----------------------------------------------------------------------------
\* While Redis answers and no wait runs out, one turn of the user is inside at
\* a time, whatever died and whatever was queued late with a lower id.
OneTurnAtATime ==
    faults["lapse"] = 0 => Cardinality({t \in Turns : turn[t] \in Inside}) <= 1
TurnsAreSerial == TypeOK /\ OneTurnAtATime

\* "The second saw the soda unanswered in the history and registered it again":
\* the movement of a message is recorded once, if no fault came up and the
\* message was queued before a later turn entered.
RecordedOnce ==
    \A m \in Turns : (\A f \in Faults : faults[f] = 0) /\ m \notin missed => registered[m] <= 1

\* A message that is queued is answered, or its process died: a turn that dies
\* in the queue, or with the lock, holds nobody up for good.
EveryTurnAnswers ==
    \A t \in Turns : turn[t] = "waiting" ~> turn[t] \in {"done", "dead"}

-----------------------------------------------------------------------------
(* What is not kept (see the README): no run checks these.                 *)

\* The message is saved before it is queued, and a later one may pass between.
RecordedOnceAlways ==
    (\A f \in Faults : faults[f] = 0) => \A m \in Turns : registered[m] <= 1
=============================================================================
