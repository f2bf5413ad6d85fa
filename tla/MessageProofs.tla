---------------------------- MODULE MessageProofs ----------------------------
(***************************************************************************)
(* Proofs about what keeps the handling of messages serial: the turns of a *)
(* user (UserTurns), for any set of messages and any bound on faults, and  *)
(* the deliveries of one WhatsApp message (MetaMessageTask), for any       *)
(* number of them and any limits with the lock outliving an execution.     *)
(***************************************************************************)
EXTENDS Messages, FiniteSetTheorems, TLAPS

USE TurnsAssumption

\* A set whose members are all equal is empty or a singleton.
LEMMA AtMostOne ==
    ASSUME NEW S, \A x, y \in S : x = y
    PROVE  Cardinality(S) <= 1
<1>1. CASE S = {}
  BY <1>1, FS_EmptySet
<1>2. CASE S # {}
  <2>1. PICK x \in S : S = {x}
    BY <1>2
  <2>2. QED
    BY <2>1, FS_Singleton
<1>3. QED
  BY <1>1, <1>2

-----------------------------------------------------------------------------
(* The turns of a user: the inductive invariants.                          *)

\* Where a handler has the lock, and where its keep-alive renews it.
Holding == {"taken"} \cup Inside

\* While Redis answered every call and no wait ran out, whoever is inside has
\* the lock, and its keep-alive task runs, so that the lock does not expire.
HoldersAreRenewed ==
    \A t \in Turns : /\ turn[t] \in Holding => lock = t
                     /\ turn[t] \in Inside => t \in renewing
LockIsHeld == faults["lapse"] = 0 => HoldersAreRenewed

NoFault == \A f \in Faults : faults[f] = 0

\* Messages are saved in the order of their ids.
SavedInOrder ==
    \A m, t \in Turns : m < t /\ turn[t] # "new" => turn[m] # "new"

\* Without a fault, whoever is in line keeps its place in it.
PlaceIsKept ==
    NoFault => \A t \in Turns :
        /\ turn[t] # "dead"
        /\ turn[t] \in Waiting \cup Inside => t \in queue \cap alive

\* A turn that is over left its reply.
EndedIsAnswered == \A t \in Turns : turn[t] \in {"replied", "done"} => t \in answered

\* Without a fault, whoever is inside has only ended turns before it, but for
\* the messages that were queued too late.
EarlierAreDone ==
    NoFault => \A m, t \in Turns :
        m < t /\ turn[t] \in Inside \cup {"done"} /\ m \notin missed => turn[m] = "done"

\* So it sees none but those unanswered.
SeesOnlyMissed == NoFault => \A t \in Turns : history[t] \subseteq missed

\* A movement that exists was made in its own message's turn.
MadeInItsTurn ==
    NoFault => \A m \in Turns \ missed :
        registered[m] = IF \E w \in Wordings : <<m, w>> \in made[m] THEN 1 ELSE 0

IInv ==
    /\ TypeOK /\ LockIsHeld /\ SavedInOrder /\ PlaceIsKept
    /\ EndedIsAnswered /\ EarlierAreDone /\ SeesOnlyMissed

\* The model gives one movement the same wording whenever it sees it.
OneWording == \A v, w \in Wordings : v = w

-----------------------------------------------------------------------------
(* Type correctness.                                                       *)

LEMMA InitType == Init => TypeOK
BY DEF Init, TypeOK, Faults

\* One more fault stays within the bound.
LEMMA FaultType ==
    ASSUME TypeOK, NEW f \in Faults, Fault(f)
    PROVE  faults' \in [Faults -> 0..MaxFaults] /\ faults'[f] > 0
BY DEF TypeOK, Fault, Faults

\* The steps of user_turn.
LEMMA TurnType ==
    ASSUME TypeOK, NEW t \in Turns, SaveMessage(t) \/ TurnStep(t)
    PROVE  TypeOK'
<1>1. CASE SaveMessage(t)
  BY <1>1 DEF TypeOK, SaveMessage, Step, redis, records
<1>2. CASE Enqueue(t)
  BY <1>2 DEF TypeOK, Enqueue, Step, records, Waiting
<1>3. CASE Poll(t)
  BY <1>3 DEF TypeOK, Poll, Step, Swept, records, Waiting
<1>4. CASE TakeLock(t)
  BY <1>4 DEF TypeOK, TakeLock, Step, records, Waiting
<1>5. CASE Recheck(t)
  BY <1>5 DEF TypeOK, Recheck, Step, Swept, Unqueued, records, Waiting, Inside
<1>6. CASE LoadHistory(t)
  BY <1>6 DEF TypeOK, LoadHistory, Step, Visible, Saved, redis, Inside
<1>7. CASE SaveReply(t)
  BY <1>7 DEF TypeOK, SaveReply, Step, redis, Inside
<1>8. CASE Leave(t)
  BY <1>8 DEF TypeOK, Leave, Step, records, Inside
<1>9. QED
  BY <1>1, <1>2, <1>3, <1>4, <1>5, <1>6, <1>7, <1>8 DEF TurnStep

\* What the agent registers.
LEMMA RegisterType ==
    ASSUME TypeOK, NEW t \in Turns, NEW m \in Turns, NEW wording \in Wordings,
           Register(t, m, wording)
    PROVE  TypeOK'
<1>1. made' \in [Turns -> SUBSET (Turns \X Wordings)]
  BY DEF TypeOK, Register
<1>2. registered' \in [Turns -> Nat]
  BY DEF TypeOK, Register
<1>3. QED
  BY <1>1, <1>2 DEF TypeOK, Register, redis

\* Deaths, lapses and keys that expire.
LEMMA FaultyType ==
    ASSUME TypeOK
    PROVE  /\ \A t \in Turns : Faulty(t) => TypeOK'
           /\ Expiry => TypeOK'
<1>1. ASSUME NEW t \in Turns, GoesOnAnyway(t) PROVE TypeOK'
  BY <1>1, FaultType DEF TypeOK, GoesOnAnyway, Faults, redis, records, Inside
<1>2. ASSUME NEW t \in Turns, RenewalFails(t) PROVE TypeOK'
  BY <1>2, FaultType DEF TypeOK, RenewalFails, Faults, records
<1>3. ASSUME NEW t \in Turns, Dies(t) PROVE TypeOK'
  BY <1>3, FaultType DEF TypeOK, Dies, Faults, records
<1>4. ASSUME Expiry PROVE TypeOK'
  BY <1>4 DEF TypeOK, Expiry, LockExpires, AliveExpires, records
<1>5. QED
  BY <1>1, <1>2, <1>3, <1>4 DEF Faulty

LEMMA StepType == ASSUME TypeOK, [Next]_vars PROVE TypeOK'
<1>1. CASE UNCHANGED vars
  BY <1>1 DEF TypeOK, vars, redis, records
<1>2. QED
  BY <1>1, TurnType, RegisterType, FaultyType DEF Next, Agent

-----------------------------------------------------------------------------
(* The lock.                                                               *)

\* A lapse of Redis or of a wait is counted, and counts for good.
LEMMA NoLapseYet ==
    ASSUME TypeOK, [Next]_vars, faults'["lapse"] = 0
    PROVE  /\ faults["lapse"] = 0
           /\ \A t \in Turns : ~GoesOnAnyway(t) /\ ~RenewalFails(t)
<1>1. \A t \in Turns : ~GoesOnAnyway(t) /\ ~RenewalFails(t)
  BY FaultType DEF GoesOnAnyway, RenewalFails, Faults
<1>2. faults' = faults \/ \E t \in Turns : Dies(t)
  BY <1>1 DEF Next, vars, SaveMessage, TurnStep, Enqueue, Poll, TakeLock, Recheck,
         LoadHistory, SaveReply, Leave, Agent, Register, Faulty, Expiry, LockExpires,
         AliveExpires
<1>3. faults["lapse"] = 0
  BY <1>2 DEF TypeOK, Dies, Fault, Faults
<1>4. QED
  BY <1>1, <1>3

LEMMA LockIsHeldStep ==
    ASSUME TypeOK, LockIsHeld, [Next]_vars
    PROVE  LockIsHeld'
<1> SUFFICES ASSUME faults'["lapse"] = 0
             PROVE  HoldersAreRenewed'
  BY DEF LockIsHeld
<1> USE DEF HoldersAreRenewed
<1>0. HoldersAreRenewed
  BY NoLapseYet DEF LockIsHeld
<1>1. ASSUME NEW t \in Turns, SaveMessage(t) \/ Enqueue(t) \/ Poll(t) PROVE HoldersAreRenewed'
  BY <1>0, <1>1 DEF TypeOK, SaveMessage, Enqueue, Poll, Step, redis, Holding, Inside
<1>2. ASSUME NEW t \in Turns, TakeLock(t) PROVE HoldersAreRenewed'
  BY <1>0, <1>2 DEF TypeOK, TakeLock, Step, Holding, Inside
<1>3. ASSUME NEW t \in Turns, Recheck(t) PROVE HoldersAreRenewed'
  BY <1>0, <1>3 DEF TypeOK, Recheck, Step, Holding, Inside
<1>4. ASSUME NEW t \in Turns, LoadHistory(t) \/ SaveReply(t) PROVE HoldersAreRenewed'
  BY <1>0, <1>4 DEF TypeOK, LoadHistory, SaveReply, Step, redis, Holding, Inside
<1>5. ASSUME NEW t \in Turns, Leave(t) PROVE HoldersAreRenewed'
  BY <1>0, <1>5 DEF TypeOK, Leave, Step, Holding, Inside
<1>6. ASSUME Expiry PROVE HoldersAreRenewed'
  \* LockExpires: the lock of a turn that waits or is renewed does not expire.
  BY <1>0, <1>6 DEF TypeOK, Expiry, LockExpires, AliveExpires, Renewed, Holding, Inside,
         Waiting
<1>7. ASSUME NEW t \in Turns, Dies(t) PROVE HoldersAreRenewed'
  BY <1>0, <1>7 DEF TypeOK, Dies, Holding, Inside
<1>8. ASSUME UNCHANGED <<turn, redis>> PROVE HoldersAreRenewed'
  BY <1>0, <1>8 DEF redis
<1>9. QED
  BY <1>1, <1>2, <1>3, <1>4, <1>5, <1>6, <1>7, <1>8, NoLapseYet
     DEF Next, vars, TurnStep, Agent, Register, Faulty

-----------------------------------------------------------------------------
(* Order and places in the queue.                                          *)

LEMMA NoFaultYet ==
    ASSUME TypeOK, [Next]_vars, NoFault'
    PROVE  /\ NoFault
           /\ \A t \in Turns : ~Faulty(t)
<1>1. \A t \in Turns : ~Faulty(t)
  BY FaultType DEF NoFault, Faulty, GoesOnAnyway, RenewalFails, Dies, Faults
<1>2. faults' = faults
  BY <1>1 DEF Next, vars, SaveMessage, TurnStep, Enqueue, Poll, TakeLock, Recheck,
         LoadHistory, SaveReply, Leave, Agent, Register, Expiry, LockExpires,
         AliveExpires
<1>3. QED
  BY <1>1, <1>2 DEF NoFault

\* No step makes a saved message new again, and only SaveMessage saves one.
LEMMA SavedInOrderStep ==
    ASSUME TypeOK, SavedInOrder, [Next]_vars
    PROVE  SavedInOrder'
<1>1. ASSUME NEW t \in Turns, SaveMessage(t) PROVE SavedInOrder'
  BY <1>1 DEF TypeOK, SavedInOrder, SaveMessage, Step
<1>2. ASSUME \A u \in Turns : turn'[u] = "new" <=> turn[u] = "new"
      PROVE  SavedInOrder'
  BY <1>2 DEF SavedInOrder
<1>3. ASSUME NEW t \in Turns, TurnStep(t)
      PROVE  \A u \in Turns : turn'[u] = "new" <=> turn[u] = "new"
  BY <1>3 DEF TypeOK, TurnStep, Enqueue, Poll, TakeLock, Recheck, LoadHistory,
         SaveReply, Leave, Step
<1>4. ASSUME NEW t \in Turns, Faulty(t)
      PROVE  \A u \in Turns : turn'[u] = "new" <=> turn[u] = "new"
  BY <1>4 DEF TypeOK, Faulty, GoesOnAnyway, RenewalFails, Dies, Waiting, Inside
<1>5. ASSUME UNCHANGED turn PROVE SavedInOrder'
  BY <1>5 DEF SavedInOrder
<1>6. QED
  BY <1>1, <1>2, <1>3, <1>4, <1>5
     DEF Next, vars, Agent, Register, Expiry, LockExpires, AliveExpires

\* A sweep takes out those without a heartbeat.
LEMMA SweptKeepsAlive == \A t \in Turns : queue \cap alive \subseteq Swept(t)
BY DEF Swept, Gone

LEMMA PlaceIsKeptStep ==
    ASSUME TypeOK, LockIsHeld, PlaceIsKept, [Next]_vars
    PROVE  PlaceIsKept'
<1> DEFINE Kept == \A u \in Turns :
              /\ turn[u] # "dead"
              /\ turn[u] \in Waiting \cup Inside => u \in queue \cap alive
<1> SUFFICES ASSUME NoFault' PROVE Kept'
  BY DEF PlaceIsKept
<1>0. Kept /\ HoldersAreRenewed /\ \A t \in Turns : ~Faulty(t)
  BY NoFaultYet DEF PlaceIsKept, LockIsHeld, NoFault, Faults
<1>1. ASSUME NEW t \in Turns, SaveMessage(t) \/ Enqueue(t) \/ TakeLock(t) PROVE Kept'
  BY <1>0, <1>1 DEF TypeOK, SaveMessage, Enqueue, TakeLock, Step, redis, Waiting, Inside
<1>2. ASSUME NEW t \in Turns, Poll(t) PROVE Kept'
  BY <1>0, <1>2, SweptKeepsAlive DEF TypeOK, Poll, Step, Waiting, Inside
<1>3. ASSUME NEW t \in Turns, Recheck(t) PROVE Kept'
  BY <1>0, <1>3, SweptKeepsAlive DEF TypeOK, Recheck, Step, Waiting, Inside
<1>4. ASSUME NEW t \in Turns, LoadHistory(t) \/ SaveReply(t) \/ Leave(t) PROVE Kept'
  BY <1>0, <1>4 DEF TypeOK, LoadHistory, SaveReply, Leave, Step, redis, Waiting, Inside
\* Only the heartbeat of a turn that is neither in line nor renewed expires.
<1>5. ASSUME NEW t \in Turns, AliveExpires(t) PROVE Kept'
  <2>1. turn[t] \notin Waiting \cup Inside
    BY <1>0, <1>5 DEF HoldersAreRenewed, AliveExpires, Renewed
  <2>2. turn' = turn /\ queue' = queue /\ alive' = alive \ {t}
    BY <1>5 DEF AliveExpires
  <2>3. QED
    BY <1>0, <2>1, <2>2
<1>6. ASSUME UNCHANGED <<turn, queue, alive>> PROVE Kept'
  BY <1>0, <1>6
<1>7. QED
  BY <1>0, <1>1, <1>2, <1>3, <1>4, <1>5, <1>6
     DEF Next, vars, TurnStep, Agent, Register, Expiry, LockExpires, redis

-----------------------------------------------------------------------------
(* Replies and records.                                                    *)

LEMMA EndedIsAnsweredStep ==
    ASSUME TypeOK, EndedIsAnswered, [Next]_vars
    PROVE  EndedIsAnswered'
<1> USE DEF EndedIsAnswered
<1>1. ASSUME NEW t \in Turns, SaveMessage(t) \/ TurnStep(t) PROVE EndedIsAnswered'
  BY <1>1 DEF TypeOK, SaveMessage, TurnStep, Enqueue, Poll, TakeLock, Recheck,
         LoadHistory, SaveReply, Leave, Step, records
<1>2. ASSUME NEW t \in Turns, Faulty(t) PROVE EndedIsAnswered'
  BY <1>2 DEF TypeOK, Faulty, GoesOnAnyway, RenewalFails, Dies, records
<1>3. ASSUME UNCHANGED <<turn, answered>> PROVE EndedIsAnswered'
  BY <1>3
<1>4. QED
  BY <1>1, <1>2, <1>3
     DEF Next, vars, Agent, Register, Expiry, LockExpires, AliveExpires, records

\* Who is at the head finds no earlier message in line with a heartbeat.
LEMMA HeadHasNoneAhead ==
    ASSUME PlaceIsKept, NoFault, NEW t \in Turns, turn[t] = "taken", IsHead(t),
           NEW m \in Turns, m < t
    PROVE  turn[m] \notin Waiting \cup Inside
BY DEF PlaceIsKept, IsHead, Ahead, Gone, Waiting

LEMMA EarlierAreDoneStep ==
    ASSUME TypeOK, SavedInOrder, PlaceIsKept, EarlierAreDone, [Next]_vars
    PROVE  EarlierAreDone'
<1> DEFINE Earlier == \A m, u \in Turns :
              m < u /\ turn[u] \in Inside \cup {"done"} /\ m \notin missed
                => turn[m] = "done"
<1> SUFFICES ASSUME NoFault' PROVE Earlier'
  BY DEF EarlierAreDone
<1>0. Earlier /\ NoFault /\ \A t \in Turns : ~Faulty(t)
  BY NoFaultYet DEF EarlierAreDone
<1>1. ASSUME NEW t \in Turns,
             SaveMessage(t) \/ Enqueue(t) \/ Poll(t) \/ TakeLock(t)
      PROVE  Earlier'
  BY <1>0, <1>1 DEF TypeOK, SaveMessage, Enqueue, Poll, TakeLock, Step, Inside
\* Whoever enters has only ended turns before it, or saved ones it does not see
\* in the queue.
<1>2. ASSUME NEW t \in Turns, Recheck(t) PROVE Earlier'
  <2>1. CASE ~IsHead(t)
    BY <1>0, <1>2, <2>1 DEF TypeOK, Recheck, Step, Inside
  <2>2. CASE IsHead(t)
    <3>1. ASSUME NEW m \in Turns, m < t, m \notin missed' PROVE turn[m] = "done"
      <4>1. turn[m] \notin Waiting \cup Inside
        BY <1>0, <1>2, <2>2, <3>1, HeadHasNoneAhead DEF Recheck, Step
      <4>2. turn[m] # "saved"
        BY <1>2, <2>2, <3>1 DEF Recheck, Unqueued
      <4>3. turn[m] # "new"
        BY <1>2, <3>1 DEF SavedInOrder, Recheck, Step
      <4>4. turn[m] # "dead"
        BY <1>0 DEF PlaceIsKept
      <4>5. QED
        BY <4>1, <4>2, <4>3, <4>4 DEF TypeOK
    <3>2. turn' = [turn EXCEPT ![t] = "entered"] /\ turn[t] = "taken" /\ missed \subseteq missed'
      BY <1>2, <2>2 DEF Recheck, Step
    <3>3. QED
      BY <1>0, <3>1, <3>2 DEF TypeOK
  <2>3. QED
    BY <2>1, <2>2
<1>3. ASSUME NEW t \in Turns, LoadHistory(t) \/ SaveReply(t) \/ Leave(t) PROVE Earlier'
  BY <1>0, <1>3 DEF TypeOK, LoadHistory, SaveReply, Leave, Step, Inside
<1>4. ASSUME UNCHANGED <<turn, missed>> PROVE Earlier'
  BY <1>0, <1>4
<1>5. QED
  BY <1>0, <1>1, <1>2, <1>3, <1>4
     DEF Next, vars, TurnStep, Agent, Register, Expiry, LockExpires, AliveExpires

LEMMA SeesOnlyMissedStep ==
    ASSUME TypeOK, EndedIsAnswered, EarlierAreDone, SeesOnlyMissed, [Next]_vars
    PROVE  SeesOnlyMissed'
<1> SUFFICES ASSUME NoFault', NEW u \in Turns PROVE history'[u] \subseteq missed'
  BY DEF SeesOnlyMissed
<1>0. NoFault /\ (\A t \in Turns : ~Faulty(t)) /\ history[u] \subseteq missed
  BY NoFaultYet DEF SeesOnlyMissed
<1>1. ASSUME NEW t \in Turns, LoadHistory(t) PROVE history'[u] \subseteq missed'
  <2>1. ASSUME NEW m \in Visible(t) PROVE m \in missed
    <3>1. m \in Turns /\ m < t /\ m \notin answered
      BY <2>1 DEF Visible, Saved
    <3>2. turn[m] # "done"
      BY <3>1 DEF EndedIsAnswered
    <3>3. QED
      BY <1>0, <1>1, <3>1, <3>2 DEF EarlierAreDone, LoadHistory, Step, Inside
  <2>2. QED
    BY <1>0, <1>1, <2>1 DEF TypeOK, LoadHistory
<1>2. ASSUME history' = history, missed \subseteq missed'
      PROVE  history'[u] \subseteq missed'
  BY <1>0, <1>2
<1>3. QED
  BY <1>0, <1>1, <1>2
     DEF Next, vars, SaveMessage, TurnStep, Enqueue, Poll, TakeLock, Recheck, SaveReply,
         Leave, Agent, Register, Expiry, LockExpires, AliveExpires, records

\* TurnCreations refuses the second one of a turn; another turn does not see it.
LEMMA MadeInItsTurnStep ==
    ASSUME OneWording, TypeOK, SeesOnlyMissed, MadeInItsTurn, [Next]_vars
    PROVE  MadeInItsTurn'
<1> DEFINE Made(m) ==
       registered[m] = IF \E w \in Wordings : <<m, w>> \in made[m] THEN 1 ELSE 0
<1> SUFFICES ASSUME NoFault', NEW u \in Turns, u \notin missed' PROVE Made(u)'
  BY DEF MadeInItsTurn
<1>1. NoFault /\ (\A t \in Turns : ~Faulty(t))
  BY NoFaultYet
<1>2. missed \subseteq missed'
  BY <1>1 DEF Next, vars, SaveMessage, TurnStep, Enqueue, Poll, TakeLock, Recheck,
         LoadHistory, SaveReply, Leave, Agent, Register, Expiry, LockExpires,
         AliveExpires, records
<1>3. Made(u) /\ u \notin missed
  BY <1>1, <1>2 DEF MadeInItsTurn
<1>4. ASSUME NEW t \in Turns, NEW m \in Turns, NEW wording \in Wordings,
             Register(t, m, wording)
      PROVE  Made(u)'
  <2>1. made' = [made EXCEPT ![t] = @ \cup {<<m, wording>>}]
    BY <1>4 DEF Register
  <2>2. registered' = [registered EXCEPT ![m] = @ + 1]
    BY <1>4 DEF Register
  <2>3. CASE u # m
    <3>1. registered'[u] = registered[u]
      BY <2>2, <2>3 DEF TypeOK
    <3>2. \A w \in Wordings : <<u, w>> \in made'[u] <=> <<u, w>> \in made[u]
      BY <2>1, <2>3 DEF TypeOK
    <3>3. QED
      BY <1>3, <3>1, <3>2
  <2>4. CASE u = m
    <3>1. m = t
      BY <1>1, <1>3, <1>4, <2>4 DEF SeesOnlyMissed, Register
    <3>2. \A w \in Wordings : <<u, w>> \notin made[u]
      BY <1>4, <2>4, <3>1 DEF OneWording, Register, Refused
    <3>3. registered'[u] = 1
      <4>1. registered[u] = 0
        BY <1>3, <3>2, Zenon
      <4>2. QED
        BY <2>2, <2>4, <4>1 DEF TypeOK
    <3>4. <<u, wording>> \in made'[u]
      BY <2>1, <2>4, <3>1 DEF TypeOK
    <3>5. QED
      BY <3>3, <3>4
  <2>5. QED
    BY <2>3, <2>4
<1>5. ASSUME UNCHANGED <<made, registered>> PROVE Made(u)'
  BY <1>3, <1>5
<1>6. QED
  BY <1>1, <1>4, <1>5
     DEF Next, vars, SaveMessage, TurnStep, Enqueue, Poll, TakeLock, Recheck,
         LoadHistory, SaveReply, Leave, Agent, Expiry, LockExpires, AliveExpires, records

-----------------------------------------------------------------------------
(* The turns of a user: theorems.                                          *)

\* The lock, the queue and the heartbeats of user_turn keep their invariant.
THEOREM InvariantHolds == Spec => []IInv
<1>1. Init => IInv
  BY InitType DEF Init, IInv, LockIsHeld, HoldersAreRenewed, SavedInOrder, PlaceIsKept,
         EndedIsAnswered, EarlierAreDone, SeesOnlyMissed, Holding, Inside, Waiting
<1>2. IInv /\ [Next]_vars => IInv'
  BY StepType, LockIsHeldStep, SavedInOrderStep, PlaceIsKeptStep, EndedIsAnsweredStep,
     EarlierAreDoneStep, SeesOnlyMissedStep DEF IInv
<1>3. QED
  BY <1>1, <1>2, PTL DEF Spec

\* As long as Redis answers and no wait runs out, the turns of a user follow one
\* another: user_turn lets one in at a time, however many messages wait, whoever
\* dies, and in whatever order they were queued.
THEOREM TurnsSerial == Spec => []TurnsAreSerial
<1>1. IInv => TurnsAreSerial
  <2> SUFFICES ASSUME IInv, faults["lapse"] = 0
               PROVE  Cardinality({t \in Turns : turn[t] \in Inside}) <= 1
    BY DEF TurnsAreSerial, OneTurnAtATime, IInv
  <2>1. \A t, u \in {t \in Turns : turn[t] \in Inside} : t = u
    BY DEF IInv, LockIsHeld, HoldersAreRenewed, Holding
  <2>2. QED
    BY <2>1, AtMostOne
<1>2. QED
  BY <1>1, InvariantHolds, PTL

\* Without faults, a movement is recorded once however many turns see it, unless
\* its message was queued after a later one had entered, or the model words one
\* movement in two ways.
THEOREM MovementRecordedOnce == ASSUME OneWording PROVE Spec => []RecordedOnce
<1>1. Init => MadeInItsTurn
  BY DEF Init, MadeInItsTurn
<1>2. IInv /\ MadeInItsTurn /\ [Next]_vars => MadeInItsTurn'
  BY OneWording, MadeInItsTurnStep DEF IInv
<1>3. MadeInItsTurn => RecordedOnce
  BY DEF MadeInItsTurn, RecordedOnce, NoFault
<1>4. QED
  BY <1>1, <1>2, <1>3, InvariantHolds, PTL DEF Spec

-----------------------------------------------------------------------------
(* The deliveries of a message.                                            *)

USE DeliveryAssumption

\* From the lock to its release.
Owning == Delivery!Handling \cup {"succeeded", "marked", "raised"}

\* As long as no worker is lost, an execution past the lock owns it, for at least
\* as many minutes as it may still run; and the owner is such an execution or one
\* that ran into the limit.
OwnersHaveTime ==
    \A t \in Tasks :
        /\ task[t].pc \in Owning => messageLock = t /\ left + task[t].age >= LockLife
        /\ messageLock = t => task[t].pc \in Owning \cup {"timed_out"}
LockIsOwned == crashes = 0 => OwnersHaveTime

\* An execution moves on: its row in the table of executions stays well typed.
LEMMA DeliveryGoto ==
    ASSUME Delivery!TypeOK, NEW t \in Tasks, NEW pc \in Delivery!PCs,
           task' = [task EXCEPT ![t].pc = pc]
    PROVE  /\ task' \in [Tasks -> [pc : Delivery!PCs, tries : 0..MaxRetries, age : 0..RunLimit]]
           /\ \A u \in Tasks : task'[u].age = task[u].age
           /\ \A u \in Tasks : task'[u].pc = IF u = t THEN pc ELSE task[u].pc
BY DEF Delivery!TypeOK

LEMMA DeliveryInitType ==
    ASSUME Delivery!Init PROVE Delivery!TypeOK
<1>1. "none" \in Delivery!PCs
  BY DEF Delivery!PCs
<1>2. 0 \in 0..MaxRetries /\ 0 \in 0..RunLimit /\ 0 \in 0..LockLife /\ 0 \in 0..MaxCrashes
  BY DEF Delivery!BoundAssumption, Delivery!LockAssumption
<1>3. QED
  BY <1>1, <1>2 DEF Delivery!Init, Delivery!TypeOK

LEMMA DeliveryTaskType ==
    ASSUME Delivery!TypeOK, NEW t \in Tasks,
           \/ Delivery!Enqueue(t) \/ Delivery!EnqueueFails(t)
           \/ Delivery!TaskStep(t) \/ Delivery!WorkerLost(t)
    PROVE  Delivery!TypeOK'
<1> USE DEF Delivery!Goto, Delivery!At
<1>0. /\ Delivery!Running \subseteq Delivery!PCs /\ Delivery!Settled \subseteq Delivery!PCs
      /\ {"queued", "inline"} \subseteq Delivery!PCs
      /\ Delivery!Handling \subseteq Delivery!Running
  BY DEF Delivery!PCs, Delivery!Running
<1>1. CASE Delivery!Enqueue(t) \/ Delivery!EnqueueFails(t) \/ Delivery!InlineEnds(t)
  <2>1. PICK pc \in Delivery!PCs : task' = [task EXCEPT ![t].pc = pc]
    BY <1>0, <1>1 DEF Delivery!Enqueue, Delivery!EnqueueFails, Delivery!InlineEnds,
           Delivery!Settled
  <2>2. QED
    BY <1>1, <2>1, DeliveryGoto
       DEF Delivery!TypeOK, Delivery!Enqueue, Delivery!EnqueueFails,
           Delivery!InlineEnds, Delivery!cache
<1>2. CASE Delivery!Start(t)
  <2>1. [task[t] EXCEPT !.pc = "started", !.age = 0]
          \in [pc : Delivery!PCs, tries : 0..MaxRetries, age : 0..RunLimit]
    <3>1. "started" \in Delivery!PCs
      BY <1>0 DEF Delivery!Running
    <3>2. 0 \in 0..RunLimit
      BY DEF Delivery!BoundAssumption
    <3>3. QED
      BY <3>1, <3>2 DEF Delivery!TypeOK
  <2>2. task' = [task EXCEPT ![t] = [task[t] EXCEPT !.pc = "started", !.age = 0]]
    BY <1>2 DEF Delivery!TypeOK, Delivery!Start
  <2>3. QED
    BY <1>2, <2>1, <2>2 DEF Delivery!TypeOK, Delivery!Start, Delivery!cache
<1>3. CASE Delivery!ReadDone(t) \/ Delivery!ReadOwner(t) \/ Delivery!Act(t)
           \/ Delivery!Returns(t) \/ Delivery!Raises(t)
  <2>1. PICK pc \in Delivery!PCs : task' = [task EXCEPT ![t].pc = pc]
    <3>1. CASE Delivery!ReadDone(t)
      <4>1. (IF done THEN "collapsed" ELSE "unmarked") \in Delivery!PCs
        BY <1>0 DEF Delivery!Running, Delivery!Settled
      <4>2. QED
        BY <3>1, <4>1 DEF Delivery!ReadDone
    <3>2. CASE Delivery!ReadOwner(t)
      <4>1. (IF messageLock = t THEN "processing" ELSE "gave_way") \in Delivery!PCs
        BY <1>0 DEF Delivery!Handling, Delivery!Settled
      <4>2. QED
        BY <3>2, <4>1 DEF Delivery!ReadOwner
    <3>3. CASE Delivery!Act(t) \/ Delivery!Returns(t) \/ Delivery!Raises(t)
      BY <1>0, <3>3 DEF Delivery!Act, Delivery!Returns, Delivery!Raises,
             Delivery!Running, Delivery!Handling
    <3>4. QED
      BY <1>3, <3>1, <3>2, <3>3
  <2>2. QED
    BY <1>3, <2>1, DeliveryGoto
       DEF Delivery!TypeOK, Delivery!ReadDone, Delivery!ReadOwner, Delivery!Act,
           Delivery!Returns, Delivery!Raises, Delivery!cache
<1>4. CASE Delivery!AddLock(t)
  <2>1. PICK pc \in {"processing", "contended"} : task' = [task EXCEPT ![t].pc = pc]
    BY <1>4 DEF Delivery!AddLock
  <2>2. pc \in Delivery!PCs
    BY <1>0 DEF Delivery!Handling, Delivery!Running
  <2>3. LockLife \in 1..LockLife
    BY DEF Delivery!BoundAssumption, Delivery!LockAssumption
  <2>4. /\ messageLock' \in Tasks \cup {NoTask} /\ left' \in 0..LockLife
        /\ messageLock' = NoTask <=> left' = 0
    BY <1>4, <2>3 DEF Delivery!AddLock, Delivery!TypeOK,
           Delivery!TaskAssumption
  <2>5. QED
    BY <1>4, <2>1, <2>2, <2>4, DeliveryGoto DEF Delivery!TypeOK, Delivery!AddLock
<1>5. CASE Delivery!MarkDone(t) \/ Delivery!Complete(t)
  <2>1. PICK pc \in {"marked", "completed"} : task' = [task EXCEPT ![t].pc = pc]
    BY <1>5 DEF Delivery!MarkDone, Delivery!Complete
  <2>2. pc \in Delivery!PCs
    BY <1>0 DEF Delivery!Settled, Delivery!Running
  <2>3. 0 \in 0..LockLife
    BY DEF Delivery!LockAssumption
  <2>4. QED
    BY <1>5, <2>1, <2>2, <2>3, DeliveryGoto
       DEF Delivery!TypeOK, Delivery!MarkDone, Delivery!Complete, Delivery!DeleteLock
<1>6. CASE Delivery!Retry(t)
  <2>1. task' \in [Tasks -> [pc : Delivery!PCs, tries : 0..MaxRetries, age : 0..RunLimit]]
    <3>1. CASE task[t].tries < MaxRetries
      <4>1. [task[t] EXCEPT !.pc = "queued", !.tries = task[t].tries + 1]
              \in [pc : Delivery!PCs, tries : 0..MaxRetries, age : 0..RunLimit]
        <5>1. task[t].tries + 1 \in 0..MaxRetries
          BY <3>1 DEF Delivery!TypeOK, Delivery!BoundAssumption
        <5>2. QED
          BY <1>0, <5>1 DEF Delivery!TypeOK
      <4>2. task' = [task EXCEPT ![t] =
                       [task[t] EXCEPT !.pc = "queued", !.tries = task[t].tries + 1]]
        BY <1>6, <3>1 DEF Delivery!TypeOK, Delivery!Retry
      <4>3. QED
        BY <4>1, <4>2 DEF Delivery!TypeOK
    <3>2. CASE ~(task[t].tries < MaxRetries)
      <4>1. "failed" \in Delivery!PCs
        BY <1>0 DEF Delivery!Settled
      <4>2. QED
        BY <1>6, <3>2, <4>1, DeliveryGoto DEF Delivery!Retry
    <3>3. QED
      BY <3>1, <3>2
  <2>2. 0 \in 0..LockLife
    BY DEF Delivery!LockAssumption
  <2>3. QED
    BY <1>6, <2>1, <2>2 DEF Delivery!TypeOK, Delivery!Retry, Delivery!DeleteLock
<1>7. CASE Delivery!TimeLimit(t)
  <2>1. "timed_out" \in Delivery!PCs
    BY <1>0 DEF Delivery!Settled
  <2>2. QED
    BY <1>7, <2>1, DeliveryGoto DEF Delivery!TypeOK, Delivery!TimeLimit, Delivery!cache
<1>8. CASE Delivery!WorkerLost(t)
  BY <1>0, <1>8, DeliveryGoto
     DEF Delivery!TypeOK, Delivery!WorkerLost, Delivery!cache,
         Delivery!BoundAssumption
<1>9. QED
  BY <1>1, <1>2, <1>3, <1>4, <1>5, <1>6, <1>7, <1>8 DEF Delivery!TaskStep

\* What a minute does to an execution and to the lock.
LEMMA DeliveryTick ==
    ASSUME Delivery!TypeOK, Delivery!Tick
    PROVE  /\ Delivery!TypeOK'
           /\ \A t \in Tasks : /\ task'[t].pc = task[t].pc
                               /\ task[t].pc \in Delivery!Running =>
                                     task'[t].age = task[t].age + 1
           /\ left' = IF left > 0 THEN left - 1 ELSE 0
<1> DEFINE older(t) == IF task[t].pc \in Delivery!Running
                         THEN [task[t] EXCEPT !.age = @ + 1] ELSE task[t]
<1>1. ASSUME NEW t \in Tasks
      PROVE  /\ older(t) \in [pc : Delivery!PCs, tries : 0..MaxRetries, age : 0..RunLimit]
             /\ older(t).pc = task[t].pc
             /\ task[t].pc \in Delivery!Running => older(t).age = task[t].age + 1
  <2>1. CASE task[t].pc \in Delivery!Running
    <3>1. task[t].age + 1 \in 0..RunLimit
      BY <2>1 DEF Delivery!TypeOK, Delivery!Tick, Delivery!BoundAssumption
    <3>2. QED
      BY <2>1, <3>1 DEF Delivery!TypeOK
  <2>2. CASE task[t].pc \notin Delivery!Running
    BY <2>2 DEF Delivery!TypeOK
  <2>3. QED
    BY <2>1, <2>2
<1>2. task' = [t \in Tasks |-> older(t)]
  BY DEF Delivery!Tick
<1>3. \A t \in Tasks : task'[t] = older(t)
  BY <1>2
<1>4. task' \in [Tasks -> [pc : Delivery!PCs, tries : 0..MaxRetries, age : 0..RunLimit]]
  <2> HIDE DEF older
  <2> QED
    BY <1>1, <1>2
<1>5. /\ left' = IF left > 0 THEN left - 1 ELSE 0
      /\ left' \in 0..LockLife
      /\ messageLock' \in Tasks \cup {NoTask}
      /\ messageLock' = NoTask <=> left' = 0
  BY DEF Delivery!Tick, Delivery!TypeOK, Delivery!LockAssumption
<1>6. Delivery!TypeOK'
  BY <1>4, <1>5 DEF Delivery!TypeOK, Delivery!Tick
<1>7. QED
  <2> HIDE DEF older
  <2> QED
    BY <1>1, <1>3, <1>5, <1>6

LEMMA DeliveryType ==
    ASSUME Delivery!TypeOK, [Delivery!Next]_(Delivery!vars)
    PROVE  Delivery!TypeOK'
<1>1. CASE UNCHANGED Delivery!vars
  BY <1>1 DEF Delivery!TypeOK, Delivery!vars
<1>2. QED
  BY <1>1, DeliveryTick, DeliveryTaskType DEF Delivery!Next

\* The lock outlives the execution that took it: it was set for longer than the
\* hard limit, and every minute counts for both.
LEMMA LockIsOwnedStep ==
    ASSUME Delivery!TypeOK, LockIsOwned,
           [Delivery!Next]_(Delivery!vars)
    PROVE  LockIsOwned'
<1> SUFFICES ASSUME crashes' = 0 PROVE OwnersHaveTime'
  BY DEF LockIsOwned
<1> USE DEF Owning, Delivery!Handling
<1>0. (\A t \in Tasks : ~Delivery!WorkerLost(t)) /\ OwnersHaveTime
  <2>1. \A t \in Tasks : ~Delivery!WorkerLost(t)
    BY DEF Delivery!WorkerLost, Delivery!TypeOK, Delivery!BoundAssumption
  <2>2. crashes' = crashes
    BY <2>1 DEF Delivery!Next, Delivery!vars, Delivery!Tick, Delivery!Enqueue,
           Delivery!EnqueueFails, Delivery!TaskStep, Delivery!InlineEnds, Delivery!Start,
           Delivery!ReadDone, Delivery!AddLock, Delivery!ReadOwner, Delivery!Act,
           Delivery!Returns, Delivery!Raises, Delivery!MarkDone, Delivery!Complete,
           Delivery!Retry, Delivery!TimeLimit
  <2>3. QED
    BY <2>1, <2>2 DEF LockIsOwned
<1>1. ASSUME Delivery!Tick PROVE OwnersHaveTime'
  <2>1. ASSUME NEW t \in Tasks, task[t].pc \in Owning
        PROVE  messageLock' = t /\ left' + task'[t].age >= LockLife
    <3>1. messageLock = t /\ left + task[t].age >= LockLife
      BY <1>0, <2>1 DEF OwnersHaveTime
    <3>2. task[t].pc \in Delivery!Running
      BY <2>1 DEF Delivery!Running
    <3>3. task'[t].age = task[t].age + 1 /\ task[t].age < RunLimit
      BY <1>1, <3>2, DeliveryTick DEF Delivery!Tick
    <3>4. left > 1
      BY <3>1, <3>3 DEF Delivery!TypeOK, Delivery!LockAssumption,
             Delivery!BoundAssumption
    <3>5. left' = left - 1 /\ messageLock' = messageLock
      BY <1>1, <3>4 DEF Delivery!Tick, Delivery!TypeOK
    <3>6. QED
      BY <3>1, <3>3, <3>5 DEF Delivery!TypeOK, Delivery!LockAssumption
  <2>2. ASSUME NEW t \in Tasks, messageLock' = t
        PROVE  task[t].pc \in Owning \cup {"timed_out"}
    <3>1. messageLock' \in {NoTask, messageLock}
      BY <1>1 DEF Delivery!Tick
    <3>2. messageLock = t
      BY <2>2, <3>1 DEF Delivery!TaskAssumption
    <3>3. QED
      BY <1>0, <3>2 DEF OwnersHaveTime
  <2>3. \A t \in Tasks : task'[t].pc = task[t].pc
    BY <1>1, DeliveryTick
  <2>4. QED
    BY <2>1, <2>2, <2>3 DEF OwnersHaveTime
\* An execution that neither takes the lock nor gives it back.
<1>2. ASSUME NEW t \in Tasks, NEW pc \in Delivery!PCs, task' = [task EXCEPT ![t].pc = pc],
             UNCHANGED <<messageLock, left>>,
             pc \in Owning => task[t].pc \in Owning,
             task[t].pc \in Owning \cup {"timed_out"} => pc \in Owning \cup {"timed_out"}
      PROVE  OwnersHaveTime'
  BY <1>0, <1>2, DeliveryGoto DEF OwnersHaveTime
<1>3. ASSUME NEW t \in Tasks, Delivery!Enqueue(t) \/ Delivery!EnqueueFails(t)
      PROVE  OwnersHaveTime'
  <2>1. PICK pc \in {"queued", "inline"} : task' = [task EXCEPT ![t].pc = pc]
    BY <1>3 DEF Delivery!Enqueue, Delivery!EnqueueFails, Delivery!Goto
  <2>2. pc \in Delivery!PCs
    BY DEF Delivery!PCs
  <2>3. QED
    BY <1>2, <1>3, <2>1, <2>2
       DEF Delivery!Enqueue, Delivery!EnqueueFails, Delivery!At, Delivery!cache
<1>4. ASSUME NEW t \in Tasks, Delivery!InlineEnds(t) PROVE OwnersHaveTime'
  <2>1. PICK pc \in {"inline_completed", "inline_failed"} : task' = [task EXCEPT ![t].pc = pc]
    BY <1>4 DEF Delivery!InlineEnds, Delivery!Goto
  <2>2. pc \in Delivery!PCs
    BY DEF Delivery!PCs, Delivery!Settled
  <2>3. QED
    BY <1>2, <1>4, <2>1, <2>2 DEF Delivery!InlineEnds, Delivery!At, Delivery!cache
<1>5. ASSUME NEW t \in Tasks, Delivery!Start(t) PROVE OwnersHaveTime'
  <2>1. task[t].pc = "queued" /\ task'[t].pc = "started"
    BY <1>5 DEF Delivery!Start, Delivery!At, Delivery!TypeOK
  <2>2. \A u \in Tasks : u # t => task'[u] = task[u]
    BY <1>5 DEF Delivery!Start, Delivery!TypeOK
  <2>3. QED
    BY <1>0, <1>5, <2>1, <2>2 DEF OwnersHaveTime, Delivery!Start, Delivery!cache
<1>6. ASSUME NEW t \in Tasks, Delivery!ReadDone(t) PROVE OwnersHaveTime'
  <2>1. PICK pc \in {"collapsed", "unmarked"} : task' = [task EXCEPT ![t].pc = pc]
    <3>1. (IF done THEN "collapsed" ELSE "unmarked") \in {"collapsed", "unmarked"}
      OBVIOUS
    <3>2. QED
      BY <1>6, <3>1 DEF Delivery!ReadDone, Delivery!Goto
  <2>2. pc \in Delivery!PCs
    BY DEF Delivery!PCs, Delivery!Settled, Delivery!Running
  <2>3. QED
    BY <1>2, <1>6, <2>1, <2>2 DEF Delivery!ReadDone, Delivery!At, Delivery!cache
<1>7. ASSUME NEW t \in Tasks, Delivery!AddLock(t) PROVE OwnersHaveTime'
  <2>1. CASE messageLock = NoTask
    <3>1. /\ task' = [task EXCEPT ![t].pc = "processing"]
          /\ messageLock' = t /\ left' = LockLife
      BY <1>7, <2>1 DEF Delivery!AddLock, Delivery!Goto
    <3>2. \A u \in Tasks : task[u].pc \notin Owning
      BY <1>0, <2>1 DEF OwnersHaveTime, Delivery!TaskAssumption
    <3>3. "processing" \in Delivery!PCs
      BY DEF Delivery!PCs, Delivery!Running
    <3>4. task[t].age \in Nat
      BY DEF Delivery!TypeOK
    <3>5. /\ \A u \in Tasks : task'[u].pc \in Owning => u = t
          /\ task'[t].pc \in Owning /\ task'[t].age \in Nat
      <4>1. \A u \in Tasks : task'[u].age = task[u].age
        BY <3>1, <3>3, DeliveryGoto
      <4>2. \A u \in Tasks : task'[u].pc = IF u = t THEN "processing" ELSE task[u].pc
        BY <3>1, <3>3, DeliveryGoto
      <4>3. QED
        BY <3>2, <3>4, <4>1, <4>2
    <3>6. \A u \in Tasks : messageLock' = u => u = t
      BY <3>1
    <3>7. left' + task'[t].age >= LockLife
      BY <3>1, <3>5 DEF Delivery!LockAssumption
    <3>8. QED
      BY <3>1, <3>5, <3>6, <3>7 DEF OwnersHaveTime
  <2>2. CASE messageLock # NoTask
    <3>1. "contended" \in Delivery!PCs
      BY DEF Delivery!PCs, Delivery!Running
    <3>2. QED
      BY <1>2, <1>7, <2>2, <3>1 DEF Delivery!AddLock, Delivery!Goto, Delivery!At
  <2>3. QED
    BY <2>1, <2>2
\* Who finds the lock taken is not the one who took it.
<1>8. ASSUME NEW t \in Tasks, Delivery!ReadOwner(t) PROVE OwnersHaveTime'
  <2>1. messageLock # t
    BY <1>0, <1>8 DEF OwnersHaveTime, Delivery!ReadOwner, Delivery!At
  <2>2. "gave_way" \in Delivery!PCs
    BY DEF Delivery!PCs, Delivery!Settled
  <2>3. QED
    BY <1>2, <1>8, <2>1, <2>2
       DEF Delivery!ReadOwner, Delivery!Goto, Delivery!At, Delivery!cache
<1>9. ASSUME NEW t \in Tasks,
             \/ Delivery!Act(t) \/ Delivery!Returns(t) \/ Delivery!Raises(t)
             \/ Delivery!MarkDone(t)
      PROVE  OwnersHaveTime'
  <2>1. PICK pc \in {"acted", "succeeded", "raised", "marked"} :
          task' = [task EXCEPT ![t].pc = pc]
    BY <1>9 DEF Delivery!Act, Delivery!Returns, Delivery!Raises, Delivery!MarkDone,
           Delivery!Goto
  <2>2. pc \in Delivery!PCs
    BY DEF Delivery!PCs, Delivery!Running
  <2>3. task[t].pc \in Owning /\ UNCHANGED <<messageLock, left>>
    BY <1>9 DEF Delivery!Act, Delivery!Returns, Delivery!Raises, Delivery!MarkDone,
           Delivery!At, Delivery!cache
  <2>4. QED
    BY <1>2, <2>1, <2>2, <2>3
<1>10. ASSUME NEW t \in Tasks, Delivery!Complete(t) \/ Delivery!Retry(t)
       PROVE  OwnersHaveTime'
  <2>1. task[t].pc \in {"marked", "raised"} /\ messageLock' = NoTask
    BY <1>10 DEF Delivery!Complete, Delivery!Retry, Delivery!At, Delivery!DeleteLock
  <2>2. \A u \in Tasks : task[u].pc \in Owning => u = t
    BY <1>0, <2>1 DEF OwnersHaveTime
  <2>3. /\ task'[t].pc \in {"completed", "queued", "failed"}
        /\ \A u \in Tasks : u # t => task'[u] = task[u]
    BY <1>10 DEF Delivery!Complete, Delivery!Retry, Delivery!Goto, Delivery!TypeOK
  <2>4. QED
    BY <2>1, <2>2, <2>3 DEF OwnersHaveTime, Delivery!TaskAssumption
<1>11. ASSUME NEW t \in Tasks, Delivery!TimeLimit(t) PROVE OwnersHaveTime'
  <2>1. "timed_out" \in Delivery!PCs
    BY DEF Delivery!PCs, Delivery!Settled
  <2>2. QED
    BY <1>2, <1>11, <2>1 DEF Delivery!TimeLimit, Delivery!Goto, Delivery!cache
<1>12. CASE UNCHANGED Delivery!vars
  BY <1>0, <1>12 DEF OwnersHaveTime, Delivery!vars
<1>13. QED
  BY <1>0, <1>1, <1>3, <1>4, <1>5, <1>6, <1>7, <1>8, <1>9, <1>10, <1>11, <1>12
     DEF Delivery!Next, Delivery!TaskStep

\* The lock of a message has one owner as long as no worker is lost.
THEOREM DeliveryInvariantHolds ==
    Delivery!Spec => [](Delivery!TypeOK /\ LockIsOwned)
<1>1. ASSUME Delivery!Init PROVE Delivery!TypeOK /\ LockIsOwned
  <2>1. LockIsOwned
    BY <1>1 DEF Delivery!Init, LockIsOwned, OwnersHaveTime, Owning, Delivery!Handling, Delivery!TaskAssumption
  <2>2. QED
    BY <1>1, <2>1, DeliveryInitType
<1>2. Delivery!TypeOK /\ LockIsOwned /\ [Delivery!Next]_(Delivery!vars)
        => (Delivery!TypeOK /\ LockIsOwned)'
  BY DeliveryType, LockIsOwnedStep
<1>3. QED
  BY <1>1, <1>2, PTL DEF Delivery!Spec

\* The module of the deliveries counts as this one does.
LEMMA SameCardinality == ASSUME NEW S PROVE Delivery!Cardinality(S) = Cardinality(S)
BY Zenon DEF Delivery!Cardinality, Cardinality

\* Two deliveries of one WhatsApp message are not processed in parallel as long as
\* no worker is lost, however many there are, whatever raises, is retried or runs
\* into the time limit: MESSAGE_LOCK_TIMEOUT is longer than CELERY_TASK_TIME_LIMIT.
THEOREM DeliveriesSerial == MessagesSpec => []DeliveriesAreSerial
<1>1. Delivery!TypeOK /\ LockIsOwned => DeliveriesAreSerial
  <2> DEFINE handling == {t \in Tasks : task[t].pc \in Delivery!Handling}
  <2>1. ASSUME LockIsOwned, crashes = 0 PROVE \A t, u \in handling : t = u
    BY <2>1 DEF LockIsOwned, OwnersHaveTime, Owning
  <2>2. LockIsOwned /\ crashes = 0 => Cardinality(handling) <= 1
    BY <2>1, AtMostOne
  <2>3. QED
    BY <2>2, SameCardinality
       DEF DeliveriesAreSerial, Delivery!DeliveriesAreSerial, Delivery!OneAtATime
<1>2. [ATurn \/ ADelivery]_<<vars, deliveryVars>> => [Delivery!Next]_(Delivery!vars)
  BY DEF ATurn, ADelivery, deliveryVars, Delivery!vars
<1>3. QED
  BY <1>1, <1>2, DeliveryInvariantHolds, PTL DEF MessagesSpec, MessagesInit, Delivery!Spec
=============================================================================
