------------------------- MODULE PortfolioSnapshot -------------------------
(***************************************************************************)
(* get_live_snapshot: requests of one account share a live copy, a         *)
(* last-good copy, a cool-down flag and a single-flight lock in the cache. *)
(* Each cache call is one action.  A copy is represented by the version of *)
(* the API key it was fetched with; 0 stands for an absent entry.          *)
(***************************************************************************)
EXTENDS Naturals, FiniteSets

CONSTANTS
    Requests,       \* threads that call get_live_snapshot, again and again
    MaxKey,         \* how often the user connects (bound)
    LockMayExpire,  \* may a fetch outlast _SNAPSHOT_LOCK_TTL?
    CanCrash        \* may a thread die, leaving its lock behind?

\* Assumed by the modules that give the constants their values.
KeyAssumption == MaxKey \in Nat \ {0}
FlagAssumption == LockMayExpire \in BOOLEAN /\ CanCrash \in BOOLEAN

VARIABLES
    key,            \* version of encrypted_api_key in the database
    clean,          \* the newest version whose connection has invalidated
    live, lastgood, \* the two copies
    cooldown,       \* the rate-limit flag
    lock,           \* the single-flight lock
    proc,           \* what each request is doing
    chilled         \* requests begun under a cool-down that has not ended since

vars == <<key, clean, live, lastgood, cooldown, lock, proc, chilled>>
cache == <<live, lastgood, cooldown, lock>>
account == <<key, clean>>

Keys == 1..MaxKey
None == 0

Fetching == {"fetching", "fetched", "kept", "limited", "failed", "unlocking"}
Waiting == {"poll_live", "poll_cooldown", "poll_lock"}
Answers == {"fresh", "stale", "unavailable"}
PCs == {"idle", "started", "missed", "cool", "fallback"}
         \cup Fetching \cup Waiting \cup Answers

\* key: the version the request loaded; since: clean when it began; got: the
\* version of the copy it is about to return, None when there is none.
Proc == [pc : PCs, key : Keys, since : Keys, got : Keys \cup {None}]
Idle == [pc |-> "idle", key |-> 1, since |-> 1, got |-> None]

TypeOK ==
    /\ key \in Keys /\ clean \in Keys
    /\ live \in Keys \cup {None} /\ lastgood \in Keys \cup {None}
    /\ cooldown \in BOOLEAN /\ lock \in BOOLEAN
    /\ proc \in [Requests -> Proc]
    /\ \A r \in Requests : proc[r].pc = "fresh" => proc[r].got # None
    /\ chilled \subseteq Requests

Init ==
    /\ key = 1 /\ clean = 1
    /\ live = None /\ lastgood = None
    /\ cooldown = FALSE /\ lock = FALSE
    /\ proc = [r \in Requests |-> Idle]
    /\ chilled = {}

At(r, pc) == proc[r].pc = pc
Goto(r, pc) == proc' = [proc EXCEPT ![r].pc = pc]
Return(r, pc, got) == proc' = [proc EXCEPT ![r].pc = pc, ![r].got = got]

-----------------------------------------------------------------------------
(* WallbitConnectView: the row is saved, then the live copy is dropped.    *)

Reconnect ==
    /\ key = clean /\ key < MaxKey
    /\ key' = key + 1
    /\ UNCHANGED <<clean, cache, proc, chilled>>

InvalidateSnapshot ==
    /\ clean < key
    /\ clean' = key
    /\ live' = None
    /\ UNCHANGED <<key, lastgood, cooldown, lock, proc, chilled>>

-----------------------------------------------------------------------------
(* get_live_snapshot up to the lock.                                       *)

Begin(r) ==
    /\ proc[r].pc \in {"idle"} \cup Answers
    /\ proc' = [proc EXCEPT ![r] =
          [pc |-> "started", key |-> key, since |-> clean, got |-> None]]
    /\ chilled' = IF cooldown THEN chilled \cup {r} ELSE chilled \ {r}
    /\ UNCHANGED <<account, cache>>

ReadLive(r) ==
    /\ At(r, "started")
    /\ IF live # None THEN Return(r, "fresh", live) ELSE Goto(r, "missed")
    /\ UNCHANGED <<account, cache, chilled>>

CheckCooldown(r) ==
    /\ At(r, "missed")
    /\ Goto(r, IF cooldown THEN "fallback" ELSE "cool")
    /\ UNCHANGED <<account, cache, chilled>>

\* _fallback_snapshot, and WallbitUnavailableError when it has nothing.
Fallback(r) ==
    /\ At(r, "fallback")
    /\ Return(r, IF lastgood # None THEN "stale" ELSE "unavailable", lastgood)
    /\ UNCHANGED <<account, cache, chilled>>

\* Mutant of TryLock: the result of the add is ignored.
TryLockAndFetch(r) ==
    /\ At(r, "cool")
    /\ lock' = TRUE
    /\ Goto(r, "fetching")
    /\ UNCHANGED <<account, live, lastgood, cooldown, chilled>>

\* cache.add is atomic.
TryLock(r) ==
    /\ At(r, "cool")
    /\ lock' = TRUE
    /\ Goto(r, IF lock THEN "poll_live" ELSE "fetching")
    /\ UNCHANGED <<account, live, lastgood, cooldown, chilled>>

-----------------------------------------------------------------------------
(* The holder of the lock.                                                 *)

StoreLive(r) ==
    /\ At(r, "fetching")
    /\ live' = proc[r].key
    /\ Goto(r, "fetched")
    /\ UNCHANGED <<account, lastgood, cooldown, lock, chilled>>

StoreLastGood(r) ==
    /\ At(r, "fetched")
    /\ lastgood' = proc[r].key
    /\ Return(r, "kept", proc[r].key)
    /\ UNCHANGED <<account, live, cooldown, lock, chilled>>

\* The first 429 ends the fetch and sets the cool-down.
FetchRateLimited(r) ==
    /\ At(r, "fetching")
    /\ cooldown' = TRUE
    /\ Goto(r, "limited")
    /\ UNCHANGED <<account, live, lastgood, lock, chilled>>

FetchFails(r) ==
    /\ At(r, "fetching")
    /\ Goto(r, "failed")
    /\ UNCHANGED <<account, cache, chilled>>

HolderFallback(r) ==
    /\ proc[r].pc \in {"limited", "failed"}
    /\ Return(r, "unlocking", lastgood)
    /\ UNCHANGED <<account, cache, chilled>>

\* The finally deletes the key, whoever's it is by now.
Unlock(r) ==
    /\ proc[r].pc \in {"kept", "unlocking"}
    /\ lock' = FALSE
    /\ Goto(r, IF At(r, "kept") THEN "fresh"
               ELSE IF proc[r].got # None THEN "stale" ELSE "unavailable")
    /\ UNCHANGED <<account, live, lastgood, cooldown, chilled>>

-----------------------------------------------------------------------------
(* Those who wait: live, cool-down and lock are read in turn.              *)

PollLive(r) ==
    /\ At(r, "poll_live")
    /\ IF live # None THEN Return(r, "fresh", live) ELSE Goto(r, "poll_cooldown")
    /\ UNCHANGED <<account, cache, chilled>>

PollCooldown(r) ==
    /\ At(r, "poll_cooldown")
    /\ Goto(r, IF cooldown THEN "fallback" ELSE "poll_lock")
    /\ UNCHANGED <<account, cache, chilled>>

PollLock(r) ==
    /\ At(r, "poll_lock")
    /\ Goto(r, IF lock THEN "poll_live" ELSE "fallback")
    /\ UNCHANGED <<account, cache, chilled>>

\* Mutant of WaitTimesOut: the deadline is never reached.
WaitForever(r) == At(r, "poll_live") /\ FALSE /\ UNCHANGED vars

\* _SNAPSHOT_WAIT_SECONDS have passed.
WaitTimesOut(r) ==
    /\ At(r, "poll_live")
    /\ Goto(r, "fallback")
    /\ UNCHANGED <<account, cache, chilled>>

-----------------------------------------------------------------------------
(* Expiry and failure.                                                     *)

LiveExpires ==
    /\ live # None /\ live' = None
    /\ UNCHANGED <<account, lastgood, cooldown, lock, proc, chilled>>

CooldownExpires ==
    /\ cooldown /\ cooldown' = FALSE
    /\ chilled' = {}
    /\ UNCHANGED <<account, live, lastgood, lock, proc>>

\* Of a dead holder always, of a slow one if LockMayExpire.
LockExpires ==
    /\ lock /\ lock' = FALSE
    /\ LockMayExpire \/ \A r \in Requests : proc[r].pc \notin Fetching
    /\ UNCHANGED <<account, live, lastgood, cooldown, proc, chilled>>

Crash(r) ==
    /\ CanCrash /\ proc[r].pc \notin {"idle"} \cup Answers
    /\ proc' = [proc EXCEPT ![r] = Idle]
    /\ UNCHANGED <<account, cache, chilled>>

-----------------------------------------------------------------------------

RequestStep(r) ==
    \/ ReadLive(r) \/ CheckCooldown(r) \/ Fallback(r) \/ TryLock(r)
    \/ StoreLive(r) \/ StoreLastGood(r) \/ FetchRateLimited(r) \/ FetchFails(r)
    \/ HolderFallback(r) \/ Unlock(r)
    \/ PollLive(r) \/ PollCooldown(r) \/ PollLock(r) \/ WaitTimesOut(r)

Next ==
    \/ Reconnect \/ InvalidateSnapshot
    \/ LiveExpires \/ CooldownExpires \/ LockExpires
    \/ \E r \in Requests : Begin(r) \/ RequestStep(r) \/ Crash(r)

Spec == Init /\ [][Next]_vars

\* Threads run, and the deadline of a wait passes.
FairSpec ==
    Spec /\ \A r \in Requests : WF_vars(RequestStep(r)) /\ SF_vars(WaitTimesOut(r))

-----------------------------------------------------------------------------
(* Properties.                                                             *)

\* Calls on Wallbit are made by one request at a time, as long as a fetch does
\* not outlast the lock.
SingleFlight == Cardinality({r \in Requests : At(r, "fetching")}) <= 1

\* A request that begins under a cool-down does not call Wallbit while that
\* cool-down lasts.
NoFetchUnderStandingCooldown == \A r \in chilled : ~At(r, "fetching")

\* Whoever calls Wallbit for the snapshot is alone, and was free to.
SnapshotIsSound == TypeOK /\ SingleFlight /\ NoFetchUnderStandingCooldown

\* Every request is answered, even if the holder of the lock died.
EveryRequestAnswered ==
    \A r \in Requests : At(r, "started") ~> proc[r].pc \in {"idle"} \cup Answers

\* "After a 429 we stop calling Wallbit for this long".
NoFetchAfterRateLimit ==
    [][\A r \in Requests : At(r, "cool") /\ proc'[r].pc = "fetching" => ~cooldown]_vars

\* "A (re)connected key must not serve the previous key's cached snapshot".
FreshCopyIsOfTheConnectedKey ==
    \A r \in Requests : At(r, "fresh") => proc[r].got >= proc[r].since
=============================================================================
