--------------------------- MODULE WallbitClient ---------------------------
(***************************************************************************)
(* WallbitClient._request: one HTTP call with the client's policy of       *)
(* retries.  Reads are retried after transport errors, 5xx and short rate  *)
(* limits; writes get one attempt, and an attempt without a usable answer  *)
(* is reported as uncertain.  Several calls run at once; what Wallbit did  *)
(* with a request and what the caller hears of it are two steps.           *)
(***************************************************************************)
EXTENDS Naturals

CONSTANTS
    Calls,          \* calls of WallbitClient._request
    Writes,         \* those with method POST, PATCH or DELETE
    FailFast,       \* those of a client with retry_rate_limited=False
    MAX_ATTEMPTS    \* max_attempts, at least 1

\* Assumed by the modules that give the constants their values.
WritesAssumption == Writes \subseteq Calls /\ FailFast \subseteq Calls
AttemptsAssumption == MAX_ATTEMPTS \in Nat \ {0}

VARIABLES
    pc,         \* pc[c]: what the call is doing, or how it ended
    attempt,    \* attempt[c]: the loop variable of _request
    sent,       \* sent[c]: requests sent
    upstream,   \* upstream[c]: Wallbit's answer to the last request
    applied,    \* applied[c]: how often Wallbit applied the call's request
    blocked     \* calls answered by a long Retry-After

vars == <<pc, attempt, sent, upstream, applied, blocked>>

\* Retry-After up to and above RETRY_AFTER_MAX_SLEEP; absent counts as short.
Limits == {"short_429", "long_429"}
Answers == {"ok", "4xx", "5xx"} \cup Limits
Outcomes == {"returned", "rejected", "rate_limited", "server_error",
             "unreachable", "uncertain"}
Running == {"ready", "waiting", "sleeping"}

TypeOK ==
    /\ pc \in [Calls -> Running \cup Outcomes]
    /\ attempt \in [Calls -> 1..MAX_ATTEMPTS]
    /\ sent \in [Calls -> 0..MAX_ATTEMPTS]
    /\ upstream \in [Calls -> Answers \cup {"none"}]
    /\ applied \in [Calls -> 0..MAX_ATTEMPTS]
    /\ blocked \subseteq Calls

Init ==
    /\ pc = [c \in Calls |-> "ready"]
    /\ attempt = [c \in Calls |-> 1]
    /\ sent = [c \in Calls |-> 0]
    /\ upstream = [c \in Calls |-> "none"]
    /\ applied = [c \in Calls |-> 0]
    /\ blocked = {}

\* Mutant of Idempotent: every method is retried.
Retriable(c) == c \in Calls

Idempotent(c) == c \notin Writes
MaxAttempts(c) == IF Idempotent(c) THEN MAX_ATTEMPTS ELSE 1

Go(c, to) == pc' = [pc EXCEPT ![c] = to]

Send(c) ==
    /\ pc[c] = "ready"
    /\ sent' = [sent EXCEPT ![c] = @ + 1]
    /\ upstream' = [upstream EXCEPT ![c] = "none"]
    /\ Go(c, "waiting")
    /\ UNCHANGED <<attempt, applied, blocked>>

-----------------------------------------------------------------------------
(* Wallbit decides; a 5xx may come before or after the side effect.        *)

Decide(c, answer, effect) ==
    /\ pc[c] = "waiting" /\ upstream[c] = "none"
    /\ upstream' = [upstream EXCEPT ![c] = answer]
    /\ applied' = [applied EXCEPT ![c] = @ + effect]
    /\ UNCHANGED <<pc, attempt, sent, blocked>>

Applies(c) == Decide(c, "ok", 1)
Refuses(c) == \E answer \in Limits \cup {"4xx"} : Decide(c, answer, 0)
Breaks(c) == \E effect \in 0..1 : Decide(c, "5xx", effect)

\* Applied after the caller stopped listening.
AppliesLate(c) ==
    /\ pc[c] = "uncertain" /\ upstream[c] = "none"
    /\ upstream' = [upstream EXCEPT ![c] = "ok"]
    /\ applied' = [applied EXCEPT ![c] = @ + 1]
    /\ UNCHANGED <<pc, attempt, sent, blocked>>

-----------------------------------------------------------------------------
(* The caller.                                                             *)

\* Mutant of TransportError: no timeout, so only a lost answer is noticed.
TransportErrorWithoutTimeout(c) ==
    /\ pc[c] = "waiting" /\ upstream[c] # "none"
    /\ Go(c, IF ~Idempotent(c) THEN "uncertain"
             ELSE IF attempt[c] = MaxAttempts(c) THEN "unreachable"
             ELSE "sleeping")
    /\ UNCHANGED <<attempt, sent, upstream, applied, blocked>>

\* A timeout or a dropped connection, whether or not Wallbit answered.
TransportError(c) ==
    /\ pc[c] = "waiting"
    /\ Go(c, IF ~Idempotent(c) THEN "uncertain"
             ELSE IF attempt[c] = MaxAttempts(c) THEN "unreachable"
             ELSE "sleeping")
    /\ UNCHANGED <<attempt, sent, upstream, applied, blocked>>

Receive(c, answers, to) ==
    /\ pc[c] = "waiting"
    /\ upstream[c] \in answers
    /\ Go(c, to)
    /\ blocked' = IF upstream[c] = "long_429" THEN blocked \cup {c} ELSE blocked
    /\ UNCHANGED <<attempt, sent, upstream, applied>>

\* Mutant of RetriesLimit: a long block is slept through like a burst.
RetriesAnyLimit(c) ==
    upstream[c] \in Limits /\ c \notin FailFast /\ attempt[c] < MaxAttempts(c)

RetriesLimit(c) ==
    upstream[c] = "short_429" /\ c \notin FailFast /\ attempt[c] < MaxAttempts(c)

RateLimited(c) == Receive(c, Limits, IF RetriesLimit(c) THEN "sleeping" ELSE "rate_limited")

\* Mutant of ServerError: a write's 5xx is a failure like any other.
ServerErrorFails(c) ==
    Receive(c, {"5xx"}, IF attempt[c] < MaxAttempts(c) THEN "sleeping" ELSE "server_error")

ServerError(c) ==
    Receive(c, {"5xx"}, IF ~Idempotent(c) THEN "uncertain"
                        ELSE IF attempt[c] < MaxAttempts(c) THEN "sleeping"
                        ELSE "server_error")

Rejected(c) == Receive(c, {"4xx"}, "rejected")

Returned(c) == Receive(c, {"ok"}, "returned")

\* _sleep_backoff or the short Retry-After is over: the next attempt.
Wake(c) ==
    /\ pc[c] = "sleeping"
    /\ attempt' = [attempt EXCEPT ![c] = @ + 1]
    /\ Go(c, "ready")
    /\ UNCHANGED <<sent, upstream, applied, blocked>>

CallStep(c) ==
    \/ Send(c) \/ TransportError(c) \/ RateLimited(c) \/ ServerError(c)
    \/ Rejected(c) \/ Returned(c) \/ Wake(c)

WallbitStep(c) == Applies(c) \/ Refuses(c) \/ Breaks(c) \/ AppliesLate(c)

Next == \E c \in Calls : CallStep(c) \/ WallbitStep(c)

Spec == Init /\ [][Next]_vars

\* Timeouts bound every wait and sleeps end.
FairSpec == Spec /\ \A c \in Calls : WF_vars(CallStep(c))

-----------------------------------------------------------------------------
(* Properties.                                                             *)

\* "a retried POST /trades is a second order": a write is never applied twice,
\* whatever is lost, late or broken.
WriteAppliedOnce == \A c \in Writes : applied[c] <= 1

\* A write the caller is told has failed was not applied and never will be.
DefinitiveFailureMeansNotApplied ==
    \A c \in Writes :
        pc[c] \in {"rejected", "rate_limited", "server_error", "unreachable"}
            => applied[c] = 0
FailuresAreDefinitive == TypeOK /\ DefinitiveFailureMeansNotApplied

\* A call told to wait longer than RETRY_AFTER_MAX_SLEEP sends nothing more,
\* so it does not renew the block.
BlockIsRespected == [][\A c \in blocked : sent'[c] = sent[c]]_vars

\* Every call returns or raises.
EveryCallReturns == \A c \in Calls : <>(pc[c] \in Outcomes)
=============================================================================
