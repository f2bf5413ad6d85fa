----------------------------- MODULE KillSwitch -----------------------------
(***************************************************************************)
(* WallbitAccount.status and kill_switch_until of one user, and the views  *)
(* and tools that change them.  Except for Connect, each reads the row in  *)
(* one statement and saves it in another, without a lock.  Time is counted *)
(* in hours; 0 stands for no kill switch.                                  *)
(***************************************************************************)
EXTENDS Naturals

CONSTANTS
    Workers,        \* threads that handle requests
    Durations,      \* duration_hours a request may ask for
    RevokedHours,   \* 365 days
    Horizon         \* bound on time

\* Assumed by the modules that give the constants their values.
DurationAssumption == Durations \subseteq Nat \ {0}
HorizonAssumption == Horizon \in Nat
RevokedAssumption ==
    RevokedHours \in Nat /\ \A h \in Durations : h < RevokedHours

VARIABLES
    now,
    status,         \* WallbitAccount.status, or "absent" before the first connect
    until,          \* kill_switch_until
    offer,          \* is a wallbit_resume decision waiting for confirmation?
    proc            \* what each worker has read and will save

vars == <<now, status, until, offer, proc>>

None == 0
Longest == Horizon + RevokedHours
PCs == {"idle", "pausing", "resuming", "confirming", "revoking"}
Idle == [pc |-> "idle", read |-> None, new |-> None]

TypeOK ==
    /\ now \in 1..Horizon
    /\ status \in {"absent", "connected", "revoked"}
    /\ until \in None..Longest
    /\ offer \in BOOLEAN
    /\ proc \in [Workers -> [pc : PCs, read : None..Longest, new : None..Longest]]

Init ==
    /\ now = 1
    /\ status = "absent"
    /\ until = None
    /\ offer = FALSE
    /\ proc = [w \in Workers |-> Idle]

Start(w, pc, new) ==
    /\ proc[w].pc = "idle" /\ status # "absent"
    /\ proc' = [proc EXCEPT ![w] = [pc |-> pc, read |-> until, new |-> new]]
    /\ UNCHANGED <<now, status, until>>

Finish(w, pc) == proc[w].pc = pc /\ proc' = [proc EXCEPT ![w] = Idle]

\* update_or_create under the row's lock.
Connect ==
    /\ status' = "connected"
    /\ until' = None
    /\ UNCHANGED <<now, offer, proc>>

\* WallbitPauseView and the wallbit_pause tool.
ReadForPause(w) == \E h \in Durations : Start(w, "pausing", now + h) /\ UNCHANGED offer

\* Mutant of Longer: the newest pause wins.
Newest(w) == proc[w].new

\* "keep the longer of the two": the one read or the one asked for.  When the
\* one read is longer nothing is saved.
Longer(w) == IF proc[w].read > proc[w].new THEN until ELSE proc[w].new

SavePause(w) ==
    /\ Finish(w, "pausing")
    /\ until' = Longer(w)
    /\ UNCHANGED <<now, status, offer>>

\* WallbitResumeView refuses a revoked account.
ReadForResume(w) == status = "connected" /\ Start(w, "resuming", None) /\ UNCHANGED offer

SaveResume(w) ==
    /\ Finish(w, "resuming")
    /\ until' = None
    /\ UNCHANGED <<now, status, offer>>

\* _preview_resume_bot: an offer needs a pause to lift.
OfferResume ==
    /\ status # "absent" /\ until > now
    /\ offer' = TRUE
    /\ UNCHANGED <<now, status, until, proc>>

\* execute_confirmed_decision claims the offer and checks the status ...
ConfirmOffer(w) ==
    /\ offer /\ offer' = FALSE
    /\ IF status = "connected" THEN Start(w, "confirming", None)
       ELSE UNCHANGED <<now, status, until, proc>>

\* ... and execute_resume_bot clears whatever pause there is by then.
SaveConfirmed(w) ==
    /\ Finish(w, "confirming")
    /\ until' = None
    /\ UNCHANGED <<now, status, offer>>

ReadForDisconnect(w) == Start(w, "revoking", now + RevokedHours) /\ UNCHANGED offer

SaveDisconnect(w) ==
    /\ Finish(w, "revoking")
    /\ status' = "revoked"
    /\ until' = proc[w].new
    /\ UNCHANGED <<now, offer>>

Tick ==
    /\ now < Horizon
    /\ now' = now + 1
    /\ UNCHANGED <<status, until, offer, proc>>

Next ==
    \/ Connect \/ OfferResume \/ Tick
    \/ \E w \in Workers :
          \/ ReadForPause(w) \/ SavePause(w)
          \/ ReadForResume(w) \/ SaveResume(w)
          \/ ConfirmOffer(w) \/ SaveConfirmed(w)
          \/ ReadForDisconnect(w) \/ SaveDisconnect(w)

Spec == Init /\ [][Next]_vars

-----------------------------------------------------------------------------
(* Properties.                                                             *)

\* "never weaken an existing pause": no pause request brings the end of the
\* kill switch nearer, whatever it asks for and whenever it comes.
NotWeakened == \A w \in Workers : SavePause(w) => until' >= until

\* A disconnected account stays under the kill switch until it is connected
\* again: no pause, resume or confirmed offer lifts it.
RevokedStaysPaused == status = "revoked" => until > now

\* Both, at every step.
PausesHold == [][NotWeakened /\ RevokedStaysPaused']_vars
=============================================================================
