---------------------------- MODULE Organizations ----------------------------
(***************************************************************************)
(* Organizations: members up to a limit, invitations by token, and the     *)
(* plan a user gets by joining and loses by leaving.  No handler holds a   *)
(* lock or a transaction: each statement of a request is a step, and a     *)
(* request works with the rows it has read.                                *)
(***************************************************************************)
EXTENDS Integers, FiniteSets

CONSTANTS
    Users,
    Orgs,
    Admin,          \* admin_user of each organization
    OnTrial,        \* users on a PREMIUM trial at the start
    Workers,        \* requests served at once
    Invitations,    \* invitations that may be sent (bound)
    MaxMembers,     \* max_members
    None

\* Assumed by the modules that give the constants their values.
OrganizationsAssumption ==
    /\ Admin \in [Orgs -> Users]
    /\ OnTrial \subseteq Users
    /\ MaxMembers \in Nat \ {0}
    /\ IsFiniteSet(Users) /\ IsFiniteSet(Workers)
    /\ None \notin Users \cup Orgs \cup Invitations

VARIABLES
    orgs,           \* organizations there are
    members,        \* OrganizationMembership rows
    plan,           \* subscription_plan and subscription_end_date of each user
    invitation,     \* OrganizationInvitation rows
    job             \* where each request stands

vars == <<orgs, members, plan, invitation, job>>

Plans == {"BASIC", "PREMIUM", "BUSINESS"}
Statuses == {"PENDING", "ACCEPTED", "REJECTED", "EXPIRED"}
Memberships == [org : Orgs, user : Users, role : {"ADMIN", "MEMBER"}]
Idle == [pc |-> "idle", org |-> None, user |-> None, role |-> "MEMBER",
         invite |-> None, ends |-> "never", status |-> "PENDING"]

TypeOK ==
    /\ orgs \subseteq Orgs
    /\ members \subseteq {m \in Memberships : m.org \in orgs}
    /\ \A a, b \in members : (a.org = b.org /\ a.user = b.user) => a = b
    /\ plan \in [Users -> [name : Plans, ends : {"never", "later", "past"}]]
    /\ \E sent \in SUBSET Invitations :
         invitation \in [sent -> [org : Orgs, status : Statuses, overdue : BOOLEAN]]
    /\ \A w \in Workers :
         /\ job[w].pc \in {"idle", "plan_admin", "founding", "accepting", "adding",
                           "creating", "planning", "accepted", "settling", "downgrading"}
         /\ job[w].invite \in DOMAIN invitation \cup {None}

Init ==
    /\ orgs = {} /\ members = {}
    /\ plan = [u \in Users |-> IF u \in OnTrial THEN [name |-> "PREMIUM", ends |-> "later"]
                               ELSE [name |-> "BASIC", ends |-> "never"]]
    /\ invitation = [i \in {} |-> None]
    /\ job = [w \in Workers |-> Idle]

MembersOf(o) == {m.user : m \in {x \in members : x.org = o}}
IsAdmin(o, u) == [org |-> o, user |-> u, role |-> "ADMIN"] \in members
Membership(o, u, role) == [org |-> o, user |-> u, role |-> role]

\* Mutant of CanAddMembers: a full organization takes one more.
CanAddOneMore(o) == Cardinality(MembersOf(o)) <= MaxMembers

\* can_add_members
CanAddMembers(o) == Cardinality(MembersOf(o)) < MaxMembers

Goto(w, state) == job' = [job EXCEPT ![w] = state]
End(w) == Goto(w, Idle)
Begin(w, o, u, pc) ==
    /\ job[w].pc = "idle"
    /\ Goto(w, [Idle EXCEPT !.pc = pc, !.org = o, !.user = u, !.ends = plan[u].ends])
Settle(w, i, status) == invitation' = [invitation EXCEPT ![i].status = status]

-----------------------------------------------------------------------------
(* create_organization: the plan, the organization, the membership.        *)

StartOrganization(w, o) ==
    /\ o \notin orgs
    /\ \A x \in Workers : job[x].org # o
    /\ Begin(w, o, Admin[o], "plan_admin")
    /\ UNCHANGED <<orgs, members, plan, invitation>>

CreateOrganization(w) ==
    /\ job[w].pc = "plan_admin"
    /\ plan' = [plan EXCEPT ![job[w].user] = [name |-> "BUSINESS", ends |-> job[w].ends]]
    /\ orgs' = orgs \cup {job[w].org}
    /\ Goto(w, [job[w] EXCEPT !.pc = "founding"])
    /\ UNCHANGED <<members, invitation>>

JoinAsAdmin(w) ==
    /\ job[w].pc = "founding"
    /\ members' = members \cup {Membership(job[w].org, job[w].user, "ADMIN")}
    /\ End(w)
    /\ UNCHANGED <<orgs, plan, invitation>>

\* Mutant of DestroyOrganization: the memberships stay.
DestroyAlone(o) ==
    /\ o \in orgs /\ MembersOf(o) # {}
    /\ orgs' = orgs \ {o}
    /\ \A w \in Workers : job[w].org # o
    /\ UNCHANGED <<members, plan, invitation, job>>

\* Any member may delete the organization; its rows go with it.
DestroyOrganization(o) ==
    /\ o \in orgs /\ MembersOf(o) # {}
    /\ orgs' = orgs \ {o}
    /\ members' = {m \in members : m.org # o}
    /\ invitation' = [i \in {x \in DOMAIN invitation : invitation[x].org # o}
                        |-> invitation[i]]
    /\ \A w \in Workers : job[w].org # o
    /\ UNCHANGED <<plan, job>>

-----------------------------------------------------------------------------
(* add_member.                                                             *)

StartAddMember(w, o, actor, u) ==
    /\ o \in orgs /\ IsAdmin(o, actor)
    /\ Begin(w, o, u, "adding")
    /\ UNCHANGED <<orgs, members, plan, invitation>>

AddChecks(w) ==
    /\ job[w].pc = "adding"
    /\ IF CanAddMembers(job[w].org) /\ job[w].user \notin MembersOf(job[w].org)
       THEN Goto(w, [job[w] EXCEPT !.pc = "creating"]) ELSE End(w)
    /\ UNCHANGED <<orgs, members, plan, invitation>>

\* A membership made meanwhile raises IntegrityError.
CreateMembership(w) ==
    /\ job[w].pc = "creating"
    /\ IF job[w].user \in MembersOf(job[w].org)
       THEN End(w) /\ UNCHANGED members
       ELSE /\ members' = members \cup {Membership(job[w].org, job[w].user, job[w].role)}
            /\ Goto(w, [job[w] EXCEPT !.pc = "planning"])
    /\ UNCHANGED <<orgs, plan, invitation>>

\* The whole row is saved, with the end date read at the start.
GivePlan(w) ==
    /\ job[w].pc = "planning"
    /\ plan' = [plan EXCEPT ![job[w].user] = [name |-> "BUSINESS", ends |-> job[w].ends]]
    /\ IF job[w].invite = None THEN End(w)
       ELSE Goto(w, [job[w] EXCEPT !.pc = "accepted"])
    /\ UNCHANGED <<orgs, members, invitation>>

-----------------------------------------------------------------------------
(* remove_member.                                                          *)

RemoveMember(w, o, actor, u) ==
    /\ o \in orgs /\ IsAdmin(o, actor)
    /\ u # Admin[o] /\ u \in MembersOf(o)
    /\ Begin(w, o, u, "downgrading")
    /\ members' = {m \in members : ~(m.org = o /\ m.user = u)}
    /\ UNCHANGED <<orgs, plan, invitation>>

Basic == [name |-> "BASIC", ends |-> "never"]

\* downgrade_to_basic (the history it also writes is read by nothing here)
Downgrade(w) ==
    /\ job[w].pc = "downgrading"
    /\ plan' = [plan EXCEPT ![job[w].user] = Basic]
    /\ End(w)
    /\ UNCHANGED <<orgs, members, invitation>>

\* check_expired_trials, downgrade_users_to_basic
CheckExpiredTrials ==
    LET expired == {u \in Users : plan[u].ends = "past" /\ plan[u].name # "BASIC"}
    IN  /\ expired # {}
        /\ plan' = [u \in Users |-> IF u \in expired THEN Basic ELSE plan[u]]
        /\ UNCHANGED <<orgs, members, invitation, job>>

DowngradeUsers(u) ==
    /\ plan[u].name # "BASIC"
    /\ plan' = [plan EXCEPT ![u] = Basic]
    /\ UNCHANGED <<orgs, members, invitation, job>>

-----------------------------------------------------------------------------
(* Invitations.                                                            *)

InviteMember(o, actor, i) ==
    /\ o \in orgs /\ IsAdmin(o, actor) /\ CanAddMembers(o)
    /\ i \notin DOMAIN invitation
    /\ invitation' = [x \in DOMAIN invitation \cup {i} |->
         IF x = i THEN [org |-> o, status |-> "PENDING", overdue |-> FALSE]
         ELSE invitation[x]]
    /\ UNCHANGED <<orgs, members, plan, job>>

\* Every endpoint reads the row and goes on only if it is pending.
Pending(i) == i \in DOMAIN invitation /\ invitation[i].status = "PENDING"

StartAccept(w, i, u) ==
    /\ Pending(i)
    /\ job[w].pc = "idle"
    /\ Goto(w, [Idle EXCEPT !.pc = "accepting", !.org = invitation[i].org, !.user = u,
                  !.invite = i, !.ends = plan[u].ends])
    /\ UNCHANGED <<orgs, members, plan, invitation>>

AcceptChecks(w) ==
    LET i == job[w].invite
    IN  /\ job[w].pc = "accepting"
        /\ IF invitation[i].overdue
           THEN Settle(w, i, "EXPIRED") /\ End(w)
           ELSE IF ~CanAddMembers(job[w].org)
           THEN Settle(w, i, "REJECTED") /\ End(w)
           ELSE UNCHANGED invitation /\ Goto(w, [job[w] EXCEPT !.pc = "adding"])
        /\ UNCHANGED <<orgs, members, plan>>

SaveAccepted(w) ==
    /\ job[w].pc = "accepted"
    /\ Settle(w, job[w].invite, "ACCEPTED")
    /\ End(w)
    /\ UNCHANGED <<orgs, members, plan>>

\* reject, cancel; validate_token when the invitation is overdue
StartSettle(w, i, status) ==
    /\ Pending(i)
    /\ status = "EXPIRED" => invitation[i].overdue
    /\ job[w].pc = "idle"
    /\ Goto(w, [Idle EXCEPT !.pc = "settling", !.org = invitation[i].org,
                  !.invite = i, !.status = status])
    /\ UNCHANGED <<orgs, members, plan, invitation>>

StartReject(w, i) == StartSettle(w, i, "REJECTED")
StartCancel(w, i) == StartSettle(w, i, "REJECTED")
StartValidate(w, i) == StartSettle(w, i, "EXPIRED")

\* Mutant of SaveSettled: the row is saved with the status that was read.
SaveAsRead(w) ==
    /\ job[w].pc = "settling"
    /\ Settle(w, job[w].invite, "PENDING")
    /\ End(w)
    /\ UNCHANGED <<orgs, members, plan>>

SaveSettled(w) ==
    /\ job[w].pc = "settling"
    /\ Settle(w, job[w].invite, job[w].status)
    /\ End(w)
    /\ UNCHANGED <<orgs, members, plan>>

-----------------------------------------------------------------------------
\* A worker is killed between two statements.
Dies(w) ==
    /\ job[w].pc # "idle"
    /\ End(w)
    /\ UNCHANGED <<orgs, members, plan, invitation>>

\* Time passes, for an invitation or a trial.
Overdue(i) ==
    /\ Pending(i) /\ ~invitation[i].overdue
    /\ invitation' = [invitation EXCEPT ![i].overdue = TRUE]
    /\ UNCHANGED <<orgs, members, plan, job>>

TrialEnds(u) ==
    /\ plan[u].ends = "later"
    /\ plan' = [plan EXCEPT ![u].ends = "past"]
    /\ UNCHANGED <<orgs, members, invitation, job>>

RequestStep(w) ==
    \/ CreateOrganization(w) \/ JoinAsAdmin(w)
    \/ AddChecks(w) \/ CreateMembership(w) \/ GivePlan(w) \/ Downgrade(w)
    \/ AcceptChecks(w) \/ SaveAccepted(w) \/ SaveSettled(w)

Next ==
    \/ \E w \in Workers :
         \/ RequestStep(w) \/ Dies(w)
         \/ \E o \in Orgs :
              \/ StartOrganization(w, o)
              \/ \E actor, u \in Users : \/ StartAddMember(w, o, actor, u)
                                         \/ RemoveMember(w, o, actor, u)
         \/ \E i \in Invitations :
              \/ \E u \in Users : StartAccept(w, i, u)
              \/ StartReject(w, i) \/ StartCancel(w, i) \/ StartValidate(w, i)
    \/ \E o \in Orgs : \/ DestroyOrganization(o)
                       \/ \E actor \in Users, i \in Invitations : InviteMember(o, actor, i)
    \/ \E i \in Invitations : Overdue(i)
    \/ \E u \in Users : TrialEnds(u) \/ DowngradeUsers(u)
    \/ CheckExpiredTrials

Spec == Init /\ [][Next]_vars

-----------------------------------------------------------------------------
\* However requests race for the last place, the limit is exceeded by fewer
\* members than there are requests served at once: each counted the members
\* before it added one.
OvershootIsBounded ==
    \A o \in Orgs :
        Cardinality(MembersOf(o)) <= MaxMembers - 1 + Cardinality(Workers)

\* Nobody but a deletion of the organization takes the administrator out of it,
\* whatever request removes whom meanwhile.
AdministratorKept ==
    \A o \in orgs \cap orgs' : IsAdmin(o, Admin[o]) => IsAdmin(o, Admin[o])'

\* A request that saves an old copy of an invitation never reopens one that was
\* settled meanwhile.
NotReopened ==
    \A i \in DOMAIN invitation \cap DOMAIN invitation' :
      invitation'[i].status = "PENDING" => invitation[i].status = "PENDING"

\* What is settled of an organization stays settled.
MembershipsHold == [][AdministratorKept /\ NotReopened]_vars

-----------------------------------------------------------------------------
(* What is not kept (see the README): no run checks these.                 *)

LimitHolds == \A o \in Orgs : Cardinality(MembersOf(o)) <= MaxMembers

\* Who is a member has the plan of the members.
MembersAreBusiness ==
    \A m \in members : (\A w \in Workers : job[w].user # m.user)
                         => plan[m.user].name = "BUSINESS"

\* An invitation brings in one member at most, and none once it is settled.
SettledBringsNobody ==
    [][\A w \in Workers : CreateMembership(w) /\ job[w].invite # None
         => invitation[job[w].invite].status = "PENDING"]_vars

\* Who belongs to no organization does not have the plan of a member.
LeaversAreBasic ==
    \A u \in Users : (/\ plan[u].name = "BUSINESS"
                      /\ \A w \in Workers : job[w].user # u)
                       => \E m \in members : m.user = u
=============================================================================
