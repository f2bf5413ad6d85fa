----------------------------- MODULE Onboarding -----------------------------
(***************************************************************************)
(* How a person gets an account and how the chats are linked to it: the    *)
(* contact shared in Telegram, the questions WhatsApp asks, the login      *)
(* widget of Telegram and the login by code.  What WhatsApp has asked is   *)
(* kept in the memory of one process.  A handler looks rows up in one step *)
(* and writes in others.                                                   *)
(***************************************************************************)
EXTENDS Integers, FiniteSets

CONSTANTS
    People,
    Listed,         \* people whose Mexican area code normalize_phone_number knows
    Threads,        \* of the Telegram webhook
    Processes,      \* that run the tasks of WhatsApp
    MaxAccounts,    \* (bound)
    None

VARIABLES
    account,        \* users.User, by id
    telegram,       \* the account of a person's Telegram chat
    whatsapp,       \* the account of a person's WhatsApp chat
    state,          \* whatsapp_user_states of a process
    code,           \* the verification code in the cache: for which form of a number
    total,          \* TrackingLink.total_registrations
    job,            \* what a handler is about to write
    disturbed       \* "accounts", "count": what one request after the other would
                    \* not have disturbed (see the properties)

vars == <<account, telegram, whatsapp, state, code, total, job, disturbed>>

Ids == 1..MaxAccounts
Forms == {"long", "short"}          \* 521... and 52...
External == ({"telegram"} \cup Forms) \X People      \* WhatsApp names a number's form
Idle == [pc |-> "idle", who |-> None, id |-> None, phone |-> None,
         link |-> FALSE, seen |-> 0]
Runners == Threads \cup Processes

\* external_id may be a list; phone is a person's number in the form it was saved.
Account == [ext : (SUBSET External) \ {{}}, phone : (People \X Forms) \cup {None},
            referred : BOOLEAN]
Exists == {id \in Ids : account[id] # None}

\* Assumed by the modules that give the constants their values.
OnboardingAssumption ==
    /\ Listed \subseteq People /\ Threads \cap Processes = {} /\ MaxAccounts \in Nat
    /\ None \notin Ids /\ None \notin Account /\ None \notin People \X Forms

TypeOK ==
    /\ account \in [Ids -> Account \cup {None}]
    /\ telegram \in [People -> Exists \cup {None}]
    /\ whatsapp \in [People -> Exists \cup {None}]
    /\ state \in [Processes -> [People -> {"initial", "currency", "timezone"}]]
    /\ code \in [People -> Forms \cup {None}] /\ total \in Nat
    /\ \A h \in Runners :
         /\ job[h].pc \in {"idle", "creating", "counting", "completing", "linking"}
         /\ job[h].pc \in {"completing", "linking"} => job[h].id \in Exists
    \* external_id is unique
    /\ \A i, j \in Exists : account[i].ext = account[j].ext => i = j

Init ==
    /\ account = [id \in Ids |-> None]
    /\ telegram = [p \in People |-> None] /\ whatsapp = [p \in People |-> None]
    /\ state = [q \in Processes |-> [p \in People |-> "initial"]]
    /\ code = [p \in People |-> None] /\ total = 0
    /\ job = [h \in Runners |-> Idle] /\ disturbed = {}

-----------------------------------------------------------------------------
(* Numbers and lookups.                                                    *)

\* normalize_phone_number
Normalize(p, form) == <<p, IF p \in Listed THEN "long" ELSE form>>

\* Mutant of PhoneVariants: only the canonical form is looked for.
Canonical(phone) == {phone}
PhoneVariants(phone) == {phone[1]} \X Forms

First(ids) == IF ids = {} THEN None ELSE CHOOSE i \in ids : \A j \in ids : i <= j
\* get_user_by_phone_number
ByPhone(phone) == First({i \in Exists : account[i].phone \in PhoneVariants(phone)})
ByExternalId(x) == First({i \in Exists : account[i].ext = {x}})

Accounts(p) == {i \in Exists : \/ \E x \in account[i].ext : x[2] = p
                               \/ account[i].phone # None /\ account[i].phone[1] = p}

Begin(h, what) ==
    /\ job' = [job EXCEPT ![h] = what]
    /\ disturbed' = IF \E g \in Runners \ {h} : job[g].pc # "idle"
                    THEN {"accounts", "count"} ELSE disturbed
Link(p, id) == [Idle EXCEPT !.pc = "linking", !.who = p, !.id = id]

-----------------------------------------------------------------------------
(* Telegram.                                                               *)

\* A contact is one's own: its user_id is the sender's.
OwnContact(p, owner) == p = owner

\* handle_contact_shared and the look-up of create_account_from_contact.
ShareContact(h, p, owner, referred) ==
    LET phone == Normalize(owner, "short")
        mine == telegram[p]
        known == ByPhone(phone)
        left == ByExternalId(<<"telegram", p>>)
        row == [Idle EXCEPT !.who = p, !.phone = phone]
        counted == [row EXCEPT !.link = referred, !.seen = total]
    IN  /\ job[h].pc = "idle" /\ OwnContact(p, owner)
        /\ CASE mine # None /\ account[mine].phone = None ->
                  Begin(h, [row EXCEPT !.pc = "completing", !.id = mine])
             [] ~(mine # None /\ account[mine].phone = None) /\ known # None ->
                  Begin(h, Link(p, known))
             [] ~(mine # None /\ account[mine].phone = None) /\ known = None /\ left # None ->
                  Begin(h, [counted EXCEPT !.pc = "completing", !.id = left])
             [] OTHER -> Begin(h, [counted EXCEPT !.pc = "creating"])
        /\ UNCHANGED <<account, telegram, whatsapp, state, code, total>>

\* start, handle_message: a chat without an account looks for its external id.
Greet(h, p) ==
    LET left == ByExternalId(<<"telegram", p>>)
    IN  /\ job[h].pc = "idle" /\ telegram[p] = None /\ left # None
        /\ Begin(h, Link(p, left))
        /\ UNCHANGED <<account, telegram, whatsapp, state, code, total>>

\* telegram_auth_widget: the account has no number.
WidgetLogin(p) ==
    LET id == First(Ids \ Exists)
    IN  /\ ByExternalId(<<"telegram", p>>) = None /\ id # None
        /\ account' = [account EXCEPT ![id] =
             [ext |-> {<<"telegram", p>>}, phone |-> None, referred |-> FALSE]]
        /\ disturbed' = disturbed \cup {"accounts"}
        /\ UNCHANGED <<telegram, whatsapp, state, code, total, job>>

-----------------------------------------------------------------------------
(* WhatsApp.                                                               *)

\* handle_whatsapp_message up to the registration.  Whether the process is
\* asking is read before the account is looked for, and is not asked again.
Message(q, p, valid, referred) ==
    LET asking == state[q][p] # "initial"
        found == IF whatsapp[p] # None THEN whatsapp[p] ELSE ByPhone(<<p, "long">>)
        answered == IF ~asking THEN "currency"
                    ELSE IF valid /\ state[q][p] = "currency" THEN "timezone"
                    ELSE state[q][p]
    IN  /\ job[q].pc = "idle"
        /\ IF asking /\ valid /\ state[q][p] = "timezone"
           THEN /\ Begin(q, [Idle EXCEPT !.pc = "creating", !.who = p,
                               !.phone = Normalize(p, "long"), !.link = referred,
                               !.seen = total])
                /\ UNCHANGED state
           ELSE /\ state' = IF found # None /\ ~asking THEN state
                            ELSE [state EXCEPT ![q][p] = answered]
                /\ Begin(q, IF found # None /\ whatsapp[p] = None THEN Link(p, found) ELSE Idle)
        /\ UNCHANGED <<account, telegram, whatsapp, code, total>>

\* A restart forgets what was asked.
Restart(q) ==
    /\ job[q].pc = "idle" /\ \E p \in People : state[q][p] # "initial"
    /\ state' = [state EXCEPT ![q] = [p \in People |-> "initial"]]
    /\ UNCHANGED <<account, telegram, whatsapp, code, total, job, disturbed>>

-----------------------------------------------------------------------------
(* What handlers write.                                                    *)

Source(h) == IF h \in Threads THEN "telegram" ELSE "long"

\* external_id is unique.
Taken(x) == ByExternalId(x) # None

\* create_user; a taken external id raises and ends the handler.
CreateUser(h) ==
    LET p == job[h].who
        x == <<Source(h), p>>
        id == First(Ids \ Exists)
        asked == {q \in Processes \ {h} : state[q][p] # "initial"}
    IN  /\ job[h].pc = "creating" /\ id # None
        /\ IF Taken(x)
           THEN /\ job' = [job EXCEPT ![h] = Idle]
                /\ UNCHANGED <<account, disturbed>>
           ELSE /\ account' = [account EXCEPT ![id] =
                     [ext |-> {x}, phone |-> job[h].phone, referred |-> job[h].link]]
                /\ job' = [job EXCEPT ![h].pc = IF job[h].link THEN "counting" ELSE "linking",
                                      ![h].id = id]
                /\ disturbed' = IF asked # {} THEN disturbed \cup {"accounts"} ELSE disturbed
        /\ UNCHANGED <<telegram, whatsapp, state, code, total>>

IncrementRegistrations(h) ==
    /\ job[h].pc = "counting"
    /\ total' = job[h].seen + 1
    /\ job' = [job EXCEPT ![h].pc = "linking"]
    /\ UNCHANGED <<account, telegram, whatsapp, state, code, disturbed>>

\* complete_existing_user: what the row lacks; the counter goes first.
CompleteUser(h) ==
    LET id == job[h].id
        refer == job[h].link /\ ~account[id].referred
    IN  /\ job[h].pc = "completing"
        /\ account' = [account EXCEPT
             ![id].phone = IF @ = None THEN job[h].phone ELSE @,
             ![id].referred = @ \/ job[h].link]
        /\ total' = IF refer THEN job[h].seen + 1 ELSE total
        /\ job' = [job EXCEPT ![h].pc = "linking"]
        /\ UNCHANGED <<telegram, whatsapp, state, code, disturbed>>

\* update_chat_user; the end of a registration.  A process cannot forget twice.
LinkChat(h) ==
    LET p == job[h].who
    IN  /\ job[h].pc = "linking"
        /\ IF h \in Threads
           THEN telegram' = [telegram EXCEPT ![p] = job[h].id] /\ UNCHANGED <<whatsapp, state>>
           ELSE /\ whatsapp' = [whatsapp EXCEPT ![p] = job[h].id]
                /\ state' = IF job[h].phone # None
                            THEN [state EXCEPT ![h][p] = "initial"] ELSE state
                /\ UNCHANGED telegram
        /\ job' = [job EXCEPT ![h] = Idle]
        /\ UNCHANGED <<account, code, total, disturbed>>

Dies(h) ==
    /\ job[h].pc # "idle"
    /\ job' = [job EXCEPT ![h] = Idle]
    /\ disturbed' = disturbed \cup {"count"}
    /\ state' = IF h \in Processes
                THEN [state EXCEPT ![h] = [p \in People |-> "initial"]] ELSE state
    /\ UNCHANGED <<account, telegram, whatsapp, code, total>>

-----------------------------------------------------------------------------
(* Login by a code sent over WhatsApp.                                     *)

SendCode(p, form) ==
    LET phone == Normalize(p, form)
    IN  /\ \E i \in Exists : account[i].phone = phone \/ <<phone[2], p>> \in account[i].ext
        /\ code' = [code EXCEPT ![p] = phone[2]]
        /\ UNCHANGED <<account, telegram, whatsapp, state, total, job, disturbed>>

\* The code is spent; two accounts with one number, or none, are an error.
VerifyCode(p) ==
    LET x == <<code[p], p>>
        same == {i \in Exists : account[i].phone = <<p, code[p]>>}
        joins == /\ ByExternalId(x) = None /\ Cardinality(same) = 1
                 /\ \A i \in same : <<"telegram", p>> \in account[i].ext
    IN  /\ code[p] # None
        /\ code' = [code EXCEPT ![p] = None]
        /\ account' = [i \in Ids |->
             IF joins /\ i \in same THEN [account[i] EXCEPT !.ext = @ \cup {x}]
             ELSE account[i]]
        /\ UNCHANGED <<telegram, whatsapp, state, total, job, disturbed>>

\* The code expires, or the message was not sent.
CodeExpires(p) ==
    /\ code[p] # None
    /\ code' = [code EXCEPT ![p] = None]
    /\ UNCHANGED <<account, telegram, whatsapp, state, total, job, disturbed>>

-----------------------------------------------------------------------------
Next ==
    \/ \E h \in Threads, p, owner \in People, r \in BOOLEAN : ShareContact(h, p, owner, r)
    \/ \E h \in Threads, p \in People : Greet(h, p)
    \/ \E q \in Processes, p \in People, v, r \in BOOLEAN : Message(q, p, v, r)
    \/ \E q \in Processes : Restart(q)
    \/ \E h \in Runners : \/ CreateUser(h) \/ IncrementRegistrations(h)
                           \/ CompleteUser(h) \/ LinkChat(h) \/ Dies(h)
    \/ \E p \in People : WidgetLogin(p) \/ VerifyCode(p) \/ CodeExpires(p)
    \/ \E p \in People, form \in Forms : SendCode(p, form)

Spec == Init /\ [][Next]_vars

-----------------------------------------------------------------------------
\* A chat is only ever linked to an account of its person: whatever numbers,
\* external ids and codes are joined in the account, none is another's.
ChatsStayPersonal ==
    \A p, o \in People : telegram[p] \in Accounts(o) \/ whatsapp[p] \in Accounts(o) => p = o

\* "If you already use Tresqu on WhatsApp with that number, I will link that same
\* account": requests that come one at a time leave a person with one account,
\* unless it is made while some process still asks its questions, or by the widget.
OneAccount ==
    "accounts" \notin disturbed => \A p \in People : Cardinality(Accounts(p)) <= 1

\* With requests that come one at a time and end, the link counts its accounts.
RegistrationsCounted ==
    ("count" \notin disturbed /\ \A h \in Runners : job[h].pc = "idle")
        => total = Cardinality({i \in Exists : account[i].referred})

\* Whatever way people come in, each gets one account, their own, counted once.
PeopleKeepOneAccount ==
    TypeOK /\ ChatsStayPersonal /\ OneAccount /\ RegistrationsCounted

-----------------------------------------------------------------------------
(* What is not kept (see the README): no run checks these.                 *)

\* The questions of one process outlive the account another one created.
OneAccountAlways == \A p \in People : Cardinality(Accounts(p)) <= 1

\* A person with an account is not asked for a currency again.
RegisteredIsServed ==
    \A p \in People, q \in Processes :
        whatsapp[p] # None /\ job[q].pc = "idle" => state[q][p] = "initial"

CountedAlways ==
    (\A h \in Runners : job[h].pc = "idle")
        => total = Cardinality({i \in Exists : account[i].referred})
=============================================================================
